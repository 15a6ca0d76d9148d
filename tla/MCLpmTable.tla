----------------------------- MODULE MCLpmTable -----------------------------
(***************************************************************************)
(* LpmTable for TLC: tables with an exact field and without, aligned in    *)
(* different ways, without const entries and with one or two of them.      *)
(***************************************************************************)
EXTENDS LpmTable

Decl(exact, pad, tail, consts) ==
  [exactBytes |-> exact, padBytes |-> pad, tailBytes |-> tail, entries |-> consts]

OneField  == {Decl(0, 0, 0, consts) : consts \in BoundedSeq(Entry(0), 2)}
TwoFields == {Decl(1, pad, tail, <<>>) : pad, tail \in {0, 1}}
MCTables  == OneField \cup TwoFields

\* An exact field and const entries.
ConstTwoFields == {Decl(1, 0, 0, <<e>>) : e \in Entry(1)}

=============================================================================
