---------------------------- MODULE ParserPasses ----------------------------
(***************************************************************************)
(* The passes that rewrite the state machine of a parser, and the code of  *)
(* its states.  A parser is a function from the names of its states to     *)
(* [parts, next]: the statements and the transition, which is a goto, a    *)
(* select of keys, or none.  A case of a select is [set, to]: an entry for *)
(* every key, or no entry at all for default.                              *)
(*                                                                         *)
(* accept and reject are not states of the function.  Conditions are on    *)
(* the variable "x", which is variable 1 of the expressions.               *)
(***************************************************************************)
EXTENDS ControlPasses, ExprCode

Transition(kind, to, keys, cases) == [kind |-> kind, to |-> to, keys |-> keys, cases |-> cases]
Goto(name)          == Transition("goto", name, <<>>, <<>>)
Select(keys, cases) == Transition("select", "", keys, cases)
NoTransition        == Transition("none", "", <<>>, <<>>)
State(parts, next)  == [parts |-> parts, next |-> next]

\* Entries of a keyset: a value, a value under a mask, anything.
Exactly(v)   == [op |-> "Value", v |-> v, m |-> 0]
Under(v, m)  == [op |-> "Mask", v |-> v, m |-> m]
Anything     == [op |-> "Default", v |-> 0, m |-> 0]
IsDefault(c) == c.set = <<>>

EntryMatches(entry, value) ==
  CASE entry.op = "Value" -> value = entry.v
    [] entry.op = "Mask"  -> value & entry.m = entry.v & entry.m
    [] entry.op = "Default" -> TRUE

CaseMatches(c, values) == \A i \in DOMAIN c.set : EntryMatches(c.set[i], values[i])

\* The first case for these values of the keys.
Chosen(cases, values) ==
  LET matching == {i \in DOMAIN cases : CaseMatches(cases[i], values)}
  IN IF matching = {} THEN <<>> ELSE <<cases[CHOOSE i \in matching : \A j \in matching : i <= j].to>>

-----------------------------------------------------------------------------
(* What a parser means: the events, the verdict and the error.  vals are   *)
(* the values of the variables; nothing is consumed, so that a state that  *)
(* is entered again is entered for ever.                                   *)

ParserEnv(vals) == [on |-> IF vals[1] = 1 THEN {"x"} ELSE {}]

Verdict(st, verdict, error) == [trace |-> st.trace, verdict |-> verdict, error |-> error]

\* KeyValue(k) is the value of a key; unmatched the error of a select without a match.
RECURSIVE RunState(_, _, _, _, _, _)
RunState(states, name, st, env, KeyValue(_), unmatched) ==
  LET s == states[name]
      Step(at, p) == IF at.stop = "" THEN Exec(p, at, <<>>, env) ELSE at
      after == FoldLeft(Step, [st EXCEPT !.seen = @ \cup {name}], s.parts)
      Continue(to) == RunState(states, to, after, env, KeyValue, unmatched)
      chosen == Chosen(s.next.cases, [i \in DOMAIN s.next.keys |-> KeyValue(s.next.keys[i])])
  IN IF name \in {"accept", "reject"} THEN Verdict(st, name, "")
     ELSE IF name \in st.seen THEN Verdict(st, "loop", "")
     ELSE IF after.stop # "" THEN Verdict(after, "reject", after.stop)
     ELSE CASE s.next.kind = "none" -> Verdict(after, "reject", "")
            [] s.next.kind = "goto" -> Continue(s.next.to)
            [] s.next.kind = "select" ->
                 IF chosen = <<>> THEN Verdict(after, "reject", unmatched) ELSE Continue(chosen[1])

Started(vals) == [trace |-> <<>>, on |-> ParserEnv(vals).on, stop |-> "", seen |-> {}]

ParserMeaning(states, vals) ==
  RunState(states, "start", Started(vals), ParserEnv(vals), LAMBDA k : Value(k, vals), "NoMatch")

\* StateTranslationVisitor: a key is stored in a variable of its C type and compared
\* with the labels in order; without a match the code goes to reject, with no error.
ParserCode(states, vals) ==
  LET Stored(k) == Converted(Computed(k, vals), CWidth(k.type), FALSE).v
  IN RunState(states, "start", Started(vals), ParserEnv(vals), Stored, "")

-----------------------------------------------------------------------------

\* A state without a transition goes to reject.
CreateBuiltins(states) ==
  [n \in DOMAIN states |-> IF states[n].next.kind = "none" THEN [states[n] EXCEPT !.next = Goto("reject")] ELSE states[n]]

-----------------------------------------------------------------------------
(* RemoveParserControlFlow: an if ends its state.                          *)

RECURSIVE Fresh(_, _)
Fresh(name, used) == IF name \notin used THEN name ELSE Fresh(name \o "_", used)

ConditionKey(cond) ==
  LET plain == IF Last(cond) \in {"true", "false"} THEN BoolLiteral(Last(cond) = "true") ELSE Path(Bool, 1)
  IN IF Len(cond) % 2 = 1 THEN plain ELSE NotOf(plain)

IsIf(s) == s.op = "If"

\* The states that a state becomes: up to the first if, its branches, and the join,
\* which has the rest.
RECURSIVE SplitState(_, _, _, _)
SplitState(base, name, s, used) ==
  IF ~\E i \in DOMAIN s.parts : IsIf(s.parts[i]) THEN name :> s
  ELSE LET k == SelectInSeq(s.parts, IsIf)
           f == s.parts[k]
           join  == Fresh(base \o "_join", used)
           true  == Fresh(base \o "_true", used)
           false == IF Len(f.parts) = 2 THEN Fresh(base \o "_false", used) ELSE join
           cases == <<[set |-> <<Exactly(1)>>, to |-> true], [set |-> <<Exactly(0)>>, to |-> false]>>
       IN name :> State(SubSeq(s.parts, 1, k - 1), Select(<<ConditionKey(f.cond)>>, cases))
          @@ true :> State(<<f.parts[1]>>, Goto(join))
          @@ (IF false = join THEN <<>> ELSE false :> State(<<f.parts[2]>>, Goto(join)))
          @@ SplitState(base, join, State(SubSeq(s.parts, k + 1, Len(s.parts)), s.next),
                        used \cup {join, true, false})

SplitStates(states) ==
  LET Split(all, n) == SplitState(n, n, states[n], DOMAIN all \cup DOMAIN states) @@ all
  IN FoldSet(LAMBDA n, all : Split(all, n), <<>>, DOMAIN states)

SimplifyStates(states) ==
  [n \in DOMAIN states |->
     [states[n] EXCEPT !.parts = FlattenSeq([i \in DOMAIN @ |-> Simplify(@[i], "State")])]]

-----------------------------------------------------------------------------
(* SimplifyParsers: states that start does not reach go, chains of states  *)
(* become one.                                                             *)

\* ComputeParserCG: a select without default may go to reject.
Edges(s) ==
  CASE s.next.kind = "none" -> {}
    [] s.next.kind = "goto" -> {s.next.to}
    [] s.next.kind = "select" ->
         {s.next.cases[i].to : i \in DOMAIN s.next.cases}
           \cup (IF \E i \in DOMAIN s.next.cases : IsDefault(s.next.cases[i]) THEN {} ELSE {"reject"})

RECURSIVE ReachableFrom(_, _)
ReachableFrom(states, names) ==
  LET more == names \cup UNION {Edges(states[n]) : n \in names \cap DOMAIN states}
  IN IF more = names THEN names ELSE ReachableFrom(states, more)

\* CollapseChains: the only successor of n is a state that nothing else goes to.
Chained(states, n) ==
  LET edges == Edges(states[n])
      next  == CHOOSE t \in edges : TRUE
      callers == {m \in DOMAIN states : next \in Edges(states[m])}
  IN Cardinality(edges) = 1 /\ next \notin {"accept", "reject", "start"} /\ Cardinality(callers) = 1

RECURSIVE Collapsed(_, _)
Collapsed(states, n) ==
  IF ~Chained(states, n) THEN states[n]
  ELSE LET rest == Collapsed(states, CHOOSE t \in Edges(states[n]) : TRUE)
       IN [rest EXCEPT !.parts = states[n].parts \o @]

SimplifyParsers(states) ==
  LET reachable == Restrict(states, ReachableFrom(states, {"start"}) \cap DOMAIN states)
      inside == UNION {Edges(reachable[n]) : n \in {m \in DOMAIN reachable : Chained(reachable, m)}}
  IN [n \in DOMAIN reachable \ inside |-> Collapsed(reachable, n)]

-----------------------------------------------------------------------------
(* Selects.                                                                *)

MapSelects(states, F(_)) ==
  [n \in DOMAIN states |-> IF states[n].next.kind = "select" THEN [states[n] EXCEPT !.next = F(@)] ELSE states[n]]

\* postorder(SelectExpression) of DoConstantFolding: a select of constants is a goto,
\* or has no case that applies.
FoldSelect(t) ==
  LET chosen == Chosen(t.cases, [i \in DOMAIN t.keys |-> t.keys[i].v])
  IN IF ~\A i \in DOMAIN t.keys : IsConstant(t.keys[i]) THEN t
     ELSE IF chosen = <<>> THEN [t EXCEPT !.cases = <<>>] ELSE Goto(chosen[1])

RewriteKeys(pass, t) == [t EXCEPT !.keys = [i \in DOMAIN @ |-> Rewrite(pass, @[i])]]

\* SimplifySelectCases: the cases after default go; a select with default alone is a goto.
SimplifyCases(t) ==
  LET k == SelectInSeq(t.cases, IsDefault)
  IN IF k = 0 \/ k = Len(t.cases) THEN t
     ELSE IF k = 1 THEN Goto(t.cases[1].to) ELSE [t EXCEPT !.cases = SubSeq(@, 1, k)]

\* Mutant: the select of what matches nothing goes to reject without the error.
HandleNoMatch_Silent(states) ==
  MapSelects(states, LAMBDA t :
    IF \E i \in DOMAIN t.cases : IsDefault(t.cases[i]) THEN t
    ELSE [t EXCEPT !.cases = Append(@, [set |-> <<>>, to |-> "reject"])])

\* Every select without default gets one, to a state that raises NoMatch.
HandleNoMatch(states) ==
  LET name == Fresh("noMatch", DOMAIN states)
      Default(t) == IF \E i \in DOMAIN t.cases : IsDefault(t.cases[i]) THEN t
                    ELSE [t EXCEPT !.cases = Append(@, [set |-> <<>>, to |-> name])]
  IN MapSelects(states, Default) @@ name :> State(<<Verify(<<"false">>, "NoMatch")>>, Goto("reject"))

\* Keys of type bool become bit<1>; so do the literals of the cases, 0 and 1.
RemoveSelectBooleans(t) ==
  [t EXCEPT !.keys = [i \in DOMAIN @ |-> IF @[i].type = Bool THEN Node("Cast", 1, <<@[i]>>) ELSE @[i]]]

\* Mutant: an exact entry next to a masked one gets an empty mask.
EntryMask_None(entry, width) == IF entry.op = "Mask" THEN entry.m ELSE 0

EntryMask(entry, width) ==
  CASE entry.op = "Mask" -> entry.m [] entry.op = "Default" -> 0 [] entry.op = "Value" -> 2 ^ width - 1

\* Several keys become one, their concatenation, and so the values and the masks of an
\* entry; default becomes a mask of zeros.
SingleArgumentSelect(t) ==
  LET Bits(all, i, n) == all * 2 ^ t.keys[i].type + n
      indices == [i \in DOMAIN t.keys |-> i]
      key == FoldLeft(LAMBDA e, k : Node("Concat", e.type + k.type, <<e, k>>), Head(t.keys), Tail(t.keys))
      Joined(set) ==
        LET v == FoldLeft(LAMBDA all, i : Bits(all, i, set[i].v), 0, indices)
            m == FoldLeft(LAMBDA all, i : Bits(all, i, EntryMask(set[i], t.keys[i].type)), 0, indices)
        IN IF \A i \in DOMAIN set : set[i].op = "Value" THEN Exactly(v) ELSE Under(v, m)
      Single(c) == IF IsDefault(c) THEN Under(0, 0) ELSE IF Len(t.keys) = 1 THEN c.set[1] ELSE Joined(c.set)
  IN [t EXCEPT !.keys = <<key>>,
               !.cases = [i \in DOMAIN @ |-> [@[i] EXCEPT !.set = <<Single(t.cases[i])>>]]]

-----------------------------------------------------------------------------

\* What the code of a parser relies on: no if, one key, and a select that always has a case.
ParserTranslatable(states) ==
  \A n \in DOMAIN states :
    /\ \A i \in DOMAIN states[n].parts : states[n].parts[i].op \notin {"If", "Block"}
    /\ states[n].next.kind = "select" =>
         /\ Len(states[n].next.keys) = 1 /\ states[n].next.keys[1].type # Bool
         /\ \E i \in DOMAIN states[n].next.cases : states[n].next.cases[i].set = <<Under(0, 0)>>
=============================================================================
