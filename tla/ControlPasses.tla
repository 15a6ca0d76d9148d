---------------------------- MODULE ControlPasses ----------------------------
(***************************************************************************)
(* The passes that rewrite the statements of a control: they remove what C *)
(* has no statement for (return and exit across actions, miss), complete   *)
(* switch statements and flatten blocks.                                   *)
(*                                                                         *)
(* A control is a body and the actions of its one table.  A statement is   *)
(* [op, name, cond, parts]: the IR class; the event, variable or label it  *)
(* names; its condition or right side; its components, branches or cases.  *)
(* A condition is a variable, a literal, or the result of applying the     *)
(* table (hit, miss), after any number of LNot: <<"LNot", "miss">>.        *)
(***************************************************************************)
EXTENDS Integers, Sequences, FiniteSets, SequencesExt

Statement(op, name, cond, parts) == [op |-> op, name |-> name, cond |-> cond, parts |-> parts]

Event(n)       == Statement("Event", n, <<>>, <<>>)
Assign(x, c)   == Statement("Assign", x, c, <<>>)
ApplyTable     == Statement("Apply", "", <<>>, <<>>)
ExitStatement  == Statement("Exit", "", <<>>, <<>>)
ReturnStatement == Statement("Return", "", <<>>, <<>>)
\* verify(c, error.n), in a parser.
Verify(c, n)   == Statement("Verify", n, c, <<>>)
EmptyStatement == Statement("Empty", "", <<>>, <<>>)
BreakStatement == Statement("Break", "", <<>>, <<>>)
Block(parts)   == Statement("Block", "", <<>>, parts)
IfThen(c, t)   == Statement("If", "", c, <<t>>)
IfElse(c, t, f) == Statement("If", "", c, <<t, f>>)
Switch(cases)  == Statement("Switch", "", <<>>, cases)
\* A label that falls through has no parts.
Case(label, parts) == Statement("Case", label, <<>>, parts)

IsNegated(cond) == Len(cond) > 1
AppliesTable(cond) == cond # <<>> /\ Last(cond) \in {"hit", "miss"}

-----------------------------------------------------------------------------
(* What a control means: the events of a run where the table gives env.hit *)
(* and runs env.action, from the true variables env.on.                    *)

Truth(cond, on, env) ==
  LET plain == CASE Last(cond) = "true" -> TRUE    [] Last(cond) = "false" -> FALSE
                 [] Last(cond) = "hit"  -> env.hit [] Last(cond) = "miss"  -> ~env.hit
                 [] OTHER -> Last(cond) \in on
  IN plain = (Len(cond) % 2 = 1)

\* The statement of the first case that applies to the action; labels without a
\* statement share that of the next label.
Selected(cases, action) ==
  LET applies == {i \in DOMAIN cases : cases[i].name \in {action, "default"}}
      from == {j \in DOMAIN cases : cases[j].parts # <<>> /\ \E i \in applies : i <= j}
      first == CHOOSE i \in applies : \A k \in applies : i <= k
      at == {j \in from : j >= first}
  IN IF applies = {} \/ at = {} THEN <<>> ELSE cases[CHOOSE j \in at : \A k \in at : j <= k].parts

\* What a switch of C runs, up to a break: everything from the label of the action, or
\* else from default.
FromLabel(cases, action) ==
  LET At(label) == {i \in DOMAIN cases : cases[i].name = label}
      entry == IF At(action) # {} THEN At(action) ELSE At("default")
  IN FlattenSeq([i \in DOMAIN cases |-> IF \E j \in entry : j <= i THEN cases[i].parts ELSE <<>>])

RECURSIVE Exec(_, _, _, _)
Exec(s, st, actions, env) ==
  LET RunAll(parts, from) ==
        FoldLeft(LAMBDA at, p : IF at.stop = "" THEN Exec(p, at, actions, env) ELSE at, from, parts)
      Applied ==
        LET after == RunAll(<<actions[env.action]>>, [st EXCEPT !.trace = Append(@, env.action)])
        IN [after EXCEPT !.stop = IF @ = "Return" THEN "" ELSE @]
      now == IF s.op \in {"Apply", "Switch", "CSwitch"} \/ AppliesTable(s.cond) THEN Applied ELSE st
  IN IF now.stop # "" THEN now
     ELSE CASE s.op = "Event" -> [st EXCEPT !.trace = Append(@, s.name)]
            [] s.op = "Assign" ->
                 [now EXCEPT !.on = IF Truth(s.cond, now.on, env) THEN @ \cup {s.name} ELSE @ \ {s.name}]
            [] s.op \in {"Exit", "Return", "Break"} -> [st EXCEPT !.stop = s.op]
            [] s.op = "Verify" -> [st EXCEPT !.stop = IF Truth(s.cond, st.on, env) THEN "" ELSE s.name]
            [] s.op = "Block" -> RunAll(s.parts, st)
            [] s.op = "If" -> IF Truth(s.cond, now.on, env) THEN RunAll(<<s.parts[1]>>, now)
                              ELSE RunAll(Tail(s.parts), now)
            [] s.op = "Switch" -> RunAll(Selected(s.parts, env.action), now)
            [] s.op = "CSwitch" -> [RunAll(FromLabel(s.parts, env.action), now) EXCEPT !.stop = IF @ = "Break" THEN "" ELSE @]
            [] OTHER -> now

Meaning(c, env) == Exec(c.body, [trace |-> <<>>, on |-> env.on, stop |-> ""], c.actions, env).trace

\* Every statement of s, itself included.
RECURSIVE Within(_)
Within(s) == {s} \cup UNION {Within(s.parts[i]) : i \in DOMAIN s.parts}
StatementsOf(c) == Within(c.body) \cup UNION {Within(c.actions[a]) : a \in DOMAIN c.actions}

MapParts(s, F(_)) == [s EXCEPT !.parts = [i \in DOMAIN @ |-> F(@[i])]]

\* A pass that treats the body and the actions alike.
MapControl(c, F(_)) == [body |-> F(c.body), actions |-> [a \in DOMAIN c.actions |-> F(c.actions[a])]]

-----------------------------------------------------------------------------
(* RemoveReturns and RemoveExits.  Both visit a statement with the result  *)
(* [s, r]: the new statement, and whether it surely, perhaps or never      *)
(* leaves (TernaryBool).  The flag that is set on leaving guards the rest. *)

Result(s, r) == [s |-> s, r |-> r]
Unless(flag, s) == IfThen(<<"LNot", flag>>, s)

\* preorder(BlockStatement): what follows a statement that surely leaves is dropped,
\* what follows one that may is put under a guard of its own.
LeaveBlock(results, flag) ==
  LET Step(at, x) ==
        IF at.r = "Yes" THEN at
        ELSE LET n == Len(at.segments)
                 with == [at.segments EXCEPT ![n] = Append(@, x.s)]
             IN [segments |-> IF x.r = "Maybe" THEN Append(with, <<>>) ELSE with,
                 r |-> IF x.r = "No" THEN at.r ELSE x.r]
      all == FoldLeft(Step, [segments |-> <<<<>>>>, r |-> "No"], results)
      guarded == [i \in 1 .. Len(all.segments) - 1 |-> Unless(flag, Block(all.segments[i + 1]))]
  IN Result(Block(Head(all.segments) \o guarded), all.r)

\* preorder(IfStatement): the branches of an if leave; cond is that of its condition.
LeaveIf(cond, branches) ==
  LET rs == {branches[i].r : i \in DOMAIN branches} \cup (IF Len(branches) = 1 THEN {"No"} ELSE {})
  IN IF rs = {"Yes"} THEN "Yes" ELSE IF cond = "No" /\ rs = {"No"} THEN "No" ELSE "Maybe"

LeaveSwitch(results) == IF \E i \in DOMAIN results : results[i].r # "No" THEN "Maybe" ELSE "No"

WithResults(s, results) == [s EXCEPT !.parts = [i \in DOMAIN results |-> results[i].s]]

RECURSIVE Returns(_, _)
Returns(s, flag) ==
  LET results == [i \in DOMAIN s.parts |-> Returns(s.parts[i], flag)]
  IN CASE s.op = "Return" -> Result(Block(<<Assign(flag, <<"true">>)>>), "Yes")
       [] s.op = "Exit"   -> Result(s, "Yes")
       [] s.op = "Block"  -> LeaveBlock(results, flag)
       [] s.op = "If"     -> Result(WithResults(s, results), LeaveIf("No", results))
       [] s.op = "Case"   -> Result(WithResults(s, results), IF results = <<>> THEN "No" ELSE results[1].r)
       [] s.op = "Switch" -> Result(WithResults(s, results), LeaveSwitch(results))
       [] OTHER -> Result(s, "No")

HasReturns(s) == \E x \in Within(s) : x.op = "Return"

WithFlag(flag, block) == Block(<<Assign(flag, <<"false">>)>> \o block.parts)

RemoveReturns(c) ==
  LET Removed(s, flag) == IF HasReturns(s) THEN WithFlag(flag, Returns(s, flag).s) ELSE s
  IN [body |-> Removed(c.body, "hasReturned"),
      actions |-> [a \in DOMAIN c.actions |-> Removed(c.actions[a], "hasReturned_" \o a)]]

\* Mutant: an if on the table's result does not ask whether the action has exited.
ExitBranch_Unguarded(result, applies, flag) == result

\* A branch or case that follows an application of a table whose actions may exit.
ExitBranch(result, applies, flag) ==
  IF applies THEN [result EXCEPT !.s = Unless(flag, @)] ELSE result

\* tableExits: an action of the table exits (CallsExit).
RECURSIVE Exits(_, _)
Exits(s, tableExits) ==
  LET results == [i \in DOMAIN s.parts |-> Exits(s.parts[i], tableExits)]
      applies == tableExits /\ (s.op \in {"Apply", "Switch"} \/ AppliesTable(s.cond))
      called == IF applies THEN "Maybe" ELSE "No"
      Branch(x) == ExitBranch(x, applies, "hasExited")
  IN CASE s.op = "Exit"  -> Result(Assign("hasExited", <<"true">>), "Yes")
       [] s.op = "Block" -> LeaveBlock(results, "hasExited")
       [] s.op = "If"    -> Result(WithResults(s, [i \in DOMAIN results |-> Branch(results[i])]),
                                   LeaveIf(called, results))
       [] s.op = "Case"  -> Result(WithResults(s, results), IF results = <<>> THEN "No" ELSE results[1].r)
       [] s.op = "Switch" ->
            LET Guarded(x) == MapParts(x.s, LAMBDA p : IF applies THEN Block(<<Unless("hasExited", p)>>) ELSE p)
            IN Result([s EXCEPT !.parts = [i \in DOMAIN results |-> Guarded(results[i])]],
                      IF applies THEN "Maybe" ELSE LeaveSwitch(results))
       [] OTHER -> Result(s, called)

HasExits(c) == \E x \in StatementsOf(c) : x.op = "Exit"

RemoveExits(c) ==
  LET results == [a \in DOMAIN c.actions |-> Exits(c.actions[a], FALSE)]
      tableExits == \E a \in DOMAIN c.actions : results[a].r # "No"
  IN IF ~HasExits(c) THEN c
     ELSE [body |-> WithFlag("hasExited", Exits(c.body, tableExits).s),
           actions |-> [a \in DOMAIN c.actions |-> results[a].s]]

-----------------------------------------------------------------------------
(* Conditions: RemoveMiss, TableHit, and what constant folding and         *)
(* strength reduction do to them.                                          *)

Swapped(s) == [s EXCEPT !.parts = <<IF Len(@) = 2 THEN @[2] ELSE EmptyStatement, @[1]>>]

\* Mutant: a miss that is assigned to a variable stays.
RemoveMiss_IfOnly(s) ==
  LET IsMiss(x) == x.op = "If" /\ x.cond = <<"miss">>
      Hit(x) == IF IsMiss(x) THEN Swapped([x EXCEPT !.cond = <<"hit">>]) ELSE x
  IN MapParts(Hit(s), Hit)

RECURSIVE RemoveMiss(_)
RemoveMiss(s) ==
  LET hit == [s EXCEPT !.cond = IF s.op = "If" /\ @ = <<"miss">> THEN <<"hit">>
                                ELSE Front(@) \o <<"LNot", "hit">>]
      here == IF s.cond = <<>> \/ Last(s.cond) # "miss" THEN s
              ELSE IF s.op = "If" /\ s.cond = <<"miss">> THEN Swapped(hit) ELSE hit
  IN MapParts(here, RemoveMiss)

RECURSIVE TableHit(_)
TableHit(s) ==
  LET True  == Assign(s.name, <<"true">>)
      False == Assign(s.name, <<"false">>)
  IN IF s.op = "Assign" /\ s.cond = <<"hit">> THEN IfElse(<<"hit">>, True, False)
     ELSE IF s.op = "Assign" /\ s.cond = <<"LNot", "hit">> THEN IfElse(<<"hit">>, False, True)
     ELSE MapParts(s, TableHit)

\* postorder(LNot), postorder(IfStatement) of DoConstantFolding.
RECURSIVE FoldConditions(_)
FoldConditions(s0) ==
  LET s == MapParts(s0, FoldConditions)
      literal == s.cond # <<>> /\ Last(s.cond) \in {"true", "false"}
      value == Truth(s.cond, {}, [hit |-> FALSE])
  IN IF ~literal THEN s
     ELSE IF s.op # "If" THEN [s EXCEPT !.cond = IF value THEN <<"true">> ELSE <<"false">>]
     ELSE IF value THEN s.parts[1]
     ELSE IF Len(s.parts) = 1 THEN EmptyStatement ELSE s.parts[2]

\* postorder(LNot) of DoStrengthReduction: two LNot cancel.
RECURSIVE ReduceConditions(_)
ReduceConditions(s) ==
  MapParts([s EXCEPT !.cond = IF @ = <<>> THEN @ ELSE (IF Len(@) % 2 = 0 THEN <<"LNot">> ELSE <<>>) \o <<Last(@)>>],
           ReduceConditions)

-----------------------------------------------------------------------------
(* DoSimplifyControlFlow, once; it is repeated until nothing changes.  The *)
(* result for a statement is a sequence: nothing, a statement, or the      *)
(* components of a block.                                                  *)

SimplifyIf(s) ==
  LET t == IF IsNegated(s.cond) THEN Swapped([s EXCEPT !.cond = Tail(@)]) ELSE s
      empty == \A i \in DOMAIN t.parts : t.parts[i].op = "Empty"
  IN IF empty /\ ~AppliesTable(t.cond) THEN EmptyStatement ELSE t

SimplifyBlock(s, parent) ==
  CASE parent \in {"Case", "Body"} -> <<s>>
    [] parent \in {"Block", "State"} -> s.parts
    [] s.parts = <<>> -> <<EmptyStatement>>
    [] Len(s.parts) = 1 -> s.parts
    [] OTHER -> <<s>>

\* Labels at the end that fall through to nothing go; without cases only the
\* application of the table is left.
SimplifySwitch(s) ==
  LET kept == {n \in 1 .. Len(s.parts) : s.parts[n].parts # <<>>}
      last == IF kept = {} THEN 0 ELSE CHOOSE n \in kept : \A m \in kept : m <= n
  IN IF s.parts = <<>> THEN ApplyTable ELSE [s EXCEPT !.parts = SubSeq(@, 1, last)]

RECURSIVE Simplify(_, _)
Simplify(s, parent) ==
  LET t == [s EXCEPT !.parts = FlattenSeq([i \in DOMAIN @ |-> Simplify(@[i], s.op)])]
  IN CASE s.op = "Block"  -> SimplifyBlock(t, parent)
       [] s.op = "If"     -> <<SimplifyIf(t)>>
       [] s.op = "Switch" -> <<SimplifySwitch(t)>>
       [] s.op = "Empty"  -> IF parent \in {"Block", "State"} THEN <<>> ELSE <<s>>
       [] OTHER -> <<t>>

SimplifyControlFlow(c) == MapControl(c, LAMBDA s : Simplify(s, "Body")[1])

\* A switch that does not name every action of the table gets a default case.
RECURSIVE AddDefault(_, _)
AddDefault(s, names) ==
  LET t == MapParts(s, LAMBDA p : AddDefault(p, names))
      labels == {t.parts[i].name : i \in DOMAIN t.parts}
  IN IF s.op # "Switch" \/ "default" \in labels \/ names \subseteq labels THEN t
     ELSE [t EXCEPT !.parts = Append(@, Case("default", <<Block(<<>>)>>))]

SwitchAddDefault(c) == MapControl(c, LAMBDA s : AddDefault(s, DOMAIN c.actions))

(* ControlBodyTranslator: every case of the C switch ends with a break,    *)
(* one without a statement as well.                                        *)

\* Mutant: the break is forgotten.
Broken_None(c) == c

Broken(c) == [c EXCEPT !.parts = Append(@, BreakStatement)]

RECURSIVE Translate(_)
Translate(s) ==
  LET t == MapParts(s, Translate)
  IN IF s.op = "Switch" THEN [MapParts(t, Broken) EXCEPT !.op = "CSwitch"] ELSE t

\* What the translation relies on: the result of a table is only tested as hit, in a
\* condition of its own; there is nothing to leave.
Translatable(c) ==
  \A s \in StatementsOf(c) :
    /\ s.op \notin {"Exit", "Return"}
    /\ AppliesTable(s.cond) => s.op = "If" /\ s.cond = <<"hit">>

\* The label of the action has no statement.
FallsThrough(c, action) ==
  \E s \in StatementsOf(c) : s.op = "Case" /\ s.name = action /\ s.parts = <<>>
=============================================================================
