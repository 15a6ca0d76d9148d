------------------------------ MODULE Compiler ------------------------------
(***************************************************************************)
(* The compilation of a program: the passes of the front end and of the    *)
(* eBPF mid end, in their order, as the pass manager invokes them.  A      *)
(* program is an assignment, a control and a parser; the passes over each  *)
(* are those of ExprPasses (by the rules of ExprRules), ControlPasses and  *)
(* ParserPasses.                                                           *)
(*                                                                         *)
(* The promise is that of a compiler: whatever passes have run, the        *)
(* program means what its source means.                                    *)
(***************************************************************************)
EXTENDS ParserPasses

CONSTANTS
  Sources,    \* the programs
  Values      \* tuples of values for the variables of the expressions

VARIABLES
  source,     \* the program that is compiled
  prog,       \* the program that the last pass returned
  group,      \* the index of the pass manager that runs (0: an error), and
  at,         \* of the pass that it invokes next
  before      \* the program at the start of this round (PassRepeated)

vars == <<source, prog, group, at, before>>
position == <<group, at>>

Once(pass)       == [repeated |-> FALSE, passes |-> <<pass>>]
Repeated(passes) == [repeated |-> TRUE, passes |-> passes]

SimplifyGroup == Repeated(<<"SimplifyControlFlow">>)
RemoveParserControlFlow == Repeated(<<"DoRemoveParserControlFlow", "SimplifyControlFlow">>)

\* FrontEnd::run and MidEnd::run: the passes that are modelled, in order.
FrontEnd == <<
  Once("CreateBuiltins"), RemoveParserControlFlow,
  Repeated(<<"ConstantFolding", "StrengthReduction", "Reassociation", "UselessCasts">>),
  SimplifyGroup, Once("SwitchAddDefault"), Once("SimplifyParsers"), SimplifyGroup,
  RemoveParserControlFlow, Once("RemoveReturns"), SimplifyGroup, RemoveParserControlFlow >>

MidEnd == <<
  Once("RemoveMiss"), SimplifyGroup, Once("RemoveExits"), Once("ConstantFolding"),
  Once("SimplifySelectCases"), Once("HandleNoMatch"), Once("SimplifyParsers"), Once("StrengthReduction"),
  Once("RemoveSelectBooleans"), Once("SingleArgumentSelect"), Once("ConstantFolding"), SimplifyGroup,
  Once("TableHit"), Once("RemoveLeftSlices"), Once("Lower") >>

Schedule == FrontEnd \o MidEnd

\* What a pass does to each part.
OnAssign(pass, s) ==
  CASE pass \in {"ConstantFolding", "StrengthReduction", "Reassociation", "UselessCasts", "Lower"} ->
         RewriteAssign(pass, s)
    [] pass = "RemoveLeftSlices" -> RemoveLeftSlices(s)
    [] OTHER -> s

OnControl(pass, c) ==
  CASE pass = "ConstantFolding"     -> MapControl(c, FoldConditions)
    [] pass = "StrengthReduction"   -> MapControl(c, ReduceConditions)
    [] pass = "SimplifyControlFlow" -> SimplifyControlFlow(c)
    [] pass = "SwitchAddDefault"    -> SwitchAddDefault(c)
    [] pass = "RemoveReturns"       -> RemoveReturns(c)
    [] pass = "RemoveMiss"          -> MapControl(c, RemoveMiss)
    [] pass = "RemoveExits"         -> RemoveExits(c)
    [] pass = "TableHit"            -> MapControl(c, TableHit)
    [] OTHER -> c

\* Constant folding and strength reduction reach the statements and the keys of a state.
OnStatements(states, F(_)) ==
  [n \in DOMAIN states |-> [states[n] EXCEPT !.parts = [i \in DOMAIN @ |-> F(@[i])]]]

OnParser(pass, p) ==
  CASE pass = "CreateBuiltins"      -> CreateBuiltins(p)
    [] pass = "DoRemoveParserControlFlow" -> SplitStates(p)
    [] pass = "SimplifyControlFlow" -> SimplifyStates(p)
    [] pass = "ConstantFolding" ->
         MapSelects(OnStatements(p, FoldConditions), LAMBDA t : FoldSelect(RewriteKeys(pass, t)))
    [] pass = "StrengthReduction" ->
         MapSelects(OnStatements(p, ReduceConditions), LAMBDA t : RewriteKeys(pass, t))
    [] pass \in {"Reassociation", "UselessCasts", "Lower"} -> MapSelects(p, LAMBDA t : RewriteKeys(pass, t))
    [] pass = "SimplifyParsers"      -> SimplifyParsers(p)
    [] pass = "SimplifySelectCases"  -> MapSelects(p, SimplifyCases)
    [] pass = "HandleNoMatch"        -> HandleNoMatch(p)
    [] pass = "RemoveSelectBooleans" -> MapSelects(p, RemoveSelectBooleans)
    [] pass = "SingleArgumentSelect" -> MapSelects(p, SingleArgumentSelect)
    [] OTHER -> p

AfterPass(pass, p) ==
  [assign |-> OnAssign(pass, p.assign), control |-> OnControl(pass, p.control), parser |-> OnParser(pass, p.parser)]

Running  == group \in DOMAIN Schedule
Compiled == group > Len(Schedule)

\* SimplifyParsers refuses a parser that never ends.
Refused(pass, p) == pass = "SimplifyParsers" /\ ReachableFrom(p.parser, {"start"}) \cap {"accept", "reject"} = {}

Init ==
  /\ source \in Sources
  /\ prog = source
  /\ before = source
  /\ group = 1
  /\ at = 1

HasPass == Running /\ at <= Len(Schedule[group].passes)
Pass == Schedule[group].passes[at]
RoundEnds == Running /\ at > Len(Schedule[group].passes)

\* PassManager::apply_visitor: the next pass.
Invoke ==
  /\ HasPass /\ ~Refused(Pass, prog)
  /\ prog' = AfterPass(Pass, prog)
  /\ at' = at + 1
  /\ UNCHANGED <<source, group, before>>

\* A pass that reports an error is the last one.
Fail ==
  /\ HasPass /\ Refused(Pass, prog)
  /\ group' = 0
  /\ UNCHANGED <<source, prog, at, before>>

\* Mutant: the program is compared with the one before the first round.
Repeat_Stale ==
  /\ RoundEnds
  /\ Schedule[group].repeated /\ prog # before
  /\ at' = 1
  /\ UNCHANGED <<source, prog, group, before>>

\* PassRepeated::apply_visitor: the passes changed the program.
Repeat ==
  /\ RoundEnds
  /\ Schedule[group].repeated /\ prog # before
  /\ at' = 1
  /\ before' = prog
  /\ UNCHANGED <<source, prog, group>>

Continue ==
  /\ RoundEnds
  /\ ~Schedule[group].repeated \/ prog = before
  /\ group' = group + 1
  /\ at' = 1
  /\ before' = prog
  /\ UNCHANGED <<source, prog>>

Next == Invoke \/ Fail \/ Repeat \/ Continue

\* The pass manager goes on: what a step of Next does to the position.  A pass is a
\* function that returns, so nothing keeps the next one from being invoked.
Advance == Running /\ group' \in {0, group, group + 1} /\ at' \in {1, at, at + 1}

Spec == Init /\ [][Next]_vars /\ WF_position(Advance)

-----------------------------------------------------------------------------

Results == [on : SUBSET {"x"}, hit : BOOLEAN, action : DOMAIN source.control.actions]

\* Every pass keeps the value that the assignment gives its variable.
AssignmentKept ==
  prog.assign # source.assign =>
    \A vals \in Values : Assigned(prog.assign, vals) = Assigned(source.assign, vals)

\* Every pass keeps the events of the control, whatever the table gives: return and
\* exit, now flags and guards, still leave what they left.
ControlKept ==
  prog.control # source.control =>
    \A env \in Results : Meaning(prog.control, env) = Meaning(source.control, env)

\* Every pass keeps what the parser does, with its verdict and its error.
ParserKept ==
  prog.parser # source.parser =>
    \A vals \in Values : ParserMeaning(prog.parser, vals) = ParserMeaning(source.parser, vals)

\* What comes out of the passes is what the code generator can translate: the passes
\* establish together, in this order, what each construct of C needs.
ReadyForCode == Compiled => Translatable(prog.control) /\ ParserTranslatable(prog.parser)

\* The C code of the assignment stores the value of the source, where StoresExactly
\* says of the last expression that it does.
AssignmentCode ==
  Compiled /\ StoresExactly(prog.assign.right) =>
    \A vals \in Values :
      StoresValue(prog.assign.right.type, prog.assign.right, vals, Assigned(source.assign, vals))

\* The C code of the control does what the source does, unless the table runs an action
\* whose label has no statement.
ControlCode ==
  Compiled =>
    \A env \in Results :
      ~FallsThrough(prog.control, env.action) =>
        Meaning(MapControl(prog.control, Translate), env) = Meaning(source.control, env)

\* The labels and jumps of the parser's code take the packet where the source takes it.
ParserCoded ==
  Compiled => \A vals \in Values : ParserCode(prog.parser, vals) = ParserMeaning(source.parser, vals)

\* "Rather than generate incorrect results, we reject programs that do not perform
\* arithmetic on machine-supported widths" (codeGen.cpp:429): a program that is not
\* rejected stores the right value.
NoIncorrectResults ==
  Compiled =>
    \A vals \in Values :
      StoresValue(prog.assign.right.type, prog.assign.right, vals, Assigned(source.assign, vals))

\* The passes that are repeated until nothing changes come to an end.
Terminates == <>~Running
=============================================================================
