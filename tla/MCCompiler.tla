----------------------------- MODULE MCCompiler -----------------------------
(***************************************************************************)
(* Programs for the compiler.  A byte has 2 bits: u8, u16, u32 and u64     *)
(* have 2, 4, 8 and 16, and bit<3> stands for the widths that are masked.  *)
(***************************************************************************)
EXTENDS Compiler

\* x, two of bit<2>, one of bit<3>, one of bit<8>.
MCValues ==
  {<<x, a, b, cd[1], cd[2]>> : x \in 0 .. 1, a \in {0, 1, 3}, b \in {1, 2}, cd \in {<<0, 255>>, <<5, 129>>, <<7, 0>>}}

X == Path(Bool, 1)
First(w)  == Path(w, CASE w = 2 -> 2 [] w = 3 -> 4 [] w = 8 -> 5)
Second(w) == IF w = 2 THEN Path(2, 3) ELSE Node("Cast", w, <<Path(2, 3)>>)

Unary(w, S)  == {Node(op, w, <<e>>) : op \in {"Cmpl", "Neg"}, e \in S}
Binary(w, S, T) == {Node(op, w, <<e, f>>) : op \in Arithmetic \ {"Div", "Mod"}, e \in S, f \in T}
Shifts(w, S) == {Node(op, w, <<e, Constant(InfInt, n)>>) : op \in {"Shl", "Shr"}, e \in S, n \in {0, 1}}
Quotients(w, S) == {Node(op, w, <<e, Constant(w, n)>>) : op \in {"Div", "Mod"}, e \in S, n \in {1, 2, 3}}
Muxes(w, S) ==
  {Node("Mux", w, <<c, e, First(w)>>) :
     e \in S, c \in {X, NotOf(X)} \cup {NotOf(Node(op, Bool, <<First(w), Second(w)>>)) : op \in Relations}}
Casts(w, S) == {Node("Cast", w, <<Node("Cast", u, <<e>>)>>) : u \in {2, 3, 8}, e \in S}
Joins(S) == {Node("Concat", 5, <<e, Path(3, 4)>>) : e \in S} \cup {Node("Concat", 5, <<Path(3, 4), e>>) : e \in S}

Small(w) == {First(w), Constant(w, 0), Constant(w, 3)}
Once1(w) == Unary(w, {First(w)}) \cup Binary(w, {First(w)}, {Second(w), Constant(w, 0), Constant(w, 2)})
              \cup Shifts(w, {First(w)})
Twice(w) ==
  Unary(w, Once1(w)) \cup Shifts(w, Once1(w)) \cup Quotients(w, Once1(w) \cup Small(w)) \cup Casts(w, Once1(w))
    \cup Binary(w, Once1(w), {First(w), Constant(w, 1)}) \cup Muxes(w, Small(w) \cup Unary(w, {Second(w)}))

Slices(e) == {Slice(e, hi, lo) : hi \in 0 .. e.type - 1, lo \in 0 .. e.type - 1}
Narrow(S) == {e \in S : e.type > 0 /\ (e.op = "Slice" => e.args[2].v >= e.args[3].v)}

Rights ==
  Twice(2) \cup Twice(3) \cup Twice(8)
    \cup Joins(Once1(2) \cup Small(2)) \cup Narrow(UNION {Slices(e) : e \in Once1(3) \cup Joins(Small(2)) \cup Casts(3, Joins(Small(2))) \cup {Node("Cast", 1, <<X>>)}})

Simple == [body |-> Block(<<>>), actions |-> [a \in {"a1", "a2"} |-> Block(<<>>)]]
Trivial == "start" :> State(<<>>, Goto("accept"))

Assignments ==
  {[left |-> Path(e.type, 9), right |-> e] : e \in Rights}
    \cup {[left |-> l, right |-> Node("BXor", l.type, <<r, Constant(l.type, 1)>>)] :
            l \in Narrow(Slices(Path(3, 4))), r \in {Constant(3, 1)}}

-----------------------------------------------------------------------------

Leaves == {Block(<<ExitStatement>>), Block(<<ReturnStatement>>), Block(<<Event("e1")>>)}
Conditions == {<<"x">>, <<"LNot", "x">>, <<"hit">>, <<"miss">>, <<"LNot", "miss">>, <<"LNot", "true">>}
Parts == {<<>>} \cup {<<l>> : l \in Leaves}

Tested ==
  {IfThen(c, l) : c \in Conditions, l \in Leaves}
    \cup {IfElse(c, l, m) : c \in Conditions, l \in Leaves, m \in Leaves}
    \cup {Assign("x", c) : c \in {<<"hit">>, <<"miss">>, <<"LNot", "miss">>}} \cup {ApplyTable}
    \cup {Switch(<<Case("a1", p), Case(l, q)>>) : p \in Parts, q \in Parts, l \in {"a2", "default"}}
    \cup {Switch(<<Case("a2", p)>>) : p \in Parts}

ActionBodies ==
  {Block(<<Event("in")>>), Block(<<IfThen(<<"x">>, Block(<<ExitStatement>>)), Event("in")>>),
   Block(<<IfElse(<<"x">>, Block(<<ReturnStatement>>), Block(<<Event("no")>>)), Event("in")>>)}

Controls ==
  {[body |-> Block(b), actions |-> [a \in {"a1", "a2"} |-> IF a = "a1" THEN act ELSE Block(<<Event("two")>>)]] :
     act \in ActionBodies,
     b \in UNION {{<<s, IfThen(<<"x">>, Block(<<Event("e2")>>)), Event("e3")>>,
                   <<IfThen(<<"x">>, Block(<<s>>)), Event("e3")>>} : s \in Tested}}

-----------------------------------------------------------------------------

Default(to) == [set |-> <<>>, to |-> to]
For(set, to) == [set |-> set, to |-> to]

Transitions ==
  {Goto("s1"), NoTransition}
    \cup {Select(<<k>>, cases) : k \in {Path(2, 2), Constant(2, 1), Node("BAnd", 2, <<Path(2, 2), Constant(2, 1)>>)},
            cases \in {<<For(<<Exactly(1)>>, "s1")>>, <<For(<<Exactly(1)>>, "s1"), For(<<Under(2, 2)>>, "s2")>>,
                       <<For(<<Under(1, 1)>>, "s2"), Default("s1"), For(<<Exactly(0)>>, "s2")>>,
                       <<Default("s1"), For(<<Exactly(0)>>, "s2")>>}}
    \cup {Select(<<k, Path(3, 4)>>, cases) : k \in {Path(2, 3), X},
            cases \in {<<For(<<Exactly(1), Exactly(5)>>, "s1"), Default("s2")>>,
                       <<For(<<Exactly(1), Anything>>, "s1")>>,
                       <<For(<<Exactly(0), Under(1, 1)>>, "s1"), For(<<Exactly(1), Exactly(7)>>, "s2")>>}}

StartParts ==
  {<<Event("e1")>>, <<Verify(<<"x">>, "Wrong"), Event("e1")>>,
   <<IfThen(<<"x">>, Block(<<Event("e1")>>)), Event("e2")>>,
   <<IfElse(<<"LNot", "x">>, Block(<<Event("e1")>>), Block(<<Verify(<<"x">>, "Wrong"), Event("e2")>>)),
     IfThen(<<"x">>, Block(<<Event("e3")>>))>>}

SecondStates == {State(<<Event("f1")>>, t) : t \in {Goto("accept"), Goto("s2"), Goto("start"), Goto("reject"),
  Select(<<Path(2, 3)>>, <<For(<<Exactly(1)>>, "accept"), For(<<Exactly(2)>>, "start")>>)}}

Parsers ==
  {"start" :> State(parts, t) @@ "s1" :> s1 @@ "s2" :> State(<<Event("f2")>>, Goto("accept")) :
     parts \in StartParts, t \in Transitions, s1 \in SecondStates}

MCSources ==
  {[assign |-> a, control |-> Simple, parser |-> Trivial] : a \in Assignments}
    \cup {[assign |-> [left |-> Path(2, 9), right |-> Constant(2, 0)], control |-> c, parser |-> Trivial] : c \in Controls}
    \cup {[assign |-> [left |-> Path(2, 9), right |-> Constant(2, 0)], control |-> Simple, parser |-> p] : p \in Parsers}
=============================================================================
