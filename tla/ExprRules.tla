----------------------------- MODULE ExprRules -----------------------------
(***************************************************************************)
(* The rules of the passes that rewrite expressions: constant folding,     *)
(* strength reduction, reassociation and removal of useless casts, slices  *)
(* on the left of an assignment, and the lowering to what C can express.   *)
(*                                                                         *)
(* A rule is for one node, whose operands have been rewritten.  Expressions*)
(* are trees of nodes [op, type, args, v]: the IR class, the type, the     *)
(* operands, and the number of a variable or the value of a constant.      *)
(* They have no side effects, and their types are bit<w>, bool and int.    *)
(***************************************************************************)
EXTENDS Integers, Sequences

\* Types: bit<w> is its width.
Bool   == -1
InfInt == -2

\* big_int numbers: powers of two, and the bits that two numbers share.
Pow2[n \in Nat] == IF n = 0 THEN 1 ELSE 2 * Pow2[n - 1]
BitAnd[a \in Nat] ==
  [b \in Nat |-> IF a = 0 THEN 0 ELSE 2 * BitAnd[a \div 2][b \div 2] + (a % 2) * (b % 2)]

Node(op, type, args) == [op |-> op, type |-> type, args |-> args, v |-> 0]
Path(type, n)  == [op |-> "Path", type |-> type, args |-> <<>>, v |-> n]

\* A constant is reduced to its type (IR::Constant::handleOverflow).
Wrap(type, n)  == IF type >= 0 THEN n % Pow2[type] ELSE n
Constant(type, n) == [op |-> "Constant", type |-> type, args |-> <<>>, v |-> Wrap(type, n)]
BoolLiteral(b)    == [op |-> "BoolLiteral", type |-> Bool, args |-> <<>>, v |-> IF b THEN 1 ELSE 0]

Arithmetic == {"Add", "Sub", "Mul", "Div", "Mod", "BAnd", "BOr", "BXor"}
Relations  == {"Equ", "Neq", "Lss", "Leq", "Grt", "Geq"}

-----------------------------------------------------------------------------
(* What an expression means.                                               *)

Holds(b) == IF b THEN 1 ELSE 0

\* big_int arithmetic on two operands; a relation gives 0 or 1, a quotient by 0 is 0.
Calculated(op, a, b) ==
  CASE op = "Add" -> a + b      [] op = "Sub" -> a - b    [] op = "Mul" -> a * b
    [] op = "Div" -> IF b = 0 THEN 0 ELSE a \div b
    [] op = "Mod" -> IF b = 0 THEN 0 ELSE a % b
    [] op = "BAnd" -> BitAnd[a][b] [] op = "BOr" -> a + b - BitAnd[a][b]
    [] op = "BXor" -> a + b - 2 * BitAnd[a][b]
    [] op = "Shl" -> a * Pow2[b]  [] op = "Shr" -> a \div Pow2[b]
    [] op = "Equ" -> Holds(a = b)  [] op = "Neq" -> Holds(a # b)
    [] op = "Lss" -> Holds(a < b)  [] op = "Leq" -> Holds(a <= b)
    [] op = "Grt" -> Holds(a > b)  [] op = "Geq" -> Holds(a >= b)
    [] op = "LAnd" -> Holds(a = 1 /\ b = 1) [] op = "LOr" -> Holds(a = 1 \/ b = 1)

\* The value of a node whose operands have the values a, b and c, where variable n has
\* value env[n], after the P4 language; true is 1.
NodeValue(e, a, b, c, env) ==
  CASE e.op = "Path" -> env[e.v]
    [] e.op \in {"Constant", "BoolLiteral"} -> e.v
    [] e.op = "Cmpl" -> Wrap(e.type, -a - 1)
    [] e.op = "Neg"  -> Wrap(e.type, -a)
    [] e.op = "LNot" -> 1 - a
    [] e.op = "Mux"  -> IF a = 1 THEN b ELSE c
    [] e.op = "Cast" -> IF e.type = Bool THEN Holds(a # 0) ELSE Wrap(e.type, a)
    [] e.op = "Concat" -> a * Pow2[e.args[2].type] + b
    [] e.op = "Slice" -> Wrap(b - c + 1, a \div Pow2[c])
    [] OTHER -> Wrap(e.type, Calculated(e.op, a, b))

-----------------------------------------------------------------------------
(* DoConstantFolding: an operation on constants becomes a constant.        *)

IsConstant(e) == e.op \in {"Constant", "BoolLiteral"}

Shifted(e, l, r) ==
  IF ~IsConstant(r) THEN e
  ELSE IF r.v = 0 THEN l
  ELSE IF ~IsConstant(l) THEN e
  ELSE Constant(l.type, Calculated(e.op, l.v, r.v))

Sliced(e, e0, m, l) ==
  IF ~IsConstant(e0) THEN e ELSE Constant(m.v - l.v + 1, e0.v \div Pow2[l.v])

ConstantFolding(e) ==
  LET l == e.args[1]
      r == e.args[2]
  IN CASE e.op = "Cmpl" /\ IsConstant(l) -> Constant(l.type, -l.v - 1)
       [] e.op = "Neg" /\ IsConstant(l)  -> Constant(l.type, -l.v)
       [] e.op = "LNot" /\ IsConstant(l) -> BoolLiteral(l.v = 0)
       [] e.op \in Arithmetic /\ IsConstant(l) /\ IsConstant(r) -> Constant(r.type, Calculated(e.op, l.v, r.v))
       [] e.op \in Relations /\ IsConstant(l) /\ IsConstant(r)  -> BoolLiteral(Calculated(e.op, l.v, r.v) = 1)
       [] e.op \in {"Shl", "Shr"} -> Shifted(e, l, r)
       [] e.op = "LAnd" /\ IsConstant(l) -> IF l.v = 1 THEN r ELSE BoolLiteral(FALSE)
       [] e.op = "LOr" /\ IsConstant(l)  -> IF l.v = 0 THEN r ELSE BoolLiteral(TRUE)
       [] e.op = "Mux" /\ IsConstant(l)  -> IF l.v = 1 THEN r ELSE e.args[3]
       [] e.op = "Concat" /\ IsConstant(l) /\ IsConstant(r) -> Constant(e.type, l.v * Pow2[r.type] + r.v)
       [] e.op = "Slice" -> Sliced(e, l, r, e.args[3])
       [] e.op = "Cast" /\ IsConstant(l) -> IF e.type = Bool THEN BoolLiteral(l.v = 1) ELSE Constant(e.type, l.v)
       [] OTHER -> e

-----------------------------------------------------------------------------
(* DoStrengthReduction.                                                    *)

IsZero(e)  == e.type = 0 \/ (e.op = "Constant" /\ e.v = 0)
IsOne(e)   == e.op = "Constant" /\ e.v = 1
IsTrue(e)  == e.op = "BoolLiteral" /\ e.v = 1
IsFalse(e) == e.op = "BoolLiteral" /\ e.v = 0
IsAllOnes(e)  == e.op = "Constant" /\ e.v > 0 /\ e.v + 1 = Pow2[e.type]
\* The exponents of the powers of two that a constant may be; 30 is the bound on int for TLC.
Exponents(type) == 0 .. (IF type = InfInt THEN 30 ELSE type)
IsPowerOf2(e) == e.op = "Constant" /\ \E n \in Exponents(e.type) : e.v = Pow2[n]
Log2(e) == CHOOSE n \in Exponents(e.type) : e.v = Pow2[n]

NotOf(e) == Node("LNot", Bool, <<e>>)
WithArgs(e, args) == [e EXCEPT !.args = args]

BAndReduced(e, l, r) ==
  IF IsAllOnes(l) THEN r
  ELSE IF IsAllOnes(r) THEN l
  ELSE IF l.op = "Cmpl" /\ r.op = "Cmpl"
       THEN Node("Cmpl", e.type, <<Node("BOr", e.type, <<l.args[1], r.args[1]>>)>>)
  ELSE IF IsZero(l) THEN l
  ELSE IF IsZero(r) \/ l = r THEN r
  ELSE e

BOrReduced(e, l, r) ==
  IF IsZero(l) THEN r
  ELSE IF IsZero(r) THEN l
  ELSE IF l.op = "Cmpl" /\ r.op = "Cmpl"
       THEN Node("Cmpl", e.type, <<Node("BAnd", e.type, <<l.args[1], r.args[1]>>)>>)
  ELSE IF l = r THEN l
  ELSE e

\* Two complements cancel, one moves outwards.
BXorReduced(e, l, r) ==
  LET Bare(x) == IF x.op = "Cmpl" THEN x.args[1] ELSE x
      bare == WithArgs(e, <<Bare(l), Bare(r)>>)
  IN IF IsZero(l) THEN r
     ELSE IF IsZero(r) THEN l
     ELSE IF (l.op = "Cmpl") # (r.op = "Cmpl") THEN Node("Cmpl", e.type, <<bare>>)
     ELSE IF Bare(l) = Bare(r) THEN Constant(Bare(l).type, 0)
     ELSE bare

\* Equ and Neq with a Boolean literal: a == true is a, a != true is !a.
BoolReduced(e, l, r) ==
  LET same == IF e.op = "Equ" THEN 1 ELSE 0
      Reduced(literal, other) == IF literal.v = same THEN other ELSE NotOf(other)
  IN IF l.op = "BoolLiteral" THEN Reduced(l, r)
     ELSE IF r.op = "BoolLiteral" THEN Reduced(r, l)
     ELSE e

Opposite ==
  [Equ |-> "Neq", Neq |-> "Equ", Leq |-> "Grt", Geq |-> "Lss", Lss |-> "Geq", Grt |-> "Leq"]

SubReduced(e, l, r) ==
  IF IsZero(r) THEN l
  ELSE IF IsZero(l) THEN Node("Neg", e.type, <<r>>)
  ELSE IF r.op = "Constant" THEN Node("Add", e.type, <<l, Constant(r.type, -r.v)>>)
  ELSE IF l = r THEN Constant(l.type, 0)
  ELSE e

\* (a << b) << c is a << (b + c) if b and c are of type int; so for >>.
ShiftReduced(e, l, r) ==
  IF IsZero(r) THEN l
  ELSE IF l.op = e.op /\ l.args[2].type = InfInt /\ r.type = InfInt
       THEN Node(e.op, e.type, <<l.args[1], Node("Add", InfInt, <<l.args[2], r>>)>>)
  ELSE IF IsZero(l) THEN l
  ELSE e

\* Products, quotients and remainders by powers of two.
Shift(op, e, by) == Node(op, e.type, <<e, Constant(InfInt, Log2(by))>>)

MulReduced(e, l, r) ==
  IF IsOne(l) THEN r
  ELSE IF IsOne(r) THEN l
  ELSE IF IsPowerOf2(l) THEN Shift("Shl", r, l)
  ELSE IF IsPowerOf2(r) THEN Shift("Shl", l, r)
  ELSE IF IsZero(l) THEN l
  ELSE IF IsZero(r) THEN r
  ELSE e

DivReduced(e, l, r) ==
  IF IsZero(r) THEN e
  ELSE IF IsOne(r) THEN l
  ELSE IF IsPowerOf2(r) THEN Shift("Shr", l, r)
  ELSE IF IsZero(l) THEN l
  ELSE e

ModReduced(e, l, r) ==
  IF IsZero(r) THEN e
  ELSE IF IsZero(l) THEN l
  ELSE IF IsPowerOf2(r) THEN Node("BAnd", e.type, <<l, Constant(r.type, r.v - 1)>>)
  ELSE e

MuxReduced(e) ==
  LET c == e.args[1]
      t == e.args[2]
      f == e.args[3]
  IN IF IsTrue(t) /\ IsFalse(f) THEN c
     ELSE IF IsFalse(t) /\ IsTrue(f) THEN NotOf(c)
     ELSE IF c.op = "LNot" THEN WithArgs(e, <<c.args[1], f, t>>)
     ELSE IF t = f THEN t
     ELSE e

Slice(e, hi, lo) == Node("Slice", hi - lo + 1, <<e, Constant(InfInt, hi), Constant(InfInt, lo)>>)

\* Type_Boolean has a width of one bit.
WidthOf(type) == IF type = Bool THEN 1 ELSE type

\* What a slice takes from within casts, of whose operand it takes inner, or then from a
\* slice; a slice of everything is no slice.
UncastSlice(e0, hi, lo, inner) ==
  IF e0.op = "Cast" /\ hi < WidthOf(e0.args[1].type) THEN inner
  ELSE IF e0.op = "Slice" THEN Slice(e0.args[1], hi + e0.args[3].v, lo + e0.args[3].v)
  ELSE IF hi - lo + 1 = WidthOf(e0.type) THEN e0
  ELSE Slice(e0, hi, lo)

\* What a slice takes from the left or the right of a concatenation, or a part of each;
\* uncast is what it takes from anything else.
InsideSlice(e0, hi, lo, uncast, left, right) ==
  LET width == e0.args[2].type IN
  IF e0.op # "Concat" THEN uncast
  ELSE IF lo >= width THEN left
  ELSE IF hi < width THEN right
  ELSE Node("Concat", hi - lo + 1, <<Slice(e0.args[1], hi - width, 0), Slice(e0.args[2], width - 1, lo)>>)

\* A slice of a shift is one of what is shifted, at other bits: that many higher up.
ShiftsByConstant(e0) == e0.op \in {"Shl", "Shr"} /\ e0.args[2].op = "Constant"
ShiftAmount(e0) ==
  IF ~ShiftsByConstant(e0) THEN 0 ELSE IF e0.op = "Shr" THEN e0.args[2].v ELSE -e0.args[2].v

\* What a slice is of: if it has all its bits from what is shifted, these.
Unshifted(e) ==
  LET e0 == e.args[1]
      hi == e.args[2].v + ShiftAmount(e0)
      lo == e.args[3].v + ShiftAmount(e0)
  IN IF ShiftsByConstant(e0) /\ lo >= 0 /\ hi < e0.args[1].type THEN [of |-> e0.args[1], hi |-> hi, lo |-> lo]
     ELSE [of |-> e0, hi |-> e.args[2].v, lo |-> e.args[3].v]

\* Zeros come for the bits that are not there; sliced is the slice of Unshifted(e).
SliceReduced(e, sliced) ==
  LET hi == e.args[2].v + ShiftAmount(e.args[1])
      lo == e.args[3].v + ShiftAmount(e.args[1])
  IN IF hi < 0 THEN Constant(e.type, 0)
     ELSE IF lo < 0 THEN Node("Concat", e.type, <<Slice(e.args[1].args[1], hi, 0), Constant(-lo, 0)>>)
     ELSE sliced

StrengthReduction(e, sliced) ==
  LET l == e.args[1]
      r == e.args[2]
  IN CASE e.op = "Cmpl" -> IF l.op = "Cmpl" THEN l.args[1] ELSE e
       [] e.op = "BAnd" -> BAndReduced(e, l, r)
       [] e.op = "BOr"  -> BOrReduced(e, l, r)
       [] e.op = "BXor" -> BXorReduced(e, l, r)
       [] e.op = "LAnd" -> IF IsTrue(l) THEN r ELSE IF IsFalse(l) \/ IsTrue(r) THEN l ELSE e
       [] e.op = "LOr"  -> IF IsFalse(l) THEN r ELSE IF IsTrue(l) \/ IsFalse(r) THEN l ELSE e
       [] e.op \in {"Equ", "Neq"} -> BoolReduced(e, l, r)
       [] e.op = "LNot" -> IF l.op = "LNot" THEN l.args[1]
                           ELSE IF l.op \in Relations THEN [l EXCEPT !.op = Opposite[l.op]] ELSE e
       [] e.op = "Sub"  -> SubReduced(e, l, r)
       [] e.op = "Add"  -> IF IsZero(r) THEN l ELSE IF IsZero(l) THEN r ELSE e
       [] e.op \in {"Shl", "Shr"} -> ShiftReduced(e, l, r)
       [] e.op = "Mul"  -> MulReduced(e, l, r)
       [] e.op = "Div"  -> DivReduced(e, l, r)
       [] e.op = "Mod"  -> ModReduced(e, l, r)
       [] e.op = "Mux"  -> MuxReduced(e)
       [] e.op = "Slice" -> SliceReduced(e, sliced)
       [] OTHER -> e

-----------------------------------------------------------------------------
(* The other passes.                                                       *)

\* (a + c0) + c1 is rewritten as a + (c0 + c1).
Reassociation(e) ==
  LET left == e.args[1]
      right == e.args[2]
  IN IF e.op \in {"Add", "Mul", "BOr", "BAnd", "BXor"} /\ right.op = "Constant"
        /\ left.op = e.op /\ left.args[2].op = "Constant"
     THEN WithArgs(e, <<left.args[1], WithArgs(e, <<left.args[2], right>>)>>)
     ELSE e

RemoveUselessCasts(e) == IF e.op = "Cast" /\ e.args[1].type = e.type THEN e.args[1] ELSE e

\* a ++ b is ((cast)a << sizeof(b)) | ((cast)b & mask).
LowerConcat(e, l, r) ==
  LET high == Node("Shl", e.type, <<Node("Cast", e.type, <<l>>), Constant(InfInt, r.type)>>)
      low  == Node("BAnd", e.type, <<Node("Cast", e.type, <<r>>), Constant(e.type, Pow2[r.type] - 1)>>)
  IN Node("BOr", e.type, <<high, low>>)

\* EBPF::LowerExpressions: slices, concatenations and casts from and to bool.  Its
\* shift() changes no node, but ends the compilation with an error if the amount of a shift
\* is a constant above 32 or has a type of more than 5 bits; such a program gets no code,
\* and what the rule says of it is more than what the pass does.
Lower(e) ==
  LET l == e.args[1]
      r == e.args[2]
  IN CASE e.op = "Slice" ->
            Node("Cast", e.type, <<IF e.args[3].v = 0 THEN l ELSE Node("Shr", l.type, <<l, e.args[3]>>)>>)
       [] e.op = "Concat" -> LowerConcat(e, l, r)
       [] e.op = "Cast" /\ e.type = Bool /\ l.type >= 0 -> Node("Equ", Bool, <<l, Constant(l.type, 0)>>)
       [] e.op = "Cast" /\ e.type >= 0 /\ l.type = Bool ->
            Node("Mux", e.type, <<l, Constant(e.type, 1), Constant(e.type, 0)>>)
       [] OTHER -> e

\* What a pass makes of a node.
RewriteNode(pass, e, sliced) ==
  CASE pass = "ConstantFolding"   -> ConstantFolding(e)
    [] pass = "StrengthReduction" -> StrengthReduction(e, sliced)
    [] pass = "Reassociation"     -> Reassociation(e)
    [] pass = "UselessCasts"      -> RemoveUselessCasts(e)
    [] pass = "Lower"             -> Lower(e)

-----------------------------------------------------------------------------
(* Assignments to a slice of a variable.                                   *)

\* A number with other bits from hi down to lo.
Replaced(old, bits, hi, lo) ==
  (old \div Pow2[hi + 1]) * Pow2[hi + 1] + bits * Pow2[lo] + (old % Pow2[lo])

\* Mutant: the bits that are replaced are not cleared.
RemoveLeftSlices_Keep(s) ==
  LET a == s.left.args[1]
      l == s.left.args[3].v
      moved == Node("Shl", a.type, <<Node("Cast", a.type, <<s.right>>), Constant(InfInt, l)>>)
  IN IF s.left.op # "Slice" THEN s
     ELSE [left |-> a, right |-> Node("BOr", a.type, <<a, moved>>)]

\* a[m:l] = e becomes a = (a & ~mask) | (((cast)e << l) & mask).
RemoveLeftSlices(s) ==
  LET a == s.left.args[1]
      h == s.left.args[2].v
      l == s.left.args[3].v
      mask == Constant(a.type, Pow2[h + 1] - Pow2[l])
      kept == Node("BAnd", a.type, <<a, Node("Cmpl", a.type, <<mask>>)>>)
      moved == Node("Shl", a.type, <<Node("Cast", a.type, <<s.right>>), Constant(InfInt, l)>>)
  IN IF s.left.op # "Slice" THEN s
     ELSE [left |-> a, right |-> Node("BOr", a.type, <<kept, Node("BAnd", a.type, <<moved, mask>>)>>)]

=============================================================================
