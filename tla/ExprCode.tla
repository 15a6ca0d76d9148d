------------------------------ MODULE ExprCode ------------------------------
(***************************************************************************)
(* The C text that the eBPF back end prints for an expression              *)
(* (CodeGenInspector), and what a C compiler makes of that text.  An       *)
(* expression is printed as a sequence of tokens; the tokens are read back *)
(* with the precedences of C and evaluated with the promotions and         *)
(* conversions of C.  Sizes are in bytes of Byte bits, so that a small     *)
(* byte gives a small machine: the types have 1, 2, 4 and 8 bytes, int 4.  *)
(***************************************************************************)
EXTENDS ExprPasses, FiniteSets, Bitwise

CONSTANT Byte
ASSUME ByteAssumption == Byte \in Nat \ {0}

MachineWidths == {Byte, 2 * Byte, 4 * Byte, 8 * Byte}
IntBits == 4 * Byte

\* The width of the C type that a P4 type is declared with; a bool is a u8.
CWidth(type) ==
  IF type = Bool THEN Byte
  ELSE CHOOSE w \in MachineWidths : w >= type /\ \A x \in MachineWidths : x >= type => x >= w

-----------------------------------------------------------------------------
(* Printing.                                                               *)

Token(k)  == [k |-> k, bits |-> 0, v |-> 0]
Number(n) == [k |-> "number", bits |-> 0, v |-> n]

StringOp ==
  [Add |-> "+", Sub |-> "-", Mul |-> "*", Div |-> "/", Mod |-> "%", Shl |-> "<<", Shr |-> ">>",
   BAnd |-> "&", BXor |-> "^", BOr |-> "|", Lss |-> "<", Leq |-> "<=", Grt |-> ">", Geq |-> ">=",
   Equ |-> "==", Neq |-> "!=", LAnd |-> "&&", LOr |-> "||", Neg |-> "-", Cmpl |-> "~", LNot |-> "!"]

\* The precedence of an IR class (ir/dbprint.h).
Precedence ==
  [Neg |-> 14, Cmpl |-> 14, LNot |-> 14, Cast |-> 14, Mul |-> 13, Div |-> 13, Mod |-> 13, Add |-> 12,
   Sub |-> 12, Shl |-> 11, Shr |-> 11, BAnd |-> 10, BXor |-> 9, BOr |-> 8, Lss |-> 7, Leq |-> 7,
   Grt |-> 7, Geq |-> 7, Equ |-> 6, Neq |-> 6, LAnd |-> 5, LOr |-> 4, Mux |-> 1]

Parens(text) == <<Token("(")>> \o text \o <<Token(")")>>

HasMask(type) == type >= 0 /\ type \notin MachineWidths

\* Mutant: C reads 1 << w - 1 as 1 << (w - 1).
Masked_Bare(type, text) ==
  Parens(Parens(text) \o <<Token("&")>> \o Parens(<<Number(1), Token("<<"), Number(type), Token("-"), Number(1)>>))

\* (( ... ) & ((1 << w) - 1)) around an operation on another width than the machine's.
Masked(type, text) ==
  Parens(Parens(text) \o <<Token("&")>>
         \o Parens(Parens(<<Number(1), Token("<<"), Number(type)>>) \o <<Token("-"), Number(1)>>))

\* An operator is printed next to its operand: two signs make one token.
Prefix(op, text) ==
  IF op = "-" /\ Head(text).k = "-" THEN <<Token("--")>> \o Tail(text) ELSE <<Token(op)>> \o text

ParensIf(b, text) == IF b THEN Parens(text) ELSE text

\* The text of e where the current expressionPrecedence is prec.  (The parentheses
\* that a condition of an if leaves out around itself are printed here.)
RECURSIVE Text(_, _)
Text(e, prec) ==
  LET own == Precedence[e.op]
      Infix(left, right) == left \o <<Token(StringOp[e.op])>> \o right
  IN CASE e.op = "Path" -> <<[k |-> "name", bits |-> CWidth(e.type), v |-> e.v]>>
       [] e.op \in {"Constant", "BoolLiteral"} -> <<Number(e.v)>>
       [] e.op = "Cast" ->
            ParensIf(prec > own, <<[k |-> "cast", bits |-> CWidth(e.type), v |-> 0]>> \o Text(e.args[1], own))
       [] e.op = "Mux" ->
            ParensIf(prec >= own, Text(e.args[1], own) \o <<Token("?")>> \o Text(e.args[2], 1)
                                  \o <<Token(":")>> \o Text(e.args[3], own))
       [] e.op \in {"Neg", "Cmpl", "LNot"} ->
            LET text == Prefix(StringOp[e.op], Text(e.args[1], own))
            IN IF HasMask(e.type) THEN Masked(e.type, text) ELSE ParensIf(prec > own, text)
       [] e.op \in {"Equ", "Neq"} -> ParensIf(prec > own, Infix(Text(e.args[1], prec), Text(e.args[2], prec)))
       [] OTHER ->
            LET text == Infix(Text(e.args[1], prec), Text(e.args[2], own + 1))
            IN IF HasMask(e.type) THEN Masked(e.type, text) ELSE Parens(text)

-----------------------------------------------------------------------------
(* What C computes.  A value of C has a type (bits, signed), and is known  *)
(* unless C leaves it undefined.                                           *)

\* The number n in a type of this many bits.
InType(bits, signed, n) ==
  LET u == n % (2 ^ bits)
  IN IF signed /\ u >= 2 ^ (bits - 1) THEN u - 2 ^ bits ELSE u

CValue(bits, signed, n) == [bits |-> bits, signed |-> signed, v |-> InType(bits, signed, n), known |-> TRUE]
Undefined == [bits |-> IntBits, signed |-> TRUE, v |-> 0, known |-> FALSE]

CInt(n) == CValue(IntBits, TRUE, n)

\* A literal is an int, or a long if it is too large for one.
Literal(n) == IF n < 2 ^ (IntBits - 1) THEN CInt(n) ELSE CValue(8 * Byte, TRUE, n)

Converted(x, bits, signed) == [CValue(bits, signed, x.v) EXCEPT !.known = x.known]
Promoted(x) == IF x.bits < IntBits THEN Converted(x, IntBits, TRUE) ELSE x

CShift(op, x, n) ==
  IF n.v < 0 \/ n.v >= x.bits THEN Undefined
  ELSE IF op = "<<" THEN CValue(x.bits, x.signed, (x.v % (2 ^ (x.bits - n.v))) * 2 ^ n.v)
  ELSE CValue(x.bits, x.signed, x.v \div 2 ^ n.v)

Unsigned(x) == x.v % (2 ^ x.bits)

\* x in the common type of x and y.
InCommonType(x, y) ==
  LET wide == {z \in {x, y} : z.bits >= x.bits /\ z.bits >= y.bits}
  IN Converted(x, (CHOOSE z \in wide : TRUE).bits, \A z \in wide : z.signed)

\* An operator on two values of one type.
Combined(op, a, b) ==
  LET Same(n) == CValue(a.bits, a.signed, n)
  IN CASE op = "+" -> Same(a.v + b.v)
       [] op = "-" -> Same(a.v - b.v)
       [] op = "*" -> Same(a.v * b.v)
       [] op = "/" -> IF b.v = 0 \/ a.v < 0 \/ b.v < 0 THEN Undefined ELSE Same(a.v \div b.v)
       [] op = "%" -> IF b.v = 0 \/ a.v < 0 \/ b.v < 0 THEN Undefined ELSE Same(a.v % b.v)
       [] op = "&" -> Same(Unsigned(a) & Unsigned(b))
       [] op = "|" -> Same(Unsigned(a) | Unsigned(b))
       [] op = "^" -> Same(Unsigned(a) ^^ Unsigned(b))
       [] op = "==" -> CInt(Holds(a.v = b.v))
       [] op = "!=" -> CInt(Holds(a.v # b.v))
       [] op = "<"  -> CInt(Holds(a.v < b.v))
       [] op = "<=" -> CInt(Holds(a.v <= b.v))
       [] op = ">"  -> CInt(Holds(a.v > b.v))
       [] op = ">=" -> CInt(Holds(a.v >= b.v))
       [] op = "&&" -> CInt(Holds(a.v # 0 /\ b.v # 0))
       [] op = "||" -> CInt(Holds(a.v # 0 \/ b.v # 0))

\* A binary operator: promotion, the common type, the operation.
OnPromoted(op, x, y) ==
  IF ~x.known \/ ~y.known THEN Undefined
  ELSE IF op \in {"<<", ">>"} THEN CShift(op, x, y) ELSE Combined(op, InCommonType(x, y), InCommonType(y, x))

COperation(op, x, y) == OnPromoted(op, Promoted(x), Promoted(y))

CUnary(op, x) ==
  IF ~x.known THEN Undefined
  ELSE CASE op = "-" -> CValue(x.bits, x.signed, -x.v)
         [] op = "~" -> CValue(x.bits, x.signed, -x.v - 1)
         [] op = "!" -> CInt(Holds(x.v = 0))
         [] op = "--" -> Undefined    \* it decrements a variable, or is no C

\* The binding strength of a token in C; 0 if it is no binary operator.
Binding(k) ==
  CASE k \in {"*", "/", "%"} -> 10  [] k \in {"+", "-"} -> 9  [] k \in {"<<", ">>"} -> 8
    [] k \in {"<", "<=", ">", ">="} -> 7  [] k \in {"==", "!="} -> 6
    [] k = "&" -> 5  [] k = "^" -> 4  [] k = "|" -> 3  [] k = "&&" -> 2  [] k = "||" -> 1
    [] OTHER -> 0

\* The branch that is chosen, in the common type of the two.
Selection(c, t, f) ==
  LET In(x, other) == IF c.known /\ x.known THEN InCommonType(Promoted(x), Promoted(other)) ELSE Undefined
  IN IF c.v # 0 THEN In(t, f) ELSE In(f, t)

\* The reader returns the value of the text from position i, and the position after it.
RECURSIVE ReadUnary(_, _, _), ReadInfix(_, _, _, _), ReadMux(_, _, _), ReadBranches(_, _, _)
ReadUnary(text, i, env) ==
  LET t == text[i] IN
  CASE t.k = "name"   -> [x |-> CValue(t.bits, FALSE, env[t.v]), next |-> i + 1]
    [] t.k = "number" -> [x |-> Literal(t.v), next |-> i + 1]
    [] t.k = "("      -> LET r == ReadMux(text, i + 1, env) IN [r EXCEPT !.next = @ + 1]
    [] t.k = "cast"   -> LET r == ReadUnary(text, i + 1, env) IN [r EXCEPT !.x = Converted(@, t.bits, FALSE)]
    [] OTHER          -> LET r == ReadUnary(text, i + 1, env) IN [r EXCEPT !.x = CUnary(t.k, Promoted(@))]

\* left is what is read so far; operators that bind at least as strongly as this follow.
ReadInfix(text, left, binding, env) ==
  IF left.next > Len(text) \/ Binding(text[left.next].k) = 0 \/ Binding(text[left.next].k) < binding THEN left
  ELSE LET op == text[left.next].k
           Both(right) == [x |-> COperation(op, left.x, right.x), next |-> right.next]
       IN ReadInfix(text, Both(ReadInfix(text, ReadUnary(text, left.next + 1, env), Binding(op) + 1, env)), binding, env)

ReadMux(text, i, env) == ReadBranches(text, ReadInfix(text, ReadUnary(text, i, env), 1, env), env)

\* c is the condition, if a question mark follows.
ReadBranches(text, c, env) ==
  IF c.next > Len(text) \/ text[c.next].k # "?" THEN c
  ELSE LET t == ReadMux(text, c.next + 1, env)
           f == ReadMux(text, t.next + 1, env)
       IN [x |-> Selection(c.x, t.x, f.x), next |-> f.next]

\* The value of the text of an expression.
Computed(e, env) == ReadMux(Text(e, 1), 1, env).x

\* What the variable of the left side holds after  left = right;
StoresValue(type, e, env, n) ==
  LET x == Computed(e, env) IN x.known /\ Converted(x, CWidth(type), FALSE).v = n
-----------------------------------------------------------------------------
(* Where the text is right, by the shape of the expression that is printed.*)

\* The C type of the text of e, <<bits, signed>>.
RECURSIVE CType(_)
CType(e) ==
  LET Promote(t) == IF t[1] < IntBits THEN <<IntBits, TRUE>> ELSE t
      Common(t, u) == LET w == IF t[1] > u[1] THEN t[1] ELSE u[1]
                      IN <<w, \A z \in {t, u} : z[1] = w => z[2]>>
  IN CASE e.op \in {"Path", "Cast"} -> <<CWidth(e.type), FALSE>>
       [] e.op = "Constant" -> IF e.v < 2 ^ (IntBits - 1) THEN <<IntBits, TRUE>> ELSE <<2 * IntBits, TRUE>>
       [] e.op = "Mux" -> Common(Promote(CType(e.args[2])), Promote(CType(e.args[3])))
       [] e.op \in {"Shl", "Shr", "Neg", "Cmpl"} -> Promote(CType(e.args[1]))
       [] e.op \in Arithmetic -> Common(Promote(CType(e.args[1])), Promote(CType(e.args[2])))
       [] OTHER -> <<IntBits, TRUE>>

\* C computes in the unsigned word of the P4 type.
IsWord(e) == e.type \in {IntBits, 2 * IntBits} /\ CType(e) = <<e.type, FALSE>>

\* The mask of an operation is there only below the width of an int.
MaskFits(e) == HasMask(e.type) => e.type < IntBits

\* The result of an operation is reduced to its width, by the mask or by C.
Reduced(e) == (HasMask(e.type) /\ MaskFits(e)) \/ IsWord(e)

\* Two minus signs are not printed next to each other.
SignsApart(e) == e.op = "Neg" => e.args[1].op # "Neg" \/ HasMask(e.type)

\* A shift by less than an int.
ShortShift(e) == e.args[2].op = "Constant" /\ e.args[2].v < IntBits

\* Congruent: the number that C computes agrees with the P4 value in the bits of
\* the type; Exact: it is the P4 value.
RECURSIVE Exact(_), Congruent(_)
Exact(e) ==
  LET All(P(_)) == \A i \in DOMAIN e.args : P(e.args[i])
      from == e.args[1].type
  IN CASE e.op \in {"Path", "Constant", "BoolLiteral"} -> TRUE
       [] e.op = "Cast" -> \/ e.type >= from /\ Exact(e.args[1])
                           \/ e.type <= from /\ e.type \in MachineWidths /\ Congruent(e.args[1])
       [] e.op \in {"Add", "Sub", "Mul", "Neg", "Cmpl"} -> Reduced(e) /\ SignsApart(e) /\ All(Congruent)
       [] e.op = "Shl" -> Reduced(e) /\ ShortShift(e) /\ Congruent(e.args[1])
       [] e.op = "Shr" -> MaskFits(e) /\ ShortShift(e) /\ Exact(e.args[1])
       [] e.op \in {"BAnd", "BOr", "BXor", "Div", "Mod"} -> MaskFits(e) /\ All(Exact)
       [] e.op \in {"Equ", "Neq"} -> All(Exact) /\ e.args[2].op \notin {"Equ", "Neq"}
       [] OTHER -> All(Exact)

Congruent(e) ==
  LET All(P(_)) == \A i \in DOMAIN e.args : P(e.args[i])
      narrow == e.type <= 2 * Byte /\ e.type \in MachineWidths
  IN \/ Exact(e)
     \/ e.op = "Cast" /\ e.type <= e.args[1].type /\ Congruent(e.args[1])
     \/ e.op \in {"Add", "Sub", "Mul", "Neg", "Cmpl"} /\ narrow /\ SignsApart(e) /\ All(Congruent)
     \/ e.op = "Shl" /\ narrow /\ ShortShift(e) /\ Congruent(e.args[1])
     \/ e.op \in {"BAnd", "BOr", "BXor"} /\ MaskFits(e) /\ All(Congruent)
     \/ e.op = "Mux" /\ Exact(e.args[1]) /\ Congruent(e.args[2]) /\ Congruent(e.args[3])

\* An assignment of e to a variable of its type stores the P4 value.
StoresExactly(e) == Exact(e) \/ (e.type \in MachineWidths /\ Congruent(e))
=============================================================================
