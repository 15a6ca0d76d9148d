------------------------- MODULE PacketCodec_proofs -------------------------
(***************************************************************************)
(* Proofs about PacketCodec.                                               *)
(***************************************************************************)
EXTENDS PacketCodec, SequenceTheorems, FiniteSetTheorems, WellFoundedInduction, TLAPS

-----------------------------------------------------------------------------
(* The inductive invariant.                                                *)

\* Where the parser is: the cursor stands where call n starts reading, or at field f of
\* the header that call n reads, which is in the packet with its padding.
Cursor ==
  /\ pc \in {"parse", "extract", "control"} => n \in 1 .. Len(prog.parse) + 1
  /\ pc = "parse" => offset = ReadFrom(n)
  /\ pc = "extract" =>
       /\ n \in 1 .. Len(prog.parse) /\ Reads(n)
       /\ f \in 1 .. Len(Widths) + 1 /\ offset = ReadFrom(n) + StartOf(Call.arg, f)
       /\ Bytes(ReadFrom(n) + Width(Widths) + Padding(Widths)) <= PacketBytes
  /\ WholeBytes /\ pc \in {"control", "resize"} => offset % 8 = 0
  /\ pc = "resize" => consumed = offset

\* Until it is resized the packet is the one received.
Untouched == pc \in {"parse", "extract", "control", "resize"} => pkt = Received

\* What ExtractReadsHeader says, for the header that is being read as well.
ReadsField(c, k) ==
  LET w == prog.headers[prog.parse[c].arg][k]
  IN WholeBytes /\ (IF w <= 64 THEN ~Undefined(w, AlignmentOf(prog.parse[c].arg, k)) ELSE w % 8 = 0)
     => FieldRead(c, k)
ReadsFields(c) == \A k \in FieldsOf(prog.parse[c].arg) : ReadsField(c, k)
FieldsRead ==
  /\ pc \in {"parse", "extract", "control"} => \A c \in 1 .. n - 1 : Reads(c) /\ LastRead(c) => ReadsFields(c)
  /\ pc = "extract" => \A k \in 1 .. f - 1 : ReadsField(n, k)

\* Where the deparser is.
Position ==
  /\ pc = "emit" => n \in 1 .. Len(prog.emit) + 1 /\ offset = WrittenTo(n)
  /\ pc \in {"fields", "bytes"} =>
       /\ n \in 1 .. Len(prog.emit) /\ valid[Out]
       /\ f \in 1 .. Len(prog.headers[Out]) + 1 /\ offset = WrittenTo(n) + StartOf(Out, f)
  /\ pc = "bytes" => f \in 1 .. Len(prog.headers[Out])

\* What PayloadKept says, from the moment the packet has its new length.
WideFieldsAreBytes ==
  \A e \in DOMAIN prog.emit : \A k \in FieldsOf(prog.emit[e]) :
    LET w == prog.headers[prog.emit[e]][k] IN w <= 64 \/ w % 8 = 0
Resizable == outHeaderLength = consumed \/ (outHeaderLength >= 8 * MacBytes /\ consumed >= 8 * MacBytes)
PayloadInPlace ==
  /\ Len(pkt) - outHeaderLength = 8 * size - consumed
  /\ \A b \in 1 .. 8 * size - consumed : pkt[outHeaderLength + b] = <<"packet", consumed + b>>
Payload ==
  pc \in {"emit", "fields", "bytes", "done"} /\ WholeBytes /\ Resizable /\ WideFieldsAreBytes => PayloadInPlace

\* A field of less than a byte has nothing above it in its u8.
NarrowFields ==
  \A h \in DOMAIN prog.headers : \A k \in DOMAIN prog.headers[h] :
    \A b \in prog.headers[h][k] .. 7 : hdr[h][k][b] = Zero

\* A header that is being written is in the packet.
Room ==
  WholeBytes =>
    /\ pc = "emit" => offset <= Len(pkt)
    /\ pc \in {"fields", "bytes"} => WrittenTo(n + 1) <= Len(pkt)

\* Field k of the header of emit() number e is still to be loaded, or is written; its
\* bytes are in the order in which they should be then.
ToSend(e, k) ==
  /\ e \in DOMAIN prog.emit /\ k \in FieldsOf(prog.emit[e]) /\ order[prog.emit[e]][k] = "least"
  /\ \/ pc = "resize"
     \/ pc \in {"emit", "fields", "bytes"} /\ e > n
     \/ pc = "emit" /\ e = n
     \/ pc = "fields" /\ e = n /\ k >= f
     \/ pc = "bytes" /\ e = n /\ k > f
Sent(e, k) ==
  /\ e \in DOMAIN prog.emit /\ k \in FieldsOf(prog.emit[e]) /\ order[prog.emit[e]][k] = "least"
  /\ valid[prog.emit[e]]
  /\ \/ pc = "done"
     \/ pc \in {"emit", "fields", "bytes"} /\ e < n
     \/ pc \in {"fields", "bytes"} /\ e = n /\ k < f

\* Fields to be loaded hold what they mean; the one that is being written has it in
\* memory byte by byte: from its highest bit on, from its lowest if it is an array.
Holds(h, k) == \A b \in 0 .. prog.headers[h][k] - 1 : hdr[h][k][b] = meant[h][k][b]
FromLowest(w) == w <= 8 \/ w > 64
BitOf(w, i, j) == IF FromLowest(w) THEN 8 * i + j ELSE w - 8 * (i + 1) + j
HoldsInMemory(h, k) ==
  LET w == prog.headers[h][k]
  IN \A i \in 0 .. (w + 7) \div 8 - 1 : \A j \in 0 .. 7 :
       BitOf(w, i, j) \in 0 .. w - 1 => hdr[h][k][8 * i + j] = meant[h][k][BitOf(w, i, j)]
Values ==
  IsInjective(prog.emit) =>
    /\ \A e, k : ToSend(e, k) => Holds(prog.emit[e], k)
    /\ pc = "bytes" /\ order[Out][f] = "least" => HoldsInMemory(Out, f)

\* What is sent is in the packet, and so is what is written of the field that is next:
\* the first bytes, or the last of an array.
IsWritten(w, b) == IF w > 64 THEN b < 8 * written ELSE b >= w - 8 * written
PartWritten ==
  LET w == prog.headers[Out][f]
  IN \A b \in 0 .. w - 1 : IsWritten(w, b) => pkt[offset + w - b] = meant[Out][f][b]
Output ==
  WholeBytes /\ EmitsFields /\ IsInjective(prog.emit) =>
    /\ \A e, k : Sent(e, k) => FieldWritten(e, k)
    /\ pc = "bytes" /\ order[Out][f] = "least" => PartWritten

IInv ==
  /\ TypeOK
  /\ Cursor
  /\ Untouched
  /\ FieldsRead
  /\ ReadsInsidePacket
  /\ Position
  /\ Payload
  /\ NarrowFields
  /\ Room
  /\ Values
  /\ Output

-----------------------------------------------------------------------------
(* Induction and recursion, by sets and functions.                         *)

\* A set of numbers that holds 0 and with every number the next holds them all: else the
\* sets 0 .. m - 1 of the missing m would be an infinite descending chain of finite sets.
LEMMA NatSetInduction ==
  ASSUME NEW S \in SUBSET Nat, 0 \in S, \A m \in S : m + 1 \in S
  PROVE  S = Nat
<1> DEFINE Below(m) == 0 .. m - 1
           T == {Below(m) : m \in Nat \ S}
           F == FiniteSubsetsOf(Nat)
<1> SUFFICES ASSUME S # Nat PROVE FALSE
  OBVIOUS
<1>1. \A m \in Nat : Below(m) \in SUBSET Nat /\ IsFiniteSet(Below(m))
  <2> TAKE m \in Nat
  <2>1. IsFiniteSet(0 .. m - 1)
    BY FS_Interval
  <2> QED BY <2>1
<1>2. T \subseteq F
  BY <1>1, Zenon DEF FiniteSubsetsOf
<1>3. T # {}
  <2>1. Nat \ S # {}
    OBVIOUS
  <2> QED BY <2>1
<1>4. IsWellFoundedOn(StrictSubsetOrdering(Nat), F)
  BY FS_StrictSubsetOrderingWellFounded
<1>5. \E x \in T : \A y \in T : ~ (<<y, x>> \in StrictSubsetOrdering(Nat))
  <2> HIDE DEF T, F
  <2> QED BY <1>2, <1>3, <1>4, WFMin
<1>6. PICK x \in T : \A y \in T : ~ (<<y, x>> \in StrictSubsetOrdering(Nat))
  BY <1>5
<1>7. PICK m \in Nat \ S : x = Below(m)
  BY <1>6
<1>8. m # 0 /\ m - 1 \in Nat
  BY <1>7
<1>9. m - 1 \notin S
  <2> SUFFICES ASSUME m - 1 \in S PROVE FALSE
    OBVIOUS
  <2>1. (m - 1) + 1 \in S
    OBVIOUS
  <2> QED BY <2>1, <1>7, <1>8
<1>10. Below(m - 1) \in T
  BY <1>8, <1>9
<1>11. Below(m - 1) \subseteq Below(m) /\ Below(m - 1) # Below(m)
  <2>1. m - 1 \in Below(m) /\ m - 1 \notin Below(m - 1)
    BY <1>8
  <2>2. Below(m - 1) \subseteq Below(m)
    BY <1>8
  <2> QED BY <2>1, <2>2
<1>12. <<Below(m - 1), Below(m)>> \in StrictSubsetOrdering(Nat)
  <2> HIDE DEF Below
  <2> QED BY <1>1, <1>8, <1>11 DEF StrictSubsetOrdering
<1> QED BY <1>6, <1>7, <1>10, <1>12

\* A function of a sequence that starts from a value and goes on element by element.
Recursion(s, V, base, step) ==
  \E g \in [0 .. Len(s) -> V] : g[0] = base /\ \A k \in 1 .. Len(s) : g[k] = step[<<g[k - 1], s[k]>>]

LEMMA RecursionExists ==
  ASSUME NEW W, NEW s \in Seq(W), NEW V, NEW base \in V, NEW step \in [V \X W -> V]
  PROVE  Recursion(s, V, base, step)
<1> DEFINE Follows(g, m) == g[0] = base /\ \A k \in 1 .. m : g[k] = step[<<g[k - 1], s[k]>>]
           Defined(m) == m <= Len(s) => \E g \in [0 .. m -> V] : Follows(g, m)
           S == {m \in Nat : Defined(m)}
<1>1. 0 \in S
  <2> DEFINE g == [k \in 0 .. 0 |-> base]
  <2>1. g \in [0 .. 0 -> V] /\ Follows(g, 0)
    OBVIOUS
  <2> QED BY <2>1
<1>2. \A m \in S : m + 1 \in S
  <2> SUFFICES ASSUME NEW m \in Nat, Defined(m), m + 1 <= Len(s)
               PROVE  \E g \in [0 .. m + 1 -> V] : Follows(g, m + 1)
    <3>1. \A m \in Nat : Defined(m) => Defined(m + 1)
      <4> TAKE m \in Nat
      <4> HAVE Defined(m)
      <4> SUFFICES ASSUME m + 1 <= Len(s)
                   PROVE  \E g \in [0 .. m + 1 -> V] : Follows(g, m + 1)
        BY Zenon
      <4> QED OBVIOUS
    <3> HIDE DEF Defined
    <3> QED BY <3>1
  <2>1. PICK g \in [0 .. m -> V] : Follows(g, m)
    <3>1. m <= Len(s)
      OBVIOUS
    <3> QED BY <3>1
  <2>2. s[m + 1] \in W /\ g[m] \in V
    <3>1. m + 1 \in 1 .. Len(s) /\ m \in 0 .. m
      BY LenProperties
    <3>2. s[m + 1] \in W
      BY <3>1, ElementOfSeq
    <3> QED BY <3>1, <3>2
  <2> DEFINE v == step[<<g[m], s[m + 1]>>]
             h == [k \in 0 .. m + 1 |-> IF k = m + 1 THEN v ELSE g[k]]
  <2>3. v \in V
    BY <2>2
  <2>4. h \in [0 .. m + 1 -> V]
    <3> HIDE DEF v
    <3> QED BY <2>3
  <2>5. h[0] = base
    BY <2>1
  <2>6. \A k \in 1 .. m + 1 : h[k] = step[<<h[k - 1], s[k]>>]
    <3> TAKE k \in 1 .. m + 1
    <3>1. CASE k = m + 1
      <4>1. h[m + 1] = v /\ h[(m + 1) - 1] = g[m]
        OBVIOUS
      <4> QED BY <4>1, <3>1, Zenon
    <3>2. CASE k # m + 1
      <4>1. k \in 1 .. m /\ h[k] = g[k] /\ h[k - 1] = g[k - 1]
        BY <3>2
      <4> QED BY <4>1, <2>1
    <3> QED BY <3>1, <3>2
  <2> QED BY <2>4, <2>5, <2>6
<1>3. Len(s) \in S
  <2> HIDE DEF S
  <2>1. S \subseteq Nat
    BY DEF S
  <2>2. S = Nat
    BY <1>1, <1>2, <2>1, NatSetInduction
  <2> QED BY <2>2, LenProperties
<1> QED BY <1>3, LenProperties DEF Recursion

\* What the first value of a function has, and every next one if the one before has it,
\* they all have.
LEMMA AllAlong ==
  ASSUME NEW len \in Nat, NEW g, NEW V, g[0] \in V,
         \A k \in 1 .. len : g[k - 1] \in V => g[k] \in V
  PROVE  \A k \in 0 .. len : g[k] \in V
<1> DEFINE S == {m \in Nat : m <= len => g[m] \in V}
<1>1. 0 \in S
  OBVIOUS
<1>2. \A m \in S : m + 1 \in S
  <2> SUFFICES ASSUME NEW m \in Nat, m \in S, m + 1 <= len PROVE g[m + 1] \in V
    OBVIOUS
  <2>1. m + 1 \in 1 .. len /\ (m + 1) - 1 = m
    OBVIOUS
  <2> QED BY <2>1
<1>3. S = Nat
  <2> HIDE DEF S
  <2>1. S \subseteq Nat
    BY DEF S
  <2> QED BY <1>1, <1>2, <2>1, NatSetInduction
<1> QED BY <1>3

\* What SumTo is: the sums of the beginnings of a sequence.
LEMMA SumToSteps ==
  ASSUME NEW s \in Seq(Nat)
  PROVE  /\ SumTo(s) \in [0 .. Len(s) -> Nat]
         /\ SumTo(s)[0] = 0
         /\ \A k \in 1 .. Len(s) : SumTo(s)[k] = SumTo(s)[k - 1] + s[k]
<1> DEFINE step == [x \in Nat \X Nat |-> x[1] + x[2]]
           Body(sum) == [k \in 0 .. Len(s) |-> IF k = 0 THEN 0 ELSE sum[k - 1] + s[k]]
<1>1. step \in [Nat \X Nat -> Nat]
  OBVIOUS
<1>2. PICK g \in [0 .. Len(s) -> Nat] :
        g[0] = 0 /\ \A k \in 1 .. Len(s) : g[k] = step[<<g[k - 1], s[k]>>]
  <2> HIDE DEF step
  <2>1. PICK base \in Nat : base = 0
    OBVIOUS
  <2>2. Recursion(s, Nat, base, step)
    BY <1>1, RecursionExists
  <2> QED BY <2>1, <2>2 DEF Recursion
<1>3. \A k \in 1 .. Len(s) : s[k] \in Nat /\ g[k - 1] \in Nat
  BY ElementOfSeq
<1>4. \A k \in 1 .. Len(s) : g[k] = g[k - 1] + s[k]
  BY <1>2, <1>3
<1>5. g = Body(g)
  <2>1. \A k \in 0 .. Len(s) : g[k] = IF k = 0 THEN 0 ELSE g[k - 1] + s[k]
    BY <1>2, <1>4, LenProperties
  <2>2. g = [k \in 0 .. Len(s) |-> g[k]]
    OBVIOUS
  <2> QED BY <2>1, <2>2, Zenon
<1>6. SumTo(s) = Body(SumTo(s))
  BY <1>5, Zenon DEF SumTo
<1>7. PICK sum : sum = SumTo(s)
  OBVIOUS
<1>8. sum = [k \in 0 .. Len(s) |-> IF k = 0 THEN 0 ELSE sum[k - 1] + s[k]]
  BY <1>6, <1>7, Zenon
<1>9. sum[0] = 0 /\ \A k \in 1 .. Len(s) : sum[k] = sum[k - 1] + s[k]
  BY <1>8, LenProperties
<1>10. \A k \in 0 .. Len(s) : sum[k] \in Nat
  <2>1. \A k \in 1 .. Len(s) : sum[k - 1] \in Nat => sum[k] \in Nat
    BY <1>9, <1>3
  <2>2. sum[0] \in Nat
    BY <1>9
  <2> QED BY <2>1, <2>2, AllAlong, LenProperties
<1>11. sum = [k \in 0 .. Len(s) |-> sum[k]]
  BY <1>8, Zenon
<1>12. sum \in [0 .. Len(s) -> Nat]
  BY <1>10, <1>11
<1> QED BY <1>7, <1>9, <1>12

\* A function that never falls from one number to the next never falls at all.
LEMMA Grows ==
  ASSUME NEW len \in Nat, NEW g \in [0 .. len -> Nat], \A k \in 1 .. len : g[k - 1] <= g[k],
         NEW j \in 0 .. len, NEW k \in 0 .. len, j <= k
  PROVE  g[j] <= g[k]
<1> DEFINE V == {x \in Nat : g[j] <= x}
           up == [d \in 0 .. len - j |-> g[j + d]]
<1>1. len - j \in Nat /\ \A d \in 0 .. len - j : j + d \in 0 .. len
  OBVIOUS
<1>2. up[0] \in V
  BY <1>1
<1>3. \A d \in 1 .. len - j : up[d - 1] \in V => up[d] \in V
  <2> TAKE d \in 1 .. len - j
  <2>1. j + d \in 1 .. len /\ (j + d) - 1 = j + (d - 1) /\ d - 1 \in 0 .. len - j /\ d \in 0 .. len - j
    BY <1>1
  <2>2. g[j + (d - 1)] <= g[j + d] /\ g[j + d] \in Nat /\ g[j + (d - 1)] \in Nat /\ g[j] \in Nat
    BY <1>1, <2>1
  <2>3. up[d] = g[j + d] /\ up[d - 1] = g[j + (d - 1)]
    BY <2>1
  <2> HIDE DEF up
  <2> QED BY <2>2, <2>3
<1>4. \A d \in 0 .. len - j : up[d] \in V
  <2> HIDE DEF up, V
  <2> QED BY <1>1, <1>2, <1>3, AllAlong
<1>5. k - j \in 0 .. len - j /\ j + (k - j) = k
  OBVIOUS
<1>6. up[k - j] = g[k]
  BY <1>5
<1> QED BY <1>4, <1>5, <1>6

LEMMA SumToGrows ==
  ASSUME NEW s \in Seq(Nat), NEW j \in 0 .. Len(s), NEW k \in 0 .. Len(s), j <= k
  PROVE  SumTo(s)[j] <= SumTo(s)[k]
<1>1. Len(s) \in Nat /\ SumTo(s) \in [0 .. Len(s) -> Nat]
  BY SumToSteps, LenProperties
<1>2. \A d \in 1 .. Len(s) : SumTo(s)[d - 1] <= SumTo(s)[d]
  <2> TAKE d \in 1 .. Len(s)
  <2>1. SumTo(s)[d] = SumTo(s)[d - 1] + s[d] /\ s[d] \in Nat
    BY SumToSteps, ElementOfSeq
  <2>2. d - 1 \in 0 .. Len(s)
    BY <1>1
  <2>3. SumTo(s)[d - 1] \in Nat
    BY <1>1, <2>2
  <2> QED BY <2>1, <2>3
<1> QED BY <1>1, <1>2, Grows

\* Multiples of 8 add up to multiples of 8.
LEMMA SumToOfBytes ==
  ASSUME NEW s \in Seq(Nat), \A k \in 1 .. Len(s) : s[k] % 8 = 0
  PROVE  \A k \in 0 .. Len(s) : SumTo(s)[k] % 8 = 0
<1> DEFINE V == {x \in Nat : x % 8 = 0}
<1>1. SumTo(s)[0] \in V
  BY SumToSteps
<1>2. \A k \in 1 .. Len(s) : SumTo(s)[k] = SumTo(s)[k - 1] + s[k] /\ s[k] \in V
  BY SumToSteps, ElementOfSeq
<1>3. \A x, y \in V : x + y \in V
  OBVIOUS
<1>4. \A k \in 1 .. Len(s) : SumTo(s)[k - 1] \in V => SumTo(s)[k] \in V
  <2> HIDE DEF V
  <2> QED BY <1>2, <1>3
<1>5. \A k \in 0 .. Len(s) : SumTo(s)[k] \in V
  <2> HIDE DEF V
  <2> QED BY <1>1, <1>4, AllAlong, LenProperties
<1> QED BY <1>5

-----------------------------------------------------------------------------
(* Layouts: widths, paddings and where the fields lie.                     *)

LEMMA LayoutIsSeq ==
  ASSUME NEW layout \in Layout
  PROVE  /\ layout \in Seq(Nat) /\ Len(layout) \in Nat /\ DOMAIN layout = 1 .. Len(layout)
         /\ \A k \in 1 .. Len(layout) : layout[k] \in Nat /\ layout[k] > 0
<1>1. layout \in Seq(Nat \ {0})
  BY DEF Layout
<1>2. \A k \in 1 .. Len(layout) : layout[k] \in Nat \ {0}
  BY <1>1, ElementOfSeq
<1> QED BY <1>1, <1>2, LenProperties

LEMMA WidthProperties ==
  ASSUME NEW layout \in Layout
  PROVE  /\ Width(layout) \in Nat
         /\ \A k \in 1 .. Len(layout) :
              /\ SumTo(layout)[k - 1] \in Nat
              /\ SumTo(layout)[k] = SumTo(layout)[k - 1] + layout[k]
              /\ SumTo(layout)[k] <= Width(layout)
         /\ SumTo(layout)[0] = 0
<1>1. layout \in Seq(Nat) /\ Len(layout) \in Nat
  BY LayoutIsSeq
<1>2. SumTo(layout) \in [0 .. Len(layout) -> Nat]
  BY <1>1, SumToSteps
<1>3. \A k \in 1 .. Len(layout) : k \in 0 .. Len(layout) /\ k - 1 \in 0 .. Len(layout)
  BY <1>1
<1>4. \A k \in 1 .. Len(layout) : SumTo(layout)[k] <= SumTo(layout)[Len(layout)]
  <2> TAKE k \in 1 .. Len(layout)
  <2>1. k \in 0 .. Len(layout) /\ Len(layout) \in 0 .. Len(layout) /\ k <= Len(layout)
    BY <1>1
  <2> QED BY <1>1, <2>1, SumToGrows
<1>5. SumTo(layout)[0] = 0
  BY <1>1, SumToSteps
<1>6. \A k \in 1 .. Len(layout) : SumTo(layout)[k] = SumTo(layout)[k - 1] + layout[k]
  BY <1>1, SumToSteps
<1>7. \A k \in 1 .. Len(layout) : SumTo(layout)[k - 1] \in Nat
  BY <1>2, <1>3
<1>8. SumTo(layout)[Len(layout)] \in Nat
  BY <1>1, <1>2
<1> QED BY <1>4, <1>5, <1>6, <1>7, <1>8 DEF Width

LEMMA NextPaddingType ==
  ASSUME NEW curr \in Nat, NEW w \in Nat
  PROVE  NextPadding(curr, w) \in Nat
<1>1. TypeAlignment(w) * 8 - w \in Int
  BY DEF TypeAlignment, Rounded
<1>2. (TypeAlignment(w) * 8 - w) % UIntValues \in Nat
  BY <1>1, ConstantsAssumption
<1> QED BY <1>2 DEF NextPadding

\* What PaddingTo is: curr_padding after each field.
LEMMA PaddingToSteps ==
  ASSUME NEW layout \in Layout
  PROVE  /\ PaddingTo(layout) \in [0 .. Len(layout) -> Nat]
         /\ PaddingTo(layout)[0] = 0
         /\ \A k \in 1 .. Len(layout) :
              PaddingTo(layout)[k] = NextPadding(PaddingTo(layout)[k - 1], layout[k])
<1> DEFINE step == [x \in Nat \X Nat |-> NextPadding(x[1], x[2])]
           Body(curr) == [k \in 0 .. Len(layout) |-> IF k = 0 THEN 0 ELSE NextPadding(curr[k - 1], layout[k])]
<1>0. layout \in Seq(Nat) /\ Len(layout) \in Nat /\ \A k \in 1 .. Len(layout) : layout[k] \in Nat
  BY LayoutIsSeq
<1>1. step \in [Nat \X Nat -> Nat]
  <2>1. \A x \in Nat \X Nat : x[1] \in Nat /\ x[2] \in Nat
    OBVIOUS
  <2>2. \A x \in Nat \X Nat : NextPadding(x[1], x[2]) \in Nat
    BY <2>1, NextPaddingType
  <2> QED BY <2>2
<1>2. PICK g \in [0 .. Len(layout) -> Nat] :
        g[0] = 0 /\ \A k \in 1 .. Len(layout) : g[k] = step[<<g[k - 1], layout[k]>>]
  <2> HIDE DEF step
  <2>1. PICK base \in Nat : base = 0
    OBVIOUS
  <2>2. Recursion(layout, Nat, base, step)
    BY <1>0, <1>1, RecursionExists
  <2> QED BY <2>1, <2>2 DEF Recursion
<1>3. \A k \in 1 .. Len(layout) : layout[k] \in Nat /\ g[k - 1] \in Nat
  <2>1. \A k \in 1 .. Len(layout) : k - 1 \in 0 .. Len(layout)
    BY <1>0
  <2> QED BY <1>0, <2>1
<1>4. \A k \in 1 .. Len(layout) : g[k] = NextPadding(g[k - 1], layout[k])
  BY <1>2, <1>3
<1>5. g = Body(g)
  <2>1. \A k \in 0 .. Len(layout) : g[k] = IF k = 0 THEN 0 ELSE NextPadding(g[k - 1], layout[k])
    BY <1>0, <1>2, <1>4
  <2>2. g = [k \in 0 .. Len(layout) |-> g[k]]
    OBVIOUS
  <2> QED BY <2>1, <2>2, Zenon
<1>6. PaddingTo(layout) = Body(PaddingTo(layout))
  BY <1>5, Zenon DEF PaddingTo
<1>7. PICK curr : curr = PaddingTo(layout)
  OBVIOUS
<1>8. curr = [k \in 0 .. Len(layout) |-> IF k = 0 THEN 0 ELSE NextPadding(curr[k - 1], layout[k])]
  BY <1>6, <1>7, Zenon
<1>9. curr[0] = 0 /\ \A k \in 1 .. Len(layout) : curr[k] = NextPadding(curr[k - 1], layout[k])
  BY <1>0, <1>8
<1>10. \A k \in 0 .. Len(layout) : curr[k] \in Nat
  <2>1. \A k \in 1 .. Len(layout) : curr[k - 1] \in Nat => curr[k] \in Nat
    BY <1>9, <1>0, NextPaddingType
  <2>2. curr[0] \in Nat
    BY <1>9
  <2> QED BY <1>0, <2>1, <2>2, AllAlong
<1>11. curr = [k \in 0 .. Len(layout) |-> curr[k]]
  BY <1>8, Zenon
<1>12. curr \in [0 .. Len(layout) -> Nat]
  BY <1>10, <1>11
<1> QED BY <1>7, <1>9, <1>12

\* The C type of a field of up to 64 bits holds it and is a number of bytes.
LEMMA CBitsProperties ==
  ASSUME NEW w \in Nat, w > 0
  PROVE  /\ CBits(w) \in Nat /\ w <= CBits(w) /\ CBits(w) % 8 = 0 /\ CBits(w) >= 8
         /\ w <= 64 => CBits(w) <= 64 /\ TypeAlignment(w) * 8 = CBits(w)
<1>1. CASE w <= 64
  BY <1>1 DEF CBits, Rounded, TypeAlignment
<1>2. CASE w > 64
  <2>1. (w + 7) \div 8 \in Nat /\ w <= 8 * ((w + 7) \div 8) /\ 8 <= 8 * ((w + 7) \div 8)
    BY <1>2
  <2> QED BY <1>2, <2>1 DEF CBits
<1> QED BY <1>1, <1>2

LEMMA ModSmall ==
  ASSUME NEW x \in Nat, NEW m \in Nat, x < m
  PROVE  x % m = x
OBVIOUS

LEMMA NextPaddingCovers ==
  ASSUME NEW curr \in Nat, NEW w \in Nat, w > 0, w <= 64
  PROVE  CBits(w) <= w + NextPadding(curr, w) /\ curr <= w + NextPadding(curr, w)
<1>1. PICK padding \in Nat : padding = CBits(w) - w
  BY CBitsProperties
<1>2. padding < UIntValues /\ w + padding < UIntValues /\ UIntValues \in Nat
  BY <1>1, CBitsProperties, ConstantsAssumption
<1>3. padding % UIntValues = padding /\ (w + padding) % UIntValues = w + padding
  BY <1>2, ModSmall
<1>4. TypeAlignment(w) * 8 - w = padding
  BY <1>1, CBitsProperties
<1>5. NextPadding(curr, w) = IF w + padding >= curr THEN padding ELSE curr
  BY <1>3, <1>4 DEF NextPadding
<1> QED BY <1>1, <1>5, CBitsProperties

\* The length that compileExtract() checks has room for the C type of every field.
LEMMA PaddingCovers ==
  ASSUME NEW layout \in Layout, \A k \in 1 .. Len(layout) : layout[k] <= 64,
         NEW k \in 1 .. Len(layout)
  PROVE  SumTo(layout)[k - 1] + CBits(layout[k]) <= Width(layout) + Padding(layout)
<1> DEFINE len == Len(layout)
           end == [d \in 0 .. len |-> SumTo(layout)[d] + PaddingTo(layout)[d]]
<1>1. layout \in Seq(Nat) /\ len \in Nat /\ \A d \in 1 .. len : layout[d] \in Nat /\ layout[d] > 0
  BY LayoutIsSeq
<1>2. SumTo(layout) \in [0 .. len -> Nat] /\ PaddingTo(layout) \in [0 .. len -> Nat]
  BY <1>1, SumToSteps, PaddingToSteps
<1>3. end \in [0 .. len -> Nat]
  BY <1>2
<1>4. \A d \in 1 .. len : end[d - 1] <= end[d] /\ SumTo(layout)[d - 1] + CBits(layout[d]) <= end[d]
  <2> TAKE d \in 1 .. len
  <2>1. d \in 0 .. len /\ d - 1 \in 0 .. len
    BY <1>1
  <2>2. PICK w \in Nat : w = layout[d] /\ w > 0 /\ w <= 64
    BY <1>1
  <2>3. PICK sum \in Nat, padding \in Nat : sum = SumTo(layout)[d - 1] /\ padding = PaddingTo(layout)[d - 1]
    BY <1>2, <2>1
  <2>4. end[d - 1] = sum + padding
    BY <2>1, <2>3
  <2>5. SumTo(layout)[d] = sum + w
    BY <1>1, <2>2, <2>3, SumToSteps
  <2>6. PICK c \in Nat, next \in Nat : c = CBits(w) /\ next = NextPadding(padding, w)
    BY <2>2, <2>3, NextPaddingType, CBitsProperties
  <2>7. PaddingTo(layout)[d] = next /\ CBits(layout[d]) = c
    BY <2>2, <2>3, <2>6, PaddingToSteps
  <2>8. c <= w + next /\ padding <= w + next
    BY <2>2, <2>3, <2>6, NextPaddingCovers
  <2>9. end[d] = (sum + w) + next
    BY <2>1, <2>5, <2>7
  <2>10. PICK x, y : x = end[d - 1] /\ y = end[d]
    OBVIOUS
  <2>11. x <= y /\ sum + c <= y
    BY <2>4, <2>8, <2>9, <2>10
  <2> QED BY <2>3, <2>7, <2>10, <2>11, Zenon
<1>5. end[k] <= end[len]
  <2>1. k \in 0 .. len /\ len \in 0 .. len /\ k <= len
    BY <1>1
  <2> HIDE DEF end
  <2> QED BY <1>1, <1>3, <1>4, <2>1, Grows
<1>6. end[len] = Width(layout) + Padding(layout) /\ end[k] \in Nat
  BY <1>1, <1>2, <1>3 DEF Width, Padding
<1>7. SumTo(layout)[k - 1] \in Nat /\ CBits(layout[k]) \in Nat
  BY <1>1, WidthProperties, CBitsProperties
<1>8. end[len] \in Nat
  BY <1>1, <1>3
<1> HIDE DEF end
<1> QED BY <1>4, <1>5, <1>6, <1>7, <1>8

-----------------------------------------------------------------------------
(* Programs and places.                                                    *)

LEMMA ProgramIs ==
  ASSUME prog \in Programs
  PROVE  /\ \A h \in DOMAIN prog.headers :
              /\ prog.headers[h] \in Layout /\ (WholeBytes => Width(prog.headers[h]) % 8 = 0)
              /\ DOMAIN prog.headers[h] = 1 .. Len(prog.headers[h]) /\ Len(prog.headers[h]) \in Nat
         /\ Len(prog.parse) \in Nat /\ DOMAIN prog.parse = 1 .. Len(prog.parse)
         /\ \A c \in 1 .. Len(prog.parse) :
              \/ Reads(c) /\ prog.parse[c].arg \in DOMAIN prog.headers
              \/ /\ prog.parse[c].call = "advance" /\ prog.parse[c].arg \in Nat
                 /\ WholeBytes => prog.parse[c].arg % 8 = 0
              \/ prog.parse[c].call = "verify"
         /\ Len(prog.emit) \in Nat /\ DOMAIN prog.emit = 1 .. Len(prog.emit)
         /\ \A e \in 1 .. Len(prog.emit) : prog.emit[e] \in DOMAIN prog.headers
<1>1. prog.headers \in Seq(Layout) /\ prog.emit \in Seq(DOMAIN prog.headers)
  BY ConstantsAssumption
<1>2. \A h \in DOMAIN prog.headers : prog.headers[h] \in Layout
  BY <1>1, ElementOfSeq, LenProperties
<1>3. WholeBytes => \A h \in DOMAIN prog.headers : Width(prog.headers[h]) % 8 = 0
  BY DEF WholeBytes
<1>4. \A h \in DOMAIN prog.headers :
        DOMAIN prog.headers[h] = 1 .. Len(prog.headers[h]) /\ Len(prog.headers[h]) \in Nat
  BY <1>2, LayoutIsSeq
<1>5. Len(prog.parse) \in Nat /\ DOMAIN prog.parse = 1 .. Len(prog.parse)
  BY ConstantsAssumption
<1>6. \A c \in 1 .. Len(prog.parse) :
        \/ Reads(c) /\ prog.parse[c].arg \in DOMAIN prog.headers
        \/ prog.parse[c].call = "advance" /\ prog.parse[c].arg \in Nat
        \/ prog.parse[c].call = "verify"
  BY <1>5, ConstantsAssumption DEF Reads
<1>7. WholeBytes => \A c \in 1 .. Len(prog.parse) : prog.parse[c].call = "advance" => prog.parse[c].arg % 8 = 0
  BY <1>5 DEF WholeBytes
<1>8. Len(prog.emit) \in Nat /\ DOMAIN prog.emit = 1 .. Len(prog.emit)
  BY <1>1, LenProperties
<1>9. \A e \in 1 .. Len(prog.emit) : prog.emit[e] \in DOMAIN prog.headers
  BY <1>1, ElementOfSeq
<1> QED BY <1>2, <1>3, <1>4, <1>5, <1>6, <1>7, <1>8, <1>9

LEMMA WholeBytesStays ==
  ASSUME UNCHANGED prog PROVE WholeBytes' <=> WholeBytes
BY DEF WholeBytes

\* A header starts where the one before it ends, with a byte if they are of whole bytes.
LEMMA ReadFromSteps ==
  ASSUME prog \in Programs
  PROVE  /\ \A c \in 1 .. Len(prog.parse) + 1 : ReadFrom(c) \in Nat /\ (WholeBytes => ReadFrom(c) % 8 = 0)
         /\ ReadFrom(1) = 0
         /\ \A c \in 1 .. Len(prog.parse) : ReadFrom(c + 1) = ReadFrom(c) + Advances(prog.parse[c])
<1> DEFINE s == [d \in DOMAIN prog.parse |-> Advances(prog.parse[d])]
<1>1. Len(prog.parse) \in Nat /\ DOMAIN prog.parse = 1 .. Len(prog.parse)
  BY ProgramIs
<1>2. \A c \in 1 .. Len(prog.parse) :
        Advances(prog.parse[c]) \in Nat /\ (WholeBytes => Advances(prog.parse[c]) % 8 = 0)
  <2> TAKE c \in 1 .. Len(prog.parse)
  <2>1. CASE Reads(c) /\ prog.parse[c].arg \in DOMAIN prog.headers
    <3>1. /\ Width(prog.headers[prog.parse[c].arg]) \in Nat
          /\ WholeBytes => Width(prog.headers[prog.parse[c].arg]) % 8 = 0
      BY <2>1, ProgramIs, WidthProperties
    <3> QED BY <2>1, <3>1 DEF Reads, Advances
  <2>2. CASE /\ prog.parse[c].call = "advance" /\ prog.parse[c].arg \in Nat
             /\ WholeBytes => prog.parse[c].arg % 8 = 0
    BY <2>2 DEF Advances
  <2>3. CASE prog.parse[c].call = "verify"
    BY <2>3 DEF Advances
  <2> QED BY <2>1, <2>2, <2>3, ProgramIs
<1>3. s \in Seq(Nat) /\ Len(s) = Len(prog.parse) /\ \A c \in 1 .. Len(prog.parse) : s[c] = Advances(prog.parse[c])
  BY <1>1, <1>2
<1>4. PICK sum : sum = SumTo(s)
  OBVIOUS
<1>5. /\ sum \in [0 .. Len(prog.parse) -> Nat] /\ sum[0] = 0
      /\ \A c \in 1 .. Len(prog.parse) : sum[c] = sum[c - 1] + s[c]
  <2> HIDE DEF s
  <2> QED BY <1>3, <1>4, SumToSteps
<1>6. WholeBytes => \A c \in 0 .. Len(prog.parse) : sum[c] % 8 = 0
  <2>1. WholeBytes => \A c \in 1 .. Len(s) : s[c] % 8 = 0
    BY <1>2, <1>3
  <2> HIDE DEF s
  <2> QED BY <1>3, <1>4, <2>1, SumToOfBytes
<1>7. \A c : ReadFrom(c) = sum[c - 1]
  BY <1>4, Zenon DEF ReadFrom
<1>8. \A c \in 1 .. Len(prog.parse) + 1 : c - 1 \in 0 .. Len(prog.parse)
  BY <1>1
<1>9. ReadFrom(1) = 0
  BY <1>5, <1>7
<1>10. \A c \in 1 .. Len(prog.parse) + 1 : ReadFrom(c) \in Nat /\ (WholeBytes => ReadFrom(c) % 8 = 0)
  <2> HIDE DEF s
  <2> QED BY <1>5, <1>6, <1>7, <1>8
<1>11. \A c \in 1 .. Len(prog.parse) : ReadFrom(c + 1) = ReadFrom(c) + Advances(prog.parse[c])
  <2> TAKE c \in 1 .. Len(prog.parse)
  <2>1. ReadFrom(c + 1) = sum[c] /\ ReadFrom(c) = sum[c - 1]
    BY <1>7
  <2> QED BY <1>3, <1>5, <2>1
<1> QED BY <1>9, <1>10, <1>11

LEMMA WrittenToSteps ==
  ASSUME prog \in Programs
  PROVE  /\ \A e \in 1 .. Len(prog.emit) + 1 :
              /\ WrittenTo(e) \in Nat /\ WrittenTo(e) <= outHeaderLength
              /\ WholeBytes => WrittenTo(e) % 8 = 0
         /\ WrittenTo(1) = 0
         /\ \A e \in 1 .. Len(prog.emit) :
              /\ valid[prog.emit[e]] => WrittenTo(e + 1) = WrittenTo(e) + Width(prog.headers[prog.emit[e]])
              /\ ~valid[prog.emit[e]] => WrittenTo(e + 1) = WrittenTo(e)
         /\ outHeaderLength = WrittenTo(Len(prog.emit) + 1)
<1> DEFINE s == Lengths
<1>1. Len(prog.emit) \in Nat /\ DOMAIN prog.emit = 1 .. Len(prog.emit)
  BY ProgramIs
<1>2. \A e \in 1 .. Len(prog.emit) :
        /\ Width(prog.headers[prog.emit[e]]) \in Nat
        /\ WholeBytes => Width(prog.headers[prog.emit[e]]) % 8 = 0
  BY ProgramIs, WidthProperties
<1>3. /\ s \in Seq(Nat) /\ Len(s) = Len(prog.emit)
      /\ \A e \in 1 .. Len(prog.emit) :
           /\ s[e] = (IF valid[prog.emit[e]] THEN Width(prog.headers[prog.emit[e]]) ELSE 0)
           /\ WholeBytes => s[e] % 8 = 0
  BY <1>1, <1>2 DEF Lengths
<1>4. PICK sum : sum = SumTo(s)
  OBVIOUS
<1>5. /\ sum \in [0 .. Len(prog.emit) -> Nat] /\ sum[0] = 0
      /\ \A e \in 1 .. Len(prog.emit) : sum[e] = sum[e - 1] + s[e]
  <2> HIDE DEF s
  <2> QED BY <1>3, <1>4, SumToSteps
<1>6. WholeBytes => \A e \in 0 .. Len(prog.emit) : sum[e] % 8 = 0
  <2>1. WholeBytes => \A e \in 1 .. Len(s) : s[e] % 8 = 0
    BY <1>3
  <2> HIDE DEF s
  <2> QED BY <1>3, <1>4, <2>1, SumToOfBytes
<1>7. \A e : WrittenTo(e) = sum[e - 1]
  BY <1>4, Zenon DEF WrittenTo
<1>8. \A e \in 1 .. Len(prog.emit) + 1 : e - 1 \in 0 .. Len(prog.emit) /\ e - 1 <= Len(prog.emit)
  BY <1>1
<1>9. outHeaderLength = sum[Len(prog.emit)]
  BY <1>4, Zenon DEF outHeaderLength
<1>10. \A e \in 0 .. Len(prog.emit) : sum[e] <= sum[Len(prog.emit)]
  <2> TAKE e \in 0 .. Len(prog.emit)
  <2>1. e \in 0 .. Len(s) /\ Len(prog.emit) \in 0 .. Len(s) /\ e <= Len(prog.emit)
    BY <1>1, <1>3
  <2> HIDE DEF s
  <2> QED BY <1>3, <1>4, <2>1, SumToGrows
<1>11. \A e \in 1 .. Len(prog.emit) + 1 :
         /\ WrittenTo(e) \in Nat /\ WrittenTo(e) <= outHeaderLength
         /\ WholeBytes => WrittenTo(e) % 8 = 0
  <2> HIDE DEF s
  <2> QED BY <1>5, <1>6, <1>7, <1>8, <1>9, <1>10
<1>12. \A e \in 1 .. Len(prog.emit) :
         /\ valid[prog.emit[e]] => WrittenTo(e + 1) = WrittenTo(e) + Width(prog.headers[prog.emit[e]])
         /\ ~valid[prog.emit[e]] => WrittenTo(e + 1) = WrittenTo(e)
  <2> TAKE e \in 1 .. Len(prog.emit)
  <2>1. WrittenTo(e + 1) = sum[e] /\ WrittenTo(e) = sum[e - 1] /\ WrittenTo(e) \in Nat
    BY <1>7, <1>11
  <2>2. sum[e] = sum[e - 1] + s[e]
    BY <1>5
  <2>3. CASE valid[prog.emit[e]]
    <3>1. s[e] = Width(prog.headers[prog.emit[e]])
      BY <1>3, <2>3
    <3> HIDE DEF s
    <3> QED BY <2>1, <2>2, <2>3, <3>1
  <2>4. CASE ~valid[prog.emit[e]]
    <3>1. s[e] = 0
      BY <1>3, <2>4
    <3> HIDE DEF s
    <3> QED BY <2>1, <2>2, <2>4, <3>1
  <2> QED BY <2>3, <2>4
<1>13. outHeaderLength = WrittenTo(Len(prog.emit) + 1)
  BY <1>1, <1>7, <1>9
<1>14. WrittenTo(1) = 0
  BY <1>5, <1>7
<1> QED BY <1>11, <1>12, <1>13, <1>14

\* What is known of the field k of a header.
LEMMA FieldIs ==
  ASSUME prog \in Programs, NEW h \in DOMAIN prog.headers, NEW k \in DOMAIN prog.headers[h]
  PROVE  /\ prog.headers[h][k] \in Nat /\ prog.headers[h][k] > 0
         /\ StartOf(h, k) \in Nat /\ Width(prog.headers[h]) \in Nat
         /\ StartOf(h, k) + prog.headers[h][k] <= Width(prog.headers[h])
         /\ StartOf(h, k + 1) = StartOf(h, k) + prog.headers[h][k]
         /\ AlignmentOf(h, k) \in 0 .. 7 /\ AlignmentOf(h, k) = StartOf(h, k) % 8
<1>1. prog.headers[h] \in Layout /\ DOMAIN prog.headers[h] = 1 .. Len(prog.headers[h])
  BY ProgramIs
<1>2. prog.headers[h][k] \in Nat /\ prog.headers[h][k] > 0
  BY <1>1, LayoutIsSeq
<1>3. /\ Width(prog.headers[h]) \in Nat /\ SumTo(prog.headers[h])[k - 1] \in Nat
      /\ SumTo(prog.headers[h])[k] = SumTo(prog.headers[h])[k - 1] + prog.headers[h][k]
      /\ SumTo(prog.headers[h])[k] <= Width(prog.headers[h])
  BY <1>1, WidthProperties
<1>4. StartOf(h, k) = SumTo(prog.headers[h])[k - 1]
  BY DEF StartOf
<1>5. StartOf(h, k + 1) = SumTo(prog.headers[h])[k]
  BY <1>1, LayoutIsSeq DEF StartOf
<1>6. PICK start \in Nat : start = StartOf(h, k)
  BY <1>3, <1>4
<1>7. start % 8 \in 0 .. 7 /\ AlignmentOf(h, k) = start % 8
  BY <1>6 DEF AlignmentOf
<1> QED BY <1>2, <1>3, <1>4, <1>5, <1>6, <1>7

LEMMA LastFieldEnds ==
  ASSUME prog \in Programs, NEW h \in DOMAIN prog.headers
  PROVE  /\ StartOf(h, Len(prog.headers[h]) + 1) = Width(prog.headers[h])
         /\ StartOf(h, 1) = 0
         /\ \A k \in 1 .. Len(prog.headers[h]) + 1 : StartOf(h, k) \in Nat
<1>1. prog.headers[h] \in Layout /\ Len(prog.headers[h]) \in Nat
  BY ProgramIs
<1>2. PICK layout \in Layout : layout = prog.headers[h] /\ layout \in Seq(Nat) /\ Len(layout) \in Nat
  BY <1>1, LayoutIsSeq
<1>3. SumTo(layout) \in [0 .. Len(layout) -> Nat] /\ SumTo(layout)[0] = 0
  BY <1>2, SumToSteps
<1>4. \A k : StartOf(h, k) = SumTo(layout)[k - 1]
  BY <1>2 DEF StartOf
<1>5. \A k \in 1 .. Len(layout) + 1 : k - 1 \in 0 .. Len(layout)
  BY <1>2
<1>6. (Len(layout) + 1) - 1 = Len(layout)
  BY <1>2
<1>7. StartOf(h, Len(layout) + 1) = Width(layout)
  BY <1>4, <1>6 DEF Width
<1>8. StartOf(h, 1) = 0
  BY <1>3, <1>4
<1>9. \A k \in 1 .. Len(layout) + 1 : StartOf(h, k) \in Nat
  BY <1>3, <1>4, <1>5
<1> QED BY <1>2, <1>7, <1>8, <1>9

\* The header that is being read.
LEMMA Reading ==
  ASSUME TypeOK, Cursor, pc = "extract"
  PROVE  /\ n \in 1 .. Len(prog.parse) /\ n \in Nat /\ Reads(n)
         /\ Call = prog.parse[n] /\ Call.arg \in DOMAIN prog.headers
         /\ Widths = prog.headers[Call.arg] /\ Len(Widths) \in Nat /\ DOMAIN Widths = 1 .. Len(Widths)
         /\ Widths \in Layout
         /\ f \in 1 .. Len(Widths) + 1 /\ f \in Nat
         /\ ReadFrom(n) \in Nat /\ (WholeBytes => ReadFrom(n) % 8 = 0)
         /\ StartOf(Call.arg, f) \in Nat /\ offset = ReadFrom(n) + StartOf(Call.arg, f)
         /\ Width(Widths) \in Nat /\ (WholeBytes => Width(Widths) % 8 = 0)
         /\ StartOf(Call.arg, Len(Widths) + 1) = Width(Widths)
<1>1. prog \in Programs /\ n \in 1 .. Len(prog.parse) /\ Reads(n)
  BY DEF TypeOK, Cursor
<1>2. Call = prog.parse[n] /\ Call.arg \in DOMAIN prog.headers
  BY <1>1, ProgramIs DEF Call, Reads
<1>3. Widths = prog.headers[Call.arg]
  BY DEF Widths
<1>4. /\ Len(Widths) \in Nat /\ DOMAIN Widths = 1 .. Len(Widths) /\ Widths \in Layout
      /\ WholeBytes => Width(Widths) % 8 = 0
  BY <1>1, <1>2, <1>3, ProgramIs
<1>5. f \in 1 .. Len(Widths) + 1 /\ offset = ReadFrom(n) + StartOf(Call.arg, f)
  BY DEF Cursor
<1>6. ReadFrom(n) \in Nat /\ (WholeBytes => ReadFrom(n) % 8 = 0)
  <2>1. n \in 1 .. Len(prog.parse) + 1
    BY <1>1, ProgramIs
  <2> QED BY <1>1, <2>1, ReadFromSteps
<1>7. Width(Widths) \in Nat
  BY <1>4, WidthProperties
<1>8. StartOf(Call.arg, f) \in Nat /\ StartOf(Call.arg, Len(Widths) + 1) = Width(Widths)
  BY <1>1, <1>2, <1>3, <1>5, LastFieldEnds
<1>9. n \in Nat /\ f \in Nat
  BY DEF TypeOK
<1> QED BY <1>1, <1>2, <1>3, <1>4, <1>5, <1>6, <1>7, <1>8, <1>9

\* The header that is being written.
LEMMA Writing ==
  ASSUME TypeOK, Position, pc \in {"fields", "bytes"}
  PROVE  /\ n \in 1 .. Len(prog.emit) /\ Out = prog.emit[n] /\ Out \in DOMAIN prog.headers /\ valid[Out]
         /\ prog.headers[Out] \in Layout
         /\ Len(prog.headers[Out]) \in Nat /\ DOMAIN prog.headers[Out] = 1 .. Len(prog.headers[Out])
         /\ f \in 1 .. Len(prog.headers[Out]) + 1 /\ f \in Nat
         /\ WrittenTo(n) \in Nat /\ (WholeBytes => WrittenTo(n) % 8 = 0)
         /\ StartOf(Out, f) \in Nat /\ offset = WrittenTo(n) + StartOf(Out, f)
         /\ WrittenTo(n + 1) = WrittenTo(n) + Width(prog.headers[Out]) /\ WrittenTo(n + 1) <= outHeaderLength
         /\ outHeaderLength \in Nat /\ (WholeBytes => outHeaderLength % 8 = 0)
<1>1. prog \in Programs /\ n \in 1 .. Len(prog.emit) /\ valid[Out]
  BY DEF TypeOK, Position
<1>2. Out = prog.emit[n] /\ Out \in DOMAIN prog.headers
  BY <1>1, ProgramIs DEF Out
<1>3. /\ prog.headers[Out] \in Layout
      /\ Len(prog.headers[Out]) \in Nat /\ DOMAIN prog.headers[Out] = 1 .. Len(prog.headers[Out])
  BY <1>1, <1>2, ProgramIs
<1>4. f \in 1 .. Len(prog.headers[Out]) + 1 /\ offset = WrittenTo(n) + StartOf(Out, f)
  BY DEF Position
<1>5. Len(prog.emit) \in Nat
  BY <1>1, ProgramIs
<1>6. n \in 1 .. Len(prog.emit) + 1 /\ n + 1 \in 1 .. Len(prog.emit) + 1
      /\ Len(prog.emit) + 1 \in 1 .. Len(prog.emit) + 1
  BY <1>1, <1>5
<1>7. WrittenTo(n) \in Nat /\ (WholeBytes => WrittenTo(n) % 8 = 0) /\ WrittenTo(n + 1) <= outHeaderLength
  BY <1>1, <1>6, WrittenToSteps
<1>8. WrittenTo(n + 1) = WrittenTo(n) + Width(prog.headers[Out])
  BY <1>1, <1>2, WrittenToSteps
<1>9. outHeaderLength \in Nat /\ (WholeBytes => outHeaderLength % 8 = 0)
  BY <1>1, <1>6, WrittenToSteps
<1>10. StartOf(Out, f) \in Nat
  BY <1>1, <1>2, <1>4, LastFieldEnds
<1>11. f \in Nat
  BY DEF TypeOK
<1> QED BY <1>1, <1>2, <1>3, <1>4, <1>7, <1>8, <1>9, <1>10, <1>11

-----------------------------------------------------------------------------
(* Types.                                                                  *)

HeadersOK(g) ==
  /\ DOMAIN g = DOMAIN prog.headers
  /\ \A h \in DOMAIN prog.headers :
       /\ DOMAIN g[h] = DOMAIN prog.headers[h]
       /\ \A k \in DOMAIN prog.headers[h] : DOMAIN g[h][k] = 0 .. CBits(prog.headers[h][k]) - 1

\* One field of one header is set.
SetTo(g, h, k, x) ==
  /\ g[h][k] = x
  /\ \A o \in DOMAIN prog.headers : \A l \in DOMAIN prog.headers[o] :
       o # h \/ l # k => g[o][l] = hdr[o][l]

LEMMA SetField ==
  ASSUME HeadersOK(hdr), NEW h \in DOMAIN prog.headers, NEW k \in DOMAIN prog.headers[h],
         NEW x, DOMAIN x = 0 .. CBits(prog.headers[h][k]) - 1,
         NEW g, g = [hdr EXCEPT ![h][k] = x]
  PROVE  HeadersOK(g) /\ SetTo(g, h, k, x)
<1>1. DOMAIN g = DOMAIN prog.headers
  BY DEF HeadersOK
<1>2. \A o \in DOMAIN prog.headers : o # h => g[o] = hdr[o]
  BY DEF HeadersOK
<1>3. g[h] = [hdr[h] EXCEPT ![k] = x]
  BY DEF HeadersOK
<1>4. DOMAIN g[h] = DOMAIN prog.headers[h] /\ g[h][k] = x
      /\ \A l \in DOMAIN prog.headers[h] : l # k => g[h][l] = hdr[h][l]
  BY <1>3 DEF HeadersOK
<1>5. \A o \in DOMAIN prog.headers : DOMAIN g[o] = DOMAIN prog.headers[o]
  BY <1>2, <1>4 DEF HeadersOK
<1>6. \A o \in DOMAIN prog.headers : \A l \in DOMAIN prog.headers[o] :
        o # h \/ l # k => g[o][l] = hdr[o][l]
  BY <1>2, <1>4
<1>7. \A o \in DOMAIN prog.headers : \A l \in DOMAIN prog.headers[o] :
        DOMAIN g[o][l] = 0 .. CBits(prog.headers[o][l]) - 1
  <2> TAKE o \in DOMAIN prog.headers
  <2> TAKE l \in DOMAIN prog.headers[o]
  <2>1. CASE o = h /\ l = k
    BY <1>4, <2>1
  <2>2. CASE o # h \/ l # k
    BY <1>6, <2>2 DEF HeadersOK
  <2> QED BY <2>1, <2>2
<1> QED BY <1>1, <1>4, <1>5, <1>6, <1>7 DEF HeadersOK, SetTo

\* The order of one field is set.
OrderOK(o) ==
  /\ DOMAIN o = DOMAIN prog.headers
  /\ \A h \in DOMAIN prog.headers :
       /\ DOMAIN o[h] = DOMAIN prog.headers[h]
       /\ \A k \in DOMAIN prog.headers[h] :
            o[h][k] = "least" \/ (o[h][k] = "most" /\ prog.headers[h][k] > 64)

OrderSetTo(o, h, k, x) ==
  /\ o[h][k] = x
  /\ \A g \in DOMAIN prog.headers : \A l \in DOMAIN prog.headers[g] :
       g # h \/ l # k => o[g][l] = order[g][l]

LEMMA SetOrder ==
  ASSUME OrderOK(order), NEW h \in DOMAIN prog.headers, NEW k \in DOMAIN prog.headers[h],
         NEW x, x = "least" \/ (x = "most" /\ prog.headers[h][k] > 64),
         NEW o, o = [order EXCEPT ![h][k] = x]
  PROVE  OrderOK(o) /\ OrderSetTo(o, h, k, x)
<1>1. DOMAIN o = DOMAIN prog.headers /\ \A g \in DOMAIN prog.headers : g # h => o[g] = order[g]
  BY DEF OrderOK
<1>2. o[h] = [order[h] EXCEPT ![k] = x]
  BY DEF OrderOK
<1>3. DOMAIN o[h] = DOMAIN prog.headers[h] /\ o[h][k] = x
      /\ \A l \in DOMAIN prog.headers[h] : l # k => o[h][l] = order[h][l]
  BY <1>2 DEF OrderOK
<1>4. \A g \in DOMAIN prog.headers : \A l \in DOMAIN prog.headers[g] : g # h \/ l # k => o[g][l] = order[g][l]
  BY <1>1, <1>3
<1>5. \A g \in DOMAIN prog.headers : DOMAIN o[g] = DOMAIN prog.headers[g]
  BY <1>1, <1>3 DEF OrderOK
<1>6. \A g \in DOMAIN prog.headers : \A l \in DOMAIN prog.headers[g] :
        o[g][l] = "least" \/ (o[g][l] = "most" /\ prog.headers[g][l] > 64)
  <2> TAKE g \in DOMAIN prog.headers
  <2> TAKE l \in DOMAIN prog.headers[g]
  <2>1. CASE g = h /\ l = k
    BY <1>3, <2>1
  <2>2. CASE g # h \/ l # k
    BY <1>4, <2>2 DEF OrderOK
  <2> QED BY <2>1, <2>2
<1> QED BY <1>1, <1>3, <1>4, <1>5, <1>6 DEF OrderOK, OrderSetTo

LEMMA ScalarFieldType ==
  ASSUME NEW w \in Nat, NEW a \in Nat
  PROVE  DOMAIN ScalarField(w, a) = 0 .. CBits(w) - 1
BY DEF ScalarField, Fill, Cast

LEMMA WideFieldType ==
  ASSUME NEW w \in Nat, NEW a \in Nat, w > 0
  PROVE  DOMAIN WideField(w, a) = 0 .. CBits(w) - 1
<1>1. PICK c \in Nat : c = CBits(w) /\ c % 8 = 0
  BY CBitsProperties
<1>2. 8 * (c \div 8) = c
  BY <1>1
<1>3. DOMAIN WideField(w, a) = 0 .. 8 * (CBits(w) \div 8) - 1
  BY DEF WideField
<1> QED BY <1>1, <1>2, <1>3

LEMMA WithByteType ==
  ASSUME NEW p, NEW byte, NEW at, NEW left, NEW w, NEW a
  PROVE  DOMAIN WithByte(p, byte, at, left, w, a) = DOMAIN p
<1>1. \A q, x, y : DOMAIN ReplaceByte(q, x, y) = DOMAIN q
  BY DEF ReplaceByte
<1>2. \A q, x, u, v, y : DOMAIN write_partial(q, x, u, v, y) = DOMAIN q
  BY <1>1, Zenon DEF write_partial
<1> DEFINE inByte == IF left >= 8 THEN 8 ELSE left
           toWrite == IF inByte > 8 - a THEN 8 - a ELSE inByte
           dropped == IF w > 8 - a THEN IF a = 0 THEN 8 - toWrite ELSE a ELSE 0
           first == IF toWrite = 8 THEN ReplaceByte(p, at, byte)
                    ELSE write_partial(p, at, toWrite, 8 - a - toWrite, ShiftRight(byte, dropped))
<1>3. WithByte(p, byte, at, left, w, a) =
        IF inByte = toWrite THEN first ELSE write_partial(first, at + 1, 8 - toWrite, toWrite, byte)
  BY DEF WithByte
<1>4. DOMAIN first = DOMAIN p
  <2> HIDE DEF toWrite, dropped
  <2> QED BY <1>1, <1>2
<1> HIDE DEF first, inByte, toWrite
<1> QED BY <1>2, <1>3, <1>4

LEMMA InMemoryType ==
  ASSUME NEW h, NEW k
  PROVE  DOMAIN InMemory(h, k) = DOMAIN hdr[h][k]
BY DEF InMemory, Swap, ShiftLeft

\* A packet of so many bits.
LEMMA PacketLength ==
  ASSUME NEW p, NEW len \in Nat, DOMAIN p = 1 .. len, len % 8 = 0
  PROVE  Len(p) = len /\ Len(p) \in Nat /\ Len(p) % 8 = 0 /\ DOMAIN p = 1 .. Len(p)
<1>1. Len(p) = len
  OBVIOUS
<1> QED BY <1>1

\* What a step may change of the variables that types are about, in parts.
PcsOK == pc \in {"parse", "extract", "control", "resize", "emit", "fields", "bytes", "done", "dropped"}
PacketOK == Len(pkt) \in Nat /\ Len(pkt) % 8 = 0 /\ DOMAIN pkt = 1 .. Len(pkt)
ErrorOK == error \in {"NoError", "PacketTooShort"}
             \cup {prog.parse[c].arg : c \in {d \in DOMAIN prog.parse : prog.parse[d].call = "verify"}}
NumbersOK == offset \in Nat /\ n \in Nat /\ f \in Nat /\ written \in Nat /\ consumed \in Nat
FlagsOK == valid \in [DOMAIN prog.headers -> BOOLEAN] /\ outside \in BOOLEAN

LEMMA TypeParts ==
  TypeOK <=> /\ prog \in Programs /\ size \in Sizes
             /\ PcsOK /\ PacketOK /\ ErrorOK /\ NumbersOK /\ FlagsOK /\ HeadersOK(hdr) /\ OrderOK(order)
BY DEF TypeOK, PcsOK, PacketOK, ErrorOK, NumbersOK, FlagsOK, HeadersOK, OrderOK

LEMMA TypeInit ==
  ASSUME Init PROVE TypeOK
<1>1. prog \in Programs /\ size \in Nat /\ size \in Sizes
  BY ConstantsAssumption DEF Init
<1>2. PacketOK
  <2>1. PICK len \in Nat : len = 8 * size /\ len % 8 = 0
    BY <1>1
  <2>2. DOMAIN pkt = 1 .. len
    BY <2>1 DEF Init, Received
  <2> QED BY <2>1, <2>2, PacketLength DEF PacketOK
<1>3. HeadersOK(hdr) /\ OrderOK(order)
  BY DEF Init, HeadersOK, OrderOK, Fill
<1>4. PcsOK /\ ErrorOK /\ NumbersOK /\ FlagsOK
  BY DEF Init, PcsOK, ErrorOK, NumbersOK, FlagsOK
<1> QED BY <1>1, <1>2, <1>3, <1>4, TypeParts

\* Cutting off or making room leaves a packet of whole bytes.
LEMMA AdjustRoomLength ==
  ASSUME PacketOK, NEW by \in Int, AdjustRoom(by)
  PROVE  PacketOK' /\ Len(pkt') = Len(pkt) + 8 * by
<1>1. MacBytes \in Nat /\ MacBytes <= PacketBytes /\ MacBytes - by <= PacketBytes
  BY ConstantsAssumption DEF AdjustRoom
<1>2. PICK bytes \in Nat : Len(pkt) = 8 * bytes /\ PacketBytes = bytes
  <2>1. PICK len \in Nat : len = Len(pkt) /\ len % 8 = 0
    BY DEF PacketOK
  <2>2. len = 8 * (len \div 8) /\ len \div 8 \in Nat
    BY <2>1
  <2> QED BY <2>1, <2>2 DEF PacketBytes, Bytes
<1>3. PICK len \in Nat : len = Len(pkt) + 8 * by /\ len % 8 = 0
  BY <1>1, <1>2
<1>4. DOMAIN pkt' = 1 .. len
  BY <1>3 DEF AdjustRoom
<1> QED BY <1>3, <1>4, PacketLength DEF PacketOK

\* What the control block puts into a field: what the field had, what another field of
\* its width had, or a parameter.
LEMMA ControlSets ==
  ASSUME prog \in Programs, HeadersOK(hdr), OrderOK(order), Control
  PROVE  /\ prog' = prog /\ DOMAIN hdr' = DOMAIN prog.headers /\ DOMAIN order' = DOMAIN prog.headers
         /\ \A h \in DOMAIN prog.headers :
              /\ DOMAIN hdr'[h] = DOMAIN prog.headers[h] /\ DOMAIN order'[h] = DOMAIN prog.headers[h]
              /\ \A k \in DOMAIN prog.headers[h] :
                   /\ DOMAIN hdr'[h][k] = 0 .. CBits(prog.headers[h][k]) - 1
                   /\ order'[h][k] = "least" \/ (order'[h][k] = "most" /\ prog.headers[h][k] > 64)
                   /\ \/ /\ hdr'[h][k] = Set(h, k) /\ order'[h][k] = "least" /\ meant'[h][k] = FieldBits(h, k)
                      \/ \E g \in DOMAIN prog.headers : \E l \in DOMAIN prog.headers[g] :
                           /\ prog.headers[g][l] = prog.headers[h][k]
                           /\ (h = g /\ k = l) \/ prog.headers[h][k] > 64
                           /\ hdr'[h][k] = hdr[g][l] /\ order'[h][k] = order[g][l]
                           /\ meant'[h][k] = Value(g, l)
<1>1. PICK from \in [WideFields -> WideFields] :
        /\ \A x \in WideFields : from[x] # x =>
             prog.headers[x[1]][x[2]] = prog.headers[from[x][1]][from[x][2]]
        /\ LET copied(h, k) == <<h, k>> \in WideFields /\ from[<<h, k>>] # <<h, k>>
               new(h, k) == CASE copied(h, k) -> Content(from[<<h, k>>][1], from[<<h, k>>][2])
                              [] ~copied(h, k) /\ valid'[h] /\ ~valid[h] -> Parameter(h, k)
                              [] OTHER -> Content(h, k)
           IN /\ hdr' = [h \in DOMAIN hdr |-> [k \in DOMAIN hdr[h] |-> new(h, k).object]]
              /\ order' = [h \in DOMAIN hdr |-> [k \in DOMAIN hdr[h] |-> new(h, k).order]]
              /\ meant' = [h \in DOMAIN hdr |-> [k \in DOMAIN hdr[h] |-> new(h, k).value]]
  BY DEF Control
<1> DEFINE copied(h, k) == <<h, k>> \in WideFields /\ from[<<h, k>>] # <<h, k>>
           new(h, k) == CASE copied(h, k) -> Content(from[<<h, k>>][1], from[<<h, k>>][2])
                          [] ~copied(h, k) /\ valid'[h] /\ ~valid[h] -> Parameter(h, k)
                          [] OTHER -> Content(h, k)
<1>2. /\ hdr' = [h \in DOMAIN hdr |-> [k \in DOMAIN hdr[h] |-> new(h, k).object]]
      /\ order' = [h \in DOMAIN hdr |-> [k \in DOMAIN hdr[h] |-> new(h, k).order]]
      /\ meant' = [h \in DOMAIN hdr |-> [k \in DOMAIN hdr[h] |-> new(h, k).value]]
  BY <1>1
<1>3. \A h, k : /\ copied(h, k) => new(h, k) = Content(from[<<h, k>>][1], from[<<h, k>>][2])
                /\ ~copied(h, k) /\ valid'[h] /\ ~valid[h] => new(h, k) = Parameter(h, k)
                /\ ~copied(h, k) /\ ~(valid'[h] /\ ~valid[h]) => new(h, k) = Content(h, k)
  <2> HIDE DEF copied
  <2> QED OBVIOUS
<1>4. \A h, k : copied(h, k) =>
        \E g \in DOMAIN prog.headers : \E l \in DOMAIN prog.headers[g] :
          /\ from[<<h, k>>][1] = g /\ from[<<h, k>>][2] = l
          /\ prog.headers[g][l] = prog.headers[h][k] /\ prog.headers[h][k] > 64
  <2> SUFFICES ASSUME NEW h, NEW k, copied(h, k)
               PROVE  \E g \in DOMAIN prog.headers : \E l \in DOMAIN prog.headers[g] :
                        /\ from[<<h, k>>][1] = g /\ from[<<h, k>>][2] = l
                        /\ prog.headers[g][l] = prog.headers[h][k] /\ prog.headers[h][k] > 64
    OBVIOUS
  <2>1. PICK x, y : /\ x = <<h, k>> /\ x \in WideFields /\ y = from[x] /\ y # x /\ y \in WideFields
                    /\ prog.headers[x[1]][x[2]] = prog.headers[y[1]][y[2]]
    BY <1>1
  <2>2. prog.headers[h][k] > 64
    BY <2>1 DEF WideFields
  <2>3. PICK g \in DOMAIN prog.headers : y \in {g} \X DOMAIN prog.headers[g]
    BY <2>1 DEF WideFields, Fields
  <2>4. y[1] = g /\ y[2] \in DOMAIN prog.headers[g]
    BY <2>3
  <2> QED BY <2>1, <2>2, <2>4
<1>5. \A h \in DOMAIN prog.headers : h \in DOMAIN hdr /\ DOMAIN hdr[h] = DOMAIN prog.headers[h]
  BY DEF HeadersOK
<1> HIDE DEF new, copied
<1>6. \A h \in DOMAIN prog.headers : \A k \in DOMAIN prog.headers[h] :
        /\ hdr'[h][k] = new(h, k).object /\ order'[h][k] = new(h, k).order
        /\ meant'[h][k] = new(h, k).value
  BY <1>2, <1>5
<1>7. \A g, l : /\ Content(g, l).object = hdr[g][l] /\ Content(g, l).order = order[g][l]
                /\ Content(g, l).value = Value(g, l)
                /\ Parameter(g, l).object = Set(g, l) /\ Parameter(g, l).order = "least"
                /\ Parameter(g, l).value = FieldBits(g, l)
  BY DEF Content, Parameter
<1>8. ASSUME NEW h \in DOMAIN prog.headers, NEW k \in DOMAIN prog.headers[h]
      PROVE  \/ hdr'[h][k] = Set(h, k) /\ order'[h][k] = "least" /\ meant'[h][k] = FieldBits(h, k)
             \/ \E g \in DOMAIN prog.headers : \E l \in DOMAIN prog.headers[g] :
                  /\ prog.headers[g][l] = prog.headers[h][k]
                  /\ (h = g /\ k = l) \/ prog.headers[h][k] > 64
                  /\ hdr'[h][k] = hdr[g][l] /\ order'[h][k] = order[g][l]
                  /\ meant'[h][k] = Value(g, l)
  <2>1. CASE copied(h, k)
    <3>1. PICK g \in DOMAIN prog.headers : \E l \in DOMAIN prog.headers[g] :
            /\ from[<<h, k>>][1] = g /\ from[<<h, k>>][2] = l
            /\ prog.headers[g][l] = prog.headers[h][k] /\ prog.headers[h][k] > 64
      BY <1>4, <2>1
    <3>2. PICK l \in DOMAIN prog.headers[g] :
            /\ from[<<h, k>>][1] = g /\ from[<<h, k>>][2] = l
            /\ prog.headers[g][l] = prog.headers[h][k] /\ prog.headers[h][k] > 64
      BY <3>1
    <3>3. new(h, k) = Content(g, l)
      BY <1>3, <2>1, <3>2
    <3> QED BY <1>6, <1>7, <3>2, <3>3
  <2>2. CASE ~copied(h, k) /\ valid'[h] /\ ~valid[h]
    <3>1. new(h, k) = Parameter(h, k)
      BY <1>3, <2>2
    <3>2. hdr'[h][k] = Set(h, k) /\ order'[h][k] = "least" /\ meant'[h][k] = FieldBits(h, k)
      BY <1>6, <1>7, <3>1
    <3> QED BY <3>2
  <2>3. CASE ~copied(h, k) /\ ~(valid'[h] /\ ~valid[h])
    <3>1. new(h, k) = Content(h, k)
      BY <1>3, <2>3
    <3>2. hdr'[h][k] = hdr[h][k] /\ order'[h][k] = order[h][k] /\ meant'[h][k] = Value(h, k)
      BY <1>6, <1>7, <3>1
    <3> QED BY <3>2
  <2> QED BY <2>1, <2>2, <2>3
<1>9. ASSUME NEW h \in DOMAIN prog.headers, NEW k \in DOMAIN prog.headers[h]
      PROVE  /\ DOMAIN hdr'[h][k] = 0 .. CBits(prog.headers[h][k]) - 1
             /\ order'[h][k] = "least" \/ (order'[h][k] = "most" /\ prog.headers[h][k] > 64)
  <2>1. DOMAIN Set(h, k) = 0 .. CBits(prog.headers[h][k]) - 1
    BY DEF Set, Cast
  <2>2. \A g \in DOMAIN prog.headers : \A l \in DOMAIN prog.headers[g] :
          /\ DOMAIN hdr[g][l] = 0 .. CBits(prog.headers[g][l]) - 1
          /\ order[g][l] = "least" \/ (order[g][l] = "most" /\ prog.headers[g][l] > 64)
    BY DEF HeadersOK, OrderOK
  <2> QED BY <1>8, <2>1, <2>2
<1>10. prog' = prog
  BY DEF Control
<1>11. DOMAIN hdr' = DOMAIN prog.headers /\ DOMAIN order' = DOMAIN prog.headers
  BY <1>2 DEF HeadersOK
<1>12. \A h \in DOMAIN prog.headers :
         DOMAIN hdr'[h] = DOMAIN prog.headers[h] /\ DOMAIN order'[h] = DOMAIN prog.headers[h]
  BY <1>2, <1>5
<1> QED BY <1>8, <1>9, <1>10, <1>11, <1>12

LEMMA TypeStep ==
  ASSUME TypeOK, Cursor, Position, Next PROVE TypeOK'
<1>1. /\ prog \in Programs /\ size \in Sizes /\ PcsOK /\ PacketOK /\ ErrorOK /\ NumbersOK /\ FlagsOK
      /\ HeadersOK(hdr) /\ OrderOK(order)
  BY TypeParts
<1> SUFFICES /\ prog' \in Programs /\ size' \in Sizes
             /\ PcsOK' /\ PacketOK' /\ ErrorOK' /\ NumbersOK' /\ FlagsOK' /\ HeadersOK(hdr)' /\ OrderOK(order)'
  BY DEF TypeOK, PcsOK, PacketOK, ErrorOK, NumbersOK, FlagsOK, HeadersOK, OrderOK
<1>2. UNCHANGED pkt => PacketOK'
  BY <1>1 DEF PacketOK
<1>3. UNCHANGED <<prog, hdr, order>> => HeadersOK(hdr)' /\ OrderOK(order)'
  BY <1>1 DEF HeadersOK, OrderOK
<1>4. UNCHANGED <<prog, error>> => ErrorOK'
  BY <1>1 DEF ErrorOK
<1>5. UNCHANGED <<prog, valid, outside>> => FlagsOK'
  BY <1>1 DEF FlagsOK
<1>6. CASE CheckLength
  <2>1. ErrorOK' /\ PcsOK'
    BY <1>1, <1>6 DEF CheckLength, ErrorOK, PcsOK, Rejected
  <2>2. NumbersOK'
    BY <1>1, <1>6 DEF CheckLength, NumbersOK
  <2> QED BY <1>1, <1>2, <1>3, <1>5, <1>6, <2>1, <2>2 DEF CheckLength
<1>7. CASE ExtractField
  <2>1. /\ Call.arg \in DOMAIN prog.headers /\ Widths = prog.headers[Call.arg]
        /\ f \in 1 .. Len(Widths) /\ f \in DOMAIN prog.headers[Call.arg]
    BY <1>7, Reading DEF ExtractField
  <2>2. PICK w, a : w = Widths[f] /\ a = AlignmentOf(Call.arg, f) /\ w \in Nat /\ w > 0 /\ a \in Nat
    BY <1>1, <2>1, FieldIs
  <2>3. PICK x : x = (IF w <= 64 THEN ScalarField(w, a) ELSE WideField(w, a))
    OBVIOUS
  <2>4. DOMAIN x = 0 .. CBits(w) - 1
    BY <2>2, <2>3, ScalarFieldType, WideFieldType
  <2>5. hdr' = [hdr EXCEPT ![Call.arg][f] = x]
    BY <1>7, <2>2, <2>3, Zenon DEF ExtractField
  <2>6. HeadersOK(hdr')
    BY <1>1, <2>1, <2>2, <2>4, <2>5, SetField
  <2>7. HeadersOK(hdr)'
    BY <1>7, <2>6 DEF HeadersOK, ExtractField
  <2>11. OrderOK(order)'
    <3>1. PICK x1 : x1 = (IF w <= 64 THEN "least" ELSE "most")
      OBVIOUS
    <3>2. order' = [order EXCEPT ![Call.arg][f] = x1]
      BY <1>7, <2>2, <3>1, Zenon DEF ExtractField
    <3>3. x1 = "least" \/ (x1 = "most" /\ prog.headers[Call.arg][f] > 64)
      BY <2>1, <2>2, <3>1
    <3>4. OrderOK(order')
      BY <1>1, <2>1, <3>2, <3>3, SetOrder
    <3> QED BY <1>7, <3>4 DEF OrderOK, ExtractField
  <2>8. NumbersOK'
    BY <1>1, <1>7, <2>2 DEF NumbersOK, ExtractField
  <2>9. FlagsOK'
    BY <1>1, <1>7 DEF FlagsOK, ExtractField, LoadsOutside
  <2>10. PcsOK'
    BY <1>1, <1>7 DEF PcsOK, ExtractField
  <2> QED BY <1>1, <1>2, <1>4, <1>7, <2>7, <2>8, <2>9, <2>10, <2>11 DEF ExtractField
<1>8. CASE Extracted
  <2>1. pc = "extract" /\ f = Len(Widths) + 1
    BY <1>8 DEF Extracted
  <2>2. /\ Call.arg \in DOMAIN prog.headers /\ Width(Widths) \in Nat
        /\ offset = ReadFrom(n) + Width(Widths) /\ ReadFrom(n) \in Nat
    BY <2>1, Reading
  <2>3. NumbersOK'
    BY <1>1, <1>8, <2>2 DEF NumbersOK, Extracted
  <2>4. FlagsOK'
    BY <1>1, <1>8, <2>2 DEF FlagsOK, Extracted
  <2>5. PcsOK'
    BY <1>8 DEF PcsOK, Extracted
  <2> QED BY <1>1, <1>2, <1>3, <1>4, <1>8, <2>3, <2>4, <2>5 DEF Extracted
<1>9. CASE Advance
  <2>1. Call.arg \in Nat
    <3>1. n \in 1 .. Len(prog.parse)
      BY <1>9 DEF Advance, Cursor
    <3> QED BY <1>1, <1>9, <3>1, ProgramIs DEF Advance, Call, Reads
  <2>2. ErrorOK' /\ PcsOK'
    BY <1>1, <1>9 DEF Advance, ErrorOK, PcsOK, Rejected
  <2>3. NumbersOK'
    BY <1>1, <1>9, <2>1 DEF Advance, NumbersOK
  <2> QED BY <1>1, <1>2, <1>3, <1>5, <1>9, <2>2, <2>3 DEF Advance
<1>10. CASE Verify
  <2>1. n \in DOMAIN prog.parse
    BY <1>1, <1>10, ProgramIs DEF Verify, Cursor
  <2>2. ErrorOK' /\ PcsOK'
    BY <1>1, <1>10, <2>1 DEF Verify, ErrorOK, PcsOK, Rejected, Call
  <2>3. NumbersOK'
    BY <1>1, <1>10 DEF Verify, NumbersOK
  <2> QED BY <1>1, <1>2, <1>3, <1>5, <1>10, <2>2, <2>3 DEF Verify
<1>11. CASE LastTransition
  BY <1>1, <1>2, <1>3, <1>4, <1>5, <1>11 DEF LastTransition, PcsOK, NumbersOK, Rejected
<1>12. CASE Control
  <2>1. /\ valid' \in [DOMAIN prog.headers -> BOOLEAN] /\ UNCHANGED <<prog, size, pkt, error, outside>>
        /\ NumbersOK' /\ PcsOK'
    BY <1>1, <1>12 DEF NumbersOK, PcsOK, Control
  <2>2. HeadersOK(hdr)' /\ OrderOK(order)'
    BY <1>1, <1>12, ControlSets DEF HeadersOK, OrderOK
  <2>3. FlagsOK'
    BY <1>1, <2>1 DEF FlagsOK
  <2> QED BY <1>1, <1>2, <1>4, <2>1, <2>2, <2>3
<1>13. CASE ResizeBuffer
  <2>1. PICK by : by = Bytes(outHeaderLength) - Bytes(offset)
    OBVIOUS
  <2>2. by \in Int
    <3>1. outHeaderLength \in Nat
      BY <1>1, ProgramIs, WrittenToSteps
    <3>2. offset \in Nat
      BY <1>1 DEF NumbersOK
    <3> QED BY <2>1, <3>1, <3>2 DEF Bytes
  <2>3. PacketOK'
    BY <1>1, <1>2, <1>13, <2>1, <2>2, AdjustRoomLength DEF ResizeBuffer
  <2>4. NumbersOK' /\ PcsOK'
    BY <1>1, <1>13 DEF ResizeBuffer, NumbersOK, PcsOK
  <2> QED BY <1>1, <1>3, <1>4, <1>5, <1>13, <2>3, <2>4 DEF ResizeBuffer
<1>14. CASE SkipHeader
  BY <1>1, <1>2, <1>3, <1>4, <1>5, <1>14 DEF SkipHeader, PcsOK, NumbersOK
<1>15. CASE EmitHeader
  BY <1>1, <1>2, <1>3, <1>4, <1>5, <1>15 DEF EmitHeader, PcsOK, NumbersOK
<1>16. CASE StartField
  <2>1. Out \in DOMAIN prog.headers /\ f \in DOMAIN prog.headers[Out]
    BY <1>16, Writing DEF StartField
  <2>2. PICK x : x = InMemory(Out, f) /\ DOMAIN x = 0 .. CBits(prog.headers[Out][f]) - 1
    BY <1>1, <2>1, InMemoryType DEF HeadersOK
  <2>3. hdr' = [hdr EXCEPT ![Out][f] = x]
    BY <1>16, <2>2 DEF StartField
  <2>4. HeadersOK(hdr')
    BY <1>1, <2>1, <2>2, <2>3, SetField
  <2>5. HeadersOK(hdr)'
    BY <1>16, <2>4 DEF HeadersOK, StartField
  <2>6. NumbersOK' /\ PcsOK'
    BY <1>1, <1>16 DEF StartField, NumbersOK, PcsOK
  <2>7. OrderOK(order)'
    BY <1>1, <1>16 DEF OrderOK, StartField
  <2> QED BY <1>1, <1>2, <1>4, <1>5, <1>16, <2>5, <2>6, <2>7 DEF StartField
<1>17. CASE EmitByte
  <2>1. PICK byte, at, left, w, a : pkt' = WithByte(pkt, byte, at, left, w, a)
    BY <1>17, Zenon DEF EmitByte
  <2>2. DOMAIN pkt' = 1 .. Len(pkt) /\ Len(pkt) \in Nat /\ Len(pkt) % 8 = 0
    BY <1>1, <2>1, WithByteType DEF PacketOK
  <2>3. PacketOK'
    BY <2>2, PacketLength DEF PacketOK
  <2>4. NumbersOK' /\ PcsOK'
    BY <1>1, <1>17 DEF EmitByte, NumbersOK, PcsOK
  <2> QED BY <1>1, <1>3, <1>4, <1>5, <1>17, <2>3, <2>4 DEF EmitByte
<1>18. CASE FieldEmitted
  <2>1. Out \in DOMAIN prog.headers /\ f \in DOMAIN prog.headers[Out]
    BY <1>18, Writing DEF FieldEmitted, Position
  <2>2. prog.headers[Out][f] \in Nat
    BY <1>1, <2>1, FieldIs
  <2>3. NumbersOK' /\ PcsOK'
    BY <1>1, <1>18, <2>2 DEF FieldEmitted, NumbersOK, PcsOK
  <2> QED BY <1>1, <1>2, <1>3, <1>4, <1>5, <1>18, <2>3 DEF FieldEmitted
<1>19. CASE HeaderEmitted
  BY <1>1, <1>2, <1>3, <1>4, <1>5, <1>19 DEF HeaderEmitted, PcsOK, NumbersOK
<1>20. CASE Deparsed
  BY <1>1, <1>2, <1>3, <1>4, <1>5, <1>20 DEF Deparsed, PcsOK, NumbersOK
<1> QED BY <1>6, <1>7, <1>8, <1>9, <1>10, <1>11, <1>12, <1>13, <1>14, <1>15, <1>16, <1>17,
           <1>18, <1>19, <1>20 DEF Next

-----------------------------------------------------------------------------
(* Where the parser and the deparser are.                                  *)

LEMMA PlacesStay ==
  ASSUME UNCHANGED prog
  PROVE  /\ \A c : ReadFrom(c)' = ReadFrom(c) /\ (Reads(c)' <=> Reads(c))
         /\ \A h, k : StartOf(h, k)' = StartOf(h, k) /\ AlignmentOf(h, k)' = AlignmentOf(h, k)
BY DEF ReadFrom, Reads, Advances, StartOf, AlignmentOf

LEMMA CursorInit ==
  ASSUME Init PROVE Cursor
<1>1. prog \in Programs
  BY DEF Init
<1>2. ReadFrom(1) = 0 /\ Len(prog.parse) \in Nat
  BY <1>1, ReadFromSteps, ProgramIs
<1> QED BY <1>2 DEF Init, Cursor

LEMMA CursorStep ==
  ASSUME TypeOK, Cursor, Next PROVE Cursor'
<1>1. prog \in Programs /\ n \in Nat /\ offset \in Nat /\ Len(prog.parse) \in Nat
  BY ProgramIs DEF TypeOK
<1>0. UNCHANGED prog => (WholeBytes' => WholeBytes)
  BY WholeBytesStays
<1>2. CASE CheckLength
  <2>1. n \in 1 .. Len(prog.parse) /\ Reads(n) /\ offset = ReadFrom(n)
    BY <1>1, <1>2 DEF CheckLength, Cursor, Reads, Call
  <2>2. WholeBytes => offset % 8 = 0
    BY <1>1, <2>1, ReadFromSteps
  <2>3. StartOf(Call.arg, 1) = 0 /\ 1 \in 1 .. Len(Widths) + 1
    <3>1. Call.arg \in DOMAIN prog.headers
      BY <1>1, <2>1, ProgramIs DEF Call, Reads
    <3>2. Len(Widths) \in Nat
      BY <1>1, <3>1, ProgramIs DEF Widths
    <3> QED BY <1>1, <3>1, <3>2, LastFieldEnds
  <2>4. ReadFrom(n)' = ReadFrom(n) /\ Reads(n)' /\ StartOf(Call.arg, 1)' = StartOf(Call.arg, 1)
    BY <1>2, <2>1 DEF CheckLength, ReadFrom, Reads, Advances, StartOf, Call
  <2>5. CASE PacketBytes < Bytes(offset + Width(Widths) + Padding(Widths))
    <3>1. pc' \in {"control", "dropped"} /\ offset' = offset /\ n' = n /\ prog' = prog
      BY <1>2, <2>5 DEF CheckLength, Rejected
    <3>2. (n \in 1 .. Len(prog.parse) + 1)'
      BY <1>1, <2>1, <3>1
    <3> QED BY <1>0, <2>2, <3>1, <3>2 DEF Cursor
  <2>6. CASE ~(PacketBytes < Bytes(offset + Width(Widths) + Padding(Widths)))
    <3>1. pc' = "extract" /\ offset' = offset /\ n' = n /\ f' = 1 /\ pkt' = pkt /\ prog' = prog
      BY <1>2, <2>6 DEF CheckLength
    <3>2. PacketBytes \in Int /\ Bytes(offset + Width(Widths) + Padding(Widths)) \in Int
      <4>1. Call.arg \in DOMAIN prog.headers
        BY <1>1, <2>1, ProgramIs DEF Call, Reads
      <4>2. PICK layout \in Layout : layout = Widths
        BY <1>1, <4>1, ProgramIs DEF Widths
      <4>3. PICK sum \in Nat, padding \in Nat : sum = Width(layout) /\ padding = Padding(layout)
        <5>1. Width(layout) \in Nat
          BY WidthProperties
        <5>2. PaddingTo(layout) \in [0 .. Len(layout) -> Nat] /\ Len(layout) \in 0 .. Len(layout)
          BY PaddingToSteps, LayoutIsSeq
        <5> QED BY <5>1, <5>2 DEF Padding
      <4>4. offset + Width(Widths) + Padding(Widths) \in Nat
        BY <1>1, <4>2, <4>3
      <4>5. Len(pkt) \in Nat
        BY DEF TypeOK
      <4> QED BY <4>4, <4>5 DEF PacketBytes, Bytes
    <3>3. Bytes(ReadFrom(n) + Width(Widths) + Padding(Widths)) <= PacketBytes
      BY <2>1, <2>6, <3>2
    <3>4. (Bytes(ReadFrom(n) + Width(Widths) + Padding(Widths)) <= PacketBytes)'
      BY <2>4, <3>1, <3>3 DEF PacketBytes, Bytes, Widths, Call
    <3>5. (offset = ReadFrom(n) + StartOf(Call.arg, f))'
      BY <1>1, <2>1, <2>3, <2>4, <3>1 DEF Call
    <3>6. (n \in 1 .. Len(prog.parse) /\ f \in 1 .. Len(Widths) + 1)'
      BY <1>1, <2>1, <2>3, <3>1 DEF Widths, Call
    <3> QED BY <1>1, <2>1, <2>4, <3>1, <3>4, <3>5, <3>6 DEF Cursor
  <2> QED BY <2>5, <2>6
<1>3. CASE ExtractField
  <2>1. /\ n \in 1 .. Len(prog.parse) /\ Reads(n) /\ Call.arg \in DOMAIN prog.headers
        /\ Widths = prog.headers[Call.arg] /\ Len(Widths) \in Nat
        /\ f \in 1 .. Len(Widths) /\ f \in DOMAIN prog.headers[Call.arg]
        /\ StartOf(Call.arg, f) \in Nat /\ offset = ReadFrom(n) + StartOf(Call.arg, f) /\ ReadFrom(n) \in Nat
    BY <1>3, Reading DEF ExtractField
  <2>2. StartOf(Call.arg, f + 1) = StartOf(Call.arg, f) + Widths[f] /\ Widths[f] \in Nat
    BY <1>1, <2>1, FieldIs
  <2>3. UNCHANGED <<prog, pc, pkt, n>> /\ pc = "extract" /\ f' = f + 1 /\ offset' = offset + Widths[f]
    BY <1>3 DEF ExtractField
  <2>4. offset' = ReadFrom(n) + StartOf(Call.arg, f + 1)
    BY <2>1, <2>2, <2>3
  <2>5. (offset = ReadFrom(n) + StartOf(Call.arg, f))'
    BY <2>3, <2>4 DEF ReadFrom, StartOf, Advances, Call
  <2>6. (Bytes(ReadFrom(n) + Width(Widths) + Padding(Widths)) <= PacketBytes)'
    BY <2>3 DEF Cursor, PacketBytes, Bytes, Widths, Call, ReadFrom, Advances
  <2>7. (n \in 1 .. Len(prog.parse) /\ Reads(n) /\ f \in 1 .. Len(Widths) + 1)'
    BY <2>1, <2>3, SMTT(30) DEF Widths, Call, Reads
  <2>8. (n \in 1 .. Len(prog.parse) + 1)'
    BY <1>1, <2>1, <2>3
  <2> QED BY <2>3, <2>5, <2>6, <2>7, <2>8 DEF Cursor
<1>4. CASE Extracted
  <2>1. /\ n \in 1 .. Len(prog.parse) /\ Reads(n) /\ Call = prog.parse[n]
        /\ Widths = prog.headers[Call.arg] /\ Width(Widths) \in Nat /\ ReadFrom(n) \in Nat
        /\ offset = ReadFrom(n) + Width(Widths)
    BY <1>4, Reading DEF Extracted
  <2>2. ReadFrom(n + 1) = ReadFrom(n) + Advances(Call)
    BY <1>1, <2>1, ReadFromSteps
  <2>3. offset' = ReadFrom(n + 1)
    <3>1. CASE Call.call = "lookahead"
      <4>1. Advances(Call) = 0 /\ offset' = offset - Width(Widths)
        BY <1>4, <3>1 DEF Advances, Extracted
      <4> QED BY <2>1, <2>2, <4>1
    <3>2. CASE Call.call # "lookahead"
      <4>1. Advances(Call) = Width(Widths) /\ offset' = offset
        BY <1>4, <2>1, <3>2 DEF Advances, Extracted, Reads
      <4> QED BY <2>1, <2>2, <4>1
    <3> QED BY <3>1, <3>2
  <2>4. pc' = "parse" /\ n' = n + 1 /\ prog' = prog
    BY <1>4 DEF Extracted
  <2>5. (offset = ReadFrom(n))'
    BY <2>3, <2>4 DEF ReadFrom, Advances
  <2> QED BY <1>1, <2>1, <2>4, <2>5 DEF Cursor
<1>5. CASE Advance
  <2>1. n \in 1 .. Len(prog.parse) /\ offset = ReadFrom(n) /\ Call = prog.parse[n] /\ Call.call = "advance"
    BY <1>1, <1>5 DEF Advance, Cursor, Call
  <2>2. Call.arg \in Nat
    BY <1>1, <2>1, ProgramIs DEF Reads
  <2>3. n \in 1 .. Len(prog.parse) + 1 /\ n + 1 \in 1 .. Len(prog.parse) + 1
    BY <1>1, <2>1
  <2>4. ReadFrom(n + 1) = ReadFrom(n) + Call.arg
    BY <1>1, <2>1, ReadFromSteps DEF Advances
  <2>5. offset' = ReadFrom(n + 1) /\ prog' = prog
    BY <1>5, <2>1, <2>4 DEF Advance
  <2>6. WholeBytes' => offset' % 8 = 0
    BY <1>0, <1>1, <2>3, <2>5, ReadFromSteps
  <2>7. CASE pc' = "parse" /\ n' = n + 1
    <3>1. (offset = ReadFrom(n))'
      BY <2>5, <2>7 DEF ReadFrom, Advances
    <3> QED BY <2>3, <2>5, <2>7, <3>1 DEF Cursor
  <2>8. CASE pc' \in {"control", "dropped"} /\ n' = n
    BY <2>3, <2>5, <2>6, <2>8 DEF Cursor
  <2>9. pc = "parse"
    BY <1>5 DEF Advance
  <2> QED BY <1>5, <2>7, <2>8, <2>9 DEF Advance, Rejected
<1>6. CASE Verify
  <2>1. n \in 1 .. Len(prog.parse) /\ offset = ReadFrom(n) /\ Call = prog.parse[n] /\ Call.call = "verify"
    BY <1>1, <1>6 DEF Verify, Cursor, Call
  <2>2. n \in 1 .. Len(prog.parse) + 1 /\ n + 1 \in 1 .. Len(prog.parse) + 1
    BY <1>1, <2>1
  <2>3. ReadFrom(n + 1) = ReadFrom(n)
    BY <1>1, <2>1, <2>2, ReadFromSteps DEF Advances
  <2>4. WholeBytes => offset % 8 = 0
    BY <1>1, <2>1, <2>2, ReadFromSteps
  <2>5. UNCHANGED <<prog, offset>> /\ pc = "parse"
    BY <1>6 DEF Verify
  <2>6. CASE pc' = "parse" /\ n' = n + 1
    <3>1. (offset = ReadFrom(n))'
      BY <2>1, <2>3, <2>5, <2>6 DEF ReadFrom, Advances
    <3> QED BY <2>2, <2>5, <2>6, <3>1 DEF Cursor
  <2>7. CASE pc' \in {"control", "dropped"} /\ n' = n
    BY <1>0, <2>2, <2>4, <2>5, <2>7 DEF Cursor
  <2> QED BY <1>6, <2>5, <2>6, <2>7 DEF Verify, Rejected
<1>7. CASE LastTransition
  <2>1. n = Len(prog.parse) + 1 /\ offset = ReadFrom(n)
    BY <1>7 DEF LastTransition, Cursor
  <2>2. n \in 1 .. Len(prog.parse) + 1
    BY <1>1, <2>1
  <2>3. WholeBytes => offset % 8 = 0
    BY <1>1, <2>1, <2>2, ReadFromSteps
  <2>4. pc' \in {"control", "dropped"} /\ UNCHANGED <<prog, n, offset>>
    BY <1>7 DEF LastTransition, Rejected
  <2> QED BY <1>0, <2>2, <2>3, <2>4 DEF Cursor
<1>8. CASE Control
  BY <1>0, <1>8 DEF Control, Cursor
<1>9. pc' \notin {"parse", "extract", "control", "resize"} => Cursor'
  BY DEF Cursor
<1>10. CASE ResizeBuffer \/ SkipHeader \/ EmitHeader \/ StartField \/ EmitByte \/ FieldEmitted \/ HeaderEmitted \/ Deparsed
  BY <1>9, <1>10 DEF ResizeBuffer, SkipHeader, EmitHeader, StartField, EmitByte, FieldEmitted, HeaderEmitted, Deparsed
<1> QED BY <1>2, <1>3, <1>4, <1>5, <1>6, <1>7, <1>8, <1>10 DEF Next

LEMMA UntouchedStep ==
  ASSUME Untouched, Next PROVE Untouched'
<1>1. CASE \/ CheckLength \/ ExtractField \/ Extracted \/ Advance \/ Verify \/ LastTransition \/ Control
  BY <1>1 DEF CheckLength, ExtractField, Extracted, Advance, Verify, LastTransition, Control,
     Untouched, Received
<1>2. CASE \/ ResizeBuffer \/ SkipHeader \/ EmitHeader \/ StartField \/ EmitByte \/ FieldEmitted
           \/ HeaderEmitted \/ Deparsed
  BY <1>2 DEF ResizeBuffer, SkipHeader, EmitHeader, StartField, EmitByte, FieldEmitted, HeaderEmitted,
     Deparsed, Untouched
<1> QED BY <1>1, <1>2 DEF Next

LEMMA PositionStep ==
  ASSUME TypeOK, Position, Next PROVE Position'
<1>1. prog \in Programs /\ n \in Nat /\ offset \in Nat /\ Len(prog.emit) \in Nat
  BY ProgramIs DEF TypeOK
<1>2. UNCHANGED <<prog, valid>> =>
        \A e : WrittenTo(e)' = WrittenTo(e) /\ \A h, k : StartOf(h, k)' = StartOf(h, k)
  BY DEF WrittenTo, Lengths, StartOf
<1>3. pc' \notin {"emit", "fields", "bytes"} => Position'
  BY DEF Position
<1>4. CASE \/ CheckLength \/ ExtractField \/ Extracted \/ Advance \/ Verify \/ LastTransition \/ Control \/ Deparsed
  BY <1>3, <1>4 DEF CheckLength, ExtractField, Extracted, Advance, Verify, LastTransition, Control,
     Deparsed, Rejected
<1>5. CASE ResizeBuffer
  <2>1. UNCHANGED <<prog, valid>> /\ offset' = 0 /\ n' = 1 /\ pc' \in {"emit", "dropped"}
    BY <1>5 DEF ResizeBuffer
  <2>2. WrittenTo(1) = 0
    BY <1>1, WrittenToSteps
  <2>3. (offset = WrittenTo(n))'
    BY <1>2, <2>1, <2>2
  <2> QED BY <1>1, <1>3, <2>1, <2>3 DEF Position
<1>6. CASE SkipHeader
  <2>1. /\ pc = "emit" /\ pc' = "emit" /\ UNCHANGED <<prog, valid, offset>> /\ n' = n + 1
        /\ n \in 1 .. Len(prog.emit) /\ ~valid[prog.emit[n]] /\ offset = WrittenTo(n)
    BY <1>1, <1>6 DEF SkipHeader, Position, Out
  <2>2. WrittenTo(n + 1) = WrittenTo(n)
    BY <1>1, <2>1, WrittenToSteps
  <2>3. (offset = WrittenTo(n))'
    BY <1>2, <2>1, <2>2
  <2> QED BY <1>1, <2>1, <2>3 DEF Position
<1>7. CASE EmitHeader
  <2>1. /\ pc = "emit" /\ pc' \in {"fields", "dropped"} /\ UNCHANGED <<prog, valid, offset, n>> /\ f' = 1
        /\ n \in 1 .. Len(prog.emit) /\ valid[Out] /\ offset = WrittenTo(n)
    BY <1>1, <1>7 DEF EmitHeader, Position
  <2>2. Out = prog.emit[n] /\ Out \in DOMAIN prog.headers
    BY <1>1, <2>1, ProgramIs DEF Out
  <2>3. StartOf(Out, 1) = 0 /\ 1 \in 1 .. Len(prog.headers[Out]) + 1
    BY <1>1, <2>2, ProgramIs, LastFieldEnds
  <2>4. Out' = Out
    BY <2>1 DEF Out
  <2>5. (offset = WrittenTo(n) + StartOf(Out, f))'
    BY <1>1, <1>2, <2>1, <2>3, <2>4
  <2>6. (f \in 1 .. Len(prog.headers[Out]) + 1 /\ valid[Out] /\ n \in 1 .. Len(prog.emit))'
    BY <2>1, <2>3, <2>4
  <2> QED BY <1>3, <2>1, <2>5, <2>6 DEF Position
<1>8. CASE StartField
  <2>1. /\ pc = "fields" /\ pc' = "bytes" /\ UNCHANGED <<prog, valid, offset, n, f>>
        /\ f <= Len(prog.headers[Out])
    BY <1>8 DEF StartField
  <2>2. f \in 1 .. Len(prog.headers[Out])
    BY <2>1, Writing
  <2>3. Out' = Out
    BY <2>1 DEF Out
  <2>4. (offset = WrittenTo(n) + StartOf(Out, f))'
    BY <1>2, <2>1, <2>3, Writing
  <2> QED BY <2>1, <2>2, <2>3, <2>4 DEF Position
<1>9. CASE EmitByte
  <2>1. pc = "bytes" /\ UNCHANGED <<prog, pc, valid, offset, n, f>>
    BY <1>9 DEF EmitByte
  <2>2. Out' = Out
    BY <2>1 DEF Out
  <2>3. (offset = WrittenTo(n) + StartOf(Out, f))'
    BY <1>2, <2>1, <2>2, Writing
  <2> QED BY <2>1, <2>2, <2>3 DEF Position
<1>10. CASE FieldEmitted
  <2>1. /\ pc = "bytes" /\ pc' = "fields" /\ UNCHANGED <<prog, valid, n>> /\ f' = f + 1
        /\ offset' = offset + prog.headers[Out][f]
        /\ f \in 1 .. Len(prog.headers[Out])
    BY <1>10 DEF FieldEmitted, Position
  <2>2. Out \in DOMAIN prog.headers /\ f \in DOMAIN prog.headers[Out] /\ Len(prog.headers[Out]) \in Nat
        /\ WrittenTo(n) \in Nat /\ StartOf(Out, f) \in Nat /\ offset = WrittenTo(n) + StartOf(Out, f)
        /\ n \in 1 .. Len(prog.emit) /\ valid[Out]
    BY <2>1, Writing
  <2>3. StartOf(Out, f + 1) = StartOf(Out, f) + prog.headers[Out][f] /\ prog.headers[Out][f] \in Nat
    BY <1>1, <2>2, FieldIs
  <2>4. offset' = WrittenTo(n) + StartOf(Out, f + 1)
    BY <2>1, <2>2, <2>3
  <2>5. Out' = Out
    BY <2>1 DEF Out
  <2>6. (offset = WrittenTo(n) + StartOf(Out, f))'
    BY <1>2, <2>1, <2>4, <2>5
  <2>7. (f \in 1 .. Len(prog.headers[Out]) + 1)'
    BY <2>1, <2>2, <2>5
  <2> QED BY <2>1, <2>2, <2>5, <2>6, <2>7 DEF Position
<1>11. CASE HeaderEmitted
  <2>1. /\ pc = "fields" /\ pc' = "emit" /\ UNCHANGED <<prog, valid, offset>> /\ n' = n + 1
        /\ f = Len(prog.headers[Out]) + 1
    BY <1>11 DEF HeaderEmitted
  <2>2. /\ n \in 1 .. Len(prog.emit) /\ Out \in DOMAIN prog.headers
        /\ offset = WrittenTo(n) + StartOf(Out, f)
        /\ WrittenTo(n + 1) = WrittenTo(n) + Width(prog.headers[Out])
    BY <2>1, Writing
  <2>3. StartOf(Out, f) = Width(prog.headers[Out])
    BY <1>1, <2>1, <2>2, LastFieldEnds
  <2>4. (offset = WrittenTo(n))'
    BY <1>2, <2>1, <2>2, <2>3
  <2>5. (n \in 1 .. Len(prog.emit) + 1)'
    BY <1>1, <2>1, <2>2
  <2> QED BY <2>1, <2>4, <2>5 DEF Position
<1> QED BY <1>4, <1>5, <1>6, <1>7, <1>8, <1>9, <1>10, <1>11 DEF Next

-----------------------------------------------------------------------------
(* Loads.                                                                  *)

LEMMA LoadBitsIs ==
  ASSUME NEW w \in Nat, w > 0, NEW a \in 0 .. 7
  PROVE  LoadBits(w, a) \in {8, 16, 32, 64}
<1>1. (w + a - 1) \div 8 \in Nat
  OBVIOUS
<1> QED BY <1>1 DEF LoadBits, Rounded

LEMMA EndsInside ==
  ASSUME NEW from \in Nat, NEW start \in Nat, NEW c \in Nat, NEW bits \in Nat, NEW end \in Nat,
         bits <= c, start + c <= end
  PROVE  (from + start) \div 8 + bits \div 8 <= (from + end) \div 8
OBVIOUS

\* The lengths that are compared when a header is read.
LEMMA ReadingFits ==
  ASSUME TypeOK, Cursor, pc = "extract"
  PROVE  /\ Padding(Widths) \in Nat /\ Len(pkt) \in Nat /\ Len(pkt) % 8 = 0 /\ PacketBytes \in Nat
         /\ 8 * PacketBytes = Len(pkt)
         /\ (ReadFrom(n) + (Width(Widths) + Padding(Widths))) \div 8 <= PacketBytes
<1>1. Widths \in Layout /\ ReadFrom(n) \in Nat /\ Width(Widths) \in Nat
  BY Reading
<1>2. Padding(Widths) \in Nat
  <2>1. PaddingTo(Widths) \in [0 .. Len(Widths) -> Nat] /\ Len(Widths) \in 0 .. Len(Widths)
    BY <1>1, PaddingToSteps, LayoutIsSeq
  <2> QED BY <2>1 DEF Padding
<1>3. PICK len \in Nat : len = Len(pkt) /\ len % 8 = 0
  BY DEF TypeOK
<1>4. PacketBytes = len \div 8 /\ 8 * (len \div 8) = len /\ len \div 8 \in Nat
  BY <1>3 DEF PacketBytes, Bytes
<1>5. (ReadFrom(n) + Width(Widths)) + Padding(Widths) = ReadFrom(n) + (Width(Widths) + Padding(Widths))
  BY <1>1, <1>2
<1>6. ((ReadFrom(n) + Width(Widths)) + Padding(Widths)) \div 8 <= PacketBytes
  BY DEF Cursor, Bytes
<1> QED BY <1>2, <1>3, <1>4, <1>5, <1>6

\* The load of a field is in the packet if it is no larger than the field's C type and
\* all fields of its header have one.
LEMMA LoadInside ==
  ASSUME TypeOK, Cursor, pc = "extract", NEW k \in 1 .. Len(Widths), k = f,
         \A l \in 1 .. Len(Widths) : Widths[l] <= 64,
         LoadBits(Widths[k], AlignmentOf(Call.arg, k)) <= CBits(Widths[k])
  PROVE  ~LoadsOutside(0, LoadBits(Widths[k], AlignmentOf(Call.arg, k)))
<1>1. /\ prog \in Programs /\ Call.arg \in DOMAIN prog.headers /\ Widths = prog.headers[Call.arg]
      /\ Widths \in Layout /\ DOMAIN Widths = 1 .. Len(Widths) /\ Width(Widths) \in Nat
  BY Reading DEF TypeOK
<1>2. PICK w \in Nat, a \in 0 .. 7 : w = Widths[k] /\ w > 0 /\ a = AlignmentOf(Call.arg, k)
  BY <1>1, FieldIs
<1>3. PICK c \in Nat, bits \in Nat : c = CBits(w) /\ bits = LoadBits(w, a) /\ bits <= c
  <2>1. CBits(w) \in Nat
    BY <1>2, CBitsProperties
  <2>2. LoadBits(w, a) \in {8, 16, 32, 64}
    BY <1>2, LoadBitsIs
  <2>3. LoadBits(w, a) <= CBits(w)
    BY <1>2
  <2>4. LoadBits(w, a) \in Nat
    BY <2>2
  <2> QED BY <2>1, <2>3, <2>4
<1>4. PICK from \in Nat, start \in Nat :
        from = ReadFrom(n) /\ start = StartOf(Call.arg, k) /\ offset = from + start
  BY Reading
<1>5. PICK end \in Nat : end = Width(Widths) + Padding(Widths)
  BY <1>1, ReadingFits
<1>6. start + c <= end
  <2>1. SumTo(Widths)[k - 1] + CBits(Widths[k]) <= Width(Widths) + Padding(Widths)
    BY <1>1, PaddingCovers
  <2>2. start = SumTo(Widths)[k - 1]
    BY <1>1, <1>4 DEF StartOf
  <2> QED BY <1>2, <1>3, <1>5, <2>1, <2>2
<1>7. (from + start) \div 8 + bits \div 8 <= (from + end) \div 8
  BY <1>3, <1>6, <1>4, EndsInside
<1>8. (from + end) \div 8 <= PacketBytes /\ PacketBytes \in Nat
  BY <1>4, <1>5, ReadingFits
<1>9. PICK x \in Nat, y \in Nat, z \in Nat :
        x = (from + start) \div 8 /\ y = bits \div 8 /\ z = (from + end) \div 8
  <2>1. \A u \in Nat : u \div 8 \in Nat
    OBVIOUS
  <2> QED BY <2>1
<1>10. Bytes(offset) = x /\ Bytes(bits) = y
  BY <1>4, <1>9 DEF Bytes
<1>11. ~LoadsOutside(0, bits)
  <2>1. x + y <= z /\ z <= PacketBytes
    BY <1>7, <1>8, <1>9
  <2>2. ~(x + 0 + y > PacketBytes)
    BY <1>8, <1>9, <2>1
  <2> QED BY <1>10, <2>2, Zenon DEF LoadsOutside
<1> QED BY <1>2, <1>3, <1>11

LEMMA InsideStep ==
  ASSUME TypeOK, Cursor, ReadsInsidePacket, Next PROVE ReadsInsidePacket'
<1> DEFINE Narrow == \A h \in DOMAIN prog.headers : \A k \in DOMAIN prog.headers[h] :
             LET w == prog.headers[h][k] IN w <= 64 /\ LoadBits(w, AlignmentOf(h, k)) <= CBits(w)
<1>1. Narrow => ~outside
  BY DEF ReadsInsidePacket
<1>2. prog' = prog
  BY DEF Next, CheckLength, ExtractField, Extracted, Advance, Verify, LastTransition, Control, ResizeBuffer,
     SkipHeader, EmitHeader, StartField, EmitByte, FieldEmitted, HeaderEmitted, Deparsed
<1>3. SUFFICES ASSUME Narrow PROVE ~outside'
  <2>1. Narrow' => Narrow
    BY <1>2 DEF StartOf, AlignmentOf
  <2> QED BY <2>1 DEF ReadsInsidePacket
<1>4. CASE ExtractField
  <2>1. pc = "extract" /\ f <= Len(Widths)
    BY <1>4 DEF ExtractField
  <2>2. /\ prog \in Programs /\ Call.arg \in DOMAIN prog.headers /\ Widths = prog.headers[Call.arg]
        /\ DOMAIN Widths = 1 .. Len(Widths) /\ f \in 1 .. Len(Widths)
    BY <2>1, Reading DEF TypeOK
  <2>3. \A l \in 1 .. Len(Widths) : Widths[l] <= 64 /\ LoadBits(Widths[l], AlignmentOf(Call.arg, l)) <= CBits(Widths[l])
    BY <1>3, <2>2
  <2>4. ~LoadsOutside(0, LoadBits(Widths[f], AlignmentOf(Call.arg, f)))
    BY <2>1, <2>2, <2>3, LoadInside
  <2>5. Widths[f] <= 64
    BY <2>2, <2>3
  <2>6. outside' = (outside \/ LoadsOutside(0, LoadBits(Widths[f], AlignmentOf(Call.arg, f))))
    BY <1>4, <2>5 DEF ExtractField
  <2> QED BY <1>1, <1>3, <2>4, <2>6
<1>5. CASE ~ExtractField
  <2>1. outside' = outside
    BY <1>5 DEF Next, CheckLength, Extracted, Advance, Verify, LastTransition, Control, ResizeBuffer,
       SkipHeader, EmitHeader, StartField, EmitByte, FieldEmitted, HeaderEmitted, Deparsed
  <2> QED BY <1>1, <1>3, <2>1
<1> QED BY <1>4, <1>5

\* A header that is read is in the packet.
LEMMA HeaderInside ==
  ASSUME NEW from \in Nat, NEW width \in Nat, NEW padding \in Nat, NEW bytes \in Nat,
         from % 8 = 0, width % 8 = 0, (from + (width + padding)) \div 8 <= bytes
  PROVE  from + width <= 8 * bytes
OBVIOUS

\* Shift and mask leave the bits of the field, its last one lowest.
Extracts(word, s, w, c) ==
  \A b \in 0 .. w - 1 : Cast(Cast(LowBits(ShiftRight(word, s), w), c), w)[b] = word[b + s]

LEMMA ShiftAndMask ==
  ASSUME NEW w \in Nat, NEW c \in Nat, NEW bits \in Nat, NEW s \in Nat, w + s <= bits, w <= c,
         NEW word, DOMAIN word = 0 .. bits - 1
  PROVE  Extracts(word, s, w, c)
<1> SUFFICES ASSUME NEW b \in 0 .. w - 1
             PROVE  Cast(Cast(LowBits(ShiftRight(word, s), w), c), w)[b] = word[b + s]
  BY DEF Extracts
<1>1. b \in 0 .. bits - 1 /\ b + s \in 0 .. bits - 1 /\ b \in 0 .. c - 1 /\ b < w
  OBVIOUS
<1>2. DOMAIN ShiftRight(word, s) = 0 .. bits - 1 /\ ShiftRight(word, s)[b] = word[b + s]
  BY <1>1 DEF ShiftRight
<1>3. PICK shifted : shifted = ShiftRight(word, s)
  OBVIOUS
<1>4. DOMAIN LowBits(shifted, w) = 0 .. bits - 1 /\ LowBits(shifted, w)[b] = shifted[b]
  BY <1>1, <1>2, <1>3 DEF LowBits
<1>5. PICK masked : masked = LowBits(shifted, w)
  OBVIOUS
<1>6. DOMAIN Cast(masked, c) = 0 .. c - 1 /\ Cast(masked, c)[b] = masked[b]
  BY <1>1, <1>4, <1>5 DEF Cast
<1>7. PICK casted : casted = Cast(masked, c)
  OBVIOUS
<1>8. Cast(casted, w)[b] = casted[b]
  BY <1>1, <1>6, <1>7 DEF Cast
<1> QED BY <1>2, <1>3, <1>4, <1>5, <1>6, <1>7, <1>8

\* The byte in which a field begins.
LEMMA FirstByte ==
  ASSUME NEW from \in Nat, NEW start \in Nat, from % 8 = 0
  PROVE  (from + start) \div 8 \in Nat /\ 8 * ((from + start) \div 8) + (start % 8) = from + start
OBVIOUS

LEMMA BeginsInByte ==
  ASSUME NEW from \in Nat, NEW start \in Nat, from % 8 = 0
  PROVE  \E byte \in Nat : byte = (from + start) \div 8 /\ 8 * byte + (start % 8) = from + start
BY FirstByte, Zenon

\* A word with the bits of the packet that end with bit number end, as far as there are.
EndsAt(word, end, bits) ==
  /\ DOMAIN word = 0 .. bits - 1
  /\ \A b \in 0 .. bits - 1 : end - b <= Len(pkt) => word[b] = pkt[end - b]

LEMMA LoadIs ==
  ASSUME NEW byte \in Nat, byte = Bytes(offset), NEW bits \in Nat, NEW end \in Int, end = 8 * byte + bits
  PROVE  EndsAt(Load(0, bits), end, bits)
<1>1. Bytes(offset) + 0 = byte
  OBVIOUS
<1>2. 8 * (Bytes(offset) + 0) + bits = end
  BY <1>1
<1>3. Load(0, bits) = [b \in 0 .. bits - 1 |-> IF end - b <= Len(pkt) THEN pkt[end - b] ELSE Junk]
  BY <1>2 DEF Load
<1> QED BY <1>3 DEF EndsAt

\* The load reaches at least as far as the field.
LEMMA ShiftIs ==
  ASSUME NEW w \in Nat, NEW a \in 0 .. 7, NEW bits \in Nat, a + w <= bits
  PROVE  \E s \in Nat : s = bits - a - w /\ w + s <= bits
OBVIOUS

LEMMA ScalarFieldReads ==
  ASSUME TypeOK, Cursor, Untouched, WholeBytes, pc = "extract", NEW k \in 1 .. Len(Widths), k = f,
         NEW w \in Nat, w = Widths[k], w <= 64,
         NEW a \in 0 .. 7, a = AlignmentOf(Call.arg, k), ~Undefined(w, a)
  PROVE  Cast(ScalarField(w, a), w) = PacketBits(ReadFrom(n) + StartOf(Call.arg, k), w)
<1>1. /\ prog \in Programs /\ Call.arg \in DOMAIN prog.headers /\ Widths = prog.headers[Call.arg]
      /\ Widths \in Layout /\ DOMAIN Widths = 1 .. Len(Widths)
  BY Reading DEF TypeOK
<1>2. w > 0
  BY <1>1, FieldIs
<1>3. PICK from \in Nat, start \in Nat :
        /\ from = ReadFrom(n) /\ start = StartOf(Call.arg, k)
        /\ from % 8 = 0 /\ offset = from + start /\ a = start % 8
  BY <1>1, Reading, FieldIs
<1>4. PICK bits \in Nat : bits = LoadBits(w, a)
  BY <1>2, LoadBitsIs
<1>5. a + w <= bits
  BY <1>2, <1>4 DEF Undefined
<1>6. PICK s \in Nat : s = bits - a - w /\ w + s <= bits
  BY <1>5, ShiftIs
<1>7. w + s <= bits
  BY <1>6
<1>8. ScalarField(w, a) = Cast(LowBits(ShiftRight(Load(0, bits), s), w), CBits(w))
  BY <1>4, <1>6 DEF ScalarField
<1>9. from + start + w <= Len(pkt) /\ Len(pkt) \in Nat
  <2>1. start + w <= Width(Widths) /\ Width(Widths) \in Nat /\ Width(Widths) % 8 = 0
    BY <1>1, <1>2, <1>3, FieldIs, Reading
  <2>2. PICK width \in Nat, padding \in Nat, bytes \in Nat :
          width = Width(Widths) /\ padding = Padding(Widths) /\ bytes = PacketBytes
    BY <2>1, ReadingFits
  <2>3. (from + (width + padding)) \div 8 <= bytes /\ 8 * bytes = Len(pkt) /\ Len(pkt) \in Nat
    BY <1>3, <2>2, ReadingFits
  <2>4. from + width <= 8 * bytes
    BY <1>3, <2>1, <2>2, <2>3, HeaderInside
  <2>5. start + w <= width
    BY <2>1, <2>2
  <2>6. from + start + w <= 8 * bytes
    BY <2>4, <2>5
  <2> QED BY <2>3, <2>6
<1>10. \A b \in 0 .. w - 1 : Cast(ScalarField(w, a), w)[b] = <<"packet", from + start + w - b>>
  <2> TAKE b \in 0 .. w - 1
  <2>1. PICK word : word = Load(0, bits)
    OBVIOUS
  <2>9. PICK byte \in Nat : byte = Bytes(offset) /\ 8 * byte + a = from + start
    <3>1. PICK byte \in Nat : byte = (from + start) \div 8 /\ 8 * byte + (start % 8) = from + start
      BY <1>3, BeginsInByte, Zenon
    <3>2. Bytes(offset) = byte
      BY <1>3, <3>1 DEF Bytes
    <3>3. 8 * byte + a = from + start
      BY <1>3, <3>1
    <3> QED BY <3>2, <3>3
  <2>10. PICK end \in Int : end = 8 * byte + bits
    OBVIOUS
  <2>11. EndsAt(word, end, bits)
    BY <2>1, <2>9, <2>10, LoadIs
  <2>12. DOMAIN word = 0 .. bits - 1
    BY <2>11 DEF EndsAt
  <2>2. PICK c \in Nat : c = CBits(w) /\ w <= c
    BY <1>2, CBitsProperties
  <2>3. Cast(ScalarField(w, a), w)[b] = word[b + s]
    <3>1. ScalarField(w, a) = Cast(LowBits(ShiftRight(word, s), w), c)
      BY <1>8, <2>1, <2>2, Zenon
    <3>0. Extracts(word, s, w, c)
      BY <1>7, <2>2, <2>12, ShiftAndMask
    <3>2. Cast(Cast(LowBits(ShiftRight(word, s), w), c), w)[b] = word[b + s]
      BY <3>0, Zenon DEF Extracts
    <3> QED BY <3>1, <3>2, Zenon
  <2>4. b + s \in 0 .. bits - 1
    BY <1>2, <1>7
  <2>5. PICK at \in Int : at = from + start + w - b
    BY <1>2
  <2>6. end - (b + s) = at
    <3>1. end = 8 * byte + bits /\ 8 * byte + a = from + start
      BY <2>9, <2>10
    <3>2. s = bits - a - w
      BY <1>6
    <3>3. b \in Int
      OBVIOUS
    <3> HIDE DEF Bytes
    <3> QED BY <2>5, <3>1, <3>2, <3>3, SMTT(60)
  <2>7. at \in 1 .. Len(pkt)
    BY <1>2, <1>9, <2>5, SMTT(30)
  <2>8. word[b + s] = pkt[at]
    BY <1>9, <2>4, <2>6, <2>7, <2>11, SMTT(30) DEF EndsAt
  <2>13. pkt[at] = <<"packet", at>>
    <3>1. pkt = Received /\ DOMAIN pkt = 1 .. Len(pkt)
      BY DEF Untouched, TypeOK
    <3>2. at \in DOMAIN Received
      BY <2>7, <3>1
    <3> QED BY <3>1, <3>2 DEF Received
  <2> QED BY <2>3, <2>5, <2>8, <2>13
<1>11. Cast(ScalarField(w, a), w) = [b \in 0 .. w - 1 |-> Cast(ScalarField(w, a), w)[b]]
  BY DEF Cast
<1>12. Cast(ScalarField(w, a), w) = [b \in 0 .. w - 1 |-> <<"packet", from + start + w - b>>]
  BY <1>10, <1>11, Zenon
<1>13. Cast(ScalarField(w, a), w) = PacketBits(from + start, w)
  BY <1>12, Zenon DEF PacketBits
<1> QED BY <1>3, <1>13

\* Bytes and their bits, from the first byte on and from the last one back.
LEMMA WholeWord ==
  ASSUME NEW w \in Nat, w > 64, w % 8 = 0
  PROVE  CBits(w) = w /\ w \div 8 \in Nat /\ 8 * (w \div 8) = w
<1>1. w \div 8 \in Nat /\ 8 * (w \div 8) = w /\ (w + 7) \div 8 = w \div 8
  OBVIOUS
<1>2. ~(w <= 64)
  OBVIOUS
<1>3. CBits(w) = 8 * ((w + 7) \div 8)
  BY <1>2 DEF CBits
<1> QED BY <1>1, <1>3

LEMMA ByteAndBit ==
  ASSUME NEW b \in Nat
  PROVE  b \div 8 \in Nat /\ b % 8 \in 0 .. 7 /\ b = 8 * (b \div 8) + (b % 8)
OBVIOUS

LEMMA BitIn ==
  ASSUME NEW i \in Nat, NEW j \in 0 .. 7
  PROVE  (8 * i + j) \div 8 = i /\ (8 * i + j) % 8 = j /\ 8 * i + j \in Nat
OBVIOUS

LEMMA Mirrored ==
  ASSUME NEW last \in Nat, NEW q \in Nat, NEW j \in 0 .. 7, 8 * q + j < 8 * last
  PROVE  /\ last - 1 - q \in Nat /\ 8 * (last - 1 - q) + 8 <= 8 * last
         /\ 8 * (last - 1 - q) + 8 - j = 8 * last - (8 * q + j)
OBVIOUS

\* A bit of a byte of a wide field, as it is read.
WideBits(w, a, byte) ==
  \A i \in Nat : \A j \in 0 .. 7 : \A at \in Int :
    8 * i + 8 <= w /\ at = 8 * byte + a + 8 * i + 8 - j /\ at <= Len(pkt) => WideField(w, a)[8 * i + j] = pkt[at]

\* A load of so many bits at byte byte + i of the packet.
LoadAt(byte, i, bits) ==
  LET end == 8 * (byte + i) + bits
  IN [b \in 0 .. bits - 1 |-> IF end - b <= Len(pkt) THEN pkt[end - b] ELSE Junk]

\* The bit of the packet that bit b of a field is.
LEMMA PlaceInPacket ==
  ASSUME NEW from \in Nat, NEW start \in Nat, NEW w \in Nat, NEW len \in Nat, NEW b \in 0 .. w - 1,
         from + start + w <= len
  PROVE  from + start + w - b \in Int /\ 1 <= from + start + w - b /\ from + start + w - b <= len
OBVIOUS

LEMMA WideBit ==
  ASSUME NEW w \in Nat, w > 64, w % 8 = 0, NEW a \in 0 .. 7, NEW byte \in Nat,
         \A i, bits : Load(i, bits) = LoadAt(byte, i, bits), Len(pkt) \in Nat
  PROVE  WideBits(w, a, byte)
<1> SUFFICES ASSUME NEW i \in Nat, NEW j \in 0 .. 7, NEW at \in Int, 8 * i + 8 <= w,
                    at = 8 * byte + a + 8 * i + 8 - j, at <= Len(pkt)
             PROVE  WideField(w, a)[8 * i + j] = pkt[at]
  BY DEF WideBits
<1>1. CBits(w) = w /\ 8 * (w \div 8) = w
  BY WholeWord
<1> DEFINE last == CBits(w) \div 8
           Word(m) == IF a = 0 THEN Load(m, 8) ELSE ShiftRight(Load(m, 16), 8 - a)
           Part(m) == LowBits(Cast(Word(m), 8), IF m = last - 1 /\ w % 8 # 0 THEN w % 8 ELSE 8)
<1>2. WideField(w, a) = [b \in 0 .. 8 * last - 1 |-> Part(b \div 8)[b % 8]]
  BY DEF WideField
<1>3. PICK b \in Nat : b = 8 * i + j /\ b \in 0 .. w - 1 /\ b \div 8 = i /\ b % 8 = j
  <2>1. PICK b \in Nat : b = 8 * i + j
    OBVIOUS
  <2>2. b \div 8 = i /\ b % 8 = j
    BY <2>1, BitIn
  <2>3. b < w
    BY <2>1
  <2>4. b \in 0 .. w - 1
    BY <2>3
  <2> QED BY <2>1, <2>2, <2>4
<1>4. 8 * last = w
  BY <1>1
<1>5. WideField(w, a)[b] = Part(i)[j]
  <2> HIDE DEF last, Part
  <2> QED BY <1>2, <1>3, <1>4
<1>6. Part(i) = LowBits(Cast(Word(i), 8), 8)
  <2> HIDE DEF Word
  <2> QED OBVIOUS
<1>7. PICK word : word = Word(i)
  OBVIOUS
<1>8. j \in DOMAIN word /\ word[j] = pkt[at]
  <2>1. CASE a = 0
    <3>1. word = Load(i, 8)
      BY <1>7, <2>1
    <3>2. PICK end \in Int : end = 8 * (byte + i) + 8
      OBVIOUS
    <3>3. word = [l \in 0 .. 8 - 1 |-> IF end - l <= Len(pkt) THEN pkt[end - l] ELSE Junk]
      BY <3>1, <3>2 DEF LoadAt
    <3>4. j \in 0 .. 8 - 1 /\ end - j = at
      <4>1. at = 8 * byte + 8 * i + 8 - j
        BY <2>1
      <4>2. end = 8 * byte + 8 * i + 8
        BY <3>2
      <4> QED BY <4>1, <4>2
    <3> QED BY <3>3, <3>4
  <2>2. CASE a # 0
    <3>1. PICK load : load = Load(i, 16)
      OBVIOUS
    <3>2. PICK end \in Int : end = 8 * (byte + i) + 16
      OBVIOUS
    <3>3. load = [l \in 0 .. 16 - 1 |-> IF end - l <= Len(pkt) THEN pkt[end - l] ELSE Junk]
      BY <3>1, <3>2 DEF LoadAt
    <3>4. j \in 0 .. 16 - 1 /\ j + (8 - a) \in 0 .. 16 - 1 /\ end - (j + (8 - a)) = at
      BY <2>2, <3>2
    <3>5. DOMAIN load = 0 .. 16 - 1 /\ load[j + (8 - a)] = pkt[at]
      BY <3>3, <3>4
    <3>6. word = ShiftRight(load, 8 - a)
      BY <1>7, <2>2, <3>1
    <3>7. j \in DOMAIN word /\ word[j] = load[j + (8 - a)]
      BY <3>4, <3>5, <3>6 DEF ShiftRight
    <3> QED BY <3>5, <3>7
  <2> QED BY <2>1, <2>2
<1>9. Cast(word, 8)[j] = word[j] /\ DOMAIN Cast(word, 8) = 0 .. 7
  BY <1>8 DEF Cast
<1>10. LowBits(Cast(word, 8), 8)[j] = word[j]
  <2>1. PICK casted : casted = Cast(word, 8)
    OBVIOUS
  <2>4. j \in 0 .. 7 /\ j < 8
    OBVIOUS
  <2>2. j \in DOMAIN casted /\ j < 8 /\ casted[j] = word[j]
    BY <1>9, <2>1, <2>4, Zenon
  <2>3. LowBits(casted, 8)[j] = casted[j]
    BY <2>2 DEF LowBits
  <2> QED BY <2>1, <2>2, <2>3
<1> QED BY <1>3, <1>5, <1>6, <1>7, <1>8, <1>10, Zenon

\* Byte by byte in reversed order, a wide field of whole bytes is what the packet has.
LEMMA WideFieldReads ==
  ASSUME TypeOK, Cursor, Untouched, WholeBytes, pc = "extract", NEW k \in 1 .. Len(Widths), k = f,
         NEW w \in Nat, w = Widths[k], w > 64, w % 8 = 0,
         NEW a \in 0 .. 7, a = AlignmentOf(Call.arg, k)
  PROVE  Cast(Swap(WideField(w, a), CBits(w) \div 8), w)
           = PacketBits(ReadFrom(n) + StartOf(Call.arg, k), w)
<1>1. /\ prog \in Programs /\ Call.arg \in DOMAIN prog.headers /\ Widths = prog.headers[Call.arg]
      /\ Widths \in Layout /\ DOMAIN Widths = 1 .. Len(Widths)
  BY Reading DEF TypeOK
<1>2. PICK last \in Nat : last = w \div 8 /\ 8 * last = w /\ CBits(w) = w
  BY WholeWord
<1>3. PICK from \in Nat, start \in Nat :
        /\ from = ReadFrom(n) /\ start = StartOf(Call.arg, k)
        /\ from % 8 = 0 /\ offset = from + start /\ a = start % 8
  BY <1>1, Reading, FieldIs
<1>4. from + start + w <= Len(pkt) /\ Len(pkt) \in Nat
  <2>1. start + w <= Width(Widths) /\ Width(Widths) \in Nat /\ Width(Widths) % 8 = 0
    BY <1>1, <1>3, FieldIs, Reading
  <2>2. PICK width \in Nat, padding \in Nat, bytes \in Nat :
          width = Width(Widths) /\ padding = Padding(Widths) /\ bytes = PacketBytes
    BY <2>1, ReadingFits
  <2>3. (from + (width + padding)) \div 8 <= bytes /\ 8 * bytes = Len(pkt) /\ Len(pkt) \in Nat
    BY <1>3, <2>2, ReadingFits
  <2>4. from + width <= 8 * bytes
    BY <1>3, <2>1, <2>2, <2>3, HeaderInside
  <2>5. start + w <= width
    BY <2>1, <2>2
  <2>6. from + start + w <= 8 * bytes
    BY <2>4, <2>5
  <2> QED BY <2>3, <2>6
<1>5. PICK byte \in Nat : byte = Bytes(offset) /\ 8 * byte + a = from + start
  <2>1. PICK byte \in Nat : byte = (from + start) \div 8 /\ 8 * byte + (start % 8) = from + start
    BY <1>3, BeginsInByte, Zenon
  <2>2. Bytes(offset) = byte
    BY <1>3, <2>1 DEF Bytes
  <2>3. 8 * byte + a = from + start
    BY <1>3, <2>1
  <2> QED BY <2>2, <2>3
<1>6. PICK x, y : x = WideField(w, a) /\ y = Swap(x, last)
  OBVIOUS
<1>7. DOMAIN x = 0 .. w - 1
  <2>1. w > 0 /\ a \in Nat
    OBVIOUS
  <2>2. DOMAIN WideField(w, a) = 0 .. CBits(w) - 1
    BY <2>1, WideFieldType
  <2> QED BY <1>2, <1>6, <2>2
<1>8. \A b \in 0 .. w - 1 : Cast(y, w)[b] = <<"packet", from + start + w - b>>
  <2> TAKE b \in 0 .. w - 1
  <2>1. PICK i \in Nat, j \in 0 .. 7 :
          i = last - 1 - (b \div 8) /\ j = b % 8 /\ 8 * i + 8 <= w /\ 8 * i + 8 - j = w - b
    <3>1. b \in Nat /\ b < w
      OBVIOUS
    <3>2. PICK q \in Nat, j \in 0 .. 7 : q = b \div 8 /\ j = b % 8 /\ b = 8 * q + j
      BY <3>1, ByteAndBit
    <3>3. 8 * q + j < 8 * last
      BY <1>2, <3>1, <3>2
    <3>4. /\ last - 1 - q \in Nat /\ 8 * (last - 1 - q) + 8 <= 8 * last
          /\ 8 * (last - 1 - q) + 8 - j = 8 * last - (8 * q + j)
      BY <3>3, Mirrored
    <3> QED BY <1>2, <3>2, <3>4
  <2>2. PICK at \in Int : at = from + start + w - b
    OBVIOUS
  <2>3. at = 8 * byte + a + 8 * i + 8 - j
    BY <1>5, <2>1, <2>2
  <2>4. at \in 1 .. Len(pkt) /\ at <= Len(pkt)
    <3>1. PICK len \in Nat : len = Len(pkt) /\ from + start + w <= len
      BY <1>4
    <3>2. 1 <= at /\ at <= len
      BY <2>2, <3>1, PlaceInPacket, Zenon
    <3> QED BY <3>1, <3>2
  <2>5. x[8 * i + j] = pkt[at]
    <3>2. WideBits(w, a, byte)
      <4>1. \A m, bits : Load(m, bits) = LoadAt(byte, m, bits)
        BY <1>5 DEF Load, LoadAt
      <4> QED BY <1>4, <1>5, <4>1, WideBit
    <3>1. WideField(w, a)[8 * i + j] = pkt[at]
      BY <2>1, <2>3, <2>4, <3>2 DEF WideBits
    <3> QED BY <1>6, <3>1
  <2>6. y[b] = x[8 * i + j] /\ DOMAIN y = 0 .. w - 1
    BY <1>6, <1>7, <2>1 DEF Swap
  <2>7. Cast(y, w)[b] = y[b]
    BY <2>6 DEF Cast
  <2>8. pkt[at] = <<"packet", at>>
    <3>1. pkt = Received /\ DOMAIN pkt = 1 .. Len(pkt)
      BY DEF Untouched, TypeOK
    <3>2. at \in DOMAIN Received
      BY <2>4, <3>1
    <3> QED BY <3>1, <3>2 DEF Received
  <2> QED BY <2>2, <2>5, <2>6, <2>7, <2>8
<1>9. Cast(y, w) = [b \in 0 .. w - 1 |-> Cast(y, w)[b]]
  BY DEF Cast
<1>10. Cast(y, w) = [b \in 0 .. w - 1 |-> <<"packet", from + start + w - b>>]
  BY <1>8, <1>9, Zenon
<1>11. Cast(y, w) = PacketBits(from + start, w)
  BY <1>10, Zenon DEF PacketBits
<1>12. CBits(w) \div 8 = last
  BY <1>2
<1> QED BY <1>3, <1>6, <1>11, <1>12

\* A field that is not touched stays read.
LEMMA StaysRead ==
  ASSUME UNCHANGED prog, NEW c, NEW k,
         hdr'[prog.parse[c].arg][k] = hdr[prog.parse[c].arg][k],
         order'[prog.parse[c].arg][k] = order[prog.parse[c].arg][k]
  PROVE  ReadsField(c, k) => ReadsField(c, k)'
<1>1. Value(prog.parse[c].arg, k)' = Value(prog.parse[c].arg, k)
  BY DEF Value
<1>2. FieldRead(c, k)' <=> FieldRead(c, k)
  BY <1>1, PlacesStay DEF FieldRead
<1> QED BY <1>2, PlacesStay, WholeBytesStays DEF ReadsField

\* A header that is still there after a step was there before it.
LEMMA LastReadBefore ==
  ASSUME UNCHANGED prog, n \in Nat, n' \in {n, n + 1}, n' = n /\ pc = "extract" => pc' = "extract"
  PROVE  \A c \in Nat : LastRead(c)' => LastRead(c)
<1> SUFFICES ASSUME NEW c \in Nat, LastRead(c)', NEW d \in c + 1 .. n, d < n \/ pc = "extract", Reads(d)
             PROVE  prog.parse[d].arg # prog.parse[c].arg
  BY DEF LastRead
<1>1. d \in c + 1 .. n' /\ (d < n' \/ pc' = "extract")
  <2>1. CASE n' = n
    BY <2>1
  <2>2. CASE n' = n + 1
    BY <2>2
  <2> QED BY <2>1, <2>2
<1>2. Reads(d)'
  BY PlacesStay
<1> QED BY <1>1, <1>2 DEF LastRead

LEMMA FieldsStayRead ==
  ASSUME FieldsRead, UNCHANGED <<prog, hdr, order>>, n \in Nat, n' \in {n, n + 1},
         pc \in {"parse", "extract"}, n' = n => pc = "parse",
         n' = n + 1 => (Reads(n) => ReadsFields(n)),
         pc' = "extract" => n' = n /\ f' = 1
  PROVE  FieldsRead'
<1>1. \A c : ReadsFields(c) => ReadsFields(c)'
  <2>1. \A c, k : ReadsField(c, k) => ReadsField(c, k)'
    BY StaysRead
  <2> QED BY <2>1 DEF ReadsFields, FieldsOf
<1>2. \A c \in Nat : LastRead(c)' => LastRead(c)
  BY LastReadBefore
<1>3. PICK d : d = n /\ (n' = n + 1 => (Reads(d) => ReadsFields(d)))
  OBVIOUS
<1>4. ASSUME NEW c \in 1 .. n' - 1, Reads(c)', LastRead(c)' PROVE ReadsFields(c)'
  <2>1. Reads(c) /\ LastRead(c)
    BY <1>2, <1>4, PlacesStay
  <2>2. CASE c \in 1 .. n - 1
    BY <1>1, <2>1, <2>2 DEF FieldsRead
  <2>3. CASE c \notin 1 .. n - 1
    <3>1. n' = n + 1 /\ c = n
      <4>1. CASE n' = n
        BY <2>3, <4>1
      <4>2. CASE n' = n + 1
        BY <2>3, <4>2
      <4> QED BY <4>1, <4>2
    <3> QED BY <1>1, <1>3, <2>1, <3>1
  <2> QED BY <2>2, <2>3
<1>5. pc' = "extract" => \A k \in 1 .. f' - 1 : FALSE
  OBVIOUS
<1> QED BY <1>4, <1>5 DEF FieldsRead

LEMMA FieldsReadStep ==
  ASSUME TypeOK, Cursor, Untouched, FieldsRead, Next PROVE FieldsRead'
<1>1. prog \in Programs /\ n \in Nat /\ HeadersOK(hdr) /\ OrderOK(order) /\ Len(prog.parse) \in Nat
  BY TypeParts, ProgramIs DEF TypeOK
<1>4. pc' \notin {"parse", "extract", "control"} => FieldsRead'
  BY DEF FieldsRead
<1>5. CASE CheckLength \/ LastTransition
  <2>1. /\ UNCHANGED <<prog, hdr, order, n>> /\ pc = "parse" /\ (pc' = "extract" => f' = 1)
    BY <1>5 DEF CheckLength, LastTransition, Rejected
  <2> QED BY <1>1, <2>1, FieldsStayRead
<1>6. CASE ExtractField
  <2>1. /\ n \in 1 .. Len(prog.parse) /\ Reads(n) /\ Call = prog.parse[n] /\ Call.arg \in DOMAIN prog.headers
        /\ Widths = prog.headers[Call.arg] /\ DOMAIN Widths = 1 .. Len(Widths) /\ Len(Widths) \in Nat
        /\ f \in 1 .. Len(Widths) /\ f \in DOMAIN prog.headers[Call.arg]
    BY <1>6, Reading DEF ExtractField
  <2>2. PICK w \in Nat, a \in 0 .. 7 : w = Widths[f] /\ w > 0 /\ a = AlignmentOf(Call.arg, f)
    BY <1>1, <2>1, FieldIs
  <2>3. PICK x : x = (IF w <= 64 THEN ScalarField(w, a) ELSE WideField(w, a))
    OBVIOUS
  <2>4. DOMAIN x = 0 .. CBits(w) - 1
    BY <2>2, <2>3, ScalarFieldType, WideFieldType
  <2>5. hdr' = [hdr EXCEPT ![Call.arg][f] = x] /\ DOMAIN x = 0 .. CBits(prog.headers[Call.arg][f]) - 1
    BY <1>6, <2>1, <2>2, <2>3, <2>4, Zenon DEF ExtractField
  <2>6. SetTo(hdr', Call.arg, f, x)
    BY <1>1, <2>1, <2>5, SetField
  <2>15. PICK end : end = (IF w <= 64 THEN "least" ELSE "most")
    OBVIOUS
  <2>16. order' = [order EXCEPT ![Call.arg][f] = end]
    BY <1>6, <2>2, <2>15, Zenon DEF ExtractField
  <2>17. end = "least" \/ (end = "most" /\ prog.headers[Call.arg][f] > 64)
    BY <2>1, <2>2, <2>15
  <2>18. /\ order'[Call.arg][f] = end
         /\ \A g \in DOMAIN prog.headers : \A l \in DOMAIN prog.headers[g] :
              g # Call.arg \/ l # f => order'[g][l] = order[g][l]
    <3>1. OrderSetTo(order', Call.arg, f, end)
      BY <1>1, <2>1, <2>16, <2>17, SetOrder
    <3> QED BY <3>1 DEF OrderSetTo
  <2>7. UNCHANGED <<prog, pc, n>> /\ pc = "extract" /\ f' = f + 1
    BY <1>6 DEF ExtractField
  <2>8. ASSUME NEW c \in 1 .. n - 1, Reads(c), LastRead(c) PROVE ReadsFields(c)'
    <3>1. ReadsFields(c)
      BY <2>7, <2>8 DEF FieldsRead
    <3>2. c \in 1 .. Len(prog.parse) /\ n \in c + 1 .. n
      BY <1>1, <2>1
    <3>3. prog.parse[c].arg # Call.arg /\ prog.parse[c].arg \in DOMAIN prog.headers
      BY <1>1, <2>1, <2>7, <2>8, <3>2, ProgramIs DEF Reads, LastRead
    <3>4. \A k \in FieldsOf(prog.parse[c].arg) :
            /\ hdr'[prog.parse[c].arg][k] = hdr[prog.parse[c].arg][k]
            /\ order'[prog.parse[c].arg][k] = order[prog.parse[c].arg][k]
      BY <2>6, <2>18, <3>3 DEF FieldsOf, SetTo
    <3>5. \A k \in FieldsOf(prog.parse[c].arg) : ReadsField(c, k)'
      BY <2>7, <3>1, <3>4, StaysRead DEF ReadsFields
    <3> QED BY <2>7, <3>5 DEF ReadsFields, FieldsOf
  <2>9. PICK c, k : c = n /\ k = f
    OBVIOUS
  <2>10. \A l \in 1 .. f - 1 : ReadsField(c, l)'
    <3> SUFFICES ASSUME NEW l \in 1 .. f - 1 PROVE ReadsField(c, l)'
      OBVIOUS
    <3>1. ReadsField(c, l)
      BY <2>7, <2>9 DEF FieldsRead
    <3>2. l \in DOMAIN prog.headers[Call.arg] /\ l # f
      BY <2>1
    <3>3. /\ hdr'[prog.parse[c].arg][l] = hdr[prog.parse[c].arg][l]
          /\ order'[prog.parse[c].arg][l] = order[prog.parse[c].arg][l]
      BY <2>1, <2>6, <2>9, <2>18, <3>2 DEF SetTo
    <3> QED BY <2>7, <3>1, <3>3, StaysRead
  <2>11. ReadsField(c, k)'
    <3>1. prog.parse[c].arg = Call.arg /\ prog.headers[prog.parse[c].arg][k] = w
      BY <2>1, <2>2, <2>9
    <3>2. /\ prog.headers[prog.parse[c].arg][k]' = w
          /\ AlignmentOf(prog.parse[c].arg, k)' = a
          /\ StartOf(prog.parse[c].arg, k)' = StartOf(Call.arg, k)
          /\ ReadFrom(c)' = ReadFrom(n)
      BY <2>2, <2>7, <2>9, <3>1, PlacesStay
    <3>3. SUFFICES ASSUME WholeBytes, IF w <= 64 THEN ~Undefined(w, a) ELSE w % 8 = 0
                   PROVE  FieldRead(c, k)'
      BY <2>7, <3>2, WholeBytesStays DEF ReadsField
    <3>4. /\ hdr'[prog.parse[c].arg][k] = x /\ order'[prog.parse[c].arg][k] = end
      BY <2>6, <2>9, <2>18, <3>1 DEF SetTo
    <3>5. CASE w <= 64
      <4>1. Cast(ScalarField(w, a), w) = PacketBits(ReadFrom(n) + StartOf(Call.arg, k), w)
        BY <2>1, <2>2, <2>7, <2>9, <3>3, <3>5, ScalarFieldReads
      <4>2. Value(prog.parse[c].arg, k)' = Cast(x, w)
        <5>1. ~(order'[prog.parse[c].arg][k] = "most")
          BY <2>15, <3>4, <3>5
        <5> QED BY <2>7, <3>1, <3>4, <5>1 DEF Value
      <4> QED BY <2>3, <3>2, <3>5, <4>1, <4>2 DEF FieldRead
    <3>6. CASE ~(w <= 64)
      <4>1. Cast(Swap(WideField(w, a), CBits(w) \div 8), w) = PacketBits(ReadFrom(n) + StartOf(Call.arg, k), w)
        <5>1. w > 64 /\ w % 8 = 0 /\ WholeBytes /\ pc = "extract"
          BY <2>2, <2>7, <3>3, <3>6
        <5>2. k = f /\ k \in 1 .. Len(Widths) /\ w = Widths[k] /\ a = AlignmentOf(Call.arg, k)
          BY <2>1, <2>2, <2>9
        <5> QED BY <5>1, <5>2, WideFieldReads
      <4>2. Value(prog.parse[c].arg, k)' = Cast(Swap(x, CBits(w) \div 8), w)
        <5>1. order'[prog.parse[c].arg][k] = "most"
          BY <2>15, <3>4, <3>6
        <5> QED BY <2>7, <3>1, <3>4, <5>1 DEF Value
      <4> QED BY <2>3, <3>2, <3>6, <4>1, <4>2 DEF FieldRead
    <3> QED BY <3>5, <3>6
  <2>12. \A d \in 1 .. n' - 1 : Reads(d)' /\ LastRead(d)' => ReadsFields(d)'
    <3>1. \A d \in Nat : LastRead(d)' => LastRead(d)
      BY <1>1, <2>7, LastReadBefore
    <3> QED BY <1>1, <2>7, <2>8, <3>1, PlacesStay
  <2>13. \A l \in 1 .. f' - 1 : ReadsField(c, l)'
    <3>1. \A l \in 1 .. f' - 1 : l \in 1 .. f - 1 \/ l = k
      BY <2>1, <2>7, <2>9
    <3> QED BY <2>10, <2>11, <3>1
  <2>14. c = n'
    BY <2>7, <2>9
  <2> QED BY <2>12, <2>13, <2>14 DEF FieldsRead
<1>7. CASE Extracted
  <2>1. /\ n \in 1 .. Len(prog.parse) /\ Call = prog.parse[n] /\ Call.arg \in DOMAIN prog.headers
        /\ Widths = prog.headers[Call.arg] /\ DOMAIN Widths = 1 .. Len(Widths) /\ f = Len(Widths) + 1
        /\ Len(Widths) \in Nat
    BY <1>7, Reading DEF Extracted
  <2>2. UNCHANGED <<prog, hdr, order>> /\ pc = "extract" /\ pc' = "parse" /\ n' = n + 1
    BY <1>7 DEF Extracted
  <2>3. ReadsFields(n)
    <3>1. \A k \in 1 .. Len(Widths) : k \in 1 .. f - 1
      BY <2>1
    <3> QED BY <2>1, <2>2, <3>1 DEF FieldsRead, ReadsFields, FieldsOf
  <2>4. n' # n
    BY <1>1, <2>2
  <2> QED BY <1>1, <2>2, <2>3, <2>4, FieldsStayRead
<1>8. CASE Advance \/ Verify
  <2>1. pc = "parse" /\ UNCHANGED <<prog, hdr, order>> /\ ~Reads(n)
    BY <1>8 DEF Advance, Verify, Reads, Call
  <2>2. n' \in {n, n + 1} /\ pc' # "extract"
    BY <1>8 DEF Advance, Verify, Rejected
  <2> QED BY <1>1, <2>1, <2>2, FieldsStayRead
<1>10. CASE \/ Control \/ ResizeBuffer \/ SkipHeader \/ EmitHeader \/ StartField \/ EmitByte \/ FieldEmitted
            \/ HeaderEmitted \/ Deparsed
  BY <1>4, <1>10 DEF Control, ResizeBuffer, SkipHeader, EmitHeader, StartField, EmitByte, FieldEmitted,
     HeaderEmitted, Deparsed
<1> QED BY <1>5, <1>6, <1>7, <1>8, <1>10 DEF Next

-----------------------------------------------------------------------------
(* What is behind the headers.                                             *)

\* Nothing behind a byte that is replaced or written in part changes.
LEMMA ReplaceByteBehind ==
  ASSUME NEW p, NEW at \in Nat, NEW b \in DOMAIN p, b \in Int, b > 8 * at + 8
  PROVE  /\ \A byte : ReplaceByte(p, at, byte)[b] = p[b]
         /\ \A w, s, v : write_partial(p, at, w, s, v)[b] = p[b]
<1>1. b \notin 8 * at + 1 .. 8 * at + 8
  OBVIOUS
<1>2. \A byte : ReplaceByte(p, at, byte)[b] = p[b]
  BY <1>1 DEF ReplaceByte
<1>3. \A w, s, v : write_partial(p, at, w, s, v)[b] = p[b]
  BY <1>2, Zenon DEF write_partial
<1> QED BY <1>2, <1>3

\* One byte of a field is written to the byte it belongs to and, if it does not fit, to
\* the next one.
Fits(left, a) == (IF left >= 8 THEN 8 ELSE left) <= 8 - a

LEMMA WithByteBehind ==
  ASSUME NEW p, NEW at \in Nat, NEW left \in Nat, NEW a \in 0 .. 7,
         NEW b \in DOMAIN p, b \in Int, b > 8 * at + 8, ~Fits(left, a) => b > 8 * at + 16
  PROVE  \A byte, w : WithByte(p, byte, at, left, w, a)[b] = p[b]
<1> TAKE byte, w
<1> DEFINE inByte == IF left >= 8 THEN 8 ELSE left
           toWrite == IF inByte > 8 - a THEN 8 - a ELSE inByte
           dropped == IF w > 8 - a THEN IF a = 0 THEN 8 - toWrite ELSE a ELSE 0
           first == IF toWrite = 8 THEN ReplaceByte(p, at, byte)
                    ELSE write_partial(p, at, toWrite, 8 - a - toWrite, ShiftRight(byte, dropped))
<1>1. WithByte(p, byte, at, left, w, a) =
        IF inByte = toWrite THEN first ELSE write_partial(first, at + 1, 8 - toWrite, toWrite, byte)
  BY DEF WithByte
<1>2. \A q, x, y : DOMAIN ReplaceByte(q, x, y) = DOMAIN q
  BY DEF ReplaceByte
<1>3. \A q, x, u, v, y : DOMAIN write_partial(q, x, u, v, y) = DOMAIN q
  BY <1>2, Zenon DEF write_partial
<1>4. first[b] = p[b] /\ DOMAIN first = DOMAIN p
  <2>1. CASE toWrite = 8
    <3>1. first = ReplaceByte(p, at, byte)
      BY <2>1
    <3> QED BY <1>2, <3>1, ReplaceByteBehind
  <2>2. CASE toWrite # 8
    <3>1. first = write_partial(p, at, toWrite, 8 - a - toWrite, ShiftRight(byte, dropped))
      BY <2>2
    <3> QED BY <1>3, <3>1, ReplaceByteBehind
  <2> QED BY <2>1, <2>2
<1>5. inByte # toWrite => ~Fits(left, a)
  BY DEF Fits
<1>6. inByte # toWrite => write_partial(first, at + 1, 8 - toWrite, toWrite, byte)[b] = first[b]
  <2> SUFFICES ASSUME inByte # toWrite
               PROVE  write_partial(first, at + 1, 8 - toWrite, toWrite, byte)[b] = first[b]
    OBVIOUS
  <2>1. b > 8 * (at + 1) + 8 /\ at + 1 \in Nat
    BY <1>5
  <2> HIDE DEF first, toWrite, inByte
  <2>2. b \in DOMAIN first
    BY <1>4
  <2> QED BY <2>1, <2>2, ReplaceByteBehind
<1> HIDE DEF first, inByte, toWrite
<1> QED BY <1>1, <1>4, <1>6

\* The bytes of a field lie in the bytes of its header: from is where the header starts,
\* end a byte border behind the field.
LEMMA FieldInHeader ==
  ASSUME NEW from \in Nat, NEW start \in Nat, NEW w \in Nat, NEW end \in Nat, NEW done \in Nat,
         from % 8 = 0, end % 8 = 0, from + start + w <= end, done < (w + 7) \div 8
  PROVE  /\ 8 * ((from + start) \div 8 + done) + 8 <= end
         /\ w - 8 * done \in Nat
         /\ ~Fits(w - 8 * done, start % 8) => 8 * ((from + start) \div 8 + done) + 16 <= end
<1>1. PICK byte \in Nat, a \in 0 .. 7 :
        byte = (from + start) \div 8 /\ a = start % 8 /\ 8 * byte + a = from + start
  <2>1. start % 8 \in 0 .. 7
    OBVIOUS
  <2> QED BY <2>1, FirstByte
<1>2. 8 * done < w
  OBVIOUS
<1>3. PICK bytes \in Nat : end = 8 * bytes
  <2>1. end = 8 * (end \div 8) /\ end \div 8 \in Nat
    OBVIOUS
  <2> QED BY <2>1
<1>4. 8 * byte + 8 * done < 8 * bytes
  BY <1>1, <1>2, <1>3
<1>5. byte + done + 1 <= bytes
  BY <1>4
<1>6. ~Fits(w - 8 * done, a) => byte + done + 2 <= bytes
  <2> SUFFICES ASSUME ~Fits(w - 8 * done, a) PROVE byte + done + 2 <= bytes
    OBVIOUS
  <2>1. w - 8 * done > 8 - a
    BY <1>2 DEF Fits
  <2>2. 8 * byte + 8 * done + 8 < 8 * bytes
    BY <1>1, <1>3, <2>1
  <2> QED BY <2>2
<1>7. 8 * (byte + done) + 8 <= end /\ w - 8 * done \in Nat
  BY <1>2, <1>3, <1>5
<1>8. ~Fits(w - 8 * done, a) => 8 * (byte + done) + 16 <= end
  BY <1>3, <1>6
<1> QED BY <1>1, <1>7, <1>8, Zenon

\* Resized behind the MAC header, the packet keeps what was not consumed.
LEMMA AdjustRoomKeeps ==
  ASSUME PacketOK, size \in Nat, pkt = Received, NEW h \in Nat, NEW c \in Nat, h >= MacBytes, c >= MacBytes,
         AdjustRoom(h - c)
  PROVE  /\ Len(pkt') - 8 * h = 8 * size - 8 * c
         /\ \A b \in 1 .. 8 * size - 8 * c : pkt'[8 * h + b] = <<"packet", 8 * c + b>>
<1>1. DOMAIN pkt = 1 .. 8 * size /\ Len(pkt) = 8 * size
  <2>1. PICK len \in Nat : len = 8 * size
    OBVIOUS
  <2>2. DOMAIN pkt = 1 .. len
    BY <2>1 DEF Received
  <2>3. Len(pkt) = len
    BY <2>1, <2>2
  <2> QED BY <2>1, <2>2, <2>3
<1>2. PICK by \in Int : by = h - c
  OBVIOUS
<1>3. Len(pkt') = Len(pkt) + 8 * by
  BY <1>2, AdjustRoomLength
<1>4. MacBytes \in Nat
  BY ConstantsAssumption
<1>5. pkt' = [b \in 1 .. 8 * size + 8 * by |->
                IF b <= 8 * MacBytes THEN pkt[b]
                ELSE IF b <= 8 * (MacBytes + by) THEN Junk ELSE pkt[b - 8 * by]]
  BY <1>1, <1>2 DEF AdjustRoom
<1>6. ASSUME NEW b \in 1 .. 8 * size - 8 * c
      PROVE  pkt'[8 * h + b] = <<"packet", 8 * c + b>>
  <2>1. PICK i \in Int : i = 8 * h + b
    OBVIOUS
  <2>2. /\ i \in 1 .. 8 * size + 8 * by /\ ~(i <= 8 * MacBytes) /\ ~(i <= 8 * (MacBytes + by))
        /\ i - 8 * by = 8 * c + b
    BY <1>2, <1>4, <2>1
  <2>3. pkt'[i] = pkt[i - 8 * by]
    BY <1>5, <2>2
  <2>4. 8 * c + b \in 1 .. 8 * size
    OBVIOUS
  <2>5. pkt[8 * c + b] = <<"packet", 8 * c + b>>
    BY <2>4 DEF Received
  <2> QED BY <2>1, <2>2, <2>3, <2>5
<1>7. Len(pkt') - 8 * h = 8 * size - 8 * c
  BY <1>1, <1>2, <1>3
<1> QED BY <1>6, <1>7

LEMMA ResizeKeepsPayload ==
  ASSUME TypeOK, Cursor, Untouched, ResizeBuffer, WholeBytes, Resizable, pc' = "emit"
  PROVE  /\ Len(pkt') - outHeaderLength = 8 * size - consumed
         /\ \A b \in 1 .. 8 * size - consumed : pkt'[outHeaderLength + b] = <<"packet", consumed + b>>
<1>1. prog \in Programs /\ size \in Nat /\ offset \in Nat /\ PacketOK /\ MacBytes \in Nat
  BY ConstantsAssumption DEF TypeOK, PacketOK
<1>2. pkt = Received /\ consumed = offset /\ offset % 8 = 0
  BY DEF ResizeBuffer, Cursor, Untouched
<1>3. outHeaderLength \in Nat /\ outHeaderLength % 8 = 0
  <2>1. Len(prog.emit) + 1 \in 1 .. Len(prog.emit) + 1
    BY <1>1, ProgramIs
  <2> QED BY <1>1, <2>1, WrittenToSteps
<1>4. PICK h \in Nat, c \in Nat : /\ outHeaderLength = 8 * h /\ Bytes(outHeaderLength) = h
                                  /\ offset = 8 * c /\ Bytes(offset) = c
  <2>1. \A x \in Nat : x % 8 = 0 => x = 8 * Bytes(x) /\ Bytes(x) \in Nat
    BY DEF Bytes
  <2> QED BY <1>1, <1>2, <1>3, <2>1
<1>5. CASE h = c
  <2>1. pkt' = pkt
    BY <1>4, <1>5 DEF ResizeBuffer
  <2>2. Len(pkt) = 8 * size
    <3>1. PICK len \in Nat : len = 8 * size
      BY <1>1
    <3>2. DOMAIN pkt = 1 .. len
      BY <1>2, <3>1 DEF Received
    <3> QED BY <1>1, <3>1, <3>2, PacketLength
  <2>3. \A b \in 1 .. 8 * size : pkt[b] = <<"packet", b>>
    BY <1>2 DEF Received
  <2>4. \A b \in 1 .. 8 * size - 8 * c : 8 * c + b \in 1 .. 8 * size
    BY <1>1
  <2> QED BY <1>2, <1>4, <1>5, <2>1, <2>2, <2>3, <2>4
<1>6. CASE h # c
  <2>1. AdjustRoom(h - c)
    <3>1. h - c # 0
      BY <1>6
    <3> QED BY <1>4, <3>1 DEF ResizeBuffer
  <2>2. h >= MacBytes /\ c >= MacBytes
    BY <1>1, <1>2, <1>4, <1>6 DEF Resizable
  <2>3. /\ Len(pkt') - 8 * h = 8 * size - 8 * c
        /\ \A b \in 1 .. 8 * size - 8 * c : pkt'[8 * h + b] = <<"packet", 8 * c + b>>
    BY <1>1, <1>2, <2>1, <2>2, AdjustRoomKeeps
  <2> QED BY <1>2, <1>4, <2>3
<1> QED BY <1>5, <1>6

\* No byte of a field is written behind the headers.
LEMMA EmitByteBehind ==
  ASSUME TypeOK, Position, WholeBytes, WideFieldsAreBytes, EmitByte, NEW b \in DOMAIN pkt, b > outHeaderLength
  PROVE  pkt'[b] = pkt[b]
<1>1. prog \in Programs /\ written \in Nat /\ DOMAIN pkt = 1 .. Len(pkt) /\ Len(pkt) \in Nat /\ pc = "bytes"
  BY DEF TypeOK, EmitByte
<1>2. /\ n \in 1 .. Len(prog.emit) /\ Out = prog.emit[n] /\ Out \in DOMAIN prog.headers
      /\ f \in DOMAIN prog.headers[Out] /\ DOMAIN prog.headers[Out] = 1 .. Len(prog.headers[Out])
      /\ n \in DOMAIN prog.emit
  BY <1>1, Writing, ProgramIs DEF Position
<1>3. PICK from \in Nat, start \in Nat, end \in Nat :
        /\ offset = from + start /\ from % 8 = 0 /\ end = outHeaderLength /\ end % 8 = 0
        /\ from + Width(prog.headers[Out]) <= end /\ start = StartOf(Out, f)
  <2>1. /\ WrittenTo(n) \in Nat /\ WrittenTo(n) % 8 = 0
        /\ StartOf(Out, f) \in Nat /\ offset = WrittenTo(n) + StartOf(Out, f)
        /\ WrittenTo(n + 1) = WrittenTo(n) + Width(prog.headers[Out]) /\ WrittenTo(n + 1) <= outHeaderLength
        /\ outHeaderLength \in Nat /\ outHeaderLength % 8 = 0
    BY <1>1, Writing
  <2>2. PICK from \in Nat, start \in Nat, end \in Nat :
          from = WrittenTo(n) /\ start = StartOf(Out, f) /\ end = outHeaderLength
    BY <2>1
  <2> QED BY <2>1, <2>2
<1>4. PICK w \in Nat, a \in 0 .. 7 :
        w = prog.headers[Out][f] /\ w > 0 /\ a = AlignmentOf(Out, f) /\ a = start % 8
        /\ from + start + w <= end
  <2>1. /\ prog.headers[Out][f] \in Nat /\ prog.headers[Out][f] > 0 /\ Width(prog.headers[Out]) \in Nat
        /\ start + prog.headers[Out][f] <= Width(prog.headers[Out])
        /\ AlignmentOf(Out, f) \in 0 .. 7 /\ AlignmentOf(Out, f) = start % 8
    BY <1>1, <1>2, <1>3, FieldIs
  <2> QED BY <1>3, <2>1
<1>5. w <= 64 \/ w % 8 = 0
  BY <1>2, <1>4 DEF WideFieldsAreBytes, FieldsOf
<1>6. PICK bytes \in Nat : bytes = (w + 7) \div 8
  OBVIOUS
<1>7. PICK done \in Nat : done = IF w > 64 THEN bytes - written - 1 ELSE written
  BY <1>1, <1>4, <1>6, SMTT(30) DEF EmitByte
<1>8. written < bytes /\ done < (w + 7) \div 8
  BY <1>1, <1>4, <1>6, <1>7 DEF EmitByte
<1>9. PICK at \in Nat : at = (from + start) \div 8 + done
  BY FirstByte
<1>10. PICK byte : pkt' = WithByte(pkt, byte, at, w - 8 * written, w, a)
  <2>1. Bytes(offset) + (IF w > 64 THEN bytes - written - 1 ELSE written) = at
    BY <1>3, <1>7, <1>9 DEF Bytes
  <2> QED BY <1>4, <1>6, <2>1, Zenon DEF EmitByte
<1>11. /\ 8 * at + 8 <= end /\ w - 8 * done \in Nat
       /\ ~Fits(w - 8 * done, a) => 8 * at + 16 <= end
  <2>1. /\ 8 * ((from + start) \div 8 + done) + 8 <= end
        /\ w - 8 * done \in Nat
        /\ ~Fits(w - 8 * done, start % 8) => 8 * ((from + start) \div 8 + done) + 16 <= end
    <3>1. from % 8 = 0 /\ end % 8 = 0 /\ from + start + w <= end /\ done < (w + 7) \div 8
      BY <1>3, <1>4, <1>8
    <3> QED BY <3>1, FieldInHeader
  <2> QED BY <1>4, <1>9, <2>1
<1>12. w - 8 * written \in Nat /\ (Fits(w - 8 * done, a) => Fits(w - 8 * written, a))
  <2>1. CASE w > 64
    <3>1. w % 8 = 0
      BY <1>5, <2>1
    <3>2. w = 8 * bytes
      BY <1>6, <3>1
    <3>3. w - 8 * written >= 8 /\ w - 8 * done >= 8
      BY <1>1, <1>7, <1>8, <2>1, <3>2
    <3> QED BY <1>1, <3>3 DEF Fits
  <2>2. CASE w <= 64
    BY <1>7, <1>11, <2>2
  <2> QED BY <2>1, <2>2
<1>13. b \in Int /\ b > 8 * at + 8 /\ (~Fits(w - 8 * written, a) => b > 8 * at + 16)
  BY <1>1, <1>3, <1>11, <1>12, SMTT(30)
<1>14. PICK left \in Nat : left = w - 8 * written
  BY <1>12
<1>15. b > 8 * at + 8 /\ (~Fits(left, a) => b > 8 * at + 16)
  BY <1>13, <1>14
<1>16. \A x, y : WithByte(pkt, x, at, left, y, a)[b] = pkt[b]
  BY <1>13, <1>15, WithByteBehind
<1> QED BY <1>10, <1>14, <1>16

LEMMA PayloadStep ==
  ASSUME TypeOK, Cursor, Untouched, Position, Payload, Next PROVE Payload'
<1>1. UNCHANGED <<prog, valid>> => UNCHANGED outHeaderLength /\ (WideFieldsAreBytes' => WideFieldsAreBytes)
  BY DEF outHeaderLength, Lengths, WideFieldsAreBytes, FieldsOf
<1>2. ASSUME UNCHANGED <<prog, valid, consumed>>, WholeBytes', Resizable', WideFieldsAreBytes'
      PROVE  WholeBytes /\ Resizable /\ WideFieldsAreBytes
  BY <1>1, <1>2, WholeBytesStays DEF Resizable
<1>3. pc' \notin {"emit", "fields", "bytes", "done"} => Payload'
  BY DEF Payload
<1>4. CASE CheckLength \/ ExtractField \/ Extracted \/ Advance \/ Verify \/ LastTransition \/ Control
  BY <1>3, <1>4 DEF CheckLength, ExtractField, Extracted, Advance, Verify, LastTransition, Control, Rejected
<1>5. CASE ResizeBuffer
  <2>1. UNCHANGED <<prog, valid, consumed, size>> /\ pc' \in {"emit", "dropped"}
    BY <1>5 DEF ResizeBuffer
  <2>2. SUFFICES ASSUME pc' = "emit", WholeBytes, Resizable PROVE PayloadInPlace'
    BY <1>2, <1>3, <2>1 DEF Payload
  <2>3. /\ Len(pkt') - outHeaderLength = 8 * size - consumed
        /\ \A b \in 1 .. 8 * size - consumed : pkt'[outHeaderLength + b] = <<"packet", consumed + b>>
    BY <1>5, <2>2, ResizeKeepsPayload
  <2> QED BY <1>1, <2>1, <2>3 DEF PayloadInPlace
<1>6. CASE EmitByte
  <2>1. UNCHANGED <<prog, valid, consumed, size>> /\ pc = "bytes"
    BY <1>6 DEF EmitByte
  <2>2. SUFFICES ASSUME PayloadInPlace, WholeBytes, WideFieldsAreBytes PROVE PayloadInPlace'
    BY <1>2, <2>1 DEF Payload
  <2>3. Len(pkt) \in Nat /\ DOMAIN pkt = 1 .. Len(pkt) /\ outHeaderLength \in Nat /\ consumed \in Nat /\ size \in Nat
    BY <2>1, Writing, ConstantsAssumption DEF TypeOK
  <2>4. Len(pkt') = Len(pkt)
    <3>1. PICK byte, at, left, w, a : pkt' = WithByte(pkt, byte, at, left, w, a)
      BY <1>6, Zenon DEF EmitByte
    <3>2. DOMAIN pkt' = DOMAIN pkt
      BY <3>1, WithByteType
    <3> QED BY <2>3, <3>2
  <2>5. \A b \in 1 .. 8 * size - consumed :
          /\ outHeaderLength + b \in DOMAIN pkt /\ outHeaderLength + b > outHeaderLength
          /\ pkt[outHeaderLength + b] = <<"packet", consumed + b>>
    BY <2>2, <2>3 DEF PayloadInPlace
  <2>6. \A b \in 1 .. 8 * size - consumed : pkt'[outHeaderLength + b] = pkt[outHeaderLength + b]
    BY <1>6, <2>2, <2>5, EmitByteBehind
  <2>7. \A b \in 1 .. 8 * size - consumed : pkt'[outHeaderLength + b] = <<"packet", consumed + b>>
    BY <2>5, <2>6
  <2> QED BY <1>1, <2>1, <2>2, <2>4, <2>7 DEF PayloadInPlace
<1>7. CASE SkipHeader \/ EmitHeader \/ StartField \/ FieldEmitted \/ HeaderEmitted \/ Deparsed
  <2>1. UNCHANGED <<prog, valid, consumed, size, pkt>> /\ pc \in {"emit", "fields", "bytes", "done"}
    BY <1>7 DEF SkipHeader, EmitHeader, StartField, FieldEmitted, HeaderEmitted, Deparsed
  <2>2. PayloadInPlace => PayloadInPlace'
    BY <1>1, <2>1 DEF PayloadInPlace
  <2> QED BY <1>2, <2>1, <2>2 DEF Payload
<1> QED BY <1>4, <1>5, <1>6, <1>7 DEF Next

-----------------------------------------------------------------------------
(* Bytes that are written.                                                 *)

\* write_partial() puts w bits of a byte into a byte of the packet, s bits above its end,
\* and leaves those below them and, if nothing is to be ORed there, those above.
Writes(q, p, at, w, s, v) ==
  /\ DOMAIN q = DOMAIN p
  /\ \A x \in DOMAIN p : x \notin 8 * at + 1 .. 8 * at + 8 => q[x] = p[x]
  /\ \A b \in 0 .. 7 : 8 * at + 8 - b \in DOMAIN p =>
       /\ b \in s .. s + w - 1 => q[8 * at + 8 - b] = v[b - s]
       /\ b < s => q[8 * at + 8 - b] = p[8 * at + 8 - b]
       /\ b >= s + w /\ v[b - s] = Zero => q[8 * at + 8 - b] = p[8 * at + 8 - b]

LEMMA BitInByte ==
  ASSUME NEW at \in Nat, NEW x \in 8 * at + 1 .. 8 * at + 8
  PROVE  \E b \in 0 .. 7 : b = 8 * at + 8 - x /\ x = 8 * at + 8 - b
OBVIOUS

LEMMA OrZero ==
  \A x : Or(x, Zero) = x
BY DEF Or

LEMMA WritePartialIs ==
  ASSUME NEW p, NEW at \in Nat, NEW w \in 0 .. 8, NEW s \in 0 .. 8, NEW v, DOMAIN v = 0 .. 7
  PROVE  Writes(write_partial(p, at, w, s, v), p, at, w, s, v)
<1> DEFINE moved == ShiftLeft(v, s)
           byte == [b \in 0 .. 7 |-> IF b \in s .. s + w - 1 THEN moved[b] ELSE Or(p[8 * at + 8 - b], moved[b])]
           q == write_partial(p, at, w, s, v)
<1>1. q = ReplaceByte(p, at, byte)
  BY Zenon DEF write_partial
<1>2. q = [x \in DOMAIN p |-> IF x \in 8 * at + 1 .. 8 * at + 8 THEN byte[8 * at + 8 - x] ELSE p[x]]
  BY <1>1, Zenon DEF ReplaceByte
<1>3. \A b \in 0 .. 7 : moved[b] = IF b < s THEN Zero ELSE v[b - s]
  <2> TAKE b \in 0 .. 7
  <2>1. b \in DOMAIN v /\ (b - s \in DOMAIN v <=> ~(b < s))
    OBVIOUS
  <2>2. moved[b] = IF b - s \in DOMAIN v THEN v[b - s] ELSE Zero
    BY <2>1 DEF ShiftLeft
  <2> QED BY <2>1, <2>2
<1> HIDE DEF q, moved
<1>4. ASSUME NEW b \in 0 .. 7, 8 * at + 8 - b \in DOMAIN p
      PROVE  q[8 * at + 8 - b] = IF b \in s .. s + w - 1 THEN moved[b] ELSE Or(p[8 * at + 8 - b], moved[b])
  <2>1. PICK x \in Int : x = 8 * at + 8 - b
    OBVIOUS
  <2>2. x \in 8 * at + 1 .. 8 * at + 8 /\ 8 * at + 8 - x = b
    BY <2>1
  <2> HIDE DEF byte
  <2>3. q[x] = byte[b]
    BY <1>2, <1>4, <2>1, <2>2
  <2> QED BY <2>1, <2>3 DEF byte
<1>5. ASSUME NEW b \in 0 .. 7, 8 * at + 8 - b \in DOMAIN p
      PROVE  /\ b \in s .. s + w - 1 => q[8 * at + 8 - b] = v[b - s]
             /\ b < s => q[8 * at + 8 - b] = p[8 * at + 8 - b]
             /\ b >= s + w /\ v[b - s] = Zero => q[8 * at + 8 - b] = p[8 * at + 8 - b]
  <2>1. ~(b \in s .. s + w - 1) /\ moved[b] = Zero => q[8 * at + 8 - b] = p[8 * at + 8 - b]
    BY <1>4, <1>5, OrZero
  <2>2. (b \in s .. s + w - 1 => ~(b < s)) /\ (b < s => ~(b \in s .. s + w - 1))
        /\ (b >= s + w => ~(b \in s .. s + w - 1) /\ ~(b < s))
    OBVIOUS
  <2> QED BY <1>3, <1>4, <1>5, <2>1, <2>2
<1>6. /\ DOMAIN q = DOMAIN p
      /\ \A x \in DOMAIN p : x \notin 8 * at + 1 .. 8 * at + 8 => q[x] = p[x]
  <2> HIDE DEF byte
  <2> QED BY <1>2
<1> QED BY <1>5, <1>6 DEF Writes, q

\* The byte that starts behind bit number first of the packet: its upper end is there,
\* as many bits of it as are left, and nothing changes in front of it or behind it.
Puts(q, p, byte, first, end, left) ==
  /\ \A x \in DOMAIN p : x <= first \/ x > first + 8 => q[x] = p[x]
  /\ \A j \in 0 .. end - 1 :
       end - j <= left /\ first + end - j \in DOMAIN p => q[first + end - j] = byte[j]

\* From the first bit of a byte.
LEMMA AlignedByte ==
  ASSUME NEW len \in Nat, NEW p, DOMAIN p = 1 .. len, NEW byte, DOMAIN byte = 0 .. 7,
         NEW at \in Nat, NEW left \in Nat, NEW w \in Nat, left > 0, w >= 8, left < 8 => w > 8
  PROVE  Puts(WithByte(p, byte, at, left, w, 0), p, byte, 8 * at, 8, left)
<1> DEFINE q == WithByte(p, byte, at, left, w, 0)
<1>1. CASE left >= 8
  <2>1. q = ReplaceByte(p, at, byte)
    BY <1>1 DEF WithByte
  <2>2. q = [x \in DOMAIN p |-> IF x \in 8 * at + 1 .. 8 * at + 8 THEN byte[8 * at + 8 - x] ELSE p[x]]
    BY <2>1, Zenon DEF ReplaceByte
  <2> HIDE DEF q
  <2>3. \A x \in DOMAIN p : x <= 8 * at \/ x > 8 * at + 8 => q[x] = p[x]
    BY <2>2
  <2>4. ASSUME NEW j \in 0 .. 7, 8 * at + 8 - j \in DOMAIN p PROVE q[8 * at + 8 - j] = byte[j]
    <3>1. PICK x \in Int : x = 8 * at + 8 - j
      OBVIOUS
    <3>2. x \in 8 * at + 1 .. 8 * at + 8 /\ 8 * at + 8 - x = j
      BY <3>1
    <3> QED BY <2>2, <2>4, <3>1, <3>2
  <2> QED BY <2>3, <2>4 DEF Puts, q
<1>2. CASE left < 8
  <2>1. PICK s \in 0 .. 8 : s = 8 - left
    BY <1>2
  <2>2. PICK v : v = ShiftRight(byte, s)
    OBVIOUS
  <2>3. q = write_partial(p, at, left, s, v)
    BY <1>2, <2>1, <2>2 DEF WithByte
  <2>4. DOMAIN v = 0 .. 7 /\ \A b \in 0 .. 7 : b + s \in 0 .. 7 => v[b] = byte[b + s]
    BY <2>1, <2>2 DEF ShiftRight
  <2> HIDE DEF q
  <2>5. Writes(q, p, at, left, s, v)
    <3>1. left \in 0 .. 8
      BY <1>2
    <3> QED BY <2>3, <2>4, <3>1, WritePartialIs
  <2>6. \A x \in DOMAIN p : x <= 8 * at \/ x > 8 * at + 8 => q[x] = p[x]
    BY <2>5 DEF Writes
  <2>7. ASSUME NEW j \in 0 .. 7, 8 - j <= left, 8 * at + 8 - j \in DOMAIN p PROVE q[8 * at + 8 - j] = byte[j]
    <3>1. j \in s .. s + left - 1 /\ j - s \in 0 .. 7 /\ (j - s) + s = j
      BY <1>2, <2>1, <2>7
    <3>2. q[8 * at + 8 - j] = v[j - s]
      BY <2>5, <2>7, <3>1 DEF Writes
    <3>3. v[j - s] = byte[(j - s) + s]
      BY <2>4, <3>1
    <3> QED BY <3>1, <3>2, <3>3
  <2> QED BY <2>6, <2>7 DEF Puts, q
<1> QED BY <1>1, <1>2

\* From another bit of a byte: the upper part goes into that byte, the rest into the next.
LEMMA UnalignedByte ==
  ASSUME NEW len \in Nat, NEW p, DOMAIN p = 1 .. len, NEW byte, DOMAIN byte = 0 .. 7,
         NEW at \in Nat, NEW left \in Nat, NEW w \in Nat, NEW a \in 1 .. 7, w >= 8, left >= 8 - a
  PROVE  Puts(WithByte(p, byte, at, left, w, a), p, byte, 8 * at + a, 8, left)
<1> DEFINE q == WithByte(p, byte, at, left, w, a)
<1>0. PICK v : v = ShiftRight(byte, a)
  OBVIOUS
<1>1. PICK u \in 0 .. 8 : u = 8 - a /\ v = ShiftRight(byte, a)
  BY <1>0
<1>2. PICK first : first = write_partial(p, at, u, 0, v)
  OBVIOUS
<1>3. q = IF left = u THEN first ELSE write_partial(first, at + 1, a, u, byte)
  <2> DEFINE inByte == IF left >= 8 THEN 8 ELSE left
             toWrite == IF inByte > 8 - a THEN 8 - a ELSE inByte
             dropped == IF w > 8 - a THEN IF a = 0 THEN 8 - toWrite ELSE a ELSE 0
             begun == IF toWrite = 8 THEN ReplaceByte(p, at, byte)
                      ELSE write_partial(p, at, toWrite, 8 - a - toWrite, ShiftRight(byte, dropped))
  <2>1. q = IF inByte = toWrite THEN begun ELSE write_partial(begun, at + 1, 8 - toWrite, toWrite, byte)
    BY DEF WithByte
  <2>2. toWrite = u /\ (inByte = toWrite <=> left = u) /\ dropped = a
    BY <1>1
  <2>3. toWrite # 8 /\ 8 - a - toWrite = 0 /\ 8 - toWrite = a
    BY <1>1, <2>2
  <2> HIDE DEF q, inByte, toWrite, dropped
  <2>4. begun = first
    BY <1>1, <1>2, <2>2, <2>3
  <2> HIDE DEF begun
  <2>5. q = IF inByte = toWrite THEN first ELSE write_partial(first, at + 1, a, u, byte)
    BY <2>1, <2>2, <2>3, <2>4
  <2>6. CASE left = u
    BY <2>2, <2>5, <2>6
  <2>7. CASE left # u
    BY <2>2, <2>5, <2>7
  <2> QED BY <2>6, <2>7
<1>4. DOMAIN v = 0 .. 7 /\ \A b \in 0 .. 7 : v[b] = IF b + a \in 0 .. 7 THEN byte[b + a] ELSE Zero
  BY <1>1 DEF ShiftRight
<1>5. Writes(first, p, at, u, 0, v)
  <2>1. PICK s \in 0 .. 8 : s = 0
    OBVIOUS
  <2>2. Writes(write_partial(p, at, u, s, v), p, at, u, s, v)
    BY <1>4, WritePartialIs
  <2> QED BY <1>2, <2>1, <2>2
<1>6. \A x \in DOMAIN p : x <= 8 * at + a => first[x] = p[x]
  <2> SUFFICES ASSUME NEW x \in DOMAIN p, x <= 8 * at + a PROVE first[x] = p[x]
    OBVIOUS
  <2>1. CASE x \in 8 * at + 1 .. 8 * at + 8
    <3>1. PICK b \in 0 .. 7 : b = 8 * at + 8 - x /\ x = 8 * at + 8 - b
      BY <2>1, BitInByte
    <3>2. x = 8 * at + 8 - b /\ b >= 0 + u /\ b - 0 = b /\ b + a \notin 0 .. 7
      BY <1>1, <3>1, SMTT(30)
    <3>3. v[b] = IF b + a \in 0 .. 7 THEN byte[b + a] ELSE Zero
      BY <1>4, Zenon
    <3>4. v[b - 0] = Zero
      BY <3>2, <3>3, Zenon
    <3> QED BY <1>5, <3>2, <3>4 DEF Writes
  <2>2. CASE x \notin 8 * at + 1 .. 8 * at + 8
    BY <1>5, <2>2 DEF Writes
  <2> QED BY <2>1, <2>2
<1>7. \A x \in DOMAIN p : x > 8 * at + a + 8 => first[x] = p[x]
  <2>1. \A x \in DOMAIN p : x > 8 * at + a + 8 => x \notin 8 * at + 1 .. 8 * at + 8
    OBVIOUS
  <2> QED BY <1>5, <2>1 DEF Writes
<1>8. ASSUME NEW j \in a .. 7, 8 * at + a + 8 - j \in DOMAIN p
      PROVE  first[8 * at + a + 8 - j] = byte[j]
  <2>1. PICK b \in 0 .. 7 : b = j - a
    OBVIOUS
  <2>2. 8 * at + a + 8 - j = 8 * at + 8 - b /\ b \in 0 .. 0 + u - 1 /\ b + a = j /\ b - 0 = b
    BY <1>1, <2>1
  <2>3. first[8 * at + 8 - b] = v[b]
    BY <1>5, <1>8, <2>2 DEF Writes
  <2>4. v[b] = IF b + a \in 0 .. 7 THEN byte[b + a] ELSE Zero
    BY <1>4, Zenon
  <2>5. j \in 0 .. 7
    OBVIOUS
  <2> QED BY <2>2, <2>3, <2>4, <2>5, Zenon
<1>9. CASE left = u
  <2>1. \A j \in 0 .. 7 : 8 - j <= left => j \in a .. 7
    BY <1>1, <1>9
  <2> HIDE DEF q
  <2> QED BY <1>3, <1>6, <1>7, <1>8, <1>9, <2>1 DEF Puts, q
<1>10. CASE left # u
  <2>1. q = write_partial(first, at + 1, a, u, byte)
    BY <1>3, <1>10
  <2>2. Writes(q, first, at + 1, a, u, byte)
    <3>1. a \in 0 .. 8 /\ at + 1 \in Nat
      OBVIOUS
    <3> HIDE DEF q
    <3> QED BY <2>1, <3>1, WritePartialIs
  <2> HIDE DEF q
  <2>3. DOMAIN first = DOMAIN p
    BY <1>5 DEF Writes
  <2>4. \A x \in DOMAIN p : x <= 8 * at + 8 => q[x] = first[x]
    BY <2>2, <2>3 DEF Writes
  <2>5. \A x \in DOMAIN p : x > 8 * at + a + 8 => q[x] = first[x]
    <3> SUFFICES ASSUME NEW x \in DOMAIN p, x > 8 * at + a + 8 PROVE q[x] = first[x]
      OBVIOUS
    <3>1. CASE x \in 8 * (at + 1) + 1 .. 8 * (at + 1) + 8
      <4>1. PICK b \in 0 .. 7 : b = 8 * (at + 1) + 8 - x
        BY <3>1
      <4>2. x = 8 * (at + 1) + 8 - b /\ b < u
        BY <1>1, <4>1, SMTT(30)
      <4> QED BY <2>2, <2>3, <4>2 DEF Writes
    <3>2. CASE x \notin 8 * (at + 1) + 1 .. 8 * (at + 1) + 8
      BY <2>2, <2>3, <3>2 DEF Writes
    <3> QED BY <3>1, <3>2
  <2>6. ASSUME NEW j \in 0 .. 7, 8 * at + a + 8 - j \in DOMAIN p PROVE q[8 * at + a + 8 - j] = byte[j]
    <3>1. CASE j >= a
      <4>1. PICK x \in Int : x = 8 * at + a + 8 - j
        OBVIOUS
      <4>2. x <= 8 * at + 8 /\ j \in a .. 7
        BY <3>1, <4>1
      <4>3. q[x] = first[x]
        BY <2>4, <2>6, <4>1, <4>2
      <4> QED BY <1>8, <2>6, <4>1, <4>2, <4>3
    <3>2. CASE j < a
      <4>1. PICK b \in 0 .. 7 : b = j + u
        BY <1>1, <3>2
      <4>2. 8 * at + a + 8 - j = 8 * (at + 1) + 8 - b /\ b \in u .. u + a - 1 /\ b - u = j
        BY <1>1, <3>2, <4>1
      <4> QED BY <2>2, <2>3, <2>6, <4>2 DEF Writes
    <3> QED BY <3>1, <3>2
  <2>7. \A x \in DOMAIN p : x <= 8 * at + a \/ x > 8 * at + a + 8 => q[x] = p[x]
    <3>1. \A x \in DOMAIN p : x <= 8 * at + a => x <= 8 * at + 8
      OBVIOUS
    <3> QED BY <1>6, <1>7, <2>4, <2>5, <3>1
  <2> QED BY <2>6, <2>7 DEF Puts, q
<1> QED BY <1>9, <1>10

\* A field of less than a byte, in one byte of the packet.
LEMMA PartOfByte ==
  ASSUME NEW len \in Nat, NEW p, DOMAIN p = 1 .. len, NEW byte, DOMAIN byte = 0 .. 7,
         NEW at \in Nat, NEW w \in 1 .. 7, NEW a \in 0 .. 7, a + w <= 8, \A j \in w .. 7 : byte[j] = Zero
  PROVE  Puts(WithByte(p, byte, at, w, w, a), p, byte, 8 * at + a, w, w)
<1> DEFINE q == WithByte(p, byte, at, w, w, a)
<1>0. PICK v : v = ShiftRight(byte, 0)
  OBVIOUS
<1>1. PICK s \in 0 .. 8 : s = 8 - a - w /\ v = ShiftRight(byte, 0)
  BY <1>0
<1>2. q = write_partial(p, at, w, s, v)
  BY <1>1 DEF WithByte
<1>3. DOMAIN v = 0 .. 7 /\ \A b \in 0 .. 7 : v[b] = byte[b]
  BY <1>1 DEF ShiftRight
<1> HIDE DEF q
<1>4. Writes(q, p, at, w, s, v)
  <2>1. w \in 0 .. 8
    OBVIOUS
  <2> QED BY <1>2, <1>3, <2>1, WritePartialIs
<1>5. \A x \in DOMAIN p : x <= 8 * at + a \/ x > 8 * at + a + 8 => q[x] = p[x]
  <2> SUFFICES ASSUME NEW x \in DOMAIN p, x <= 8 * at + a \/ x > 8 * at + a + 8 PROVE q[x] = p[x]
    OBVIOUS
  <2>1. CASE x \in 8 * at + 1 .. 8 * at + 8
    <3>1. PICK b \in 0 .. 7 : b = 8 * at + 8 - x /\ x = 8 * at + 8 - b
      BY <2>1, BitInByte
    <3>2. x <= 8 * at + a /\ x = 8 * at + 8 - b /\ s + w = 8 - a
      BY <1>1, <2>1, <3>1, SMTT(30)
    <3>3. b >= s + w /\ b - s \in w .. 7 /\ b - s \in 0 .. 7
      BY <3>2
    <3>4. v[b - s] = Zero
      BY <1>3, <3>3
    <3> QED BY <1>4, <3>2, <3>3, <3>4 DEF Writes
  <2>2. CASE x \notin 8 * at + 1 .. 8 * at + 8
    BY <1>4, <2>2 DEF Writes
  <2> QED BY <2>1, <2>2
<1>6. ASSUME NEW j \in 0 .. w - 1, 8 * at + a + w - j \in DOMAIN p
      PROVE  q[8 * at + a + w - j] = byte[j]
  <2>1. PICK b \in 0 .. 7 : b = j + s
    BY <1>1
  <2>2. 8 * at + a + w - j = 8 * at + 8 - b /\ b \in s .. s + w - 1 /\ b - s = j /\ j \in 0 .. 7
    BY <1>1, <2>1
  <2>3. q[8 * at + 8 - b] = v[b - s]
    BY <1>4, <1>6, <2>2 DEF Writes
  <2> QED BY <1>3, <2>2, <2>3
<1> QED BY <1>5, <1>6 DEF Puts, q

\* How a byte of a field that is written where it belongs changes the packet.
LEMMA ByteIsPut ==
  ASSUME NEW len \in Nat, NEW p, DOMAIN p = 1 .. len, NEW byte, DOMAIN byte = 0 .. 7,
         NEW at \in Nat, NEW i \in Nat, NEW w \in Nat, NEW a \in 0 .. 7,
         8 * i < w, Emittable(w, a), \A j \in w .. 7 : byte[j] = Zero
  PROVE  Puts(WithByte(p, byte, at, w - 8 * i, w, a), p, byte, 8 * at + a, IF w < 8 THEN w ELSE 8, w - 8 * i)
<1>1. PICK left \in Nat : left = w - 8 * i /\ left > 0
  OBVIOUS
<1>2. CASE w < 8
  <2>1. left = w /\ w \in 1 .. 7
    BY <1>1, <1>2
  <2>2. a + w <= 8
    BY <1>2, <2>1 DEF Emittable
  <2>3. Puts(WithByte(p, byte, at, w, w, a), p, byte, 8 * at + a, w, w)
    BY <2>1, <2>2, PartOfByte
  <2> QED BY <1>1, <1>2, <2>1, <2>3
<1>3. CASE w >= 8 /\ a = 0
  <2>1. left < 8 => w > 8
    BY <1>1, <1>3
  <2>2. Puts(WithByte(p, byte, at, left, w, 0), p, byte, 8 * at, 8, left)
    BY <1>1, <1>3, <2>1, AlignedByte
  <2>3. 8 * at + a = 8 * at /\ ~(w < 8)
    BY <1>3
  <2> QED BY <1>1, <1>3, <2>2, <2>3
<1>4. CASE w >= 8 /\ a > 0
  <2>1. left >= 8 - a
    <3>1. CASE w % 8 = 0
      <4>1. left % 8 = 0
        BY <1>1, <3>1
      <4> QED BY <1>1, <1>4, <4>1
    <3>2. CASE w % 8 # 0
      <4>1. a + (w % 8) >= 8
        BY <1>4, <3>2 DEF Emittable
      <4>2. left % 8 = w % 8
        BY <1>1
      <4>3. left >= left % 8
        BY <1>1
      <4> QED BY <1>1, <4>1, <4>2, <4>3
    <3> QED BY <3>1, <3>2
  <2>2. PICK c \in 1 .. 7 : c = a
    BY <1>4
  <2>3. Puts(WithByte(p, byte, at, left, w, c), p, byte, 8 * at + c, 8, left)
    BY <1>4, <2>1, <2>2, UnalignedByte
  <2>4. ~(w < 8)
    BY <1>4
  <2> QED BY <1>1, <2>2, <2>3, <2>4
<1> QED BY <1>2, <1>3, <1>4

\* Bit b of a field of w bits is bit j of the byte that is written next, i bytes after
\* the first: g is the bit of the packet in front of that byte, start that in front of
\* the field.
PlaceOfByte(w, i, start) == IF w > 64 THEN start + w - 8 * (i + 1) ELSE start + 8 * i
EndOfByte(w) == IF w < 8 THEN w ELSE 8
InByte(w, i, start, b) ==
  \E j \in 0 .. EndOfByte(w) - 1 :
    /\ EndOfByte(w) - j <= w - 8 * i /\ j \in 0 .. 7 /\ BitOf(w, i, j) = b
    /\ PlaceOfByte(w, i, start) + EndOfByte(w) - j = start + w - b

LEMMA BitOfByte ==
  ASSUME NEW w \in Nat, NEW i \in Nat, NEW start \in Nat, 8 * i < w, w > 64 => w % 8 = 0,
         NEW b \in 0 .. w - 1,
         IF w > 64 THEN 8 * i <= b /\ b < 8 * (i + 1) ELSE w - 8 * (i + 1) <= b /\ b < w - 8 * i
  PROVE  InByte(w, i, start, b)
<1>1. CASE w > 64
  <2>1. PICK j \in 0 .. 7 : j = b - 8 * i
    BY <1>1
  <2>2. w - 8 * i >= 8
    BY <1>1
  <2> QED BY <1>1, <2>1, <2>2 DEF InByte, EndOfByte, BitOf, FromLowest, PlaceOfByte
<1>2. CASE w <= 64 /\ w > 8
  <2>1. PICK j \in 0 .. 7 : j = b - w + 8 * (i + 1)
    BY <1>2
  <2> QED BY <1>2, <2>1 DEF InByte, EndOfByte, BitOf, FromLowest, PlaceOfByte
<1>3. CASE w <= 8
  <2>1. i = 0 /\ b \in 0 .. 7 /\ EndOfByte(w) = w
    BY <1>3 DEF EndOfByte
  <2> QED BY <1>3, <2>1 DEF InByte, BitOf, FromLowest, PlaceOfByte
<1> QED BY <1>1, <1>2, <1>3

\* What one run of the loop over the bytes of a field does: nothing in front of the
\* field or to what is written of it changes, and eight bits more are written.
LEMMA EmitByteWrites ==
  ASSUME TypeOK, Position, NarrowFields, Room, WholeBytes, EmitsFields, EmitByte,
         NEW w \in Nat, w = prog.headers[Out][f]
  PROVE  /\ \A x \in 1 .. offset : pkt'[x] = pkt[x]
         /\ \A b \in 0 .. w - 1 : IsWritten(w, b) => pkt'[offset + w - b] = pkt[offset + w - b]
         /\ HoldsInMemory(Out, f) =>
              \A b \in 0 .. w - 1 :
                IsWritten(w, b)' /\ ~IsWritten(w, b) => pkt'[offset + w - b] = meant[Out][f][b]
<1>1. /\ prog \in Programs /\ written \in Nat /\ DOMAIN pkt = 1 .. Len(pkt) /\ Len(pkt) \in Nat /\ pc = "bytes"
      /\ HeadersOK(hdr)
  BY TypeParts DEF TypeOK, EmitByte
<1>2. /\ n \in 1 .. Len(prog.emit) /\ n \in DOMAIN prog.emit /\ Out = prog.emit[n] /\ Out \in DOMAIN prog.headers
      /\ f \in DOMAIN prog.headers[Out]
  BY <1>1, Writing, ProgramIs DEF Position
<1>3. PICK from \in Nat, start \in Nat, width \in Nat :
        /\ offset = from + start /\ from % 8 = 0 /\ start = StartOf(Out, f)
        /\ from + width <= Len(pkt) /\ width = Width(prog.headers[Out])
  <2>1. /\ WrittenTo(n) \in Nat /\ WrittenTo(n) % 8 = 0
        /\ StartOf(Out, f) \in Nat /\ offset = WrittenTo(n) + StartOf(Out, f)
        /\ WrittenTo(n + 1) = WrittenTo(n) + Width(prog.headers[Out])
    BY <1>1, Writing
  <2>2. WrittenTo(n + 1) <= Len(pkt) /\ Width(prog.headers[Out]) \in Nat
    BY <1>1, <1>2, FieldIs DEF Room
  <2>3. PICK from \in Nat, start \in Nat, width \in Nat :
          from = WrittenTo(n) /\ start = StartOf(Out, f) /\ width = Width(prog.headers[Out])
    BY <2>1, <2>2
  <2> QED BY <2>1, <2>2, <2>3
<1>4. /\ w \in Nat /\ w > 0 /\ start + w <= width
  BY <1>1, <1>2, <1>3, FieldIs
<1>5. PICK a \in 0 .. 7 : a = AlignmentOf(Out, f) /\ a = start % 8
  BY <1>1, <1>2, <1>3, FieldIs
<1>6. PICK begin \in Nat, room \in Nat :
        begin = offset /\ begin + w <= room /\ DOMAIN pkt = 1 .. room /\ room = Len(pkt)
  <2>1. offset \in Nat /\ offset + w <= Len(pkt)
    <3>1. from + start \in Nat /\ (from + start) + w <= from + width
      BY <1>4
    <3>2. from + width <= Len(pkt) /\ offset = from + start
      BY <1>3
    <3> QED BY <1>1, <3>1, <3>2
  <2> QED BY <1>1, <2>1
<1>7. PICK first \in Nat : first = Bytes(offset) /\ 8 * first + a = begin
  <2>1. begin = from + start /\ Bytes(offset) = begin \div 8
    BY <1>3, <1>6 DEF Bytes
  <2>2. (from + start) \div 8 \in Nat /\ 8 * ((from + start) \div 8) + (start % 8) = from + start
    BY <1>3, FirstByte
  <2> QED BY <1>5, <2>1, <2>2
<1>8. Emittable(w, a)
  BY <1>2, <1>5 DEF EmitsFields, FieldsOf
<1>9. PICK i \in Nat : i = written /\ 8 * i < w /\ i \in 0 .. (w + 7) \div 8 - 1
  <2>1. PICK i \in Nat : i = written /\ i < (w + 7) \div 8
    BY <1>1 DEF EmitByte
  <2>2. 8 * i < w /\ i \in 0 .. (w + 7) \div 8 - 1
    BY <2>1
  <2> QED BY <2>1, <2>2
<1>10. w > 64 => w % 8 = 0
  BY <1>4, <1>8 DEF Emittable
<1>11. PICK at \in Nat : at = first + IF w > 64 THEN (w + 7) \div 8 - i - 1 ELSE i
  BY <1>4, <1>9
<1>12. PICK byte : byte = ByteOf(hdr[Out][f], i)
  OBVIOUS
<1>13. pkt' = WithByte(pkt, byte, at, w - 8 * i, w, a)
  BY <1>5, <1>7, <1>9, <1>11, <1>12 DEF EmitByte
<1>14. DOMAIN byte = 0 .. 7 /\ \A j \in 0 .. 7 : byte[j] = hdr[Out][f][8 * i + j]
  BY <1>12 DEF ByteOf
<1>15. \A j \in w .. 7 : byte[j] = Zero
  <2> SUFFICES ASSUME NEW j \in w .. 7 PROVE byte[j] = Zero
    OBVIOUS
  <2>1. i = 0 /\ j \in 0 .. 7
    BY <1>4, <1>9
  <2>2. hdr[Out][f][j] = Zero
    BY <1>2 DEF NarrowFields
  <2> QED BY <1>14, <2>1, <2>2
<1>16. HoldsInMemory(Out, f) =>
         \A j \in 0 .. 7 : BitOf(w, i, j) \in 0 .. w - 1 => byte[j] = meant[Out][f][BitOf(w, i, j)]
  BY <1>9, <1>14 DEF HoldsInMemory
<1>17. PICK g \in Nat, end \in Nat :
         g = 8 * at + a /\ g = PlaceOfByte(w, i, begin) /\ end = EndOfByte(w) /\ end <= 8
  <2>1. CASE w > 64
    <3>1. w = 8 * ((w + 7) \div 8)
      BY <1>4, <1>10, <2>1
    <3>2. 8 * at + a = begin + w - 8 * (i + 1)
      BY <1>4, <1>7, <1>11, <2>1, <3>1
    <3>3. PlaceOfByte(w, i, begin) = begin + w - 8 * (i + 1) /\ EndOfByte(w) = 8
      BY <2>1 DEF PlaceOfByte, EndOfByte
    <3> QED BY <3>2, <3>3
  <2>2. CASE w <= 64
    <3>1. 8 * at + a = begin + 8 * i
      BY <1>4, <1>7, <1>11, <2>2
    <3>2. PlaceOfByte(w, i, begin) = begin + 8 * i /\ EndOfByte(w) \in Nat /\ EndOfByte(w) <= 8
      BY <2>2 DEF PlaceOfByte, EndOfByte
    <3> QED BY <3>1, <3>2
  <2> QED BY <1>4, <2>1, <2>2
<1>18. Puts(pkt', pkt, byte, g, end, w - 8 * i)
  <2>1. Puts(WithByte(pkt, byte, at, w - 8 * i, w, a), pkt, byte, 8 * at + a, IF w < 8 THEN w ELSE 8, w - 8 * i)
    BY <1>4, <1>6, <1>8, <1>9, <1>14, <1>15, ByteIsPut
  <2> QED BY <1>13, <1>17, <2>1 DEF EndOfByte
<1>19. g >= begin
  BY <1>4, <1>9, <1>10, <1>17 DEF PlaceOfByte
<1>20. \A x \in 1 .. room : x <= g \/ x > g + 8 => pkt'[x] = pkt[x]
  BY <1>6, <1>18 DEF Puts
<1>21. ASSUME NEW b \in 0 .. w - 1, IsWritten(w, b) PROVE pkt'[begin + w - b] = pkt[begin + w - b]
  <2>1. PICK x \in Int : x = begin + w - b
    BY <1>4
  <2>2. x \in 1 .. room
    <3>1. begin + w <= room
      BY <1>6
    <3> QED BY <2>1, <3>1
  <2>3. x <= g \/ x > g + 8
    <3>1. IF w > 64 THEN b < 8 * i ELSE b >= w - 8 * i
      BY <1>9, <1>21 DEF IsWritten
    <3>2. g = IF w > 64 THEN begin + w - 8 * (i + 1) ELSE begin + 8 * i
      BY <1>17 DEF PlaceOfByte
    <3> QED BY <2>1, <3>1, <3>2
  <2> QED BY <1>20, <2>1, <2>2, <2>3
<1>22. ASSUME HoldsInMemory(Out, f), NEW b \in 0 .. w - 1, IsWritten(w, b)', ~IsWritten(w, b)
       PROVE  pkt'[begin + w - b] = meant[Out][f][b]
  <2>1. written' = i + 1
    BY <1>9 DEF EmitByte
  <2>2. IF w > 64 THEN 8 * i <= b /\ b < 8 * (i + 1) ELSE w - 8 * (i + 1) <= b /\ b < w - 8 * i
    BY <1>4, <1>9, <1>22, <2>1 DEF IsWritten
  <2>3. PICK j \in 0 .. end - 1 :
          /\ end - j <= w - 8 * i /\ j \in 0 .. 7 /\ BitOf(w, i, j) = b
          /\ g + end - j = begin + w - b
    <3>1. InByte(w, i, begin, b)
      BY <1>9, <1>10, <2>2, BitOfByte
    <3> QED BY <1>17, <3>1 DEF InByte
  <2>4. begin + w - b \in 1 .. room
    <3>1. begin + w <= room
      BY <1>6
    <3> QED BY <3>1
  <2>5. pkt'[g + end - j] = byte[j]
    BY <1>6, <1>18, <2>3, <2>4 DEF Puts
  <2> QED BY <1>16, <1>22, <2>3, <2>5
<1>23. \A x \in 1 .. begin : x \in 1 .. room /\ x <= g
  BY <1>6, <1>19, <1>4
<1> QED BY <1>6, <1>20, <1>21, <1>22, <1>23

-----------------------------------------------------------------------------
(* What fields hold.                                                       *)

LEMMA ScalarFieldNarrow ==
  ASSUME NEW w \in 1 .. 7, NEW a \in 0 .. 7
  PROVE  \A b \in w .. 7 : ScalarField(w, a)[b] = Zero
<1>1. PICK load \in 8 .. 64 : load = LoadBits(w, a) /\ load >= a + w /\ CBits(w) = 8
  <2>1. (w + a - 1) \div 8 + 1 \in 1 .. 2 /\ (w + a > 8 => (w + a - 1) \div 8 + 1 = 2)
    OBVIOUS
  <2>2. LoadBits(w, a) \in {8, 16} /\ (w + a > 8 => LoadBits(w, a) = 16)
    BY <2>1 DEF LoadBits, Rounded
  <2> QED BY <2>2 DEF CBits, Rounded
<1>2. ~Undefined(w, a)
  BY <1>1 DEF Undefined
<1>3. PICK word : word = ShiftRight(Load(0, load), load - a - w)
  OBVIOUS
<1>4. ScalarField(w, a) = Cast(LowBits(word, w), 8)
  BY <1>1, <1>2, <1>3 DEF ScalarField
<1>5. \A b \in w .. 7 : b \in 0 .. 7 /\ ~(b < w)
  OBVIOUS
<1>6. DOMAIN LowBits(word, w) = DOMAIN word /\ \A b \in DOMAIN word : ~(b < w) => LowBits(word, w)[b] = Zero
  BY DEF LowBits
<1>7. \A b \in 0 .. 7 : Cast(LowBits(word, w), 8)[b] =
                          IF b \in DOMAIN LowBits(word, w) THEN LowBits(word, w)[b] ELSE Zero
  BY DEF Cast
<1> QED BY <1>4, <1>5, <1>6, <1>7

\* The C object of a field that the control block sets holds its bits and zeros.
LEMMA SetHolds ==
  ASSUME prog \in Programs, NEW h \in DOMAIN prog.headers, NEW k \in DOMAIN prog.headers[h]
  PROVE  /\ \A b \in 0 .. prog.headers[h][k] - 1 : Set(h, k)[b] = FieldBits(h, k)[b]
         /\ \A b \in prog.headers[h][k] .. 7 : Set(h, k)[b] = Zero
<1>1. PICK w \in Nat, c \in Nat : w = prog.headers[h][k] /\ c = CBits(w) /\ w <= c /\ c >= 8
  BY FieldIs, CBitsProperties
<1>2. DOMAIN FieldBits(h, k) = 0 .. w - 1
  BY <1>1 DEF FieldBits
<1>3. \A b \in 0 .. c - 1 : Set(h, k)[b] = IF b \in 0 .. w - 1 THEN FieldBits(h, k)[b] ELSE Zero
  BY <1>1, <1>2, Zenon DEF Set, Cast
<1>4. \A b \in 0 .. w - 1 : b \in 0 .. c - 1
  BY <1>1
<1>5. \A b \in w .. 7 : b \in 0 .. c - 1 /\ b \notin 0 .. w - 1
  BY <1>1
<1> QED BY <1>1, <1>3, <1>4, <1>5

\* The only fields that StartField changes.
LEMMA StartFieldSets ==
  ASSUME TypeOK, Position, StartField
  PROVE  /\ Out \in DOMAIN prog.headers /\ f \in DOMAIN prog.headers[Out] /\ n \in DOMAIN prog.emit
         /\ SetTo(hdr', Out, f, InMemory(Out, f))
<1>1. /\ Out \in DOMAIN prog.headers /\ n \in 1 .. Len(prog.emit) /\ f \in 1 .. Len(prog.headers[Out])
      /\ DOMAIN prog.headers[Out] = 1 .. Len(prog.headers[Out])
  BY Writing DEF StartField
<1>2. n \in DOMAIN prog.emit /\ HeadersOK(hdr)
  BY <1>1, ProgramIs, TypeParts DEF TypeOK
<1>3. PICK x : x = InMemory(Out, f)
  OBVIOUS
<1>4. DOMAIN x = 0 .. CBits(prog.headers[Out][f]) - 1
  BY <1>1, <1>2, <1>3, InMemoryType DEF HeadersOK
<1>5. hdr' = [hdr EXCEPT ![Out][f] = x]
  BY <1>3 DEF StartField
<1>6. SetTo(hdr', Out, f, x)
  BY <1>1, <1>2, <1>4, <1>5, SetField
<1> QED BY <1>1, <1>2, <1>3, <1>6

LEMMA NarrowInit ==
  ASSUME Init PROVE NarrowFields
<1> SUFFICES ASSUME NEW h \in DOMAIN prog.headers, NEW k \in DOMAIN prog.headers[h],
                    NEW b \in prog.headers[h][k] .. 7
             PROVE  hdr[h][k][b] = Zero
  BY DEF NarrowFields
<1>1. PICK w \in Nat, c \in Nat : w = prog.headers[h][k] /\ c = CBits(w) /\ w <= c /\ c >= 8
  BY FieldIs, CBitsProperties DEF Init
<1>2. hdr[h][k] = Fill(Zero, c) /\ b \in 0 .. c - 1
  BY <1>1 DEF Init
<1> QED BY <1>2 DEF Fill

LEMMA NarrowStep ==
  ASSUME TypeOK, Cursor, Position, NarrowFields, Next PROVE NarrowFields'
<1>1. prog \in Programs /\ HeadersOK(hdr) /\ OrderOK(order)
  BY TypeParts
<1>2. prog' = prog
  BY DEF Next, CheckLength, ExtractField, Extracted, Advance, Verify, LastTransition, Control, ResizeBuffer,
     SkipHeader, EmitHeader, StartField, EmitByte, FieldEmitted, HeaderEmitted, Deparsed
<1> SUFFICES ASSUME NEW h \in DOMAIN prog.headers, NEW k \in DOMAIN prog.headers[h],
                    NEW b \in prog.headers[h][k] .. 7
             PROVE  hdr'[h][k][b] = Zero
  BY <1>2 DEF NarrowFields
<1>3. hdr[h][k][b] = Zero
  BY DEF NarrowFields
<1>4. CASE ExtractField
  <2>1. /\ Call.arg \in DOMAIN prog.headers /\ Widths = prog.headers[Call.arg]
        /\ f \in 1 .. Len(Widths) /\ f \in DOMAIN prog.headers[Call.arg]
    BY <1>4, Reading DEF ExtractField
  <2>2. PICK w \in Nat, a \in 0 .. 7 : w = Widths[f] /\ w > 0 /\ a = AlignmentOf(Call.arg, f)
    BY <1>1, <2>1, FieldIs
  <2>3. PICK x : x = (IF w <= 64 THEN ScalarField(w, a) ELSE WideField(w, a))
    OBVIOUS
  <2>4. DOMAIN x = 0 .. CBits(w) - 1
    BY <2>2, <2>3, ScalarFieldType, WideFieldType
  <2>5. hdr' = [hdr EXCEPT ![Call.arg][f] = x] /\ DOMAIN x = 0 .. CBits(prog.headers[Call.arg][f]) - 1
    BY <1>4, <2>1, <2>2, <2>3, <2>4, Zenon DEF ExtractField
  <2>6. SetTo(hdr', Call.arg, f, x)
    BY <1>1, <2>1, <2>5, SetField
  <2>7. CASE h = Call.arg /\ k = f
    <3>1. w \in 1 .. 7 /\ b \in w .. 7
      BY <2>1, <2>2, <2>7, SMTT(30)
    <3>2. x[b] = Zero
      BY <2>3, <3>1, ScalarFieldNarrow
    <3> QED BY <2>6, <2>7, <3>2 DEF SetTo
  <2>8. CASE h # Call.arg \/ k # f
    BY <1>3, <2>6, <2>8 DEF SetTo
  <2> QED BY <2>7, <2>8
<1>5. CASE Control
  <2>3. prog.headers[h][k] \in Nat /\ ~(prog.headers[h][k] > 64)
    BY <1>1, FieldIs
  <2>1. hdr'[h][k] = Set(h, k) \/ hdr'[h][k] = hdr[h][k]
    BY <1>1, <1>5, <2>3, ControlSets
  <2>2. Set(h, k)[b] = Zero
    BY <1>1, SetHolds
  <2> QED BY <1>3, <2>1, <2>2
<1>6. CASE StartField
  <2>1. SetTo(hdr', Out, f, InMemory(Out, f))
    BY <1>6, StartFieldSets
  <2>2. CASE h = Out /\ k = f
    <3>1. ~(prog.headers[h][k] > 8)
      BY <1>1, FieldIs
    <3>2. InMemory(h, k) = hdr[h][k]
      BY <3>1 DEF InMemory
    <3> QED BY <1>3, <2>1, <2>2, <3>2 DEF SetTo
  <2>3. CASE h # Out \/ k # f
    BY <1>3, <2>1, <2>3 DEF SetTo
  <2> QED BY <2>2, <2>3
<1>7. CASE ~ExtractField /\ ~Control /\ ~StartField
  <2>1. hdr' = hdr
    BY <1>7 DEF Next, CheckLength, Extracted, Advance, Verify, LastTransition, ResizeBuffer,
       SkipHeader, EmitHeader, EmitByte, FieldEmitted, HeaderEmitted, Deparsed
  <2> QED BY <1>3, <2>1
<1> QED BY <1>4, <1>5, <1>6, <1>7

LEMMA RoomStep ==
  ASSUME TypeOK, TypeOK', Position, Room, Next PROVE Room'
<1>0. prog' = prog
  BY DEF Next, CheckLength, ExtractField, Extracted, Advance, Verify, LastTransition, Control, ResizeBuffer,
     SkipHeader, EmitHeader, StartField, EmitByte, FieldEmitted, HeaderEmitted, Deparsed
<1> SUFFICES ASSUME WholeBytes PROVE Room'
  BY <1>0, WholeBytesStays DEF Room
<1>1. prog \in Programs /\ Len(pkt) \in Nat /\ Len(pkt) % 8 = 0 /\ Len(pkt') \in Nat
  BY DEF TypeOK
<1>2. UNCHANGED <<prog, valid>> => \A e : WrittenTo(e)' = WrittenTo(e)
  BY DEF WrittenTo, Lengths
<1>3. pc' \notin {"emit", "fields", "bytes"} => Room'
  BY DEF Room
<1>4. CASE \/ CheckLength \/ ExtractField \/ Extracted \/ Advance \/ Verify \/ LastTransition \/ Control \/ Deparsed
  BY <1>3, <1>4 DEF CheckLength, ExtractField, Extracted, Advance, Verify, LastTransition, Control,
     Deparsed, Rejected
<1>5. CASE ResizeBuffer
  BY <1>1, <1>3, <1>5 DEF ResizeBuffer, Room
<1>6. CASE SkipHeader
  BY <1>6 DEF SkipHeader, Room
<1>7. CASE EmitHeader
  <2>1. /\ pc = "emit" /\ n \in 1 .. Len(prog.emit) /\ Out = prog.emit[n] /\ valid[Out] /\ offset = WrittenTo(n)
        /\ UNCHANGED <<prog, valid, n, pkt>> /\ pc' \in {"fields", "dropped"}
    BY <1>7 DEF EmitHeader, Position, Out
  <2>2. /\ WrittenTo(n + 1) = offset + Width(prog.headers[Out])
        /\ WrittenTo(n + 1) \in Nat /\ WrittenTo(n + 1) % 8 = 0
    <3>1. n + 1 \in 1 .. Len(prog.emit) + 1
      BY <1>1, <2>1, ProgramIs
    <3> QED BY <1>1, <2>1, <3>1, WrittenToSteps
  <2>3. SUFFICES ASSUME pc' = "fields" PROVE WrittenTo(n + 1) <= Len(pkt)
    <3>1. WrittenTo(n + 1)' = WrittenTo(n + 1)
      BY <1>2, <2>1
    <3> QED BY <1>3, <2>1, <3>1 DEF Room
  <2>4. PICK end \in Nat, len \in Nat : end = WrittenTo(n + 1) /\ end % 8 = 0 /\ len = Len(pkt) /\ len % 8 = 0
    BY <1>1, <2>2
  <2>5. ~(len \div 8 < end \div 8)
    BY <1>7, <2>2, <2>3, <2>4 DEF EmitHeader, PacketBytes, Bytes
  <2>6. end <= len
    BY <2>4, <2>5
  <2> QED BY <2>4, <2>6
<1>8. CASE StartField \/ FieldEmitted
  <2>1. UNCHANGED <<prog, valid, n, pkt>> /\ pc \in {"fields", "bytes"} /\ pc' \in {"fields", "bytes"}
    BY <1>8 DEF StartField, FieldEmitted
  <2>2. WrittenTo(n + 1)' = WrittenTo(n + 1)
    BY <1>2, <2>1
  <2> QED BY <2>1, <2>2 DEF Room
<1>9. CASE EmitByte
  <2>1. UNCHANGED <<prog, valid, n, pc>> /\ pc = "bytes"
    BY <1>9 DEF EmitByte
  <2>2. WrittenTo(n + 1)' = WrittenTo(n + 1)
    BY <1>2, <2>1
  <2>3. Len(pkt') = Len(pkt)
    <3>1. PICK byte, at, left, w, a : pkt' = WithByte(pkt, byte, at, left, w, a)
      BY <1>9, Zenon DEF EmitByte
    <3>2. DOMAIN pkt' = DOMAIN pkt
      BY <3>1, WithByteType
    <3>3. DOMAIN pkt' = 1 .. Len(pkt)
      BY <3>2 DEF TypeOK
    <3> QED BY <1>1, <3>3
  <2> QED BY <2>1, <2>2, <2>3 DEF Room
<1>10. CASE HeaderEmitted
  <2>1. /\ pc = "fields" /\ pc' = "emit" /\ UNCHANGED <<offset, pkt>> /\ f = Len(prog.headers[Out]) + 1
    BY <1>10 DEF HeaderEmitted
  <2>2. /\ Out \in DOMAIN prog.headers /\ offset = WrittenTo(n) + StartOf(Out, f)
        /\ WrittenTo(n + 1) = WrittenTo(n) + Width(prog.headers[Out])
    BY <2>1, Writing
  <2>3. offset = WrittenTo(n + 1)
    BY <1>1, <2>1, <2>2, LastFieldEnds
  <2> QED BY <2>1, <2>3 DEF Room
<1> QED BY <1>4, <1>5, <1>6, <1>7, <1>8, <1>9, <1>10 DEF Next

\* The control block knows what the fields mean that it leaves, copies or sets.
LEMMA ControlHolds ==
  ASSUME TypeOK, Control, NEW h \in DOMAIN prog.headers, NEW k \in DOMAIN prog.headers[h],
         order'[h][k] = "least"
  PROVE  Holds(h, k)'
<1>1. prog \in Programs /\ HeadersOK(hdr) /\ OrderOK(order) /\ prog' = prog
  BY TypeParts DEF Control
<1>2. PICK w \in Nat, c \in Nat : w = prog.headers[h][k] /\ c = CBits(w) /\ w <= c
  BY <1>1, FieldIs, CBitsProperties
<1>3. SUFFICES ASSUME NEW b \in 0 .. w - 1 PROVE hdr'[h][k][b] = meant'[h][k][b]
  BY <1>1, <1>2 DEF Holds
<1>4. CASE hdr'[h][k] = Set(h, k) /\ meant'[h][k] = FieldBits(h, k)
  BY <1>1, <1>2, <1>4, SetHolds
<1>5. ASSUME NEW g \in DOMAIN prog.headers, NEW l \in DOMAIN prog.headers[g],
             prog.headers[g][l] = w, hdr'[h][k] = hdr[g][l], order'[h][k] = order[g][l],
             meant'[h][k] = Value(g, l)
      PROVE  hdr'[h][k][b] = meant'[h][k][b]
  <2>1. DOMAIN hdr[g][l] = 0 .. c - 1 /\ b \in 0 .. c - 1
    BY <1>1, <1>2, <1>5 DEF HeadersOK
  <2>2. Value(g, l) = Cast(hdr[g][l], w)
    BY <1>5 DEF Value
  <2>3. Cast(hdr[g][l], w)[b] = hdr[g][l][b]
    BY <2>1 DEF Cast
  <2> QED BY <1>5, <2>2, <2>3
<1> QED BY <1>1, <1>2, <1>4, <1>5, ControlSets

\* Shifted to the upper end of its type and swapped, a field has its bits in the order in
\* which they are written.
LEMMA SwappedField ==
  ASSUME NEW w \in 9 .. 64, NEW word, DOMAIN word = 0 .. CBits(w) - 1,
         NEW i \in Nat, i < (w + 7) \div 8, NEW j \in 0 .. 7, w - 8 * (i + 1) + j \in 0 .. w - 1
  PROVE  Swap(ShiftLeft(word, CBits(w) - w), CBits(w) \div 8)[8 * i + j] = word[w - 8 * (i + 1) + j]
<1>1. PICK c \in Nat, bytes \in Nat : c = CBits(w) /\ c = 8 * bytes /\ bytes = c \div 8 /\ w <= c
  <2>1. CBits(w) \in {16, 32, 64} /\ w <= CBits(w)
    BY DEF CBits, Rounded
  <2>2. \A x \in {16, 32, 64} : x \in Nat /\ x = 8 * (x \div 8) /\ x \div 8 \in Nat
    OBVIOUS
  <2> QED BY <2>1, <2>2
<1>2. PICK shifted : shifted = ShiftLeft(word, c - w)
  OBVIOUS
<1>3. PICK x \in Nat : x = 8 * i + j /\ x \in 0 .. c - 1
  BY <1>1
<1>4. PICK b \in Nat : b = 8 * (bytes - 1 - i) + j /\ b \in 0 .. c - 1 /\ b - (c - w) = w - 8 * (i + 1) + j
  BY <1>1
<1>5. DOMAIN shifted = 0 .. c - 1 /\ shifted[b] = word[b - (c - w)]
  <2>1. b - (c - w) \in 0 .. c - 1
    BY <1>1, <1>4
  <2> QED BY <1>1, <1>2, <1>4, <2>1 DEF ShiftLeft
<1>6. x \div 8 = i /\ x % 8 = j
  BY <1>3
<1>7. Swap(shifted, bytes)[x] = shifted[8 * (bytes - 1 - (x \div 8)) + (x % 8)]
  BY <1>3, <1>5 DEF Swap
<1> QED BY <1>1, <1>2, <1>3, <1>4, <1>5, <1>6, <1>7

LEMMA InMemoryHolds ==
  ASSUME prog \in Programs, HeadersOK(hdr), NEW h \in DOMAIN prog.headers, NEW k \in DOMAIN prog.headers[h],
         Holds(h, k), NEW w \in Nat, w = prog.headers[h][k],
         NEW i \in 0 .. (w + 7) \div 8 - 1, NEW j \in 0 .. 7, BitOf(w, i, j) \in 0 .. w - 1
  PROVE  InMemory(h, k)[8 * i + j] = meant[h][k][BitOf(w, i, j)]
<1>1. DOMAIN hdr[h][k] = 0 .. CBits(w) - 1
  BY DEF HeadersOK
<1>2. hdr[h][k][BitOf(w, i, j)] = meant[h][k][BitOf(w, i, j)]
  BY DEF Holds
<1>3. CASE FromLowest(w)
  <2>1. InMemory(h, k) = hdr[h][k]
    BY <1>3 DEF InMemory, FromLowest
  <2>2. BitOf(w, i, j) = 8 * i + j
    BY <1>3 DEF BitOf
  <2> QED BY <1>2, <2>1, <2>2
<1>4. CASE ~FromLowest(w)
  <2>1. InMemory(h, k) = Swap(ShiftLeft(hdr[h][k], CBits(w) - w), CBits(w) \div 8)
    BY <1>4 DEF InMemory, FromLowest
  <2>2. BitOf(w, i, j) = w - 8 * (i + 1) + j
    BY <1>4 DEF BitOf
  <2>3. w \in 9 .. 64 /\ i \in Nat /\ i < (w + 7) \div 8
    BY <1>4 DEF FromLowest
  <2>4. w - 8 * (i + 1) + j \in 0 .. w - 1
    BY <2>2, Zenon
  <2>5. Swap(ShiftLeft(hdr[h][k], CBits(w) - w), CBits(w) \div 8)[8 * i + j] = hdr[h][k][w - 8 * (i + 1) + j]
    BY <1>1, <2>3, <2>4, SwappedField, Zenon
  <2> QED BY <1>2, <2>1, <2>2, <2>5, Zenon
<1> QED BY <1>3, <1>4

LEMMA ValuesStep ==
  ASSUME TypeOK, Position, Values, Next PROVE Values'
<1>1. prog \in Programs /\ HeadersOK(hdr) /\ n \in Nat /\ f \in Nat
  BY TypeParts DEF TypeOK
<1>2. prog' = prog
  BY DEF Next, CheckLength, ExtractField, Extracted, Advance, Verify, LastTransition, Control, ResizeBuffer,
     SkipHeader, EmitHeader, StartField, EmitByte, FieldEmitted, HeaderEmitted, Deparsed
<1> SUFFICES ASSUME IsInjective(prog.emit)
             PROVE  /\ \A e, k : ToSend(e, k)' => Holds(prog.emit[e], k)'
                    /\ pc' = "bytes" /\ order'[Out'][f'] = "least" => HoldsInMemory(Out, f)'
  BY <1>2 DEF Values
<1>3. \A e, k : ToSend(e, k) => Holds(prog.emit[e], k)
  BY DEF Values
<1>4. \A e, k : ToSend(e, k)' => /\ e \in DOMAIN prog.emit /\ e \in Nat /\ prog.emit[e] \in DOMAIN prog.headers
                                 /\ k \in FieldsOf(prog.emit[e]) /\ k \in DOMAIN prog.headers[prog.emit[e]]
                                 /\ k \in Nat
  <2> SUFFICES ASSUME NEW e, NEW k, ToSend(e, k)'
               PROVE  /\ e \in DOMAIN prog.emit /\ e \in Nat /\ prog.emit[e] \in DOMAIN prog.headers
                      /\ k \in FieldsOf(prog.emit[e]) /\ k \in DOMAIN prog.headers[prog.emit[e]]
                      /\ k \in Nat
    OBVIOUS
  <2>1. e \in DOMAIN prog.emit /\ k \in FieldsOf(prog.emit[e])
    BY <1>2 DEF ToSend, FieldsOf
  <2>2. e \in 1 .. Len(prog.emit) /\ prog.emit[e] \in DOMAIN prog.headers /\ Len(prog.emit) \in Nat
    BY <1>1, <2>1, ProgramIs
  <2>3. k \in 1 .. Len(prog.headers[prog.emit[e]]) /\ k \in DOMAIN prog.headers[prog.emit[e]]
    BY <1>1, <2>1, <2>2, ProgramIs DEF FieldsOf
  <2> QED BY <2>1, <2>2, <2>3
<1>5. UNCHANGED <<hdr, meant>> => \A h, k : (Holds(h, k) => Holds(h, k)') /\ (HoldsInMemory(h, k) => HoldsInMemory(h, k)')
  BY <1>2, SMTT(30) DEF Holds, HoldsInMemory
<1>6. pc' \notin {"resize", "emit", "fields", "bytes"} => \A e, k : ~ToSend(e, k)'
  BY DEF ToSend
<1>7. CASE CheckLength \/ ExtractField \/ Extracted \/ Advance \/ Verify \/ LastTransition \/ Deparsed
  <2>1. pc' \notin {"resize", "emit", "fields", "bytes"}
    BY <1>7 DEF CheckLength, ExtractField, Extracted, Advance, Verify, LastTransition, Deparsed, Rejected
  <2> QED BY <1>6, <2>1
<1>8. CASE Control
  <2>1. pc' = "resize"
    BY <1>8 DEF Control
  <2>2. \A h \in DOMAIN prog.headers : \A k \in DOMAIN prog.headers[h] :
          order'[h][k] = "least" => Holds(h, k)'
    BY <1>8, ControlHolds
  <2>3. ASSUME NEW e, NEW k, ToSend(e, k)' PROVE Holds(prog.emit[e], k)'
    <3>1. PICK h \in DOMAIN prog.headers :
            h = prog.emit[e] /\ k \in DOMAIN prog.headers[h] /\ order'[h][k] = "least"
      BY <1>2, <1>4, <2>3 DEF ToSend
    <3>2. Holds(h, k)'
      BY <2>2, <3>1
    <3> QED BY <1>2, <3>1, <3>2 DEF Holds
  <2> QED BY <2>1, <2>3
<1>9. CASE ResizeBuffer \/ SkipHeader \/ EmitHeader \/ FieldEmitted \/ HeaderEmitted
  <2>1. UNCHANGED <<hdr, order, meant>> /\ pc' # "bytes"
    BY <1>9 DEF ResizeBuffer, SkipHeader, EmitHeader, FieldEmitted, HeaderEmitted
  <2>2. \A e, k : ToSend(e, k)' => ToSend(e, k)
    <3> SUFFICES ASSUME NEW e, NEW k, ToSend(e, k)' PROVE ToSend(e, k)
      OBVIOUS
    <3>1. /\ e \in DOMAIN prog.emit /\ k \in FieldsOf(prog.emit[e]) /\ e \in Nat /\ k \in Nat
          /\ order[prog.emit[e]][k] = "least"
      BY <1>2, <1>4, <2>1 DEF ToSend
    <3>2. CASE ResizeBuffer
      BY <3>1, <3>2 DEF ResizeBuffer, ToSend
    <3>3. CASE SkipHeader
      BY <1>1, <3>1, <3>3 DEF SkipHeader, ToSend
    <3>4. CASE EmitHeader
      BY <1>1, <3>1, <3>4 DEF EmitHeader, ToSend
    <3>5. CASE FieldEmitted
      BY <1>1, <3>1, <3>5 DEF FieldEmitted, ToSend
    <3>6. CASE HeaderEmitted
      BY <1>1, <3>1, <3>6 DEF HeaderEmitted, ToSend
    <3> QED BY <1>9, <3>2, <3>3, <3>4, <3>5, <3>6
  <2> QED BY <1>2, <1>3, <1>5, <2>1, <2>2
<1>10. CASE EmitByte
  <2>1. UNCHANGED <<hdr, order, meant, pc, n, f, prog>> /\ pc = "bytes"
    BY <1>10 DEF EmitByte
  <2>2. \A e, k : ToSend(e, k)' => ToSend(e, k)
    BY <2>1 DEF ToSend, FieldsOf
  <2>3. order[Out][f] = "least" => HoldsInMemory(Out, f)
    BY <2>1 DEF Values
  <2>4. Out' = Out /\ (HoldsInMemory(Out, f) => HoldsInMemory(Out, f)')
    BY <2>1 DEF HoldsInMemory, Out
  <2> QED BY <1>2, <1>3, <1>5, <2>1, <2>2, <2>3, <2>4
<1>11. CASE StartField
  <2>1. /\ Out \in DOMAIN prog.headers /\ f \in DOMAIN prog.headers[Out] /\ n \in DOMAIN prog.emit
        /\ SetTo(hdr', Out, f, InMemory(Out, f)) /\ Out = prog.emit[n]
    BY <1>11, StartFieldSets DEF Out
  <2>2. UNCHANGED <<order, meant, n, f, prog>> /\ pc = "fields" /\ pc' = "bytes"
    BY <1>11 DEF StartField
  <2>3. ASSUME NEW e, NEW k, ToSend(e, k)' PROVE Holds(prog.emit[e], k)'
    <3>1. /\ e \in DOMAIN prog.emit /\ e \in Nat /\ prog.emit[e] \in DOMAIN prog.headers
          /\ k \in FieldsOf(prog.emit[e]) /\ k \in DOMAIN prog.headers[prog.emit[e]] /\ k \in Nat
      BY <1>4, <2>3
    <3>2. e > n \/ (e = n /\ k > f)
      BY <2>2, <2>3 DEF ToSend
    <3>6. order[prog.emit[e]][k] = "least"
      BY <2>2, <2>3 DEF ToSend
    <3>3. ToSend(e, k)
      BY <1>1, <2>2, <3>1, <3>2, <3>6 DEF ToSend
    <3>4. prog.emit[e] # Out \/ k # f
      BY <1>1, <2>1, <3>1, <3>2 DEF IsInjective
    <3>5. hdr'[prog.emit[e]][k] = hdr[prog.emit[e]][k]
      BY <2>1, <3>1, <3>4 DEF SetTo
    <3> QED BY <1>3, <2>2, <3>3, <3>5 DEF Holds
  <2>9. SUFFICES ASSUME order[Out][f] = "least" PROVE HoldsInMemory(Out, f)'
    BY <2>1, <2>2, <2>3 DEF Out
  <2>4. Holds(Out, f)
    <3>1. ToSend(n, f)
      BY <1>1, <2>1, <2>2, <2>9 DEF ToSend, FieldsOf
    <3> QED BY <1>3, <2>1, <3>1
  <2>5. PICK w \in Nat : w = prog.headers[Out][f]
    BY <1>1, <2>1, FieldIs
  <2>6. \A i \in 0 .. (w + 7) \div 8 - 1 : \A j \in 0 .. 7 :
          BitOf(w, i, j) \in 0 .. w - 1 => InMemory(Out, f)[8 * i + j] = meant[Out][f][BitOf(w, i, j)]
    BY <1>1, <2>1, <2>4, <2>5, InMemoryHolds
  <2>7. hdr'[Out][f] = InMemory(Out, f) /\ Out' = Out
    BY <2>1, <2>2 DEF SetTo, Out
  <2> QED BY <2>2, <2>5, <2>6, <2>7 DEF HoldsInMemory
<1> QED BY <1>7, <1>8, <1>9, <1>10, <1>11 DEF Next

-----------------------------------------------------------------------------
(* What is written.                                                        *)

LEMMA EmitsFieldsStays ==
  ASSUME UNCHANGED prog PROVE EmitsFields' <=> EmitsFields
<1>1. \A h, k : AlignmentOf(h, k)' = AlignmentOf(h, k)
  BY DEF AlignmentOf, StartOf
<1> QED BY <1>1 DEF EmitsFields, FieldsOf

LEMMA WrittenStays ==
  ASSUME UNCHANGED <<prog, valid, pkt, meant>>
  PROVE  \A e, k : FieldWritten(e, k) => FieldWritten(e, k)'
<1>1. \A e : WrittenTo(e)' = WrittenTo(e)
  BY DEF WrittenTo, Lengths
<1>2. \A h, k : StartOf(h, k)' = StartOf(h, k)
  BY DEF StartOf
<1> QED BY <1>1, <1>2 DEF FieldWritten

\* Headers and fields follow one another in the output.
LEMMA OutputGrows ==
  ASSUME prog \in Programs
  PROVE  \A d, e \in 1 .. Len(prog.emit) + 1 : d <= e => WrittenTo(d) <= WrittenTo(e)
<1>1. PICK s : s = Lengths
  OBVIOUS
<1>2. Len(prog.emit) \in Nat /\ DOMAIN prog.emit = 1 .. Len(prog.emit)
  BY ProgramIs
<1>3. \A e \in 1 .. Len(prog.emit) : Width(prog.headers[prog.emit[e]]) \in Nat
  BY ProgramIs, WidthProperties
<1>4. s \in Seq(Nat) /\ Len(s) = Len(prog.emit)
  BY <1>1, <1>2, <1>3 DEF Lengths
<1>5. \A e : WrittenTo(e) = SumTo(s)[e - 1]
  BY <1>1, Zenon DEF WrittenTo
<1> SUFFICES ASSUME NEW d \in 1 .. Len(prog.emit) + 1, NEW e \in 1 .. Len(prog.emit) + 1, d <= e
             PROVE  WrittenTo(d) <= WrittenTo(e)
  OBVIOUS
<1>6. d - 1 \in 0 .. Len(s) /\ e - 1 \in 0 .. Len(s) /\ d - 1 <= e - 1
  BY <1>2, <1>4
<1>7. SumTo(s)[d - 1] <= SumTo(s)[e - 1]
  BY <1>4, <1>6, SumToGrows
<1> QED BY <1>5, <1>7

LEMMA FieldsGrow ==
  ASSUME prog \in Programs, NEW h \in DOMAIN prog.headers
  PROVE  \A k, l \in 1 .. Len(prog.headers[h]) + 1 : k <= l => StartOf(h, k) <= StartOf(h, l)
<1>1. prog.headers[h] \in Layout /\ Len(prog.headers[h]) \in Nat
  BY ProgramIs
<1>2. PICK s \in Layout : s = prog.headers[h] /\ s \in Seq(Nat) /\ Len(s) \in Nat
  BY <1>1, LayoutIsSeq
<1>3. \A k : StartOf(h, k) = SumTo(s)[k - 1]
  BY <1>2 DEF StartOf
<1> SUFFICES ASSUME NEW k \in 1 .. Len(s) + 1, NEW l \in 1 .. Len(s) + 1, k <= l
             PROVE  StartOf(h, k) <= StartOf(h, l)
  BY <1>2
<1>4. k - 1 \in 0 .. Len(s) /\ l - 1 \in 0 .. Len(s) /\ k - 1 <= l - 1
  BY <1>2
<1>5. SumTo(s)[k - 1] <= SumTo(s)[l - 1]
  BY <1>2, <1>4, SumToGrows
<1> QED BY <1>3, <1>5

\* What is sent is in front of the cursor.
LEMMA SentBefore ==
  ASSUME TypeOK, Position, pc = "bytes", NEW e, NEW k, Sent(e, k)
  PROVE  \A b \in 0 .. prog.headers[prog.emit[e]][k] - 1 :
           WrittenTo(e) + StartOf(prog.emit[e], k) + prog.headers[prog.emit[e]][k] - b \in 1 .. offset
<1>1. prog \in Programs /\ n \in Nat /\ offset \in Nat
  BY DEF TypeOK
<1>2. /\ e \in 1 .. Len(prog.emit) /\ prog.emit[e] \in DOMAIN prog.headers /\ valid[prog.emit[e]]
      /\ k \in DOMAIN prog.headers[prog.emit[e]] /\ Len(prog.emit) \in Nat
  BY <1>1, ProgramIs DEF Sent, FieldsOf
<1>3. PICK h \in DOMAIN prog.headers : h = prog.emit[e] /\ k \in DOMAIN prog.headers[h]
  BY <1>2
<1>4. PICK w \in Nat, start \in Nat, width \in Nat :
        /\ w = prog.headers[h][k] /\ start = StartOf(h, k) /\ width = Width(prog.headers[h])
        /\ start + w <= width /\ StartOf(h, k + 1) = start + w
  BY <1>1, <1>3, FieldIs
<1>5. PICK from \in Nat : from = WrittenTo(e) /\ WrittenTo(e + 1) = from + width
  BY <1>1, <1>2, <1>3, <1>4, WrittenToSteps
<1>6. /\ n \in 1 .. Len(prog.emit) /\ Out \in DOMAIN prog.headers /\ Out = prog.emit[n]
      /\ f \in 1 .. Len(prog.headers[Out]) + 1 /\ offset = WrittenTo(n) + StartOf(Out, f)
      /\ WrittenTo(n) \in Nat /\ StartOf(Out, f) \in Nat
  BY Writing
<1>7. PICK to \in Nat, done \in Nat, cursor \in Nat :
        to = WrittenTo(n) /\ done = StartOf(Out, f) /\ cursor = offset /\ cursor = to + done
  BY <1>1, <1>6
<1>8. from + start + w <= cursor
  <2>1. CASE e < n
    <3>1. e + 1 \in 1 .. Len(prog.emit) + 1 /\ n \in 1 .. Len(prog.emit) + 1 /\ e + 1 <= n
      BY <1>2, <1>6, <2>1
    <3>2. WrittenTo(e + 1) <= WrittenTo(n)
      BY <1>1, <3>1, OutputGrows
    <3>3. from + width <= to
      BY <1>5, <1>7, <3>2
    <3> QED BY <1>4, <1>7, <3>3
  <2>2. CASE e = n /\ k < f
    <3>1. Out = h
      BY <1>3, <1>6, <2>2
    <3>2. k \in 1 .. Len(prog.headers[h]) /\ Len(prog.headers[h]) \in Nat
      BY <1>1, <1>3, ProgramIs
    <3>3. k + 1 \in 1 .. Len(prog.headers[h]) + 1 /\ f \in 1 .. Len(prog.headers[h]) + 1 /\ k + 1 <= f
      BY <1>6, <2>2, <3>1, <3>2
    <3>4. StartOf(h, k + 1) <= StartOf(h, f)
      BY <1>1, <3>3, FieldsGrow
    <3>5. start + w <= done
      BY <1>4, <1>7, <3>1, <3>4
    <3>6. from = to
      BY <1>5, <1>7, <2>2
    <3> QED BY <1>7, <3>5, <3>6
  <2> QED BY <2>1, <2>2 DEF Sent
<1>9. \A b \in 0 .. w - 1 : from + start + w - b \in 1 .. cursor
  BY <1>8
<1> QED BY <1>3, <1>4, <1>5, <1>7, <1>9

\* The last byte of a field makes it whole.
LEMMA WholeField ==
  ASSUME TypeOK, Position, EmitsFields, PartWritten, pc = "bytes", written = (prog.headers[Out][f] + 7) \div 8
  PROVE  FieldWritten(n, f)
<1>1. prog \in Programs
  BY DEF TypeOK
<1>2. /\ n \in 1 .. Len(prog.emit) /\ n \in DOMAIN prog.emit /\ Out = prog.emit[n] /\ Out \in DOMAIN prog.headers
      /\ f \in DOMAIN prog.headers[Out] /\ f \in FieldsOf(prog.emit[n])
      /\ WrittenTo(n) \in Nat /\ StartOf(Out, f) \in Nat /\ offset = WrittenTo(n) + StartOf(Out, f)
  BY <1>1, Writing, ProgramIs DEF Position, FieldsOf
<1>3. PICK w \in Nat : w = prog.headers[Out][f] /\ w > 0
  BY <1>1, <1>2, FieldIs
<1>4. w > 64 => w % 8 = 0
  <2>1. PICK a : a = AlignmentOf(Out, f)
    OBVIOUS
  <2>2. Emittable(w, a)
    BY <1>2, <1>3, <2>1 DEF EmitsFields
  <2> QED BY <1>3, <2>2 DEF Emittable
<1>5. PICK i \in Nat : i = written /\ i = (w + 7) \div 8
  BY <1>3
<1>6. \A b \in 0 .. w - 1 : IsWritten(w, b)
  BY <1>3, <1>4, <1>5 DEF IsWritten
<1>7. \A b \in 0 .. w - 1 : pkt[offset + w - b] = meant[Out][f][b]
  BY <1>3, <1>6 DEF PartWritten
<1> QED BY <1>2, <1>3, <1>7 DEF FieldWritten

\* The bytes of a field change nothing of what was sent before.
LEMMA EmitByteKeeps ==
  ASSUME TypeOK, Position, NarrowFields, Room, Values, WholeBytes, EmitsFields, IsInjective(prog.emit), EmitByte,
         order[Out][f] = "least" => PartWritten,
         \A e, k : Sent(e, k) => FieldWritten(e, k)
  PROVE  (\A e, k : Sent(e, k)' => FieldWritten(e, k)') /\ (order[Out][f] = "least" => PartWritten')
<1>1. UNCHANGED <<prog, pc, offset, n, f, hdr, order, valid, meant>> /\ pc = "bytes" /\ prog \in Programs
  BY DEF EmitByte, TypeOK
<1>2. order[Out][f] = "least" => HoldsInMemory(Out, f)
  BY <1>1 DEF Values
<1>3. Out \in DOMAIN prog.headers /\ f \in DOMAIN prog.headers[Out]
  BY <1>1, Writing, ProgramIs DEF Position
<1>4. PICK w \in Nat : w = prog.headers[Out][f]
  BY <1>1, <1>3, FieldIs
<1>5. /\ \A x \in 1 .. offset : pkt'[x] = pkt[x]
      /\ \A b \in 0 .. w - 1 : IsWritten(w, b) => pkt'[offset + w - b] = pkt[offset + w - b]
      /\ HoldsInMemory(Out, f) =>
           \A b \in 0 .. w - 1 :
             IsWritten(w, b)' /\ ~IsWritten(w, b) => pkt'[offset + w - b] = meant[Out][f][b]
  BY <1>4, EmitByteWrites
<1>6. ASSUME NEW e, NEW k, Sent(e, k)' PROVE FieldWritten(e, k)'
  <2>1. Sent(e, k)
    BY <1>1, <1>6 DEF Sent, FieldsOf
  <2>2. WrittenTo(e)' = WrittenTo(e) /\ \A h : StartOf(h, k)' = StartOf(h, k)
    BY <1>1 DEF WrittenTo, Lengths, StartOf
  <2>3. \A b \in 0 .. prog.headers[prog.emit[e]][k] - 1 :
          WrittenTo(e) + StartOf(prog.emit[e], k) + prog.headers[prog.emit[e]][k] - b \in 1 .. offset
    BY <1>1, <2>1, SentBefore
  <2>4. FieldWritten(e, k)
    BY <2>1
  <2> QED BY <1>1, <1>5, <2>2, <2>3, <2>4 DEF FieldWritten
<1>7. ASSUME order[Out][f] = "least" PROVE PartWritten'
  <2>1. \A b \in 0 .. w - 1 : IsWritten(w, b) => pkt[offset + w - b] = meant[Out][f][b]
    BY <1>4, <1>7 DEF PartWritten
  <2>2. \A b \in 0 .. w - 1 : IsWritten(w, b)' => pkt'[offset + w - b] = meant[Out][f][b]
    BY <1>2, <1>5, <1>7, <2>1
  <2>3. Out' = Out
    BY <1>1 DEF Out
  <2> QED BY <1>1, <1>4, <2>2, <2>3 DEF PartWritten, IsWritten
<1> QED BY <1>6, <1>7

LEMMA OutputStep ==
  ASSUME TypeOK, Position, NarrowFields, Room, Values, Output, Next PROVE Output'
<1>1. prog \in Programs /\ n \in Nat /\ f \in Nat
  BY DEF TypeOK
<1>2. prog' = prog
  BY DEF Next, CheckLength, ExtractField, Extracted, Advance, Verify, LastTransition, Control, ResizeBuffer,
     SkipHeader, EmitHeader, StartField, EmitByte, FieldEmitted, HeaderEmitted, Deparsed
<1> SUFFICES ASSUME WholeBytes, EmitsFields, IsInjective(prog.emit)
             PROVE  /\ \A e, k : Sent(e, k)' => FieldWritten(e, k)'
                    /\ pc' = "bytes" /\ order'[Out'][f'] = "least" => PartWritten'
  BY <1>2, EmitsFieldsStays, WholeBytesStays DEF Output
<1>3. /\ \A e, k : Sent(e, k) => FieldWritten(e, k)
      /\ pc = "bytes" /\ order[Out][f] = "least" => PartWritten
  BY DEF Output
<1>4. \A e, k : Sent(e, k)' => /\ e \in 1 .. Len(prog.emit) /\ e \in DOMAIN prog.emit /\ e \in Nat
                               /\ k \in FieldsOf(prog.emit[e]) /\ k \in 1 .. Len(prog.headers[prog.emit[e]])
                               /\ valid'[prog.emit[e]] /\ Len(prog.headers[prog.emit[e]]) \in Nat
  <2> SUFFICES ASSUME NEW e, NEW k, Sent(e, k)'
               PROVE  /\ e \in 1 .. Len(prog.emit) /\ e \in DOMAIN prog.emit /\ e \in Nat
                      /\ k \in FieldsOf(prog.emit[e]) /\ k \in 1 .. Len(prog.headers[prog.emit[e]])
                      /\ valid'[prog.emit[e]] /\ Len(prog.headers[prog.emit[e]]) \in Nat
    OBVIOUS
  <2>1. e \in DOMAIN prog.emit /\ k \in FieldsOf(prog.emit[e]) /\ valid'[prog.emit[e]]
    BY <1>2 DEF Sent, FieldsOf
  <2>2. e \in 1 .. Len(prog.emit) /\ prog.emit[e] \in DOMAIN prog.headers /\ Len(prog.emit) \in Nat
    BY <1>1, <2>1, ProgramIs
  <2>3. k \in 1 .. Len(prog.headers[prog.emit[e]]) /\ Len(prog.headers[prog.emit[e]]) \in Nat
    BY <1>1, <2>1, <2>2, ProgramIs DEF FieldsOf
  <2> QED BY <2>1, <2>2, <2>3
<1>5. UNCHANGED <<valid, pkt, meant>> => \A e, k : FieldWritten(e, k) => FieldWritten(e, k)'
  BY <1>2, WrittenStays
<1>6. CASE CheckLength \/ ExtractField \/ Extracted \/ Advance \/ Verify \/ LastTransition \/ Control
  <2>1. pc' \notin {"emit", "fields", "bytes", "done"}
    BY <1>6 DEF CheckLength, ExtractField, Extracted, Advance, Verify, LastTransition, Control, Rejected
  <2> QED BY <2>1 DEF Sent
<1>7. CASE ResizeBuffer
  <2>1. pc' \in {"emit", "dropped"} /\ n' = 1
    BY <1>7 DEF ResizeBuffer
  <2>2. \A e, k : ~Sent(e, k)'
    BY <1>4, <2>1 DEF Sent
  <2> QED BY <2>1, <2>2
<1>8. CASE EmitByte
  <2>1. pc = "bytes" /\ UNCHANGED <<order, n, f>>
    BY <1>8 DEF EmitByte
  <2>2. Out' = Out
    BY <1>2, <2>1 DEF Out
  <2> QED BY <1>3, <1>8, <2>1, <2>2, EmitByteKeeps
<1>9. CASE SkipHeader \/ EmitHeader \/ HeaderEmitted \/ Deparsed
  <2>1. UNCHANGED <<order, valid, pkt, meant>> /\ pc' # "bytes"
    BY <1>9 DEF SkipHeader, EmitHeader, HeaderEmitted, Deparsed
  <2>2. ASSUME NEW e, NEW k, Sent(e, k)' PROVE Sent(e, k)
    <3>1. /\ e \in 1 .. Len(prog.emit) /\ e \in DOMAIN prog.emit /\ e \in Nat
          /\ k \in FieldsOf(prog.emit[e]) /\ k \in 1 .. Len(prog.headers[prog.emit[e]]) /\ k \in Nat
          /\ valid[prog.emit[e]] /\ Len(prog.headers[prog.emit[e]]) \in Nat
          /\ order[prog.emit[e]][k] = "least"
      BY <1>2, <1>4, <2>1, <2>2 DEF Sent
    <3>2. CASE SkipHeader
      <4>1. e < n + 1 /\ ~valid[prog.emit[n]] /\ pc = "emit"
        BY <2>2, <3>2 DEF SkipHeader, Sent, Out
      <4>2. e < n
        BY <1>1, <3>1, <4>1
      <4> QED BY <3>1, <4>1, <4>2 DEF Sent
    <3>3. CASE EmitHeader
      <4>1. pc' \in {"fields", "dropped"} /\ n' = n /\ f' = 1 /\ pc = "emit"
        BY <3>3 DEF EmitHeader
      <4>2. e < n \/ k < 1
        BY <2>2, <4>1 DEF Sent
      <4> QED BY <3>1, <4>1, <4>2 DEF Sent
    <3>4. CASE HeaderEmitted
      <4>1. pc = "fields" /\ e < n + 1 /\ f = Len(prog.headers[Out]) + 1
        BY <2>2, <3>4 DEF HeaderEmitted, Sent
      <4>2. e < n \/ (e = n /\ k < f)
        <5>1. e = n => k < f
          BY <3>1, <4>1 DEF Out
        <5>2. e < n \/ e = n
          <6>1. e \in Nat /\ n \in Nat
            BY <1>1, <3>1
          <6>2. e < n + 1
            BY <4>1
          <6> QED BY <6>1, <6>2
        <5> QED BY <5>1, <5>2
      <4> QED BY <3>1, <4>1, <4>2 DEF Sent
    <3>5. CASE Deparsed
      <4>1. pc = "emit" /\ n = Len(prog.emit) + 1 /\ Len(prog.emit) \in Nat
        BY <1>1, <3>5, ProgramIs DEF Deparsed
      <4>2. e < n
        BY <3>1, <4>1
      <4> QED BY <3>1, <4>1, <4>2 DEF Sent
    <3> QED BY <1>9, <3>2, <3>3, <3>4, <3>5
  <2> QED BY <1>3, <1>5, <2>1, <2>2
<1>10. CASE StartField
  <2>1. UNCHANGED <<order, valid, pkt, meant, n, f>> /\ pc = "fields" /\ pc' = "bytes" /\ written' = 0
    BY <1>10 DEF StartField
  <2>2. \A e, k : Sent(e, k)' => Sent(e, k)
    BY <1>2, <2>1 DEF Sent, FieldsOf
  <2>3. Out \in DOMAIN prog.headers /\ f \in DOMAIN prog.headers[Out]
    BY <1>10, StartFieldSets
  <2>4. PICK w \in Nat : w = prog.headers[Out][f]
    BY <1>1, <2>3, FieldIs
  <2>5. \A b \in 0 .. w - 1 : ~IsWritten(w, b)'
    BY <2>1, <2>4 DEF IsWritten
  <2>6. PartWritten'
    <3>1. prog'.headers[Out'][f'] = w
      BY <1>2, <2>1, <2>4 DEF Out
    <3> QED BY <2>5, <3>1 DEF PartWritten, IsWritten
  <2> QED BY <1>3, <1>5, <2>1, <2>2, <2>6
<1>11. CASE FieldEmitted
  <2>1. /\ UNCHANGED <<order, valid, pkt, meant, n>> /\ pc = "bytes" /\ pc' = "fields" /\ f' = f + 1
        /\ written = (prog.headers[Out][f] + 7) \div 8
    BY <1>11 DEF FieldEmitted
  <2>2. order[prog.emit[n]][f] = "least" => FieldWritten(n, f)
    BY <1>3, <2>1, WholeField DEF Out
  <2>3. ASSUME NEW e, NEW k, Sent(e, k)' PROVE FieldWritten(e, k)
    <3>1. /\ e \in DOMAIN prog.emit /\ k \in FieldsOf(prog.emit[e]) /\ k \in Nat /\ valid[prog.emit[e]]
          /\ order[prog.emit[e]][k] = "least"
      BY <1>2, <1>4, <2>1, <2>3 DEF Sent
    <3>2. e < n \/ (e = n /\ k < f + 1)
      BY <2>1, <2>3 DEF Sent
    <3>3. CASE e = n /\ k = f
      BY <2>2, <3>1, <3>3
    <3>4. CASE e < n \/ (e = n /\ k < f)
      BY <1>3, <2>1, <3>1, <3>4 DEF Sent
    <3> QED BY <1>1, <3>1, <3>2, <3>3, <3>4
  <2> QED BY <1>5, <2>1, <2>3
<1> QED BY <1>6, <1>7, <1>8, <1>9, <1>10, <1>11 DEF Next

-----------------------------------------------------------------------------
(* The theorems.                                                           *)

LEMMA InitIInv ==
  ASSUME Init PROVE IInv
<1>1. Untouched /\ Position /\ Payload
  BY DEF Init, Untouched, Position, Payload
<1>2. ReadsInsidePacket
  BY DEF Init, ReadsInsidePacket
<1>3. FieldsRead
  BY DEF Init, FieldsRead
<1>4. Room /\ Values /\ Output
  BY DEF Init, Room, Values, ToSend, Output, Sent
<1> QED BY <1>1, <1>2, <1>3, <1>4, TypeInit, CursorInit, NarrowInit DEF IInv

LEMMA Stuttering ==
  ASSUME IInv, UNCHANGED vars PROVE IInv'
<1>1. TypeOK' /\ Untouched'
  BY DEF IInv, vars, TypeOK, Untouched, Received
<1>2. Cursor'
  BY PlacesStay, WholeBytesStays DEF IInv, vars, Cursor, Call, Widths, PacketBytes
<1>3. FieldsRead'
  <2>1. \A c, k : ReadsField(c, k) => ReadsField(c, k)'
    BY StaysRead DEF vars
  <2>2. \A c : (Reads(c)' <=> Reads(c)) /\ FieldsOf(prog.parse[c].arg)' = FieldsOf(prog.parse[c].arg)
    BY DEF vars, Reads, FieldsOf
  <2>3. \A c : LastRead(c)' => LastRead(c)
    BY <2>2 DEF vars, LastRead
  <2>4. \A c : ReadsFields(c) => ReadsFields(c)'
    BY <2>1, <2>2 DEF ReadsFields
  <2> QED BY <2>1, <2>2, <2>3, <2>4 DEF IInv, vars, FieldsRead
<1>4. ReadsInsidePacket'
  BY DEF IInv, vars, ReadsInsidePacket, StartOf, AlignmentOf
<1>5. Position'
  BY DEF IInv, vars, Position, WrittenTo, Lengths, StartOf, Out
<1>6. Payload'
  BY WholeBytesStays DEF IInv, vars, Payload, PayloadInPlace, Resizable, WideFieldsAreBytes, FieldsOf,
     outHeaderLength, Lengths
<1>7. NarrowFields'
  BY DEF IInv, vars, NarrowFields
<1>8. Room'
  BY WholeBytesStays DEF IInv, vars, Room, WrittenTo, Lengths
<1>9. Values'
  <2>1. \A e, k : ToSend(e, k)' => ToSend(e, k)
    BY DEF vars, ToSend, FieldsOf
  <2>2. \A e, k : Holds(prog.emit[e], k) => Holds(prog.emit[e], k)'
    BY DEF vars, Holds
  <2>3. HoldsInMemory(Out, f) => HoldsInMemory(Out, f)'
    BY DEF vars, HoldsInMemory, Out
  <2>4. order'[Out'][f'] = order[Out][f]
    BY DEF vars, Out
  <2> QED BY <2>1, <2>2, <2>3, <2>4 DEF IInv, vars, Values
<1>10. Output'
  <2>1. UNCHANGED <<prog, valid, pkt, meant>>
    BY DEF vars
  <2>2. \A e, k : FieldWritten(e, k) => FieldWritten(e, k)'
    BY <2>1, WrittenStays
  <2>3. /\ \A e, k : Sent(e, k)' => Sent(e, k)
        /\ PartWritten => PartWritten'
        /\ order'[Out'][f'] = order[Out][f] /\ pc' = pc
    BY DEF vars, Sent, FieldsOf, PartWritten, IsWritten, Out
  <2>4. (EmitsFields' => EmitsFields) /\ (WholeBytes' => WholeBytes)
    BY <2>1, EmitsFieldsStays, WholeBytesStays
  <2> QED BY <2>2, <2>3, <2>4 DEF IInv, vars, Output
<1> QED BY <1>1, <1>2, <1>3, <1>4, <1>5, <1>6, <1>7, <1>8, <1>9, <1>10 DEF IInv

\* Every C statement of the parser and the deparser keeps the inductive invariant.
THEOREM Invariance == Spec => []IInv
<1>1. IInv /\ [Next]_vars => IInv'
  <2>1. IInv /\ Next => TypeOK'
    BY TypeStep DEF IInv
  <2>2. IInv /\ Next => IInv'
    BY <2>1, CursorStep, UntouchedStep, FieldsReadStep, InsideStep, PositionStep, PayloadStep, NarrowStep,
       RoomStep, ValuesStep, OutputStep DEF IInv
  <2> QED BY <2>2, Stuttering
<1> QED BY <1>1, InitIInv, PTL DEF Spec

\* Loads, shifts, stores and resizes leave a packet of whole bytes, C objects of the size
\* that EBPFScalarType gives them, and a cursor that never moves in front of the packet.
THEOREM TypeCorrect == Spec => []TypeOK
<1>1. IInv => TypeOK
  BY DEF IInv
<1> QED BY <1>1, Invariance, PTL

\* extract() checks the packet's length once for all fields; no load of a program all of
\* whose fields are loaded as words no larger than their types goes past its end.
THEOREM InsidePacket == Spec => []ReadsInsidePacket
<1>1. IInv => ReadsInsidePacket
  BY DEF IInv
<1> QED BY <1>1, Invariance, PTL

\* Whatever headers a program reads, and at whatever places, extract() and lookahead()
\* put into each field of defined width and place the bits that the packet has for it,
\* and into each wider one of whole bytes its bytes, the most significant one first.
THEOREM ReadsHeader == Spec => []ExtractReadsHeader
<1>1. IInv => ExtractReadsHeader
  BY DEF IInv, FieldsRead, ReadsFields, ReadsField, ExtractReadsHeader
<1> QED BY <1>1, Invariance, PTL

\* Whatever headers are removed, added and emitted, the bytes that the parser did not
\* consume leave the deparser behind the emitted ones, none lost, doubled or changed.
THEOREM PayloadSurvives == Spec => []PayloadKept
<1>1. IInv => PayloadKept
  BY DEF IInv, Payload, PayloadInPlace, Resizable, WideFieldsAreBytes, PayloadKept
<1> QED BY <1>1, Invariance, PTL

\* Whatever the control block did with the headers, what the deparser emits leaves with
\* the values that it left, each field in its place and none overwritten by a later one,
\* except for arrays that extract() filled, whose bytes are not in the order that emit()
\* takes them to be in.
THEOREM WritesHeader == Spec => []EmitWritesHeader
<1>1. IInv => EmitWritesHeader
  BY DEF IInv, Output, Sent, EmitWritesHeader
<1> QED BY <1>1, Invariance, PTL

=============================================================================
