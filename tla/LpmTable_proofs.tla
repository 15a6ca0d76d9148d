-------------------------- MODULE LpmTable_proofs --------------------------
(***************************************************************************)
(* Proofs about LpmTable: for fields, padding and bytes of any size the    *)
(* trie holds what the P4 table holds, and finds what it finds.            *)
(***************************************************************************)
EXTENDS LpmTable, SequenceTheorems, FiniteSetTheorems, TLAPS

-----------------------------------------------------------------------------
(* Bits of bytes.                                                          *)

\* The byte that bit i is in, and its place there.
ByteAt(i) == (i - 1) \div ByteBits + 1
BitAt(i)  == ((i - 1) % ByteBits) + 1

LEMMA Place ==
  ASSUME NEW i \in Nat \ {0}
  PROVE  /\ ByteAt(i) \in Nat \ {0} /\ BitAt(i) \in 1 .. ByteBits
         /\ i = ByteBits * (ByteAt(i) - 1) + BitAt(i)
<1> DEFINE m == ByteBits
           q == (i - 1) \div m
           r == (i - 1) % m
<1>1. m \in Nat \ {0}
  BY ConstantsAssumption
<1>2. q \in Int /\ r \in 0 .. m - 1 /\ i - 1 = m * q + r
  BY <1>1
<1>3. q >= 0
  <2>1. CASE q <= -1
    <3>1. m * q <= -m
      BY <1>1, <1>2, <2>1, Z3
    <3> QED BY <1>1, <1>2, <3>1
  <2> QED BY <1>2, <2>1
<1>4. q + 1 \in Nat \ {0} /\ r + 1 \in 1 .. m /\ (q + 1) - 1 = q
  BY <1>1, <1>2, <1>3
<1> QED BY <1>1, <1>2, <1>4 DEF ByteAt, BitAt

LEMMA SamePlace ==
  ASSUME NEW p \in Int, NEW q \in Int, NEW r \in 1 .. ByteBits, NEW s \in 1 .. ByteBits,
         ByteBits * p + r = ByteBits * q + s
  PROVE  p = q /\ r = s
<1> DEFINE m == ByteBits
<1>1. m \in Nat \ {0}
  BY ConstantsAssumption
<1>2. m * (p - q) = s - r /\ s - r < m /\ r - s < m
  BY <1>1, Z3
<1>3. CASE p - q >= 1
  <2>1. m * (p - q) >= m
    BY <1>1, <1>3, Z3
  <2> QED BY <1>1, <1>2, <2>1
<1>4. CASE p - q <= -1
  <2>1. m * (p - q) <= -m
    BY <1>1, <1>4, Z3
  <2> QED BY <1>1, <1>2, <2>1
<1>5. CASE p = q
  BY <1>1, <1>2, <1>5, Z3
<1> QED BY <1>3, <1>4, <1>5

\* Bit r of byte b + 1, and bits behind a number of whole bytes.
LEMMA PlaceOf ==
  ASSUME NEW b \in Nat, NEW r \in 1 .. ByteBits
  PROVE  /\ ByteBits * b + r \in Nat \ {0}
         /\ ByteAt(ByteBits * b + r) = b + 1 /\ BitAt(ByteBits * b + r) = r
<1> DEFINE i == ByteBits * b + r
<1>1. i \in Nat \ {0}
  BY ConstantsAssumption, Z3
<1>2. /\ ByteAt(i) \in Nat \ {0} /\ BitAt(i) \in 1 .. ByteBits
      /\ i = ByteBits * (ByteAt(i) - 1) + BitAt(i)
  BY <1>1, Place
<1>3. ByteAt(i) - 1 = b /\ BitAt(i) = r
  <2>1. ByteAt(i) - 1 \in Int
    BY <1>2
  <2> HIDE DEF i
  <2>2. ByteBits * (ByteAt(i) - 1) + BitAt(i) = ByteBits * b + r
    BY <1>2 DEF i
  <2> QED BY <1>2, <2>1, <2>2, SamePlace
<1> QED BY <1>1, <1>2, <1>3

LEMMA PlaceBehind ==
  ASSUME NEW b \in Nat, NEW x \in Nat \ {0}
  PROVE  /\ ByteBits * b + x \in Nat \ {0}
         /\ ByteAt(ByteBits * b + x) = b + ByteAt(x) /\ BitAt(ByteBits * b + x) = BitAt(x)
<1> DEFINE c == ByteAt(x) - 1
           r == BitAt(x)
<1>1. c \in Nat /\ r \in 1 .. ByteBits /\ x = ByteBits * c + r /\ ByteAt(x) = c + 1
  BY Place
<1> HIDE DEF c, r
<1>2. ByteBits * b + x = ByteBits * (b + c) + r
  BY <1>1, ConstantsAssumption, Z3
<1>3. b + c \in Nat /\ (b + c) + 1 = b + ByteAt(x)
  BY <1>1
<1>4. /\ ByteBits * (b + c) + r \in Nat \ {0}
      /\ ByteAt(ByteBits * (b + c) + r) = (b + c) + 1 /\ BitAt(ByteBits * (b + c) + r) = r
  BY <1>1, <1>3, PlaceOf
<1> QED BY <1>2, <1>3, <1>4 DEF r

\* The bits of n bytes.
LEMMA PlaceWithin ==
  ASSUME NEW n \in Nat, NEW i \in 1 .. ByteBits * n
  PROVE  ByteAt(i) \in 1 .. n
<1> DEFINE b == ByteAt(i)
<1>1. i \in Nat \ {0} /\ ByteBits * n \in Int
  BY ConstantsAssumption, Z3
<1>2. b \in Nat \ {0} /\ BitAt(i) \in 1 .. ByteBits /\ i = ByteBits * (b - 1) + BitAt(i)
  BY <1>1, Place
<1> HIDE DEF b
<1>3. CASE b > n
  <2>1. ByteBits * (b - 1) >= ByteBits * n
    <3>1. b - 1 - n \in Nat
      BY <1>2, <1>3
    <3>2. ByteBits * (b - 1 - n) >= 0
      BY <3>1, ConstantsAssumption, Z3
    <3>3. ByteBits * (b - 1) = ByteBits * n + ByteBits * (b - 1 - n)
      BY <1>2, <3>1, ConstantsAssumption, Z3
    <3> QED BY <1>1, <3>1, <3>2, <3>3, ConstantsAssumption, Z3
  <2>2. i >= ByteBits * n + 1
    BY <1>1, <1>2, <2>1, ConstantsAssumption, Z3
  <2> QED BY <1>1, <2>2
<1> QED BY <1>2, <1>3 DEF b

LEMMA BitOfBytes ==
  ASSUME NEW n \in Nat, NEW bytes \in Field(n)
  PROVE  /\ Bits(bytes) \in [1 .. ByteBits * n -> {0, 1}]
         /\ \A i \in 1 .. ByteBits * n : Bits(bytes)[i] = bytes[ByteAt(i)][BitAt(i)]
<1>1. \A i \in 1 .. ByteBits * n : ByteAt(i) \in 1 .. n /\ BitAt(i) \in 1 .. ByteBits
  <2> SUFFICES ASSUME NEW i \in 1 .. ByteBits * n
               PROVE  ByteAt(i) \in 1 .. n /\ BitAt(i) \in 1 .. ByteBits
    OBVIOUS
  <2>1. i \in Nat \ {0}
    BY ConstantsAssumption, Z3
  <2> QED BY <2>1, Place, PlaceWithin
<1>2. Bits(bytes) = [i \in 1 .. ByteBits * n |-> bytes[ByteAt(i)][BitAt(i)]]
  BY DEF Field, Bits, ByteAt, BitAt
<1>3. \A j \in 1 .. n : bytes[j] \in [1 .. ByteBits -> {0, 1}]
  BY DEF Field, Byte
<1>4. \A i \in 1 .. ByteBits * n : bytes[ByteAt(i)][BitAt(i)] \in {0, 1}
  BY <1>1, <1>3
<1> QED BY <1>2, <1>4

LEMMA SameByte ==
  ASSUME NEW x \in Byte, NEW y \in Byte, \A r \in 1 .. ByteBits : x[r] = y[r]
  PROVE  x = y
<1>1. x = [r \in 1 .. ByteBits |-> x[r]] /\ y = [r \in 1 .. ByteBits |-> y[r]]
  BY DEF Byte
<1>2. [r \in 1 .. ByteBits |-> x[r]] = [r \in 1 .. ByteBits |-> y[r]]
  OBVIOUS
<1> QED BY <1>1, <1>2, Zenon

LEMMA SameField ==
  ASSUME NEW n \in Nat, NEW g \in Field(n), NEW h \in Field(n),
         \A j \in 1 .. n, r \in 1 .. ByteBits : g[j][r] = h[j][r]
  PROVE  g = h
<1>1. \A j \in 1 .. n : g[j] \in Byte /\ h[j] \in Byte
  BY DEF Field
<1>2. \A j \in 1 .. n : g[j] = h[j]
  BY <1>1, SameByte
<1>3. g = [j \in 1 .. n |-> g[j]] /\ h = [j \in 1 .. n |-> h[j]]
  BY DEF Field
<1>4. [j \in 1 .. n |-> g[j]] = [j \in 1 .. n |-> h[j]]
  BY <1>2
<1> QED BY <1>3, <1>4, Zenon

-----------------------------------------------------------------------------
(* The key structure in memory.                                            *)

\* The bytes in front of the LPM field.
FrontBytes == table.exactBytes + table.padBytes

Memory(key) == HostOrder(key.exact) \o Zeros(table.padBytes)
               \o HostOrder(bpf_hton(key.lpm)) \o Zeros(table.tailBytes)

LEMMA TableType ==
  ASSUME table \in Tables
  PROVE  /\ table.exactBytes \in Nat /\ table.padBytes \in Nat /\ table.tailBytes \in Nat
         /\ table.entries \in Seq(Entry(table.exactBytes)) /\ FrontBytes \in Nat
BY ConstantsAssumption DEF IsTable, FrontBytes

LEMMA ReverseType ==
  ASSUME NEW n \in Nat, NEW s \in Field(n)
  PROVE  Reverse(s) \in Field(n) /\ \A j \in 1 .. n : Reverse(s)[j] = s[n - j + 1]
<1>1. Len(s) = n
  BY DEF Field
<1> QED BY <1>1 DEF Field, Reverse

LEMMA ReverseTwice ==
  ASSUME NEW n \in Nat, NEW s \in Field(n)
  PROVE  Reverse(Reverse(s)) = s
<1> DEFINE t == Reverse(s)
<1>1. t \in Field(n) /\ \A j \in 1 .. n : t[j] = s[n - j + 1]
  BY ReverseType
<1> HIDE DEF t
<1>2. Reverse(t) \in Field(n) /\ \A j \in 1 .. n : Reverse(t)[j] = t[n - j + 1]
  BY <1>1, ReverseType
<1>3. \A j \in 1 .. n : n - j + 1 \in 1 .. n /\ n - (n - j + 1) + 1 = j
  OBVIOUS
<1>4. \A j \in 1 .. n : Reverse(t)[j] = s[j]
  BY <1>1, <1>2, <1>3
<1> QED BY <1>2, <1>4 DEF t, Field

LEMMA TwoFields ==
  ASSUME NEW m \in Nat, NEW n \in Nat, NEW s \in Field(m), NEW t \in Field(n)
  PROVE  /\ s \o t \in Field(m + n)
         /\ \A j \in 1 .. m : (s \o t)[j] = s[j]
         /\ \A j \in 1 .. n : (s \o t)[m + j] = t[j]
<1>1. s \in Seq(Byte) /\ t \in Seq(Byte) /\ Len(s) = m /\ Len(t) = n
  BY DEF Field
<1> DEFINE u == s \o t
<1>2. /\ u \in Seq(Byte) /\ Len(u) = m + n
      /\ \A i \in 1 .. m + n : u[i] = IF i <= m THEN s[i] ELSE t[i - m]
  BY <1>1, ConcatProperties
<1> HIDE DEF u
<1>3. u \in Field(m + n)
  BY <1>2 DEF Field
<1>4. \A j \in 1 .. m : j \in 1 .. m + n /\ j <= m
  OBVIOUS
<1>5. \A j \in 1 .. n : m + j \in 1 .. m + n /\ ~(m + j <= m) /\ (m + j) - m = j
  OBVIOUS
<1>6. \A j \in 1 .. m : u[j] = s[j]
  BY <1>2, <1>4
<1>7. \A j \in 1 .. n : u[m + j] = t[j]
  BY <1>2, <1>5
<1> QED BY <1>3, <1>6, <1>7 DEF u

LEMMA ZerosType == ASSUME NEW n \in Nat PROVE Zeros(n) \in Field(n)
BY DEF Zeros, Field, Byte

\* The exact field lies reversed, the LPM field as it is.
LEMMA MemoryBytes ==
  ASSUME table \in Tables, NEW key \in Key(table.exactBytes)
  PROVE  /\ Memory(key) \in Field(FrontBytes + LpmBytes + table.tailBytes)
         /\ \A j \in 1 .. table.exactBytes :
              Memory(key)[j] = key.exact[table.exactBytes - j + 1]
         /\ \A j \in 1 .. table.padBytes :
              Memory(key)[table.exactBytes + j] = Zeros(table.padBytes)[j]
         /\ \A j \in 1 .. LpmBytes : Memory(key)[FrontBytes + j] = key.lpm[j]
<1>1. /\ table.exactBytes \in Nat /\ table.padBytes \in Nat /\ table.tailBytes \in Nat
      /\ LpmBytes \in Nat
  BY TableType, ConstantsAssumption
<1>2. key.exact \in Field(table.exactBytes) /\ key.lpm \in Field(LpmBytes)
  BY DEF Key
<1>3. /\ HostOrder(key.exact) \in Field(table.exactBytes)
      /\ \A j \in 1 .. table.exactBytes :
           HostOrder(key.exact)[j] = key.exact[table.exactBytes - j + 1]
  BY <1>1, <1>2, ReverseType DEF HostOrder
<1>4. HostOrder(bpf_hton(key.lpm)) = key.lpm
  BY <1>1, <1>2, ReverseTwice DEF HostOrder, bpf_hton
<1>5. Zeros(table.padBytes) \in Field(table.padBytes) /\ Zeros(table.tailBytes) \in Field(table.tailBytes)
  BY <1>1, ZerosType
<1>6. Memory(key) = HostOrder(key.exact) \o Zeros(table.padBytes) \o key.lpm \o Zeros(table.tailBytes)
  BY <1>4 DEF Memory
<1> DEFINE e == HostOrder(key.exact)
           z == Zeros(table.padBytes)
           y == Zeros(table.tailBytes)
           a == e \o z
           b == a \o key.lpm
           s == b \o y
<1> HIDE DEF e, z, y
<1>7. /\ a \in Field(FrontBytes)
      /\ \A j \in 1 .. table.exactBytes : a[j] = e[j]
      /\ \A j \in 1 .. table.padBytes : a[table.exactBytes + j] = z[j]
  BY <1>1, <1>3, <1>5, TwoFields DEF FrontBytes, e, z
<1> HIDE DEF a
<1>8. /\ b \in Field(FrontBytes + LpmBytes)
      /\ \A j \in 1 .. FrontBytes : b[j] = a[j]
      /\ \A j \in 1 .. LpmBytes : b[FrontBytes + j] = key.lpm[j]
  <2>1. FrontBytes \in Nat
    BY TableType
  <2> QED BY <1>1, <1>2, <1>7, <2>1, TwoFields
<1> HIDE DEF b
<1>9. /\ s \in Field(FrontBytes + LpmBytes + table.tailBytes)
      /\ \A j \in 1 .. FrontBytes + LpmBytes : s[j] = b[j]
  <2>1. FrontBytes + LpmBytes \in Nat
    BY <1>1, TableType
  <2>2. y \in Field(table.tailBytes)
    BY <1>5 DEF y
  <2> QED BY <1>1, <1>8, <2>1, <2>2, TwoFields
<1> HIDE DEF s
<1>10. \A j \in 1 .. FrontBytes : s[j] = a[j]
  BY <1>1, <1>8, <1>9, TableType
<1>11. \A j \in 1 .. LpmBytes : s[FrontBytes + j] = key.lpm[j]
  <2>1. \A j \in 1 .. LpmBytes : FrontBytes + j \in 1 .. FrontBytes + LpmBytes
    BY <1>1, TableType
  <2> QED BY <2>1, <1>8, <1>9
<1>12. \A j \in 1 .. table.exactBytes : s[j] = key.exact[table.exactBytes - j + 1]
  <2>1. \A j \in 1 .. table.exactBytes : j \in 1 .. FrontBytes
    BY <1>1 DEF FrontBytes
  <2> QED BY <2>1, <1>3, <1>7, <1>10 DEF e
<1>13. \A j \in 1 .. table.padBytes : s[table.exactBytes + j] = Zeros(table.padBytes)[j]
  <2>1. \A j \in 1 .. table.padBytes : table.exactBytes + j \in 1 .. FrontBytes
    BY <1>1 DEF FrontBytes
  <2> QED BY <2>1, <1>7, <1>10 DEF z
<1>14. Memory(key) = s
  BY <1>6 DEF s, b, a, e, z, y
<1> QED BY <1>9, <1>11, <1>12, <1>13, <1>14, Zenon

\* The length of all structures of a table.
LEMMA StructureBits ==
  ASSUME table \in Tables
  PROVE  /\ LookupPrefixLen = ByteBits * (FrontBytes + LpmBytes + table.tailBytes)
         /\ LookupPrefixLen \in Nat /\ LpmBits \in Nat /\ LpmBits = ByteBits * LpmBytes
         /\ ByteBits * FrontBytes \in Nat
         /\ FrontBytes * ByteBits = ByteBits * FrontBytes
         /\ ByteBits * FrontBytes + LpmBits <= LookupPrefixLen
<1>1. /\ table.exactBytes \in Nat /\ table.padBytes \in Nat /\ table.tailBytes \in Nat
      /\ FrontBytes \in Nat /\ ByteBits \in Nat /\ LpmBytes \in Nat
  BY TableType, ConstantsAssumption
<1>2. LookupPrefixLen = (FrontBytes + LpmBytes + table.tailBytes) * ByteBits
  BY DEF LookupPrefixLen, FrontBytes
<1> DEFINE t == table.tailBytes
           b == ByteBits
           f == FrontBytes
           l == LpmBytes
<1>3. (f + l + t) * b = b * (f + l + t) /\ f * b = b * f /\ l * b = b * l
  BY <1>1, Z3
<1>4. b * (f + l + t) \in Nat /\ b * f \in Nat /\ b * l \in Nat /\ b * t \in Nat
  BY <1>1, Z3
<1>5. b * (f + l + t) = b * f + b * l + b * t
  BY <1>1, Z3
<1> QED BY <1>1, <1>2, <1>3, <1>4, <1>5 DEF LpmBits

LEMMA KeyBits ==
  ASSUME table \in Tables, NEW key \in Key(table.exactBytes)
  PROVE  /\ emitKey(key) = Bits(Memory(key))
         /\ emitKey(key) \in [1 .. LookupPrefixLen -> {0, 1}]
         /\ \A i \in 1 .. LookupPrefixLen : emitKey(key)[i] = Memory(key)[ByteAt(i)][BitAt(i)]
<1>1. emitKey(key) = Bits(Memory(key))
  BY DEF emitKey, KeyStructure, Memory
<1>2. FrontBytes + LpmBytes + table.tailBytes \in Nat
  BY TableType, ConstantsAssumption
<1> QED BY <1>1, <1>2, MemoryBytes, BitOfBytes, StructureBits

\* A key as the control plane writes it has the same form: unless the LPM field is
\* swapped, it is the structure of the key with the field turned around.
LEMMA ControlBits ==
  ASSUME table \in Tables, NEW key \in Key(table.exactBytes)
  PROVE  /\ ControlKey(key) \in [1 .. LookupPrefixLen -> {0, 1}]
         /\ ControlOrder = "network" => ControlKey(key) = emitKey(key)
<1>1. CASE ControlOrder = "network"
  BY <1>1, KeyBits DEF ControlKey
<1>2. CASE ControlOrder # "network"
  <2> DEFINE turned == [exact |-> key.exact, lpm |-> bpf_hton(key.lpm)]
  <2>1. key.lpm \in Field(LpmBytes) /\ key.exact \in Field(table.exactBytes) /\ LpmBytes \in Nat
    BY ConstantsAssumption DEF Key
  <2>2. bpf_hton(key.lpm) \in Field(LpmBytes)
    BY <2>1, ReverseType DEF bpf_hton
  <2>3. turned \in Key(table.exactBytes)
    BY <2>1, <2>2 DEF Key
  <2>4. bpf_hton(bpf_hton(key.lpm)) = key.lpm
    BY <2>1, ReverseTwice DEF bpf_hton
  <2>5. emitKey(turned) = KeyStructure(key, key.lpm)
    BY <2>4 DEF emitKey, KeyStructure
  <2>6. emitKey(turned) \in [1 .. LookupPrefixLen -> {0, 1}]
    <3> HIDE DEF turned
    <3> QED BY <2>3, KeyBits
  <2> QED BY <1>2, <2>5, <2>6 DEF ControlKey
<1> QED BY <1>1, <1>2

\* The bits in front of the LPM field tell the exact fields apart, and nothing else.
LEMMA FrontBits ==
  ASSUME table \in Tables, NEW k \in Key(table.exactBytes), NEW l \in Key(table.exactBytes)
  PROVE  Agree(emitKey(k), emitKey(l), ByteBits * FrontBytes) <=> k.exact = l.exact
<1> DEFINE n == table.exactBytes
<1>1. n \in Nat /\ table.padBytes \in Nat /\ FrontBytes = n + table.padBytes /\ FrontBytes \in Nat
  BY TableType DEF FrontBytes
<1>2. /\ ByteBits * FrontBytes \in Nat /\ LookupPrefixLen \in Nat /\ LpmBits \in Nat
      /\ ByteBits * FrontBytes + LpmBits <= LookupPrefixLen
  BY StructureBits
<1>3. \A i \in 1 .. ByteBits * FrontBytes :
        /\ ByteAt(i) \in 1 .. FrontBytes
        /\ emitKey(k)[i] = Memory(k)[ByteAt(i)][BitAt(i)]
        /\ emitKey(l)[i] = Memory(l)[ByteAt(i)][BitAt(i)]
  <2>1. \A i \in 1 .. ByteBits * FrontBytes : i \in 1 .. LookupPrefixLen
    BY <1>2
  <2> QED BY <1>1, <2>1, KeyBits, PlaceWithin
<1>4. \A j \in 1 .. n : Memory(k)[j] = k.exact[n - j + 1] /\ Memory(l)[j] = l.exact[n - j + 1]
  BY MemoryBytes
<1>5. ASSUME k.exact = l.exact
      PROVE  Agree(emitKey(k), emitKey(l), ByteBits * FrontBytes)
  <2>1. \A j \in 1 .. FrontBytes : Memory(k)[j] = Memory(l)[j]
    <3> SUFFICES ASSUME NEW j \in 1 .. FrontBytes PROVE Memory(k)[j] = Memory(l)[j]
      OBVIOUS
    <3>1. CASE j \in 1 .. n
      BY <1>4, <1>5, <3>1
    <3>2. CASE j > n
      <4>1. j - n \in 1 .. table.padBytes /\ n + (j - n) = j
        BY <1>1, <3>2
      <4> QED BY <4>1, MemoryBytes
    <3> QED BY <1>1, <3>1, <3>2
  <2> QED BY <1>3, <2>1 DEF Agree
<1>6. ASSUME Agree(emitKey(k), emitKey(l), ByteBits * FrontBytes)
      PROVE  k.exact = l.exact
  <2>1. k.exact \in Field(n) /\ l.exact \in Field(n)
    BY DEF Key
  <2>2. ASSUME NEW j \in 1 .. n, NEW r \in 1 .. ByteBits
        PROVE  k.exact[j][r] = l.exact[j][r]
    <3> DEFINE i == ByteBits * (n - j) + r
    <3>1. n - j \in Nat /\ (n - j) + 1 \in 1 .. n /\ n - ((n - j) + 1) + 1 = j
      BY <1>1
    <3>2. i \in Nat \ {0} /\ ByteAt(i) = (n - j) + 1 /\ BitAt(i) = r
      BY <3>1, PlaceOf
    <3>3. i <= ByteBits * FrontBytes
      <4>1. FrontBytes - ((n - j) + 1) \in Nat /\ FrontBytes = (n - j) + 1 + (FrontBytes - ((n - j) + 1))
        BY <1>1, <3>1
      <4> DEFINE c == n - j
                 d == FrontBytes - (c + 1)
      <4>2. ByteBits * (c + 1 + d) = ByteBits * c + ByteBits + ByteBits * d /\ ByteBits * d >= 0
        <5> HIDE DEF d
        <5>1. c \in Nat /\ d \in Nat
          BY <3>1, <4>1 DEF d
        <5> HIDE DEF c
        <5> QED BY <5>1, ConstantsAssumption, Z3
      <4>3. ByteBits * FrontBytes = ByteBits * c + ByteBits + ByteBits * d
        BY <4>1, <4>2, Zenon
      <4>4. ByteBits * c \in Int /\ ByteBits * d \in Int /\ r <= ByteBits
        <5>1. c \in Int /\ d \in Int
          BY <3>1, <4>1
        <5> HIDE DEF c, d
        <5> QED BY <5>1, ConstantsAssumption, Z3
      <4> HIDE DEF d, c
      <4>5. ByteBits * c + r <= ByteBits * FrontBytes
        BY <4>2, <4>3, <4>4, ConstantsAssumption
      <4> QED BY <4>5 DEF c
    <3> HIDE DEF i
    <3>4. i \in 1 .. ByteBits * FrontBytes
      BY <1>2, <3>2, <3>3
    <3>5. emitKey(k)[i] = emitKey(l)[i]
      BY <1>6, <3>4 DEF Agree
    <3>6. Memory(k)[(n - j) + 1][r] = Memory(l)[(n - j) + 1][r]
      BY <1>3, <3>2, <3>4, <3>5
    <3> QED BY <1>4, <3>1, <3>6
  <2> HIDE DEF n
  <2> QED BY <1>1, <2>1, <2>2, SameField
<1> QED BY <1>5, <1>6

\* Behind them come the bits of the LPM field, most significant first.
LEMMA LpmFieldBits ==
  ASSUME table \in Tables, NEW k \in Key(table.exactBytes), NEW i \in 1 .. LpmBits
  PROVE  emitKey(k)[ByteBits * FrontBytes + i] = Bits(k.lpm)[i]
<1>1. /\ ByteBits * FrontBytes \in Nat /\ LpmBits \in Nat /\ LpmBits = ByteBits * LpmBytes
      /\ ByteBits * FrontBytes + LpmBits <= LookupPrefixLen /\ LookupPrefixLen \in Nat
  BY StructureBits
<1>2. FrontBytes \in Nat /\ LpmBytes \in Nat
  BY TableType, ConstantsAssumption
<1>3. i \in Nat \ {0} /\ i \in 1 .. ByteBits * LpmBytes
  BY <1>1
<1>4. ByteAt(i) \in 1 .. LpmBytes
  BY <1>2, <1>3, PlaceWithin
<1>5. /\ ByteAt(ByteBits * FrontBytes + i) = FrontBytes + ByteAt(i)
      /\ BitAt(ByteBits * FrontBytes + i) = BitAt(i)
  BY <1>2, <1>3, PlaceBehind
<1>6. emitKey(k)[ByteBits * FrontBytes + i] = Memory(k)[FrontBytes + ByteAt(i)][BitAt(i)]
  <2>1. ByteBits * FrontBytes + i \in 1 .. LookupPrefixLen
    BY <1>1, <1>3
  <2> QED BY <2>1, <1>5, KeyBits
<1>7. Memory(k)[FrontBytes + ByteAt(i)] = k.lpm[ByteAt(i)]
  BY <1>4, MemoryBytes
<1>8. Bits(k.lpm)[i] = k.lpm[ByteAt(i)][BitAt(i)]
  <2>1. k.lpm \in Field(LpmBytes)
    BY DEF Key
  <2> QED BY <1>2, <1>3, <2>1, BitOfBytes
<1> QED BY <1>6, <1>7, <1>8

\* The prefixes of the structure that the trie compares are those that P4 compares.
LEMMA KeysAgree ==
  ASSUME table \in Tables, NEW k \in Key(table.exactBytes), NEW l \in Key(table.exactBytes),
         NEW p \in 0 .. LpmBits
  PROVE  Agree(emitKey(k), emitKey(l), ByteBits * FrontBytes + p)
           <=> k.exact = l.exact /\ Agree(Bits(k.lpm), Bits(l.lpm), p)
<1> DEFINE n == ByteBits * FrontBytes
<1>1. n \in Nat /\ LpmBits \in Nat /\ p \in Nat
  BY StructureBits
<1>2. \A i \in 1 .. p : /\ emitKey(k)[n + i] = Bits(k.lpm)[i]
                        /\ emitKey(l)[n + i] = Bits(l.lpm)[i]
  <2>1. \A i \in 1 .. p : i \in 1 .. LpmBits
    BY <1>1
  <2> QED BY <2>1, LpmFieldBits
<1>3. Agree(emitKey(k), emitKey(l), n) <=> k.exact = l.exact
  BY FrontBits
<1> HIDE DEF n
<1>4. Agree(emitKey(k), emitKey(l), n + p) <=>
        /\ Agree(emitKey(k), emitKey(l), n)
        /\ \A i \in 1 .. p : emitKey(k)[n + i] = emitKey(l)[n + i]
  <2>1. \A i \in 1 .. n : i \in 1 .. n + p
    BY <1>1
  <2>2. \A i \in 1 .. p : n + i \in 1 .. n + p
    BY <1>1
  <2>3. \A i \in 1 .. n + p : i \in 1 .. n \/ (i - n \in 1 .. p /\ n + (i - n) = i)
    BY <1>1
  <2> QED BY <2>1, <2>2, <2>3 DEF Agree
<1> QED BY <1>2, <1>3, <1>4 DEF Agree, n

-----------------------------------------------------------------------------
(* The inductive invariant.                                                *)

\* The node of an entry when all bits in front of the LPM field count.
Node(e) == [prefixlen |-> ControlPrefixLen(e), data |-> emitKey(e.key), action |-> e.action]

\* The tables whose keys and prefix lengths are right.
Covered ==
  IF table.entries = <<>> THEN ControlOrder = "network" ELSE table.exactBytes + table.padBytes = 0

\* The trie holds the entries of the P4 table and has room for the const ones left.
NodesInv ==
  /\ trie = {Node(e) : e \in declared}
  /\ table.entries # <<>> => Cardinality(trie) < next

\* No two entries of the P4 table have one prefix.
DistinctInv == \A d, e \in declared : SameEntry(d, e) => d = e

BaseInv == TypeOK /\ IsFiniteSet(trie)
IInv == BaseInv /\ DistinctInv /\ (Covered => NodesInv)

\* The program's const entries fit the table, and one without a mask has 32 bits.
ConstEntriesFit == \A t \in Tables :
  /\ Len(t.entries) <= MaxEntries
  /\ t.exactBytes + t.padBytes = 0 =>
       \A j \in DOMAIN t.entries : t.entries[j].masked \/ DefaultPrefixLen = LpmBits

LEMMA EntryType ==
  ASSUME table \in Tables, NEW e \in Entry(table.exactBytes)
  PROVE  /\ e.key \in Key(table.exactBytes) /\ e.plen \in 0 .. LpmBits /\ e.action \in Actions
         /\ ~e.masked => e.plen = LpmBits
         /\ ControlPrefixLen(e) = ByteBits * FrontBytes + e.plen
         /\ ControlPrefixLen(e) \in 0 .. LookupPrefixLen
<1>1. /\ e.key \in Key(table.exactBytes) /\ e.plen \in 0 .. LpmBits /\ e.action \in Actions
      /\ ~e.masked => e.plen = LpmBits
  BY DEF Entry
<1>2. ControlPrefixLen(e) = FrontBytes * ByteBits + e.plen
  BY DEF ControlPrefixLen, FrontBytes
<1> QED BY <1>1, <1>2, StructureBits

\* Two entries have one node in the trie if and only if they have one prefix in P4.
LEMMA SameEntries ==
  ASSUME table \in Tables,
         NEW d \in Entry(table.exactBytes), NEW e \in Entry(table.exactBytes)
  PROVE  /\ SameEntry(d, e) <=>
              d.plen = e.plen /\ d.key.exact = e.key.exact
              /\ Agree(Bits(d.key.lpm), Bits(e.key.lpm), e.plen)
         /\ SameEntry(d, e) <=>
              /\ ControlPrefixLen(d) = ControlPrefixLen(e)
              /\ Agree(emitKey(d.key), emitKey(e.key), ControlPrefixLen(e))
<1>1. SameEntry(d, e) <=> d.plen = e.plen /\ d.key.exact = e.key.exact
                          /\ Agree(Bits(d.key.lpm), Bits(e.key.lpm), e.plen)
  BY DEF SameEntry, Matches
<1>2. /\ d.key \in Key(table.exactBytes) /\ e.key \in Key(table.exactBytes)
      /\ d.plen \in 0 .. LpmBits /\ e.plen \in 0 .. LpmBits
      /\ ControlPrefixLen(d) = ByteBits * FrontBytes + d.plen
      /\ ControlPrefixLen(e) = ByteBits * FrontBytes + e.plen
  BY EntryType
<1>3. ControlPrefixLen(d) = ControlPrefixLen(e) <=> d.plen = e.plen
  BY <1>2, StructureBits
<1>4. Agree(emitKey(d.key), emitKey(e.key), ControlPrefixLen(e))
        <=> d.key.exact = e.key.exact /\ Agree(Bits(d.key.lpm), Bits(e.key.lpm), e.plen)
  BY <1>2, KeysAgree
<1> QED BY <1>1, <1>3, <1>4

\* Replacing or deleting an entry does to the nodes what it does to the entries.
LEMMA NodesWithout ==
  ASSUME table \in Tables, declared \subseteq Entry(table.exactBytes),
         trie = {Node(d) : d \in declared}, NEW e \in Entry(table.exactBytes)
  PROVE  trie \ SameNode(ControlPrefixLen(e), emitKey(e.key))
           = {Node(d) : d \in {c \in declared : ~SameEntry(c, e)}}
<1>1. \A d \in declared : SameEntry(d, e) <=>
        /\ Node(d).prefixlen = ControlPrefixLen(e)
        /\ Agree(Node(d).data, emitKey(e.key), ControlPrefixLen(e))
  <2> SUFFICES ASSUME NEW d \in declared
               PROVE  SameEntry(d, e) <=>
                        /\ Node(d).prefixlen = ControlPrefixLen(e)
                        /\ Agree(Node(d).data, emitKey(e.key), ControlPrefixLen(e))
    OBVIOUS
  <2>1. Node(d).prefixlen = ControlPrefixLen(d) /\ Node(d).data = emitKey(d.key)
    BY DEF Node
  <2>2. d \in Entry(table.exactBytes)
    OBVIOUS
  <2> QED BY <2>1, <2>2, SameEntries, Zenon
<1> DEFINE Gone(n) == /\ n.prefixlen = ControlPrefixLen(e)
                      /\ Agree(n.data, emitKey(e.key), ControlPrefixLen(e))
<1>2. trie \ SameNode(ControlPrefixLen(e), emitKey(e.key)) = {n \in trie : ~Gone(n)}
  BY DEF SameNode
<1>3. \A d \in declared : SameEntry(d, e) <=> Gone(Node(d))
  BY <1>1
<1> HIDE DEF Gone
<1>4. {n \in {Node(d) : d \in declared} : ~Gone(n)}
        = {Node(d) : d \in {c \in declared : ~SameEntry(c, e)}}
  BY <1>3
<1> QED BY <1>2, <1>4

LEMMA StillDistinct ==
  ASSUME table \in Tables, declared \subseteq Entry(table.exactBytes), DistinctInv,
         NEW e \in Entry(table.exactBytes)
  PROVE  \A c, d \in {b \in declared : ~SameEntry(b, e)} \cup {e} : SameEntry(c, d) => c = d
<1>1. \A d \in declared : SameEntry(e, d) => SameEntry(d, e)
  <2> SUFFICES ASSUME NEW d \in declared, SameEntry(e, d) PROVE SameEntry(d, e)
    OBVIOUS
  <2>1. /\ d.plen = e.plen /\ d.key.exact = e.key.exact
        /\ Agree(Bits(e.key.lpm), Bits(d.key.lpm), d.plen)
    BY SameEntries
  <2>2. Agree(Bits(d.key.lpm), Bits(e.key.lpm), e.plen)
    BY <2>1 DEF Agree
  <2> QED BY <2>1, <2>2, SameEntries
<1> QED BY <1>1 DEF DistinctInv

\* The nodes a trie of the table may have.
TrieNode == [prefixlen : 0 .. LookupPrefixLen, data : [1 .. LookupPrefixLen -> {0, 1}],
             action : Actions]

LEMMA UpdateKeepsSize ==
  ASSUME BaseInv, NEW plen \in Nat,
         NEW data \in [1 .. LookupPrefixLen -> {0, 1}], NEW action \in Actions,
         CanUpdate(plen), TrieUpdate(plen, data, action)
  PROVE  /\ trie' \subseteq TrieNode /\ IsFiniteSet(trie')
         /\ Cardinality(trie) \in Nat /\ Cardinality(trie') \in Nat
         /\ Cardinality(trie') <= Cardinality(trie) + 1 /\ Cardinality(trie') <= MaxEntries
<1> DEFINE rest == trie \ SameNode(plen, data)
           node == [prefixlen |-> plen, data |-> data, action |-> action]
<1>1. trie' = rest \cup {node}
  BY DEF TrieUpdate
<1>2. table \in Tables /\ trie \subseteq TrieNode /\ IsFiniteSet(trie)
  BY DEF BaseInv, TypeOK, TrieNode
<1>3. node \in TrieNode
  <2>1. plen \in 0 .. LookupPrefixLen
    BY <1>2, StructureBits DEF CanUpdate
  <2> QED BY <2>1 DEF TrieNode
<1>4. rest \in SUBSET trie
  OBVIOUS
<1> HIDE DEF rest, node
<1>5. IsFiniteSet(rest) /\ Cardinality(rest) <= Cardinality(trie)
  BY <1>2, <1>4, FS_Subset
<1>6. IsFiniteSet(rest \cup {node}) /\
      Cardinality(rest \cup {node}) = IF node \in rest THEN Cardinality(rest) ELSE Cardinality(rest) + 1
  BY <1>5, FS_AddElement
<1>7. Cardinality(trie) \in Nat /\ Cardinality(rest) \in Nat /\ Cardinality(trie') \in Nat
  BY <1>1, <1>2, <1>5, <1>6, FS_CardinalityType
<1>8. Cardinality(trie) < MaxEntries
  BY DEF CanUpdate
<1> QED BY <1>1, <1>2, <1>3, <1>4, <1>5, <1>6, <1>7, <1>8, ConstantsAssumption

\* The structure depends on the table's declaration alone.
LEMMA SameStructure ==
  ASSUME table' = table
  PROVE  /\ LookupPrefixLen' = LookupPrefixLen /\ TrieNode' = TrieNode /\ Covered' = Covered
         /\ \A e : Node(e)' = Node(e)
<1>1. LookupPrefixLen' = LookupPrefixLen
  BY DEF LookupPrefixLen
<1>2. \A e : Node(e)' = Node(e)
  BY DEF Node, ControlPrefixLen, emitKey, KeyStructure
<1> QED BY <1>1, <1>2 DEF TrieNode, Covered

LEMMA BaseInvInit == Init => BaseInv
<1> SUFFICES ASSUME Init PROVE BaseInv
  OBVIOUS
<1>1. table \in Tables /\ table.entries \in Seq(Entry(table.exactBytes))
  BY TableType DEF Init
<1>2. IsFiniteSet(trie) /\ Cardinality(trie) = 0
  BY FS_EmptySet DEF Init
<1>3. Len(table.entries) \in Nat /\ MaxEntries \in Nat
  BY <1>1, ConstantsAssumption
<1>4. TypeOK
  BY <1>1, <1>2, <1>3 DEF Init, TypeOK
<1> QED BY <1>2, <1>4 DEF BaseInv

LEMMA BaseInvNext == BaseInv /\ [Next]_vars => BaseInv'
<1> SUFFICES ASSUME BaseInv, [Next]_vars PROVE BaseInv'
  OBVIOUS
<1>1. /\ table \in Tables /\ next \in 1 .. Len(table.entries) + 1
      /\ declared \subseteq Entry(table.exactBytes)
      /\ trie \subseteq TrieNode /\ IsFiniteSet(trie) /\ Cardinality(trie) <= MaxEntries
      /\ table.entries \in Seq(Entry(table.exactBytes))
  BY TableType DEF BaseInv, TypeOK, TrieNode
<1>2. SUFFICES ASSUME table' = table
               PROVE  /\ next' \in 1 .. Len(table.entries) + 1
                      /\ declared' \subseteq Entry(table.exactBytes)
                      /\ trie' \subseteq TrieNode /\ IsFiniteSet(trie') /\ Cardinality(trie') <= MaxEntries
  <2>1. table' = table
    BY DEF Next, InitialiseEntry, AddEntry, DeleteEntry, vars
  <2>2. TrieNode' = TrieNode
    BY <2>1, SameStructure
  <2> HIDE DEF TrieNode
  <2> SUFFICES TypeOK' /\ IsFiniteSet(trie')
    BY DEF BaseInv
  <2>3. /\ next' \in 1 .. Len(table.entries) + 1
        /\ declared' \subseteq Entry(table.exactBytes)
        /\ trie' \subseteq TrieNode /\ IsFiniteSet(trie') /\ Cardinality(trie') <= MaxEntries
    BY <1>2, <2>1
  <2>4. trie' \subseteq TrieNode'
    BY <2>2, <2>3
  <2> QED BY <1>1, <2>1, <2>3, <2>4 DEF TypeOK, TrieNode
<1>3. CASE InitialiseEntry
  <2> DEFINE e == table.entries[next]
  <2>1. e \in Entry(table.exactBytes)
    BY <1>1, <1>3 DEF InitialiseEntry
  <2>2. next' \in 1 .. Len(table.entries) + 1
    <3>1. Len(table.entries) \in Nat
      BY <1>1
    <3> QED BY <1>1, <1>3, <3>1 DEF InitialiseEntry
  <2>3. declared' \subseteq Entry(table.exactBytes)
    BY <1>1, <1>3, <2>1 DEF InitialiseEntry, Declare
  <2>4. CASE CanUpdate(ConstPrefixLen(e))
    <3>1. ConstPrefixLen(e) \in Nat
      <4>1. e.plen \in 0 .. LpmBits /\ LpmBits \in Nat
        BY <1>1, <2>1, EntryType, StructureBits
      <4> QED BY <4>1, ConstantsAssumption DEF ConstPrefixLen
    <3>2. TrieUpdate(ConstPrefixLen(e), emitKey(e.key), e.action)
      BY <1>3, <2>4 DEF InitialiseEntry
    <3> HIDE DEF e
    <3>3. emitKey(e.key) \in [1 .. LookupPrefixLen -> {0, 1}] /\ e.action \in Actions
      BY <1>1, <2>1, EntryType, KeyBits
    <3> QED BY <2>1, <2>2, <2>3, <2>4, <3>1, <3>2, <3>3, UpdateKeepsSize
  <2>5. CASE ~CanUpdate(ConstPrefixLen(e))
    BY <1>1, <1>3, <2>2, <2>3, <2>5 DEF InitialiseEntry
  <2> QED BY <2>4, <2>5
<1>4. ASSUME NEW e \in Entry(table.exactBytes), AddEntry(e)
      PROVE  /\ next' \in 1 .. Len(table.entries) + 1
             /\ declared' \subseteq Entry(table.exactBytes)
             /\ trie' \subseteq TrieNode /\ IsFiniteSet(trie') /\ Cardinality(trie') <= MaxEntries
  <2>1. next' \in 1 .. Len(table.entries) + 1 /\ declared' \subseteq Entry(table.exactBytes)
    BY <1>1, <1>4 DEF AddEntry, Declare
  <2>2. ControlPrefixLen(e) \in Nat
    BY <1>1, <1>4, EntryType, StructureBits
  <2>3. CanUpdate(ControlPrefixLen(e)) /\ TrieUpdate(ControlPrefixLen(e), ControlKey(e.key), e.action)
    BY <1>4 DEF AddEntry
  <2>4. ControlKey(e.key) \in [1 .. LookupPrefixLen -> {0, 1}] /\ e.action \in Actions
    BY <1>1, <1>4, EntryType, ControlBits
  <2> QED BY <1>4, <2>1, <2>2, <2>3, <2>4, UpdateKeepsSize
<1>5. ASSUME NEW e \in Entry(table.exactBytes), DeleteEntry(e)
      PROVE  /\ next' \in 1 .. Len(table.entries) + 1
             /\ declared' \subseteq Entry(table.exactBytes)
             /\ trie' \subseteq TrieNode /\ IsFiniteSet(trie') /\ Cardinality(trie') <= MaxEntries
  <2>1. next' \in 1 .. Len(table.entries) + 1 /\ declared' \subseteq Entry(table.exactBytes)
    BY <1>1, <1>5 DEF DeleteEntry
  <2>2. trie' \in SUBSET trie
    BY <1>5 DEF DeleteEntry
  <2>3. IsFiniteSet(trie') /\ Cardinality(trie') <= Cardinality(trie)
    BY <1>1, <2>2, FS_Subset
  <2>4. Cardinality(trie) \in Nat /\ Cardinality(trie') \in Nat
    BY <1>1, <2>3, FS_CardinalityType
  <2> QED BY <1>1, <2>1, <2>2, <2>3, <2>4, ConstantsAssumption
<1>6. CASE UNCHANGED vars
  BY <1>1, <1>6 DEF vars
<1> QED BY <1>3, <1>4, <1>5, <1>6 DEF Next

\* The nodes of a trie are bit strings of the structure's length, and there are never
\* more of them than the map was declared for.
THEOREM TypeCorrect == Spec => []TypeOK
<1>1. BaseInv => TypeOK
  BY DEF BaseInv
<1> QED BY <1>1, BaseInvInit, BaseInvNext, PTL DEF Spec

-----------------------------------------------------------------------------
(* The trie holds the entries of the P4 table.                             *)

LEMMA IInvInit == Init => IInv
<1> SUFFICES ASSUME Init PROVE IInv
  OBVIOUS
<1>1. BaseInv
  BY BaseInvInit
<1>2. Cardinality(trie) = 0 /\ trie = {} /\ declared = {} /\ next = 1
  BY FS_EmptySet DEF Init
<1> QED BY <1>1, <1>2 DEF IInv, DistinctInv, NodesInv

\* An update with the length that the trie should see.
LEMMA UpdateKeepsNodes ==
  ASSUME BaseInv, NodesInv, NEW e \in Entry(table.exactBytes),
         TrieUpdate(ControlPrefixLen(e), emitKey(e.key), e.action), Declare(e)
  PROVE  trie' = {Node(d) : d \in declared'}
<1> DEFINE kept == {c \in declared : ~SameEntry(c, e)}
<1>1. table \in Tables /\ declared \subseteq Entry(table.exactBytes) /\ trie = {Node(d) : d \in declared}
  BY DEF BaseInv, TypeOK, NodesInv
<1>2. trie \ SameNode(ControlPrefixLen(e), emitKey(e.key)) = {Node(d) : d \in kept}
  BY <1>1, NodesWithout
<1>3. trie' = {Node(d) : d \in kept} \cup {Node(e)}
  BY <1>2 DEF TrieUpdate, Node
<1>4. declared' = kept \cup {e}
  BY DEF Declare
<1> QED BY <1>3, <1>4

LEMMA IInvNext ==
  ASSUME ConstEntriesFit
  PROVE  IInv /\ [Next]_vars => IInv'
<1> SUFFICES ASSUME IInv, [Next]_vars PROVE IInv'
  OBVIOUS
<1>1. BaseInv /\ BaseInv' /\ DistinctInv
  BY BaseInvNext DEF IInv
<1>2. /\ table \in Tables /\ next \in 1 .. Len(table.entries) + 1
      /\ declared \subseteq Entry(table.exactBytes)
      /\ table.entries \in Seq(Entry(table.exactBytes)) /\ Len(table.entries) \in Nat
  BY <1>1, TableType DEF BaseInv, TypeOK
<1>3. table' = table
  BY DEF Next, InitialiseEntry, AddEntry, DeleteEntry, vars
<1>4. Covered' = Covered /\ \A e : Node(e)' = Node(e)
  BY <1>3, SameStructure
<1>5. \A d, e : SameEntry(d, e)' <=> SameEntry(d, e)
  BY DEF SameEntry, Matches
<1>6. SUFFICES /\ \A d, e \in declared' : SameEntry(d, e) => d = e
               /\ Covered => /\ trie' = {Node(e) : e \in declared'}
                             /\ table.entries # <<>> => Cardinality(trie') < next'
  <2>1. DistinctInv'
    BY <1>5, <1>6 DEF DistinctInv
  <2>2. ASSUME Covered PROVE NodesInv'
    BY <1>3, <1>4, <1>6, <2>2 DEF NodesInv
  <2> QED BY <1>1, <1>4, <2>1, <2>2 DEF IInv
<1>7. CASE InitialiseEntry
  <2> DEFINE e == table.entries[next]
  <2>1. /\ next \in DOMAIN table.entries /\ e \in Entry(table.exactBytes)
        /\ table.entries # <<>> /\ next <= Len(table.entries)
    BY <1>2, <1>7 DEF InitialiseEntry
  <2>2. Declare(e) /\ next' = next + 1
    BY <1>7 DEF InitialiseEntry
  <2>3. \A d, c \in declared' : SameEntry(d, c) => d = c
    <3> HIDE DEF e
    <3> QED BY <1>1, <1>2, <2>1, <2>2, StillDistinct DEF Declare
  <2>4. ASSUME Covered
        PROVE  trie' = {Node(d) : d \in declared'} /\ Cardinality(trie') < next'
    <3>1. FrontBytes = 0 /\ table.exactBytes + table.padBytes = 0
      BY <2>1, <2>4 DEF Covered, FrontBytes
    <3>2. NodesInv /\ Cardinality(trie) < next
      BY <2>1, <2>4 DEF IInv, NodesInv
    <3>3. /\ ConstPrefixLen(e) = ControlPrefixLen(e)
          /\ ConstPrefixLen(e) \in 0 .. LookupPrefixLen
      <4>1. /\ e.plen \in 0 .. LpmBits /\ (~e.masked => e.plen = LpmBits)
            /\ ControlPrefixLen(e) = ByteBits * FrontBytes + e.plen
            /\ ControlPrefixLen(e) \in 0 .. LookupPrefixLen
        <5> HIDE DEF e
        <5> QED BY <1>2, <2>1, EntryType
      <4>2. e.masked \/ DefaultPrefixLen = LpmBits
        BY <1>2, <2>1, <3>1 DEF ConstEntriesFit
      <4>3. ControlPrefixLen(e) = e.plen
        BY <3>1, <4>1, StructureBits, ConstantsAssumption
      <4> QED BY <4>1, <4>2, <4>3 DEF ConstPrefixLen
    <3>4. Cardinality(trie) \in Nat
      BY <1>1, FS_CardinalityType DEF BaseInv
    <3>5. CanUpdate(ConstPrefixLen(e))
      <4>1. Len(table.entries) <= MaxEntries
        BY <1>2 DEF ConstEntriesFit
      <4>2. Cardinality(trie) < MaxEntries
        BY <1>2, <2>1, <3>2, <3>4, <4>1, ConstantsAssumption
      <4> QED BY <1>2, <3>3, <4>2, StructureBits DEF CanUpdate
    <3>6. TrieUpdate(ControlPrefixLen(e), emitKey(e.key), e.action)
      BY <1>7, <3>3, <3>5 DEF InitialiseEntry
    <3>7. trie' = {Node(d) : d \in declared'}
      <4> HIDE DEF e
      <4> QED BY <1>1, <2>1, <2>2, <3>2, <3>6, UpdateKeepsNodes
    <3>8. Cardinality(trie') <= Cardinality(trie) + 1 /\ Cardinality(trie') \in Nat
      <4>1. ControlPrefixLen(e) \in Nat /\ CanUpdate(ControlPrefixLen(e))
        BY <1>2, <3>3, <3>5, StructureBits
      <4> HIDE DEF e
      <4>2. emitKey(e.key) \in [1 .. LookupPrefixLen -> {0, 1}] /\ e.action \in Actions
        BY <1>2, <2>1, EntryType, KeyBits
      <4> QED BY <1>1, <3>6, <4>1, <4>2, UpdateKeepsSize
    <3> QED BY <1>2, <2>2, <3>2, <3>4, <3>7, <3>8
  <2> QED BY <2>3, <2>4
<1>8. ASSUME NEW e \in Entry(table.exactBytes), AddEntry(e)
      PROVE  /\ \A d, c \in declared' : SameEntry(d, c) => d = c
             /\ Covered => /\ trie' = {Node(d) : d \in declared'}
                           /\ table.entries # <<>> => Cardinality(trie') < next'
  <2>1. /\ table.entries = <<>> /\ Declare(e)
        /\ TrieUpdate(ControlPrefixLen(e), ControlKey(e.key), e.action)
    BY <1>8 DEF AddEntry
  <2>2. \A d, c \in declared' : SameEntry(d, c) => d = c
    BY <1>1, <1>2, <1>8, <2>1, StillDistinct DEF Declare
  <2>3. Covered => ControlKey(e.key) = emitKey(e.key)
    BY <1>2, <1>8, <2>1, EntryType, ControlBits DEF Covered
  <2>4. Covered => trie' = {Node(d) : d \in declared'}
    BY <1>1, <1>8, <2>1, <2>3, UpdateKeepsNodes DEF IInv
  <2> QED BY <2>1, <2>2, <2>4
<1>9. ASSUME NEW e \in Entry(table.exactBytes), DeleteEntry(e)
      PROVE  /\ \A d, c \in declared' : SameEntry(d, c) => d = c
             /\ Covered => /\ trie' = {Node(d) : d \in declared'}
                           /\ table.entries # <<>> => Cardinality(trie') < next'
  <2>1. /\ table.entries = <<>>
        /\ trie' = trie \ SameNode(ControlPrefixLen(e), ControlKey(e.key))
        /\ declared' = {d \in declared : ~SameEntry(d, e)}
    BY <1>9 DEF DeleteEntry
  <2>2. \A d, c \in declared' : SameEntry(d, c) => d = c
    BY <1>1, <2>1 DEF DistinctInv
  <2>3. Covered => ControlKey(e.key) = emitKey(e.key)
    BY <1>2, <1>9, <2>1, EntryType, ControlBits DEF Covered
  <2>4. Covered => trie' = {Node(d) : d \in declared'}
    BY <1>2, <1>9, <2>1, <2>3, NodesWithout DEF IInv, NodesInv
  <2> QED BY <2>1, <2>2, <2>4
<1>10. CASE UNCHANGED vars
  BY <1>1, <1>10 DEF vars, DistinctInv, IInv, NodesInv
<1> QED BY <1>7, <1>8, <1>9, <1>10 DEF Next

-----------------------------------------------------------------------------
(* The trie finds what the P4 table finds.                                 *)

LEMMA SameLookup ==
  ASSUME BaseInv, DistinctInv, NodesInv, NEW key \in Key(table.exactBytes)
  PROVE  TrieLookup(emitKey(key)) = P4Lookup(key)
<1> DEFINE data == emitKey(key)
           found == {n \in trie : n.prefixlen <= LookupPrefixLen /\ Agree(n.data, data, n.prefixlen)}
           longestFound == {n \in found : \A m \in found : m.prefixlen <= n.prefixlen}
           matching == {e \in declared : Matches(e, key)}
           longest == {e \in matching : \A d \in matching : d.plen <= e.plen}
<1>1. table \in Tables /\ declared \subseteq Entry(table.exactBytes) /\ trie = {Node(d) : d \in declared}
  BY DEF BaseInv, TypeOK, NodesInv
<1>2. \A e \in declared : /\ Node(e).prefixlen = ControlPrefixLen(e) /\ Node(e).data = emitKey(e.key)
                          /\ Node(e).action = e.action
  BY DEF Node
<1>3. \A e \in declared : Matches(e, key) <=>
        Node(e).prefixlen <= LookupPrefixLen /\ Agree(Node(e).data, data, Node(e).prefixlen)
  <2> SUFFICES ASSUME NEW e \in declared
               PROVE  Matches(e, key) <=> ControlPrefixLen(e) <= LookupPrefixLen
                                          /\ Agree(emitKey(e.key), data, ControlPrefixLen(e))
    BY <1>2
  <2>1. /\ e.key \in Key(table.exactBytes) /\ e.plen \in 0 .. LpmBits
        /\ ControlPrefixLen(e) = ByteBits * FrontBytes + e.plen
        /\ ControlPrefixLen(e) \in 0 .. LookupPrefixLen
    BY <1>1, EntryType
  <2>2. Agree(emitKey(e.key), data, ByteBits * FrontBytes + e.plen)
          <=> e.key.exact = key.exact /\ Agree(Bits(e.key.lpm), Bits(key.lpm), e.plen)
    BY <1>1, <2>1, KeysAgree
  <2>3. ControlPrefixLen(e) <= LookupPrefixLen
    BY <1>1, <2>1, StructureBits
  <2> QED BY <2>1, <2>2, <2>3 DEF Matches
<1>4. found = {Node(e) : e \in matching}
  BY <1>1, <1>3
<1>5. \A e \in matching : e.plen \in Nat
  BY <1>1, EntryType, StructureBits
<1>6. \A d, e \in matching : Node(d).prefixlen <= Node(e).prefixlen <=> d.plen <= e.plen
  <2> SUFFICES ASSUME NEW d \in matching, NEW e \in matching
               PROVE  ControlPrefixLen(d) <= ControlPrefixLen(e) <=> d.plen <= e.plen
    BY <1>2
  <2>1. /\ ControlPrefixLen(d) = ByteBits * FrontBytes + d.plen
        /\ ControlPrefixLen(e) = ByteBits * FrontBytes + e.plen
    BY <1>1, EntryType
  <2> QED BY <1>1, <1>5, <2>1, StructureBits
<1>7. longestFound = {Node(e) : e \in longest}
  <2> HIDE DEF found, matching
  <2> QED BY <1>4, <1>6
<1>8. \A d, e \in longest : d = e
  <2> SUFFICES ASSUME NEW d \in longest, NEW e \in longest PROVE d = e
    OBVIOUS
  <2>1. d.plen = e.plen
    BY <1>5
  <2>2. /\ d.key.exact = key.exact /\ Agree(Bits(d.key.lpm), Bits(key.lpm), d.plen)
        /\ e.key.exact = key.exact /\ Agree(Bits(e.key.lpm), Bits(key.lpm), e.plen)
    BY DEF Matches
  <2>3. SameEntry(d, e)
    BY <2>1, <2>2 DEF SameEntry, Matches, Agree
  <2> QED BY <2>3 DEF DistinctInv
<1>9. TrieLookup(data) = IF found = {} THEN NoMatch ELSE (CHOOSE n \in longestFound : TRUE).action
  BY DEF TrieLookup
<1>10. P4Lookup(key) = IF matching = {} THEN NoMatch ELSE (CHOOSE e \in longest : TRUE).action
  BY DEF P4Lookup
<1>11. found = {} <=> matching = {}
  BY <1>4
<1>12. \A e \in longest : Node(e).action = e.action
  BY <1>2
<1> HIDE DEF data, found, longestFound, matching, longest
<1>13. CASE longest = {}
  <2>1. longestFound = longest
    BY <1>7, <1>13
  <2> QED BY <1>9, <1>10, <1>11, <2>1 DEF data
<1>14. ASSUME NEW e \in longest
       PROVE  (CHOOSE n \in longestFound : TRUE).action = (CHOOSE c \in longest : TRUE).action
  <2>1. longest = {e} /\ longestFound = {Node(e)}
    BY <1>7, <1>8, <1>14
  <2>2. (CHOOSE n \in longestFound : TRUE) = Node(e) /\ (CHOOSE c \in longest : TRUE) = e
    BY <2>1
  <2> QED BY <1>12, <1>14, <2>2
<1>15. CASE longest # {}
  BY <1>9, <1>10, <1>11, <1>14, <1>15 DEF data
<1> QED BY <1>13, <1>15

\* For fields, bytes and padding of any size the trie gives every packet the action
\* that the P4 table gives it, if the control plane swaps LPM fields as the lookup does,
\* the const entries fit and those without a mask are of a field as wide as the prefix
\* length they get.
THEOREM LooksUpLikeP4 ==
  ASSUME ConstEntriesFit
  PROVE  Spec => []MatchesLikeP4
<1>1. IInv => MatchesLikeP4
  BY SameLookup DEF IInv, Covered, MatchesLikeP4, Agrees
<1>2. IInv /\ [Next]_vars => IInv'
  BY IInvNext
<1> QED BY <1>1, <1>2, IInvInit, PTL DEF Spec

=============================================================================
