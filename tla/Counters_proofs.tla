-------------------------- MODULE Counters_proofs --------------------------
(***************************************************************************)
(* Proofs about Counters: a pointer to an element that was replaced only   *)
(* ever leads to counters that are known to be off.                        *)
(***************************************************************************)
EXTENDS Counters, FiniteSetTheorems, TLAPS

-----------------------------------------------------------------------------
(* Counting with wrap-around.                                              *)

LEMMA SameRest ==
  ASSUME NEW m \in Nat \ {0}, NEW p \in Int, NEW q \in Int,
         NEW r \in 0 .. m - 1, NEW s \in 0 .. m - 1, m * p + r = m * q + s
  PROVE  r = s
<1>1. m * (p - q) = s - r
  BY Z3
<1>2. CASE p - q >= 1
  <2>1. m * (p - q) >= m
    BY <1>2, Z3
  <2> QED BY <1>1, <2>1
<1>3. CASE p - q <= -1
  <2>1. m * (p - q) <= -m
    BY <1>3, Z3
  <2> QED BY <1>1, <2>1
<1>4. CASE p = q
  BY <1>1, <1>4, Z3
<1> QED BY <1>2, <1>3, <1>4

LEMMA WrapType == ASSUME NEW n \in Nat PROVE Wrap(n) \in 0 .. Modulus - 1
BY ConstantsAssumption DEF Wrap

LEMMA WrapWrapped ==
  ASSUME NEW a \in Nat, NEW b \in Nat
  PROVE  Wrap(Wrap(a) + b) = Wrap(a + b)
<1> DEFINE m == Modulus
           r == a % m
           x == r + b
           y == a + b
<1>1. m \in Nat \ {0} /\ a \div m \in Int /\ r \in 0 .. m - 1
  BY ConstantsAssumption
<1>2. a = m * (a \div m) + r
  BY <1>1
<1>3. x \in Nat /\ y \in Nat
  BY <1>1
<1>4. x \div m \in Int /\ x % m \in 0 .. m - 1 /\ y \div m \in Int /\ y % m \in 0 .. m - 1
  BY <1>1, <1>3
<1>5. x = m * (x \div m) + (x % m) /\ y = m * (y \div m) + (y % m)
  BY <1>1, <1>3
<1>6. y = m * (a \div m) + x
  BY <1>1, <1>2
<1>7. m * (y \div m) + (y % m) = m * ((a \div m) + (x \div m)) + (x % m)
  BY <1>1, <1>4, <1>5, <1>6, Z3
<1>8. (a \div m) + (x \div m) \in Int
  BY <1>1, <1>4
<1> HIDE DEF m, x, y
<1>9. y % m = x % m
  BY <1>1, <1>4, <1>7, <1>8, SameRest
<1> QED BY <1>9 DEF Wrap, m, r, x, y

-----------------------------------------------------------------------------
(* The inductive invariant.                                                *)

\* An element belongs to one index or is the extra one of one CPU.
Disjoint ==
  /\ \A j, k \in Indices : j # k /\ entry[j] # NoSlot => entry[j] # entry[k]
  /\ \A c, d \in CPUs : c # d => extra[c] # extra[d]
  /\ \A k \in Indices, c \in CPUs : entry[k] # extra[c]

\* A pointer leads to the element of its index; or the index has lost counts, and the
\* pointer leads to an extra element or to the element of another such index.
Leads(c) ==
  \/ call[c].elem = entry[call[c].key]
  \/ /\ call[c].key \in lost
     /\ \/ \E d \in CPUs : call[c].elem = extra[d]
        \/ \E k \in lost : call[c].elem = entry[k]

\* In the array, what fits is found and nothing is lost.
DenseInv ==
  /\ \A k \in Indices : k < Size => entry[k] # NoSlot /\ k \notin lost
  /\ \A c \in CPUs : call[c].pc = "missed" => ~(call[c].key < Size)

IInv ==
  /\ TypeOK
  /\ Disjoint
  /\ \A c \in CPUs : call[c].pc = "found" => Leads(c)
  /\ ~sparse => DenseInv
  /\ ExactUnlessLost

-----------------------------------------------------------------------------

LEMMA SlotFacts ==
  /\ Cardinality(CPUs) \in Nat /\ Size \in Nat /\ NoSlot = Size + Cardinality(CPUs)
  /\ \A s \in Slots : s \in Nat /\ s < NoSlot
  /\ NoSlot \notin Slots
  /\ Size .. NoSlot - 1 \subseteq Slots /\ 0 .. Size - 1 \subseteq Slots
<1>1. Cardinality(CPUs) \in Nat /\ Size \in Nat \ {0}
  BY ConstantsAssumption, FS_CardinalityType
<1>2. ASSUME NEW s \in Slots PROVE s \in Nat /\ s < NoSlot
  BY <1>1 DEF Slots, NoSlot
<1>3. ASSUME NEW s \in Size .. NoSlot - 1 PROVE s \in Slots
  <2>1. s - Size \in 0 .. Cardinality(CPUs) - 1 /\ s = Size + (s - Size)
    BY <1>1, <1>3 DEF NoSlot
  <2> QED BY <2>1 DEF Slots
<1>4. 0 .. Size - 1 \subseteq Slots
  BY DEF Slots
<1>5. NoSlot \notin Slots
  BY <1>1, <1>2 DEF NoSlot
<1> QED BY <1>1, <1>2, <1>3, <1>4, <1>5 DEF NoSlot

LEMMA AmountsType == Amounts \subseteq Nat
BY ConstantsAssumption DEF Amounts

LEMMA LookupStep == ASSUME IInv, NEW c \in CPUs, Lookup(c) PROVE IInv'
<1> USE DEF IInv
<1>1. PICK k \in Indices, inc \in Amounts :
        call' = [call EXCEPT ![c] =
          [pc |-> IF entry[k] = NoSlot THEN "missed" ELSE "found",
           key |-> k, inc |-> inc, elem |-> entry[k]]]
  BY DEF Lookup
<1>2. calls < MaxCalls /\ calls' = calls + 1 /\ UNCHANGED <<sparse, value, entry, extra, made, lost>>
  BY DEF Lookup
<1> DEFINE new == [pc |-> IF entry[k] = NoSlot THEN "missed" ELSE "found",
                   key |-> k, inc |-> inc, elem |-> entry[k]]
<1>3. new \in Call
  BY AmountsType DEF Call, TypeOK
<1>4. call' \in [CPUs -> Call] /\ call'[c] = new /\ \A d \in CPUs \ {c} : call'[d] = call[d]
  BY <1>1, <1>3 DEF TypeOK
<1>5. calls' \in 0 .. MaxCalls
  BY <1>2, ConstantsAssumption DEF TypeOK
<1>6. \A d \in CPUs : call'[d].pc = "found" => call'[d].elem # NoSlot
  BY <1>4 DEF TypeOK
<1>7. TypeOK'
  BY <1>2, <1>4, <1>5, <1>6 DEF TypeOK
<1>8. ASSUME NEW d \in CPUs, call'[d].pc = "found" PROVE Leads(d)'
  BY <1>2, <1>4, <1>8 DEF Leads
<1>9. ~sparse' => DenseInv'
  <2> SUFFICES ASSUME ~sparse PROVE DenseInv'
    BY <1>2
  <2> QED BY <1>2, <1>4 DEF DenseInv
<1>10. Disjoint' /\ ExactUnlessLost'
  BY <1>2 DEF Disjoint, ExactUnlessLost, Count
<1> QED BY <1>7, <1>8, <1>9, <1>10

\* The end of a call.
LEMMA IdleCalls ==
  ASSUME TypeOK, NEW c \in CPUs, Idle(c)
  PROVE  /\ call' \in [CPUs -> Call]
         /\ call'[c].pc = "idle"
         /\ \A d \in CPUs \ {c} : call'[d] = call[d]
<1>1. call[c] \in Call
  BY DEF TypeOK
<1> DEFINE r == [[call[c] EXCEPT !.pc = "idle"] EXCEPT !.elem = NoSlot]
<1>2. r \in Call /\ r.pc = "idle"
  BY <1>1 DEF Call
<1>3. call' = [call EXCEPT ![c] = r]
  BY DEF Idle, TypeOK
<1> HIDE DEF r
<1> QED BY <1>2, <1>3 DEF TypeOK

LEMMA MadeType ==
  ASSUME TypeOK, NEW c \in CPUs, Made(c)
  PROVE  /\ call[c].key \in Indices /\ call[c].inc \in Nat
         /\ made' \in [Indices -> Nat]
         /\ made'[call[c].key] = made[call[c].key] + call[c].inc
         /\ \A k \in Indices \ {call[c].key} : made'[k] = made[k]
<1>1. call[c].key \in Indices /\ call[c].inc \in Nat /\ made \in [Indices -> Nat]
  BY DEF TypeOK, Call
<1> QED BY <1>1 DEF Made

LEMMA FetchAndAddStep == ASSUME IInv, NEW c \in CPUs, FetchAndAdd(c) PROVE IInv'
<1> USE DEF IInv
<1> DEFINE s == call[c].elem
           key == call[c].key
           inc == call[c].inc
<1>1. /\ call[c].pc = "found"
      /\ value' = [value EXCEPT ![s] = Wrap(@ + inc)]
      /\ Made(c) /\ Idle(c)
      /\ UNCHANGED <<sparse, entry, extra, lost, calls>>
  BY DEF FetchAndAdd
<1>2. s \in Slots /\ key \in Indices /\ inc \in Nat /\ value[s] \in Nat /\ made[key] \in Nat
  <2>1. s \in Slots /\ key \in Indices /\ inc \in Nat
    BY <1>1 DEF TypeOK, Call
  <2>2. value[s] \in 0 .. Modulus - 1 /\ made[key] \in Nat
    BY <2>1 DEF TypeOK
  <2> QED BY <2>1, <2>2
<1>3. Wrap(value[s] + inc) \in 0 .. Modulus - 1
  BY <1>2, WrapType
<1>4. value' \in [Slots -> 0 .. Modulus - 1] /\ value'[s] = Wrap(value[s] + inc)
      /\ \A t \in Slots \ {s} : value'[t] = value[t]
  BY <1>1, <1>2, <1>3 DEF TypeOK
<1>5. TypeOK'
  BY <1>1, <1>4, IdleCalls, MadeType DEF TypeOK
<1>6. ASSUME NEW d \in CPUs, call'[d].pc = "found" PROVE Leads(d)'
  <2>1. call'[d] = call[d]
    BY <1>1, <1>6, IdleCalls
  <2> QED BY <1>1, <1>6, <2>1 DEF Leads
<1>7. ~sparse' => DenseInv'
  <2> SUFFICES ASSUME ~sparse PROVE DenseInv'
    BY <1>1
  <2> QED BY <1>1, IdleCalls DEF DenseInv
<1>8. ASSUME NEW k \in Indices \ lost PROVE Count(k)' = Wrap(made'[k])
  <2>1. Count(k) = Wrap(made[k])
    BY DEF ExactUnlessLost
  <2>2. CASE k = key /\ s = entry[key]
    <3>1. Count(k) = value[s] /\ Count(k)' = Wrap(value[s] + inc)
      BY <1>1, <1>2, <1>4, <2>2, SlotFacts DEF Count
    <3>2. made'[k] = made[key] + inc
      BY <1>1, <2>2, MadeType
    <3> QED BY <1>2, <2>1, <2>2, <3>1, <3>2, WrapWrapped
  <2>3. CASE ~(k = key /\ s = entry[key])
    <3>1. Leads(c)
      BY <1>1
    <3>2. entry[k] # s /\ k # key
      BY <1>2, <2>3, <3>1, SlotFacts DEF Leads, Disjoint, TypeOK
    <3>3. Count(k)' = Count(k)
      BY <1>1, <1>4, <3>2, SlotFacts DEF Count, TypeOK
    <3> QED BY <1>1, <2>1, <3>2, <3>3, MadeType
  <2> QED BY <2>2, <2>3
<1>9. Disjoint'
  BY <1>1 DEF Disjoint
<1> QED BY <1>1, <1>5, <1>6, <1>7, <1>8, <1>9 DEF ExactUnlessLost

\* An insertion takes the slot n for index k; what it gives up becomes c's extra slot.
LEMMA InsertStep == ASSUME IInv, NEW c \in CPUs, Insert(c) PROVE IInv'
<1> USE DEF IInv
<1> DEFINE key == call[c].key
           inc == call[c].inc
<1>1. call[c].pc = "missed" /\ Made(c) /\ Idle(c) /\ UNCHANGED <<sparse, calls>>
  BY DEF Insert
<1>2. key \in Indices /\ inc \in Nat /\ made[key] \in Nat
  BY MadeType, <1>1 DEF TypeOK
<1>3. init_val \in 0 .. Modulus - 1
  BY WrapType DEF init_val
<1>4. /\ call' \in [CPUs -> Call] /\ made' \in [Indices -> Nat]
      /\ \A d \in CPUs : call'[d].pc = "found" => d # c /\ call'[d] = call[d]
      /\ \A d \in CPUs : call'[d].pc = "missed" => call[d].pc = "missed" /\ call'[d] = call[d]
      /\ made'[key] = made[key] + inc
      /\ \A k \in Indices \ {key} : made'[k] = made[k]
  BY <1>1, IdleCalls, MadeType
\* What is left to show in each case.
<1>5. ASSUME value' \in [Slots -> 0 .. Modulus - 1], entry' \in [Indices -> Slots \cup {NoSlot}],
             extra' \in [CPUs -> Slots], lost' \subseteq Indices, Disjoint',
             \A d \in CPUs : call'[d].pc = "found" => Leads(d)',
             ~sparse => DenseInv',
             \A k \in Indices \ lost' : Count(k)' = Wrap(made'[k])
      PROVE  IInv'
  <2>1. \A d \in CPUs : call'[d].pc = "found" => call'[d].elem # NoSlot
    BY <1>4 DEF TypeOK
  <2>2. TypeOK'
    BY <1>1, <1>4, <1>5, <2>1 DEF TypeOK
  <2> QED BY <1>1, <1>5, <2>2 DEF ExactUnlessLost
<1>6. ASSUME sparse, entry[key] # NoSlot,
             value' = [value EXCEPT ![extra[c]] = init_val],
             entry' = [entry EXCEPT ![key] = extra[c]],
             extra' = [extra EXCEPT ![c] = entry[key]],
             lost' = lost \cup {key}
      PROVE  IInv'
  <2>1. extra[c] \in Slots /\ entry[key] \in Slots
    BY <1>2, <1>6 DEF TypeOK
  <2>2. /\ entry'[key] = extra[c] /\ \A k \in Indices \ {key} : entry'[k] = entry[k]
        /\ extra'[c] = entry[key] /\ \A d \in CPUs \ {c} : extra'[d] = extra[d]
        /\ \A t \in Slots \ {extra[c]} : value'[t] = value[t]
    BY <1>2, <1>6, <2>1 DEF TypeOK
  <2>3. value' \in [Slots -> 0 .. Modulus - 1] /\ entry' \in [Indices -> Slots \cup {NoSlot}]
        /\ extra' \in [CPUs -> Slots] /\ lost' \subseteq Indices
    BY <1>2, <1>3, <1>6, <2>1 DEF TypeOK
  <2>4. Disjoint'
    <3>1. \A j, k \in Indices : j # k /\ entry'[j] # NoSlot => entry'[j] # entry'[k]
      BY <2>2 DEF Disjoint
    <3>2. \A d, e \in CPUs : d # e => extra'[d] # extra'[e]
      BY <1>2, <2>2 DEF Disjoint
    <3>3. \A k \in Indices, d \in CPUs : entry'[k] # extra'[d]
      BY <1>2, <1>6, <2>2 DEF Disjoint
    <3> QED BY <3>1, <3>2, <3>3 DEF Disjoint
  <2>5. ASSUME NEW d \in CPUs, call'[d].pc = "found" PROVE Leads(d)'
    <3>1. call'[d] = call[d] /\ Leads(d)
      BY <1>4, <2>5
    <3>2. CASE call[d].elem = entry[call[d].key]
      BY <1>6, <2>2, <3>1, <3>2 DEF Leads, TypeOK, Call
    <3>3. CASE call[d].key \in lost /\ \E e \in CPUs : call[d].elem = extra[e]
      <4>1. PICK e \in CPUs : call[d].elem = extra[e]
        BY <3>3
      <4>2. call[d].elem = entry'[key] \/ call[d].elem = extra'[e]
        BY <2>2, <4>1
      <4> QED BY <1>2, <1>6, <3>1, <3>3, <4>2 DEF Leads
    <3>4. CASE call[d].key \in lost /\ \E k \in lost : call[d].elem = entry[k]
      <4>1. PICK k \in lost : call[d].elem = entry[k]
        BY <3>4
      <4>2. k \in Indices
        BY DEF TypeOK
      <4>3. call[d].elem = entry'[k] \/ call[d].elem = extra'[c]
        BY <2>2, <4>1, <4>2
      <4> QED BY <1>6, <3>1, <3>4, <4>3 DEF Leads
    <3> QED BY <3>1, <3>2, <3>3, <3>4 DEF Leads
  <2>6. ASSUME NEW k \in Indices \ lost' PROVE Count(k)' = Wrap(made'[k])
    <3>1. k # key /\ k \notin lost
      BY <1>6, <2>6
    <3>2. Count(k)' = Count(k) /\ made'[k] = made[k]
      BY <1>4, <2>2, <3>1 DEF Count, Disjoint, TypeOK
    <3> QED BY <3>1, <3>2 DEF ExactUnlessLost
  <2> QED BY <1>5, <1>6, <2>3, <2>4, <2>5, <2>6
<1>7. ASSUME sparse, entry[key] = NoSlot, NEW n \in Free,
             value' = [value EXCEPT ![n] = init_val],
             entry' = [entry EXCEPT ![key] = n],
             lost' = IF inc = 1 THEN lost ELSE lost \cup {key},
             UNCHANGED extra
      PROVE  IInv'
  <2>1. n \in Slots /\ n # NoSlot /\ (\A k \in Indices : entry[k] # n) /\ (\A d \in CPUs : extra[d] # n)
    BY SlotFacts DEF Free
  <2>2. /\ entry'[key] = n /\ \A k \in Indices \ {key} : entry'[k] = entry[k]
        /\ value'[n] = init_val /\ \A t \in Slots \ {n} : value'[t] = value[t]
    BY <1>2, <1>7, <2>1 DEF TypeOK
  <2>3. value' \in [Slots -> 0 .. Modulus - 1] /\ entry' \in [Indices -> Slots \cup {NoSlot}]
        /\ extra' \in [CPUs -> Slots] /\ lost' \subseteq Indices
    BY <1>2, <1>3, <1>7, <2>1 DEF TypeOK
  <2>4. Disjoint'
    BY <1>7, <2>1, <2>2 DEF Disjoint
  <2>5. ASSUME NEW d \in CPUs, call'[d].pc = "found" PROVE Leads(d)'
    <3>1. call'[d] = call[d] /\ Leads(d) /\ call[d].elem # NoSlot /\ call[d].key \in Indices
      BY <1>4, <2>5 DEF TypeOK, Call
    <3>2. \A k \in Indices : call[d].elem = entry[k] => call[d].elem = entry'[k]
      BY <1>7, <2>2, <3>1
    <3>3. lost \subseteq lost' /\ lost \subseteq Indices
      BY <1>7 DEF TypeOK
    <3> QED BY <1>7, <3>1, <3>2, <3>3 DEF Leads
  <2>6. ASSUME NEW k \in Indices \ lost' PROVE Count(k)' = Wrap(made'[k])
    <3>1. k \notin lost /\ (k = key => inc = 1)
      BY <1>7, <2>6
    <3>2. CASE k = key
      <4>1. Count(k) = 0 /\ Count(k)' = Wrap(1) /\ made'[k] = made[k] + 1
        BY <1>4, <1>7, <2>1, <2>2, <3>1, <3>2 DEF Count, init_val
      <4>2. Wrap(made[k]) = 0
        BY <3>1, <4>1 DEF ExactUnlessLost
      <4>3. Wrap(Wrap(made[k]) + 1) = Wrap(made[k] + 1)
        BY <1>2, <3>2, WrapWrapped
      <4> QED BY <4>1, <4>2, <4>3
    <3>3. CASE k # key
      <4>1. Count(k)' = Count(k) /\ made'[k] = made[k]
        BY <1>4, <2>1, <2>2, <3>3 DEF Count, TypeOK
      <4> QED BY <3>1, <4>1 DEF ExactUnlessLost
    <3> QED BY <3>2, <3>3
  <2> QED BY <1>5, <1>7, <2>3, <2>4, <2>5, <2>6
<1>8. ASSUME ~sparse \/ (entry[key] = NoSlot /\ Free = {}),
             lost' = lost \cup {key}, UNCHANGED <<value, entry, extra>>
      PROVE  IInv'
  <2>1. lost' \subseteq Indices
    BY <1>2, <1>8 DEF TypeOK
  <2>2. ASSUME NEW d \in CPUs, call'[d].pc = "found" PROVE Leads(d)'
    BY <1>4, <1>8, <2>2 DEF Leads
  <2>3. ~sparse => DenseInv'
    BY <1>1, <1>4, <1>8 DEF DenseInv
  <2>4. ASSUME NEW k \in Indices \ lost' PROVE Count(k)' = Wrap(made'[k])
    <3>1. k # key /\ k \notin lost /\ Count(k)' = Count(k)
      BY <1>8, <2>4 DEF Count
    <3> QED BY <1>4, <3>1 DEF ExactUnlessLost
  <2>5. Disjoint'
    BY <1>8 DEF Disjoint
  <2> QED BY <1>5, <1>8, <2>1, <2>2, <2>3, <2>4, <2>5 DEF TypeOK
<1> QED BY <1>6, <1>7, <1>8 DEF Insert

-----------------------------------------------------------------------------

LEMMA InitInv == Init => IInv
<1> SUFFICES ASSUME Init PROVE IInv
  OBVIOUS
<1>1. PICK f \in [CPUs -> Size .. NoSlot - 1] : (\A c, d \in CPUs : c # d => f[c] # f[d]) /\ extra = f
  BY DEF Init
<1>2. extra \in [CPUs -> Slots]
  BY <1>1, SlotFacts
<1>3. entry \in [Indices -> Slots \cup {NoSlot}]
  <2>1. ASSUME NEW k \in Indices, k < Size PROVE k \in Slots
    BY <2>1, SlotFacts, ConstantsAssumption
  <2> QED BY <2>1 DEF Init
<1>4. (CHOOSE k \in Indices : TRUE) \in Indices
  BY ConstantsAssumption
<1>5. TypeOK
  BY <1>2, <1>3, <1>4, ConstantsAssumption DEF Init, TypeOK, Call
<1>6. Disjoint
  <2>1. ASSUME NEW k \in Indices, NEW c \in CPUs PROVE entry[k] # extra[c]
    <3>1. extra[c] \in Size .. NoSlot - 1
      BY <1>1
    <3>2. entry[k] = NoSlot \/ entry[k] < Size
      BY DEF Init
    <3> QED BY <3>1, <3>2, SlotFacts
  <2>2. \A j, k \in Indices : j # k /\ entry[j] # NoSlot => entry[j] # entry[k]
    BY DEF Init
  <2> QED BY <1>1, <2>1, <2>2 DEF Disjoint
<1>7. ~sparse => DenseInv
  <2>1. ASSUME NEW k \in Indices, k < Size PROVE k # NoSlot
    BY <2>1, SlotFacts, ConstantsAssumption
  <2> QED BY <2>1 DEF Init, DenseInv
<1>8. ExactUnlessLost
  <2>1. Wrap(0) = 0
    BY ConstantsAssumption DEF Wrap
  <2>2. ASSUME NEW k \in Indices PROVE Count(k) = 0
    BY <1>3 DEF Count, Init
  <2> QED BY <2>1, <2>2 DEF ExactUnlessLost, Init
<1>9. \A c \in CPUs : call[c].pc = "idle"
  BY DEF Init
<1> QED BY <1>5, <1>6, <1>7, <1>8, <1>9 DEF IInv

LEMMA Invariant == Spec => []IInv
<1>1. ASSUME IInv, [Next]_vars PROVE IInv'
  <2>1. CASE Next
    BY <1>1, <2>1, LookupStep, FetchAndAddStep, InsertStep DEF Next
  <2>2. CASE UNCHANGED vars
    BY <1>1, <2>2 DEF vars, IInv, TypeOK, Disjoint, Leads, DenseInv, ExactUnlessLost, Count
  <2> QED BY <1>1, <2>1, <2>2
<1> QED BY <1>1, InitInv, PTL DEF Spec

\* No call reads or adds through the NULL pointer of a failed lookup.
THEOREM TypeCorrect == Spec => []TypeOK
<1>1. IInv => TypeOK
  BY DEF IInv
<1> QED BY <1>1, Invariant, PTL

\* The code counts exactly until one of its insertions overwrites a counter, finds no
\* room or starts a counter with another amount than 1.
THEOREM Exact == Spec => []ExactUnlessLost
<1>1. IInv => ExactUnlessLost
  BY DEF IInv
<1> QED BY <1>1, Invariant, PTL

\* In an array the insertion is never reached for an index that fits, and every call counts.
THEOREM ArrayExact == Spec => []DenseExact
<1>1. IInv => DenseExact
  BY DEF IInv, DenseInv, ExactUnlessLost, DenseExact
<1> QED BY <1>1, Invariant, PTL

=============================================================================
