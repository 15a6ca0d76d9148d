------------------------- MODULE Replication_proofs -------------------------
(***************************************************************************)
(* Proofs about Replication: for any number of CPUs, members and slots no  *)
(* member receives two copies, and a walk that the control plane disturbs  *)
(* no more than once serves the whole list.                                *)
(***************************************************************************)
EXTENDS Replication, SequenceTheorems, FiniteSetTheorems, TLAPS

-----------------------------------------------------------------------------
(* The inductive invariant.                                                *)

\* The members that are stored, the one not linked yet in front.
Chain == IF adding = HeadId THEN listed ELSE <<adding>> \o listed

\* The k-th member of a list; {0, 0} follows the last.
Nth(s, k) == IF k \in 1 .. Len(s) THEN s[k] ELSE HeadId

InMap == {id \in Ids : inner[id] # NoSlot}

\* The elements in the map form the list; those of members never change.
ListInv ==
  /\ \A id \in InMap : element[inner[id]].key = id
  /\ \A j, k \in 1 .. Len(Chain) : j # k => Chain[j] # Chain[k]
  /\ \A id \in Members : id \in InMap <=> \E k \in 1 .. Len(Chain) : Chain[k] = id
  /\ \A k \in 1 .. Len(Chain) : element[inner[Chain[k]]].next = Nth(Chain, k + 1)
  /\ HeadId \in InMap => element[inner[HeadId]].next = Nth(listed, 1)
  /\ HeadId \notin InMap => Chain = <<>>

SizeInv ==
  /\ IsFiniteSet(InMap)
  /\ Cardinality(InMap) = Len(Chain) + (IF HeadId \in InMap THEN 1 ELSE 0)
  /\ Cardinality(InMap) <= MaxClones

\* What follows the member that was served last, in memory.
After(w) == element[inner[w.sent[Len(w.sent)]]].next

\* Once a member is served, a walk is on an element that does not change: it reads no
\* link that is torn, and what it has served is a part of the list.
WalkInv(w) ==
  /\ w.sent # <<>> /\ w.pc \in {"port", "instance"} => w.elem = inner[w.sent[Len(w.sent)]]
  /\ w.sent # <<>> /\ w.pc = "instance" => w.port = After(w).port
  /\ w.sent # <<>> /\ w.pc \in {"lookup", "clone"} => w.next = After(w)
  /\ w.pc = "lookup" => w.next # HeadId
  /\ w.pc = "clone" => w.next \in Members /\ w.elem = inner[w.next] /\ w.elem # NoSlot
  /\ \E p \in Nat : p + Len(w.sent) <= Len(Chain)
                    /\ \A i \in 1 .. Len(w.sent) : w.sent[i] = Chain[p + i]

\* Until the control plane stores something after a link, the list that the walk began
\* with is still there, and the walk is on its way through it.
OnBefore(w) ==
  LET n == Len(w.sent) IN
  /\ n <= Len(w.before) /\ \A i \in 1 .. n : w.sent[i] = w.before[i]
  /\ Len(w.before) < MaxClones
  /\ w.i = IF w.pc = "clone" THEN n + 1 ELSE n
  /\ \A k \in 1 .. Len(w.before) :
       w.before[k] \in InMap /\ element[inner[w.before[k]]].next = Nth(w.before, k + 1)
  /\ w.pc \in {"port", "instance"} /\ n = 0 => element[w.elem].next = Nth(w.before, 1)
  /\ w.pc \in {"port", "instance"} /\ n = 0 /\ w.change = "none" => w.elem = inner[HeadId]
  /\ w.pc = "instance" => w.port = Nth(w.before, n + 1).port
  /\ w.pc \in {"lookup", "clone"} => w.next = Nth(w.before, n + 1)

WholeInv(w) ==
  w.change # "more" =>
    IF w.pc = "idle" THEN w.failed \/ w.sent = w.before
    ELSE HeadId \in InMap /\ OnBefore(w)

IInv ==
  /\ TypeOK
  /\ ListInv
  /\ SizeInv
  /\ \A c \in CPUs : WalkInv(walk[c]) /\ WholeInv(walk[c])

-----------------------------------------------------------------------------
(* Members and lists.                                                      *)

LEMMA IdFacts ==
  /\ HeadId \notin Members
  /\ HeadId \in Ids /\ Members \subseteq Ids
  /\ \A id \in Ids : /\ id = [port |-> id.port, instance |-> id.instance]
                     /\ id.port \in Part("port") /\ id.instance \in Part("instance")
                     /\ id \in [port : Part("port"), instance : Part("instance")]
<1>1. \A id \in Ids : id \in [port : Nat, instance : Nat]
  BY ConstantsAssumption DEF Ids, HeadId
<1>2. HeadId \notin Members
  BY ConstantsAssumption DEF HeadId
<1>3. HeadId \in Ids /\ Members \subseteq Ids
  BY DEF Ids
<1>4. ASSUME NEW id \in Ids
      PROVE  /\ id = [port |-> id.port, instance |-> id.instance]
             /\ id.port \in Part("port") /\ id.instance \in Part("instance")
  <2>1. id = [port |-> id.port, instance |-> id.instance]
    BY <1>1
  <2> QED BY <2>1 DEF Part
<1>5. ASSUME NEW id \in Ids PROVE id \in [port : Part("port"), instance : Part("instance")]
  BY <1>4
<1> QED BY <1>2, <1>3, <1>4, <1>5

LEMMA ChainType ==
  ASSUME TypeOK
  PROVE  /\ Chain \in Seq(Members) /\ listed \in Seq(Members)
         /\ Len(Chain) \in Nat /\ Len(listed) \in Nat
         /\ \A k \in 1 .. Len(Chain) : Chain[k] \in Members
<1>1. adding = HeadId \/ adding \in Members
  BY DEF TypeOK, Ids
<1>2. listed \in Seq(Members)
  BY DEF TypeOK
<1>3. Chain \in Seq(Members)
  BY <1>1, <1>2 DEF Chain
<1> QED BY <1>2, <1>3

LEMMA NthType ==
  ASSUME NEW s \in Seq(Members), NEW k \in Nat
  PROVE  /\ Nth(s, k) \in Ids
         /\ k \in 1 .. Len(s) => Nth(s, k) = s[k] /\ Nth(s, k) \in Members
         /\ k \notin 1 .. Len(s) => Nth(s, k) = HeadId
BY IdFacts DEF Nth, Ids

\* The last member that a walk has served, its place in the list and what follows it.
LEMMA LastServed ==
  ASSUME TypeOK, ListInv, NEW w \in Walk, WalkInv(w), w.sent # <<>>
  PROVE  /\ Len(w.sent) \in Nat \ {0}
         /\ w.sent[Len(w.sent)] \in Members /\ w.sent[Len(w.sent)] \in InMap
         /\ inner[w.sent[Len(w.sent)]] \in Slots
         /\ After(w) \in Ids
         /\ \A p \in Nat :
              p + Len(w.sent) <= Len(Chain) /\ (\A i \in 1 .. Len(w.sent) : w.sent[i] = Chain[p + i])
                => After(w) = Nth(Chain, p + Len(w.sent) + 1)
<1>1. w.sent \in Seq(Ids) /\ Len(w.sent) \in Nat \ {0}
  BY DEF Walk
<1>2. PICK p \in Nat : p + Len(w.sent) <= Len(Chain) /\ \A i \in 1 .. Len(w.sent) : w.sent[i] = Chain[p + i]
  BY DEF WalkInv
<1>3. w.sent[Len(w.sent)] \in Members /\ w.sent[Len(w.sent)] \in InMap
  <2>0. p + Len(w.sent) \in 1 .. Len(Chain) /\ Len(w.sent) \in 1 .. Len(w.sent)
    BY <1>1, <1>2, ChainType
  <2>1. p + Len(w.sent) \in 1 .. Len(Chain) /\ w.sent[Len(w.sent)] = Chain[p + Len(w.sent)]
    BY <1>2, <2>0
  <2>2. w.sent[Len(w.sent)] \in Members
    BY <2>1, ChainType
  <2> QED BY <2>1, <2>2 DEF ListInv
<1>4. inner[w.sent[Len(w.sent)]] \in Slots
  BY <1>3 DEF InMap, TypeOK
<1>5. After(w) \in Ids
  BY <1>4 DEF After, TypeOK
<1>6. ASSUME NEW q \in Nat, q + Len(w.sent) <= Len(Chain),
             \A i \in 1 .. Len(w.sent) : w.sent[i] = Chain[q + i]
      PROVE  After(w) = Nth(Chain, q + Len(w.sent) + 1)
  <2>1. q + Len(w.sent) \in 1 .. Len(Chain) /\ w.sent[Len(w.sent)] = Chain[q + Len(w.sent)]
    BY <1>1, <1>6, ChainType
  <2> QED BY <2>1 DEF After, ListInv
<1> QED BY <1>1, <1>3, <1>4, <1>5, <1>6

-----------------------------------------------------------------------------
(* The program.                                                            *)

LEMMA ProgramStep ==
  ASSUME IInv, NEW c \in CPUs, NEW w \in Walk, Set(c, w),
         w.pc \in {"port", "instance", "clone"} => w.elem # NoSlot,
         WalkInv(w), WholeInv(w)
  PROVE  IInv'
<1>1. /\ walk' \in [CPUs -> Walk] /\ walk'[c] = w /\ \A d \in CPUs \ {c} : walk'[d] = walk[d]
      /\ UNCHANGED <<element, inner, adding, listed>>
  BY DEF Set, IInv, TypeOK
<1>2. TypeOK'
  BY <1>1 DEF IInv, TypeOK
<1>3. ListInv' /\ SizeInv'
  <2>1. Chain' = Chain /\ InMap' = InMap
    BY <1>1 DEF Chain, InMap
  <2>2. UNCHANGED <<element, inner, adding, listed>> /\ ListInv /\ SizeInv
    BY <1>1 DEF IInv
  <2>3. ListInv'
    BY <2>1, <2>2 DEF ListInv, Nth
  <2>4. SizeInv'
    BY <2>1, <2>2 DEF SizeInv
  <2> QED BY <2>3, <2>4
<1>4. ASSUME NEW d \in CPUs PROVE WalkInv(walk[d])' /\ WholeInv(walk[d])'
  <2>1. WalkInv(walk'[d]) /\ WholeInv(walk'[d])
    BY <1>1 DEF IInv
  <2> QED BY <1>1, <2>1 DEF WalkInv, WholeInv, OnBefore, After, Chain, InMap
<1> QED BY <1>2, <1>3, <1>4 DEF IInv

LEMMA LookupHeadStep == ASSUME IInv, NEW c \in CPUs, LookupHead(c) PROVE IInv'
<1> DEFINE head == inner[HeadId]
           w == [walk[c] EXCEPT !.elem = head, !.i = 0, !.sent = <<>>,
                   !.failed = head = NoSlot, !.before = listed, !.change = "none"]
           ended == End(w)
           begun == [w EXCEPT !.pc = "port"]
<1>1. walk[c] \in Walk /\ walk[c].pc = "idle" /\ Set(c, IF head = NoSlot THEN ended ELSE begun)
  BY DEF LookupHead, IInv, TypeOK
<1>2. head \in Slots \cup {NoSlot} /\ 0 \in 0 .. MaxClones /\ 0 \in Part("port") /\ listed \in Seq(Members)
      /\ HeadId \in [port : Part("port"), instance : Part("instance")]
  BY IdFacts, ConstantsAssumption DEF IInv, TypeOK, HeadId
<1>3. <<>> \in Seq(Ids)
  OBVIOUS
<1>4. ended \in Walk /\ begun \in Walk
  BY <1>1, <1>2, <1>3 DEF Walk, End
<1>5. /\ ended.pc = "idle" /\ ended.sent = <<>> /\ ended.failed = (head = NoSlot)
      /\ begun.pc = "port" /\ begun.elem = head /\ begun.i = 0 /\ begun.sent = <<>> /\ begun.before = listed
  BY <1>1 DEF Walk, End
<1>6. WalkInv(ended) /\ WalkInv(begun)
  <2>1. 0 + Len(<<>>) <= Len(Chain) /\ 0 \in Nat /\ 1 .. Len(<<>>) = {}
    BY ChainType DEF IInv
  <2> QED BY <1>5, <2>1 DEF WalkInv
<1>7. head = NoSlot => WholeInv(ended)
  BY <1>5 DEF WholeInv
<1>8. ASSUME head # NoSlot PROVE WholeInv(begun)
  <2>1. HeadId \in InMap
    BY <1>8, IdFacts DEF InMap
  <2>2. /\ Len(listed) <= Len(Chain) /\ Len(Chain) < MaxClones
        /\ \A k \in 1 .. Len(listed) : \E j \in 1 .. Len(Chain) :
             Chain[j] = listed[k] /\ Nth(Chain, j + 1) = Nth(listed, k + 1)
    <3>1. Len(Chain) < MaxClones
      BY <2>1, ChainType, ConstantsAssumption DEF IInv, SizeInv
    <3>2. CASE adding = HeadId
      BY <3>1, <3>2 DEF Chain
    <3>3. CASE adding # HeadId
      <4>1. Len(Chain) = Len(listed) + 1 /\ \A k \in 1 .. Len(listed) : Chain[k + 1] = listed[k]
        BY <1>2, <3>3, ChainType DEF Chain, IInv
      <4>2. ASSUME NEW k \in 1 .. Len(listed)
            PROVE  k + 1 \in 1 .. Len(Chain) /\ Nth(Chain, (k + 1) + 1) = Nth(listed, k + 1)
        BY <1>2, <4>1 DEF Nth
      <4> QED BY <1>2, <3>1, <4>1, <4>2
    <3> QED BY <3>2, <3>3
  <2>3. \A k \in 1 .. Len(listed) :
          listed[k] \in InMap /\ element[inner[listed[k]]].next = Nth(listed, k + 1)
    BY <2>2, ChainType DEF IInv, ListInv
  <2>4. element[head].next = Nth(listed, 1)
    BY <2>1 DEF IInv, ListInv
  <2>5. Len(listed) < MaxClones /\ Len(listed) >= 0
    BY <1>2, <2>2, ChainType, ConstantsAssumption DEF IInv
  <2> QED BY <1>5, <2>1, <2>3, <2>4, <2>5 DEF WholeInv, OnBefore
<1> HIDE DEF ended, begun
<1> QED BY <1>1, <1>4, <1>5, <1>6, <1>7, <1>8, ProgramStep

LEMMA LoadPortStep == ASSUME IInv, NEW c \in CPUs, LoadPort(c) PROVE IInv'
<1> DEFINE w == walk[c]
           v == [w EXCEPT !.pc = "instance", !.port = element[w.elem].next.port]
<1>1. w \in Walk /\ w.pc = "port" /\ Set(c, v) /\ w.elem # NoSlot /\ WalkInv(w) /\ WholeInv(w)
  BY DEF LoadPort, IInv, TypeOK
<1>2. element[w.elem].next \in Ids
  BY <1>1 DEF IInv, TypeOK, Walk
<1>3. v \in Walk
  BY <1>1, <1>2, IdFacts DEF Walk
<1>4. /\ v.pc = "instance" /\ v.port = element[w.elem].next.port
      /\ v.elem = w.elem /\ v.i = w.i /\ v.next = w.next /\ v.sent = w.sent
      /\ v.failed = w.failed /\ v.before = w.before /\ v.change = w.change
  BY <1>1 DEF Walk
<1> HIDE DEF v
<1>5. WalkInv(v)
  BY <1>1, <1>4 DEF WalkInv, After
<1>6. WholeInv(v)
  <2> SUFFICES ASSUME w.change # "more" PROVE HeadId \in InMap /\ OnBefore(v)
    BY <1>4 DEF WholeInv
  <2>1. HeadId \in InMap /\ OnBefore(w)
    BY <1>1 DEF WholeInv
  <2>2. w.sent \in Seq(Ids) /\ w.before \in Seq(Members)
    BY <1>1 DEF Walk
  <2>3. element[w.elem].next = Nth(w.before, Len(w.sent) + 1)
    <3>1. CASE Len(w.sent) = 0
      BY <1>1, <2>1, <3>1 DEF OnBefore
    <3>2. CASE Len(w.sent) # 0
      <4>1. Len(w.sent) \in 1 .. Len(w.before) /\ w.sent[Len(w.sent)] = w.before[Len(w.sent)]
        BY <2>1, <2>2, <3>2 DEF OnBefore
      <4>2. w.elem = inner[w.sent[Len(w.sent)]]
        BY <1>1, <3>2 DEF WalkInv
      <4> QED BY <2>1, <4>1, <4>2 DEF OnBefore
    <3> QED BY <3>1, <3>2
  <2> QED BY <1>1, <1>4, <2>1, <2>3 DEF OnBefore
<1> QED BY <1>1, <1>3, <1>4, <1>5, <1>6, ProgramStep

\* The last element that a walk is on holds what follows on the list it began with.
LEMMA NextOnBefore ==
  ASSUME NEW w \in Walk, w.pc \in {"port", "instance"}, WalkInv(w), OnBefore(w)
  PROVE  element[w.elem].next = Nth(w.before, Len(w.sent) + 1)
<1>1. w.sent \in Seq(Ids) /\ w.before \in Seq(Members)
  BY DEF Walk
<1>2. CASE Len(w.sent) = 0
  BY <1>2 DEF OnBefore
<1>3. CASE Len(w.sent) # 0
  <2>1. Len(w.sent) \in 1 .. Len(w.before) /\ w.sent[Len(w.sent)] = w.before[Len(w.sent)]
    BY <1>1, <1>3 DEF OnBefore
  <2>2. w.elem = inner[w.sent[Len(w.sent)]]
    BY <1>1, <1>3 DEF WalkInv
  <2> QED BY <2>1, <2>2 DEF OnBefore
<1> QED BY <1>2, <1>3

LEMMA LoadInstanceStep == ASSUME IInv, NEW c \in CPUs, LoadInstance(c) PROVE IInv'
<1> DEFINE w == walk[c]
           next == [port |-> w.port, instance |-> element[w.elem].next.instance]
           ended == End(w)
           found == [w EXCEPT !.pc = "lookup", !.next = next]
<1>1. /\ w \in Walk /\ w.pc = "instance" /\ w.elem # NoSlot /\ WalkInv(w) /\ WholeInv(w)
      /\ Set(c, IF next = HeadId THEN ended ELSE found)
  BY DEF LoadInstance, IInv, TypeOK
<1>2. element[w.elem].next \in Ids
  BY <1>1 DEF IInv, TypeOK, Walk
<1>3. next \in [port : Part("port"), instance : Part("instance")] /\ 0 \in Part("port")
      /\ HeadId \in [port : Part("port"), instance : Part("instance")]
  BY <1>1, <1>2, IdFacts DEF Walk, HeadId
<1>4. ended \in Walk /\ found \in Walk
  BY <1>1, <1>3 DEF Walk, End
<1>5. /\ found.pc = "lookup" /\ found.next = next
      /\ found.elem = w.elem /\ found.i = w.i /\ found.sent = w.sent
      /\ found.failed = w.failed /\ found.before = w.before /\ found.change = w.change
      /\ ended.pc = "idle" /\ ended.sent = w.sent /\ ended.before = w.before
      /\ ended.change = w.change /\ ended.failed = w.failed
  BY <1>1 DEF Walk, End
<1>6. ASSUME NEW id \in Ids, element[w.elem].next = id, w.port = id.port PROVE next = id
  BY <1>6, IdFacts
<1>7. w.sent # <<>> => next = After(w)
  BY <1>1, <1>2, <1>6 DEF WalkInv, After
<1> HIDE DEF next, ended, found
<1>8. WalkInv(ended) /\ (next # HeadId => WalkInv(found))
  BY <1>1, <1>5, <1>7 DEF WalkInv, After
<1>9. (next = HeadId => WholeInv(ended)) /\ (next # HeadId => WholeInv(found))
  <2> SUFFICES ASSUME w.change # "more"
               PROVE  /\ next = HeadId => w.sent = w.before
                      /\ next # HeadId => HeadId \in InMap /\ OnBefore(found)
    BY <1>5 DEF WholeInv
  <2>1. HeadId \in InMap /\ OnBefore(w)
    BY <1>1 DEF WholeInv
  <2>2. w.sent \in Seq(Ids) /\ w.before \in Seq(Members)
    BY <1>1 DEF Walk
  <2>3. next = Nth(w.before, Len(w.sent) + 1)
    <3>1. element[w.elem].next = Nth(w.before, Len(w.sent) + 1)
      BY <1>1, <2>1, NextOnBefore
    <3>2. w.port = Nth(w.before, Len(w.sent) + 1).port
      BY <1>1, <2>1 DEF OnBefore
    <3> QED BY <1>2, <1>6, <3>1, <3>2
  <2>4. ASSUME next = HeadId PROVE w.sent = w.before
    <3>1. Len(w.sent) + 1 \notin 1 .. Len(w.before)
      BY <2>2, <2>3, <2>4, IdFacts, NthType
    <3>2. Len(w.sent) = Len(w.before) /\ \A i \in 1 .. Len(w.sent) : w.sent[i] = w.before[i]
      BY <2>1, <2>2, <3>1 DEF OnBefore
    <3>3. w.before \in Seq(Ids)
      BY <2>2, IdFacts
    <3> QED BY <2>2, <3>2, <3>3
  <2>5. ASSUME next # HeadId PROVE OnBefore(found)
    BY <1>1, <1>5, <2>1, <2>3 DEF OnBefore
  <2> QED BY <2>1, <2>4, <2>5
<1> QED BY <1>1, <1>4, <1>5, <1>8, <1>9, ProgramStep

LEMMA LookupStep == ASSUME IInv, NEW c \in CPUs, Lookup(c) PROVE IInv'
<1> DEFINE w == walk[c]
           s == IF w.next \in Ids THEN inner[w.next] ELSE NoSlot
           ended == End(w)
           found == [w EXCEPT !.pc = "clone", !.elem = s, !.i = @ + 1]
<1>1. /\ w \in Walk /\ w.pc = "lookup" /\ WalkInv(w) /\ WholeInv(w)
      /\ Set(c, IF w.i = MaxClones \/ s = NoSlot THEN ended ELSE found)
  BY DEF Lookup, IInv, TypeOK
<1>2. s \in Slots \cup {NoSlot} /\ w.i \in 0 .. MaxClones /\ MaxClones \in Nat
  BY <1>1, ConstantsAssumption DEF IInv, TypeOK, Walk
<1>3. 0 \in Part("port") /\ HeadId \in [port : Part("port"), instance : Part("instance")]
  BY IdFacts DEF HeadId
<1>4. ended \in Walk /\ (w.i # MaxClones => found \in Walk)
  <2>1. ended \in Walk
    BY <1>1, <1>3 DEF Walk, End
  <2>2. ASSUME w.i # MaxClones PROVE found \in Walk
    <3>1. w.i + 1 \in 0 .. MaxClones
      BY <1>2, <2>2
    <3> QED BY <1>1, <1>2, <3>1 DEF Walk
  <2> QED BY <2>1, <2>2
<1>5. /\ found.pc = "clone" /\ found.elem = s /\ found.i = w.i + 1
      /\ found.next = w.next /\ found.sent = w.sent
      /\ found.failed = w.failed /\ found.before = w.before /\ found.change = w.change
      /\ ended.pc = "idle" /\ ended.sent = w.sent /\ ended.before = w.before
      /\ ended.change = w.change /\ ended.failed = w.failed
  BY <1>1 DEF Walk, End
<1>6. s # NoSlot => w.next \in Members /\ s = inner[w.next]
  BY <1>1 DEF WalkInv, Ids
<1> HIDE DEF s, ended, found
<1>7. WalkInv(ended) /\ (s # NoSlot => WalkInv(found))
  BY <1>1, <1>5, <1>6 DEF WalkInv, After
<1>8. w.change # "more" => w.i # MaxClones /\ s # NoSlot /\ HeadId \in InMap /\ OnBefore(found)
  <2> SUFFICES ASSUME w.change # "more"
               PROVE  w.i # MaxClones /\ s # NoSlot /\ HeadId \in InMap /\ OnBefore(found)
    OBVIOUS
  <2>1. HeadId \in InMap /\ OnBefore(w)
    BY <1>1 DEF WholeInv
  <2>2. w.sent \in Seq(Ids) /\ w.before \in Seq(Members)
    BY <1>1 DEF Walk
  <2>3. w.next = Nth(w.before, Len(w.sent) + 1) /\ w.next # HeadId /\ w.i = Len(w.sent)
    BY <1>1, <2>1 DEF OnBefore, WalkInv
  <2>4. Len(w.sent) + 1 \in 1 .. Len(w.before) /\ w.next = w.before[Len(w.sent) + 1]
    BY <2>2, <2>3 DEF Nth
  <2>5. w.next \in InMap /\ Len(w.before) < MaxClones
    BY <2>1, <2>4 DEF OnBefore
  <2>6. s # NoSlot
    BY <2>5 DEF InMap, s
  <2>7. w.i # MaxClones
    BY <1>2, <2>2, <2>3, <2>4, <2>5
  <2> QED BY <1>1, <1>5, <2>1, <2>3, <2>6, <2>7 DEF OnBefore
<1>9. WholeInv(found) /\ (w.i = MaxClones \/ s = NoSlot => WholeInv(ended))
  BY <1>5, <1>8 DEF WholeInv
<1> QED BY <1>1, <1>4, <1>5, <1>7, <1>9, ProgramStep

LEMMA CloneStep == ASSUME IInv, NEW c \in CPUs, Clone(c) PROVE IInv'
<1> DEFINE w == walk[c]
           n == Len(w.sent)
           v == [w EXCEPT !.pc = "port", !.sent = Append(@, element[w.elem].key)]
<1>1. w \in Walk /\ w.pc = "clone" /\ WalkInv(w) /\ WholeInv(w) /\ Set(c, v)
  BY DEF Clone, IInv, TypeOK
<1>2. w.next \in Members /\ w.elem = inner[w.next] /\ w.elem # NoSlot
  BY <1>1 DEF WalkInv
<1>3. element[w.elem].key = w.next /\ w.next \in InMap
  BY <1>2, IdFacts DEF IInv, ListInv, InMap
<1>4. w.sent \in Seq(Ids) /\ w.before \in Seq(Members) /\ n \in Nat /\ w.next \in Ids
  BY <1>1, <1>2, IdFacts DEF Walk
<1>5. v \in Walk
  <2>1. Append(w.sent, w.next) \in Seq(Ids)
    BY <1>4
  <2> QED BY <1>1, <1>3, <2>1 DEF Walk
<1>6. /\ v.pc = "port" /\ v.elem = w.elem /\ v.i = w.i /\ v.next = w.next
      /\ v.sent = Append(w.sent, w.next)
      /\ v.failed = w.failed /\ v.before = w.before /\ v.change = w.change
  BY <1>1, <1>3 DEF Walk
<1> HIDE DEF v
<1>7. Len(v.sent) = n + 1 /\ v.sent[n + 1] = w.next /\ \A i \in 1 .. n : v.sent[i] = w.sent[i]
  BY <1>4, <1>6
<1>8. PICK p \in Nat : p + n <= Len(Chain) /\ \A i \in 1 .. n : w.sent[i] = Chain[p + i]
  BY <1>1 DEF WalkInv
<1>9. \E q \in Nat : /\ q + n + 1 <= Len(Chain) /\ Chain[q + n + 1] = w.next
                     /\ \A i \in 1 .. n : w.sent[i] = Chain[q + i]
  <2>1. CASE n = 0
    <3>1. PICK k \in 1 .. Len(Chain) : Chain[k] = w.next
      BY <1>2, <1>3 DEF IInv, ListInv
    <3>2. k - 1 \in Nat /\ (k - 1) + n + 1 = k /\ k <= Len(Chain)
      BY <2>1, <3>1, ChainType DEF IInv
    <3> DEFINE q == k - 1
    <3>3. /\ q \in Nat /\ q + n + 1 <= Len(Chain) /\ Chain[q + n + 1] = w.next
          /\ \A i \in 1 .. n : w.sent[i] = Chain[q + i]
      BY <2>1, <3>1, <3>2
    <3> QED BY <3>3
  <2>2. CASE n # 0
    <3>1. w.sent # <<>>
      BY <2>2
    <3>2. After(w) = Nth(Chain, p + n + 1)
      BY <1>1, <1>8, <3>1, LastServed DEF IInv
    <3>3. w.next = Nth(Chain, p + n + 1)
      BY <1>1, <3>1, <3>2 DEF WalkInv
    <3>4. p + n + 1 \in 1 .. Len(Chain) /\ w.next = Chain[p + n + 1]
      BY <1>2, <3>3, IdFacts DEF Nth
    <3>5. p + n + 1 <= Len(Chain)
      BY <1>4, <3>4, ChainType DEF IInv
    <3> QED BY <1>8, <3>4, <3>5
  <2> QED BY <2>1, <2>2
<1>10. WalkInv(v)
  <2>1. PICK q \in Nat : /\ q + n + 1 <= Len(Chain) /\ Chain[q + n + 1] = w.next
                         /\ \A i \in 1 .. n : w.sent[i] = Chain[q + i]
    BY <1>9
  <2>2. q + Len(v.sent) <= Len(Chain) /\ \A i \in 1 .. Len(v.sent) : v.sent[i] = Chain[q + i]
    <3>1. q + Len(v.sent) <= Len(Chain)
      BY <1>4, <1>7, <2>1
    <3>2. ASSUME NEW i \in 1 .. Len(v.sent) PROVE v.sent[i] = Chain[q + i]
      <4>1. i \in 1 .. n \/ i = n + 1
        BY <1>4, <1>7
      <4>2. CASE i = n + 1
        <5>1. q + i = q + n + 1
          BY <1>4, <2>1, <4>2
        <5> QED BY <1>7, <2>1, <4>2, <5>1
      <4> QED BY <1>7, <2>1, <4>1, <4>2
    <3> QED BY <3>1, <3>2
  <2>3. v.elem = inner[v.sent[Len(v.sent)]]
    BY <1>2, <1>6, <1>7
  <2> QED BY <1>6, <2>2, <2>3 DEF WalkInv
<1>11. WholeInv(v)
  <2> SUFFICES ASSUME w.change # "more" PROVE HeadId \in InMap /\ OnBefore(v)
    BY <1>6 DEF WholeInv
  <2>1. HeadId \in InMap /\ OnBefore(w)
    BY <1>1 DEF WholeInv
  <2>2. w.next = Nth(w.before, n + 1) /\ w.i = n + 1
    BY <1>1, <2>1 DEF OnBefore
  <2>3. n + 1 \in 1 .. Len(w.before) /\ w.next = w.before[n + 1]
    BY <1>2, <1>4, <2>2, IdFacts DEF Nth
  <2>4. n + 1 <= Len(w.before) /\ \A i \in 1 .. n + 1 : v.sent[i] = w.before[i]
    <3>1. ASSUME NEW i \in 1 .. n + 1 PROVE v.sent[i] = w.before[i]
      <4>1. i \in 1 .. n \/ i = n + 1
        BY <1>4
      <4> QED BY <1>7, <2>1, <2>3, <4>1 DEF OnBefore
    <3> QED BY <1>4, <2>3, <3>1
  <2> QED BY <1>4, <1>6, <1>7, <2>1, <2>2, <2>4 DEF OnBefore
<1> QED BY <1>1, <1>2, <1>5, <1>6, <1>10, <1>11, ProgramStep

-----------------------------------------------------------------------------
(* The control plane.                                                      *)

\* A spare slot is written: what is in the map otherwise stays as it is.
LEMMA StoreFacts ==
  ASSUME IInv, NEW s \in Spare, NEW id \in Ids, NEW next \in Ids, Store(s, id, next)
  PROVE  /\ element' \in [Slots -> [key : Ids, next : Ids]]
         /\ inner' \in [Ids -> Slots \cup {NoSlot}]
         /\ inner'[id] = s /\ s \in Slots /\ s # NoSlot
         /\ element'[s] = [key |-> id, next |-> next]
         /\ \A k \in Ids : k # id => inner'[k] = inner[k]
         /\ \A k \in InMap : inner[k] \in Slots /\ element'[inner[k]] = element[inner[k]]
         /\ InMap' = InMap \cup {id}
<1>1. s \in Slots /\ s # NoSlot /\ \A k \in Ids : inner[k] # s
  BY ConstantsAssumption DEF Spare
<1>2. element \in [Slots -> [key : Ids, next : Ids]] /\ inner \in [Ids -> Slots \cup {NoSlot}]
  BY DEF IInv, TypeOK
<1>3. /\ element' = [element EXCEPT ![s] = [key |-> id, next |-> next]]
      /\ inner' = [inner EXCEPT ![id] = s]
  BY DEF Store
<1>4. /\ element' \in [Slots -> [key : Ids, next : Ids]]
      /\ inner' \in [Ids -> Slots \cup {NoSlot}]
  BY <1>1, <1>2, <1>3
<1>5. /\ inner'[id] = s /\ \A k \in Ids : k # id => inner'[k] = inner[k]
      /\ element'[s] = [key |-> id, next |-> next]
      /\ \A t \in Slots : t # s => element'[t] = element[t]
  BY <1>1, <1>2, <1>3
<1>6. \A k \in InMap : inner[k] \in Slots /\ element'[inner[k]] = element[inner[k]]
  BY <1>1, <1>2, <1>5 DEF InMap
<1>7. InMap' = InMap \cup {id}
  BY <1>1, <1>5 DEF InMap
<1> QED BY <1>1, <1>4, <1>5, <1>6, <1>7

\* A store that moves no member in the map keeps what a walk relies on: the list may
\* only have grown in front.
LEMMA WalkKept ==
  ASSUME IInv, NEW q \in {0, 1}, Len(Chain)' = Len(Chain) + q,
         \A i \in 1 .. Len(Chain) : Chain'[q + i] = Chain[i],
         \A m \in Members : m \in InMap => /\ inner'[m] = inner[m]
                                           /\ element'[inner[m]] = element[inner[m]]
  PROVE  \A w \in Walk : WalkInv(w) => WalkInv(w)'
<1> SUFFICES ASSUME NEW w \in Walk, WalkInv(w) PROVE WalkInv(w)'
  OBVIOUS
<1>1. w.sent \in Seq(Ids) /\ Len(w.sent) \in Nat /\ Len(Chain) \in Nat /\ TypeOK /\ ListInv
  BY ChainType DEF Walk, IInv
<1>2. w.sent # <<>> => /\ inner'[w.sent[Len(w.sent)]] = inner[w.sent[Len(w.sent)]]
                       /\ After(w)' = After(w)
  <2> SUFFICES ASSUME w.sent # <<>>
               PROVE  /\ inner'[w.sent[Len(w.sent)]] = inner[w.sent[Len(w.sent)]]
                      /\ After(w)' = After(w)
    OBVIOUS
  <2>1. w.sent[Len(w.sent)] \in Members /\ w.sent[Len(w.sent)] \in InMap
    BY <1>1, LastServed
  <2> QED BY <2>1 DEF After
<1>3. w.pc = "clone" => inner'[w.next] = inner[w.next]
  BY IdFacts DEF WalkInv, InMap
<1>4. PICK p \in Nat : p + Len(w.sent) <= Len(Chain) /\ \A i \in 1 .. Len(w.sent) : w.sent[i] = Chain[p + i]
  BY DEF WalkInv
<1>5. \E r \in Nat : r + Len(w.sent) <= Len(Chain)' /\ \A i \in 1 .. Len(w.sent) : w.sent[i] = Chain'[r + i]
  <2> DEFINE r == q + p
  <2>0. q \in Nat /\ p \in Nat /\ Len(w.sent) \in Nat /\ Len(Chain) \in Nat /\ p + Len(w.sent) <= Len(Chain)
    BY <1>1, <1>4
  <2>1. r \in Nat /\ r + Len(w.sent) <= Len(Chain) + q
    <3>1. r \in Nat
      BY <2>0
    <3>2. r + Len(w.sent) <= Len(Chain) + q
      <4>1. \A a, b, l, n \in Nat : a + n <= l => (b + a) + n <= l + b
        OBVIOUS
      <4> QED BY <2>0, <4>1
    <3> QED BY <3>1, <3>2
  <2>2. ASSUME NEW i \in 1 .. Len(w.sent) PROVE w.sent[i] = Chain'[r + i]
    <3>1. p + i \in 1 .. Len(Chain) /\ q + (p + i) = r + i
      BY <1>1, <1>4
    <3> QED BY <1>4, <3>1
  <2> QED BY <2>1, <2>2
<1> QED BY <1>2, <1>3, <1>5 DEF WalkInv

\* What Changed() leaves of a walk.
LEMMA ChangedFacts ==
  ASSUME IInv, NEW how \in [{"none", "link", "more"} -> {"none", "link", "more"}],
         walk' = Changed(how)
  PROVE  /\ walk' \in [CPUs -> Walk]
         /\ \A c \in CPUs :
              /\ walk'[c].pc = walk[c].pc /\ walk'[c].elem = walk[c].elem
              /\ walk'[c].port = walk[c].port /\ walk'[c].next = walk[c].next
              /\ walk'[c].i = walk[c].i /\ walk'[c].sent = walk[c].sent
              /\ walk'[c].failed = walk[c].failed /\ walk'[c].before = walk[c].before
              /\ walk[c].pc = "idle" => walk'[c].change = walk[c].change
              /\ walk[c].pc # "idle" => walk'[c].change = how[walk[c].change]
<1>1. walk \in [CPUs -> Walk]
  BY DEF IInv, TypeOK
<1>2. ASSUME NEW c \in CPUs
      PROVE  /\ walk'[c] \in Walk
             /\ walk'[c].pc = walk[c].pc /\ walk'[c].elem = walk[c].elem
             /\ walk'[c].port = walk[c].port /\ walk'[c].next = walk[c].next
             /\ walk'[c].i = walk[c].i /\ walk'[c].sent = walk[c].sent
             /\ walk'[c].failed = walk[c].failed /\ walk'[c].before = walk[c].before
             /\ walk[c].pc = "idle" => walk'[c].change = walk[c].change
             /\ walk[c].pc # "idle" => walk'[c].change = how[walk[c].change]
  <2>1. walk[c] \in Walk
    BY <1>1
  <2>2. walk'[c] = IF walk[c].pc = "idle" THEN walk[c]
                   ELSE [walk[c] EXCEPT !.change = how[walk[c].change]]
    BY DEF Changed
  <2>3. how[walk[c].change] \in {"none", "link", "more"}
    BY <2>1 DEF Walk
  <2> QED BY <2>1, <2>2, <2>3 DEF Walk
<1>3. walk' = [c \in CPUs |-> walk'[c]]
  BY DEF Changed
<1>4. walk' \in [CPUs -> Walk]
  BY <1>2, <1>3
<1> QED BY <1>2, <1>4

\* WalkInv does not look at the fields in which the two differ.
LEMMA WalkInvFields ==
  ASSUME NEW v, NEW w, WalkInv(w), v.pc = w.pc, v.elem = w.elem, v.port = w.port,
         v.next = w.next, v.sent = w.sent
  PROVE  WalkInv(v)
BY DEF WalkInv, After

LEMMA StoreHeadStep == ASSUME IInv, StoreHead PROVE IInv'
<1>1. PICK s \in Spare : Store(s, HeadId, HeadId)
  BY DEF StoreHead
<1>2. inner[HeadId] = NoSlot /\ UNCHANGED <<adding, listed, walk>>
  BY DEF StoreHead
<1>3. HeadId \notin InMap /\ Chain = <<>> /\ Len(Chain) = 0
  BY <1>2 DEF IInv, ListInv, InMap
<1>4. InMap = {}
  BY <1>3 DEF IInv, ListInv, InMap, Ids
<1>5. Chain' = <<>> /\ Len(Chain') = 0 /\ Chain' = Chain
  BY <1>2, <1>3 DEF Chain
<1>6. InMap' = {HeadId} /\ inner'[HeadId] = s /\ element'[s] = [key |-> HeadId, next |-> HeadId]
  BY <1>1, <1>4, IdFacts, StoreFacts
<1>7. listed = <<>>
  BY <1>3, ChainType DEF Chain, IInv, TypeOK
<1>8. TypeOK'
  BY <1>1, <1>2, IdFacts, StoreFacts DEF IInv, TypeOK
<1>9. ListInv'
  <2>1. Nth(listed, 1)' = HeadId
    BY <1>2, <1>7 DEF Nth
  <2> QED BY <1>5, <1>6, <2>1, IdFacts DEF ListInv
<1>10. SizeInv'
  <2>1. IsFiniteSet({HeadId}) /\ Cardinality({HeadId}) = 1
    BY FS_Singleton
  <2>2. IsFiniteSet(InMap') /\ Cardinality(InMap') = 1 /\ HeadId \in InMap'
    BY <1>6, <2>1
  <2> QED BY <1>5, <2>2, ConstantsAssumption DEF SizeInv
<1>11. ASSUME NEW c \in CPUs PROVE WalkInv(walk[c])' /\ WholeInv(walk[c])'
  <2>1. walk[c] \in Walk /\ WalkInv(walk[c]) /\ WholeInv(walk[c])
    BY DEF IInv, TypeOK
  <2>2. \A w \in Walk : WalkInv(w) => WalkInv(w)'
    BY <1>3, <1>4, <1>5, WalkKept
  <2>3. WalkInv(walk[c])'
    <3>1. PICK w \in Walk : w = walk[c] /\ w = walk'[c]
      BY <1>2, <2>1
    <3>2. WalkInv(w)'
      BY <2>1, <2>2, <3>1
    <3> QED BY <3>1, <3>2 DEF WalkInv, After
  <2>4. WholeInv(walk[c])'
    BY <1>2, <1>3, <2>1 DEF WholeInv
  <2> QED BY <2>3, <2>4
<1> QED BY <1>8, <1>9, <1>10, <1>11 DEF IInv

LEMMA StoreMemberStep == ASSUME IInv, NEW id \in Members, StoreMember(id) PROVE IInv'
<1> DEFINE next == element[inner[HeadId]].next
           how == [none |-> "none", link |-> "more", more |-> "more"]
<1>1. /\ inner[HeadId] # NoSlot /\ adding = HeadId /\ inner[id] = NoSlot
      /\ Cardinality(InMap) < MaxClones
      /\ adding' = id /\ walk' = Changed(how) /\ listed' = listed
  BY DEF StoreMember, InMap
<1>2. PICK s \in Spare : Store(s, id, next)
  BY DEF StoreMember
<1>3. HeadId \in InMap /\ id \notin InMap /\ id \in Ids /\ id # HeadId
  BY <1>1, IdFacts DEF InMap
<1>4. next = Nth(listed, 1) /\ next \in Ids
  BY <1>1, <1>3, ChainType, NthType DEF IInv, ListInv
<1> HIDE DEF next
<1>5. how \in [{"none", "link", "more"} -> {"none", "link", "more"}]
  OBVIOUS
<1>6. how["none"] = "none" /\ how["link"] = "more" /\ how["more"] = "more"
  OBVIOUS
<1> HIDE DEF how
<1>7. /\ element' \in [Slots -> [key : Ids, next : Ids]]
      /\ inner' \in [Ids -> Slots \cup {NoSlot}]
      /\ inner'[id] = s /\ element'[s].key = id /\ element'[s].next = next
      /\ \A k \in Ids : k # id => inner'[k] = inner[k]
      /\ \A k \in InMap : /\ inner[k] \in Slots /\ element'[inner[k]] = element[inner[k]]
                          /\ inner'[k] = inner[k]
      /\ InMap' = InMap \cup {id}
  <2>1. \A k \in InMap : k \in Ids /\ k # id
    BY <1>3 DEF InMap
  <2>2. /\ element' \in [Slots -> [key : Ids, next : Ids]]
        /\ inner' \in [Ids -> Slots \cup {NoSlot}]
        /\ inner'[id] = s /\ element'[s] = [key |-> id, next |-> next]
        /\ \A k \in Ids : k # id => inner'[k] = inner[k]
        /\ \A k \in InMap : inner[k] \in Slots /\ element'[inner[k]] = element[inner[k]]
        /\ InMap' = InMap \cup {id}
    BY <1>2, <1>3, <1>4, StoreFacts
  <2>3. element'[s].key = id /\ element'[s].next = next
    BY <2>2
  <2>4. \A k \in InMap : inner'[k] = inner[k]
    BY <2>1, <2>2
  <2> QED BY <2>2, <2>3, <2>4
<1>8. Chain = listed /\ Chain \in Seq(Members) /\ Len(Chain) \in Nat
      /\ \A k \in 1 .. Len(Chain) : Chain[k] \in Members /\ Chain[k] \in InMap
  <2>1. Chain = listed /\ Chain \in Seq(Members) /\ \A k \in 1 .. Len(Chain) : Chain[k] \in Members
    BY <1>1, ChainType DEF Chain, IInv
  <2> QED BY <2>1 DEF IInv, ListInv
<1>9. Chain' = <<id>> \o listed
  BY <1>1, <1>3 DEF Chain
<1>10. /\ Len(Chain') = Len(Chain) + 1 /\ Chain'[1] = id
       /\ \A k \in 1 .. Len(Chain) : Chain'[1 + k] = Chain[k]
       /\ \A k \in 2 .. Len(Chain) + 1 : k - 1 \in 1 .. Len(Chain) /\ Chain'[k] = Chain[k - 1]
  BY <1>8, <1>9
<1>11. TypeOK'
  <2>1. walk' \in [CPUs -> Walk] /\ \A c \in CPUs : walk'[c].pc = walk[c].pc /\ walk'[c].elem = walk[c].elem
    BY <1>1, <1>5, ChangedFacts
  <2> QED BY <1>1, <1>3, <1>7, <2>1 DEF IInv, TypeOK
<1>12. ListInv'
  <2>1. \A k \in InMap' : element'[inner'[k]].key = k
    BY <1>7 DEF IInv, ListInv
  <2>2. ASSUME NEW j \in 1 .. Len(Chain'), NEW k \in 1 .. Len(Chain'), j # k
        PROVE  Chain'[j] # Chain'[k]
    <3>1. (j = 1 \/ j \in 2 .. Len(Chain) + 1) /\ (k = 1 \/ k \in 2 .. Len(Chain) + 1)
      BY <1>8, <1>10
    <3>2. CASE j = 1
      BY <1>3, <1>8, <1>10, <2>2, <3>1, <3>2
    <3>3. CASE k = 1
      BY <1>3, <1>8, <1>10, <2>2, <3>1, <3>3
    <3>4. CASE j # 1 /\ k # 1
      <4>1. /\ j - 1 \in 1 .. Len(Chain) /\ Chain'[j] = Chain[j - 1]
            /\ k - 1 \in 1 .. Len(Chain) /\ Chain'[k] = Chain[k - 1]
        BY <1>10, <3>1, <3>4
      <4>2. j - 1 # k - 1
        BY <2>2, <3>1, <3>4
      <4> QED BY <4>1, <4>2 DEF IInv, ListInv
    <3> QED BY <3>2, <3>3, <3>4
  <2>3. ASSUME NEW m \in Members
        PROVE  m \in InMap' <=> \E k \in 1 .. Len(Chain') : Chain'[k] = m
    <3>1. ASSUME m \in InMap' PROVE \E k \in 1 .. Len(Chain') : Chain'[k] = m
      <4>1. CASE m = id
        <5>1. 1 \in 1 .. Len(Chain')
          BY <1>8, <1>10
        <5> QED BY <1>10, <4>1, <5>1
      <4>2. CASE m # id
        <5>1. PICK k \in 1 .. Len(Chain) : Chain[k] = m
          BY <1>7, <3>1, <4>2 DEF IInv, ListInv
        <5>2. 1 + k \in 1 .. Len(Chain')
          BY <1>8, <1>10
        <5> QED BY <1>10, <5>1, <5>2
      <4> QED BY <4>1, <4>2
    <3>2. ASSUME NEW k \in 1 .. Len(Chain'), Chain'[k] = m PROVE m \in InMap'
      <4>1. k = 1 \/ k \in 2 .. Len(Chain) + 1
        BY <1>8, <1>10
      <4> QED BY <1>7, <1>8, <1>10, <3>2, <4>1
    <3> QED BY <3>1, <3>2
  <2>4. ASSUME NEW k \in 1 .. Len(Chain') PROVE element'[inner'[Chain'[k]]].next = Nth(Chain', k + 1)
    <3>1. k = 1 \/ k \in 2 .. Len(Chain) + 1
      BY <1>8, <1>10
    <3>2. CASE k = 1
      <4>1. Nth(Chain', 2) = Nth(listed, 1)
        <5>1. CASE Len(Chain) = 0
          BY <1>8, <1>10, <5>1 DEF Nth
        <5>2. CASE Len(Chain) > 0
          <6>1. 1 \in 1 .. Len(Chain) /\ 2 \in 1 .. Len(Chain') /\ 2 = 1 + 1
            BY <1>8, <1>10, <5>2
          <6> QED BY <1>8, <1>10, <6>1 DEF Nth
        <5> QED BY <1>8, <5>1, <5>2
      <4> QED BY <1>4, <1>7, <1>10, <3>2, <4>1
    <3>3. CASE k \in 2 .. Len(Chain) + 1
      <4>1. Chain'[k] = Chain[k - 1] /\ Chain[k - 1] \in InMap /\ k - 1 \in 1 .. Len(Chain)
        BY <1>8, <1>10, <3>3
      <4>2. element[inner[Chain[k - 1]]].next = Nth(Chain, (k - 1) + 1)
        BY <4>1 DEF IInv, ListInv
      <4>3. Nth(Chain, (k - 1) + 1) = Nth(Chain', k + 1)
        <5>1. CASE k \in 1 .. Len(Chain)
          <6>1. k + 1 \in 1 .. Len(Chain') /\ k + 1 = 1 + k /\ (k - 1) + 1 = k
            BY <1>8, <1>10, <5>1
          <6> QED BY <1>10, <5>1, <6>1 DEF Nth
        <5>2. CASE k \notin 1 .. Len(Chain)
          <6>1. k + 1 \notin 1 .. Len(Chain') /\ (k - 1) + 1 = k
            BY <1>8, <1>10, <3>3, <5>2
          <6> QED BY <5>2, <6>1 DEF Nth
        <5> QED BY <5>1, <5>2
      <4> QED BY <1>7, <4>1, <4>2, <4>3
    <3> QED BY <3>1, <3>2, <3>3
  <2>5. HeadId \in InMap' /\ element'[inner'[HeadId]].next = Nth(listed', 1)
    BY <1>1, <1>3, <1>4, <1>7 DEF next
  <2> QED BY <2>1, <2>2, <2>3, <2>4, <2>5 DEF ListInv, Nth
<1>13. SizeInv'
  <2>1. /\ IsFiniteSet(InMap) /\ Cardinality(InMap) = Len(Chain) + 1 /\ Cardinality(InMap) \in Nat
    BY <1>3, FS_CardinalityType DEF IInv, SizeInv
  <2>2. IsFiniteSet(InMap') /\ Cardinality(InMap') = Cardinality(InMap) + 1
    BY <1>3, <1>7, <2>1, FS_AddElement
  <2>3. HeadId \in InMap'
    BY <1>3, <1>7
  <2>4. Cardinality(InMap') <= MaxClones
    BY <1>1, <2>1, <2>2, ConstantsAssumption
  <2> QED BY <1>10, <2>1, <2>2, <2>3, <2>4 DEF SizeInv
<1>14. ASSUME NEW c \in CPUs PROVE WalkInv(walk[c])' /\ WholeInv(walk[c])'
  <2>1. walk[c] \in Walk /\ WalkInv(walk[c]) /\ WholeInv(walk[c])
    BY DEF IInv, TypeOK
  <2>2. /\ walk'[c] \in Walk
        /\ walk'[c].pc = walk[c].pc /\ walk'[c].elem = walk[c].elem
        /\ walk'[c].port = walk[c].port /\ walk'[c].next = walk[c].next
        /\ walk'[c].i = walk[c].i /\ walk'[c].sent = walk[c].sent
        /\ walk'[c].failed = walk[c].failed /\ walk'[c].before = walk[c].before
        /\ walk[c].pc = "idle" => walk'[c].change = walk[c].change
        /\ walk[c].pc # "idle" => walk'[c].change = how[walk[c].change]
    BY <1>1, <1>5, ChangedFacts
  <2>3. \A w \in Walk : WalkInv(w) => WalkInv(w)'
    BY <1>7, <1>10, WalkKept
  <2>4. WalkInv(walk[c])'
    <3>1. PICK w \in Walk : w = walk'[c]
      BY <2>2
    <3>2. WalkInv(w)
      BY <2>1, <2>2, <3>1, WalkInvFields
    <3>3. WalkInv(w)'
      BY <2>3, <3>2
    <3> QED BY <3>1, <3>3 DEF WalkInv, After
  <2>5. ASSUME walk[c].pc = "idle" PROVE WholeInv(walk[c])'
    BY <2>1, <2>2, <2>5 DEF WholeInv
  <2>6. ASSUME walk[c].pc # "idle" /\ walk[c].change # "none" PROVE WholeInv(walk[c])'
    BY <1>6, <2>1, <2>2, <2>6 DEF WholeInv, Walk
  <2>7. ASSUME walk[c].pc # "idle" /\ walk[c].change = "none" PROVE WholeInv(walk[c])'
    <3>1. OnBefore(walk[c]) /\ HeadId \in InMap'
      BY <1>3, <1>7, <2>1, <2>7 DEF WholeInv
    <3>2. walk[c].sent \in Seq(Ids) /\ walk'[c].change = "none"
      BY <1>6, <2>1, <2>2, <2>7 DEF Walk
    <3>3. \A k \in 1 .. Len(walk[c].before) :
            /\ walk[c].before[k] \in InMap'
            /\ element'[inner'[walk[c].before[k]]].next = Nth(walk[c].before, k + 1)
      BY <1>7, <3>1 DEF OnBefore
    <3>4. walk[c].pc \in {"port", "instance"} /\ Len(walk[c].sent) = 0 =>
            /\ walk[c].elem = inner'[HeadId]
            /\ element'[walk[c].elem].next = Nth(walk[c].before, 1)
      BY <1>3, <1>7, <2>7, <3>1 DEF OnBefore
    <3>5. OnBefore(walk[c])'
      <4>1. PICK w \in Walk : w = walk'[c]
        BY <2>2
      <4>2. OnBefore(w)
        BY <2>2, <2>7, <3>1, <3>2, <4>1 DEF OnBefore
      <4>3. OnBefore(w)'
        BY <2>2, <3>3, <3>4, <4>1, <4>2 DEF OnBefore
      <4> QED BY <4>1, <4>3 DEF OnBefore
    <3> QED BY <2>2, <2>7, <3>1, <3>5 DEF WholeInv
  <2> QED BY <2>4, <2>5, <2>6, <2>7
<1> QED BY <1>11, <1>12, <1>13, <1>14 DEF IInv

LEMMA LinkMemberStep == ASSUME IInv, LinkMember PROVE IInv'
<1> DEFINE how == [none |-> "link", link |-> "more", more |-> "more"]
<1>1. adding # HeadId /\ adding' = HeadId /\ listed' = <<adding>> \o listed /\ walk' = Changed(how)
  BY DEF LinkMember
<1>2. PICK s \in Spare : Store(s, HeadId, adding)
  BY DEF LinkMember
<1>3. adding \in Members /\ adding \in Ids /\ listed \in Seq(Members)
  BY <1>1 DEF IInv, TypeOK, Ids
<1>4. how \in [{"none", "link", "more"} -> {"none", "link", "more"}]
  OBVIOUS
<1>5. how["none"] = "link" /\ how["link"] = "more" /\ how["more"] = "more"
  OBVIOUS
<1> HIDE DEF how
<1>6. Chain = <<adding>> \o listed /\ Chain' = Chain /\ listed' = Chain
  BY <1>1 DEF Chain
<1>7. Chain \in Seq(Members) /\ Len(Chain) \in Nat /\ Len(Chain) # 0 /\ Chain[1] = adding
  BY <1>3, <1>6
<1>8. HeadId \in InMap
  BY <1>7 DEF IInv, ListInv
<1>9. /\ element' \in [Slots -> [key : Ids, next : Ids]]
      /\ inner' \in [Ids -> Slots \cup {NoSlot}]
      /\ inner'[HeadId] = s /\ element'[s] = [key |-> HeadId, next |-> adding]
      /\ \A k \in Ids : k # HeadId => inner'[k] = inner[k]
      /\ \A k \in InMap : inner[k] \in Slots /\ element'[inner[k]] = element[inner[k]]
      /\ InMap' = InMap
  <2>1. /\ element' \in [Slots -> [key : Ids, next : Ids]]
        /\ inner' \in [Ids -> Slots \cup {NoSlot}]
        /\ inner'[HeadId] = s /\ element'[s] = [key |-> HeadId, next |-> adding]
        /\ \A k \in Ids : k # HeadId => inner'[k] = inner[k]
        /\ \A k \in InMap : inner[k] \in Slots /\ element'[inner[k]] = element[inner[k]]
        /\ InMap' = InMap \cup {HeadId}
    BY <1>2, <1>3, IdFacts, StoreFacts
  <2> QED BY <1>8, <2>1
<1>10. \A m \in Members : m \in InMap =>
         inner'[m] = inner[m] /\ element'[inner[m]] = element[inner[m]]
  BY <1>9, IdFacts
<1>11. TypeOK'
  <2>1. walk' \in [CPUs -> Walk] /\ \A c \in CPUs : walk'[c].pc = walk[c].pc /\ walk'[c].elem = walk[c].elem
    BY <1>1, <1>4, ChangedFacts
  <2>2. listed' \in Seq(Members)
    BY <1>6, <1>7
  <2> QED BY <1>1, <1>9, <2>1, <2>2, IdFacts DEF IInv, TypeOK
<1>12. ListInv'
  <2>1. \A k \in InMap' : element'[inner'[k]].key = k
    <3>1. ASSUME NEW k \in InMap PROVE element'[inner'[k]].key = k
      <4>1. CASE k = HeadId
        BY <1>9, <4>1
      <4>2. CASE k # HeadId
        BY <1>9, <4>2 DEF IInv, ListInv, InMap
      <4> QED BY <4>1, <4>2
    <3> QED BY <1>9, <3>1
  <2>2. \A k \in 1 .. Len(Chain) : element'[inner'[Chain[k]]].next = Nth(Chain, k + 1)
    <3> SUFFICES ASSUME NEW k \in 1 .. Len(Chain)
                 PROVE  element'[inner'[Chain[k]]].next = Nth(Chain, k + 1)
      OBVIOUS
    <3>1. Chain[k] \in Members /\ Chain[k] \in InMap /\ element[inner[Chain[k]]].next = Nth(Chain, k + 1)
      BY ChainType DEF IInv, ListInv
    <3> QED BY <1>10, <3>1
  <2>3. element'[inner'[HeadId]].next = Nth(listed', 1)
    <3>1. 1 \in 1 .. Len(Chain)
      BY <1>7
    <3> QED BY <1>6, <1>7, <1>9, <3>1 DEF Nth
  <2>4. /\ \A j, k \in 1 .. Len(Chain) : j # k => Chain[j] # Chain[k]
        /\ \A id \in Members : id \in InMap <=> \E k \in 1 .. Len(Chain) : Chain[k] = id
    BY DEF IInv, ListInv
  <2>5. Chain' = Chain /\ InMap' = InMap /\ HeadId \in InMap'
    BY <1>6, <1>8, <1>9
  <2>6. \A k \in 1 .. Len(Chain') : element'[inner'[Chain'[k]]].next = Nth(Chain', k + 1)
    BY <2>2, <2>5
  <2> HIDE DEF Chain, InMap
  <2> QED BY <2>1, <2>3, <2>4, <2>5, <2>6 DEF ListInv, Nth
<1>13. SizeInv'
  <2>1. SizeInv /\ InMap' = InMap /\ Chain' = Chain
    BY <1>6, <1>9 DEF IInv
  <2> QED BY <2>1 DEF SizeInv
<1>14. ASSUME NEW c \in CPUs PROVE WalkInv(walk[c])' /\ WholeInv(walk[c])'
  <2>1. walk[c] \in Walk /\ WalkInv(walk[c]) /\ WholeInv(walk[c])
    BY DEF IInv, TypeOK
  <2>2. /\ walk'[c] \in Walk
        /\ walk'[c].pc = walk[c].pc /\ walk'[c].elem = walk[c].elem
        /\ walk'[c].port = walk[c].port /\ walk'[c].next = walk[c].next
        /\ walk'[c].i = walk[c].i /\ walk'[c].sent = walk[c].sent
        /\ walk'[c].failed = walk[c].failed /\ walk'[c].before = walk[c].before
        /\ walk[c].pc = "idle" => walk'[c].change = walk[c].change
        /\ walk[c].pc # "idle" => walk'[c].change = how[walk[c].change]
    BY <1>1, <1>4, ChangedFacts
  <2>3. \A w \in Walk : WalkInv(w) => WalkInv(w)'
    <3>1. Len(Chain)' = Len(Chain) + 0 /\ \A i \in 1 .. Len(Chain) : Chain'[0 + i] = Chain[i]
      BY <1>6, <1>7
    <3> QED BY <1>10, <3>1, WalkKept
  <2>4. WalkInv(walk[c])'
    <3>1. PICK w \in Walk : w = walk'[c]
      BY <2>2
    <3>2. WalkInv(w)
      BY <2>1, <2>2, <3>1, WalkInvFields
    <3>3. WalkInv(w)'
      BY <2>3, <3>2
    <3> QED BY <3>1, <3>3 DEF WalkInv, After
  <2>5. ASSUME walk[c].pc = "idle" PROVE WholeInv(walk[c])'
    BY <2>1, <2>2, <2>5 DEF WholeInv
  <2>6. ASSUME walk[c].pc # "idle" /\ walk[c].change # "none" PROVE WholeInv(walk[c])'
    BY <1>5, <2>1, <2>2, <2>6 DEF WholeInv, Walk
  <2>7. ASSUME walk[c].pc # "idle" /\ walk[c].change = "none" PROVE WholeInv(walk[c])'
    <3>1. OnBefore(walk[c]) /\ HeadId \in InMap'
      BY <1>8, <1>9, <2>1, <2>7 DEF WholeInv
    <3>2. walk[c].sent \in Seq(Ids) /\ walk'[c].change = "link" /\ walk[c].before \in Seq(Members)
      BY <1>5, <2>1, <2>2, <2>7 DEF Walk
    <3>3. \A k \in 1 .. Len(walk[c].before) :
            /\ walk[c].before[k] \in InMap'
            /\ element'[inner'[walk[c].before[k]]].next = Nth(walk[c].before, k + 1)
      <4> SUFFICES ASSUME NEW k \in 1 .. Len(walk[c].before)
                   PROVE  /\ walk[c].before[k] \in InMap'
                          /\ element'[inner'[walk[c].before[k]]].next = Nth(walk[c].before, k + 1)
        OBVIOUS
      <4>1. walk[c].before[k] \in Members
        BY <3>2
      <4>2. /\ walk[c].before[k] \in InMap
            /\ element[inner[walk[c].before[k]]].next = Nth(walk[c].before, k + 1)
        BY <3>1 DEF OnBefore
      <4> QED BY <1>9, <1>10, <4>1, <4>2
    <3>4. walk[c].pc \in {"port", "instance"} /\ Len(walk[c].sent) = 0 =>
            element'[walk[c].elem].next = Nth(walk[c].before, 1)
      BY <1>8, <1>9, <2>7, <3>1 DEF OnBefore
    <3>5. OnBefore(walk[c])'
      <4>1. PICK w \in Walk : w = walk'[c]
        BY <2>2
      <4>2. /\ Len(w.sent) <= Len(w.before) /\ \A i \in 1 .. Len(w.sent) : w.sent[i] = w.before[i]
            /\ Len(w.before) < MaxClones
            /\ w.i = IF w.pc = "clone" THEN Len(w.sent) + 1 ELSE Len(w.sent)
            /\ w.pc = "instance" => w.port = Nth(w.before, Len(w.sent) + 1).port
            /\ w.pc \in {"lookup", "clone"} => w.next = Nth(w.before, Len(w.sent) + 1)
        BY <2>2, <3>1, <4>1 DEF OnBefore
      <4>3. OnBefore(w)'
        BY <2>2, <3>2, <3>3, <3>4, <4>1, <4>2 DEF OnBefore
      <4> QED BY <4>1, <4>3 DEF OnBefore
    <3> QED BY <2>2, <2>7, <3>1, <3>5 DEF WholeInv
  <2> QED BY <2>4, <2>5, <2>6, <2>7
<1> QED BY <1>11, <1>12, <1>13, <1>14 DEF IInv

-----------------------------------------------------------------------------
(* The theorems.                                                           *)

LEMMA InitInv == Init => IInv
<1> SUFFICES ASSUME Init PROVE IInv
  OBVIOUS
<1>1. /\ element \in [Slots -> {[key |-> HeadId, next |-> HeadId]}]
      /\ inner = [id \in Ids |-> NoSlot] /\ adding = HeadId /\ listed = <<>>
  BY DEF Init
<1>2. InMap = {} /\ Chain = <<>> /\ Len(Chain) = 0
  BY <1>1 DEF InMap, Chain
<1>3. ASSUME NEW c \in CPUs
      PROVE  walk[c] = [pc |-> "idle", elem |-> NoSlot, port |-> 0, i |-> 0, next |-> HeadId,
                        sent |-> <<>>, failed |-> FALSE, before |-> <<>>, change |-> "none"]
  BY DEF Init
<1>4. 0 \in Part("port") /\ HeadId \in [port : Part("port"), instance : Part("instance")] /\ 0 \in 0 .. MaxClones
  BY IdFacts, ConstantsAssumption DEF HeadId
<1>5. \A c \in CPUs : walk[c] \in Walk
  <2>1. <<>> \in Seq(Ids) /\ <<>> \in Seq(Members)
    OBVIOUS
  <2>2. [pc |-> "idle", elem |-> NoSlot, port |-> 0, i |-> 0, next |-> HeadId,
         sent |-> <<>>, failed |-> FALSE, before |-> <<>>, change |-> "none"] \in Walk
    <3> HIDE DEF HeadId, Ids, Part
    <3> QED BY <1>4, <2>1 DEF Walk
  <2> QED BY <1>3, <2>2
<1>6. walk \in [CPUs -> Walk]
  BY <1>5 DEF Init
<1>7. TypeOK
  BY <1>1, <1>3, <1>6, IdFacts DEF TypeOK
<1>8. ListInv
  BY <1>1, <1>2, IdFacts DEF ListInv
<1>9. SizeInv
  BY <1>2, FS_EmptySet, ConstantsAssumption DEF SizeInv
<1>10. ASSUME NEW c \in CPUs PROVE WalkInv(walk[c]) /\ WholeInv(walk[c])
  <2>1. walk[c].pc = "idle" /\ walk[c].sent = <<>> /\ walk[c].before = <<>>
    BY <1>3
  <2>2. 0 \in Nat /\ 0 + Len(<<>>) <= Len(Chain) /\ 1 .. Len(<<>>) = {}
    BY <1>2
  <2> QED BY <2>1, <2>2 DEF WalkInv, WholeInv
<1> QED BY <1>7, <1>8, <1>9, <1>10 DEF IInv

LEMMA NextInv == IInv /\ [Next]_vars => IInv'
<1> SUFFICES ASSUME IInv, [Next]_vars PROVE IInv'
  OBVIOUS
<1>1. CASE UNCHANGED vars
  <2>1. Chain' = Chain /\ InMap' = InMap
    BY <1>1 DEF vars, Chain, InMap
  <2>2. UNCHANGED <<element, inner, adding, listed, walk>>
    BY <1>1 DEF vars
  <2>3. TypeOK'
    BY <2>2 DEF IInv, TypeOK
  <2>4. ListInv'
    BY <2>1, <2>2 DEF IInv, ListInv, Nth
  <2>5. SizeInv'
    BY <2>1 DEF IInv, SizeInv
  <2>6. ASSUME NEW c \in CPUs PROVE WalkInv(walk[c])' /\ WholeInv(walk[c])'
    BY <2>1, <2>2 DEF IInv, WalkInv, WholeInv, OnBefore, After
  <2> QED BY <2>3, <2>4, <2>5, <2>6 DEF IInv
<1>2. ASSUME NEW c \in CPUs, Step(c) PROVE IInv'
  BY <1>2, LookupHeadStep, LoadPortStep, LoadInstanceStep, LookupStep, CloneStep DEF Step
<1>3. ASSUME ControlPlane PROVE IInv'
  BY <1>3, StoreHeadStep, LinkMemberStep, StoreMemberStep DEF ControlPlane
<1> QED BY <1>1, <1>2, <1>3 DEF Next

THEOREM Invariant == Spec => []IInv
BY InitInv, NextInv, PTL DEF Spec

\* No NULL is dereferenced, no link that is torn leads outside the ids, and the loop
\* counter stays within its bound.
THEOREM TypeCorrect == Spec => []TypeOK
<1>1. IInv => TypeOK
  BY DEF IInv
<1> QED BY <1>1, Invariant, PTL

\* However many members are added during a walk and whatever slots are overwritten, no
\* member receives two copies and the entry of the head none.
THEOREM CopiedOnce == Spec => []AtMostOnce
<1>1. IInv => AtMostOnce
  <2> SUFFICES ASSUME IInv, NEW c \in CPUs
               PROVE  /\ \A i, j \in DOMAIN walk[c].sent : i # j => walk[c].sent[i] # walk[c].sent[j]
                      /\ \A i \in DOMAIN walk[c].sent : walk[c].sent[i] # HeadId
    BY DEF AtMostOnce
  <2>1. walk[c] \in Walk /\ WalkInv(walk[c])
    BY DEF IInv, TypeOK
  <2>2. DOMAIN walk[c].sent = 1 .. Len(walk[c].sent) /\ Len(walk[c].sent) \in Nat
    BY <2>1 DEF Walk
  <2>3. PICK p \in Nat : /\ p + Len(walk[c].sent) <= Len(Chain)
                         /\ \A i \in 1 .. Len(walk[c].sent) : walk[c].sent[i] = Chain[p + i]
    BY <2>1 DEF WalkInv
  <2>4. \A i \in 1 .. Len(walk[c].sent) : p + i \in 1 .. Len(Chain)
    BY <2>2, <2>3, ChainType DEF IInv
  <2>5. ASSUME NEW i \in 1 .. Len(walk[c].sent) PROVE walk[c].sent[i] # HeadId
    BY <2>3, <2>4, ChainType, IdFacts DEF IInv
  <2>6. ASSUME NEW i \in 1 .. Len(walk[c].sent), NEW j \in 1 .. Len(walk[c].sent), i # j
        PROVE  walk[c].sent[i] # walk[c].sent[j]
    <3>1. p + i # p + j /\ p + i \in 1 .. Len(Chain) /\ p + j \in 1 .. Len(Chain)
      BY <2>4, <2>6
    <3>2. Chain[p + i] # Chain[p + j]
      BY <3>1 DEF IInv, ListInv
    <3> QED BY <2>3, <3>2
  <2> QED BY <2>2, <2>5, <2>6
<1> QED BY <1>1, Invariant, PTL

\* A walk disturbed by no more than one link copies the packet to the whole list as it
\* was when the walk began.
THEOREM Whole == Spec => []WholeList
<1>1. IInv => WholeList
  BY DEF IInv, WholeInv, WholeList
<1> QED BY <1>1, Invariant, PTL

=============================================================================
