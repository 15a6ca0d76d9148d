------------------------- MODULE UserRuntime_proofs -------------------------
(***************************************************************************)
(* Proofs about UserRuntime: for any number of tables, names, keys, values *)
(* and calls the two hashes of the registry agree and map names to ids one *)
(* to one, and no table holds a key twice.                                 *)
(***************************************************************************)
EXTENDS UserRuntime, SequenceTheorems, TLAPS

\* No two entries of one name or id, and a name is that of its table.
EntriesInv ==
  /\ reg_tables_name = reg_tables_id
  /\ \A d, e \in reg_tables_name : d # e => d.name # e.name /\ d.handle # e.handle
  /\ \A e \in reg_tables_name : e.name = NameIn[e.tbl] /\ e.handle < table_indexer

\* An insertion that finds no element of its key appends one.
KeysInv == \A t \in Tables : \A i, j \in DOMAIN elements[t] : KeyAt(t, i) = KeyAt(t, j) => i = j

\* A table without a first element has none.
PointerInv == \A t \in Tables : bpf_map[t] = "null" => elements[t] = <<>>

IInv == TypeOK /\ EntriesInv /\ KeysInv /\ PointerInv

-----------------------------------------------------------------------------
(* The operations on one map.                                              *)

\* What the hash of one table may become: nothing about it is left to prove when the
\* others stay.
OneMap(t, s, p) ==
  /\ elements' = [elements EXCEPT ![t] = s]
  /\ bpf_map' = [bpf_map EXCEPT ![t] = p]

DistinctKeys(s) == \A i, j \in DOMAIN s : s[i].key = s[j].key => i = j

LEMMA OneMapKeeps ==
  ASSUME IInv, NEW t \in Tables, NEW s \in Seq(Element), DistinctKeys(s),
         NEW p \in {"null", "live", "freed"}, p = "null" => s = <<>>, OneMap(t, s, p)
  PROVE  /\ elements' \in [Tables -> Seq(Element)] /\ bpf_map' \in [Tables -> {"null", "live", "freed"}]
         /\ KeysInv' /\ PointerInv'
<1>1. elements \in [Tables -> Seq(Element)] /\ bpf_map \in [Tables -> {"null", "live", "freed"}]
  BY DEF IInv, TypeOK
<1>2. /\ elements'[t] = s /\ bpf_map'[t] = p
      /\ \A u \in Tables : u # t => elements'[u] = elements[u] /\ bpf_map'[u] = bpf_map[u]
  BY <1>1 DEF OneMap
<1>3. elements' \in [Tables -> Seq(Element)] /\ bpf_map' \in [Tables -> {"null", "live", "freed"}]
  BY <1>1 DEF OneMap
<1>4. KeysInv'
  <2> SUFFICES ASSUME NEW u \in Tables, NEW i \in DOMAIN elements'[u], NEW j \in DOMAIN elements'[u],
                      elements'[u][i].key = elements'[u][j].key
               PROVE  i = j
    BY DEF KeysInv, KeyAt
  <2>1. CASE u = t
    BY <1>2, <2>1 DEF DistinctKeys
  <2>2. CASE u # t
    BY <1>2, <2>2 DEF IInv, KeysInv, KeyAt
  <2> QED BY <2>1, <2>2
<1>5. PointerInv'
  BY <1>2 DEF IInv, PointerInv
<1> QED BY <1>3, <1>4, <1>5

\* The sequence without its i-th element.
LEMMA RemoveFacts ==
  ASSUME NEW s \in Seq(Element), NEW i \in 1 .. Len(s)
  PROVE  /\ Remove(s, i) \in Seq(Element) /\ Len(Remove(s, i)) = Len(s) - 1
         /\ \A k \in 1 .. Len(s) - 1 : Remove(s, i)[k] = s[IF k < i THEN k ELSE k + 1]
<1>1. i \in Nat /\ Len(s) \in Nat /\ 1 <= i /\ i <= Len(s)
  OBVIOUS
<1> DEFINE a == SubSeq(s, 1, i - 1)
           b == SubSeq(s, i + 1, Len(s))
<1>2. a \in Seq(Element) /\ Len(a) = i - 1 /\ \A k \in 1 .. i - 1 : a[k] = s[k]
  <2>1. \A k \in 1 .. i - 1 : s[k] \in Element
    BY <1>1
  <2> QED BY <1>1, <2>1, SubSeqProperties
<1>3. b \in Seq(Element) /\ Len(b) = Len(s) - i /\ \A k \in 1 .. Len(s) - i : b[k] = s[i + k]
  <2>1. \A k \in (i + 1) .. Len(s) : s[k] \in Element
    BY <1>1
  <2> QED BY <1>1, <2>1, SubSeqProperties
<1> HIDE DEF a, b
<1>4. Remove(s, i) = a \o b
  BY DEF Remove, a, b
<1>5. a \o b \in Seq(Element) /\ Len(a \o b) = Len(s) - 1
  BY <1>1, <1>2, <1>3
<1>6. ASSUME NEW k \in 1 .. Len(s) - 1 PROVE (a \o b)[k] = s[IF k < i THEN k ELSE k + 1]
  <2>1. CASE k < i
    <3>1. k \in 1 .. Len(a) /\ k \in 1 .. i - 1
      BY <1>1, <1>2, <2>1
    <3> QED BY <1>2, <1>3, <2>1, <3>1
  <2>2. CASE ~(k < i)
    <3>1. k \in (Len(a) + 1) .. (Len(a) + Len(b)) /\ k - Len(a) \in 1 .. Len(s) - i /\ i + (k - Len(a)) = k + 1
      BY <1>1, <1>2, <1>3, <2>2
    <3>2. (a \o b)[k] = b[k - Len(a)]
      BY <1>2, <1>3, <3>1
    <3> QED BY <1>3, <2>2, <3>1, <3>2
  <2> QED BY <2>1, <2>2
<1> QED BY <1>4, <1>5, <1>6

LEMMA IndexFacts ==
  ASSUME NEW t \in Tables, NEW k, Holds(t, k)
  PROVE  Index(t, k) \in DOMAIN elements[t] /\ KeyAt(t, Index(t, k)) = k
BY DEF Holds, Index

\* What an operation on a map leaves of the invariant.
MapsKept ==
  /\ elements' \in [Tables -> Seq(Element)] /\ bpf_map' \in [Tables -> {"null", "live", "freed"}]
  /\ KeysInv' /\ PointerInv'

LEMMA MapsUnchanged == IInv /\ UNCHANGED <<elements, bpf_map>> => MapsKept
BY DEF IInv, TypeOK, MapsKept, KeysInv, PointerInv, KeyAt

LEMMA UpdateElem ==
  ASSUME IInv, NEW t \in Tables, NEW k \in Keys, NEW v \in Values, NEW flags,
         bpf_map_update_elem(t, k, v, flags)
  PROVE  MapsKept
<1>1. CASE ~check_flags(Holds(t, k), flags)
  BY <1>1, MapsUnchanged DEF bpf_map_update_elem
<1>2. CASE check_flags(Holds(t, k), flags)
  <2> DEFINE old == elements[t]
             new == IF Holds(t, k) THEN [old EXCEPT ![Index(t, k)].value = v]
                    ELSE Append(old, [key |-> k, value |-> v])
  <2>1. elements' = [elements EXCEPT ![t] = new] /\ bpf_map' = [bpf_map EXCEPT ![t] = "live"]
    BY <1>2 DEF bpf_map_update_elem, IInv, TypeOK
  <2>2. OneMap(t, new, "live")
    BY <2>1 DEF OneMap
  <2>3. old \in Seq(Element) /\ DistinctKeys(old)
    BY DEF IInv, TypeOK, KeysInv, KeyAt, DistinctKeys
  <2>4. new \in Seq(Element) /\ DistinctKeys(new)
    <3>1. CASE Holds(t, k)
      <4> DEFINE i == Index(t, k)
      <4>1. i \in 1 .. Len(old) /\ old[i] \in Element
        BY <2>3, <3>1, IndexFacts
      <4> HIDE DEF i
      <4>2. new = [old EXCEPT ![i].value = v]
        BY <3>1 DEF i
      <4>3. [old[i] EXCEPT !.value = v] \in Element
        BY <4>1 DEF Element
      <4>4. new \in Seq(Element)
        <5>1. \A f \in Seq(Element) : \A j \in 1 .. Len(f), x \in Element : [f EXCEPT ![j] = x] \in Seq(Element)
          OBVIOUS
        <5>2. new = [old EXCEPT ![i] = [old[i] EXCEPT !.value = v]]
          BY <4>2
        <5> QED BY <2>3, <4>1, <4>3, <5>1, <5>2
      <4>5. DOMAIN new = DOMAIN old /\ \A j \in DOMAIN old : new[j].key = old[j].key
        BY <2>3, <4>1, <4>2 DEF Element
      <4> QED BY <2>3, <4>4, <4>5 DEF DistinctKeys
    <3>2. CASE ~Holds(t, k)
      <4> DEFINE e == [key |-> k, value |-> v]
      <4>1. e \in Element /\ e.key = k
        BY DEF Element
      <4>2. \A j \in 1 .. Len(old) : old[j].key # k
        BY <2>3, <3>2 DEF Holds, KeyAt
      <4>3. new = Append(old, e)
        BY <3>2
      <4> HIDE DEF e
      <4>4. /\ new \in Seq(Element) /\ Len(new) = Len(old) + 1 /\ new[Len(old) + 1] = e
            /\ \A j \in 1 .. Len(old) : new[j] = old[j]
        BY <2>3, <4>1, <4>3
      <4>5. DOMAIN new = 1 .. Len(old) + 1 /\ Len(old) \in Nat /\ DOMAIN old = 1 .. Len(old)
        BY <2>3, <4>4
      <4>6. ASSUME NEW i \in DOMAIN new, NEW j \in DOMAIN new, new[i].key = new[j].key PROVE i = j
        <5>1. (i \in 1 .. Len(old) \/ i = Len(old) + 1) /\ (j \in 1 .. Len(old) \/ j = Len(old) + 1)
          BY <4>5
        <5> QED BY <2>3, <4>1, <4>2, <4>4, <4>5, <4>6, <5>1 DEF DistinctKeys
      <4> QED BY <4>4, <4>6 DEF DistinctKeys
    <3> QED BY <3>1, <3>2
  <2> HIDE DEF new
  <2> QED BY <2>2, <2>4, OneMapKeeps DEF MapsKept
<1> QED BY <1>1, <1>2

LEMMA DeleteElem ==
  ASSUME IInv, NEW t \in Tables, NEW k \in Keys, bpf_map_delete_elem(t, k)
  PROVE  MapsKept
<1>1. CASE ~Holds(t, k)
  BY <1>1, MapsUnchanged DEF bpf_map_delete_elem
<1>2. CASE Holds(t, k)
  <2> DEFINE old == elements[t]
             i == Index(t, k)
             new == Remove(old, i)
             p == IF i = 1 THEN "freed" ELSE bpf_map[t]
  <2>1. elements' = [elements EXCEPT ![t] = new] /\ bpf_map' = [bpf_map EXCEPT ![t] = p]
    BY <1>2 DEF bpf_map_delete_elem, IInv, TypeOK
  <2>2. OneMap(t, new, p)
    BY <2>1 DEF OneMap
  <2>3. old \in Seq(Element) /\ DistinctKeys(old) /\ (bpf_map[t] = "null" => old = <<>>)
    BY DEF IInv, TypeOK, KeysInv, PointerInv, KeyAt, DistinctKeys
  <2>4. i \in 1 .. Len(old) /\ Len(old) \in Nat
    BY <1>2, <2>3, IndexFacts
  <2>5. bpf_map[t] # "null" /\ p \in {"null", "live", "freed"} /\ p # "null"
    <3>1. bpf_map[t] \in {"null", "live", "freed"}
      BY DEF IInv, TypeOK
    <3>2. old # <<>>
      BY <2>4
    <3> HIDE DEF old, i
    <3> QED BY <2>3, <3>1, <3>2
  <2> HIDE DEF i
  <2>6. /\ new \in Seq(Element) /\ DOMAIN new = 1 .. Len(old) - 1
        /\ \A j \in 1 .. Len(old) - 1 : new[j] = old[IF j < i THEN j ELSE j + 1]
    <3>1. /\ new \in Seq(Element) /\ Len(new) = Len(old) - 1
          /\ \A j \in 1 .. Len(old) - 1 : new[j] = old[IF j < i THEN j ELSE j + 1]
      BY <2>3, <2>4, RemoveFacts
    <3> QED BY <3>1
  <2> HIDE DEF new
  <2>7. DistinctKeys(new)
    <3> SUFFICES ASSUME NEW j \in 1 .. Len(old) - 1, NEW l \in 1 .. Len(old) - 1, new[j].key = new[l].key
                 PROVE  j = l
      BY <2>6 DEF DistinctKeys
    <3> DEFINE Old(x) == IF x < i THEN x ELSE x + 1
    <3>1. Old(j) \in DOMAIN old /\ Old(l) \in DOMAIN old /\ old[Old(j)].key = old[Old(l)].key
      BY <2>3, <2>4, <2>6
    <3>2. Old(j) = Old(l)
      BY <2>3, <3>1 DEF DistinctKeys
    <3> QED BY <2>4, <3>2
  <2> HIDE DEF p
  <2> QED BY <2>2, <2>5, <2>6, <2>7, OneMapKeeps DEF MapsKept
<1> QED BY <1>1, <1>2

LEMMA LookupElem == ASSUME IInv, NEW t, NEW k, bpf_map_lookup_elem(t, k) PROVE MapsKept
BY MapsUnchanged DEF bpf_map_lookup_elem

-----------------------------------------------------------------------------
(* The registry.                                                           *)

\* A call that leaves the registry alone.
LEMMA RegistryUnchanged ==
  ASSUME IInv, MapsKept, UNCHANGED <<reg_tables_name, reg_tables_id, table_indexer>>,
         wild' \in {"", "element", "entry"}
  PROVE  IInv'
BY DEF IInv, TypeOK, MapsKept, EntriesInv

LEMMA FoundTable ==
  ASSUME IInv
  PROVE  /\ \A n \in Names : \A e \in ByName(n) : e.tbl \in Tables /\ e \in reg_tables_name /\ e.name = n
         /\ \A id : \A e \in ById(id) : e.tbl \in Tables
BY DEF IInv, TypeOK, ByName, ById, RegistryEntry

LEMMA UpdateTable ==
  ASSUME IInv, NEW found, \A e \in found : e.tbl \in Tables, NEW k \in Keys, NEW v \in Values,
         NEW flags \in 0 .. 3, OnTable(found, Failure, LAMBDA t : bpf_map_update_elem(t, k, v, flags))
  PROVE  IInv'
<1>1. UNCHANGED <<reg_tables_name, reg_tables_id, table_indexer>>
  BY DEF OnTable
<1>2. CASE UNCHANGED <<elements, bpf_map, wild>>
  BY <1>1, <1>2, MapsUnchanged, RegistryUnchanged DEF IInv, TypeOK
<1>3. CASE wild' = "element" /\ UNCHANGED <<elements, bpf_map>>
  BY <1>1, <1>3, MapsUnchanged, RegistryUnchanged
<1>4. ASSUME NEW e \in found, bpf_map_update_elem(e.tbl, k, v, flags), UNCHANGED wild PROVE IInv'
  BY <1>1, <1>4, UpdateElem, RegistryUnchanged DEF IInv, TypeOK
<1> QED BY <1>2, <1>3, <1>4 DEF OnTable

LEMMA DeleteTableElem ==
  ASSUME IInv, NEW found, \A e \in found : e.tbl \in Tables, NEW k \in Keys,
         NEW fail, OnTable(found, fail, LAMBDA t : bpf_map_delete_elem(t, k))
  PROVE  IInv'
<1>1. UNCHANGED <<reg_tables_name, reg_tables_id, table_indexer>>
  BY DEF OnTable
<1>2. CASE UNCHANGED <<elements, bpf_map, wild>>
  BY <1>1, <1>2, MapsUnchanged, RegistryUnchanged DEF IInv, TypeOK
<1>3. CASE wild' = "element" /\ UNCHANGED <<elements, bpf_map>>
  BY <1>1, <1>3, MapsUnchanged, RegistryUnchanged
<1>4. ASSUME NEW e \in found, bpf_map_delete_elem(e.tbl, k), UNCHANGED wild PROVE IInv'
  BY <1>1, <1>4, DeleteElem, RegistryUnchanged DEF IInv, TypeOK
<1> QED BY <1>2, <1>3, <1>4 DEF OnTable

LEMMA LookupTableElem ==
  ASSUME IInv, NEW found, NEW k \in Keys,
         NEW fail, OnTable(found, fail, LAMBDA t : bpf_map_lookup_elem(t, k))
  PROVE  IInv'
<1>1. UNCHANGED <<reg_tables_name, reg_tables_id, table_indexer, elements, bpf_map>>
  BY DEF OnTable, bpf_map_lookup_elem
<1>2. wild' \in {"", "element", "entry"}
  BY DEF OnTable, IInv, TypeOK
<1> QED BY <1>1, <1>2, MapsUnchanged, RegistryUnchanged

LEMMA AddTable == ASSUME IInv, NEW t \in Tables, registry_add(t) PROVE IInv'
<1> DEFINE n == NameIn[t]
           entry == [name |-> n, handle |-> table_indexer, tbl |-> t]
<1>1. UNCHANGED <<elements, bpf_map, wild>> /\ MapsKept
  BY MapsUnchanged DEF registry_add
<1>2. CASE ByName(n) # {} \/ n \in LongNames
  BY <1>1, <1>2, RegistryUnchanged DEF registry_add, IInv, TypeOK
<1>3. CASE ByName(n) = {} /\ n \notin LongNames
  <2>1. /\ reg_tables_name' = reg_tables_name \cup {entry} /\ reg_tables_id' = reg_tables_id \cup {entry}
        /\ table_indexer' = table_indexer + 1
    BY <1>3 DEF registry_add
  <2>2. /\ reg_tables_name \subseteq RegistryEntry /\ reg_tables_name = reg_tables_id
        /\ table_indexer \in Nat
        /\ \A e \in reg_tables_name : e.name # n /\ e.handle < table_indexer /\ e.name = NameIn[e.tbl]
    BY <1>3 DEF IInv, TypeOK, EntriesInv, ByName
  <2>3. \A e \in reg_tables_name : e.handle \in Nat
    BY <2>2 DEF RegistryEntry
  <2>4. entry \in RegistryEntry /\ entry.name = NameIn[entry.tbl] /\ entry.handle = table_indexer
    BY <1>3, <2>2, ConstantsAssumption DEF RegistryEntry
  <2> HIDE DEF entry
  <2>5. EntriesInv'
    <3>1. reg_tables_name' = reg_tables_id'
      BY <2>1, <2>2
    <3>2. ASSUME NEW d \in reg_tables_name', NEW e \in reg_tables_name', d # e
          PROVE  d.name # e.name /\ d.handle # e.handle
      <4>1. CASE d \in reg_tables_name /\ e \in reg_tables_name
        BY <3>2, <4>1 DEF IInv, EntriesInv
      <4>2. CASE d = entry \/ e = entry
        <5>1. entry.name = n
          BY DEF entry
        <5> QED BY <2>1, <2>2, <2>3, <2>4, <3>2, <4>2, <5>1
      <4> QED BY <2>1, <4>1, <4>2
    <3>3. \A e \in reg_tables_name' : e.name = NameIn[e.tbl] /\ e.handle < table_indexer'
      BY <2>1, <2>2, <2>3, <2>4
    <3> QED BY <3>1, <3>2, <3>3 DEF EntriesInv
  <2>6. /\ reg_tables_name' \subseteq RegistryEntry /\ reg_tables_id' \subseteq RegistryEntry
        /\ table_indexer' \in Nat
    BY <2>1, <2>2, <2>4
  <2>7. wild' \in {"", "element", "entry"}
    BY <1>1 DEF IInv, TypeOK
  <2> QED BY <1>1, <2>5, <2>6, <2>7 DEF IInv, TypeOK, MapsKept
<1> QED BY <1>2, <1>3

LEMMA DeleteTable == ASSUME IInv, NEW n \in Names, registry_delete_tbl(n) PROVE IInv'
<1>1. UNCHANGED table_indexer
  BY DEF registry_delete_tbl
<1>2. CASE UNCHANGED <<reg_tables_name, reg_tables_id, elements, bpf_map>> /\ wild' \in {"element", wild}
  BY <1>1, <1>2, MapsUnchanged, RegistryUnchanged DEF IInv, TypeOK
<1>3. ASSUME NEW e \in ByName(n), bpf_map[e.tbl] # "freed",
             elements' = [elements EXCEPT ![e.tbl] = <<>>],
             bpf_map' = [bpf_map EXCEPT ![e.tbl] = IF @ = "live" THEN "freed" ELSE @],
             reg_tables_name' = reg_tables_name \ {e}, reg_tables_id' = reg_tables_id \ {e},
             UNCHANGED wild
      PROVE  IInv'
  <2> DEFINE p == IF bpf_map[e.tbl] = "live" THEN "freed" ELSE bpf_map[e.tbl]
  <2>1. e.tbl \in Tables
    BY FoundTable
  <2>2. <<>> \in Seq(Element) /\ DistinctKeys(<<>>)
    BY DEF DistinctKeys
  <2>3. p \in {"null", "live", "freed"} /\ OneMap(e.tbl, <<>>, p)
    BY <1>3, <2>1 DEF OneMap, IInv, TypeOK
  <2>4. MapsKept
    BY <2>1, <2>2, <2>3, OneMapKeeps DEF MapsKept
  <2>5. EntriesInv'
    BY <1>1, <1>3 DEF IInv, EntriesInv
  <2> QED BY <1>1, <1>3, <2>4, <2>5 DEF IInv, TypeOK, MapsKept
<1> QED BY <1>2, <1>3 DEF registry_delete_tbl

-----------------------------------------------------------------------------
(* The store that the registry implements.                                 *)

LEMMA StoredFacts ==
  ASSUME IInv
  PROVE  /\ DOMAIN StoredTables = {e.name : e \in reg_tables_name}
         /\ \A e \in reg_tables_name : StoredTables[e.name] = Stored(e)
         /\ \A n \in Names : ByName(n) = {} => n \notin DOMAIN StoredTables
         /\ \A n \in Names : \A e \in ByName(n) : n \in DOMAIN StoredTables /\ StoredTables[n] = Stored(e)
<1>1. ASSUME NEW e \in reg_tables_name PROVE (CHOOSE x \in reg_tables_name : x.name = e.name) = e
  BY DEF IInv, EntriesInv
<1>2. DOMAIN StoredTables = {e.name : e \in reg_tables_name}
  BY DEF StoredTables
<1>3. \A e \in reg_tables_name : StoredTables[e.name] = Stored(e)
  BY <1>1 DEF StoredTables
<1>4. \A n \in Names : ByName(n) = {} => n \notin DOMAIN StoredTables
  BY <1>2 DEF ByName, IInv, TypeOK, RegistryEntry
<1>5. \A n \in Names : \A e \in ByName(n) : e \in reg_tables_name /\ e.name = n
  BY DEF ByName
<1> QED BY <1>2, <1>3, <1>4, <1>5

\* Each key of a table has one element, whose value is the entry's.
LEMMA EntryFacts ==
  ASSUME IInv, NEW t \in Tables
  PROVE  /\ DOMAIN EntriesOf(t) = {k \in Keys : Holds(t, k)}
         /\ \A k \in Keys : Holds(t, k) => EntriesOf(t)[k] = elements[t][Index(t, k)].value
         /\ \A i \in DOMAIN elements[t] :
              /\ Holds(t, KeyAt(t, i)) /\ Index(t, KeyAt(t, i)) = i
              /\ KeyAt(t, i) \in Keys /\ EntriesOf(t)[KeyAt(t, i)] = elements[t][i].value
<1>1. DOMAIN EntriesOf(t) = {k \in Keys : Holds(t, k)}
  BY DEF EntriesOf
<1>2. \A k \in Keys : Holds(t, k) => EntriesOf(t)[k] = elements[t][Index(t, k)].value
  BY DEF EntriesOf
<1>3. ASSUME NEW i \in DOMAIN elements[t]
      PROVE  Holds(t, KeyAt(t, i)) /\ Index(t, KeyAt(t, i)) = i /\ KeyAt(t, i) \in Keys
  <2>1. Holds(t, KeyAt(t, i))
    BY DEF Holds
  <2>2. Index(t, KeyAt(t, i)) \in DOMAIN elements[t] /\ KeyAt(t, Index(t, KeyAt(t, i))) = KeyAt(t, i)
    BY <2>1, IndexFacts
  <2>3. Index(t, KeyAt(t, i)) = i
    BY <2>2 DEF IInv, KeysInv
  <2>4. elements[t] \in Seq(Element)
    BY DEF IInv, TypeOK
  <2>5. elements[t][i] \in Element
    BY <2>4
  <2> QED BY <2>1, <2>3, <2>5 DEF KeyAt, Element
<1> QED BY <1>1, <1>2, <1>3 DEF KeyAt

\* The entries of a table as a function of its list.
EntriesIn(s) ==
  [k \in {x \in Keys : \E i \in DOMAIN s : s[i].key = x} |-> s[CHOOSE i \in DOMAIN s : s[i].key = k].value]

LEMMA EntriesOfList ==
  \A t \in Tables : EntriesOf(t) = EntriesIn(elements[t]) /\ EntriesOf(t)' = EntriesIn(elements'[t])
BY DEF EntriesOf, EntriesIn, Holds, Index, KeyAt

\* What the entries become when the hash of one table does.
LEMMA EntriesAfter ==
  ASSUME IInv, MapsKept, NEW t \in Tables, NEW s, NEW p, OneMap(t, s, p)
  PROVE  /\ \A u \in Tables : u # t => EntriesOf(u)' = EntriesOf(u)
         /\ \A k \in Keys : k \in DOMAIN EntriesOf(t)' <=> \E i \in DOMAIN s : s[i].key = k
         /\ \A i \in DOMAIN s : s[i].key \in Keys /\ EntriesOf(t)'[s[i].key] = s[i].value
         /\ DOMAIN EntriesOf(t)' \subseteq Keys
         /\ EntriesOf(t)' = [k \in DOMAIN EntriesOf(t)' |-> EntriesOf(t)'[k]]
<1>1. elements'[t] = s /\ \A u \in Tables : u # t => elements'[u] = elements[u]
  BY DEF OneMap, IInv, TypeOK
<1>2. ASSUME NEW u \in Tables, u # t PROVE EntriesOf(u)' = EntriesOf(u)
  BY <1>1, <1>2, EntriesOfList
<1>3. EntriesOf(t)' = [k \in {x \in Keys : \E i \in DOMAIN s : s[i].key = x} |->
                         s[CHOOSE i \in DOMAIN s : s[i].key = k].value]
  <2>1. EntriesOf(t)' = EntriesIn(s)
    BY <1>1, EntriesOfList
  <2> QED BY <2>1 DEF EntriesIn
<1>4. s \in Seq(Element) /\ DistinctKeys(s)
  BY <1>1 DEF MapsKept, KeysInv, KeyAt, DistinctKeys
<1>5. ASSUME NEW i \in DOMAIN s PROVE s[i].key \in Keys /\ EntriesOf(t)'[s[i].key] = s[i].value
  <2>1. s[i].key \in Keys
    <3>1. s[i] \in Element
      BY <1>4
    <3> QED BY <3>1 DEF Element
  <2>2. (CHOOSE j \in DOMAIN s : s[j].key = s[i].key) = i
    BY <1>4 DEF DistinctKeys
  <2> QED BY <1>3, <2>1, <2>2
<1>6. /\ \A k \in Keys : k \in DOMAIN EntriesOf(t)' <=> \E i \in DOMAIN s : s[i].key = k
      /\ DOMAIN EntriesOf(t)' \subseteq Keys
      /\ EntriesOf(t)' = [k \in DOMAIN EntriesOf(t)' |-> EntriesOf(t)'[k]]
  BY <1>3
<1> QED BY <1>2, <1>5, <1>6

\* What the store becomes when the hash of one table does.
LEMMA StoredAfter ==
  ASSUME IInv, MapsKept, reg_tables_name' = reg_tables_name, NEW e \in reg_tables_name,
         NEW s, NEW p, OneMap(e.tbl, s, p)
  PROVE  StoredTables' = [StoredTables EXCEPT ![e.name].entries = EntriesOf(e.tbl)']
<1> DEFINE tables == [StoredTables EXCEPT ![e.name].entries = EntriesOf(e.tbl)']
<1>1. \A d \in reg_tables_name : (CHOOSE x \in reg_tables_name : x.name = d.name) = d
  BY DEF IInv, EntriesInv
<1> DEFINE Now(d) == [id |-> d.handle, entries |-> EntriesIn(elements'[d.tbl])]
<1>2. StoredTables' = [n \in {d.name : d \in reg_tables_name} |->
                         Now(CHOOSE d \in reg_tables_name : d.name = n)]
  BY DEF StoredTables, Stored, EntriesOf, EntriesIn, Holds, Index, KeyAt
<1>3. DOMAIN tables = {d.name : d \in reg_tables_name}
  BY StoredFacts
<1>4. e.tbl \in Tables /\ StoredTables[e.name] = Stored(e)
  BY StoredFacts DEF IInv, TypeOK, RegistryEntry
<1>5. ASSUME NEW d \in reg_tables_name
      PROVE  tables[d.name] = Now(d)
  <2>0. d.tbl \in Tables /\ EntriesOf(d.tbl)' = EntriesIn(elements'[d.tbl])
    BY EntriesOfList DEF IInv, TypeOK, RegistryEntry
  <2>1. CASE d = e
    BY <1>4, <2>0, <2>1, StoredFacts DEF Stored
  <2>2. CASE d # e
    <3>1. d.name # e.name /\ d.tbl # e.tbl /\ d.tbl \in Tables
      BY <2>2 DEF IInv, TypeOK, RegistryEntry, EntriesInv
    <3>2. EntriesOf(d.tbl)' = EntriesOf(d.tbl)
      BY <1>4, <3>1, EntriesAfter
    <3> QED BY <2>0, <3>1, <3>2, StoredFacts DEF Stored
  <2> QED BY <2>1, <2>2
<1> HIDE DEF tables, Now
<1>6. ASSUME NEW n \in {d.name : d \in reg_tables_name} PROVE StoredTables'[n] = tables[n]
  <2>1. PICK d \in reg_tables_name : n = d.name
    OBVIOUS
  <2>2. StoredTables'[n] = Now(d)
    BY <1>1, <1>2, <2>1
  <2> QED BY <1>5, <2>1, <2>2
<1>7. tables = [n \in {d.name : d \in reg_tables_name} |-> tables[n]]
  BY <1>3 DEF tables
<1>8. StoredTables' = [n \in {d.name : d \in reg_tables_name} |-> StoredTables'[n]]
  BY <1>2
<1>9. StoredTables' = tables
  BY <1>6, <1>7, <1>8
<1> QED BY <1>9 DEF tables

LEMMA StoredUnchanged == UNCHANGED <<reg_tables_name, elements>> => StoredTables' = StoredTables
BY DEF StoredTables, Stored, EntriesOf, Holds, Index, KeyAt


\* A list in which k has the value v, and every other key what it had before.
LEMMA EntriesSet ==
  ASSUME IInv, MapsKept, NEW t \in Tables, NEW k \in Keys, NEW v, NEW s, NEW p, OneMap(t, s, p),
         NEW at \in DOMAIN s, s[at].key = k, s[at].value = v,
         \A i \in DOMAIN s : i # at => i \in DOMAIN elements[t] /\ s[i] = elements[t][i] /\ s[i].key # k,
         \A i \in DOMAIN elements[t] : \E j \in DOMAIN s : s[j].key = KeyAt(t, i)
  PROVE  EntriesOf(t)' = Store!Set(EntriesOf(t), k, v)
<1> DEFINE old == EntriesOf(t)
           new == EntriesOf(t)'
<1>1. DOMAIN new = DOMAIN old \cup {k}
  <2>1. ASSUME NEW x \in DOMAIN new PROVE x \in DOMAIN old \cup {k}
    <3>1. x \in Keys
      BY EntriesAfter
    <3>2. PICK i \in DOMAIN s : s[i].key = x
      BY <3>1, EntriesAfter
    <3>3. CASE i = at
      BY <3>2, <3>3
    <3>4. CASE i # at
      BY <3>1, <3>2, <3>4, EntryFacts DEF KeyAt
    <3> QED BY <3>3, <3>4
  <2>2. ASSUME NEW x \in DOMAIN old PROVE x \in DOMAIN new
    <3>1. x \in Keys /\ Holds(t, x)
      BY EntryFacts
    <3>2. PICK i \in DOMAIN elements[t] : KeyAt(t, i) = x
      BY <3>1 DEF Holds
    <3> QED BY <3>1, <3>2, EntriesAfter
  <2>3. k \in DOMAIN new
    BY EntriesAfter
  <2> QED BY <2>1, <2>2, <2>3
<1>2. ASSUME NEW x \in DOMAIN new PROVE new[x] = IF x = k THEN v ELSE old[x]
  <2>1. x \in Keys
    BY EntriesAfter
  <2>2. PICK i \in DOMAIN s : s[i].key = x
    BY <2>1, EntriesAfter
  <2>3. new[x] = s[i].value
    BY <2>2, EntriesAfter
  <2>4. CASE i = at
    BY <2>2, <2>3, <2>4
  <2>5. CASE i # at
    <3>1. i \in DOMAIN elements[t] /\ s[i] = elements[t][i] /\ x # k
      BY <2>2, <2>5
    <3>2. KeyAt(t, i) = x /\ old[x] = elements[t][i].value
      <4>1. KeyAt(t, i) = x
        BY <2>2, <3>1 DEF KeyAt
      <4>2. EntriesOf(t)[KeyAt(t, i)] = elements[t][i].value
        BY <3>1, EntryFacts
      <4> QED BY <4>1, <4>2
    <3> QED BY <2>3, <3>1, <3>2
  <2> QED BY <2>4, <2>5
<1>3. new = [x \in DOMAIN new |-> new[x]]
  BY EntriesAfter
<1> HIDE DEF new, old
<1>4. new = [x \in DOMAIN old \cup {k} |-> IF x = k THEN v ELSE old[x]]
  BY <1>1, <1>2, <1>3
<1> QED BY <1>4 DEF Store!Set, new, old

LEMMA StoreUpdate ==
  ASSUME IInv, NEW e \in reg_tables_name, NEW k \in Keys, NEW v \in Values, NEW flags \in 0 .. 3,
         bpf_map_update_elem(e.tbl, k, v, flags), UNCHANGED <<reg_tables_name, table_indexer>>
  PROVE  Store!Update(e.name, k, v, flags)
<1> DEFINE t == e.tbl
<1>1. t \in Tables
  BY DEF IInv, TypeOK, RegistryEntry
<1>2. Store!Named(e.name) /\ StoredTables[e.name].entries = EntriesOf(t) /\ e.name \in DOMAIN StoredTables
  <2>1. e.name \in DOMAIN StoredTables /\ StoredTables[e.name] = Stored(e)
    BY StoredFacts
  <2> QED BY <2>1 DEF Stored, Store!Named
<1>3. k \in DOMAIN EntriesOf(t) <=> Holds(t, k)
  BY <1>1, EntryFacts
<1>4. MapsKept
  BY <1>1, UpdateElem
<1>5. CASE ~check_flags(Holds(t, k), flags)
  <2>1. ret' = Failure /\ StoredTables' = StoredTables
    BY <1>5, StoredUnchanged DEF bpf_map_update_elem
  <2> QED BY <1>2, <1>3, <1>5, <2>1
          DEF Store!Update, Store!EXIST, Store!NOEXIST, check_flags, USER_BPF_EXIST, USER_BPF_NOEXIST
<1>6. CASE check_flags(Holds(t, k), flags)
  <2> DEFINE old == elements[t]
             s == IF Holds(t, k) THEN [old EXCEPT ![Index(t, k)].value = v]
                  ELSE Append(old, [key |-> k, value |-> v])
  <2>1. OneMap(t, s, "live") /\ ret' = Success
    BY <1>6 DEF bpf_map_update_elem, OneMap
  <2>2. old \in Seq(Element)
    BY <1>1 DEF IInv, TypeOK
  <2>3. EntriesOf(t)' = Store!Set(EntriesOf(t), k, v)
    <3>1. CASE Holds(t, k)
      <4> DEFINE at == Index(t, k)
      <4>1. at \in DOMAIN old /\ KeyAt(t, at) = k /\ old[at].key = k
        BY <1>1, <3>1, IndexFacts DEF KeyAt
      <4> HIDE DEF at
      <4>2. old[at] \in Element
        BY <2>2, <4>1
      <4>3. s = [old EXCEPT ![at].value = v]
        BY <3>1 DEF at
      <4>4. DOMAIN s = DOMAIN old /\ s[at].key = k /\ s[at].value = v /\ \A i \in DOMAIN s : i # at => s[i] = old[i]
        BY <4>1, <4>2, <4>3 DEF Element
      <4>5. \A i \in DOMAIN old : i # at => old[i].key # k
        BY <1>1, <4>1 DEF IInv, KeysInv, KeyAt
      <4>6. \A i \in DOMAIN old : s[i].key = KeyAt(t, i)
        BY <4>1, <4>4 DEF KeyAt
      <4> HIDE DEF s, t
      <4>7. \A i \in DOMAIN s : i # at => i \in DOMAIN elements[t] /\ s[i] = elements[t][i] /\ s[i].key # k
        BY <4>4, <4>5
      <4>8. \A i \in DOMAIN elements[t] : \E j \in DOMAIN s : s[j].key = KeyAt(t, i)
        BY <4>4, <4>6
      <4> QED BY <1>1, <1>4, <2>1, <4>1, <4>4, <4>7, <4>8, EntriesSet
    <3>2. CASE ~Holds(t, k)
      <4> DEFINE at == Len(old) + 1
                 x == [key |-> k, value |-> v]
      <4>1. s = Append(old, x) /\ x \in Element /\ x.key = k /\ x.value = v
        BY <3>2 DEF Element
      <4> HIDE DEF x
      <4>2. /\ DOMAIN old = 1 .. Len(old) /\ DOMAIN s = 1 .. Len(old) + 1 /\ Len(old) \in Nat
            /\ s[Len(old) + 1] = x /\ \A i \in 1 .. Len(old) : s[i] = old[i]
        BY <2>2, <4>1
      <4>3. \A i \in DOMAIN old : old[i].key # k
        BY <3>2 DEF Holds, KeyAt
      <4> HIDE DEF s, t
      <4>4. at \in DOMAIN s /\ \A i \in DOMAIN s : i # at => i \in DOMAIN old
        BY <4>2
      <4> HIDE DEF at
      <4>5. \A i \in DOMAIN s : i # at => i \in DOMAIN elements[t] /\ s[i] = elements[t][i] /\ s[i].key # k
        BY <4>2, <4>3, <4>4
      <4>6. \A i \in DOMAIN elements[t] : \E j \in DOMAIN s : s[j].key = KeyAt(t, i)
        BY <4>2 DEF KeyAt
      <4>7. s[at].key = k /\ s[at].value = v
        BY <4>1, <4>2 DEF at
      <4> QED BY <1>1, <1>4, <2>1, <4>4, <4>5, <4>6, <4>7, EntriesSet
    <3> QED BY <3>1, <3>2
  <2> HIDE DEF s
  <2>4. StoredTables' = [StoredTables EXCEPT ![e.name].entries = EntriesOf(t)']
    BY <1>4, <2>1, StoredAfter
  <2>5. StoredTables' = [StoredTables EXCEPT ![e.name].entries = Store!Set(@, k, v)]
    BY <1>2, <2>3, <2>4
  <2> QED BY <1>2, <1>3, <1>6, <2>1, <2>5
          DEF Store!Update, Store!EXIST, Store!NOEXIST, check_flags, USER_BPF_EXIST, USER_BPF_NOEXIST
<1> QED BY <1>5, <1>6


LEMMA StoreDeleteElem ==
  ASSUME IInv, NEW e \in reg_tables_name, NEW k \in Keys,
         bpf_map_delete_elem(e.tbl, k), UNCHANGED <<reg_tables_name, table_indexer>>
  PROVE  Store!DeleteElem(e.name, k)
<1> DEFINE t == e.tbl
<1>1. t \in Tables
  BY DEF IInv, TypeOK, RegistryEntry
<1>2. Store!Named(e.name) /\ StoredTables[e.name].entries = EntriesOf(t) /\ e.name \in DOMAIN StoredTables
  <2>1. e.name \in DOMAIN StoredTables /\ StoredTables[e.name] = Stored(e)
    BY StoredFacts
  <2> QED BY <2>1 DEF Stored, Store!Named
<1>3. DOMAIN EntriesOf(t) = {x \in Keys : Holds(t, x)} /\ EntriesOf(t) = [x \in DOMAIN EntriesOf(t) |-> EntriesOf(t)[x]]
  BY <1>1, EntryFacts DEF EntriesOf
<1>4. MapsKept
  BY <1>1, DeleteElem
<1>5. ret' = Success
  BY DEF bpf_map_delete_elem
<1>6. StoredTables' = [StoredTables EXCEPT ![e.name].entries = Store!Without(@, k)]
  <2>1. CASE ~Holds(t, k)
    <3>1. StoredTables' = StoredTables
      BY <2>1, StoredUnchanged DEF bpf_map_delete_elem
    <3>2. Store!Without(EntriesOf(t), k) = EntriesOf(t)
      BY <1>3, <2>1 DEF Store!Without
    <3>3. StoredTables = [StoredTables EXCEPT ![e.name].entries = EntriesOf(t)]
      <4>1. StoredTables = [n \in DOMAIN StoredTables |-> StoredTables[n]]
        BY DEF StoredTables
      <4>2. StoredTables[e.name] = Stored(e)
        BY StoredFacts
      <4>3. Stored(e) = [Stored(e) EXCEPT !.entries = EntriesOf(t)]
        BY DEF Stored
      <4> QED BY <1>2, <4>1, <4>2, <4>3
    <3> QED BY <1>2, <3>1, <3>2, <3>3
  <2>2. CASE Holds(t, k)
    <3> DEFINE old == elements[t]
               at == Index(t, k)
               s == Remove(old, at)
               p == IF at = 1 THEN "freed" ELSE bpf_map[t]
               new == EntriesOf(t)'
    <3>1. OneMap(t, s, p)
      BY <2>2 DEF bpf_map_delete_elem, OneMap
    <3>2. old \in Seq(Element) /\ at \in DOMAIN old /\ DOMAIN old = 1 .. Len(old) /\ Len(old) \in Nat
      <4>1. at \in DOMAIN old
        BY <1>1, <2>2, IndexFacts
      <4>2. old \in Seq(Element)
        BY <1>1 DEF IInv, TypeOK
      <4> QED BY <4>1, <4>2
    <3>3. KeyAt(t, at) = k /\ \A i \in DOMAIN old : i # at => KeyAt(t, i) # k
      BY <1>1, <2>2, <3>2, IndexFacts DEF IInv, KeysInv
    <3> HIDE DEF at
    <3>4. /\ DOMAIN s = 1 .. Len(old) - 1
          /\ \A j \in 1 .. Len(old) - 1 : s[j] = old[IF j < at THEN j ELSE j + 1]
      <4>1. /\ s \in Seq(Element) /\ Len(s) = Len(old) - 1
            /\ \A j \in 1 .. Len(old) - 1 : s[j] = old[IF j < at THEN j ELSE j + 1]
        BY <3>2, RemoveFacts
      <4> QED BY <4>1
    <3> HIDE DEF s
    <3>5. ASSUME NEW j \in DOMAIN s PROVE \E i \in DOMAIN old : i # at /\ s[j] = old[i]
      <4> DEFINE i == IF j < at THEN j ELSE j + 1
      <4>1. i \in DOMAIN old /\ i # at
        BY <3>2, <3>4
      <4> QED BY <3>4, <4>1
    <3>6. ASSUME NEW i \in DOMAIN old, i # at PROVE \E j \in DOMAIN s : s[j] = old[i]
      <4> DEFINE j == IF i < at THEN i ELSE i - 1
      <4>1. j \in DOMAIN s /\ (IF j < at THEN j ELSE j + 1) = i
        BY <3>2, <3>4, <3>6
      <4> QED BY <3>4, <4>1
    <3> HIDE DEF p, t, old
    <3>7. DOMAIN new = DOMAIN EntriesOf(t) \ {k}
      <4>1. ASSUME NEW x \in DOMAIN new PROVE x \in DOMAIN EntriesOf(t) \ {k}
        <5>1. x \in Keys
          BY <1>1, <1>4, <3>1, EntriesAfter
        <5>2. PICK j \in DOMAIN s : s[j].key = x
          BY <1>1, <1>4, <3>1, <5>1, EntriesAfter
        <5>3. PICK i \in DOMAIN old : i # at /\ old[i].key = x
          BY <3>5, <5>2
        <5>4. KeyAt(t, i) = x
          BY <5>3 DEF KeyAt, old
        <5>5. x # k /\ Holds(t, x)
          BY <3>3, <5>3, <5>4 DEF Holds, old
        <5> QED BY <1>3, <5>1, <5>5
      <4>2. ASSUME NEW x \in DOMAIN EntriesOf(t) \ {k} PROVE x \in DOMAIN new
        <5>1. x \in Keys /\ Holds(t, x) /\ x # k
          BY <1>3
        <5>2. PICK i \in DOMAIN old : KeyAt(t, i) = x
          BY <5>1 DEF Holds, old
        <5>3. i # at /\ old[i].key = x
          BY <3>3, <5>1, <5>2 DEF KeyAt, old
        <5>4. PICK j \in DOMAIN s : s[j] = old[i]
          BY <3>6, <5>3
        <5> QED BY <1>1, <1>4, <3>1, <5>1, <5>3, <5>4, EntriesAfter
      <4> QED BY <4>1, <4>2
    <3>8. ASSUME NEW x \in DOMAIN new PROVE new[x] = EntriesOf(t)[x]
      <4>1. x \in Keys
        BY <1>1, <1>4, <3>1, EntriesAfter
      <4>2. PICK j \in DOMAIN s : s[j].key = x
        BY <1>1, <1>4, <3>1, <4>1, EntriesAfter
      <4>3. new[x] = s[j].value
        BY <1>1, <1>4, <3>1, <4>2, EntriesAfter
      <4>4. PICK i \in DOMAIN old : s[j] = old[i]
        BY <3>5
      <4>5. KeyAt(t, i) = x
        BY <4>2, <4>4 DEF KeyAt, old
      <4>6. EntriesOf(t)[KeyAt(t, i)] = old[i].value
        BY <1>1, <4>4, EntryFacts DEF old
      <4> QED BY <4>3, <4>4, <4>5, <4>6
    <3>9. new = [x \in DOMAIN new |-> new[x]]
      BY <1>1, <1>4, <3>1, EntriesAfter
    <3> HIDE DEF new
    <3>10. new = Store!Without(EntriesOf(t), k)
      BY <3>7, <3>8, <3>9 DEF Store!Without
    <3>11. StoredTables' = [StoredTables EXCEPT ![e.name].entries = new]
      BY <1>4, <3>1, StoredAfter DEF new, t
    <3> QED BY <1>2, <3>10, <3>11
  <2> QED BY <2>1, <2>2
<1> QED BY <1>2, <1>5, <1>6 DEF Store!DeleteElem

LEMMA StoreLookup ==
  ASSUME IInv, NEW e \in reg_tables_name, NEW k \in Keys,
         bpf_map_lookup_elem(e.tbl, k), UNCHANGED <<reg_tables_name, table_indexer>>
  PROVE  Store!Lookup(e.name, k)
<1>1. e.tbl \in Tables
  BY DEF IInv, TypeOK, RegistryEntry
<1>2. e.name \in DOMAIN StoredTables /\ StoredTables[e.name] = Stored(e)
  BY StoredFacts
<1>3. Store!Named(e.name) /\ StoredTables[e.name].entries = EntriesOf(e.tbl)
  BY <1>2 DEF Stored, Store!Named
<1>4. ret' = IF k \in DOMAIN EntriesOf(e.tbl) THEN EntriesOf(e.tbl)[k] ELSE NULL
  BY <1>1, EntryFacts DEF bpf_map_lookup_elem
<1>5. StoredTables' = StoredTables
  BY StoredUnchanged DEF bpf_map_lookup_elem
<1> QED BY <1>3, <1>4, <1>5 DEF Store!Lookup


\* A call on the table of an entry that is found, or on none, is the store's.
StoreStep == [Store!Next]_(Store!vars)

LEMMA StepUnknown ==
  ASSUME UNCHANGED <<reg_tables_name, elements, table_indexer>>, ret' \in {Failure, NULL, ret}
  PROVE  StoreStep
BY StoredUnchanged DEF StoreStep, Store!Next, Store!UnknownId, Store!vars

LEMMA StepUpdate ==
  ASSUME IInv, NEW found, found \subseteq reg_tables_name, NEW k \in Keys, NEW v \in Values,
         NEW flags \in 0 .. 3, OnTable(found, Failure, LAMBDA t : bpf_map_update_elem(t, k, v, flags))
  PROVE  StoreStep
<1>1. UNCHANGED <<reg_tables_name, table_indexer>>
  BY DEF OnTable
<1>2. CASE UNCHANGED elements /\ ret' \in {Failure, ret}
  BY <1>1, <1>2, StepUnknown
<1>3. ASSUME NEW e \in found, bpf_map_update_elem(e.tbl, k, v, flags) PROVE StoreStep
  <2>1. Store!Update(e.name, k, v, flags)
    BY <1>1, <1>3, StoreUpdate
  <2>2. e.name \in Names
    BY DEF IInv, TypeOK, RegistryEntry
  <2> QED BY <2>1, <2>2 DEF StoreStep, Store!Next
<1> QED BY <1>2, <1>3 DEF OnTable

LEMMA StepDeleteElem ==
  ASSUME IInv, NEW found, found \subseteq reg_tables_name, NEW k \in Keys,
         OnTable(found, Failure, LAMBDA t : bpf_map_delete_elem(t, k))
  PROVE  StoreStep
<1>1. UNCHANGED <<reg_tables_name, table_indexer>>
  BY DEF OnTable
<1>2. CASE UNCHANGED elements /\ ret' \in {Failure, ret}
  BY <1>1, <1>2, StepUnknown
<1>3. ASSUME NEW e \in found, bpf_map_delete_elem(e.tbl, k) PROVE StoreStep
  <2>1. Store!DeleteElem(e.name, k)
    BY <1>1, <1>3, StoreDeleteElem
  <2>2. e.name \in Names
    BY DEF IInv, TypeOK, RegistryEntry
  <2> QED BY <2>1, <2>2 DEF StoreStep, Store!Next
<1> QED BY <1>2, <1>3 DEF OnTable

LEMMA StepLookup ==
  ASSUME IInv, NEW found, found \subseteq reg_tables_name, NEW k \in Keys,
         OnTable(found, NULL, LAMBDA t : bpf_map_lookup_elem(t, k))
  PROVE  StoreStep
<1>1. UNCHANGED <<reg_tables_name, table_indexer>>
  BY DEF OnTable
<1>2. CASE UNCHANGED elements /\ ret' \in {NULL, ret}
  BY <1>1, <1>2, StepUnknown
<1>3. ASSUME NEW e \in found, bpf_map_lookup_elem(e.tbl, k) PROVE StoreStep
  <2>1. Store!Lookup(e.name, k)
    BY <1>1, <1>3, StoreLookup
  <2>2. e.name \in Names
    BY DEF IInv, TypeOK, RegistryEntry
  <2> QED BY <2>1, <2>2 DEF StoreStep, Store!Next
<1> QED BY <1>2, <1>3 DEF OnTable

\* The store after a call that changes the registry.
LEMMA StoredNext ==
  ASSUME EntriesInv'
  PROVE  /\ DOMAIN StoredTables' = {e.name : e \in reg_tables_name'}
         /\ \A e \in reg_tables_name' :
              StoredTables'[e.name] = [id |-> e.handle, entries |-> EntriesIn(elements'[e.tbl])]
         /\ StoredTables' = [n \in DOMAIN StoredTables' |-> StoredTables'[n]]
<1> DEFINE Now(d) == [id |-> d.handle, entries |-> EntriesIn(elements'[d.tbl])]
           R == reg_tables_name'
<1>1. \A d \in R : (CHOOSE x \in R : x.name = d.name) = d
  BY DEF EntriesInv
<1>2. StoredTables' = [n \in {d.name : d \in R} |-> Now(CHOOSE d \in R : d.name = n)]
  BY DEF StoredTables, Stored, EntriesOf, EntriesIn, Holds, Index, KeyAt
<1> HIDE DEF Now, R
<1>3. DOMAIN StoredTables' = {d.name : d \in R} /\ StoredTables' = [n \in DOMAIN StoredTables' |-> StoredTables'[n]]
  BY <1>2
<1>4. ASSUME NEW d \in R PROVE StoredTables'[d.name] = Now(d)
  BY <1>1, <1>2
<1> QED BY <1>3, <1>4 DEF Now, R

\* The elements of a table that is not registered have been freed.
EmptyInv == \A t \in Tables : elements[t] = <<>> \/ \E e \in reg_tables_name : e.tbl = t

LEMMA StoreAdd ==
  ASSUME IInv, EmptyInv, NEW t \in Tables, registry_add(t)
  PROVE  Store!Add(NameIn[t])
<1> DEFINE n == NameIn[t]
           entry == [name |-> n, handle |-> table_indexer, tbl |-> t]
<1>1. n \in Names
  BY ConstantsAssumption
<1>2. (ByName(n) # {} => Store!Named(n)) /\ (ByName(n) = {} => ~Store!Named(n))
  BY <1>1, StoredFacts DEF Store!Named
<1>3. CASE ByName(n) # {} \/ n \in LongNames
  <2>1. ret' = Failure /\ UNCHANGED <<StoredTables, table_indexer>>
    BY <1>3, StoredUnchanged DEF registry_add
  <2> QED BY <1>2, <1>3, <2>1 DEF Store!Add
<1>4. CASE ByName(n) = {} /\ n \notin LongNames
  <2>1. /\ reg_tables_name' = reg_tables_name \cup {entry} /\ table_indexer' = table_indexer + 1
        /\ ret' = Success /\ UNCHANGED elements
    BY <1>4 DEF registry_add
  <2>2. ~Store!Named(n) /\ \A e \in reg_tables_name : e.name # n
    BY <1>2, <1>4 DEF ByName
  <2>3. EntriesInv'
    BY AddTable DEF IInv
  <2>4. EntriesIn(elements'[t]) = [k \in {} |-> NULL]
    <3>1. \A e \in reg_tables_name : e.tbl # t
      BY <2>2 DEF IInv, EntriesInv
    <3>2. elements'[t] = <<>> /\ DOMAIN <<>> = {}
      BY <2>1, <3>1 DEF EmptyInv
    <3> QED BY <3>2 DEF EntriesIn
  <2>5. \A e \in reg_tables_name :
          StoredTables[e.name] = [id |-> e.handle, entries |-> EntriesIn(elements'[e.tbl])]
    BY <2>1, StoredFacts, EntriesOfList DEF Stored, IInv, TypeOK, RegistryEntry
  <2>6. StoredTables' = Store!Set(StoredTables, n, [id |-> table_indexer, entries |-> [k \in {} |-> NULL]])
    <3>1. entry.name = n /\ entry.handle = table_indexer /\ entry.tbl = t
      OBVIOUS
    <3> HIDE DEF entry
    <3>2. DOMAIN StoredTables' = DOMAIN StoredTables \cup {n}
      BY <2>1, <2>3, <3>1, StoredFacts, StoredNext
    <3>3. StoredTables'[n] = [id |-> table_indexer, entries |-> [k \in {} |-> NULL]]
      <4>1. entry \in reg_tables_name'
        BY <2>1
      <4> QED BY <2>3, <2>4, <3>1, <4>1, StoredNext
    <3>4. ASSUME NEW m \in DOMAIN StoredTables, m # n PROVE StoredTables'[m] = StoredTables[m]
      <4>1. PICK e \in reg_tables_name : m = e.name
        BY StoredFacts
      <4>2. e \in reg_tables_name'
        BY <2>1
      <4> QED BY <2>3, <2>5, <4>1, <4>2, StoredNext
    <3>5. StoredTables' = [m \in DOMAIN StoredTables' |-> StoredTables'[m]]
      BY <2>3, StoredNext
    <3> QED BY <3>2, <3>3, <3>4, <3>5 DEF Store!Set
  <2> QED BY <1>4, <2>1, <2>2, <2>6 DEF Store!Add
<1> QED BY <1>3, <1>4

LEMMA StoreDelete ==
  ASSUME IInv, NEW n \in Names, registry_delete_tbl(n)
  PROVE  Store!Delete(n) \/ (wild' = "element" /\ UNCHANGED Store!vars)
<1>1. UNCHANGED table_indexer
  BY DEF registry_delete_tbl
<1>2. CASE ByName(n) = {} /\ ret' = Failure /\ UNCHANGED <<reg_tables_name, elements>>
  <2>1. ~Store!Named(n) /\ n \notin DOMAIN StoredTables
    BY <1>2, StoredFacts DEF Store!Named
  <2>2. StoredTables' = StoredTables /\ StoredTables = [m \in DOMAIN StoredTables |-> StoredTables[m]]
    BY <1>2, StoredUnchanged DEF StoredTables
  <2>3. Store!Without(StoredTables, n) = StoredTables
    BY <2>1, <2>2 DEF Store!Without
  <2> QED BY <1>1, <1>2, <2>1, <2>2, <2>3 DEF Store!Delete
<1>3. CASE wild' = "element" /\ UNCHANGED <<reg_tables_name, elements, ret>>
  BY <1>1, <1>3, StoredUnchanged DEF Store!vars
<1>4. ASSUME NEW e \in ByName(n), elements' = [elements EXCEPT ![e.tbl] = <<>>],
             reg_tables_name' = reg_tables_name \ {e}, ret' = Success
      PROVE  Store!Delete(n)
  <2>1. e \in reg_tables_name /\ e.name = n
    BY DEF ByName
  <2>2. Store!Named(n)
    BY StoredFacts DEF Store!Named
  <2>3. EntriesInv'
    BY DeleteTable DEF IInv
  <2>4. ASSUME NEW d \in reg_tables_name, d # e
        PROVE  d.name # n /\ StoredTables[d.name] = [id |-> d.handle, entries |-> EntriesIn(elements'[d.tbl])]
    <3>1. d.name # e.name /\ d.tbl # e.tbl /\ d.tbl \in Tables
      BY <2>1, <2>4 DEF IInv, TypeOK, RegistryEntry, EntriesInv
    <3>2. elements'[d.tbl] = elements[d.tbl]
      BY <1>4, <3>1 DEF IInv, TypeOK
    <3> QED BY <2>1, <3>1, <3>2, StoredFacts, EntriesOfList DEF Stored
  <2>5. DOMAIN StoredTables' = DOMAIN StoredTables \ {n}
    <3>1. DOMAIN StoredTables' = {d.name : d \in reg_tables_name \ {e}}
      BY <1>4, <2>3, StoredNext
    <3>2. DOMAIN StoredTables = {d.name : d \in reg_tables_name}
      BY StoredFacts
    <3> QED BY <2>1, <2>4, <3>1, <3>2
  <2>6. ASSUME NEW m \in DOMAIN StoredTables, m # n PROVE StoredTables'[m] = StoredTables[m]
    <3>1. PICK d \in reg_tables_name : m = d.name
      BY StoredFacts
    <3>2. d # e /\ d \in reg_tables_name'
      BY <1>4, <2>1, <2>6, <3>1
    <3> QED BY <2>3, <2>4, <3>1, <3>2, StoredNext
  <2>7. StoredTables' = [m \in DOMAIN StoredTables' |-> StoredTables'[m]]
    BY <2>3, StoredNext
  <2>8. StoredTables' = Store!Without(StoredTables, n)
    BY <2>5, <2>6, <2>7 DEF Store!Without
  <2> QED BY <1>1, <1>4, <2>2, <2>8 DEF Store!Delete
<1> QED BY <1>2, <1>3, <1>4 DEF registry_delete_tbl

LEMMA StoreGetId == ASSUME IInv, NEW n \in Names, registry_get_id(n) PROVE Store!GetId(n)
<1>1. UNCHANGED <<StoredTables, table_indexer>>
  BY StoredUnchanged DEF registry_get_id
<1>2. CASE ByName(n) = {}
  BY <1>1, <1>2, StoredFacts DEF registry_get_id, Store!GetId, Store!Named
<1>3. CASE ByName(n) # {}
  <2>1. PICK e \in ByName(n) : ret' = e.handle
    BY <1>3 DEF registry_get_id
  <2>2. Store!Named(n) /\ StoredTables[n] = Stored(e)
    BY StoredFacts DEF Store!Named
  <2> QED BY <1>1, <2>1, <2>2 DEF Store!GetId, Stored
<1> QED BY <1>2, <1>3


-----------------------------------------------------------------------------
(* The theorems.                                                           *)

LEMMA InitInv == Init => IInv
<1> SUFFICES ASSUME Init PROVE IInv
  OBVIOUS
<1>1. TypeOK
  <2>1. <<>> \in Seq(Element)
    OBVIOUS
  <2>2. elements \in [Tables -> Seq(Element)]
    BY <2>1 DEF Init
  <2> QED BY <2>2 DEF Init, TypeOK
<1>2. EntriesInv
  BY DEF Init, EntriesInv
<1>3. KeysInv /\ PointerInv
  <2>1. \A t \in Tables : elements[t] = <<>>
    BY DEF Init
  <2>2. DOMAIN <<>> = {}
    OBVIOUS
  <2> QED BY <2>1, <2>2 DEF KeysInv, PointerInv
<1> QED BY <1>1, <1>2, <1>3 DEF IInv

LEMMA NextInv == IInv /\ [Next]_vars => IInv'
<1> SUFFICES ASSUME IInv, [Next]_vars PROVE IInv'
  OBVIOUS
<1>1. CASE UNCHANGED vars
  BY <1>1, MapsUnchanged, RegistryUnchanged DEF vars, IInv, TypeOK
<1>2. CASE registry_delete
  BY <1>2, MapsUnchanged, RegistryUnchanged DEF registry_delete, IInv, TypeOK
<1>3. ASSUME NEW n \in Names, registry_get_id(n) PROVE IInv'
  BY <1>3, MapsUnchanged, RegistryUnchanged DEF registry_get_id, IInv, TypeOK
<1>4. ASSUME NEW k \in Keys, NEW n \in Names,
             registry_delete_table_elem(n, k) \/ registry_lookup_table_elem(n, k)
      PROVE  IInv'
  BY <1>4, FoundTable, DeleteTableElem, LookupTableElem
     DEF registry_delete_table_elem, registry_lookup_table_elem
<1>5. ASSUME NEW k \in Keys, NEW id \in 0 .. MaxId,
             registry_delete_table_elem_id(id, k) \/ registry_lookup_table_elem_id(id, k)
      PROVE  IInv'
  BY <1>5, FoundTable, DeleteTableElem, LookupTableElem
     DEF registry_delete_table_elem_id, registry_lookup_table_elem_id
<1>6. ASSUME NEW k \in Keys, NEW v \in Values, NEW flags \in 0 .. 3,
             \/ \E n \in Names : registry_update_table(n, k, v, flags)
             \/ \E id \in 0 .. MaxId : registry_update_table_id(id, k, v, flags)
      PROVE  IInv'
  <2>1. ASSUME NEW n \in Names, registry_update_table(n, k, v, flags) PROVE IInv'
    <3>1. OnTable(ByName(n), Failure, LAMBDA t : bpf_map_update_elem(t, k, v, flags))
      BY <2>1 DEF registry_update_table
    <3>2. \A e \in ByName(n) : e.tbl \in Tables
      BY FoundTable
    <3> QED BY <3>1, <3>2, UpdateTable
  <2>2. ASSUME NEW id \in 0 .. MaxId, registry_update_table_id(id, k, v, flags) PROVE IInv'
    <3>1. OnTable(ById(id), Failure, LAMBDA t : bpf_map_update_elem(t, k, v, flags))
      BY <2>2 DEF registry_update_table_id
    <3>2. \A e \in ById(id) : e.tbl \in Tables
      BY FoundTable
    <3> QED BY <3>1, <3>2, UpdateTable
  <2> QED BY <1>6, <2>1, <2>2
<1> QED BY <1>1, <1>2, <1>3, <1>4, <1>5, <1>6, AddTable, DeleteTable DEF Next

THEOREM Invariant == Spec => []IInv
BY InitInv, NextInv, PTL DEF Spec

\* Every call leaves the registry, the hashes and the map pointers well formed.
THEOREM TypeCorrect == Spec => []TypeOK
<1>1. IInv => TypeOK
  BY DEF IInv
<1> QED BY <1>1, Invariant, PTL

\* Names, ids and tables of the registry correspond one to one in both hashes, after
\* any sequence of calls.
THEOREM OneToOneAlways == Spec => []OneToOne
<1>1. IInv => OneToOne
  BY DEF IInv, EntriesInv, OneToOne
<1> QED BY <1>1, Invariant, PTL

-----------------------------------------------------------------------------
(* The refinement.                                                         *)

LEMMA Found ==
  ASSUME IInv
  PROVE  /\ \A n : ByName(n) \subseteq reg_tables_name
         /\ \A id : ById(id) \subseteq reg_tables_name
         /\ \A n : \A e \in ByName(n) : e.name = n
         /\ \A n \in Names : ByName(n) = {} => ~Store!Named(n)
         /\ \A n \in Names : \A id : Store!HasId(n, id) => ById(id) # {} /\ \A e \in ById(id) : e.name = n
<1>1. /\ \A n : ByName(n) \subseteq reg_tables_name
      /\ \A id : ById(id) \subseteq reg_tables_name
      /\ \A n : \A e \in ByName(n) : e.name = n
  BY DEF ByName, ById, IInv, EntriesInv
<1>2. \A n \in Names : ByName(n) = {} => ~Store!Named(n)
  BY StoredFacts DEF Store!Named
<1>3. ASSUME NEW n \in Names, NEW id, Store!HasId(n, id)
      PROVE  ById(id) # {} /\ \A e \in ById(id) : e.name = n
  <2>1. PICK d \in ByName(n) : TRUE
    BY <1>2, <1>3 DEF Store!HasId
  <2>2. d \in reg_tables_id /\ d.name = n
    BY <1>1 DEF IInv, EntriesInv
  <2>3. d.handle = id
    <3>1. StoredTables[n] = Stored(d)
      BY <1>1, <2>1, StoredFacts
    <3>2. StoredTables[n].id = id
      BY <1>3 DEF Store!HasId
    <3> QED BY <3>1, <3>2 DEF Stored
  <2>4. ASSUME NEW e \in ById(id) PROVE e = d
    BY <1>1, <2>2, <2>3 DEF ById, IInv, EntriesInv
  <2> QED BY <2>2, <2>3, <2>4 DEF ById
<1> QED BY <1>1, <1>2, <1>3

LEMMA NoNames == IInv /\ Names = {} => reg_tables_name = {}
<1> SUFFICES ASSUME IInv, Names = {}, NEW e \in reg_tables_name PROVE FALSE
  OBVIOUS
<1>1. e \in RegistryEntry
  BY DEF IInv, TypeOK
<1> QED BY <1>1 DEF RegistryEntry

\* A step on one registered table disturbs no other.
LEMMA EmptyKept == IInv /\ EmptyInv /\ [Next]_vars => EmptyInv'
<1> SUFFICES ASSUME IInv, EmptyInv, [Next]_vars PROVE EmptyInv'
  OBVIOUS
<1>1. CASE elements' = elements /\ reg_tables_name \subseteq reg_tables_name'
  BY <1>1 DEF EmptyInv
<1>2. ASSUME NEW e \in reg_tables_name, reg_tables_name' = reg_tables_name,
             \A u \in Tables : u # e.tbl => elements'[u] = elements[u]
      PROVE  EmptyInv'
  BY <1>2 DEF EmptyInv
<1>3. ASSUME NEW n \in Names, NEW k \in Keys, NEW id, NEW v, NEW flags,
             \/ registry_update_table(n, k, v, flags) \/ registry_update_table_id(id, k, v, flags)
             \/ registry_delete_table_elem(n, k) \/ registry_delete_table_elem_id(id, k)
             \/ registry_lookup_table_elem(n, k) \/ registry_lookup_table_elem_id(id, k)
      PROVE  EmptyInv'
  <2>1. reg_tables_name' = reg_tables_name
    BY <1>3 DEF OnTable, registry_update_table, registry_update_table_id, registry_delete_table_elem,
                registry_delete_table_elem_id, registry_lookup_table_elem, registry_lookup_table_elem_id
  <2>2. \/ UNCHANGED elements
        \/ \E e \in ByName(n) \cup ById(id) :
             \/ bpf_map_update_elem(e.tbl, k, v, flags) \/ bpf_map_delete_elem(e.tbl, k)
             \/ bpf_map_lookup_elem(e.tbl, k)
    BY <1>3 DEF OnTable, registry_update_table, registry_update_table_id, registry_delete_table_elem,
                registry_delete_table_elem_id, registry_lookup_table_elem, registry_lookup_table_elem_id
  <2>3. ASSUME NEW e \in ByName(n) \cup ById(id),
               \/ bpf_map_update_elem(e.tbl, k, v, flags) \/ bpf_map_delete_elem(e.tbl, k)
               \/ bpf_map_lookup_elem(e.tbl, k)
        PROVE  EmptyInv'
    <3>1. \/ elements' = elements
          \/ \E s : elements' = [elements EXCEPT ![e.tbl] = s]
      BY <2>3 DEF bpf_map_update_elem, bpf_map_delete_elem, bpf_map_lookup_elem
    <3>2. \A u \in Tables : u # e.tbl => elements'[u] = elements[u]
      BY <3>1 DEF IInv, TypeOK
    <3> QED BY <1>2, <2>1, <3>2, Found
  <2> QED BY <1>1, <2>1, <2>2, <2>3
<1>4. ASSUME NEW n \in Names, registry_delete_tbl(n) PROVE EmptyInv'
  <2>1. CASE UNCHANGED <<elements, reg_tables_name>>
    BY <1>1, <2>1
  <2>2. ASSUME NEW e \in ByName(n), elements' = [elements EXCEPT ![e.tbl] = <<>>],
               reg_tables_name' = reg_tables_name \ {e}
        PROVE  EmptyInv'
    <3>1. \A u \in Tables : u # e.tbl => elements'[u] = elements[u]
      BY <2>2 DEF IInv, TypeOK
    <3>2. e.tbl \in Tables => elements'[e.tbl] = <<>>
      BY <2>2 DEF IInv, TypeOK
    <3> QED BY <2>2, <3>1, <3>2 DEF EmptyInv
  <2> QED BY <1>4, <2>1, <2>2 DEF registry_delete_tbl
<1>5. ASSUME NEW t \in Tables, registry_add(t) PROVE EmptyInv'
  BY <1>1, <1>5 DEF registry_add
<1>6. CASE registry_delete \/ (\E n \in Names : registry_get_id(n)) \/ UNCHANGED vars
  BY <1>1, <1>6 DEF registry_delete, registry_get_id, vars
<1>7. ASSUME NEW k \in Keys, NEW id \in 0 .. MaxId,
             registry_delete_table_elem_id(id, k) \/ registry_lookup_table_elem_id(id, k)
      PROVE  EmptyInv'
  <2>1. CASE Names = {}
    <3>1. reg_tables_name = {}
      BY <2>1, NoNames
    <3>2. ById(id) = {}
      BY <3>1, Found
    <3> QED BY <1>1, <1>7, <3>2 DEF OnTable, registry_delete_table_elem_id, registry_lookup_table_elem_id
  <2> QED BY <1>3, <1>7, <2>1
<1>8. ASSUME NEW k \in Keys, NEW id \in 0 .. MaxId, NEW v \in Values, NEW flags \in 0 .. 3,
             registry_update_table_id(id, k, v, flags)
      PROVE  EmptyInv'
  <2>1. CASE Names = {}
    <3>1. reg_tables_name = {}
      BY <2>1, NoNames
    <3>2. ById(id) = {}
      BY <3>1, Found
    <3> QED BY <1>1, <1>8, <3>2 DEF OnTable, registry_update_table_id
  <2> QED BY <1>3, <1>8, <2>1
<1> QED BY <1>3, <1>4, <1>5, <1>6, <1>7, <1>8 DEF Next

LEMMA NextStore == IInv /\ EmptyInv /\ [Next]_vars => StoreStep
<1> SUFFICES ASSUME IInv, EmptyInv, [Next]_vars PROVE StoreStep
  OBVIOUS
<1>1. CASE UNCHANGED vars \/ registry_delete
  BY <1>1, StepUnknown DEF vars, registry_delete
<1>2. ASSUME NEW n \in Names, registry_get_id(n) \/ registry_delete_tbl(n) PROVE StoreStep
  BY <1>2, StoreGetId, StoreDelete DEF StoreStep, Store!Next
<1>3. ASSUME NEW t \in Tables, registry_add(t) PROVE StoreStep
  <2>1. NameIn[t] \in Names
    BY ConstantsAssumption
  <2> QED BY <1>3, <2>1, StoreAdd DEF StoreStep, Store!Next
<1>4. ASSUME NEW k \in Keys, NEW n \in Names,
             registry_delete_table_elem(n, k) \/ registry_lookup_table_elem(n, k)
      PROVE  StoreStep
  <2>1. ByName(n) \subseteq reg_tables_name
    BY Found
  <2> QED BY <1>4, <2>1, StepDeleteElem, StepLookup DEF registry_delete_table_elem, registry_lookup_table_elem
<1>5. ASSUME NEW k \in Keys, NEW id \in 0 .. MaxId,
             registry_delete_table_elem_id(id, k) \/ registry_lookup_table_elem_id(id, k)
      PROVE  StoreStep
  <2>1. ById(id) \subseteq reg_tables_name
    BY Found
  <2> QED BY <1>5, <2>1, StepDeleteElem, StepLookup
          DEF registry_delete_table_elem_id, registry_lookup_table_elem_id
<1>6. ASSUME NEW k \in Keys, NEW v \in Values, NEW flags \in 0 .. 3, NEW n \in Names,
             registry_update_table(n, k, v, flags)
      PROVE  StoreStep
  <2>1. ByName(n) \subseteq reg_tables_name
    BY Found
  <2> QED BY <1>6, <2>1, StepUpdate DEF registry_update_table
<1>7. ASSUME NEW k \in Keys, NEW v \in Values, NEW flags \in 0 .. 3, NEW id \in 0 .. MaxId,
             registry_update_table_id(id, k, v, flags)
      PROVE  StoreStep
  <2>1. ById(id) \subseteq reg_tables_name
    BY Found
  <2> QED BY <1>7, <2>1, StepUpdate DEF registry_update_table_id
<1> QED BY <1>1, <1>2, <1>3, <1>4, <1>5, <1>6, <1>7 DEF Next

-----------------------------------------------------------------------------
(* A call does what the store's call of the same arguments does.           *)

\* found: what the registry finds for the table named n.
Finds(found, n) ==
  /\ found \subseteq reg_tables_name
  /\ \A e \in found : e.name = n
  /\ found = {} => ~Store!Named(n)

LEMMA FindsName == ASSUME IInv, NEW n \in Names PROVE Finds(ByName(n), n)
BY Found DEF Finds

LEMMA FindsId == ASSUME IInv, NEW n \in Names, NEW id, Store!HasId(n, id) PROVE Finds(ById(id), n)
BY Found DEF Finds

LEMMA SameUpdate ==
  ASSUME IInv, NEW n, NEW found, Finds(found, n), NEW k \in Keys, NEW v \in Values,
         NEW flags \in 0 .. 3, OnTable(found, Failure, LAMBDA t : bpf_map_update_elem(t, k, v, flags)),
         wild' = ""
  PROVE  Store!Update(n, k, v, flags)
<1>1. UNCHANGED <<reg_tables_name, table_indexer>>
  BY DEF OnTable
<1>2. CASE found = {} /\ ret' = Failure /\ UNCHANGED elements
  BY <1>1, <1>2, StoredUnchanged DEF Finds, Store!Update
<1>3. ASSUME NEW e \in found, bpf_map_update_elem(e.tbl, k, v, flags)
      PROVE  Store!Update(n, k, v, flags)
  <2>1. e \in reg_tables_name /\ e.name = n
    BY DEF Finds
  <2> QED BY <1>1, <1>3, <2>1, StoreUpdate
<1> QED BY <1>2, <1>3 DEF OnTable

LEMMA SameDeleteElem ==
  ASSUME IInv, NEW n, NEW found, Finds(found, n), NEW k \in Keys,
         OnTable(found, Failure, LAMBDA t : bpf_map_delete_elem(t, k)), wild' = ""
  PROVE  Store!DeleteElem(n, k)
<1>1. UNCHANGED <<reg_tables_name, table_indexer>>
  BY DEF OnTable
<1>2. CASE found = {} /\ ret' = Failure /\ UNCHANGED elements
  BY <1>1, <1>2, StoredUnchanged DEF Finds, Store!DeleteElem
<1>3. ASSUME NEW e \in found, bpf_map_delete_elem(e.tbl, k) PROVE Store!DeleteElem(n, k)
  <2>1. e \in reg_tables_name /\ e.name = n
    BY DEF Finds
  <2> QED BY <1>1, <1>3, <2>1, StoreDeleteElem
<1> QED BY <1>2, <1>3 DEF OnTable

LEMMA SameLookup ==
  ASSUME IInv, NEW n, NEW found, Finds(found, n), NEW k \in Keys,
         OnTable(found, NULL, LAMBDA t : bpf_map_lookup_elem(t, k)), wild' = ""
  PROVE  Store!Lookup(n, k)
<1>1. UNCHANGED <<reg_tables_name, table_indexer>>
  BY DEF OnTable
<1>2. CASE found = {} /\ ret' = NULL /\ UNCHANGED elements
  BY <1>1, <1>2, StoredUnchanged DEF Finds, Store!Lookup
<1>3. ASSUME NEW e \in found, bpf_map_lookup_elem(e.tbl, k) PROVE Store!Lookup(n, k)
  <2>1. e \in reg_tables_name /\ e.name = n
    BY DEF Finds
  <2> QED BY <1>1, <1>3, <2>1, StoreLookup
<1> QED BY <1>2, <1>3 DEF OnTable

LEMMA SameCallHolds == ASSUME IInv, EmptyInv, wild' = "" PROVE SameCall
<1>1. ASSUME NEW n \in Names
      PROVE  /\ registry_delete_tbl(n) => Store!Delete(n)
             /\ registry_get_id(n) => Store!GetId(n)
             /\ \A t \in Tables : NameIn[t] = n /\ registry_add(t) => Store!Add(n)
  BY StoreDelete, StoreGetId, StoreAdd
<1>2. ASSUME NEW n \in Names, NEW k \in Keys
      PROVE  /\ registry_lookup_table_elem(n, k) => Store!Lookup(n, k)
             /\ registry_delete_table_elem(n, k) => Store!DeleteElem(n, k)
             /\ \A v \in Values, flags \in 0 .. 3 :
                  registry_update_table(n, k, v, flags) => Store!Update(n, k, v, flags)
  <2>1. Finds(ByName(n), n)
    BY FindsName
  <2> QED BY <2>1, SameLookup, SameDeleteElem, SameUpdate
          DEF registry_lookup_table_elem, registry_delete_table_elem, registry_update_table
<1>3. ASSUME NEW n \in Names, NEW k \in Keys, NEW id \in {i \in 0 .. MaxId : Store!HasId(n, i)}
      PROVE  /\ registry_lookup_table_elem_id(id, k) => Store!Lookup(n, k)
             /\ registry_delete_table_elem_id(id, k) => Store!DeleteElem(n, k)
             /\ \A v \in Values, flags \in 0 .. 3 :
                  registry_update_table_id(id, k, v, flags) => Store!Update(n, k, v, flags)
  <2>1. Finds(ById(id), n)
    BY <1>3, FindsId
  <2> QED BY <2>1, SameLookup, SameDeleteElem, SameUpdate
          DEF registry_lookup_table_elem_id, registry_delete_table_elem_id, registry_update_table_id
<1> QED BY <1>1, <1>2, <1>3 DEF SameCall

LEMMA InitStore == Init => Store!Init /\ EmptyInv
<1> SUFFICES ASSUME Init PROVE Store!Init /\ EmptyInv
  OBVIOUS
<1>1. {e.name : e \in reg_tables_name} = {}
  BY DEF Init
<1>2. StoredTables = [n \in {} |-> NULL]
  BY <1>1 DEF StoredTables
<1>3. EmptyInv
  BY DEF Init, EmptyInv
<1> QED BY <1>2, <1>3 DEF Init, Store!Init

\* The registry and its maps are the store their headers describe, and every call is
\* the store's call of the same arguments until freed memory is used.
THEOREM Implements == Spec => ImplementsStore
<1>1. IInv /\ EmptyInv /\ [Next]_vars => [wild' = "" => SameCall]_vars
  BY SameCallHolds
<1>2. IInv /\ EmptyInv /\ [Next]_vars => [Store!Next]_(Store!vars)
  BY NextStore DEF StoreStep
<1>3. Spec => []EmptyInv
  BY InitStore, EmptyKept, Invariant, PTL DEF Spec
<1>4. Spec => [][wild' = "" => SameCall]_vars
  BY <1>1, <1>3, Invariant, PTL DEF Spec
<1>5. Spec => Store!Init /\ [][Store!Next]_(Store!vars)
  BY <1>2, <1>3, InitStore, Invariant, PTL DEF Spec
<1> QED BY <1>4, <1>5 DEF ImplementsStore, Store!Spec
=============================================================================
