---------------------------- MODULE UserRuntime ----------------------------
(***************************************************************************)
(* The user-space stand-in for the kernel's BPF maps, on which the test    *)
(* target runs generated programs: ebpf_registry.c over ebpf_map.c over    *)
(* the uthash lists they keep.                                             *)
(*                                                                         *)
(* A uthash is known by a pointer to its first element, and HASH_DEL moves *)
(* that pointer when it removes the first one.  Here that pointer is the   *)
(* field bpf_map of a struct bpf_table, and the functions that delete are  *)
(* passed a copy of it.                                                    *)
(***************************************************************************)
EXTENDS Naturals, Sequences, FiniteSets

CONSTANTS
  Tables,           \* the struct bpf_table the program declares
  Names, LongNames, \* their names, those over MAX_TABLE_NAME_LENGTH
  NameIn,           \* NameIn[t]: the name field of table t
  Keys, Values,
  Failure, Success, NULL,
  MaxId             \* bound on table_indexer, for TLC

ASSUME ConstantsAssumption ==
  /\ LongNames \subseteq Names
  /\ NameIn \in [Tables -> Names]
  /\ NULL \notin Values /\ Failure # Success
  /\ NULL \notin Nat
  /\ MaxId \in Nat

\* enum bpf_flags
USER_BPF_NOEXIST == 1
USER_BPF_EXIST == 2

Element == [key : Keys, value : Values]
RegistryEntry == [name : Names \ LongNames, handle : Nat, tbl : Tables]

VARIABLES
  reg_tables_name, reg_tables_id,   \* the registry entries, in their two hashes
  table_indexer,
  elements,   \* elements[t]: the elements of t's hash, in the order of insertion
  bpf_map,    \* bpf_map[t]: "null", "live": the first of them, or "freed"
  ret,        \* what the last call returned
  wild        \* "": fine; else the kind of freed memory that has been used

vars == <<reg_tables_name, reg_tables_id, table_indexer, elements, bpf_map, ret, wild>>

TypeOK ==
  /\ reg_tables_name \subseteq RegistryEntry
  /\ reg_tables_id \subseteq RegistryEntry
  /\ table_indexer \in Nat
  /\ elements \in [Tables -> Seq(Element)]
  /\ bpf_map \in [Tables -> {"null", "live", "freed"}]
  /\ wild \in {"", "element", "entry"}

-----------------------------------------------------------------------------
(* ebpf_map.c.  An operation on a freed first element may do anything: the *)
(* model stops there.                                                      *)

KeyAt(t, i) == elements[t][i].key
Holds(t, k) == \E i \in DOMAIN elements[t] : KeyAt(t, i) = k
Index(t, k) == CHOOSE i \in DOMAIN elements[t] : KeyAt(t, i) = k

\* Mutant: the flag that forbids a new element is not looked at.
check_flags_NoExist(present, flags) ==
  ~(flags > USER_BPF_EXIST \/ (present /\ flags = USER_BPF_NOEXIST))

check_flags(present, flags) ==
  ~(\/ flags > USER_BPF_EXIST
    \/ present /\ flags = USER_BPF_NOEXIST
    \/ ~present /\ flags = USER_BPF_EXIST)

\* The old value is replaced (and leaked, so that pointers to it stay good); a
\* new element goes to the end, or becomes the first.
bpf_map_update_elem(t, k, v, flags) ==
  IF ~check_flags(Holds(t, k), flags)
  THEN ret' = Failure /\ UNCHANGED <<elements, bpf_map>>
  ELSE /\ elements' = [elements EXCEPT ![t] =
            IF Holds(t, k) THEN [@ EXCEPT ![Index(t, k)].value = v]
            ELSE Append(@, [key |-> k, value |-> v])]
       /\ bpf_map' = [bpf_map EXCEPT ![t] = "live"]
       /\ ret' = Success

bpf_map_lookup_elem(t, k) ==
  /\ ret' = IF Holds(t, k) THEN elements[t][Index(t, k)].value ELSE NULL
  /\ UNCHANGED <<elements, bpf_map>>

Remove(s, i) == SubSeq(s, 1, i - 1) \o SubSeq(s, i + 1, Len(s))

\* HASH_DEL moves the function's own copy of the pointer to the first element;
\* the table's keeps pointing to the element that is freed.
bpf_map_delete_elem(t, k) ==
  /\ IF Holds(t, k)
     THEN /\ elements' = [elements EXCEPT ![t] = Remove(@, Index(t, k))]
          /\ bpf_map' = [bpf_map EXCEPT ![t] = IF Index(t, k) = 1 THEN "freed" ELSE @]
     ELSE UNCHANGED <<elements, bpf_map>>
  /\ ret' = Success

-----------------------------------------------------------------------------
(* ebpf_registry.c.                                                        *)

ByName(n) == {e \in reg_tables_name : e.name = n /\ n \notin LongNames}
ById(id)  == {e \in reg_tables_id : e.handle = id}

\* Apply Op to the table of the entry found, if any; fail is returned if none.
\* A table whose map pointer is stale is not operated on any further.
OnTable(found, fail, Op(_)) ==
  /\ \/ found = {} /\ ret' = fail /\ UNCHANGED <<elements, bpf_map, wild>>
     \/ \E e \in found :
          IF bpf_map[e.tbl] = "freed"
          THEN wild' = "element" /\ UNCHANGED <<elements, bpf_map, ret>>
          ELSE Op(e.tbl) /\ UNCHANGED wild
  /\ UNCHANGED <<reg_tables_name, reg_tables_id, table_indexer>>

\* Mutant: the length of the name is not checked.
registry_add_LongName(t) ==
  LET n == NameIn[t]
      entry == [name |-> n, handle |-> table_indexer, tbl |-> t]
  IN /\ table_indexer < MaxId
     /\ IF ByName(n) # {}
        THEN ret' = Failure /\ UNCHANGED <<reg_tables_name, reg_tables_id, table_indexer>>
        ELSE /\ reg_tables_name' = reg_tables_name \cup {entry}
             /\ reg_tables_id' = reg_tables_id \cup {entry}
             /\ table_indexer' = table_indexer + 1
             /\ ret' = Success
     /\ UNCHANGED <<elements, bpf_map, wild>>

registry_add(t) ==
  LET n == NameIn[t]
      entry == [name |-> n, handle |-> table_indexer, tbl |-> t]
  IN /\ table_indexer < MaxId
     /\ IF ByName(n) # {} \/ n \in LongNames
        THEN ret' = Failure /\ UNCHANGED <<reg_tables_name, reg_tables_id, table_indexer>>
        ELSE /\ reg_tables_name' = reg_tables_name \cup {entry}
             /\ reg_tables_id' = reg_tables_id \cup {entry}
             /\ table_indexer' = table_indexer + 1
             /\ ret' = Success
     /\ UNCHANGED <<elements, bpf_map, wild>>

\* Mutant: the entry stays in the hash of ids.
registry_delete_tbl_KeepId(n) ==
  /\ \/ ByName(n) = {} /\ ret' = Failure
        /\ UNCHANGED <<reg_tables_name, reg_tables_id, elements, bpf_map, wild>>
     \/ \E e \in ByName(n) :
          IF bpf_map[e.tbl] = "freed"
          THEN /\ wild' = "element"
               /\ UNCHANGED <<reg_tables_name, reg_tables_id, elements, bpf_map, ret>>
          ELSE /\ elements' = [elements EXCEPT ![e.tbl] = <<>>]
               /\ bpf_map' = [bpf_map EXCEPT ![e.tbl] = IF @ = "live" THEN "freed" ELSE @]
               /\ reg_tables_name' = reg_tables_name \ {e}
               /\ ret' = Success
               /\ UNCHANGED <<wild, reg_tables_id>>
  /\ UNCHANGED table_indexer

\* bpf_map_delete_map() frees every element; the table's pointer to the first one
\* is not reset.
registry_delete_tbl(n) ==
  /\ \/ ByName(n) = {} /\ ret' = Failure
        /\ UNCHANGED <<reg_tables_name, reg_tables_id, elements, bpf_map, wild>>
     \/ \E e \in ByName(n) :
          IF bpf_map[e.tbl] = "freed"
          THEN /\ wild' = "element"
               /\ UNCHANGED <<reg_tables_name, reg_tables_id, elements, bpf_map, ret>>
          ELSE /\ elements' = [elements EXCEPT ![e.tbl] = <<>>]
               /\ bpf_map' = [bpf_map EXCEPT ![e.tbl] = IF @ = "live" THEN "freed" ELSE @]
               /\ reg_tables_name' = reg_tables_name \ {e}
               /\ reg_tables_id' = reg_tables_id \ {e}
               /\ ret' = Success
               /\ UNCHANGED wild
  /\ UNCHANGED table_indexer

\* The loop over the hash of names frees the entries, each of which is in the
\* hash of ids too; the loop over that hash then reads them.
registry_delete ==
  /\ wild' = IF \E e \in reg_tables_name : bpf_map[e.tbl] = "freed" THEN "element"
             ELSE IF reg_tables_name # {} THEN "entry" ELSE wild
  /\ UNCHANGED <<reg_tables_name, reg_tables_id, table_indexer, elements, bpf_map, ret>>

registry_get_id(n) ==
  /\ ret' = IF ByName(n) = {} THEN NULL ELSE (CHOOSE e \in ByName(n) : TRUE).handle
  /\ UNCHANGED <<reg_tables_name, reg_tables_id, table_indexer, elements, bpf_map, wild>>

registry_update_table(n, k, v, flags) ==
  OnTable(ByName(n), Failure, LAMBDA t : bpf_map_update_elem(t, k, v, flags))
registry_update_table_id(id, k, v, flags) ==
  OnTable(ById(id), Failure, LAMBDA t : bpf_map_update_elem(t, k, v, flags))

registry_delete_table_elem(n, k) ==
  OnTable(ByName(n), Failure, LAMBDA t : bpf_map_delete_elem(t, k))
registry_delete_table_elem_id(id, k) ==
  OnTable(ById(id), Failure, LAMBDA t : bpf_map_delete_elem(t, k))

registry_lookup_table_elem(n, k) ==
  OnTable(ByName(n), NULL, LAMBDA t : bpf_map_lookup_elem(t, k))
registry_lookup_table_elem_id(id, k) ==
  OnTable(ById(id), NULL, LAMBDA t : bpf_map_lookup_elem(t, k))

-----------------------------------------------------------------------------

Init ==
  /\ reg_tables_name = {} /\ reg_tables_id = {}
  /\ table_indexer = 0
  /\ elements = [t \in Tables |-> <<>>]
  /\ bpf_map = [t \in Tables |-> "null"]
  /\ ret = NULL
  /\ wild = ""

Next ==
  /\ wild = ""
  /\ \/ registry_delete
     \/ \E t \in Tables : registry_add(t)
     \/ \E n \in Names : registry_delete_tbl(n) \/ registry_get_id(n)
     \/ \E k \in Keys :
          \/ \E n \in Names : registry_delete_table_elem(n, k) \/ registry_lookup_table_elem(n, k)
          \/ \E id \in 0 .. MaxId :
               registry_delete_table_elem_id(id, k) \/ registry_lookup_table_elem_id(id, k)
          \/ \E v \in Values, flags \in 0 .. 3 :
               \/ \E n \in Names : registry_update_table(n, k, v, flags)
               \/ \E id \in 0 .. MaxId : registry_update_table_id(id, k, v, flags)

Spec == Init /\ [][Next]_vars

-----------------------------------------------------------------------------
(* Properties.                                                             *)

\* The two hashes of the registry hold the same entries, no two of one name, of
\* one id or of one table, and no id is given out twice (ebpf_registry.h:92, "a
\* one-to-one mapped id of a table identified by its name").
OneToOne ==
  /\ reg_tables_name = reg_tables_id
  /\ \A d, e \in reg_tables_name :
       d # e => d.name # e.name /\ d.handle # e.handle /\ d.tbl # e.tbl
  /\ \A e \in reg_tables_name : e.handle < table_indexer

\* The registry is the store its headers describe: every step is one of the
\* store's, and every call does and returns what the store's call of the same
\* arguments does, whether the caller uses names or ids, until memory that was
\* freed is used.
EntriesOf(t) == [k \in {x \in Keys : Holds(t, x)} |-> elements[t][Index(t, k)].value]
Stored(e) == [id |-> e.handle, entries |-> EntriesOf(e.tbl)]
StoredTables ==
  [n \in {e.name : e \in reg_tables_name} |-> Stored(CHOOSE e \in reg_tables_name : e.name = n)]
Store == INSTANCE TableStore WITH tables <- StoredTables, nextId <- table_indexer
SameCall ==
  \A n \in Names :
    /\ registry_delete_tbl(n) => Store!Delete(n)
    /\ registry_get_id(n) => Store!GetId(n)
    /\ \A t \in Tables : NameIn[t] = n /\ registry_add(t) => Store!Add(n)
    /\ \A k \in Keys :
         /\ registry_lookup_table_elem(n, k) => Store!Lookup(n, k)
         /\ registry_delete_table_elem(n, k) => Store!DeleteElem(n, k)
         /\ \A v \in Values, flags \in 0 .. 3 :
              registry_update_table(n, k, v, flags) => Store!Update(n, k, v, flags)
         /\ \A id \in {i \in 0 .. MaxId : Store!HasId(n, i)} :
              /\ registry_lookup_table_elem_id(id, k) => Store!Lookup(n, k)
              /\ registry_delete_table_elem_id(id, k) => Store!DeleteElem(n, k)
              /\ \A v \in Values, flags \in 0 .. 3 :
                   registry_update_table_id(id, k, v, flags) => Store!Update(n, k, v, flags)
ImplementsStore == Store!Spec /\ [][wild' = "" => SameCall]_vars

\* ebpf_map.h:54-55, bpf_map_delete_elem "Deletes the key and the corresponding
\* value from the map": the rest of the map stays usable.
MapUsableAfterDelete == wild # "element"

\* ebpf_registry.h:67-69, registry_delete "Removes all the tables from the
\* registry.  Also cleans up all the entries of the tables."
RegistryCleared == wild # "entry"

=============================================================================
