----------------------------- MODULE TableStore -----------------------------
(***************************************************************************)
(* What ebpf_registry.h and ebpf_map.h promise: a store of named tables,   *)
(* each known by a number too, each a map from keys to values.             *)
(***************************************************************************)
EXTENDS Naturals

CONSTANTS Names, LongNames, Keys, Values, Failure, Success, NULL

\* The flags of an update: USER_BPF_ANY, USER_BPF_NOEXIST, USER_BPF_EXIST.
ANY == 0
NOEXIST == 1
EXIST == 2

VARIABLES
  tables,   \* tables[n], for the registered names n: its id and its entries
  nextId,
  ret       \* what the last call returned

vars == <<tables, nextId, ret>>

Named(n) == n \in DOMAIN tables
Without(f, x) == [y \in DOMAIN f \ {x} |-> f[y]]
Set(f, x, v)  == [y \in DOMAIN f \cup {x} |-> IF y = x THEN v ELSE f[y]]

\* registry_add(): EXIT_FAILURE "if map already exists or cannot be added".
Add(n) ==
  IF Named(n) \/ n \in LongNames
  THEN ret' = Failure /\ UNCHANGED <<tables, nextId>>
  ELSE /\ tables' = Set(tables, n, [id |-> nextId, entries |-> [k \in {} |-> NULL]])
       /\ nextId' = nextId + 1
       /\ ret' = Success

\* registry_delete_tbl(): EXIT_FAILURE "if map cannot be found".
Delete(n) ==
  /\ tables' = Without(tables, n)
  /\ ret' = IF Named(n) THEN Success ELSE Failure
  /\ UNCHANGED nextId

\* registry_get_id(): -1 "if map cannot be found".
GetId(n) ==
  /\ ret' = IF Named(n) THEN tables[n].id ELSE NULL
  /\ UNCHANGED <<tables, nextId>>

\* bpf_map_update_elem() on the table named n, or EXIT_FAILURE.
Update(n, k, v, flags) ==
  LET present == k \in DOMAIN tables[n].entries
      refused == \/ flags > EXIST
                 \/ present /\ flags = NOEXIST
                 \/ ~present /\ flags = EXIST
  IN /\ IF ~Named(n) \/ refused
        THEN ret' = Failure /\ UNCHANGED tables
        ELSE ret' = Success /\ tables' = [tables EXCEPT ![n].entries = Set(@, k, v)]
     /\ UNCHANGED nextId

\* bpf_map_delete_elem(): "If the key does not exist, no operation is performed."
DeleteElem(n, k) ==
  /\ IF Named(n)
     THEN ret' = Success /\ tables' = [tables EXCEPT ![n].entries = Without(@, k)]
     ELSE ret' = Failure /\ UNCHANGED tables
  /\ UNCHANGED nextId

\* bpf_map_lookup_elem(): NULL "if key does not exist".
Lookup(n, k) ==
  /\ ret' = IF Named(n) /\ k \in DOMAIN tables[n].entries THEN tables[n].entries[k]
            ELSE NULL
  /\ UNCHANGED <<tables, nextId>>

\* The functions of the registry that take an id mean the table that has it.
HasId(n, id) == Named(n) /\ tables[n].id = id

\* For an id that no table has, as nextId always is, they return their failure.
UnknownId ==
  /\ ret' = Failure \/ ret' = NULL
  /\ UNCHANGED <<tables, nextId>>

Init ==
  /\ tables = [n \in {} |-> NULL]
  /\ nextId = 0
  /\ ret = NULL

Next ==
  \/ UnknownId
  \/ \E n \in Names : \/ Add(n) \/ Delete(n) \/ GetId(n)
                      \/ \E k \in Keys : \/ Lookup(n, k) \/ DeleteElem(n, k)
                                         \/ \E v \in Values, f \in 0 .. 3 : Update(n, k, v, f)

Spec == Init /\ [][Next]_vars

=============================================================================
