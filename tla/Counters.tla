------------------------------ MODULE Counters ------------------------------
(***************************************************************************)
(* The extern CounterArray of the eBPF filter model: the code that         *)
(* increment() and add() become, run by several CPUs on one BPF map, an    *)
(* array (dense) or a preallocated hash map (sparse).                      *)
(*                                                                         *)
(* An element is a slot of the map's memory.  A hash map update of a key   *)
(* that is there puts the CPU's own extra slot in the place of the key's,  *)
(* which becomes the CPU's extra slot, whoever still points to it.         *)
(***************************************************************************)
EXTENDS Naturals, FiniteSets

CONSTANTS
  CPUs,
  Kinds,        \* second constructor arguments (sparse) to consider
  Size,         \* the first one: max_entries
  Indices,      \* the indices the program uses; some may not fit the array
  Increments,   \* the second arguments of add()
  Methods,      \* the methods it calls: "increment", "add"
  Modulus,      \* 2 ^ 32: where a counter wraps
  MaxCalls      \* bound on calls, for TLC

ASSUME ConstantsAssumption ==
  /\ IsFiniteSet(CPUs) /\ CPUs # {}
  /\ Kinds \subseteq BOOLEAN
  /\ Size \in Nat \ {0}
  /\ Indices \subseteq Nat /\ Indices # {}
  /\ Increments \subseteq Nat
  /\ Methods \subseteq {"increment", "add"}
  /\ Modulus \in Nat \ {0} /\ MaxCalls \in Nat

\* The elements of the map and, for each CPU, an extra one.
Slots == (0 .. Size - 1) \cup {Size + n : n \in 0 .. Cardinality(CPUs) - 1}
NoSlot == Size + Cardinality(CPUs)
Wrap(n) == n % Modulus

VARIABLES
  sparse,    \* hash map or array; it does not change
  value,     \* value[s]: the counter in slot s
  entry,     \* entry[k]: the slot of index k, or NoSlot
  extra,     \* extra[c]: the extra slot of CPU c
  call,      \* call[c]: the call that CPU c is in
  made,      \* history: made[k], the sum of what was to be added to counter k
  lost,      \* history: the counters an insertion overwrote, had no room for, or
             \* began at 1 when add() had another argument
  calls

vars == <<sparse, value, entry, extra, call, made, lost, calls>>

Call == [pc : {"idle", "found", "missed"}, key : Indices, inc : Nat,
         elem : Slots \cup {NoSlot}]

TypeOK ==
  /\ sparse \in Kinds
  /\ value \in [Slots -> 0 .. Modulus - 1]
  /\ entry \in [Indices -> Slots \cup {NoSlot}]
  /\ extra \in [CPUs -> Slots]
  /\ call \in [CPUs -> Call]
  /\ made \in [Indices -> Nat] /\ lost \subseteq Indices
  /\ calls \in 0 .. MaxCalls
  /\ \A c \in CPUs : call[c].pc = "found" => call[c].elem # NoSlot

-----------------------------------------------------------------------------

\* What the methods add: increment() one, add() its second argument.
Amounts == (IF "increment" \in Methods THEN {1} ELSE {}) \cup
           (IF "add" \in Methods THEN Increments ELSE {})

\* Mutant: the pointer is not compared with NULL.
Lookup_Unchecked(c) ==
  /\ call[c].pc = "idle" /\ calls < MaxCalls
  /\ \E k \in Indices, inc \in Amounts :
       call' = [call EXCEPT ![c] = [pc |-> "found", key |-> k, inc |-> inc, elem |-> entry[k]]]
  /\ calls' = calls + 1
  /\ UNCHANGED <<sparse, value, entry, extra, made, lost>>

\* value = BPF_MAP_LOOKUP_ELEM(counters, &key)
Lookup(c) ==
  /\ call[c].pc = "idle" /\ calls < MaxCalls
  /\ \E k \in Indices, inc \in Amounts :
       call' = [call EXCEPT ![c] =
         [pc |-> IF entry[k] = NoSlot THEN "missed" ELSE "found",
          key |-> k, inc |-> inc, elem |-> entry[k]]]
  /\ calls' = calls + 1
  /\ UNCHANGED <<sparse, value, entry, extra, made, lost>>

Idle(c) == call' = [call EXCEPT ![c].pc = "idle", ![c].elem = NoSlot]
Made(c) == made' = [made EXCEPT ![call[c].key] = @ + call[c].inc]

\* Mutant: the amount is not looked at.
FetchAndAdd_One(c) ==
  /\ call[c].pc = "found"
  /\ value' = [value EXCEPT ![call[c].elem] = Wrap(@ + 1)]
  /\ Made(c) /\ Idle(c)
  /\ UNCHANGED <<sparse, entry, extra, lost, calls>>

\* value != NULL: __sync_fetch_and_add(value, inc)
FetchAndAdd(c) ==
  /\ call[c].pc = "found"
  /\ value' = [value EXCEPT ![call[c].elem] = Wrap(@ + call[c].inc)]
  /\ Made(c) /\ Idle(c)
  /\ UNCHANGED <<sparse, entry, extra, lost, calls>>

Free == Slots \ ({entry[k] : k \in Indices} \cup {extra[c] : c \in CPUs})

\* Mutant: counting starts at 0.
init_val_Zero == 0

\* value == NULL: BPF_MAP_UPDATE_ELEM(counters, &key, &init_val, BPF_ANY), init_val
\* being 1 in both methods.  An array has no room beyond its size, a hash map none
\* beyond max_entries elements.
init_val == Wrap(1)

Insert(c) ==
  /\ call[c].pc = "missed"
  /\ LET k == call[c].key IN
       \/ /\ sparse /\ entry[k] # NoSlot
          /\ value' = [value EXCEPT ![extra[c]] = init_val]
          /\ entry' = [entry EXCEPT ![k] = extra[c]]
          /\ extra' = [extra EXCEPT ![c] = entry[k]]
          /\ lost' = lost \cup {k}
       \/ /\ sparse /\ entry[k] = NoSlot /\ Free # {}
          /\ \E s \in Free : /\ value' = [value EXCEPT ![s] = init_val]
                             /\ entry' = [entry EXCEPT ![k] = s]
          /\ lost' = IF call[c].inc = 1 THEN lost ELSE lost \cup {k}
          /\ UNCHANGED extra
       \/ /\ ~sparse \/ (entry[k] = NoSlot /\ Free = {})
          /\ lost' = lost \cup {k}
          /\ UNCHANGED <<value, entry, extra>>
  /\ Made(c) /\ Idle(c)
  /\ UNCHANGED <<sparse, calls>>

-----------------------------------------------------------------------------

\* All elements of an array exist from the start; a hash map is empty.
Init ==
  /\ sparse \in Kinds
  /\ value = [s \in Slots |-> 0]
  /\ entry = [k \in Indices |-> IF ~sparse /\ k < Size THEN k ELSE NoSlot]
  /\ \E f \in [CPUs -> Size .. NoSlot - 1] :
       (\A c, d \in CPUs : c # d => f[c] # f[d]) /\ extra = f
  /\ call = [c \in CPUs |->
       [pc |-> "idle", key |-> CHOOSE k \in Indices : TRUE, inc |-> 0, elem |-> NoSlot]]
  /\ made = [k \in Indices |-> 0] /\ lost = {}
  /\ calls = 0

Next == \E c \in CPUs : Lookup(c) \/ FetchAndAdd(c) \/ Insert(c)

Spec == Init /\ [][Next]_vars

-----------------------------------------------------------------------------
(* Properties.                                                             *)

Count(k) == IF entry[k] = NoSlot THEN 0 ELSE value[entry[k]]

\* A counter is off only if an insertion went wrong: two CPUs missed it at once, so
\* that one's insertion overwrote it, the map had no room for it, or it began with an
\* add() of something else than 1.  In particular no call counts in another counter
\* through a pointer to an element that was replaced in the meantime.
ExactUnlessLost == \A k \in Indices \ lost : Count(k) = Wrap(made[k])

\* In the array every call counts, for indices that fit.
DenseExact ==
  ~sparse => \A k \in Indices : k < Size => k \notin lost /\ Count(k) = Wrap(made[k])

\* ebpf_model.p4:26, "Counters can only be incremented by the data-plane".
OnlyIncremented ==
  [][\A k \in Indices : made'[k] < Modulus => Count(k)' >= Count(k)]_vars

=============================================================================
