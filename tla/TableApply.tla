----------------------------- MODULE TableApply -----------------------------
(***************************************************************************)
(* table.apply() in a control, load by load, while the control plane       *)
(* changes the table: the lookup, the default action on a miss, the switch *)
(* over the action of the entry, the action's parameters and, where the    *)
(* apply() is the subject of a switch statement, the action that is said   *)
(* to have run.                                                            *)
(*                                                                         *)
(* The lookup yields a pointer to the entry's value in the map, which is   *)
(* read anew at each use.  What memory that is depends on the map:         *)
(*   hash   a slot of a preallocated hash map, which an update or a        *)
(*          deletion gives up for the next update to overwrite;            *)
(*   lpm    a node of a trie, which is freed when no program runs any more *)
(*          that may point to it;                                          *)
(*   array  the element of the index, which is there from the start, is    *)
(*          overwritten in place by an update and cannot be deleted.       *)
(***************************************************************************)
EXTENDS Naturals, FiniteSets

CONSTANTS
  CPUs,
  Keys,              \* of an array, the indexes in use
  Kinds,             \* the maps to consider: "hash", "lpm", "array"
  ActionIds,         \* the ids of the table's actions; that of NoAction is 0
  WrongId,           \* an id that is none of them
  Params,            \* values of an action's parameter
  DefaultAction,     \* the default action of the program, with its parameter
  Slots, NoSlot,     \* memory of the data map
  Element,           \* Element[k]: that of an array for key k, NoSlot beyond its size
  MaxUpdates         \* bound on changes by the control plane, for TLC

Value == [action : ActionIds \cup {WrongId}, param : Params]

ASSUME ConstantsAssumption ==
  /\ 0 \in ActionIds \cup {WrongId} /\ WrongId \notin ActionIds
  /\ Kinds \subseteq {"hash", "lpm", "array"}
  /\ 0 \in Params
  /\ DefaultAction \in Value /\ DefaultAction.action \in ActionIds
  /\ IsFiniteSet(Slots) /\ NoSlot \notin Slots /\ "default" \notin Slots \cup {NoSlot}
  /\ Element \in [Keys -> Slots \cup {NoSlot}]
  /\ \A j, k \in Keys : j # k /\ Element[j] # NoSlot => Element[j] # Element[k]
  /\ MaxUpdates \in Nat

VARIABLES
  kind,      \* the map of the table; it does not change
  value,     \* value[s]: the value in slot s
  entry,     \* entry[k]: the slot of key k, or NoSlot
  writing,   \* the element of an array that is being overwritten, and with what
  run,       \* run[c]: the table application of CPU c
  updates

vars == <<kind, value, entry, writing, run, updates>>

\* A pointer is to a slot, to the default action's value, or NULL before the lookup.
\* did and with are the action executed and the parameter it used, said is the
\* variable that a switch statement reads; found and age are history: the value at
\* the time of the lookup, and the changes since then to the table or, if it is an
\* array, to the element found.
Run == [pc : {"idle", "action", "param", "said", "done", "aborted"},
        ptr : Slots \cup {NoSlot, "default"}, hit : BOOLEAN,
        did : ActionIds \cup {WrongId}, with : Params, said : ActionIds \cup {WrongId},
        found : Value, age : 0 .. MaxUpdates]

\* The memory of an array is zero at first; 0 is NoAction.
Zero == [action |-> 0, param |-> 0]

NotWriting == [slot |-> NoSlot, value |-> Zero]

TypeOK ==
  /\ kind \in Kinds
  /\ value \in [Slots -> Value]
  /\ entry \in [Keys -> Slots \cup {NoSlot}]
  /\ writing \in [slot : Slots, value : Value] \cup {NotWriting}
  /\ run \in [CPUs -> Run]
  /\ updates \in 0 .. MaxUpdates
  /\ \A c \in CPUs : run[c].pc \in {"action", "param", "said"} => run[c].ptr # NoSlot
  /\ \A j, k \in Keys : j # k /\ entry[j] # NoSlot => entry[j] # entry[k]

-----------------------------------------------------------------------------
(* The program.                                                            *)

Deref(ptr) == IF ptr = "default" THEN DefaultAction ELSE value[ptr]

\* Mutant: no default action on a miss.
Lookup_NoDefault(c) ==
  /\ run[c].pc \in {"idle", "done", "aborted"}
  /\ \E k \in Keys :
       run' = [run EXCEPT ![c] = [@ EXCEPT
            !.pc = "action", !.ptr = entry[k], !.hit = entry[k] # NoSlot, !.said = 0,
            !.found = IF entry[k] = NoSlot THEN DefaultAction ELSE value[entry[k]], !.age = 0]]
  /\ UNCHANGED <<kind, value, entry, writing, updates>>

\* The default action is that of a map of its own, which has it from the start and is
\* not written again by anything here.
Lookup(c) ==
  /\ run[c].pc \in {"idle", "done", "aborted"}
  /\ \E k \in Keys :
       LET ptr == IF entry[k] = NoSlot THEN "default" ELSE entry[k]
       IN run' = [run EXCEPT ![c] = [@ EXCEPT
            !.pc = "action", !.ptr = ptr, !.hit = entry[k] # NoSlot, !.said = 0,
            !.found = Deref(ptr), !.age = IF ptr = writing.slot THEN 1 ELSE 0]]
  /\ UNCHANGED <<kind, value, entry, writing, updates>>

\* switch (value->action): an unknown id drops the packet.
SwitchAction(c) ==
  /\ run[c].pc = "action"
  /\ LET id == Deref(run[c].ptr).action
     IN run' = [run EXCEPT ![c] = IF id \in ActionIds
                                  THEN [@ EXCEPT !.pc = "param", !.did = id]
                                  ELSE [@ EXCEPT !.pc = "aborted"]]
  /\ UNCHANGED <<kind, value, entry, writing, updates>>

\* The action reads value->u.<action>.<param>.
ReadParam(c) ==
  /\ run[c].pc = "param"
  /\ run' = [run EXCEPT ![c] = [@ EXCEPT !.pc = "said", !.with = Deref(run[c].ptr).param]]
  /\ UNCHANGED <<kind, value, entry, writing, updates>>

\* action_run = value->action
SetActionRun(c) ==
  /\ run[c].pc = "said"
  /\ run' = [run EXCEPT ![c] = [@ EXCEPT !.pc = "done", !.said = Deref(run[c].ptr).action]]
  /\ UNCHANGED <<kind, value, entry, writing, updates>>

-----------------------------------------------------------------------------
(* The control plane.  A hash map or a trie is updated at once; the value  *)
(* of an array's element is copied over the old one, in two stores here.   *)

Held == {run[c].ptr : c \in {d \in CPUs : run[d].pc \in {"action", "param", "said"}}}

\* Mutant: memory of trie nodes is reused at once, as that of hash map elements is.
Spare_Held == {s \in Slots : \A k \in Keys : entry[k] # s}

Spare == {s \in Slots : (\A k \in Keys : entry[k] # s) /\ (kind = "lpm" => s \notin Held)}

\* A change: it counts for the applications that hold one of the pointers.
Changed(ptrs) ==
  /\ updates < MaxUpdates /\ updates' = updates + 1
  /\ run' = [c \in CPUs |-> IF run[c].pc \in {"action", "param", "said"} /\ run[c].ptr \in ptrs
                             THEN [run[c] EXCEPT !.age = @ + 1] ELSE run[c]]

AllPointers == Slots \cup {"default"}

\* Add or change the entry of a key.
Update(k, v) ==
  /\ kind # "array"
  /\ \E s \in Spare : /\ value' = [value EXCEPT ![s] = v]
                      /\ entry' = [entry EXCEPT ![k] = s]
  /\ Changed(AllPointers)
  /\ UNCHANGED <<kind, writing>>

Delete(k) ==
  /\ kind # "array"
  /\ entry' = [entry EXCEPT ![k] = NoSlot]
  /\ Changed(AllPointers)
  /\ UNCHANGED <<kind, value, writing>>

BeginOverwrite(k, v) ==
  /\ kind = "array" /\ writing = NotWriting /\ entry[k] # NoSlot
  /\ \/ value' = [value EXCEPT ![entry[k]].action = v.action]
     \/ value' = [value EXCEPT ![entry[k]].param = v.param]
  /\ writing' = [slot |-> entry[k], value |-> v]
  /\ Changed({entry[k]})
  /\ UNCHANGED <<kind, entry>>

EndOverwrite ==
  /\ writing # NotWriting
  /\ value' = [value EXCEPT ![writing.slot] = writing.value]
  /\ writing' = NotWriting
  /\ UNCHANGED <<kind, entry, run, updates>>

-----------------------------------------------------------------------------

\* The default action is written when the program is loaded, before it is attached.
Init ==
  /\ kind \in Kinds
  /\ value = [s \in Slots |-> Zero]
  /\ entry = IF kind = "array" THEN Element ELSE [k \in Keys |-> NoSlot]
  /\ writing = NotWriting
  /\ run = [c \in CPUs |->
       [pc |-> "idle", ptr |-> NoSlot, hit |-> FALSE, did |-> 0, with |-> DefaultAction.param,
        said |-> 0, found |-> DefaultAction, age |-> 0]]
  /\ updates = 0

Apply(c) == Lookup(c) \/ SwitchAction(c) \/ ReadParam(c) \/ SetActionRun(c)

ControlPlane ==
  \/ \E k \in Keys : Delete(k) \/ \E v \in Value : Update(k, v) \/ BeginOverwrite(k, v)
  \/ EndOverwrite

Next == (\E c \in CPUs : Apply(c)) \/ ControlPlane

Spec == Init /\ [][Next]_vars

-----------------------------------------------------------------------------
(* Properties.                                                             *)

Whole(r) ==
  /\ r.hit \/ r.found = DefaultAction
  /\ IF r.found.action \in ActionIds
     THEN r.pc = "done" /\ r.did = r.found.action /\ r.with = r.found.param /\ r.said = r.did
     ELSE r.pc = "aborted"

\* What the control plane may do between the lookup and the end of the action: anything
\* to a trie, one change to a hash map, none to the element found to an array.
Undisturbed(r) ==
  \/ kind = "lpm"
  \/ kind = "hash" /\ r.age <= 1
  \/ kind = "array" /\ r.age = 0

\* An application is that of one entry, the one found, in all that it does, although it
\* reads the entry anew at each use (ebpfTable.cpp:447, 46 and 507).
AppliesOneEntry ==
  \A c \in CPUs : LET r == run[c] IN
    r.pc \in {"done", "aborted"} /\ Undisturbed(r) => Whole(r)

=============================================================================
