---------------------------- MODULE Replication ----------------------------
(***************************************************************************)
(* do_for_each(), load by load: how a program walks the member list of a   *)
(* clone session or multicast group while the control plane adds members.  *)
(* PsaPipeline takes the whole list at once; this module says when it may. *)
(*                                                                         *)
(* The list lives in one BPF hash map, the inner map.  Its elements are    *)
(* slots of preallocated memory (the map is declared with flags 0): an     *)
(* update of an existing key writes a spare slot, makes it the key's, and  *)
(* the old slot becomes a spare, which the next update overwrites although *)
(* a program may still hold a pointer to it.                               *)
(***************************************************************************)
EXTENDS Naturals, Sequences, FiniteSets

CONSTANTS
  CPUs,        \* CPUs that run the programs
  Members,     \* the list_key_t the control plane may add, [port, instance]
  Slots,       \* the element slots of the inner map, spare ones included
  NoSlot,      \* NULL
  MaxClones    \* CLONE_MAX_CLONES: max_entries of the inner map and max_iter

\* elem_t: member ids and the {0, 0} of the head, which also ends the list.
HeadId == [port |-> 0, instance |-> 0]
Ids    == Members \cup {HeadId}
Part(f) == {id[f] : id \in Ids}

ASSUME ConstantsAssumption ==
  /\ \A id \in Members : id \in [port : Nat \ {0}, instance : Nat]
  /\ IsFiniteSet(Slots) /\ Slots # {} /\ NoSlot \notin Slots
  /\ MaxClones \in Nat \ {0}

VARIABLES
  element,  \* element[s]: key, and next_id; the entry is known by the key
  inner,    \* inner[id]: the slot of key id in the inner map, or NoSlot
  adding,   \* the member the control plane has stored but not linked, or HeadId
  listed,   \* history: the members it has linked, in the order of the list
  walk      \* walk[c]: the do_for_each() of CPU c

vars == <<element, inner, adding, listed, walk>>

\* failed is the return value -1; history are before, the list when the walk began,
\* and change, what became of it since: nothing, one member was linked, or more was
\* done after that.
Walk == [pc : {"idle", "port", "instance", "lookup", "clone"},
         elem : Slots \cup {NoSlot}, port : Part("port"), i : 0 .. MaxClones,
         next : [port : Part("port"), instance : Part("instance")],
         sent : Seq(Ids), failed : BOOLEAN,
         before : Seq(Members), change : {"none", "link", "more"}]

\* The verifier's demand, that no NULL is dereferenced, is part of the type.
TypeOK ==
  /\ element \in [Slots -> [key : Ids, next : Ids]]
  /\ inner \in [Ids -> Slots \cup {NoSlot}]
  /\ adding \in Ids
  /\ listed \in Seq(Members)
  /\ walk \in [CPUs -> Walk]
  /\ \A c \in CPUs : walk[c].pc \in {"port", "instance", "clone"} => walk[c].elem # NoSlot

-----------------------------------------------------------------------------
(* The program.                                                            *)

Set(c, w) == walk' = [walk EXCEPT ![c] = w] /\ UNCHANGED <<element, inner, adding, listed>>
End(w)    == [w EXCEPT !.pc = "idle", !.elem = NoSlot, !.port = 0, !.next = HeadId]

\* do_for_each() is called: without a head element it returns -1.
LookupHead(c) ==
  /\ walk[c].pc = "idle"
  /\ LET head == inner[HeadId]
         w == [walk[c] EXCEPT !.elem = head, !.i = 0, !.sent = <<>>,
                 !.failed = head = NoSlot, !.before = listed, !.change = "none"]
     IN Set(c, IF head = NoSlot THEN End(w) ELSE [w EXCEPT !.pc = "port"])

\* elem->next_id is read through the pointer, 32 bits of port and then 16 of
\* instance, so the two may come from different lists.
LoadPort(c) ==
  /\ walk[c].pc = "port"
  /\ Set(c, [walk[c] EXCEPT !.pc = "instance", !.port = element[walk[c].elem].next.port])

\* Mutant: && taken for || in the test for {0, 0}.
LoadInstance_Or(c) ==
  /\ walk[c].pc = "instance"
  /\ LET w == walk[c]
         next == [port |-> w.port, instance |-> element[w.elem].next.instance]
     IN Set(c, IF next.port = 0 \/ next.instance = 0 THEN End(w)
               ELSE [w EXCEPT !.pc = "lookup", !.next = next])

\* {0, 0} ends the list.
LoadInstance(c) ==
  /\ walk[c].pc = "instance"
  /\ LET w == walk[c]
         next == [port |-> w.port, instance |-> element[w.elem].next.instance]
     IN Set(c, IF next = HeadId THEN End(w)
               ELSE [w EXCEPT !.pc = "lookup", !.next = next])

\* Mutant: the element is used without a look at whether it is there.
Lookup_Unchecked(c) ==
  /\ walk[c].pc = "lookup"
  /\ LET w == walk[c]
         s == IF w.next \in Ids THEN inner[w.next] ELSE NoSlot
     IN Set(c, IF w.i = MaxClones THEN End(w)
               ELSE [w EXCEPT !.pc = "clone", !.elem = s, !.i = @ + 1])

\* The loop body: at most max_iter times, and as long as the member is there.
Lookup(c) ==
  /\ walk[c].pc = "lookup"
  /\ LET w == walk[c]
         s == IF w.next \in Ids THEN inner[w.next] ELSE NoSlot
     IN Set(c, IF w.i = MaxClones \/ s = NoSlot THEN End(w)
               ELSE [w EXCEPT !.pc = "clone", !.elem = s, !.i = @ + 1])

\* Mutant: next_id is not advanced.
Clone_Stay(c) ==
  /\ walk[c].pc = "clone"
  /\ Set(c, [walk[c] EXCEPT !.pc = "lookup",
               !.sent = Append(@, element[walk[c].elem].key)])

\* a(skb, &elem->entry), that is do_clone(); then elem->next_id is looked at.
Clone(c) ==
  /\ walk[c].pc = "clone"
  /\ Set(c, [walk[c] EXCEPT !.pc = "port",
               !.sent = Append(@, element[walk[c].elem].key)])

-----------------------------------------------------------------------------
(* The control plane, one bpf_map_update_elem() per action.                *)

Spare == {s \in Slots : \A id \in Ids : inner[id] # s}

Store(s, id, next) ==
  /\ element' = [element EXCEPT ![s] = [key |-> id, next |-> next]]
  /\ inner' = [inner EXCEPT ![id] = s]

\* The inner map is initialised with an empty list.
StoreHead ==
  /\ inner[HeadId] = NoSlot
  /\ \E s \in Spare : Store(s, HeadId, HeadId)
  /\ UNCHANGED <<adding, listed, walk>>

\* History: the list is changed in the given way under the walks in progress.
Changed(how) ==
  [c \in CPUs |-> IF walk[c].pc = "idle" THEN walk[c] ELSE [walk[c] EXCEPT !.change = how[@]]]

\* A member is added: first its element, in front of the list ...
StoreMember(id) ==
  /\ inner[HeadId] # NoSlot
  /\ adding = HeadId
  /\ inner[id] = NoSlot
  /\ Cardinality({k \in Ids : inner[k] # NoSlot}) < MaxClones
  /\ \E s \in Spare : Store(s, id, element[inner[HeadId]].next)
  /\ adding' = id
  /\ walk' = Changed([none |-> "none", link |-> "more", more |-> "more"])
  /\ UNCHANGED listed

\* ... and then a new head element that points to it.
LinkMember ==
  /\ adding # HeadId
  /\ \E s \in Spare : Store(s, HeadId, adding)
  /\ adding' = HeadId
  /\ listed' = <<adding>> \o listed
  /\ walk' = Changed([none |-> "link", link |-> "more", more |-> "more"])

-----------------------------------------------------------------------------

Init ==
  /\ element \in [Slots -> {[key |-> HeadId, next |-> HeadId]}]
  /\ inner = [id \in Ids |-> NoSlot]
  /\ adding = HeadId
  /\ listed = <<>>
  /\ walk = [c \in CPUs |->
       [pc |-> "idle", elem |-> NoSlot, port |-> 0, i |-> 0, next |-> HeadId,
        sent |-> <<>>, failed |-> FALSE, before |-> <<>>, change |-> "none"]]

Step(c) == LookupHead(c) \/ LoadPort(c) \/ LoadInstance(c) \/ Lookup(c) \/ Clone(c)

ControlPlane == StoreHead \/ LinkMember \/ \E id \in Members : StoreMember(id)

Next == (\E c \in CPUs : Step(c)) \/ ControlPlane

Spec == Init /\ [][Next]_vars

-----------------------------------------------------------------------------
(* Properties.                                                             *)

\* No member receives two copies of one packet, and nothing is ever sent to the
\* entry of the head element, however many members are added meanwhile and
\* whatever slots the updates overwrite.
AtMostOnce ==
  \A c \in CPUs : LET sent == walk[c].sent IN
    /\ \A i, j \in DOMAIN sent : i # j => sent[i] # sent[j]
    /\ \A i \in DOMAIN sent : sent[i] # HeadId

\* A walk during which at most one member is linked, and nothing stored after that,
\* copies the packet to the list as it was when the walk began: the loop bound never
\* cuts a list short that fits the inner map, and do_for_each() never falls off it at
\* a slot that was given up.
WholeList ==
  \A c \in CPUs : LET w == walk[c] IN
    w.pc = "idle" /\ ~w.failed /\ w.change # "more" => w.sent = w.before

=============================================================================
