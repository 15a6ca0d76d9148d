---------------------------- MODULE PsaPipeline ----------------------------
(***************************************************************************)
(* The packet paths of the PSA/eBPF data plane: what the C code generated  *)
(* by backends/ebpf/psa does to a packet, from the XDP helper through the  *)
(* TC ingress program with its resubmit loop, the replication engine, the  *)
(* TC egress program and back through the recirculation port.              *)
(*                                                                         *)
(* A CPU runs one softirq at a time, but bpf_clone_redirect() runs the TC  *)
(* egress program of the copy BEFORE it returns to its caller.  A CPU is   *)
(* therefore a stack of program runs (frames): the frame on top executes,  *)
(* the frames below are suspended inside do_packet_clones().  All runs on  *)
(* a CPU share that CPU's two hdr_md_cpumap slots.                         *)
(*                                                                         *)
(* The user's P4 program is a parameter: IngressControl and EgressControl  *)
(* give the sets of results its two control blocks may produce.  Of the    *)
(* headers only the EtherType is kept: it is the one field that three      *)
(* pieces of generated code (helper, parser, deparser) all rewrite.        *)
(***************************************************************************)
EXTENDS Integers, Sequences

CONSTANTS
  CPUs,             \* CPUs that run the programs
  EtherTypes,       \* EtherTypes of packets
  IPTypes,          \* those the XDP helper leaves alone (0x0800 and 0x86DD)
  IPv4,             \* 0x0800, the EtherType the helper substitutes
  NoMeta,           \* "skb->data_meta holds no internal_metadata"
  NoHdr,            \* contents of a zeroed hdr_md slot
  Ports,            \* indexes of the interfaces that exist
  NoPort,           \* interface index 0, which no interface has
  RecircPort,       \* PSA_PORT_RECIRCULATE
  Instances, Classes,   \* EgressInstance_t, ClassOfService_t
  Sessions, Groups,     \* clone session and multicast group identifiers
  Session0,         \* clone_session_id == 0
  NoGroup,          \* multicast_group == 0
  Members,          \* the entries the control plane puts into member lists
  MaxResubmitDepth, \* EBPFIngressPipeline::maxResubmitDepth
  MaxMembers,       \* members that fit an inner map (MaxClones - 1: {0,0} is the head)
  XmitLimit,        \* runs the kernel nests on one CPU (XMIT_RECURSION_LIMIT)
  BacklogLimit,     \* packets that wait on a CPU's input queue (netdev_max_backlog)
  IngressControl(_, _, _),  \* EtherType, packet path, ostd |-> set of results
  EgressControl(_, _, _)

Paths == {"NORMAL", "NORMAL_UNICAST", "NORMAL_MULTICAST", "CLONE_I2E",
          "CLONE_E2E", "RESUBMIT", "RECIRCULATE"}

\* struct psa_ingress_output_metadata_t; psa_egress_output_metadata_t is its
\* clone, clone_session_id and drop.
OutMd == [multicast_group : Groups \cup {NoGroup}, egress_port : Ports \cup {NoPort},
          class_of_service : Classes, clone : BOOLEAN,
          clone_session_id : Sessions, drop : BOOLEAN, resubmit : BOOLEAN]

\* What a control block leaves: the output metadata and the EtherType in the
\* parsed headers.
ControlResult == [out : OutMd, type : EtherTypes]

ASSUME ConstantsAssumption ==
  /\ IPTypes \subseteq EtherTypes
  /\ IPv4 \in IPTypes
  /\ NoMeta \notin EtherTypes
  /\ NoHdr \notin EtherTypes
  /\ RecircPort \in Ports /\ NoPort \notin Ports
  /\ 0 \in Instances /\ 0 \in Classes
  /\ Sessions \cap Groups = {}
  /\ Session0 \in Sessions
  /\ NoGroup \notin Groups
  /\ MaxResubmitDepth \in Nat \ {0}
  /\ MaxMembers \in Nat
  /\ XmitLimit \in Nat \ {0}
  /\ BacklogLimit \in Nat

ASSUME ControlAssumption ==
  \A t \in EtherTypes, p \in Paths, o \in OutMd :
    /\ IngressControl(t, p, o) \subseteq ControlResult
    /\ EgressControl(t, p, o) \subseteq ControlResult

\* struct clone_session_entry (truncate and packet_length_bytes are never read).
Entry == [egress_port : Ports, instance : Instances, class_of_service : Classes]

ASSUME MembersAssumption == Members \subseteq Entry

\* One clone session or multicast group: is there an inner map, has its head
\* element {0,0} been written, and the member list hanging off the head.
Replicas == [exists : BOOLEAN, head : BOOLEAN, members : Seq(Entry)]

\* An skb: psa_global_metadata in skb->cb (path, instance), skb->priority, the
\* EtherType in its bytes, the one saved in data_meta, and as history the
\* EtherType it really has (as received, or as the last deparser meant it) and
\* whether do_packet_clones() failed on it since it entered the ingress.
Packet == [path : Paths, instance : Instances, priority : Classes,
           type : EtherTypes, md : EtherTypes \cup {NoMeta}, wire : EtherTypes,
           unlisted : BOOLEAN]

IngressPcs == {"tc", "process", "predeparser", "clone", "verdict", "tm", "shot"}
EgressPcs  == {"tc", "deparser", "tm", "clone", "verdict"}

\* A run of a program.  hdr is the EtherType its control block left in the
\* parsed headers and rx (history) the one it received; saved, todo and resume
\* belong to a do_packet_clones() in progress; cause (history) says what brought
\* the packet here and meant (history) the metadata the sender chose for it.
Frame == [prog : {"ingress", "egress"}, pc : IngressPcs \cup EgressPcs,
          port : Ports, pkt : Packet, out : OutMd, pass : 0 .. MaxResubmitDepth,
          rx : EtherTypes, hdr : EtherTypes, todo : Seq(Entry), saved : Paths,
          resume : {"verdict", "shot"}, cause : Paths,
          meant : [instance : Instances, class_of_service : Classes]]

VARIABLES
  stack,    \* stack[c]: the program runs of CPU c, the executing one last
  hdr_md,   \* hdr_md[c][k]: slot k of CPU c's hdr_md_cpumap
  backlog,  \* backlog[c]: recirculated packets waiting for CPU c
  tbl       \* tbl[i]: clone_session_tbl and multicast_grp_tbl

vars == <<stack, hdr_md, backlog, tbl>>

TypeOK ==
  /\ stack \in [CPUs -> Seq(Frame)]
  /\ hdr_md \in [CPUs -> [{0, 1} -> EtherTypes \cup {NoHdr}]]
  /\ backlog \in [CPUs -> Seq(Packet)]
  /\ tbl \in [Sessions \cup Groups -> Replicas]

-----------------------------------------------------------------------------
(* The stack of runs.                                                      *)

Busy(c) == stack[c] # <<>>
Top(c)  == stack[c][Len(stack[c])]

\* The executing run is at pc of the given program.
At(c, prog, pc) == Busy(c) /\ Top(c).prog = prog /\ Top(c).pc = pc

\* The executing run becomes f, ends, or calls the run g.
Continue(c, f) == stack' = [stack EXCEPT ![c][Len(stack[c])] = f]
Return(c)      == stack' = [stack EXCEPT ![c] = SubSeq(@, 1, Len(@) - 1)]
Call(c, f, g)  == stack' = [stack EXCEPT ![c] = Append([@ EXCEPT ![Len(@)] = f], g)]

\* ostd = {.drop = true} before the resubmit loop of the ingress program,
\* ostd = {.clone = false, .drop = false} in the egress one; C zeroes the rest.
InitialOutMd(prog) ==
  [multicast_group |-> NoGroup, egress_port |-> NoPort, class_of_service |-> 0,
   clone |-> FALSE, clone_session_id |-> Session0, drop |-> prog = "ingress",
   resubmit |-> FALSE]

NewRun(prog, port, pkt, cause, meant) ==
  [prog |-> prog, pc |-> "tc", port |-> port, pkt |-> pkt,
   out |-> InitialOutMd(prog), pass |-> 0,
   rx |-> pkt.wire, hdr |-> pkt.type, todo |-> <<>>, saved |-> pkt.path,
   resume |-> "verdict", cause |-> cause, meant |-> meant]

NothingMeant == [instance |-> 0, class_of_service |-> 0]

-----------------------------------------------------------------------------
(* The XDP helper, on a packet from the wire.                              *)

\* XDPHelpProgram: an IP packet passes as it is; of any other the EtherType is
\* saved in data_meta and replaced by IPv4.  A frame too short for an Ethernet
\* header, or without headroom for the metadata, is aborted.
XdpHelper(c, port, t) ==
  /\ ~Busy(c)
  /\ LET pkt == [path |-> "NORMAL", instance |-> 0, priority |-> 0, wire |-> t,
                 unlisted |-> FALSE,
                 type |-> IF t \in IPTypes THEN t ELSE IPv4,
                 md   |-> IF t \in IPTypes THEN NoMeta ELSE t]
     IN stack' = [stack EXCEPT ![c] =
                    <<NewRun("ingress", port, pkt, "NORMAL", NothingMeant)>>]
  /\ UNCHANGED <<hdr_md, backlog, tbl>>

\* A recirculated packet is taken off the CPU's input queue.  It did not pass
\* the XDP helper.
TakeRecirculated(c) ==
  /\ ~Busy(c)
  /\ backlog[c] # <<>>
  /\ stack' = [stack EXCEPT ![c] =
       <<NewRun("ingress", RecircPort, Head(backlog[c]), "RECIRCULATE", NothingMeant)>>]
  /\ backlog' = [backlog EXCEPT ![c] = Tail(@)]
  /\ UNCHANGED <<hdr_md, tbl>>

-----------------------------------------------------------------------------
(* The replication engine.                                                 *)

\* Mutant: the copies are made before the path is set.
DoPacketClones_Unmarked(c, f, id, path, resume) ==
  LET r == tbl[id]
  IN IF r.exists /\ r.head
     THEN Continue(c, [f EXCEPT !.pc = "clone", !.resume = resume,
                          !.saved = f.pkt.path, !.todo = r.members])
     ELSE Continue(c, [f EXCEPT !.pc = resume])

\* do_packet_clones(): run f asks for copies of its packet to the members of
\* session or group id, marked with path, and goes on at resume.  Without an
\* inner map nothing happens; without a head element do_for_each() fails and
\* the function returns with the new path still in skb->cb.
DoPacketClones(c, f, id, path, resume) ==
  LET r == tbl[id]
      marked == [f EXCEPT !.pkt.path = path]
  IN \/ /\ ~r.exists
        /\ Continue(c, [f EXCEPT !.pc = resume])
     \/ /\ r.exists /\ ~r.head
        /\ Continue(c, [marked EXCEPT !.pc = resume, !.pkt.unlisted = TRUE])
     \/ /\ r.exists /\ r.head
        /\ Continue(c, [marked EXCEPT !.pc = "clone", !.resume = resume,
                          !.saved = f.pkt.path, !.todo = r.members])

\* History: what a copy made by run f is, told by the call of do_packet_clones() that
\* f is in (its caller_id, which only the traces use), not by the path it has set.
CopyCause(f) == IF f.prog = "egress" THEN "CLONE_E2E"
                ELSE IF f.resume = "verdict" THEN "CLONE_I2E" ELSE "NORMAL_MULTICAST"

\* do_clone(): bpf_clone_redirect() copies the skb, cb and priority included, to
\* the member's port and runs the TC egress program on it at once.  The kernel
\* drops the copy when runs are nested too deep.
DoClone(c) ==
  /\ Busy(c)
  /\ Top(c).pc = "clone"
  /\ Top(c).todo # <<>>
  /\ LET f == [Top(c) EXCEPT !.todo = Tail(@)]
         e == Head(Top(c).todo)
         meant == [instance |-> e.instance, class_of_service |-> e.class_of_service]
     IN IF Len(stack[c]) < XmitLimit
        THEN Call(c, f, NewRun("egress", e.egress_port, f.pkt, CopyCause(f), meant))
        ELSE Continue(c, f)
  /\ UNCHANGED <<hdr_md, backlog, tbl>>

\* Mutant: the original path is not put back.
ClonesDone_PathKept(c) ==
  /\ Busy(c)
  /\ Top(c).pc = "clone"
  /\ Top(c).todo = <<>>
  /\ Continue(c, [Top(c) EXCEPT !.pc = Top(c).resume])
  /\ UNCHANGED <<hdr_md, backlog, tbl>>

\* The list is exhausted: meta->packet_path = original_pkt_path.
ClonesDone(c) ==
  /\ Busy(c)
  /\ Top(c).pc = "clone"
  /\ Top(c).todo = <<>>
  /\ Continue(c, [Top(c) EXCEPT !.pc = Top(c).resume, !.pkt.path = Top(c).saved])
  /\ UNCHANGED <<hdr_md, backlog, tbl>>

-----------------------------------------------------------------------------
(* The TC ingress program.                                                 *)

\* Mutant: the EtherType is put back whatever the packet path.
TcIngress_AnyPath(c) ==
  /\ At(c, "ingress", "tc")
  /\ Continue(c, [Top(c) EXCEPT !.pc = "process",
                    !.pkt.type = IF Top(c).pkt.md # NoMeta THEN Top(c).pkt.md ELSE @])
  /\ UNCHANGED <<hdr_md, backlog, tbl>>

\* emitGlobalMetadataInitializer: the EtherType is put back, but only into a
\* packet that comes from XDP.
TcIngress(c) ==
  /\ At(c, "ingress", "tc")
  /\ LET f == Top(c)
         restored == f.pkt.path = "NORMAL" /\ f.pkt.md # NoMeta
     IN Continue(c, [f EXCEPT !.pc = "process",
                       !.pkt.type = IF restored THEN f.pkt.md ELSE @])
  /\ UNCHANGED <<hdr_md, backlog, tbl>>

\* Mutant: the loop does not count its iterations.
IngressProcess_Uncounted(c) ==
  /\ At(c, "ingress", "process")
  /\ LET f == Top(c)
         o == [f.out EXCEPT !.resubmit = FALSE]
     IN \E r \in IngressControl(f.pkt.type, f.pkt.path, o) :
          /\ Continue(c, [f EXCEPT !.pc = "predeparser", !.out = r.out, !.hdr = r.type])
          /\ hdr_md' = [hdr_md EXCEPT ![c][0] = r.type]
  /\ UNCHANGED <<backlog, tbl>>

\* One iteration of the resubmit loop up to the deparser: ostd.resubmit is
\* cleared, hdr_md slot 0 zeroed and parsed into, the control block run.
IngressProcess(c) ==
  /\ At(c, "ingress", "process")
  /\ LET f == Top(c)
         o == [f.out EXCEPT !.resubmit = FALSE]
     IN \E r \in IngressControl(f.pkt.type, f.pkt.path, o) :
          /\ Continue(c, [f EXCEPT !.pc = "predeparser", !.pass = @ + 1,
                            !.out = r.out, !.hdr = r.type])
          /\ hdr_md' = [hdr_md EXCEPT ![c][0] = r.type]
  /\ UNCHANGED <<backlog, tbl>>

\* The parser rejects: process() returns TC_ACT_SHOT and, resubmit being 0, the
\* loop ends.
IngressReject(c) ==
  /\ At(c, "ingress", "process")
  /\ hdr_md' = [hdr_md EXCEPT ![c][0] = NoHdr]
  /\ Return(c)
  /\ UNCHANGED <<backlog, tbl>>

\* Mutant: the packet is copied after the headers have been written into it.
IngressPreDeparser_Deparsed(c) ==
  /\ At(c, "ingress", "predeparser")
  /\ LET f == [Top(c) EXCEPT !.pkt.type = hdr_md[c][0], !.pkt.wire = Top(c).hdr]
     IN IF f.out.clone
        THEN DoPacketClones(c, f, f.out.clone_session_id, "CLONE_I2E", "verdict")
        ELSE Continue(c, [f EXCEPT !.pc = "verdict"])
  /\ UNCHANGED <<hdr_md, backlog, tbl>>

\* emitPreDeparser, first part: copies are made of the packet as received.
IngressPreDeparser(c) ==
  /\ At(c, "ingress", "predeparser")
  /\ LET f == Top(c)
     IN IF f.out.clone
        THEN DoPacketClones(c, f, f.out.clone_session_id, "CLONE_I2E", "verdict")
        ELSE Continue(c, [f EXCEPT !.pc = "verdict"])
  /\ UNCHANGED <<hdr_md, backlog, tbl>>

\* drop: process() returns TC_ACT_SHOT and the loop ends.
IngressDrop(c) ==
  /\ At(c, "ingress", "verdict")
  /\ Top(c).out.drop
  /\ Return(c)
  /\ UNCHANGED <<hdr_md, backlog, tbl>>

\* Mutant: one iteration too many.
IngressResubmit_OneMore(c) ==
  /\ At(c, "ingress", "verdict")
  /\ ~Top(c).out.drop
  /\ Top(c).out.resubmit
  /\ LET f == [Top(c) EXCEPT !.pkt.path = "RESUBMIT"]
     IN Continue(c, IF f.pass <= MaxResubmitDepth
                    THEN [f EXCEPT !.pc = "process", !.cause = "RESUBMIT"]
                    ELSE [f EXCEPT !.pc = "tm"])
  /\ UNCHANGED <<hdr_md, backlog, tbl>>

\* resubmit: the deparser is skipped and the loop starts over.  When it has run
\* out of iterations the packet goes on to the traffic manager as it is.
IngressResubmit(c) ==
  /\ At(c, "ingress", "verdict")
  /\ ~Top(c).out.drop
  /\ Top(c).out.resubmit
  /\ LET f == [Top(c) EXCEPT !.pkt.path = "RESUBMIT"]
     IN Continue(c, IF f.pass < MaxResubmitDepth
                    THEN [f EXCEPT !.pc = "process", !.cause = "RESUBMIT"]
                    ELSE [f EXCEPT !.pc = "tm"])
  /\ UNCHANGED <<hdr_md, backlog, tbl>>

\* The deparser writes the headers of hdr_md slot 0 into the packet.
IngressDeparser(c) ==
  /\ At(c, "ingress", "verdict")
  /\ ~Top(c).out.drop
  /\ ~Top(c).out.resubmit
  /\ Continue(c, [Top(c) EXCEPT !.pc = "tm", !.pkt.type = hdr_md[c][0],
                                !.pkt.wire = Top(c).hdr])
  /\ UNCHANGED <<hdr_md, backlog, tbl>>

\* The buffer cannot be resized for the new headers: TC_ACT_SHOT.
IngressDeparserFails(c) ==
  /\ At(c, "ingress", "verdict")
  /\ ~Top(c).out.drop
  /\ ~Top(c).out.resubmit
  /\ Return(c)
  /\ UNCHANGED <<hdr_md, backlog, tbl>>

\* TCIngressPipeline::emitTrafficManager, multicast: the source packet itself is
\* dropped whatever becomes of the copies.
Multicast(c) ==
  /\ At(c, "ingress", "tm")
  /\ Top(c).out.multicast_group # NoGroup
  /\ DoPacketClones(c, Top(c), Top(c).out.multicast_group, "NORMAL_MULTICAST", "shot")
  /\ UNCHANGED <<hdr_md, backlog, tbl>>

MulticastDone(c) ==
  /\ At(c, "ingress", "shot")
  /\ Return(c)
  /\ UNCHANGED <<hdr_md, backlog, tbl>>

\* ... unicast: bpf_redirect() takes effect when the ingress program returns, so
\* the egress run takes its place.  An interface that does not exist: dropped.
Unicast(c) ==
  /\ At(c, "ingress", "tm")
  /\ Top(c).out.multicast_group = NoGroup
  /\ LET f   == Top(c)
         cos == f.out.class_of_service
         pkt == [f.pkt EXCEPT !.priority = cos]
     IN IF f.out.egress_port \in Ports
        THEN Continue(c, NewRun("egress", f.out.egress_port, pkt, "NORMAL_UNICAST",
                                [instance |-> 0, class_of_service |-> cos]))
        ELSE Return(c)
  /\ UNCHANGED <<hdr_md, backlog, tbl>>

-----------------------------------------------------------------------------
(* The TC egress program.                                                  *)

\* Mutant: egress uses the same slot as ingress.
EgressProcess_SlotZero(c) ==
  /\ At(c, "egress", "tc")
  /\ LET f == Top(c)
     IN \E r \in EgressControl(f.pkt.type, f.pkt.path, f.out) :
          /\ Continue(c, [f EXCEPT !.pc = "deparser", !.out = r.out, !.hdr = r.type])
          /\ hdr_md' = [hdr_md EXCEPT ![c] = [k \in {0, 1} |-> r.type]]
  /\ UNCHANGED <<backlog, tbl>>

\* Parser and control block, on hdr_md slot 1.
EgressProcess(c) ==
  /\ At(c, "egress", "tc")
  /\ LET f == Top(c)
     IN \E r \in EgressControl(f.pkt.type, f.pkt.path, f.out) :
          /\ Continue(c, [f EXCEPT !.pc = "deparser", !.out = r.out, !.hdr = r.type])
          /\ hdr_md' = [hdr_md EXCEPT ![c][1] = r.type]
  /\ UNCHANGED <<backlog, tbl>>

\* The parser rejects: TC_ACT_SHOT.
EgressReject(c) ==
  /\ At(c, "egress", "tc")
  /\ hdr_md' = [hdr_md EXCEPT ![c][1] = NoHdr]
  /\ Return(c)
  /\ UNCHANGED <<backlog, tbl>>

EgressDeparser(c) ==
  /\ At(c, "egress", "deparser")
  /\ Continue(c, [Top(c) EXCEPT !.pc = "tm", !.pkt.type = hdr_md[c][1],
                                !.pkt.wire = Top(c).hdr])
  /\ UNCHANGED <<hdr_md, backlog, tbl>>

\* The buffer cannot be resized for the new headers: TC_ACT_SHOT.
EgressDeparserFails(c) ==
  /\ At(c, "egress", "deparser")
  /\ Return(c)
  /\ UNCHANGED <<hdr_md, backlog, tbl>>

\* TCEgressPipeline::emitTrafficManager: copies are made of the deparsed packet.
EgressClone(c) ==
  /\ At(c, "egress", "tm")
  /\ LET f == Top(c)
     IN IF f.out.clone
        THEN DoPacketClones(c, f, f.out.clone_session_id, "CLONE_E2E", "verdict")
        ELSE Continue(c, [f EXCEPT !.pc = "verdict"])
  /\ UNCHANGED <<hdr_md, backlog, tbl>>

\* A packet whose egress port is the recirculation port goes back to ingress,
\* unless the input queue is full; any other leaves on its port (TC_ACT_OK) or
\* is dropped.
Recirculates(f) == f.port = RecircPort /\ ~f.out.drop

Recirculate(c) ==
  /\ At(c, "egress", "verdict")
  /\ Recirculates(Top(c))
  /\ backlog' = IF Len(backlog[c]) < BacklogLimit
                THEN [backlog EXCEPT ![c] =
                        Append(@, [Top(c).pkt EXCEPT !.path = "RECIRCULATE",
                                                   !.unlisted = FALSE])]
                ELSE backlog
  /\ Return(c)
  /\ UNCHANGED <<hdr_md, tbl>>

EgressDone(c) ==
  /\ At(c, "egress", "verdict")
  /\ ~Recirculates(Top(c))
  /\ Return(c)
  /\ UNCHANGED <<hdr_md, backlog, tbl>>

-----------------------------------------------------------------------------
(* The control plane (psabpf), through the maps the programs share.  It    *)
(* adds the inner map to the outer one, then initialises it with a head.   *)

SetReplicas(i, r) ==
  /\ tbl' = [tbl EXCEPT ![i] = r]
  /\ UNCHANGED <<stack, hdr_md, backlog>>

CreateReplicas(i) ==
  ~tbl[i].exists /\ SetReplicas(i, [tbl[i] EXCEPT !.exists = TRUE])

InitialiseReplicas(i) ==
  tbl[i].exists /\ ~tbl[i].head /\ SetReplicas(i, [tbl[i] EXCEPT !.head = TRUE])

AddMember(i, e) ==
  /\ tbl[i].exists /\ tbl[i].head
  /\ Len(tbl[i].members) < MaxMembers
  /\ \A k \in DOMAIN tbl[i].members :
       \/ tbl[i].members[k].egress_port # e.egress_port
       \/ tbl[i].members[k].instance # e.instance
  /\ SetReplicas(i, [tbl[i] EXCEPT !.members = Append(@, e)])

DeleteReplicas(i) ==
  /\ tbl[i].exists
  /\ SetReplicas(i, [exists |-> FALSE, head |-> FALSE, members |-> <<>>])

-----------------------------------------------------------------------------

Init ==
  /\ stack = [c \in CPUs |-> <<>>]
  /\ hdr_md = [c \in CPUs |-> [k \in {0, 1} |-> NoHdr]]
  /\ backlog = [c \in CPUs |-> <<>>]
  /\ tbl = [i \in Sessions \cup Groups |->
              [exists |-> FALSE, head |-> FALSE, members |-> <<>>]]

\* A run goes on by itself once its packet has arrived.
Run(c) ==
  \/ DoClone(c) \/ ClonesDone(c)
  \/ TcIngress(c) \/ IngressProcess(c) \/ IngressReject(c)
  \/ IngressPreDeparser(c) \/ IngressDrop(c) \/ IngressResubmit(c)
  \/ IngressDeparser(c) \/ IngressDeparserFails(c)
  \/ Multicast(c) \/ MulticastDone(c) \/ Unicast(c)
  \/ EgressProcess(c) \/ EgressReject(c) \/ EgressDeparser(c)
  \/ EgressDeparserFails(c) \/ EgressClone(c) \/ Recirculate(c) \/ EgressDone(c)

Arrive(c) ==
  \/ \E p \in Ports \ {RecircPort}, t \in EtherTypes : XdpHelper(c, p, t)
  \/ TakeRecirculated(c)

ControlPlane ==
  \E i \in Sessions \cup Groups :
    \/ CreateReplicas(i) \/ InitialiseReplicas(i) \/ DeleteReplicas(i)
    \/ \E e \in Members : AddMember(i, e)

Next == (\E c \in CPUs : Run(c) \/ Arrive(c)) \/ ControlPlane

Spec == Init /\ [][Next]_vars

\* A softirq runs to its end.
FairSpec == Spec /\ \A c \in CPUs : WF_vars(Run(c))

-----------------------------------------------------------------------------
(* Safety.                                                                 *)

\* The frames of CPU c, from the one that interrupted nothing up.
Frames(c) == {stack[c][i] : i \in 1 .. Len(stack[c])}

\* A run is about to parse its packet.
Parses(f) == f.pc = IF f.prog = "ingress" THEN "process" ELSE "tc"

\* Whatever the XDP helper, the restoring code, the parsers and the deparsers on
\* the way did to it, a program parses the EtherType the packet really has: the
\* one received on the wire (ebpfPipeline.cpp:446, "workaround to make TC
\* protocol-independent") or the one the last deparser meant to write.
ParserSeesTrueType ==
  \A c \in CPUs : \A f \in Frames(c) : Parses(f) => f.pkt.type = f.pkt.wire

\* From its control block to its deparser a run still has its own headers in the
\* hdr_md_cpumap slot, although the egress runs of the copies it makes in between
\* use the same per-CPU map.
NeedsHeaders(f) ==
  \/ f.prog = "ingress" /\ f.pc \in {"predeparser", "verdict"}
  \/ f.prog = "ingress" /\ f.pc = "clone" /\ f.resume = "verdict"
  \/ f.prog = "egress" /\ f.pc = "deparser"
Slot(f) == IF f.prog = "ingress" THEN 0 ELSE 1

HeadersIntact ==
  \A c \in CPUs : \A f \in Frames(c) : NeedsHeaders(f) => hdr_md[c][Slot(f)] = f.hdr

\* packet_path in skb->cb tells the parser what brought the packet there
\* (psa.h:32-38); normal unicast is apart, see UnicastPath.
PathTellsCause ==
  \A c \in CPUs : \A f \in Frames(c) :
    Parses(f) /\ f.cause # "NORMAL_UNICAST" => f.pkt.path = f.cause

\* A unicast packet never reaches egress under the path of a copy, although
\* do_packet_clones() puts that path into its cb, as long as the member list of
\* its clone session had been initialised.
UnicastPath ==
  \A c \in CPUs : \A f \in Frames(c) :
    Parses(f) /\ f.cause = "NORMAL_UNICAST" /\ ~f.pkt.unlisted
      => f.pkt.path \in {"NORMAL", "RESUBMIT", "RECIRCULATE"}

\* Ingress-to-egress copies and resubmitted packets are the packet as received,
\* multicast and egress-to-egress copies the packet as deparsed.
CopiesCarryRightBytes ==
  \A c \in CPUs : \A f \in Frames(c) :
    /\ f.prog = "ingress" /\ (Parses(f) \/ NeedsHeaders(f)) => f.pkt.wire = f.rx
    /\ f.pc = "clone" /\ ~NeedsHeaders(f) /\ ~(f.prog = "ingress" /\ f.out.resubmit)
         => f.pkt.wire = f.hdr

-----------------------------------------------------------------------------
(* Liveness.                                                               *)

\* Every run ends: neither resubmission nor the copies of copies keep a CPU in
\* the data plane for ever.
RunsEnd == \A c \in CPUs : Busy(c) ~> ~Busy(c)

\* How many steps of its own run f has left at most: of each pass through the resubmit
\* loop, of its traffic manager, and of the egress run that a unicast packet becomes.
StepsLeft(f) ==
  LET copying == Len(f.todo) + 1
      passes  == MaxMembers + 6 + (MaxResubmitDepth - f.pass) * (MaxMembers + 4)
  IN CASE f.prog = "egress" ->
            (CASE f.pc = "tc"       -> MaxMembers + 5
               [] f.pc = "deparser" -> MaxMembers + 4
               [] f.pc = "tm"       -> MaxMembers + 3
               [] f.pc = "clone"    -> copying + 1
               [] f.pc = "verdict"  -> 1)
       [] f.prog = "ingress" ->
            (CASE f.pc \in {"tc", "verdict"} -> passes + 1
               [] f.pc = "process"     -> passes
               [] f.pc = "predeparser" -> passes + MaxMembers + 3
               [] f.pc = "clone"       -> copying + (IF f.resume = "verdict" THEN passes + 1 ELSE 1)
               [] f.pc = "tm"          -> MaxMembers + 6
               [] f.pc = "shot"        -> 1)

\* Of the runs on a CPU the lowest one that a step changes has fewer steps left or is
\* gone, and there are never more runs than the kernel nests.
Shorter(new, old) ==
  /\ Len(new) <= XmitLimit
  /\ \E i \in 1 .. Len(old) :
       /\ \A j \in 1 .. i - 1 : j <= Len(new) /\ new[j] = old[j]
       /\ i <= Len(new) => StepsLeft(new[i]) \in 0 .. StepsLeft(old[i]) - 1

\* Every step of a softirq brings it nearer to its end, whatever other CPUs and the
\* control plane do: the verifier's bound on the resubmit loop, the bound on the member
\* list and the kernel's on nesting (ebpfPipeline.cpp:279, ebpfPsaGen.cpp:180) leave no
\* way to go on for ever.
RunsShorten ==
  [][\A c \in CPUs : Busy(c) /\ stack'[c] # stack[c] => Shorter(stack'[c], stack[c])]_vars

-----------------------------------------------------------------------------
(* What comments of the sources say of the data plane and it does not do.  *)

\* psa.h:33, "Normal packet received by egress which is unicast" has path
\* NORMAL_UNICAST.
UnicastIsNormalUnicast ==
  \A c \in CPUs : \A f \in Frames(c) :
    Parses(f) /\ f.cause = "NORMAL_UNICAST" => f.pkt.path = "NORMAL_UNICAST"

\* psa.h:35, CLONE_I2E is a "Packet created via a clone operation in ingress".
CloneI2EIsClone ==
  \A c \in CPUs : \A f \in Frames(c) :
    Parses(f) /\ f.pkt.path = "CLONE_I2E" => f.cause = "CLONE_I2E"

\* psa.h:71-79, the output metadata have their initial values "when the Ingress
\* control block begins executing".
OutMdInitialised ==
  \A c \in CPUs : \A f \in Frames(c) :
    f.prog = "ingress" /\ f.pc = "process"
      => /\ f.out.multicast_group = NoGroup /\ f.out.class_of_service = 0
         /\ ~f.out.clone /\ f.out.drop

\* psa.h:95-97, "instance comes from the PacketReplicationEngine".
InstanceFromReplication ==
  \A c \in CPUs : \A f \in Frames(c) :
    f.prog = "egress" /\ f.pc = "tc" => f.pkt.instance = f.meant.instance

\* psa/README.md:51, MAX_RESUBMIT_DEPTH is the "maximum number of resubmit
\* operations": a run is refused one only after that many.
ResubmitsGranted ==
  \A c \in CPUs : \A f \in Frames(c) :
    f.prog = "ingress" /\ f.pc = "tm" /\ f.out.resubmit => f.pass - 1 = MaxResubmitDepth

\* psa/README.md:104, skb->priority is set "based on the PSA class_of_service
\* metadata", on copies as on unicast packets.
PriorityIsClassOfService ==
  \A c \in CPUs : \A f \in Frames(c) :
    f.prog = "egress" /\ f.pc = "tc" => f.pkt.priority = f.meant.class_of_service

=============================================================================
