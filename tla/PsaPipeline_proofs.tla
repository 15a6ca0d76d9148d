------------------------ MODULE PsaPipeline_proofs ------------------------
(***************************************************************************)
(* Proofs about PsaPipeline.                                               *)
(***************************************************************************)
EXTENDS PsaPipeline, WellFoundedInduction, TLAPS

-----------------------------------------------------------------------------
(* The inductive invariant.                                                *)

\* A run whose packet still is what the run received.
Undeparsed(f) == f.prog = "ingress" /\ (f.pc \in {"tc", "process"} \/ NeedsHeaders(f))

\* The EtherType in the packet is the true one, or the XDP helper's substitute
\* for the one in data_meta that the ingress program is about to put back.
TrueType(f) ==
  IF f.prog = "ingress" /\ f.pc = "tc" /\ f.pkt.path = "NORMAL" /\ f.pkt.md # NoMeta
  THEN f.pkt.wire = f.pkt.md
  ELSE f.pkt.type = f.pkt.wire

OriginalPaths == {"NORMAL", "RESUBMIT", "RECIRCULATE"}
CopyPaths     == {"NORMAL_MULTICAST", "CLONE_I2E", "CLONE_E2E"}

\* Run f, i-th of the n runs on a CPU whose hdr_md_cpumap slots hold h.
RunInv(f, i, n, h) ==
  /\ f.prog = "ingress" => i = 1
  /\ i < n => f.pc = "clone"
  /\ f.pc \in IF f.prog = "ingress" THEN IngressPcs ELSE EgressPcs
  /\ NeedsHeaders(f) => h[Slot(f)] = f.hdr
  /\ f.prog = "ingress" /\ f.pc \in {"tc", "process"} => f.pass < MaxResubmitDepth
  /\ TrueType(f)
  /\ f.pc = "tc" \/ Parses(f) => f.cause = "NORMAL_UNICAST" \/ f.pkt.path = f.cause
  /\ f.prog = "ingress" /\ ~f.pkt.unlisted
       => (IF f.pc = "clone" THEN f.saved ELSE f.pkt.path) \in OriginalPaths
  /\ f.prog = "egress" /\ f.pc = "clone" => f.resume = "verdict"
  /\ f.pc = "clone" => f.pkt.path = CopyCause(f)
  /\ f.prog = "ingress" => f.cause # "NORMAL_UNICAST"
  /\ f.prog = "egress" /\ f.pc = "tc" /\ f.cause = "NORMAL_UNICAST" /\ ~f.pkt.unlisted
       => f.pkt.path \in OriginalPaths
  /\ Undeparsed(f) => f.pkt.wire = f.rx
  /\ f.prog = "ingress" /\ f.pc = "tm" /\ ~f.out.resubmit => f.pkt.wire = f.hdr
  /\ f.prog = "egress" /\ f.pc \in {"tm", "clone"} => f.pkt.wire = f.hdr
  /\ f.pc = "clone" /\ ~NeedsHeaders(f) /\ ~(f.prog = "ingress" /\ f.out.resubmit)
       => f.pkt.wire = f.hdr

\* A packet in an input queue.
QueuedInv(p) == p.path = "RECIRCULATE" /\ p.type = p.wire /\ ~p.unlisted

IInv ==
  /\ TypeOK
  /\ \A c \in CPUs : \A i \in 1 .. Len(stack[c]) :
       RunInv(stack[c][i], i, Len(stack[c]), hdr_md[c])
  /\ \A c \in CPUs : \A k \in 1 .. Len(backlog[c]) : QueuedInv(backlog[c][k])

-----------------------------------------------------------------------------
(* The stack operations.                                                   *)

LEMMA TopType ==
  ASSUME TypeOK, NEW c \in CPUs, Busy(c)
  PROVE  /\ Len(stack[c]) \in Nat /\ Len(stack[c]) >= 1
         /\ Top(c) \in Frame
         /\ stack[c] \in Seq(Frame)
  BY DEF TypeOK, Busy, Top

LEMMA ContinueStack ==
  ASSUME TypeOK, NEW c \in CPUs, Busy(c), NEW f \in Frame, Continue(c, f)
  PROVE  /\ stack' \in [CPUs -> Seq(Frame)]
         /\ \A d \in CPUs \ {c} : stack'[d] = stack[d]
         /\ Len(stack'[c]) = Len(stack[c])
         /\ stack'[c][Len(stack[c])] = f
         /\ \A i \in 1 .. Len(stack[c]) - 1 : stack'[c][i] = stack[c][i]
<1>1. stack[c] \in Seq(Frame) /\ Len(stack[c]) \in Nat /\ Len(stack[c]) >= 1
  BY TopType
<1> DEFINE s == [stack[c] EXCEPT ![Len(stack[c])] = f]
<1>2. s \in Seq(Frame) /\ Len(s) = Len(stack[c])
  BY <1>1
<1>3. stack' = [stack EXCEPT ![c] = s]
  BY DEF Continue
<1>4. stack'[c] = s /\ \A d \in CPUs \ {c} : stack'[d] = stack[d]
  BY <1>3 DEF TypeOK
<1>5. s[Len(stack[c])] = f /\ \A i \in 1 .. Len(stack[c]) - 1 : s[i] = stack[c][i]
  BY <1>1
<1>6. stack' \in [CPUs -> Seq(Frame)]
  BY <1>2, <1>3 DEF TypeOK
<1> QED BY <1>2, <1>4, <1>5, <1>6

LEMMA ReturnStack ==
  ASSUME TypeOK, NEW c \in CPUs, Busy(c), Return(c)
  PROVE  /\ stack' \in [CPUs -> Seq(Frame)]
         /\ \A d \in CPUs \ {c} : stack'[d] = stack[d]
         /\ Len(stack'[c]) = Len(stack[c]) - 1
         /\ \A i \in 1 .. Len(stack[c]) - 1 : stack'[c][i] = stack[c][i]
<1>1. stack[c] \in Seq(Frame) /\ Len(stack[c]) \in Nat /\ Len(stack[c]) >= 1
  BY TopType
<1> DEFINE s == SubSeq(stack[c], 1, Len(stack[c]) - 1)
<1>2. /\ s \in Seq(Frame) /\ Len(s) = Len(stack[c]) - 1
      /\ \A i \in 1 .. Len(stack[c]) - 1 : s[i] = stack[c][i]
  BY <1>1
<1>3. stack' = [stack EXCEPT ![c] = s]
  BY DEF Return
<1>4. stack'[c] = s /\ \A d \in CPUs \ {c} : stack'[d] = stack[d]
  BY <1>3 DEF TypeOK
<1>5. stack' \in [CPUs -> Seq(Frame)]
  BY <1>2, <1>3 DEF TypeOK
<1> QED BY <1>2, <1>4, <1>5

LEMMA CallStack ==
  ASSUME TypeOK, NEW c \in CPUs, Busy(c), NEW f \in Frame, NEW g \in Frame,
         Call(c, f, g)
  PROVE  /\ stack' \in [CPUs -> Seq(Frame)]
         /\ \A d \in CPUs \ {c} : stack'[d] = stack[d]
         /\ Len(stack'[c]) = Len(stack[c]) + 1
         /\ stack'[c][Len(stack[c]) + 1] = g
         /\ stack'[c][Len(stack[c])] = f
         /\ \A i \in 1 .. Len(stack[c]) - 1 : stack'[c][i] = stack[c][i]
<1>1. stack[c] \in Seq(Frame) /\ Len(stack[c]) \in Nat /\ Len(stack[c]) >= 1
  BY TopType
<1> DEFINE s == [stack[c] EXCEPT ![Len(stack[c])] = f]
           t == Append(s, g)
<1>2. s \in Seq(Frame) /\ Len(s) = Len(stack[c])
  BY <1>1
<1>3. s[Len(stack[c])] = f /\ \A i \in 1 .. Len(stack[c]) - 1 : s[i] = stack[c][i]
  BY <1>1
<1>4. /\ t \in Seq(Frame) /\ Len(t) = Len(stack[c]) + 1
      /\ t[Len(stack[c]) + 1] = g
      /\ \A i \in 1 .. Len(stack[c]) : t[i] = s[i]
  <2> HIDE DEF s
  <2> QED BY <1>1, <1>2
<1>5. stack' = [stack EXCEPT ![c] = t]
  BY DEF Call
<1> HIDE DEF s, t
<1>6. stack'[c] = t /\ \A d \in CPUs \ {c} : stack'[d] = stack[d]
  BY <1>5 DEF TypeOK
<1>7. stack' \in [CPUs -> Seq(Frame)]
  BY <1>4, <1>5 DEF TypeOK
<1>8. t[Len(stack[c])] = f /\ \A i \in 1 .. Len(stack[c]) - 1 : t[i] = stack[c][i]
  BY <1>1, <1>3, <1>4
<1> QED BY <1>4, <1>6, <1>7, <1>8

-----------------------------------------------------------------------------
(* One step of a run, given what it makes of the run on top.               *)

LEMMA TopInv ==
  ASSUME IInv, NEW c \in CPUs, Busy(c)
  PROVE  /\ RunInv(Top(c), Len(stack[c]), Len(stack[c]), hdr_md[c])
         /\ \A i \in 1 .. Len(stack[c]) - 1 :
              RunInv(stack[c][i], i, Len(stack[c]), hdr_md[c])
  BY TopType DEF IInv, Top

LEMMA ContinueInv ==
  ASSUME IInv, NEW c \in CPUs, Busy(c), NEW f \in Frame, Continue(c, f),
         RunInv(f, Len(stack[c]), Len(stack[c]), hdr_md'[c]),
         \A i \in 1 .. Len(stack[c]) - 1 :
           RunInv(stack[c][i], i, Len(stack[c]), hdr_md'[c]),
         hdr_md' \in [CPUs -> [{0, 1} -> EtherTypes \cup {NoHdr}]],
         \A d \in CPUs \ {c} : hdr_md'[d] = hdr_md[d],
         UNCHANGED <<backlog, tbl>>
  PROVE  IInv'
<1>1. /\ Len(stack[c]) \in Nat /\ Len(stack[c]) >= 1
      /\ TypeOK
  BY TopType DEF IInv
<1>2. /\ stack' \in [CPUs -> Seq(Frame)]
      /\ \A d \in CPUs \ {c} : stack'[d] = stack[d]
      /\ Len(stack'[c]) = Len(stack[c])
      /\ stack'[c][Len(stack[c])] = f
      /\ \A i \in 1 .. Len(stack[c]) - 1 : stack'[c][i] = stack[c][i]
  BY <1>1, ContinueStack
<1>3. TypeOK'
  BY <1>1, <1>2 DEF TypeOK
<1>4. ASSUME NEW d \in CPUs, NEW i \in 1 .. Len(stack'[d])
      PROVE  RunInv(stack'[d][i], i, Len(stack'[d]), hdr_md'[d])
  <2>1. CASE d # c
    BY <1>2, <2>1 DEF IInv
  <2>2. CASE d = c /\ i = Len(stack[c])
    BY <1>2, <2>2
  <2>3. CASE d = c /\ i # Len(stack[c])
    <3>1. i \in 1 .. Len(stack[c]) - 1
      BY <1>1, <1>2, <2>3
    <3> QED BY <1>2, <2>3, <3>1
  <2> QED BY <2>1, <2>2, <2>3
<1>5. \A d \in CPUs : \A k \in 1 .. Len(backlog'[d]) : QueuedInv(backlog'[d][k])
  BY DEF IInv
<1> QED BY <1>3, <1>4, <1>5 DEF IInv

LEMMA ReturnInv ==
  ASSUME IInv, NEW c \in CPUs, Busy(c), Return(c),
         \A i \in 1 .. Len(stack[c]) - 1 :
           RunInv(stack[c][i], i, Len(stack[c]), hdr_md'[c]),
         hdr_md' \in [CPUs -> [{0, 1} -> EtherTypes \cup {NoHdr}]],
         \A d \in CPUs \ {c} : hdr_md'[d] = hdr_md[d],
         backlog' \in [CPUs -> Seq(Packet)],
         \A d \in CPUs : \A k \in 1 .. Len(backlog'[d]) : QueuedInv(backlog'[d][k]),
         UNCHANGED tbl
  PROVE  IInv'
<1>1. /\ Len(stack[c]) \in Nat /\ Len(stack[c]) >= 1
      /\ TypeOK
  BY TopType DEF IInv
<1>2. /\ stack' \in [CPUs -> Seq(Frame)]
      /\ \A d \in CPUs \ {c} : stack'[d] = stack[d]
      /\ Len(stack'[c]) = Len(stack[c]) - 1
      /\ \A i \in 1 .. Len(stack[c]) - 1 : stack'[c][i] = stack[c][i]
  BY <1>1, ReturnStack
<1>3. TypeOK'
  BY <1>1, <1>2 DEF TypeOK
<1>4. ASSUME NEW d \in CPUs, NEW i \in 1 .. Len(stack'[d])
      PROVE  RunInv(stack'[d][i], i, Len(stack'[d]), hdr_md'[d])
  <2>1. CASE d # c
    BY <1>2, <2>1 DEF IInv
  <2>2. CASE d = c
    <3>1. i \in 1 .. Len(stack[c]) - 1 /\ i \in Nat
      BY <1>1, <1>2, <2>2
    <3>2. RunInv(stack[c][i], i, Len(stack[c]), hdr_md'[c])
      BY <3>1
    <3>3. RunInv(stack[c][i], i, Len(stack[c]) - 1, hdr_md'[c])
      BY <1>1, <3>1, <3>2 DEF RunInv
    <3> QED BY <1>2, <2>2, <3>1, <3>3
  <2> QED BY <2>1, <2>2
<1> QED BY <1>3, <1>4 DEF IInv

LEMMA CallInv ==
  ASSUME IInv, NEW c \in CPUs, Busy(c), NEW f \in Frame, NEW g \in Frame,
         Call(c, f, g),
         RunInv(f, Len(stack[c]), Len(stack[c]) + 1, hdr_md[c]),
         RunInv(g, Len(stack[c]) + 1, Len(stack[c]) + 1, hdr_md[c]),
         UNCHANGED <<hdr_md, backlog, tbl>>
  PROVE  IInv'
<1>1. /\ Len(stack[c]) \in Nat /\ Len(stack[c]) >= 1
      /\ TypeOK
  BY TopType DEF IInv
<1>2. /\ stack' \in [CPUs -> Seq(Frame)]
      /\ \A d \in CPUs \ {c} : stack'[d] = stack[d]
      /\ Len(stack'[c]) = Len(stack[c]) + 1
      /\ stack'[c][Len(stack[c]) + 1] = g
      /\ stack'[c][Len(stack[c])] = f
      /\ \A i \in 1 .. Len(stack[c]) - 1 : stack'[c][i] = stack[c][i]
  BY <1>1, CallStack
<1>3. TypeOK'
  BY <1>1, <1>2 DEF TypeOK
<1>4. ASSUME NEW d \in CPUs, NEW i \in 1 .. Len(stack'[d])
      PROVE  RunInv(stack'[d][i], i, Len(stack'[d]), hdr_md'[d])
  <2>1. CASE d # c
    BY <1>2, <2>1 DEF IInv
  <2>2. CASE d = c /\ i >= Len(stack[c])
    BY <1>1, <1>2, <2>2
  <2>3. CASE d = c /\ i < Len(stack[c])
    <3>1. i \in 1 .. Len(stack[c]) - 1 /\ i \in Nat
      BY <1>1, <1>2, <2>3
    <3>2. RunInv(stack[c][i], i, Len(stack[c]), hdr_md[c])
      BY <3>1, TopInv
    <3>3. RunInv(stack[c][i], i, Len(stack[c]) + 1, hdr_md[c])
      BY <1>1, <2>3, <3>1, <3>2 DEF RunInv
    <3> QED BY <1>2, <2>3, <3>1, <3>3
  <2> QED BY <1>1, <1>2, <2>1, <2>2, <2>3
<1>5. \A d \in CPUs : \A k \in 1 .. Len(backlog'[d]) : QueuedInv(backlog'[d][k])
  BY DEF IInv
<1> QED BY <1>3, <1>4, <1>5 DEF IInv

\* Steps that leave hdr_md alone.
LEMMA StepInv ==
  ASSUME IInv, NEW c \in CPUs, Busy(c), NEW f \in Frame, Continue(c, f),
         RunInv(f, Len(stack[c]), Len(stack[c]), hdr_md[c]),
         UNCHANGED <<hdr_md, backlog, tbl>>
  PROVE  IInv'
<1>1. /\ hdr_md' \in [CPUs -> [{0, 1} -> EtherTypes \cup {NoHdr}]]
      /\ \A d \in CPUs \ {c} : hdr_md'[d] = hdr_md[d]
  BY DEF IInv, TypeOK
<1>2. \A i \in 1 .. Len(stack[c]) - 1 :
        RunInv(stack[c][i], i, Len(stack[c]), hdr_md'[c])
  BY TopInv
<1> QED BY <1>1, <1>2, ContinueInv

LEMMA EndInv ==
  ASSUME IInv, NEW c \in CPUs, Busy(c), Return(c),
         UNCHANGED <<hdr_md, backlog, tbl>>
  PROVE  IInv'
<1>1. /\ hdr_md' \in [CPUs -> [{0, 1} -> EtherTypes \cup {NoHdr}]]
      /\ \A d \in CPUs \ {c} : hdr_md'[d] = hdr_md[d]
      /\ backlog' \in [CPUs -> Seq(Packet)]
      /\ \A d \in CPUs : \A k \in 1 .. Len(backlog'[d]) : QueuedInv(backlog'[d][k])
  BY DEF IInv, TypeOK
<1>2. \A i \in 1 .. Len(stack[c]) - 1 :
        RunInv(stack[c][i], i, Len(stack[c]), hdr_md'[c])
  BY TopInv
<1> QED BY <1>1, <1>2, ReturnInv

-----------------------------------------------------------------------------
(* The replication engine.                                                 *)

LEMMA DoPacketClonesInv ==
  ASSUME IInv, NEW c \in CPUs, Busy(c), NEW f \in Frame,
         NEW id \in Sessions \cup Groups, NEW path \in CopyPaths,
         NEW resume \in {"verdict", "shot"},
         UNCHANGED <<hdr_md, backlog, tbl>>,
         DoPacketClones(c, f, id, path, resume),
         path = CopyCause([f EXCEPT !.resume = resume]),
         RunInv(f, Len(stack[c]), Len(stack[c]), hdr_md[c]),
         f.prog = "egress" => resume = "verdict" /\ f.pc = "tm",
         f.prog = "ingress" => f.pc = IF resume = "verdict" THEN "predeparser" ELSE "tm"
  PROVE  IInv'
<1> DEFINE n == Len(stack[c])
           r == tbl[id]
           marked == [f EXCEPT !.pkt.path = path]
           absent == [f EXCEPT !.pc = resume]
           headless == [marked EXCEPT !.pc = resume, !.pkt.unlisted = TRUE]
           cloning == [marked EXCEPT !.pc = "clone", !.resume = resume,
                         !.saved = f.pkt.path, !.todo = r.members]
<1>1. r \in Replicas /\ r.members \in Seq(Entry)
  BY DEF IInv, TypeOK, Replicas
<1>2. absent \in Frame /\ headless \in Frame /\ cloning \in Frame
  <2>1. path \in Paths
    BY DEF CopyPaths, Paths
  <2> HIDE DEF r
  <2> QED BY <1>1, <2>1 DEF Frame, Packet, IngressPcs, EgressPcs
<1>3. n \in Nat
  BY TopType DEF IInv
<1>4. RunInv(absent, n, n, hdr_md[c])
  BY <1>3 DEF RunInv, NeedsHeaders, Slot, TrueType, Parses, Undeparsed, Frame,
              Packet, IngressPcs, EgressPcs
<1>5. RunInv(headless, n, n, hdr_md[c])
  BY <1>3 DEF RunInv, NeedsHeaders, Slot, TrueType, Parses, Undeparsed, Frame,
              Packet, IngressPcs, EgressPcs
<1>6. RunInv(cloning, n, n, hdr_md[c])
  <2>1. /\ cloning \in Frame /\ cloning.pkt.path = path
        /\ cloning.prog = f.prog /\ cloning.resume = resume
    BY <1>2 DEF Frame, Packet
  <2>2. CopyCause(cloning) = CopyCause([f EXCEPT !.resume = resume])
    BY <2>1 DEF CopyCause, Frame
  <2>3. cloning.pkt.path = CopyCause(cloning)
    BY <2>1, <2>2
  <2> QED BY <1>3, <2>3
          DEF RunInv, NeedsHeaders, Slot, TrueType, Parses, Undeparsed, Frame,
              Packet, IngressPcs, EgressPcs
<1>7. Continue(c, absent) \/ Continue(c, headless) \/ Continue(c, cloning)
  BY DEF DoPacketClones
<1> HIDE DEF n, absent, headless, cloning
<1>8. CASE Continue(c, absent)   BY <1>2, <1>4, <1>8, StepInv DEF n
<1>9. CASE Continue(c, headless) BY <1>2, <1>5, <1>9, StepInv DEF n
<1>10. CASE Continue(c, cloning) BY <1>2, <1>6, <1>10, StepInv DEF n
<1> QED BY <1>7, <1>8, <1>9, <1>10

LEMMA DoCloneInv ==
  ASSUME IInv, NEW c \in CPUs, DoClone(c)
  PROVE  IInv'
<1> DEFINE n == Len(stack[c])
           t == Top(c)
           e == Head(t.todo)
           f == [t EXCEPT !.todo = Tail(@)]
           meant == [instance |-> e.instance, class_of_service |-> e.class_of_service]
           g == NewRun("egress", e.egress_port, f.pkt, CopyCause(f), meant)
<1>1. Busy(c) /\ t.pc = "clone" /\ t.todo # <<>> /\ UNCHANGED <<hdr_md, backlog, tbl>>
  BY DEF DoClone
<1>2. n \in Nat /\ n >= 1 /\ t \in Frame /\ RunInv(t, n, n, hdr_md[c])
  BY <1>1, TopType, TopInv DEF IInv
<1>3. t.todo \in Seq(Entry) /\ e \in Entry /\ Tail(t.todo) \in Seq(Entry)
  <2>1. t.todo \in Seq(Entry)
    BY <1>2 DEF Frame
  <2> HIDE DEF t
  <2> QED BY <1>1, <2>1
<1>4. f \in Frame /\ f.pkt = t.pkt /\ f.pkt \in Packet /\ f.pkt.path \in Paths
  <2> HIDE DEF t
  <2> QED BY <1>2, <1>3 DEF Frame, Packet
<1>5. g \in Frame
  <2> HIDE DEF f, t
  <2>1. InitialOutMd("egress") \in OutMd
    BY ConstantsAssumption DEF InitialOutMd, OutMd
  <2>2. meant \in [instance : Instances, class_of_service : Classes]
    BY <1>3 DEF Entry
  <2>3. CopyCause(f) \in Paths
    BY DEF CopyCause, Paths
  <2> QED BY <1>3, <1>4, <2>1, <2>2, <2>3, ConstantsAssumption
          DEF NewRun, Frame, Packet, Entry, IngressPcs, EgressPcs
<1>6. RunInv(f, n, n, hdr_md[c]) /\ RunInv(f, n, n + 1, hdr_md[c])
  <2> HIDE DEF t
  <2> QED BY <1>1, <1>2 DEF RunInv, CopyCause, NeedsHeaders, Slot, TrueType, Parses,
                             Undeparsed, Frame, Packet, IngressPcs, EgressPcs
<1>7. RunInv(g, n + 1, n + 1, hdr_md[c])
  <2>1. f.pkt.type = f.pkt.wire
    BY <1>1, <1>2, <1>4 DEF RunInv, TrueType
  <2>2. g.prog = "egress" /\ g.pc = "tc" /\ g.pkt = f.pkt /\ g.cause = CopyCause(f)
    BY DEF NewRun
  <2>4. CopyCause(f) = CopyCause(t) /\ CopyCause(t) = t.pkt.path
    <3>1. t.pkt.path = CopyCause(t)
      BY <1>1, <1>2 DEF RunInv
    <3>2. f.prog = t.prog /\ f.resume = t.resume
      BY <1>2 DEF Frame
    <3> QED BY <3>1, <3>2 DEF CopyCause
  <2>5. g.cause = g.pkt.path
    BY <1>4, <2>2, <2>4
  <2>3. g.cause # "NORMAL_UNICAST"
    BY <2>2 DEF CopyCause
  <2> HIDE DEF g
  <2> QED BY <1>2, <2>1, <2>2, <2>3, <2>5
          DEF RunInv, NeedsHeaders, Slot, TrueType, Parses, Undeparsed, EgressPcs
<1>8. Continue(c, f) \/ Call(c, f, g)
  BY DEF DoClone
<1> HIDE DEF f, g, n, t
<1>9. CASE Continue(c, f)  BY <1>1, <1>4, <1>6, <1>9, StepInv DEF n
<1>10. CASE Call(c, f, g)  BY <1>1, <1>4, <1>5, <1>6, <1>7, <1>10, CallInv DEF n
<1> QED BY <1>8, <1>9, <1>10

LEMMA ClonesDoneInv ==
  ASSUME IInv, NEW c \in CPUs, ClonesDone(c)
  PROVE  IInv'
<1> DEFINE n == Len(stack[c])
           t == Top(c)
           f == [t EXCEPT !.pc = t.resume, !.pkt.path = t.saved]
<1>1. Busy(c) /\ t.pc = "clone" /\ Continue(c, f) /\ UNCHANGED <<hdr_md, backlog, tbl>>
  BY DEF ClonesDone
<1>2. n \in Nat /\ t \in Frame /\ RunInv(t, n, n, hdr_md[c])
  BY <1>1, TopType, TopInv DEF IInv
<1> HIDE DEF t, n
<1>3. f \in Frame
  BY <1>2 DEF Frame, Packet, IngressPcs, EgressPcs
<1>4. RunInv(f, n, n, hdr_md[c])
  BY <1>1, <1>2 DEF RunInv, NeedsHeaders, Slot, TrueType, Parses, Undeparsed, OriginalPaths,
          Frame, Packet, IngressPcs, EgressPcs
<1> QED BY <1>1, <1>3, <1>4, StepInv DEF n

-----------------------------------------------------------------------------
(* The ingress program.                                                    *)

LEMMA TcIngressInv ==
  ASSUME IInv, NEW c \in CPUs, TcIngress(c)
  PROVE  IInv'
<1> DEFINE n == Len(stack[c])
           t == Top(c)
           f == [t EXCEPT !.pc = "process",
                   !.pkt.type = IF t.pkt.path = "NORMAL" /\ t.pkt.md # NoMeta
                                THEN t.pkt.md ELSE @]
<1>1. /\ Busy(c) /\ t.prog = "ingress" /\ t.pc = "tc"
      /\ Continue(c, f) /\ UNCHANGED <<hdr_md, backlog, tbl>>
  BY DEF TcIngress, At
<1>2. n \in Nat /\ t \in Frame /\ RunInv(t, n, n, hdr_md[c])
  BY <1>1, TopType, TopInv DEF IInv
<1> HIDE DEF t, n
<1>3. f \in Frame
  BY <1>2 DEF Frame, Packet, IngressPcs, EgressPcs
<1>4. /\ f.prog = "ingress" /\ f.pc = "process" /\ f.pass = t.pass
      /\ f.cause = t.cause /\ f.rx = t.rx /\ f.pkt.path = t.pkt.path
      /\ f.pkt.wire = t.pkt.wire /\ f.pkt.unlisted = t.pkt.unlisted
      /\ f.pkt.type = IF t.pkt.path = "NORMAL" /\ t.pkt.md # NoMeta
                      THEN t.pkt.md ELSE t.pkt.type
  BY <1>1, <1>2 DEF Frame, Packet
<1>5. f.pkt.type = f.pkt.wire
  BY <1>1, <1>2, <1>4 DEF RunInv, TrueType
<1> HIDE DEF f
<1>6. RunInv(f, n, n, hdr_md[c])
  BY <1>1, <1>2, <1>4, <1>5
     DEF RunInv, NeedsHeaders, TrueType, Parses, Undeparsed, IngressPcs
<1> QED BY <1>1, <1>3, <1>6, StepInv DEF n, f

LEMMA IngressProcessInv ==
  ASSUME IInv, NEW c \in CPUs, IngressProcess(c)
  PROVE  IInv'
<1> DEFINE n == Len(stack[c])
           t == Top(c)
           o == [t.out EXCEPT !.resubmit = FALSE]
<1>1. Busy(c) /\ t.prog = "ingress" /\ t.pc = "process" /\ UNCHANGED <<backlog, tbl>>
  BY DEF IngressProcess, At
<1>2. n \in Nat /\ n >= 1 /\ t \in Frame /\ RunInv(t, n, n, hdr_md[c])
  BY <1>1, TopType, TopInv DEF IInv
<1>3. PICK r \in IngressControl(t.pkt.type, t.pkt.path, o) :
        /\ Continue(c, [t EXCEPT !.pc = "predeparser", !.pass = @ + 1,
                          !.out = r.out, !.hdr = r.type])
        /\ hdr_md' = [hdr_md EXCEPT ![c][0] = r.type]
  BY DEF IngressProcess
<1> DEFINE f == [t EXCEPT !.pc = "predeparser", !.pass = @ + 1,
                   !.out = r.out, !.hdr = r.type]
<1> HIDE DEF t, n
<1>4. r.out \in OutMd /\ r.type \in EtherTypes
  <2>1. t.pkt.type \in EtherTypes /\ t.pkt.path \in Paths /\ o \in OutMd
    BY <1>2 DEF Frame, Packet, OutMd
  <2> QED BY <2>1, ControlAssumption DEF ControlResult
<1>5. f \in Frame
  <2>1. t.pass + 1 \in 0 .. MaxResubmitDepth
    BY <1>1, <1>2, ConstantsAssumption DEF Frame, RunInv
  <2> QED BY <1>2, <1>4, <2>1 DEF Frame, IngressPcs, EgressPcs
<1>6. n = 1
  BY <1>1, <1>2 DEF RunInv
<1>7. /\ hdr_md' \in [CPUs -> [{0, 1} -> EtherTypes \cup {NoHdr}]]
      /\ \A d \in CPUs \ {c} : hdr_md'[d] = hdr_md[d]
      /\ hdr_md'[c][0] = r.type
  BY <1>3, <1>4 DEF IInv, TypeOK
<1>8. RunInv(f, n, n, hdr_md'[c])
  BY <1>1, <1>2, <1>4, <1>7 DEF RunInv, NeedsHeaders, Slot, TrueType, Parses, Undeparsed, OriginalPaths,
          Frame, Packet, IngressPcs, EgressPcs
<1>9. \A i \in 1 .. n - 1 : RunInv(stack[c][i], i, n, hdr_md'[c])
  BY <1>6
<1> QED BY <1>1, <1>3, <1>5, <1>7, <1>8, <1>9, ContinueInv DEF n

LEMMA IngressRejectInv ==
  ASSUME IInv, NEW c \in CPUs, IngressReject(c)
  PROVE  IInv'
<1> DEFINE n == Len(stack[c])
           t == Top(c)
<1>1. /\ Busy(c) /\ t.prog = "ingress" /\ Return(c) /\ UNCHANGED <<backlog, tbl>>
      /\ hdr_md' = [hdr_md EXCEPT ![c][0] = NoHdr]
  BY DEF IngressReject, At
<1>2. n \in Nat /\ n >= 1 /\ RunInv(t, n, n, hdr_md[c])
  BY <1>1, TopType, TopInv DEF IInv
<1>3. n = 1
  BY <1>1, <1>2 DEF RunInv
<1>4. /\ hdr_md' \in [CPUs -> [{0, 1} -> EtherTypes \cup {NoHdr}]]
      /\ \A d \in CPUs \ {c} : hdr_md'[d] = hdr_md[d]
      /\ backlog' \in [CPUs -> Seq(Packet)]
      /\ \A d \in CPUs : \A k \in 1 .. Len(backlog'[d]) : QueuedInv(backlog'[d][k])
  BY <1>1 DEF IInv, TypeOK
<1>5. \A i \in 1 .. n - 1 : RunInv(stack[c][i], i, n, hdr_md'[c])
  BY <1>3
<1> QED BY <1>1, <1>4, <1>5, ReturnInv DEF n

LEMMA IngressPreDeparserInv ==
  ASSUME IInv, NEW c \in CPUs, IngressPreDeparser(c)
  PROVE  IInv'
<1> DEFINE n == Len(stack[c])
           t == Top(c)
           f == [t EXCEPT !.pc = "verdict"]
<1>1. /\ Busy(c) /\ t.prog = "ingress" /\ t.pc = "predeparser"
      /\ UNCHANGED <<hdr_md, backlog, tbl>>
  BY DEF IngressPreDeparser, At
<1>2. n \in Nat /\ t \in Frame /\ RunInv(t, n, n, hdr_md[c])
  BY <1>1, TopType, TopInv DEF IInv
<1>3. t.out.clone_session_id \in Sessions
  BY <1>2 DEF Frame, OutMd
<1>4. CASE DoPacketClones(c, t, t.out.clone_session_id, "CLONE_I2E", "verdict")
  <2> HIDE DEF t
  <2> QED BY <1>1, <1>2, <1>3, <1>4, DoPacketClonesInv DEF CopyPaths, CopyCause, Frame, n
<1>5. CASE Continue(c, f)
  <2> HIDE DEF t, n
  <2>1. f \in Frame
    BY <1>2 DEF Frame, IngressPcs, EgressPcs
  <2>2. RunInv(f, n, n, hdr_md[c])
    BY <1>1, <1>2 DEF RunInv, NeedsHeaders, Slot, TrueType, Parses, Undeparsed, OriginalPaths,
          Frame, Packet, IngressPcs, EgressPcs
  <2> QED BY <1>1, <1>5, <2>1, <2>2, StepInv DEF n
<1> QED BY <1>4, <1>5 DEF IngressPreDeparser

LEMMA IngressResubmitInv ==
  ASSUME IInv, NEW c \in CPUs, IngressResubmit(c)
  PROVE  IInv'
<1> DEFINE n == Len(stack[c])
           t == Top(c)
           u == [t EXCEPT !.pkt.path = "RESUBMIT"]
           f == [u EXCEPT !.pc = "process", !.cause = "RESUBMIT"]
           g == [u EXCEPT !.pc = "tm"]
<1>1. /\ Busy(c) /\ t.prog = "ingress" /\ t.pc = "verdict" /\ t.out.resubmit
      /\ UNCHANGED <<hdr_md, backlog, tbl>>
      /\ Continue(c, IF u.pass < MaxResubmitDepth THEN f ELSE g)
  BY DEF IngressResubmit, At
<1>2. n \in Nat /\ t \in Frame /\ RunInv(t, n, n, hdr_md[c])
  BY <1>1, TopType, TopInv DEF IInv
<1> HIDE DEF t, n
<1>3. f \in Frame /\ g \in Frame
  BY <1>2 DEF Frame, Packet, Paths, IngressPcs, EgressPcs
<1>4. t.pass < MaxResubmitDepth => RunInv(f, n, n, hdr_md[c])
  BY <1>1, <1>2 DEF RunInv, NeedsHeaders, Slot, TrueType, Parses, Undeparsed, OriginalPaths,
          Frame, Packet, IngressPcs, EgressPcs
<1>5. RunInv(g, n, n, hdr_md[c])
  BY <1>1, <1>2 DEF RunInv, NeedsHeaders, Slot, TrueType, Parses, Undeparsed, OriginalPaths,
          Frame, Packet, IngressPcs, EgressPcs
<1>6. u.pass = t.pass
  OBVIOUS
<1> HIDE DEF f, g, u
<1> QED BY <1>1, <1>3, <1>4, <1>5, <1>6, StepInv DEF n

LEMMA IngressDeparserInv ==
  ASSUME IInv, NEW c \in CPUs, IngressDeparser(c)
  PROVE  IInv'
<1> DEFINE n == Len(stack[c])
           t == Top(c)
           f == [t EXCEPT !.pc = "tm", !.pkt.type = hdr_md[c][0], !.pkt.wire = t.hdr]
<1>1. /\ Busy(c) /\ t.prog = "ingress" /\ t.pc = "verdict" /\ ~t.out.resubmit
      /\ UNCHANGED <<hdr_md, backlog, tbl>> /\ Continue(c, f)
  BY DEF IngressDeparser, At
<1>2. n \in Nat /\ t \in Frame /\ RunInv(t, n, n, hdr_md[c])
  BY <1>1, TopType, TopInv DEF IInv
<1> HIDE DEF t, n
<1>3. hdr_md[c][0] = t.hdr /\ t.hdr \in EtherTypes
  BY <1>1, <1>2 DEF RunInv, NeedsHeaders, Slot, Frame
<1>4. f \in Frame
  BY <1>2, <1>3 DEF Frame, Packet, IngressPcs, EgressPcs
<1>5. RunInv(f, n, n, hdr_md[c])
  BY <1>1, <1>2, <1>3 DEF RunInv, NeedsHeaders, Slot, TrueType, Parses, Undeparsed, OriginalPaths,
          Frame, Packet, IngressPcs, EgressPcs
<1> QED BY <1>1, <1>4, <1>5, StepInv DEF n

\* A run that ends without touching its headers.
LEMMA EndsInv ==
  ASSUME IInv, NEW c \in CPUs,
         \/ IngressDrop(c) \/ IngressDeparserFails(c) \/ MulticastDone(c)
         \/ EgressDeparserFails(c) \/ EgressDone(c)
  PROVE  IInv'
<1>1. Busy(c) /\ Return(c) /\ UNCHANGED <<hdr_md, backlog, tbl>>
  BY DEF IngressDrop, IngressDeparserFails, MulticastDone, EgressDeparserFails,
         EgressDone, At
<1> QED BY <1>1, EndInv

LEMMA MulticastInv ==
  ASSUME IInv, NEW c \in CPUs, Multicast(c)
  PROVE  IInv'
<1> DEFINE n == Len(stack[c])
           t == Top(c)
<1>1. /\ Busy(c) /\ t.prog = "ingress" /\ t.pc = "tm"
      /\ t.out.multicast_group # NoGroup
      /\ UNCHANGED <<hdr_md, backlog, tbl>>
      /\ DoPacketClones(c, t, t.out.multicast_group, "NORMAL_MULTICAST", "shot")
  BY DEF Multicast, At
<1>2. n \in Nat /\ t \in Frame /\ RunInv(t, n, n, hdr_md[c])
  BY <1>1, TopType, TopInv DEF IInv
<1>3. t.out.multicast_group \in Groups
  BY <1>1, <1>2 DEF Frame, OutMd
<1> HIDE DEF t
<1> QED BY <1>1, <1>2, <1>3, DoPacketClonesInv DEF CopyPaths, CopyCause, Frame, n

LEMMA NewRunType ==
  ASSUME NEW prog \in {"ingress", "egress"}, NEW port \in Ports, NEW pkt \in Packet,
         NEW cause \in Paths,
         NEW meant \in [instance : Instances, class_of_service : Classes]
  PROVE  NewRun(prog, port, pkt, cause, meant) \in Frame
<1>1. InitialOutMd(prog) \in OutMd
  BY ConstantsAssumption DEF InitialOutMd, OutMd
<1> QED BY <1>1, ConstantsAssumption DEF NewRun, Frame, Packet, IngressPcs, EgressPcs

LEMMA UnicastInv ==
  ASSUME IInv, NEW c \in CPUs, Unicast(c)
  PROVE  IInv'
<1> DEFINE n == Len(stack[c])
           t == Top(c)
           cos == t.out.class_of_service
           pkt == [t.pkt EXCEPT !.priority = cos]
           meant == [instance |-> 0, class_of_service |-> cos]
           g == NewRun("egress", t.out.egress_port, pkt, "NORMAL_UNICAST", meant)
<1>1. /\ Busy(c) /\ t.prog = "ingress" /\ t.pc = "tm"
      /\ UNCHANGED <<hdr_md, backlog, tbl>>
      /\ IF t.out.egress_port \in Ports THEN Continue(c, g) ELSE Return(c)
  BY DEF Unicast, At
<1>2. n \in Nat /\ n >= 1 /\ t \in Frame /\ RunInv(t, n, n, hdr_md[c])
  BY <1>1, TopType, TopInv DEF IInv
<1> HIDE DEF t, n
<1>3. pkt \in Packet /\ meant \in [instance : Instances, class_of_service : Classes]
  BY <1>2, ConstantsAssumption DEF Frame, Packet, OutMd
<1>4. CASE t.out.egress_port \in Ports /\ Continue(c, g)
  <2>1. g \in Frame
    BY <1>3, <1>4, NewRunType DEF Paths
  <2>2. /\ g.prog = "egress" /\ g.pc = "tc" /\ g.cause = "NORMAL_UNICAST"
        /\ g.pkt = pkt /\ pkt.type = t.pkt.type /\ pkt.wire = t.pkt.wire
        /\ pkt.path = t.pkt.path /\ pkt.unlisted = t.pkt.unlisted
    BY <1>2 DEF NewRun, Frame, Packet
  <2>3. pkt.type = pkt.wire /\ (~pkt.unlisted => pkt.path \in OriginalPaths)
    BY <1>1, <1>2, <2>2 DEF RunInv, TrueType
  <2> HIDE DEF g, pkt
  <2>4. RunInv(g, n, n, hdr_md[c])
    BY <1>2, <2>2, <2>3
       DEF RunInv, NeedsHeaders, Slot, TrueType, Parses, Undeparsed, EgressPcs
  <2> QED BY <1>1, <1>4, <2>1, <2>4, StepInv DEF n
<1>5. CASE Return(c)
  BY <1>1, <1>5, EndInv
<1> QED BY <1>1, <1>4, <1>5

-----------------------------------------------------------------------------
(* The egress program.  The runs below it are suspended in                 *)
(* do_packet_clones(); those that still need their headers are ingress     *)
(* runs, whose slot it does not write.                                     *)

LEMMA EgressWritesInv ==
  ASSUME IInv, NEW c \in CPUs, Busy(c), NEW v \in EtherTypes \cup {NoHdr},
         hdr_md' = [hdr_md EXCEPT ![c][1] = v]
  PROVE  /\ hdr_md' \in [CPUs -> [{0, 1} -> EtherTypes \cup {NoHdr}]]
         /\ \A d \in CPUs \ {c} : hdr_md'[d] = hdr_md[d]
         /\ hdr_md'[c][1] = v
         /\ \A i \in 1 .. Len(stack[c]) - 1 :
              RunInv(stack[c][i], i, Len(stack[c]), hdr_md'[c])
<1>1. /\ hdr_md' \in [CPUs -> [{0, 1} -> EtherTypes \cup {NoHdr}]]
      /\ \A d \in CPUs \ {c} : hdr_md'[d] = hdr_md[d]
      /\ hdr_md'[c][1] = v /\ hdr_md'[c][0] = hdr_md[c][0]
  BY DEF IInv, TypeOK
<1>2. ASSUME NEW i \in 1 .. Len(stack[c]) - 1
      PROVE  RunInv(stack[c][i], i, Len(stack[c]), hdr_md'[c])
  <2>1. RunInv(stack[c][i], i, Len(stack[c]), hdr_md[c]) /\ i < Len(stack[c])
    BY TopInv, TopType DEF IInv
  <2> QED BY <1>1, <2>1 DEF RunInv, NeedsHeaders, Slot
<1> QED BY <1>1, <1>2

LEMMA EgressProcessInv ==
  ASSUME IInv, NEW c \in CPUs, EgressProcess(c)
  PROVE  IInv'
<1> DEFINE n == Len(stack[c])
           t == Top(c)
<1>1. Busy(c) /\ t.prog = "egress" /\ t.pc = "tc" /\ UNCHANGED <<backlog, tbl>>
  BY DEF EgressProcess, At
<1>2. n \in Nat /\ n >= 1 /\ t \in Frame /\ RunInv(t, n, n, hdr_md[c])
  BY <1>1, TopType, TopInv DEF IInv
<1>3. PICK r \in EgressControl(t.pkt.type, t.pkt.path, t.out) :
        /\ Continue(c, [t EXCEPT !.pc = "deparser", !.out = r.out, !.hdr = r.type])
        /\ hdr_md' = [hdr_md EXCEPT ![c][1] = r.type]
  BY DEF EgressProcess
<1> DEFINE f == [t EXCEPT !.pc = "deparser", !.out = r.out, !.hdr = r.type]
<1> HIDE DEF t, n
<1>4. r.out \in OutMd /\ r.type \in EtherTypes
  <2>1. t.pkt.type \in EtherTypes /\ t.pkt.path \in Paths /\ t.out \in OutMd
    BY <1>2 DEF Frame, Packet
  <2> QED BY <2>1, ControlAssumption DEF ControlResult
<1>5. f \in Frame
  BY <1>2, <1>4 DEF Frame, IngressPcs, EgressPcs
<1>6. /\ hdr_md' \in [CPUs -> [{0, 1} -> EtherTypes \cup {NoHdr}]]
      /\ \A d \in CPUs \ {c} : hdr_md'[d] = hdr_md[d]
      /\ hdr_md'[c][1] = r.type
      /\ \A i \in 1 .. n - 1 : RunInv(stack[c][i], i, n, hdr_md'[c])
  BY <1>1, <1>3, <1>4, EgressWritesInv DEF n
<1>7. RunInv(f, n, n, hdr_md'[c])
  BY <1>1, <1>2, <1>4, <1>6 DEF RunInv, NeedsHeaders, Slot, TrueType, Parses,
          Undeparsed, OriginalPaths, Frame, Packet, IngressPcs, EgressPcs
<1> QED BY <1>1, <1>3, <1>5, <1>6, <1>7, ContinueInv DEF n

LEMMA EgressRejectInv ==
  ASSUME IInv, NEW c \in CPUs, EgressReject(c)
  PROVE  IInv'
<1>1. /\ Busy(c) /\ Return(c) /\ UNCHANGED <<backlog, tbl>>
      /\ hdr_md' = [hdr_md EXCEPT ![c][1] = NoHdr]
  BY DEF EgressReject, At
<1>2. /\ backlog' \in [CPUs -> Seq(Packet)]
      /\ \A d \in CPUs : \A k \in 1 .. Len(backlog'[d]) : QueuedInv(backlog'[d][k])
  BY <1>1 DEF IInv, TypeOK
<1> QED BY <1>1, <1>2, EgressWritesInv, ReturnInv

LEMMA EgressDeparserInv ==
  ASSUME IInv, NEW c \in CPUs, EgressDeparser(c)
  PROVE  IInv'
<1> DEFINE n == Len(stack[c])
           t == Top(c)
           f == [t EXCEPT !.pc = "tm", !.pkt.type = hdr_md[c][1], !.pkt.wire = t.hdr]
<1>1. /\ Busy(c) /\ t.prog = "egress" /\ t.pc = "deparser"
      /\ UNCHANGED <<hdr_md, backlog, tbl>> /\ Continue(c, f)
  BY DEF EgressDeparser, At
<1>2. n \in Nat /\ t \in Frame /\ RunInv(t, n, n, hdr_md[c])
  BY <1>1, TopType, TopInv DEF IInv
<1> HIDE DEF t, n
<1>3. hdr_md[c][1] = t.hdr /\ t.hdr \in EtherTypes
  BY <1>1, <1>2 DEF RunInv, NeedsHeaders, Slot, Frame
<1>4. f \in Frame
  BY <1>2, <1>3 DEF Frame, Packet, IngressPcs, EgressPcs
<1>5. RunInv(f, n, n, hdr_md[c])
  BY <1>1, <1>2, <1>3 DEF RunInv, NeedsHeaders, Slot, TrueType, Parses, Undeparsed,
          OriginalPaths, Frame, Packet, IngressPcs, EgressPcs
<1> QED BY <1>1, <1>4, <1>5, StepInv DEF n

LEMMA EgressCloneInv ==
  ASSUME IInv, NEW c \in CPUs, EgressClone(c)
  PROVE  IInv'
<1> DEFINE n == Len(stack[c])
           t == Top(c)
           f == [t EXCEPT !.pc = "verdict"]
<1>1. /\ Busy(c) /\ t.prog = "egress" /\ t.pc = "tm"
      /\ UNCHANGED <<hdr_md, backlog, tbl>>
  BY DEF EgressClone, At
<1>2. n \in Nat /\ t \in Frame /\ RunInv(t, n, n, hdr_md[c])
  BY <1>1, TopType, TopInv DEF IInv
<1>3. t.out.clone_session_id \in Sessions
  BY <1>2 DEF Frame, OutMd
<1>4. CASE DoPacketClones(c, t, t.out.clone_session_id, "CLONE_E2E", "verdict")
  <2> HIDE DEF t
  <2> QED BY <1>1, <1>2, <1>3, <1>4, DoPacketClonesInv DEF CopyPaths, CopyCause, Frame, n
<1>5. CASE Continue(c, f)
  <2> HIDE DEF t, n
  <2>1. f \in Frame
    BY <1>2 DEF Frame, IngressPcs, EgressPcs
  <2>2. RunInv(f, n, n, hdr_md[c])
    BY <1>1, <1>2 DEF RunInv, NeedsHeaders, Slot, TrueType, Parses, Undeparsed,
          OriginalPaths, Frame, Packet, IngressPcs, EgressPcs
  <2> QED BY <1>1, <1>5, <2>1, <2>2, StepInv DEF n
<1> QED BY <1>4, <1>5 DEF EgressClone

LEMMA RecirculateInv ==
  ASSUME IInv, NEW c \in CPUs, Recirculate(c)
  PROVE  IInv'
<1> DEFINE n == Len(stack[c])
           t == Top(c)
           p == [t.pkt EXCEPT !.path = "RECIRCULATE", !.unlisted = FALSE]
           b == Append(backlog[c], p)
<1>1. /\ Busy(c) /\ t.prog = "egress" /\ t.pc = "verdict" /\ Return(c)
      /\ UNCHANGED <<hdr_md, tbl>>
      /\ backlog' = backlog \/ backlog' = [backlog EXCEPT ![c] = b]
  BY DEF Recirculate, At
<1>2. n \in Nat /\ t \in Frame /\ RunInv(t, n, n, hdr_md[c])
  BY <1>1, TopType, TopInv DEF IInv
<1>3. p \in Packet /\ QueuedInv(p)
  <2> HIDE DEF t
  <2> QED BY <1>1, <1>2 DEF Frame, Packet, Paths, QueuedInv, RunInv, TrueType
<1>4. backlog[c] \in Seq(Packet) /\ \A k \in 1 .. Len(backlog[c]) : QueuedInv(backlog[c][k])
  BY DEF IInv, TypeOK
<1> HIDE DEF p, t
<1>5. b \in Seq(Packet) /\ \A k \in 1 .. Len(b) : QueuedInv(b[k])
  BY <1>3, <1>4
<1> HIDE DEF b
<1>6. /\ backlog' \in [CPUs -> Seq(Packet)]
      /\ \A d \in CPUs : \A k \in 1 .. Len(backlog'[d]) : QueuedInv(backlog'[d][k])
  BY <1>1, <1>5 DEF IInv, TypeOK
<1>7. /\ hdr_md' \in [CPUs -> [{0, 1} -> EtherTypes \cup {NoHdr}]]
      /\ \A d \in CPUs \ {c} : hdr_md'[d] = hdr_md[d]
      /\ \A i \in 1 .. Len(stack[c]) - 1 :
           RunInv(stack[c][i], i, Len(stack[c]), hdr_md'[c])
  BY <1>1, TopInv DEF IInv, TypeOK
<1> QED BY <1>1, <1>6, <1>7, ReturnInv

-----------------------------------------------------------------------------
(* Arrivals and the control plane.                                         *)

\* A new run on an idle CPU.
LEMMA StartInv ==
  ASSUME IInv, NEW c \in CPUs, ~Busy(c), NEW f \in Frame,
         stack' = [stack EXCEPT ![c] = <<f>>],
         RunInv(f, 1, 1, hdr_md[c]),
         backlog' \in [CPUs -> Seq(Packet)],
         \A d \in CPUs : \A k \in 1 .. Len(backlog'[d]) : QueuedInv(backlog'[d][k]),
         UNCHANGED <<hdr_md, tbl>>
  PROVE  IInv'
<1>1. TypeOK
  BY DEF IInv
<1> DEFINE s == <<f>>
<1>2. s \in Seq(Frame) /\ Len(s) = 1 /\ s[1] = f
  OBVIOUS
<1> HIDE DEF s
<1>3. /\ stack' \in [CPUs -> Seq(Frame)] /\ stack'[c] = s
      /\ \A d \in CPUs \ {c} : stack'[d] = stack[d]
  BY <1>1, <1>2 DEF TypeOK, s
<1>4. TypeOK'
  BY <1>1, <1>3 DEF TypeOK
<1>5. ASSUME NEW d \in CPUs, NEW i \in 1 .. Len(stack'[d])
      PROVE  RunInv(stack'[d][i], i, Len(stack'[d]), hdr_md'[d])
  <2>1. CASE d # c
    BY <1>3, <2>1 DEF IInv
  <2>2. CASE d = c
    <3>1. i = 1
      BY <1>2, <1>3, <2>2
    <3> QED BY <1>2, <1>3, <2>2, <3>1
  <2> QED BY <2>1, <2>2
<1> QED BY <1>4, <1>5 DEF IInv

LEMMA NothingMeantType ==
  NothingMeant \in [instance : Instances, class_of_service : Classes]
  BY ConstantsAssumption DEF NothingMeant

LEMMA XdpHelperInv ==
  ASSUME IInv, NEW c \in CPUs, NEW p \in Ports, NEW y \in EtherTypes, XdpHelper(c, p, y)
  PROVE  IInv'
<1> DEFINE pkt == [path |-> "NORMAL", instance |-> 0, priority |-> 0, wire |-> y,
                   unlisted |-> FALSE,
                   type |-> IF y \in IPTypes THEN y ELSE IPv4,
                   md   |-> IF y \in IPTypes THEN NoMeta ELSE y]
           f == NewRun("ingress", p, pkt, "NORMAL", NothingMeant)
<1>1. /\ ~Busy(c) /\ stack' = [stack EXCEPT ![c] = <<f>>]
      /\ UNCHANGED <<hdr_md, backlog, tbl>>
  BY DEF XdpHelper
<1>2. pkt \in Packet
  BY ConstantsAssumption DEF Packet, Paths
<1>3. f \in Frame
  BY <1>2, NothingMeantType, NewRunType DEF Paths
<1>4. RunInv(f, 1, 1, hdr_md[c])
  BY ConstantsAssumption DEF NewRun, RunInv, NeedsHeaders, Slot, TrueType, Parses,
     Undeparsed, OriginalPaths, IngressPcs
<1>5. /\ backlog' \in [CPUs -> Seq(Packet)]
      /\ \A d \in CPUs : \A k \in 1 .. Len(backlog'[d]) : QueuedInv(backlog'[d][k])
  BY <1>1 DEF IInv, TypeOK
<1> HIDE DEF f
<1> QED BY <1>1, <1>3, <1>4, <1>5, StartInv

LEMMA TakeRecirculatedInv ==
  ASSUME IInv, NEW c \in CPUs, TakeRecirculated(c)
  PROVE  IInv'
<1> DEFINE q == backlog[c]
           f == NewRun("ingress", RecircPort, Head(q), "RECIRCULATE", NothingMeant)
<1>1. /\ ~Busy(c) /\ stack' = [stack EXCEPT ![c] = <<f>>] /\ q # <<>>
      /\ UNCHANGED <<hdr_md, tbl>>
      /\ backlog' = [backlog EXCEPT ![c] = Tail(q)]
  BY DEF TakeRecirculated
<1>2. q \in Seq(Packet) /\ \A k \in 1 .. Len(q) : QueuedInv(q[k])
  BY DEF IInv, TypeOK
<1> HIDE DEF q
<1>3. Head(q) \in Packet /\ QueuedInv(Head(q))
  BY <1>1, <1>2
<1>4. Tail(q) \in Seq(Packet) /\ \A k \in 1 .. Len(Tail(q)) : QueuedInv(Tail(q)[k])
  BY <1>1, <1>2
<1>5. f \in Frame
  BY <1>3, NothingMeantType, NewRunType, ConstantsAssumption DEF Paths
<1>6. /\ f.prog = "ingress" /\ f.pc = "tc" /\ f.pkt = Head(q) /\ f.pass = 0
      /\ f.cause = "RECIRCULATE" /\ f.rx = Head(q).wire
  BY DEF NewRun
<1> HIDE DEF f
<1>7. RunInv(f, 1, 1, hdr_md[c])
  BY <1>3, <1>6, ConstantsAssumption DEF QueuedInv, RunInv, NeedsHeaders, Slot, TrueType,
     Parses, Undeparsed, OriginalPaths, IngressPcs
<1>8. /\ backlog' \in [CPUs -> Seq(Packet)]
      /\ \A d \in CPUs : \A k \in 1 .. Len(backlog'[d]) : QueuedInv(backlog'[d][k])
  BY <1>1, <1>4 DEF IInv, TypeOK
<1> QED BY <1>1, <1>5, <1>7, <1>8, StartInv

LEMMA ControlPlaneInv ==
  ASSUME IInv, ControlPlane
  PROVE  IInv'
<1>1. PICK i \in Sessions \cup Groups :
        \/ CreateReplicas(i) \/ InitialiseReplicas(i) \/ DeleteReplicas(i)
        \/ \E e \in Members : AddMember(i, e)
  BY DEF ControlPlane
<1>2. tbl[i] \in Replicas
  BY DEF IInv, TypeOK
<1>3. \E r \in Replicas : SetReplicas(i, r)
  <2>1. CASE CreateReplicas(i)
    BY <1>2, <2>1 DEF CreateReplicas, Replicas
  <2>2. CASE InitialiseReplicas(i)
    BY <1>2, <2>2 DEF InitialiseReplicas, Replicas
  <2>3. CASE DeleteReplicas(i)
    <3>1. [exists |-> FALSE, head |-> FALSE, members |-> <<>>] \in Replicas
      BY DEF Replicas
    <3> QED BY <2>3, <3>1 DEF DeleteReplicas
  <2>4. ASSUME NEW e \in Members, AddMember(i, e)
        PROVE  \E r \in Replicas : SetReplicas(i, r)
    <3>1. [tbl[i] EXCEPT !.members = Append(@, e)] \in Replicas
      BY <1>2, MembersAssumption DEF Replicas
    <3> QED BY <2>4, <3>1 DEF AddMember
  <2> QED BY <1>1, <2>1, <2>2, <2>3, <2>4
<1> QED BY <1>3 DEF SetReplicas, IInv, TypeOK

-----------------------------------------------------------------------------
(* Every step of a run brings it nearer to its end.                        *)

\* Runs are nested no deeper than the kernel allows, and no list of copies is longer
\* than the map it comes from.
BoundsInv ==
  /\ \A c \in CPUs : Len(stack[c]) <= XmitLimit
  /\ \A c \in CPUs : \A i \in 1 .. Len(stack[c]) : Len(stack[c][i].todo) <= MaxMembers
  /\ \A i \in Sessions \cup Groups : Len(tbl[i].members) <= MaxMembers

\* What a step of CPU c's runs does: it keeps the bounds, and it shortens.
Shortens(c) ==
  /\ \A d \in CPUs \ {c} : stack'[d] = stack[d]
  /\ tbl' = tbl
  /\ Shorter(stack'[c], stack[c])
  /\ \A i \in 1 .. Len(stack'[c]) : Len(stack'[c][i].todo) <= MaxMembers

PassSteps == MaxMembers + 4
Passes(f) == MaxMembers + 6 + (MaxResubmitDepth - f.pass) * PassSteps

\* The steps of the passes that are left, with one pass and without it.
LEMMA PassesLeft ==
  ASSUME NEW f \in Frame
  PROVE  /\ Passes(f) \in Nat /\ Passes(f) >= MaxMembers + 6
         /\ \A g : g.pass = f.pass => Passes(g) = Passes(f)
         /\ f.pass < MaxResubmitDepth =>
              \A g : g.pass = f.pass + 1 => Passes(f) = Passes(g) + PassSteps
<1>1. f.pass \in 0 .. MaxResubmitDepth /\ MaxResubmitDepth \in Nat /\ MaxMembers \in Nat /\ PassSteps \in Nat
  BY ConstantsAssumption DEF Frame, PassSteps
<1> DEFINE left == MaxResubmitDepth - f.pass
<1>2. left \in Nat /\ left * PassSteps \in Nat
  BY <1>1
<1>3. (left - 1) * PassSteps = left * PassSteps - PassSteps
  BY <1>1, <1>2
<1>4. Passes(f) \in Nat /\ Passes(f) >= MaxMembers + 6
  BY <1>1, <1>2 DEF Passes
<1>5. \A g : g.pass = f.pass => Passes(g) = Passes(f)
  BY DEF Passes
<1>6. ASSUME f.pass < MaxResubmitDepth, NEW g, g.pass = f.pass + 1
      PROVE  Passes(f) = Passes(g) + PassSteps
  <2>1. MaxResubmitDepth - g.pass = left - 1
    BY <1>1, <1>6
  <2>2. Passes(g) = MaxMembers + 6 + (left - 1) * PassSteps
    BY <2>1 DEF Passes
  <2>3. Passes(f) = MaxMembers + 6 + left * PassSteps
    BY DEF Passes
  <2> HIDE DEF left
  <2> QED BY <1>1, <1>2, <1>3, <2>2, <2>3
<1> QED BY <1>4, <1>5, <1>6

LEMMA EgressSteps ==
  ASSUME NEW f, f.prog = "egress"
  PROVE  /\ f.pc = "tc" => StepsLeft(f) = MaxMembers + 5
         /\ f.pc = "deparser" => StepsLeft(f) = MaxMembers + 4
         /\ f.pc = "tm" => StepsLeft(f) = MaxMembers + 3
         /\ f.pc = "clone" => StepsLeft(f) = Len(f.todo) + 1 + 1
         /\ f.pc = "verdict" => StepsLeft(f) = 1
  BY DEF StepsLeft

LEMMA IngressSteps ==
  ASSUME NEW f, f.prog = "ingress"
  PROVE  /\ f.pc \in {"tc", "verdict"} => StepsLeft(f) = Passes(f) + 1
         /\ f.pc = "process" => StepsLeft(f) = Passes(f)
         /\ f.pc = "predeparser" => StepsLeft(f) = Passes(f) + MaxMembers + 3
         /\ f.pc = "clone" /\ f.resume = "verdict" => StepsLeft(f) = Len(f.todo) + 1 + (Passes(f) + 1)
         /\ f.pc = "clone" /\ f.resume # "verdict" => StepsLeft(f) = Len(f.todo) + 1 + 1
         /\ f.pc = "tm" => StepsLeft(f) = MaxMembers + 6
         /\ f.pc = "shot" => StepsLeft(f) = 1
  BY DEF StepsLeft, Passes, PassSteps

\* A frame has some steps left.
LEMMA StepsLeftType ==
  ASSUME NEW f \in Frame, f.pc \in IF f.prog = "ingress" THEN IngressPcs ELSE EgressPcs
  PROVE  StepsLeft(f) \in Nat /\ StepsLeft(f) >= 1
<1>1. f.todo \in Seq(Entry) /\ f.prog \in {"ingress", "egress"} /\ f.resume \in {"verdict", "shot"}
  BY DEF Frame
<1>2. Len(f.todo) \in Nat /\ MaxMembers \in Nat
  BY <1>1, ConstantsAssumption
<1>3. Passes(f) \in Nat /\ Passes(f) >= MaxMembers + 6
  BY PassesLeft
<1>4. CASE f.prog = "egress"
  BY <1>2, <1>4, EgressSteps DEF EgressPcs
<1>5. CASE f.prog = "ingress"
  BY <1>2, <1>3, <1>5, IngressSteps DEF IngressPcs
<1> QED BY <1>1, <1>4, <1>5

-----------------------------------------------------------------------------

LEMMA TopBounds ==
  ASSUME IInv, BoundsInv, NEW c \in CPUs, Busy(c)
  PROVE  /\ Top(c) \in Frame /\ RunInv(Top(c), Len(stack[c]), Len(stack[c]), hdr_md[c])
         /\ Top(c).todo \in Seq(Entry) /\ Len(Top(c).todo) \in Nat /\ Len(Top(c).todo) <= MaxMembers
         /\ MaxMembers \in Nat /\ XmitLimit \in Nat
         /\ Top(c).prog \in {"ingress", "egress"} /\ Top(c).resume \in {"verdict", "shot"}
         /\ StepsLeft(Top(c)) \in Nat /\ StepsLeft(Top(c)) >= 1
<1>1. Top(c) \in Frame /\ RunInv(Top(c), Len(stack[c]), Len(stack[c]), hdr_md[c])
  BY TopType, TopInv DEF IInv
<1>2. Top(c).todo \in Seq(Entry) /\ Top(c).prog \in {"ingress", "egress"} /\ Top(c).resume \in {"verdict", "shot"}
  BY <1>1 DEF Frame
<1>3. Len(Top(c).todo) <= MaxMembers
  <2>1. Len(stack[c]) \in 1 .. Len(stack[c])
    BY TopType DEF IInv
  <2> QED BY <2>1 DEF BoundsInv, Top
<1>4. StepsLeft(Top(c)) \in Nat /\ StepsLeft(Top(c)) >= 1
  BY <1>1, StepsLeftType DEF RunInv
<1> QED BY <1>1, <1>2, <1>3, <1>4, ConstantsAssumption

\* The run on top goes on as a run with fewer steps left.
LEMMA ContinueShortens ==
  ASSUME IInv, BoundsInv, NEW c \in CPUs, Busy(c), NEW f, Continue(c, f), tbl' = tbl,
         Len(f.todo) <= MaxMembers, StepsLeft(f) \in Nat, StepsLeft(f) < StepsLeft(Top(c))
  PROVE  Shortens(c)
<1> DEFINE n == Len(stack[c])
           s == [stack[c] EXCEPT ![n] = f]
<1>1. stack[c] \in Seq(Frame) /\ n \in Nat /\ n >= 1 /\ n <= XmitLimit
  BY TopType DEF IInv, BoundsInv
<1>2. stack[c] \in Seq(Frame \cup {f})
  BY <1>1
<1>3. s \in Seq(Frame \cup {f}) /\ Len(s) = n /\ s[n] = f /\ \A i \in 1 .. n - 1 : s[i] = stack[c][i]
  BY <1>1, <1>2
<1>4. stack'[c] = s /\ \A d \in CPUs \ {c} : stack'[d] = stack[d]
  BY DEF Continue, IInv, TypeOK
<1> HIDE DEF s
<1>5. StepsLeft(f) \in 0 .. StepsLeft(stack[c][n]) - 1
  BY TopBounds DEF Top
<1>6. Shorter(stack'[c], stack[c])
  BY <1>1, <1>3, <1>4, <1>5 DEF Shorter
<1>7. ASSUME NEW i \in 1 .. Len(stack'[c]) PROVE Len(stack'[c][i].todo) <= MaxMembers
  <2>1. CASE i = n
    BY <1>3, <1>4, <2>1
  <2>2. CASE i # n
    <3>1. i \in 1 .. n - 1 /\ i \in 1 .. n
      BY <1>1, <1>3, <1>4, <2>2
    <3> QED BY <1>3, <1>4, <3>1 DEF BoundsInv
  <2> QED BY <2>1, <2>2
<1> QED BY <1>4, <1>6, <1>7 DEF Shortens

\* ... or ends.
LEMMA ReturnShortens ==
  ASSUME IInv, BoundsInv, NEW c \in CPUs, Busy(c), Return(c), tbl' = tbl
  PROVE  Shortens(c)
<1> DEFINE n == Len(stack[c])
<1>1. n \in Nat /\ n >= 1 /\ n <= XmitLimit /\ XmitLimit \in Nat
  BY TopType, ConstantsAssumption DEF IInv, BoundsInv
<1>2. /\ \A d \in CPUs \ {c} : stack'[d] = stack[d]
      /\ Len(stack'[c]) = n - 1
      /\ \A i \in 1 .. n - 1 : stack'[c][i] = stack[c][i]
  BY ReturnStack DEF IInv
<1>3. Shorter(stack'[c], stack[c])
  <2>1. n \in 1 .. n /\ ~(n <= Len(stack'[c]))
    BY <1>1, <1>2
  <2>2. \A j \in 1 .. n - 1 : j <= Len(stack'[c]) /\ stack'[c][j] = stack[c][j]
    BY <1>1, <1>2
  <2>3. Len(stack'[c]) <= XmitLimit
    BY <1>1, <1>2
  <2> QED BY <2>1, <2>2, <2>3 DEF Shorter
<1>4. ASSUME NEW i \in 1 .. Len(stack'[c]) PROVE Len(stack'[c][i].todo) <= MaxMembers
  <2>1. i \in 1 .. n - 1 /\ i \in 1 .. n
    BY <1>1, <1>2
  <2>2. Len(stack[c][i].todo) <= MaxMembers
    BY <2>1 DEF BoundsInv
  <2> QED BY <1>2, <2>1, <2>2
<1> QED BY <1>2, <1>3, <1>4 DEF Shortens

\* ... or is interrupted by the run of a copy, and has one copy less to make.
LEMMA CallShortens ==
  ASSUME IInv, BoundsInv, NEW c \in CPUs, Busy(c), NEW f, NEW g, Call(c, f, g), tbl' = tbl,
         Len(stack[c]) < XmitLimit, Len(f.todo) <= MaxMembers, Len(g.todo) <= MaxMembers,
         StepsLeft(f) \in Nat, StepsLeft(f) < StepsLeft(Top(c))
  PROVE  Shortens(c)
<1> DEFINE n == Len(stack[c])
           s == [stack[c] EXCEPT ![n] = f]
           t == Append(s, g)
<1>1. stack[c] \in Seq(Frame) /\ n \in Nat /\ n >= 1 /\ n < XmitLimit /\ XmitLimit \in Nat
  BY TopType, ConstantsAssumption DEF IInv, BoundsInv
<1>2. stack[c] \in Seq(Frame \cup {f, g})
  BY <1>1
<1>3. s \in Seq(Frame \cup {f, g}) /\ Len(s) = n /\ s[n] = f /\ \A i \in 1 .. n - 1 : s[i] = stack[c][i]
  BY <1>1, <1>2
<1>4. t \in Seq(Frame \cup {f, g}) /\ Len(t) = n + 1 /\ t[n + 1] = g /\ \A i \in 1 .. n : t[i] = s[i]
  <2> HIDE DEF s
  <2> QED BY <1>1, <1>3
<1>5. stack'[c] = t /\ \A d \in CPUs \ {c} : stack'[d] = stack[d]
  BY DEF Call, IInv, TypeOK
<1> HIDE DEF s, t
<1>6. StepsLeft(f) \in 0 .. StepsLeft(stack[c][n]) - 1
  BY TopBounds DEF Top
<1>7. Shorter(stack'[c], stack[c])
  <2>1. Len(stack'[c]) <= XmitLimit
    BY <1>1, <1>4, <1>5
  <2>2. n \in 1 .. n /\ stack'[c][n] = f
    BY <1>1, <1>3, <1>4, <1>5
  <2>3. \A j \in 1 .. n - 1 : j <= Len(stack'[c]) /\ stack'[c][j] = stack[c][j]
    BY <1>1, <1>3, <1>4, <1>5
  <2> QED BY <1>6, <2>1, <2>2, <2>3 DEF Shorter
<1>8. ASSUME NEW i \in 1 .. Len(stack'[c]) PROVE Len(stack'[c][i].todo) <= MaxMembers
  <2>1. CASE i >= n
    <3>1. i = n \/ i = n + 1
      BY <1>1, <1>4, <1>5, <2>1
    <3>2. n \in 1 .. n
      BY <1>1
    <3> QED BY <1>3, <1>4, <1>5, <3>1, <3>2
  <2>2. CASE i < n
    <3>1. i \in 1 .. n - 1 /\ i \in 1 .. n
      BY <1>1, <2>2
    <3> QED BY <1>3, <1>4, <1>5, <3>1 DEF BoundsInv
  <2> QED BY <1>1, <1>4, <1>5, <2>1, <2>2
<1> QED BY <1>5, <1>7, <1>8 DEF Shortens

\* do_packet_clones() is entered with enough steps for every member, and left.
LEMMA DoPacketClonesShortens ==
  ASSUME IInv, BoundsInv, NEW c \in CPUs, Busy(c), tbl' = tbl, NEW id \in Sessions \cup Groups,
         NEW path, NEW resume \in {"verdict", "shot"},
         DoPacketClones(c, Top(c), id, path, resume),
         Top(c).prog = "egress" => resume = "verdict" /\ Top(c).pc = "tm",
         Top(c).prog = "ingress" => Top(c).pc = IF resume = "verdict" THEN "predeparser" ELSE "tm"
  PROVE  Shortens(c)
<1> DEFINE t == Top(c)
           r == tbl[id]
           marked == [t EXCEPT !.pkt.path = path]
           absent == [t EXCEPT !.pc = resume]
           headless == [marked EXCEPT !.pc = resume, !.pkt.unlisted = TRUE]
           cloning == [marked EXCEPT !.pc = "clone", !.resume = resume,
                         !.saved = t.pkt.path, !.todo = r.members]
<1>1. /\ t \in Frame /\ Len(t.todo) \in Nat /\ Len(t.todo) <= MaxMembers /\ MaxMembers \in Nat
      /\ t.prog \in {"ingress", "egress"}
  BY TopBounds
<1>2. r.members \in Seq(Entry) /\ Len(r.members) \in Nat /\ Len(r.members) <= MaxMembers
  BY DEF IInv, TypeOK, Replicas, BoundsInv
<1>3. Passes(t) \in Nat /\ Passes(t) >= MaxMembers + 6 /\ \A g : g.pass = t.pass => Passes(g) = Passes(t)
  BY <1>1, PassesLeft
<1>4. \A f \in {absent, headless} : f.prog = t.prog /\ f.pc = resume /\ f.todo = t.todo /\ f.pass = t.pass
  BY <1>1 DEF Frame
<1>5. /\ cloning.prog = t.prog /\ cloning.pc = "clone" /\ cloning.todo = r.members
      /\ cloning.pass = t.pass /\ cloning.resume = resume
  BY <1>1 DEF Frame
<1>6. Continue(c, absent) \/ Continue(c, headless) \/ Continue(c, cloning)
  BY DEF DoPacketClones
<1> HIDE DEF t, r, absent, headless, cloning
<1>7. ASSUME NEW f \in {absent, headless}
      PROVE  StepsLeft(f) \in Nat /\ StepsLeft(f) < StepsLeft(t) /\ Len(f.todo) <= MaxMembers
  <2>1. f.prog = t.prog /\ f.pc = resume /\ f.todo = t.todo /\ Passes(f) = Passes(t)
    BY <1>3, <1>4
  <2>2. CASE t.prog = "egress"
    BY <1>1, <2>1, <2>2, EgressSteps DEF t
  <2>3. CASE t.prog = "ingress" /\ resume = "verdict"
    BY <1>1, <1>3, <2>1, <2>3, IngressSteps DEF t
  <2>4. CASE t.prog = "ingress" /\ resume = "shot"
    BY <1>1, <1>3, <2>1, <2>4, IngressSteps DEF t
  <2> QED BY <1>1, <2>2, <2>3, <2>4
<1>8. StepsLeft(cloning) \in Nat /\ StepsLeft(cloning) < StepsLeft(t) /\ Len(cloning.todo) <= MaxMembers
  <2>1. Passes(cloning) = Passes(t)
    BY <1>3, <1>5
  <2>2. CASE t.prog = "egress"
    BY <1>1, <1>2, <1>5, <2>2, EgressSteps DEF t
  <2>3. CASE t.prog = "ingress" /\ resume = "verdict"
    BY <1>1, <1>2, <1>3, <1>5, <2>1, <2>3, IngressSteps DEF t
  <2>4. CASE t.prog = "ingress" /\ resume = "shot"
    BY <1>1, <1>2, <1>3, <1>5, <2>1, <2>4, IngressSteps DEF t
  <2> QED BY <1>1, <2>2, <2>3, <2>4
<1> QED BY <1>6, <1>7, <1>8, ContinueShortens DEF t

LEMMA DoCloneShortens ==
  ASSUME IInv, BoundsInv, NEW c \in CPUs, DoClone(c)
  PROVE  Shortens(c)
<1> DEFINE t == Top(c)
           e == Head(t.todo)
           f == [t EXCEPT !.todo = Tail(@)]
           meant == [instance |-> e.instance, class_of_service |-> e.class_of_service]
           g == NewRun("egress", e.egress_port, f.pkt, CopyCause(f), meant)
<1>1. Busy(c) /\ t.pc = "clone" /\ t.todo # <<>> /\ tbl' = tbl
  BY DEF DoClone
<1>2. /\ t \in Frame /\ t.todo \in Seq(Entry) /\ Len(t.todo) \in Nat /\ Len(t.todo) <= MaxMembers
      /\ MaxMembers \in Nat /\ t.prog \in {"ingress", "egress"}
  BY <1>1, TopBounds
<1>3. \/ Len(stack[c]) < XmitLimit /\ Call(c, f, g)
      \/ Continue(c, f)
  BY DEF DoClone
<1>4. Len(g.todo) <= MaxMembers
  BY <1>2 DEF NewRun
<1> HIDE DEF t, g
<1>5. f.prog = t.prog /\ f.pc = "clone" /\ f.pass = t.pass /\ f.resume = t.resume
  BY <1>1, <1>2 DEF Frame
<1>6. Len(f.todo) \in Nat /\ Len(f.todo) = Len(t.todo) - 1 /\ Len(f.todo) <= MaxMembers
  <2>1. f.todo = Tail(t.todo)
    BY <1>2 DEF Frame
  <2>2. Len(Tail(t.todo)) = Len(t.todo) - 1 /\ Len(Tail(t.todo)) \in Nat
    BY <1>1, <1>2
  <2> HIDE DEF f
  <2> QED BY <1>2, <2>1, <2>2
<1>7. Passes(t) \in Nat /\ Passes(f) = Passes(t)
  BY <1>2, <1>5, PassesLeft
<1>8. t.pc = "clone"
  BY <1>1
<1> HIDE DEF f
<1>9. StepsLeft(f) \in Nat /\ StepsLeft(f) < StepsLeft(t)
  <2>1. CASE t.prog = "egress"
    BY <1>2, <1>5, <1>6, <1>8, <2>1, EgressSteps
  <2>2. CASE t.prog = "ingress" /\ t.resume = "verdict"
    BY <1>2, <1>5, <1>6, <1>7, <1>8, <2>2, IngressSteps
  <2>3. CASE t.prog = "ingress" /\ t.resume # "verdict"
    BY <1>2, <1>5, <1>6, <1>8, <2>3, IngressSteps
  <2> QED BY <1>2, <2>1, <2>2, <2>3
<1> QED BY <1>1, <1>3, <1>4, <1>6, <1>9, CallShortens, ContinueShortens DEF t

LEMMA ClonesDoneShortens ==
  ASSUME IInv, BoundsInv, NEW c \in CPUs, ClonesDone(c)
  PROVE  Shortens(c)
<1> DEFINE t == Top(c)
           f == [t EXCEPT !.pc = t.resume, !.pkt.path = t.saved]
<1>1. Busy(c) /\ t.pc = "clone" /\ t.todo = <<>> /\ tbl' = tbl /\ Continue(c, f)
  BY DEF ClonesDone
<1>2. /\ t \in Frame /\ MaxMembers \in Nat /\ t.prog \in {"ingress", "egress"}
      /\ t.resume \in {"verdict", "shot"} /\ RunInv(t, Len(stack[c]), Len(stack[c]), hdr_md[c])
  BY <1>1, TopBounds
<1> HIDE DEF t
<1>3. /\ f.prog = t.prog /\ f.pc = t.resume /\ f.pass = t.pass /\ f.todo = <<>>
      /\ t.prog = "egress" => t.resume = "verdict"
  BY <1>1, <1>2 DEF Frame, RunInv
<1>4. Passes(t) \in Nat /\ Passes(f) = Passes(t) /\ Len(<<>>) = 0
  BY <1>2, <1>3, PassesLeft
<1> HIDE DEF f
<1>5. StepsLeft(f) \in Nat /\ StepsLeft(f) < StepsLeft(t)
  <2>1. CASE t.prog = "egress"
    BY <1>1, <1>3, <1>4, <2>1, EgressSteps
  <2>2. CASE t.prog = "ingress" /\ t.resume = "verdict"
    BY <1>1, <1>3, <1>4, <2>2, IngressSteps
  <2>3. CASE t.prog = "ingress" /\ t.resume = "shot"
    BY <1>1, <1>3, <1>4, <2>3, IngressSteps
  <2> QED BY <1>2, <2>1, <2>2, <2>3
<1> QED BY <1>1, <1>2, <1>3, <1>4, <1>5, ContinueShortens DEF t

-----------------------------------------------------------------------------
(* The ingress program.                                                    *)

LEMMA TcIngressShortens ==
  ASSUME IInv, BoundsInv, NEW c \in CPUs, TcIngress(c)
  PROVE  Shortens(c)
<1> DEFINE t == Top(c)
<1>1. PICK y : Continue(c, [t EXCEPT !.pc = "process", !.pkt.type = y])
  BY DEF TcIngress
<1> DEFINE f == [t EXCEPT !.pc = "process", !.pkt.type = y]
<1>2. Busy(c) /\ t.prog = "ingress" /\ t.pc = "tc" /\ tbl' = tbl
  BY DEF TcIngress, At
<1>3. t \in Frame /\ Len(t.todo) <= MaxMembers
  BY <1>2, TopBounds
<1> HIDE DEF t
<1>4. f.prog = t.prog /\ f.pc = "process" /\ f.pass = t.pass /\ f.todo = t.todo
  BY <1>3 DEF Frame
<1>5. Passes(t) \in Nat /\ Passes(f) = Passes(t)
  BY <1>3, <1>4, PassesLeft
<1> HIDE DEF f
<1>6. StepsLeft(f) \in Nat /\ StepsLeft(f) < StepsLeft(t)
  BY <1>2, <1>4, <1>5, IngressSteps
<1> QED BY <1>1, <1>2, <1>3, <1>4, <1>6, ContinueShortens DEF t, f

\* A pass through the loop has been counted, which leaves room for the next.
LEMMA IngressProcessShortens ==
  ASSUME IInv, BoundsInv, NEW c \in CPUs, IngressProcess(c)
  PROVE  Shortens(c)
<1> DEFINE t == Top(c)
<1>1. PICK r : Continue(c, [t EXCEPT !.pc = "predeparser", !.pass = @ + 1,
                              !.out = r.out, !.hdr = r.type])
  BY DEF IngressProcess
<1> DEFINE f == [t EXCEPT !.pc = "predeparser", !.pass = @ + 1, !.out = r.out, !.hdr = r.type]
<1>2. Busy(c) /\ t.prog = "ingress" /\ t.pc = "process" /\ tbl' = tbl
  BY DEF IngressProcess, At
<1>3. /\ t \in Frame /\ Len(t.todo) <= MaxMembers /\ MaxMembers \in Nat
      /\ RunInv(t, Len(stack[c]), Len(stack[c]), hdr_md[c])
  BY <1>2, TopBounds
<1> HIDE DEF t
<1>4. f.prog = t.prog /\ f.pc = "predeparser" /\ f.pass = t.pass + 1 /\ f.todo = t.todo
  BY <1>3 DEF Frame
<1>5. t.pass < MaxResubmitDepth /\ t.pass + 1 \in 0 .. MaxResubmitDepth
  BY <1>2, <1>3, ConstantsAssumption DEF RunInv, Frame
<1> HIDE DEF f
<1>6. Passes(t) = Passes(f) + PassSteps /\ Passes(t) \in Nat
  BY <1>3, <1>4, <1>5, PassesLeft
<1>7. Passes(f) \in Nat
  <2>1. [t EXCEPT !.pass = t.pass + 1] \in Frame /\ [t EXCEPT !.pass = t.pass + 1].pass = f.pass
    BY <1>3, <1>4, <1>5 DEF Frame
  <2> QED BY <2>1, PassesLeft
<1>8. StepsLeft(f) \in Nat /\ StepsLeft(f) < StepsLeft(t)
  BY <1>2, <1>3, <1>4, <1>6, <1>7, IngressSteps DEF PassSteps
<1> QED BY <1>1, <1>2, <1>3, <1>4, <1>8, ContinueShortens DEF t, f

LEMMA IngressPreDeparserShortens ==
  ASSUME IInv, BoundsInv, NEW c \in CPUs, IngressPreDeparser(c)
  PROVE  Shortens(c)
<1> DEFINE t == Top(c)
           f == [t EXCEPT !.pc = "verdict"]
<1>1. Busy(c) /\ t.prog = "ingress" /\ t.pc = "predeparser" /\ tbl' = tbl
  BY DEF IngressPreDeparser, At
<1>2. t \in Frame /\ Len(t.todo) <= MaxMembers /\ MaxMembers \in Nat /\ t.out.clone_session_id \in Sessions
  BY <1>1, TopBounds DEF Frame, OutMd
<1>3. CASE DoPacketClones(c, t, t.out.clone_session_id, "CLONE_I2E", "verdict")
  BY <1>1, <1>2, <1>3, DoPacketClonesShortens
<1>4. CASE Continue(c, f)
  <2> HIDE DEF t
  <2>1. f.prog = t.prog /\ f.pc = "verdict" /\ f.pass = t.pass /\ f.todo = t.todo
    BY <1>2 DEF Frame
  <2>2. Passes(t) \in Nat /\ Passes(f) = Passes(t)
    BY <1>2, <2>1, PassesLeft
  <2> HIDE DEF f
  <2>3. StepsLeft(f) \in Nat /\ StepsLeft(f) < StepsLeft(t)
    BY <1>1, <1>2, <2>1, <2>2, IngressSteps
  <2> QED BY <1>1, <1>2, <1>4, <2>1, <2>3, ContinueShortens DEF t
<1> QED BY <1>3, <1>4 DEF IngressPreDeparser

\* A resubmitted packet has a pass less before it than the one it was.
LEMMA IngressResubmitShortens ==
  ASSUME IInv, BoundsInv, NEW c \in CPUs, IngressResubmit(c)
  PROVE  Shortens(c)
<1> DEFINE t == Top(c)
           again == [t EXCEPT !.pkt.path = "RESUBMIT", !.pc = "process", !.cause = "RESUBMIT"]
           onward == [t EXCEPT !.pkt.path = "RESUBMIT", !.pc = "tm"]
<1>1. Busy(c) /\ t.prog = "ingress" /\ t.pc = "verdict" /\ tbl' = tbl
  BY DEF IngressResubmit, At
<1>2. t \in Frame /\ Len(t.todo) <= MaxMembers /\ MaxMembers \in Nat
  BY <1>1, TopBounds
<1>3. Continue(c, again) \/ Continue(c, onward)
  BY DEF IngressResubmit
<1> HIDE DEF t
<1>4. /\ again.prog = t.prog /\ again.pc = "process" /\ again.pass = t.pass /\ again.todo = t.todo
      /\ onward.prog = t.prog /\ onward.pc = "tm" /\ onward.pass = t.pass /\ onward.todo = t.todo
  BY <1>2 DEF Frame
<1> HIDE DEF again, onward
<1>5. Passes(t) \in Nat /\ Passes(t) >= MaxMembers + 6 /\ Passes(again) = Passes(t)
  BY <1>2, <1>4, PassesLeft
<1>6. StepsLeft(again) \in Nat /\ StepsLeft(again) < StepsLeft(t)
  BY <1>1, <1>4, <1>5, IngressSteps
<1>7. StepsLeft(onward) \in Nat /\ StepsLeft(onward) < StepsLeft(t)
  BY <1>1, <1>2, <1>4, <1>5, IngressSteps
<1> QED BY <1>1, <1>2, <1>3, <1>4, <1>6, <1>7, ContinueShortens DEF t

LEMMA IngressDeparserShortens ==
  ASSUME IInv, BoundsInv, NEW c \in CPUs, IngressDeparser(c)
  PROVE  Shortens(c)
<1> DEFINE t == Top(c)
           f == [t EXCEPT !.pc = "tm", !.pkt.type = hdr_md[c][0], !.pkt.wire = t.hdr]
<1>1. Busy(c) /\ t.prog = "ingress" /\ t.pc = "verdict" /\ tbl' = tbl /\ Continue(c, f)
  BY DEF IngressDeparser, At
<1>2. t \in Frame /\ Len(t.todo) <= MaxMembers /\ MaxMembers \in Nat
  BY <1>1, TopBounds
<1> HIDE DEF t
<1>3. f.prog = t.prog /\ f.pc = "tm" /\ f.todo = t.todo
  BY <1>2 DEF Frame
<1> HIDE DEF f
<1>4. Passes(t) \in Nat /\ Passes(t) >= MaxMembers + 6
  BY <1>2, PassesLeft
<1>5. StepsLeft(f) \in Nat /\ StepsLeft(f) < StepsLeft(t)
  BY <1>1, <1>2, <1>3, <1>4, IngressSteps
<1> QED BY <1>1, <1>2, <1>3, <1>5, ContinueShortens DEF t

LEMMA MulticastShortens ==
  ASSUME IInv, BoundsInv, NEW c \in CPUs, Multicast(c)
  PROVE  Shortens(c)
<1> DEFINE t == Top(c)
<1>1. /\ Busy(c) /\ t.prog = "ingress" /\ t.pc = "tm" /\ tbl' = tbl
      /\ t.out.multicast_group # NoGroup
      /\ DoPacketClones(c, t, t.out.multicast_group, "NORMAL_MULTICAST", "shot")
  BY DEF Multicast, At
<1>2. t.out.multicast_group \in Groups
  BY <1>1, TopBounds DEF Frame, OutMd
<1> QED BY <1>1, <1>2, DoPacketClonesShortens

\* The egress run of a unicast packet takes the place of the ingress run.
LEMMA UnicastShortens ==
  ASSUME IInv, BoundsInv, NEW c \in CPUs, Unicast(c)
  PROVE  Shortens(c)
<1> DEFINE t == Top(c)
           pkt == [t.pkt EXCEPT !.priority = t.out.class_of_service]
           f == NewRun("egress", t.out.egress_port, pkt, "NORMAL_UNICAST",
                       [instance |-> 0, class_of_service |-> t.out.class_of_service])
<1>1. /\ Busy(c) /\ t.prog = "ingress" /\ t.pc = "tm" /\ tbl' = tbl
      /\ Continue(c, f) \/ Return(c)
  BY DEF Unicast, At
<1>2. MaxMembers \in Nat
  BY <1>1, TopBounds
<1>3. f.prog = "egress" /\ f.pc = "tc" /\ f.todo = <<>>
  BY DEF NewRun
<1> HIDE DEF t, f
<1>4. StepsLeft(f) \in Nat /\ StepsLeft(f) < StepsLeft(t) /\ Len(f.todo) <= MaxMembers
  BY <1>1, <1>2, <1>3, EgressSteps, IngressSteps
<1> QED BY <1>1, <1>4, ContinueShortens, ReturnShortens DEF t

-----------------------------------------------------------------------------
(* The egress program.                                                     *)

LEMMA EgressProcessShortens ==
  ASSUME IInv, BoundsInv, NEW c \in CPUs, EgressProcess(c)
  PROVE  Shortens(c)
<1> DEFINE t == Top(c)
<1>1. PICK r : Continue(c, [t EXCEPT !.pc = "deparser", !.out = r.out, !.hdr = r.type])
  BY DEF EgressProcess
<1> DEFINE f == [t EXCEPT !.pc = "deparser", !.out = r.out, !.hdr = r.type]
<1>2. Busy(c) /\ t.prog = "egress" /\ t.pc = "tc" /\ tbl' = tbl
  BY DEF EgressProcess, At
<1>3. t \in Frame /\ Len(t.todo) <= MaxMembers /\ MaxMembers \in Nat
  BY <1>2, TopBounds
<1> HIDE DEF t
<1>4. f.prog = t.prog /\ f.pc = "deparser" /\ f.todo = t.todo
  BY <1>3 DEF Frame
<1> HIDE DEF f
<1>5. StepsLeft(f) \in Nat /\ StepsLeft(f) < StepsLeft(t)
  BY <1>2, <1>3, <1>4, EgressSteps
<1> QED BY <1>1, <1>2, <1>3, <1>4, <1>5, ContinueShortens DEF t, f

LEMMA EgressDeparserShortens ==
  ASSUME IInv, BoundsInv, NEW c \in CPUs, EgressDeparser(c)
  PROVE  Shortens(c)
<1> DEFINE t == Top(c)
           f == [t EXCEPT !.pc = "tm", !.pkt.type = hdr_md[c][1], !.pkt.wire = t.hdr]
<1>1. Busy(c) /\ t.prog = "egress" /\ t.pc = "deparser" /\ tbl' = tbl /\ Continue(c, f)
  BY DEF EgressDeparser, At
<1>2. t \in Frame /\ Len(t.todo) <= MaxMembers /\ MaxMembers \in Nat
  BY <1>1, TopBounds
<1> HIDE DEF t
<1>3. f.prog = t.prog /\ f.pc = "tm" /\ f.todo = t.todo
  BY <1>2 DEF Frame
<1> HIDE DEF f
<1>4. StepsLeft(f) \in Nat /\ StepsLeft(f) < StepsLeft(t)
  BY <1>1, <1>2, <1>3, EgressSteps
<1> QED BY <1>1, <1>2, <1>3, <1>4, ContinueShortens DEF t

LEMMA EgressCloneShortens ==
  ASSUME IInv, BoundsInv, NEW c \in CPUs, EgressClone(c)
  PROVE  Shortens(c)
<1> DEFINE t == Top(c)
           f == [t EXCEPT !.pc = "verdict"]
<1>1. Busy(c) /\ t.prog = "egress" /\ t.pc = "tm" /\ tbl' = tbl
  BY DEF EgressClone, At
<1>2. t \in Frame /\ Len(t.todo) <= MaxMembers /\ MaxMembers \in Nat /\ t.out.clone_session_id \in Sessions
  BY <1>1, TopBounds DEF Frame, OutMd
<1>3. CASE DoPacketClones(c, t, t.out.clone_session_id, "CLONE_E2E", "verdict")
  BY <1>1, <1>2, <1>3, DoPacketClonesShortens
<1>4. CASE Continue(c, f)
  <2> HIDE DEF t
  <2>1. f.prog = t.prog /\ f.pc = "verdict" /\ f.todo = t.todo
    BY <1>2 DEF Frame
  <2> HIDE DEF f
  <2>2. StepsLeft(f) \in Nat /\ StepsLeft(f) < StepsLeft(t)
    BY <1>1, <1>2, <2>1, EgressSteps
  <2> QED BY <1>1, <1>2, <1>4, <2>1, <2>2, ContinueShortens DEF t
<1> QED BY <1>3, <1>4 DEF EgressClone

\* The verdicts that end a run.
LEMMA EndShortens ==
  ASSUME IInv, BoundsInv, NEW c \in CPUs,
         \/ IngressReject(c) \/ IngressDrop(c) \/ IngressDeparserFails(c) \/ MulticastDone(c)
         \/ EgressReject(c) \/ EgressDeparserFails(c) \/ Recirculate(c) \/ EgressDone(c)
  PROVE  Shortens(c)
<1>1. Busy(c) /\ Return(c) /\ tbl' = tbl
  BY DEF IngressReject, IngressDrop, IngressDeparserFails, MulticastDone, EgressReject,
         EgressDeparserFails, Recirculate, EgressDone, At
<1> QED BY <1>1, ReturnShortens

LEMMA RunShortens ==
  ASSUME IInv, BoundsInv, NEW c \in CPUs, Run(c)
  PROVE  Shortens(c)
  BY DoCloneShortens, ClonesDoneShortens, TcIngressShortens, IngressProcessShortens,
     IngressPreDeparserShortens, IngressResubmitShortens, IngressDeparserShortens,
     MulticastShortens, UnicastShortens, EgressProcessShortens, EgressDeparserShortens,
     EgressCloneShortens, EndShortens DEF Run

-----------------------------------------------------------------------------
(* The bounds hold throughout.                                             *)

LEMMA ShortensBounds ==
  ASSUME BoundsInv, NEW c \in CPUs, Shortens(c)
  PROVE  BoundsInv'
<1>1. \A d \in CPUs : d # c => stack'[d] = stack[d]
  BY DEF Shortens
<1>2. Len(stack'[c]) <= XmitLimit /\ tbl' = tbl
  BY DEF Shortens, Shorter
<1>3. \A d \in CPUs : Len(stack'[d]) <= XmitLimit
  BY <1>1, <1>2 DEF BoundsInv
<1>4. ASSUME NEW d \in CPUs, NEW i \in 1 .. Len(stack'[d])
      PROVE  Len(stack'[d][i].todo) <= MaxMembers
  <2>1. CASE d = c
    BY <2>1 DEF Shortens
  <2>2. CASE d # c
    <3>1. stack'[d] = stack[d]
      BY <1>1, <2>2
    <3>2. \A j \in 1 .. Len(stack[d]) : Len(stack[d][j].todo) <= MaxMembers
      BY DEF BoundsInv
    <3> QED BY <3>1, <3>2
  <2> QED BY <2>1, <2>2
<1>5. \A i \in Sessions \cup Groups : Len(tbl'[i].members) <= MaxMembers
  BY <1>2 DEF BoundsInv
<1> QED BY <1>3, <1>4, <1>5 DEF BoundsInv

\* A packet that arrives starts the first run of an idle CPU.
LEMMA ArriveBounds ==
  ASSUME IInv, BoundsInv, NEW c \in CPUs, Arrive(c)
  PROVE  /\ BoundsInv'
         /\ ~Busy(c) /\ \A d \in CPUs \ {c} : stack'[d] = stack[d]
<1>1. \A prog, port, pkt, cause, meant : NewRun(prog, port, pkt, cause, meant).todo = <<>>
  BY DEF NewRun
<1>2. \E f : stack' = [stack EXCEPT ![c] = <<f>>] /\ f.todo = <<>>
  <2>1. CASE TakeRecirculated(c)
    <3> DEFINE f == NewRun("ingress", RecircPort, Head(backlog[c]), "RECIRCULATE", NothingMeant)
    <3>1. stack' = [stack EXCEPT ![c] = <<f>>]
      BY <2>1 DEF TakeRecirculated
    <3>2. f.todo = <<>>
      BY <1>1
    <3> HIDE DEF f
    <3> QED BY <3>1, <3>2
  <2>2. ASSUME NEW p \in Ports, NEW y \in EtherTypes, XdpHelper(c, p, y)
        PROVE  \E f : stack' = [stack EXCEPT ![c] = <<f>>] /\ f.todo = <<>>
    <3> DEFINE pkt == [path |-> "NORMAL", instance |-> 0, priority |-> 0, wire |-> y,
                       unlisted |-> FALSE,
                       type |-> IF y \in IPTypes THEN y ELSE IPv4,
                       md   |-> IF y \in IPTypes THEN NoMeta ELSE y]
               f == NewRun("ingress", p, pkt, "NORMAL", NothingMeant)
    <3>1. stack' = [stack EXCEPT ![c] = <<f>>]
      BY <2>2 DEF XdpHelper
    <3>2. f.todo = <<>>
      BY <1>1
    <3> HIDE DEF f
    <3> QED BY <3>1, <3>2
  <2> QED BY <2>1, <2>2 DEF Arrive
<1>3. PICK f : stack' = [stack EXCEPT ![c] = <<f>>] /\ f.todo = <<>>
  BY <1>2
<1>4. ~Busy(c) /\ tbl' = tbl
  BY DEF Arrive, XdpHelper, TakeRecirculated
<1> DEFINE s == <<f>>
<1>5. Len(s) = 1 /\ s[1] = f
  OBVIOUS
<1> HIDE DEF s
<1>6. stack'[c] = s /\ \A d \in CPUs : d # c => stack'[d] = stack[d]
  BY <1>3 DEF s, IInv, TypeOK
<1>7. XmitLimit >= 1 /\ Len(f.todo) <= MaxMembers
  BY <1>3, ConstantsAssumption
<1>8. ASSUME NEW d \in CPUs
      PROVE  /\ Len(stack'[d]) <= XmitLimit
             /\ \A i \in 1 .. Len(stack'[d]) : Len(stack'[d][i].todo) <= MaxMembers
  <2>1. CASE d = c
    <3>1. \A i \in 1 .. Len(s) : i = 1
      BY <1>5
    <3> QED BY <1>5, <1>6, <1>7, <2>1, <3>1
  <2>2. CASE d # c
    <3>1. stack'[d] = stack[d]
      BY <1>6, <2>2
    <3>2. Len(stack[d]) <= XmitLimit /\ \A j \in 1 .. Len(stack[d]) : Len(stack[d][j].todo) <= MaxMembers
      BY DEF BoundsInv
    <3> QED BY <3>1, <3>2
  <2> QED BY <2>1, <2>2
<1>9. \A i \in Sessions \cup Groups : Len(tbl'[i].members) <= MaxMembers
  BY <1>4 DEF BoundsInv
<1> QED BY <1>4, <1>6, <1>8, <1>9 DEF BoundsInv

\* A member is added to a list only while the inner map has room for it.
LEMMA ControlPlaneBounds ==
  ASSUME IInv, BoundsInv, ControlPlane
  PROVE  BoundsInv' /\ stack' = stack
<1>1. PICK i \in Sessions \cup Groups :
        \/ CreateReplicas(i) \/ InitialiseReplicas(i) \/ DeleteReplicas(i)
        \/ \E e \in Members : AddMember(i, e)
  BY DEF ControlPlane
<1>2. tbl[i] \in Replicas /\ Len(tbl[i].members) <= MaxMembers /\ MaxMembers \in Nat
  BY ConstantsAssumption DEF IInv, TypeOK, BoundsInv
<1>3. \E r : SetReplicas(i, r) /\ Len(r.members) <= MaxMembers
  <2>1. CASE CreateReplicas(i)
    BY <1>2, <2>1 DEF CreateReplicas, Replicas
  <2>2. CASE InitialiseReplicas(i)
    BY <1>2, <2>2 DEF InitialiseReplicas, Replicas
  <2>3. CASE DeleteReplicas(i)
    <3>1. Len([exists |-> FALSE, head |-> FALSE, members |-> <<>>].members) <= MaxMembers
      BY <1>2
    <3> QED BY <2>3, <3>1 DEF DeleteReplicas
  <2>4. ASSUME NEW e \in Members, AddMember(i, e)
        PROVE  \E r : SetReplicas(i, r) /\ Len(r.members) <= MaxMembers
    <3> DEFINE r == [tbl[i] EXCEPT !.members = Append(@, e)]
    <3>1. tbl[i].members \in Seq(Entry) /\ e \in Entry /\ Len(tbl[i].members) < MaxMembers
      BY <1>2, <2>4, MembersAssumption DEF AddMember, Replicas
    <3>2. r.members = Append(tbl[i].members, e)
      BY <1>2 DEF Replicas
    <3>3. Len(Append(tbl[i].members, e)) <= MaxMembers
      BY <1>2, <3>1
    <3>4. SetReplicas(i, r)
      BY <2>4 DEF AddMember
    <3> HIDE DEF r
    <3> QED BY <3>2, <3>3, <3>4
  <2> QED BY <1>1, <2>1, <2>2, <2>3, <2>4
<1>4. PICK r : SetReplicas(i, r) /\ Len(r.members) <= MaxMembers
  BY <1>3
<1>5. stack' = stack /\ \A j \in Sessions \cup Groups : tbl'[j] = IF j = i THEN r ELSE tbl[j]
  BY <1>4 DEF SetReplicas, IInv, TypeOK
<1> QED BY <1>4, <1>5 DEF BoundsInv

-----------------------------------------------------------------------------
(* No run goes on for ever.                                                *)

\* The least-number principle, from the order of the natural numbers being well founded.
LEMMA LeastNatural ==
  ASSUME NEW S \in SUBSET Nat, S # {}
  PROVE  \E m \in S : \A k \in S : m <= k
<1> DEFINE R == {ss \in Nat \X Nat : ss[1] < ss[2]}
<1>1. R = OpToRel(<, Nat)
  BY DEF OpToRel
<1>2. IsWellFoundedOn(R, Nat)
  BY <1>1, NatLessThanWellFounded
<1>3. PICK m \in S : \A y \in S : <<y, m>> \notin R
  <2> HIDE DEF R
  <2> QED BY <1>2, WFMin
<1>4. ASSUME NEW k \in S PROVE m <= k
  <2>1. ~(k < m)
    BY <1>3
  <2> QED BY <2>1
<1> QED BY <1>4

\* The stacks a CPU can have.
Stacks == {t \in Seq(Frame) : \A i \in 1 .. Len(t) :
             t[i].pc \in IF t[i].prog = "ingress" THEN IngressPcs ELSE EgressPcs}

LEMMA StackType == IInv => \A c \in CPUs : stack[c] \in Stacks
  BY DEF IInv, TypeOK, RunInv, Stacks

\* Shorter is well founded: no sequence of stacks gets shorter for ever.  In such a
\* sequence take the lowest run l such that steps change it or one below it again and
\* again; once the runs below l have settled, l's steps left only fall.
THEOREM ShorterWellFounded ==
  \A s \in [Nat -> Stacks] : ~ \A k \in Nat : Shorter(s[k + 1], s[k])
<1> SUFFICES ASSUME NEW s \in [Nat -> Stacks], \A k \in Nat : Shorter(s[k + 1], s[k])
             PROVE  FALSE
  OBVIOUS
<1> DEFINE Cuts(k, i) == /\ \A j \in 1 .. i - 1 : j <= Len(s[k + 1]) /\ s[k + 1][j] = s[k][j]
                         /\ i <= Len(s[k + 1]) => StepsLeft(s[k + 1][i]) \in 0 .. StepsLeft(s[k][i]) - 1
           Cut(k) == CHOOSE i \in 1 .. Len(s[k]) : Cuts(k, i)
           Settled == {l \in Nat : \E m \in Nat : \A k \in Nat : k >= m => Cut(k) > l}
<1>1. ASSUME NEW k \in Nat
      PROVE  /\ Len(s[k]) \in Nat /\ Cut(k) \in 1 .. Len(s[k]) /\ Cut(k) \in Nat
             /\ Cuts(k, Cut(k))
  <2>1. Len(s[k]) \in Nat
    BY DEF Stacks
  <2>2. \E i \in 1 .. Len(s[k]) : Cuts(k, i)
    BY DEF Shorter
  <2>3. Cut(k) \in 1 .. Len(s[k]) /\ Cuts(k, Cut(k))
    <3> HIDE DEF Cuts
    <3> QED BY <2>2
  <2> HIDE DEF Cut
  <2> QED BY <2>1, <2>3
<1>2. ASSUME NEW k \in Nat, NEW i \in 1 .. Len(s[k])
      PROVE  StepsLeft(s[k][i]) \in Nat
  <2>1. s[k] \in Seq(Frame) /\ s[k][i].pc \in IF s[k][i].prog = "ingress" THEN IngressPcs ELSE EgressPcs
    BY DEF Stacks
  <2>2. s[k][i] \in Frame
    BY <2>1
  <2> QED BY <2>1, <2>2, StepsLeftType
<1>3. \A k \in Nat : Len(s[k + 1]) <= XmitLimit
  BY DEF Shorter
<1> HIDE DEF Cut, Cuts
<1>4. XmitLimit \in Nat \ Settled
  <2>1. ASSUME NEW m \in Nat, \A k \in Nat : k >= m => Cut(k) > XmitLimit PROVE FALSE
    <3>1. m + 1 \in Nat /\ m + 1 >= m
      OBVIOUS
    <3>2. Cut(m + 1) > XmitLimit
      BY <2>1, <3>1
    <3>3. Cut(m + 1) <= Len(s[m + 1]) /\ Cut(m + 1) \in Nat /\ Len(s[m + 1]) \in Nat
      BY <1>1, <3>1
    <3> QED BY <1>3, <3>2, <3>3, ConstantsAssumption
  <2> QED BY <2>1, ConstantsAssumption
<1>5. 0 \in Settled
  <2>1. \A k \in Nat : Cut(k) > 0
    <3> TAKE k \in Nat
    <3>1. Cut(k) \in 1 .. Len(s[k]) /\ Len(s[k]) \in Nat
      BY <1>1
    <3> QED BY <3>1
  <2> QED BY <2>1
<1>6. PICK l \in Nat \ Settled : \A k \in Nat \ Settled : l <= k
  <2> HIDE DEF Settled
  <2> QED BY <1>4, LeastNatural
<1>7. l >= 1 /\ l - 1 \in Settled
  <2> HIDE DEF Settled
  <2>1. l >= 1 /\ l - 1 \in Nat
    BY <1>5, <1>6
  <2> QED BY <1>6, <2>1
<1>8. PICK m \in Nat : \A k \in Nat : k >= m => Cut(k) > l - 1
  BY <1>7
<1> HIDE DEF Settled
<1>9. ASSUME NEW k \in Nat, k >= m PROVE Cut(k) >= l /\ Cut(k) \in Nat
  <2>1. Cut(k) \in Nat /\ Cut(k) > l - 1 /\ l \in Nat
    BY <1>1, <1>8, <1>9
  <2> QED BY <2>1
<1> DEFINE Left(k) == StepsLeft(s[k][l])
<1>10. ASSUME NEW k \in Nat, k >= m
      PROVE  Left(k) \in Nat /\ Left(k + 1) <= Left(k) /\ (Cut(k) = l => Left(k + 1) < Left(k))
  <2>1. k + 1 \in Nat /\ k + 1 >= m
    BY <1>10
  <2>2. l \in 1 .. Len(s[k]) /\ l \in 1 .. Len(s[k + 1])
    <3>1. ASSUME NEW n \in Nat, n >= m PROVE l \in 1 .. Len(s[n])
      <4>1. Cut(n) >= l /\ Cut(n) \in 1 .. Len(s[n]) /\ Len(s[n]) \in Nat
        BY <1>1, <1>9, <3>1
      <4> QED BY <1>7, <4>1
    <3> QED BY <1>10, <2>1, <3>1
  <2>3. Left(k) \in Nat /\ Left(k + 1) \in Nat
    BY <1>2, <2>1, <2>2
  <2>4. CASE Cut(k) = l
    <3>1. Cuts(k, l)
      BY <1>1, <2>4
    <3>2. l <= Len(s[k + 1])
      <4>1. Len(s[k + 1]) \in Nat
        BY <1>1, <2>1
      <4> QED BY <2>2, <4>1
    <3>3. Left(k + 1) \in 0 .. Left(k) - 1
      BY <3>1, <3>2 DEF Cuts
    <3> HIDE DEF Left
    <3> QED BY <2>3, <3>3
  <2>5. CASE Cut(k) # l
    <3>1. l \in 1 .. Cut(k) - 1
      <4>1. Cut(k) >= l /\ Cut(k) \in Nat
        BY <1>9, <1>10
      <4> QED BY <1>7, <2>5, <4>1
    <3>2. s[k + 1][l] = s[k][l]
      BY <1>1, <3>1 DEF Cuts
    <3> QED BY <2>3, <2>5, <3>2
  <2> QED BY <2>3, <2>4, <2>5
<1> HIDE DEF Left
<1>11. PICK v \in {Left(k) : k \in {j \in Nat : j >= m}} :
         \A w \in {Left(k) : k \in {j \in Nat : j >= m}} : v <= w
  <2>1. {Left(k) : k \in {j \in Nat : j >= m}} \in SUBSET Nat
    BY <1>10
  <2>2. Left(m) \in {Left(k) : k \in {j \in Nat : j >= m}}
    OBVIOUS
  <2> QED BY <2>1, <2>2, LeastNatural
<1>12. PICK n \in Nat : n >= m /\ Left(n) = v
  BY <1>11
<1>13. \A k \in Nat : k >= m => v <= Left(k) /\ Left(k) \in Nat /\ v \in Nat
  BY <1>10, <1>11, <1>12
<1>14. \A k \in Nat : k >= n => Left(k) = v
  <2> DEFINE Other == {k \in Nat : k >= n /\ Left(k) # v}
  <2> SUFFICES ASSUME Other # {} PROVE FALSE
    OBVIOUS
  <2>1. PICK k \in Other : \A j \in Other : k <= j
    <3>1. Other \in SUBSET Nat
      OBVIOUS
    <3> HIDE DEF Other
    <3> QED BY <3>1, LeastNatural
  <2>2. k \in Nat /\ k > n /\ k - 1 \in Nat /\ k - 1 >= n /\ k - 1 >= m /\ (k - 1) + 1 = k
    BY <1>12, <2>1
  <2>3. Left(k - 1) = v
    BY <2>1, <2>2
  <2>4. Left(k) <= Left(k - 1)
    BY <1>10, <2>2
  <2>5. v <= Left(k) /\ Left(k) \in Nat /\ v \in Nat /\ Left(k) # v
    BY <1>13, <2>1, <2>2
  <2> QED BY <2>3, <2>4, <2>5
<1>15. \A k \in Nat : k >= n => Cut(k) > l
  <2> TAKE k \in Nat
  <2> HAVE k >= n
  <2>1. k >= m /\ k + 1 \in Nat /\ k + 1 >= n
    BY <1>12
  <2>2. Left(k) = v /\ Left(k + 1) = v /\ v \in Nat
    BY <1>13, <1>14, <2>1
  <2>3. Cut(k) # l
    BY <1>10, <2>1, <2>2
  <2>4. Cut(k) \in Nat /\ Cut(k) >= l
    BY <1>9, <2>1
  <2> QED BY <2>3, <2>4
<1>16. l \in Settled
  BY <1>15 DEF Settled
<1> QED BY <1>6, <1>16

-----------------------------------------------------------------------------
(* The theorems.                                                           *)

LEMMA InitInv == Init => IInv
<1> SUFFICES ASSUME Init PROVE IInv
  OBVIOUS
<1>1. TypeOK
  BY DEF Init, TypeOK, Replicas
<1> QED BY <1>1 DEF Init, IInv

LEMMA NextInv == IInv /\ [Next]_vars => IInv'
<1> SUFFICES ASSUME IInv, [Next]_vars PROVE IInv'
  OBVIOUS
<1>1. ASSUME NEW c \in CPUs, Run(c) PROVE IInv'
  BY <1>1, DoCloneInv, ClonesDoneInv, TcIngressInv, IngressProcessInv, IngressRejectInv,
     IngressPreDeparserInv, IngressResubmitInv, IngressDeparserInv, EndsInv, MulticastInv,
     UnicastInv, EgressProcessInv, EgressRejectInv, EgressDeparserInv, EgressCloneInv,
     RecirculateInv DEF Run
<1>2. ASSUME NEW c \in CPUs, Arrive(c) PROVE IInv'
  BY <1>2, XdpHelperInv, TakeRecirculatedInv DEF Arrive
<1>3. CASE UNCHANGED vars
  BY <1>3 DEF vars, IInv, TypeOK
<1> QED BY <1>1, <1>2, <1>3, ControlPlaneInv DEF Next

\* In every reachable state the inductive invariant holds, whatever the P4
\* program, the number of CPUs, the member lists and the limits.
THEOREM Invariant == Spec => []IInv
  BY InitInv, NextInv, PTL DEF Spec

\* The invariant, stated of the set of frames the properties speak of.
LEMMA FrameInv ==
  ASSUME IInv, NEW c \in CPUs, NEW f \in Frames(c)
  PROVE  \E i, n \in Nat : RunInv(f, i, n, hdr_md[c]) /\ f \in Frame
<1>1. PICK i \in 1 .. Len(stack[c]) : f = stack[c][i]
  BY DEF Frames
<1>2. stack[c] \in Seq(Frame)
  BY DEF IInv, TypeOK
<1>3. f \in Frame /\ i \in Nat /\ Len(stack[c]) \in Nat
  BY <1>1, <1>2
<1> QED BY <1>1, <1>3 DEF IInv

\* The state has its type: in particular the resubmit loop counts no further
\* than MaxResubmitDepth, the bound the verifier unrolls it to.
THEOREM TypeCorrect == Spec => []TypeOK
<1>1. IInv => TypeOK
  BY DEF IInv
<1> QED BY <1>1, Invariant, PTL

\* The "workaround" of ebpfPipeline.cpp:446 works: no program ever parses the
\* EtherType the XDP helper substituted, nor loses one a deparser wrote.
THEOREM TypeRestored == Spec => []ParserSeesTrueType
<1>1. IInv => ParserSeesTrueType
  BY FrameInv DEF ParserSeesTrueType, RunInv, TrueType, Parses
<1> QED BY <1>1, Invariant, PTL

\* Two slots per CPU (ebpfPsaGen.cpp:134-144) are enough although egress runs
\* interrupt ingress and egress runs to any depth.
THEOREM HeadersSafe == Spec => []HeadersIntact
<1>1. IInv => HeadersIntact
  BY FrameInv DEF HeadersIntact, RunInv
<1> QED BY <1>1, Invariant, PTL

\* packet_path names the cause for every way into a program but unicast.
THEOREM PathsRight == Spec => []PathTellsCause
<1>1. IInv => PathTellsCause
  BY FrameInv DEF PathTellsCause, RunInv, Parses
<1> QED BY <1>1, Invariant, PTL

\* do_packet_clones() puts the original path back whenever it went through the
\* member list, so no unicast packet is taken for a copy.
THEOREM UnicastSafe == Spec => []UnicastPath
<1>1. ASSUME IInv, NEW c \in CPUs, NEW f \in Frames(c), Parses(f),
             f.cause = "NORMAL_UNICAST", ~f.pkt.unlisted
      PROVE  f.pkt.path \in OriginalPaths
  <2>1. PICK i, n \in Nat : RunInv(f, i, n, hdr_md[c]) /\ f \in Frame
    BY <1>1, FrameInv
  <2>2. f.prog = "egress" /\ f.pc = "tc"
    BY <1>1, <2>1 DEF RunInv, Parses, Frame
  <2> QED BY <1>1, <2>1, <2>2 DEF RunInv
<1>2. IInv => UnicastPath
  BY <1>1 DEF UnicastPath, OriginalPaths
<1> QED BY <1>2, Invariant, PTL

\* Copies carry the bytes PSA promises: as received for CLONE_I2E and resubmit,
\* as deparsed for multicast and CLONE_E2E.
THEOREM CopiesRight == Spec => []CopiesCarryRightBytes
<1>1. IInv => CopiesCarryRightBytes
  BY FrameInv DEF CopiesCarryRightBytes, RunInv, Undeparsed, Parses
<1> QED BY <1>1, Invariant, PTL

\* No more runs are nested than the kernel allows, and no list of copies outgrows the
\* inner map: the bounds that keep a softirq finite.
LEMMA BoundsNext ==
  ASSUME IInv, BoundsInv, [Next]_vars
  PROVE  /\ BoundsInv'
         /\ \A c \in CPUs : Busy(c) /\ stack'[c] # stack[c] => Shorter(stack'[c], stack[c])
<1>1. ASSUME NEW c \in CPUs, Run(c)
      PROVE  /\ BoundsInv'
             /\ \A d \in CPUs : Busy(d) /\ stack'[d] # stack[d] => Shorter(stack'[d], stack[d])
  <2>1. Shortens(c)
    BY <1>1, RunShortens
  <2>2. \A d \in CPUs : stack'[d] = stack[d] \/ Shorter(stack'[d], stack[d])
    BY <2>1 DEF Shortens
  <2> QED BY <2>1, <2>2, ShortensBounds
<1>2. ASSUME NEW c \in CPUs, Arrive(c)
      PROVE  /\ BoundsInv'
             /\ \A d \in CPUs : Busy(d) /\ stack'[d] # stack[d] => Shorter(stack'[d], stack[d])
  <2>1. BoundsInv' /\ ~Busy(c) /\ \A d \in CPUs \ {c} : stack'[d] = stack[d]
    BY <1>2, ArriveBounds
  <2> QED BY <2>1
<1>3. CASE ControlPlane
  BY <1>3, ControlPlaneBounds
<1>4. CASE UNCHANGED vars
  BY <1>4 DEF vars, BoundsInv
<1> QED BY <1>1, <1>2, <1>3, <1>4 DEF Next

\* Resubmission, copies of copies and the turn from ingress to egress all bring a
\* softirq nearer to its end, for every P4 program, every limit and every interleaving
\* with the control plane: with ShorterWellFounded, the only way for a run not to end is
\* not to be scheduled.
THEOREM RunsGetShorter == Spec => RunsShorten
<1>1. Init => BoundsInv
  <2>1. Len(<<>>) = 0 /\ MaxMembers >= 0 /\ XmitLimit >= 0
    BY ConstantsAssumption
  <2> QED BY <2>1 DEF Init, BoundsInv
<1>2. IInv /\ BoundsInv /\ [Next]_vars => BoundsInv'
  BY BoundsNext
<1>3. IInv /\ BoundsInv /\ [Next]_vars
        => [\A c \in CPUs : Busy(c) /\ stack'[c] # stack[c] => Shorter(stack'[c], stack[c])]_vars
  BY BoundsNext
<1>4. Spec => []BoundsInv
  BY <1>1, <1>2, Invariant, PTL DEF Spec
<1> QED BY <1>3, <1>4, Invariant, PTL DEF Spec, RunsShorten

=============================================================================
