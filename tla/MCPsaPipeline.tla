--------------------------- MODULE MCPsaPipeline ---------------------------
(***************************************************************************)
(* PsaPipeline for TLC: one clone session, one multicast group, an IP and  *)
(* a non-IP EtherType, a P4 program that may take every decision the       *)
(* output metadata can express (see Decisions) and may rewrite the         *)
(* EtherType.                                                              *)
(***************************************************************************)
EXTENDS PsaPipeline

CONSTANTS ip, arp, noMeta, noHdr, p0, p1, rc, s1, g1, g0

MCMembers == {[egress_port |-> rc, instance |-> 1, class_of_service |-> 1]}

\* What the ingress control block may write into ostd; fields not named keep
\* what the previous pass left in them.
Send(o, p)    == [o EXCEPT !.drop = FALSE, !.multicast_group = NoGroup, !.egress_port = p]
CloneTo(o, s) == [o EXCEPT !.clone = TRUE, !.clone_session_id = s]

MCIngressControl(t, path, o) ==
  [out : LET basic == {o, [Send(o, p1) EXCEPT !.class_of_service = 1], Send(o, rc),
                       [o EXCEPT !.drop = FALSE, !.multicast_group = g1],
                       [o EXCEPT !.drop = FALSE, !.resubmit = TRUE]}
         IN basic \cup {CloneTo(b, s1) : b \in basic},
   type : EtherTypes]

MCEgressControl(t, path, o) ==
  [out : {o, [o EXCEPT !.drop = TRUE], CloneTo(o, s1)}, type : EtherTypes]
=============================================================================
