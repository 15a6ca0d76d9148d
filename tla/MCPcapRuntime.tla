--------------------------- MODULE MCPcapRuntime ---------------------------
(***************************************************************************)
(* PcapRuntime for TLC: up to two packets on each of two interfaces out of *)
(* three, stamped in either of two seconds and two microseconds.           *)
(***************************************************************************)
EXTENDS PcapRuntime

Stamps == {0, 1} \X {0, 1}
File(f, stamps) ==
  [n \in DOMAIN stamps |-> [ifindex |-> f, nr |-> n, sec |-> stamps[n][1], usec |-> stamps[n][2]]]
InOrder(s) == \A a, b \in DOMAIN s : a < b => ~Earlier(s[b], s[a])
FilesOf(f) == {s \in {File(f, t) : t \in BoundedSeq(Stamps, 2)} : InOrder(s)}

MCCaptures ==
  {c \in [{0, 1} -> UNION {FilesOf(f) : f \in {0, 1}}] : \A f \in {0, 1} : c[f] \in FilesOf(f)}
  \cup {[f \in {0, 2} |-> File(f, <<s>>)] : s \in Stamps}

=============================================================================
