---------------------------- MODULE PcapRuntime ----------------------------
(***************************************************************************)
(* One run of the test target's main program: the capture files of the     *)
(* interfaces are read, merged and sorted by time, each packet is given to *)
(* ebpf_filter(), and the packets it accepts are written to one file per   *)
(* interface (launch_runtime(), run_and_record_output() and pcap_util.c).  *)
(* The test then compares every file with the expected packets, in order.  *)
(***************************************************************************)
EXTENDS Integers, Sequences, FiniteSets, SequencesExt, Functions

CONSTANTS
  Captures,   \* what target.py may write: [set of interfaces -> list of packets]
  NULL

\* A packet: its interface, its place in that interface's file, its timestamp.
Packet == [ifindex : Nat, nr : Nat, sec : Nat, usec : Nat]

Earlier(p, q) == p.sec < q.sec \/ (p.sec = q.sec /\ p.usec < q.usec)

\* The packets of a file bear its interface and were captured one after another.
ASSUME CapturesAssumption == \A capture \in Captures :
  /\ DOMAIN capture \subseteq Nat /\ IsFiniteSet(DOMAIN capture)
  /\ \A f \in DOMAIN capture :
       /\ capture[f] \in Seq(Packet)
       /\ \A n \in DOMAIN capture[f] : capture[f][n].ifindex = f /\ capture[f][n].nr = n
       /\ \A m, n \in DOMAIN capture[f] : m < n => ~Earlier(capture[f][n], capture[f][m])

VARIABLES
  capture,    \* the input files; they do not change
  pc,
  i,          \* the counter of the loop that runs
  array,      \* the lists read so far, from interface 0 on; NULL for a failed read
  pkt_list,   \* the input packets in one list
  output,     \* output_pkts: the packets that survive the filter
  max_index,  \* their largest interface so far
  lists,      \* result_arr: the survivors of each interface, from interface 0 on
  files,      \* the output files written
  accepted    \* history: the packets ebpf_filter() accepted

vars == <<capture, pc, i, array, pkt_list, output, max_index, lists, files, accepted>>

\* test_target.py counts the input files and passes their number with -n; main()
\* rejects more than UINT16_MAX, so that no interface index wraps.
num_pcaps == Cardinality(DOMAIN capture)

TypeOK ==
  /\ capture \in Captures
  /\ pc \in {"read", "merge", "sort", "feed", "max", "split", "write", "done", "crashed"}
  /\ i \in Nat
  /\ array \in Seq(Seq(Packet) \cup {NULL})
  /\ \A f \in DOMAIN array : array[f] # NULL => f - 1 \in DOMAIN capture /\ array[f] = capture[f - 1]
  /\ pc = "read" => i = Len(array) /\ i <= num_pcaps
  /\ pc = "merge" => i \in 1 .. Len(array) + 1
  /\ pkt_list \in Seq(Packet) /\ output \in Seq(Packet)
  /\ pc = "feed" => i \in 1 .. Len(pkt_list) + 1
  /\ max_index \in Nat
  /\ pc \in {"max", "split"} => i \in 1 .. Len(output) + 1
  /\ lists \in Seq(Seq(Packet)) /\ files \in Seq(Seq(Packet))
  /\ pc = "write" => i \in 1 .. Len(lists) + 1
  /\ accepted \subseteq Packet

-----------------------------------------------------------------------------

\* Mutant: the files are taken to be numbered from 1.
ReadFile_FromOne ==
  /\ pc = "read" /\ i < num_pcaps
  /\ array' = Append(array, IF i + 1 \in DOMAIN capture THEN capture[i + 1] ELSE NULL)
  /\ i' = i + 1
  /\ UNCHANGED <<capture, pc, pkt_list, output, max_index, lists, files, accepted>>

\* get_packets(): pcap<i>_in.pcap for i in 0 .. num_pcaps - 1.
ReadFile ==
  /\ pc = "read" /\ i < num_pcaps
  /\ array' = Append(array, IF i \in DOMAIN capture THEN capture[i] ELSE NULL)
  /\ i' = i + 1
  /\ UNCHANGED <<capture, pc, pkt_list, output, max_index, lists, files, accepted>>

StartMerge ==
  /\ pc = "read" /\ i = num_pcaps
  /\ pc' = "merge" /\ i' = 1
  /\ UNCHANGED <<capture, array, pkt_list, output, max_index, lists, files, accepted>>

\* merge_and_delete_lists() reads the length of every list, of a missing one too.
MergeList ==
  /\ pc = "merge" /\ i <= Len(array)
  /\ IF array[i] = NULL
     THEN pc' = "crashed" /\ UNCHANGED <<i, pkt_list>>
     ELSE pkt_list' = pkt_list \o array[i] /\ i' = i + 1 /\ UNCHANGED pc
  /\ UNCHANGED <<capture, array, output, max_index, lists, files, accepted>>

EndMerge ==
  /\ pc = "merge" /\ i = Len(array) + 1
  /\ pc' = "sort"
  /\ UNCHANGED <<capture, i, array, pkt_list, output, max_index, lists, files, accepted>>

\* Mutant: the other way around.
compare_pkt_time_Reverse(p, q) == q.usec - p.usec

\* compare_pkt_time() does not look at tv_sec.
compare_pkt_time(p, q) == p.usec - q.usec

Sorted(s) == \A a, b \in DOMAIN s : a < b => compare_pkt_time(s[a], s[b]) <= 0

\* qsort() may put packets that compare equal in any order.
SortPackets ==
  /\ pc = "sort"
  /\ \E place \in Bijection(DOMAIN pkt_list, DOMAIN pkt_list) :
       pkt_list' = [a \in DOMAIN pkt_list |-> pkt_list[place[a]]]
  /\ Sorted(pkt_list')
  /\ pc' = "feed" /\ i' = 1
  /\ UNCHANGED <<capture, array, output, max_index, lists, files, accepted>>

\* feed_packets(): the filter accepts or rejects; accepted packets are copied.
FeedPacket ==
  /\ pc = "feed" /\ i <= Len(pkt_list)
  /\ \/ output' = Append(output, pkt_list[i]) /\ accepted' = accepted \cup {pkt_list[i]}
     \/ UNCHANGED <<output, accepted>>
  /\ i' = i + 1
  /\ UNCHANGED <<capture, pc, array, pkt_list, max_index, lists, files>>

\* split_and_delete_list() returns at once if nothing survived.
StartSplit ==
  /\ pc = "feed" /\ i = Len(pkt_list) + 1
  /\ pc' = IF output = <<>> THEN "write" ELSE "max"
  /\ i' = 1
  /\ UNCHANGED <<capture, array, pkt_list, output, max_index, lists, files, accepted>>

FindMaxIndex ==
  /\ pc = "max" /\ i <= Len(output)
  /\ max_index' = IF output[i].ifindex > max_index THEN output[i].ifindex ELSE max_index
  /\ i' = i + 1
  /\ UNCHANGED <<capture, pc, array, pkt_list, output, lists, files, accepted>>

\* Mutant: as many lists as the maximum index, as the comment has it.
AllocateLists_Short ==
  /\ pc = "max" /\ i = Len(output) + 1
  /\ lists' = [f \in 1 .. max_index |-> <<>>]
  /\ pc' = "split" /\ i' = 1
  /\ UNCHANGED <<capture, array, pkt_list, output, max_index, files, accepted>>

\* A list for every interface up to the last one that has a survivor.
AllocateLists ==
  /\ pc = "max" /\ i = Len(output) + 1
  /\ lists' = [f \in 1 .. max_index + 1 |-> <<>>]
  /\ pc' = "split" /\ i' = 1
  /\ UNCHANGED <<capture, array, pkt_list, output, max_index, files, accepted>>

SplitPacket ==
  /\ pc = "split" /\ i <= Len(output)
  /\ lists' = [lists EXCEPT ![output[i].ifindex + 1] = Append(@, output[i])]
  /\ i' = i + 1
  /\ UNCHANGED <<capture, pc, array, pkt_list, output, max_index, files, accepted>>

EndSplit ==
  /\ pc = "split" /\ i = Len(output) + 1
  /\ pc' = "write" /\ i' = 1
  /\ UNCHANGED <<capture, array, pkt_list, output, max_index, lists, files, accepted>>

\* write_pkts_to_pcaps(): pcap<i - 1>_out.pcap.
WriteFile ==
  /\ pc = "write" /\ i <= Len(lists)
  /\ files' = Append(files, lists[i])
  /\ i' = i + 1
  /\ UNCHANGED <<capture, pc, array, pkt_list, output, max_index, lists, accepted>>

\* Everything is freed; main() returns.
Finish ==
  /\ pc = "write" /\ i = Len(lists) + 1
  /\ pc' = "done"
  /\ UNCHANGED <<capture, i, array, pkt_list, output, max_index, lists, files, accepted>>

-----------------------------------------------------------------------------

Init ==
  /\ capture \in Captures
  /\ num_pcaps > 0
  /\ pc = "read" /\ i = 0 /\ max_index = 0
  /\ array = <<>> /\ pkt_list = <<>> /\ output = <<>> /\ lists = <<>> /\ files = <<>>
  /\ accepted = {}

Next ==
  \/ ReadFile \/ StartMerge \/ MergeList \/ EndMerge \/ SortPackets
  \/ FeedPacket \/ StartSplit \/ FindMaxIndex \/ AllocateLists \/ SplitPacket \/ EndSplit
  \/ WriteFile \/ Finish

Spec == Init /\ [][Next]_vars

-----------------------------------------------------------------------------
(* Properties.                                                             *)

Captured == UNION {ToSet(capture[f]) : f \in DOMAIN capture}

\* From merging to writing no packet is lost, doubled or moved: the program is run
\* once on every captured packet, and the output file of an interface holds each
\* accepted packet of that interface once; without a file there was none.
OutputsAreAccepted ==
  /\ pc = "feed" => IsInjective(pkt_list) /\ ToSet(pkt_list) = Captured
  /\ pc = "done" =>
       /\ \A f \in DOMAIN files :
            /\ IsInjective(files[f])
            /\ ToSet(files[f]) = {p \in accepted : p.ifindex = f - 1}
       /\ \A p \in accepted : p.ifindex + 1 \in DOMAIN files

\* check_outputs() of target.py compares the packets of an interface in order.  They
\* come out in the order of the input file if that file was captured within one
\* second and no two of its packets in one microsecond, whatever the sort makes of
\* the packets of other interfaces.
CaptureOrder ==
  pc = "done" => \A f \in DOMAIN capture :
    (/\ f + 1 \in DOMAIN files
     /\ \A m, n \in DOMAIN capture[f] :
          /\ capture[f][m].sec = capture[f][n].sec
          /\ m # n => capture[f][m].usec # capture[f][n].usec)
    => \A a, b \in DOMAIN files[f + 1] : a < b => files[f + 1][a].nr < files[f + 1][b].nr

\* pcap_util.h:210, sort_pcap_list "Sorts a given list by the timestamp of the
\* packets contained in it."
SortedByTimestamp ==
  pc = "feed" => \A a, b \in DOMAIN pkt_list : a < b => ~Earlier(pkt_list[b], pkt_list[a])

\* pcap_util.h:82-83, merge_and_delete_lists returns "A single merged list contained
\* all packets. Null if the operation the fails."
MergeReturns == pc # "crashed"

=============================================================================
