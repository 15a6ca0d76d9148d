------------------------- MODULE PcapRuntime_proofs -------------------------
(***************************************************************************)
(* Proofs about PcapRuntime: whatever the capture files hold, however many *)
(* there are and whatever the filter accepts, the output files hold every  *)
(* accepted packet once, in the file of its interface and in the order of  *)
(* the input file wherever the timestamps tell.                            *)
(***************************************************************************)
EXTENDS PcapRuntime, SequenceTheorems, FiniteSetTheorems, TLAPS

-----------------------------------------------------------------------------
(* The inductive invariant, one conjunct per list the program builds.      *)

\* What is read is the file of that number, if there is one.
ArrayRead ==
  /\ pc \notin {"read", "crashed"} => Len(array) = num_pcaps
  /\ \A f \in DOMAIN array : f - 1 \in DOMAIN capture => array[f] = capture[f - 1]
  /\ \A f \in DOMAIN array : f - 1 \notin DOMAIN capture => array[f] = NULL

\* Before merging the list is empty; merging has put the packets of the first
\* lists into it, each once; from then on it holds every captured packet once.
PacketsMerged ==
  /\ pc = "read" => pkt_list = <<>>
  /\ pc = "merge" =>
       /\ \A f \in 1 .. i - 1 : array[f] # NULL
       /\ ToSet(pkt_list) = {p \in Captured : p.ifindex < i - 1}
  /\ pc \notin {"read", "merge", "crashed"} => ToSet(pkt_list) = Captured
  /\ IsInjective(pkt_list)
  /\ pc \notin {"read", "merge", "sort", "crashed"} => Sorted(pkt_list)

\* The survivors are accepted packets out of those fed so far, in their order.
PacketsFed ==
  /\ pc \in {"read", "merge", "sort", "crashed"} => output = <<>>
  /\ pc = "feed" => \A p \in ToSet(output) : \E b \in 1 .. i - 1 : p = pkt_list[b]
  /\ accepted = ToSet(output) /\ accepted \subseteq Captured
  /\ IsInjective(output) /\ Sorted(output)

\* No survivor has an interface for which no list is allocated.
IndexFound ==
  /\ pc \notin {"max", "split", "write", "done"} => max_index = 0
  /\ pc = "max" => \A a \in 1 .. i - 1 : output[a].ifindex <= max_index
  /\ pc = "split" =>
       /\ Len(lists) = max_index + 1
       /\ \A a \in DOMAIN output : output[a].ifindex <= max_index

\* The list of an interface holds its survivors among those split so far.
PacketsSplit ==
  /\ pc \notin {"split", "write", "done"} => lists = <<>>
  /\ pc = "split" => \A f \in DOMAIN lists :
       ToSet(lists[f]) = {p \in {output[a] : a \in 1 .. i - 1} : p.ifindex = f - 1}
  /\ pc \in {"write", "done"} =>
       /\ \A f \in DOMAIN lists : ToSet(lists[f]) = {p \in accepted : p.ifindex = f - 1}
       /\ \A p \in accepted : p.ifindex + 1 \in DOMAIN lists
  /\ \A f \in DOMAIN lists : IsInjective(lists[f]) /\ Sorted(lists[f])

\* The files written are the first lists.
FilesWritten ==
  /\ pc \notin {"write", "done"} => files = <<>>
  /\ pc = "write" => Len(files) = i - 1
  /\ pc = "done" => Len(files) = Len(lists)
  /\ \A f \in DOMAIN files : f \in DOMAIN lists /\ files[f] = lists[f]

IInv ==
  /\ TypeOK
  /\ ArrayRead
  /\ PacketsMerged
  /\ PacketsFed
  /\ IndexFound
  /\ PacketsSplit
  /\ FilesWritten

-----------------------------------------------------------------------------
(* Lists of packets.                                                       *)

\* append_packet() of a packet that is not in the list.
LEMMA AppendPacket ==
  ASSUME NEW s \in Seq(Packet), NEW p \in Packet
  PROVE  /\ Append(s, p) \in Seq(Packet)
         /\ ToSet(Append(s, p)) = ToSet(s) \cup {p}
         /\ IsInjective(s) /\ p \notin ToSet(s) => IsInjective(Append(s, p))
         /\ Sorted(s) /\ (\A q \in ToSet(s) : compare_pkt_time(q, p) <= 0) => Sorted(Append(s, p))
<1> DEFINE t == Append(s, p)
<1>1. /\ t \in Seq(Packet) /\ Len(t) = Len(s) + 1
      /\ \A a \in 1 .. Len(s) : t[a] = s[a]
      /\ t[Len(s) + 1] = p
  BY AppendProperties
<1>2. Len(s) \in Nat /\ DOMAIN s = 1 .. Len(s) /\ DOMAIN t = 1 .. Len(s) + 1
  BY <1>1, LenProperties
<1> HIDE DEF t
<1>3. ToSet(t) = ToSet(s) \cup {p}
  <2>1. \A q \in ToSet(t) : q \in ToSet(s) \cup {p}
    BY <1>1, <1>2 DEF ToSet
  <2>2. \A q \in ToSet(s) \cup {p} : q \in ToSet(t)
    BY <1>1, <1>2 DEF ToSet
  <2> QED BY <2>1, <2>2
<1>4. ASSUME IsInjective(s), p \notin ToSet(s) PROVE IsInjective(t)
  <2> SUFFICES ASSUME NEW a \in 1 .. Len(s) + 1, NEW b \in 1 .. Len(s) + 1, t[a] = t[b]
               PROVE  a = b
    BY <1>2 DEF IsInjective
  <2>1. \A c \in 1 .. Len(s) : s[c] # p
    BY <1>2, <1>4 DEF ToSet
  <2>2. \A c, d \in 1 .. Len(s) : s[c] = s[d] => c = d
    BY <1>2, <1>4 DEF IsInjective
  <2> QED BY <1>1, <1>2, <2>1, <2>2
<1>5. ASSUME Sorted(s), \A q \in ToSet(s) : compare_pkt_time(q, p) <= 0 PROVE Sorted(t)
  <2> SUFFICES ASSUME NEW a \in 1 .. Len(s) + 1, NEW b \in 1 .. Len(s) + 1, a < b
               PROVE  compare_pkt_time(t[a], t[b]) <= 0
    BY <1>2 DEF Sorted
  <2>1. a \in 1 .. Len(s) /\ t[a] = s[a] /\ s[a] \in ToSet(s)
    BY <1>1, <1>2 DEF ToSet
  <2>2. CASE b \in 1 .. Len(s)
    BY <1>1, <1>2, <1>5, <2>1, <2>2 DEF Sorted
  <2>3. CASE b = Len(s) + 1
    BY <1>1, <1>5, <2>1, <2>3
  <2> QED BY <1>2, <2>2, <2>3
<1> QED BY <1>1, <1>3, <1>4, <1>5 DEF t

\* append_packet() of every packet of another list.
LEMMA AppendList ==
  ASSUME NEW s \in Seq(Packet), NEW t \in Seq(Packet)
  PROVE  /\ s \o t \in Seq(Packet)
         /\ ToSet(s \o t) = ToSet(s) \cup ToSet(t)
         /\ IsInjective(s) /\ IsInjective(t) /\ ToSet(s) \cap ToSet(t) = {} => IsInjective(s \o t)
<1> DEFINE u == s \o t
<1>1. /\ u \in Seq(Packet) /\ Len(u) = Len(s) + Len(t)
      /\ \A a \in 1 .. Len(s) + Len(t) : u[a] = IF a <= Len(s) THEN s[a] ELSE t[a - Len(s)]
  BY ConcatProperties
<1>2. /\ Len(s) \in Nat /\ Len(t) \in Nat
      /\ DOMAIN s = 1 .. Len(s) /\ DOMAIN t = 1 .. Len(t) /\ DOMAIN u = 1 .. Len(s) + Len(t)
  BY <1>1, LenProperties
<1> HIDE DEF u
<1>3. ToSet(u) = ToSet(s) \cup ToSet(t)
  <2>1. ASSUME NEW a \in DOMAIN u PROVE u[a] \in ToSet(s) \cup ToSet(t)
    <3>1. CASE a <= Len(s)
      <4>1. a \in DOMAIN s /\ u[a] = s[a]
        BY <1>1, <1>2, <2>1, <3>1
      <4> QED BY <4>1 DEF ToSet
    <3>2. CASE a > Len(s)
      <4>1. a - Len(s) \in DOMAIN t /\ u[a] = t[a - Len(s)]
        BY <1>1, <1>2, <2>1, <3>2
      <4> QED BY <4>1 DEF ToSet
    <3> QED BY <1>2, <2>1, <3>1, <3>2
  <2>2. ASSUME NEW a \in DOMAIN s PROVE s[a] \in ToSet(u)
    BY <1>1, <1>2, <2>2 DEF ToSet
  <2>3. ASSUME NEW a \in DOMAIN t PROVE t[a] \in ToSet(u)
    <3>1. a + Len(s) \in DOMAIN u /\ u[a + Len(s)] = t[a]
      BY <1>1, <1>2, <2>3
    <3> QED BY <3>1 DEF ToSet
  <2> QED BY <2>1, <2>2, <2>3 DEF ToSet
<1>4. ASSUME IsInjective(s), IsInjective(t), ToSet(s) \cap ToSet(t) = {} PROVE IsInjective(u)
  <2> SUFFICES ASSUME NEW a \in DOMAIN u, NEW b \in DOMAIN u, u[a] = u[b]
               PROVE  a = b
    BY DEF IsInjective
  <2>1. \A c \in DOMAIN s, d \in DOMAIN t : s[c] # t[d]
    BY <1>4 DEF ToSet
  <2>2. \A c, d \in DOMAIN s : s[c] = s[d] => c = d
    BY <1>4 DEF IsInjective
  <2>3. \A c, d \in DOMAIN t : t[c] = t[d] => c = d
    BY <1>4 DEF IsInjective
  <2>4. CASE a <= Len(s) /\ b <= Len(s)
    BY <1>1, <1>2, <2>2, <2>4
  <2>5. CASE a <= Len(s) /\ b > Len(s)
    <3>1. a \in DOMAIN s /\ b - Len(s) \in DOMAIN t /\ u[a] = s[a] /\ u[b] = t[b - Len(s)]
      BY <1>1, <1>2, <2>5
    <3> QED BY <2>1, <3>1
  <2>6. CASE a > Len(s) /\ b <= Len(s)
    <3>1. b \in DOMAIN s /\ a - Len(s) \in DOMAIN t /\ u[b] = s[b] /\ u[a] = t[a - Len(s)]
      BY <1>1, <1>2, <2>6
    <3> QED BY <2>1, <3>1
  <2>7. CASE a > Len(s) /\ b > Len(s)
    <3>1. /\ a - Len(s) \in DOMAIN t /\ b - Len(s) \in DOMAIN t
          /\ u[a] = t[a - Len(s)] /\ u[b] = t[b - Len(s)]
      BY <1>1, <1>2, <2>7
    <3>2. a - Len(s) = b - Len(s)
      BY <2>3, <3>1
    <3> QED BY <1>2, <3>2
  <2> QED BY <1>2, <2>4, <2>5, <2>6, <2>7
<1> QED BY <1>1, <1>3, <1>4 DEF u

LEMMA EmptyList ==
  /\ <<>> \in Seq(Packet) /\ Len(<<>>) = 0 /\ ToSet(<<>>) = {} /\ IsInjective(<<>>) /\ Sorted(<<>>)
<1>1. <<>> \in Seq(Packet) /\ Len(<<>>) = 0 /\ DOMAIN <<>> = {}
  OBVIOUS
<1> QED BY <1>1 DEF ToSet, IsInjective, Sorted

\* qsort() neither adds nor drops a packet.
LEMMA PermutedList ==
  ASSUME NEW s \in Seq(Packet), NEW place \in Bijection(DOMAIN s, DOMAIN s),
         NEW t, t = [a \in DOMAIN s |-> s[place[a]]]
  PROVE  t \in Seq(Packet) /\ ToSet(t) = ToSet(s) /\ (IsInjective(s) => IsInjective(t))
<1>1. /\ place \in [DOMAIN s -> DOMAIN s] /\ IsInjective(place)
      /\ \A b \in DOMAIN s : \E a \in DOMAIN s : place[a] = b
  BY DEF Bijection, Injection, Surjection
<1>2. Len(s) \in Nat /\ DOMAIN s = 1 .. Len(s) /\ \A a \in DOMAIN s : s[a] \in Packet
  BY LenProperties
<1>3. DOMAIN t = DOMAIN s /\ \A a \in DOMAIN s : t[a] = s[place[a]]
  OBVIOUS
<1>4. t \in Seq(Packet)
  BY <1>1, <1>2, <1>3
<1>5. ToSet(t) = ToSet(s)
  BY <1>1, <1>3 DEF ToSet
<1>6. IsInjective(s) => IsInjective(t)
  BY <1>1, <1>3 DEF IsInjective
<1> QED BY <1>4, <1>5, <1>6

-----------------------------------------------------------------------------
(* The capture files.                                                      *)

LEMMA CaptureFiles ==
  ASSUME capture \in Captures
  PROVE  /\ DOMAIN capture \subseteq Nat /\ IsFiniteSet(DOMAIN capture)
         /\ \A f \in DOMAIN capture :
              /\ capture[f] \in Seq(Packet) /\ IsInjective(capture[f])
              /\ \A n \in DOMAIN capture[f] :
                   /\ capture[f][n] \in Packet /\ capture[f][n] \in Captured
                   /\ capture[f][n].ifindex = f /\ capture[f][n].nr = n
              /\ ToSet(capture[f]) = {p \in Captured : p.ifindex = f}
              /\ \A m, n \in DOMAIN capture[f] : m < n => ~Earlier(capture[f][n], capture[f][m])
         /\ \A p \in Captured :
              /\ p \in Packet /\ p.ifindex \in DOMAIN capture
              /\ p.nr \in DOMAIN capture[p.ifindex] /\ p = capture[p.ifindex][p.nr]
         /\ num_pcaps \in Nat
<1>1. /\ DOMAIN capture \subseteq Nat /\ IsFiniteSet(DOMAIN capture)
      /\ \A f \in DOMAIN capture :
           /\ capture[f] \in Seq(Packet)
           /\ \A n \in DOMAIN capture[f] : capture[f][n].ifindex = f /\ capture[f][n].nr = n
           /\ \A m, n \in DOMAIN capture[f] : m < n => ~Earlier(capture[f][n], capture[f][m])
  BY CapturesAssumption
<1>2. num_pcaps \in Nat
  BY <1>1, FS_CardinalityType DEF num_pcaps
<1>3. ASSUME NEW f \in DOMAIN capture
      PROVE  /\ IsInjective(capture[f])
             /\ \A n \in DOMAIN capture[f] : capture[f][n] \in Packet /\ capture[f][n] \in Captured
  <2>1. \A n \in DOMAIN capture[f] : capture[f][n] \in Packet
    BY <1>1, <1>3, LenProperties
  <2>2. IsInjective(capture[f])
    BY <1>1, <1>3 DEF IsInjective
  <2>3. \A n \in DOMAIN capture[f] : capture[f][n] \in Captured
    BY <1>3 DEF Captured, ToSet
  <2> QED BY <2>1, <2>2, <2>3
<1>4. ASSUME NEW p \in Captured
      PROVE  /\ p \in Packet /\ p.ifindex \in DOMAIN capture
             /\ p.nr \in DOMAIN capture[p.ifindex] /\ p = capture[p.ifindex][p.nr]
  <2>1. PICK f \in DOMAIN capture : p \in ToSet(capture[f])
    BY <1>4 DEF Captured
  <2>2. PICK n \in DOMAIN capture[f] : p = capture[f][n]
    BY <2>1 DEF ToSet
  <2>3. p.ifindex = f /\ p.nr = n
    BY <1>1, <2>1, <2>2
  <2> QED BY <1>3, <2>1, <2>2, <2>3
<1>5. ASSUME NEW f \in DOMAIN capture
      PROVE  ToSet(capture[f]) = {p \in Captured : p.ifindex = f}
  <2>1. \A p \in ToSet(capture[f]) : p \in Captured /\ p.ifindex = f
    BY <1>1, <1>3, <1>5 DEF ToSet
  <2>2. \A p \in Captured : p.ifindex = f => p \in ToSet(capture[f])
    BY <1>4, <1>5 DEF ToSet
  <2> QED BY <2>1, <2>2
<1> QED BY <1>1, <1>2, <1>3, <1>4, <1>5

\* If none of the first num_pcaps files is missing then there are no others.
LEMMA AllRead ==
  ASSUME TypeOK, ArrayRead, Len(array) = num_pcaps, \A f \in 1 .. Len(array) : array[f] # NULL
  PROVE  DOMAIN capture = 0 .. num_pcaps - 1
<1>1. capture \in Captures /\ DOMAIN array = 1 .. num_pcaps
  BY LenProperties DEF TypeOK
<1>2. num_pcaps \in Nat /\ IsFiniteSet(DOMAIN capture)
  BY <1>1, CaptureFiles
<1>3. \A f \in 0 .. num_pcaps - 1 : f \in DOMAIN capture
  <2> SUFFICES ASSUME NEW f \in 0 .. num_pcaps - 1
               PROVE  f \in DOMAIN capture
    OBVIOUS
  <2>1. f + 1 \in DOMAIN array /\ (f + 1) - 1 = f
    BY <1>1, <1>2
  <2> QED BY <1>1, <2>1 DEF ArrayRead
<1>4. Cardinality(0 .. num_pcaps - 1) = num_pcaps
  BY <1>2, FS_Interval
<1> QED BY <1>2, <1>3, <1>4, FS_Subset DEF num_pcaps

-----------------------------------------------------------------------------
(* Every step keeps the invariant, conjunct by conjunct.                   *)

LEMMA InitIInv == Init => IInv
<1> SUFFICES ASSUME Init PROVE IInv
  OBVIOUS
<1>1. capture \in Captures /\ num_pcaps \in Nat
  BY CaptureFiles DEF Init
<1>2. TypeOK
  BY <1>1 DEF Init, TypeOK
<1>3. ArrayRead /\ IndexFound /\ FilesWritten
  BY DEF Init, ArrayRead, IndexFound, FilesWritten
<1>4. PacketsMerged /\ PacketsFed /\ PacketsSplit
  BY EmptyList DEF Init, PacketsMerged, PacketsFed, PacketsSplit
<1> QED BY <1>2, <1>3, <1>4 DEF IInv

LEMMA Stuttering == IInv /\ UNCHANGED vars => IInv'
<1> SUFFICES ASSUME IInv, UNCHANGED vars PROVE IInv'
  OBVIOUS
<1> USE DEF vars
<1>1. TypeOK'
  BY DEF IInv, TypeOK, num_pcaps
<1>2. ArrayRead'
  BY DEF IInv, ArrayRead, num_pcaps
<1>3. PacketsMerged' /\ PacketsFed'
  BY DEF IInv, PacketsMerged, PacketsFed, Captured
<1>4. IndexFound' /\ PacketsSplit' /\ FilesWritten'
  BY DEF IInv, IndexFound, PacketsSplit, FilesWritten
<1> QED BY <1>1, <1>2, <1>3, <1>4 DEF IInv

LEMMA Lists ==
  ASSUME IInv
  PROVE  /\ capture \in Captures /\ num_pcaps \in Nat /\ i \in Nat /\ max_index \in Nat
         /\ Len(array) \in Nat /\ DOMAIN array = 1 .. Len(array)
         /\ Len(pkt_list) \in Nat /\ DOMAIN pkt_list = 1 .. Len(pkt_list)
         /\ Len(output) \in Nat /\ DOMAIN output = 1 .. Len(output)
         /\ Len(lists) \in Nat /\ DOMAIN lists = 1 .. Len(lists)
         /\ Len(files) \in Nat /\ DOMAIN files = 1 .. Len(files)
         /\ \A a \in DOMAIN pkt_list : pkt_list[a] \in Packet /\ pkt_list[a].ifindex \in Nat
         /\ \A a \in DOMAIN output : output[a] \in Packet /\ output[a].ifindex \in Nat
         /\ \A f \in DOMAIN lists : lists[f] \in Seq(Packet)
         /\ \A f \in DOMAIN files : files[f] \in Seq(Packet)
<1>1. TypeOK
  BY DEF IInv
<1>2. /\ Len(array) \in Nat /\ DOMAIN array = 1 .. Len(array)
      /\ Len(pkt_list) \in Nat /\ DOMAIN pkt_list = 1 .. Len(pkt_list)
      /\ Len(output) \in Nat /\ DOMAIN output = 1 .. Len(output)
      /\ Len(lists) \in Nat /\ DOMAIN lists = 1 .. Len(lists)
      /\ Len(files) \in Nat /\ DOMAIN files = 1 .. Len(files)
  BY <1>1, LenProperties DEF TypeOK
<1>3. /\ \A a \in DOMAIN pkt_list : pkt_list[a] \in Packet
      /\ \A a \in DOMAIN output : output[a] \in Packet
      /\ \A f \in DOMAIN lists : lists[f] \in Seq(Packet)
      /\ \A f \in DOMAIN files : files[f] \in Seq(Packet)
  BY <1>1, <1>2, ElementOfSeq DEF TypeOK
<1>4. \A p \in Packet : p.ifindex \in Nat
  BY DEF Packet
<1>5. capture \in Captures /\ num_pcaps \in Nat /\ i \in Nat /\ max_index \in Nat
  BY <1>1, CaptureFiles DEF TypeOK
<1> QED BY <1>2, <1>3, <1>4, <1>5

LEMMA TypeStep == ASSUME IInv, Next PROVE TypeOK'
<1>1. /\ capture \in Captures /\ num_pcaps \in Nat /\ TypeOK
      /\ Len(array) \in Nat /\ Len(pkt_list) \in Nat /\ Len(output) \in Nat /\ Len(lists) \in Nat
  BY Lists DEF IInv
<1>2. CASE ReadFile
  <2> DEFINE l == IF i \in DOMAIN capture THEN capture[i] ELSE NULL
  <2>1. l \in Seq(Packet) \cup {NULL}
    BY <1>1, CaptureFiles
  <2>2. /\ array' \in Seq(Seq(Packet) \cup {NULL}) /\ Len(array') = Len(array) + 1
        /\ \A f \in 1 .. Len(array) : array'[f] = array[f]
        /\ array'[Len(array) + 1] = l
    BY <1>1, <1>2, <2>1, AppendProperties DEF TypeOK, ReadFile
  <2>3. DOMAIN array' = 1 .. Len(array) + 1 /\ DOMAIN array = 1 .. Len(array)
    BY <1>1, <2>2, LenProperties DEF TypeOK
  <2>4. i = Len(array) /\ i < num_pcaps /\ num_pcaps' = num_pcaps
    BY <1>1, <1>2 DEF TypeOK, ReadFile, num_pcaps
  <2>5. \A f \in DOMAIN array' :
          array'[f] # NULL => f - 1 \in DOMAIN capture /\ array'[f] = capture[f - 1]
    <3> SUFFICES ASSUME NEW f \in DOMAIN array', array'[f] # NULL
                 PROVE  f - 1 \in DOMAIN capture /\ array'[f] = capture[f - 1]
      OBVIOUS
    <3>1. CASE f \in 1 .. Len(array)
      BY <1>1, <2>2, <2>3, <3>1 DEF TypeOK
    <3>2. CASE f = Len(array) + 1
      <4>1. f - 1 = i
        BY <1>1, <2>4, <3>2
      <4> QED BY <2>2, <3>2, <4>1
    <3> QED BY <1>1, <2>3, <3>1, <3>2
  <2> QED BY <1>1, <1>2, <2>2, <2>4, <2>5 DEF TypeOK, ReadFile
<1>3. CASE StartMerge
  BY <1>1, <1>3 DEF TypeOK, StartMerge
<1>4. CASE MergeList
  <2>1. CASE array[i] = NULL
    BY <1>1, <1>4, <2>1 DEF TypeOK, MergeList
  <2>2. CASE array[i] # NULL
    <3>1. array[i] \in Seq(Packet)
      BY <1>1, <1>4, <2>2, LenProperties DEF TypeOK, MergeList
    <3>2. pkt_list' \in Seq(Packet) /\ i' = i + 1
      BY <1>1, <1>4, <2>2, <3>1, AppendList DEF TypeOK, MergeList
    <3> QED BY <1>1, <1>4, <2>2, <3>2 DEF TypeOK, MergeList
  <2> QED BY <2>1, <2>2
<1>5. CASE EndMerge
  BY <1>1, <1>5 DEF TypeOK, EndMerge
<1>6. CASE SortPackets
  <2>1. pkt_list' \in Seq(Packet) /\ Len(pkt_list') \in Nat
    BY <1>1, <1>6, PermutedList, LenProperties DEF TypeOK, SortPackets
  <2> QED BY <1>1, <1>6, <2>1 DEF TypeOK, SortPackets
<1>7. CASE FeedPacket
  <2>1. pkt_list[i] \in Packet
    BY <1>1, <1>7, LenProperties DEF TypeOK, FeedPacket
  <2>2. output' \in Seq(Packet) /\ accepted' \subseteq Packet
    BY <1>1, <1>7, <2>1, AppendPacket DEF TypeOK, FeedPacket
  <2> QED BY <1>1, <1>7, <2>2 DEF TypeOK, FeedPacket
<1>8. CASE StartSplit
  BY <1>1, <1>8 DEF TypeOK, StartSplit
<1>9. CASE FindMaxIndex
  <2>1. output[i].ifindex \in Nat
    BY <1>1, <1>9, Lists DEF TypeOK, FindMaxIndex
  <2> QED BY <1>1, <1>9, <2>1 DEF TypeOK, FindMaxIndex
<1>10. CASE AllocateLists
  <2>1. lists' \in Seq(Seq(Packet))
    <3>1. max_index + 1 \in Nat /\ lists' \in [1 .. max_index + 1 -> Seq(Packet)]
      BY <1>1, <1>10, EmptyList DEF TypeOK, AllocateLists
    <3> QED BY <3>1
  <2> QED BY <1>1, <1>10, <2>1 DEF TypeOK, AllocateLists
<1>11. CASE SplitPacket
  <2> DEFINE k == output[i].ifindex + 1
  <2>1. output[i] \in Packet /\ k \in 1 .. Len(lists)
    BY <1>1, <1>11, Lists DEF IInv, IndexFound, TypeOK, SplitPacket
  <2>2. Append(lists[k], output[i]) \in Seq(Packet)
    <3>1. lists[k] \in Seq(Packet)
      BY <1>1, <2>1, ElementOfSeq DEF TypeOK
    <3> QED BY <2>1, <3>1, AppendPacket
  <2>3. lists' = [lists EXCEPT ![k] = Append(lists[k], output[i])]
    BY <1>11 DEF SplitPacket
  <2> HIDE DEF k
  <2>4. lists' \in Seq(Seq(Packet))
    BY <1>1, <2>1, <2>2, <2>3, ExceptSeq DEF TypeOK
  <2> QED BY <1>1, <1>11, <2>4 DEF TypeOK, SplitPacket
<1>12. CASE EndSplit
  BY <1>1, <1>12 DEF TypeOK, EndSplit
<1>13. CASE WriteFile
  <2>1. lists[i] \in Seq(Packet)
    BY <1>1, <1>13, ElementOfSeq DEF TypeOK, WriteFile
  <2>2. files' \in Seq(Seq(Packet))
    BY <1>1, <1>13, <2>1, AppendProperties DEF TypeOK, WriteFile
  <2> QED BY <1>1, <1>13, <2>2 DEF TypeOK, WriteFile
<1>14. CASE Finish
  BY <1>1, <1>14 DEF TypeOK, Finish
<1> QED
  BY <1>2, <1>3, <1>4, <1>5, <1>6, <1>7, <1>8, <1>9, <1>10, <1>11, <1>12, <1>13, <1>14 DEF Next

LEMMA ArrayStep == ASSUME IInv, Next PROVE ArrayRead'
<1> USE DEF num_pcaps
<1>1. ArrayRead /\ TypeOK
  BY DEF IInv
<1>2. CASE ReadFile
  <2> DEFINE l == IF i \in DOMAIN capture THEN capture[i] ELSE NULL
  <2>1. l \in Seq(Packet) \cup {NULL} /\ array \in Seq(Seq(Packet) \cup {NULL})
    BY <1>1, CaptureFiles DEF TypeOK
  <2>2. /\ Len(array') = Len(array) + 1
        /\ \A f \in 1 .. Len(array) : array'[f] = array[f]
        /\ array'[Len(array) + 1] = l
        /\ array' \in Seq(Seq(Packet) \cup {NULL})
    BY <1>2, <2>1, AppendProperties DEF ReadFile
  <2>3. DOMAIN array' = 1 .. Len(array) + 1 /\ DOMAIN array = 1 .. Len(array) /\ Len(array) \in Nat
    BY <2>2, Lists, LenProperties
  <2>4. i = Len(array) /\ pc = "read"
    BY <1>1, <1>2 DEF TypeOK, ReadFile
  <2>5. ASSUME NEW f \in DOMAIN array'
        PROVE  array'[f] = IF f - 1 \in DOMAIN capture THEN capture[f - 1] ELSE NULL
    <3>1. CASE f \in 1 .. Len(array)
      BY <1>1, <2>2, <2>3, <3>1 DEF ArrayRead
    <3>2. CASE f = Len(array) + 1
      <4>1. f - 1 = i
        BY <2>3, <2>4, <3>2
      <4> QED BY <2>2, <3>2, <4>1
    <3> QED BY <2>3, <2>5, <3>1, <3>2
  <2> QED BY <1>2, <2>4, <2>5 DEF ArrayRead, ReadFile
<1>3. CASE StartMerge
  BY <1>1, <1>3 DEF ArrayRead, TypeOK, StartMerge
<1>4. CASE MergeList
  BY <1>1, <1>4 DEF ArrayRead, MergeList
<1>5. CASE EndMerge \/ SortPackets \/ FeedPacket \/ StartSplit \/ FindMaxIndex
  BY <1>1, <1>5 DEF ArrayRead, EndMerge, SortPackets, FeedPacket, StartSplit, FindMaxIndex
<1>6. CASE AllocateLists \/ SplitPacket \/ EndSplit \/ WriteFile \/ Finish
  BY <1>1, <1>6 DEF ArrayRead, AllocateLists, SplitPacket, EndSplit, WriteFile, Finish
<1> QED BY <1>2, <1>3, <1>4, <1>5, <1>6 DEF Next

LEMMA MergedStep == ASSUME IInv, Next PROVE PacketsMerged'
<1> USE DEF Captured
<1>1. PacketsMerged /\ ArrayRead /\ TypeOK
  BY DEF IInv
<1>2. CASE ReadFile
  BY <1>1, <1>2 DEF PacketsMerged, ReadFile
<1>3. CASE StartMerge
  <2>1. pkt_list' = <<>> /\ i' = 1 /\ pc' = "merge" /\ Captured' = Captured
    BY <1>1, <1>3 DEF PacketsMerged, StartMerge
  <2>2. \A p \in Captured : ~(p.ifindex < i' - 1)
    <3>1. \A p \in Captured : p.ifindex \in Nat
      BY Lists, CaptureFiles
    <3> QED BY <2>1, <3>1
  <2> QED BY <2>1, <2>2, EmptyList DEF PacketsMerged
<1>4. CASE MergeList
  <2>1. CASE array[i] = NULL
    BY <1>1, <1>4, <2>1 DEF PacketsMerged, MergeList
  <2>2. CASE array[i] # NULL
    <3> DEFINE t == array[i]
    <3>1. i \in DOMAIN array /\ i - 1 \in DOMAIN capture /\ t = capture[i - 1] /\ pc = "merge"
      <4>1. pc = "merge" /\ i \in 1 .. Len(array) + 1 /\ i <= Len(array)
        BY <1>1, <1>4 DEF TypeOK, MergeList
      <4>2. i \in DOMAIN array
        BY <4>1, Lists
      <4> QED BY <1>1, <2>2, <4>1, <4>2 DEF TypeOK
    <3>2. /\ t \in Seq(Packet) /\ IsInjective(t)
          /\ ToSet(t) = {p \in Captured : p.ifindex = i - 1}
      BY <3>1, Lists, CaptureFiles
    <3>3. /\ ToSet(pkt_list) = {p \in Captured : p.ifindex < i - 1} /\ IsInjective(pkt_list)
          /\ pkt_list \in Seq(Packet)
      BY <1>1, <3>1 DEF PacketsMerged, TypeOK
    <3>4. pkt_list' = pkt_list \o t /\ i' = i + 1 /\ pc' = "merge" /\ Captured' = Captured
          /\ array' = array
      BY <1>4, <2>2 DEF MergeList
    <3> HIDE DEF t, Captured
    <3>5. i \in Nat /\ \A p \in Captured : p.ifindex \in Nat
      <4>1. i \in Nat /\ DOMAIN capture \subseteq Nat /\ \A p \in Captured : p.ifindex \in DOMAIN capture
        BY Lists, CaptureFiles
      <4> QED BY <4>1
    <3>6. ToSet(pkt_list) \cap ToSet(t) = {}
      BY <3>2, <3>3, <3>5
    <3>7. IsInjective(pkt_list') /\ ToSet(pkt_list') = ToSet(pkt_list) \cup ToSet(t)
      BY <3>2, <3>3, <3>4, <3>6, AppendList
    <3>8. ToSet(pkt_list') = {p \in Captured : p.ifindex < i' - 1}
      BY <3>2, <3>3, <3>4, <3>5, <3>7
    <3>9. \A f \in 1 .. i' - 1 : array'[f] # NULL
      BY <1>1, <2>2, <3>1, <3>4, <3>5 DEF PacketsMerged
    <3> QED BY <3>4, <3>7, <3>8, <3>9 DEF PacketsMerged
  <2> QED BY <2>1, <2>2
<1>5. CASE EndMerge
  <2>1. pc = "merge" /\ i = Len(array) + 1 /\ pkt_list' = pkt_list /\ pc' = "sort" /\ Captured' = Captured
    BY <1>5 DEF EndMerge
  <2>2. /\ ToSet(pkt_list) = {p \in Captured : p.ifindex < i - 1} /\ IsInjective(pkt_list)
        /\ Len(array) = num_pcaps /\ \A f \in 1 .. i - 1 : array[f] # NULL
    BY <1>1, <2>1 DEF PacketsMerged, ArrayRead
  <2>3. Len(array) \in Nat /\ capture \in Captures
    BY Lists
  <2>4. DOMAIN capture = 0 .. num_pcaps - 1
    BY <1>1, <2>1, <2>2, <2>3, AllRead
  <2>5. \A p \in Captured : p.ifindex \in DOMAIN capture
    BY <2>3, CaptureFiles
  <2> HIDE DEF Captured
  <2>6. ToSet(pkt_list) = Captured
    BY <2>1, <2>2, <2>3, <2>4, <2>5
  <2> QED BY <2>1, <2>2, <2>6 DEF PacketsMerged
<1>6. CASE SortPackets
  <2>1. /\ ToSet(pkt_list) = Captured /\ IsInjective(pkt_list) /\ pkt_list \in Seq(Packet)
        /\ Captured' = Captured /\ pc' = "feed"
    BY <1>1, <1>6 DEF PacketsMerged, TypeOK, SortPackets
  <2>2. ToSet(pkt_list') = ToSet(pkt_list) /\ IsInjective(pkt_list') /\ Sorted(pkt_list')
    BY <1>6, <2>1, PermutedList DEF SortPackets
  <2> QED BY <2>1, <2>2 DEF PacketsMerged
<1>7. CASE FeedPacket \/ StartSplit \/ FindMaxIndex
  BY <1>1, <1>7 DEF PacketsMerged, FeedPacket, StartSplit, FindMaxIndex
<1>8. CASE AllocateLists \/ SplitPacket \/ EndSplit \/ WriteFile \/ Finish
  BY <1>1, <1>8 DEF PacketsMerged, AllocateLists, SplitPacket, EndSplit, WriteFile, Finish
<1> QED BY <1>2, <1>3, <1>4, <1>5, <1>6, <1>7, <1>8 DEF Next

LEMMA FedStep == ASSUME IInv, Next PROVE PacketsFed'
<1> USE DEF Captured
<1>1. PacketsFed /\ PacketsMerged /\ TypeOK
  BY DEF IInv
<1>2. CASE ReadFile \/ StartMerge \/ MergeList \/ EndMerge
  BY <1>1, <1>2 DEF PacketsFed, ReadFile, StartMerge, MergeList, EndMerge
<1>3. CASE SortPackets
  <2>1. output = <<>> /\ output' = <<>> /\ pc' = "feed" /\ accepted' = accepted /\ Captured' = Captured
    BY <1>1, <1>3 DEF PacketsFed, SortPackets
  <2> QED BY <1>1, <2>1, EmptyList DEF PacketsFed
<1>4. CASE FeedPacket
  <2> DEFINE p == pkt_list[i]
  <2>1. /\ i \in DOMAIN pkt_list /\ p \in Packet /\ p \in Captured
        /\ pc = "feed" /\ pc' = "feed" /\ i' = i + 1 /\ pkt_list' = pkt_list
    <3>1. i \in DOMAIN pkt_list /\ p \in Packet /\ pc = "feed"
      BY <1>1, <1>4, Lists DEF TypeOK, FeedPacket
    <3>2. p \in ToSet(pkt_list)
      BY <3>1 DEF ToSet
    <3> QED BY <1>1, <1>4, <3>1, <3>2 DEF PacketsMerged, FeedPacket
  <2>2. \A q \in ToSet(output) : \E b \in 1 .. i - 1 : q = pkt_list[b]
    BY <1>1, <2>1 DEF PacketsFed
  <2>3. i \in Nat /\ DOMAIN pkt_list = 1 .. Len(pkt_list) /\ Len(pkt_list) \in Nat
    BY Lists
  <2>4. Captured' = Captured
    BY <1>4 DEF FeedPacket
  <2> HIDE DEF Captured
  <2>5. p \notin ToSet(output) /\ \A q \in ToSet(output) : compare_pkt_time(q, p) <= 0
    <3> SUFFICES ASSUME NEW q \in ToSet(output)
                 PROVE  q # p /\ compare_pkt_time(q, p) <= 0
      OBVIOUS
    <3>1. PICK b \in 1 .. i - 1 : q = pkt_list[b]
      BY <2>2
    <3>2. b \in DOMAIN pkt_list /\ b < i
      BY <2>1, <2>3, <3>1
    <3>3. IsInjective(pkt_list) /\ Sorted(pkt_list)
      BY <1>1, <2>1 DEF PacketsMerged
    <3>4. pkt_list[b] # pkt_list[i]
      BY <2>1, <2>3, <3>2, <3>3 DEF IsInjective
    <3>5. compare_pkt_time(pkt_list[b], pkt_list[i]) <= 0
      BY <2>1, <3>2, <3>3 DEF Sorted
    <3> QED BY <3>1, <3>4, <3>5
  <2>6. CASE output' = Append(output, p) /\ accepted' = accepted \cup {p}
    <3>1. output \in Seq(Packet) /\ IsInjective(output) /\ Sorted(output)
          /\ accepted = ToSet(output) /\ accepted \subseteq Captured
      BY <1>1 DEF PacketsFed, TypeOK
    <3> HIDE DEF p
    <3>2. /\ ToSet(output') = ToSet(output) \cup {p} /\ IsInjective(output') /\ Sorted(output')
      BY <2>1, <2>5, <2>6, <3>1, AppendPacket
    <3>3. \A q \in ToSet(output') : \E b \in 1 .. i' - 1 : q = pkt_list'[b]
      <4> SUFFICES ASSUME NEW q \in ToSet(output')
                   PROVE  \E b \in 1 .. i' - 1 : q = pkt_list'[b]
        OBVIOUS
      <4>1. CASE q = p
        <5>1. i \in 1 .. i' - 1 /\ q = pkt_list'[i]
          BY <2>1, <2>3, <4>1 DEF p
        <5> QED BY <5>1
      <4>2. CASE q \in ToSet(output)
        <5>1. PICK b \in 1 .. i - 1 : q = pkt_list[b]
          BY <2>2, <4>2
        <5>2. b \in 1 .. i' - 1 /\ q = pkt_list'[b]
          BY <2>1, <2>3, <5>1
        <5> QED BY <5>2
      <4> QED BY <3>2, <4>1, <4>2
    <3> QED BY <2>1, <2>4, <2>6, <3>1, <3>2, <3>3 DEF PacketsFed
  <2>7. CASE UNCHANGED <<output, accepted>>
    <3>1. \A q \in ToSet(output') : \E b \in 1 .. i' - 1 : q = pkt_list'[b]
      <4> SUFFICES ASSUME NEW q \in ToSet(output)
                   PROVE  \E b \in 1 .. i' - 1 : q = pkt_list'[b]
        BY <2>7
      <4>1. PICK b \in 1 .. i - 1 : q = pkt_list[b]
        BY <2>2
      <4>2. b \in 1 .. i' - 1 /\ q = pkt_list'[b]
        BY <2>1, <2>3, <4>1
      <4> QED BY <4>2
    <3> QED BY <1>1, <2>1, <2>4, <2>7, <3>1 DEF PacketsFed
  <2> QED BY <1>4, <2>6, <2>7 DEF FeedPacket
<1>5. CASE StartSplit \/ FindMaxIndex \/ AllocateLists
  BY <1>1, <1>5 DEF PacketsFed, StartSplit, FindMaxIndex, AllocateLists
<1>6. CASE SplitPacket \/ EndSplit \/ WriteFile \/ Finish
  BY <1>1, <1>6 DEF PacketsFed, SplitPacket, EndSplit, WriteFile, Finish
<1> QED BY <1>2, <1>3, <1>4, <1>5, <1>6 DEF Next

LEMMA IndexStep == ASSUME IInv, Next PROVE IndexFound'
<1>1. IndexFound /\ TypeOK
  BY DEF IInv
<1>2. CASE ReadFile \/ StartMerge \/ MergeList \/ EndMerge \/ SortPackets \/ FeedPacket
  BY <1>1, <1>2
  DEF IndexFound, TypeOK, ReadFile, StartMerge, MergeList, EndMerge, SortPackets, FeedPacket
<1>3. CASE StartSplit
  BY <1>1, <1>3 DEF IndexFound, StartSplit
<1>4. CASE FindMaxIndex
  <2>1. /\ pc = "max" /\ pc' = "max" /\ i' = i + 1 /\ output' = output
        /\ max_index' = IF output[i].ifindex > max_index THEN output[i].ifindex ELSE max_index
        /\ i \in DOMAIN output
    BY <1>1, <1>4, Lists DEF FindMaxIndex, TypeOK
  <2>2. /\ i \in Nat /\ max_index \in Nat /\ output[i].ifindex \in Nat
        /\ \A a \in 1 .. i - 1 : a \in DOMAIN output /\ output[a].ifindex \in Nat
    <3>1. /\ i \in Nat /\ max_index \in Nat /\ output[i].ifindex \in Nat
          /\ Len(output) \in Nat /\ DOMAIN output = 1 .. Len(output)
          /\ \A a \in DOMAIN output : output[a].ifindex \in Nat
      BY <2>1, Lists
    <3>2. \A a \in 1 .. i - 1 : a \in DOMAIN output
      BY <2>1, <3>1
    <3> QED BY <3>1, <3>2
  <2>3. \A a \in 1 .. i' - 1 : output'[a].ifindex <= max_index'
    <3> SUFFICES ASSUME NEW a \in 1 .. i
                 PROVE  output[a].ifindex <= max_index'
      BY <2>1, <2>2
    <3>1. CASE a = i
      BY <2>1, <2>2, <3>1
    <3>2. CASE a \in 1 .. i - 1
      BY <1>1, <2>1, <2>2, <3>2 DEF IndexFound
    <3> QED BY <2>2, <3>1, <3>2
  <2> QED BY <2>1, <2>3 DEF IndexFound
<1>5. CASE AllocateLists
  <2>1. /\ pc = "max" /\ pc' = "split" /\ i = Len(output) + 1 /\ output' = output
        /\ max_index' = max_index /\ lists' = [f \in 1 .. max_index + 1 |-> <<>>]
    BY <1>5 DEF AllocateLists
  <2>2. max_index \in Nat /\ DOMAIN output = 1 .. Len(output) /\ Len(output) \in Nat
    BY Lists
  <2>3. Len(lists') = max_index + 1
    BY <2>1, <2>2
  <2>4. \A a \in DOMAIN output : output[a].ifindex <= max_index
    BY <1>1, <2>1, <2>2 DEF IndexFound
  <2> QED BY <2>1, <2>3, <2>4 DEF IndexFound
<1>6. CASE SplitPacket
  <2>1. Len(lists') = Len(lists)
    <3>1. lists \in Seq(Seq(Packet)) /\ lists' \in Seq(Seq(Packet)) /\ DOMAIN lists' = DOMAIN lists
      BY <1>1, <1>6, TypeStep DEF TypeOK, SplitPacket
    <3>2. DOMAIN lists' = 1 .. Len(lists') /\ Len(lists') \in Nat
      BY <3>1, LenProperties
    <3> QED BY <3>1, <3>2, Lists
  <2> QED BY <1>1, <1>6, <2>1 DEF IndexFound, SplitPacket
<1>7. CASE EndSplit \/ WriteFile \/ Finish
  BY <1>1, <1>7 DEF IndexFound, EndSplit, WriteFile, Finish
<1> QED BY <1>2, <1>3, <1>4, <1>5, <1>6, <1>7 DEF Next

LEMMA SplitStep == ASSUME IInv, Next PROVE PacketsSplit'
<1>1. PacketsSplit /\ PacketsFed /\ IndexFound /\ TypeOK
  BY DEF IInv
<1>2. CASE ReadFile \/ StartMerge \/ MergeList \/ EndMerge \/ SortPackets
  BY <1>1, <1>2 DEF PacketsSplit, ReadFile, StartMerge, MergeList, EndMerge, SortPackets
<1>3. CASE FeedPacket \/ FindMaxIndex
  BY <1>1, <1>3 DEF PacketsSplit, FeedPacket, FindMaxIndex
<1>4. CASE StartSplit
  <2>1. lists = <<>> /\ lists' = <<>> /\ DOMAIN lists' = {}
    BY <1>1, <1>4 DEF PacketsSplit, StartSplit
  <2>2. CASE output = <<>>
    <3>1. accepted = {} /\ accepted' = {} /\ pc' = "write"
      BY <1>1, <1>4, <2>2, EmptyList DEF PacketsFed, StartSplit
    <3> QED BY <2>1, <3>1 DEF PacketsSplit
  <2>3. CASE output # <<>>
    <3>1. pc' = "max"
      BY <1>4, <2>3 DEF StartSplit
    <3> QED BY <2>1, <3>1 DEF PacketsSplit
  <2> QED BY <2>2, <2>3
<1>5. CASE AllocateLists
  <2>1. /\ pc' = "split" /\ i' = 1 /\ lists' = [f \in 1 .. max_index + 1 |-> <<>>]
        /\ output' = output
    BY <1>5 DEF AllocateLists
  <2>2. \A f \in DOMAIN lists' : lists'[f] = <<>>
    BY <2>1
  <2>3. {output'[a] : a \in 1 .. i' - 1} = {}
    <3>1. 1 .. i' - 1 = {}
      BY <2>1
    <3> QED BY <3>1
  <2> QED BY <2>1, <2>2, <2>3, EmptyList DEF PacketsSplit
<1>6. CASE SplitPacket
  <2> DEFINE p == output[i]
             k == p.ifindex + 1
             was == {output[a] : a \in 1 .. i - 1}
             is == {output[a] : a \in 1 .. i}
  <2>1. /\ pc = "split" /\ pc' = "split" /\ i' = i + 1 /\ output' = output
        /\ lists' = [lists EXCEPT ![k] = Append(@, p)]
        /\ i \in Nat /\ i \in DOMAIN output /\ p \in Packet
        /\ DOMAIN output = 1 .. Len(output) /\ Len(output) \in Nat
    BY <1>1, <1>6, Lists DEF SplitPacket, TypeOK
  <2>2. DOMAIN lists' = DOMAIN lists /\ \A f \in DOMAIN lists : lists[f] \in Seq(Packet)
    BY <2>1, Lists
  <2>3. is = was \cup {p}
    <3>1. 1 .. i = (1 .. i - 1) \cup {i}
      BY <2>1
    <3> QED BY <3>1
  <2>4. ASSUME NEW q \in was
        PROVE  q # p /\ compare_pkt_time(q, p) <= 0
    <3>1. PICK a \in 1 .. i - 1 : q = output[a]
      BY <2>4
    <3>2. a \in DOMAIN output /\ a < i
      BY <2>1, <3>1
    <3>3. output[a] # output[i]
      BY <1>1, <2>1, <3>2 DEF PacketsFed, IsInjective
    <3>4. compare_pkt_time(output[a], output[i]) <= 0
      BY <1>1, <2>1, <3>2 DEF PacketsFed, Sorted
    <3> QED BY <3>1, <3>3, <3>4
  <2>5. \A f \in DOMAIN lists :
          /\ ToSet(lists[f]) = {q \in was : q.ifindex = f - 1}
          /\ IsInjective(lists[f]) /\ Sorted(lists[f])
    BY <1>1, <2>1 DEF PacketsSplit
  <2>6. p.ifindex \in Nat /\ DOMAIN lists \subseteq Nat
    BY <2>1, Lists
  <2> HIDE DEF p, was, is
  <2>7. ASSUME NEW f \in DOMAIN lists
        PROVE  /\ ToSet(lists'[f]) = {q \in is : q.ifindex = f - 1}
               /\ IsInjective(lists'[f]) /\ Sorted(lists'[f])
    <3>1. CASE f = k
      <4>1. lists'[f] = Append(lists[f], p)
        BY <2>1, <2>7, <3>1
      <4>2. lists[f] \in Seq(Packet) /\ p \in Packet /\ p.ifindex = f - 1
        BY <2>1, <2>2, <2>6, <2>7, <3>1
      <4>3. p \notin ToSet(lists[f]) /\ \A q \in ToSet(lists[f]) : compare_pkt_time(q, p) <= 0
        BY <2>4, <2>5, <2>7
      <4>4. ToSet(lists'[f]) = ToSet(lists[f]) \cup {p}
        BY <4>1, <4>2, AppendPacket
      <4>5. IsInjective(lists'[f]) /\ Sorted(lists'[f])
        BY <2>5, <2>7, <4>1, <4>2, <4>3, AppendPacket
      <4> QED BY <2>3, <2>5, <2>7, <4>2, <4>4, <4>5
    <3>2. CASE f # k
      <4>1. lists'[f] = lists[f]
        BY <2>1, <2>7, <3>2
      <4>2. p.ifindex # f - 1
        BY <2>6, <2>7, <3>2
      <4> QED BY <2>3, <2>5, <2>7, <4>1, <4>2
    <3> QED BY <3>1, <3>2
  <2>8. i' - 1 = i /\ is = {output'[a] : a \in 1 .. i' - 1}
    BY <2>1 DEF is
  <2> QED BY <2>1, <2>2, <2>7, <2>8 DEF PacketsSplit
<1>7. CASE EndSplit
  <2>1. /\ pc = "split" /\ pc' = "write" /\ i = Len(output) + 1
        /\ lists' = lists /\ accepted' = accepted
    BY <1>7 DEF EndSplit
  <2>2. {output[a] : a \in 1 .. i - 1} = accepted
    <3>1. 1 .. i - 1 = DOMAIN output
      BY <2>1, Lists
    <3> QED BY <1>1, <3>1 DEF PacketsFed, ToSet
  <2>3. ASSUME NEW p \in accepted PROVE p.ifindex + 1 \in DOMAIN lists
    <3>1. PICK a \in DOMAIN output : p = output[a]
      BY <1>1, <2>3 DEF PacketsFed, ToSet
    <3>2. p.ifindex \in Nat /\ p.ifindex <= max_index /\ Len(lists) = max_index + 1
      BY <1>1, <2>1, <3>1, Lists DEF IndexFound
    <3>3. max_index \in Nat /\ DOMAIN lists = 1 .. Len(lists)
      BY Lists
    <3> QED BY <3>2, <3>3
  <2> QED BY <1>1, <2>1, <2>2, <2>3 DEF PacketsSplit
<1>8. CASE WriteFile \/ Finish
  BY <1>1, <1>8 DEF PacketsSplit, WriteFile, Finish
<1> QED BY <1>2, <1>3, <1>4, <1>5, <1>6, <1>7, <1>8 DEF Next

LEMMA WrittenStep == ASSUME IInv, Next PROVE FilesWritten'
<1>1. FilesWritten /\ PacketsSplit /\ TypeOK
  BY DEF IInv
<1>2. CASE ReadFile \/ StartMerge \/ MergeList \/ EndMerge \/ SortPackets
  BY <1>1, <1>2 DEF FilesWritten, ReadFile, StartMerge, MergeList, EndMerge, SortPackets
<1>3. CASE FeedPacket \/ FindMaxIndex
  BY <1>1, <1>3 DEF FilesWritten, FeedPacket, FindMaxIndex
<1>4. CASE StartSplit \/ EndSplit
  BY <1>1, <1>4 DEF FilesWritten, StartSplit, EndSplit
<1>5. CASE AllocateLists \/ SplitPacket
  BY <1>1, <1>5 DEF FilesWritten, AllocateLists, SplitPacket
<1>6. CASE WriteFile
  <2>1. /\ pc = "write" /\ pc' = "write" /\ i' = i + 1 /\ lists' = lists
        /\ files' = Append(files, lists[i]) /\ Len(files) = i - 1
        /\ files \in Seq(Seq(Packet)) /\ i \in Nat
    BY <1>1, <1>6, Lists DEF WriteFile, FilesWritten, TypeOK
  <2>2. i \in DOMAIN lists /\ lists[i] \in Seq(Packet)
    <3>1. i \in 1 .. Len(lists) + 1 /\ i <= Len(lists)
      BY <1>1, <1>6 DEF WriteFile, TypeOK
    <3> QED BY <3>1, Lists
  <2>3. /\ Len(files') = i /\ files' \in Seq(Seq(Packet)) /\ files'[i] = lists[i]
        /\ \A f \in 1 .. i - 1 : files'[f] = files[f]
    <3>1. /\ Len(files') = Len(files) + 1 /\ files' \in Seq(Seq(Packet))
          /\ files'[Len(files) + 1] = lists[i]
          /\ \A f \in 1 .. Len(files) : files'[f] = files[f]
      BY <2>1, <2>2, AppendProperties
    <3>2. Len(files) + 1 = i
      BY <2>1
    <3> QED BY <2>1, <3>1, <3>2
  <2>4. DOMAIN files' = 1 .. i
    BY <2>3, LenProperties
  <2>5. ASSUME NEW f \in DOMAIN files' PROVE f \in DOMAIN lists /\ files'[f] = lists[f]
    <3>1. CASE f = i
      BY <2>2, <2>3, <3>1
    <3>2. CASE f \in 1 .. i - 1
      <4>1. f \in DOMAIN files
        BY <2>1, <3>2, Lists
      <4> QED BY <1>1, <2>3, <3>2, <4>1 DEF FilesWritten
    <3> QED BY <2>1, <2>4, <2>5, <3>1, <3>2
  <2> QED BY <2>1, <2>3, <2>5 DEF FilesWritten
<1>7. CASE Finish
  <2>1. i \in Nat /\ Len(lists) \in Nat
    BY Lists
  <2> QED BY <1>1, <1>7, <2>1 DEF FilesWritten, Finish
<1> QED BY <1>2, <1>3, <1>4, <1>5, <1>6, <1>7 DEF Next

-----------------------------------------------------------------------------
(* The theorems.                                                           *)

\* Every step of the program keeps the inductive invariant.
THEOREM Invariance == Spec => []IInv
<1>1. IInv /\ [Next]_vars => IInv'
  <2>1. IInv /\ Next => IInv'
    BY TypeStep, ArrayStep, MergedStep, FedStep, IndexStep, SplitStep, WrittenStep DEF IInv
  <2> QED BY <2>1, Stuttering
<1> QED BY <1>1, InitIInv, PTL DEF Spec

\* No loop of launch_runtime() or pcap_util.c leaves its list, and every list that
\* is read is that of the capture file of its number.
THEOREM TypeCorrect == Spec => []TypeOK
<1>1. IInv => TypeOK
  BY DEF IInv
<1> QED BY <1>1, Invariance, PTL

\* From merging to writing no packet is lost, doubled or moved to another interface,
\* for any number of capture files, any packets and any filter.
THEOREM AcceptedAreWritten == Spec => []OutputsAreAccepted
<1>1. IInv => OutputsAreAccepted
  <2> SUFFICES ASSUME IInv PROVE OutputsAreAccepted
    OBVIOUS
  <2>1. pc = "feed" => IsInjective(pkt_list) /\ ToSet(pkt_list) = Captured
    BY DEF IInv, PacketsMerged
  <2>2. ASSUME pc = "done", NEW f \in DOMAIN files
        PROVE  IsInjective(files[f]) /\ ToSet(files[f]) = {p \in accepted : p.ifindex = f - 1}
    BY <2>2 DEF IInv, FilesWritten, PacketsSplit
  <2>3. ASSUME pc = "done", NEW p \in accepted
        PROVE  p.ifindex + 1 \in DOMAIN files
    BY <2>3, Lists DEF IInv, FilesWritten, PacketsSplit
  <2> QED BY <2>1, <2>2, <2>3 DEF OutputsAreAccepted
<1> QED BY <1>1, Invariance, PTL

\* Packets of one interface captured in one second, no two in one microsecond, are
\* written in the order they were captured, whatever qsort() makes of the others.
THEOREM OrderIsKept == Spec => []CaptureOrder
<1>1. IInv => CaptureOrder
  <2> SUFFICES ASSUME IInv, pc = "done", NEW f \in DOMAIN capture, f + 1 \in DOMAIN files,
                      \A m, n \in DOMAIN capture[f] :
                        /\ capture[f][m].sec = capture[f][n].sec
                        /\ m # n => capture[f][m].usec # capture[f][n].usec,
                      NEW a \in DOMAIN files[f + 1], NEW b \in DOMAIN files[f + 1], a < b
               PROVE  files[f + 1][a].nr < files[f + 1][b].nr
    BY DEF CaptureOrder
  <2> DEFINE p == files[f + 1][a]
             q == files[f + 1][b]
  <2>1. /\ IsInjective(files[f + 1]) /\ Sorted(files[f + 1])
        /\ ToSet(files[f + 1]) = {r \in accepted : r.ifindex = (f + 1) - 1}
    BY DEF IInv, FilesWritten, PacketsSplit
  <2>2. capture \in Captures /\ f \in Nat /\ DOMAIN files \subseteq Nat
    BY Lists, CaptureFiles
  <2>3. files[f + 1] \in Seq(Packet) /\ a \in Nat /\ b \in Nat
    BY Lists, LenProperties
  <2>4. p \in ToSet(files[f + 1]) /\ q \in ToSet(files[f + 1])
    BY DEF ToSet
  <2>5. p \in Captured /\ q \in Captured /\ p.ifindex = f /\ q.ifindex = f
    BY <2>1, <2>2, <2>4 DEF IInv, PacketsFed
  <2>6. p # q /\ compare_pkt_time(p, q) <= 0
    BY <2>1, <2>3 DEF IsInjective, Sorted
  <2> HIDE DEF p, q
  <2>7. /\ p \in Packet /\ p.nr \in DOMAIN capture[f] /\ p = capture[f][p.nr]
        /\ q \in Packet /\ q.nr \in DOMAIN capture[f] /\ q = capture[f][q.nr]
    BY <2>2, <2>5, CaptureFiles
  <2>8. p.nr # q.nr /\ p.sec = q.sec /\ p.usec # q.usec
    BY <2>6, <2>7
  <2>9. p.nr \in Nat /\ q.nr \in Nat /\ p.usec \in Nat /\ q.usec \in Nat
    BY <2>7 DEF Packet
  <2>10. p.usec < q.usec
    BY <2>6, <2>8, <2>9 DEF compare_pkt_time
  <2>11. ~(q.nr < p.nr)
    <3>1. q.nr < p.nr => ~Earlier(capture[f][p.nr], capture[f][q.nr])
      BY <2>2, <2>7, CaptureFiles
    <3> QED BY <2>7, <2>8, <2>10, <3>1 DEF Earlier
  <2>12. p.nr < q.nr
    BY <2>8, <2>9, <2>11
  <2> QED BY <2>12 DEF p, q
<1> QED BY <1>1, Invariance, PTL

=============================================================================
