---------------------------- MODULE PacketCodec ----------------------------
(***************************************************************************)
(* How generated C code reads the headers of a packet into structures, and *)
(* how it writes them back: packet_in.extract(), lookahead(), advance()    *)
(* and verify() of the parser, packet_out.emit() of the deparser, and the  *)
(* resizing of the packet in between, one C statement per action.          *)
(*                                                                         *)
(* Loads, shifts, masks and stores move bits and do not look at them.  A   *)
(* bit is therefore known by where it comes from, and what is checked of   *)
(* these is checked for all values of all fields.  A packet is a sequence  *)
(* of bits; bit b of a word or a byte is the one that stands for 2^b.      *)
(***************************************************************************)
EXTENDS Integers, Sequences, Functions

CONSTANTS
  Programs,     \* P4 programs: [headers : layouts, parse : calls, emit : headers]
  Sizes,        \* lengths of packets, in bytes
  MacBytes,     \* bytes that stay in front when the packet is resized: 14
  UIntValues    \* numbers that the compiler's unsigned can hold: 2^32

\* A layout is the sequence of the widths of a header's fields.
Layout == Seq(Nat \ {0})

\* SumTo(s)[k]: what the first k numbers of a sequence add up to.
SumTo(s) == LET sum[k \in 0 .. Len(s)] == IF k = 0 THEN 0 ELSE sum[k - 1] + s[k] IN sum
Width(layout) == SumTo(layout)[Len(layout)]

ASSUME ConstantsAssumption ==
  /\ \A p \in Programs :
       /\ p.headers \in Seq(Layout) /\ Len(p.parse) \in Nat /\ DOMAIN p.parse = 1 .. Len(p.parse)
       /\ \A n \in DOMAIN p.parse :
            \/ p.parse[n].call \in {"extract", "lookahead"} /\ p.parse[n].arg \in DOMAIN p.headers
            \/ p.parse[n].call = "advance" /\ p.parse[n].arg \in Nat
            \/ p.parse[n].call = "verify"
       /\ p.emit \in Seq(DOMAIN p.headers)
  /\ Sizes \subseteq Nat /\ MacBytes \in Nat /\ UIntValues \in Nat /\ UIntValues > 64

VARIABLES
  prog, size,   \* the program, and the length of the packet received; they do not change
  pc,
  pkt,          \* the packet, a sequence of bits
  offset,       \* ebpf_packetOffsetInBits
  n, f,         \* the call and the field that are next
  written,      \* bytes of the field that are written
  hdr,          \* hdr[h][k]: field k of header h in the C structure
  order,        \* history: order[h][k], the end its bytes begin with, "least" or "most"
  valid,        \* valid[h]: ebpf_valid
  error,        \* ebpf_errorCode
  meant,        \* history: the headers' fields as the control block left them
  consumed,     \* history: ebpf_packetOffsetInBits at the end of the parser
  outside       \* history: a load went past the end of the packet

vars ==
  <<prog, size, pc, pkt, offset, n, f, written, hdr, order, valid, error, meant, consumed, outside>>

-----------------------------------------------------------------------------
(* Bits and words.                                                         *)

\* Where a bit comes from: the packet received, of which w bits behind the first start
\* are a word, or field k of header h as the control block set it.  Junk is any bit that nothing is known of, Both the disjunction of two.
Zero == <<"zero">>
Junk == <<"junk">>
Both == <<"both">>
FieldBits(h, k) == [b \in 0 .. prog.headers[h][k] - 1 |-> <<"field", h, k, b>>]
PacketBits(start, w) == [b \in 0 .. w - 1 |-> <<"packet", start + w - b>>]
Received == [b \in 1 .. 8 * size |-> <<"packet", b>>]

Fill(bit, len) == [b \in 0 .. len - 1 |-> bit]
Cast(word, len) == [b \in 0 .. len - 1 |-> IF b \in DOMAIN word THEN word[b] ELSE Zero]
ShiftRight(word, by) == [b \in DOMAIN word |-> IF b + by \in DOMAIN word THEN word[b + by] ELSE Zero]
ShiftLeft(word, by) == [b \in DOMAIN word |-> IF b - by \in DOMAIN word THEN word[b - by] ELSE Zero]
LowBits(word, len) == [b \in DOMAIN word |-> IF b < len THEN word[b] ELSE Zero]
Or(a, b) == IF a = Zero \/ a = b THEN b ELSE IF b = Zero THEN a ELSE Both

\* Byte i of an object in the memory of a little-endian machine; htons(), htonl() and
\* the like on an object of so many bytes.
ByteOf(object, i) == [b \in 0 .. 7 |-> object[8 * i + b]]
Swap(word, bytes) == [b \in DOMAIN word |-> word[8 * (bytes - 1 - (b \div 8)) + (b % 8)]]

\* EBPFScalarType: the C type of a field, u8, u16, u32, u64 or an array of u8.
Rounded(w) == IF w <= 8 THEN 8 ELSE IF w <= 16 THEN 16 ELSE IF w <= 32 THEN 32 ELSE 64
CBits(w) == IF w <= 64 THEN Rounded(w) ELSE 8 * ((w + 7) \div 8)
TypeAlignment(w) == IF w <= 64 THEN Rounded(w) \div 8 ELSE 1

\* The value of a field, by what its C object holds.  An integer lies in memory with
\* its least significant byte first; in an array the bytes are as they were put there.
Value(h, k) ==
  LET w == prog.headers[h][k]
  IN Cast(IF order[h][k] = "most" THEN Swap(hdr[h][k], CBits(w) \div 8) ELSE hdr[h][k], w)

\* The bits of a header before field k, and the bit of its first byte at which it starts.
StartOf(h, k) == SumTo(prog.headers[h])[k - 1]
AlignmentOf(h, k) == StartOf(h, k) % 8

-----------------------------------------------------------------------------
(* The parser.                                                             *)

Call == prog.parse[n]
Widths == prog.headers[Call.arg]
Bytes(bits) == bits \div 8
PacketBytes == Bytes(Len(pkt))

\* Mutant: no room for words that are larger than their field.
Padding_None(layout) == 0

\* curr_padding, by unsigned arithmetic.
NextPadding(curr, w) ==
  LET Unsigned(x) == x % UIntValues
      padding == Unsigned(TypeAlignment(w) * 8 - w)
  IN IF Unsigned(w + padding) >= curr THEN padding ELSE curr
PaddingTo(layout) ==
  LET curr[k \in 0 .. Len(layout)] == IF k = 0 THEN 0 ELSE NextPadding(curr[k - 1], layout[k])
  IN curr
Padding(layout) == PaddingTo(layout)[Len(layout)]

\* emitRejectState(): the packet is dropped if the parser went there by itself; with
\* an error the control block decides.
Rejected(errorCode) == IF errorCode = "NoError" THEN "dropped" ELSE "control"

\* compileExtract() first checks that the packet is long enough.
CheckLength ==
  /\ pc = "parse" /\ n <= Len(prog.parse) /\ Call.call \in {"extract", "lookahead"}
  /\ IF PacketBytes < Bytes(offset + Width(Widths) + Padding(Widths))
     THEN error' = "PacketTooShort" /\ pc' = Rejected(error')
     ELSE pc' = "extract" /\ error' = error
  /\ f' = 1
  /\ UNCHANGED <<prog, size, pkt, offset, n, written, hdr, order, valid, meant, consumed, outside>>

\* load_byte, load_half, load_word or load_dword at byte Bytes(offset) + i.
Load(i, bits) ==
  LET end == 8 * (Bytes(offset) + i) + bits
  IN [b \in 0 .. bits - 1 |-> IF end - b <= Len(pkt) THEN pkt[end - b] ELSE Junk]
LoadsOutside(i, bits) == Bytes(offset) + i + Bytes(bits) > PacketBytes

LoadBits(w, a) == LET read == (w + a - 1) \div 8 + 1 IN IF read <= 4 THEN Rounded(8 * read) ELSE 64

\* Mutant: the word is not cast to the type of the field.
ScalarField_NoCast(w, a) == LET load == LoadBits(w, a) IN
  LowBits(ShiftRight(Load(0, load), load - a - w), w)

\* A shift by a negative number, or of a mask by the width of its type.
Undefined(w, a) ==
  LET load == LoadBits(w, a) IN load < a + w \/ (w # load /\ w = CBits(w) /\ w >= 32)

\* A field of up to 64 bits is one load, shifted and masked; undefined, it may be anything.
ScalarField(w, a) ==
  LET load == LoadBits(w, a)
  IN IF Undefined(w, a) THEN Fill(Junk, CBits(w))
     ELSE Cast(LowBits(ShiftRight(Load(0, load), load - a - w), w), CBits(w))

\* A wider one is read byte by byte, as the packet has them: the most significant one
\* first.  The last one is masked.
WideField(w, a) ==
  LET last == CBits(w) \div 8
      Part(i) == LET word == IF a = 0 THEN Load(i, 8) ELSE ShiftRight(Load(i, 16), 8 - a)
                 IN LowBits(Cast(word, 8), IF i = last - 1 /\ w % 8 # 0 THEN w % 8 ELSE 8)
  IN [b \in 0 .. 8 * last - 1 |-> Part(b \div 8)[b % 8]]

\* compileExtractField(), field after field.
ExtractField ==
  /\ pc = "extract" /\ f <= Len(Widths)
  /\ LET w == Widths[f]
         a == AlignmentOf(Call.arg, f)
     IN /\ hdr' = [hdr EXCEPT ![Call.arg][f] = IF w <= 64 THEN ScalarField(w, a) ELSE WideField(w, a)]
        /\ order' = [order EXCEPT ![Call.arg][f] = IF w <= 64 THEN "least" ELSE "most"]
        /\ outside' = (outside \/ IF w <= 64 THEN LoadsOutside(0, LoadBits(w, a))
                                  ELSE LoadsOutside(CBits(w) \div 8 - 1, IF a = 0 THEN 8 ELSE 16))
        /\ offset' = offset + w
  /\ f' = f + 1
  /\ UNCHANGED <<prog, size, pc, pkt, n, written, valid, error, meant, consumed>>

\* Mutant: lookahead() moves the cursor.
Extracted_Moved ==
  /\ pc = "extract" /\ f = Len(Widths) + 1
  /\ valid' = [valid EXCEPT ![Call.arg] = TRUE]
  /\ n' = n + 1 /\ pc' = "parse"
  /\ UNCHANGED <<prog, size, pkt, offset, f, written, hdr, order, error, meant, consumed, outside>>

\* The header is valid.  compileLookahead() goes back to where it was.
Extracted ==
  /\ pc = "extract" /\ f = Len(Widths) + 1
  /\ valid' = [valid EXCEPT ![Call.arg] = TRUE]
  /\ offset' = IF Call.call = "lookahead" THEN offset - Width(Widths) ELSE offset
  /\ n' = n + 1 /\ pc' = "parse"
  /\ UNCHANGED <<prog, size, pkt, f, written, hdr, order, error, meant, consumed, outside>>

\* compileAdvance() moves first and checks afterwards.
Advance ==
  /\ pc = "parse" /\ n <= Len(prog.parse) /\ Call.call = "advance"
  /\ offset' = offset + Call.arg
  /\ IF PacketBytes < Bytes(offset')
     THEN error' = "PacketTooShort" /\ pc' = Rejected(error') /\ n' = n
     ELSE n' = n + 1 /\ UNCHANGED <<pc, error>>
  /\ UNCHANGED <<prog, size, pkt, f, written, hdr, order, valid, meant, consumed, outside>>

\* compileVerify(): whether the condition holds is a free choice.
Verify ==
  /\ pc = "parse" /\ n <= Len(prog.parse) /\ Call.call = "verify"
  /\ \/ n' = n + 1 /\ UNCHANGED <<pc, error>>
     \/ error' = Call.arg /\ pc' = Rejected(error') /\ n' = n
  /\ UNCHANGED <<prog, size, pkt, offset, f, written, hdr, order, valid, meant, consumed, outside>>

\* The last transition, to accept or to reject, may depend on any field.
LastTransition ==
  /\ pc = "parse" /\ n = Len(prog.parse) + 1
  /\ pc' \in {"control", Rejected(error)}
  /\ UNCHANGED <<prog, size, pkt, offset, n, f, written, hdr, order, valid, error, meant, consumed, outside>>

\* What an assignment gives a field.  The parameter of an action comes from an entry
\* of a table, whose array the control plane has written in host byte order, least
\* significant byte first.  Another field is copied as it is, a wide one by memcpy().
Set(h, k) == Cast(FieldBits(h, k), CBits(prog.headers[h][k]))
Parameter(h, k) == [object |-> Set(h, k), order |-> "least", value |-> FieldBits(h, k)]
Content(h, k) == [object |-> hdr[h][k], order |-> order[h][k], value |-> Value(h, k)]

Fields == UNION {{h} \X DOMAIN prog.headers[h] : h \in DOMAIN prog.headers}
WideFields == {x \in Fields : prog.headers[x[1]][x[2]] > 64}

\* The control block removes headers and adds others, whose fields it sets; of the wide
\* fields, which no operator applies to, it may copy some to others.
Control ==
  /\ pc = "control"
  /\ valid' \in [DOMAIN prog.headers -> BOOLEAN]
  /\ \E from \in [WideFields -> WideFields] :
       /\ \A x \in WideFields : from[x] # x =>
            /\ valid'[x[1]] /\ valid[from[x][1]]
            /\ prog.headers[x[1]][x[2]] = prog.headers[from[x][1]][from[x][2]]
       /\ LET copied(h, k) == <<h, k>> \in WideFields /\ from[<<h, k>>] # <<h, k>>
              new(h, k) == CASE copied(h, k) -> Content(from[<<h, k>>][1], from[<<h, k>>][2])
                             [] ~copied(h, k) /\ valid'[h] /\ ~valid[h] -> Parameter(h, k)
                             [] OTHER -> Content(h, k)
          IN /\ hdr' = [h \in DOMAIN hdr |-> [k \in DOMAIN hdr[h] |-> new(h, k).object]]
             /\ order' = [h \in DOMAIN hdr |-> [k \in DOMAIN hdr[h] |-> new(h, k).order]]
             /\ meant' = [h \in DOMAIN hdr |-> [k \in DOMAIN hdr[h] |-> new(h, k).value]]
  /\ pc' = "resize"
  /\ consumed' = offset
  /\ UNCHANGED <<prog, size, pkt, offset, n, f, written, error, outside>>

-----------------------------------------------------------------------------
(* The deparser.                                                           *)

Out == prog.emit[n]

\* What each emit() adds to outHeaderLength.
Lengths == [e \in DOMAIN prog.emit |-> IF valid[prog.emit[e]] THEN Width(prog.headers[prog.emit[e]]) ELSE 0]
outHeaderLength == SumTo(Lengths)[Len(prog.emit)]

\* bpf_skb_adjust_room(skb, by, BPF_ADJ_ROOM_MAC, 0) makes or removes room behind the
\* MAC header; it can always fail.
AdjustRoom(by) ==
  /\ MacBytes <= PacketBytes /\ MacBytes - by <= PacketBytes
  /\ pkt' = [b \in 1 .. Len(pkt) + 8 * by |->
               IF b <= 8 * MacBytes THEN pkt[b]
               ELSE IF b <= 8 * (MacBytes + by) THEN Junk
               ELSE pkt[b - 8 * by]]

\* Mutant: the packet is resized by bits.
ResizeBuffer_Bits ==
  /\ pc = "resize"
  /\ LET by == outHeaderLength - offset
     IN IF by = 0 THEN pkt' = pkt /\ pc' = "emit"
        ELSE \/ AdjustRoom(by) /\ pc' = "emit"
             \/ pkt' = pkt /\ pc' = "dropped"
  /\ offset' = 0 /\ n' = 1 /\ f' = 1
  /\ UNCHANGED <<prog, size, written, hdr, order, valid, error, meant, consumed, outside>>

\* emitBufferAdjusts(): if the packet cannot be resized it is dropped.
ResizeBuffer ==
  /\ pc = "resize"
  /\ LET by == Bytes(outHeaderLength) - Bytes(offset)
     IN IF by = 0 THEN pkt' = pkt /\ pc' = "emit"
        ELSE \/ AdjustRoom(by) /\ pc' = "emit"
             \/ pkt' = pkt /\ pc' = "dropped"
  /\ offset' = 0 /\ n' = 1 /\ f' = 1
  /\ UNCHANGED <<prog, size, written, hdr, order, valid, error, meant, consumed, outside>>

ReplaceByte(p, at, byte) ==
  [b \in DOMAIN p |-> IF b \in 8 * at + 1 .. 8 * at + 8 THEN byte[8 * at + 8 - b] ELSE p[b]]

\* write_partial(a, w, s, v): what v has beyond w bits goes into the byte too.
write_partial(p, at, w, s, v) ==
  LET moved == ShiftLeft(v, s)
  IN ReplaceByte(p, at, [b \in 0 .. 7 |->
       IF b \in s .. s + w - 1 THEN moved[b] ELSE Or(p[8 * at + 8 - b], moved[b])])

\* emit() of a header that is not valid does nothing.
SkipHeader ==
  /\ pc = "emit" /\ n <= Len(prog.emit) /\ ~valid[Out]
  /\ n' = n + 1
  /\ UNCHANGED <<prog, size, pc, pkt, offset, f, written, hdr, order, valid, error, meant, consumed, outside>>

\* Each emit() checks once more that the packet has room for its header.
EmitHeader ==
  /\ pc = "emit" /\ n <= Len(prog.emit) /\ valid[Out]
  /\ pc' = IF PacketBytes < Bytes(offset + Width(prog.headers[Out])) THEN "dropped" ELSE "fields"
  /\ f' = 1
  /\ UNCHANGED <<prog, size, pkt, offset, n, written, hdr, order, valid, error, meant, consumed, outside>>

\* One byte of a field, of which left bits are not written yet, goes to byte at of the
\* packet or, if the field is not aligned, to two.
WithByte(p, byte, at, left, w, a) ==
  LET free == 8 - a
      inByte == IF left >= 8 THEN 8 ELSE left
      toWrite == IF inByte > free THEN free ELSE inByte
      dropped == IF w > free THEN IF a = 0 THEN 8 - toWrite ELSE a ELSE 0
      first == IF toWrite = 8 THEN ReplaceByte(p, at, byte)
               ELSE write_partial(p, at, toWrite, 8 - a - toWrite, ShiftRight(byte, dropped))
  IN IF inByte = toWrite THEN first
     ELSE write_partial(first, at + 1, 8 - toWrite, toWrite, byte)

\* Mutant: swapped, but not shifted.
InMemory_NoShift(h, k) ==
  LET w == prog.headers[h][k] IN IF w > 8 /\ w <= 64 THEN Swap(hdr[h][k], CBits(w) \div 8) ELSE hdr[h][k]

\* The field is shifted to the upper end of its C type and byte-swapped where it is,
\* in the header structure; fields of a byte are not, and arrays are taken backwards.
InMemory(h, k) ==
  LET w == prog.headers[h][k] IN
  IF w > 8 /\ w <= 64 THEN Swap(ShiftLeft(hdr[h][k], CBits(w) - w), CBits(w) \div 8) ELSE hdr[h][k]

StartField ==
  /\ pc = "fields" /\ f <= Len(prog.headers[Out])
  /\ hdr' = [hdr EXCEPT ![Out][f] = InMemory(Out, f)]
  /\ pc' = "bytes" /\ written' = 0
  /\ UNCHANGED <<prog, size, pkt, offset, n, f, order, valid, error, meant, consumed, outside>>

\* The loop over the bytes of a field in memory; those of a wide one in reversed order.
EmitByte ==
  /\ pc = "bytes"
  /\ LET w == prog.headers[Out][f]
         bytes == (w + 7) \div 8
         at == Bytes(offset) + IF w > 64 THEN bytes - written - 1 ELSE written
     IN /\ written < bytes
        /\ pkt' = WithByte(pkt, ByteOf(hdr[Out][f], written), at, w - 8 * written, w, AlignmentOf(Out, f))
  /\ written' = written + 1
  /\ UNCHANGED <<prog, size, pc, offset, n, f, hdr, order, valid, error, meant, consumed, outside>>

FieldEmitted ==
  /\ pc = "bytes" /\ written = (prog.headers[Out][f] + 7) \div 8
  /\ offset' = offset + prog.headers[Out][f]
  /\ pc' = "fields" /\ f' = f + 1
  /\ UNCHANGED <<prog, size, pkt, n, written, hdr, order, valid, error, meant, consumed, outside>>

HeaderEmitted ==
  /\ pc = "fields" /\ f = Len(prog.headers[Out]) + 1
  /\ pc' = "emit" /\ n' = n + 1
  /\ UNCHANGED <<prog, size, pkt, offset, f, written, hdr, order, valid, error, meant, consumed, outside>>

Deparsed ==
  /\ pc = "emit" /\ n = Len(prog.emit) + 1
  /\ pc' = "done"
  /\ UNCHANGED <<prog, size, pkt, offset, n, f, written, hdr, order, valid, error, meant, consumed, outside>>

-----------------------------------------------------------------------------

\* The structures are zeroed before the parser runs.
Init ==
  /\ prog \in Programs /\ size \in Sizes
  /\ pc = "parse" /\ pkt = Received /\ offset = 0 /\ n = 1 /\ f = 1 /\ written = 0
  /\ hdr = [h \in DOMAIN prog.headers |->
              [k \in DOMAIN prog.headers[h] |-> Fill(Zero, CBits(prog.headers[h][k]))]]
  /\ order = [h \in DOMAIN prog.headers |-> [k \in DOMAIN prog.headers[h] |-> "least"]]
  /\ valid = [h \in DOMAIN prog.headers |-> FALSE]
  /\ error = "NoError" /\ outside = FALSE
  /\ meant = [h \in DOMAIN prog.headers |-> [k \in DOMAIN prog.headers[h] |-> <<>>]] /\ consumed = 0

Next ==
  \/ CheckLength \/ ExtractField \/ Extracted \/ Advance \/ Verify \/ LastTransition
  \/ Control
  \/ ResizeBuffer \/ SkipHeader \/ EmitHeader \/ StartField \/ EmitByte \/ FieldEmitted
  \/ HeaderEmitted \/ Deparsed

Spec == Init /\ [][Next]_vars

-----------------------------------------------------------------------------
(* Properties.                                                             *)

TypeOK ==
  /\ prog \in Programs /\ size \in Sizes
  /\ pc \in {"parse", "extract", "control", "resize", "emit", "fields", "bytes", "done", "dropped"}
  /\ offset \in Nat /\ n \in Nat /\ f \in Nat /\ written \in Nat
  /\ Len(pkt) \in Nat /\ Len(pkt) % 8 = 0 /\ DOMAIN pkt = 1 .. Len(pkt)
  /\ DOMAIN hdr = DOMAIN prog.headers
  /\ \A h \in DOMAIN prog.headers :
       /\ DOMAIN hdr[h] = DOMAIN prog.headers[h]
       /\ \A k \in DOMAIN prog.headers[h] : DOMAIN hdr[h][k] = 0 .. CBits(prog.headers[h][k]) - 1
  /\ DOMAIN order = DOMAIN prog.headers
  /\ \A h \in DOMAIN prog.headers :
       /\ DOMAIN order[h] = DOMAIN prog.headers[h]
       /\ \A k \in DOMAIN prog.headers[h] :
            order[h][k] = "least" \/ (order[h][k] = "most" /\ prog.headers[h][k] > 64)
  /\ valid \in [DOMAIN prog.headers -> BOOLEAN]
  /\ error \in {"NoError", "PacketTooShort"}
               \cup {prog.parse[c].arg : c \in {d \in DOMAIN prog.parse : prog.parse[d].call = "verify"}}
  /\ outside \in BOOLEAN /\ consumed \in Nat

\* The bit of the packet at which call c starts, and that of the output at which the
\* header of emit() number e does.
Advances(c) == CASE c.call = "advance" -> c.arg
                 [] c.call = "extract" -> Width(prog.headers[c.arg])
                 [] OTHER -> 0
ReadFrom(c) == SumTo([d \in DOMAIN prog.parse |-> Advances(prog.parse[d])])[c - 1]
WrittenTo(e) == SumTo(Lengths)[e - 1]

\* Field k of the header that call c reads is what the packet has there; that of the
\* header that emit() number e writes is there in the packet.
FieldRead(c, k) ==
  LET h == prog.parse[c].arg
  IN Value(h, k) = PacketBits(ReadFrom(c) + StartOf(h, k), prog.headers[h][k])
FieldWritten(e, k) ==
  LET h == prog.emit[e]
      w == prog.headers[h][k]
  IN \A b \in 0 .. w - 1 : pkt[WrittenTo(e) + StartOf(h, k) + w - b] = meant[h][k][b]

Reads(c) == prog.parse[c].call \in {"extract", "lookahead"}
FieldsOf(h) == DOMAIN prog.headers[h]

\* No call after c has read, or is reading, the header that c reads.
LastRead(c) ==
  \A d \in c + 1 .. n : (d < n \/ pc = "extract") /\ Reads(d) => prog.parse[d].arg # prog.parse[c].arg

\* Neither p4c nor its eBPF back end refuses a header or an advance() by part of a byte,
\* but the back end takes what follows to start with a byte.
WholeBytes ==
  /\ \A h \in DOMAIN prog.headers : Width(prog.headers[h]) % 8 = 0
  /\ \A c \in DOMAIN prog.parse : prog.parse[c].call = "advance" => prog.parse[c].arg % 8 = 0

\* extract() and lookahead() put the bits of the packet at the cursor into the fields,
\* in their order and each to its full width (core.p4:35, "Read a header from the
\* packet into a fixed-sized header @hdr and advance the cursor").
EveryFieldRead ==
  pc \in {"parse", "extract", "control"} =>
    \A c \in 1 .. n - 1 : Reads(c) /\ LastRead(c) =>
      \A k \in FieldsOf(prog.parse[c].arg) : FieldRead(c, k)

\* That holds of fields of up to 64 bits whose load, shift and mask are defined, and of
\* wider ones of whole bytes.
ExtractReadsHeader ==
  WholeBytes /\ pc \in {"parse", "extract", "control"} =>
    \A c \in 1 .. n - 1 : Reads(c) /\ LastRead(c) => \A k \in FieldsOf(prog.parse[c].arg) :
      LET w == prog.headers[prog.parse[c].arg][k]
      IN (IF w <= 64 THEN ~Undefined(w, AlignmentOf(prog.parse[c].arg, k)) ELSE w % 8 = 0)
         => FieldRead(c, k)

\* ebpfParser.cpp:338-340, "to load some fields the compiler will use larger words than
\* actual width of a field [...] we must ensure that the larger word is not outside of
\* packet buffer".
LargerWordInside == ~outside

\* That holds of headers no field of which is loaded as a larger word than its C type,
\* although the padding added to the length is that of one field only.
ReadsInsidePacket ==
  (\A h \in DOMAIN prog.headers : \A k \in DOMAIN prog.headers[h] :
     LET w == prog.headers[h][k] IN w <= 64 /\ LoadBits(w, AlignmentOf(h, k)) <= CBits(w))
  => ~outside

\* core.p4:25, PacketTooShort means "Not enough bits in packet for 'extract'".
TooShortOnlyIfShort ==
  pc = "control" /\ error = "PacketTooShort" => 8 * size < ReadFrom(n + 1)

\* The fields that are written where they belong: in whole bytes, from the first bit of
\* a byte, within one byte, or with enough bits in the last byte to fill up the one it
\* begins in.
Emittable(w, a) ==
  \/ w % 8 = 0
  \/ w <= 64 /\ (a = 0 \/ a + w <= 8 \/ (w > 8 /\ a + (w % 8) >= 8))

EmitsFields == \A e \in DOMAIN prog.emit : \A k \in FieldsOf(prog.emit[e]) :
  Emittable(prog.headers[prog.emit[e]][k], AlignmentOf(prog.emit[e], k))

\* What leaves the deparser starts with the valid headers, in the order of the emit()
\* calls and with the values that the control block left in their fields (core.p4:57,
\* "Write @hdr into the output packet").
EveryFieldWritten ==
  pc = "done" => \A e \in DOMAIN prog.emit : valid[prog.emit[e]] =>
                   \A k \in FieldsOf(prog.emit[e]) : FieldWritten(e, k)

\* That holds if all fields are written where they belong and no header twice, but not
\* of a wide field that was extracted from the packet, or copied from one that was: the
\* bytes of its array are written backwards whatever their order is.
EmitWritesHeader ==
  pc = "done" /\ WholeBytes /\ EmitsFields /\ IsInjective(prog.emit) =>
    \A e \in DOMAIN prog.emit : valid[prog.emit[e]] => \A k \in FieldsOf(prog.emit[e]) :
      order[prog.emit[e]][k] = "least" => FieldWritten(e, k)

\* ... and goes on with all that the parser had not consumed, as long as neither what
\* was parsed nor what is emitted is less than the MAC header that stays in its place
\* when the packet is resized, and no field has a part of a byte beyond 64 bits.
PayloadKept ==
  /\ pc = "done" /\ WholeBytes
  /\ outHeaderLength = consumed \/ (outHeaderLength >= 8 * MacBytes /\ consumed >= 8 * MacBytes)
  /\ \A e \in DOMAIN prog.emit : \A k \in FieldsOf(prog.emit[e]) :
       LET w == prog.headers[prog.emit[e]][k] IN w <= 64 \/ w % 8 = 0
  => /\ Len(pkt) - outHeaderLength = 8 * size - consumed
     /\ \A b \in 1 .. 8 * size - consumed : pkt[outHeaderLength + b] = <<"packet", consumed + b>>

=============================================================================
