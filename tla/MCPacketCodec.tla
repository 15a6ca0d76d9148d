--------------------------- MODULE MCPacketCodec ---------------------------
(***************************************************************************)
(* PacketCodec for TLC: a program for every field of up to 64 bits, by its *)
(* width and its place in a byte, and programs with the headers of real    *)
(* protocols.                                                              *)
(***************************************************************************)
EXTENDS PacketCodec

\* A program that extracts one header and emits it.
One(layout) == [headers |-> <<layout>>, parse |-> <<[call |-> "extract", arg |-> 1]>>, emit |-> <<1>>]

\* A field of w bits at bit a of its byte, with what is needed around it.
Around(a, w) ==
  (IF a = 0 THEN <<>> ELSE <<a>>) \o <<w>> \o
  (IF (a + w) % 8 = 0 THEN <<>> ELSE <<8 - ((a + w) % 8)>>)

FieldPrograms == {One(Around(x[1], x[2])) : x \in (0 .. 7) \X (1 .. 64)}

Ethernet == <<48, 48, 16>>
Vlan     == <<3, 1, 12, 16>>
Mpls     == <<20, 3, 1, 8>>
Ipv4     == <<4, 4, 8, 16, 16, 3, 13, 8, 8, 16, 32, 32>>
Extract(h) == [call |-> "extract", arg |-> h]
Verify4  == [call |-> "verify", arg |-> "ParserInvalidArgument"]
Version  == <<4, 4>>
Address  == <<16, 48>>
StackPrograms ==
  {[headers |-> <<Ethernet, Vlan, Mpls>>, parse |-> <<Extract(1), Extract(2)>>, emit |-> <<1, 2, 3>>],
   [headers |-> <<Ethernet, Version, Ipv4>>,
    parse |-> <<Extract(1), [call |-> "lookahead", arg |-> 2], Verify4, Extract(3)>>, emit |-> <<1, 3>>],
   [headers |-> <<Ethernet, Address>>, parse |-> <<Extract(1), Extract(2)>>, emit |-> <<1, 2>>],
   [headers |-> <<Ethernet, Mpls>>, parse |-> <<Extract(1), [call |-> "advance", arg |-> 32], Extract(2)>>,
    emit |-> <<2, 1>>]}

\* Headers that are read again, and headers and advances of parts of bytes.
AgainPrograms ==
  {[headers |-> <<Ethernet, Mpls>>, parse |-> <<Extract(1), [call |-> "lookahead", arg |-> 2], Extract(2)>>,
    emit |-> <<1, 2>>],
   [headers |-> <<Mpls>>, parse |-> <<Extract(1), Extract(1)>>, emit |-> <<1>>]}
PartPrograms ==
  {[headers |-> <<<<4>>, <<12>>>>, parse |-> <<Extract(1), Extract(2)>>, emit |-> <<1, 2>>],
   [headers |-> <<Version>>, parse |-> <<[call |-> "advance", arg |-> 4], Extract(1)>>, emit |-> <<1>>]}

\* Headers with fields of more than 64 bits.  Only the control block can make Ipv6 and
\* the like valid, extract() never finds a packet long enough; Wide128 it can read.
Ipv6     == <<4, 8, 20, 16, 8, 8, 128, 128>>
Wide128  == <<20, 4, 128>>
Odd128   == <<21, 128, 3>>
WideRead == {[headers |-> <<Ethernet, Wide128, <<128>>>>, parse |-> <<Extract(1), Extract(2)>>, emit |-> <<1, 2, 3>>],
             One(Odd128)}
WidePrograms ==
  {[headers |-> <<Ethernet, Ipv6>>, parse |-> <<Extract(1)>>, emit |-> <<1, 2>>],
   [headers |-> <<Ethernet, <<4, 72, 4>>>>, parse |-> <<Extract(1)>>, emit |-> <<2, 1>>]}

MCPrograms ==
  FieldPrograms \cup StackPrograms \cup WidePrograms \cup WideRead \cup AgainPrograms \cup PartPrograms

Straddling == {One(<<6, 12, 6>>)}
Masked == {One(<<4, 32, 4>>)}
Nibbles == {One(<<6, 4, 6>>)}
Wide == {One(<<128>>)}
NineBytes == {One(<<7, 58, 7>>)}
WidePart == {[headers |-> <<Ethernet, <<123, 5>>>>, parse |-> <<Extract(1)>>, emit |-> <<1, 2>>]}
Twice == {[headers |-> <<Ethernet>>, parse |-> <<Extract(1)>>, emit |-> <<1, 1>>]}
=============================================================================
