------------------------------ MODULE LpmTable ------------------------------
(***************************************************************************)
(* A table with an LPM key field, as a BPF LPM trie: the key structure a   *)
(* program builds, the entries that the initializer program and the        *)
(* control plane store, and the match the trie makes of them.              *)
(*                                                                         *)
(* A trie knows only the bytes of a key structure in memory and how many   *)
(* of their bits count.  validateKeys() puts the LPM field last, after the *)
(* exact fields, which are one field here.                                 *)
(***************************************************************************)
EXTENDS Naturals, FiniteSets, SequencesExt

CONSTANTS
  ByteBits,                \* bits of a byte
  LpmBytes,                \* bytes of the LPM field
  DefaultPrefixLen,        \* prefixlen of a constant entry without a mask: 32
  ControlOrder,            \* "network" or "host": how the control plane writes LPM fields
  Actions,                 \* the action an entry names, with its parameters
  NoMatch,
  Tables,                  \* the declarations of a table to consider
  MaxEntries               \* the size property

\* Fields are sequences of bytes, the most significant one first, and bytes are
\* sequences of bits.
Byte     == [1 .. ByteBits -> {0, 1}]
Field(n) == [1 .. n -> Byte]
Key(n)   == [exact : Field(n), lpm : Field(LpmBytes)]

\* An entry of the P4 table.  masked: the LPM field is written as value &&& mask; it
\* is a full match if not.
LpmBits == LpmBytes * ByteBits
Entry(n) == {e \in [key : Key(n), plen : 0 .. LpmBits, masked : BOOLEAN, action : Actions] :
               ~e.masked => e.plen = LpmBits}

\* A table: the bytes of its exact fields, those by which the compiler aligns the LPM
\* field and the whole structure, and the const entries, <<>> if it has none.
IsTable(t) ==
  /\ t.exactBytes \in Nat /\ t.padBytes \in Nat /\ t.tailBytes \in Nat
  /\ t.entries \in Seq(Entry(t.exactBytes))

ASSUME ConstantsAssumption ==
  /\ ByteBits \in Nat \ {0} /\ LpmBytes \in Nat \ {0}
  /\ DefaultPrefixLen \in Nat
  /\ ControlOrder \in {"network", "host"}
  /\ NoMatch \notin Actions
  /\ \A t \in Tables : IsTable(t)
  /\ MaxEntries \in Nat

VARIABLES
  table,      \* the table's declaration; it does not change
  trie,       \* the nodes of the trie: [prefixlen, data, action]
  next,       \* the constant entry the initializer program stores next
  declared    \* history: the entries of the P4 table

vars == <<table, trie, next, declared>>

-----------------------------------------------------------------------------
(* The key structure.                                                      *)

\* Bytes end to end.
Bits(bytes) == [i \in 1 .. ByteBits * Len(bytes) |->
                  bytes[(i - 1) \div ByteBits + 1][((i - 1) % ByteBits) + 1]]
Zeros(n)    == [i \in 1 .. n |-> [b \in 1 .. ByteBits |-> 0]]

\* On a little-endian machine an integer field lies in memory with its least
\* significant byte first; bpf_htonl() and the like turn the bytes around before.
HostOrder(field) == Reverse(field)
bpf_hton(field)  == Reverse(field)

\* What follows prefixlen in the key structure, in the order of the memory, when the
\* C integer of the LPM field is the given one.
KeyStructure(key, lpm) ==
  Bits(HostOrder(key.exact) \o Zeros(table.padBytes) \o HostOrder(lpm) \o Zeros(table.tailBytes))

\* Mutant: the LPM field is not swapped.
emitKey_NoSwap(key) == KeyStructure(key, key.lpm)

\* The lookup swaps the LPM field, and so does the initializer program.
emitKey(key) == KeyStructure(key, bpf_hton(key.lpm))

\* The control plane swaps it or leaves it as the C structure has it.
ControlKey(key) ==
  IF ControlOrder = "network" THEN emitKey(key) ELSE KeyStructure(key, key.lpm)

\* sizeof(key) * 8 - prefixLenFieldWidth
LookupPrefixLen ==
  (table.exactBytes + table.padBytes + LpmBytes + table.tailBytes) * ByteBits

\* The initializer program takes the prefix length of the LPM field alone.
ConstPrefixLen(e) == IF e.masked THEN e.plen ELSE DefaultPrefixLen

\* The control plane adds the bits in front of the LPM field (test.py:220).
ControlPrefixLen(e) == (table.exactBytes + table.padBytes) * ByteBits + e.plen

-----------------------------------------------------------------------------
(* The LPM trie of the kernel.                                             *)

Agree(d1, d2, n) == \A i \in 1 .. n : d1[i] = d2[i]

\* The nodes that bear the given number of the given bits.
SameNode(plen, data) == {n \in trie : n.prefixlen = plen /\ Agree(n.data, data, plen)}

\* Mutant: the size of the map is not looked at.
CanUpdate_Full(plen) == plen <= LookupPrefixLen

CanUpdate(plen) == plen <= LookupPrefixLen /\ Cardinality(trie) < MaxEntries
TrieUpdate(plen, data, action) ==
  trie' = (trie \ SameNode(plen, data)) \cup
          {[prefixlen |-> plen, data |-> data, action |-> action]}

\* The node with the longest prefix that agrees with the key.
TrieLookup(data) ==
  LET matching == {n \in trie : n.prefixlen <= LookupPrefixLen /\ Agree(n.data, data, n.prefixlen)}
      longest == {n \in matching : \A m \in matching : m.prefixlen <= n.prefixlen}
  IN IF matching = {} THEN NoMatch ELSE (CHOOSE n \in longest : TRUE).action

-----------------------------------------------------------------------------
(* The P4 table.                                                           *)

Matches(e, key) ==
  e.key.exact = key.exact /\ Agree(Bits(e.key.lpm), Bits(key.lpm), e.plen)
SameEntry(d, e) == d.plen = e.plen /\ Matches(d, e.key)

P4Lookup(key) ==
  LET matching == {e \in declared : Matches(e, key)}
      longest == {e \in matching : \A d \in matching : d.plen <= e.plen}
  IN IF matching = {} THEN NoMatch ELSE (CHOOSE e \in longest : TRUE).action

-----------------------------------------------------------------------------

Declare(e) == declared' = {d \in declared : ~SameEntry(d, e)} \cup {e}

\* emitConstEntriesInitializer(): the entries are stored in the order of the program;
\* a failed update is traced at most.
InitialiseEntry ==
  /\ next <= Len(table.entries)
  /\ LET e == table.entries[next] IN
       /\ IF CanUpdate(ConstPrefixLen(e))
          THEN TrieUpdate(ConstPrefixLen(e), emitKey(e.key), e.action)
          ELSE UNCHANGED trie
       /\ Declare(e)
  /\ next' = next + 1
  /\ UNCHANGED table

\* The control plane adds an entry or changes its action; const entries allow neither.
AddEntry(e) ==
  /\ table.entries = <<>> /\ e.masked
  /\ CanUpdate(ControlPrefixLen(e))
  /\ TrieUpdate(ControlPrefixLen(e), ControlKey(e.key), e.action)
  /\ Declare(e)
  /\ UNCHANGED <<table, next>>

DeleteEntry(e) ==
  /\ table.entries = <<>> /\ e.masked
  /\ trie' = trie \ SameNode(ControlPrefixLen(e), ControlKey(e.key))
  /\ declared' = {d \in declared : ~SameEntry(d, e)}
  /\ UNCHANGED <<table, next>>

Init == table \in Tables /\ trie = {} /\ next = 1 /\ declared = {}

Next == InitialiseEntry \/ \E e \in Entry(table.exactBytes) : AddEntry(e) \/ DeleteEntry(e)

Spec == Init /\ [][Next]_vars

-----------------------------------------------------------------------------
(* Properties.                                                             *)

TypeOK ==
  /\ table \in Tables
  /\ next \in 1 .. Len(table.entries) + 1
  /\ declared \subseteq Entry(table.exactBytes)
  /\ trie \subseteq [prefixlen : 0 .. LookupPrefixLen,
                    data : [1 .. LookupPrefixLen -> {0, 1}], action : Actions]
  /\ Cardinality(trie) <= MaxEntries

Agrees == \A key \in Key(table.exactBytes) : TrieLookup(emitKey(key)) = P4Lookup(key)

\* Every packet gets the action that the P4 table gives it, in every state of the
\* table: the bytes of the key structure are in an order in which the trie's prefixes
\* are the prefixes of the LPM field, whatever padding the structure has.  This takes a
\* control plane that swaps LPM fields as the lookup does, against the README, see
\* HostOrderMatchesLikeP4, and leaves out the const entries of a table that has exact
\* fields as well, see ConstEntriesMatchLikeP4.
MatchesLikeP4 ==
  (IF table.entries = <<>> THEN ControlOrder = "network" ELSE table.exactBytes + table.padBytes = 0)
  => Agrees

\* psa/README.md:135, "Both key and value fields must be provided in the host byte
\* order": so that the table finds what the control plane puts there.
HostOrderMatchesLikeP4 == table.entries = <<>> /\ ControlOrder = "host" => Agrees

\* test.py:220, "Note that prefix value has to be a sum of exact fields size and lpm
\* prefix": so that the exact fields of an entry are matched in full.
ConstEntriesMatchLikeP4 == next = Len(table.entries) + 1 => Agrees

=============================================================================
