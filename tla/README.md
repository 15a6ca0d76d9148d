# The PSA/eBPF data plane of p4c, in TLA+

This directory holds TLA+ models of the C programs that `backends/ebpf` of this repository
generates from P4, of the runtime they are tested on, of the kernel and control-plane behaviour
they depend on, and of the compiler passes a P4 program goes through before it is printed,
together with TLC configurations and TLAPS proofs. Paths below are relative to
`src/backends/ebpf/` unless they begin with `src/`.

Two things are hard here. What the compiler *prints* is C that runs in several softirqs on several
CPUs, nests in itself, shares maps with other CPUs and with a control plane, and moves bits with
shifts, masks and wide loads. And what it *does* is a sequence of rewritings, repeated until
nothing changes, each of which must keep the meaning of the program and leave what the next one
takes for granted. A definition that models generated C is mapped to the lines of the compiler
that emit it, and a name that is in the source is kept.

Contents

1. The system and its parts
2. Which module models what
3. The runs, what they show, and their bounds
4. Fairness and deadlock
5. What is proved
6. Disagreements with comments and documentation
7. What is not modelled
8. Plan

## 1. The system and its parts

A P4 program for the PSA architecture becomes one C file with three BPF programs per interface.

```
 wire --> XDP helper --> TC ingress --------------------------> TC egress --> wire
          (EtherType     parser, control, deparser,   unicast    parser, control,
           saved)        resubmit loop,               ------->   deparser, traffic
                         traffic manager                         manager
                            |      ^                              |       |
                            |      '-- CPU input queue <----------|-------'
                            |            recirculation            |
                            '-- clone / multicast ----------------'
                                   (replication engine)
              psabpf, the control plane, changes tables, sessions and groups
```

**XDP helper** (`psa/xdpHelpProgram.h`). The kernel looks at the EtherType before TC runs. The
helper replaces a non-IP EtherType by IPv4 and saves the real one in `skb->data_meta`; TC ingress
puts it back ("workaround to make TC protocol-independent"). State: the packet. Right if: no
parser ever sees the substitute, and nothing a later deparser wrote is overwritten by a stale
saved type.

**TC ingress** (`psa/ebpfPipeline.cpp`, `psa/ebpfPsaDeparser.cpp`). `process()` parses into
per-CPU memory (`hdr_md_cpumap`, element 0), runs the control block, makes clones, then drops,
resubmits or deparses. It is called in a loop of `maxResubmitDepth` iterations; then the traffic
manager multicasts or redirects. State: locals (`ostd`, the pass counter), `skb->cb`
(`psa_global_metadata`), the per-CPU headers. Hard: what survives from one iteration to the next,
what a copy inherits, in which order bytes and copies are made.

**TC egress** (same files). Parser, control, deparser on element 1 of the per-CPU memory, then
clones, drop, recirculation or transmission. Hard: `bpf_clone_redirect()` runs it *inside* the
program that makes the copy, so it interrupts ingress and itself on the same CPU.

**Packet replication engine** (`psa/ebpfPsaGen.cpp`). `do_packet_clones()` looks up the inner map
of a clone session or multicast group and walks a linked list of members kept in that map
(`do_for_each`), cloning the packet to each. State: the maps, `skb->cb` borrowed during the walk.
Hard: no lock, elements of preallocated maps are reused at once, the control plane edits the
list meanwhile, the walk is bounded.

**Match-action tables** (`ebpfTable.cpp`, `psa/ebpfPsaTable.cpp`, `ebpfControl.cpp`). A key
structure is built and looked up in a hash map or an LPM trie; the value's action id is switched
over, its parameters are read through the pointer, the default action comes from a map of its
own; the filter model has array tables as well. Hard: reading through a pointer while the control plane replaces the
entry, or overwrites it in place in an array; which bits of a key structure, padding included, a trie compares.

**Counters** (`ebpfTable.cpp`, class `EBPFCounterTable`). Lookup, then atomic addition or, on a
miss, an insertion. Hard: the gap between lookup and insertion, on several CPUs.

**Parsers and deparsers** (`ebpfParser.cpp`, `ebpfDeparser.cpp`, `ebpfType.cpp`). Bits to C
structures and back by loads of 8 to 64 bits, shifts, masks, byte swaps, partial writes; length
checks before; resizing of the packet between. Hard: boundaries, in every one of these.

**User-space map runtime** (`runtime/ebpf_registry.c`, `runtime/ebpf_map.c`). The stand-in for the
kernel's maps on which the test target runs. Tables are registered under a name and an id, each
over a uthash list. Hard: pointers to freed memory, two indexes that must agree.

**Test runtime** (`runtime/ebpf_runtime.c`, `ebpf_runtime_test.c`, `pcap_util.c`). Capture files in,
merged by time, filtered, split by interface, capture files out. Hard: order, and interfaces
without packets.

**Compiler passes** (`src/frontends/p4`, `src/frontends/common/constantFolding.cpp`, `src/midend`,
`lower.cpp`, `codeGen.cpp`). `FrontEnd::run` and `MidEnd::run` invoke a list of passes; some are
wrapped in a `PassRepeated`, which runs them until the program no longer changes. State: the
program and the place in the list. Hard: arithmetic of the evaluator against P4's and against
C's, statements moved out of or into branches, passes whose result another pass undoes, and the
form that the code generator expects but does not check.

**Control plane** (psabpf, not in this repository). Modelled from the maps the generated code
declares and from `psa/README.md` and `tests/ptf`; its definitions are marked external.

The remaining parts (filter-model programs, targets, drivers, the other back ends, front end, mid
end, IR, and so on) are listed in `PROJECT.json` with the reason they are left out; see section 7.

## 2. Which module models what

| Module | Models | State |
|---|---|---|
| `PsaPipeline` | XDP helper, TC ingress, traffic managers, TC egress, replication as whole calls, recirculation | `stack`, `hdr_md`, `backlog`, `tbl` |
| `Replication` | `do_for_each()` load by load against the control plane | `element`, `inner`, `adding`, `walk` |
| `TableApply` | `table.apply()` load by load against the control plane | `value`, `entry`, `writing`, `run` |
| `LpmTable` | key structures, prefix lengths and the LPM trie | `table`, `trie`, `next` |
| `Counters` | `increment()` and `add()` on several CPUs | `value`, `entry`, `extra`, `call` |
| `PacketCodec` | extract, lookahead, advance, verify, reject, copies of wide fields, resizing, emit, on symbolic bits | `pkt`, `offset`, `hdr`, `valid`, ... |
| `UserRuntime` | `ebpf_registry.c` over `ebpf_map.c` | two hashes, `elements`, `bpf_map`, ... |
| `TableStore` | what `ebpf_registry.h` and `ebpf_map.h` promise; `UserRuntime` implements it | `tables`, `nextId`, `ret` |
| `PcapRuntime` | one run of the test target's main program | `pc`, lists, `files` |
| `Compiler` | the passes in their order, repetition, refusal, what is compared | `source`, `prog`, `group`, `at`, `before` |
| `ExprRules` | the passes over expressions: what folding, strength reduction, lowering, ... make of one node | |
| `ExprPasses` | these passes over a whole expression, from the operands up | |
| `ExprCode` | how an expression is printed, and what C computes from the printed text | |
| `ControlPasses` | the passes over statements: exits, returns, if, switch, misses | |
| `ParserPasses` | the passes over parser states and selects, and the printed parser | |

`MC<Module>` gives the constants that a `.cfg` cannot write. `<Module>_proofs` holds the proofs about
`PsaPipeline`, `Replication`, `UserRuntime`, `Counters`, `LpmTable`, `PacketCodec` and `PcapRuntime`; `Control_proofs` those about what
a control does, `TableApply` and `ExprRules`.

**PsaPipeline.** A CPU is a *stack* of program runs (frames). `bpf_clone_redirect()` pushes the
egress run of the copy (`DoClone`) and the frame below waits at `pc = "clone"`; `bpf_redirect()`
takes effect when ingress returns, so `Unicast` replaces the frame. One action is one step
between two points at which something else can be observed: arrival (`XdpHelper`,
`TakeRecirculated`), restoring the EtherType (`TcIngress`), one parser-and-control pass
(`IngressProcess`, `IngressReject`), the pre-deparser with its clones (`IngressPreDeparser`,
`DoClone`, `ClonesDone`), the three verdicts, the traffic manager, and the same for egress. The
P4 program is a parameter: `IngressControl(type, path, ostd)` is the *set* of results its control
block may leave. Of the headers only the EtherType is kept, because it is the field that helper,
parsers and deparsers all rewrite; it also stands for "the headers" in `hdr_md`. History fields
of a frame or packet (`wire`, `rx`, `cause`, `meant`, `unlisted`) record what really happened, so
that invariants can compare it with what the program believes. The cause of a copy is the call that makes it
(`CopyCause`: ingress before or after its traffic manager began, or egress), never the path that `do_packet_clones()` wrote to
`skb->cb`.

**Replication.** `PsaPipeline` takes a whole member list at once. `Replication` splits the walk into
its loads (head, port, instance, lookup, clone) and the control plane's insertion into its two map
updates, over memory slots that are reused at once. Its properties say when the atomic view is
right: a walk overtaken by at most one insertion sees the list before it or after it.

**TableApply** does the same for the three reads of a table value. The three maps a table can become differ in
what an update does to the memory a program reads: the slot of a hash map's element is given up and reused (`Spare`), the
node of a trie is freed when no program points to it, which is why tries are always safe, and the element of an array
(`TableArray`, `array_table` of the filter model) is there from the start and overwritten in place, action and
parameter one after the other in either order (`BeginOverwrite`, `EndOverwrite`).

**LpmTable** computes key structures as bit strings in memory order and compares the trie's choice
with the longest-prefix choice that P4 defines over the declared entries. `ControlOrder` says whether the control plane
swaps the LPM field of a key, as the program's lookup does, or leaves it in host byte order.

**Counters** has slots, the per-CPU extra element that a preallocated hash map uses for in-place
updates, and two histories: what was to be added, and which counters an insertion spoilt.

**PacketCodec** treats a bit as its origin ("bit 17 of the packet received", "bit 3 of field 2 of
header 1"). Loads, shifts, masks and swaps only move bits, so one state covers every value of
every field. A packet is a sequence of bits; a word is a function whose index is the weight of the
bit, so that a shift adds to the index. Undefined C (a shift by the full width or by a negative number)
yields junk bits. Sums over a layout (`SumTo`, `PaddingTo`) are recursive functions. The parser takes a
field per step, the deparser a byte: `StartField` shifts and swaps the field where it is, `EmitByte` is one
turn of the loop over its bytes with its one or two stores, `FieldEmitted` moves the cursor.

A header is a C structure whose field is read, or swapped in place and written. A field wider than 64 bits
is an array of bytes, and in what order depends on who put them there: `extract()` stores them as they come, the most
significant first, the parameter of an action has the least significant first, and an assignment, which is a
`memcpy()`, keeps the order (`Parameter`, `Content`). The deparser always writes the array backwards. The history `order`
records each array's order, `Value` reads a field by it, and `Control` may copy any wide field to another of its width.

**Compiler** has one behaviour per source: an assignment, a control or a parser. Each step is one pass
(`Invoke`), or the decision of a repeated group to go round again (`Continue`). The passes themselves
are operators from programs to programs, in the five modules named above: a tree is a record, a
visitor's `postorder` is a rewriting of a node whose children have been rewritten (`Rewrite`), a
`preorder` recurses by itself. `Meaning` runs a program: for an assignment, the value it stores for
each value of its variables; for a control, the events of its statements in order, for each
outcome of its table and its conditions; for a parser, what its states do, and the verdict and the
error, for each value of the keys. After
every pass the meaning must be the source's. `ExprCode` goes on to the C text: it prints the tree with
the parentheses `codeGen.cpp` writes and reads the text back with C's precedences, promotions,
literal types and conversions, so that the printed program has a meaning of its own.

**UserRuntime** keeps the pointers: uthash moves its head pointer when the first element is removed,
but the functions that delete were passed a copy, so `bpf_map` of the table becomes "freed". The
model stops at the first use of freed memory (`wild`).

**PcapRuntime** follows `launch_runtime()` loop by loop, one list or one packet per step: reading, merging,
sorting, feeding the filter, counting the interfaces, splitting, writing; `qsort()` may order equal keys in
any way.

## 3. The runs, what they show, and their bounds

| Run | States | Shows |
|---|---|---|
| `pipeline` | 3,570,000 | EtherType, per-CPU headers, packet path and copied bytes are right in every interleaving of nested runs with edits of a session and a group |
| `pipeline_live` | 115,552 | every program run ends, and each step of a softirq brings it nearer to that |
| `pipeline_out_md` | finds a violation | output metadata survive a resubmission |
| `replication` | 201,142 | no member gets two copies; a walk sees the list before or after one insertion |
| `user_runtime` | 3,834 (up to symmetry) | the registry and its maps implement `TableStore`, call by call |
| `pcap` | 181,830 | no packet is lost, doubled or moved; order within an interface and a second is kept |
| `counters` | 2,353,340 (up to symmetry) | counters are exact unless an insertion spoilt one; array counters always are |
| `lpm` | 62,949 | every key gets the action the P4 table gives it, if the control plane stores LPM fields in network byte order |
| `table_apply` | 1,150,208 | action, parameter and `action_run` come from one entry, as long as the control plane does no more than each kind of map allows |
| `codec` | 213,666 | fields are read and written right, payload survives, loads stay inside, each under the conditions the code needs |
| `compiler` | 226,698 | every pass keeps the meaning of the program; repeated passes end; the printed C computes the same, where its limits hold |
| `compiler_code` | finds a violation | a value of a width no C type has is stored without its mask |

Every property has a mutant, a plausible bug in the modelled code, that makes TLC find it violated
in the same run: a restored EtherType for every packet path, one header slot for both programs, a
path not given back, a missing NULL check, a loop one iteration too long, and so on. Mutants stand
beside the definition they change, marked "Mutant:".

### Bounds and why they are enough

*pipeline.* One CPU: `stack`, `hdr_md` and `backlog` are per CPU, and the only thing CPUs share,
`tbl`, is read-only for programs and changes between any two steps anyway; the theorems cover any
number. `XmitLimit = 3`: an ingress run, a copy, and a copy of the copy; a fourth level repeats
the third. `MaxResubmitDepth = 2` where the source has 4: one resubmission granted and one
refused; the passes between do not differ. `MaxMembers = 1` and one session and one group, both of
which can be missing, uninitialised, empty or filled; `Replication` looks at longer lists. The
member's port is the recirculation port, so that copies recirculate too (a copy that egress drops
ends like one that is sent). `BacklogLimit = 1`: queue empty, waiting, full. Two EtherTypes: one
the helper leaves alone and one it replaces. The control blocks may take every decision that
`ostd` can express and may rewrite the EtherType. `pipeline_live` has one EtherType, because no
step is enabled or disabled by it.

*replication.* Three members in an inner map of four (`CLONE_MAX_CLONES`): the map is filled, two
members share a port, two an instance, one has instance 0, which tells `&&` from `||` in the test
for the end. Five slots: one spare, the least with which an update is possible in a full map, and
the case in which a slot is reused soonest. One CPU walks: walks do not write.

*user_runtime.* Two tables and one whose name is too long, two keys, two values, all four flags (one
of them unknown), three ids: tables coexist and a name is registered anew under a new id. Keys,
values and the tables with their names are interchangeable and so are taken up to symmetry.

*pcap.* Two interfaces with up to two packets each, stamped in two seconds and two microseconds, so
that the order by `tv_usec` alone and the real order differ; and input files with a gap.

*counters.* Three CPUs and five calls are the least with which a CPU can hold a pointer to a slot
that a second CPU replaces and a third one reuses. Two slots of room and three indices: one index
does not fit. Two bits: counters wrap.

*lpm.* A byte of one bit and an LPM field of two bytes: byte order, prefix order and padding are all
visible, and all keys, entries and tables of up to three entries can be enumerated. Exact field
or not, padding before and after or not. `ControlOrder = "network"`; section 6 has the other.

*table_apply.* Three slots for two keys: one spare, the least for an update and the soonest reuse.
Three changes while one application runs. All three kinds of map; the array has one element, so that the second
index is beyond its size and misses.

*codec.* Every field of 1 to 64 bits at every bit of its byte, alone in a header, and stacks of
real headers (Ethernet, VLAN, MPLS, IPv4, and IPv6 with its two addresses of 128 bits) and two headers with a 128-bit field that
`extract()` can read (20, 4 and 128 bits; 21, 128 and 3), with a header of 128 bits to copy it to, with lookahead, advance, removal, addition and
reordering, headers read twice or of parts of bytes, in packets of 14 lengths from 1 to 42 bytes: too short in every header, exact fits (14,
18, 22, 34 bytes) and longer ones. Which of the fields are read and written right is said by the properties
themselves: `WholeBytes`, `LastRead` and `~Undefined` in `ExtractReadsHeader`, `EmitsFields` in `EmitWritesHeader`; section 6 has programs
outside them. `UIntValues` is 2^16 instead of 2^32: lengths stay far below either.

*compiler.* `Byte = 2` scales the C types: `u8`, `u16`, `u32`, `u64` and `int` have 2, 4, 8, 16 and 8 bits, so that
every value of a variable of one to four bits can be tried while arithmetic still crosses a byte, a
promotion and the width of `int`. Expressions combine any two operators, over variables and over the constants that passes
look for (0, 1, a power of two, all ones), with slices, concatenations, casts and conditionals; `Values` are
values of the variables at which carries, borrows and lost bits show. Controls put `exit`, `return`, a
table that hits, misses or runs an action which exits or returns, and `switch` with and without default
or bodies, under and beside an `if`, with statements after it. Parsers have three states beside accept
and reject, with loops, conditionals and `verify` inside a state, and selects with masks, two arguments,
booleans, constant keys, and with or without default.

## 4. Fairness and deadlock

`FairSpec` assumes weak fairness of `Run(c)` for each CPU and of nothing else: a softirq, once
begun, is run to its end by the kernel, and its program has no step that waits. Packets need not
arrive, queued ones need not be taken, the control plane need not act. `RunsEnd` then needs the two
bounds the code relies on, the resubmit counter and the kernel's nesting limit; a mutant without
the counter violates it. `RunsShorten` is the same without fairness: no step of a softirq leads away from its end.

Deadlock is checked in `pipeline`, `pipeline_live`, `replication` and `table_apply`, where some CPU can
always take a step (an idle one can receive a packet). The other configurations switch it off
because their systems do stop: programs run once to an end (`codec`, `pcap`), the bounds on calls
are reached (`counters`), a table with const entries is complete (`lpm`), or freed memory was used
(`user_runtime`).

`Compiler` assumes weak fairness of its next step: the pass manager is a loop that invokes the next
pass as long as there is one, and a pass is a function that returns. `Terminates` then says that the
repeated groups reach a program that no pass of theirs changes; a mutant of `PassRepeated` that
compares with the wrong program violates it. Its last state is final, so deadlock is not checked.

## 5. What is proved

Eight modules hold proofs. Their theorems say `Spec => []P` (`LooksUpLikeP4` under an assumption on the tables),
`Spec => RunsShorten` for steps or `Spec => ImplementsStore` for the refinement,
for every value of the constants that satisfies the module's assumptions (which TLC evaluates for its
instances). Those about expressions are facts about the rules of the passes, for expressions of every size and width.

### Pipelines

`PsaPipeline_proofs` proves, for every P4 program, any set of CPUs, any member lists and any limits:

| Theorem | States |
|---|---|
| `Invariant` | `Spec => []IInv`, the inductive invariant |
| `TypeCorrect` | `[]TypeOK`; the pass counter never exceeds `MaxResubmitDepth` |
| `TypeRestored` | `[]ParserSeesTrueType` |
| `HeadersSafe` | `[]HeadersIntact` |
| `PathsRight` | `[]PathTellsCause` |
| `UnicastSafe` | `[]UnicastPath` |
| `CopiesRight` | `[]CopiesCarryRightBytes` |
| `RunsGetShorter` | `RunsShorten`: what a step makes of a stack of runs is `Shorter` than the stack before |
| `ShorterWellFounded` | no infinite sequence of stacks gets `Shorter` at every step |

Assumptions: `ConstantsAssumption` (kinds of constants, limits are numbers, sentinels are distinct),
`ControlAssumption` (control blocks leave output metadata and an EtherType) and `MembersAssumption`
(list entries name existing ports). TLC evaluates all three for its instances.

None of the properties is inductive. `IInv` adds, for the i-th of n runs on a CPU (`RunInv`):

- only the bottom run is ingress, and every run but the top one is at `"clone"`: this is why the
  runs that interrupt a run which needs its headers can only be egress runs, and why at most one
  egress run of the stack is between its control block and its deparser (`HeadersIntact`);
- the EtherType is true, or it is the substitute of a packet at `tc` whose path is still `NORMAL` and
  whose `data_meta` holds the true one (`TrueType`); that a copied, resubmitted or recirculated
  packet never satisfies the second case is what `ParserSeesTrueType` rests on;
- while copies are made the path in `skb->cb` is a copy path and the saved one an original path,
  unless the list had no head; and the copy path is the one that the place of the run calls for, `CopyCause`, which
  follows from where the run is (`PathTellsCause`, `UnicastPath`);
- `pass < MaxResubmitDepth` before a pass (`TypeOK`);
- what the packet's bytes are at each point between control block and traffic manager
  (`CopiesCarryRightBytes`).

A queued packet (`QueuedInv`) has path `RECIRCULATE` and its true EtherType. The proof first shows
what the stack operations `Continue`, `Return` and `Call` do, lifts the invariant over each
(`ContinueInv`, `ReturnInv`, `CallInv`), then has one lemma per action and combines them in
`NextInv`.

That runs end is proved up to fairness. `StepsLeft` bounds the steps of its own that a run has left, and a
step takes one or more from the run on top; but `do_clone()` puts the egress run of a copy on top of it, which has
its own steps and copies to make. So stacks are compared from the bottom: `Shorter` holds if the lowest run that
differs has fewer steps left or is gone. `BoundsInv` (runs are nested no deeper than `XmitLimit`, and
member lists and what is left of them no longer than `MaxMembers`) is inductive together with `IInv`, and under both there
is one lemma per action that its step is `Shorter`; a resubmission is, because the pass it leaves behind was counted.
`ShorterWellFounded` then is about sequences of stacks alone: in an endless one some lowest run would change again and
again while those below it are settled, and its `StepsLeft` would fall for ever (the least-number principle, from the
library's theorem that `<` is well founded on `Nat`). Together: on no CPU is there an endless sequence of steps without an idle
moment. What remains to TLC is that weak fairness of `Run(c)` makes those steps happen, that is, that a busy CPU
always has one enabled.

### Replication

`Invariant`, `TypeCorrect`, `CopiedOnce` (`AtMostOnce`) and `Whole` (`WholeList`), for any members, any finite set of
slots and any CPUs. The list in memory is linked by keys, not by pointers, and the control plane
inserts behind the head by writing the new member first and the head's link second. `Chain` is the list
as stored, the member that is not linked yet in front. `IInv` says that the elements in the map are
those of `Chain`, each with its successor as its link (`ListInv`), and how many there are (`SizeInv`); that
what a walk has served is a contiguous part of `Chain` and its position and registers are those of the
last one served (`WalkInv`), which gives `AtMostOnce`, since members of `Chain` differ; and, until the
control plane makes a second change, that the list the walk began with is still linked member by
member, the walk being `n` members into it (`OnBefore`), which gives `WholeList`.

### User-space map runtime

`Invariant`, `TypeCorrect`, `OneToOneAlways` (`OneToOne`) and `Implements`: `Spec => ImplementsStore`, the refinement of
`TableStore`, for any tables, names, keys and values. `EntriesInv`: both hashes of the registry hold the same
entries, no two of one name or one id, each under its table's name and an id already given out.
`KeysInv`: an insertion that finds no element of its key appends one, so keys are distinct. `PointerInv`:
a table whose pointer is NULL has no elements. For the refinement one more fact is needed,
`EmptyInv`: a table that is not registered has no elements (a table registered anew starts empty). `StoredTables`
maps hashes and elements to the abstract tables; initial states map to initial states, and there is one
lemma per call that maps it to the abstract call with the same result.

### Counters

`TypeCorrect`, `Exact` (`ExactUnlessLost`) and `ArrayExact` (`DenseExact`). `Disjoint`: a slot belongs to one index or
is one CPU's extra element. `Leads`: the pointer a CPU holds leads to the element of its index, or the
index has lost counts already and the pointer leads to an extra element or to that of another such
index, so that the addition spoils nothing that was exact. `DenseInv`: an index that fits an array is
found always. A lemma states that additions modulo `Modulus` may be taken one by one.

### Match-action tables

`TypeCorrect` and `OneEntry` (`AppliesOneEntry`). `Leads`: the pointer leads to the value found, in a slot that is
not reused while the program runs (trie), that an entry still holds or was the only one to be given
up (hash map), or that nothing has been written to since the lookup (array). `WriteInv`: only an element of an array is ever
half overwritten, and an application that points to it counts as disturbed, also if it found it so. `Agrees`: the action, the parameter and `action_run` read so far are those of that value.

### Expressions

The run `compiler` compares assignments over a few small expressions of a few widths. The theorems of `Control_proofs` about
`ExprRules` are for every well-typed expression, every width and every value of its variables:

| Theorem | States |
|---|---|
| `ConstantFoldingKeepsValue` | what `DoConstantFolding` makes of a node has the node's type and value |
| `StrengthReductionKeepsValue` | so for `DoStrengthReduction`, if nothing casts a `bool` to `bit<1>` |
| `ReassociationKeepsValue`, `RemoveUselessCastsKeepsValue` | so for these passes |
| `LowerKeepsValue` | so for `EBPF::LowerExpressions`, if nothing casts a `bit<1>` to `bool` |
| `LowerInvertsBool` | such a cast gets the contrary value, always |
| `RemoveLeftSlicesKeepsValue` | an assignment to a slice becomes one that replaces these bits of the variable and no other |
| `RewriteKeepsValue` | each pass, from the operands up, keeps the type and the value of a whole expression |
| `PassesKeepAssignment` | whatever passes are applied to an assignment, in whatever order and number, its variable gets the value of the source |
| `MeaningExists`, `SlicingExists`, `RewritingExists` | what these theorems assume exists |

*What an expression is.* `Meaning(m)` says that `m.E` is the set of all well-typed trees (`Typed`) over the variables of `m.var`, that
a tree is higher (`m.H`) than its operands, and that `m.V` gives each the value that `NodeValue` computes from its operands.
`m.casts` says whether casts between `bool` and `bit<1>` occur; the two premises above are the two programs of section 6 that
break `AssignmentKept`. A quotient by zero counts as 0, the constant that folding puts in its place after it has reported
the error. Values of type `int` are constants and sums, as in the amount of a shift; P4 has no other at run time.

*No RECURSIVE operator.* The provers cannot reach `Rewrite`, `SliceUncast` and `SliceInside` of `ExprPasses`, which TLC evaluates. Each is a rule of `ExprRules`
(`RewriteNode`, `UncastSlice`, `InsideSlice`) with what the operator gives for the operands; the theorems put a function in
the operator's place that satisfies the same equation (`Rewriting(m, sl, pass, R)`, `Slicing(m, sl)`), and `RewritingExists` and `SlicingExists` prove that there
is one. `Pow2` and `BitAnd` are recursive functions; `RecursiveExists` solves their equations.

*The argument.* Below are the numbers: `DivMod`, `Pow2Sum`, the bits that two numbers share (`BitAndBounds`, `BitAndAssociative`, `DeMorgan`,
`BitAndOfXor`), the bits of a number's bits (`BitsOfShift`, `BitsOfBits`). Then one lemma for each kind of node that
there is (`ConcatNode`), for each that a pass makes (`MakeConcat`) and for each `postorder` (`FoldSlice`, `ReduceBXor`, ...). Slices are an induction over
the height of what is sliced (`UncastKeepsBits`, `InsideKeepsBits`), and so is `RewriteKeepsValue`, whose invariant is stronger than its
claim: a pass also leaves constants as they are (`MayReplace`), or the bounds of a slice could change when its operands are rewritten.
`MeaningExists` builds the trees level by level; `HeightRecursion` then gives every function that is defined by recursion over the height.

### LPM tables

`TypeCorrect` and `LooksUpLikeP4` (`MatchesLikeP4`), for bytes of any number of bits, fields and padding of any
size and any sequence of updates. The argument has two halves. The first is about bytes: division by
`ByteBits` tells in which byte a bit of the key structure lies (`Place`, `PlaceOf`, `PlaceBehind`); the bytes in
front of the LPM field are equal exactly if the exact fields are (`FrontBits`), and the bits behind them
are those of the LPM field, most significant first, since the field is turned around twice
(`LpmFieldBits`); so the prefixes the trie compares are those P4 compares (`KeysAgree`). The second is the
invariant `IInv`: the nodes of the trie are the images of the entries of the P4 table (`NodesInv`), of which
no two have one prefix (`DistinctInv`); so the longest match is unique on both sides and is the same
(`SameLookup`). Entries of the control plane are part of it if it stores LPM fields as the lookup builds them (`ControlOrder`). The theorem assumes `ConstEntriesFit`: const entries are no more than the map has room for,
and one without a mask has a field as wide as the constant prefix length it gets. Both halves of that
assumption are needed: the generated initializer ignores a failed update, and the constant is 32.

### Parsing and deparsing

`PacketCodec_proofs` proves, for all programs (any headers with fields of any widths, any sequence of calls,
any emits), any packet lengths and any MAC header:

| Theorem | States |
|---|---|
| `TypeCorrect` | `[]TypeOK`: the packet stays a whole number of bytes, every field keeps the bits of its C type |
| `InsidePacket` | `[]ReadsInsidePacket` |
| `ReadsHeader` | `[]ExtractReadsHeader` |
| `WritesHeader` | `[]EmitWritesHeader` |
| `PayloadSurvives` | `[]PayloadKept` |

The only assumption is `ConstantsAssumption`: calls name headers of the program, lengths are natural numbers, and the
compiler's `unsigned` holds more than 64. Headers and advances of parts of bytes are programs too, as neither p4c nor
the back end refuses them; for them `InsidePacket` and `TypeCorrect` hold as for others, while the back end takes
what follows to start at a byte, so that `WholeBytes` is a premise of the other three. A header may be read again, after a
lookahead or by a second extract: `ReadsHeader` speaks of the last read (`LastRead`), whose bits the fields hold. It is
about fields of up to 64 bits and about wider ones of whole bytes (`WideFieldReads`); `WritesHeader` leaves out the wide fields
whose bytes `extract()` put there or that were copied from such (`order` is "most"), which leave reversed.

What makes this more than a matter of cases is that widths, padding and lengths are sums over layouts, and
that stores overlap. Sums are recursive functions, and a fact about all their values needs induction.
The library's induction theorems take an operator as parameter, but its theorem that finite subsets are well
founded under strict inclusion does not: from it follows `NatSetInduction` (a set with 0 and with the successor
of each member is `Nat`), and from that `RecursionExists` (a recursive definition along a sequence has a
solution, so its equations may be used), `SumToSteps`, `SumToGrows`, `PaddingCovers` and what else is needed.

`IInv` says where the machine is and what it has done:

- `Cursor`, `Position`: the offset is the sum of what was read, or of the valid headers emitted, plus the fields
  in front of the one that is next. `FieldsRead` is `ExtractReadsHeader` for the header that is being read too;
  `Untouched`: until it is resized the packet is the one received, so that what was read stays true.
- `Payload`: from the resizing on, the payload stands behind the place of the emitted headers. A byte that is written
  lies in front of it (`EmitByteBehind`); this needs a field of more than 64 bits to be of whole bytes, since the
  spare bits of another are written first, behind its end.
- `Values`: a field still to be emitted holds what the control block meant, because emit swaps only the field it is
  at and no header is emitted twice; the one that is being emitted has its bits in memory in the order in which bytes
  are written (`BitOf`: from the highest bit, or for an array whose `order` is "least" from the lowest).
- `NarrowFields`: a field of less than a byte has zeros above it in its `u8`. The store of such a field is an OR with
  the byte that is there, and would otherwise change its neighbours.
- `Room`: the header that is being emitted lies in the packet.
- `Output`: the fields sent are in the packet, and of the field that is being sent the first `written` bytes are (the
  last ones of an array). A store changes bits behind the field's place at most, which later stores overwrite, and
  for an array bits that are not sent yet (`ByteIsPut`, `EmitByteWrites`).

The first attempt at `Output` was not inductive without `NarrowFields`, and none of the three properties holds for
all programs: the premises in them are what the proofs needed, and section 6 has the programs that break them.

### Test runtime and capture files

`TypeCorrect`, `AcceptedAreWritten` (`OutputsAreAccepted`) and `OrderIsKept` (`CaptureOrder`), for any number of capture
files of any length and any packets that the filter accepts. There is one conjunct of `IInv` per list that the program
builds: `ArrayRead`, `PacketsMerged`, `PacketsFed`, `IndexFound` (the largest interface found bounds those of all survivors, so
that splitting never leaves its lists), `PacketsSplit`, `FilesWritten`. `Sorted` goes from the merged list to the
survivors and to every interface's list because each is filled in the order of the one before it; that is all that is
known of the order, since `qsort()` is not stable, and it is enough for packets whose times differ.

### Only model-checked

Liveness (`RunsEnd`, of which only the part played by fairness is missing, and `Terminates`) and the properties of the
run `compiler`. Two things are beyond the proof system used: liveness under fairness and ENABLED; and modules that use RECURSIVE operators
(`ExprPasses`, `ExprCode`, `ControlPasses`, `ParserPasses` and `Compiler`, whose subject is trees). What `AssignmentKept` says is
proved in the form of `PassesKeepAssignment`, where functions stand for the RECURSIVE operators; that TLC's evaluation of
these operators gives the values of those functions is not. The passes over statements and parser states
(`ControlKept`, `ParserKept`, `ReadyForCode`) and the C that is printed (`AssignmentCode`, `ControlCode`, `ParserCoded`) are checked on bounded programs only.

## 6. Disagreements with comments and documentation

Two are kept as runs that find a violation.

- `OutMdInitialised` (`psa/ebpfPipeline.cpp:279`): `ostd` is initialised once, before the resubmit loop,
  so a second pass starts with the first one's `clone`, `multicast_group`, `class_of_service` and
  `drop`; `runtime/psa.h:71-79` gives the initial values "when the Ingress control block begins
  executing".
- `NoIncorrectResults` (`codeGen.cpp:436`): `widthCheck()` lets every unsigned width up to 64 pass, and a cast or
  a slice is printed without a mask, so that `bit<1> y = (a + 2)[0:0]` stores every bit of the sum;
  `codeGen.cpp:430-432`, "Rather than generate incorrect results, we reject programs that do not perform
  arithmetic on machine-supported widths."

More are stated as definitions in the modules, each with the sentence it comes from; naming one as an
INVARIANT of the module's configuration shows the counterexample.

| Definition | Module | Code | What happens |
|---|---|---|---|
| `UnicastIsNormalUnicast` | PsaPipeline | `psa/ebpfPipeline.cpp:530` | the traffic manager never sets `NORMAL_UNICAST` (`runtime/psa.h:33`) |
| `CloneI2EIsClone` | PsaPipeline | `psa/ebpfPsaGen.cpp:233` | after a failed walk the original goes on as `CLONE_I2E` (`psa.h:35`) |
| `InstanceFromReplication` | PsaPipeline | `psa/ebpfPsaGen.cpp:209` | a member's instance does not reach the copy (`psa.h:95-97`) |
| `PriorityIsClassOfService` | PsaPipeline | `psa/ebpfPsaGen.cpp:209` | nor does its class of service (`psa/README.md:104`) |
| `ResubmitsGranted` | PsaPipeline | `psa/ebpfPipeline.cpp:279` | one resubmission fewer than `MAX_RESUBMIT_DEPTH` (`psa/README.md:51`) |
| `MapUsableAfterDelete` | UserRuntime | `runtime/ebpf_map.c:69` | deleting the first element leaves the table pointing to it (`ebpf_map.h:54-55`) |
| `RegistryCleared` | UserRuntime | `runtime/ebpf_registry.c:82` | the second loop reads entries the first one freed (`ebpf_registry.h:67-69`) |
| `SortedByTimestamp` | PcapRuntime | `runtime/pcap_util.c:233` | seconds are not compared (`pcap_util.h:210`) |
| `MergeReturns` | PcapRuntime | `runtime/pcap_util.c:180` | a missing list is dereferenced (`pcap_util.h:82-83`) |
| `HostOrderMatchesLikeP4` | LpmTable | `ebpfTable.cpp:400` | the lookup swaps the LPM field, so that an entry which the control plane stores in host byte order (`psa/README.md:135`, "Both key and value fields must be provided in the host byte order") is not the one found; `ControlOrder = "host"` |
| `ConstEntriesMatchLikeP4` | LpmTable | `psa/ebpfPsaTable.cpp:145` | prefix lengths of const entries leave out the exact fields (`tests/ptf/test.py:220`); `Tables <- ConstTwoFields` |
| `OnlyIncremented` | Counters | `ebpfTable.cpp:767` | after a miss 1 is stored with `BPF_ANY`, which sets back a counter that another CPU has created and used since (`p4include/ebpf_model.p4:26`) |
| `LargerWordInside` | PacketCodec | `ebpfParser.cpp:350` | a field that crosses one byte more (12 bits at bit 6) is loaded as a word that ends beyond the checked bytes (`ebpfParser.cpp:340`); `Programs <- Straddling` |
| `TooShortOnlyIfShort` | PacketCodec | `ebpfParser.cpp:350` | padding by unsigned arithmetic: a 128-bit field is never extracted; `Programs <- Wide` |
| `EveryFieldRead` | PacketCodec | `ebpfParser.cpp:246` | the mask of an unaligned 32-bit field is a shift by 32; `Programs <- Masked` |
| `EveryFieldWritten` | PacketCodec | `ebpfDeparser.cpp:249` | a 4-bit field at bit 6 is not continued in the next byte; `Programs <- Nibbles` |
| `EveryFieldRead` | PacketCodec | `ebpfParser.cpp:227` | fields of 58 to 63 bits at an odd alignment need nine bytes, more than the largest load (a TODO of the source); `Programs <- NineBytes` |
| `EveryFieldWritten` | PacketCodec | `ebpfDeparser.cpp:247` | an unaligned field wider than 64 bits is written in the byte order of memory; `Programs <- WidePart` |
| `EveryFieldWritten` | PacketCodec | `ebpfDeparser.cpp:247` | a wide field that was extracted, or copied from one that was, leaves with its bytes in reversed order, since `extract()` stores the array most significant byte first (`ebpfParser.cpp:269-287`); the repository knows that wide fields go wrong (`ebpfTable.cpp:405-407`, `psa/README.md:246`); `Programs <- WideRead` |
| `EveryFieldWritten` | PacketCodec | `ebpfDeparser.cpp:217` | emit swaps the field in the header itself, so that a header emitted twice is swapped back; `Programs <- Twice` |

The compiler's properties have limits of their own, which name what the analysis of the code shows it
gets wrong. `AssignmentCode` is about the expressions of `StoresExactly`, which leaves out

- masks `(1 << w) - 1` for widths of 33 to 63, a shift of an `int` by more than its width (`codeGen.cpp:51-59`);
- `u8` and `u16` operands that C promotes to `int` under a comparison, a division or a right shift, where the
  bits above the width are no longer cut off;
- decimal literals beyond `INT_MAX`, which C reads as signed 64-bit numbers;
- `-(-a)`, printed as `--a`, and `==` or `!=` as a right operand, printed without parentheses;
- `(bool)` of a bit, which `LowerExpressions` turns into a comparison with 0 by `==`, the wrong way round
  (`lower.cpp:99-108`), and the full slice of a `(bit<1>)` cast, which becomes a boolean;
- the finding above.

`Lower` leaves out the error that `shift()` reports for an amount above 32 or of a type of more than 5 bits
(`lower.cpp:21-41`): the compiler stops there, and what the theorems say of such a program concerns no code.

`ControlCode` excepts a `switch` label without statement, which P4 lets fall through to the next label's
statement and which is printed with a `break` (`ebpfControl.cpp:476-480`). Signed operands are not enumerated:
constant folding of `++` and of full slices gives them another type.

Also outside the checked properties, by their own wording: `add()` starts a missing counter at 1
whatever its argument (`ebpfTable.cpp:792`, in `lost` of `Counters`); an exact table whose entry
changes twice during one application may mix values, and so may an array table whose element changes once (`AppliesOneEntry`);
an element of an array table that was never set is found all the same, with the action whose id is 0. The map of the
default action is one more array, and what happens if the control plane writes to it while packets pass is not modelled:
it is written once, before. Most headers with wide fields, IPv6 among them, never get as far as being sent reversed: the
padding computed for a wide field keeps `extract()` from finding any packet long enough (`TooShortOnlyIfShort`).

## 7. What is not modelled

- *Filter-model programs* (`ebpfProgram.cpp`): one parser and one control; their tables, counters, codec and
  code are modelled, the program around them is straight-line C.
- *Varbits* in parsers, and pipelines composed with a parser's states: `PacketCodec` has sequences of calls,
  `ParserPasses` the transitions.
- *Control-block statements* in `PsaPipeline`: they are the P4 program's, a free choice there. How they are
  compiled is `Compiler`.
- *Memory layout of C structures* beyond padding of keys: zeroing and padding bytes of `list_key_t`.
- *Reading and writing of capture files, options, messages, list growth*: I/O and wording. A gap in the
  numbering of input files is modelled.
- *Kernel test runtime and target scripts*: processes, sockets and file comparison.
- *Truncation of clones*: the two fields of an entry are never read by the code.
- *The rest of the compiler*: lexer and grammar, name resolution, type inference and checking, inlining,
  specialisation, definite assignment (`simplifyDefUse.cpp`), copy propagation, the conversion of P4-14
  programs, IR classes and their generator, control-plane descriptions. Each is a program of thousands
  of lines over the whole syntax of P4; the part of them that the eBPF pipeline depends on at run time
  is modelled by its result.
- *The other back ends* (bmv2, uBPF, DPDK, graphs): other targets.

Because the last two are most of the repository, the definitions here stand for about a twentieth of its
implementation lines, and for most of what `backends/ebpf` does at run time.

## 8. Plan

Order: the packet paths first, since everything else runs inside them; then what they call; then the
compiler that prints them.

Done: `PsaPipeline`, `Replication`, `Counters`, `TableApply`, `LpmTable` and `UserRuntime` over `TableStore`, `PacketCodec` with
wide fields and repeated headers, and `PcapRuntime`, each with its proofs; `Compiler` with its passes and the printed
expressions, controls and parsers; the rules of the expression passes proved for every expression.

Left, in this order:

1. `SimplifyDefUse` and copy propagation as passes of `Compiler`, over assignments in sequence.
2. Deletion of members in `Replication`, and two control planes.
3. `EbpfFilter`: `ebpf_filter()` whole, composed with `PcapRuntime` in place of its free choice.
4. The DPDK back end's passes in the manner of `ControlPasses`, for which expressions as conditions of
   jumps are the hard part.
