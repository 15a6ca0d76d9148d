--------------------------- MODULE Control_proofs ---------------------------
(***************************************************************************)
(* Proofs about what a control does: apply tables and evaluate expressions.*)
(*                                                                         *)
(* TableApply: whatever the control plane does meanwhile, an application   *)
(* stays with the entry it found in a trie, in a hash map that changes at  *)
(* most once, and in an array whose element is not written to.             *)
(*                                                                         *)
(* ExprRules: for every width, every expression and every value of its     *)
(* variables, the passes keep the type and the value of the expression.    *)
(***************************************************************************)
EXTENDS TableApply, ExprRules, WellFoundedInduction, SequenceTheorems, TLAPS

-----------------------------------------------------------------------------
(* The inductive invariant.                                                *)

Active(r) == r.pc \in {"action", "param", "said"}

\* What the application has done so far is what the entry it found says.
Agrees(r) ==
  /\ r.pc \in {"param", "said"} => r.found.action \in ActionIds /\ r.did = r.found.action
  /\ r.pc = "said" => r.with = r.found.param
  /\ r.pc \in {"done", "aborted"} => Whole(r)

\* The pointer leads to the value found: to a slot that no update takes (trie), that an
\* entry still holds if the hash map has not changed or that is the only one to have
\* been given up, or to an element that nothing has been written to (array).
Leads(r) ==
  /\ r.ptr = "default" \/ r.ptr \in Slots
  /\ Deref(r.ptr) = r.found
  /\ r.ptr # "default" /\ kind = "hash" /\ r.age = 0 => \E k \in Keys : entry[k] = r.ptr

RunInv(r) ==
  /\ r.hit \/ r.found = DefaultAction
  /\ r.age <= updates
  /\ Undisturbed(r) => Agrees(r) /\ (Active(r) => Leads(r))

\* Only an element of an array is ever half written, and a run that points to it is
\* known to be disturbed.
WriteInv ==
  writing # NotWriting =>
    /\ kind = "array" /\ updates >= 1
    /\ \A c \in CPUs : Active(run[c]) /\ run[c].ptr = writing.slot => run[c].age # 0

IInv == TypeOK /\ WriteInv /\ \A c \in CPUs : RunInv(run[c])

-----------------------------------------------------------------------------

LEMMA DerefType ==
  ASSUME TypeOK, NEW ptr \in Slots \cup {"default"}
  PROVE  Deref(ptr) \in Value
BY ConstantsAssumption DEF TypeOK, Deref

LEMMA RunType ==
  ASSUME TypeOK, NEW c \in CPUs
  PROVE  /\ run[c] \in Run
         /\ Active(run[c]) => run[c].ptr \in Slots \cup {"default"}
BY DEF TypeOK, Run, Active

\* The other runs, and the run that takes the step, after a step of the program.
LEMMA ProgramStep ==
  ASSUME IInv, NEW c \in CPUs, NEW r \in Run,
         run' = [run EXCEPT ![c] = r], UNCHANGED <<kind, value, entry, writing, updates>>,
         Active(r) => r.ptr # NoSlot,
         writing # NotWriting /\ Active(r) /\ r.ptr = writing.slot => r.age # 0,
         RunInv(r)
  PROVE  IInv'
<1>1. run' \in [CPUs -> Run] /\ run'[c] = r /\ \A d \in CPUs \ {c} : run'[d] = run[d]
  BY DEF IInv, TypeOK
<1>2. TypeOK'
  BY <1>1 DEF IInv, TypeOK, Active
<1>3. ASSUME NEW d \in CPUs PROVE RunInv(run'[d])
  BY <1>1 DEF IInv
<1>4. ASSUME NEW x, RunInv(x) PROVE RunInv(x)'
  BY <1>4 DEF RunInv, Undisturbed, Agrees, Leads, Whole, Deref, Active
<1>5. WriteInv'
  BY <1>1 DEF IInv, WriteInv, Active
<1> QED BY <1>2, <1>3, <1>4, <1>5 DEF IInv

LEMMA LookupStep == ASSUME IInv, NEW c \in CPUs, Lookup(c) PROVE IInv'
<1> USE DEF IInv
<1>1. PICK k \in Keys :
        LET ptr == IF entry[k] = NoSlot THEN "default" ELSE entry[k]
        IN run' = [run EXCEPT ![c] = [@ EXCEPT
             !.pc = "action", !.ptr = ptr, !.hit = entry[k] # NoSlot, !.said = 0,
             !.found = Deref(ptr), !.age = IF ptr = writing.slot THEN 1 ELSE 0]]
  BY Zenon DEF Lookup
<1> DEFINE ptr == IF entry[k] = NoSlot THEN "default" ELSE entry[k]
           r == [run[c] EXCEPT !.pc = "action", !.ptr = ptr, !.hit = entry[k] # NoSlot,
                               !.said = 0, !.found = Deref(ptr),
                               !.age = IF ptr = writing.slot THEN 1 ELSE 0]
<1>2. run' = [run EXCEPT ![c] = r] /\ UNCHANGED <<kind, value, entry, writing, updates>>
  <2>1. run' = [run EXCEPT ![c] = r]
    BY <1>1 DEF TypeOK
  <2> QED BY <2>1 DEF Lookup
<1>3. ptr \in Slots \cup {"default"} /\ run[c] \in Run
  BY RunType DEF TypeOK
<1>4. Deref(ptr) \in Value /\ updates \in 0 .. MaxUpdates /\ MaxUpdates \in Nat
  BY <1>3, DerefType, ConstantsAssumption DEF TypeOK
<1>9. ASSUME ptr = writing.slot PROVE writing # NotWriting /\ kind = "array" /\ updates >= 1
  <2>1. ptr # NoSlot
    BY ConstantsAssumption DEF TypeOK
  <2> QED BY <1>9, <2>1 DEF NotWriting, WriteInv
<1>10. (IF ptr = writing.slot THEN 1 ELSE 0) \in 0 .. MaxUpdates
  BY <1>4, <1>9
<1>12. 0 \in ActionIds \cup {WrongId}
  BY ConstantsAssumption
<1>5. r \in Run
  <2> DEFINE hit == entry[k] # NoSlot
             age == IF ptr = writing.slot THEN 1 ELSE 0
             found == Deref(ptr)
  <2>1. hit \in BOOLEAN /\ age \in 0 .. MaxUpdates /\ found \in Value
    BY <1>4, <1>10
  <2>2. ptr \in Slots \cup {NoSlot, "default"}
    BY <1>3
  <2>3. r = [run[c] EXCEPT !.pc = "action", !.ptr = ptr, !.hit = hit,
                           !.said = 0, !.found = found, !.age = age]
    OBVIOUS
  <2> HIDE DEF hit, age, found, ptr, r
  <2> QED BY <1>3, <1>12, <2>1, <2>2, <2>3 DEF Run
<1>6. /\ r.pc = "action" /\ r.ptr = ptr /\ r.hit = (entry[k] # NoSlot) /\ r.found = Deref(ptr)
      /\ r.age = IF ptr = writing.slot THEN 1 ELSE 0
  BY <1>3 DEF Run
<1>7. r.ptr # NoSlot
  BY <1>6, ConstantsAssumption DEF TypeOK
<1>8. RunInv(r)
  <2>1. r.hit \/ r.found = DefaultAction
    BY <1>6 DEF Deref
  <2>2. r.age <= updates
    BY <1>4, <1>6, <1>9
  <2>3. Agrees(r)
    BY <1>6 DEF Agrees
  <2>4. ASSUME Undisturbed(r) PROVE Leads(r)
    BY <1>3, <1>6, ConstantsAssumption DEF Leads, Deref
  <2> QED BY <2>1, <2>2, <2>3, <2>4 DEF RunInv
<1>11. writing # NotWriting /\ r.ptr = writing.slot => r.age # 0
  BY <1>6
<1> HIDE DEF r
<1> QED BY <1>2, <1>5, <1>7, <1>8, <1>11, ProgramStep

LEMMA SwitchActionStep == ASSUME IInv, NEW c \in CPUs, SwitchAction(c) PROVE IInv'
<1> DEFINE id == Deref(run[c].ptr).action
           r == IF id \in ActionIds THEN [run[c] EXCEPT !.pc = "param", !.did = id]
                                    ELSE [run[c] EXCEPT !.pc = "aborted"]
<1>1. run[c].pc = "action" /\ run' = [run EXCEPT ![c] = r] /\ UNCHANGED <<kind, value, entry, writing, updates>>
  BY DEF SwitchAction, IInv, TypeOK
<1>2. run[c] \in Run /\ run[c].ptr \in Slots \cup {"default"} /\ run[c].ptr # NoSlot
  BY <1>1, RunType, ConstantsAssumption DEF IInv, Active, TypeOK
<1>3. /\ r.pc = IF id \in ActionIds THEN "param" ELSE "aborted"
      /\ id \in ActionIds => r.did = id
      /\ r.ptr = run[c].ptr /\ r.hit = run[c].hit /\ r.found = run[c].found /\ r.age = run[c].age
  BY <1>2 DEF Run
<1>4. r \in Run
  BY <1>2 DEF Run
<1>5. RunInv(run[c])
  BY DEF IInv
<1>6. RunInv(r)
  BY <1>1, <1>3, <1>5 DEF RunInv, Undisturbed, Agrees, Leads, Active, Whole
<1>7. Active(r) => r.ptr # NoSlot
  BY <1>2, <1>3
<1>8. writing # NotWriting /\ r.ptr = writing.slot => r.age # 0
  BY <1>1, <1>3 DEF IInv, WriteInv, Active
<1> HIDE DEF r
<1> QED BY <1>1, <1>4, <1>6, <1>7, <1>8, ProgramStep

LEMMA ReadParamStep == ASSUME IInv, NEW c \in CPUs, ReadParam(c) PROVE IInv'
<1> DEFINE r == [run[c] EXCEPT !.pc = "said", !.with = Deref(run[c].ptr).param]
<1>1. run[c].pc = "param" /\ run' = [run EXCEPT ![c] = r] /\ UNCHANGED <<kind, value, entry, writing, updates>>
  BY DEF ReadParam, IInv, TypeOK
<1>2. run[c] \in Run /\ run[c].ptr \in Slots \cup {"default"} /\ run[c].ptr # NoSlot
  BY <1>1, RunType, ConstantsAssumption DEF IInv, Active, TypeOK
<1>3. Deref(run[c].ptr).param \in Params
  BY <1>2, DerefType DEF IInv, Value
<1>4. /\ r.pc = "said" /\ r.with = Deref(run[c].ptr).param /\ r.did = run[c].did
      /\ r.ptr = run[c].ptr /\ r.hit = run[c].hit /\ r.found = run[c].found /\ r.age = run[c].age
  BY <1>2 DEF Run
<1>5. r \in Run
  BY <1>2, <1>3 DEF Run
<1>6. RunInv(run[c])
  BY DEF IInv
<1>7. RunInv(r)
  BY <1>1, <1>4, <1>6 DEF RunInv, Undisturbed, Agrees, Leads, Active
<1>8. r.ptr # NoSlot
  BY <1>2, <1>4
<1>9. writing # NotWriting /\ r.ptr = writing.slot => r.age # 0
  BY <1>1, <1>4 DEF IInv, WriteInv, Active
<1> HIDE DEF r
<1> QED BY <1>1, <1>5, <1>7, <1>8, <1>9, ProgramStep

LEMMA SetActionRunStep == ASSUME IInv, NEW c \in CPUs, SetActionRun(c) PROVE IInv'
<1> DEFINE r == [run[c] EXCEPT !.pc = "done", !.said = Deref(run[c].ptr).action]
<1>1. run[c].pc = "said" /\ run' = [run EXCEPT ![c] = r] /\ UNCHANGED <<kind, value, entry, writing, updates>>
  BY DEF SetActionRun, IInv, TypeOK
<1>2. run[c] \in Run /\ run[c].ptr \in Slots \cup {"default"}
  BY <1>1, RunType DEF IInv, Active
<1>3. Deref(run[c].ptr).action \in ActionIds \cup {WrongId}
  BY <1>2, DerefType DEF IInv, Value
<1>4. /\ r.pc = "done" /\ r.said = Deref(run[c].ptr).action /\ r.did = run[c].did /\ r.with = run[c].with
      /\ r.ptr = run[c].ptr /\ r.hit = run[c].hit /\ r.found = run[c].found /\ r.age = run[c].age
  BY <1>2 DEF Run
<1>5. r \in Run
  BY <1>2, <1>3 DEF Run
<1>6. RunInv(run[c])
  BY DEF IInv
<1>7. RunInv(r) /\ ~Active(r)
  BY <1>1, <1>4, <1>6 DEF RunInv, Undisturbed, Agrees, Leads, Active, Whole
<1> HIDE DEF r
<1> QED BY <1>1, <1>5, <1>7, ProgramStep

-----------------------------------------------------------------------------
(* The control plane.                                                      *)

\* What a change does to the runs that hold one of the pointers, and to the others.
LEMMA ChangedRuns ==
  ASSUME IInv, NEW ptrs, Changed(ptrs)
  PROVE  /\ run' \in [CPUs -> Run] /\ updates' \in 0 .. MaxUpdates
         /\ updates \in Nat /\ updates' = updates + 1
         /\ \A c \in CPUs :
              /\ ~Active(run[c]) \/ run[c].ptr \notin ptrs => run'[c] = run[c]
              /\ Active(run[c]) /\ run[c].ptr \in ptrs =>
                   /\ run'[c].age = run[c].age + 1
                   /\ \A field \in {"pc", "ptr", "hit", "did", "with", "said", "found"} :
                        run'[c][field] = run[c][field]
              /\ run'[c].age <= updates'
              /\ run'[c].pc = run[c].pc /\ run'[c].ptr = run[c].ptr
<1>1. /\ updates' \in 0 .. MaxUpdates /\ updates \in Nat /\ MaxUpdates \in Nat
      /\ updates' = updates + 1
  BY ConstantsAssumption DEF IInv, TypeOK, Changed
<1>2. ASSUME NEW c \in CPUs
      PROVE  /\ run'[c] \in Run
             /\ ~Active(run[c]) \/ run[c].ptr \notin ptrs => run'[c] = run[c]
             /\ Active(run[c]) /\ run[c].ptr \in ptrs =>
                  /\ run'[c].age = run[c].age + 1
                  /\ \A field \in {"pc", "ptr", "hit", "did", "with", "said", "found"} :
                       run'[c][field] = run[c][field]
             /\ run'[c].age <= updates'
             /\ run'[c].pc = run[c].pc /\ run'[c].ptr = run[c].ptr
  <2>1. run[c] \in Run /\ run[c].age <= updates
    BY RunType DEF IInv, RunInv
  <2>2. run[c].age \in Nat /\ run[c].age + 1 \in 0 .. MaxUpdates
    BY <1>1, <2>1 DEF Run
  <2>3. CASE Active(run[c]) /\ run[c].ptr \in ptrs
    <3>1. run'[c] = [run[c] EXCEPT !.age = @ + 1]
      BY <2>3 DEF Changed, Active
    <3> QED BY <1>1, <2>1, <2>2, <2>3, <3>1 DEF Run
  <2>4. CASE ~Active(run[c]) \/ run[c].ptr \notin ptrs
    <3>1. run'[c] = run[c]
      BY <2>4 DEF Changed, Active
    <3> QED BY <1>1, <2>1, <2>2, <2>4, <3>1
  <2> QED BY <2>3, <2>4
<1> QED BY <1>1, <1>2 DEF Changed

\* Runs that are done have done what they did.
LEMMA IdleRun ==
  ASSUME IInv, NEW c \in CPUs, ~Active(run[c]), run'[c] = run[c], UNCHANGED kind,
         run'[c].age <= updates'
  PROVE  RunInv(run[c])'
<1>1. RunInv(run[c])
  BY DEF IInv
<1> QED BY <1>1 DEF RunInv, Undisturbed, Agrees, Active, Whole

\* A change of a hash map or trie keeps every run that it leaves the value it found.
LEMMA ControlStep ==
  ASSUME IInv, kind # "array", Changed(AllPointers), UNCHANGED <<kind, writing>>, TypeOK',
         \A c \in CPUs : Active(run[c]) /\ run[c].ptr # "default" /\ (kind = "lpm" \/ run[c].age = 0)
                            => value'[run[c].ptr] = value[run[c].ptr]
  PROVE  IInv'
<1>0. WriteInv'
  BY DEF IInv, WriteInv
<1> SUFFICES ASSUME NEW c \in CPUs PROVE RunInv(run[c])'
  BY <1>0 DEF IInv
<1>1. RunInv(run[c]) /\ run[c] \in Run /\ run'[c].age <= updates'
  BY RunType, ChangedRuns DEF IInv
<1>2. CASE ~Active(run[c])
  BY <1>1, <1>2, ChangedRuns, IdleRun
<1>3. CASE Active(run[c])
  <2>0. run[c].ptr \in AllPointers
    BY <1>3, RunType DEF IInv, AllPointers
  <2>1. /\ run'[c].age = run[c].age + 1 /\ run'[c].pc = run[c].pc /\ run'[c].ptr = run[c].ptr
        /\ run'[c].hit = run[c].hit /\ run'[c].did = run[c].did /\ run'[c].with = run[c].with
        /\ run'[c].found = run[c].found
    BY <1>3, <2>0, ChangedRuns
  <2>2. run[c].age \in Nat
    BY <1>1 DEF Run
  <2>3. SUFFICES ASSUME Undisturbed(run[c])' PROVE Agrees(run[c])' /\ Leads(run[c])'
    BY <1>1, <2>1 DEF RunInv
  <2>4. kind = "lpm" \/ (kind = "hash" /\ run[c].age = 0)
    BY <2>1, <2>2, <2>3 DEF Undisturbed
  <2>5. Agrees(run[c]) /\ Leads(run[c])
    BY <1>1, <1>3, <2>4 DEF RunInv, Undisturbed
  <2>6. Agrees(run[c])'
    BY <1>3, <2>1, <2>5 DEF Agrees, Active
  <2>7. Deref(run[c].ptr)' = Deref(run[c].ptr)
    BY <1>3, <2>1, <2>4 DEF Deref
  <2>8. Leads(run[c])'
    BY <2>1, <2>2, <2>4, <2>5, <2>7 DEF Leads
  <2> QED BY <2>6, <2>8
<1> QED BY <1>2, <1>3

\* The slot that an update takes is one that no such run points to.
LEMMA UpdateStep == ASSUME IInv, NEW k \in Keys, NEW v \in Value, Update(k, v) PROVE IInv'
<1>1. PICK s \in Spare : value' = [value EXCEPT ![s] = v] /\ entry' = [entry EXCEPT ![k] = s]
  BY DEF Update
<1>2. /\ kind # "array" /\ Changed(AllPointers) /\ UNCHANGED <<kind, writing>>
      /\ s \in Slots /\ (\A j \in Keys : entry[j] # s) /\ (kind = "lpm" => s \notin Held)
  BY DEF Update, Spare
<1>3. TypeOK'
  <2>1. /\ value' \in [Slots -> Value] /\ entry' \in [Keys -> Slots \cup {NoSlot}]
        /\ kind' \in Kinds /\ writing' \in [slot : Slots, value : Value] \cup {NotWriting}
    BY <1>1, <1>2 DEF IInv, TypeOK
  <2>2. \A i, j \in Keys : i # j /\ entry'[i] # NoSlot => entry'[i] # entry'[j]
    BY <1>1, <1>2 DEF IInv, TypeOK
  <2>3. \A c \in CPUs : run'[c].pc \in {"action", "param", "said"} => run'[c].ptr # NoSlot
    BY <1>2, ChangedRuns DEF IInv, TypeOK
  <2> QED BY <1>2, <2>1, <2>2, <2>3, ChangedRuns DEF TypeOK
<1>4. ASSUME NEW c \in CPUs, Active(run[c]), run[c].ptr # "default", kind = "lpm" \/ run[c].age = 0
      PROVE  value'[run[c].ptr] = value[run[c].ptr]
  <2>1. run[c].ptr \in Slots
    BY <1>4, RunType DEF IInv
  <2>2. run[c].ptr # s
    <3>1. CASE kind = "lpm"
      BY <1>2, <1>4, <3>1 DEF Held, Active
    <3>2. CASE kind # "lpm"
      <4>1. kind = "hash" /\ run[c].age = 0
        BY <1>2, <1>4, <3>2, ConstantsAssumption DEF IInv, TypeOK
      <4>2. Leads(run[c])
        BY <1>4, <4>1 DEF IInv, RunInv, Undisturbed
      <4> QED BY <1>2, <1>4, <4>1, <4>2 DEF Leads
    <3> QED BY <3>1, <3>2
  <2> QED BY <1>1, <2>1, <2>2 DEF IInv, TypeOK
<1> QED BY <1>2, <1>3, <1>4, ControlStep

LEMMA DeleteStep == ASSUME IInv, NEW k \in Keys, Delete(k) PROVE IInv'
<1>1. /\ kind # "array" /\ Changed(AllPointers)
      /\ entry' = [entry EXCEPT ![k] = NoSlot] /\ UNCHANGED <<kind, value, writing>>
  BY DEF Delete
<1>2. TypeOK'
  <2>1. entry' \in [Keys -> Slots \cup {NoSlot}]
        /\ \A i, j \in Keys : i # j /\ entry'[i] # NoSlot => entry'[i] # entry'[j]
    BY <1>1 DEF IInv, TypeOK
  <2>2. \A c \in CPUs : run'[c].pc \in {"action", "param", "said"} => run'[c].ptr # NoSlot
    BY <1>1, ChangedRuns DEF IInv, TypeOK
  <2> QED BY <1>1, <2>1, <2>2, ChangedRuns DEF IInv, TypeOK
<1> QED BY <1>1, <1>2, ControlStep

\* An application of an array that is undisturbed after a write to element s, and is
\* still going on, points to something else, which keeps its value.
LEMMA WriteStep ==
  ASSUME IInv, NEW s \in Slots, kind = "array", UNCHANGED <<kind, entry>>, updates' \in Nat,
         \A x \in Slots : x # s => value'[x] = value[x],
         \A c \in CPUs : /\ run'[c].age <= updates'
                         /\ ~Active(run[c]) \/ run[c].ptr # s => run'[c] = run[c]
                         /\ Active(run[c]) /\ run[c].ptr = s =>
                              /\ run'[c].age # 0 /\ run'[c].pc = run[c].pc
                              /\ run'[c].hit = run[c].hit /\ run'[c].found = run[c].found
  PROVE  \A c \in CPUs : RunInv(run[c])'
<1> SUFFICES ASSUME NEW c \in CPUs PROVE RunInv(run[c])'
  OBVIOUS
<1>1. RunInv(run[c]) /\ run'[c].age <= updates'
  BY DEF IInv
<1>2. CASE ~Active(run[c])
  BY <1>1, <1>2, IdleRun
<1>3. CASE Active(run[c]) /\ run[c].ptr # s
  <2>1. run'[c] = run[c]
    BY <1>3
  <2>2. Deref(run[c].ptr)' = Deref(run[c].ptr)
    <3>1. run[c].ptr \in Slots \cup {"default"}
      BY <1>3, RunType DEF IInv
    <3> QED BY <1>3, <2>1, <3>1 DEF Deref
  <2> QED BY <1>1, <2>1, <2>2 DEF RunInv, Undisturbed, Agrees, Active, Leads, Whole
<1>4. CASE Active(run[c]) /\ run[c].ptr = s
  <2>1. ~Undisturbed(run[c])'
    BY <1>4 DEF Undisturbed
  <2>2. run'[c].hit \/ run'[c].found = DefaultAction
    BY <1>1, <1>4 DEF RunInv
  <2> QED BY <1>1, <2>1, <2>2 DEF RunInv
<1> QED BY <1>2, <1>3, <1>4

LEMMA BeginOverwriteStep ==
  ASSUME IInv, NEW k \in Keys, NEW v \in Value, BeginOverwrite(k, v) PROVE IInv'
<1> DEFINE s == entry[k]
<1>1. /\ kind = "array" /\ Changed({s}) /\ UNCHANGED <<kind, entry>>
      /\ writing' = [slot |-> s, value |-> v] /\ s \in Slots
      /\ \/ value' = [value EXCEPT ![s].action = v.action]
         \/ value' = [value EXCEPT ![s].param = v.param]
  BY DEF BeginOverwrite, IInv, TypeOK
<1> HIDE DEF s
<1>2. value' \in [Slots -> Value] /\ \A x \in Slots : x # s => value'[x] = value[x]
  BY <1>1 DEF IInv, TypeOK, Value
<1>3. /\ writing' \in [slot : Slots, value : Value] /\ writing'.slot = s
      /\ run' \in [CPUs -> Run] /\ updates' \in 0 .. MaxUpdates /\ updates' >= 1
  BY <1>1, ChangedRuns
<1>4. \A c \in CPUs : run'[c].pc \in {"action", "param", "said"} => run'[c].ptr # NoSlot
  BY <1>1, ChangedRuns DEF IInv, TypeOK
<1>5. TypeOK'
  BY <1>1, <1>2, <1>3, <1>4 DEF IInv, TypeOK
<1>6. ASSUME NEW c \in CPUs
      PROVE  /\ run'[c].age <= updates' /\ run'[c].pc = run[c].pc /\ run'[c].ptr = run[c].ptr
             /\ ~Active(run[c]) \/ run[c].ptr # s => run'[c] = run[c]
             /\ Active(run[c]) /\ run[c].ptr = s =>
                  /\ run'[c].age # 0
                  /\ run'[c].hit = run[c].hit /\ run'[c].found = run[c].found
  <2>1. run[c].age \in Nat
    BY RunType DEF IInv, Run
  <2> QED BY <1>1, <2>1, ChangedRuns
<1>7. WriteInv'
  BY <1>1, <1>3, <1>6 DEF WriteInv, Active
<1>8. updates' \in Nat
  BY <1>3, ConstantsAssumption
<1>9. \A c \in CPUs : RunInv(run[c])'
  BY <1>1, <1>2, <1>6, <1>8, WriteStep
<1> QED BY <1>5, <1>7, <1>9 DEF IInv

LEMMA EndOverwriteStep == ASSUME IInv, EndOverwrite PROVE IInv'
<1> DEFINE s == writing.slot
<1>1. /\ kind = "array" /\ UNCHANGED <<kind, entry, run, updates>> /\ writing' = NotWriting
      /\ s \in Slots /\ writing.value \in Value /\ value' = [value EXCEPT ![s] = writing.value]
      /\ \A c \in CPUs : Active(run[c]) /\ run[c].ptr = s => run[c].age # 0
  BY DEF EndOverwrite, IInv, TypeOK, WriteInv
<1> HIDE DEF s
<1>2. value' \in [Slots -> Value] /\ \A x \in Slots : x # s => value'[x] = value[x]
  BY <1>1 DEF IInv, TypeOK
<1>3. TypeOK'
  BY <1>1, <1>2 DEF IInv, TypeOK
<1>4. updates' \in Nat
  BY <1>1, ConstantsAssumption DEF IInv, TypeOK
<1>5. \A c \in CPUs : run'[c].age <= updates'
  BY <1>1 DEF IInv, RunInv
<1>6. \A c \in CPUs : RunInv(run[c])'
  BY <1>1, <1>2, <1>4, <1>5, WriteStep
<1> QED BY <1>1, <1>3, <1>6 DEF IInv, WriteInv

-----------------------------------------------------------------------------

LEMMA InitInv == Init => IInv
<1> SUFFICES ASSUME Init PROVE IInv
  OBVIOUS
<1>1. DefaultAction \in Value /\ DefaultAction.param \in Params /\ 0 \in 0 .. MaxUpdates
  BY ConstantsAssumption DEF Value
<1>2. TypeOK
  <2>1. Zero \in Value
    BY ConstantsAssumption DEF Zero, Value
  <2>2. entry \in [Keys -> Slots \cup {NoSlot}]
        /\ \A j, k \in Keys : j # k /\ entry[j] # NoSlot => entry[j] # entry[k]
    BY ConstantsAssumption DEF Init
  <2>3. run \in [CPUs -> Run]
    BY <1>1, ConstantsAssumption DEF Init, Run
  <2> QED BY <1>1, <2>1, <2>2, <2>3 DEF Init, TypeOK
<1>3. ASSUME NEW c \in CPUs PROVE RunInv(run[c])
  BY DEF Init, RunInv, Agrees, Active
<1> QED BY <1>2, <1>3 DEF IInv, Init, WriteInv

LEMMA Invariant == Spec => []IInv
<1>1. ASSUME IInv, [Next]_vars PROVE IInv'
  <2>1. CASE \E c \in CPUs : Apply(c)
    BY <1>1, <2>1, LookupStep, SwitchActionStep, ReadParamStep, SetActionRunStep DEF Apply
  <2>2. CASE ControlPlane
    BY <1>1, <2>2, UpdateStep, DeleteStep, BeginOverwriteStep, EndOverwriteStep DEF ControlPlane
  <2>3. CASE UNCHANGED vars
    BY <1>1, <2>3 DEF vars, IInv, TypeOK, WriteInv, RunInv, Undisturbed, Agrees, Leads, Active,
                      Whole, Deref
  <2> QED BY <1>1, <2>1, <2>2, <2>3 DEF Next
<1> QED BY <1>1, InitInv, PTL DEF Spec

\* The code reads no field through the NULL pointer of a failed lookup, and two keys
\* never share the memory of a value.
THEOREM TypeCorrect == Spec => []TypeOK
<1>1. IInv => TypeOK
  BY DEF IInv
<1> QED BY <1>1, Invariant, PTL

\* Action, parameter and action_run are those of the entry that was found, for any
\* number of CPUs, keys, slots and changes.
THEOREM OneEntry == Spec => []AppliesOneEntry
<1>1. IInv => AppliesOneEntry
  BY DEF IInv, RunInv, Agrees, AppliesOneEntry
<1> QED BY <1>1, Invariant, PTL

-----------------------------------------------------------------------------
(* Numbers: induction, recursive functions, powers of two, remainders.     *)

\* A set of numbers that is not empty has a least one.
LEMMA LeastNatural ==
  ASSUME NEW S \in SUBSET Nat, S # {}
  PROVE  \E m \in S : \A k \in S : m <= k
<1> DEFINE R == {ss \in Nat \X Nat : ss[1] < ss[2]}
<1>1. R = OpToRel(<, Nat)
  BY DEF OpToRel
<1>2. IsWellFoundedOn(R, Nat)
  BY <1>1, NatLessThanWellFounded
<1>3. PICK m \in S : \A y \in S : <<y, m>> \notin R
  <2> HIDE DEF R
  <2> QED BY <1>2, WFMin
<1>4. ASSUME NEW k \in S PROVE m <= k
  <2>1. ~(k < m)
    BY <1>3
  <2> QED BY <2>1
<1> QED BY <1>4

\* A set of numbers that holds n whenever it holds what is below n holds them all.
LEMMA StrongInduction ==
  ASSUME NEW S, \A n \in Nat : (\A k \in 0 .. n - 1 : k \in S) => n \in S
  PROVE  \A n \in Nat : n \in S
<1> SUFFICES ASSUME Nat \ S # {} PROVE FALSE
  OBVIOUS
<1>1. PICK m \in Nat \ S : \A k \in Nat \ S : m <= k
  BY LeastNatural
<1>2. \A k \in 0 .. m - 1 : k \in S
  BY <1>1
<1> QED BY <1>1, <1>2

\* f is defined by its value at 0 and by a step from an earlier value.
Recursive(f, base, pred, step) ==
  f[0] = base /\ \A n \in Nat \ {0} : f[n] = step[<<n, f[pred[n]]>>]
RecursiveTo(m, g, base, pred, step) ==
  g[0] = base /\ \A n \in 1 .. m : g[n] = step[<<n, g[pred[n]]>>]

\* Two functions so defined agree as far as both reach.
LEMMA PrefixesAgree ==
  ASSUME NEW base, NEW pred \in [Nat -> Nat], \A n \in Nat \ {0} : pred[n] < n, NEW step,
         NEW m \in Nat, NEW k \in Nat, m <= k, NEW g, NEW h,
         RecursiveTo(m, g, base, pred, step), RecursiveTo(k, h, base, pred, step)
  PROVE  \A n \in 0 .. m : g[n] = h[n]
<1> DEFINE S == {n \in Nat : n <= m => g[n] = h[n]}
<1>1. ASSUME NEW n \in Nat, \A i \in 0 .. n - 1 : i \in S PROVE n \in S
  <2>1. CASE n = 0
    BY <2>1 DEF RecursiveTo
  <2>2. CASE n # 0 /\ n <= m
    <3>1. pred[n] \in 0 .. n - 1 /\ n \in 1 .. m /\ n \in 1 .. k
      BY <2>2
    <3>2. g[pred[n]] = h[pred[n]]
      BY <1>1, <2>2, <3>1
    <3>3. g[n] = step[<<n, g[pred[n]]>>] /\ h[n] = step[<<n, h[pred[n]]>>]
      BY <3>1 DEF RecursiveTo
    <3> QED BY <3>2, <3>3
  <2> QED BY <2>1, <2>2
<1>2. \A n \in Nat : n \in S
  <2> HIDE DEF S
  <2> QED BY <1>1, StrongInduction
<1> QED BY <1>2

\* There is a function so defined.
LEMMA RecursiveExists ==
  ASSUME NEW V, NEW base \in V, NEW pred \in [Nat -> Nat], \A n \in Nat \ {0} : pred[n] < n,
         NEW step \in [Nat \X V -> V]
  PROVE  \E f \in [Nat -> V] : Recursive(f, base, pred, step)
<1> DEFINE To(m, g) == RecursiveTo(m, g, base, pred, step)
           S == {m \in Nat : \E g \in [0 .. m -> V] : To(m, g)}
<1>1. ASSUME NEW m \in Nat, \A i \in 0 .. m - 1 : i \in S PROVE m \in S
  <2>1. CASE m = 0
    <3> DEFINE g == [n \in 0 .. m |-> base]
    <3>1. g \in [0 .. m -> V] /\ To(m, g)
      BY <2>1 DEF RecursiveTo
    <3> QED BY <3>1
  <2>2. CASE m # 0
    <3>1. PICK g \in [0 .. m - 1 -> V] : To(m - 1, g)
      <4>1. m - 1 \in 0 .. m - 1
        BY <2>2
      <4> QED BY <4>1, <1>1
    <3>2. pred[m] \in 0 .. m - 1 /\ m \in Nat \ {0}
      BY <2>2
    <3> DEFINE v == step[<<m, g[pred[m]]>>]
               h == [n \in 0 .. m |-> IF n = m THEN v ELSE g[n]]
    <3>3. v \in V
      BY <3>2
    <3>4. h \in [0 .. m -> V]
      <4> HIDE DEF v
      <4> QED BY <3>3, <3>2
    <3>5. h[0] = base /\ h[m] = v /\ \A n \in 0 .. m - 1 : h[n] = g[n]
      <4> HIDE DEF v
      <4>1. h[m] = v /\ \A n \in 0 .. m - 1 : h[n] = g[n]
        BY <3>2
      <4>2. 0 \in 0 .. m - 1 /\ g[0] = base
        BY <3>1, <3>2 DEF RecursiveTo
      <4> HIDE DEF h
      <4> QED BY <4>1, <4>2
    <3>6. ASSUME NEW n \in 1 .. m PROVE h[n] = step[<<n, h[pred[n]]>>]
      <4> HIDE DEF h
      <4>1. pred[n] \in 0 .. n - 1 /\ n \in Nat \ {0}
        <5>1. n \in Nat \ {0} /\ pred[n] \in Nat /\ pred[n] < n
          OBVIOUS
        <5> QED BY <5>1
      <4>2. CASE n = m
        <5>1. h[pred[m]] = g[pred[m]]
          BY <3>2, <3>5
        <5> QED BY <3>5, <4>2, <5>1
      <4>3. CASE n # m
        <5>1. n \in 1 .. m - 1 /\ n \in 0 .. m - 1 /\ pred[n] \in 0 .. m - 1
          BY <4>1, <4>3
        <5>2. g[n] = step[<<n, g[pred[n]]>>]
          BY <3>1, <5>1 DEF RecursiveTo
        <5> QED BY <3>5, <5>1, <5>2
      <4> QED BY <4>2, <4>3
    <3>7. To(m, h)
      <4> HIDE DEF h
      <4> QED BY <3>5, <3>6 DEF RecursiveTo
    <3> HIDE DEF h
    <3> QED BY <3>4, <3>7
  <2> QED BY <2>1, <2>2
<1>2. \A m \in Nat : m \in S
  <2> HIDE DEF S
  <2> QED BY <1>1, StrongInduction
<1> DEFINE G(m) == CHOOSE g \in [0 .. m -> V] : To(m, g)
           f == [m \in Nat |-> G(m)[m]]
<1>3. \A m \in Nat : G(m) \in [0 .. m -> V] /\ To(m, G(m))
  <2> TAKE m \in Nat
  <2>1. \E g \in [0 .. m -> V] : To(m, g)
    BY <1>2
  <2> HIDE DEF To
  <2> QED BY <2>1
<1>4. \A m \in Nat : f[m] = G(m)[m]
  <2> HIDE DEF G
  <2> QED OBVIOUS
<1>5. f \in [Nat -> V]
  <2> HIDE DEF G
  <2>1. \A m \in Nat : G(m)[m] \in V
    BY <1>3
  <2> QED BY <2>1
<1>6. f[0] = base
  <2> HIDE DEF f, G
  <2>1. RecursiveTo(0, G(0), base, pred, step)
    BY <1>3
  <2> QED BY <1>4, <2>1 DEF RecursiveTo
<1>7. ASSUME NEW n \in Nat \ {0} PROVE f[n] = step[<<n, f[pred[n]]>>]
  <2> HIDE DEF f, G
  <2>1. pred[n] \in 0 .. n - 1 /\ pred[n] \in Nat /\ n \in 1 .. n
    OBVIOUS
  <2>2. G(pred[n])[pred[n]] = G(n)[pred[n]]
    <3>1. To(pred[n], G(pred[n])) /\ To(n, G(n))
      BY <1>3, <2>1
    <3>2. \A i \in 0 .. pred[n] : G(pred[n])[i] = G(n)[i]
      BY <3>1, <2>1, PrefixesAgree
    <3> QED BY <2>1, <3>2
  <2>3. G(n)[n] = step[<<n, G(n)[pred[n]]>>]
    BY <1>3, <2>1 DEF RecursiveTo
  <2> QED BY <1>4, <2>1, <2>2, <2>3
<1> HIDE DEF f
<1> QED BY <1>5, <1>6, <1>7 DEF Recursive

\* Pow2 is the power of two that its equation says, and never 0.
LEMMA Pow2Facts ==
  /\ Pow2 \in [Nat -> Nat \ {0}]
  /\ Pow2[0] = 1
  /\ \A n \in Nat : Pow2[n + 1] = 2 * Pow2[n]
<1> DEFINE V == Nat \ {0}
           pred == [n \in Nat |-> IF n = 0 THEN 0 ELSE n - 1]
           step == [x \in Nat \X V |-> 2 * x[2]]
           Body(f) == [n \in Nat |-> IF n = 0 THEN 1 ELSE 2 * f[n - 1]]
<1>1. pred \in [Nat -> Nat] /\ \A n \in Nat \ {0} : pred[n] = n - 1 /\ pred[n] < n
  OBVIOUS
<1>2. step \in [Nat \X V -> V] /\ \A n \in Nat, x \in V : step[<<n, x>>] = 2 * x
  OBVIOUS
<1>3. PICK f \in [Nat -> V] : Recursive(f, 1, pred, step)
  <2> HIDE DEF pred, step
  <2>1. PICK base \in V : base = 1
    OBVIOUS
  <2>2. \E f \in [Nat -> V] : Recursive(f, base, pred, step)
    <3> HIDE DEF V
    <3> QED BY <1>1, <1>2, RecursiveExists
  <2> QED BY <2>1, <2>2
<1>4. \A n \in Nat : f[n] = IF n = 0 THEN 1 ELSE 2 * f[n - 1]
  <2> HIDE DEF pred, step
  <2> TAKE n \in Nat
  <2>1. CASE n = 0
    BY <1>3, <2>1 DEF Recursive
  <2>2. CASE n # 0
    <3>1. f[n] = step[<<n, f[pred[n]]>>] /\ pred[n] = n - 1 /\ n - 1 \in Nat
      BY <1>1, <1>3, <2>2 DEF Recursive
    <3> QED BY <1>2, <2>2, <3>1
  <2> QED BY <2>1, <2>2
<1>5. f = Body(f)
  <2>1. f = [n \in Nat |-> f[n]]
    OBVIOUS
  <2> QED BY <2>1, <1>4, Zenon
<1>6. Pow2 = Body(Pow2)
  BY <1>5, Zenon DEF Pow2
<1>7. PICK g : g = Pow2
  OBVIOUS
<1>8. g = [n \in Nat |-> IF n = 0 THEN 1 ELSE 2 * g[n - 1]]
  BY <1>6, <1>7, Zenon
<1>9. g[0] = 1 /\ \A n \in Nat : g[n + 1] = 2 * g[n]
  <2>1. g[0] = 1
    BY <1>8
  <2>2. ASSUME NEW n \in Nat PROVE g[n + 1] = 2 * g[n]
    <3>1. n + 1 \in Nat /\ n + 1 # 0 /\ (n + 1) - 1 = n
      OBVIOUS
    <3>2. \A k \in Nat : g[k] = IF k = 0 THEN 1 ELSE 2 * g[k - 1]
      BY <1>8, Zenon
    <3> QED BY <3>1, <3>2
  <2> QED BY <2>1, <2>2
<1>10. \A n \in Nat : g[n] \in V
  <2> DEFINE S == {n \in Nat : g[n] \in V}
  <2>1. ASSUME NEW n \in Nat, \A k \in 0 .. n - 1 : k \in S PROVE n \in S
    <3>1. CASE n = 0
      BY <1>9, <3>1
    <3>2. CASE n # 0
      <4>1. n - 1 \in 0 .. n - 1 /\ n - 1 \in Nat /\ (n - 1) + 1 = n
        BY <3>2
      <4>2. g[n - 1] \in V
        BY <2>1, <4>1
      <4>3. g[(n - 1) + 1] = 2 * g[n - 1]
        BY <1>9, <4>1
      <4>4. g[n] = 2 * g[n - 1]
        BY <4>1, <4>3
      <4> QED BY <4>2, <4>4
    <3> QED BY <3>1, <3>2
  <2>2. \A n \in Nat : n \in S
    <3> HIDE DEF S
    <3> QED BY <2>1, StrongInduction
  <2> QED BY <2>2
<1>11. g \in [Nat -> V]
  <2>1. g = [n \in Nat |-> g[n]]
    BY <1>8, Zenon
  <2> QED BY <1>10, <2>1
<1> QED BY <1>7, <1>9, <1>11

\* Adding exponents multiplies the powers.
LEMMA Pow2Sum ==
  ASSUME NEW m \in Nat, NEW n \in Nat
  PROVE  Pow2[m + n] = Pow2[m] * Pow2[n]
<1> DEFINE S == {k \in Nat : Pow2[m + k] = Pow2[m] * Pow2[k]}
<1>1. ASSUME NEW k \in Nat, \A i \in 0 .. k - 1 : i \in S PROVE k \in S
  <2>1. CASE k = 0
    <3>1. Pow2[m] \in Nat /\ Pow2[0] = 1 /\ m + 0 = m
      BY Pow2Facts
    <3> QED BY <2>1, <3>1
  <2>2. CASE k # 0
    <3>1. k - 1 \in Nat /\ (k - 1) + 1 = k /\ (m + (k - 1)) + 1 = m + k /\ m + (k - 1) \in Nat
      BY <2>2
    <3>2. Pow2[m + (k - 1)] = Pow2[m] * Pow2[k - 1]
      BY <1>1, <3>1
    <3>3. Pow2[(m + (k - 1)) + 1] = 2 * Pow2[m + (k - 1)] /\ Pow2[(k - 1) + 1] = 2 * Pow2[k - 1]
      BY <3>1, Pow2Facts
    <3>4. Pow2[m + k] = 2 * Pow2[m + (k - 1)] /\ Pow2[k] = 2 * Pow2[k - 1]
      BY <3>1, <3>3
    <3>5. \A a, b \in Nat : 2 * (a * b) = a * (2 * b)
      OBVIOUS
    <3>6. Pow2[m] \in Nat /\ Pow2[k - 1] \in Nat
      BY <3>1, Pow2Facts
    <3> QED BY <3>2, <3>4, <3>5, <3>6
  <2> QED BY <2>1, <2>2
<1>2. \A k \in Nat : k \in S
  <2> HIDE DEF S
  <2> QED BY <1>1, StrongInduction
<1> QED BY <1>2

\* A product is no smaller than a factor.
LEMMA ProductGrows ==
  ASSUME NEW a \in Nat, NEW b \in Nat \ {0}
  PROVE  a <= a * b /\ a * b \in Nat
<1>1. a * b = a + a * (b - 1) /\ a * (b - 1) >= 0
  BY Z3
<1> QED BY <1>1

\* A power of two grows with its exponent.
LEMMA Pow2Grows ==
  ASSUME NEW m \in Nat, NEW n \in Nat, m <= n
  PROVE  Pow2[m] <= Pow2[n]
<1>1. n - m \in Nat /\ m + (n - m) = n
  OBVIOUS
<1>2. Pow2[n] = Pow2[m] * Pow2[n - m]
  BY <1>1, Pow2Sum
<1>3. Pow2[m] \in Nat /\ Pow2[n - m] \in Nat \ {0}
  BY <1>1, Pow2Facts
<1> QED BY <1>2, <1>3, ProductGrows

-----------------------------------------------------------------------------
(* Quotients and remainders.                                               *)

\* Quotient and remainder make up the number.
LEMMA DivMod ==
  ASSUME NEW n \in Int, NEW m \in Nat \ {0}
  PROVE  n \div m \in Int /\ n % m \in 0 .. m - 1 /\ n = m * (n \div m) + (n % m)
OBVIOUS

\* No other numbers do.
LEMMA DivModUnique ==
  ASSUME NEW n \in Int, NEW m \in Nat \ {0}, NEW q \in Int, NEW r \in 0 .. m - 1, n = m * q + r
  PROVE  n \div m = q /\ n % m = r
<1> DEFINE p == n \div m
           s == n % m
<1>1. p \in Int /\ s \in 0 .. m - 1 /\ n = m * p + s
  BY DivMod
<1> HIDE DEF p, s
<1>2. m * (p - q) = r - s
  BY <1>1, Z3
<1>3. CASE p - q >= 1
  <2>1. m * (p - q) >= m
    BY <1>1, <1>3, Z3
  <2> QED BY <1>1, <1>2, <2>1
<1>4. CASE p - q <= -1
  <2>1. m * (p - q) <= -m
    BY <1>1, <1>4, Z3
  <2> QED BY <1>1, <1>2, <2>1
<1>5. CASE p = q
  <2>1. s = r
    BY <1>1, <1>5
  <2> QED BY <2>1, <1>5 DEF p, s
<1> QED BY <1>1, <1>3, <1>4, <1>5

\* The quotient of a natural number is one, and no larger.
LEMMA DivNat ==
  ASSUME NEW n \in Nat, NEW m \in Nat \ {0}
  PROVE  n \div m \in Nat /\ n \div m <= n /\ (m > 1 /\ n > 0 => n \div m < n)
<1> DEFINE q == n \div m
<1>1. q \in Int /\ n % m \in 0 .. m - 1 /\ n = m * q + (n % m)
  BY DivMod
<1> HIDE DEF q
<1>2. q >= 0
  <2>1. CASE q <= -1
    <3>1. m * q <= -m /\ m * q \in Int
      BY <1>1, <2>1, Z3
    <3>2. n - (n % m) <= -m
      BY <1>1, <3>1
    <3> QED BY <1>1, <3>2
  <2> QED BY <1>1, <2>1
<1>3. q <= q * m /\ q * m \in Nat /\ q * m = m * q
  BY <1>1, <1>2, ProductGrows
<1>4. ASSUME m > 1, n > 0 PROVE q < n
  <2>1. CASE q = 0
    BY <1>4, <2>1
  <2>2. CASE q > 0
    <3>1. m * q = q + (m - 1) * q
      BY <1>1, Z3
    <3>2. (m - 1) * q >= q
      BY <1>1, <1>4, <2>2, Z3
    <3>3. (m - 1) * q \in Int /\ m * q <= n
      BY <1>1, <1>3
    <3> QED BY <1>1, <2>2, <3>1, <3>2, <3>3
  <2> QED BY <1>1, <1>2, <2>1, <2>2
<1> QED BY <1>1, <1>2, <1>3, <1>4 DEF q

\* A number below the divisor is its own remainder.
LEMMA Small ==
  ASSUME NEW m \in Nat \ {0}, NEW n \in 0 .. m - 1
  PROVE  n % m = n /\ n \div m = 0
<1>1. n = m * 0 + n
  OBVIOUS
<1> QED BY <1>1, DivModUnique

\* Numbers that differ by a multiple have the same remainder.
LEMMA SameRemainder ==
  ASSUME NEW m \in Nat \ {0}, NEW x \in Int, NEW y \in Int, NEW k \in Int, x = y + m * k
  PROVE  x % m = y % m /\ x \div m = (y \div m) + k
<1> DEFINE q == y \div m
           r == y % m
<1>1. q \in Int /\ r \in 0 .. m - 1 /\ y = m * q + r
  BY DivMod
<1> HIDE DEF q, r
<1>2. x = m * (q + k) + r /\ q + k \in Int
  BY <1>1, Z3
<1>3. x % m = r /\ x \div m = q + k
  BY <1>1, <1>2, DivModUnique
<1> QED BY <1>3 DEF q, r

\* Reducing a term does not change the remainder of a sum or difference.
LEMMA ModAdd ==
  ASSUME NEW m \in Nat \ {0}, NEW x \in Int, NEW y \in Int
  PROVE  ((x % m) + y) % m = (x + y) % m /\ (y + (x % m)) % m = (y + x) % m /\ (y - (x % m)) % m = (y - x) % m
<1> DEFINE q == x \div m
           r == x % m
<1>1. q \in Int /\ r \in 0 .. m - 1 /\ x = m * q + r
  BY DivMod
<1> HIDE DEF q, r
<1>2. x + y = (r + y) + m * q /\ x + y \in Int /\ r + y \in Int
  BY <1>1
<1>3. y - r = (y - x) + m * q /\ y - x \in Int /\ y - r \in Int
  BY <1>1
<1>4. (x + y) % m = (r + y) % m
  <2> DEFINE a == x + y
             b == r + y
  <2>1. a \in Int /\ b \in Int /\ a = b + m * q
    BY <1>2
  <2> HIDE DEF a, b
  <2>2. a % m = b % m
    BY <1>1, <2>1, SameRemainder
  <2> QED BY <2>2 DEF a, b
<1>5. (y - r) % m = (y - x) % m
  <2> DEFINE a == y - r
             b == y - x
  <2>1. a \in Int /\ b \in Int /\ a = b + m * q
    BY <1>3
  <2> HIDE DEF a, b
  <2>2. a % m = b % m
    BY <1>1, <2>1, SameRemainder
  <2> QED BY <2>2 DEF a, b
<1>6. x + y = y + x /\ r + y = y + r
  BY <1>1
<1> QED BY <1>4, <1>5, <1>6 DEF r

\* Reducing a factor does not change the remainder of a product.
LEMMA ModMul ==
  ASSUME NEW m \in Nat \ {0}, NEW x \in Int, NEW y \in Int
  PROVE  ((x % m) * y) % m = (x * y) % m /\ (y * (x % m)) % m = (y * x) % m
<1> DEFINE q == x \div m
           r == x % m
<1>1. q \in Int /\ r \in 0 .. m - 1 /\ x = m * q + r
  BY DivMod
<1> HIDE DEF q, r
<1>2. x * y = r * y + m * (q * y) /\ r * y \in Int /\ q * y \in Int /\ x * y \in Int
  BY <1>1, Z3
<1>3. (x * y) % m = (r * y) % m
  BY <1>2, SameRemainder
<1>4. y * x = x * y /\ r * y = y * r
  BY <1>1, Z3
<1> QED BY <1>3, <1>4 DEF r

\* n in digits of base a, then b.
Product(c, a, b) == c = a * b

TwoDigits(n, a, b, c) ==
  /\ (n \div a) \div b = n \div c
  /\ (n % c) % a = n % a
  /\ (n % c) \div a = (n \div a) % b
  /\ c \in Nat \ {0}

\* Dividing by a product is dividing by its factors in turn.
LEMMA Digits ==
  ASSUME NEW n \in Int, NEW a \in Nat \ {0}, NEW b \in Nat \ {0}, NEW c, Product(c, a, b)
  PROVE  TwoDigits(n, a, b, c)
<1> DEFINE p == n \div a
           r == n % a
           q == p \div b
           s == p % b
<1>1. p \in Int /\ r \in 0 .. a - 1 /\ n = a * p + r
  BY DivMod
<1>2. q \in Int /\ s \in 0 .. b - 1 /\ p = b * q + s
  <2> HIDE DEF p
  <2> QED BY <1>1, DivMod
<1> DEFINE t == a * s + r
<1> HIDE DEF p, r, q, s
<1>3. n = (a * b) * q + t
  BY <1>1, <1>2, Z3
<1>4. a * b \in Nat \ {0} /\ t \in 0 .. a * b - 1
  <2>1. a * s >= 0 /\ a * s \in Int
    BY <1>2, Z3
  <2>2. a * s <= a * (b - 1) /\ a * (b - 1) = a * b - a /\ a * b \in Int
    BY <1>2, Z3
  <2>3. a <= a * b
    BY ProductGrows
  <2> QED BY <1>1, <2>1, <2>2, <2>3
<1>5. n \div (a * b) = q /\ n % (a * b) = t
  <2> DEFINE m == a * b
  <2>1. m \in Nat \ {0} /\ t \in 0 .. m - 1 /\ n = m * q + t
    BY <1>3, <1>4
  <2>2. n \div m = q /\ n % m = t
    <3> HIDE DEF m, t
    <3> QED BY <1>2, <2>1, DivModUnique
  <2> QED BY <2>2
<1>6. t \div a = s /\ t % a = r
  <2>1. t = a * s + r /\ t \in Int
    BY <1>4
  <2> HIDE DEF t
  <2> QED BY <1>1, <1>2, <2>1, DivModUnique
<1>7. (n \div a) \div b = q /\ (n \div a) % b = s /\ n % a = r
  BY DEF p, q, r, s
<1>8. c = a * b
  BY DEF Product
<1> QED BY <1>4, <1>5, <1>6, <1>7, <1>8 DEF TwoDigits

\* A multiple, in digits.
LEMMA Scaled ==
  ASSUME NEW n \in Int, NEW a \in Nat \ {0}, NEW b \in Nat \ {0}
  PROVE  (n * a) % (b * a) = (n % b) * a /\ (n * a) \div a = n /\ (n * a) % a = 0
         /\ (n * a) \div (b * a) = n \div b
<1> DEFINE q == n \div b
           r == n % b
<1>1. q \in Int /\ r \in 0 .. b - 1 /\ n = b * q + r
  BY DivMod
<1> HIDE DEF q, r
<1>2. b * a \in Nat \ {0}
  BY Z3
<1>3. n * a = (b * a) * q + r * a /\ n * a \in Int
  BY <1>1, Z3
<1>4. r * a \in 0 .. b * a - 1
  <2>1. r * a >= 0 /\ r * a \in Int /\ r * a <= (b - 1) * a /\ (b - 1) * a = b * a - a
    BY <1>1, Z3
  <2> QED BY <1>2, <2>1
<1>5. (n * a) % (b * a) = r * a /\ (n * a) \div (b * a) = q
  <2> DEFINE x == n * a
             m == b * a
             t == r * a
  <2>1. x \in Int /\ m \in Nat \ {0} /\ t \in 0 .. m - 1 /\ x = m * q + t
    BY <1>2, <1>3, <1>4
  <2> HIDE DEF x, m, t
  <2>2. x % m = t /\ x \div m = q
    BY <1>1, <2>1, DivModUnique
  <2> QED BY <2>2 DEF x, m, t
<1>6. (n * a) \div a = n /\ (n * a) % a = 0
  <2>1. n * a = a * n + 0 /\ 0 \in 0 .. a - 1
    BY Z3
  <2> QED BY <1>3, <2>1, DivModUnique
<1> QED BY <1>5, <1>6 DEF q, r

-----------------------------------------------------------------------------
(* The bits that two numbers share.                                        *)

Bit == {0, 1}

\* A number is twice another, plus its lowest bit.
LEMMA Halves ==
  ASSUME NEW a \in Nat
  PROVE  \E h \in Nat, i \in Bit : a = 2 * h + i /\ (a # 0 => h < a)
<1>1. a \div 2 \in Nat /\ a % 2 \in Bit /\ a = 2 * (a \div 2) + (a % 2)
  BY DEF Bit
<1>2. \A h \in Nat, i \in Bit : a = 2 * h + i /\ a # 0 => h < a
  BY DEF Bit
<1> QED BY <1>1, <1>2

\* BitAnd is the function that its equation says: it goes through the bits of both numbers.
LEMMA BitAndSteps ==
  /\ BitAnd \in [Nat -> [Nat -> Nat]]
  /\ \A b \in Nat : BitAnd[0][b] = 0
  /\ \A a \in Nat \ {0}, b \in Nat : BitAnd[a][b] = 2 * BitAnd[a \div 2][b \div 2] + (a % 2) * (b % 2)
<1> DEFINE V == [Nat -> Nat]
           none == [b \in Nat |-> 0]
           pred == [n \in Nat |-> n \div 2]
           step == [x \in Nat \X V |-> [b \in Nat |-> 2 * x[2][b \div 2] + (x[1] % 2) * (b % 2)]]
           Body(f) == [a \in Nat |-> [b \in Nat |->
                         IF a = 0 THEN 0 ELSE 2 * f[a \div 2][b \div 2] + (a % 2) * (b % 2)]]
<1>1. pred \in [Nat -> Nat] /\ \A n \in Nat \ {0} : pred[n] = n \div 2 /\ pred[n] < n
  <2>1. \A n \in Nat : n \div 2 \in Nat
    OBVIOUS
  <2>2. \A n \in Nat \ {0} : n \div 2 < n
    OBVIOUS
  <2> QED BY <2>1, <2>2
<1>2. none \in V
  OBVIOUS
<1>3. /\ step \in [Nat \X V -> V]
      /\ \A n \in Nat, g \in V : step[<<n, g>>] = [b \in Nat |-> 2 * g[b \div 2] + (n % 2) * (b % 2)]
  <2>1. ASSUME NEW x \in Nat \X V
        PROVE  [b \in Nat |-> 2 * x[2][b \div 2] + (x[1] % 2) * (b % 2)] \in V
    <3>1. PICK n \in Nat : n = x[1]
      OBVIOUS
    <3>2. PICK g \in V : g = x[2]
      OBVIOUS
    <3>3. ASSUME NEW b \in Nat PROVE 2 * g[b \div 2] + (n % 2) * (b % 2) \in Nat
      <4>1. b \div 2 \in Nat /\ n % 2 \in Nat /\ b % 2 \in Nat
        OBVIOUS
      <4>2. (n % 2) * (b % 2) \in Nat
        <5>1. \A x1, y1 \in Nat : x1 * y1 \in Nat
          BY Z3
        <5> QED BY <4>1, <5>1
      <4>3. g[b \div 2] \in Nat
        BY <4>1
      <4> QED BY <4>2, <4>3
    <3> QED BY <3>1, <3>2, <3>3
  <2>2. step \in [Nat \X V -> V]
    <3> HIDE DEF V
    <3> QED BY <2>1
  <2>3. \A n \in Nat, g \in V : <<n, g>> \in Nat \X V /\ <<n, g>>[1] = n /\ <<n, g>>[2] = g
    <3> HIDE DEF V
    <3> QED OBVIOUS
  <2> HIDE DEF V
  <2> QED BY <2>2, <2>3, Zenon
<1>4. PICK f \in [Nat -> V] : Recursive(f, none, pred, step)
  <2> HIDE DEF none, pred, step, V
  <2> QED BY <1>1, <1>2, <1>3, RecursiveExists
<1>5. \A n \in Nat : f[n] = [b \in Nat |-> IF n = 0 THEN 0 ELSE 2 * f[n \div 2][b \div 2] + (n % 2) * (b % 2)]
  <2> TAKE n \in Nat
  <2>1. CASE n = 0
    <3>1. f[n] = none
      BY <1>4, <2>1 DEF Recursive
    <3> QED BY <3>1, <2>1, Zenon
  <2>2. CASE n # 0
    <3> HIDE DEF none, pred, step, V
    <3>1. f[n] = step[<<n, f[pred[n]]>>] /\ pred[n] = n \div 2 /\ pred[n] \in Nat
      BY <1>1, <1>4, <2>2 DEF Recursive
    <3>2. f[n \div 2] \in V
      BY <3>1
    <3>3. f[n] = [b \in Nat |-> 2 * f[n \div 2][b \div 2] + (n % 2) * (b % 2)]
      BY <1>3, <3>1, <3>2, Zenon
    <3> QED BY <2>2, <3>3, Zenon
  <2> QED BY <2>1, <2>2
<1>6. f = Body(f)
  <2>1. f = [n \in Nat |-> f[n]]
    OBVIOUS
  <2> QED BY <2>1, <1>5, Zenon
<1>7. BitAnd = Body(BitAnd)
  BY <1>6, Zenon DEF BitAnd
<1>8. PICK g : g = BitAnd
  OBVIOUS
<1>9. g = [a \in Nat |-> [b \in Nat |-> IF a = 0 THEN 0 ELSE 2 * g[a \div 2][b \div 2] + (a % 2) * (b % 2)]]
  BY <1>7, <1>8, Zenon
<1>10. /\ \A b \in Nat : g[0][b] = 0
       /\ \A a \in Nat \ {0}, b \in Nat : g[a][b] = 2 * g[a \div 2][b \div 2] + (a % 2) * (b % 2)
  <2>1. \A a \in Nat, b \in Nat :
          g[a][b] = IF a = 0 THEN 0 ELSE 2 * g[a \div 2][b \div 2] + (a % 2) * (b % 2)
    <3> TAKE a \in Nat
    <3>1. g[a] = [b \in Nat |-> IF a = 0 THEN 0 ELSE 2 * g[a \div 2][b \div 2] + (a % 2) * (b % 2)]
      BY <1>9, Zenon
    <3> QED BY <3>1, Zenon
  <2>2. \A b \in Nat : g[0][b] = 0
    BY <2>1
  <2>3. ASSUME NEW a \in Nat \ {0}, NEW b \in Nat
        PROVE  g[a][b] = 2 * g[a \div 2][b \div 2] + (a % 2) * (b % 2)
    <3>1. a # 0 /\ a \in Nat
      OBVIOUS
    <3> QED BY <2>1, <3>1
  <2> QED BY <2>2, <2>3
<1>11. ASSUME NEW a \in Nat PROVE g[a] \in V
  <2> DEFINE S == {n \in Nat : \A b \in Nat : g[n][b] \in Nat}
  <2>1. ASSUME NEW n \in Nat, \A k \in 0 .. n - 1 : k \in S PROVE n \in S
    <3> SUFFICES ASSUME NEW b \in Nat PROVE g[n][b] \in Nat
      OBVIOUS
    <3>1. CASE n = 0
      BY <1>10, <3>1
    <3>2. CASE n # 0
      <4>1. n \div 2 \in 0 .. n - 1 /\ b \div 2 \in Nat /\ n % 2 \in Nat /\ b % 2 \in Nat
        BY <3>2
      <4>2. g[n \div 2][b \div 2] \in Nat
        BY <2>1, <4>1
      <4>3. g[n][b] = 2 * g[n \div 2][b \div 2] + (n % 2) * (b % 2)
        BY <1>10, <3>2
      <4>4. \A x, y, z \in Nat : 2 * x + y * z \in Nat
        OBVIOUS
      <4> QED BY <4>1, <4>2, <4>3, <4>4
    <3> QED BY <3>1, <3>2
  <2>2. \A n \in Nat : n \in S
    <3> HIDE DEF S
    <3> QED BY <2>1, StrongInduction
  <2>3. \A b \in Nat : g[a][b] \in Nat
    BY <2>2
  <2>4. g[a] = [b \in Nat |-> IF a = 0 THEN 0 ELSE 2 * g[a \div 2][b \div 2] + (a % 2) * (b % 2)]
    BY <1>9, Zenon
  <2>5. g[a] = [b \in Nat |-> g[a][b]]
    BY <2>4, Zenon
  <2> QED BY <2>3, <2>5
<1>12. g \in [Nat -> V]
  <2>1. g = [n \in Nat |-> g[n]]
    BY <1>9, Zenon
  <2> HIDE DEF V
  <2> QED BY <1>11, <2>1
<1> QED BY <1>8, <1>10, <1>12

\* BitAnd of two numbers given by their halves and lowest bits.
LEMMA BitAndSplit ==
  ASSUME NEW h \in Nat, NEW k \in Nat, NEW i \in Bit, NEW j \in Bit
  PROVE  /\ BitAnd[2 * h + i][2 * k + j] = 2 * BitAnd[h][k] + i * j
         /\ BitAnd[h][k] \in Nat
<1>1. BitAnd[h][k] \in Nat
  BY BitAndSteps
<1> DEFINE a == 2 * h + i
           b == 2 * k + j
<1>2. a \in Nat /\ b \in Nat /\ a \div 2 = h /\ a % 2 = i /\ b \div 2 = k /\ b % 2 = j
  BY DEF Bit
<1>3. CASE a = 0
  <2>1. h = 0 /\ i = 0
    BY <1>3 DEF Bit
  <2>2. BitAnd[a][b] = 0 /\ BitAnd[0][k] = 0
    BY <1>2, <1>3, BitAndSteps
  <2>3. i * j = 0
    BY <2>1 DEF Bit
  <2> QED BY <2>1, <2>2, <2>3
<1>4. CASE a # 0
  <2> HIDE DEF a, b
  <2>1. BitAnd[a][b] = 2 * BitAnd[a \div 2][b \div 2] + (a % 2) * (b % 2)
    BY <1>2, <1>4, BitAndSteps
  <2>2. BitAnd[a][b] = 2 * BitAnd[h][k] + i * j
    BY <1>2, <2>1
  <2> QED BY <1>1, <2>2 DEF a, b
<1> QED BY <1>3, <1>4

\* The common bits of two numbers are no more than either number.
LEMMA BitAndBounds ==
  ASSUME NEW a \in Nat, NEW b \in Nat
  PROVE  /\ BitAnd[a][b] \in Nat /\ BitAnd[a][b] <= a /\ BitAnd[a][b] <= b
         /\ BitAnd[a][b] = BitAnd[b][a] /\ BitAnd[a][a] = a
         /\ BitAnd[0][b] = 0 /\ BitAnd[b][0] = 0
<1> DEFINE P(x, y) == /\ BitAnd[x][y] <= x /\ BitAnd[x][y] <= y
                      /\ BitAnd[x][y] = BitAnd[y][x] /\ BitAnd[x][x] = x
           S == {x \in Nat : \A y \in Nat : P(x, y)}
           T == {y \in Nat : BitAnd[y][0] = 0}
<1>1. \A x, y \in Nat : BitAnd[x][y] \in Nat
  BY BitAndSteps
<1>2. ASSUME NEW y \in Nat, \A k \in 0 .. y - 1 : k \in T PROVE y \in T
  <2>1. CASE y = 0
    BY BitAndSteps, <2>1
  <2>2. CASE y # 0
    <3>1. PICK h \in Nat, i \in Bit : y = 2 * h + i /\ h < y
      BY Halves, <2>2
    <3>2. BitAnd[2 * h + i][2 * 0 + 0] = 2 * BitAnd[h][0] + i * 0
      BY BitAndSplit DEF Bit
    <3>3. BitAnd[h][0] = 0
      BY <1>2, <3>1
    <3>4. 2 * 0 + 0 = 0 /\ i * 0 = 0
      BY DEF Bit
    <3> QED BY <3>1, <3>2, <3>3, <3>4
  <2> QED BY <2>1, <2>2
<1>3. \A y \in Nat : y \in T
  <2> HIDE DEF T
  <2> QED BY <1>2, StrongInduction
<1>4. \A y \in Nat : BitAnd[y][0] = 0 /\ BitAnd[0][y] = 0
  BY <1>3, BitAndSteps
<1>5. ASSUME NEW x \in Nat, \A k \in 0 .. x - 1 : k \in S PROVE x \in S
  <2> SUFFICES ASSUME NEW y \in Nat PROVE P(x, y)
    OBVIOUS
  <2>1. CASE x = 0
    BY <1>4, <2>1
  <2>2. CASE x # 0
    <3>1. PICK h \in Nat, i \in Bit : x = 2 * h + i /\ h < x
      BY Halves, <2>2
    <3>2. PICK k \in Nat, j \in Bit : y = 2 * k + j
      BY Halves
    <3>3. BitAnd[x][y] = 2 * BitAnd[h][k] + i * j
      BY BitAndSplit, <3>1, <3>2
    <3>4. BitAnd[y][x] = 2 * BitAnd[k][h] + j * i
      BY BitAndSplit, <3>1, <3>2
    <3>5. BitAnd[x][x] = 2 * BitAnd[h][h] + i * i
      BY BitAndSplit, <3>1
    <3>6. P(h, k)
      BY <1>5, <3>1
    <3>7. i * j <= i /\ i * j <= j /\ i * j = j * i /\ i * i = i /\ i * j \in Nat
      BY DEF Bit
    <3>8. BitAnd[h][k] \in Nat /\ BitAnd[k][h] \in Nat /\ BitAnd[h][h] \in Nat
      BY <1>1
    <3>9. BitAnd[x][y] <= x /\ BitAnd[x][y] <= y
      BY <3>1, <3>2, <3>3, <3>6, <3>7, <3>8 DEF Bit
    <3>10. BitAnd[x][y] = BitAnd[y][x] /\ BitAnd[x][x] = x
      BY <3>1, <3>2, <3>3, <3>4, <3>5, <3>6, <3>7, <3>8 DEF Bit
    <3> QED BY <3>9, <3>10
  <2> QED BY <2>1, <2>2
<1>6. \A x \in Nat : x \in S
  <2> HIDE DEF S
  <2> QED BY <1>5, StrongInduction
<1>7. P(a, b)
  BY <1>6
<1> QED BY <1>1, <1>4, <1>7

\* The & of three numbers does not depend on the order.
LEMMA BitAndAssociative ==
  ASSUME NEW a \in Nat, NEW b \in Nat, NEW c \in Nat
  PROVE  BitAnd[BitAnd[a][b]][c] = BitAnd[a][BitAnd[b][c]]
<1> DEFINE S == {x \in Nat : \A y, z \in Nat : BitAnd[BitAnd[x][y]][z] = BitAnd[x][BitAnd[y][z]]}
<1>1. ASSUME NEW x \in Nat, \A k \in 0 .. x - 1 : k \in S PROVE x \in S
  <2> SUFFICES ASSUME NEW y \in Nat, NEW z \in Nat
               PROVE  BitAnd[BitAnd[x][y]][z] = BitAnd[x][BitAnd[y][z]]
    OBVIOUS
  <2>1. CASE x = 0
    <3>1. BitAnd[0][y] = 0 /\ BitAnd[0][z] = 0 /\ BitAnd[y][z] \in Nat
      BY BitAndBounds
    <3>2. BitAnd[0][BitAnd[y][z]] = 0
      BY <3>1, BitAndBounds
    <3> QED BY <2>1, <3>1, <3>2
  <2>2. CASE x # 0
    <3>1. PICK h \in Nat, i \in Bit : x = 2 * h + i /\ h < x
      BY Halves, <2>2
    <3>2. PICK k \in Nat, j \in Bit : y = 2 * k + j
      BY Halves
    <3>3. PICK l \in Nat, m \in Bit : z = 2 * l + m
      BY Halves
    <3>4. BitAnd[x][y] = 2 * BitAnd[h][k] + i * j /\ BitAnd[h][k] \in Nat
      BY BitAndSplit, <3>1, <3>2
    <3>5. BitAnd[y][z] = 2 * BitAnd[k][l] + j * m /\ BitAnd[k][l] \in Nat
      BY BitAndSplit, <3>3, <3>2
    <3>6. i * j \in Bit /\ j * m \in Bit /\ (i * j) * m = i * (j * m)
      BY DEF Bit
    <3>7. BitAnd[2 * BitAnd[h][k] + i * j][2 * l + m] = 2 * BitAnd[BitAnd[h][k]][l] + (i * j) * m
      BY BitAndSplit, <3>4, <3>6
    <3>8. BitAnd[2 * h + i][2 * BitAnd[k][l] + j * m] = 2 * BitAnd[h][BitAnd[k][l]] + i * (j * m)
      BY BitAndSplit, <3>5, <3>6
    <3>9. BitAnd[BitAnd[h][k]][l] = BitAnd[h][BitAnd[k][l]]
      <4>1. h \in S
        BY <1>1, <3>1
      <4> QED BY <4>1
    <3> QED BY <3>1, <3>2, <3>3, <3>4, <3>5, <3>6, <3>7, <3>8, <3>9
  <2> QED BY <2>1, <2>2
<1>2. \A x \in Nat : x \in S
  <2> HIDE DEF S
  <2> QED BY <1>1, StrongInduction
<1> QED BY <1>2

\* Numbers in digits of n bits: and goes digit by digit.
LEMMA BitAndDigits ==
  ASSUME NEW n \in Nat, NEW a \in Nat, NEW b \in Nat, NEW i \in 0 .. Pow2[n] - 1, NEW j \in 0 .. Pow2[n] - 1
  PROVE  BitAnd[Pow2[n] * a + i][Pow2[n] * b + j] = Pow2[n] * BitAnd[a][b] + BitAnd[i][j]
<1> DEFINE P(m) == \A x, y \in Nat : \A s, t \in 0 .. Pow2[m] - 1 :
                     BitAnd[Pow2[m] * x + s][Pow2[m] * y + t] = Pow2[m] * BitAnd[x][y] + BitAnd[s][t]
           S == {m \in Nat : P(m)}
<1>1. ASSUME NEW m \in Nat, \A k \in 0 .. m - 1 : k \in S PROVE m \in S
  <2> SUFFICES ASSUME NEW x \in Nat, NEW y \in Nat, NEW s \in 0 .. Pow2[m] - 1, NEW t \in 0 .. Pow2[m] - 1
               PROVE  BitAnd[Pow2[m] * x + s][Pow2[m] * y + t] = Pow2[m] * BitAnd[x][y] + BitAnd[s][t]
    OBVIOUS
  <2>1. CASE m = 0
    <3>1. Pow2[m] = 1 /\ s = 0 /\ t = 0
      BY <2>1, Pow2Facts
    <3>2. BitAnd[x][y] \in Nat /\ BitAnd[0][0] = 0
      BY BitAndBounds
    <3>3. 1 * x + 0 = x /\ 1 * y + 0 = y /\ 1 * BitAnd[x][y] + 0 = BitAnd[x][y]
      BY <3>2
    <3> QED BY <3>1, <3>2, <3>3
  <2>2. CASE m # 0
    <3> DEFINE p == Pow2[m - 1]
    <3>1. m - 1 \in 0 .. m - 1 /\ m - 1 \in Nat /\ (m - 1) + 1 = m
      BY <2>2
    <3>2. p \in Nat \ {0} /\ Pow2[(m - 1) + 1] = 2 * p
      BY <3>1, Pow2Facts
    <3>3. Pow2[m] = 2 * p
      BY <3>1, <3>2
    <3>4. P(m - 1)
      BY <1>1, <3>1
    <3> HIDE DEF p
    <3>5. PICK s1 \in Nat, s0 \in Bit : s = 2 * s1 + s0
      BY <3>2, <3>3, Halves
    <3>6. PICK t1 \in Nat, t0 \in Bit : t = 2 * t1 + t0
      BY <3>2, <3>3, Halves
    <3>7. s1 \in 0 .. p - 1 /\ t1 \in 0 .. p - 1
      BY <3>2, <3>3, <3>5, <3>6 DEF Bit
    <3>8. p * x + s1 \in Nat /\ p * y + t1 \in Nat
      BY <3>2, Z3
    <3>9. BitAnd[2 * (p * x + s1) + s0][2 * (p * y + t1) + t0]
            = 2 * BitAnd[p * x + s1][p * y + t1] + s0 * t0
      BY <3>8, BitAndSplit
    <3>10. BitAnd[p * x + s1][p * y + t1] = p * BitAnd[x][y] + BitAnd[s1][t1]
      BY <3>4, <3>7 DEF p
    <3>11. BitAnd[2 * s1 + s0][2 * t1 + t0] = 2 * BitAnd[s1][t1] + s0 * t0
      BY BitAndSplit
    <3>12. 2 * (p * x + s1) + s0 = (2 * p) * x + s /\ 2 * (p * y + t1) + t0 = (2 * p) * y + t
      BY <3>2, <3>5, <3>6, Z3 DEF Bit
    <3>13. BitAnd[x][y] \in Nat /\ BitAnd[s1][t1] \in Nat /\ s0 * t0 \in Nat
      BY BitAndBounds DEF Bit
    <3>14. 2 * (p * BitAnd[x][y] + BitAnd[s1][t1]) + s0 * t0
             = (2 * p) * BitAnd[x][y] + (2 * BitAnd[s1][t1] + s0 * t0)
      <4> DEFINE u == BitAnd[x][y]
                 v == BitAnd[s1][t1]
                 c == s0 * t0
      <4>2. u \in Nat /\ v \in Nat /\ c \in Nat
        BY <3>13
      <4> HIDE DEF u, v, c
      <4>3. 2 * (p * u + v) + c = (2 * p) * u + (2 * v + c)
        BY <3>2, <4>2, Z3
      <4> QED BY <4>3 DEF u, v, c
    <3>15. BitAnd[Pow2[m] * x + s][Pow2[m] * y + t]
             = 2 * (p * BitAnd[x][y] + BitAnd[s1][t1]) + s0 * t0
      BY <3>3, <3>9, <3>10, <3>12, Zenon
    <3>16. BitAnd[s][t] = 2 * BitAnd[s1][t1] + s0 * t0
      BY <3>5, <3>6, <3>11, Zenon
    <3> QED BY <3>3, <3>14, <3>15, <3>16, Zenon
  <2> QED BY <2>1, <2>2
<1>2. \A m \in Nat : m \in S
  <2> HIDE DEF S
  <2> QED BY <1>1, StrongInduction
<1>3. P(n)
  BY <1>2
<1> QED BY <1>3

\* The complement of a in w bits is 2^w - 1 - a.
LEMMA BitAndComplement ==
  ASSUME NEW w \in Nat, NEW a \in 0 .. Pow2[w] - 1, NEW b \in 0 .. Pow2[w] - 1
  PROVE  /\ BitAnd[Pow2[w] - 1 - a][b] = b - BitAnd[a][b]
         /\ BitAnd[a][Pow2[w] - 1] = a
<1> DEFINE P(m) == \A x, y \in 0 .. Pow2[m] - 1 : BitAnd[Pow2[m] - 1 - x][y] = y - BitAnd[x][y]
           S == {m \in Nat : P(m)}
<1>1. ASSUME NEW m \in Nat, \A k \in 0 .. m - 1 : k \in S PROVE m \in S
  <2> SUFFICES ASSUME NEW x \in 0 .. Pow2[m] - 1, NEW y \in 0 .. Pow2[m] - 1
               PROVE  BitAnd[Pow2[m] - 1 - x][y] = y - BitAnd[x][y]
    OBVIOUS
  <2>1. CASE m = 0
    <3>1. Pow2[m] - 1 - x = 0 /\ x = 0 /\ y = 0
      <4>1. Pow2[m] - 1 = 0
        BY <2>1, Pow2Facts
      <4>2. x \in 0 .. 0 /\ y \in 0 .. 0
        BY <4>1, Zenon
      <4> QED BY <4>1, <4>2
    <3>2. BitAnd[0][0] = 0
      BY BitAndBounds
    <3> QED BY <3>1, <3>2
  <2>2. CASE m # 0
    <3> DEFINE p == Pow2[m - 1]
    <3>1. m - 1 \in 0 .. m - 1 /\ m - 1 \in Nat /\ (m - 1) + 1 = m
      BY <2>2
    <3>2. p \in Nat \ {0} /\ Pow2[(m - 1) + 1] = 2 * p
      BY <3>1, Pow2Facts
    <3>3. Pow2[m] = 2 * p
      BY <3>1, <3>2
    <3>4. P(m - 1)
      BY <1>1, <3>1
    <3>5. x \in Nat /\ y \in Nat
      BY <3>2, <3>3
    <3>6. PICK h \in Nat, i \in Bit : x = 2 * h + i
      BY <3>5, Halves
    <3>7. PICK k \in Nat, j \in Bit : y = 2 * k + j
      BY <3>5, Halves
    <3> HIDE DEF p
    <3>8. h \in 0 .. p - 1 /\ k \in 0 .. p - 1
      BY <3>2, <3>3, <3>6, <3>7 DEF Bit
    <3>9. Pow2[m] - 1 - x = 2 * (p - 1 - h) + (1 - i) /\ p - 1 - h \in Nat /\ 1 - i \in Bit
      BY <3>2, <3>3, <3>6, <3>8 DEF Bit
    <3>10. BitAnd[2 * (p - 1 - h) + (1 - i)][2 * k + j] = 2 * BitAnd[p - 1 - h][k] + (1 - i) * j
      BY <3>9, BitAndSplit
    <3>11. BitAnd[2 * h + i][2 * k + j] = 2 * BitAnd[h][k] + i * j /\ BitAnd[h][k] \in Nat
      BY BitAndSplit
    <3>12. BitAnd[p - 1 - h][k] = k - BitAnd[h][k]
      BY <3>4, <3>8 DEF p
    <3>13. (1 - i) * j = j - i * j /\ i * j \in Nat
      BY DEF Bit
    <3>14. 2 * (k - BitAnd[h][k]) + (j - i * j) = (2 * k + j) - (2 * BitAnd[h][k] + i * j)
      <4>1. \A u, v \in Nat : 2 * (k - u) + (j - v) = (2 * k + j) - (2 * u + v)
        BY DEF Bit
      <4> QED BY <3>11, <3>13, <4>1
    <3> QED BY <3>6, <3>7, <3>9, <3>10, <3>11, <3>12, <3>13, <3>14
  <2> QED BY <2>1, <2>2
<1>2. \A m \in Nat : m \in S
  <2> HIDE DEF S
  <2> QED BY <1>1, StrongInduction
<1>3. P(w)
  BY <1>2
<1>4. Pow2[w] \in Nat \ {0}
  BY Pow2Facts
<1>5. BitAnd[a][Pow2[w] - 1] = a
  <2> DEFINE M == Pow2[w] - 1
  <2>1. 0 \in 0 .. Pow2[w] - 1 /\ M - 0 = M /\ M \in Nat /\ a \in Nat
    BY <1>4
  <2>2. BitAnd[M - 0][a] = a - BitAnd[0][a]
    BY <1>3, <2>1
  <2>3. BitAnd[0][a] = 0 /\ BitAnd[M][a] = BitAnd[a][M]
    BY <2>1, BitAndBounds
  <2> HIDE DEF M
  <2>4. BitAnd[a][M] = a
    BY <2>1, <2>2, <2>3
  <2> QED BY <2>4 DEF M
<1> QED BY <1>3, <1>5

-----------------------------------------------------------------------------
(* Or and exclusive or, and the numbers of w bits.                         *)

BitOr(a, b)  == a + b - BitAnd[a][b]
BitXor(a, b) == a + b - 2 * BitAnd[a][b]
Words(w) == 0 .. Pow2[w] - 1

\* The values of w bits, from 0 to all ones.
LEMMA WordsAreNat ==
  ASSUME NEW w \in Nat
  PROVE  Words(w) \subseteq Nat /\ Pow2[w] - 1 \in Words(w) /\ Pow2[w] - 1 \in Nat /\ 0 \in Words(w)
BY Pow2Facts DEF Words

\* How & | and ^ treat complements: the rules of postorder(BAnd), (BOr) and (BXor).
LEMMA DeMorgan ==
  ASSUME NEW w \in Nat, NEW a \in Words(w), NEW b \in Words(w)
  PROVE  /\ BitAnd[Pow2[w] - 1 - a][Pow2[w] - 1 - b] = Pow2[w] - 1 - BitOr(a, b)
         /\ BitOr(Pow2[w] - 1 - a, Pow2[w] - 1 - b) = Pow2[w] - 1 - BitAnd[a][b]
         /\ BitXor(Pow2[w] - 1 - a, b) = Pow2[w] - 1 - BitXor(a, b)
         /\ BitXor(a, Pow2[w] - 1 - b) = Pow2[w] - 1 - BitXor(a, b)
<1> DEFINE M == Pow2[w] - 1
<1>1. M \in Nat /\ a \in Nat /\ b \in Nat /\ a \in 0 .. M /\ b \in 0 .. M /\ M - b \in 0 .. M /\ M - a \in 0 .. M
  BY WordsAreNat DEF Words
<1>2. \A x, y \in 0 .. M : BitAnd[M - x][y] = y - BitAnd[x][y]
  BY BitAndComplement
<1> HIDE DEF M
<1> DEFINE c == BitAnd[a][b]
<1>3. c \in Nat /\ BitAnd[b][a] = c /\ BitAnd[M - b][a] = BitAnd[a][M - b]
  BY <1>1, BitAndBounds
<1>4. BitAnd[M - a][b] = b - c /\ BitAnd[M - b][a] = a - c
  BY <1>1, <1>2, <1>3
<1>5. BitAnd[M - a][M - b] = (M - b) - BitAnd[a][M - b]
  BY <1>1, <1>2
<1> HIDE DEF c
<1>6. BitAnd[M - a][M - b] = M - b - a + c
  <2>1. BitAnd[a][M - b] = a - c
    BY <1>3, <1>4
  <2>2. BitAnd[M - a][M - b] = (M - b) - (a - c)
    BY <1>5, <2>1, Zenon
  <2> QED BY <1>1, <1>3, <2>2
<1>7. BitOr(a, b) = a + b - c /\ BitXor(a, b) = a + b - 2 * c
  BY DEF BitOr, BitXor, c
<1>8. BitAnd[M - a][M - b] = M - BitOr(a, b)
  BY <1>1, <1>3, <1>6, <1>7
<1>9. BitOr(M - a, M - b) = M - c
  <2>1. BitOr(M - a, M - b) = (M - a) + (M - b) - BitAnd[M - a][M - b]
    BY DEF BitOr
  <2> QED BY <1>1, <1>3, <1>6, <2>1
<1>10. BitXor(M - a, b) = M - BitXor(a, b)
  <2>1. BitXor(M - a, b) = (M - a) + b - 2 * BitAnd[M - a][b]
    BY DEF BitXor
  <2> QED BY <1>1, <1>3, <1>4, <1>7, <2>1
<1>11. BitXor(a, M - b) = M - BitXor(a, b)
  <2>1. BitXor(a, M - b) = a + (M - b) - 2 * BitAnd[a][M - b]
    BY DEF BitXor
  <2> QED BY <1>1, <1>3, <1>4, <1>7, <2>1
<1> QED BY <1>8, <1>9, <1>10, <1>11 DEF M, c

\* & | and ^ of two words are words.
LEMMA BitOpsInRange ==
  ASSUME NEW w \in Nat, NEW a \in Words(w), NEW b \in Words(w)
  PROVE  BitAnd[a][b] \in Words(w) /\ BitOr(a, b) \in Words(w) /\ BitXor(a, b) \in Words(w)
<1> DEFINE M == Pow2[w] - 1
           c == BitAnd[a][b]
<1>1. M \in Nat /\ a \in 0 .. M /\ b \in 0 .. M /\ Words(w) = 0 .. M
  BY WordsAreNat DEF Words
<1>2. c \in Nat /\ c <= a /\ c <= b
  BY <1>1, BitAndBounds
<1>3. BitOr(a, b) = a + b - c /\ BitXor(a, b) = a + b - 2 * c
  BY DEF BitOr, BitXor
<1>4. BitAnd[M - a][M - b] = M - BitOr(a, b)
  BY DeMorgan
<1>5. BitAnd[M - a][M - b] \in Nat
  <2> HIDE DEF M
  <2>1. M - a \in Nat /\ M - b \in Nat
    BY <1>1
  <2> QED BY <2>1, BitAndBounds
<1> HIDE DEF M, c
<1>6. a + b - c <= M
  BY <1>1, <1>2, <1>3, <1>4, <1>5
<1>7. c \in 0 .. M /\ BitOr(a, b) \in 0 .. M /\ BitXor(a, b) \in 0 .. M
  BY <1>1, <1>2, <1>3, <1>6
<1> QED BY <1>1, <1>7 DEF c

\* The | of three words does not depend on the order.
LEMMA BitOrAssociative ==
  ASSUME NEW w \in Nat, NEW a \in Words(w), NEW b \in Words(w), NEW c \in Words(w)
  PROVE  BitOr(BitOr(a, b), c) = BitOr(a, BitOr(b, c))
<1> DEFINE M == Pow2[w] - 1
<1>1. M \in Nat /\ a \in 0 .. M /\ b \in 0 .. M /\ c \in 0 .. M
  BY WordsAreNat DEF Words
<1>2. BitOr(a, b) \in Words(w) /\ BitOr(b, c) \in Words(w)
  BY BitOpsInRange
<1>3. BitOr(BitOr(a, b), c) \in Words(w) /\ BitOr(a, BitOr(b, c)) \in Words(w)
  BY <1>2, BitOpsInRange
<1>4. BitAnd[M - a][M - b] = M - BitOr(a, b) /\ BitAnd[M - b][M - c] = M - BitOr(b, c)
  BY DeMorgan
<1>5. BitAnd[M - BitOr(a, b)][M - c] = M - BitOr(BitOr(a, b), c)
  BY <1>2, DeMorgan
<1>6. BitAnd[M - a][M - BitOr(b, c)] = M - BitOr(a, BitOr(b, c))
  BY <1>2, DeMorgan
<1>7. BitAnd[BitAnd[M - a][M - b]][M - c] = BitAnd[M - a][BitAnd[M - b][M - c]]
  <2> HIDE DEF M
  <2>1. M - a \in Nat /\ M - b \in Nat /\ M - c \in Nat
    BY <1>1
  <2> QED BY <2>1, BitAndAssociative
<1>8. M - BitOr(BitOr(a, b), c) = M - BitOr(a, BitOr(b, c))
  BY <1>4, <1>5, <1>6, <1>7, Zenon
<1>9. BitOr(BitOr(a, b), c) \in Nat /\ BitOr(a, BitOr(b, c)) \in Nat
  BY <1>3, WordsAreNat
<1> HIDE DEF M
<1> QED BY <1>1, <1>8, <1>9

\* & distributes over ^.
LEMMA BitAndOfXor ==
  ASSUME NEW a \in Nat, NEW b \in Nat, NEW c \in Nat
  PROVE  /\ BitXor(a, b) \in Nat
         /\ BitAnd[BitXor(a, b)][c] = BitAnd[a][c] + BitAnd[b][c] - 2 * BitAnd[BitAnd[a][b]][c]
<1> DEFINE P(x, y, z) == BitAnd[BitXor(x, y)][z] = BitAnd[x][z] + BitAnd[y][z] - 2 * BitAnd[BitAnd[x][y]][z]
           S == {x \in Nat : \A y, z \in Nat : P(x, y, z)}
<1>1. \A x, y \in Nat : BitXor(x, y) \in Nat
  <2> TAKE x, y \in Nat
  <2> DEFINE d == BitAnd[x][y]
  <2>1. d \in Nat /\ d <= x /\ d <= y
    BY BitAndBounds
  <2>2. BitXor(x, y) = x + y - 2 * d
    BY DEF BitXor
  <2> HIDE DEF d
  <2> QED BY <2>1, <2>2
<1>2. ASSUME NEW x \in Nat, \A k \in 0 .. x - 1 : k \in S PROVE x \in S
  <2> SUFFICES ASSUME NEW y \in Nat, NEW z \in Nat PROVE P(x, y, z)
    OBVIOUS
  <2>1. CASE x = 0
    <3>1. BitAnd[0][y] = 0 /\ BitAnd[0][z] = 0 /\ BitAnd[y][z] \in Nat
      BY BitAndBounds
    <3>2. BitXor(0, y) = y
      BY <3>1 DEF BitXor
    <3> QED BY <2>1, <3>1, <3>2
  <2>2. CASE x # 0
    <3>1. PICK h \in Nat, i \in Bit : x = 2 * h + i /\ h < x
      BY Halves, <2>2
    <3>2. PICK k \in Nat, j \in Bit : y = 2 * k + j
      BY Halves
    <3>3. PICK l \in Nat, m \in Bit : z = 2 * l + m
      BY Halves
    <3> DEFINE o == i + j - 2 * (i * j)
               hk == BitAnd[h][k]
               hl == BitAnd[h][l]
               kl == BitAnd[k][l]
               hkl == BitAnd[BitAnd[h][k]][l]
    <3>4. o \in Bit /\ i * j \in Bit /\ i * m \in Nat /\ j * m \in Nat /\ (i * j) * m \in Nat
          /\ o * m = i * m + j * m - 2 * ((i * j) * m)
      BY DEF Bit
    <3>5. BitAnd[x][y] = 2 * hk + i * j /\ hk \in Nat
      BY BitAndSplit, <3>1, <3>2
    <3>6. BitAnd[x][z] = 2 * hl + i * m /\ hl \in Nat
      BY BitAndSplit, <3>1, <3>3
    <3>7. BitAnd[y][z] = 2 * kl + j * m /\ kl \in Nat
      BY BitAndSplit, <3>2, <3>3
    <3>8. BitAnd[2 * hk + i * j][2 * l + m] = 2 * hkl + (i * j) * m /\ hkl \in Nat
      <4> HIDE DEF hk
      <4>1. hk \in Nat /\ i * j \in Bit
        BY <3>4, <3>5
      <4>2. BitAnd[2 * hk + i * j][2 * l + m] = 2 * BitAnd[hk][l] + (i * j) * m /\ BitAnd[hk][l] \in Nat
        BY BitAndSplit, <4>1
      <4> QED BY <4>2 DEF hk
    <3>9. BitXor(x, y) = 2 * BitXor(h, k) + o /\ BitXor(h, k) \in Nat
      <4>1. BitXor(x, y) = x + y - 2 * BitAnd[x][y] /\ BitXor(h, k) = h + k - 2 * hk
        BY DEF BitXor
      <4>2. BitXor(h, k) \in Nat
        BY <1>1
      <4>3. i \in Nat /\ j \in Nat
        BY DEF Bit
      <4> DEFINE ij == i * j
      <4>4. ij \in Nat
        BY <3>4 DEF Bit
      <4>5. BitAnd[x][y] = 2 * hk + ij /\ o = i + j - 2 * ij
        BY <3>5
      <4> HIDE DEF hk, o, ij
      <4> QED BY <3>1, <3>2, <3>5, <4>1, <4>2, <4>3, <4>4, <4>5
    <3>10. BitAnd[2 * BitXor(h, k) + o][2 * l + m] = 2 * BitAnd[BitXor(h, k)][l] + o * m
      BY BitAndSplit, <3>4, <3>9
    <3>11. BitAnd[BitXor(h, k)][l] = hl + kl - 2 * hkl
      <4>1. h \in S
        BY <1>2, <3>1
      <4> QED BY <4>1
    <3>12. BitAnd[BitXor(x, y)][z] = 2 * (hl + kl - 2 * hkl) + o * m
      BY <3>3, <3>9, <3>10, <3>11, Zenon
    <3>13. BitAnd[BitAnd[x][y]][z] = 2 * hkl + (i * j) * m
      BY <3>3, <3>5, <3>8, Zenon
    <3> DEFINE im == i * m
               jm == j * m
               ijm == (i * j) * m
               om == o * m
    <3>14. om = im + jm - 2 * ijm /\ im \in Nat /\ jm \in Nat /\ ijm \in Nat
      BY <3>4
    <3>15. /\ BitAnd[BitXor(x, y)][z] = 2 * (hl + kl - 2 * hkl) + om
           /\ BitAnd[BitAnd[x][y]][z] = 2 * hkl + ijm
           /\ BitAnd[x][z] = 2 * hl + im /\ BitAnd[y][z] = 2 * kl + jm
      BY <3>6, <3>7, <3>12, <3>13, Zenon
    <3> HIDE DEF im, jm, ijm, om, hl, kl, hkl, hk, o
    <3> QED BY <3>6, <3>7, <3>8, <3>14, <3>15
  <2> QED BY <2>1, <2>2
<1>3. \A x \in Nat : x \in S
  <2> HIDE DEF S
  <2> QED BY <1>2, StrongInduction
<1>4. P(a, b, c)
  BY <1>3
<1> QED BY <1>1, <1>4

\* The ^ of three numbers does not depend on the order.
LEMMA BitXorAssociative ==
  ASSUME NEW a \in Nat, NEW b \in Nat, NEW c \in Nat
  PROVE  BitXor(BitXor(a, b), c) = BitXor(a, BitXor(b, c))
<1> DEFINE ab == BitAnd[a][b]
           ac == BitAnd[a][c]
           bc == BitAnd[b][c]
           abc == BitAnd[BitAnd[a][b]][c]
           x == BitXor(a, b)
           y == BitXor(b, c)
<1>1. ab \in Nat /\ ac \in Nat /\ bc \in Nat /\ BitAnd[b][a] = ab /\ BitAnd[c][a] = ac
  BY BitAndBounds
<1>2. abc \in Nat /\ BitAnd[BitAnd[b][c]][a] = abc
  <2>1. BitAnd[bc][a] = BitAnd[a][bc] /\ BitAnd[ab][c] \in Nat
    BY <1>1, BitAndBounds
  <2>2. BitAnd[ab][c] = BitAnd[a][bc]
    BY BitAndAssociative
  <2> QED BY <2>1, <2>2
<1>3. x \in Nat /\ BitAnd[x][c] = ac + bc - 2 * abc
  BY BitAndOfXor
<1>4. y \in Nat /\ BitAnd[y][a] = ab + ac - 2 * abc
  <2>1. y \in Nat /\ BitAnd[y][a] = BitAnd[b][a] + BitAnd[c][a] - 2 * BitAnd[BitAnd[b][c]][a]
    BY BitAndOfXor
  <2> QED BY <1>1, <1>2, <2>1
<1>5. BitAnd[a][y] = BitAnd[y][a]
  BY <1>4, BitAndBounds
<1>6. x = a + b - 2 * ab /\ y = b + c - 2 * bc
  BY DEF BitXor
<1>7. BitXor(x, c) = x + c - 2 * BitAnd[x][c] /\ BitXor(a, y) = a + y - 2 * BitAnd[a][y]
  BY DEF BitXor
<1> HIDE DEF ab, ac, bc, abc, x, y
<1>8. BitXor(x, c) = BitXor(a, y)
  BY <1>1, <1>2, <1>3, <1>4, <1>5, <1>6, <1>7
<1> QED BY <1>8 DEF x, y

\* ^ is symmetric, cancels equal numbers and keeps the other one of 0.
LEMMA BitXorSymmetric ==
  ASSUME NEW a \in Nat, NEW b \in Nat
  PROVE  BitXor(a, b) = BitXor(b, a) /\ BitXor(a, a) = 0 /\ BitXor(a, 0) = a /\ BitXor(0, a) = a
<1>1. BitAnd[a][b] = BitAnd[b][a] /\ BitAnd[a][a] = a /\ BitAnd[a][b] \in Nat /\ BitAnd[a][0] = 0 /\ BitAnd[0][a] = 0
  BY BitAndBounds
<1> QED BY <1>1 DEF BitXor

\* The lowest n bits.
LEMMA BitAndMask ==
  ASSUME NEW a \in Nat, NEW n \in Nat
  PROVE  BitAnd[a][Pow2[n] - 1] = a % Pow2[n]
<1> DEFINE p == Pow2[n]
           q == a \div p
           r == a % p
<1>1. p \in Nat \ {0} /\ p - 1 \in 0 .. p - 1
  BY Pow2Facts
<1>2. r \in 0 .. p - 1 /\ a = p * q + r /\ q \in Nat
  <2> HIDE DEF p
  <2>1. r \in 0 .. p - 1 /\ a = p * q + r
    BY <1>1, DivMod
  <2>2. q \in Nat
    BY <1>1, DivNat
  <2> QED BY <2>1, <2>2
<1> HIDE DEF q, r
<1>3. BitAnd[p * q + r][p * 0 + (p - 1)] = p * BitAnd[q][0] + BitAnd[r][p - 1]
  <2>1. \A x, y \in Nat : \A i, j \in 0 .. p - 1 :
          BitAnd[p * x + i][p * y + j] = p * BitAnd[x][y] + BitAnd[i][j]
    BY BitAndDigits
  <2> HIDE DEF p
  <2>2. 0 \in Nat /\ q \in Nat /\ r \in 0 .. p - 1 /\ p - 1 \in 0 .. p - 1
    BY <1>1, <1>2
  <2>3. \A i, j \in 0 .. p - 1 : BitAnd[p * q + i][p * 0 + j] = p * BitAnd[q][0] + BitAnd[i][j]
    BY <2>1, <2>2, Zenon
  <2> QED BY <2>2, <2>3, Zenon
<1>4. BitAnd[q][0] = 0
  BY <1>2, BitAndBounds
<1>5. BitAnd[r][p - 1] = r
  BY <1>2, BitAndComplement
<1> HIDE DEF p
<1>6. p * 0 + (p - 1) = p - 1 /\ p * 0 + r = r
  BY <1>1, <1>2
<1>7. BitAnd[a][p - 1] = r
  BY <1>2, <1>3, <1>4, <1>5, <1>6, Zenon
<1> QED BY <1>7 DEF p, r

\* Bits that do not meet.
LEMMA BitAndDisjoint ==
  ASSUME NEW n \in Nat, NEW a \in Nat, NEW b \in Words(n)
  PROVE  BitAnd[Pow2[n] * a][b] = 0 /\ BitOr(Pow2[n] * a, b) = Pow2[n] * a + b
<1> DEFINE p == Pow2[n]
<1>1. p \in Nat \ {0} /\ 0 \in 0 .. p - 1 /\ b \in 0 .. p - 1
  BY Pow2Facts DEF Words
<1>2. BitAnd[p * a + 0][p * 0 + b] = p * BitAnd[a][0] + BitAnd[0][b]
  BY <1>1, BitAndDigits
<1>3. BitAnd[a][0] = 0 /\ BitAnd[0][b] = 0
  BY <1>1, BitAndBounds
<1> HIDE DEF p
<1>4. p * a + 0 = p * a /\ p * 0 + b = b /\ p * 0 + 0 = 0 /\ p * a \in Nat
  BY <1>1
<1>5. BitAnd[p * a][b] = 0
  BY <1>2, <1>3, <1>4, Zenon
<1>6. BitOr(p * a, b) = p * a + b
  BY <1>1, <1>4, <1>5 DEF BitOr
<1> QED BY <1>5, <1>6 DEF p

-----------------------------------------------------------------------------
(* Expressions.  var gives the types of the variables; casts says which    *)
(* casts there are besides those from bit<w> or int to bit<w>: "fromBool"  *)
(* from bool to bit<1>, "toBool" from bit<1> to bool.  An int is not       *)
(* negative: a constant or a sum, for the amount of a shift.               *)

Ops == Arithmetic \cup Relations \cup
       {"Path", "Constant", "BoolLiteral", "Cmpl", "Neg", "LNot", "LAnd", "LOr", "Shl", "Shr", "Mux", "Cast",
        "Concat", "Slice"}

ValuesOf(type) == IF type = Bool THEN Bit ELSE IF type = InfInt THEN Nat ELSE Words(type)

Typed(e, var, casts) ==
  LET l == e.args[1]
      r == e.args[2]
      x == e.args[3]
  IN \/ e.op = "Path" /\ Len(e.args) = 0 /\ e.v \in DOMAIN var /\ e.type = var[e.v]
     \/ e.op = "Constant" /\ Len(e.args) = 0 /\ e.type \in Nat \cup {InfInt} /\ e.v \in ValuesOf(e.type)
     \/ e.op = "BoolLiteral" /\ Len(e.args) = 0 /\ e.type = Bool /\ e.v \in Bit
     \/ e.op \in {"Cmpl", "Neg"} /\ Len(e.args) = 1 /\ e.type \in Nat /\ l.type = e.type
     \/ e.op = "LNot" /\ Len(e.args) = 1 /\ e.type = Bool /\ l.type = Bool
     \/ /\ e.op \in Arithmetic /\ Len(e.args) = 2 /\ l.type = e.type /\ r.type = e.type
        /\ e.type \in Nat \/ (e.op = "Add" /\ e.type = InfInt)
     \/ /\ e.op \in Relations /\ Len(e.args) = 2 /\ e.type = Bool /\ l.type = r.type
        /\ l.type \in Nat \/ (e.op \in {"Equ", "Neq"} /\ l.type = Bool)
     \/ e.op \in {"LAnd", "LOr"} /\ Len(e.args) = 2 /\ e.type = Bool /\ l.type = Bool /\ r.type = Bool
     \/ /\ e.op \in {"Shl", "Shr"} /\ Len(e.args) = 2 /\ e.type \in Nat /\ l.type = e.type
        /\ r.type \in Nat \cup {InfInt}
     \/ /\ e.op = "Mux" /\ Len(e.args) = 3 /\ e.type \in Nat \cup {Bool}
        /\ l.type = Bool /\ r.type = e.type /\ x.type = e.type
     \/ /\ e.op = "Cast" /\ Len(e.args) = 1
        /\ \/ e.type \in Nat /\ l.type \in Nat \cup {InfInt}
           \/ e.type = Bool /\ l.type = Bool
           \/ "fromBool" \in casts /\ e.type = 1 /\ l.type = Bool
           \/ "toBool" \in casts /\ e.type = Bool /\ l.type = 1
     \/ /\ e.op = "Concat" /\ Len(e.args) = 2
        /\ l.type \in Nat /\ r.type \in Nat /\ e.type = l.type + r.type
     \/ /\ e.op = "Slice" /\ Len(e.args) = 3 /\ l.type \in Nat
        /\ r.op = "Constant" /\ r.type = InfInt /\ x.op = "Constant" /\ x.type = InfInt
        /\ x.v <= r.v /\ r.v < l.type /\ e.type = r.v - x.v + 1

\* The well-typed nodes over the operands in S.
Trees(S, var, casts) ==
  {e \in [op : Ops, type : Int, args : Seq(S), v : Int] : Typed(e, var, casts)}

\* m is a meaning of expressions: the set E of them all, their heights H and, where
\* variable n has the value env[n] of its type, their values V.
Meaning(m) ==
  /\ m.E = Trees(m.E, m.var, m.casts)
  /\ m.H \in [m.E -> Nat]
  /\ \A e \in m.E : \A i \in 1 .. Len(e.args) : m.H[e.args[i]] < m.H[e]
  /\ \A n \in DOMAIN m.var : m.var[n] \in Nat \cup {Bool} /\ m.env[n] \in ValuesOf(m.var[n])
  /\ m.V \in [m.E -> Int]
  /\ \A e \in m.E :
       m.V[e] = NodeValue(e, m.V[e.args[1]], m.V[e.args[2]], m.V[e.args[3]], m.env)

\* x may stand for e.
Same(m, x, e) == x \in m.E /\ x.type = e.type /\ m.V[x] = m.V[e]

\* What an expression is made of: the fields of its node, and operands that are expressions.
LEMMA Shape ==
  ASSUME NEW m, Meaning(m), NEW e \in m.E
  PROVE  /\ e = [op |-> e.op, type |-> e.type, args |-> e.args, v |-> e.v]
         /\ e.op \in Ops /\ e.type \in Int /\ e.v \in Int /\ e.args \in Seq(m.E)
         /\ Len(e.args) \in Nat /\ \A i \in 1 .. Len(e.args) : e.args[i] \in m.E
         /\ Typed(e, m.var, m.casts)
         /\ m.V[e] \in Int
<1> DEFINE S == m.E
<1>1. e \in [op : Ops, type : Int, args : Seq(S), v : Int] /\ Typed(e, m.var, m.casts)
  BY DEF Meaning, Trees
<1>2. m.V[e] \in Int
  BY DEF Meaning
<1> HIDE DEF S
<1>3. e.args \in Seq(S) /\ e = [op |-> e.op, type |-> e.type, args |-> e.args, v |-> e.v]
  BY <1>1
<1>4. Len(e.args) \in Nat /\ \A i \in 1 .. Len(e.args) : e.args[i] \in S
  BY <1>3
<1> QED BY <1>1, <1>2, <1>3, <1>4 DEF S

\* A well-typed node over expressions is an expression, with the value that its operands give it.
LEMMA Built ==
  ASSUME NEW m, Meaning(m), NEW e,
         e.op \in Ops, e.type \in Int, e.v \in Int, e.args \in Seq(m.E),
         e = [op |-> e.op, type |-> e.type, args |-> e.args, v |-> e.v],
         Typed(e, m.var, m.casts)
  PROVE  /\ e \in m.E
         /\ m.V[e] = NodeValue(e, m.V[e.args[1]], m.V[e.args[2]], m.V[e.args[3]], m.env)
<1> DEFINE S == m.E
<1>1. e \in [op : Ops, type : Int, args : Seq(S), v : Int]
  <2> HIDE DEF S
  <2>1. [op |-> e.op, type |-> e.type, args |-> e.args, v |-> e.v] \in [op : Ops, type : Int, args : Seq(S), v : Int]
    BY DEF S
  <2> QED BY <2>1
<1>2. e \in Trees(m.E, m.var, m.casts)
  BY <1>1 DEF Trees
<1> QED BY <1>2 DEF Meaning

\* The type of an expression is bit<w>, bool or int.
LEMMA Types ==
  ASSUME NEW m, Meaning(m), NEW e \in m.E
  PROVE  e.type \in Nat \cup {Bool, InfInt}
<1>1. Typed(e, m.var, m.casts)
  BY Shape
<1>2. \A n \in DOMAIN m.var : m.var[n] \in Nat \cup {Bool}
  BY DEF Meaning
<1>3. \A x \in m.E : x.v \in Int
  BY Shape
<1>4. CASE e.op = "Slice"
  <2>1. Len(e.args) = 3 /\ e.type = e.args[2].v - e.args[3].v + 1 /\ e.args[3].v <= e.args[2].v
    BY <1>1, <1>4 DEF Typed, Arithmetic, Relations
  <2>2. e.args[2] \in m.E /\ e.args[3] \in m.E
    <3>1. 2 \in 1 .. Len(e.args) /\ 3 \in 1 .. Len(e.args)
      BY <2>1
    <3> QED BY <3>1, Shape
  <2> QED BY <2>1, <2>2, <1>3
<1>5. CASE e.op # "Slice"
  BY <1>1, <1>2, <1>5 DEF Typed, Arithmetic, Relations
<1> QED BY <1>4, <1>5


-----------------------------------------------------------------------------
(* The operands and the value of each kind of node.                        *)

\* The operands that a node has are expressions.
LEMMA Operands ==
  ASSUME NEW m, Meaning(m), NEW e \in m.E
  PROVE  /\ Len(e.args) >= 1 => e.args[1] \in m.E
         /\ Len(e.args) >= 2 => e.args[2] \in m.E
         /\ Len(e.args) >= 3 => e.args[3] \in m.E
<1>1. Len(e.args) \in Nat
  BY Shape
<1>2. /\ Len(e.args) >= 1 => 1 \in 1 .. Len(e.args)
      /\ Len(e.args) >= 2 => 2 \in 1 .. Len(e.args)
      /\ Len(e.args) >= 3 => 3 \in 1 .. Len(e.args)
  BY <1>1
<1> QED BY <1>2, Shape

\* The value of a node comes from those of its operands.
LEMMA ValueOf ==
  ASSUME NEW m, Meaning(m), NEW e \in m.E
  PROVE  m.V[e] = NodeValue(e, m.V[e.args[1]], m.V[e.args[2]], m.V[e.args[3]], m.env)
BY DEF Meaning

\* The value of a constant is the number it holds, which its type admits.
LEMMA Leaf ==
  ASSUME NEW m, Meaning(m), NEW e \in m.E, IsConstant(e)
  PROVE  m.V[e] = e.v /\ e.v \in ValuesOf(e.type)
<1>1. m.V[e] = e.v
  BY ValueOf DEF NodeValue, IsConstant
<1>2. Typed(e, m.var, m.casts)
  BY Shape
<1> QED BY <1>1, <1>2 DEF Typed, IsConstant, Arithmetic, Relations, ValuesOf, Bool, InfInt

\* A complement or a negation: one operand of the same type.
LEMMA UnaryNode ==
  ASSUME NEW m, Meaning(m), NEW e \in m.E, e.op \in {"Cmpl", "Neg"}
  PROVE  /\ e.args[1] \in m.E /\ e.type \in Nat /\ e.args[1].type = e.type
         /\ m.V[e] = Wrap(e.type, IF e.op = "Cmpl" THEN -m.V[e.args[1]] - 1 ELSE -m.V[e.args[1]])
<1>1. Len(e.args) = 1 /\ e.type \in Nat /\ e.args[1].type = e.type
  BY Shape DEF Typed, Arithmetic, Relations
<1> QED BY <1>1, Operands, ValueOf DEF NodeValue

\* A Boolean negation.
LEMMA NotNode ==
  ASSUME NEW m, Meaning(m), NEW e \in m.E, e.op = "LNot"
  PROVE  e.args[1] \in m.E /\ e.type = Bool /\ e.args[1].type = Bool /\ m.V[e] = 1 - m.V[e.args[1]]
<1>1. Len(e.args) = 1 /\ e.type = Bool /\ e.args[1].type = Bool
  BY Shape DEF Typed, Arithmetic, Relations
<1> QED BY <1>1, Operands, ValueOf DEF NodeValue

\* An operation on two operands: its value is that of the operation, reduced to its type.
LEMMA BinaryNode ==
  ASSUME NEW m, Meaning(m), NEW e \in m.E, e.op \in Arithmetic \cup Relations \cup {"LAnd", "LOr", "Shl", "Shr"}
  PROVE  /\ Len(e.args) = 2 /\ e.args[1] \in m.E /\ e.args[2] \in m.E
         /\ m.V[e] = Wrap(e.type, Calculated(e.op, m.V[e.args[1]], m.V[e.args[2]]))
<1>1. Len(e.args) = 2
  BY Shape DEF Typed, Arithmetic, Relations
<1> QED BY <1>1, Operands, ValueOf DEF NodeValue, Arithmetic, Relations

\* The types of an arithmetic operation are all the same.
LEMMA ArithmeticNode ==
  ASSUME NEW m, Meaning(m), NEW e \in m.E, e.op \in Arithmetic
  PROVE  /\ e.args[1].type = e.type /\ e.args[2].type = e.type
         /\ e.type \in Nat \/ (e.op = "Add" /\ e.type = InfInt)
BY Shape DEF Typed, Arithmetic, Relations

\* A comparison is of two operands of one type, and a bool.
LEMMA RelationNode ==
  ASSUME NEW m, Meaning(m), NEW e \in m.E, e.op \in Relations
  PROVE  /\ e.type = Bool /\ e.args[1].type = e.args[2].type
         /\ e.args[1].type \in Nat \/ (e.op \in {"Equ", "Neq"} /\ e.args[1].type = Bool)
BY Shape DEF Typed, Arithmetic, Relations

\* A conjunction or disjunction is of bools.
LEMMA LogicNode ==
  ASSUME NEW m, Meaning(m), NEW e \in m.E, e.op \in {"LAnd", "LOr"}
  PROVE  e.type = Bool /\ e.args[1].type = Bool /\ e.args[2].type = Bool
BY Shape DEF Typed, Arithmetic, Relations

\* A shift has the type of what is shifted, by an amount of any type.
LEMMA ShiftNode ==
  ASSUME NEW m, Meaning(m), NEW e \in m.E, e.op \in {"Shl", "Shr"}
  PROVE  e.type \in Nat /\ e.args[1].type = e.type /\ e.args[2].type \in Nat \cup {InfInt}
BY Shape DEF Typed, Arithmetic, Relations

\* A conditional expression: a bool and two operands of its type.
LEMMA MuxNode ==
  ASSUME NEW m, Meaning(m), NEW e \in m.E, e.op = "Mux"
  PROVE  /\ Len(e.args) = 3 /\ e.args[1] \in m.E /\ e.args[2] \in m.E /\ e.args[3] \in m.E
         /\ e.type \in Nat \cup {Bool} /\ e.args[1].type = Bool
         /\ e.args[2].type = e.type /\ e.args[3].type = e.type
         /\ m.V[e] = IF m.V[e.args[1]] = 1 THEN m.V[e.args[2]] ELSE m.V[e.args[3]]
<1>1. /\ Len(e.args) = 3 /\ e.type \in Nat \cup {Bool} /\ e.args[1].type = Bool
      /\ e.args[2].type = e.type /\ e.args[3].type = e.type
  BY Shape DEF Typed, Arithmetic, Relations
<1> QED BY <1>1, Operands, ValueOf DEF NodeValue

\* The casts that there are.
LEMMA CastNode ==
  ASSUME NEW m, Meaning(m), NEW e \in m.E, e.op = "Cast"
  PROVE  /\ e.args[1] \in m.E
         /\ \/ e.type \in Nat /\ e.args[1].type \in Nat \cup {InfInt}
            \/ e.type = Bool /\ e.args[1].type = Bool
            \/ "fromBool" \in m.casts /\ e.type = 1 /\ e.args[1].type = Bool
            \/ "toBool" \in m.casts /\ e.type = Bool /\ e.args[1].type = 1
         /\ m.V[e] = IF e.type = Bool THEN Holds(m.V[e.args[1]] # 0) ELSE Wrap(e.type, m.V[e.args[1]])
<1>1. /\ Len(e.args) = 1
      /\ \/ e.type \in Nat /\ e.args[1].type \in Nat \cup {InfInt}
         \/ e.type = Bool /\ e.args[1].type = Bool
         \/ "fromBool" \in m.casts /\ e.type = 1 /\ e.args[1].type = Bool
         \/ "toBool" \in m.casts /\ e.type = Bool /\ e.args[1].type = 1
  BY Shape DEF Typed, Arithmetic, Relations
<1> QED BY <1>1, Operands, ValueOf DEF NodeValue

\* A concatenation is as wide as its operands together.
LEMMA ConcatNode ==
  ASSUME NEW m, Meaning(m), NEW e \in m.E, e.op = "Concat"
  PROVE  /\ e.args[1] \in m.E /\ e.args[2] \in m.E
         /\ e.args[1].type \in Nat /\ e.args[2].type \in Nat /\ e.type = e.args[1].type + e.args[2].type
         /\ m.V[e] = m.V[e.args[1]] * Pow2[e.args[2].type] + m.V[e.args[2]]
<1>1. /\ Len(e.args) = 2
      /\ e.args[1].type \in Nat /\ e.args[2].type \in Nat /\ e.type = e.args[1].type + e.args[2].type
  BY Shape DEF Typed, Arithmetic, Relations
<1> QED BY <1>1, Operands, ValueOf DEF NodeValue

\* A slice has constant bounds within its operand.
LEMMA SliceNode ==
  ASSUME NEW m, Meaning(m), NEW e \in m.E, e.op = "Slice"
  PROVE  /\ e.args[1] \in m.E /\ e.args[2] \in m.E /\ e.args[3] \in m.E
         /\ e.args[1].type \in Nat /\ e.args[2].v \in Nat /\ e.args[3].v \in Nat
         /\ e.args[3].v <= e.args[2].v /\ e.args[2].v < e.args[1].type
         /\ e.args[2].op = "Constant" /\ e.args[2].type = InfInt
         /\ e.args[3].op = "Constant" /\ e.args[3].type = InfInt
         /\ e.type = e.args[2].v - e.args[3].v + 1
         /\ m.V[e] = Wrap(e.type, m.V[e.args[1]] \div Pow2[e.args[3].v])
<1>1. /\ Len(e.args) = 3 /\ e.args[1].type \in Nat
      /\ e.args[2].op = "Constant" /\ e.args[2].type = InfInt
      /\ e.args[3].op = "Constant" /\ e.args[3].type = InfInt
      /\ e.args[3].v <= e.args[2].v /\ e.args[2].v < e.args[1].type
      /\ e.type = e.args[2].v - e.args[3].v + 1
  BY Shape DEF Typed, Arithmetic, Relations
<1>2. e.args[1] \in m.E /\ e.args[2] \in m.E /\ e.args[3] \in m.E
  BY <1>1, Operands
<1>3. /\ m.V[e.args[2]] = e.args[2].v /\ e.args[2].v \in Nat
      /\ m.V[e.args[3]] = e.args[3].v /\ e.args[3].v \in Nat
  BY <1>1, <1>2, Leaf DEF IsConstant, ValuesOf, Bool, InfInt
<1>4. m.V[e] = Wrap(m.V[e.args[2]] - m.V[e.args[3]] + 1, m.V[e.args[1]] \div Pow2[m.V[e.args[3]]])
  BY ValueOf DEF NodeValue
<1> QED BY <1>1, <1>2, <1>3, <1>4

-----------------------------------------------------------------------------
(* Values have the type of their expression.                               *)

\* Wrap gives a value of the type, and keeps one that is (Constant::handleOverflow).
LEMMA WrapInRange ==
  ASSUME NEW w \in Nat, NEW n \in Int
  PROVE  /\ Wrap(w, n) \in Words(w) /\ Wrap(w, n) = n % Pow2[w] /\ Words(w) \subseteq Nat
         /\ n \in Words(w) => Wrap(w, n) = n
<1> DEFINE p == Pow2[w]
<1>1. p \in Nat \ {0}
  BY Pow2Facts
<1>2. Wrap(w, n) = n % p /\ Words(w) = 0 .. p - 1
  BY DEF Wrap, Words
<1> HIDE DEF p
<1>3. n % p \in 0 .. p - 1
  BY <1>1, DivMod
<1>4. n \in 0 .. p - 1 => n % p = n
  BY <1>1, Small
<1>5. 0 .. p - 1 \subseteq Nat
  BY <1>1
<1> QED BY <1>2, <1>3, <1>4, <1>5 DEF p

\* The values of each type are natural numbers.
LEMMA ValuesOfTypes ==
  /\ \A t \in Nat : ValuesOf(t) = Words(t) /\ Words(t) \subseteq Nat
  /\ ValuesOf(Bool) = Bit /\ ValuesOf(InfInt) = Nat /\ Bit \subseteq Nat
  /\ \A t \in Nat \cup {Bool, InfInt} : ValuesOf(t) \subseteq Nat
<1>1. \A t \in Nat : Words(t) \subseteq Nat
  BY WordsAreNat
<1> QED BY <1>1 DEF ValuesOf, Bool, InfInt, Bit

\* A Boolean as a number.
LEMMA HoldsInRange ==
  ASSUME NEW p \in BOOLEAN
  PROVE  Holds(p) \in Bit /\ (Holds(p) = 1 <=> p) /\ (Holds(p) = 0 <=> ~p)
BY DEF Holds, Bit

\* What a node is made of has values of its type.
InRange(m, e) == m.V[e] \in ValuesOf(e.type)

\* The operations on natural numbers: which of them give numbers, natural numbers or bits.
LEMMA CalculatedInRange ==
  ASSUME NEW op, NEW a \in Nat, NEW b \in Nat
  PROVE  /\ op \in Arithmetic \cup {"Shl", "Shr"} => Calculated(op, a, b) \in Int
         /\ op \in Relations \cup {"LAnd", "LOr"} => Calculated(op, a, b) \in Bit
         /\ op \in {"Add", "Mul", "Shl", "Shr", "BAnd", "Div"} => Calculated(op, a, b) \in Nat
<1>1. CASE op \in {"Add", "Sub"}
  BY <1>1 DEF Calculated, Arithmetic, Relations
<1>2. CASE op = "Mul"
  <2>1. Calculated(op, a, b) = a * b
    BY <1>2 DEF Calculated
  <2> QED BY <1>2, <2>1 DEF Relations
<1>3. CASE op = "Div"
  <2>1. b # 0 => a \div b \in Nat
    BY DivNat
  <2> QED BY <1>3, <2>1 DEF Calculated, Relations
<1>4. CASE op = "Mod"
  <2>1. b # 0 => a % b \in 0 .. b - 1
    BY DivMod
  <2> QED BY <1>4, <2>1 DEF Calculated, Relations
<1>5. CASE op \in {"BAnd", "BOr", "BXor"}
  <2>1. BitAnd[a][b] \in Nat
    BY BitAndBounds
  <2> QED BY <1>5, <2>1 DEF Calculated, Relations
<1>6. CASE op \in {"Shl", "Shr"}
  <2>1. Pow2[b] \in Nat \ {0}
    BY Pow2Facts
  <2> DEFINE p == Pow2[b]
  <2>2. Calculated(op, a, b) = IF op = "Shl" THEN a * p ELSE a \div p
    BY <1>6 DEF Calculated
  <2> HIDE DEF p
  <2>3. a * p \in Nat /\ a \div p \in Nat
    BY <2>1, DivNat DEF p
  <2> QED BY <1>6, <2>2, <2>3 DEF Relations
<1>7. CASE op \in Relations \cup {"LAnd", "LOr"}
  <2>1. Calculated(op, a, b) \in {0, 1}
    BY <1>7 DEF Calculated, Holds, Relations
  <2>2. op \notin Arithmetic \cup {"Add", "Mul", "Shl", "Shr", "BAnd", "Div"}
    BY <1>7 DEF Arithmetic, Relations
  <2> QED BY <2>1, <2>2 DEF Bit
<1> QED BY <1>1, <1>2, <1>3, <1>4, <1>5, <1>6, <1>7 DEF Arithmetic, Relations

\* The bits of two words after each other are a word of their widths together.
LEMMA ConcatInRange ==
  ASSUME NEW s \in Nat, NEW t \in Nat, NEW a \in Words(s), NEW b \in Words(t)
  PROVE  a * Pow2[t] + b \in Words(s + t)
<1> DEFINE p == Pow2[s]
           q == Pow2[t]
<1>1. p \in Nat \ {0} /\ q \in Nat \ {0} /\ Pow2[s + t] = p * q
  BY Pow2Facts, Pow2Sum
<1>2. a \in 0 .. p - 1 /\ b \in 0 .. q - 1
  BY DEF Words
<1> HIDE DEF p, q
<1>3. a * q + b \in 0 .. p * q - 1
  <2>1. a * q >= 0 /\ a * q \in Int /\ p * q \in Int
    BY <1>1, <1>2
  <2>2. (p - 1 - a) * q >= 0
    <3>1. p - 1 - a \in Nat
      BY <1>1, <1>2
    <3> QED BY <3>1, <1>1
  <2>3. (p - 1 - a) * q = p * q - q - a * q
    BY <1>1, <1>2
  <2> QED BY <1>1, <1>2, <2>1, <2>2, <2>3
<1> QED BY <1>1, <1>3 DEF p, q, Words

\* A node has a value of its type if its operands have.
LEMMA NodeInRange ==
  ASSUME NEW e, NEW var, NEW casts, NEW env, NEW a, NEW b, NEW c,
         Typed(e, var, casts), e.type \in Nat \cup {Bool, InfInt},
         \A n \in DOMAIN var : env[n] \in ValuesOf(var[n]),
         \A i \in 1 .. 3 : Len(e.args) >= i => e.args[i].type \in Nat \cup {Bool, InfInt},
         Len(e.args) >= 1 => a \in ValuesOf(e.args[1].type),
         Len(e.args) >= 2 => b \in ValuesOf(e.args[2].type),
         Len(e.args) >= 3 => c \in ValuesOf(e.args[3].type),
         e.op = "Slice" => b = e.args[2].v /\ c = e.args[3].v
  PROVE  NodeValue(e, a, b, c, env) \in ValuesOf(e.type)
<1> DEFINE l == e.args[1]
           r == e.args[2]
           x == e.args[3]
           n == Len(e.args)
           w == e.type
           v == NodeValue(e, a, b, c, env)
<1>1. /\ n >= 1 => l.type \in Nat \cup {Bool, InfInt} /\ a \in ValuesOf(l.type)
      /\ n >= 2 => r.type \in Nat \cup {Bool, InfInt} /\ b \in ValuesOf(r.type)
      /\ n >= 3 => x.type \in Nat \cup {Bool, InfInt} /\ c \in ValuesOf(x.type)
  OBVIOUS
<1>2. /\ n >= 1 => a \in Nat
      /\ n >= 2 => b \in Nat
      /\ n >= 3 => c \in Nat
  BY <1>1, ValuesOfTypes
<1> HIDE DEF v
<1>3. CASE e.op = "Path"
  BY <1>3 DEF v, NodeValue, Typed, Arithmetic, Relations
<1>4. CASE e.op \in {"Constant", "BoolLiteral"}
  <2>1. w = Bool \/ e.op = "Constant"
    BY <1>4 DEF Typed, Arithmetic, Relations
  <2>2. e.v \in ValuesOf(w)
    BY <1>4, ValuesOfTypes DEF Typed, Arithmetic, Relations
  <2> QED BY <1>4, <2>2 DEF v, NodeValue
<1>5. CASE e.op \in {"Cmpl", "Neg"}
  <2> DEFINE i == IF e.op = "Cmpl" THEN -a - 1 ELSE -a
  <2>1. n = 1 /\ w \in Nat
    BY <1>5 DEF Typed, Arithmetic, Relations
  <2>2. v = Wrap(w, i)
    BY <1>5 DEF v, NodeValue
  <2>3. i \in Int
    BY <1>2, <2>1
  <2> HIDE DEF i
  <2>4. v \in Words(w)
    BY <2>1, <2>2, <2>3, WrapInRange
  <2> QED BY <2>1, <2>4, ValuesOfTypes DEF v
<1>6. CASE e.op = "LNot"
  <2>1. n = 1 /\ w = Bool /\ l.type = Bool
    BY <1>6 DEF Typed, Arithmetic, Relations
  <2>2. v = 1 - a
    BY <1>6 DEF v, NodeValue
  <2>3. a \in Bit
    BY <1>1, <2>1, ValuesOfTypes
  <2>4. v \in Bit
    BY <2>2, <2>3 DEF Bit
  <2> QED BY <2>1, <2>4, ValuesOfTypes DEF v
<1>7. CASE e.op \in Arithmetic \cup Relations \cup {"LAnd", "LOr", "Shl", "Shr"}
  <2> DEFINE i == Calculated(e.op, a, b)
  <2>1. n = 2
    BY <1>7 DEF Typed, Arithmetic, Relations
  <2>2. v = Wrap(w, i)
    BY <1>7 DEF v, NodeValue, Arithmetic, Relations
  <2>3. a \in Nat /\ b \in Nat
    BY <1>2, <2>1
  <2> HIDE DEF i
  <2>4. CASE e.op \in Arithmetic \cup {"Shl", "Shr"} /\ w \in Nat
    <3>1. i \in Int
      BY <2>3, <2>4, CalculatedInRange DEF i
    <3>2. v \in Words(w)
      BY <2>2, <2>4, <3>1, WrapInRange
    <3> QED BY <2>4, <3>2, ValuesOfTypes DEF v
  <2>5. CASE e.op = "Add" /\ w = InfInt
    <3>1. i \in Nat
      BY <2>3, <2>5, CalculatedInRange DEF i
    <3> QED BY <2>2, <2>5, <3>1 DEF v, Wrap, ValuesOf, InfInt, Bool
  <2>6. CASE e.op \in Relations \cup {"LAnd", "LOr"} /\ w = Bool
    <3>1. i \in Bit
      BY <2>3, <2>6, CalculatedInRange DEF i
    <3> QED BY <2>2, <2>6, <3>1 DEF v, Wrap, ValuesOf, InfInt, Bool
  <2>7. \/ e.op \in Arithmetic \cup {"Shl", "Shr"} /\ w \in Nat
        \/ e.op = "Add" /\ w = InfInt
        \/ e.op \in Relations \cup {"LAnd", "LOr"} /\ w = Bool
    BY <1>7 DEF Typed, Arithmetic, Relations
  <2> QED BY <2>4, <2>5, <2>6, <2>7
<1>8. CASE e.op = "Mux"
  <2>1. n = 3 /\ r.type = w /\ x.type = w
    BY <1>8 DEF Typed, Arithmetic, Relations
  <2>2. v = IF a = 1 THEN b ELSE c
    BY <1>8 DEF v, NodeValue
  <2> QED BY <1>1, <2>1, <2>2 DEF v
<1>9. CASE e.op = "Cast"
  <2>1. n = 1 /\ (w \in Nat \/ w = Bool)
    BY <1>9 DEF Typed, Arithmetic, Relations
  <2>2. v = IF w = Bool THEN Holds(a # 0) ELSE Wrap(w, a)
    BY <1>9 DEF v, NodeValue
  <2>3. a \in Int
    BY <1>2, <2>1
  <2>4. CASE w = Bool
    <3>1. v \in Bit
      BY <2>2, <2>4, HoldsInRange
    <3> QED BY <2>4, <3>1, ValuesOfTypes DEF v
  <2>5. CASE w # Bool
    <3>1. v \in Words(w)
      BY <2>1, <2>2, <2>3, <2>5, WrapInRange
    <3> QED BY <2>1, <2>5, <3>1, ValuesOfTypes DEF v
  <2> QED BY <2>4, <2>5
<1>10. CASE e.op = "Concat"
  <2> DEFINE s == l.type
             t == r.type
  <2>1. n = 2 /\ s \in Nat /\ t \in Nat /\ w = s + t
    BY <1>10 DEF Typed, Arithmetic, Relations
  <2>2. v = a * Pow2[t] + b
    BY <1>10 DEF v, NodeValue
  <2>3. a \in Words(s) /\ b \in Words(t)
    BY <1>1, <2>1, ValuesOfTypes
  <2> HIDE DEF s, t
  <2>4. a * Pow2[t] + b \in Words(s + t) /\ s + t \in Nat
    BY <2>1, <2>3, ConcatInRange
  <2> QED BY <2>1, <2>2, <2>4, ValuesOfTypes DEF v
<1>11. CASE e.op = "Slice"
  <2> DEFINE q == Pow2[c]
             i == a \div q
  <2>1. n = 3 /\ c <= b /\ w = b - c + 1
    BY <1>11 DEF Typed, Arithmetic, Relations
  <2>2. a \in Nat /\ b \in Nat /\ c \in Nat
    BY <1>2, <2>1
  <2>3. w \in Nat
    BY <2>1, <2>2
  <2>4. v = Wrap(w, i)
    BY <1>11, <2>1 DEF v, NodeValue
  <2>5. a \in Int
    BY <2>2
  <2>6. q \in Nat \ {0}
    BY <2>2, Pow2Facts, Zenon
  <2> HIDE DEF q
  <2>7. i \in Int
    BY <2>5, <2>6, DivMod
  <2> HIDE DEF i
  <2>8. v \in Words(w)
    BY <2>3, <2>4, <2>7, WrapInRange
  <2> QED BY <2>3, <2>8, ValuesOfTypes DEF v
<1> QED BY <1>3, <1>4, <1>5, <1>6, <1>7, <1>8, <1>9, <1>10, <1>11 DEF Typed, v

\* Every expression has a value of its type.
LEMMA ValueInRange ==
  ASSUME NEW m, Meaning(m), NEW e \in m.E
  PROVE  InRange(m, e)
<1> DEFINE S == {n \in Nat : \A x \in m.E : m.H[x] = n => InRange(m, x)}
<1>1. ASSUME NEW n \in Nat, \A k \in 0 .. n - 1 : k \in S PROVE n \in S
  <2> SUFFICES ASSUME NEW x \in m.E, m.H[x] = n PROVE InRange(m, x)
    OBVIOUS
  <2>1. \A i \in 1 .. Len(x.args) : InRange(m, x.args[i])
    <3> SUFFICES ASSUME NEW i \in 1 .. Len(x.args) PROVE InRange(m, x.args[i])
      OBVIOUS
    <3>1. x.args[i] \in m.E /\ m.H[x.args[i]] \in Nat /\ m.H[x.args[i]] < n
      BY Shape DEF Meaning
    <3>2. m.H[x.args[i]] \in S
      BY <1>1, <3>1
    <3> QED BY <3>1, <3>2
  <2>2. Len(x.args) \in Nat /\ Typed(x, m.var, m.casts) /\ x.type \in Nat \cup {Bool, InfInt}
    BY Shape, Types
  <2>3. /\ Len(x.args) >= 1 => InRange(m, x.args[1])
        /\ Len(x.args) >= 2 => InRange(m, x.args[2])
        /\ Len(x.args) >= 3 => InRange(m, x.args[3])
    <3>1. /\ Len(x.args) >= 1 => 1 \in 1 .. Len(x.args)
          /\ Len(x.args) >= 2 => 2 \in 1 .. Len(x.args)
          /\ Len(x.args) >= 3 => 3 \in 1 .. Len(x.args)
      BY <2>2
    <3> QED BY <2>1, <3>1
  <2>4. x.op = "Slice" => m.V[x.args[2]] = x.args[2].v /\ m.V[x.args[3]] = x.args[3].v
    <3> SUFFICES ASSUME x.op = "Slice" PROVE m.V[x.args[2]] = x.args[2].v /\ m.V[x.args[3]] = x.args[3].v
      OBVIOUS
    <3>1. x.args[2] \in m.E /\ x.args[3] \in m.E /\ x.args[2].op = "Constant" /\ x.args[3].op = "Constant"
      BY SliceNode
    <3> QED BY <3>1, Leaf DEF IsConstant
  <2>5. \A i \in 1 .. 3 : Len(x.args) >= i => x.args[i].type \in Nat \cup {Bool, InfInt}
    BY <2>2, Shape, Types
  <2>6. \A k \in DOMAIN m.var : m.env[k] \in ValuesOf(m.var[k])
    BY DEF Meaning
  <2>7. NodeValue(x, m.V[x.args[1]], m.V[x.args[2]], m.V[x.args[3]], m.env) \in ValuesOf(x.type)
    BY <2>2, <2>3, <2>4, <2>5, <2>6, NodeInRange DEF InRange
  <2> QED BY <2>7, ValueOf DEF InRange
<1>2. \A n \in Nat : n \in S
  <2> HIDE DEF S
  <2> QED BY <1>1, StrongInduction
<1>3. m.H[e] \in Nat
  BY DEF Meaning
<1> QED BY <1>2, <1>3

-----------------------------------------------------------------------------
(* Nodes that the rules make.                                              *)

\* Tuples of operands are sequences.
LEMMA Tuples ==
  ASSUME NEW S, NEW a \in S, NEW b \in S, NEW c \in S
  PROVE  <<a>> \in Seq(S) /\ <<a, b>> \in Seq(S) /\ <<a, b, c>> \in Seq(S)
OBVIOUS

\* No operands are a sequence too.
LEMMA NoTuple ==
  ASSUME NEW S
  PROVE  <<>> \in Seq(S)
OBVIOUS

\* A constant that a pass makes, and its value.
LEMMA MakeConstant ==
  ASSUME NEW m, Meaning(m), NEW t \in Nat \cup {InfInt}, NEW n \in Int, t = InfInt => n \in Nat
  PROVE  LET c == Constant(t, n)
         IN /\ c \in m.E /\ c.type = t /\ m.V[c] = Wrap(t, n)
            /\ c.op = "Constant" /\ c.v = Wrap(t, n) /\ IsConstant(c)
<1> DEFINE w == Wrap(t, n)
           c == [op |-> "Constant", type |-> t, args |-> <<>>, v |-> w]
<1>1. w \in Int /\ w \in ValuesOf(t)
  <2>1. CASE t \in Nat
    BY <2>1, WrapInRange, ValuesOfTypes
  <2>2. CASE t = InfInt
    BY <2>2 DEF Wrap, InfInt, ValuesOf, Bool
  <2> QED BY <2>1, <2>2
<1>2. t \in Int
  BY DEF InfInt
<1>3. Constant(t, n) = c
  BY DEF Constant
<1> HIDE DEF w
<1>4. c.op = "Constant" /\ c.type = t /\ c.v = w /\ c.args = <<>> /\ Len(c.args) = 0
  OBVIOUS
<1>5. Typed(c, m.var, m.casts)
  BY <1>1, <1>4 DEF Typed
<1>6. c.args \in Seq(m.E) /\ c.op \in Ops /\ c.type \in Int /\ c.v \in Int
  <2>1. c.args \in Seq(m.E)
    BY <1>4, NoTuple
  <2> QED BY <1>1, <1>2, <1>4, <2>1 DEF Ops
<1>7. c = [op |-> c.op, type |-> c.type, args |-> c.args, v |-> c.v]
  OBVIOUS
<1> HIDE DEF c
<1>8. c \in m.E
  BY <1>5, <1>6, <1>7, Built
<1>9. IsConstant(c) /\ m.V[c] = c.v
  BY <1>4, <1>8, Leaf DEF IsConstant
<1> QED BY <1>3, <1>4, <1>8, <1>9 DEF w

\* A constant of type int, as for the amount of a shift.
LEMMA MakeInt ==
  ASSUME NEW m, Meaning(m), NEW n \in Nat
  PROVE  /\ Constant(InfInt, n) \in m.E /\ Constant(InfInt, n).type = InfInt
         /\ m.V[Constant(InfInt, n)] = n /\ Constant(InfInt, n).v = n
         /\ Constant(InfInt, n).op = "Constant"
<1>1. Wrap(InfInt, n) = n
  BY DEF Wrap, InfInt
<1> DEFINE t == InfInt
<1>2. t \in Nat \cup {InfInt} /\ n \in Int /\ (t = InfInt => n \in Nat)
  OBVIOUS
<1> HIDE DEF t
<1>3. /\ Constant(t, n) \in m.E /\ Constant(t, n).type = t /\ m.V[Constant(t, n)] = Wrap(t, n)
      /\ Constant(t, n).op = "Constant" /\ Constant(t, n).v = Wrap(t, n)
  BY <1>2, MakeConstant
<1> QED BY <1>1, <1>3 DEF t

\* A Boolean literal that a pass makes, and its value.
LEMMA MakeBool ==
  ASSUME NEW m, Meaning(m), NEW p \in BOOLEAN
  PROVE  BoolLiteral(p) \in m.E /\ BoolLiteral(p).type = Bool /\ m.V[BoolLiteral(p)] = Holds(p)
<1> DEFINE w == IF p THEN 1 ELSE 0
           c == [op |-> "BoolLiteral", type |-> Bool, args |-> <<>>, v |-> w]
<1>1. w \in Int /\ w \in Bit /\ w = Holds(p) /\ Bool \in Int
  BY DEF Bit, Holds, Bool
<1>2. BoolLiteral(p) = c
  BY DEF BoolLiteral
<1> HIDE DEF w
<1>4. c.op = "BoolLiteral" /\ c.type = Bool /\ c.v = w /\ c.args = <<>> /\ Len(c.args) = 0
  OBVIOUS
<1>5. Typed(c, m.var, m.casts)
  BY <1>1, <1>4 DEF Typed
<1>6. c.args \in Seq(m.E) /\ c.op \in Ops /\ c.type \in Int /\ c.v \in Int
  <2>1. c.args \in Seq(m.E)
    BY <1>4, NoTuple
  <2> QED BY <1>1, <1>4, <2>1 DEF Ops
<1>7. c = [op |-> c.op, type |-> c.type, args |-> c.args, v |-> c.v]
  OBVIOUS
<1> HIDE DEF c
<1>8. c \in m.E
  BY <1>5, <1>6, <1>7, Built
<1>9. m.V[c] = c.v
  BY <1>4, <1>8, Leaf DEF IsConstant
<1> QED BY <1>1, <1>2, <1>4, <1>8, <1>9

Tree(op, type, args, v) == [op |-> op, type |-> type, args |-> args, v |-> v]

\* A well-typed tree that a pass makes is an expression, and has the value its operands give it.
LEMMA Made ==
  ASSUME NEW m, Meaning(m), NEW op \in Ops, NEW t \in Int, NEW args \in Seq(m.E), NEW v \in Int,
         Typed(Tree(op, t, args, v), m.var, m.casts)
  PROVE  /\ Tree(op, t, args, v) \in m.E /\ Tree(op, t, args, v).type = t
         /\ m.V[Tree(op, t, args, v)] =
              NodeValue(Tree(op, t, args, v), m.V[args[1]], m.V[args[2]], m.V[args[3]], m.env)
<1> DEFINE c == Tree(op, t, args, v)
<1>1. c.op = op /\ c.type = t /\ c.args = args /\ c.v = v
      /\ c = [op |-> c.op, type |-> c.type, args |-> c.args, v |-> c.v]
  BY DEF Tree
<1>2. Typed(c, m.var, m.casts)
  OBVIOUS
<1> HIDE DEF c
<1>3. c \in m.E /\ m.V[c] = NodeValue(c, m.V[c.args[1]], m.V[c.args[2]], m.V[c.args[3]], m.env)
  BY <1>1, <1>2, Built
<1> QED BY <1>1, <1>3 DEF c

\* A complement or a negation that a pass makes.
LEMMA MakeUnary ==
  ASSUME NEW m, Meaning(m), NEW op \in {"Cmpl", "Neg"}, NEW a \in m.E, a.type \in Nat, NEW v \in Int
  PROVE  LET c == Tree(op, a.type, <<a>>, v)
         IN c \in m.E /\ c.type = a.type
            /\ m.V[c] = Wrap(a.type, IF op = "Cmpl" THEN -m.V[a] - 1 ELSE -m.V[a])
<1> DEFINE c == Tree(op, a.type, <<a>>, v)
<1>1. c.op = op /\ c.type = a.type /\ c.args = <<a>> /\ Len(c.args) = 1 /\ c.args[1] = a
  BY DEF Tree
<1> HIDE DEF c
<1>2. Typed(c, m.var, m.casts)
  BY <1>1 DEF Typed
<1>3. <<a>> \in Seq(m.E) /\ op \in Ops /\ a.type \in Int
  <2>1. <<a>> \in Seq(m.E)
    BY Tuples
  <2> QED BY <2>1 DEF Ops
<1>4. c \in m.E /\ c.type = a.type
  BY <1>2, <1>3, Made DEF c
<1> QED BY <1>1, <1>4, UnaryNode DEF c

\* A Boolean negation that a pass makes.
LEMMA MakeNot ==
  ASSUME NEW m, Meaning(m), NEW a \in m.E, a.type = Bool
  PROVE  NotOf(a) \in m.E /\ NotOf(a).type = Bool /\ m.V[NotOf(a)] = 1 - m.V[a]
<1> DEFINE c == Tree("LNot", Bool, <<a>>, 0)
<1>1. c.op = "LNot" /\ c.type = Bool /\ c.args = <<a>> /\ Len(c.args) = 1 /\ c.args[1] = a
  BY DEF Tree
<1>2. NotOf(a) = c
  BY DEF Tree, NotOf, Node
<1> HIDE DEF c
<1>3. Typed(c, m.var, m.casts)
  BY <1>1 DEF Typed
<1>4. <<a>> \in Seq(m.E) /\ Bool \in Int /\ "LNot" \in Ops
  BY Tuples DEF Bool, Ops
<1>5. c \in m.E
  BY <1>3, <1>4, Made DEF c
<1> QED BY <1>1, <1>2, <1>5, NotNode

\* The types that the operands of a binary operation have.
OperandTypes(op, t, a, b) ==
  \/ op \in Arithmetic /\ a = t /\ b = t /\ (t \in Nat \/ (op = "Add" /\ t = InfInt))
  \/ op \in Relations /\ t = Bool /\ a = b /\ (a \in Nat \/ (op \in {"Equ", "Neq"} /\ a = Bool))
  \/ op \in {"LAnd", "LOr"} /\ t = Bool /\ a = Bool /\ b = Bool
  \/ op \in {"Shl", "Shr"} /\ t \in Nat /\ a = t /\ b \in Nat \cup {InfInt}

\* An operation on two operands that a pass makes.
LEMMA MakeBinary ==
  ASSUME NEW m, Meaning(m), NEW op, NEW t, NEW a \in m.E, NEW b \in m.E, NEW v \in Int,
         OperandTypes(op, t, a.type, b.type)
  PROVE  LET c == Tree(op, t, <<a, b>>, v)
         IN c \in m.E /\ c.type = t /\ m.V[c] = Wrap(t, Calculated(op, m.V[a], m.V[b]))
<1> DEFINE c == Tree(op, t, <<a, b>>, v)
<1>1. c.op = op /\ c.type = t /\ c.args = <<a, b>> /\ Len(c.args) = 2 /\ c.args[1] = a /\ c.args[2] = b
  BY DEF Tree
<1>2. op \in Arithmetic \cup Relations \cup {"LAnd", "LOr", "Shl", "Shr"}
  BY DEF OperandTypes
<1>3. op \in Ops
  BY <1>2 DEF Ops
<1>4. t \in Int
  BY DEF OperandTypes, Bool, InfInt
<1> HIDE DEF c
<1>5. Typed(c, m.var, m.casts)
  BY <1>1 DEF Typed, OperandTypes
<1>6. <<a, b>> \in Seq(m.E)
  BY Tuples
<1>7. c \in m.E
  BY <1>3, <1>4, <1>5, <1>6, Made DEF c
<1>8. m.V[c] = Wrap(t, Calculated(op, m.V[a], m.V[b]))
  BY <1>1, <1>2, <1>7, BinaryNode
<1> QED BY <1>1, <1>7, <1>8 DEF c

\* A conditional expression that a pass makes.
LEMMA MakeMux ==
  ASSUME NEW m, Meaning(m), NEW t \in Nat \cup {Bool}, NEW a \in m.E, NEW b \in m.E, NEW x \in m.E, NEW v \in Int,
         a.type = Bool, b.type = t, x.type = t
  PROVE  LET c == Tree("Mux", t, <<a, b, x>>, v)
         IN c \in m.E /\ c.type = t /\ m.V[c] = IF m.V[a] = 1 THEN m.V[b] ELSE m.V[x]
<1> DEFINE c == Tree("Mux", t, <<a, b, x>>, v)
<1>1. /\ c.op = "Mux" /\ c.type = t /\ c.args = <<a, b, x>> /\ Len(c.args) = 3
      /\ c.args[1] = a /\ c.args[2] = b /\ c.args[3] = x
  BY DEF Tree
<1>2. t \in Int
  BY DEF Bool
<1> HIDE DEF c
<1>3. Typed(c, m.var, m.casts)
  BY <1>1 DEF Typed
<1>4. <<a, b, x>> \in Seq(m.E) /\ "Mux" \in Ops
  BY Tuples DEF Ops
<1>5. c \in m.E
  BY <1>2, <1>3, <1>4, Made DEF c
<1> QED BY <1>1, <1>5, MuxNode DEF c

\* A cast to bit<w> that a pass makes.
LEMMA MakeCast ==
  ASSUME NEW m, Meaning(m), NEW t \in Nat, NEW a \in m.E, a.type \in Nat \cup {InfInt}
  PROVE  LET c == Node("Cast", t, <<a>>)
         IN c \in m.E /\ c.type = t /\ m.V[c] = Wrap(t, m.V[a])
<1> DEFINE c == Tree("Cast", t, <<a>>, 0)
<1>1. c.op = "Cast" /\ c.type = t /\ c.args = <<a>> /\ Len(c.args) = 1 /\ c.args[1] = a
  BY DEF Tree
<1>2. Node("Cast", t, <<a>>) = c
  BY DEF Node, Tree
<1> HIDE DEF c
<1>3. Typed(c, m.var, m.casts)
  BY <1>1 DEF Typed
<1>4. <<a>> \in Seq(m.E) /\ t \in Int /\ "Cast" \in Ops
  <2>1. <<a>> \in Seq(m.E)
    BY Tuples
  <2> QED BY <2>1 DEF Ops
<1>5. c \in m.E
  BY <1>3, <1>4, Made DEF c
<1>6. m.V[c] = IF c.type = Bool THEN Holds(m.V[a] # 0) ELSE Wrap(c.type, m.V[a])
  BY <1>1, <1>5, CastNode
<1> QED BY <1>1, <1>2, <1>5, <1>6 DEF Bool

\* A concatenation that a pass makes.
LEMMA MakeConcat ==
  ASSUME NEW m, Meaning(m), NEW a \in m.E, NEW b \in m.E, a.type \in Nat, b.type \in Nat, NEW t, t = a.type + b.type
  PROVE  LET c == Node("Concat", t, <<a, b>>)
         IN c \in m.E /\ c.type = t /\ m.V[c] = m.V[a] * Pow2[b.type] + m.V[b]
<1> DEFINE c == Tree("Concat", t, <<a, b>>, 0)
<1>1. c.op = "Concat" /\ c.type = t /\ c.args = <<a, b>> /\ Len(c.args) = 2 /\ c.args[1] = a /\ c.args[2] = b
  BY DEF Tree
<1>2. Node("Concat", t, <<a, b>>) = c
  BY DEF Node, Tree
<1> HIDE DEF c
<1>3. Typed(c, m.var, m.casts)
  BY <1>1 DEF Typed
<1>4. <<a, b>> \in Seq(m.E) /\ t \in Int /\ "Concat" \in Ops
  <2>1. <<a, b>> \in Seq(m.E)
    BY Tuples
  <2> QED BY <2>1 DEF Ops
<1>5. c \in m.E
  BY <1>3, <1>4, Made DEF c
<1> QED BY <1>1, <1>2, <1>5, ConcatNode

\* A slice that a pass makes.
LEMMA MakeSlice ==
  ASSUME NEW m, Meaning(m), NEW a \in m.E, a.type \in Nat, NEW hi \in Nat, NEW lo \in Nat, lo <= hi, hi < a.type
  PROVE  LET c == Slice(a, hi, lo)
         IN c \in m.E /\ c.type = hi - lo + 1 /\ m.V[c] = Wrap(hi - lo + 1, m.V[a] \div Pow2[lo])
<1> DEFINE h == Constant(InfInt, hi)
           l == Constant(InfInt, lo)
           c == Tree("Slice", hi - lo + 1, <<a, h, l>>, 0)
<1>1. /\ h \in m.E /\ h.op = "Constant" /\ h.type = InfInt /\ h.v = hi
      /\ l \in m.E /\ l.op = "Constant" /\ l.type = InfInt /\ l.v = lo
  BY MakeInt
<1>2. Slice(a, hi, lo) = c
  BY DEF Slice, Node, Tree
<1> HIDE DEF h, l
<1>3. /\ c.op = "Slice" /\ c.type = hi - lo + 1 /\ c.args = <<a, h, l>> /\ Len(c.args) = 3
      /\ c.args[1] = a /\ c.args[2] = h /\ c.args[3] = l
  BY DEF Tree
<1> HIDE DEF c
<1>4. Typed(c, m.var, m.casts)
  BY <1>1, <1>3 DEF Typed
<1>5. <<a, h, l>> \in Seq(m.E) /\ hi - lo + 1 \in Int /\ "Slice" \in Ops
  <2>1. <<a, h, l>> \in Seq(m.E)
    BY <1>1, Tuples
  <2> QED BY <2>1 DEF Ops
<1>6. c \in m.E
  BY <1>4, <1>5, Made DEF c
<1>7. m.V[c] = Wrap(c.type, m.V[c.args[1]] \div Pow2[c.args[3].v])
  BY <1>3, <1>6, SliceNode
<1> QED BY <1>1, <1>2, <1>3, <1>6, <1>7

\* A node with other operands of the same types.
LEMMA OtherOperands ==
  ASSUME NEW m, Meaning(m), NEW e \in m.E, NEW args
  PROVE  WithArgs(e, args) = Tree(e.op, e.type, args, e.v) /\ e.v \in Int
<1>1. e = [op |-> e.op, type |-> e.type, args |-> e.args, v |-> e.v] /\ e.v \in Int
  BY Shape
<1> DEFINE o == e.op
           t == e.type
           g == e.args
           n == e.v
<1>2. e = [op |-> o, type |-> t, args |-> g, v |-> n]
  BY <1>1
<1>3. WithArgs(e, args) = [e EXCEPT !.args = args]
  BY DEF WithArgs
<1>4. Tree(o, t, args, n) = [op |-> o, type |-> t, args |-> args, v |-> n]
  BY DEF Tree
<1> HIDE DEF o, t, g, n
<1>5. [[op |-> o, type |-> t, args |-> g, v |-> n] EXCEPT !.args = args] = [op |-> o, type |-> t, args |-> args, v |-> n]
  OBVIOUS
<1>6. WithArgs(e, args) = Tree(o, t, args, n)
  BY <1>2, <1>3, <1>4, <1>5, Zenon
<1> QED BY <1>1, <1>6 DEF o, t, n

-----------------------------------------------------------------------------
(* Constant folding.                                                       *)

\* Every value is a natural number that its type admits.
LEMMA NatValue ==
  ASSUME NEW m, Meaning(m), NEW e \in m.E
  PROVE  m.V[e] \in Nat /\ m.V[e] \in ValuesOf(e.type) /\ e.type \in Nat \cup {Bool, InfInt}
BY Types, ValueInRange, ValuesOfTypes DEF InRange

\* The value of an expression of type bit<w> is a word of w bits.
LEMMA WordValue ==
  ASSUME NEW m, Meaning(m), NEW e \in m.E, e.type \in Nat
  PROVE  m.V[e] \in Words(e.type) /\ Wrap(e.type, m.V[e]) = m.V[e]
<1>1. m.V[e] \in Words(e.type) /\ m.V[e] \in Int
  BY NatValue, ValuesOfTypes
<1> QED BY <1>1, WrapInRange

\* The value of a bool is 0 or 1.
LEMMA BoolValue ==
  ASSUME NEW m, Meaning(m), NEW e \in m.E, e.type = Bool
  PROVE  m.V[e] \in Bit
BY NatValue, ValuesOfTypes

\* An expression may stand for itself.
LEMMA SameItself ==
  ASSUME NEW m, NEW e \in m.E
  PROVE  Same(m, e, e)
BY DEF Same

\* Constant folding of complements and negations.
LEMMA FoldUnary ==
  ASSUME NEW m, Meaning(m), NEW e \in m.E, e.op \in {"Cmpl", "Neg"}, IsConstant(e.args[1])
  PROVE  Same(m, ConstantFolding(e), e)
<1> DEFINE l == e.args[1]
           n == IF e.op = "Cmpl" THEN -l.v - 1 ELSE -l.v
<1>1. ConstantFolding(e) = Constant(l.type, n)
  BY DEF ConstantFolding, Arithmetic, Relations
<1>2. l \in m.E /\ e.type \in Nat /\ l.type = e.type /\ m.V[l] = l.v /\ l.v \in Nat
  BY UnaryNode, Leaf, NatValue
<1>3. m.V[e] = Wrap(e.type, n)
  BY <1>2, UnaryNode
<1> HIDE DEF l
<1>4. n \in Int
  BY <1>2
<1> HIDE DEF n
<1>5. Constant(l.type, n) \in m.E /\ Constant(l.type, n).type = l.type /\ m.V[Constant(l.type, n)] = Wrap(l.type, n)
  BY <1>2, <1>4, MakeConstant DEF InfInt
<1> QED BY <1>1, <1>2, <1>3, <1>5 DEF Same

\* Constant folding of Boolean negations.
LEMMA FoldNot ==
  ASSUME NEW m, Meaning(m), NEW e \in m.E, e.op = "LNot", IsConstant(e.args[1])
  PROVE  Same(m, ConstantFolding(e), e)
<1> DEFINE l == e.args[1]
           p == (l.v = 0)
<1>1. ConstantFolding(e) = BoolLiteral(p)
  BY DEF ConstantFolding, Arithmetic, Relations
<1>2. l \in m.E /\ e.type = Bool /\ m.V[l] = l.v /\ l.v \in Bit /\ m.V[e] = 1 - l.v
  BY NotNode, Leaf, BoolValue
<1>3. BoolLiteral(p) \in m.E /\ BoolLiteral(p).type = Bool /\ m.V[BoolLiteral(p)] = Holds(p)
  BY MakeBool
<1> HIDE DEF l
<1>4. Holds(p) = 1 - l.v
  BY <1>2 DEF Holds, Bit
<1> QED BY <1>1, <1>2, <1>3, <1>4 DEF Same

\* Constant folding of arithmetic operations (DoConstantFolding::binary).
LEMMA FoldArithmetic ==
  ASSUME NEW m, Meaning(m), NEW e \in m.E, e.op \in Arithmetic, IsConstant(e.args[1]), IsConstant(e.args[2])
  PROVE  Same(m, ConstantFolding(e), e)
<1> DEFINE l == e.args[1]
           r == e.args[2]
           n == Calculated(e.op, l.v, r.v)
<1>1. ConstantFolding(e) = Constant(r.type, n)
  BY DEF ConstantFolding, Arithmetic, Relations
<1>2. l \in m.E /\ r \in m.E /\ m.V[l] = l.v /\ m.V[r] = r.v /\ l.v \in Nat /\ r.v \in Nat
  BY BinaryNode, Leaf, NatValue
<1>3. m.V[e] = Wrap(e.type, n) /\ r.type = e.type /\ (e.type \in Nat \/ (e.op = "Add" /\ e.type = InfInt))
  BY <1>2, BinaryNode, ArithmeticNode
<1>4. n \in Int /\ (e.op = "Add" => n \in Nat)
  BY <1>2, CalculatedInRange
<1> HIDE DEF n
<1>5. (e.type = InfInt => n \in Nat) /\ e.type \in Nat \cup {InfInt}
  BY <1>3, <1>4 DEF InfInt
<1>6. Constant(e.type, n) \in m.E /\ Constant(e.type, n).type = e.type /\ m.V[Constant(e.type, n)] = Wrap(e.type, n)
  BY <1>4, <1>5, MakeConstant
<1> QED BY <1>1, <1>3, <1>6 DEF Same

\* Constant folding of comparisons.
LEMMA FoldRelation ==
  ASSUME NEW m, Meaning(m), NEW e \in m.E, e.op \in Relations, IsConstant(e.args[1]), IsConstant(e.args[2])
  PROVE  Same(m, ConstantFolding(e), e)
<1> DEFINE l == e.args[1]
           r == e.args[2]
           n == Calculated(e.op, l.v, r.v)
           p == (n = 1)
<1>1. ConstantFolding(e) = BoolLiteral(p)
  BY DEF ConstantFolding, Relations, Arithmetic
<1>2. l \in m.E /\ r \in m.E /\ m.V[l] = l.v /\ m.V[r] = r.v /\ l.v \in Nat /\ r.v \in Nat
  BY BinaryNode, Leaf, NatValue
<1>3. m.V[e] = Wrap(e.type, n) /\ e.type = Bool
  BY <1>2, BinaryNode, RelationNode
<1>4. n \in Bit
  BY <1>2, CalculatedInRange
<1> HIDE DEF n
<1>5. Holds(p) = n /\ Wrap(Bool, n) = n
  BY <1>4 DEF Holds, Bit, Wrap, Bool
<1>6. BoolLiteral(p) \in m.E /\ BoolLiteral(p).type = Bool /\ m.V[BoolLiteral(p)] = Holds(p)
  BY MakeBool
<1> QED BY <1>1, <1>3, <1>5, <1>6 DEF Same

\* Shifting by 0 changes nothing.
LEMMA ShiftByZero ==
  ASSUME NEW m, Meaning(m), NEW e \in m.E, e.op \in {"Shl", "Shr"}, m.V[e.args[2]] = 0
  PROVE  Same(m, e.args[1], e)
<1> DEFINE l == e.args[1]
<1>1. l \in m.E /\ l.type = e.type /\ e.type \in Nat /\ m.V[e] = Wrap(e.type, Calculated(e.op, m.V[l], 0))
  BY BinaryNode, ShiftNode
<1>2. m.V[l] \in Nat /\ Wrap(e.type, m.V[l]) = m.V[l]
  BY <1>1, NatValue, WordValue
<1>3. Pow2[0] = 1
  BY Pow2Facts
<1>4. Calculated(e.op, m.V[l], 0) = m.V[l]
  BY <1>2, <1>3 DEF Calculated
<1> QED BY <1>1, <1>2, <1>4 DEF Same

\* Constant folding of shifts, and shifts by 0.
LEMMA FoldShift ==
  ASSUME NEW m, Meaning(m), NEW e \in m.E, e.op \in {"Shl", "Shr"}
  PROVE  Same(m, ConstantFolding(e), e)
<1> DEFINE l == e.args[1]
           r == e.args[2]
           n == Calculated(e.op, l.v, r.v)
<1>1. ConstantFolding(e) = IF ~IsConstant(r) THEN e
                           ELSE IF r.v = 0 THEN l ELSE IF ~IsConstant(l) THEN e ELSE Constant(l.type, n)
  BY DEF ConstantFolding, Shifted, Arithmetic, Relations
<1>2. l \in m.E /\ r \in m.E /\ l.type = e.type /\ e.type \in Nat
      /\ m.V[e] = Wrap(e.type, Calculated(e.op, m.V[l], m.V[r]))
  BY BinaryNode, ShiftNode
<1>3. CASE IsConstant(r) /\ r.v = 0
  <2>1. m.V[r] = 0
    BY <1>2, <1>3, Leaf
  <2>2. Same(m, l, e)
    BY <2>1, ShiftByZero
  <2> QED BY <1>1, <1>3, <2>2
<1>4. CASE IsConstant(r) /\ IsConstant(l)
  <2>1. m.V[l] = l.v /\ m.V[r] = r.v /\ l.v \in Nat /\ r.v \in Nat
    BY <1>2, <1>4, Leaf, NatValue
  <2>2. n \in Int /\ m.V[e] = Wrap(e.type, n)
    BY <1>2, <2>1, CalculatedInRange
  <2> HIDE DEF n
  <2>3. Constant(l.type, n) \in m.E /\ Constant(l.type, n).type = l.type /\ m.V[Constant(l.type, n)] = Wrap(l.type, n)
    BY <1>2, <2>2, MakeConstant DEF InfInt
  <2> QED BY <1>1, <1>2, <1>3, <1>4, <2>2, <2>3 DEF Same
<1> QED BY <1>1, <1>3, <1>4, SameItself

\* Constant folding of && and || whose left operand is a literal.
LEMMA FoldLogic ==
  ASSUME NEW m, Meaning(m), NEW e \in m.E, e.op \in {"LAnd", "LOr"}, IsConstant(e.args[1])
  PROVE  Same(m, ConstantFolding(e), e)
<1> DEFINE l == e.args[1]
           r == e.args[2]
<1>1. ConstantFolding(e) = IF e.op = "LAnd" THEN (IF l.v = 1 THEN r ELSE BoolLiteral(FALSE))
                           ELSE (IF l.v = 0 THEN r ELSE BoolLiteral(TRUE))
  BY DEF ConstantFolding, Arithmetic, Relations
<1>2. l \in m.E /\ r \in m.E /\ e.type = Bool /\ l.type = Bool /\ r.type = Bool
      /\ m.V[e] = Wrap(e.type, Calculated(e.op, m.V[l], m.V[r]))
  BY BinaryNode, LogicNode
<1>3. m.V[l] = l.v /\ m.V[l] \in Bit /\ m.V[r] \in Bit
  BY <1>2, Leaf, BoolValue
<1>4. /\ BoolLiteral(FALSE) \in m.E /\ BoolLiteral(FALSE).type = Bool /\ m.V[BoolLiteral(FALSE)] = 0
      /\ BoolLiteral(TRUE) \in m.E /\ BoolLiteral(TRUE).type = Bool /\ m.V[BoolLiteral(TRUE)] = 1
  BY MakeBool DEF Holds
<1>5. m.V[e] = IF e.op = "LAnd" THEN Holds(m.V[l] = 1 /\ m.V[r] = 1) ELSE Holds(m.V[l] = 1 \/ m.V[r] = 1)
  <2>1. Calculated(e.op, m.V[l], m.V[r]) =
          IF e.op = "LAnd" THEN Holds(m.V[l] = 1 /\ m.V[r] = 1) ELSE Holds(m.V[l] = 1 \/ m.V[r] = 1)
    BY DEF Calculated
  <2>2. Wrap(Bool, Calculated(e.op, m.V[l], m.V[r])) = Calculated(e.op, m.V[l], m.V[r])
    BY DEF Wrap, Bool
  <2> QED BY <1>2, <2>1, <2>2
<1> HIDE DEF l, r
<1> QED BY <1>1, <1>2, <1>3, <1>4, <1>5 DEF Same, Holds, Bit

\* Constant folding of conditional expressions.
LEMMA FoldMux ==
  ASSUME NEW m, Meaning(m), NEW e \in m.E, e.op = "Mux", IsConstant(e.args[1])
  PROVE  Same(m, ConstantFolding(e), e)
<1>1. ConstantFolding(e) = IF e.args[1].v = 1 THEN e.args[2] ELSE e.args[3]
  BY DEF ConstantFolding, Arithmetic, Relations
<1>2. m.V[e.args[1]] = e.args[1].v
  BY MuxNode, Leaf
<1> QED BY <1>1, <1>2, MuxNode DEF Same

\* Constant folding of concatenations.
LEMMA FoldConcat ==
  ASSUME NEW m, Meaning(m), NEW e \in m.E, e.op = "Concat", IsConstant(e.args[1]), IsConstant(e.args[2])
  PROVE  Same(m, ConstantFolding(e), e)
<1> DEFINE l == e.args[1]
           r == e.args[2]
           n == l.v * Pow2[r.type] + r.v
<1>1. ConstantFolding(e) = Constant(e.type, n)
  BY DEF ConstantFolding, Arithmetic, Relations
<1>2. l \in m.E /\ r \in m.E /\ l.type \in Nat /\ r.type \in Nat /\ e.type = l.type + r.type
      /\ m.V[e] = m.V[l] * Pow2[r.type] + m.V[r]
  BY ConcatNode
<1>3. m.V[l] = l.v /\ m.V[r] = r.v
  BY <1>2, Leaf
<1>4. m.V[e] = n /\ e.type \in Nat
  BY <1>2, <1>3
<1> HIDE DEF n
<1>5. n \in Int /\ Wrap(e.type, n) = n
  BY <1>4, WordValue, NatValue
<1>6. Constant(e.type, n) \in m.E /\ Constant(e.type, n).type = e.type /\ m.V[Constant(e.type, n)] = Wrap(e.type, n)
  BY <1>4, <1>5, MakeConstant DEF InfInt
<1> QED BY <1>1, <1>4, <1>5, <1>6 DEF Same

\* Constant folding of slices.
LEMMA FoldSlice ==
  ASSUME NEW m, Meaning(m), NEW e \in m.E, e.op = "Slice"
  PROVE  Same(m, ConstantFolding(e), e)
<1> DEFINE l == e.args[1]
           n == l.v \div Pow2[e.args[3].v]
           t == e.args[2].v - e.args[3].v + 1
<1>1. ConstantFolding(e) = IF ~IsConstant(l) THEN e ELSE Constant(t, n)
  BY DEF ConstantFolding, Sliced, Arithmetic, Relations
<1>2. CASE IsConstant(l)
  <2>1. l \in m.E /\ e.args[3].v \in Nat /\ e.args[2].v \in Nat /\ e.args[3].v <= e.args[2].v /\ e.type = t
        /\ m.V[e] = Wrap(e.type, m.V[l] \div Pow2[e.args[3].v])
    BY SliceNode
  <2>2. m.V[l] = l.v /\ l.v \in Int
    BY <1>2, <2>1, Leaf, NatValue
  <2>3. n \in Int
    BY <2>1, <2>2, Pow2Facts, DivMod
  <2>4. t \in Nat
    BY <2>1
  <2>5. m.V[e] = Wrap(t, n)
    BY <2>1, <2>2
  <2> HIDE DEF n, t
  <2>6. Constant(t, n) \in m.E /\ Constant(t, n).type = t /\ m.V[Constant(t, n)] = Wrap(t, n)
    BY <2>3, <2>4, MakeConstant DEF InfInt
  <2> QED BY <1>1, <1>2, <2>1, <2>5, <2>6 DEF Same
<1> QED BY <1>1, <1>2, SameItself

\* Constant folding of casts.
LEMMA FoldCast ==
  ASSUME NEW m, Meaning(m), NEW e \in m.E, e.op = "Cast", IsConstant(e.args[1])
  PROVE  Same(m, ConstantFolding(e), e)
<1> DEFINE l == e.args[1]
           p == (l.v = 1)
           n == l.v
           t == e.type
<1>1. ConstantFolding(e) = IF t = Bool THEN BoolLiteral(p) ELSE Constant(t, n)
  BY DEF ConstantFolding, Arithmetic, Relations
<1>2. l \in m.E /\ m.V[e] = IF t = Bool THEN Holds(m.V[l] # 0) ELSE Wrap(t, m.V[l])
  BY CastNode
<1>3. m.V[l] = l.v /\ l.v \in Nat
  BY <1>2, Leaf, NatValue
<1>4. CASE t = Bool
  <2>1. l.type \in {Bool, 1}
    BY <1>4, CastNode DEF Bool
  <2>2. l.v \in Bit
    <3>1. l.v \in ValuesOf(l.type)
      BY <1>2, <1>3, NatValue
    <3>2. l.type = 1 => ValuesOf(l.type) = Words(1)
      BY ValuesOfTypes
    <3>3. Words(1) = Bit
      <4>1. Pow2[1] = 2
        BY Pow2Facts
      <4> QED BY <4>1 DEF Words, Bit
    <3> QED BY <2>1, <3>1, <3>2, <3>3, ValuesOfTypes
  <2>3. BoolLiteral(p) \in m.E /\ BoolLiteral(p).type = Bool /\ m.V[BoolLiteral(p)] = Holds(p)
    BY MakeBool
  <2> HIDE DEF l
  <2>4. Holds(p) = Holds(l.v # 0)
    BY <2>2 DEF Holds, Bit
  <2> QED BY <1>1, <1>2, <1>3, <1>4, <2>3, <2>4 DEF Same
<1>5. CASE t # Bool
  <2>1. t \in Nat
    BY <1>5, CastNode
  <2> HIDE DEF n, t
  <2>2. Constant(t, n) \in m.E /\ Constant(t, n).type = t /\ m.V[Constant(t, n)] = Wrap(t, n)
    BY <1>3, <2>1, MakeConstant DEF InfInt, n
  <2> QED BY <1>1, <1>2, <1>3, <1>5, <2>2 DEF Same, n, t
<1> QED BY <1>4, <1>5

\* DoConstantFolding keeps the value of every expression, whatever its width.
THEOREM ConstantFoldingKeepsValue ==
  ASSUME NEW m, Meaning(m), NEW e \in m.E
  PROVE  Same(m, ConstantFolding(e), e)
<1> DEFINE Folds ==
      \/ e.op \in {"Cmpl", "Neg"} /\ IsConstant(e.args[1])
      \/ e.op = "LNot" /\ IsConstant(e.args[1])
      \/ e.op \in Arithmetic /\ IsConstant(e.args[1]) /\ IsConstant(e.args[2])
      \/ e.op \in Relations /\ IsConstant(e.args[1]) /\ IsConstant(e.args[2])
      \/ e.op \in {"Shl", "Shr"}
      \/ e.op \in {"LAnd", "LOr"} /\ IsConstant(e.args[1])
      \/ e.op = "Mux" /\ IsConstant(e.args[1])
      \/ e.op = "Concat" /\ IsConstant(e.args[1]) /\ IsConstant(e.args[2])
      \/ e.op = "Slice"
      \/ e.op = "Cast" /\ IsConstant(e.args[1])
<1>1. CASE Folds
  BY <1>1, FoldUnary, FoldNot, FoldArithmetic, FoldRelation, FoldShift, FoldLogic, FoldMux, FoldConcat,
     FoldSlice, FoldCast
<1>2. CASE ~Folds
  <2>1. ConstantFolding(e) = e
    BY <1>2 DEF ConstantFolding
  <2> QED BY <2>1, SameItself
<1> QED BY <1>1, <1>2

-----------------------------------------------------------------------------
(* Reassociation and useless casts.                                        *)

\* The operations of Reassociation do not depend on the order, overflow included.
LEMMA WrapAssociative ==
  ASSUME NEW w \in Nat, NEW a \in Words(w), NEW b \in Words(w), NEW c \in Words(w),
         NEW op \in {"Add", "Mul", "BOr", "BAnd", "BXor"}
  PROVE  Wrap(w, Calculated(op, Wrap(w, Calculated(op, a, b)), c)) = Wrap(w, Calculated(op, a, Wrap(w, Calculated(op, b, c))))
<1> DEFINE p == Pow2[w]
<1>1. p \in Nat \ {0} /\ a \in Nat /\ b \in Nat /\ c \in Nat
  BY Pow2Facts, WordsAreNat
<1>2. \A n \in Int : Wrap(w, n) = n % p /\ (n \in Words(w) => Wrap(w, n) = n)
  BY WrapInRange
<1> HIDE DEF p
<1>3. CASE op = "Add"
  <2>1. \A x, y : Calculated(op, x, y) = x + y
    BY <1>3 DEF Calculated
  <2>2. (((a + b) % p) + c) % p = ((a + b) + c) % p
    <3>1. a + b \in Int /\ c \in Int
      BY <1>1
    <3> QED BY <1>1, <3>1, ModAdd
  <2>3. (a + ((b + c) % p)) % p = (a + (b + c)) % p
    <3>1. b + c \in Int /\ a \in Int
      BY <1>1
    <3> QED BY <1>1, <3>1, ModAdd
  <2>4. (a + b) % p \in Int /\ (b + c) % p \in Int
    <3>1. a + b \in Int /\ b + c \in Int
      BY <1>1
    <3>2. (a + b) % p \in 0 .. p - 1 /\ (b + c) % p \in 0 .. p - 1
      BY <1>1, <3>1, DivMod
    <3> QED BY <3>2
  <2>5. a + (b + c) = (a + b) + c /\ a + b \in Int /\ b + c \in Int
    BY <1>1
  <2> DEFINE u == (a + b) % p
             v == (b + c) % p
  <2>6. Wrap(w, a + b) = u /\ Wrap(w, b + c) = v
    BY <1>2, <2>5
  <2>7. u + c \in Int /\ a + v \in Int
    BY <1>1, <2>4
  <2> HIDE DEF u, v
  <2>8. Wrap(w, u + c) = (u + c) % p /\ Wrap(w, a + v) = (a + v) % p
    BY <1>2, <2>7
  <2>9. (u + c) % p = (a + v) % p
    BY <2>2, <2>3, <2>5 DEF u, v
  <2> QED BY <2>1, <2>6, <2>8, <2>9
<1>4. CASE op = "Mul"
  <2>1. \A x, y : Calculated(op, x, y) = x * y
    BY <1>4 DEF Calculated
  <2> DEFINE ab == a * b
             bc == b * c
             u == ab % p
             v == bc % p
  <2>2. ab \in Int /\ bc \in Int /\ ab * c = a * bc
    BY <1>1
  <2> HIDE DEF ab, bc
  <2>3. (u * c) % p = (ab * c) % p /\ (a * v) % p = (a * bc) % p
    <3>1. a \in Int /\ c \in Int
      BY <1>1
    <3>2. ((ab % p) * c) % p = (ab * c) % p
      BY <1>1, <2>2, <3>1, ModMul, Zenon
    <3>3. (a * (bc % p)) % p = (a * bc) % p
      BY <1>1, <2>2, <3>1, ModMul, Zenon
    <3> QED BY <3>2, <3>3
  <2>4. u \in 0 .. p - 1 /\ v \in 0 .. p - 1
    BY <1>1, <2>2, DivMod
  <2>5. Wrap(w, ab) = u /\ Wrap(w, bc) = v
    BY <1>2, <2>2
  <2> HIDE DEF u, v
  <2>6. u * c \in Int /\ a * v \in Int
    BY <1>1, <2>4
  <2>7. Wrap(w, u * c) = (u * c) % p /\ Wrap(w, a * v) = (a * v) % p
    BY <1>2, <2>6
  <2>8. Calculated(op, a, b) = ab /\ Calculated(op, b, c) = bc /\ Calculated(op, u, c) = u * c /\ Calculated(op, a, v) = a * v
    BY <2>1 DEF ab, bc
  <2> QED BY <2>2, <2>3, <2>5, <2>7, <2>8
<1>5. CASE op \in {"BOr", "BAnd", "BXor"}
  <2> DEFINE F(x, y) == IF op = "BOr" THEN BitOr(x, y) ELSE IF op = "BAnd" THEN BitAnd[x][y] ELSE BitXor(x, y)
  <2>1. \A x, y : Calculated(op, x, y) = F(x, y)
    BY <1>5 DEF Calculated, BitOr, BitXor
  <2>2. \A x \in Words(w), y \in Words(w) : F(x, y) \in Words(w)
    BY BitOpsInRange
  <2>3. F(F(a, b), c) = F(a, F(b, c))
    <3>1. BitOr(BitOr(a, b), c) = BitOr(a, BitOr(b, c))
      BY BitOrAssociative
    <3>2. BitAnd[BitAnd[a][b]][c] = BitAnd[a][BitAnd[b][c]]
      BY <1>1, BitAndAssociative
    <3>3. BitXor(BitXor(a, b), c) = BitXor(a, BitXor(b, c))
      BY <1>1, BitXorAssociative
    <3> QED BY <1>5, <3>1, <3>2, <3>3
  <2> HIDE DEF F
  <2>4. F(a, b) \in Words(w) /\ F(b, c) \in Words(w)
    BY <2>2
  <2>5. F(F(a, b), c) \in Words(w)
    BY <2>2, <2>4
  <2>6. \A x \in Words(w) : Wrap(w, x) = x
    BY <1>2, WordsAreNat
  <2>7. Wrap(w, F(a, b)) = F(a, b) /\ Wrap(w, F(b, c)) = F(b, c)
    BY <2>4, <2>6
  <2> QED BY <2>1, <2>3, <2>7
<1> QED BY <1>3, <1>4, <1>5

\* Reassociation keeps the value of every expression, whatever its width.
THEOREM ReassociationKeepsValue ==
  ASSUME NEW m, Meaning(m), NEW e \in m.E
  PROVE  Same(m, Reassociation(e), e)
<1> DEFINE l == e.args[1]
           d == e.args[2]
           a == l.args[1]
           c == l.args[2]
           op == e.op
           t == e.type
           v == e.v
           inner == Tree(op, t, <<c, d>>, v)
           outer == Tree(op, t, <<a, inner>>, v)
<1>1. CASE op \in {"Add", "Mul", "BOr", "BAnd", "BXor"} /\ l.op = op /\ d.op = "Constant" /\ c.op = "Constant"
  <2>1. Reassociation(e) = WithArgs(e, <<a, WithArgs(e, <<c, d>>)>>)
    BY <1>1 DEF Reassociation
  <2>2. Reassociation(e) = outer /\ v \in Int
    BY <2>1, OtherOperands
  <2>3. op \in Arithmetic
    BY <1>1 DEF Arithmetic
  <2>4. l \in m.E /\ d \in m.E /\ l.type = t /\ d.type = t /\ m.V[e] = Wrap(t, Calculated(op, m.V[l], m.V[d]))
    BY <2>3, BinaryNode, ArithmeticNode
  <2>5. a \in m.E /\ c \in m.E /\ a.type = t /\ c.type = t /\ m.V[l] = Wrap(t, Calculated(op, m.V[a], m.V[c]))
    BY <1>1, <2>3, <2>4, BinaryNode, ArithmeticNode
  <2>6. t \in Nat \/ (op = "Add" /\ t = InfInt)
    BY <2>3, ArithmeticNode
  <2> HIDE DEF a, c, l, d, op, t, v, outer
  <2>7. OperandTypes(op, t, c.type, d.type)
    BY <2>3, <2>4, <2>5, <2>6 DEF OperandTypes
  <2>8. inner \in m.E /\ inner.type = t /\ m.V[inner] = Wrap(t, Calculated(op, m.V[c], m.V[d]))
    BY <2>2, <2>4, <2>5, <2>7, MakeBinary
  <2> HIDE DEF inner
  <2>9. OperandTypes(op, t, a.type, inner.type)
    BY <2>3, <2>5, <2>6, <2>8 DEF OperandTypes
  <2>10. outer \in m.E /\ outer.type = t /\ m.V[outer] = Wrap(t, Calculated(op, m.V[a], m.V[inner]))
    BY <2>2, <2>5, <2>8, <2>9, MakeBinary DEF outer
  <2>11. m.V[outer] = m.V[e]
    <3>1. CASE t \in Nat
      <4>1. m.V[a] \in Words(t) /\ m.V[c] \in Words(t) /\ m.V[d] \in Words(t)
        BY <2>4, <2>5, <3>1, WordValue
      <4>2. op \in {"Add", "Mul", "BOr", "BAnd", "BXor"}
        BY <1>1
      <4>3. Wrap(t, Calculated(op, Wrap(t, Calculated(op, m.V[a], m.V[c])), m.V[d])) =
            Wrap(t, Calculated(op, m.V[a], Wrap(t, Calculated(op, m.V[c], m.V[d]))))
        BY <3>1, <4>1, <4>2, WrapAssociative
      <4> QED BY <2>4, <2>5, <2>8, <2>10, <4>3
    <3>2. CASE op = "Add" /\ t = InfInt
      <4>1. \A n : Wrap(t, n) = n
        BY <3>2 DEF Wrap, InfInt
      <4>2. \A x, y : Calculated(op, x, y) = x + y
        BY <3>2 DEF Calculated
      <4>3. m.V[a] \in Nat /\ m.V[c] \in Nat /\ m.V[d] \in Nat
        BY <2>4, <2>5, NatValue
      <4> DEFINE x == m.V[a]
                 y == m.V[c]
                 z == m.V[d]
      <4>4. m.V[l] = x + y /\ m.V[inner] = y + z /\ m.V[e] = m.V[l] + z /\ m.V[outer] = x + m.V[inner]
        BY <2>4, <2>5, <2>8, <2>10, <4>1, <4>2
      <4> HIDE DEF x, y, z
      <4>5. x \in Nat /\ y \in Nat /\ z \in Nat
        BY <4>3 DEF x, y, z
      <4> QED BY <4>4, <4>5
    <3> QED BY <2>6, <3>1, <3>2
  <2> QED BY <2>2, <2>10, <2>11 DEF Same, t
<1>2. CASE ~(op \in {"Add", "Mul", "BOr", "BAnd", "BXor"} /\ l.op = op /\ d.op = "Constant" /\ c.op = "Constant")
  <2>1. Reassociation(e) = e
    BY <1>2 DEF Reassociation
  <2> QED BY <2>1, SameItself
<1> QED BY <1>1, <1>2

\* RemoveUselessCasts keeps the value of every expression, whatever its width.
THEOREM RemoveUselessCastsKeepsValue ==
  ASSUME NEW m, Meaning(m), NEW e \in m.E
  PROVE  Same(m, RemoveUselessCasts(e), e)
<1> DEFINE l == e.args[1]
<1>1. CASE e.op = "Cast" /\ l.type = e.type
  <2>1. RemoveUselessCasts(e) = l
    BY <1>1 DEF RemoveUselessCasts
  <2>2. l \in m.E /\ e.type \in Nat \cup {Bool}
        /\ m.V[e] = IF e.type = Bool THEN Holds(m.V[l] # 0) ELSE Wrap(e.type, m.V[l])
    BY <1>1, CastNode
  <2>3. CASE e.type = Bool
    <3>1. m.V[l] \in Bit
      BY <1>1, <2>2, <2>3, BoolValue
    <3>2. Holds(m.V[l] # 0) = m.V[l]
      BY <3>1 DEF Holds, Bit
    <3> QED BY <1>1, <2>1, <2>2, <2>3, <3>2 DEF Same
  <2>4. CASE e.type \in Nat
    <3>1. Wrap(e.type, m.V[l]) = m.V[l]
      BY <1>1, <2>2, <2>4, WordValue
    <3> QED BY <1>1, <2>1, <2>2, <2>4, <3>1 DEF Same, Bool
  <2> QED BY <2>2, <2>3, <2>4
<1>2. CASE ~(e.op = "Cast" /\ l.type = e.type)
  <2>1. RemoveUselessCasts(e) = e
    BY <1>2 DEF RemoveUselessCasts
  <2> QED BY <2>1, SameItself
<1> QED BY <1>1, <1>2

-----------------------------------------------------------------------------
(* The lowering of slices, concatenations and casts from bool.             *)

\* A word shifted to the right keeps its width.
LEMMA ShiftedRight ==
  ASSUME NEW w \in Nat, NEW a \in Words(w), NEW n \in Nat
  PROVE  a \div Pow2[n] \in Words(w) /\ Wrap(w, a \div Pow2[n]) = a \div Pow2[n]
<1> DEFINE p == Pow2[w]
           q == Pow2[n]
<1>1. p \in Nat \ {0} /\ q \in Nat \ {0} /\ a \in 0 .. p - 1 /\ Words(w) = 0 .. p - 1
  BY Pow2Facts DEF Words
<1> HIDE DEF p, q
<1>2. a \in Nat
  BY <1>1
<1>3. a \div q \in Nat /\ a \div q <= a
  BY <1>1, <1>2, DivNat
<1> DEFINE d == a \div q
<1>4. d \in Nat /\ d <= a
  BY <1>3
<1> HIDE DEF d
<1>5. d \in Words(w) /\ d \in Int
  BY <1>1, <1>4
<1>6. Wrap(w, d) = d
  BY <1>5, WrapInRange
<1> QED BY <1>5, <1>6 DEF d, q

\* A slice is the cast of a shift.
LEMMA LowerSlice ==
  ASSUME NEW m, Meaning(m), NEW e \in m.E, e.op = "Slice"
  PROVE  Same(m, Lower(e), e)
<1> DEFINE l == e.args[1]
           x == e.args[3]
           n == x.v
           shr == Node("Shr", l.type, <<l, x>>)
           of == IF n = 0 THEN l ELSE shr
           t == e.type
<1>1. Lower(e) = Node("Cast", t, <<of>>)
  BY DEF Lower
<1>2. /\ l \in m.E /\ x \in m.E /\ l.type \in Nat /\ n \in Nat /\ x.type = InfInt /\ x.op = "Constant"
      /\ m.V[e] = Wrap(t, m.V[l] \div Pow2[n])
      /\ e.args[2].v \in Nat /\ n <= e.args[2].v /\ t = e.args[2].v - n + 1
  BY SliceNode
<1>3. t \in Nat
  BY <1>2
<1>4. m.V[l] \in Words(l.type) /\ m.V[l] \in Nat /\ m.V[x] = n
  BY <1>2, WordValue, NatValue, Leaf DEF IsConstant
<1> HIDE DEF l, x, t
<1>5. of \in m.E /\ of.type = l.type /\ m.V[of] = m.V[l] \div Pow2[n]
  <2>1. CASE n = 0
    <3>1. Pow2[0] = 1
      BY Pow2Facts
    <3> QED BY <1>2, <1>4, <2>1, <3>1
  <2>2. CASE n # 0
    <3>1. shr = Tree("Shr", l.type, <<l, x>>, 0)
      BY DEF Node, Tree
    <3>2. OperandTypes("Shr", l.type, l.type, x.type)
      BY <1>2 DEF OperandTypes
    <3>3. shr \in m.E /\ shr.type = l.type /\ m.V[shr] = Wrap(l.type, Calculated("Shr", m.V[l], m.V[x]))
      BY <1>2, <3>1, <3>2, MakeBinary
    <3>4. Calculated("Shr", m.V[l], m.V[x]) = m.V[l] \div Pow2[n]
      BY <1>4 DEF Calculated
    <3>5. Wrap(l.type, m.V[l] \div Pow2[n]) = m.V[l] \div Pow2[n]
      BY <1>2, <1>4, ShiftedRight
    <3> HIDE DEF shr
    <3> QED BY <2>2, <3>3, <3>4, <3>5
  <2> QED BY <2>1, <2>2
<1> HIDE DEF of
<1>6. LET c == Node("Cast", t, <<of>>) IN c \in m.E /\ c.type = t /\ m.V[c] = Wrap(t, m.V[of])
  BY <1>2, <1>3, <1>5, MakeCast
<1> QED BY <1>1, <1>2, <1>5, <1>6 DEF Same, t

\* A concatenation is the two words side by side.
LEMMA ConcatOfWords ==
  ASSUME NEW s \in Nat, NEW t \in Nat, NEW a \in Words(s), NEW b \in Words(t)
  PROVE  LET w == s + t IN
         /\ Wrap(w, a) = a /\ Wrap(w, b) = b /\ Wrap(w, Pow2[t] - 1) = Pow2[t] - 1
         /\ Wrap(w, a * Pow2[t]) = a * Pow2[t] /\ Wrap(w, BitAnd[b][Pow2[t] - 1]) = b
         /\ Wrap(w, BitOr(a * Pow2[t], b)) = a * Pow2[t] + b
<1> DEFINE w == s + t
           q == Pow2[t]
           h == a * q
<1>1. w \in Nat /\ s <= w /\ t <= w
  OBVIOUS
<1>2. q \in Nat \ {0} /\ a \in Nat /\ b \in Nat /\ q - 1 \in Words(t)
  BY Pow2Facts, WordsAreNat
<1>3. \A n \in Words(w) : Wrap(w, n) = n
  BY <1>1, WrapInRange, WordsAreNat
<1>4. Words(s) \subseteq Words(w) /\ Words(t) \subseteq Words(w)
  <2>1. Pow2[s] <= Pow2[w] /\ Pow2[t] <= Pow2[w]
    BY <1>1, Pow2Grows
  <2>2. Pow2[s] \in Nat /\ Pow2[t] \in Nat /\ Pow2[w] \in Nat
    BY <1>1, Pow2Facts
  <2> HIDE DEF w
  <2> QED BY <2>1, <2>2 DEF Words
<1>5. h + b \in Words(w) /\ h + 0 \in Words(w)
  <2>1. 0 \in Words(t)
    BY WordsAreNat
  <2> QED BY <2>1, ConcatInRange
<1>6. h \in Nat /\ h = q * a
  BY <1>2
<1>7. BitOr(q * a, b) = q * a + b
  BY <1>2, BitAndDisjoint
<1>8. BitAnd[b][q - 1] = b
  BY BitAndComplement DEF Words
<1> HIDE DEF w, q, h
<1>9. h + 0 = h
  BY <1>6
<1>10. BitOr(h, b) = h + b
  BY <1>6, <1>7
<1> QED BY <1>3, <1>4, <1>5, <1>2, <1>8, <1>9, <1>10 DEF w, q, h

\* A concatenation is the | of a shifted word and a masked one.
LEMMA LowerOfConcat ==
  ASSUME NEW m, Meaning(m), NEW e \in m.E, e.op = "Concat"
  PROVE  Same(m, Lower(e), e)
<1> DEFINE l == e.args[1]
           r == e.args[2]
           w == e.type
           q == Pow2[r.type]
           castL == Node("Cast", w, <<l>>)
           castR == Node("Cast", w, <<r>>)
           by == Constant(InfInt, r.type)
           mask == Constant(w, q - 1)
           high == Node("Shl", w, <<castL, by>>)
           low == Node("BAnd", w, <<castR, mask>>)
           or == Node("BOr", w, <<high, low>>)
<1>1. Lower(e) = or
  BY DEF Lower, LowerConcat
<1>2. /\ l \in m.E /\ r \in m.E /\ l.type \in Nat /\ r.type \in Nat /\ w = l.type + r.type
      /\ m.V[e] = m.V[l] * q + m.V[r]
  BY ConcatNode
<1>3. m.V[l] \in Words(l.type) /\ m.V[r] \in Words(r.type)
  BY <1>2, WordValue
<1>4. q - 1 \in Nat
  BY <1>2, Pow2Facts
<1>5. w \in Nat
  BY <1>2
<1> DEFINE a == m.V[l]
           b == m.V[r]
<1>6. /\ Wrap(w, a) = a /\ Wrap(w, b) = b /\ Wrap(w, q - 1) = q - 1
      /\ Wrap(w, a * q) = a * q /\ Wrap(w, BitAnd[b][q - 1]) = b
      /\ Wrap(w, BitOr(a * q, b)) = a * q + b
  <2> HIDE DEF l, r, a, b
  <2>1. a \in Words(l.type) /\ b \in Words(r.type)
    BY <1>3 DEF a, b
  <2> QED BY <1>2, <2>1, ConcatOfWords
<1>7. m.V[e] = a * q + b
  BY <1>2
<1> HIDE DEF l, r, w, castL, castR, by, mask, high, low, or, a, b
<1>8. castL \in m.E /\ castL.type = w /\ m.V[castL] = a
  <2>1. LET c == Node("Cast", w, <<l>>) IN c \in m.E /\ c.type = w /\ m.V[c] = Wrap(w, m.V[l])
    BY <1>2, <1>5, MakeCast
  <2> QED BY <1>6, <2>1 DEF castL, a
<1>9. castR \in m.E /\ castR.type = w /\ m.V[castR] = b
  <2>1. LET c == Node("Cast", w, <<r>>) IN c \in m.E /\ c.type = w /\ m.V[c] = Wrap(w, m.V[r])
    BY <1>2, <1>5, MakeCast
  <2> QED BY <1>6, <2>1 DEF castR, b
<1>10. by \in m.E /\ by.type = InfInt /\ m.V[by] = r.type
  BY <1>2, MakeInt DEF by
<1>11. mask \in m.E /\ mask.type = w /\ m.V[mask] = q - 1
  <2> DEFINE n == q - 1
  <2>1. n \in Int /\ w \in Nat \cup {InfInt} /\ (w = InfInt => n \in Nat)
    BY <1>4, <1>5
  <2> HIDE DEF n
  <2>2. Constant(w, n) \in m.E /\ Constant(w, n).type = w /\ m.V[Constant(w, n)] = Wrap(w, n)
    BY <2>1, MakeConstant
  <2> QED BY <1>6, <2>2 DEF mask, n
<1>12. high \in m.E /\ high.type = w /\ m.V[high] = a * q
  <2>1. high = Tree("Shl", w, <<castL, by>>, 0)
    BY DEF Node, Tree, high
  <2>2. OperandTypes("Shl", w, castL.type, by.type)
    BY <1>5, <1>8, <1>10 DEF OperandTypes
  <2>3. high \in m.E /\ high.type = w /\ m.V[high] = Wrap(w, Calculated("Shl", m.V[castL], m.V[by]))
    BY <1>8, <1>10, <2>1, <2>2, MakeBinary
  <2>4. Calculated("Shl", m.V[castL], m.V[by]) = a * q
    BY <1>8, <1>10 DEF Calculated
  <2> QED BY <1>6, <2>3, <2>4
<1>13. low \in m.E /\ low.type = w /\ m.V[low] = b
  <2>1. low = Tree("BAnd", w, <<castR, mask>>, 0)
    BY DEF Node, Tree, low
  <2>2. OperandTypes("BAnd", w, castR.type, mask.type)
    BY <1>5, <1>9, <1>11 DEF OperandTypes, Arithmetic
  <2>3. low \in m.E /\ low.type = w /\ m.V[low] = Wrap(w, Calculated("BAnd", m.V[castR], m.V[mask]))
    BY <1>9, <1>11, <2>1, <2>2, MakeBinary
  <2>4. Calculated("BAnd", m.V[castR], m.V[mask]) = BitAnd[b][q - 1]
    BY <1>9, <1>11 DEF Calculated
  <2> QED BY <1>6, <2>3, <2>4
<1>14. or \in m.E /\ or.type = w /\ m.V[or] = a * q + b
  <2>1. or = Tree("BOr", w, <<high, low>>, 0)
    BY DEF Node, Tree, or
  <2>2. OperandTypes("BOr", w, high.type, low.type)
    BY <1>5, <1>12, <1>13 DEF OperandTypes, Arithmetic
  <2>3. or \in m.E /\ or.type = w /\ m.V[or] = Wrap(w, Calculated("BOr", m.V[high], m.V[low]))
    BY <1>12, <1>13, <2>1, <2>2, MakeBinary
  <2>4. Calculated("BOr", m.V[high], m.V[low]) = BitOr(a * q, b)
    BY <1>12, <1>13 DEF Calculated, BitOr
  <2> QED BY <1>6, <2>3, <2>4
<1> QED BY <1>1, <1>7, <1>14 DEF Same, w

\* A cast from bool is a conditional expression.
LEMMA LowerCast ==
  ASSUME NEW m, Meaning(m), NEW e \in m.E, e.op = "Cast", e.type \in Nat, e.args[1].type = Bool
  PROVE  Same(m, Lower(e), e)
<1> DEFINE l == e.args[1]
           t == e.type
           one == Constant(t, 1)
           zero == Constant(t, 0)
           mux == Node("Mux", t, <<l, one, zero>>)
<1>1. Lower(e) = mux
  BY DEF Lower, Bool
<1>2. l \in m.E /\ t = 1 /\ m.V[e] = Wrap(t, m.V[l])
  BY CastNode DEF Bool, InfInt
<1>3. m.V[l] \in Bit
  BY <1>2, BoolValue
<1>4. Wrap(1, 1) = 1 /\ Wrap(1, 0) = 0
  <2>1. Pow2[1] = 2
    BY Pow2Facts
  <2> QED BY <2>1 DEF Wrap
<1>5. l.type = Bool
  OBVIOUS
<1> HIDE DEF l, t, one, zero
<1>6. one \in m.E /\ one.type = t /\ m.V[one] = 1
  BY <1>2, <1>4, MakeConstant DEF one, InfInt
<1>7. zero \in m.E /\ zero.type = t /\ m.V[zero] = 0
  BY <1>2, <1>4, MakeConstant DEF zero, InfInt
<1>8. mux = Tree("Mux", t, <<l, one, zero>>, 0)
  BY DEF Node, Tree
<1>9. mux \in m.E /\ mux.type = t /\ m.V[mux] = IF m.V[l] = 1 THEN m.V[one] ELSE m.V[zero]
  BY <1>2, <1>5, <1>6, <1>7, <1>8, MakeMux
<1> HIDE DEF mux
<1>10. m.V[mux] = m.V[e]
  BY <1>2, <1>3, <1>4, <1>6, <1>7, <1>9 DEF Bit
<1> QED BY <1>1, <1>9, <1>10 DEF Same, t

\* LowerExpressions keeps the value of every expression that casts nothing to bool.
THEOREM LowerKeepsValue ==
  ASSUME NEW m, Meaning(m), "toBool" \notin m.casts, NEW e \in m.E
  PROVE  Same(m, Lower(e), e)
<1>1. CASE e.op = "Slice"
  BY <1>1, LowerSlice
<1>2. CASE e.op = "Concat"
  BY <1>2, LowerOfConcat
<1>3. CASE e.op = "Cast" /\ e.type \in Nat /\ e.args[1].type = Bool
  BY <1>3, LowerCast
<1>4. CASE ~(e.op = "Slice" \/ e.op = "Concat" \/ (e.op = "Cast" /\ e.type \in Nat /\ e.args[1].type = Bool))
  <2>1. ~(e.op = "Cast" /\ e.type = Bool /\ e.args[1].type >= 0)
    BY CastNode DEF Bool
  <2>2. ~(e.op = "Cast" /\ e.type >= 0 /\ e.args[1].type = Bool)
    BY <1>4, CastNode DEF Bool
  <2>3. Lower(e) = e
    BY <1>4, <2>1, <2>2 DEF Lower
  <2> QED BY <2>3, SameItself
<1> QED BY <1>1, <1>2, <1>3, <1>4

\* A cast of a bit to bool is lowered to its contrary.
THEOREM LowerInvertsBool ==
  ASSUME NEW m, Meaning(m), NEW e \in m.E, e.op = "Cast", e.type = Bool, e.args[1].type = 1
  PROVE  Lower(e) \in m.E /\ Lower(e).type = Bool /\ m.V[Lower(e)] = 1 - m.V[e]
<1> DEFINE l == e.args[1]
           zero == Constant(l.type, 0)
           equ == Node("Equ", Bool, <<l, zero>>)
<1>1. Lower(e) = equ
  <2>1. e.op = "Cast" /\ e.type = Bool /\ e.args[1].type >= 0
    OBVIOUS
  <2> QED BY <2>1 DEF Lower, Bool
<1>2. l \in m.E /\ l.type = 1 /\ m.V[e] = Holds(m.V[l] # 0)
  BY CastNode
<1>3. Wrap(1, 0) = 0
  <2>1. 0 \in Words(1)
    BY WordsAreNat
  <2> QED BY <2>1, WrapInRange
<1> HIDE DEF l, zero
<1>4. zero \in m.E /\ zero.type = 1 /\ m.V[zero] = 0
  BY <1>2, <1>3, MakeConstant DEF zero, InfInt
<1>5. equ = Tree("Equ", Bool, <<l, zero>>, 0)
  BY DEF Node, Tree
<1>6. OperandTypes("Equ", Bool, l.type, zero.type)
  BY <1>2, <1>4 DEF OperandTypes, Relations
<1>7. equ \in m.E /\ equ.type = Bool /\ m.V[equ] = Wrap(Bool, Calculated("Equ", m.V[l], m.V[zero]))
  BY <1>2, <1>4, <1>5, <1>6, MakeBinary
<1> HIDE DEF equ
<1>8. m.V[equ] = Holds(m.V[l] = 0)
  <2>1. Calculated("Equ", m.V[l], m.V[zero]) = Holds(m.V[l] = 0)
    BY <1>4 DEF Calculated
  <2> QED BY <1>7, <2>1 DEF Wrap, Bool
<1> QED BY <1>1, <1>2, <1>7, <1>8 DEF Holds

-----------------------------------------------------------------------------
(* Assignments to slices.                                                  *)

\* How a & ~mask and (r << l) & mask are put together, mask having k bits from bit l on.
BitsReplaced(l, k, a, r) ==
  LET p == Pow2[l]
      mask == Pow2[l + k] - p
      kept == a - BitAnd[mask][a]
  IN /\ mask \in Nat /\ BitAnd[r * p][mask] = r * p /\ r * p \in Nat
     /\ r * p < Pow2[l + k] /\ kept \in Nat
     /\ BitOr(kept, r * p) = (a \div Pow2[l + k]) * Pow2[l + k] + r * p + (a % p)

\* Clearing some bits of a number and putting others in their place replaces them.
LEMMA ReplacedBits ==
  ASSUME NEW l \in Nat, NEW k \in Nat, NEW a \in Nat, NEW r \in Words(k)
  PROVE  BitsReplaced(l, k, a, r)
<1> DEFINE p == Pow2[l]
           q == Pow2[k]
           P == Pow2[l + k]
           mask == P - p
           a0 == a % p
           d == a \div p
           D == d \div q
           d0 == d % q
           kept == a - BitAnd[mask][a]
<1>1. p \in Nat \ {0} /\ q \in Nat \ {0} /\ P = p * q /\ l + k \in Nat
  <2>1. P = p * q
    BY Pow2Sum
  <2>2. \A n \in Nat : Pow2[n] \in Nat \ {0}
    BY Pow2Facts
  <2> QED BY <2>1, <2>2
<1>2. r \in 0 .. q - 1 /\ r \in Nat /\ q - 1 \in Nat /\ q - 1 \in 0 .. q - 1
  BY <1>1 DEF Words
<1>3. d \in Nat /\ a0 \in 0 .. p - 1 /\ a = p * d + a0
  <2> HIDE DEF p
  <2>1. p \in Nat \ {0} /\ a \in Int
    BY <1>1
  <2>2. a \div p \in Nat
    BY <2>1, DivNat
  <2>3. a % p \in 0 .. p - 1 /\ a = p * (a \div p) + (a % p)
    BY <2>1, DivMod
  <2> QED BY <2>2, <2>3
<1>4. D \in Nat /\ d0 \in 0 .. q - 1 /\ d = q * D + d0 /\ d0 = d % q
  <2> HIDE DEF d
  <2>1. d \in Nat /\ d \in Int
    BY <1>3
  <2>2. q \in Nat \ {0}
    BY <1>1
  <2> HIDE DEF q
  <2> QED BY <2>1, <2>2, DivMod, DivNat
<1>5. D = a \div P
  <2> HIDE DEF p, q, P
  <2>1. a \in Int /\ p \in Nat \ {0} /\ q \in Nat \ {0} /\ Product(P, p, q)
    BY <1>1 DEF Product
  <2>2. TwoDigits(a, p, q, P)
    BY <2>1, Digits
  <2> QED BY <2>2 DEF TwoDigits
<1>6. BitAnd[r][q - 1] = r /\ BitAnd[q - 1][d] = d0
  <2>1. BitAnd[r][q - 1] = r
    BY <1>2, BitAndComplement DEF Words
  <2>2. BitAnd[d][q - 1] = d % q
    BY <1>3, BitAndMask
  <2>3. BitAnd[q - 1][d] = BitAnd[d][q - 1]
    BY <1>2, <1>3, BitAndBounds
  <2> QED BY <2>1, <2>2, <2>3
<1>7. BitAnd[p * r + 0][p * (q - 1) + 0] = p * BitAnd[r][q - 1] + BitAnd[0][0]
  <2>1. 0 \in 0 .. Pow2[l] - 1
    BY <1>1
  <2> QED BY <1>2, <2>1, BitAndDigits
<1>8. BitAnd[p * (q - 1) + 0][p * d + a0] = p * BitAnd[q - 1][d] + BitAnd[0][a0]
  <2>1. 0 \in 0 .. Pow2[l] - 1
    BY <1>1
  <2> QED BY <1>2, <1>3, <2>1, BitAndDigits
<1>9. BitAnd[0][0] = 0 /\ BitAnd[0][a0] = 0 /\ BitAnd[a0][0] = 0
  <2> HIDE DEF a0
  <2>1. a0 \in Nat /\ 0 \in Nat
    BY <1>3
  <2> QED BY <2>1, BitAndBounds
<1>10. BitAnd[p * (q * D) + a0][p * r + 0] = p * BitAnd[q * D][r] + BitAnd[a0][0]
  <2>1. 0 \in 0 .. Pow2[l] - 1
    BY <1>1
  <2>2. q * D \in Nat
    BY <1>1, <1>4
  <2> QED BY <1>2, <1>3, <2>1, <2>2, BitAndDigits
<1>11. BitAnd[q * D][r] = 0
  BY <1>2, <1>4, BitAndDisjoint
<1> HIDE DEF p, q, P, a0, d, D, d0
<1>12. p * (q - 1) + 0 = mask /\ p * r + 0 = r * p /\ r * p \in Nat /\ mask \in Nat
  <2>1. p * (q - 1) = p * q - p /\ p * (q - 1) \in Nat
    BY <1>1, <1>2
  <2> QED BY <1>1, <1>2, <2>1
<1>13. BitAnd[r * p][mask] = r * p
  <2>1. p * BitAnd[r][q - 1] + BitAnd[0][0] = p * r + 0
    BY <1>6, <1>9
  <2> QED BY <1>7, <1>12, <2>1
<1>14. BitAnd[mask][a] = p * d0
  <2>1. p * BitAnd[q - 1][d] + BitAnd[0][a0] = p * d0 + 0 /\ p * d0 + 0 = p * d0
    BY <1>1, <1>4, <1>6, <1>9
  <2> QED BY <1>3, <1>8, <1>12, <2>1
<1>15. kept = p * (q * D) + a0 /\ kept \in Nat
  <2>1. p * d = p * (q * D) + p * d0 /\ p * (q * D) \in Nat /\ p * d0 \in Nat
    BY <1>1, <1>4
  <2>2. a0 \in Nat
    BY <1>1, <1>3
  <2> DEFINE x == p * (q * D)
             y == p * d0
  <2>3. kept = a - y /\ a = x + y + a0
    BY <1>3, <1>14, <2>1
  <2>4. x \in Nat /\ y \in Nat
    BY <2>1
  <2> HIDE DEF x, y, kept
  <2>5. kept = x + a0 /\ kept \in Nat
    BY <2>2, <2>3, <2>4
  <2> QED BY <2>5 DEF x
<1>16. BitAnd[kept][r * p] = 0
  <2>1. p * BitAnd[q * D][r] + BitAnd[a0][0] = 0
    BY <1>1, <1>9, <1>11
  <2> QED BY <1>10, <1>12, <1>15, <2>1
<1>17. BitOr(kept, r * p) = D * P + r * p + a0
  <2> DEFINE x == p * (q * D)
             y == r * p
  <2>1. x = D * P
    BY <1>1, <1>4
  <2>2. x \in Int /\ y \in Nat /\ a0 \in Nat
    BY <1>1, <1>3, <1>4, <1>12
  <2>3. kept = x + a0 /\ BitOr(kept, y) = kept + y - 0
    BY <1>15, <1>16 DEF BitOr
  <2> HIDE DEF x, y, kept
  <2>4. BitOr(kept, y) = x + y + a0
    BY <2>2, <2>3
  <2> QED BY <2>1, <2>4 DEF y
<1>18. r * p < P
  <2>1. (q - 1 - r) * p >= 0 /\ (q - 1 - r) * p = p * q - p - r * p
    BY <1>1, <1>2
  <2>2. p * q \in Int /\ r * p \in Int
    BY <1>1, <1>2
  <2> QED BY <1>1, <2>1, <2>2
<1> QED BY <1>5, <1>12, <1>13, <1>15, <1>17, <1>18 DEF p, P, a0, BitsReplaced

\* RemoveLeftSlices: the variable gets the bits that the assignment to its slice gives it.
THEOREM RemoveLeftSlicesKeepsValue ==
  ASSUME NEW m, Meaning(m), NEW s, s.left \in m.E, s.right \in m.E, s.left.op = "Slice", s.right.type = s.left.type
  PROVE  LET a == s.left.args[1]
             new == RemoveLeftSlices(s)
         IN /\ new.left = a /\ new.right \in m.E /\ new.right.type = a.type
            /\ m.V[new.right] = Replaced(m.V[a], m.V[s.right], s.left.args[2].v, s.left.args[3].v)
<1> DEFINE a == s.left.args[1]
           h == s.left.args[2].v
           l == s.left.args[3].v
           w == a.type
           e == s.right
           n == Pow2[h + 1] - Pow2[l]
           mask == Constant(w, n)
           not == Node("Cmpl", w, <<mask>>)
           kept == Node("BAnd", w, <<a, not>>)
           cast == Node("Cast", w, <<e>>)
           by == Constant(InfInt, l)
           shl == Node("Shl", w, <<cast, by>>)
           moved == Node("BAnd", w, <<shl, mask>>)
           or == Node("BOr", w, <<kept, moved>>)
           new == RemoveLeftSlices(s)
<1>1. new = [left |-> a, right |-> or]
  BY DEF RemoveLeftSlices
<1>2. /\ a \in m.E /\ w \in Nat /\ h \in Nat /\ l \in Nat /\ l <= h /\ h < w /\ s.left.type = h - l + 1
  BY SliceNode
<1>3. m.V[a] \in Words(w) /\ m.V[a] \in Nat
  BY <1>2, WordValue, NatValue
<1>4. e \in m.E /\ e.type = h - l + 1 /\ e.type \in Nat /\ m.V[e] \in Words(e.type)
  <2>1. e.type = h - l + 1 /\ e.type \in Nat
    BY <1>2
  <2> QED BY <2>1, WordValue
<1> HIDE DEF a, h, l, w, e, mask, not, kept, cast, by, shl, moved, or, new
<1> DEFINE x == m.V[a]
           y == m.V[e]
           p == Pow2[l]
           old == x - BitAnd[n][x]
<1>5. /\ n \in Nat /\ BitAnd[y * p][n] = y * p /\ y * p \in Nat /\ y * p < Pow2[h + 1] /\ old \in Nat
      /\ BitOr(old, y * p) = Replaced(x, y, h, l)
  <2> DEFINE k == h - l + 1
  <2>1. k \in Nat /\ l + k = h + 1 /\ k = e.type
    BY <1>2, <1>4
  <2> HIDE DEF x, y, k
  <2>2. x \in Nat /\ y \in Words(k)
    BY <1>3, <1>4, <2>1 DEF x, y
  <2>3. BitsReplaced(l, k, x, y)
    BY <1>2, <2>1, <2>2, ReplacedBits
  <2> QED BY <2>1, <2>3 DEF Replaced, BitsReplaced
<1>6. n < Pow2[w] /\ Pow2[h + 1] <= Pow2[w] /\ Pow2[w] \in Nat
  <2>1. h + 1 \in Nat /\ h + 1 <= w
    BY <1>2
  <2>2. Pow2[h + 1] <= Pow2[w]
    BY <1>2, <2>1, Pow2Grows
  <2>3. Pow2[h + 1] \in Nat /\ Pow2[w] \in Nat /\ Pow2[l] \in Nat \ {0}
    BY <1>2, <2>1, Pow2Facts
  <2> QED BY <2>2, <2>3
<1> DEFINE z == y * p
<1>7. n \in Words(w) /\ z \in Words(w) /\ n \in Int /\ z \in Int
  <2> HIDE DEF n, z
  <2>1. n \in Nat /\ z \in Nat /\ z < Pow2[h + 1] /\ Pow2[h + 1] \in Nat
    BY <1>2, <1>5, Pow2Facts DEF z
  <2> QED BY <1>6, <2>1 DEF Words
<1>8. \A i \in Words(w) : Wrap(w, i) = i /\ i \in Int
  <2>1. w \in Nat
    BY <1>2
  <2>2. \A i \in Words(w) : i \in Int
    BY <2>1, WordsAreNat
  <2> QED BY <2>1, <2>2, WrapInRange
<1>9. w \in Nat \cup {InfInt} /\ w # InfInt
  BY <1>2 DEF InfInt
<1>10. mask \in m.E /\ mask.type = w /\ m.V[mask] = n
  <2> HIDE DEF n
  <2>1. mask \in m.E /\ mask.type = w /\ m.V[mask] = Wrap(w, n)
    BY <1>7, <1>9, MakeConstant DEF mask
  <2> QED BY <1>7, <1>8, <2>1
<1>11. not \in m.E /\ not.type = w /\ m.V[not] = Pow2[w] - 1 - n
  <2>1. not = Tree("Cmpl", w, <<mask>>, 0)
    BY DEF Node, Tree, not
  <2>2. not \in m.E /\ not.type = w /\ m.V[not] = Wrap(w, -m.V[mask] - 1)
    BY <1>2, <1>10, <2>1, MakeUnary
  <2> HIDE DEF n
  <2>3. Wrap(w, -n - 1) = Pow2[w] - 1 - n
    <3> DEFINE P == Pow2[w]
    <3>1. Wrap(w, -n - 1) = (-n - 1) % P
      BY <1>2, <1>7 DEF Wrap
    <3>2. P \in Nat \ {0} /\ n \in 0 .. P - 1
      BY <1>2, <1>7, Pow2Facts DEF Words
    <3> HIDE DEF P
    <3>3. -n - 1 \in Int /\ P - 1 - n \in 0 .. P - 1 /\ -1 \in Int /\ -n - 1 = P * (-1) + (P - 1 - n)
      BY <3>2
    <3>4. (-n - 1) % P = P - 1 - n
      BY <3>2, <3>3, DivModUnique
    <3> QED BY <3>1, <3>4 DEF P
  <2> QED BY <1>10, <2>2, <2>3
<1>12. kept \in m.E /\ kept.type = w /\ m.V[kept] = old
  <2>1. kept = Tree("BAnd", w, <<a, not>>, 0)
    BY DEF Node, Tree, kept
  <2>2. OperandTypes("BAnd", w, a.type, not.type)
    BY <1>2, <1>11 DEF OperandTypes, Arithmetic, w
  <2>3. kept \in m.E /\ kept.type = w /\ m.V[kept] = Wrap(w, Calculated("BAnd", m.V[a], m.V[not]))
    BY <1>2, <1>11, <2>1, <2>2, MakeBinary
  <2> DEFINE c == Pow2[w] - 1 - n
  <2>4. Calculated("BAnd", m.V[a], m.V[not]) = BitAnd[x][c]
    BY <1>11 DEF Calculated
  <2> HIDE DEF n, x
  <2>5. n \in 0 .. Pow2[w] - 1 /\ x \in 0 .. Pow2[w] - 1
    BY <1>3, <1>7 DEF Words, x
  <2>6. BitAnd[c][x] = x - BitAnd[n][x]
    BY <1>2, <2>5, BitAndComplement
  <2>7. c \in Nat /\ x \in Nat /\ c \in Words(w) /\ x \in Words(w)
    BY <1>6, <2>5 DEF Words
  <2>8. BitAnd[x][c] = BitAnd[c][x]
    BY <2>7, BitAndBounds
  <2>9. BitAnd[x][c] \in Words(w)
    BY <1>2, <2>7, BitOpsInRange
  <2>10. BitAnd[x][c] = old
    BY <2>6, <2>8
  <2> HIDE DEF c, old
  <2>11. Wrap(w, old) = old
    BY <1>8, <2>9, <2>10
  <2> QED BY <2>3, <2>4, <2>10, <2>11
<1>13. cast \in m.E /\ cast.type = w /\ m.V[cast] = y
  <2>1. LET c == Node("Cast", w, <<e>>) IN c \in m.E /\ c.type = w /\ m.V[c] = Wrap(w, m.V[e])
    BY <1>2, <1>4, MakeCast
  <2>2. y \in Words(w)
    <3>1. e.type <= w
      BY <1>2, <1>4
    <3>2. Pow2[e.type] <= Pow2[w] /\ Pow2[e.type] \in Nat
      BY <1>2, <1>4, <3>1, Pow2Grows, Pow2Facts
    <3> QED BY <1>4, <1>6, <3>2 DEF Words
  <2> QED BY <1>8, <2>1, <2>2 DEF cast
<1>14. by \in m.E /\ by.type = InfInt /\ m.V[by] = l
  BY <1>2, MakeInt DEF by
<1>15. shl \in m.E /\ shl.type = w /\ m.V[shl] = z
  <2>1. shl = Tree("Shl", w, <<cast, by>>, 0)
    BY DEF Node, Tree, shl
  <2>2. OperandTypes("Shl", w, cast.type, by.type)
    BY <1>2, <1>13, <1>14 DEF OperandTypes
  <2>3. shl \in m.E /\ shl.type = w /\ m.V[shl] = Wrap(w, Calculated("Shl", m.V[cast], m.V[by]))
    BY <1>13, <1>14, <2>1, <2>2, MakeBinary
  <2>4. Calculated("Shl", m.V[cast], m.V[by]) = z
    BY <1>13, <1>14 DEF Calculated
  <2> HIDE DEF z
  <2> QED BY <1>7, <1>8, <2>3, <2>4
<1>16. moved \in m.E /\ moved.type = w /\ m.V[moved] = z
  <2>1. moved = Tree("BAnd", w, <<shl, mask>>, 0)
    BY DEF Node, Tree, moved
  <2>2. OperandTypes("BAnd", w, shl.type, mask.type)
    BY <1>2, <1>10, <1>15 DEF OperandTypes, Arithmetic
  <2>3. moved \in m.E /\ moved.type = w /\ m.V[moved] = Wrap(w, Calculated("BAnd", m.V[shl], m.V[mask]))
    BY <1>10, <1>15, <2>1, <2>2, MakeBinary
  <2>4. Calculated("BAnd", m.V[shl], m.V[mask]) = BitAnd[z][n]
    BY <1>10, <1>15 DEF Calculated
  <2>5. BitAnd[z][n] = z
    BY <1>5
  <2> HIDE DEF z, n
  <2> QED BY <1>7, <1>8, <2>3, <2>4, <2>5
<1>17. or \in m.E /\ or.type = w /\ m.V[or] = BitOr(old, z)
  <2>1. or = Tree("BOr", w, <<kept, moved>>, 0)
    BY DEF Node, Tree, or
  <2>2. OperandTypes("BOr", w, kept.type, moved.type)
    BY <1>2, <1>12, <1>16 DEF OperandTypes, Arithmetic
  <2>3. or \in m.E /\ or.type = w /\ m.V[or] = Wrap(w, Calculated("BOr", m.V[kept], m.V[moved]))
    BY <1>12, <1>16, <2>1, <2>2, MakeBinary
  <2>4. Calculated("BOr", m.V[kept], m.V[moved]) = BitOr(old, z)
    BY <1>12, <1>16 DEF Calculated, BitOr
  <2>5. old \in Words(w)
    BY <1>2, <1>12, WordValue
  <2> HIDE DEF old, z
  <2>6. BitOr(old, z) \in Words(w)
    BY <1>2, <1>7, <2>5, BitOpsInRange
  <2> QED BY <1>8, <2>3, <2>4, <2>6
<1>18. m.V[or] = Replaced(x, y, h, l)
  BY <1>5, <1>17
<1>19. new.left = a /\ new.right = or
  BY <1>1
<1> HIDE DEF x, y
<1> QED BY <1>17, <1>18, <1>19 DEF new, a, h, l, w, e, x, y

-----------------------------------------------------------------------------
(* Strength reduction of the bitwise operations.                           *)

\* The complement of a word of w bits.
LEMMA Complement ==
  ASSUME NEW w \in Nat, NEW a \in Words(w)
  PROVE  /\ Wrap(w, -a - 1) = Pow2[w] - 1 - a /\ Pow2[w] - 1 - a \in Words(w)
         /\ Pow2[w] - 1 - (Pow2[w] - 1 - a) = a
<1> DEFINE P == Pow2[w]
<1>1. Wrap(w, -a - 1) = (-a - 1) % P
  BY DEF Wrap
<1>2. P \in Nat \ {0} /\ a \in 0 .. P - 1 /\ Words(w) = 0 .. P - 1
  BY Pow2Facts DEF Words
<1> HIDE DEF P
<1>3. -a - 1 \in Int /\ P - 1 - a \in 0 .. P - 1 /\ -1 \in Int /\ -a - 1 = P * (-1) + (P - 1 - a)
  BY <1>2
<1>4. (-a - 1) % P = P - 1 - a
  BY <1>2, <1>3, DivModUnique
<1>5. P - 1 - (P - 1 - a) = a
  BY <1>2
<1> QED BY <1>1, <1>2, <1>3, <1>4, <1>5 DEF P

\* The value of a complement.
LEMMA CmplNode ==
  ASSUME NEW m, Meaning(m), NEW e \in m.E, e.op = "Cmpl"
  PROVE  /\ e.args[1] \in m.E /\ e.type \in Nat /\ e.args[1].type = e.type
         /\ m.V[e] = Pow2[e.type] - 1 - m.V[e.args[1]] /\ m.V[e.args[1]] \in Words(e.type)
<1>1. /\ e.args[1] \in m.E /\ e.type \in Nat /\ e.args[1].type = e.type
      /\ m.V[e] = Wrap(e.type, -m.V[e.args[1]] - 1)
  BY UnaryNode
<1>2. m.V[e.args[1]] \in Words(e.type)
  BY <1>1, WordValue
<1> QED BY <1>1, <1>2, Complement

\* A complement that a pass makes, and its value.
LEMMA MakeCmpl ==
  ASSUME NEW m, Meaning(m), NEW a \in m.E, a.type \in Nat
  PROVE  /\ Node("Cmpl", a.type, <<a>>) \in m.E /\ Node("Cmpl", a.type, <<a>>).type = a.type
         /\ m.V[Node("Cmpl", a.type, <<a>>)] = Pow2[a.type] - 1 - m.V[a]
<1> DEFINE c == Tree("Cmpl", a.type, <<a>>, 0)
<1>1. Node("Cmpl", a.type, <<a>>) = c
  BY DEF Node, Tree
<1>2. c \in m.E /\ c.type = a.type /\ m.V[c] = Wrap(a.type, -m.V[a] - 1)
  BY MakeUnary
<1>3. m.V[a] \in Words(a.type)
  BY WordValue
<1> HIDE DEF c
<1> QED BY <1>1, <1>2, <1>3, Complement

BitOf(op, a, b) == IF op = "BAnd" THEN BitAnd[a][b] ELSE IF op = "BOr" THEN BitOr(a, b) ELSE BitXor(a, b)
BitOps == {"BAnd", "BOr", "BXor"}

\* & | and ^ of words, which need no reduction.
LEMMA BitOfWords ==
  ASSUME NEW w \in Nat, NEW a \in Words(w), NEW b \in Words(w), NEW op \in BitOps
  PROVE  BitOf(op, a, b) \in Words(w) /\ Wrap(w, Calculated(op, a, b)) = BitOf(op, a, b)
<1>1. BitOf(op, a, b) \in Words(w)
  BY BitOpsInRange DEF BitOf
<1>2. Calculated(op, a, b) = BitOf(op, a, b)
  BY DEF Calculated, BitOf, BitOr, BitXor, BitOps
<1> QED BY <1>1, <1>2, WrapInRange, WordsAreNat

\* The value of an & | or ^.
LEMMA BitNode ==
  ASSUME NEW m, Meaning(m), NEW e \in m.E, e.op \in BitOps
  PROVE  /\ e.args[1] \in m.E /\ e.args[2] \in m.E /\ e.type \in Nat
         /\ e.args[1].type = e.type /\ e.args[2].type = e.type
         /\ m.V[e.args[1]] \in Words(e.type) /\ m.V[e.args[2]] \in Words(e.type)
         /\ m.V[e] = BitOf(e.op, m.V[e.args[1]], m.V[e.args[2]])
<1>1. e.op \in Arithmetic /\ e.op # "Add"
  BY DEF Arithmetic, BitOps
<1>2. /\ e.args[1] \in m.E /\ e.args[2] \in m.E /\ e.type \in Nat
      /\ e.args[1].type = e.type /\ e.args[2].type = e.type
      /\ m.V[e] = Wrap(e.type, Calculated(e.op, m.V[e.args[1]], m.V[e.args[2]]))
  BY <1>1, BinaryNode, ArithmeticNode
<1>3. m.V[e.args[1]] \in Words(e.type) /\ m.V[e.args[2]] \in Words(e.type)
  BY <1>2, WordValue
<1> QED BY <1>2, <1>3, BitOfWords

\* An & | or ^ that a pass makes, and its value.
LEMMA MakeBit ==
  ASSUME NEW m, Meaning(m), NEW op \in BitOps, NEW t \in Nat, NEW a \in m.E, NEW b \in m.E, NEW v \in Int,
         a.type = t, b.type = t
  PROVE  LET c == Tree(op, t, <<a, b>>, v)
         IN c \in m.E /\ c.type = t /\ m.V[c] = BitOf(op, m.V[a], m.V[b])
<1> DEFINE c == Tree(op, t, <<a, b>>, v)
<1>1. OperandTypes(op, t, a.type, b.type)
  BY DEF OperandTypes, Arithmetic, BitOps
<1>2. c \in m.E /\ c.type = t /\ m.V[c] = Wrap(t, Calculated(op, m.V[a], m.V[b]))
  BY <1>1, MakeBinary
<1>3. m.V[a] \in Words(t) /\ m.V[b] \in Words(t)
  BY WordValue
<1> HIDE DEF c
<1> QED BY <1>2, <1>3, BitOfWords DEF c

\* What isZero() accepts is 0, a word of no bits included.
LEMMA ZeroValue ==
  ASSUME NEW m, Meaning(m), NEW e \in m.E, IsZero(e)
  PROVE  m.V[e] = 0
<1>1. CASE e.type = 0
  <2>1. m.V[e] \in Words(0)
    BY <1>1, WordValue
  <2>2. Pow2[0] = 1
    BY Pow2Facts
  <2> QED BY <2>1, <2>2 DEF Words
<1>2. CASE e.type # 0
  BY <1>2, Leaf DEF IsZero, IsConstant
<1> QED BY <1>1, <1>2

\* What isAllOnes() accepts has all the bits of its type.
LEMMA AllOnesValue ==
  ASSUME NEW m, Meaning(m), NEW e \in m.E, e.type \in Nat, IsAllOnes(e)
  PROVE  m.V[e] = Pow2[e.type] - 1
<1>1. m.V[e] = e.v /\ e.v + 1 = Pow2[e.type] /\ e.v \in Int
  BY Leaf, Shape DEF IsAllOnes, IsConstant
<1> QED BY <1>1

\* postorder(Cmpl): two complements cancel.
LEMMA ReduceCmpl ==
  ASSUME NEW m, Meaning(m), NEW e \in m.E, e.op = "Cmpl", e.args[1].op = "Cmpl"
  PROVE  Same(m, e.args[1].args[1], e)
<1> DEFINE l == e.args[1]
           a == l.args[1]
           P == Pow2[e.type]
<1>1. l \in m.E /\ e.type \in Nat /\ l.type = e.type /\ m.V[e] = P - 1 - m.V[l]
  BY CmplNode
<1>2. a \in m.E /\ a.type = e.type /\ m.V[l] = P - 1 - m.V[a] /\ m.V[a] \in Words(e.type)
  BY <1>1, CmplNode
<1>3. P - 1 - (P - 1 - m.V[a]) = m.V[a]
  BY <1>1, <1>2, Complement
<1> QED BY <1>1, <1>2, <1>3 DEF Same

\* ~a op ~b is ~(a op' b), op' being the dual of op.
LEMMA ReduceDual ==
  ASSUME NEW m, Meaning(m), NEW e \in m.E, e.op \in {"BAnd", "BOr"},
         e.args[1].op = "Cmpl", e.args[2].op = "Cmpl", NEW dual, dual = IF e.op = "BAnd" THEN "BOr" ELSE "BAnd"
  PROVE  Same(m, Node("Cmpl", e.type, <<Node(dual, e.type, <<e.args[1].args[1], e.args[2].args[1]>>)>>), e)
<1> DEFINE l == e.args[1]
           r == e.args[2]
           a == l.args[1]
           b == r.args[1]
           w == e.type
           in == Node(dual, w, <<a, b>>)
           out == Node("Cmpl", w, <<in>>)
           M == Pow2[w] - 1
<1>1. l \in m.E /\ r \in m.E /\ w \in Nat /\ l.type = w /\ r.type = w
      /\ m.V[e] = BitOf(e.op, m.V[l], m.V[r])
  BY BitNode DEF BitOps
<1>2. a \in m.E /\ a.type = w /\ m.V[l] = M - m.V[a] /\ m.V[a] \in Words(w)
  BY <1>1, CmplNode
<1>3. b \in m.E /\ b.type = w /\ m.V[r] = M - m.V[b] /\ m.V[b] \in Words(w)
  BY <1>1, CmplNode
<1>4. l.op = "Cmpl" /\ r.op = "Cmpl"
  OBVIOUS
<1> HIDE DEF l, r, a, b, w, in, out
<1>5. in \in m.E /\ in.type = w /\ m.V[in] = BitOf(dual, m.V[a], m.V[b])
  <2>1. in = Tree(dual, w, <<a, b>>, 0)
    BY DEF in, Node, Tree
  <2>2. dual \in BitOps
    BY DEF BitOps
  <2> QED BY <1>1, <1>2, <1>3, <2>1, <2>2, MakeBit
<1>6. out \in m.E /\ out.type = w /\ m.V[out] = M - m.V[in]
  BY <1>1, <1>5, MakeCmpl DEF out
<1>7. /\ BitAnd[M - m.V[a]][M - m.V[b]] = M - BitOr(m.V[a], m.V[b])
      /\ BitOr(M - m.V[a], M - m.V[b]) = M - BitAnd[m.V[a]][m.V[b]]
  BY <1>1, <1>2, <1>3, DeMorgan
<1>8. m.V[out] = m.V[e]
  BY <1>1, <1>2, <1>3, <1>5, <1>6, <1>7 DEF BitOf
<1> QED BY <1>6, <1>8 DEF Same, out, in, w, a, b, l, r

\* postorder(BAnd) keeps the value.
LEMMA ReduceBAnd ==
  ASSUME NEW m, Meaning(m), NEW e \in m.E, e.op = "BAnd"
  PROVE  Same(m, BAndReduced(e, e.args[1], e.args[2]), e)
<1> DEFINE l == e.args[1]
           r == e.args[2]
           w == e.type
           a == m.V[l]
           b == m.V[r]
           dual == Node("Cmpl", w, <<Node("BOr", w, <<l.args[1], r.args[1]>>)>>)
<1>1. l \in m.E /\ r \in m.E /\ w \in Nat /\ l.type = w /\ r.type = w
      /\ a \in Words(w) /\ b \in Words(w) /\ m.V[e] = BitAnd[a][b]
  BY BitNode DEF BitOps, BitOf
<1>2. BitAnd[a][b] = BitAnd[b][a] /\ BitAnd[a][a] = a /\ BitAnd[0][b] = 0 /\ BitAnd[a][0] = 0
      /\ BitAnd[a][Pow2[w] - 1] = a /\ BitAnd[b][Pow2[w] - 1] = b
      /\ BitAnd[Pow2[w] - 1][b] = b
  <2> HIDE DEF a, b, w
  <2>1. a \in Nat /\ b \in Nat /\ Pow2[w] - 1 \in Nat
    BY <1>1, WordsAreNat
  <2>2. BitAnd[a][Pow2[w] - 1] = a /\ BitAnd[b][Pow2[w] - 1] = b
    BY <1>1, BitAndComplement DEF Words
  <2>3. BitAnd[Pow2[w] - 1][b] = BitAnd[b][Pow2[w] - 1]
    BY <2>1, BitAndBounds
  <2> QED BY <2>1, <2>2, <2>3, BitAndBounds
<1>3. IsAllOnes(l) => a = Pow2[w] - 1
  BY <1>1, AllOnesValue
<1>4. IsAllOnes(r) => b = Pow2[w] - 1
  BY <1>1, AllOnesValue
<1>5. (IsZero(l) => a = 0) /\ (IsZero(r) => b = 0)
  BY <1>1, ZeroValue
<1>6. l.op = "Cmpl" /\ r.op = "Cmpl" => Same(m, dual, e)
  BY ReduceDual
<1>7. e \in m.E
  OBVIOUS
<1> DEFINE x == BAndReduced(e, l, r)
<1> SUFFICES Same(m, x, e)
  OBVIOUS
<1> HIDE DEF l, r, w, dual
<1>8. BAndReduced(e, l, r) = IF IsAllOnes(l) THEN r ELSE IF IsAllOnes(r) THEN l
                             ELSE IF l.op = "Cmpl" /\ r.op = "Cmpl" THEN dual
                             ELSE IF IsZero(l) THEN l ELSE IF IsZero(r) \/ l = r THEN r ELSE e
  BY DEF BAndReduced, dual, w
<1>9. e.type = w
  BY DEF w
<1> HIDE DEF a, b, x
<1>10. CASE IsAllOnes(l)
  <2>1. x = r /\ BitAnd[a][b] = b
    BY <1>2, <1>3, <1>8, <1>10 DEF x
  <2> QED BY <1>1, <1>9, <2>1 DEF Same, a, b
<1>11. CASE ~IsAllOnes(l) /\ IsAllOnes(r)
  <2>1. x = l /\ BitAnd[a][b] = a
    BY <1>2, <1>4, <1>8, <1>11 DEF x
  <2> QED BY <1>1, <1>9, <2>1 DEF Same, a, b
<1>12. CASE ~IsAllOnes(l) /\ ~IsAllOnes(r) /\ l.op = "Cmpl" /\ r.op = "Cmpl"
  <2>1. x = dual
    BY <1>8, <1>12 DEF x
  <2> QED BY <1>6, <1>12, <2>1
<1>13. CASE ~IsAllOnes(l) /\ ~IsAllOnes(r) /\ ~(l.op = "Cmpl" /\ r.op = "Cmpl")
  <2>1. x = IF IsZero(l) THEN l ELSE IF IsZero(r) \/ l = r THEN r ELSE e
    BY <1>8, <1>13 DEF x
  <2>2. CASE IsZero(l)
    <3>1. x = l /\ BitAnd[a][b] = a
      BY <1>2, <1>5, <2>1, <2>2
    <3> QED BY <1>1, <1>9, <3>1 DEF Same, a, b
  <2>3. CASE ~IsZero(l) /\ (IsZero(r) \/ l = r)
    <3>1. x = r /\ BitAnd[a][b] = b
      BY <1>2, <1>5, <2>1, <2>3 DEF a, b
    <3> QED BY <1>1, <1>9, <3>1 DEF Same, a, b
  <2>4. CASE ~IsZero(l) /\ ~(IsZero(r) \/ l = r)
    BY <1>7, <2>1, <2>4, SameItself
  <2> QED BY <2>2, <2>3, <2>4
<1> QED BY <1>10, <1>11, <1>12, <1>13

\* postorder(BOr) keeps the value.
LEMMA ReduceBOr ==
  ASSUME NEW m, Meaning(m), NEW e \in m.E, e.op = "BOr"
  PROVE  Same(m, BOrReduced(e, e.args[1], e.args[2]), e)
<1> DEFINE l == e.args[1]
           r == e.args[2]
           w == e.type
           a == m.V[l]
           b == m.V[r]
           dual == Node("Cmpl", w, <<Node("BAnd", w, <<l.args[1], r.args[1]>>)>>)
<1>1. l \in m.E /\ r \in m.E /\ w \in Nat /\ l.type = w /\ r.type = w
      /\ a \in Words(w) /\ b \in Words(w) /\ m.V[e] = BitOr(a, b)
  BY BitNode DEF BitOps, BitOf
<1>2. BitOr(a, a) = a /\ BitOr(0, b) = b /\ BitOr(a, 0) = a
  <2> HIDE DEF a, b, w
  <2>1. a \in Nat /\ b \in Nat
    BY <1>1, WordsAreNat
  <2>2. BitAnd[a][a] = a /\ BitAnd[0][b] = 0 /\ BitAnd[a][0] = 0
    BY <2>1, BitAndBounds
  <2> QED BY <2>1, <2>2 DEF BitOr
<1>3. (IsZero(l) => a = 0) /\ (IsZero(r) => b = 0)
  BY <1>1, ZeroValue
<1>4. l.op = "Cmpl" /\ r.op = "Cmpl" => Same(m, dual, e)
  BY ReduceDual
<1>5. e \in m.E
  OBVIOUS
<1> DEFINE x == BOrReduced(e, l, r)
<1> SUFFICES Same(m, x, e)
  OBVIOUS
<1> HIDE DEF l, r, w, dual
<1>6. BOrReduced(e, l, r) = IF IsZero(l) THEN r ELSE IF IsZero(r) THEN l
                            ELSE IF l.op = "Cmpl" /\ r.op = "Cmpl" THEN dual
                            ELSE IF l = r THEN l ELSE e
  BY DEF BOrReduced, dual, w
<1>7. e.type = w
  BY DEF w
<1> HIDE DEF a, b, x
<1>8. CASE IsZero(l)
  <2>1. x = r /\ BitOr(a, b) = b
    BY <1>2, <1>3, <1>6, <1>8 DEF x
  <2> QED BY <1>1, <1>7, <2>1 DEF Same, a, b
<1>9. CASE ~IsZero(l) /\ IsZero(r)
  <2>1. x = l /\ BitOr(a, b) = a
    BY <1>2, <1>3, <1>6, <1>9 DEF x
  <2> QED BY <1>1, <1>7, <2>1 DEF Same, a, b
<1>10. CASE ~IsZero(l) /\ ~IsZero(r) /\ l.op = "Cmpl" /\ r.op = "Cmpl"
  <2>1. x = dual
    BY <1>6, <1>10 DEF x
  <2> QED BY <1>4, <1>10, <2>1
<1>11. CASE ~IsZero(l) /\ ~IsZero(r) /\ ~(l.op = "Cmpl" /\ r.op = "Cmpl")
  <2>1. x = IF l = r THEN l ELSE e
    BY <1>6, <1>11 DEF x
  <2>2. CASE l = r
    <3>1. x = l /\ BitOr(a, b) = a
      BY <1>2, <2>1, <2>2 DEF a, b
    <3> QED BY <1>1, <1>7, <3>1 DEF Same, a, b
  <2>3. CASE l # r
    BY <1>5, <2>1, <2>3, SameItself
  <2> QED BY <2>2, <2>3
<1> QED BY <1>8, <1>9, <1>10, <1>11

\* postorder(BXor) keeps the value.
LEMMA ReduceBXor ==
  ASSUME NEW m, Meaning(m), NEW e \in m.E, e.op = "BXor"
  PROVE  Same(m, BXorReduced(e, e.args[1], e.args[2]), e)
<1> DEFINE l == e.args[1]
           r == e.args[2]
           w == e.type
           Bare(y) == IF y.op = "Cmpl" THEN y.args[1] ELSE y
           c == Bare(l)
           d == Bare(r)
           bare == WithArgs(e, <<c, d>>)
           not == Node("Cmpl", w, <<bare>>)
           zero == Constant(c.type, 0)
           x == BXorReduced(e, l, r)
           M == Pow2[w] - 1
           X == BitXor(m.V[c], m.V[d])
<1> SUFFICES Same(m, x, e)
  OBVIOUS
<1>1. x = IF IsZero(l) THEN r ELSE IF IsZero(r) THEN l
          ELSE IF (l.op = "Cmpl") # (r.op = "Cmpl") THEN not
          ELSE IF c = d THEN zero ELSE bare
  BY DEF BXorReduced
<1>2. l \in m.E /\ r \in m.E /\ w \in Nat /\ l.type = w /\ r.type = w
      /\ m.V[l] \in Words(w) /\ m.V[r] \in Words(w) /\ m.V[e] = BitXor(m.V[l], m.V[r])
  BY BitNode DEF BitOps, BitOf
<1>3. \A y \in m.E : y.type = w => /\ Bare(y) \in m.E /\ Bare(y).type = w /\ m.V[Bare(y)] \in Words(w)
                                   /\ m.V[y] = IF y.op = "Cmpl" THEN M - m.V[Bare(y)] ELSE m.V[Bare(y)]
  <2> SUFFICES ASSUME NEW y \in m.E, y.type = w
               PROVE  /\ Bare(y) \in m.E /\ Bare(y).type = w /\ m.V[Bare(y)] \in Words(w)
                      /\ m.V[y] = IF y.op = "Cmpl" THEN M - m.V[Bare(y)] ELSE m.V[Bare(y)]
    OBVIOUS
  <2>1. CASE y.op = "Cmpl"
    BY <2>1, CmplNode
  <2>2. CASE y.op # "Cmpl"
    BY <1>2, <2>2, WordValue
  <2> QED BY <2>1, <2>2
<1>4. c \in m.E /\ c.type = w /\ m.V[c] \in Words(w) /\ m.V[l] = IF l.op = "Cmpl" THEN M - m.V[c] ELSE m.V[c]
  BY <1>2, <1>3
<1>5. d \in m.E /\ d.type = w /\ m.V[d] \in Words(w) /\ m.V[r] = IF r.op = "Cmpl" THEN M - m.V[d] ELSE m.V[d]
  BY <1>2, <1>3
<1>6. bare = Tree("BXor", w, <<c, d>>, e.v) /\ e.v \in Int
  <2> HIDE DEF c, d
  <2> QED BY OtherOperands
<1>7. e.type = w /\ e \in m.E
  OBVIOUS
<1> HIDE DEF l, r, w, Bare, c, d, bare, not, zero, x
<1>8. bare \in m.E /\ bare.type = w /\ m.V[bare] = X
  BY <1>2, <1>4, <1>5, <1>6, MakeBit DEF BitOps, BitOf
<1>9. not \in m.E /\ not.type = w /\ m.V[not] = M - X
  BY <1>2, <1>8, MakeCmpl DEF not
<1>10. zero \in m.E /\ zero.type = w /\ m.V[zero] = 0
  <2>1. Wrap(w, 0) = 0
    BY <1>2, WrapInRange, WordsAreNat
  <2> QED BY <1>2, <1>4, <2>1, MakeConstant DEF zero, InfInt
<1>11. m.V[e] = IF (l.op = "Cmpl") # (r.op = "Cmpl") THEN M - X ELSE X
  <2> DEFINE a == m.V[c]
             b == m.V[d]
  <2>1. a \in Words(w) /\ b \in Words(w)
    BY <1>4, <1>5
  <2> HIDE DEF a, b
  <2>2. BitXor(M - a, b) = M - BitXor(a, b) /\ BitXor(a, M - b) = M - BitXor(a, b)
    BY <1>2, <2>1, DeMorgan
  <2>3. M - b \in Words(w)
    BY <1>2, <2>1, Complement
  <2>4. BitXor(M - a, M - b) = M - BitXor(a, M - b)
    BY <1>2, <2>1, <2>3, DeMorgan
  <2>5. M - (M - BitXor(a, b)) = BitXor(a, b)
    BY <1>2, <2>1, BitOpsInRange, Complement
  <2>6. BitXor(M - a, M - b) = BitXor(a, b)
    BY <2>2, <2>4, <2>5
  <2>7. X = BitXor(a, b)
    BY DEF a, b
  <2>8. m.V[l] = (IF l.op = "Cmpl" THEN M - a ELSE a) /\ m.V[r] = (IF r.op = "Cmpl" THEN M - b ELSE b)
    BY <1>4, <1>5 DEF a, b
  <2> HIDE DEF X, M
  <2> QED BY <1>2, <2>2, <2>6, <2>7, <2>8
<1>12. BitXor(m.V[l], 0) = m.V[l] /\ BitXor(0, m.V[r]) = m.V[r]
  BY <1>2, WordsAreNat, BitXorSymmetric
<1>13. (IsZero(l) => m.V[l] = 0) /\ (IsZero(r) => m.V[r] = 0)
  BY <1>2, ZeroValue
<1>14. c = d => X = 0
  BY <1>2, <1>4, WordsAreNat, BitXorSymmetric
<1> HIDE DEF X, M
<1>15. CASE IsZero(l)
  <2>1. x = r /\ m.V[r] = m.V[e]
    BY <1>1, <1>2, <1>12, <1>13, <1>15
  <2> QED BY <1>2, <1>7, <2>1 DEF Same
<1>16. CASE ~IsZero(l) /\ IsZero(r)
  <2>1. x = l /\ m.V[l] = m.V[e]
    BY <1>1, <1>2, <1>12, <1>13, <1>16
  <2> QED BY <1>2, <1>7, <2>1 DEF Same
<1>17. CASE ~IsZero(l) /\ ~IsZero(r) /\ (l.op = "Cmpl") # (r.op = "Cmpl")
  <2>1. x = not /\ m.V[not] = m.V[e]
    BY <1>1, <1>9, <1>11, <1>17
  <2> QED BY <1>7, <1>9, <2>1 DEF Same
<1>18. CASE ~IsZero(l) /\ ~IsZero(r) /\ ~((l.op = "Cmpl") # (r.op = "Cmpl")) /\ c = d
  <2>1. x = zero /\ m.V[zero] = m.V[e]
    BY <1>1, <1>10, <1>11, <1>14, <1>18
  <2> QED BY <1>7, <1>10, <2>1 DEF Same
<1>19. CASE ~IsZero(l) /\ ~IsZero(r) /\ ~((l.op = "Cmpl") # (r.op = "Cmpl")) /\ c # d
  <2>1. x = bare /\ m.V[bare] = m.V[e]
    BY <1>1, <1>8, <1>11, <1>19
  <2> QED BY <1>7, <1>8, <2>1 DEF Same
<1> QED BY <1>15, <1>16, <1>17, <1>18, <1>19

-----------------------------------------------------------------------------
(* Strength reduction of the operations on Booleans.                       *)

\* A Boolean literal is a bool.
LEMMA LiteralType ==
  ASSUME NEW m, Meaning(m), NEW e \in m.E, e.op = "BoolLiteral"
  PROVE  e.type = Bool /\ e.v \in Bit /\ m.V[e] = e.v
<1>1. e.type = Bool /\ e.v \in Bit
  BY Shape DEF Typed, Arithmetic, Relations
<1> QED BY <1>1, Leaf DEF IsConstant

\* The value of && and ||.
LEMMA LogicValue ==
  ASSUME NEW m, Meaning(m), NEW e \in m.E, e.op \in {"LAnd", "LOr"}
  PROVE  /\ e.args[1] \in m.E /\ e.args[2] \in m.E
         /\ e.type = Bool /\ e.args[1].type = Bool /\ e.args[2].type = Bool
         /\ m.V[e.args[1]] \in Bit /\ m.V[e.args[2]] \in Bit
         /\ m.V[e] = IF e.op = "LAnd" THEN Holds(m.V[e.args[1]] = 1 /\ m.V[e.args[2]] = 1)
                     ELSE Holds(m.V[e.args[1]] = 1 \/ m.V[e.args[2]] = 1)
<1> DEFINE l == e.args[1]
           r == e.args[2]
<1>1. l \in m.E /\ r \in m.E /\ e.type = Bool /\ l.type = Bool /\ r.type = Bool
      /\ m.V[e] = Wrap(e.type, Calculated(e.op, m.V[l], m.V[r]))
  BY BinaryNode, LogicNode
<1>2. m.V[l] \in Bit /\ m.V[r] \in Bit
  BY <1>1, BoolValue
<1>3. Calculated(e.op, m.V[l], m.V[r]) =
        IF e.op = "LAnd" THEN Holds(m.V[l] = 1 /\ m.V[r] = 1) ELSE Holds(m.V[l] = 1 \/ m.V[r] = 1)
  BY DEF Calculated
<1>4. Wrap(Bool, Calculated(e.op, m.V[l], m.V[r])) = Calculated(e.op, m.V[l], m.V[r])
  BY DEF Wrap, Bool
<1> QED BY <1>1, <1>2, <1>3, <1>4

\* postorder(LAnd) and postorder(LOr) keep the value.
LEMMA ReduceLogic ==
  ASSUME NEW m, Meaning(m), NEW e \in m.E, e.op \in {"LAnd", "LOr"}
  PROVE  LET l == e.args[1]
             r == e.args[2]
         IN Same(m, IF e.op = "LAnd"
                    THEN (IF IsTrue(l) THEN r ELSE IF IsFalse(l) \/ IsTrue(r) THEN l ELSE e)
                    ELSE (IF IsFalse(l) THEN r ELSE IF IsTrue(l) \/ IsFalse(r) THEN l ELSE e), e)
<1> DEFINE l == e.args[1]
           r == e.args[2]
           a == m.V[l]
           b == m.V[r]
           x == IF e.op = "LAnd"
                THEN (IF IsTrue(l) THEN r ELSE IF IsFalse(l) \/ IsTrue(r) THEN l ELSE e)
                ELSE (IF IsFalse(l) THEN r ELSE IF IsTrue(l) \/ IsFalse(r) THEN l ELSE e)
<1> SUFFICES Same(m, x, e)
  OBVIOUS
<1>1. /\ l \in m.E /\ r \in m.E /\ e.type = Bool /\ l.type = Bool /\ r.type = Bool /\ a \in Bit /\ b \in Bit
      /\ m.V[e] = IF e.op = "LAnd" THEN Holds(a = 1 /\ b = 1) ELSE Holds(a = 1 \/ b = 1)
  BY LogicValue
<1>2. (IsTrue(l) => a = 1) /\ (IsFalse(l) => a = 0) /\ (IsTrue(r) => b = 1) /\ (IsFalse(r) => b = 0)
  BY <1>1, LiteralType DEF IsTrue, IsFalse
<1>3. x \in {l, r, e}
  OBVIOUS
<1>4. x \in m.E /\ x.type = e.type
  BY <1>1, <1>3
<1>5. m.V[x] = m.V[e]
  <2>1. CASE x = r /\ ((e.op = "LAnd" /\ a = 1) \/ (e.op = "LOr" /\ a = 0))
    BY <1>1, <2>1 DEF Holds, Bit
  <2>2. CASE x = l /\ ((e.op = "LAnd" /\ (a = 0 \/ b = 1)) \/ (e.op = "LOr" /\ (a = 1 \/ b = 0)))
    BY <1>1, <2>2 DEF Holds, Bit
  <2>3. CASE x = e
    BY <2>3
  <2> HIDE DEF a, b, l, r
  <2> QED BY <1>2, <2>1, <2>2, <2>3
<1> QED BY <1>4, <1>5 DEF Same

\* The value of a comparison.
LEMMA RelationValue ==
  ASSUME NEW m, Meaning(m), NEW e \in m.E, e.op \in Relations
  PROVE  /\ e.args[1] \in m.E /\ e.args[2] \in m.E /\ e.type = Bool /\ e.args[1].type = e.args[2].type
         /\ m.V[e] = Calculated(e.op, m.V[e.args[1]], m.V[e.args[2]])
<1>1. /\ e.args[1] \in m.E /\ e.args[2] \in m.E /\ e.type = Bool /\ e.args[1].type = e.args[2].type
      /\ m.V[e] = Wrap(e.type, Calculated(e.op, m.V[e.args[1]], m.V[e.args[2]]))
  BY BinaryNode, RelationNode
<1> QED BY <1>1 DEF Wrap, Bool

\* postorder(Equ) and postorder(Neq) keep the value.
LEMMA ReduceBool ==
  ASSUME NEW m, Meaning(m), NEW e \in m.E, e.op \in {"Equ", "Neq"}
  PROVE  Same(m, BoolReduced(e, e.args[1], e.args[2]), e)
<1> DEFINE l == e.args[1]
           r == e.args[2]
           a == m.V[l]
           b == m.V[r]
           same == IF e.op = "Equ" THEN 1 ELSE 0
           x == BoolReduced(e, l, r)
<1> SUFFICES Same(m, x, e)
  OBVIOUS
<1>1. l \in m.E /\ r \in m.E /\ e.type = Bool /\ l.type = r.type /\ m.V[e] = Calculated(e.op, a, b)
  BY RelationValue DEF Relations
<1>2. m.V[e] = IF e.op = "Equ" THEN Holds(a = b) ELSE Holds(a # b)
  BY <1>1 DEF Calculated
<1>3. x = IF l.op = "BoolLiteral" THEN (IF l.v = same THEN r ELSE NotOf(r))
          ELSE IF r.op = "BoolLiteral" THEN (IF r.v = same THEN l ELSE NotOf(l)) ELSE e
  BY DEF BoolReduced
<1>4. CASE l.op = "BoolLiteral"
  <2>1. l.v = a /\ a \in Bit /\ r.type = Bool
    BY <1>1, <1>4, LiteralType
  <2>2. b \in Bit /\ NotOf(r) \in m.E /\ NotOf(r).type = Bool /\ m.V[NotOf(r)] = 1 - b
    BY <1>1, <2>1, BoolValue, MakeNot
  <2>3. x = IF a = same THEN r ELSE NotOf(r)
    BY <1>3, <1>4, <2>1
  <2> HIDE DEF l, r, a, x
  <2>4. m.V[e] = IF a = same THEN b ELSE 1 - b
    BY <1>2, <2>1, <2>2 DEF Holds, Bit
  <2> QED BY <1>1, <2>1, <2>2, <2>3, <2>4 DEF Same
<1>5. CASE l.op # "BoolLiteral" /\ r.op = "BoolLiteral"
  <2>1. r.v = b /\ b \in Bit /\ l.type = Bool
    BY <1>1, <1>5, LiteralType
  <2>2. a \in Bit /\ NotOf(l) \in m.E /\ NotOf(l).type = Bool /\ m.V[NotOf(l)] = 1 - a
    BY <1>1, <2>1, BoolValue, MakeNot
  <2>3. x = IF b = same THEN l ELSE NotOf(l)
    BY <1>3, <1>5, <2>1
  <2> HIDE DEF l, r, b, x
  <2>4. m.V[e] = IF b = same THEN a ELSE 1 - a
    BY <1>2, <2>1, <2>2 DEF Holds, Bit
  <2> QED BY <1>1, <2>1, <2>2, <2>3, <2>4 DEF Same
<1>6. CASE l.op # "BoolLiteral" /\ r.op # "BoolLiteral"
  <2>1. x = e
    BY <1>3, <1>6
  <2> QED BY <2>1, SameItself
<1> QED BY <1>4, <1>5, <1>6

\* A sequence of two operands, written out.
LEMMA TwoOperands ==
  ASSUME NEW S, NEW s \in Seq(S), Len(s) = 2
  PROVE  s = <<s[1], s[2]>>
OBVIOUS

\* Of two opposite comparisons exactly one holds.
LEMMA OppositeHolds ==
  ASSUME NEW op \in Relations, NEW a \in Int, NEW b \in Int
  PROVE  /\ Opposite[op] \in Relations /\ (op \in {"Equ", "Neq"} => Opposite[op] \in {"Equ", "Neq"})
         /\ Calculated(Opposite[op], a, b) = 1 - Calculated(op, a, b)
<1>1. CASE op = "Equ"
  <2>1. Opposite[op] = "Neq"
    BY <1>1 DEF Opposite
  <2> QED BY <1>1, <2>1 DEF Calculated, Holds, Relations
<1>2. CASE op = "Neq"
  <2>1. Opposite[op] = "Equ"
    BY <1>2 DEF Opposite
  <2> QED BY <1>2, <2>1 DEF Calculated, Holds, Relations
<1>3. CASE op = "Leq"
  <2>1. Opposite[op] = "Grt"
    BY <1>3 DEF Opposite
  <2> QED BY <1>3, <2>1 DEF Calculated, Holds, Relations
<1>4. CASE op = "Geq"
  <2>1. Opposite[op] = "Lss"
    BY <1>4 DEF Opposite
  <2> QED BY <1>4, <2>1 DEF Calculated, Holds, Relations
<1>5. CASE op = "Lss"
  <2>1. Opposite[op] = "Geq"
    BY <1>5 DEF Opposite
  <2> QED BY <1>5, <2>1 DEF Calculated, Holds, Relations
<1>6. CASE op = "Grt"
  <2>1. Opposite[op] = "Leq"
    BY <1>6 DEF Opposite
  <2> QED BY <1>6, <2>1 DEF Calculated, Holds, Relations
<1> QED BY <1>1, <1>2, <1>3, <1>4, <1>5, <1>6 DEF Relations

\* postorder(LNot) keeps the value.
LEMMA ReduceNot ==
  ASSUME NEW m, Meaning(m), NEW e \in m.E, e.op = "LNot"
  PROVE  LET l == e.args[1]
         IN Same(m, IF l.op = "LNot" THEN l.args[1]
                    ELSE IF l.op \in Relations THEN [l EXCEPT !.op = Opposite[l.op]] ELSE e, e)
<1> DEFINE l == e.args[1]
           other == [l EXCEPT !.op = Opposite[l.op]]
<1>1. l \in m.E /\ e.type = Bool /\ l.type = Bool /\ m.V[e] = 1 - m.V[l]
  BY NotNode
<1>2. CASE l.op = "LNot"
  <2>1. l.args[1] \in m.E /\ l.args[1].type = Bool /\ m.V[l] = 1 - m.V[l.args[1]]
    BY <1>1, <1>2, NotNode
  <2>2. m.V[l.args[1]] \in Bit
    BY <2>1, BoolValue
  <2>3. 1 - (1 - m.V[l.args[1]]) = m.V[l.args[1]]
    BY <2>2 DEF Bit
  <2> QED BY <1>1, <1>2, <2>1, <2>3 DEF Same
<1>3. CASE l.op \in Relations
  <2> DEFINE op == l.op
             opp == Opposite[op]
             g == l.args
             n == l.v
             a == g[1]
             b == g[2]
             new == Tree(opp, Bool, <<a, b>>, n)
  <2>1. a \in m.E /\ b \in m.E /\ a.type = b.type /\ m.V[l] = Calculated(op, m.V[a], m.V[b])
    BY <1>1, <1>3, RelationValue
  <2>2. a.type \in Nat \/ (op \in {"Equ", "Neq"} /\ a.type = Bool)
    BY <1>1, <1>3, RelationNode
  <2>3. Len(g) = 2 /\ g \in Seq(m.E) /\ n \in Int
    BY <1>1, <1>3, BinaryNode, Shape
  <2>4. l = [op |-> op, type |-> Bool, args |-> g, v |-> n]
    BY <1>1, Shape
  <2>5. g = <<a, b>>
    BY <2>3, TwoOperands
  <2>6. op \in Relations
    BY <1>3
  <2> HIDE DEF op, g, n, a, b, l
  <2>7. other = new
    <3> DEFINE o == Opposite[l.op]
    <3>1. o = opp
      BY <2>4
    <3> HIDE DEF o, opp
    <3>2. [l EXCEPT !.op = o] = [op |-> o, type |-> Bool, args |-> g, v |-> n]
      BY <2>4
    <3> QED BY <2>5, <3>1, <3>2 DEF Tree, o
  <2>8. m.V[a] \in Int /\ m.V[b] \in Int
    BY <2>1, Shape
  <2>9. /\ opp \in Relations /\ (op \in {"Equ", "Neq"} => opp \in {"Equ", "Neq"})
        /\ Calculated(opp, m.V[a], m.V[b]) = 1 - Calculated(op, m.V[a], m.V[b])
    BY <2>6, <2>8, OppositeHolds
  <2> HIDE DEF opp
  <2>10. OperandTypes(opp, Bool, a.type, b.type)
    BY <2>1, <2>2, <2>9 DEF OperandTypes
  <2>11. new \in m.E /\ new.type = Bool /\ m.V[new] = Wrap(Bool, Calculated(opp, m.V[a], m.V[b]))
    BY <2>1, <2>3, <2>10, MakeBinary
  <2> HIDE DEF new
  <2>12. m.V[new] = m.V[e]
    BY <1>1, <2>1, <2>9, <2>11 DEF Wrap, Bool
  <2>13. Same(m, other, e)
    BY <1>1, <2>7, <2>11, <2>12 DEF Same
  <2>14. op # "LNot"
    BY <2>6 DEF Relations
  <2> QED BY <2>13, <2>14, <1>3 DEF op, l
<1>4. CASE l.op # "LNot" /\ l.op \notin Relations
  BY <1>4, SameItself
<1> QED BY <1>2, <1>3, <1>4

\* postorder(Mux) keeps the value.
LEMMA ReduceMux ==
  ASSUME NEW m, Meaning(m), NEW e \in m.E, e.op = "Mux"
  PROVE  Same(m, MuxReduced(e), e)
<1> DEFINE c == e.args[1]
           t == e.args[2]
           f == e.args[3]
           swap == WithArgs(e, <<c.args[1], f, t>>)
           x == MuxReduced(e)
<1>1. /\ c \in m.E /\ t \in m.E /\ f \in m.E /\ e.type \in Nat \cup {Bool}
      /\ c.type = Bool /\ t.type = e.type /\ f.type = e.type
      /\ m.V[e] = IF m.V[c] = 1 THEN m.V[t] ELSE m.V[f]
  BY MuxNode
<1>2. x = IF IsTrue(t) /\ IsFalse(f) THEN c
          ELSE IF IsFalse(t) /\ IsTrue(f) THEN NotOf(c)
          ELSE IF c.op = "LNot" THEN swap ELSE IF t = f THEN t ELSE e
  BY DEF MuxReduced
<1>3. m.V[c] \in Bit /\ NotOf(c) \in m.E /\ NotOf(c).type = Bool /\ m.V[NotOf(c)] = 1 - m.V[c]
  BY <1>1, BoolValue, MakeNot
<1>4. c.op = "LNot" => Same(m, swap, e)
  <2> SUFFICES ASSUME c.op = "LNot" PROVE Same(m, swap, e)
    OBVIOUS
  <2> DEFINE d == c.args[1]
             w == e.type
  <2>1. d \in m.E /\ d.type = Bool /\ m.V[c] = 1 - m.V[d]
    BY <1>1, NotNode
  <2>2. m.V[d] \in Bit
    BY <2>1, BoolValue
  <2>3. swap = Tree("Mux", w, <<d, f, t>>, e.v) /\ e.v \in Int
    <3> HIDE DEF d, f, t
    <3> QED BY OtherOperands DEF d
  <2>4. e.type = w
    OBVIOUS
  <2> HIDE DEF d, f, t, w, c, swap
  <2>5. swap \in m.E /\ swap.type = w /\ m.V[swap] = IF m.V[d] = 1 THEN m.V[f] ELSE m.V[t]
    <3> DEFINE v == e.v
               new == Tree("Mux", w, <<d, f, t>>, v)
    <3>1. w \in Nat \cup {Bool} /\ f.type = w /\ t.type = w /\ v \in Int /\ swap = new
      BY <1>1, <2>3, <2>4
    <3> HIDE DEF v
    <3>2. new \in m.E /\ new.type = w /\ m.V[new] = IF m.V[d] = 1 THEN m.V[f] ELSE m.V[t]
      BY <1>1, <2>1, <3>1, MakeMux
    <3> QED BY <3>1, <3>2
  <2>6. m.V[swap] = m.V[e]
    BY <1>1, <2>1, <2>2, <2>5 DEF Bit
  <2> QED BY <2>4, <2>5, <2>6 DEF Same
<1>5. CASE IsTrue(t) /\ IsFalse(f)
  <2>1. m.V[t] = 1 /\ m.V[f] = 0 /\ e.type = Bool
    BY <1>1, <1>5, LiteralType DEF IsTrue, IsFalse
  <2>2. x = c
    BY <1>2, <1>5
  <2>3. m.V[c] = m.V[e]
    BY <1>1, <1>3, <2>1 DEF Bit
  <2> QED BY <1>1, <2>1, <2>2, <2>3 DEF Same
<1>6. CASE ~(IsTrue(t) /\ IsFalse(f)) /\ IsFalse(t) /\ IsTrue(f)
  <2>1. m.V[t] = 0 /\ m.V[f] = 1 /\ e.type = Bool
    BY <1>1, <1>6, LiteralType DEF IsTrue, IsFalse
  <2>2. x = NotOf(c)
    BY <1>2, <1>6
  <2>3. m.V[NotOf(c)] = m.V[e]
    BY <1>1, <1>3, <2>1 DEF Bit
  <2> QED BY <1>3, <2>1, <2>2, <2>3 DEF Same
<1>7. CASE ~(IsTrue(t) /\ IsFalse(f)) /\ ~(IsFalse(t) /\ IsTrue(f)) /\ c.op = "LNot"
  <2>1. x = swap
    BY <1>2, <1>7
  <2> QED BY <1>4, <1>7, <2>1
<1>8. CASE ~(IsTrue(t) /\ IsFalse(f)) /\ ~(IsFalse(t) /\ IsTrue(f)) /\ c.op # "LNot"
  <2>1. x = IF t = f THEN t ELSE e
    BY <1>2, <1>8
  <2>2. t = f => Same(m, t, e)
    BY <1>1 DEF Same
  <2> QED BY <2>1, <2>2, SameItself
<1> QED BY <1>5, <1>6, <1>7, <1>8

-----------------------------------------------------------------------------
(* Strength reduction of sums, products and shifts.                        *)

\* The operands of an operation on words.
LEMMA WordNode ==
  ASSUME NEW m, Meaning(m), NEW e \in m.E, e.op \in Arithmetic, e.type # InfInt
  PROVE  /\ e.args[1] \in m.E /\ e.args[2] \in m.E /\ e.type \in Nat
         /\ e.args[1].type = e.type /\ e.args[2].type = e.type
         /\ m.V[e.args[1]] \in Words(e.type) /\ m.V[e.args[2]] \in Words(e.type)
         /\ m.V[e.args[1]] \in Nat /\ m.V[e.args[2]] \in Nat
         /\ m.V[e] = Wrap(e.type, Calculated(e.op, m.V[e.args[1]], m.V[e.args[2]]))
<1>1. /\ e.args[1] \in m.E /\ e.args[2] \in m.E /\ e.type \in Nat
      /\ e.args[1].type = e.type /\ e.args[2].type = e.type
      /\ m.V[e] = Wrap(e.type, Calculated(e.op, m.V[e.args[1]], m.V[e.args[2]]))
  BY BinaryNode, ArithmeticNode
<1>2. m.V[e.args[1]] \in Words(e.type) /\ m.V[e.args[2]] \in Words(e.type)
  BY <1>1, WordValue
<1>3. m.V[e.args[1]] \in Nat /\ m.V[e.args[2]] \in Nat
  BY <1>1, NatValue
<1> QED BY <1>1, <1>2, <1>3

\* An arithmetic operation that a pass makes, and its value.
LEMMA MakeWord ==
  ASSUME NEW m, Meaning(m), NEW op \in Arithmetic, NEW t \in Nat, NEW a \in m.E, NEW b \in m.E,
         a.type = t, b.type = t
  PROVE  LET c == Node(op, t, <<a, b>>)
         IN c \in m.E /\ c.type = t /\ m.V[c] = Wrap(t, Calculated(op, m.V[a], m.V[b]))
<1> DEFINE c == Tree(op, t, <<a, b>>, 0)
<1>1. OperandTypes(op, t, a.type, b.type)
  BY DEF OperandTypes
<1>2. c \in m.E /\ c.type = t /\ m.V[c] = Wrap(t, Calculated(op, m.V[a], m.V[b]))
  BY <1>1, MakeBinary
<1>3. Node(op, t, <<a, b>>) = c
  BY DEF Node, Tree
<1> HIDE DEF c
<1> QED BY <1>2, <1>3

\* A shift that a pass makes, and its value.
LEMMA MakeShift ==
  ASSUME NEW m, Meaning(m), NEW op \in {"Shl", "Shr"}, NEW t \in Nat, NEW a \in m.E, NEW b \in m.E,
         a.type = t, b.type \in Nat \cup {InfInt}
  PROVE  LET c == Node(op, t, <<a, b>>)
         IN c \in m.E /\ c.type = t /\ m.V[c] = Wrap(t, Calculated(op, m.V[a], m.V[b]))
<1> DEFINE c == Tree(op, t, <<a, b>>, 0)
<1>1. OperandTypes(op, t, a.type, b.type)
  BY DEF OperandTypes
<1>2. c \in m.E /\ c.type = t /\ m.V[c] = Wrap(t, Calculated(op, m.V[a], m.V[b]))
  BY <1>1, MakeBinary
<1>3. Node(op, t, <<a, b>>) = c
  BY DEF Node, Tree
<1> HIDE DEF c
<1> QED BY <1>2, <1>3

\* A constant of type bit<w> that a pass makes, and its value.
LEMMA MakeWordConstant ==
  ASSUME NEW m, Meaning(m), NEW t \in Nat, NEW n \in Int
  PROVE  Constant(t, n) \in m.E /\ Constant(t, n).type = t /\ m.V[Constant(t, n)] = Wrap(t, n)
<1>1. t # InfInt /\ t \in Nat \cup {InfInt}
  BY DEF InfInt
<1> QED BY <1>1, MakeConstant

\* postorder(Add) keeps the value.
LEMMA ReduceAdd ==
  ASSUME NEW m, Meaning(m), NEW e \in m.E, e.op = "Add"
  PROVE  LET l == e.args[1]
             r == e.args[2]
         IN Same(m, IF IsZero(r) THEN l ELSE IF IsZero(l) THEN r ELSE e, e)
<1> DEFINE l == e.args[1]
           r == e.args[2]
           a == m.V[l]
           b == m.V[r]
<1>1. l \in m.E /\ r \in m.E /\ l.type = e.type /\ r.type = e.type /\ m.V[e] = Wrap(e.type, Calculated(e.op, a, b))
      /\ e.type \in Nat \cup {InfInt}
  BY BinaryNode, ArithmeticNode DEF Arithmetic
<1>2. Calculated(e.op, a, b) = a + b
  BY DEF Calculated
<1>3. (IsZero(l) => a = 0) /\ (IsZero(r) => b = 0)
  BY <1>1, ZeroValue
<1>4. Wrap(e.type, a) = a /\ Wrap(e.type, b) = b /\ a \in Nat /\ b \in Nat
  BY <1>1, NatValue, WordValue DEF Wrap, InfInt
<1>5. IsZero(r) => Same(m, l, e)
  <2> HIDE DEF a, b
  <2>1. IsZero(r) => a + b = a
    BY <1>3, <1>4
  <2> QED BY <1>1, <1>2, <1>4, <2>1 DEF Same, a
<1>6. IsZero(l) => Same(m, r, e)
  <2> HIDE DEF a, b
  <2>1. IsZero(l) => a + b = b
    BY <1>3, <1>4
  <2> QED BY <1>1, <1>2, <1>4, <2>1 DEF Same, b
<1> QED BY <1>5, <1>6, SameItself

\* postorder(Sub) keeps the value, a subtrahend turned into the addend of its negation included.
LEMMA ReduceSub ==
  ASSUME NEW m, Meaning(m), NEW e \in m.E, e.op = "Sub"
  PROVE  Same(m, SubReduced(e, e.args[1], e.args[2]), e)
<1> DEFINE l == e.args[1]
           r == e.args[2]
           w == e.type
           a == m.V[l]
           b == m.V[r]
           neg == Node("Neg", w, <<r>>)
           minus == Constant(r.type, -r.v)
           add == Node("Add", w, <<l, minus>>)
           zero == Constant(l.type, 0)
           x == SubReduced(e, l, r)
<1> SUFFICES Same(m, x, e)
  OBVIOUS
<1>1. x = IF IsZero(r) THEN l ELSE IF IsZero(l) THEN neg ELSE IF r.op = "Constant" THEN add
          ELSE IF l = r THEN zero ELSE e
  BY DEF SubReduced
<1>2. e.type # InfInt /\ e.op \in Arithmetic
  BY ArithmeticNode DEF Arithmetic, InfInt
<1>3. /\ l \in m.E /\ r \in m.E /\ w \in Nat /\ l.type = w /\ r.type = w
      /\ a \in Words(w) /\ b \in Words(w) /\ a \in Nat /\ b \in Nat
      /\ m.V[e] = Wrap(w, Calculated(e.op, a, b))
  BY <1>2, WordNode
<1>4. Calculated(e.op, a, b) = a - b
  BY DEF Calculated
<1>5. (IsZero(l) => a = 0) /\ (IsZero(r) => b = 0)
  BY <1>3, ZeroValue
<1>6. e.type = w /\ e \in m.E
  OBVIOUS
<1> HIDE DEF l, r, w, neg, minus, add, zero, x
<1>7. CASE IsZero(r)
  <2> HIDE DEF a, b
  <2>1. a - b = a /\ Wrap(w, a) = a
    BY <1>3, <1>5, <1>7, WrapInRange
  <2>2. x = l
    BY <1>1, <1>7
  <2> QED BY <1>3, <1>4, <1>6, <2>1, <2>2 DEF Same, a
<1>8. CASE ~IsZero(r) /\ IsZero(l)
  <2>1. neg = Tree("Neg", w, <<r>>, 0)
    BY DEF neg, Node, Tree
  <2>2. neg \in m.E /\ neg.type = w /\ m.V[neg] = Wrap(w, -b)
    BY <1>3, <2>1, MakeUnary
  <2> HIDE DEF a, b
  <2>3. a - b = -b
    BY <1>3, <1>5, <1>8
  <2>4. x = neg
    BY <1>1, <1>8
  <2> QED BY <1>3, <1>4, <1>6, <2>2, <2>3, <2>4 DEF Same
<1>9. CASE ~IsZero(r) /\ ~IsZero(l) /\ r.op = "Constant"
  <2>1. b = r.v /\ -r.v \in Int
    BY <1>3, <1>9, Leaf, NatValue DEF IsConstant
  <2>2. minus \in m.E /\ minus.type = w /\ m.V[minus] = Wrap(w, -b)
    <3> DEFINE n == -r.v
    <3>1. n \in Int /\ n = -b
      BY <2>1
    <3> HIDE DEF n
    <3> QED BY <1>3, <3>1, MakeWordConstant DEF minus, n
  <2>3. add \in m.E /\ add.type = w /\ m.V[add] = Wrap(w, Calculated("Add", a, m.V[minus]))
    BY <1>3, <2>2, MakeWord DEF add, Arithmetic
  <2>4. Calculated("Add", a, m.V[minus]) = a + Wrap(w, -b)
    BY <2>2 DEF Calculated
  <2>5. Wrap(w, a + Wrap(w, -b)) = Wrap(w, a - b)
    <3> DEFINE P == Pow2[w]
               n == -b
    <3> HIDE DEF a, b
    <3>1. P \in Nat \ {0} /\ n \in Int /\ a \in Int /\ a - b = a + n /\ a + n \in Int
      BY <1>3, Pow2Facts
    <3>2. Wrap(w, n) = n % P
      BY <1>3 DEF Wrap
    <3> HIDE DEF n
    <3>3. (a + (n % P)) % P = (a + n) % P
      BY <3>1, ModAdd
    <3>4. n % P \in 0 .. P - 1
      BY <3>1, DivMod
    <3> DEFINE q == n % P
    <3> HIDE DEF q
    <3>5. Wrap(w, a + q) = (a + q) % P /\ Wrap(w, a + n) = (a + n) % P
      BY <1>3 DEF Wrap
    <3>6. Wrap(w, a + q) = Wrap(w, a + n)
      BY <3>3, <3>5 DEF q
    <3> QED BY <3>1, <3>2, <3>6 DEF q, n
  <2>6. x = add
    BY <1>1, <1>9
  <2> QED BY <1>3, <1>4, <1>6, <2>3, <2>4, <2>5, <2>6 DEF Same
<1>10. CASE ~IsZero(r) /\ ~IsZero(l) /\ r.op # "Constant" /\ l = r
  <2>1. zero \in m.E /\ zero.type = w /\ m.V[zero] = Wrap(w, 0)
    BY <1>3, MakeWordConstant DEF zero
  <2>2. a - b = 0
    <3>1. a = b
      BY <1>10
    <3> HIDE DEF a, b
    <3> QED BY <1>3, <3>1
  <2>3. x = zero
    BY <1>1, <1>10
  <2> QED BY <1>3, <1>4, <1>6, <2>1, <2>2, <2>3 DEF Same
<1>11. CASE ~IsZero(r) /\ ~IsZero(l) /\ r.op # "Constant" /\ l # r
  <2>1. x = e
    BY <1>1, <1>11
  <2> QED BY <1>6, <2>1, SameItself
<1> QED BY <1>7, <1>8, <1>9, <1>10, <1>11

\* The exponent that isPowerOf2() gives is that of the constant's value.
LEMMA PowerOf2 ==
  ASSUME NEW m, Meaning(m), NEW e \in m.E, IsPowerOf2(e), e.type \in Nat
  PROVE  Log2(e) \in Nat /\ m.V[e] = Pow2[Log2(e)] /\ e.v = m.V[e]
<1>1. e.op = "Constant" /\ \E n \in Exponents(e.type) : e.v = Pow2[n]
  BY DEF IsPowerOf2
<1>2. Log2(e) \in Exponents(e.type) /\ e.v = Pow2[Log2(e)]
  BY <1>1 DEF Log2
<1>3. Exponents(e.type) \subseteq Nat
  BY DEF Exponents
<1>4. m.V[e] = e.v
  BY <1>1, Leaf DEF IsConstant
<1> QED BY <1>2, <1>3, <1>4

\* A word shifted by a constant exponent.
LEMMA MakePower ==
  ASSUME NEW m, Meaning(m), NEW op \in {"Shl", "Shr"}, NEW a \in m.E, a.type \in Nat,
         NEW by \in m.E, by.type \in Nat, IsPowerOf2(by)
  PROVE  LET c == Shift(op, a, by)
         IN c \in m.E /\ c.type = a.type
            /\ m.V[c] = Wrap(a.type, IF op = "Shl" THEN m.V[a] * m.V[by] ELSE m.V[a] \div m.V[by])
<1> DEFINE n == Log2(by)
           k == Constant(InfInt, n)
           c == Node(op, a.type, <<a, k>>)
<1>1. n \in Nat /\ m.V[by] = Pow2[n]
  BY PowerOf2
<1>2. Shift(op, a, by) = c
  BY DEF Shift
<1> HIDE DEF n
<1>3. k \in m.E /\ k.type = InfInt /\ m.V[k] = n
  BY <1>1, MakeInt
<1> HIDE DEF k
<1>4. c \in m.E /\ c.type = a.type /\ m.V[c] = Wrap(a.type, Calculated(op, m.V[a], m.V[k]))
  BY <1>3, MakeShift
<1>5. Calculated(op, m.V[a], m.V[k]) = IF op = "Shl" THEN m.V[a] * m.V[by] ELSE m.V[a] \div m.V[by]
  BY <1>1, <1>3 DEF Calculated
<1> QED BY <1>2, <1>4, <1>5

\* What isOne() accepts is 1.
LEMMA OneValue ==
  ASSUME NEW m, Meaning(m), NEW e \in m.E, IsOne(e)
  PROVE  m.V[e] = 1
BY Leaf DEF IsOne, IsConstant

\* postorder(Mul) keeps the value: a shift for a factor that is a power of two.
LEMMA ReduceMul ==
  ASSUME NEW m, Meaning(m), NEW e \in m.E, e.op = "Mul"
  PROVE  Same(m, MulReduced(e, e.args[1], e.args[2]), e)
<1> DEFINE l == e.args[1]
           r == e.args[2]
           w == e.type
           a == m.V[l]
           b == m.V[r]
           left == Shift("Shl", r, l)
           right == Shift("Shl", l, r)
           x == MulReduced(e, l, r)
<1> SUFFICES Same(m, x, e)
  OBVIOUS
<1>1. x = IF IsOne(l) THEN r ELSE IF IsOne(r) THEN l ELSE IF IsPowerOf2(l) THEN left
          ELSE IF IsPowerOf2(r) THEN right ELSE IF IsZero(l) THEN l ELSE IF IsZero(r) THEN r ELSE e
  BY DEF MulReduced
<1>2. e.type # InfInt /\ e.op \in Arithmetic
  BY ArithmeticNode DEF Arithmetic, InfInt
<1>3. /\ l \in m.E /\ r \in m.E /\ w \in Nat /\ l.type = w /\ r.type = w
      /\ a \in Words(w) /\ b \in Words(w) /\ a \in Nat /\ b \in Nat
      /\ m.V[e] = Wrap(w, Calculated(e.op, a, b))
  BY <1>2, WordNode
<1>4. Calculated(e.op, a, b) = a * b
  BY DEF Calculated
<1>5. (IsZero(l) => a = 0) /\ (IsZero(r) => b = 0) /\ (IsOne(l) => a = 1) /\ (IsOne(r) => b = 1)
  BY <1>3, ZeroValue, OneValue
<1>6. e.type = w /\ e \in m.E
  OBVIOUS
<1> HIDE DEF l, r, w, left, right, x
<1>7. IsPowerOf2(l) => left \in m.E /\ left.type = w /\ m.V[left] = Wrap(w, b * a)
  BY <1>3, MakePower DEF left
<1>8. IsPowerOf2(r) => right \in m.E /\ right.type = w /\ m.V[right] = Wrap(w, a * b)
  BY <1>3, MakePower DEF right
<1> DEFINE c == a * b
<1>9. /\ b * a = c /\ (a = 0 => c = a) /\ (b = 0 => c = b) /\ (a = 1 => c = b) /\ (b = 1 => c = a)
      /\ Wrap(w, a) = a /\ Wrap(w, b) = b
  <2> HIDE DEF a, b
  <2>1. b * a = c /\ (a = 0 => c = a) /\ (b = 0 => c = b) /\ (a = 1 => c = b) /\ (b = 1 => c = a)
    BY <1>3
  <2>2. Wrap(w, a) = a /\ Wrap(w, b) = b
    BY <1>3, WrapInRange
  <2> QED BY <2>1, <2>2
<1>10. m.V[e] = Wrap(w, c)
  BY <1>3, <1>4
<1>11. x \in {r, l, left, right, e} /\ (x = left => IsPowerOf2(l) \/ x \in {l, r, right, e})
       /\ (x = right => IsPowerOf2(r) \/ x \in {l, r, left, e})
  BY <1>1
<1>12. CASE IsOne(l)
  <2>1. x = r /\ m.V[r] = Wrap(w, c)
    BY <1>1, <1>5, <1>9, <1>12
  <2> QED BY <1>3, <1>6, <1>10, <2>1 DEF Same
<1>13. CASE ~IsOne(l) /\ IsOne(r)
  <2>1. x = l /\ m.V[l] = Wrap(w, c)
    BY <1>1, <1>5, <1>9, <1>13
  <2> QED BY <1>3, <1>6, <1>10, <2>1 DEF Same
<1>14. CASE ~IsOne(l) /\ ~IsOne(r) /\ IsPowerOf2(l)
  <2>1. x = left /\ m.V[left] = Wrap(w, c)
    BY <1>1, <1>7, <1>9, <1>14
  <2> QED BY <1>6, <1>7, <1>10, <1>14, <2>1 DEF Same
<1>15. CASE ~IsOne(l) /\ ~IsOne(r) /\ ~IsPowerOf2(l) /\ IsPowerOf2(r)
  <2>1. x = right /\ m.V[right] = Wrap(w, c)
    BY <1>1, <1>8, <1>9, <1>15
  <2> QED BY <1>6, <1>8, <1>10, <1>15, <2>1 DEF Same
<1>16. CASE ~IsOne(l) /\ ~IsOne(r) /\ ~IsPowerOf2(l) /\ ~IsPowerOf2(r)
  <2>1. x = IF IsZero(l) THEN l ELSE IF IsZero(r) THEN r ELSE e
    BY <1>1, <1>16
  <2>2. CASE IsZero(l)
    <3>1. x = l /\ m.V[l] = Wrap(w, c)
      BY <1>5, <1>9, <2>1, <2>2
    <3> QED BY <1>3, <1>6, <1>10, <3>1 DEF Same
  <2>3. CASE ~IsZero(l) /\ IsZero(r)
    <3>1. x = r /\ m.V[r] = Wrap(w, c)
      BY <1>5, <1>9, <2>1, <2>3
    <3> QED BY <1>3, <1>6, <1>10, <3>1 DEF Same
  <2>4. CASE ~IsZero(l) /\ ~IsZero(r)
    BY <1>6, <2>1, <2>4, SameItself
  <2> QED BY <2>2, <2>3, <2>4
<1> QED BY <1>12, <1>13, <1>14, <1>15, <1>16

\* postorder(Div) keeps the value: a shift for a divisor that is a power of two.
LEMMA ReduceDiv ==
  ASSUME NEW m, Meaning(m), NEW e \in m.E, e.op = "Div"
  PROVE  Same(m, DivReduced(e, e.args[1], e.args[2]), e)
<1> DEFINE l == e.args[1]
           r == e.args[2]
           w == e.type
           a == m.V[l]
           b == m.V[r]
           shr == Shift("Shr", l, r)
           x == DivReduced(e, l, r)
<1> SUFFICES Same(m, x, e)
  OBVIOUS
<1>1. x = IF IsZero(r) THEN e ELSE IF IsOne(r) THEN l ELSE IF IsPowerOf2(r) THEN shr
          ELSE IF IsZero(l) THEN l ELSE e
  BY DEF DivReduced
<1>2. e.type # InfInt /\ e.op \in Arithmetic
  BY ArithmeticNode DEF Arithmetic, InfInt
<1>3. /\ l \in m.E /\ r \in m.E /\ w \in Nat /\ l.type = w /\ r.type = w
      /\ a \in Words(w) /\ b \in Words(w) /\ a \in Nat /\ b \in Nat
      /\ m.V[e] = Wrap(w, Calculated(e.op, a, b))
  BY <1>2, WordNode
<1>4. Calculated(e.op, a, b) = IF b = 0 THEN 0 ELSE a \div b
  BY DEF Calculated
<1>5. (IsZero(l) => a = 0) /\ (IsOne(r) => b = 1)
  BY <1>3, ZeroValue, OneValue
<1>6. e.type = w /\ e \in m.E
  OBVIOUS
<1> HIDE DEF l, r, w, shr, x
<1>7. CASE IsZero(r)
  <2>1. x = e
    BY <1>1, <1>7
  <2> QED BY <1>6, <2>1, SameItself
<1>8. CASE ~IsZero(r) /\ IsOne(r)
  <2>1. x = l
    BY <1>1, <1>8
  <2>2. b = 1
    BY <1>5, <1>8
  <2> HIDE DEF a, b
  <2>3. a \div b = a /\ Wrap(w, a) = a
    <3>1. Wrap(w, a) = a
      BY <1>3, WrapInRange
    <3>2. a \div 1 = a
      BY <1>3
    <3> QED BY <2>2, <3>1, <3>2
  <2> QED BY <1>3, <1>4, <1>6, <2>1, <2>2, <2>3 DEF Same, a
<1>9. CASE ~IsZero(r) /\ ~IsOne(r) /\ IsPowerOf2(r)
  <2>1. x = shr
    BY <1>1, <1>9
  <2>2. shr \in m.E /\ shr.type = w /\ m.V[shr] = Wrap(w, a \div b)
    BY <1>3, <1>9, MakePower DEF shr
  <2>3. b # 0
    BY <1>3, <1>9, PowerOf2, Pow2Facts
  <2> HIDE DEF a, b
  <2> QED BY <1>3, <1>4, <1>6, <2>1, <2>2, <2>3 DEF Same
<1>10. CASE ~IsZero(r) /\ ~IsOne(r) /\ ~IsPowerOf2(r) /\ IsZero(l)
  <2>1. x = l
    BY <1>1, <1>10
  <2>2. a = 0
    BY <1>5, <1>10
  <2> HIDE DEF a, b
  <2>3. b # 0 => 0 \div b = 0
    <3>1. b # 0 => b \in Nat \ {0} /\ 0 \in 0 .. b - 1
      BY <1>3
    <3> QED BY <3>1, Small
  <2>4. Wrap(w, 0) = 0
    BY <1>3, <2>2, WrapInRange
  <2> QED BY <1>3, <1>4, <1>6, <2>1, <2>2, <2>3, <2>4 DEF Same, a
<1>11. CASE ~IsZero(r) /\ ~IsOne(r) /\ ~IsPowerOf2(r) /\ ~IsZero(l)
  <2>1. x = e
    BY <1>1, <1>11
  <2> QED BY <1>6, <2>1, SameItself
<1> QED BY <1>7, <1>8, <1>9, <1>10, <1>11

\* postorder(Mod) keeps the value: a mask for a divisor that is a power of two.
LEMMA ReduceMod ==
  ASSUME NEW m, Meaning(m), NEW e \in m.E, e.op = "Mod"
  PROVE  Same(m, ModReduced(e, e.args[1], e.args[2]), e)
<1> DEFINE l == e.args[1]
           r == e.args[2]
           w == e.type
           a == m.V[l]
           b == m.V[r]
           mask == Constant(r.type, r.v - 1)
           and == Node("BAnd", w, <<l, mask>>)
           x == ModReduced(e, l, r)
<1> SUFFICES Same(m, x, e)
  OBVIOUS
<1>1. x = IF IsZero(r) THEN e ELSE IF IsZero(l) THEN l ELSE IF IsPowerOf2(r) THEN and ELSE e
  BY DEF ModReduced
<1>2. e.type # InfInt /\ e.op \in Arithmetic
  BY ArithmeticNode DEF Arithmetic, InfInt
<1>3. /\ l \in m.E /\ r \in m.E /\ w \in Nat /\ l.type = w /\ r.type = w
      /\ a \in Words(w) /\ b \in Words(w) /\ a \in Nat /\ b \in Nat
      /\ m.V[e] = Wrap(w, Calculated(e.op, a, b))
  BY <1>2, WordNode
<1>4. Calculated(e.op, a, b) = IF b = 0 THEN 0 ELSE a % b
  BY DEF Calculated
<1>5. IsZero(l) => a = 0
  BY <1>3, ZeroValue
<1>6. e.type = w /\ e \in m.E
  OBVIOUS
<1> HIDE DEF l, r, w, mask, and, x
<1>7. CASE ~IsZero(r) /\ IsZero(l)
  <2>1. x = l
    BY <1>1, <1>7
  <2>2. a = 0
    BY <1>5, <1>7
  <2> HIDE DEF a, b
  <2>3. b # 0 => 0 % b = 0
    <3>1. b # 0 => b \in Nat \ {0} /\ 0 \in 0 .. b - 1
      BY <1>3
    <3> QED BY <3>1, Small
  <2>4. Wrap(w, 0) = 0
    BY <1>3, <2>2, WrapInRange
  <2> QED BY <1>3, <1>4, <1>6, <2>1, <2>2, <2>3, <2>4 DEF Same, a
<1>8. CASE ~IsZero(r) /\ ~IsZero(l) /\ IsPowerOf2(r)
  <2> DEFINE n == Log2(r)
             k == r.v - 1
  <2>1. n \in Nat /\ b = Pow2[n] /\ r.v = b
    BY <1>3, <1>8, PowerOf2
  <2>2. k = b - 1 /\ b # 0
    BY <2>1, Pow2Facts
  <2> HIDE DEF n, k, b, a
  <2>3. k \in Words(w) /\ k \in Int
    <3>1. Pow2[w] \in Nat
      BY <1>3, Pow2Facts
    <3> QED BY <1>3, <2>2, <3>1 DEF Words
  <2>4. mask \in m.E /\ mask.type = w /\ m.V[mask] = k
    <3>1. Wrap(w, k) = k
      BY <1>3, <2>3, WrapInRange
    <3>2. mask = Constant(w, k)
      BY <1>3 DEF mask, k
    <3> QED BY <1>3, <2>3, <3>1, <3>2, MakeWordConstant
  <2>5. and \in m.E /\ and.type = w /\ m.V[and] = Wrap(w, Calculated("BAnd", m.V[l], m.V[mask]))
    BY <1>3, <2>4, MakeWord DEF and, Arithmetic
  <2>6. Calculated("BAnd", m.V[l], m.V[mask]) = BitAnd[a][k]
    BY <2>4 DEF Calculated, a
  <2>7. BitAnd[a][Pow2[n] - 1] = a % Pow2[n]
    BY <1>3, <2>1, BitAndMask
  <2>8. BitAnd[a][k] = a % b
    BY <2>1, <2>2, <2>7
  <2>9. x = and
    BY <1>1, <1>8
  <2> QED BY <1>3, <1>4, <1>6, <2>2, <2>5, <2>6, <2>8, <2>9 DEF Same
<1>9. CASE IsZero(r) \/ (~IsZero(l) /\ ~IsPowerOf2(r))
  <2>1. x = e
    BY <1>1, <1>9
  <2> QED BY <1>6, <2>1, SameItself
<1> QED BY <1>7, <1>8, <1>9

\* Zero, shifted, is zero.
LEMMA ZeroShifted ==
  ASSUME NEW m, Meaning(m), NEW e \in m.E, e.op \in {"Shl", "Shr"}, m.V[e.args[1]] = 0
  PROVE  Same(m, e.args[1], e)
<1> DEFINE l == e.args[1]
           b == m.V[e.args[2]]
           p == Pow2[b]
<1>1. l \in m.E /\ e.args[2] \in m.E /\ l.type = e.type /\ e.type \in Nat /\ m.V[e] = Wrap(e.type, Calculated(e.op, 0, b))
  BY BinaryNode, ShiftNode
<1>2. p \in Nat \ {0}
  BY <1>1, NatValue, Pow2Facts
<1>3. Calculated(e.op, 0, b) = IF e.op = "Shl" THEN 0 * p ELSE 0 \div p
  BY DEF Calculated
<1> HIDE DEF b, p
<1>4. 0 * p = 0 /\ 0 \div p = 0
  <2>1. 0 \in 0 .. p - 1
    BY <1>2
  <2> QED BY <1>2, <2>1, Small
<1>5. Wrap(e.type, 0) = 0
  BY <1>1, WrapInRange, WordsAreNat
<1> QED BY <1>1, <1>3, <1>4, <1>5 DEF Same

\* Shifting twice is shifting by the sum.
LEMMA ShiftTwice ==
  ASSUME NEW w \in Nat, NEW a \in Words(w), NEW b \in Nat, NEW c \in Nat, NEW op \in {"Shl", "Shr"}
  PROVE  Wrap(w, Calculated(op, Wrap(w, Calculated(op, a, b)), c)) = Wrap(w, Calculated(op, a, b + c))
<1> DEFINE p == Pow2[b]
           q == Pow2[c]
           s == Pow2[b + c]
           P == Pow2[w]
<1>1. p \in Nat \ {0} /\ q \in Nat \ {0} /\ P \in Nat \ {0}
  BY Pow2Facts
<1>2. s = p * q
  BY Pow2Sum
<1>3. a \in Nat
  BY WordsAreNat
<1>4. \A n : Wrap(w, n) = n % P
  BY DEF Wrap
<1>5. CASE op = "Shl"
  <2>1. \A x, y : Calculated(op, x, y) = x * Pow2[y]
    BY <1>5 DEF Calculated
  <2> HIDE DEF p, q, s, P
  <2> DEFINE x == a * p
             y == x % P
  <2>2. x \in Int /\ q \in Int /\ x * q = a * s
    BY <1>1, <1>2, <1>3
  <2> HIDE DEF x
  <2>3. (y * q) % P = (x * q) % P
    BY <1>1, <2>2, ModMul
  <2> HIDE DEF y
  <2>4. Calculated(op, a, b) = x /\ Calculated(op, y, c) = y * q /\ Calculated(op, a, b + c) = a * s
    BY <2>1 DEF x, p, q, s
  <2>5. Wrap(w, x) = y
    BY <1>4 DEF y
  <2>6. Wrap(w, y * q) = (y * q) % P /\ Wrap(w, a * s) = (a * s) % P
    BY <1>4
  <2> QED BY <2>2, <2>3, <2>4, <2>5, <2>6
<1>6. CASE op = "Shr"
  <2>1. \A x, y : Calculated(op, x, y) = x \div Pow2[y]
    BY <1>6 DEF Calculated
  <2>2. Wrap(w, a \div p) = a \div p
    BY ShiftedRight
  <2> HIDE DEF p, q, s, P
  <2>3. a \in Int /\ Product(s, p, q)
    BY <1>2, <1>3 DEF Product
  <2>4. TwoDigits(a, p, q, s)
    BY <1>1, <2>3, Digits
  <2>5. (a \div p) \div q = a \div s
    BY <2>4 DEF TwoDigits
  <2> DEFINE x == a \div p
  <2>6. Calculated(op, a, b) = x /\ Calculated(op, x, c) = x \div q /\ Calculated(op, a, b + c) = a \div s
    BY <2>1 DEF p, q, s
  <2> QED BY <2>2, <2>5, <2>6
<1> QED BY <1>5, <1>6

\* postorder(Shl) and postorder(Shr) keep the value, two shifts made into one included.
LEMMA ReduceShift ==
  ASSUME NEW m, Meaning(m), NEW e \in m.E, e.op \in {"Shl", "Shr"}
  PROVE  Same(m, ShiftReduced(e, e.args[1], e.args[2]), e)
<1> DEFINE l == e.args[1]
           r == e.args[2]
           w == e.type
           op == e.op
           a == l.args[1]
           c == l.args[2]
           sum == Node("Add", InfInt, <<c, r>>)
           new == Node(op, w, <<a, sum>>)
           x == ShiftReduced(e, l, r)
           twice == l.op = op /\ c.type = InfInt /\ r.type = InfInt
<1> SUFFICES Same(m, x, e)
  OBVIOUS
<1>1. x = IF IsZero(r) THEN l ELSE IF twice THEN new ELSE IF IsZero(l) THEN l ELSE e
  BY DEF ShiftReduced
<1>2. l \in m.E /\ r \in m.E /\ w \in Nat /\ l.type = w /\ m.V[e] = Wrap(w, Calculated(op, m.V[l], m.V[r]))
  BY BinaryNode, ShiftNode
<1>3. IsZero(r) => Same(m, l, e)
  BY <1>2, ZeroValue, ShiftByZero
<1>4. IsZero(l) => Same(m, l, e)
  BY <1>2, ZeroValue, ZeroShifted
<1>5. e.type = w /\ op \in {"Shl", "Shr"}
  OBVIOUS
<1> HIDE DEF l, r, w, op, x
<1>6. ASSUME twice PROVE Same(m, new, e)
  <2>1. a \in m.E /\ c \in m.E /\ a.type = w /\ m.V[l] = Wrap(w, Calculated(op, m.V[a], m.V[c]))
    BY <1>2, <1>5, <1>6, BinaryNode, ShiftNode
  <2>2. m.V[a] \in Words(w) /\ m.V[c] \in Nat /\ m.V[r] \in Nat
    BY <1>2, <2>1, WordValue, NatValue
  <2>3. c.type = InfInt /\ r.type = InfInt
    BY <1>6
  <2> HIDE DEF a, c
  <2>4. sum \in m.E /\ sum.type = InfInt /\ m.V[sum] = m.V[c] + m.V[r]
    <3>1. sum = Tree("Add", InfInt, <<c, r>>, 0)
      BY DEF Node, Tree
    <3>2. OperandTypes("Add", InfInt, c.type, r.type)
      BY <2>3 DEF OperandTypes, Arithmetic
    <3>3. sum \in m.E /\ sum.type = InfInt /\ m.V[sum] = Wrap(InfInt, Calculated("Add", m.V[c], m.V[r]))
      BY <1>2, <2>1, <3>1, <3>2, MakeBinary
    <3>4. Wrap(InfInt, Calculated("Add", m.V[c], m.V[r])) = m.V[c] + m.V[r]
      BY DEF Wrap, InfInt, Calculated
    <3> QED BY <3>3, <3>4
  <2> HIDE DEF sum
  <2>5. new \in m.E /\ new.type = w /\ m.V[new] = Wrap(w, Calculated(op, m.V[a], m.V[sum]))
    BY <1>2, <1>5, <2>1, <2>4, MakeShift
  <2> HIDE DEF new
  <2> DEFINE i == m.V[a]
             j == m.V[c]
             k == m.V[r]
  <2> HIDE DEF i, j, k
  <2>6. Wrap(w, Calculated(op, Wrap(w, Calculated(op, i, j)), k)) = Wrap(w, Calculated(op, i, j + k))
    BY <1>2, <1>5, <2>2, ShiftTwice DEF i, j, k
  <2> QED BY <1>2, <1>5, <2>1, <2>4, <2>5, <2>6 DEF Same, i, j, k
<1> HIDE DEF twice, new
<1>7. CASE IsZero(r)
  BY <1>1, <1>3, <1>7
<1>8. CASE ~IsZero(r) /\ twice
  BY <1>1, <1>6, <1>8
<1>9. CASE ~IsZero(r) /\ ~twice
  BY <1>1, <1>4, <1>9, SameItself
<1> QED BY <1>7, <1>8, <1>9

-----------------------------------------------------------------------------
(* The bits of a number from hi down to lo.                                *)

Bits(x, hi, lo) == (x \div Pow2[lo]) % Pow2[hi - lo + 1]

\* A product of powers of two.
LEMMA PowerProduct ==
  ASSUME NEW i \in Nat, NEW j \in Nat, NEW k, k = i + j
  PROVE  Product(Pow2[k], Pow2[i], Pow2[j]) /\ Product(Pow2[k], Pow2[j], Pow2[i])
<1>1. Pow2[k] = Pow2[i] * Pow2[j]
  BY Pow2Sum
<1> DEFINE p == Pow2[i]
           q == Pow2[j]
<1>2. p \in Nat /\ q \in Nat
  BY Pow2Facts
<1> HIDE DEF p, q
<1>3. p * q = q * p
  BY <1>2
<1> QED BY <1>1, <1>3 DEF Product, p, q

\* Two shifts to the right are one.
LEMMA ShiftedTwice ==
  ASSUME NEW x \in Int, NEW i \in Nat, NEW j \in Nat, NEW k, k = i + j
  PROVE  (x \div Pow2[i]) \div Pow2[j] = x \div Pow2[k]
<1>1. Product(Pow2[k], Pow2[i], Pow2[j])
  BY PowerProduct
<1>2. Pow2[i] \in Nat \ {0} /\ Pow2[j] \in Nat \ {0}
  BY Pow2Facts
<1>3. TwoDigits(x, Pow2[i], Pow2[j], Pow2[k])
  BY <1>1, <1>2, Digits
<1> QED BY <1>3 DEF TwoDigits

\* The low bits of a number's low bits.
LEMMA LowBits ==
  ASSUME NEW x \in Int, NEW i \in Nat, NEW k \in Nat, i <= k
  PROVE  (x % Pow2[k]) % Pow2[i] = x % Pow2[i]
<1> DEFINE j == k - i
<1>1. j \in Nat /\ k = i + j
  OBVIOUS
<1> HIDE DEF j
<1>2. Product(Pow2[k], Pow2[i], Pow2[j])
  BY <1>1, PowerProduct
<1>3. Pow2[i] \in Nat \ {0} /\ Pow2[j] \in Nat \ {0}
  BY <1>1, Pow2Facts
<1>4. TwoDigits(x, Pow2[i], Pow2[j], Pow2[k])
  BY <1>2, <1>3, Digits
<1> QED BY <1>4 DEF TwoDigits

\* The high bits of a number's low bits.
LEMMA HighBits ==
  ASSUME NEW x \in Int, NEW i \in Nat, NEW j \in Nat, NEW k, k = i + j
  PROVE  (x % Pow2[k]) \div Pow2[i] = (x \div Pow2[i]) % Pow2[j]
<1>1. Product(Pow2[k], Pow2[i], Pow2[j])
  BY PowerProduct
<1>2. Pow2[i] \in Nat \ {0} /\ Pow2[j] \in Nat \ {0}
  BY Pow2Facts
<1>3. TwoDigits(x, Pow2[i], Pow2[j], Pow2[k])
  BY <1>1, <1>2, Digits
<1> QED BY <1>3 DEF TwoDigits

\* A shift by nothing.
LEMMA ByOne ==
  ASSUME NEW x \in Int
  PROVE  x \div Pow2[0] = x
<1>1. Pow2[0] = 1 /\ x = 1 * x + 0 /\ 0 \in 0 .. 1 - 1
  BY Pow2Facts
<1>2. x \div 1 = x
  BY <1>1, DivModUnique
<1> QED BY <1>1, <1>2

\* The bits below w are those of the number modulo 2^w.
LEMMA BitsOfMod ==
  ASSUME NEW x \in Int, NEW hi \in Nat, NEW lo \in Nat, lo <= hi, NEW w \in Nat, hi < w
  PROVE  Bits(x % Pow2[w], hi, lo) = Bits(x, hi, lo)
<1> DEFINE n == hi - lo + 1
           r == w - lo
           y == x \div Pow2[lo]
<1>1. n \in Nat /\ r \in Nat /\ n <= r /\ w = lo + r
  OBVIOUS
<1>2. Pow2[lo] \in Nat \ {0}
  BY Pow2Facts
<1>3. y \in Int
  BY <1>2, DivMod
<1> HIDE DEF n, r
<1>4. (x % Pow2[w]) \div Pow2[lo] = y % Pow2[r]
  BY <1>1, HighBits
<1> HIDE DEF y
<1>5. (y % Pow2[r]) % Pow2[n] = y % Pow2[n]
  BY <1>1, <1>3, LowBits
<1> QED BY <1>4, <1>5 DEF Bits, n, y

\* The bits of a shifted number lie further up in the number.
LEMMA BitsOfShift ==
  ASSUME NEW x \in Int, NEW hi \in Nat, NEW lo \in Nat, NEW by \in Nat
  PROVE  Bits(x \div Pow2[by], hi, lo) = Bits(x, hi + by, lo + by)
<1> DEFINE k == lo + by
           n == hi - lo + 1
<1>1. k = by + lo /\ (hi + by) - k + 1 = n
  OBVIOUS
<1> HIDE DEF k, n
<1>2. (x \div Pow2[by]) \div Pow2[lo] = x \div Pow2[k]
  BY <1>1, ShiftedTwice
<1> QED BY <1>1, <1>2 DEF Bits, k, n

\* The bits of a number's bits.
LEMMA BitsOfBits ==
  ASSUME NEW x \in Int, NEW hi \in Nat, NEW lo \in Nat, lo <= hi, NEW h \in Nat, NEW l \in Nat, hi < h - l + 1
  PROVE  Bits(Bits(x, h, l), hi, lo) = Bits(x, hi + l, lo + l)
<1> DEFINE y == x \div Pow2[l]
           w == h - l + 1
<1>1. w \in Nat /\ hi < w
  OBVIOUS
<1>2. y \in Int
  BY Pow2Facts, DivMod
<1>3. Bits(x, h, l) = y % Pow2[w]
  BY DEF Bits
<1>4. Bits(y, hi, lo) = Bits(x, hi + l, lo + l)
  BY BitsOfShift
<1> HIDE DEF y, w
<1>5. Bits(y % Pow2[w], hi, lo) = Bits(y, hi, lo)
  BY <1>1, <1>2, BitsOfMod
<1> QED BY <1>3, <1>4, <1>5

\* The bits of a number shifted to the left.
LEMMA BitsOfShl ==
  ASSUME NEW x \in Nat, NEW hi \in Nat, NEW lo \in Nat, lo <= hi, NEW by \in Nat
  PROVE  /\ by <= lo => Bits(x * Pow2[by], hi, lo) = Bits(x, hi - by, lo - by)
         /\ hi < by => Bits(x * Pow2[by], hi, lo) = 0
         /\ lo < by /\ by <= hi => Bits(x * Pow2[by], hi, lo) = Bits(x, hi - by, 0) * Pow2[by - lo]
<1> DEFINE n == hi - lo + 1
<1>1. \A i \in Nat : Pow2[i] \in Nat \ {0}
  BY Pow2Facts
<1>2. ASSUME by <= lo PROVE Bits(x * Pow2[by], hi, lo) = Bits(x, hi - by, lo - by)
  <2> DEFINE d == lo - by
             p == Pow2[by]
  <2>1. d \in Nat /\ lo = by + d /\ (hi - by) - d + 1 = n
    BY <1>2
  <2>2. p \in Nat \ {0}
    BY <1>1
  <2> HIDE DEF d, n, p
  <2>3. (x * p) \div p = x /\ x * p \in Int
    BY <2>2, Scaled
  <2> DEFINE y == x * p
  <2> HIDE DEF y
  <2>4. (y \div Pow2[by]) \div Pow2[d] = y \div Pow2[lo]
    BY <2>1, <2>3, ShiftedTwice DEF y
  <2>5. y \div Pow2[lo] = x \div Pow2[d]
    BY <2>3, <2>4 DEF y, p
  <2> QED BY <2>1, <2>5 DEF Bits, y, p, n, d
<1>3. ASSUME lo < by PROVE Bits(x * Pow2[by], hi, lo) = (x * Pow2[by - lo]) % Pow2[n]
  <2> DEFINE d == by - lo
             q == Pow2[d]
             p == Pow2[lo]
  <2>1. d \in Nat /\ by = lo + d
    BY <1>3
  <2>2. Pow2[by] = p * q
    BY <2>1, Pow2Sum
  <2>3. p \in Nat \ {0} /\ q \in Nat \ {0}
    BY <1>1, <2>1
  <2> HIDE DEF p, q
  <2>4. x * (p * q) = (x * q) * p /\ x * q \in Int
    BY <2>3
  <2> DEFINE y == x * q
  <2> HIDE DEF y
  <2>5. (y * p) \div p = y
    BY <2>3, <2>4, Scaled DEF y
  <2>6. (x * Pow2[by]) \div p = y
    BY <2>2, <2>4, <2>5 DEF y
  <2> QED BY <2>6 DEF Bits, y, q, p
<1>4. ASSUME hi < by PROVE Bits(x * Pow2[by], hi, lo) = 0
  <2> DEFINE d == by - lo
             r == d - n
             p == Pow2[n]
             q == Pow2[r]
  <2>1. d \in Nat /\ r \in Nat /\ n \in Nat /\ d = n + r /\ lo < by
    BY <1>4
  <2>2. Pow2[d] = p * q
    BY <2>1, Pow2Sum
  <2>3. p \in Nat \ {0} /\ q \in Nat \ {0}
    BY <1>1, <2>1
  <2> HIDE DEF p, q
  <2>4. x * (p * q) = (x * q) * p /\ x * q \in Int
    BY <2>3
  <2> DEFINE y == x * q
  <2> HIDE DEF y
  <2>5. (y * p) % p = 0
    BY <2>3, <2>4, Scaled DEF y
  <2>6. (x * Pow2[d]) % p = 0
    BY <2>2, <2>4, <2>5 DEF y
  <2> QED BY <1>3, <2>1, <2>6 DEF p
<1>5. ASSUME lo < by, by <= hi PROVE Bits(x * Pow2[by], hi, lo) = Bits(x, hi - by, 0) * Pow2[by - lo]
  <2> DEFINE d == by - lo
             s == hi - by + 1
             q == Pow2[d]
             p == Pow2[s]
  <2>1. d \in Nat /\ s \in Nat /\ n = s + d /\ (hi - by) - 0 + 1 = s
    BY <1>5
  <2> HIDE DEF n
  <2>2. Pow2[n] = p * q
    BY <2>1, Pow2Sum
  <2>3. p \in Nat \ {0} /\ q \in Nat \ {0}
    BY <1>1, <2>1
  <2> HIDE DEF p, q
  <2>4. (x * q) % (p * q) = (x % p) * q
    <3>1. x \in Int
      OBVIOUS
    <3> QED BY <2>3, <3>1, Scaled, Zenon
  <2>5. Bits(x, hi - by, 0) = x % p
    <3>1. x \div Pow2[0] = x
      BY ByOne
    <3> HIDE DEF s
    <3> QED BY <2>1, <3>1 DEF Bits, p
  <2>6. Bits(x * Pow2[by], hi, lo) = (x * q) % Pow2[n]
    BY <1>3, <1>5 DEF n, q
  <2> QED BY <2>2, <2>4, <2>5, <2>6 DEF q
<1> QED BY <1>2, <1>4, <1>5

\* The bits of two numbers side by side.
LEMMA BitsOfConcat ==
  ASSUME NEW a \in Nat, NEW t \in Nat, NEW b \in Words(t), NEW hi \in Nat, NEW lo \in Nat, lo <= hi
  PROVE  /\ t <= lo => Bits(a * Pow2[t] + b, hi, lo) = Bits(a, hi - t, lo - t)
         /\ hi < t => Bits(a * Pow2[t] + b, hi, lo) = Bits(b, hi, lo)
         /\ lo < t /\ t <= hi =>
              Bits(a * Pow2[t] + b, hi, lo) = Bits(a, hi - t, 0) * Pow2[t - lo] + Bits(b, t - 1, lo)
<1> DEFINE p == Pow2[t]
           x == a * p + b
<1>1. p \in Nat \ {0} /\ b \in 0 .. p - 1 /\ \A i \in Nat : Pow2[i] \in Nat \ {0}
  BY Pow2Facts DEF Words
<1> HIDE DEF p
<1>2. x \div p = a /\ x % p = b /\ x \in Int
  <2>1. x = p * a + b /\ x \in Int /\ a \in Int
    BY <1>1
  <2> HIDE DEF x
  <2>2. x \div p = a /\ x % p = b
    BY <1>1, <2>1, DivModUnique, Zenon
  <2> QED BY <2>1, <2>2
<1> HIDE DEF x
<1>3. ASSUME t <= lo PROVE Bits(x, hi, lo) = Bits(a, hi - t, lo - t)
  <2> DEFINE h == hi - t
             l == lo - t
  <2>1. h \in Nat /\ l \in Nat /\ h + t = hi /\ l + t = lo
    BY <1>3
  <2> HIDE DEF h, l
  <2>2. Bits(x \div Pow2[t], h, l) = Bits(x, h + t, l + t)
    BY <1>2, <2>1, BitsOfShift
  <2> QED BY <1>2, <2>1, <2>2 DEF p, h, l
<1>4. ASSUME hi < t PROVE Bits(x, hi, lo) = Bits(b, hi, lo)
  <2>1. Bits(x % Pow2[t], hi, lo) = Bits(x, hi, lo)
    BY <1>2, <1>4, BitsOfMod
  <2> QED BY <1>2, <2>1 DEF p
<1>5. ASSUME lo < t, t <= hi PROVE Bits(x, hi, lo) = Bits(a, hi - t, 0) * Pow2[t - lo] + Bits(b, t - 1, lo)
  <2> DEFINE d == t - lo
             s == hi - t + 1
             n == hi - lo + 1
             l == Pow2[lo]
             q == Pow2[d]
             r == Pow2[s]
             c == b \div l
             a0 == a % r
  <2>1. d \in Nat /\ s \in Nat /\ n \in Nat /\ n = s + d /\ t = lo + d /\ (t - 1) - lo + 1 = d
        /\ (hi - t) - 0 + 1 = s
    BY <1>5
  <2>2. l \in Nat \ {0} /\ q \in Nat \ {0} /\ r \in Nat \ {0}
    BY <1>1, <2>1
  <2>3. p = l * q
    BY <2>1, Pow2Sum DEF p
  <2>4. Pow2[n] = r * q
    <3> HIDE DEF n, s, d
    <3> QED BY <2>1, Pow2Sum
  <2> HIDE DEF n, s, d, l, q, r
  <2>5. c \in 0 .. q - 1 /\ b % l \in 0 .. l - 1 /\ b = l * c + (b % l)
    <3>1. b \in Nat /\ b < l * q
      BY <1>1, <2>3
    <3>2. c \in Nat /\ b % l \in 0 .. l - 1 /\ b = l * c + (b % l)
      <4>1. b \in Int
        BY <3>1
      <4>2. b % l \in 0 .. l - 1 /\ b = l * (b \div l) + (b % l)
        BY <2>2, <4>1, DivMod, Zenon
      <4>3. b \div l \in Nat
        BY <2>2, <3>1, DivNat, Zenon
      <4> QED BY <4>2, <4>3, Zenon
    <3> HIDE DEF c
    <3>3. l * c <= b /\ l * c \in Nat
      BY <2>2, <3>2
    <3>4. CASE c >= q
      <4>1. l * c >= l * q
        <5>1. c - q \in Nat /\ l * (c - q) >= 0 /\ l * (c - q) = l * c - l * q
          BY <2>2, <3>2, <3>4
        <5>2. l * c \in Int /\ l * q \in Int
          BY <2>2, <3>2
        <5> QED BY <5>1, <5>2
      <4>2. l * q \in Int
        BY <2>2
      <4> QED BY <3>1, <3>3, <4>1, <4>2
    <3>5. CASE c < q
      BY <2>2, <3>2, <3>5
    <3> QED BY <2>2, <3>2, <3>4, <3>5
  <2>6. a0 \in 0 .. r - 1 /\ \E u \in Int : a = r * u + a0
    <3>1. a \in Int
      OBVIOUS
    <3>2. a \div r \in Int /\ a % r \in 0 .. r - 1 /\ a = r * (a \div r) + (a % r)
      BY <2>2, <3>1, DivMod, Zenon
    <3> QED BY <3>2, Zenon
  <2> HIDE DEF c, a0
  <2>7. x \div l = a * q + c
    <3> DEFINE y == a * q + c
               b0 == b % l
    <3>1. y \in Int /\ b0 \in 0 .. l - 1 /\ b = l * c + b0
      BY <2>2, <2>5
    <3>2. a * (l * q) = l * (a * q) /\ l * y = l * (a * q) + l * c
      BY <2>2, <2>5
    <3>3. a * (l * q) \in Int /\ l * c \in Int /\ l * (a * q) \in Int
      BY <2>2, <2>5
    <3>4. x = a * (l * q) + b
      BY <2>3 DEF x
    <3> HIDE DEF y, b0
    <3>5. x = l * y + b0
      BY <3>1, <3>2, <3>3, <3>4
    <3> QED BY <1>2, <2>2, <3>1, <3>5, DivModUnique DEF y
  <2>8. (a * q + c) % (r * q) = a0 * q + c
    <3> PICK u \in Int : a = r * u + a0
      BY <2>6
    <3> DEFINE y == a * q + c
               k == r * q
               z == a0 * q + c
    <3>1. y \in Int /\ k \in Nat \ {0} /\ z \in Int
      <4>1. r * q > 0 /\ r * q \in Int /\ a * q \in Int /\ a0 * q \in Int
        BY <2>2, <2>6, Z3
      <4> QED BY <2>5, <4>1
    <3>2. y = k * u + z
      <4>1. a * q = (r * u) * q + a0 * q /\ (r * u) * q = k * u
        BY <2>2, <2>6
      <4>2. a * q \in Int /\ (r * u) * q \in Int /\ a0 * q \in Int /\ c \in Int
        BY <2>2, <2>5, <2>6
      <4> QED BY <4>1, <4>2
    <3>3. z \in 0 .. k - 1
      <4>1. a0 * q >= 0 /\ a0 * q \in Int
        BY <2>2, <2>6
      <4>2. (r - 1 - a0) * q >= 0 /\ (r - 1 - a0) * q = r * q - q - a0 * q
        BY <2>2, <2>6
      <4>3. r * q \in Int
        BY <2>2
      <4> QED BY <2>2, <2>5, <4>1, <4>2, <4>3
    <3> HIDE DEF y, k, z
    <3>4. y % k = z
      BY <3>1, <3>2, <3>3, DivModUnique
    <3> QED BY <3>4 DEF y, k, z
  <2>9. Bits(x, hi, lo) = a0 * q + c
    BY <2>4, <2>7, <2>8 DEF Bits, n, l
  <2>10. Bits(a, hi - t, 0) = a0
    <3>1. a \div Pow2[0] = a
      BY ByOne
    <3> QED BY <2>1, <3>1 DEF Bits, a0, r, s
  <2>11. Bits(b, t - 1, lo) = c
    <3>1. Bits(b, t - 1, lo) = c % q
      BY <2>1 DEF Bits, c, q, l
    <3> QED BY <2>2, <2>5, <3>1, Small
  <2> QED BY <2>9, <2>10, <2>11 DEF q, d
<1> QED BY <1>3, <1>4, <1>5 DEF x, p

-----------------------------------------------------------------------------
(* Slices.                                                                 *)

\* The arguments of SliceUncast and SliceInside.
Sliceable(m) ==
  {s \in [of : m.E, hi : Nat, lo : Nat] : s.of.type \in Nat /\ s.lo <= s.hi /\ s.hi < s.of.type}

Arg(e, hi, lo) == [of |-> e, hi |-> hi, lo |-> lo]

\* What SliceUncast and SliceInside give when the functions u and w do the rest.
UncastWith(u, s) == UncastSlice(s.of, s.hi, s.lo, u[Arg(s.of.args[1], s.hi, s.lo)])
InsideWith(u, w, s) ==
  LET width == s.of.args[2].type
  IN InsideSlice(s.of, s.hi, s.lo, u[Arg(s.of, s.hi, s.lo)],
                 w[Arg(s.of.args[1], s.hi - width, s.lo - width)], w[Arg(s.of.args[2], s.hi, s.lo)])

\* sl holds the functions that SliceUncast and SliceInside are.
Slicing(m, sl) ==
  \A s \in Sliceable(m) :
    /\ sl.uncast[s] = UncastWith(sl.uncast, s)
    /\ sl.inside[s] = InsideWith(sl.uncast, sl.inside, s)

\* x may stand for the bits of e from hi down to lo.
IsSlice(m, x, e, hi, lo) == x \in m.E /\ x.type = hi - lo + 1 /\ m.V[x] = Bits(m.V[e], hi, lo)

\* An expression with two bounds within it is an argument of SliceUncast and SliceInside.
LEMMA Args ==
  ASSUME NEW m, NEW e \in m.E, NEW hi \in Nat, NEW lo \in Nat, lo <= hi, e.type \in Nat, hi < e.type
  PROVE  Arg(e, hi, lo) \in Sliceable(m) /\ Arg(e, hi, lo).of = e /\ Arg(e, hi, lo).hi = hi /\ Arg(e, hi, lo).lo = lo
<1> DEFINE S == m.E
<1>1. [of |-> e, hi |-> hi, lo |-> lo] \in [of : S, hi : Nat, lo : Nat]
  OBVIOUS
<1> QED BY <1>1 DEF Sliceable, Arg

\* What SliceUncast gives, by the kind of expression.
LEMMA UncastIs ==
  ASSUME NEW m, NEW sl, Slicing(m, sl), NEW e \in m.E, NEW hi \in Nat, NEW lo \in Nat,
         lo <= hi, e.type \in Nat, hi < e.type
  PROVE  LET a == e.args[1]
             l == e.args[3].v
         IN sl.uncast[Arg(e, hi, lo)] =
              IF e.op = "Cast" /\ hi < WidthOf(a.type) THEN sl.uncast[Arg(a, hi, lo)]
              ELSE IF e.op = "Slice" THEN Slice(a, hi + l, lo + l)
              ELSE IF hi - lo + 1 = e.type THEN e
              ELSE Slice(e, hi, lo)
<1> DEFINE s == Arg(e, hi, lo)
<1>1. s \in Sliceable(m) /\ s.of = e /\ s.hi = hi /\ s.lo = lo
  BY Args
<1> HIDE DEF s
<1>2. sl.uncast[s] = UncastWith(sl.uncast, s)
  BY <1>1 DEF Slicing
<1>3. WidthOf(e.type) = e.type
  BY DEF WidthOf, Bool
<1> QED BY <1>1, <1>2, <1>3 DEF UncastWith, UncastSlice, s

\* What SliceInside gives, by the kind of expression.
LEMMA InsideIs ==
  ASSUME NEW m, NEW sl, Slicing(m, sl), NEW e \in m.E, NEW hi \in Nat, NEW lo \in Nat,
         lo <= hi, e.type \in Nat, hi < e.type
  PROVE  LET a == e.args[1]
             b == e.args[2]
             t == b.type
         IN sl.inside[Arg(e, hi, lo)] =
              IF e.op # "Concat" THEN sl.uncast[Arg(e, hi, lo)]
              ELSE IF lo >= t THEN sl.inside[Arg(a, hi - t, lo - t)]
              ELSE IF hi < t THEN sl.inside[Arg(b, hi, lo)]
              ELSE Node("Concat", hi - lo + 1, <<Slice(a, hi - t, 0), Slice(b, t - 1, lo)>>)
<1> DEFINE s == Arg(e, hi, lo)
<1>1. s \in Sliceable(m) /\ s.of = e /\ s.hi = hi /\ s.lo = lo
  BY Args
<1> HIDE DEF s
<1>2. sl.inside[s] = InsideWith(sl.uncast, sl.inside, s)
  BY <1>1 DEF Slicing
<1> QED BY <1>1, <1>2 DEF InsideWith, InsideSlice, s

\* A slice of everything may be left out.
LEMMA WholeSlice ==
  ASSUME NEW m, Meaning(m), NEW e \in m.E, e.type \in Nat, NEW hi \in Nat, NEW lo \in Nat, lo <= hi, hi < e.type,
         hi - lo + 1 = e.type
  PROVE  IsSlice(m, e, e, hi, lo)
<1>1. lo = 0 /\ m.V[e] \in Words(e.type) /\ Wrap(e.type, m.V[e]) = m.V[e] /\ m.V[e] \in Int
  BY WordValue, NatValue
<1>2. Wrap(e.type, m.V[e]) = m.V[e] % Pow2[e.type]
  BY DEF Wrap
<1>3. m.V[e] \div Pow2[0] = m.V[e]
  BY <1>1, ByOne
<1> QED BY <1>1, <1>2, <1>3 DEF IsSlice, Bits

\* A slice that a pass makes stands for the bits it is of.
LEMMA PartSlice ==
  ASSUME NEW m, Meaning(m), NEW e \in m.E, e.type \in Nat, NEW hi \in Nat, NEW lo \in Nat, lo <= hi, hi < e.type
  PROVE  IsSlice(m, Slice(e, hi, lo), e, hi, lo)
<1>1. hi - lo + 1 \in Nat
  OBVIOUS
<1>2. Wrap(hi - lo + 1, m.V[e] \div Pow2[lo]) = Bits(m.V[e], hi, lo)
  BY <1>1 DEF Wrap, Bits
<1> QED BY <1>2, MakeSlice DEF IsSlice

\* What is under a slice.
LEMMA SliceOfSlice ==
  ASSUME NEW m, Meaning(m), NEW e \in m.E, e.op = "Slice", NEW hi \in Nat, NEW lo \in Nat, lo <= hi, hi < e.type
  PROVE  LET l == e.args[3].v
         IN IsSlice(m, Slice(e.args[1], hi + l, lo + l), e, hi, lo)
<1> DEFINE a == e.args[1]
           h == e.args[2].v
           l == e.args[3].v
           i == hi + l
           j == lo + l
           x == Slice(a, i, j)
<1>1. a \in m.E /\ a.type \in Nat /\ h \in Nat /\ l \in Nat /\ l <= h /\ h < a.type /\ e.type = h - l + 1
      /\ m.V[e] = Wrap(e.type, m.V[a] \div Pow2[l])
  BY SliceNode
<1> SUFFICES IsSlice(m, x, e, hi, lo)
  OBVIOUS
<1> HIDE DEF a, h, l
<1>2. i \in Nat /\ j \in Nat /\ j <= i /\ i < a.type /\ i - j + 1 = hi - lo + 1 /\ hi < h - l + 1
  BY <1>1
<1>3. m.V[e] = Bits(m.V[a], h, l)
  BY <1>1 DEF Wrap, Bits
<1>4. m.V[a] \in Int
  BY <1>1, NatValue
<1>5. Bits(Bits(m.V[a], h, l), hi, lo) = Bits(m.V[a], i, j)
  BY <1>1, <1>2, <1>4, BitsOfBits
<1> HIDE DEF i, j
<1>6. IsSlice(m, x, a, i, j)
  BY <1>1, <1>2, PartSlice
<1> QED BY <1>2, <1>3, <1>5, <1>6 DEF IsSlice

\* The bits of a cast are those of its operand.
LEMMA SliceOfCast ==
  ASSUME NEW m, Meaning(m), NEW e \in m.E, e.op = "Cast", e.type \in Nat, e.args[1].type \in Nat, NEW hi \in Nat, NEW lo \in Nat,
         lo <= hi, hi < e.type
  PROVE  Bits(m.V[e], hi, lo) = Bits(m.V[e.args[1]], hi, lo)
<1>1. e.type # Bool
  BY DEF Bool
<1>2. e.args[1] \in m.E /\ m.V[e] = Wrap(e.type, m.V[e.args[1]])
  BY <1>1, CastNode
<1>3. m.V[e] = m.V[e.args[1]] % Pow2[e.type]
  BY <1>2 DEF Wrap
<1>4. m.V[e.args[1]] \in Int
  BY <1>2, NatValue
<1> QED BY <1>3, <1>4, BitsOfMod

\* SliceUncast gives the bits it was asked for.
LEMMA UncastKeepsBits ==
  ASSUME NEW m, Meaning(m), "fromBool" \notin m.casts, NEW sl, Slicing(m, sl)
  PROVE  \A s \in Sliceable(m) : IsSlice(m, sl.uncast[s], s.of, s.hi, s.lo)
<1> DEFINE S == {n \in Nat : \A s \in Sliceable(m) : m.H[s.of] = n => IsSlice(m, sl.uncast[s], s.of, s.hi, s.lo)}
<1>1. ASSUME NEW n \in Nat, \A k \in 0 .. n - 1 : k \in S PROVE n \in S
  <2> SUFFICES ASSUME NEW s \in Sliceable(m), m.H[s.of] = n
               PROVE  IsSlice(m, sl.uncast[s], s.of, s.hi, s.lo)
    OBVIOUS
  <2> DEFINE e == s.of
             hi == s.hi
             lo == s.lo
             a == e.args[1]
             x == sl.uncast[s]
  <2>1. e \in m.E /\ hi \in Nat /\ lo \in Nat /\ lo <= hi /\ e.type \in Nat /\ hi < e.type /\ s = Arg(e, hi, lo)
    BY DEF Sliceable, Arg
  <2> SUFFICES IsSlice(m, x, e, hi, lo)
    OBVIOUS
  <2>2. x = IF e.op = "Cast" /\ hi < WidthOf(a.type) THEN sl.uncast[Arg(a, hi, lo)]
            ELSE IF e.op = "Slice" THEN Slice(a, hi + e.args[3].v, lo + e.args[3].v)
            ELSE IF hi - lo + 1 = e.type THEN e
            ELSE Slice(e, hi, lo)
    BY <2>1, UncastIs
  <2>3. \A y \in m.E : m.H[y] < m.H[e] /\ m.H[y] \in Nat =>
          \A z \in Sliceable(m) : z.of = y => IsSlice(m, sl.uncast[z], y, z.hi, z.lo)
    BY <1>1
  <2> HIDE DEF e, hi, lo, x, S
  <2>4. CASE e.op = "Cast" /\ hi < WidthOf(a.type)
    <3>1. a \in m.E /\ a.type \in Nat \cup {InfInt}
      <4>1. e.type # Bool
        BY <2>1 DEF Bool
      <4> QED BY <2>1, <2>4, <4>1, CastNode
    <3>2. a.type \in Nat /\ hi < a.type
      BY <2>1, <2>4, <3>1 DEF WidthOf, Bool, InfInt
    <3>3. m.H[a] < m.H[e] /\ m.H[a] \in Nat
      <4>1. Len(e.args) = 1
        BY <2>1, <2>4, Shape DEF Typed, Arithmetic, Relations
      <4>2. 1 \in 1 .. Len(e.args)
        BY <4>1
      <4> QED BY <2>1, <3>1, <4>2 DEF Meaning
    <3> DEFINE z == Arg(a, hi, lo)
    <3>4. z \in Sliceable(m) /\ z.of = a /\ z.hi = hi /\ z.lo = lo
      BY <2>1, <3>1, <3>2, Args
    <3> HIDE DEF z, a
    <3>5. IsSlice(m, sl.uncast[z], a, hi, lo)
      BY <2>3, <3>1, <3>3, <3>4
    <3>6. Bits(m.V[e], hi, lo) = Bits(m.V[a], hi, lo)
      BY <2>1, <2>4, <3>2, SliceOfCast DEF a
    <3>7. x = sl.uncast[z]
      BY <2>2, <2>4 DEF z
    <3> QED BY <3>5, <3>6, <3>7 DEF IsSlice
  <2>5. CASE e.op = "Slice"
    <3>1. x = Slice(a, hi + e.args[3].v, lo + e.args[3].v)
      BY <2>2, <2>5
    <3> QED BY <2>1, <2>5, <3>1, SliceOfSlice
  <2>6. CASE ~(e.op = "Cast" /\ hi < WidthOf(a.type)) /\ e.op # "Slice" /\ hi - lo + 1 = e.type
    <3>1. x = e
      BY <2>2, <2>6
    <3> QED BY <2>1, <2>6, <3>1, WholeSlice
  <2>7. CASE ~(e.op = "Cast" /\ hi < WidthOf(a.type)) /\ e.op # "Slice" /\ hi - lo + 1 # e.type
    <3>1. x = Slice(e, hi, lo)
      BY <2>2, <2>7
    <3> QED BY <2>1, <3>1, PartSlice
  <2> QED BY <2>4, <2>5, <2>6, <2>7
<1>2. \A n \in Nat : n \in S
  <2> HIDE DEF S
  <2> QED BY <1>1, StrongInduction
<1> SUFFICES ASSUME NEW s \in Sliceable(m) PROVE IsSlice(m, sl.uncast[s], s.of, s.hi, s.lo)
  OBVIOUS
<1>3. m.H[s.of] \in Nat
  BY DEF Sliceable, Meaning
<1> QED BY <1>2, <1>3

\* The bits of a concatenation are those of one operand, or of both.
LEMMA SliceOfConcat ==
  ASSUME NEW m, Meaning(m), NEW e \in m.E, e.op = "Concat", NEW hi \in Nat, NEW lo \in Nat, lo <= hi, hi < e.type
  PROVE  LET a == e.args[1]
             b == e.args[2]
             t == b.type
         IN /\ t <= lo => Bits(m.V[e], hi, lo) = Bits(m.V[a], hi - t, lo - t)
            /\ hi < t => Bits(m.V[e], hi, lo) = Bits(m.V[b], hi, lo)
            /\ lo < t /\ t <= hi =>
                 IsSlice(m, Node("Concat", hi - lo + 1, <<Slice(a, hi - t, 0), Slice(b, t - 1, lo)>>), e, hi, lo)
<1> DEFINE a == e.args[1]
           b == e.args[2]
           t == b.type
           h == hi - t
           k == t - 1
           high == Slice(a, h, 0)
           low == Slice(b, k, lo)
           w == hi - lo + 1
           x == Node("Concat", w, <<high, low>>)
<1>1. a \in m.E /\ b \in m.E /\ a.type \in Nat /\ t \in Nat /\ e.type = a.type + t
      /\ m.V[e] = m.V[a] * Pow2[t] + m.V[b]
  BY ConcatNode
<1> SUFFICES /\ t <= lo => Bits(m.V[e], hi, lo) = Bits(m.V[a], hi - t, lo - t)
             /\ hi < t => Bits(m.V[e], hi, lo) = Bits(m.V[b], hi, lo)
             /\ lo < t /\ t <= hi => IsSlice(m, x, e, hi, lo)
  OBVIOUS
<1>2. m.V[a] \in Nat /\ m.V[b] \in Words(t)
  BY <1>1, NatValue, WordValue
<1>3. /\ t <= lo => Bits(m.V[a] * Pow2[t] + m.V[b], hi, lo) = Bits(m.V[a], hi - t, lo - t)
      /\ hi < t => Bits(m.V[a] * Pow2[t] + m.V[b], hi, lo) = Bits(m.V[b], hi, lo)
      /\ lo < t /\ t <= hi => Bits(m.V[a] * Pow2[t] + m.V[b], hi, lo)
                              = Bits(m.V[a], hi - t, 0) * Pow2[t - lo] + Bits(m.V[b], t - 1, lo)
  BY <1>1, <1>2, BitsOfConcat
<1>4. ASSUME lo < t, t <= hi PROVE IsSlice(m, x, e, hi, lo)
  <2>1. h \in Nat /\ k \in Nat /\ h < a.type /\ k < b.type /\ lo <= k /\ k - lo + 1 = t - lo
        /\ w = (h - 0 + 1) + (k - lo + 1) /\ h - 0 + 1 \in Nat /\ k - lo + 1 \in Nat /\ b.type \in Nat
    BY <1>1, <1>4
  <2>2. m.V[e] = m.V[a] * Pow2[t] + m.V[b]
        /\ Bits(m.V[a] * Pow2[t] + m.V[b], hi, lo) = Bits(m.V[a], h, 0) * Pow2[t - lo] + Bits(m.V[b], k, lo)
    BY <1>1, <1>3, <1>4
  <2> HIDE DEF a, b, h, k, t, high, low
  <2>3. IsSlice(m, Slice(a, h, 0), a, h, 0)
    BY <1>1, <2>1, PartSlice
  <2>4. IsSlice(m, Slice(b, k, lo), b, k, lo)
    BY <1>1, <2>1, PartSlice
  <2>5. high \in m.E /\ low \in m.E /\ high.type = h - 0 + 1 /\ low.type = k - lo + 1
        /\ m.V[high] = Bits(m.V[a], h, 0) /\ m.V[low] = Bits(m.V[b], k, lo)
    BY <2>3, <2>4 DEF IsSlice, high, low
  <2>6. high.type \in Nat /\ low.type \in Nat /\ w = high.type + low.type
    BY <2>1, <2>5
  <2> HIDE DEF w
  <2>7. x \in m.E /\ x.type = w /\ m.V[x] = m.V[high] * Pow2[low.type] + m.V[low]
    BY <2>5, <2>6, MakeConcat
  <2> HIDE DEF x
  <2>8. m.V[x] = Bits(m.V[a], h, 0) * Pow2[t - lo] + Bits(m.V[b], k, lo)
    BY <2>1, <2>5, <2>7
  <2> QED BY <2>2, <2>7, <2>8 DEF IsSlice, w
<1> QED BY <1>1, <1>3, <1>4

\* SliceInside gives the bits it was asked for.
LEMMA InsideKeepsBits ==
  ASSUME NEW m, Meaning(m), "fromBool" \notin m.casts, NEW sl, Slicing(m, sl)
  PROVE  \A s \in Sliceable(m) : IsSlice(m, sl.inside[s], s.of, s.hi, s.lo)
<1> DEFINE S == {n \in Nat : \A s \in Sliceable(m) : m.H[s.of] = n => IsSlice(m, sl.inside[s], s.of, s.hi, s.lo)}
<1>1. ASSUME NEW n \in Nat, \A k \in 0 .. n - 1 : k \in S PROVE n \in S
  <2> SUFFICES ASSUME NEW s \in Sliceable(m), m.H[s.of] = n
               PROVE  IsSlice(m, sl.inside[s], s.of, s.hi, s.lo)
    OBVIOUS
  <2> DEFINE e == s.of
             hi == s.hi
             lo == s.lo
             a == e.args[1]
             b == e.args[2]
             t == b.type
             x == sl.inside[s]
  <2>1. e \in m.E /\ hi \in Nat /\ lo \in Nat /\ lo <= hi /\ e.type \in Nat /\ hi < e.type /\ s = Arg(e, hi, lo)
    BY DEF Sliceable, Arg
  <2> SUFFICES IsSlice(m, x, e, hi, lo)
    OBVIOUS
  <2>2. x = IF e.op # "Concat" THEN sl.uncast[Arg(e, hi, lo)]
            ELSE IF lo >= t THEN sl.inside[Arg(a, hi - t, lo - t)]
            ELSE IF hi < t THEN sl.inside[Arg(b, hi, lo)]
            ELSE Node("Concat", hi - lo + 1, <<Slice(a, hi - t, 0), Slice(b, t - 1, lo)>>)
    BY <2>1, InsideIs
  <2>3. \A y \in m.E : m.H[y] < m.H[e] /\ m.H[y] \in Nat =>
          \A z \in Sliceable(m) : z.of = y => IsSlice(m, sl.inside[z], y, z.hi, z.lo)
    BY <1>1
  <2>4. IsSlice(m, sl.uncast[s], e, hi, lo)
    BY UncastKeepsBits
  <2> HIDE DEF e, hi, lo, x, S
  <2>5. CASE e.op # "Concat"
    BY <2>1, <2>2, <2>4, <2>5
  <2>6. ASSUME e.op = "Concat"
        PROVE  /\ a \in m.E /\ b \in m.E /\ a.type \in Nat /\ t \in Nat /\ e.type = a.type + t
               /\ m.H[a] < m.H[e] /\ m.H[a] \in Nat /\ m.H[b] < m.H[e] /\ m.H[b] \in Nat
    <3>1. a \in m.E /\ b \in m.E /\ a.type \in Nat /\ t \in Nat /\ e.type = a.type + t
      BY <2>1, <2>6, ConcatNode
    <3>2. Len(e.args) = 2
      BY <2>1, <2>6, Shape DEF Typed, Arithmetic, Relations
    <3>3. 1 \in 1 .. Len(e.args) /\ 2 \in 1 .. Len(e.args)
      BY <3>2
    <3>4. m.H[a] < m.H[e] /\ m.H[b] < m.H[e]
      BY <2>1, <3>3 DEF Meaning
    <3>5. m.H[a] \in Nat /\ m.H[b] \in Nat
      <4> HIDE DEF a, b
      <4> QED BY <3>1 DEF Meaning
    <3> QED BY <3>1, <3>4, <3>5
  <2>7. e.op = "Concat" =>
          /\ t <= lo => Bits(m.V[e], hi, lo) = Bits(m.V[a], hi - t, lo - t)
          /\ hi < t => Bits(m.V[e], hi, lo) = Bits(m.V[b], hi, lo)
          /\ lo < t /\ t <= hi =>
               IsSlice(m, Node("Concat", hi - lo + 1, <<Slice(a, hi - t, 0), Slice(b, t - 1, lo)>>), e, hi, lo)
    BY <2>1, SliceOfConcat
  <2>8. CASE e.op = "Concat" /\ lo >= t
    <3> DEFINE i == hi - t
               j == lo - t
               z == Arg(a, i, j)
    <3>1. i \in Nat /\ j \in Nat /\ j <= i /\ i < a.type /\ i - j + 1 = hi - lo + 1 /\ t <= lo
      BY <2>1, <2>6, <2>8
    <3>2. x = sl.inside[z] /\ Bits(m.V[e], hi, lo) = Bits(m.V[a], i, j)
      BY <2>2, <2>7, <2>8, <3>1
    <3> HIDE DEF a, b, t, i, j
    <3>3. z \in Sliceable(m) /\ z.of = a /\ z.hi = i /\ z.lo = j
      BY <2>6, <2>8, <3>1, Args
    <3> HIDE DEF z
    <3>4. IsSlice(m, sl.inside[z], a, i, j)
      BY <2>3, <2>6, <2>8, <3>3
    <3> QED BY <3>1, <3>2, <3>4 DEF IsSlice
  <2>9. CASE e.op = "Concat" /\ hi < t
    <3> DEFINE z == Arg(b, hi, lo)
    <3>1. x = sl.inside[z] /\ Bits(m.V[e], hi, lo) = Bits(m.V[b], hi, lo)
      <4>1. ~(lo >= t)
        BY <2>1, <2>6, <2>9
      <4> QED BY <2>2, <2>7, <2>9, <4>1
    <3>2. b.type \in Nat /\ hi < b.type
      BY <2>6, <2>9
    <3> HIDE DEF a, b, t
    <3>3. z \in Sliceable(m) /\ z.of = b /\ z.hi = hi /\ z.lo = lo
      BY <2>1, <2>6, <2>9, <3>2, Args
    <3> HIDE DEF z
    <3>4. IsSlice(m, sl.inside[z], b, hi, lo)
      BY <2>3, <2>6, <2>9, <3>3
    <3> QED BY <3>1, <3>4 DEF IsSlice
  <2>10. CASE e.op = "Concat" /\ lo < t /\ t <= hi
    <3>1. ~(lo >= t) /\ ~(hi < t)
      BY <2>1, <2>6, <2>10
    <3>2. x = Node("Concat", hi - lo + 1, <<Slice(a, hi - t, 0), Slice(b, t - 1, lo)>>)
      BY <2>2, <2>10, <3>1
    <3> QED BY <2>7, <2>10, <3>2
  <2>11. e.op = "Concat" => lo >= t \/ hi < t \/ (lo < t /\ t <= hi)
    BY <2>1, <2>6
  <2> QED BY <2>5, <2>8, <2>9, <2>10, <2>11
<1>2. \A n \in Nat : n \in S
  <2> HIDE DEF S
  <2> QED BY <1>1, StrongInduction
<1> SUFFICES ASSUME NEW s \in Sliceable(m) PROVE IsSlice(m, sl.inside[s], s.of, s.hi, s.lo)
  OBVIOUS
<1>3. m.H[s.of] \in Nat
  BY DEF Sliceable, Meaning
<1> QED BY <1>2, <1>3

\* The bits of a shift by a constant.
LEMMA SliceOfShr ==
  ASSUME NEW m, Meaning(m), NEW e \in m.E, e.op = "Shr", e.args[2].op = "Constant",
         NEW hi \in Nat, NEW lo \in Nat
  PROVE  LET n == e.args[2].v
         IN n \in Nat /\ Bits(m.V[e], hi, lo) = Bits(m.V[e.args[1]], hi + n, lo + n)
<1> DEFINE a == e.args[1]
           r == e.args[2]
           n == r.v
           w == e.type
<1>1. a \in m.E /\ r \in m.E /\ w \in Nat /\ a.type = w /\ m.V[e] = Wrap(w, Calculated("Shr", m.V[a], m.V[r]))
  BY BinaryNode, ShiftNode
<1>2. m.V[r] = n /\ n \in Nat
  BY <1>1, Leaf, NatValue DEF IsConstant
<1>3. m.V[a] \in Words(w) /\ m.V[a] \in Int
  BY <1>1, WordValue, NatValue
<1>4. Calculated("Shr", m.V[a], n) = m.V[a] \div Pow2[n]
  BY DEF Calculated
<1>5. Wrap(w, m.V[a] \div Pow2[n]) = m.V[a] \div Pow2[n]
  BY <1>1, <1>2, <1>3, ShiftedRight
<1>6. m.V[e] = m.V[a] \div Pow2[n]
  BY <1>1, <1>2, <1>4, <1>5
<1> DEFINE v == m.V[a]
<1> HIDE DEF v, n
<1>7. Bits(v \div Pow2[n], hi, lo) = Bits(v, hi + n, lo + n)
  BY <1>2, <1>3, BitsOfShift DEF v
<1> QED BY <1>2, <1>6, <1>7 DEF v, n

\* The bits of a shift to the left, with the zeros that enter.
LEMMA SliceOfShl ==
  ASSUME NEW m, Meaning(m), NEW e \in m.E, e.op = "Shl", e.args[2].op = "Constant",
         NEW hi \in Nat, NEW lo \in Nat, lo <= hi, hi < e.type
  PROVE  LET a == m.V[e.args[1]]
             n == e.args[2].v
         IN /\ n \in Nat
            /\ n <= lo => Bits(m.V[e], hi, lo) = Bits(a, hi - n, lo - n)
            /\ hi < n => Bits(m.V[e], hi, lo) = 0
            /\ lo < n /\ n <= hi => Bits(m.V[e], hi, lo) = Bits(a, hi - n, 0) * Pow2[n - lo]
<1> DEFINE l == e.args[1]
           a == m.V[l]
           r == e.args[2]
           n == r.v
           w == e.type
           p == a * Pow2[n]
<1>1. l \in m.E /\ r \in m.E /\ w \in Nat /\ m.V[e] = Wrap(w, Calculated("Shl", a, m.V[r]))
  BY BinaryNode, ShiftNode
<1>2. m.V[r] = n /\ n \in Nat
  BY <1>1, Leaf, NatValue DEF IsConstant
<1>3. a \in Nat
  BY <1>1, NatValue
<1>4. Calculated("Shl", a, n) = p
  BY DEF Calculated
<1> HIDE DEF l, a, r, n, w
<1>5. p \in Int
  BY <1>2, <1>3, Pow2Facts
<1>6. m.V[e] = p % Pow2[w]
  BY <1>1, <1>2, <1>4 DEF Wrap
<1>7. Bits(p % Pow2[w], hi, lo) = Bits(p, hi, lo)
  <2>1. hi < w
    BY DEF w
  <2> HIDE DEF p
  <2> QED BY <1>1, <1>5, <2>1, BitsOfMod
<1>8. /\ n <= lo => Bits(p, hi, lo) = Bits(a, hi - n, lo - n)
      /\ hi < n => Bits(p, hi, lo) = 0
      /\ lo < n /\ n <= hi => Bits(p, hi, lo) = Bits(a, hi - n, 0) * Pow2[n - lo]
  BY <1>2, <1>3, BitsOfShl
<1> HIDE DEF p
<1> QED BY <1>2, <1>6, <1>7, <1>8 DEF a, n, l, r

\* A number with zeros to its right.
LEMMA ZerosAfter ==
  ASSUME NEW m, Meaning(m), NEW a \in m.E, a.type \in Nat, NEW k \in Nat, NEW t, t = a.type + k
  PROVE  LET x == Node("Concat", t, <<a, Constant(k, 0)>>)
         IN x \in m.E /\ x.type = t /\ m.V[x] = m.V[a] * Pow2[k]
<1> DEFINE z == Constant(k, 0)
           x == Node("Concat", t, <<a, z>>)
<1>1. z \in m.E /\ z.type = k /\ m.V[z] = Wrap(k, 0)
  BY MakeWordConstant
<1>2. Wrap(k, 0) = 0
  BY WrapInRange, WordsAreNat
<1> HIDE DEF z
<1>3. x \in m.E /\ x.type = t /\ m.V[x] = m.V[a] * Pow2[z.type] + m.V[z]
  BY <1>1, MakeConcat
<1> HIDE DEF x
<1>4. m.V[a] * Pow2[k] \in Int
  BY NatValue, Pow2Facts
<1> DEFINE p == m.V[a] * Pow2[k]
<1> HIDE DEF p
<1>5. p + 0 = p
  BY <1>4 DEF p
<1> QED BY <1>1, <1>2, <1>3, <1>5 DEF x, z, p

\* What stands for the bits of a slice stands for the slice.
LEMMA SlicedIsSame ==
  ASSUME NEW m, Meaning(m), NEW e \in m.E, e.op = "Slice", NEW x,
         IsSlice(m, x, e.args[1], e.args[2].v, e.args[3].v)
  PROVE  Same(m, x, e)
<1>1. e.type \in Nat /\ e.type = e.args[2].v - e.args[3].v + 1
      /\ m.V[e] = Wrap(e.type, m.V[e.args[1]] \div Pow2[e.args[3].v])
  BY SliceNode
<1> QED BY <1>1 DEF Same, IsSlice, Bits, Wrap

\* SliceReduced and StrengthReduction, with sl for the functions that SliceUncast and SliceInside are.
ReducedSlice(sl, e) == SliceReduced(e, sl.inside[Unshifted(e)])
Strength(sl, e) == StrengthReduction(e, sl.inside[Unshifted(e)])

\* postorder(Slice) keeps the value.
LEMMA ReduceSlice ==
  ASSUME NEW m, Meaning(m), "fromBool" \notin m.casts, NEW sl, Slicing(m, sl), NEW e \in m.E, e.op = "Slice"
  PROVE  Same(m, ReducedSlice(sl, e), e)
<1> DEFINE e0 == e.args[1]
           hi == e.args[2].v
           lo == e.args[3].v
           of == e0.args[1]
           n == e0.args[2].v
           x == ReducedSlice(sl, e)
           shift == e0.op \in {"Shl", "Shr"} /\ e0.args[2].op = "Constant"
           by == IF e0.op = "Shr" THEN n ELSE -n
<1> SUFFICES Same(m, x, e)
  OBVIOUS
<1>1. e0 \in m.E /\ e0.type \in Nat /\ hi \in Nat /\ lo \in Nat /\ lo <= hi /\ hi < e0.type
      /\ e.type = hi - lo + 1
  BY SliceNode
<1> DEFINE amount == ShiftAmount(e0)
           arg == Unshifted(e)
<1>10. amount = IF ~shift THEN 0 ELSE by
  BY Zenon DEF ShiftAmount, ShiftsByConstant
<1>11. arg = IF shift /\ lo + amount >= 0 /\ hi + amount < of.type THEN Arg(of, hi + amount, lo + amount)
             ELSE Arg(e0, hi, lo)
  BY Zenon DEF Unshifted, ShiftsByConstant, Arg
<1>2. x = IF hi + amount < 0 THEN Constant(e.type, 0)
          ELSE IF lo + amount < 0 THEN Node("Concat", e.type, <<Slice(of, hi + amount, 0), Constant(-(lo + amount), 0)>>)
          ELSE sl.inside[arg]
  BY Zenon DEF SliceReduced, ReducedSlice
<1> HIDE DEF amount, arg
<1> SUFFICES IsSlice(m, x, e0, hi, lo)
  BY SlicedIsSame
<1> HIDE DEF x, e0, hi, lo
<1>3. \A y \in m.E : \A h \in Nat : \A k \in Nat :
        k <= h /\ y.type \in Nat /\ h < y.type => IsSlice(m, sl.inside[Arg(y, h, k)], y, h, k)
  <2> TAKE y \in m.E
  <2> TAKE h \in Nat
  <2> TAKE k \in Nat
  <2> HAVE k <= h /\ y.type \in Nat /\ h < y.type
  <2>1. Arg(y, h, k) \in Sliceable(m) /\ Arg(y, h, k).of = y /\ Arg(y, h, k).hi = h /\ Arg(y, h, k).lo = k
    BY Args
  <2> QED BY <2>1, InsideKeepsBits
<1>12. shift => n \in Nat /\ of.type = e0.type
  BY <1>1, SliceOfShr, SliceOfShl, ShiftNode
<1>4. CASE ~shift \/ hi + by >= of.type
  <2>1. x = sl.inside[Arg(e0, hi, lo)]
    <3>1. CASE ~shift
      <4>1. amount = 0 /\ arg = Arg(e0, hi, lo)
        BY <1>10, <1>11, <3>1
      <4> QED BY <1>1, <1>2, <4>1
    <3>2. CASE shift /\ hi + by >= of.type
      <4>1. n \in Nat /\ of.type = e0.type
        BY <1>12, <3>2
      <4>2. e0.op = "Shr"
        BY <1>1, <3>2, <4>1
      <4>3. amount = n /\ hi + amount >= of.type
        BY <1>10, <3>2, <4>2
      <4>4. ~(hi + amount < of.type)
        BY <1>1, <4>1, <4>3
      <4>5. arg = Arg(e0, hi, lo)
        BY <1>11, <4>4
      <4>6. hi + amount >= 0 /\ lo + amount >= 0
        BY <1>1, <4>1, <4>3
      <4> HIDE DEF of, n
      <4> QED BY <1>1, <1>2, <4>1, <4>3, <4>5, <4>6
    <3> QED BY <1>4, <3>1, <3>2
  <2> QED BY <1>1, <1>3, <2>1
<1>5. ASSUME shift, ~(hi + by >= of.type)
      PROVE  /\ of \in m.E /\ of.type = e0.type /\ n \in Nat /\ by \in Int /\ hi + by < of.type
             /\ e0.op = "Shr" => Bits(m.V[e0], hi, lo) = Bits(m.V[of], hi + n, lo + n)
             /\ e0.op = "Shl" =>
                  /\ n <= lo => Bits(m.V[e0], hi, lo) = Bits(m.V[of], hi - n, lo - n)
                  /\ hi < n => Bits(m.V[e0], hi, lo) = 0
                  /\ lo < n /\ n <= hi => Bits(m.V[e0], hi, lo) = Bits(m.V[of], hi - n, 0) * Pow2[n - lo]
  <2>1. of \in m.E /\ of.type = e0.type
    BY <1>1, <1>5, BinaryNode, ShiftNode
  <2>2. e0.op = "Shr" => n \in Nat /\ Bits(m.V[e0], hi, lo) = Bits(m.V[of], hi + n, lo + n)
    BY <1>1, <1>5, SliceOfShr
  <2>3. e0.op = "Shl" =>
           /\ n \in Nat
           /\ n <= lo => Bits(m.V[e0], hi, lo) = Bits(m.V[of], hi - n, lo - n)
           /\ hi < n => Bits(m.V[e0], hi, lo) = 0
           /\ lo < n /\ n <= hi => Bits(m.V[e0], hi, lo) = Bits(m.V[of], hi - n, 0) * Pow2[n - lo]
    BY <1>1, <1>5, SliceOfShl
  <2>4. n \in Nat
    BY <1>5, <2>2, <2>3
  <2>5. by \in Int
    BY <2>4
  <2> HIDE DEF n
  <2>6. hi + by < of.type
    BY <1>1, <1>5, <2>1, <2>5
  <2> QED BY <2>1, <2>2, <2>3, <2>4, <2>5, <2>6
<1> DEFINE i == hi + by
           j == lo + by
<1>6. ASSUME shift, ~(hi + by >= of.type), lo + by >= 0 PROVE IsSlice(m, x, e0, hi, lo)
  <2>1. i \in Nat /\ j \in Nat /\ j <= i /\ i < of.type /\ i - j + 1 = hi - lo + 1
    BY <1>1, <1>5, <1>6
  <2>2. Bits(m.V[e0], hi, lo) = Bits(m.V[of], i, j)
    <3>1. CASE e0.op = "Shr"
      <4>1. i = hi + n /\ j = lo + n
        BY <3>1
      <4> QED BY <1>5, <1>6, <3>1, <4>1
    <3>2. CASE e0.op = "Shl"
      <4>1. i = hi - n /\ j = lo - n /\ n <= lo
        BY <1>1, <1>5, <1>6, <3>2
      <4> QED BY <1>5, <1>6, <3>2, <4>1
    <3> QED BY <1>6, <3>1, <3>2
  <2>3. x = sl.inside[Arg(of, i, j)]
    <3>1. amount = by
      BY <1>6, <1>10
    <3> HIDE DEF shift, by, of
    <3>2. arg = Arg(of, i, j)
      BY <1>6, <1>11, <2>1, <3>1
    <3> QED BY <1>2, <2>1, <3>1, <3>2
  <2>4. of \in m.E /\ of.type \in Nat
    BY <1>1, <1>5, <1>6
  <2> HIDE DEF i, j, of
  <2>5. IsSlice(m, x, of, i, j)
    BY <1>3, <2>1, <2>3, <2>4
  <2> QED BY <2>1, <2>2, <2>5 DEF IsSlice
<1>7. ASSUME shift, ~(hi + by >= of.type), ~(lo + by >= 0)
      PROVE  n \in Nat /\ e0.op = "Shl" /\ by = -n /\ lo < n /\ of \in m.E /\ of.type \in Nat /\ hi - n < of.type
  <2>1. e0.op # "Shr"
    BY <1>1, <1>5, <1>7
  <2>2. by = -n
    BY <2>1
  <2> QED BY <1>1, <1>5, <1>7, <2>1, <2>2
<1>8. ASSUME shift, ~(hi + by >= of.type), ~(lo + by >= 0), hi + by < 0 PROVE IsSlice(m, x, e0, hi, lo)
  <2> DEFINE w == hi - lo + 1
  <2>1. w \in Nat /\ hi < n
    BY <1>1, <1>7, <1>8
  <2>2. x = Constant(w, 0)
    <3>1. amount = by
      BY <1>8, <1>10
    <3> QED BY <1>1, <1>2, <1>8, <3>1
  <2>3. Bits(m.V[e0], hi, lo) = 0
    BY <1>5, <1>7, <1>8, <2>1
  <2> HIDE DEF w
  <2>4. x \in m.E /\ x.type = w /\ m.V[x] = Wrap(w, 0)
    BY <2>1, <2>2, MakeWordConstant
  <2>5. Wrap(w, 0) = 0
    BY <2>1, WrapInRange, WordsAreNat
  <2> QED BY <2>3, <2>4, <2>5 DEF IsSlice, w
<1>9. ASSUME shift, ~(hi + by >= of.type), ~(lo + by >= 0), ~(hi + by < 0) PROVE IsSlice(m, x, e0, hi, lo)
  <2> DEFINE h == hi - n
             k == n - lo
             part == Slice(of, h, 0)
  <2>1. h \in Nat /\ k \in Nat /\ n <= hi /\ hi + by = h /\ -(lo + by) = k /\ e.type = (h - 0 + 1) + k
        /\ h < of.type
    BY <1>1, <1>7, <1>9
  <2>2. x = Node("Concat", e.type, <<part, Constant(k, 0)>>)
    <3>1. amount = by
      BY <1>9, <1>10
    <3>2. lo + by < 0 /\ -(lo + amount) = k /\ hi + amount = h
      BY <1>1, <1>7, <1>9, <2>1, <3>1
    <3>3. ~(hi + amount < 0) /\ lo + amount < 0
      BY <1>9, <3>1, <3>2
    <3> HIDE DEF h, k, by
    <3> QED BY <1>2, <3>2, <3>3 DEF part
  <2>3. Bits(m.V[e0], hi, lo) = Bits(m.V[of], h, 0) * Pow2[k]
    BY <1>5, <1>7, <1>9, <2>1
  <2> HIDE DEF h, k, of, part, n, by
  <2>4. IsSlice(m, Slice(of, h, 0), of, h, 0)
    BY <1>7, <1>9, <2>1, PartSlice
  <2>5. part \in m.E /\ part.type = h - 0 + 1 /\ m.V[part] = Bits(m.V[of], h, 0)
    BY <2>4 DEF IsSlice, part
  <2>6. part.type \in Nat /\ e.type = part.type + k
    BY <2>1, <2>5
  <2>7. x \in m.E /\ x.type = e.type /\ m.V[x] = m.V[part] * Pow2[k]
    BY <2>1, <2>2, <2>5, <2>6, ZerosAfter
  <2> QED BY <1>1, <2>3, <2>5, <2>7 DEF IsSlice
<1> QED BY <1>4, <1>6, <1>8, <1>9

\* What DoStrengthReduction makes of a node with an operator that is not a slice.
LEMMA ReduceCmplOf ==
  ASSUME NEW m, Meaning(m), NEW e \in m.E, e.op = "Cmpl"
  PROVE  Same(m, IF e.args[1].op = "Cmpl" THEN e.args[1].args[1] ELSE e, e)
BY ReduceCmpl, SameItself

\* StrengthReduction, operator by operator.
LEMMA Reduced ==
  ASSUME NEW m, NEW sl, NEW e
  PROVE  LET l == e.args[1]
             r == e.args[2]
             x == Strength(sl, e)
         IN /\ e.op = "Cmpl" => x = IF l.op = "Cmpl" THEN l.args[1] ELSE e
            /\ e.op = "BAnd" => x = BAndReduced(e, l, r)
            /\ e.op = "BOr"  => x = BOrReduced(e, l, r)
            /\ e.op = "BXor" => x = BXorReduced(e, l, r)
            /\ e.op \in {"LAnd", "LOr"} =>
                 x = IF e.op = "LAnd"
                     THEN (IF IsTrue(l) THEN r ELSE IF IsFalse(l) \/ IsTrue(r) THEN l ELSE e)
                     ELSE (IF IsFalse(l) THEN r ELSE IF IsTrue(l) \/ IsFalse(r) THEN l ELSE e)
            /\ e.op \in {"Equ", "Neq"} => x = BoolReduced(e, l, r)
            /\ e.op = "LNot" => x = IF l.op = "LNot" THEN l.args[1]
                                    ELSE IF l.op \in Relations THEN [l EXCEPT !.op = Opposite[l.op]] ELSE e
            /\ e.op = "Sub" => x = SubReduced(e, l, r)
            /\ e.op = "Add" => x = IF IsZero(r) THEN l ELSE IF IsZero(l) THEN r ELSE e
            /\ e.op \in {"Shl", "Shr"} => x = ShiftReduced(e, l, r)
            /\ e.op = "Mul" => x = MulReduced(e, l, r)
            /\ e.op = "Div" => x = DivReduced(e, l, r)
            /\ e.op = "Mod" => x = ModReduced(e, l, r)
            /\ e.op = "Mux" => x = MuxReduced(e)
            /\ e.op = "Slice" => x = ReducedSlice(sl, e)
            /\ e.op \notin {"Cmpl", "BAnd", "BOr", "BXor", "LAnd", "LOr", "Equ", "Neq", "LNot", "Sub", "Add",
                            "Shl", "Shr", "Mul", "Div", "Mod", "Mux", "Slice"} => x = e
<1> DEFINE l == e.args[1]
           r == e.args[2]
           x == Strength(sl, e)
           cmpl == IF l.op = "Cmpl" THEN l.args[1] ELSE e
           and == BAndReduced(e, l, r)
           or == BOrReduced(e, l, r)
           xor == BXorReduced(e, l, r)
           land == IF IsTrue(l) THEN r ELSE IF IsFalse(l) \/ IsTrue(r) THEN l ELSE e
           lor == IF IsFalse(l) THEN r ELSE IF IsTrue(l) \/ IsFalse(r) THEN l ELSE e
           bool == BoolReduced(e, l, r)
           not == IF l.op = "LNot" THEN l.args[1]
                  ELSE IF l.op \in Relations THEN [l EXCEPT !.op = Opposite[l.op]] ELSE e
           sub == SubReduced(e, l, r)
           add == IF IsZero(r) THEN l ELSE IF IsZero(l) THEN r ELSE e
           shift == ShiftReduced(e, l, r)
           mul == MulReduced(e, l, r)
           div == DivReduced(e, l, r)
           mod == ModReduced(e, l, r)
           mux == MuxReduced(e)
           slice == ReducedSlice(sl, e)
<1>1. x = CASE e.op = "Cmpl" -> cmpl
            [] e.op = "BAnd" -> and
            [] e.op = "BOr"  -> or
            [] e.op = "BXor" -> xor
            [] e.op = "LAnd" -> land
            [] e.op = "LOr"  -> lor
            [] e.op \in {"Equ", "Neq"} -> bool
            [] e.op = "LNot" -> not
            [] e.op = "Sub"  -> sub
            [] e.op = "Add"  -> add
            [] e.op \in {"Shl", "Shr"} -> shift
            [] e.op = "Mul"  -> mul
            [] e.op = "Div"  -> div
            [] e.op = "Mod"  -> mod
            [] e.op = "Mux"  -> mux
            [] e.op = "Slice" -> slice
            [] OTHER -> e
  BY Zenon DEF StrengthReduction, Strength, ReducedSlice
<1> HIDE DEF x, cmpl, and, or, xor, land, lor, bool, not, sub, add, shift, mul, div, mod, mux, slice
<1>2. /\ e.op = "Cmpl" => x = cmpl
      /\ e.op = "BAnd" => x = and
      /\ e.op = "BOr"  => x = or
      /\ e.op = "BXor" => x = xor
      /\ e.op = "LAnd" => x = land
      /\ e.op = "LOr" => x = lor
      /\ e.op \in {"Equ", "Neq"} => x = bool
      /\ e.op = "LNot" => x = not
      /\ e.op = "Sub" => x = sub
      /\ e.op = "Add" => x = add
      /\ e.op \in {"Shl", "Shr"} => x = shift
      /\ e.op = "Mul" => x = mul
      /\ e.op = "Div" => x = div
      /\ e.op = "Mod" => x = mod
      /\ e.op = "Mux" => x = mux
      /\ e.op = "Slice" => x = slice
      /\ e.op \notin {"Cmpl", "BAnd", "BOr", "BXor", "LAnd", "LOr", "Equ", "Neq", "LNot", "Sub", "Add",
                      "Shl", "Shr", "Mul", "Div", "Mod", "Mux", "Slice"} => x = e
  BY <1>1
<1>3. e.op \in {"LAnd", "LOr"} => x = IF e.op = "LAnd" THEN land ELSE lor
  BY <1>2
<1> QED BY <1>2, <1>3, Zenon
       DEF x, cmpl, and, or, xor, land, lor, bool, not, sub, add, shift, mul, div, mod, mux, slice

\* DoStrengthReduction keeps the type and the value of every expression without a cast from bool.
THEOREM StrengthReductionKeepsValue ==
  ASSUME NEW m, Meaning(m), "fromBool" \notin m.casts, NEW sl, Slicing(m, sl), NEW e \in m.E
  PROVE  Same(m, Strength(sl, e), e)
<1> DEFINE l == e.args[1]
           r == e.args[2]
           x == Strength(sl, e)
<1> SUFFICES Same(m, x, e)
  OBVIOUS
<1>1. /\ e.op = "Cmpl" => x = IF l.op = "Cmpl" THEN l.args[1] ELSE e
      /\ e.op = "BAnd" => x = BAndReduced(e, l, r)
      /\ e.op = "BOr"  => x = BOrReduced(e, l, r)
      /\ e.op = "BXor" => x = BXorReduced(e, l, r)
      /\ e.op \in {"LAnd", "LOr"} =>
           x = IF e.op = "LAnd"
               THEN (IF IsTrue(l) THEN r ELSE IF IsFalse(l) \/ IsTrue(r) THEN l ELSE e)
               ELSE (IF IsFalse(l) THEN r ELSE IF IsTrue(l) \/ IsFalse(r) THEN l ELSE e)
      /\ e.op \in {"Equ", "Neq"} => x = BoolReduced(e, l, r)
      /\ e.op = "LNot" => x = IF l.op = "LNot" THEN l.args[1]
                              ELSE IF l.op \in Relations THEN [l EXCEPT !.op = Opposite[l.op]] ELSE e
      /\ e.op = "Sub" => x = SubReduced(e, l, r)
      /\ e.op = "Add" => x = IF IsZero(r) THEN l ELSE IF IsZero(l) THEN r ELSE e
      /\ e.op \in {"Shl", "Shr"} => x = ShiftReduced(e, l, r)
      /\ e.op = "Mul" => x = MulReduced(e, l, r)
      /\ e.op = "Div" => x = DivReduced(e, l, r)
      /\ e.op = "Mod" => x = ModReduced(e, l, r)
      /\ e.op = "Mux" => x = MuxReduced(e)
      /\ e.op = "Slice" => x = ReducedSlice(sl, e)
      /\ e.op \notin {"Cmpl", "BAnd", "BOr", "BXor", "LAnd", "LOr", "Equ", "Neq", "LNot", "Sub", "Add",
                      "Shl", "Shr", "Mul", "Div", "Mod", "Mux", "Slice"} => x = e
  BY Reduced, Zenon
<1> DEFINE slice == ReducedSlice(sl, e)
<1>2. e.op = "Slice" => Same(m, slice, e)
  BY ReduceSlice
<1>3. e.op = "Slice" => x = slice
  BY <1>1, Zenon
<1> HIDE DEF x, slice, l, r
<1>4. CASE e.op = "Cmpl"
  BY <1>1, <1>4, ReduceCmplOf, Zenon DEF l
<1>5. CASE e.op = "BAnd"
  BY <1>1, <1>5, ReduceBAnd, Zenon DEF l, r
<1>6. CASE e.op = "BOr"
  BY <1>1, <1>6, ReduceBOr, Zenon DEF l, r
<1>7. CASE e.op = "BXor"
  BY <1>1, <1>7, ReduceBXor, Zenon DEF l, r
<1>8. CASE e.op \in {"LAnd", "LOr"}
  BY <1>1, <1>8, ReduceLogic, Zenon DEF l, r
<1>9. CASE e.op \in {"Equ", "Neq"}
  BY <1>1, <1>9, ReduceBool, Zenon DEF l, r
<1>10. CASE e.op = "LNot"
  BY <1>1, <1>10, ReduceNot, Zenon DEF l
<1>11. CASE e.op = "Sub"
  BY <1>1, <1>11, ReduceSub, Zenon DEF l, r
<1>12. CASE e.op = "Add"
  BY <1>1, <1>12, ReduceAdd, Zenon DEF l, r
<1>13. CASE e.op \in {"Shl", "Shr"}
  BY <1>1, <1>13, ReduceShift, Zenon DEF l, r
<1>14. CASE e.op = "Mul"
  BY <1>1, <1>14, ReduceMul, Zenon DEF l, r
<1>15. CASE e.op = "Div"
  BY <1>1, <1>15, ReduceDiv, Zenon DEF l, r
<1>16. CASE e.op = "Mod"
  BY <1>1, <1>16, ReduceMod, Zenon DEF l, r
<1>17. CASE e.op = "Mux"
  BY <1>1, <1>17, ReduceMux, Zenon
<1>18. CASE e.op = "Slice"
  BY <1>2, <1>3, <1>18
<1>19. CASE e.op \notin {"Cmpl", "BAnd", "BOr", "BXor", "LAnd", "LOr", "Equ", "Neq", "LNot", "Sub", "Add",
                         "Shl", "Shr", "Mul", "Div", "Mod", "Mux", "Slice"}
  BY <1>1, <1>19, SameItself, Zenon
<1> QED BY <1>4, <1>5, <1>6, <1>7, <1>8, <1>9, <1>10, <1>11, <1>12, <1>13, <1>14, <1>15, <1>16, <1>17, <1>18, <1>19

-----------------------------------------------------------------------------
(* Whole trees: a pass rewrites the operands, then the node.               *)

Passes == {"ConstantFolding", "StrengthReduction", "Reassociation", "UselessCasts", "Lower"}

\* RewriteNode, with sl for the functions that SliceUncast and SliceInside are.
NodeOf(pass, sl, e) == RewriteNode(pass, e, sl.inside[Unshifted(e)])

\* Strength reduction is for expressions without casts from bool, the lowering for those
\* without casts to bool.
Fit(pass, m, sl) ==
  /\ pass = "StrengthReduction" => "fromBool" \notin m.casts /\ Slicing(m, sl)
  /\ pass = "Lower" => "toBool" \notin m.casts

\* The rule that each pass applies to a node.
LEMMA NodeIs ==
  ASSUME NEW sl, NEW e, NEW pass \in Passes
  PROVE  /\ pass = "ConstantFolding" => NodeOf(pass, sl, e) = ConstantFolding(e)
         /\ pass = "StrengthReduction" => NodeOf(pass, sl, e) = Strength(sl, e)
         /\ pass = "Reassociation" => NodeOf(pass, sl, e) = Reassociation(e)
         /\ pass = "UselessCasts" => NodeOf(pass, sl, e) = RemoveUselessCasts(e)
         /\ pass = "Lower" => NodeOf(pass, sl, e) = Lower(e)
<1> DEFINE x == NodeOf(pass, sl, e)
           cf == ConstantFolding(e)
           sr == Strength(sl, e)
           re == Reassociation(e)
           uc == RemoveUselessCasts(e)
           low == Lower(e)
<1>1. x = CASE pass = "ConstantFolding" -> cf
            [] pass = "StrengthReduction" -> sr
            [] pass = "Reassociation" -> re
            [] pass = "UselessCasts" -> uc
            [] pass = "Lower" -> low
  BY Zenon DEF NodeOf, RewriteNode, Strength
<1> HIDE DEF x, cf, sr, re, uc, low
<1>2. /\ pass = "ConstantFolding" => x = cf
      /\ pass = "StrengthReduction" => x = sr
      /\ pass = "Reassociation" => x = re
      /\ pass = "UselessCasts" => x = uc
      /\ pass = "Lower" => x = low
  BY <1>1
<1> QED BY <1>2, Zenon DEF x, cf, sr, re, uc, low

\* Each pass keeps the type and the value of a node.
LEMMA NodeKeepsValue ==
  ASSUME NEW m, Meaning(m), NEW sl, NEW pass \in Passes, Fit(pass, m, sl), NEW e \in m.E
  PROVE  Same(m, NodeOf(pass, sl, e), e)
<1>1. CASE pass = "ConstantFolding"
  BY <1>1, NodeIs, ConstantFoldingKeepsValue
<1>2. CASE pass = "StrengthReduction"
  <2>1. "fromBool" \notin m.casts /\ Slicing(m, sl)
    BY <1>2 DEF Fit
  <2> QED BY <1>2, <2>1, NodeIs, StrengthReductionKeepsValue
<1>3. CASE pass = "Reassociation"
  BY <1>3, NodeIs, ReassociationKeepsValue
<1>4. CASE pass = "UselessCasts"
  BY <1>4, NodeIs, RemoveUselessCastsKeepsValue
<1>5. CASE pass = "Lower"
  <2>1. "toBool" \notin m.casts
    BY <1>5 DEF Fit
  <2> QED BY <1>5, <2>1, NodeIs, LowerKeepsValue
<1> QED BY <1>1, <1>2, <1>3, <1>4, <1>5 DEF Passes

\* No pass touches a constant.
LEMMA ConstantStays ==
  ASSUME NEW sl, NEW pass \in Passes, NEW e, IsConstant(e)
  PROVE  NodeOf(pass, sl, e) = e
<1>1. e.op \in {"Constant", "BoolLiteral"}
  BY DEF IsConstant
<1>2. CASE pass = "ConstantFolding"
  <2>1. ConstantFolding(e) = e
    BY <1>1 DEF ConstantFolding, Arithmetic, Relations
  <2> QED BY <1>2, <2>1, NodeIs
<1>3. CASE pass = "StrengthReduction"
  <2>1. Strength(sl, e) = e
    <3>1. e.op \notin {"Cmpl", "BAnd", "BOr", "BXor", "LAnd", "LOr", "Equ", "Neq", "LNot", "Sub", "Add",
                       "Shl", "Shr", "Mul", "Div", "Mod", "Mux", "Slice"}
      BY <1>1
    <3> QED BY <3>1, Reduced, Zenon
  <2> QED BY <1>3, <2>1, NodeIs
<1>4. CASE pass = "Reassociation"
  <2>1. Reassociation(e) = e
    BY <1>1 DEF Reassociation
  <2> QED BY <1>4, <2>1, NodeIs
<1>5. CASE pass = "UselessCasts"
  <2>1. RemoveUselessCasts(e) = e
    BY <1>1 DEF RemoveUselessCasts
  <2> QED BY <1>5, <2>1, NodeIs
<1>6. CASE pass = "Lower"
  <2>1. Lower(e) = e
    BY <1>1 DEF Lower
  <2> QED BY <1>6, <2>1, NodeIs
<1> QED BY <1>2, <1>3, <1>4, <1>5, <1>6 DEF Passes

\* An operand may stand for another: it is the same constant, if that is one.
MayReplace(m, x, e) == Same(m, x, e) /\ (IsConstant(e) => x = e)

\* A node whose operands are replaced by others of their types and values keeps its own.
LEMMA ReplacedOperands ==
  ASSUME NEW m, Meaning(m), NEW e \in m.E, NEW args \in Seq(m.E), Len(args) = Len(e.args),
         \A i \in 1 .. Len(e.args) : MayReplace(m, args[i], e.args[i])
  PROVE  Same(m, WithArgs(e, args), e)
<1> DEFINE x == WithArgs(e, args)
           l == args[1]
           r == args[2]
           k == args[3]
           a == e.args[1]
           b == e.args[2]
           c == e.args[3]
           n == Len(e.args)
<1>1. n \in Nat /\ e.op \in Ops /\ e.type \in Int /\ e.v \in Int /\ Typed(e, m.var, m.casts)
  BY Shape
<1>2. /\ n >= 1 => MayReplace(m, l, a)
      /\ n >= 2 => MayReplace(m, r, b)
      /\ n >= 3 => MayReplace(m, k, c)
  <2>1. /\ n >= 1 => 1 \in 1 .. n
        /\ n >= 2 => 2 \in 1 .. n
        /\ n >= 3 => 3 \in 1 .. n
    BY <1>1
  <2> HIDE DEF n
  <2> QED BY <2>1 DEF n
<1>3. /\ n >= 1 => l.type = a.type /\ m.V[l] = m.V[a]
      /\ n >= 2 => r.type = b.type /\ m.V[r] = m.V[b]
      /\ n >= 3 => k.type = c.type /\ m.V[k] = m.V[c]
      /\ n >= 2 /\ b.op = "Constant" => r = b
      /\ n >= 3 /\ c.op = "Constant" => k = c
  BY <1>2 DEF MayReplace, Same, IsConstant
<1>4. /\ x.op = e.op /\ x.type = e.type /\ x.args = args /\ x.v = e.v
      /\ x = [op |-> x.op, type |-> x.type, args |-> x.args, v |-> x.v]
  <2>1. x = Tree(e.op, e.type, args, e.v)
    BY OtherOperands
  <2> QED BY <2>1 DEF Tree
<1>5. m.V[e] = NodeValue(e, m.V[a], m.V[b], m.V[c], m.env)
  BY ValueOf
<1> HIDE DEF x, l, r, k, a, b, c, n
<1>6. Typed(x, m.var, m.casts)
  <2>1. Len(x.args) = n /\ x.args[1] = l /\ x.args[2] = r /\ x.args[3] = k
    BY <1>4 DEF l, r, k, n
  <2>2. Len(e.args) = n /\ e.args[1] = a /\ e.args[2] = b /\ e.args[3] = c
    BY DEF a, b, c, n
  <2>3. CASE n = 0
    <3>1. e.op \in {"Path", "Constant", "BoolLiteral"}
      BY <1>1, <2>2, <2>3 DEF Typed, Arithmetic, Relations
    <3> QED BY <1>1, <1>4, <2>1, <2>2, <2>3, <3>1 DEF Typed, Arithmetic, Relations
  <2>4. CASE n = 1
    <3>1. e.op \in {"Cmpl", "Neg", "LNot", "Cast"}
      BY <1>1, <2>2, <2>4 DEF Typed, Arithmetic, Relations
    <3>2. l.type = a.type
      BY <1>3, <2>4
    <3> QED BY <1>1, <1>4, <2>1, <2>2, <2>4, <3>1, <3>2 DEF Typed, Arithmetic, Relations
  <2>5. CASE n = 2
    <3>1. e.op \in Arithmetic \cup Relations \cup {"LAnd", "LOr", "Shl", "Shr", "Concat"}
      BY <1>1, <2>2, <2>5 DEF Typed, Arithmetic, Relations
    <3>2. l.type = a.type /\ r.type = b.type
      BY <1>3, <2>5
    <3> QED BY <1>1, <1>4, <2>1, <2>2, <2>5, <3>1, <3>2 DEF Typed, Arithmetic, Relations
  <2>6. CASE n = 3
    <3>1. e.op \in {"Mux", "Slice"}
      BY <1>1, <2>2, <2>6 DEF Typed, Arithmetic, Relations
    <3>2. l.type = a.type /\ r.type = b.type /\ k.type = c.type
      BY <1>3, <2>6
    <3>3. e.op = "Slice" => r = b /\ k = c
      <4>1. e.op = "Slice" => b.op = "Constant" /\ c.op = "Constant"
        BY <1>1, <2>2 DEF Typed, Arithmetic, Relations
      <4> QED BY <1>3, <2>6, <4>1
    <3> QED BY <1>1, <1>4, <2>1, <2>2, <2>6, <3>1, <3>2, <3>3 DEF Typed, Arithmetic, Relations
  <2>7. n \in {0, 1, 2, 3}
    BY <1>1, <2>2 DEF Typed
  <2> QED BY <2>3, <2>4, <2>5, <2>6, <2>7
<1>7. x \in m.E /\ m.V[x] = NodeValue(x, m.V[l], m.V[r], m.V[k], m.env)
  <2>1. x.args \in Seq(m.E) /\ x.args[1] = l /\ x.args[2] = r /\ x.args[3] = k
    BY <1>4 DEF l, r, k
  <2> QED BY <1>1, <1>4, <1>6, <2>1, Built
<1>8. NodeValue(x, m.V[l], m.V[r], m.V[k], m.env) = NodeValue(e, m.V[a], m.V[b], m.V[c], m.env)
  <2>1. x.args[2] = r /\ e.args[2] = b /\ Len(e.args) = n
    BY <1>4 DEF r, b, n
  <2>2. CASE n = 0
    <3>1. e.op \in {"Path", "Constant", "BoolLiteral"}
      BY <1>1, <2>1, <2>2 DEF Typed, Arithmetic, Relations
    <3> QED BY <1>4, <3>1 DEF NodeValue
  <2>3. CASE n = 1
    <3>1. e.op \in {"Cmpl", "Neg", "LNot", "Cast"}
      BY <1>1, <2>1, <2>3 DEF Typed, Arithmetic, Relations
    <3>2. m.V[l] = m.V[a]
      BY <1>3, <2>3
    <3> QED BY <1>4, <3>1, <3>2 DEF NodeValue
  <2>4. CASE n = 2
    <3>1. e.op \in Arithmetic \cup Relations \cup {"LAnd", "LOr", "Shl", "Shr", "Concat"}
      BY <1>1, <2>1, <2>4 DEF Typed, Arithmetic, Relations
    <3>2. m.V[l] = m.V[a] /\ m.V[r] = m.V[b] /\ r.type = b.type
      BY <1>3, <2>4
    <3> QED BY <1>4, <2>1, <3>1, <3>2 DEF NodeValue, Arithmetic, Relations
  <2>5. CASE n = 3
    <3>1. e.op \in {"Mux", "Slice"}
      BY <1>1, <2>1, <2>5 DEF Typed, Arithmetic, Relations
    <3>2. m.V[l] = m.V[a] /\ m.V[r] = m.V[b] /\ m.V[k] = m.V[c]
      BY <1>3, <2>5
    <3> QED BY <1>4, <3>1, <3>2 DEF NodeValue
  <2>6. n \in {0, 1, 2, 3}
    BY <1>1, <2>1 DEF Typed
  <2> QED BY <2>2, <2>3, <2>4, <2>5, <2>6
<1> QED BY <1>4, <1>5, <1>7, <1>8 DEF Same, x

\* A function applied to the members of a sequence.
LEMMA Mapped ==
  ASSUME NEW S, NEW s \in Seq(S), NEW R, \A i \in 1 .. Len(s) : R[s[i]] \in S
  PROVE  LET g == [i \in DOMAIN s |-> R[s[i]]]
         IN /\ g \in Seq(S) /\ Len(g) = Len(s) /\ \A i \in 1 .. Len(s) : g[i] = R[s[i]]
            /\ Len(s) = 0 => g = s
<1> DEFINE g == [i \in DOMAIN s |-> R[s[i]]]
           n == Len(s)
<1>1. n \in Nat /\ DOMAIN s = 1 .. n
  BY LenProperties
<1> HIDE DEF n
<1>2. g \in [1 .. n -> S] /\ \A i \in 1 .. n : g[i] = R[s[i]]
  BY <1>1 DEF n
<1> HIDE DEF g
<1>3. g \in Seq(S) /\ Len(g) = n
  BY <1>1, <1>2, LenProperties
<1>4. n = 0 => g = s
  BY <1>1, <1>3, SeqEqual DEF n
<1> QED BY <1>2, <1>3, <1>4 DEF g, n

\* R is the function that Rewrite is for a pass.
Rewriting(m, sl, pass, R) ==
  \A e \in m.E : R[e] = NodeOf(pass, sl, WithArgs(e, [i \in DOMAIN e.args |-> R[e.args[i]]]))

\* A node may be replaced by what the pass makes of it after its operands.
LEMMA RewriteMayReplace ==
  ASSUME NEW m, Meaning(m), NEW sl, NEW pass \in Passes, Fit(pass, m, sl),
         NEW R, NEW e \in m.E, \A i \in 1 .. Len(e.args) : MayReplace(m, R[e.args[i]], e.args[i])
  PROVE  MayReplace(m, NodeOf(pass, sl, WithArgs(e, [i \in DOMAIN e.args |-> R[e.args[i]]])), e)
<1> DEFINE S == m.E
           s == e.args
           args == [i \in DOMAIN s |-> R[s[i]]]
           n == WithArgs(e, args)
           x == NodeOf(pass, sl, n)
<1> SUFFICES MayReplace(m, x, e)
  OBVIOUS
<1>1. s \in Seq(S) /\ Typed(e, m.var, m.casts)
  BY Shape
<1>2. \A i \in 1 .. Len(s) : R[s[i]] \in S
  BY DEF MayReplace, Same
<1>3. /\ args \in Seq(S) /\ Len(args) = Len(s) /\ \A i \in 1 .. Len(s) : args[i] = R[s[i]]
      /\ Len(s) = 0 => args = s
  <2> HIDE DEF S, s
  <2> QED BY <1>1, <1>2, Mapped
<1> HIDE DEF args
<1>4. \A i \in 1 .. Len(e.args) : MayReplace(m, args[i], e.args[i])
  BY <1>3
<1>5. args \in Seq(m.E) /\ Len(args) = Len(e.args)
  BY <1>3
<1>6. Same(m, n, e)
  BY <1>4, <1>5, ReplacedOperands
<1>7. ASSUME IsConstant(e) PROVE n = e
  <2>1. Len(e.args) = 0
    BY <1>1, <1>7 DEF Typed, IsConstant, Arithmetic, Relations
  <2>2. args = e.args
    BY <1>3, <2>1
  <2>3. n = Tree(e.op, e.type, e.args, e.v) /\ e = [op |-> e.op, type |-> e.type, args |-> e.args, v |-> e.v]
    BY <2>2, OtherOperands, Shape
  <2> QED BY <2>3 DEF Tree
<1> HIDE DEF n
<1>8. n \in m.E
  BY <1>6 DEF Same
<1>9. Same(m, x, n)
  BY <1>8, NodeKeepsValue
<1>10. IsConstant(e) => x = e
  <2> SUFFICES ASSUME IsConstant(e) PROVE x = e
    OBVIOUS
  <2>1. n = e
    BY <1>7
  <2>2. NodeOf(pass, sl, e) = e
    BY ConstantStays
  <2> QED BY <2>1, <2>2
<1> HIDE DEF x
<1> QED BY <1>6, <1>9, <1>10 DEF MayReplace, Same

\* Every pass, over a whole expression, keeps its type and its value.
THEOREM RewriteKeepsValue ==
  ASSUME NEW m, Meaning(m), NEW sl, NEW pass \in Passes, Fit(pass, m, sl),
         NEW R, Rewriting(m, sl, pass, R), NEW e \in m.E
  PROVE  Same(m, R[e], e)
<1> DEFINE S == {n \in Nat : \A y \in m.E : m.H[y] = n => MayReplace(m, R[y], y)}
<1>1. ASSUME NEW n \in Nat, \A k \in 0 .. n - 1 : k \in S PROVE n \in S
  <2> SUFFICES ASSUME NEW y \in m.E, m.H[y] = n PROVE MayReplace(m, R[y], y)
    OBVIOUS
  <2>1. \A i \in 1 .. Len(y.args) : MayReplace(m, R[y.args[i]], y.args[i])
    <3> SUFFICES ASSUME NEW i \in 1 .. Len(y.args) PROVE MayReplace(m, R[y.args[i]], y.args[i])
      OBVIOUS
    <3>1. y.args[i] \in m.E /\ m.H[y.args[i]] < m.H[y]
      BY Shape DEF Meaning
    <3>2. m.H[y.args[i]] \in Nat
      BY <3>1 DEF Meaning
    <3>3. m.H[y.args[i]] \in S
      BY <1>1, <3>1, <3>2
    <3> QED BY <3>1, <3>3
  <2>2. R[y] = NodeOf(pass, sl, WithArgs(y, [i \in DOMAIN y.args |-> R[y.args[i]]]))
    BY DEF Rewriting
  <2> QED BY <2>1, <2>2, RewriteMayReplace
<1>2. \A n \in Nat : n \in S
  <2> HIDE DEF S
  <2> QED BY <1>1, StrongInduction
<1>3. m.H[e] \in Nat
  BY DEF Meaning
<1> QED BY <1>2, <1>3 DEF MayReplace

-----------------------------------------------------------------------------
(* Assignments, through any sequence of passes.                            *)

\* Assignments to a variable or to a slice of one.
Assignments(m) ==
  {s \in [left : m.E, right : m.E] :
     s.right.type = s.left.type /\ (s.left.op = "Path" \/ (s.left.op = "Slice" /\ s.left.args[1].op = "Path"))}

Target(s) == IF s.left.op = "Path" THEN s.left ELSE s.left.args[1]

\* The value of the variable after the assignment (Assigned).
NewValue(m, s) ==
  IF s.left.op = "Path" THEN m.V[s.right]
  ELSE Replaced(m.V[s.left.args[1]], m.V[s.right], s.left.args[2].v, s.left.args[3].v)

\* A pass makes t of s.
Passed(m, sl, s, t) ==
  \/ t = RemoveLeftSlices(s)
  \/ \E pass \in Passes : \E R :
       Fit(pass, m, sl) /\ Rewriting(m, sl, pass, R) /\ t = [s EXCEPT !.right = R[s.right]]

\* One pass keeps an assignment well typed, with its variable and the value it gives it.
LEMMA PassKeepsAssignment ==
  ASSUME NEW m, Meaning(m), NEW sl, NEW s \in Assignments(m), NEW t, Passed(m, sl, s, t)
  PROVE  t \in Assignments(m) /\ Target(t) = Target(s) /\ NewValue(m, t) = NewValue(m, s)
<1>1. s.left \in m.E /\ s.right \in m.E /\ s = [left |-> s.left, right |-> s.right] /\ s.right.type = s.left.type
      /\ (s.left.op = "Path" \/ (s.left.op = "Slice" /\ s.left.args[1].op = "Path"))
  BY DEF Assignments
<1>2. CASE t = RemoveLeftSlices(s) /\ s.left.op # "Slice"
  BY <1>1, <1>2 DEF RemoveLeftSlices
<1>3. CASE t = RemoveLeftSlices(s) /\ s.left.op = "Slice"
  <2> DEFINE a == s.left.args[1]
             new == RemoveLeftSlices(s)
  <2>1. /\ new.left = a /\ new.right \in m.E /\ new.right.type = a.type
        /\ m.V[new.right] = Replaced(m.V[a], m.V[s.right], s.left.args[2].v, s.left.args[3].v)
    BY <1>1, <1>3, RemoveLeftSlicesKeepsValue
  <2>2. new = [left |-> new.left, right |-> new.right]
    BY <1>3 DEF RemoveLeftSlices
  <2>3. a \in m.E /\ a.op = "Path"
    BY <1>1, <1>3, SliceNode
  <2> HIDE DEF new, a
  <2>4. new \in [left : m.E, right : m.E]
    BY <2>1, <2>2, <2>3
  <2>5. new \in Assignments(m)
    BY <2>1, <2>3, <2>4 DEF Assignments
  <2>6. Target(new) = a /\ Target(s) = a
    BY <1>3, <2>1, <2>3 DEF Target, a
  <2>7. NewValue(m, new) = NewValue(m, s)
    BY <1>3, <2>1, <2>3 DEF NewValue, a
  <2> QED BY <1>3, <2>5, <2>6, <2>7 DEF new
<1>4. CASE \E pass \in Passes : \E R :
             Fit(pass, m, sl) /\ Rewriting(m, sl, pass, R) /\ t = [s EXCEPT !.right = R[s.right]]
  <2>1. PICK pass \in Passes : \E R :
             Fit(pass, m, sl) /\ Rewriting(m, sl, pass, R) /\ t = [s EXCEPT !.right = R[s.right]]
    BY <1>4
  <2>2. PICK R : Fit(pass, m, sl) /\ Rewriting(m, sl, pass, R) /\ t = [s EXCEPT !.right = R[s.right]]
    BY <2>1
  <2>3. Same(m, R[s.right], s.right)
    BY <1>1, <2>2, RewriteKeepsValue
  <2>4. t = [left |-> s.left, right |-> R[s.right]]
    BY <1>1, <2>2
  <2> QED BY <1>1, <2>3, <2>4 DEF Same, Assignments, Target, NewValue
<1> QED BY <1>2, <1>3, <1>4 DEF Passed

\* Whatever passes are applied to an assignment, in whatever order and however often, the
\* variable gets the value that the source gives it.
THEOREM PassesKeepAssignment ==
  ASSUME NEW m, Meaning(m), NEW sl, NEW a, a[0] \in Assignments(m),
         \A n \in Nat : Passed(m, sl, a[n], a[n + 1])
  PROVE  \A n \in Nat : Target(a[n]) = Target(a[0]) /\ NewValue(m, a[n]) = NewValue(m, a[0])
<1> DEFINE S == {n \in Nat : /\ a[n] \in Assignments(m)
                             /\ Target(a[n]) = Target(a[0]) /\ NewValue(m, a[n]) = NewValue(m, a[0])}
<1>1. ASSUME NEW n \in Nat, \A k \in 0 .. n - 1 : k \in S PROVE n \in S
  <2>1. CASE n = 0
    BY <2>1
  <2>2. CASE n # 0
    <3>1. n - 1 \in S /\ n - 1 \in Nat /\ (n - 1) + 1 = n
      <4>1. n - 1 \in 0 .. n - 1 /\ n - 1 \in Nat /\ (n - 1) + 1 = n
        BY <2>2
      <4> HIDE DEF S
      <4> QED BY <1>1, <4>1
    <3>2. Passed(m, sl, a[n - 1], a[n]) /\ a[n - 1] \in Assignments(m)
      BY <3>1
    <3>3. a[n] \in Assignments(m) /\ Target(a[n]) = Target(a[n - 1]) /\ NewValue(m, a[n]) = NewValue(m, a[n - 1])
      BY <3>2, PassKeepsAssignment
    <3> QED BY <3>1, <3>3
  <2> QED BY <2>1, <2>2
<1>2. \A n \in Nat : n \in S
  <2> HIDE DEF S
  <2> QED BY <1>1, StrongInduction
<1> QED BY <1>2

-----------------------------------------------------------------------------
(* There are such expressions, values and rewritings: functions defined    *)
(* from the operands exist.                                                *)

\* The functions that take their value at e from P[e].
Choices(E, P) == {w \in [E -> UNION {P[e] : e \in E}] : \A e \in E : w[e] \in P[e]}

\* A function that takes its values from P is one of the choices.
LEMMA ChoiceIs ==
  ASSUME NEW E, NEW P, NEW w, DOMAIN w = E, w = [e \in E |-> w[e]], \A e \in E : w[e] \in P[e]
  PROVE  w \in Choices(E, P)
<1> DEFINE X == UNION {P[e] : e \in E}
<1>1. \A e \in E : w[e] \in X
  OBVIOUS
<1> HIDE DEF X
<1>2. w \in [E -> X]
  BY <1>1
<1> QED BY <1>2 DEF Choices, X

\* A step that looks only at smaller expressions has a fixed point.
LEMMA HeightRecursion ==
  ASSUME NEW E, NEW H \in [E -> Nat], NEW P, NEW base \in Choices(E, P), NEW step \in [Choices(E, P) -> Choices(E, P)],
         \A f, g \in Choices(E, P) : \A e \in E :
           (\A y \in E : H[y] < H[e] => f[y] = g[y]) => step[f][e] = step[g][e]
  PROVE  \E f \in Choices(E, P) : f = step[f]
<1> DEFINE C == Choices(E, P)
           pred == [n \in Nat |-> IF n = 0 THEN 0 ELSE n - 1]
           next == [p \in Nat \X C |-> step[p[2]]]
<1>1. pred \in [Nat -> Nat] /\ \A n \in Nat \ {0} : pred[n] = n - 1 /\ pred[n] < n
  OBVIOUS
<1>2. base \in C /\ step \in [C -> C]
  OBVIOUS
<1> HIDE DEF C, pred
<1>3. next \in [Nat \X C -> C] /\ \A n \in Nat : \A c \in C : next[<<n, c>>] = step[c]
  BY <1>2
<1> HIDE DEF next
<1>4. PICK W \in [Nat -> C] : Recursive(W, base, pred, next)
  BY <1>1, <1>2, <1>3, RecursiveExists
<1>5. \A n \in Nat : W[n] \in C /\ W[n + 1] = step[W[n]]
  <2> TAKE n \in Nat
  <2>1. n + 1 \in Nat \ {0} /\ pred[n + 1] = n
    BY <1>1
  <2>2. W[n + 1] = next[<<n + 1, W[n]>>]
    BY <1>4, <2>1 DEF Recursive
  <2> QED BY <1>3, <1>4, <2>1, <2>2
<1>6. \A f \in C : \A g \in C : \A e \in E :
        (\A y \in E : H[y] < H[e] => f[y] = g[y]) => step[f][e] = step[g][e]
  BY DEF C
<1> DEFINE S == {n \in Nat : \A e \in E : H[e] < n => W[n][e] = W[n + 1][e]}
<1>7. ASSUME NEW n \in Nat, \A k \in 0 .. n - 1 : k \in S PROVE n \in S
  <2> SUFFICES ASSUME NEW e \in E, H[e] < n PROVE W[n][e] = W[n + 1][e]
    OBVIOUS
  <2> DEFINE k == n - 1
  <2>1. k \in Nat /\ k \in 0 .. n - 1 /\ k + 1 = n /\ H[e] \in Nat /\ H[e] <= k
    OBVIOUS
  <2> HIDE DEF k
  <2>2. \A y \in E : H[y] < H[e] => W[k][y] = W[k + 1][y]
    <3> TAKE y \in E
    <3> HAVE H[y] < H[e]
    <3>1. k \in S /\ H[y] \in Nat
      BY <1>7, <2>1
    <3> QED BY <2>1, <3>1
  <2>3. W[k] \in C /\ W[n] \in C /\ W[n] = step[W[k]] /\ W[n + 1] = step[W[n]]
    BY <1>5, <2>1
  <2>4. step[W[k]][e] = step[W[n]][e]
    BY <1>6, <2>1, <2>2, <2>3
  <2> QED BY <2>3, <2>4
<1>8. \A n \in Nat : \A e \in E : H[e] < n => W[n][e] = W[n + 1][e]
  <2>1. \A n \in Nat : n \in S
    <3> HIDE DEF S
    <3> QED BY <1>7, StrongInduction
  <2> QED BY <2>1
<1> DEFINE T == {n \in Nat : \A e \in E : H[e] < n => W[n][e] = W[H[e] + 1][e]}
<1>9. ASSUME NEW n \in Nat, \A k \in 0 .. n - 1 : k \in T PROVE n \in T
  <2> SUFFICES ASSUME NEW e \in E, H[e] < n PROVE W[n][e] = W[H[e] + 1][e]
    OBVIOUS
  <2> DEFINE k == n - 1
  <2>1. k \in Nat /\ k \in 0 .. n - 1 /\ k + 1 = n /\ H[e] \in Nat /\ H[e] <= k
    OBVIOUS
  <2> HIDE DEF k
  <2>2. CASE H[e] = k
    BY <2>1, <2>2
  <2>3. CASE H[e] < k
    <3>1. W[k][e] = W[H[e] + 1][e]
      BY <1>9, <2>1, <2>3
    <3>2. W[k][e] = W[k + 1][e]
      BY <1>8, <2>1, <2>3
    <3> QED BY <2>1, <3>1, <3>2
  <2> QED BY <2>1, <2>2, <2>3
<1>10. \A n \in Nat : \A e \in E : H[e] < n => W[n][e] = W[H[e] + 1][e]
  <2>1. \A n \in Nat : n \in T
    <3> HIDE DEF T
    <3> QED BY <1>9, StrongInduction
  <2> QED BY <2>1
<1> HIDE DEF S, T
<1> DEFINE f == [e \in E |-> W[H[e] + 1][e]]
<1>11. f \in C
  <2>1. \A e \in E : W[H[e] + 1][e] \in P[e]
    <3> TAKE e \in E
    <3>1. H[e] + 1 \in Nat
      OBVIOUS
    <3>2. W[H[e] + 1] \in C
      BY <1>5, <3>1
    <3> QED BY <3>2 DEF C, Choices
  <2>2. DOMAIN f = E /\ f = [e \in E |-> f[e]] /\ \A e \in E : f[e] = W[H[e] + 1][e]
    OBVIOUS
  <2> HIDE DEF f
  <2> QED BY <2>1, <2>2, ChoiceIs DEF C
<1>12. \A e \in E : f[e] = W[H[e] + 1][e]
  OBVIOUS
<1> HIDE DEF f
<1>13. \A e \in E : step[f][e] = f[e]
  <2> TAKE e \in E
  <2>1. H[e] \in Nat
    OBVIOUS
  <2>2. \A y \in E : H[y] < H[e] => f[y] = W[H[e]][y]
    BY <1>10, <1>12, <2>1
  <2>3. W[H[e]] \in C /\ W[H[e] + 1] = step[W[H[e]]]
    BY <1>5, <2>1
  <2>4. step[f][e] = step[W[H[e]]][e]
    BY <1>6, <1>11, <2>2, <2>3
  <2> QED BY <1>12, <2>3, <2>4
<1>14. f = step[f]
  <2>1. step[f] \in C
    BY <1>2, <1>11
  <2>2. f = [e \in E |-> f[e]] /\ step[f] = [e \in E |-> step[f][e]]
    BY <1>11, <2>1 DEF C, Choices
  <2> QED BY <1>13, <2>2
<1> QED BY <1>11, <1>14 DEF C

\* Trees of height at most m, for every m up to k.
LevelsTo(k, g, var, casts) ==
  g[0] = {} /\ \A n \in 1 .. k : g[n] = Trees(g[n - 1], var, casts)

\* Two sequences of levels agree as far as both reach.
LEMMA LevelsAgree ==
  ASSUME NEW var, NEW casts, NEW j \in Nat, NEW k \in Nat, j <= k, NEW g, NEW h,
         LevelsTo(j, g, var, casts), LevelsTo(k, h, var, casts)
  PROVE  \A n \in 0 .. j : g[n] = h[n]
<1> DEFINE S == {n \in Nat : n <= j => g[n] = h[n]}
<1>1. ASSUME NEW n \in Nat, \A i \in 0 .. n - 1 : i \in S PROVE n \in S
  <2>1. CASE n = 0
    BY <2>1 DEF LevelsTo
  <2>2. CASE n # 0 /\ n <= j
    <3>1. n - 1 \in 0 .. n - 1 /\ n - 1 \in Nat /\ n - 1 <= j /\ n \in 1 .. j /\ n \in 1 .. k
      BY <2>2
    <3>2. g[n - 1] = h[n - 1]
      BY <1>1, <3>1
    <3>3. g[n] = Trees(g[n - 1], var, casts) /\ h[n] = Trees(h[n - 1], var, casts)
      BY <3>1 DEF LevelsTo
    <3> QED BY <3>2, <3>3
  <2> QED BY <2>1, <2>2
<1>2. \A n \in Nat : n \in S
  <2> HIDE DEF S
  <2> QED BY <1>1, StrongInduction
<1> QED BY <1>2

\* There are levels of expressions, each with those over the one below.
LEMMA LevelsExist ==
  ASSUME NEW var, NEW casts
  PROVE  \E L : L[0] = {} /\ \A n \in Nat : L[n + 1] = Trees(L[n], var, casts)
<1> DEFINE S == {k \in Nat : \E g : LevelsTo(k, g, var, casts)}
<1>1. ASSUME NEW k \in Nat, \A i \in 0 .. k - 1 : i \in S PROVE k \in S
  <2>1. CASE k = 0
    <3> DEFINE g == [n \in {0} |-> {}]
    <3>1. LevelsTo(k, g, var, casts)
      BY <2>1 DEF LevelsTo
    <3> QED BY <3>1
  <2>2. CASE k # 0
    <3>1. k - 1 \in 0 .. k - 1 /\ k \in 1 .. k
      BY <2>2
    <3>2. PICK g : LevelsTo(k - 1, g, var, casts)
      BY <1>1, <3>1
    <3> DEFINE new == Trees(g[k - 1], var, casts)
               h == [n \in 0 .. k |-> IF n = k THEN new ELSE g[n]]
    <3> HIDE DEF new
    <3>3. h[k] = new /\ \A n \in 0 .. k - 1 : h[n] = g[n]
      BY <2>2
    <3> HIDE DEF h
    <3>4. h[0] = {}
      BY <2>2, <3>2, <3>3 DEF LevelsTo
    <3>5. ASSUME NEW n \in 1 .. k PROVE h[n] = Trees(h[n - 1], var, casts)
      <4>1. n - 1 \in 0 .. k - 1
        OBVIOUS
      <4>2. CASE n = k
        BY <3>3, <4>1, <4>2 DEF new
      <4>3. CASE n # k
        <5>1. n \in 1 .. k - 1 /\ n \in 0 .. k - 1
          BY <4>3
        <5>2. g[n] = Trees(g[n - 1], var, casts)
          BY <3>2, <5>1 DEF LevelsTo
        <5> QED BY <3>3, <4>1, <5>1, <5>2
      <4> QED BY <4>2, <4>3
    <3> QED BY <3>4, <3>5 DEF LevelsTo
  <2> QED BY <2>1, <2>2
<1>2. \A k \in Nat : \E g : LevelsTo(k, g, var, casts)
  <2>1. \A k \in Nat : k \in S
    <3> HIDE DEF S
    <3> QED BY <1>1, StrongInduction
  <2> QED BY <2>1
<1> DEFINE G(k) == CHOOSE g : LevelsTo(k, g, var, casts)
           L == [k \in Nat |-> G(k)[k]]
<1>3. \A k \in Nat : LevelsTo(k, G(k), var, casts)
  BY <1>2, Zenon
<1> HIDE DEF G
<1>4. \A k \in Nat : L[k] = G(k)[k]
  OBVIOUS
<1> HIDE DEF L
<1>5. L[0] = {}
  BY <1>3, <1>4 DEF LevelsTo
<1>6. ASSUME NEW n \in Nat PROVE L[n + 1] = Trees(L[n], var, casts)
  <2>1. n + 1 \in Nat /\ n <= n + 1 /\ n \in 0 .. n /\ n + 1 \in 1 .. n + 1 /\ (n + 1) - 1 = n
    OBVIOUS
  <2>2. G(n)[n] = G(n + 1)[n]
    <3>1. LevelsTo(n, G(n), var, casts) /\ LevelsTo(n + 1, G(n + 1), var, casts)
      BY <1>3, <2>1
    <3>2. \A i \in 0 .. n : G(n)[i] = G(n + 1)[i]
      BY <2>1, <3>1, LevelsAgree
    <3> QED BY <2>1, <3>2
  <2>3. G(n + 1)[n + 1] = Trees(G(n + 1)[n], var, casts)
    <3>1. LevelsTo(n + 1, G(n + 1), var, casts)
      BY <1>3, <2>1
    <3>2. G(n + 1)[n + 1] = Trees(G(n + 1)[(n + 1) - 1], var, casts)
      BY <2>1, <3>1 DEF LevelsTo
    <3> QED BY <2>1, <3>2
  <2> QED BY <1>4, <2>1, <2>2, <2>3
<1> QED BY <1>5, <1>6

\* A sequence whose members lie in T is one over T.
LEMMA SeqOver ==
  ASSUME NEW S, NEW T, NEW s \in Seq(S), \A i \in 1 .. Len(s) : s[i] \in T
  PROVE  s \in Seq(T)
OBVIOUS

\* More operands, more expressions.
LEMMA TreesGrow ==
  ASSUME NEW S, NEW T, S \subseteq T, NEW var, NEW casts
  PROVE  Trees(S, var, casts) \subseteq Trees(T, var, casts)
<1> SUFFICES ASSUME NEW e \in Trees(S, var, casts) PROVE e \in Trees(T, var, casts)
  OBVIOUS
<1>1. /\ e.op \in Ops /\ e.type \in Int /\ e.args \in Seq(S) /\ e.v \in Int /\ Typed(e, var, casts)
      /\ e = [op |-> e.op, type |-> e.type, args |-> e.args, v |-> e.v]
  BY DEF Trees
<1>2. \A i \in 1 .. Len(e.args) : e.args[i] \in T
  BY <1>1
<1>3. e.args \in Seq(T)
  BY <1>1, <1>2, SeqOver
<1>4. [op |-> e.op, type |-> e.type, args |-> e.args, v |-> e.v] \in [op : Ops, type : Int, args : Seq(T), v : Int]
  BY <1>1, <1>3
<1> QED BY <1>1, <1>4 DEF Trees

\* A set of expressions with every well-typed node over its own, and their heights.
Forms(E, H, var, casts) ==
  /\ E = Trees(E, var, casts)
  /\ H \in [E -> Nat]
  /\ \A e \in E : \A i \in 1 .. Len(e.args) : H[e.args[i]] < H[e]

\* There is a set of all expressions over given variables, with their heights.
LEMMA FormsExist ==
  ASSUME NEW var, NEW casts
  PROVE  \E E : \E H : Forms(E, H, var, casts)
<1>1. PICK L : L[0] = {} /\ \A n \in Nat : L[n + 1] = Trees(L[n], var, casts)
  BY LevelsExist
<1> DEFINE S == {n \in Nat : L[n] \subseteq L[n + 1]}
<1>2. ASSUME NEW n \in Nat, \A k \in 0 .. n - 1 : k \in S PROVE n \in S
  <2>1. CASE n = 0
    BY <1>1, <2>1
  <2>2. CASE n # 0
    <3> DEFINE k == n - 1
    <3>1. k \in Nat /\ k \in 0 .. n - 1 /\ k + 1 = n
      BY <2>2
    <3> HIDE DEF k
    <3>2. L[k] \subseteq L[n]
      BY <1>2, <3>1
    <3>3. L[n] = Trees(L[k], var, casts) /\ L[n + 1] = Trees(L[n], var, casts)
      BY <1>1, <3>1
    <3>4. L[n] \subseteq L[n + 1]
      BY <3>2, <3>3, TreesGrow
    <3> QED BY <3>4
  <2> QED BY <2>1, <2>2
<1>3. \A n \in Nat : L[n] \subseteq L[n + 1]
  <2>1. \A n \in Nat : n \in S
    <3> HIDE DEF S
    <3> QED BY <1>2, StrongInduction
  <2> QED BY <2>1
<1> DEFINE T == {n \in Nat : \A k \in 0 .. n : L[k] \subseteq L[n]}
<1>4. ASSUME NEW n \in Nat, \A k \in 0 .. n - 1 : k \in T PROVE n \in T
  <2> SUFFICES ASSUME NEW k \in 0 .. n PROVE L[k] \subseteq L[n]
    OBVIOUS
  <2>1. CASE k = n
    BY <2>1
  <2>2. CASE k # n
    <3> DEFINE j == n - 1
    <3>1. j \in Nat /\ j \in 0 .. n - 1 /\ j + 1 = n /\ k \in 0 .. j
      BY <2>2
    <3> HIDE DEF j
    <3>2. L[k] \subseteq L[j] /\ L[j] \subseteq L[n]
      BY <1>3, <1>4, <3>1
    <3> QED BY <3>2
  <2> QED BY <2>1, <2>2
<1>5. \A n \in Nat : \A k \in 0 .. n : L[k] \subseteq L[n]
  <2>1. \A n \in Nat : n \in T
    <3> HIDE DEF T
    <3> QED BY <1>4, StrongInduction
  <2> QED BY <2>1
<1> HIDE DEF S, T
<1> DEFINE E == UNION {L[n] : n \in Nat}
           In(e) == {n \in Nat : e \in L[n]}
           H == [e \in E |-> CHOOSE n \in In(e) : \A k \in In(e) : n <= k]
<1>6. ASSUME NEW e \in E PROVE H[e] \in Nat /\ e \in L[H[e]] /\ \A k \in Nat : e \in L[k] => H[e] <= k
  <2>1. In(e) \in SUBSET Nat /\ In(e) # {}
    OBVIOUS
  <2>2. H[e] = CHOOSE n \in In(e) : \A k \in In(e) : n <= k
    OBVIOUS
  <2> HIDE DEF H
  <2>3. H[e] \in In(e) /\ \A k \in In(e) : H[e] <= k
    <3> DEFINE N == In(e)
    <3>1. N \in SUBSET Nat /\ N # {} /\ H[e] = CHOOSE n \in N : \A k \in N : n <= k
      BY <2>1, <2>2
    <3> HIDE DEF N
    <3>2. \E n \in N : \A k \in N : n <= k
      BY <3>1, LeastNatural
    <3>3. H[e] \in N /\ \A k \in N : H[e] <= k
      BY <3>1, <3>2
    <3> QED BY <3>3 DEF N
  <2> QED BY <2>3
<1>7. H \in [E -> Nat]
  <2>1. H = [e \in E |-> H[e]]
    OBVIOUS
  <2> HIDE DEF H, E
  <2>2. \A e \in E : H[e] \in Nat
    BY <1>6
  <2> QED BY <2>1, <2>2
<1>8. \A n \in Nat : L[n] \subseteq E
  OBVIOUS
<1>9. \A e : e \in E => \E n \in Nat : e \in L[n]
  OBVIOUS
<1> HIDE DEF E, H
<1>10. ASSUME NEW e \in E PROVE \E n \in Nat : e \in Trees(L[n], var, casts) /\ n < H[e]
  <2>1. H[e] # 0
    BY <1>1, <1>6
  <2> DEFINE n == H[e] - 1
  <2>2. n \in Nat /\ n + 1 = H[e] /\ n < H[e]
    BY <1>6, <2>1
  <2> HIDE DEF n
  <2>3. e \in Trees(L[n], var, casts)
    BY <1>1, <1>6, <2>2
  <2> QED BY <2>2, <2>3
<1>11. E \subseteq Trees(E, var, casts)
  <2> SUFFICES ASSUME NEW e \in E PROVE e \in Trees(E, var, casts)
    OBVIOUS
  <2>1. PICK n \in Nat : e \in Trees(L[n], var, casts)
    BY <1>10
  <2>2. L[n] \subseteq E
    BY <1>8
  <2> QED BY <2>1, <2>2, TreesGrow
<1>12. Trees(E, var, casts) \subseteq E
  <2> SUFFICES ASSUME NEW e \in Trees(E, var, casts) PROVE e \in E
    OBVIOUS
  <2> DEFINE s == e.args
  <2>1. /\ e.op \in Ops /\ e.type \in Int /\ s \in Seq(E) /\ e.v \in Int /\ Typed(e, var, casts)
        /\ e = [op |-> e.op, type |-> e.type, args |-> s, v |-> e.v]
    BY DEF Trees
  <2>2. Len(s) \in {0, 1, 2, 3}
    BY <2>1 DEF Typed
  <2>3. \E n \in Nat : \A i \in 1 .. Len(s) : s[i] \in L[n]
    <3> DEFINE N(i) == IF i <= Len(s) THEN H[s[i]] ELSE 0
    <3>1. \A i \in {1, 2, 3} : N(i) \in Nat /\ (i <= Len(s) => s[i] \in L[N(i)])
      <4> SUFFICES ASSUME NEW i \in {1, 2, 3} PROVE N(i) \in Nat /\ (i <= Len(s) => s[i] \in L[N(i)])
        OBVIOUS
      <4>1. i <= Len(s) => s[i] \in E
        BY <2>1, <2>2
      <4> HIDE DEF s
      <4> QED BY <1>6, <4>1
    <3> DEFINE a == N(1)
               b == N(2)
               c == N(3)
    <3>2. a \in Nat /\ b \in Nat /\ c \in Nat
      BY <3>1
    <3>3. /\ 1 <= Len(s) => s[1] \in L[a]
          /\ 2 <= Len(s) => s[2] \in L[b]
          /\ 3 <= Len(s) => s[3] \in L[c]
      BY <3>1
    <3> HIDE DEF a, b, c
    <3>4. \E n \in Nat : a <= n /\ b <= n /\ c <= n
      <4>1. a + b + c \in Nat /\ a <= a + b + c /\ b <= a + b + c /\ c <= a + b + c
        BY <3>2
      <4> QED BY <4>1
    <3>5. PICK n \in Nat : a <= n /\ b <= n /\ c <= n
      BY <3>4
    <3>6. L[a] \subseteq L[n] /\ L[b] \subseteq L[n] /\ L[c] \subseteq L[n]
      <4>1. a \in 0 .. n /\ b \in 0 .. n /\ c \in 0 .. n
        BY <3>2, <3>5
      <4> QED BY <1>5, <4>1
    <3>7. \A i \in 1 .. Len(s) : i \in {1, 2, 3} /\ i <= Len(s)
      <4> DEFINE k == Len(s)
      <4>1. k \in {0, 1, 2, 3}
        BY <2>2
      <4> HIDE DEF k
      <4>2. \A i \in 1 .. k : i \in {1, 2, 3} /\ i <= k
        BY <4>1
      <4> QED BY <4>2 DEF k
    <3>8. \A i \in 1 .. Len(s) : s[i] \in L[n]
      <4> HIDE DEF s
      <4> QED BY <3>3, <3>6, <3>7
    <3> QED BY <3>8
  <2>4. PICK n \in Nat : \A i \in 1 .. Len(s) : s[i] \in L[n]
    BY <2>3
  <2>5. s \in Seq(L[n])
    BY <2>1, <2>4, SeqOver
  <2>6. e \in Trees(L[n], var, casts)
    <3>1. [op |-> e.op, type |-> e.type, args |-> s, v |-> e.v] \in [op : Ops, type : Int, args : Seq(L[n]), v : Int]
      BY <2>1, <2>5
    <3> QED BY <2>1, <3>1 DEF Trees
  <2>7. e \in L[n + 1] /\ n + 1 \in Nat
    BY <1>1, <2>6
  <2> QED BY <1>8, <2>7
<1>13. ASSUME NEW e \in E, NEW i \in 1 .. Len(e.args) PROVE H[e.args[i]] < H[e]
  <2>1. PICK n \in Nat : e \in Trees(L[n], var, casts) /\ n < H[e]
    BY <1>10
  <2>2. e.args \in Seq(L[n])
    BY <2>1 DEF Trees
  <2> DEFINE y == e.args[i]
  <2>3. y \in L[n] /\ y \in E
    BY <1>8, <2>2
  <2> HIDE DEF y
  <2>4. H[y] <= n /\ H[y] \in Nat /\ H[e] \in Nat
    BY <1>6, <2>3
  <2> QED BY <2>1, <2>4 DEF y
<1> QED BY <1>7, <1>11, <1>12, <1>13 DEF Forms

\* A node's value comes from the operands that it has.
LEMMA NodeUses ==
  ASSUME NEW e, NEW var, NEW casts, NEW env, Typed(e, var, casts), NEW a, NEW b, NEW c, NEW i, NEW j, NEW k,
         Len(e.args) >= 1 => a = i, Len(e.args) >= 2 => b = j, Len(e.args) >= 3 => c = k
  PROVE  NodeValue(e, a, b, c, env) = NodeValue(e, i, j, k, env)
<1> DEFINE n == Len(e.args)
<1>1. CASE n = 0
  <2>1. e.op \in {"Path", "Constant", "BoolLiteral"}
    BY <1>1 DEF Typed, Arithmetic, Relations
  <2> QED BY <2>1 DEF NodeValue
<1>2. CASE n = 1
  <2>1. e.op \in {"Cmpl", "Neg", "LNot", "Cast"}
    BY <1>2 DEF Typed, Arithmetic, Relations
  <2>2. a = i
    BY <1>2
  <2> QED BY <2>1, <2>2 DEF NodeValue
<1>3. CASE n = 2
  <2>1. e.op \in Arithmetic \cup Relations \cup {"LAnd", "LOr", "Shl", "Shr", "Concat"}
    BY <1>3 DEF Typed, Arithmetic, Relations
  <2>2. a = i /\ b = j
    BY <1>3
  <2> QED BY <2>1, <2>2 DEF NodeValue, Arithmetic, Relations
<1>4. CASE n = 3
  BY <1>4
<1> QED BY <1>1, <1>2, <1>3, <1>4 DEF Typed

\* Types of expressions.
LEMMA FormTypes ==
  ASSUME NEW E, NEW var, NEW casts, E = Trees(E, var, casts), \A n \in DOMAIN var : var[n] \in Nat \cup {Bool},
         NEW e \in E
  PROVE  /\ e.type \in Nat \cup {Bool, InfInt} /\ Typed(e, var, casts) /\ Len(e.args) \in Nat
         /\ \A i \in 1 .. Len(e.args) : e.args[i] \in E
<1>1. \A x \in E : x.args \in Seq(E) /\ x.v \in Int /\ Typed(x, var, casts)
  BY DEF Trees
<1>2. Typed(e, var, casts) /\ Len(e.args) \in Nat /\ \A i \in 1 .. Len(e.args) : e.args[i] \in E
  BY <1>1
<1>3. CASE e.op = "Slice"
  <2>1. Len(e.args) = 3 /\ e.type = e.args[2].v - e.args[3].v + 1 /\ e.args[3].v <= e.args[2].v
    BY <1>2, <1>3 DEF Typed, Arithmetic, Relations
  <2>2. e.args[2].v \in Int /\ e.args[3].v \in Int
    <3>1. 2 \in 1 .. Len(e.args) /\ 3 \in 1 .. Len(e.args)
      BY <2>1
    <3> QED BY <1>1, <1>2, <3>1
  <2> QED BY <1>2, <2>1, <2>2
<1>4. CASE e.op # "Slice"
  BY <1>2, <1>4 DEF Typed, Arithmetic, Relations
<1> QED BY <1>2, <1>3, <1>4

\* Whatever the variables are, every expression over them has a value.
THEOREM MeaningExists ==
  ASSUME NEW var, NEW env, NEW casts,
         \A n \in DOMAIN var : var[n] \in Nat \cup {Bool} /\ env[n] \in ValuesOf(var[n])
  PROVE  \E m : Meaning(m) /\ m.var = var /\ m.env = env /\ m.casts = casts
<1>1. PICK E, H : Forms(E, H, var, casts)
  BY FormsExist
<1>2. /\ E = Trees(E, var, casts) /\ H \in [E -> Nat]
      /\ \A e \in E : \A i \in 1 .. Len(e.args) : H[e.args[i]] < H[e]
  BY <1>1 DEF Forms
<1>3. \A e \in E : /\ e.type \in Nat \cup {Bool, InfInt} /\ Typed(e, var, casts) /\ Len(e.args) \in Nat
                   /\ \A i \in 1 .. Len(e.args) : e.args[i] \in E
  BY <1>2, FormTypes
<1> DEFINE P == [e \in E |-> IF IsConstant(e) THEN {e.v} ELSE ValuesOf(e.type)]
           C == Choices(E, P)
           base == [e \in E |-> IF IsConstant(e) THEN e.v ELSE 0]
           Of(w, e) == NodeValue(e, w[e.args[1]], w[e.args[2]], w[e.args[3]], env)
           step == [w \in C |-> [e \in E |-> Of(w, e)]]
<1>4. base \in C
  <2>1. \A e \in E : base[e] \in P[e]
    <3> TAKE e \in E
    <3>1. e.type \in Nat \cup {Bool, InfInt}
      BY <1>3
    <3>2. 0 \in ValuesOf(e.type)
      BY <3>1, WordsAreNat, ValuesOfTypes DEF Bit
    <3> QED BY <3>2
  <2>2. DOMAIN base = E /\ base = [e \in E |-> base[e]]
    OBVIOUS
  <2> HIDE DEF base, P
  <2> QED BY <2>1, <2>2, ChoiceIs
<1>5. ASSUME NEW w \in C, NEW e \in E PROVE w[e] \in P[e] /\ w[e] \in ValuesOf(e.type) /\ (IsConstant(e) => w[e] = e.v)
  <2>1. w[e] \in P[e]
    <3> HIDE DEF P
    <3> QED BY DEF Choices
  <2>2. IsConstant(e) => e.v \in ValuesOf(e.type)
    <3>1. Typed(e, var, casts)
      BY <1>3
    <3> QED BY <3>1 DEF Typed, IsConstant, Arithmetic, Relations, ValuesOf, Bool, InfInt
  <2> QED BY <2>1, <2>2
<1>6. ASSUME NEW w \in C, NEW e \in E PROVE Of(w, e) \in P[e]
  <2> DEFINE a == w[e.args[1]]
             b == w[e.args[2]]
             c == w[e.args[3]]
  <2>1. /\ e.type \in Nat \cup {Bool, InfInt} /\ Typed(e, var, casts) /\ Len(e.args) \in Nat
        /\ \A i \in 1 .. Len(e.args) : e.args[i] \in E
    BY <1>3
  <2>2. /\ Len(e.args) >= 1 => e.args[1] \in E
        /\ Len(e.args) >= 2 => e.args[2] \in E
        /\ Len(e.args) >= 3 => e.args[3] \in E
    <3> DEFINE n == Len(e.args)
    <3>1. /\ n >= 1 => 1 \in 1 .. n
          /\ n >= 2 => 2 \in 1 .. n
          /\ n >= 3 => 3 \in 1 .. n
      BY <2>1
    <3> QED BY <2>1, <3>1
  <2>3. /\ Len(e.args) >= 1 => a \in ValuesOf(e.args[1].type)
        /\ Len(e.args) >= 2 => b \in ValuesOf(e.args[2].type)
        /\ Len(e.args) >= 3 => c \in ValuesOf(e.args[3].type)
    <3> HIDE DEF C
    <3> QED BY <1>5, <2>2
  <2>4. \A i \in 1 .. 3 : Len(e.args) >= i => e.args[i].type \in Nat \cup {Bool, InfInt}
    BY <1>3, <2>1
  <2>5. e.op = "Slice" => b = e.args[2].v /\ c = e.args[3].v
    <3> SUFFICES ASSUME e.op = "Slice" PROVE b = e.args[2].v /\ c = e.args[3].v
      OBVIOUS
    <3>1. Len(e.args) = 3 /\ e.args[2].op = "Constant" /\ e.args[3].op = "Constant"
      BY <2>1 DEF Typed, Arithmetic, Relations
    <3>2. e.args[2] \in E /\ e.args[3] \in E
      BY <2>2, <3>1
    <3> HIDE DEF C
    <3> QED BY <1>5, <3>1, <3>2 DEF IsConstant
  <2>6. \A n \in DOMAIN var : env[n] \in ValuesOf(var[n])
    OBVIOUS
  <2> HIDE DEF a, b, c
  <2>7. NodeValue(e, a, b, c, env) \in ValuesOf(e.type)
    BY <2>1, <2>3, <2>4, <2>5, <2>6, NodeInRange
  <2>8. IsConstant(e) => NodeValue(e, a, b, c, env) = e.v
    BY DEF IsConstant, NodeValue
  <2> QED BY <2>7, <2>8 DEF a, b, c
<1> HIDE DEF Of
<1>7. \A w \in C : step[w] \in C /\ \A e \in E : step[w][e] = Of(w, e)
  <2> TAKE w \in C
  <2> DEFINE f == [e \in E |-> Of(w, e)]
  <2>1. step[w] = f
    <3> HIDE DEF C
    <3> QED OBVIOUS
  <2>2. DOMAIN f = E /\ f = [e \in E |-> f[e]] /\ \A e \in E : f[e] = Of(w, e)
    OBVIOUS
  <2>3. \A e \in E : f[e] \in P[e]
    <3> HIDE DEF C, P
    <3> QED BY <1>6
  <2> HIDE DEF f, P, step
  <2>4. f \in Choices(E, P)
    BY <2>2, <2>3, ChoiceIs
  <2> QED BY <2>1, <2>2, <2>4
<1>8. step \in [C -> C]
  <2>1. step = [w \in C |-> step[w]]
    <3> HIDE DEF C
    <3> QED OBVIOUS
  <2> HIDE DEF C, step
  <2> QED BY <1>7, <2>1
<1>9. ASSUME NEW f \in C, NEW g \in C, NEW e \in E, \A y \in E : H[y] < H[e] => f[y] = g[y]
      PROVE  step[f][e] = step[g][e]
  <2>1. \A i \in 1 .. Len(e.args) : f[e.args[i]] = g[e.args[i]]
    BY <1>2, <1>3, <1>9
  <2>2. Typed(e, var, casts) /\ Len(e.args) \in Nat
    BY <1>3
  <2>3. /\ Len(e.args) >= 1 => f[e.args[1]] = g[e.args[1]]
        /\ Len(e.args) >= 2 => f[e.args[2]] = g[e.args[2]]
        /\ Len(e.args) >= 3 => f[e.args[3]] = g[e.args[3]]
    <3> DEFINE n == Len(e.args)
    <3>1. /\ n >= 1 => 1 \in 1 .. n
          /\ n >= 2 => 2 \in 1 .. n
          /\ n >= 3 => 3 \in 1 .. n
      BY <2>2
    <3> QED BY <2>1, <3>1
  <2>4. Of(f, e) = Of(g, e)
    BY <2>2, <2>3, NodeUses DEF Of
  <2> HIDE DEF step, C
  <2> QED BY <1>7, <2>4
<1>10. \E f \in C : f = step[f]
  <2> HIDE DEF P, base, step
  <2> QED BY <1>2, <1>4, <1>8, <1>9, HeightRecursion
<1>11. PICK V \in C : V = step[V]
  BY <1>10
<1> DEFINE m == [E |-> E, H |-> H, var |-> var, env |-> env, casts |-> casts, V |-> V]
<1>12. V \in [E -> Int]
  <2>1. V = [e \in E |-> V[e]]
    <3> HIDE DEF P
    <3> QED BY DEF Choices
  <2>2. \A e \in E : V[e] \in Int
    <3> TAKE e \in E
    <3>1. V[e] \in ValuesOf(e.type) /\ e.type \in Nat \cup {Bool, InfInt}
      <4> HIDE DEF C
      <4> QED BY <1>3, <1>5
    <3>2. ValuesOf(e.type) \subseteq Nat
      BY <3>1, ValuesOfTypes, Zenon
    <3> QED BY <3>1, <3>2
  <2> QED BY <2>1, <2>2
<1>13. \A e \in E : V[e] = NodeValue(e, V[e.args[1]], V[e.args[2]], V[e.args[3]], env)
  <2> TAKE e \in E
  <2> HIDE DEF C, step
  <2>1. V[e] = Of(V, e)
    BY <1>7, <1>11
  <2> QED BY <2>1 DEF Of
<1>14. Meaning(m)
  <2> HIDE DEF C, step, P, base
  <2>1. m.E = E /\ m.H = H /\ m.var = var /\ m.env = env /\ m.casts = casts /\ m.V = V
    OBVIOUS
  <2> HIDE DEF m
  <2> QED BY <1>2, <1>12, <1>13, <2>1 DEF Meaning
<1> QED BY <1>14

\* The functions that the slices of strength reduction are exist.
THEOREM SlicingExists ==
  ASSUME NEW m, Meaning(m), "fromBool" \notin m.casts
  PROVE  \E sl : Slicing(m, sl)
<1> DEFINE D == Sliceable(m)
           h == [s \in D |-> m.H[s.of]]
           P == [s \in D |-> m.E]
           C == Choices(D, P)
           base == [s \in D |-> s.of]
           Cast(e, hi) == e.op = "Cast" /\ hi < WidthOf(e.args[1].type)
<1>1. ASSUME NEW s \in D
      PROVE  /\ s.of \in m.E /\ s.hi \in Nat /\ s.lo \in Nat /\ s.lo <= s.hi /\ s.of.type \in Nat /\ s.hi < s.of.type
             /\ s = Arg(s.of, s.hi, s.lo)
  BY DEF Sliceable, Arg
<1>2. h \in [D -> Nat]
  <2>1. \A s \in D : m.H[s.of] \in Nat
    BY <1>1 DEF Meaning
  <2> HIDE DEF D
  <2> QED BY <2>1
<1>3. base \in C
  <2>1. \A s \in D : s.of \in m.E
    BY <1>1
  <2> HIDE DEF D
  <2>2. DOMAIN base = D /\ base = [s \in D |-> base[s]] /\ \A s \in D : base[s] \in P[s]
    BY <2>1
  <2> HIDE DEF base, P
  <2> QED BY <2>2, ChoiceIs
<1>4. \A w \in C : \A s \in D : w[s] \in m.E
  <2> HIDE DEF D
  <2>1. \A s \in D : P[s] = m.E
    OBVIOUS
  <2> HIDE DEF P
  <2> TAKE w \in C
  <2> TAKE s \in D
  <2>2. w[s] \in P[s]
    BY DEF Choices
  <2> QED BY <2>1, <2>2
\* An operand that a slice goes on with.
<1>5. ASSUME NEW s \in D, Cast(s.of, s.hi)
      PROVE  LET z == Arg(s.of.args[1], s.hi, s.lo) IN z \in D /\ h[z] < h[s]
  <2> DEFINE e == s.of
             a == e.args[1]
             z == Arg(a, s.hi, s.lo)
  <2>1. e \in m.E /\ e.op = "Cast" /\ s.hi < WidthOf(a.type) /\ e.type \in Nat
    BY <1>1, <1>5
  <2>2. a \in m.E /\ a.type \in Nat
    <3>1. a \in m.E /\ a.type \in Nat \cup {InfInt}
      BY <2>1, CastNode DEF Bool
    <3> QED BY <1>1, <2>1, <3>1 DEF WidthOf, Bool, InfInt
  <2>3. s.hi < a.type
    BY <2>1, <2>2 DEF WidthOf, Bool
  <2>4. z \in D /\ z.of = a
    BY <1>1, <2>2, <2>3, Args
  <2>5. m.H[a] < m.H[e]
    <3>1. Len(e.args) = 1
      BY <2>1, Shape DEF Typed, Arithmetic, Relations
    <3>2. 1 \in 1 .. Len(e.args)
      BY <3>1
    <3> QED BY <2>1, <3>2 DEF Meaning
  <2> HIDE DEF z, D
  <2> QED BY <2>4, <2>5 DEF z
<1>6. \A w, s : UncastWith(w, s) =
        LET a == s.of.args[1]
            l == s.of.args[3].v
        IN IF Cast(s.of, s.hi) THEN w[Arg(a, s.hi, s.lo)]
           ELSE IF s.of.op = "Slice" THEN Slice(a, s.hi + l, s.lo + l)
           ELSE IF s.hi - s.lo + 1 = WidthOf(s.of.type) THEN s.of
           ELSE Slice(s.of, s.hi, s.lo)
  BY DEF UncastWith, UncastSlice
<1> HIDE DEF Cast
<1>7. ASSUME NEW w \in C, NEW s \in D PROVE UncastWith(w, s) \in m.E
  <2> DEFINE e == s.of
             x == UncastWith(w, s)
  <2>1. e \in m.E /\ s.hi \in Nat /\ s.lo \in Nat /\ s.lo <= s.hi /\ e.type \in Nat /\ s.hi < e.type
    BY <1>1
  <2>2. x = IF Cast(e, s.hi) THEN w[Arg(e.args[1], s.hi, s.lo)]
            ELSE IF e.op = "Slice" THEN Slice(e.args[1], s.hi + e.args[3].v, s.lo + e.args[3].v)
            ELSE IF s.hi - s.lo + 1 = WidthOf(e.type) THEN e
            ELSE Slice(e, s.hi, s.lo)
    BY <1>6
  <2>3. Cast(e, s.hi) => w[Arg(e.args[1], s.hi, s.lo)] \in m.E
    <3> HIDE DEF C, D
    <3> QED BY <1>4, <1>5
  <2>4. e.op = "Slice" => Slice(e.args[1], s.hi + e.args[3].v, s.lo + e.args[3].v) \in m.E
    BY <2>1, SliceOfSlice DEF IsSlice
  <2>5. Slice(e, s.hi, s.lo) \in m.E
    BY <2>1, PartSlice DEF IsSlice
  <2> SUFFICES x \in m.E
    OBVIOUS
  <2> HIDE DEF x, C, D
  <2> QED BY <2>1, <2>2, <2>3, <2>4, <2>5
<1>8. ASSUME NEW f \in C, NEW g \in C, NEW s \in D, \A z \in D : h[z] < h[s] => f[z] = g[z]
      PROVE  UncastWith(f, s) = UncastWith(g, s)
  <2>1. Cast(s.of, s.hi) => f[Arg(s.of.args[1], s.hi, s.lo)] = g[Arg(s.of.args[1], s.hi, s.lo)]
    <3> HIDE DEF C, D, h
    <3> QED BY <1>5, <1>8
  <2> HIDE DEF C, D, h
  <2> QED BY <1>6, <2>1
<1> DEFINE stepU == [w \in C |-> [s \in D |-> UncastWith(w, s)]]
<1>9. stepU \in [C -> C] /\ \A w \in C : \A s \in D : stepU[w][s] = UncastWith(w, s)
  <2> HIDE DEF C, D, P
  <2>1. \A w \in C : stepU[w] = [s \in D |-> UncastWith(w, s)]
    OBVIOUS
  <2>2. \A w \in C : DOMAIN stepU[w] = D /\ stepU[w] = [s \in D |-> stepU[w][s]] /\ \A s \in D : stepU[w][s] = UncastWith(w, s)
    BY <2>1
  <2>3. \A s \in D : P[s] = m.E
    BY DEF P
  <2>4. stepU = [w \in C |-> stepU[w]]
    OBVIOUS
  <2> HIDE DEF stepU
  <2>5. \A w \in C : stepU[w] \in C
    <3> TAKE w \in C
    <3>1. \A s \in D : stepU[w][s] \in P[s]
      BY <1>7, <2>2, <2>3
    <3> QED BY <2>2, <3>1, ChoiceIs DEF C
  <2> QED BY <2>2, <2>4, <2>5
<1>10. PICK u \in C : u = stepU[u]
  <2>1. \A f, g \in C : \A s \in D : (\A z \in D : h[z] < h[s] => f[z] = g[z]) => stepU[f][s] = stepU[g][s]
    <3> HIDE DEF C, D, h, stepU
    <3> QED BY <1>8, <1>9
  <2>2. stepU \in [C -> C]
    <3> HIDE DEF C, D, stepU
    <3> QED BY <1>9
  <2> HIDE DEF D, P, h, base, stepU
  <2> QED BY <1>2, <1>3, <2>1, <2>2, HeightRecursion
<1>11. \A s \in D : u[s] = UncastWith(u, s)
  <2> HIDE DEF C, D, stepU
  <2> QED BY <1>9, <1>10
<1>12. \A w, s : InsideWith(u, w, s) =
         LET a == s.of.args[1]
             b == s.of.args[2]
             t == b.type
         IN IF s.of.op # "Concat" THEN u[Arg(s.of, s.hi, s.lo)]
            ELSE IF s.lo >= t THEN w[Arg(a, s.hi - t, s.lo - t)]
            ELSE IF s.hi < t THEN w[Arg(b, s.hi, s.lo)]
            ELSE Node("Concat", s.hi - s.lo + 1, <<Slice(a, s.hi - t, 0), Slice(b, t - 1, s.lo)>>)
  BY DEF InsideWith, InsideSlice
<1>13. ASSUME NEW s \in D, s.of.op = "Concat"
       PROVE  LET a == s.of.args[1]
                  b == s.of.args[2]
                  t == b.type
              IN /\ s.lo >= t => Arg(a, s.hi - t, s.lo - t) \in D /\ h[Arg(a, s.hi - t, s.lo - t)] < h[s]
                 /\ s.hi < t => Arg(b, s.hi, s.lo) \in D /\ h[Arg(b, s.hi, s.lo)] < h[s]
                 /\ s.lo < t /\ t <= s.hi =>
                      Node("Concat", s.hi - s.lo + 1, <<Slice(a, s.hi - t, 0), Slice(b, t - 1, s.lo)>>) \in m.E
                 /\ t \in Nat
  <2> DEFINE e == s.of
             a == e.args[1]
             b == e.args[2]
             t == b.type
             i == s.hi - t
             j == s.lo - t
  <2>1. e \in m.E /\ s.hi \in Nat /\ s.lo \in Nat /\ s.lo <= s.hi /\ e.type \in Nat /\ s.hi < e.type /\ e.op = "Concat"
    BY <1>1, <1>13
  <2>2. a \in m.E /\ b \in m.E /\ a.type \in Nat /\ t \in Nat /\ e.type = a.type + t
    BY <2>1, ConcatNode
  <2>3. m.H[a] < m.H[e] /\ m.H[b] < m.H[e]
    <3>1. Len(e.args) = 2
      BY <2>1, Shape DEF Typed, Arithmetic, Relations
    <3>2. 1 \in 1 .. Len(e.args) /\ 2 \in 1 .. Len(e.args)
      BY <3>1
    <3> QED BY <2>1, <3>2 DEF Meaning
  <2>4. s.lo < t /\ t <= s.hi =>
          Node("Concat", s.hi - s.lo + 1, <<Slice(a, s.hi - t, 0), Slice(b, t - 1, s.lo)>>) \in m.E
    BY <2>1, SliceOfConcat DEF IsSlice
  <2> HIDE DEF e, a, b
  <2>5. ASSUME s.lo >= t PROVE Arg(a, i, j) \in D /\ Arg(a, i, j).of = a
    <3>1. i \in Nat /\ j \in Nat /\ j <= i /\ i < a.type
      BY <2>1, <2>2, <2>5
    <3> HIDE DEF i, j
    <3> QED BY <2>2, <3>1, Args
  <2>6. ASSUME s.hi < t PROVE Arg(b, s.hi, s.lo) \in D /\ Arg(b, s.hi, s.lo).of = b
    BY <2>1, <2>2, <2>6, Args
  <2>7. h[s] = m.H[e]
    BY DEF e
  <2>8. \A z \in D : h[z] = m.H[z.of]
    <3> HIDE DEF D
    <3> QED OBVIOUS
  <2> HIDE DEF h, D, i, j
  <2>9. s.lo >= t => Arg(a, i, j) \in D /\ h[Arg(a, i, j)] < h[s]
    BY <2>3, <2>5, <2>7, <2>8
  <2>10. s.hi < t => Arg(b, s.hi, s.lo) \in D /\ h[Arg(b, s.hi, s.lo)] < h[s]
    BY <2>3, <2>6, <2>7, <2>8
  <2> QED BY <2>2, <2>4, <2>9, <2>10 DEF e, a, b, i, j
<1>14. ASSUME NEW w \in C, NEW s \in D PROVE InsideWith(u, w, s) \in m.E
  <2> DEFINE e == s.of
             a == e.args[1]
             b == e.args[2]
             t == b.type
             x == InsideWith(u, w, s)
             both == Node("Concat", s.hi - s.lo + 1, <<Slice(a, s.hi - t, 0), Slice(b, t - 1, s.lo)>>)
  <2>1. x = IF e.op # "Concat" THEN u[Arg(e, s.hi, s.lo)]
            ELSE IF s.lo >= t THEN w[Arg(a, s.hi - t, s.lo - t)]
            ELSE IF s.hi < t THEN w[Arg(b, s.hi, s.lo)]
            ELSE both
    BY <1>12
  <2>2. e.op = "Concat" =>
          /\ s.lo >= t => Arg(a, s.hi - t, s.lo - t) \in D
          /\ s.hi < t => Arg(b, s.hi, s.lo) \in D
          /\ s.lo < t /\ t <= s.hi => both \in m.E
          /\ t \in Nat
    <3> HIDE DEF D, h
    <3> QED BY <1>13
  <2>3. s = Arg(e, s.hi, s.lo) /\ s.hi \in Nat /\ s.lo \in Nat
    BY <1>1
  <2>3a. u \in C
    BY <1>10
  <2> SUFFICES x \in m.E
    OBVIOUS
  <2> HIDE DEF x, C, D, e, a, b, both
  <2>4. CASE e.op # "Concat"
    BY <1>4, <2>1, <2>3, <2>3a, <2>4
  <2>5. CASE e.op = "Concat" /\ s.lo >= t
    BY <1>4, <2>1, <2>2, <2>5
  <2>6. CASE e.op = "Concat" /\ ~(s.lo >= t) /\ s.hi < t
    BY <1>4, <2>1, <2>2, <2>6
  <2>7. CASE e.op = "Concat" /\ ~(s.lo >= t) /\ ~(s.hi < t)
    BY <2>1, <2>2, <2>3, <2>7
  <2> QED BY <2>4, <2>5, <2>6, <2>7
<1>15. ASSUME NEW f \in C, NEW g \in C, NEW s \in D, \A z \in D : h[z] < h[s] => f[z] = g[z]
       PROVE  InsideWith(u, f, s) = InsideWith(u, g, s)
  <2> DEFINE e == s.of
             t == e.args[2].type
             y == Arg(e.args[1], s.hi - t, s.lo - t)
             z == Arg(e.args[2], s.hi, s.lo)
  <2>1. e.op = "Concat" => (s.lo >= t => f[y] = g[y]) /\ (s.hi < t => f[z] = g[z])
    <3> HIDE DEF C, D, h
    <3> QED BY <1>13, <1>15
  <2> HIDE DEF C, D, h
  <2> QED BY <1>12, <2>1
<1> DEFINE stepI == [w \in C |-> [s \in D |-> InsideWith(u, w, s)]]
<1>16. stepI \in [C -> C] /\ \A w \in C : \A s \in D : stepI[w][s] = InsideWith(u, w, s)
  <2> HIDE DEF C, D, P
  <2>1. \A w \in C : stepI[w] = [s \in D |-> InsideWith(u, w, s)]
    OBVIOUS
  <2>2. \A w \in C : DOMAIN stepI[w] = D /\ stepI[w] = [s \in D |-> stepI[w][s]] /\ \A s \in D : stepI[w][s] = InsideWith(u, w, s)
    BY <2>1
  <2>3. \A s \in D : P[s] = m.E
    BY DEF P
  <2>4. stepI = [w \in C |-> stepI[w]]
    OBVIOUS
  <2> HIDE DEF stepI
  <2>5. \A w \in C : stepI[w] \in C
    <3> TAKE w \in C
    <3>1. \A s \in D : stepI[w][s] \in P[s]
      BY <1>14, <2>2, <2>3
    <3> QED BY <2>2, <3>1, ChoiceIs DEF C
  <2> QED BY <2>2, <2>4, <2>5
<1>17. PICK n \in C : n = stepI[n]
  <2>1. \A f, g \in C : \A s \in D : (\A z \in D : h[z] < h[s] => f[z] = g[z]) => stepI[f][s] = stepI[g][s]
    <3> HIDE DEF C, D, h, stepI
    <3> QED BY <1>15, <1>16
  <2>2. stepI \in [C -> C]
    <3> HIDE DEF C, D, stepI
    <3> QED BY <1>16
  <2> DEFINE step == stepI
  <2>3. /\ step \in [C -> C]
        /\ \A f, g \in C : \A s \in D : (\A z \in D : h[z] < h[s] => f[z] = g[z]) => step[f][s] = step[g][s]
    BY <2>1, <2>2
  <2> SUFFICES \E n \in C : n = step[n]
    OBVIOUS
  <2> HIDE DEF D, P, h, base, step
  <2> QED BY <1>2, <1>3, <2>3, HeightRecursion, SMTT(60)
<1>18. \A s \in D : n[s] = InsideWith(u, n, s)
  <2> HIDE DEF C, D, stepI
  <2> QED BY <1>16, <1>17
<1> DEFINE sl == [uncast |-> u, inside |-> n]
<1>19. sl.uncast = u /\ sl.inside = n
  OBVIOUS
<1> HIDE DEF sl
<1>20. Slicing(m, sl)
  <2>1. \A s \in Sliceable(m) : u[s] = UncastWith(u, s) /\ n[s] = InsideWith(u, n, s)
    BY <1>11, <1>18
  <2> QED BY <1>19, <2>1 DEF Slicing
<1> QED BY <1>20

\* The operands of e after a pass, R being what it makes of them.
Rewritten(R, e) == [i \in DOMAIN e.args |-> R[e.args[i]]]

\* For every pass there is a function that rewrites whole expressions.
THEOREM RewritingExists ==
  ASSUME NEW m, Meaning(m), NEW sl, NEW pass \in Passes, Fit(pass, m, sl)
  PROVE  \E R : Rewriting(m, sl, pass, R)
<1> DEFINE E == m.E
           H == m.H
           P == [e \in E |-> {x \in E : MayReplace(m, x, e)}]
           C == Choices(E, P)
           base == [e \in E |-> e]
           Of(R, e) == NodeOf(pass, sl, WithArgs(e, Rewritten(R, e)))
           step == [R \in C |-> [e \in E |-> Of(R, e)]]
<1>1. H \in [E -> Nat] /\ \A e \in E : \A i \in DOMAIN e.args : e.args[i] \in E /\ H[e.args[i]] < H[e]
  <2>1. \A e \in E : e.args \in Seq(m.E) /\ DOMAIN e.args = 1 .. Len(e.args)
    BY Shape, LenProperties
  <2>2. H \in [E -> Nat] /\ \A e \in E : \A i \in 1 .. Len(e.args) : e.args[i] \in E /\ H[e.args[i]] < H[e]
    BY Shape DEF Meaning
  <2> HIDE DEF E, H
  <2> QED BY <2>1, <2>2 DEF E
<1>2. \A e \in E : MayReplace(m, e, e)
  BY DEF MayReplace, Same
<1>3. \A e \in E : \A x : x \in P[e] <=> (x \in E /\ MayReplace(m, x, e))
  OBVIOUS
<1>4. \A x, e : MayReplace(m, x, e) => x \in E
  BY DEF MayReplace, Same
<1>5. base \in C
  <2>1. DOMAIN base = E /\ base = [e \in E |-> base[e]] /\ \A e \in E : base[e] = e
    OBVIOUS
  <2> HIDE DEF E, P, base
  <2>2. \A e \in E : base[e] \in P[e]
    BY <1>2, <1>3, <2>1
  <2> QED BY <2>1, <2>2, ChoiceIs
<1>6. ASSUME NEW R \in C, NEW e \in E PROVE R[e] \in P[e]
  <2> HIDE DEF E, P
  <2> QED BY DEF Choices
<1>7. ASSUME NEW R \in C, NEW e \in E PROVE Of(R, e) \in P[e]
  <2>1. DOMAIN e.args = 1 .. Len(e.args)
    BY Shape, LenProperties
  <2>2. \A i \in 1 .. Len(e.args) : MayReplace(m, R[e.args[i]], e.args[i])
    <3> HIDE DEF C, P, E, H
    <3> QED BY <1>1, <1>3, <1>6, <2>1
  <2>3. MayReplace(m, NodeOf(pass, sl, WithArgs(e, [i \in DOMAIN e.args |-> R[e.args[i]]])), e)
    BY <2>2, RewriteMayReplace
  <2>4. MayReplace(m, Of(R, e), e)
    BY <2>3 DEF Rewritten
  <2> HIDE DEF C, P, E, H, Of
  <2> QED BY <1>3, <1>4, <2>4
<1>8. ASSUME NEW f \in C, NEW g \in C, NEW e \in E, \A y \in E : H[y] < H[e] => f[y] = g[y]
      PROVE  Of(f, e) = Of(g, e)
  <2>1. \A i \in DOMAIN e.args : f[e.args[i]] = g[e.args[i]]
    <3> HIDE DEF C, P, E, H
    <3> QED BY <1>1, <1>8
  <2>2. Rewritten(f, e) = Rewritten(g, e)
    BY <2>1 DEF Rewritten
  <2> QED BY <2>2
<1> HIDE DEF Of
<1>9. step \in [C -> C] /\ \A R \in C : \A e \in E : step[R][e] = Of(R, e)
  <2> HIDE DEF C, E, P
  <2>1. \A R \in C : /\ DOMAIN step[R] = E /\ step[R] = [e \in E |-> step[R][e]]
                     /\ \A e \in E : step[R][e] = Of(R, e)
    OBVIOUS
  <2>2. step = [R \in C |-> step[R]]
    OBVIOUS
  <2> HIDE DEF step
  <2>3. \A R \in C : step[R] \in C
    <3> TAKE R \in C
    <3>1. \A e \in E : step[R][e] \in P[e]
      BY <1>7, <2>1
    <3> QED BY <2>1, <3>1, ChoiceIs DEF C
  <2> QED BY <2>1, <2>2, <2>3
<1> HIDE DEF step
<1>10. PICK R \in C : R = step[R]
  <2>1. /\ step \in [C -> C]
        /\ \A f, g \in C : \A e \in E : (\A y \in E : H[y] < H[e] => f[y] = g[y]) => step[f][e] = step[g][e]
    <3> HIDE DEF C, E, H
    <3> QED BY <1>8, <1>9
  <2> SUFFICES \E R \in C : R = step[R]
    OBVIOUS
  <2>2. H \in [E -> Nat]
    BY <1>1
  <2> HIDE DEF E, H, P, base
  <2> QED BY <2>2, <1>5, <2>1, HeightRecursion, SMTT(60)
<1>11. \A e \in E : R[e] = Of(R, e)
  <2> HIDE DEF C, E
  <2> QED BY <1>9, <1>10
<1>12. Rewriting(m, sl, pass, R)
  BY <1>11 DEF Rewriting, Of, Rewritten
<1> QED BY <1>12

=============================================================================
