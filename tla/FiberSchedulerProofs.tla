------------------------- MODULE FiberSchedulerProofs -------------------------
(***************************************************************************)
(* Proofs about Kernel::Scheduler (FiberScheduler), for every architecture *)
(* branch, every set of functions and every bound on the fibers.           *)
(*                                                                         *)
(* The argument: a stack that Spawn forged still holds exactly the frame   *)
(* forged for the function recorded for that fiber, because only Spawn     *)
(* writes a forged frame and switch_context only overwrites the stack of   *)
(* the fiber it switches out.  Popping that frame restores S_Entry into    *)
(* the return slot, the function into the task register and leaves SP on  *)
(* the 16-byte boundary, so S_Entry starts, reads its own function and     *)
(* never crashes, on either branch of the #if.                             *)
(***************************************************************************)
EXTENDS FiberScheduler, TLAPS

(* The values a stack word can hold, and the stacks switch_context and    *)
(* Spawn leave behind.                                                     *)
Word == Int \cup Entries

StackRecords == [kind : {"null", "saved", "forged"}, words : Seq(Word)]

(* TypeOK with the state it leaves out: the stacks and the task read.     *)
ITyped ==
  /\ TypeOK
  /\ stack \in [Ids -> StackRecords]
  /\ taskRead \in [Ids -> Entries \cup {NoTask}]

(* Only Scheduler::Init makes a fiber other than "fresh", and it makes    *)
(* fibers.size() non-zero: every Yield computes its index modulo a         *)
(* non-zero size.                                                          *)
StartedAfterInit == \A i \in Ids : fpc[i] # "fresh" => nfib >= 1

(* A slot past fibers.size() has never been started by S_Entry. *)
UnspawnedNotStarted == \A i \in Ids : i >= nfib => taskRead[i] = NoTask

(* A stack still marked forged holds the frame Spawn forged for the       *)
(* function recorded for its fiber.                                        *)
ForgedFrameOfOwnTask ==
  \A i \in Ids : stack[i].kind = "forged" =>
                   /\ entryOf[i] \in Entries
                   /\ stack[i].words = ForgedFrame(entryOf[i])

(* Every fiber S_Entry started began with SP on a 16-byte boundary: the    *)
(* forged frame has exactly as many words as switch_context pops.          *)
StartedOnAlignedTop ==
  \A i \in Ids : taskRead[i] # NoTask => entrySp[i] = 0

(* The inductive invariant. *)
IInv ==
  /\ ITyped
  /\ StartedAfterInit
  /\ UnspawnedNotStarted
  /\ ForgedFrameOfOwnTask
  /\ StartedOnAlignedTop
  /\ EntryRunsOwnTask
  /\ NoCrash
-----------------------------------------------------------------------------
(* Lemmas about the frame operators.                                       *)

(* The register switch_context pops as the k-th word is named by PopOrder *)
(* once only, so Restore finds it at position k.                           *)
LEMMA PopSlot ==
  ASSUME NEW k \in DOMAIN PopOrder
  PROVE  /\ PopOrder[k] \in {PopOrder[j] : j \in DOMAIN PopOrder}
         /\ (CHOOSE j \in DOMAIN PopOrder : PopOrder[j] = PopOrder[k]) = k
<1>1. \A j \in DOMAIN PopOrder : PopOrder[j] = PopOrder[k] <=> j = k
  <2>1. CASE Arch = "x86_64"
    BY <2>1 DEF PopOrder
  <2>2. CASE Arch # "x86_64"
    BY <2>2 DEF PopOrder
  <2>3. QED
    BY <2>1, <2>2
<1>2. QED
  BY <1>1

(* Popping a forged frame: the frame has as many words as switch_context  *)
(* pops, the return goes to S_Entry, the task register holds the function *)
(* the frame was forged for, and SP ends on the 16-byte boundary.          *)
LEMMA RestoreForgedFrame ==
  ASSUME NEW e
  PROVE  LET f == ForgedFrame(e) IN
         /\ Len(f) >= Len(PopOrder)
         /\ Restore(f)[ReturnRegister] = SEntry
         /\ Restore(f)[TaskRegister] = e
         /\ SpAfterRestore(f) = 0
<1> DEFINE f == ForgedFrame(e)
<1>1. CASE Arch = "x86_64"
  <2>1. /\ 4 \in DOMAIN PopOrder /\ PopOrder[4] = TaskRegister
        /\ 7 \in DOMAIN PopOrder /\ PopOrder[7] = ReturnRegister
    BY <1>1 DEF PopOrder, TaskRegister, ReturnRegister
  <2>2. Restore(f)[TaskRegister] = f[Len(f) + 1 - 4]
    <3>1. /\ TaskRegister \in {PopOrder[j] : j \in DOMAIN PopOrder}
          /\ (CHOOSE j \in DOMAIN PopOrder : PopOrder[j] = TaskRegister) = 4
      BY <2>1, PopSlot
    <3>2. QED
      BY <3>1 DEF Restore
  <2>3. Restore(f)[ReturnRegister] = f[Len(f) + 1 - 7]
    <3>1. /\ ReturnRegister \in {PopOrder[j] : j \in DOMAIN PopOrder}
          /\ (CHOOSE j \in DOMAIN PopOrder : PopOrder[j] = ReturnRegister) = 7
      BY <2>1, PopSlot
    <3>2. QED
      BY <3>1 DEF Restore
  <2>4. QED
    BY <1>1, <2>2, <2>3 DEF ForgedFrame, PopOrder, SpAfterRestore, SEntry
<1>2. CASE Arch # "x86_64"
  <2>1. /\ 11 \in DOMAIN PopOrder /\ PopOrder[11] = TaskRegister
        /\ 2 \in DOMAIN PopOrder /\ PopOrder[2] = ReturnRegister
    BY <1>2 DEF PopOrder, TaskRegister, ReturnRegister
  <2>2. Restore(f)[TaskRegister] = f[Len(f) + 1 - 11]
    <3>1. /\ TaskRegister \in {PopOrder[j] : j \in DOMAIN PopOrder}
          /\ (CHOOSE j \in DOMAIN PopOrder : PopOrder[j] = TaskRegister) = 11
      BY <2>1, PopSlot
    <3>2. QED
      BY <3>1 DEF Restore
  <2>3. Restore(f)[ReturnRegister] = f[Len(f) + 1 - 2]
    <3>1. /\ ReturnRegister \in {PopOrder[j] : j \in DOMAIN PopOrder}
          /\ (CHOOSE j \in DOMAIN PopOrder : PopOrder[j] = ReturnRegister) = 2
      BY <2>1, PopSlot
    <3>2. QED
      BY <3>1 DEF Restore
  <2>4. QED
    BY <1>2, <2>2, <2>3 DEF ForgedFrame, PopOrder, SpAfterRestore, SEntry
<1>3. QED
  BY <1>1, <1>2
(* A forged frame is a sequence of stack words. *)
LEMMA ForgedFrameWords ==
  ASSUME NEW e \in Entries
  PROVE  ForgedFrame(e) \in Seq(Word)
<1>1. CASE Arch = "x86_64"
  BY <1>1 DEF ForgedFrame, SEntry, Word
<1>2. CASE Arch # "x86_64"
  BY <1>2 DEF ForgedFrame, SEntry, Word
<1>3. QED
  BY <1>1, <1>2

(* The index current_idx advances to is a fiber slot once Init has run. *)
LEMMA NextIndexInIds ==
  ASSUME NEW c \in Nat, nfib \in 1 .. MaxFibers
  PROVE  NextIndex(c) \in 0 .. nfib - 1 /\ NextIndex(c) \in Ids
BY SchedulerConstants DEF NextIndex, Ids

-----------------------------------------------------------------------------
(* The inductive invariant holds initially and is kept by every step.     *)

LEMMA InitIInv == Init => IInv
BY SchedulerConstants
DEF Init, IInv, ITyped, TypeOK, StackRecords, StackAt, Ids, StartedAfterInit,
    UnspawnedNotStarted, ForgedFrameOfOwnTask, StartedOnAlignedTop,
    EntryRunsOwnTask, NoCrash, NoTask

LEMMA SchedInitIInv == IInv /\ SchedInit => IInv'
BY SchedulerConstants
DEF SchedInit, IInv, ITyped, TypeOK, Ids, StartedAfterInit,
    UnspawnedNotStarted, ForgedFrameOfOwnTask, StartedOnAlignedTop,
    EntryRunsOwnTask, NoCrash

LEMMA SpawnIInv ==
  ASSUME IInv, NEW e \in Entries, Spawn(e)
  PROVE  IInv'
<1> USE SchedulerConstants
<1>1. CASE halted' = "exit" /\ UNCHANGED <<nfib, entryOf, stack, fpc>>
  BY <1>1 DEF Spawn, IInv, ITyped, TypeOK, Ids, StartedAfterInit,
     UnspawnedNotStarted, ForgedFrameOfOwnTask, StartedOnAlignedTop,
     EntryRunsOwnTask, NoCrash
<1>2. CASE /\ nfib' = nfib + 1
           /\ entryOf' = [entryOf EXCEPT ![nfib] = e]
           /\ stack' = [stack EXCEPT ![nfib] = StackAt("forged", ForgedFrame(e))]
           /\ UNCHANGED <<fpc, halted>>
  <2>1. ForgedFrame(e) \in Seq(Word)
    BY ForgedFrameWords
  <2>2. nfib \in Ids /\ taskRead[nfib] = NoTask
    BY DEF Spawn, Ids, IInv, ITyped, TypeOK, UnspawnedNotStarted
  <2>3. ITyped'
    <3>1. StackAt("forged", ForgedFrame(e)) \in StackRecords
      BY <2>1 DEF StackAt, StackRecords
    <3>2. stack' \in [Ids -> StackRecords]
      BY <1>2, <2>2, <3>1 DEF IInv, ITyped
    <3>3. entryOf' \in [Ids -> Entries \cup {NoTask}]
      BY <1>2, <2>2 DEF IInv, ITyped, TypeOK
    <3>4. nfib' \in 0 .. MaxFibers
      BY <1>2 DEF Spawn
    <3>5. QED
      BY <3>2, <3>3, <3>4 DEF Spawn, IInv, ITyped, TypeOK
  <2>4. (StartedAfterInit /\ UnspawnedNotStarted)'
    BY <1>2 DEF Spawn, IInv, ITyped, TypeOK, Ids, StartedAfterInit,
       UnspawnedNotStarted
  <2>5. ForgedFrameOfOwnTask'
    BY <1>2, <2>2 DEF IInv, ITyped, TypeOK, ForgedFrameOfOwnTask, StackAt
  <2>6. (StartedOnAlignedTop /\ EntryRunsOwnTask /\ NoCrash)'
    BY <1>2, <2>2 DEF Spawn, IInv, ITyped, StartedOnAlignedTop,
       EntryRunsOwnTask, NoCrash
  <2>7. QED
    BY <2>3, <2>4, <2>5, <2>6 DEF IInv
<1>3. QED
  BY <1>1, <1>2 DEF Spawn

LEMMA YieldToSavedIInv == IInv /\ YieldToSaved => IInv'
<1> SUFFICES ASSUME IInv, YieldToSaved PROVE IInv'
  OBVIOUS
<1> USE SchedulerConstants
<1> DEFINE n == NextIndex(cur)
<1>1. nfib \in 1 .. MaxFibers /\ cur \in Nat
  BY DEF YieldToSaved, YieldEnabled, IInv, ITyped, TypeOK, Ids,
     StartedAfterInit
<1>2. n \in Ids
  BY <1>1, NextIndexInIds
<1>3. ITyped'
  BY <1>2 DEF YieldToSaved, SwitchOut, IInv, ITyped, TypeOK, StackRecords,
     StackAt
<1>4. ForgedFrameOfOwnTask'
  BY DEF YieldToSaved, SwitchOut, IInv, ITyped, TypeOK, ForgedFrameOfOwnTask,
     StackAt
<1>5. QED
  BY <1>3, <1>4 DEF YieldToSaved, IInv, StartedAfterInit, UnspawnedNotStarted,
     StartedOnAlignedTop, EntryRunsOwnTask, NoCrash

LEMMA YieldToForgedIInv == IInv /\ YieldToForged => IInv'
<1> SUFFICES ASSUME IInv, YieldToForged PROVE IInv'
  OBVIOUS
<1> USE SchedulerConstants
<1> DEFINE n == NextIndex(cur)
           f == stack[n].words
           task == Restore(f)[TaskRegister]
<1>1. nfib \in 1 .. MaxFibers /\ cur \in Nat
  BY DEF YieldToForged, YieldEnabled, IInv, ITyped, TypeOK, Ids,
     StartedAfterInit
<1>2. n \in 0 .. nfib - 1 /\ n \in Ids
  BY <1>1, NextIndexInIds
<1>3. entryOf[n] \in Entries /\ f = ForgedFrame(entryOf[n])
  BY <1>2 DEF YieldToForged, IInv, ForgedFrameOfOwnTask
<1>4. /\ Len(f) >= Len(PopOrder)
      /\ Restore(f)[ReturnRegister] = SEntry
      /\ task = entryOf[n]
      /\ SpAfterRestore(f) = 0
  BY <1>3, RestoreForgedFrame
<1>5. /\ running' = n
      /\ taskRead' = [taskRead EXCEPT ![n] = entryOf[n]]
      /\ entrySp' = [entrySp EXCEPT ![n] = 0]
      /\ fpc' = [fpc EXCEPT ![n] = "body"]
      /\ halted' = "no"
      /\ cur' = n
      /\ stack' = [stack EXCEPT ![cur] = StackAt("saved", << >>)]
      /\ UNCHANGED <<nfib, entryOf, completed>>
  BY <1>3, <1>4 DEF YieldToForged, SwitchOut
<1>7. ITyped'
  BY <1>2, <1>3, <1>5 DEF IInv, ITyped, TypeOK, StackRecords, StackAt
<1>8. (StartedAfterInit /\ UnspawnedNotStarted)'
  BY <1>1, <1>2, <1>5 DEF IInv, ITyped, TypeOK, StartedAfterInit,
     UnspawnedNotStarted
<1>9. ForgedFrameOfOwnTask'
  BY <1>5 DEF IInv, ITyped, ForgedFrameOfOwnTask, StackAt
<1>10. StartedOnAlignedTop'
  BY <1>2, <1>5 DEF IInv, ITyped, TypeOK, StartedOnAlignedTop
<1>11. EntryRunsOwnTask'
  BY <1>2, <1>5 DEF IInv, ITyped, TypeOK, EntryRunsOwnTask
<1>12. NoCrash'
  BY <1>5 DEF NoCrash
<1>13. QED
  BY <1>7, <1>8, <1>9, <1>10, <1>11, <1>12 DEF IInv

LEMMA FiberReturnIInv == IInv /\ FiberReturn => IInv'
BY DEF FiberReturn, IInv, ITyped, TypeOK, StartedAfterInit,
   UnspawnedNotStarted, ForgedFrameOfOwnTask, StartedOnAlignedTop,
   EntryRunsOwnTask, NoCrash

LEMMA MarkCompletedIInv == IInv /\ MarkCompleted => IInv'
BY DEF MarkCompleted, IInv, ITyped, TypeOK, StartedAfterInit,
   UnspawnedNotStarted, ForgedFrameOfOwnTask, StartedOnAlignedTop,
   EntryRunsOwnTask, NoCrash

LEMMA NextIInv == IInv /\ [Next]_vars => IInv'
<1> SUFFICES ASSUME IInv, [Next]_vars PROVE IInv'
  OBVIOUS
<1>1. CASE SchedInit
  BY <1>1, SchedInitIInv
<1>2. CASE \E e \in Entries : Spawn(e)
  BY <1>2, SpawnIInv
<1>3. CASE YieldToSaved
  BY <1>3, YieldToSavedIInv
<1>4. CASE YieldToForged
  BY <1>4, YieldToForgedIInv
<1>5. CASE FiberReturn
  BY <1>5, FiberReturnIInv
<1>6. CASE MarkCompleted
  BY <1>6, MarkCompletedIInv
<1>7. CASE UNCHANGED vars
  BY <1>7 DEF vars, IInv, ITyped, TypeOK, StartedAfterInit,
     UnspawnedNotStarted, ForgedFrameOfOwnTask, StartedOnAlignedTop,
     EntryRunsOwnTask, NoCrash
<1>8. QED
  BY <1>1, <1>2, <1>3, <1>4, <1>5, <1>6, <1>7 DEF Next, Yield

-----------------------------------------------------------------------------
(* Theorems.                                                               *)

LEMMA SpecIInv == Spec => []IInv
BY InitIInv, NextIInv, PTL DEF Spec

(* Scheduler::Init, Spawn, Yield and S_Entry keep the scheduler's state   *)
(* well typed: fibers.size() within the bound, current_idx a fiber slot.  *)
THEOREM TypeCorrect == Spec => []TypeOK
BY SpecIInv, PTL DEF IInv, ITyped

(* S_Entry always runs the function its fiber was spawned with: the task  *)
(* register switch_context restores from Spawn's forged frame is the slot *)
(* Spawn pushed the std::function pointer into, on both #if branches.     *)
THEOREM EntryRunsOwnTaskHolds == Spec => []EntryRunsOwnTask
BY SpecIInv, PTL DEF IInv

(* No switch_context into a fresh fiber returns to a wild address or pops *)
(* past the top of its stack, for any number of fibers.                   *)
THEOREM NeverCrashes == Spec => []NoCrash
BY SpecIInv, PTL DEF IInv

(* S_Entry starts with SP on the 16-byte boundary on both architectures:  *)
(* Spawn pushes exactly as many words as switch_context pops.  On AArch64 *)
(* this is the alignment the ABI asks of a function's entry.               *)
THEOREM EntryStackAlignedOnAArch64 ==
  ASSUME Arch = "aarch64"
  PROVE  Spec => []EntryStackAligned
<1>1. IInv => EntryStackAligned
  BY DEF IInv, StartedOnAlignedTop, EntryStackAligned, EntryAlignment
<1>2. QED
  BY <1>1, SpecIInv, PTL

(* On x86-64 the same count means S_Entry is entered with SP = 0 mod 16,  *)
(* not the 8 mod 16 a call leaves: every fiber S_Entry starts is entered   *)
(* misaligned, whatever the functions and the number of fibers.            *)
THEOREM EntryMisalignedOnX86 ==
  ASSUME Arch = "x86_64"
  PROVE  Spec => [](\A i \in Ids : taskRead[i] # NoTask =>
                                     entrySp[i] # EntryAlignment)
<1>1. IInv => \A i \in Ids : taskRead[i] # NoTask =>
                               entrySp[i] # EntryAlignment
  BY DEF IInv, StartedOnAlignedTop, EntryAlignment
<1>2. QED
  BY <1>1, SpecIInv, PTL
=============================================================================
