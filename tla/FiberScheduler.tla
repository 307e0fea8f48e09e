---------------------------- MODULE FiberScheduler ----------------------------
(***************************************************************************)
(* Kernel::Scheduler (src/src/kernel/Scheduler.cpp): cooperative round-    *)
(* robin fibers on the main thread.  Init makes the running thread fiber 0 *)
(* (no stack, stack_ptr null); Spawn maps a stack and forges on it the     *)
(* frame switch_context restores: placeholders for the callee-saved        *)
(* registers, the std::function pointer in R12 (x86-64) or X19 (AArch64), *)
(* and S_Entry as the return address; Yield advances current_idx modulo   *)
(* the number of fibers and switches.  S_Entry reads the pointer back from *)
(* the register, runs the function, deletes it, and then marks the        *)
(* current fiber completed and yields forever.                             *)
(*                                                                         *)
(* switch_context is declared extern "C" and not defined in the            *)
(* repository; it is modelled from the spec: it pushes the callee-saved    *)
(* set of the old fiber, stores its SP, loads the new SP and pops the set  *)
(* in the ABI's order, then returns (x86-64 pops the return address,       *)
(* AArch64 jumps to X30).  A frame that switch_context saved is restored   *)
(* exactly, so resuming it is returning from the Yield that saved it; a    *)
(* forged frame is popped word by word.  Stack words are 8 bytes and the   *)
(* stack top is 16-byte aligned (sp_addr &= ~0xF).                         *)
(*                                                                         *)
(* The main fiber calls Spawn and Yield (Run); a spawned fiber's function  *)
(* yields until it returns.  A Yield that selects the current fiber        *)
(* returns at once and is a stutter.                                       *)
(***************************************************************************)
EXTENDS Integers, Sequences

CONSTANTS
  Arch,        \* "x86_64" or "aarch64": the #if branch of Spawn and S_Entry
  Entries,     \* the functions passed to Spawn
  MaxFibers    \* bound on the fibers, fiber 0 included

ASSUME SchedulerConstants ==
  /\ Arch \in {"x86_64", "aarch64"}
  /\ Entries \cap Int = {}
  /\ MaxFibers \in Nat \ {0}

Ids == 0 .. MaxFibers - 1

VARIABLES
  nfib,       \* fibers.size()
  entryOf,    \* the function each fiber was spawned with
  stack,      \* what each fiber's stack_ptr points at
  fpc,        \* "main" (fiber 0), "fresh", "body", "returned", "completed"
  completed,  \* is_completed
  taskRead,   \* the pointer S_Entry read from the task register
  entrySp,    \* the stack pointer at S_Entry's first instruction, mod 16
  cur,        \* current_idx (and current_fiber)
  running,    \* the fiber whose code the CPU executes
  halted      \* "no", "exit" (exit(1) on a failed mmap) or "crash"

vars == <<nfib, entryOf, stack, fpc, completed, taskRead, entrySp, cur,
          running, halted>>

(* A stack word is 0, the address of S_Entry or a task pointer. *)
SEntry == 1

NoTask == -1

(* What a stack_ptr points at: kind "null", "saved" (a frame              *)
(* switch_context pushed) or "forged" (the words Spawn pushed).            *)
StackAt(kind, words) == [kind |-> kind, words |-> words]

-----------------------------------------------------------------------------
(* Stack forging and switch_context's restore.                            *)

(* Plausible bugs of the frame: the task pushed into the neighbouring     *)
(* slot, a placeholder left out, a word too many.                          *)
ForgedFrameTaskSlotSwapped(task) ==
  IF Arch = "x86_64"
  THEN <<SEntry, 0, 0, 0, task, 0, 0>>
  ELSE <<task, 0, 0, 0, 0, 0, 0, 0, 0, 0, SEntry, 0>>

ForgedFrameMissingWord(task) ==
  IF Arch = "x86_64"
  THEN <<SEntry, 0, 0, task, 0, 0>>
  ELSE <<0, task, 0, 0, 0, 0, 0, 0, 0, SEntry, 0>>

ForgedFrameExtraWord(task) ==
  IF Arch = "x86_64"
  THEN <<SEntry, SEntry, 0, 0, task, 0, 0, 0>>
  ELSE <<SEntry, 0, task, 0, 0, 0, 0, 0, 0, 0, 0, SEntry, 0>>

(* The words Spawn pushes, in push order: the last is at the new SP. *)
ForgedFrame(task) ==
  IF Arch = "x86_64"
  THEN <<SEntry, 0, 0, task, 0, 0, 0>>
  ELSE <<0, task, 0, 0, 0, 0, 0, 0, 0, 0, SEntry, 0>>

(* The words switch_context pops, from the SP up: the callee-saved set,   *)
(* then (x86-64) the return address.                                      *)
PopOrder ==
  IF Arch = "x86_64"
  THEN <<"r15", "r14", "r13", "r12", "rbp", "rbx", "ret">>
  ELSE <<"x29", "x30", "x27", "x28", "x25", "x26", "x23", "x24", "x21",
         "x22", "x19", "x20">>

TaskRegister == IF Arch = "x86_64" THEN "r12" ELSE "x19"

ReturnRegister == IF Arch = "x86_64" THEN "ret" ELSE "x30"

(* The registers after popping frame f: the k-th word popped is the k-th  *)
(* from the top.                                                          *)
Restore(f) ==
  [r \in {PopOrder[k] : k \in DOMAIN PopOrder} |->
     LET k == CHOOSE j \in DOMAIN PopOrder : PopOrder[j] = r
     IN  f[Len(f) + 1 - k]]

(* SP mod 16 after the pops: the top is 16-aligned and each word is 8. *)
SpAfterRestore(f) == (8 * (Len(PopOrder) - Len(f))) % 16

(* The ABI's SP mod 16 at a function's first instruction. *)
EntryAlignment == IF Arch = "x86_64" THEN 8 ELSE 0

-----------------------------------------------------------------------------
Init ==
  /\ nfib = 0
  /\ entryOf = [i \in Ids |-> NoTask]
  /\ stack = [i \in Ids |-> StackAt("null", << >>)]
  /\ fpc = [i \in Ids |-> "fresh"]
  /\ completed = [i \in Ids |-> FALSE]
  /\ taskRead = [i \in Ids |-> NoTask]
  /\ entrySp = [i \in Ids |-> 0]
  /\ cur = 0
  /\ running = 0
  /\ halted = "no"

(* Scheduler::Init: the running thread becomes fiber 0, stack_ptr null. *)
SchedInit ==
  /\ nfib = 0
  /\ nfib' = 1
  /\ fpc' = [fpc EXCEPT ![0] = "main"]
  /\ UNCHANGED <<entryOf, stack, completed, taskRead, entrySp, cur, running,
                 halted>>

(* Spawn(name, e) by the main fiber: the Fiber constructor maps the       *)
(* stack (exit(1) when mmap fails); the frame is forged and the fiber is  *)
(* appended.                                                               *)
Spawn(e) ==
  /\ halted = "no"
  /\ nfib \in 1 .. MaxFibers - 1
  /\ fpc[running] = "main"
  /\ \/ halted' = "exit"
        /\ UNCHANGED <<nfib, entryOf, stack, fpc>>
     \/ /\ nfib' = nfib + 1
        /\ entryOf' = [entryOf EXCEPT ![nfib] = e]
        /\ stack' = [stack EXCEPT ![nfib] = StackAt("forged", ForgedFrame(e))]
        /\ UNCHANGED <<fpc, halted>>
  /\ UNCHANGED <<completed, taskRead, entrySp, cur, running>>

-----------------------------------------------------------------------------
(* Yield, by the running fiber, when the next index is another fiber:     *)
(* current_idx and current_fiber advance, and switch_context saves the    *)
(* running fiber's registers on its stack and loads the next fiber's SP.  *)

(* A round-robin index skipping the last fiber: a plausible bug. *)
NextIndexWrapEarly(c) == IF nfib > 1 THEN (c + 1) % (nfib - 1) ELSE 0

(* current_idx = (current_idx + 1) % fibers.size(); *)
NextIndex(c) == (c + 1) % nfib

YieldEnabled ==
  /\ halted = "no"
  /\ fpc[running] \in {"main", "body", "completed"}
  /\ NextIndex(cur) # cur

(* Switching out: the old fiber's stack_ptr now points at a saved frame. *)
SwitchOut(n) ==
  /\ cur' = n
  /\ stack' = [stack EXCEPT ![cur] = StackAt("saved", << >>)]

(* The next fiber was switched out before: its Yield returns. *)
YieldToSaved ==
  LET n == NextIndex(cur) IN
  /\ YieldEnabled
  /\ stack[n].kind = "saved"
  /\ SwitchOut(n)
  /\ running' = n
  /\ UNCHANGED <<nfib, entryOf, fpc, completed, taskRead, entrySp, halted>>

(* The next fiber is fresh: its forged frame is popped and the return     *)
(* goes to S_Entry, which reads the task register: a function runs, null  *)
(* skips to the completion loop, anything else is a wild call.  A return  *)
(* anywhere else, or a frame too short for the pops, is a crash.          *)
YieldToForged ==
  LET n == NextIndex(cur)
      f == stack[n].words
  IN
  /\ YieldEnabled
  /\ stack[n].kind = "forged"
  /\ SwitchOut(n)
  /\ IF Len(f) >= Len(PopOrder) /\ Restore(f)[ReturnRegister] = SEntry
     THEN LET task == Restore(f)[TaskRegister] IN
          /\ running' = n
          /\ taskRead' = [taskRead EXCEPT ![n] = task]
          /\ entrySp' = [entrySp EXCEPT ![n] = SpAfterRestore(f)]
          /\ fpc' = [fpc EXCEPT ![n] = IF task \in Entries THEN "body"
                                       ELSE "returned"]
          /\ halted' = IF task \in Entries \cup {0} THEN "no" ELSE "crash"
     ELSE /\ halted' = "crash"
          /\ UNCHANGED <<running, taskRead, entrySp, fpc>>
  /\ UNCHANGED <<nfib, entryOf, completed>>

-----------------------------------------------------------------------------
(* S_Entry after the call.                                                 *)

(* The fiber's function returns; S_Entry deletes it. *)
FiberReturn ==
  /\ halted = "no"
  /\ fpc[running] = "body"
  /\ fpc' = [fpc EXCEPT ![running] = "returned"]
  /\ UNCHANGED <<nfib, entryOf, stack, completed, taskRead, entrySp, cur,
                 running, halted>>

(* Scheduler::Get().Current()->is_completed = true; *)
MarkCompleted ==
  /\ halted = "no"
  /\ fpc[running] = "returned"
  /\ completed' = [completed EXCEPT ![cur] = TRUE]
  /\ fpc' = [fpc EXCEPT ![running] = "completed"]
  /\ UNCHANGED <<nfib, entryOf, stack, taskRead, entrySp, cur, running,
                 halted>>

Yield == YieldToSaved \/ YieldToForged

Next ==
  \/ SchedInit
  \/ \E e \in Entries : Spawn(e)
  \/ Yield
  \/ FiberReturn
  \/ MarkCompleted

(* Every loop of the code calls Yield (Run, the fibers' loops, S_Entry's  *)
(* completion loop), and nothing else runs on the thread.                  *)
Fairness ==
  /\ WF_vars(SchedInit)
  /\ WF_vars(Yield)
  /\ WF_vars(MarkCompleted)

Spec == Init /\ [][Next]_vars /\ Fairness

-----------------------------------------------------------------------------
(* Properties.                                                             *)

TypeOK ==
  /\ nfib \in 0 .. MaxFibers
  /\ entryOf \in [Ids -> Entries \cup {NoTask}]
  /\ fpc \in [Ids -> {"main", "fresh", "body", "returned", "completed"}]
  /\ completed \in [Ids -> BOOLEAN]
  /\ entrySp \in [Ids -> 0 .. 15]
  /\ cur \in Ids
  /\ running \in Ids
  /\ halted \in {"no", "exit", "crash"}

(* A fiber that S_Entry started runs the very function it was spawned     *)
(* with: the R12 / X19 slot of the forged frame is the one switch_context *)
(* restores into the register S_Entry reads.                               *)
EntryRunsOwnTask ==
  \A i \in Ids : taskRead[i] # NoTask => taskRead[i] = entryOf[i]

(* No switch ever returns into a wild address or pops past the top of a   *)
(* fiber's stack.                                                          *)
NoCrash == halted # "crash"

(* S_Entry starts with the stack pointer the ABI gives a function on      *)
(* entry: 8 mod 16 on x86-64 (as after a call), 0 mod 16 on AArch64.       *)
EntryStackAligned ==
  \A i \in Ids : taskRead[i] # NoTask => entrySp[i] = EntryAlignment

(* Round robin: every fiber that exists runs again, however the others    *)
(* behave, as long as the process lives.                                   *)
EveryFiberRuns ==
  \A i \in Ids :
    (i < nfib /\ running # i /\ halted = "no") ~> (running = i \/ halted # "no")
=============================================================================
