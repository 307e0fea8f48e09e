# TLA+ models of the Hyperion runtime

This directory holds TLA+ specifications of the C++ runtime under `src/`.
They come with TLC configurations that model-check them on small instances,
and with TLAPS proofs of the central safety properties.
`PROJECT.json` lists the following, in machine-readable form:

- every component, with what is modelled;
- every run;
- the mutants that show each property can fail;
- the source lines each definition translates;
- the hazards of the code;
- the proved theorems.

## The system

The runtime is one process with two OS threads.

- **Main thread.** It runs a cooperative fiber scheduler (`src/src/kernel/Scheduler.cpp`).
  - `main` spawns a UI fiber and a clipboard-ingest fiber (`src/src/main.cpp`).
  - The main fiber then loops in `Scheduler::Run`.
  - The ingest fiber polls the clipboard and hands each new text to `ProcessingUnit::Ingest`.
  - `Ingest` pushes the text into a lock-free single-producer single-consumer ring (`src/include/core/LockFreeRingBuffer.hpp`).
- **Worker thread.** `ProcessingUnit::AnalysisWorker` runs on a `std::jthread`.
  - It pops the ring, tokenizes and vectorizes each document, and quantizes the vector.
  - It appends a 264-byte record to the "ghost arena" (`src/src/mm/MemoryManager.cpp`).
  - The ghost arena is a 1 TB `PROT_NONE` reservation whose pages are committed by a SIGSEGV/SIGBUS handler on first touch.
  - After each record it bumps the header's counters.
  - The UI fiber reads those counters in `ProcessingUnit::Update`.
- **Slab allocator.** A first-fit boundary-tag slab allocator (`src/include/memory/SlabAllocator.hpp`) is meant for an index graph (`src/core/index/HNSWIndex.hpp`).
  - Nothing in the build constructs it.
  - As written the header does not compile: the whole-block path calls `BlockHeader::SetUsed`, which does not exist.
  - Its model follows the evident intent of that path (the `SetFree(false)` and `UpdateFooter` lines that come after the call).

## Modules

| Module | Models | Source |
|---|---|---|
| `SPSCQueue` | what the ring promises: a FIFO queue of at most `Capacity - 1` values | `LockFreeRingBuffer.hpp` |
| `SPSCRingBuffer` | the ring itself, each of `push`/`pop` split at its atomic loads and stores | `LockFreeRingBuffer.hpp`, `ProcessingUnit.cpp` (consumer loop) |
| `SPSCRingBufferProofs` | TLAPS proofs about `SPSCRingBuffer`, including its refinement of `SPSCQueue` | |
| `HyperionRuntimeProofs` | TLAPS proofs of `TypeOK`, `CountedRecordsWritten` and `CrashOnlyAfterRelease` | |
| `SlabAllocator` | `Init`, `Allocate`, `Free` of the slab allocator, with clients that hold, free and double-free offsets | `SlabAllocator.hpp` |
| `GhostArena` | the ghost arena: `initialize` (with its `mmap` and `sigaction` failures), the header bootstrap fault, `run_self_test`, the signal handler and `handle_fault` on the faulting thread, `shutdown` | `MemoryManager.cpp/.hpp` |
| `HyperionRuntime` | the process: boot in `main`, `ProcessingUnit` start, the clipboard fiber's `Ingest`, the UI fiber's `Update`, `'q'`, SIGINT and `exit`, the worker's `AnalysisWorker`/`ProcessDocument` with the tokenizer's vocabulary insertion, and the terminal's raw mode set and restored by `SystemMonitor`, composed with `GhostArena` and `SPSCQueue` | `main.cpp`, `ProcessingUnit.cpp`, `MemoryManager.cpp`, `Tokenizer.cpp`, `SystemMonitor.cpp` |
| `FiberScheduler` | the fiber scheduler: `Init`, `Spawn` (stack `mmap` failure, frame forging on x86-64 and AArch64), `Yield`, `S_Entry`, `Run` | `Scheduler.cpp/.hpp` |
| `SlabAllocatorProofs` | TLAPS proofs of `OOMOnlyWhenNoFit` (given `FreeListMatchesHeap`) and of `AllocationFitsRequest` for requests clear of the `size_t` wrap | |
| `FiberSchedulerProofs` | TLAPS proofs of `TypeOK`, `EntryRunsOwnTask`, `NoCrash` and of the entry alignment on both architectures | |
| `MC_*` | instances for TLC | |

### SPSC ring (`SPSCRingBuffer`)

**State.**
- `head` and `tail` are `m_head` and `m_tail`.
- `buffer` is `m_buffer`.
- `ppc`/`pitem` give where the producer is inside `push`, and its argument.
- `cpc`/`citem` give where the consumer is inside `pop`, and its local copy of the slot.
- `popped` is the value the last `pop` returned.

**Actions.** Each `push` and `pop` is three steps:
- **Begin:** load both indices and test full or empty. A failed test returns without writing, so it is a stutter.
- **Write/Read:** the slot access.
- **Publish:** the release store of the own index.

**Why the interleaving abstraction is sound.** Every cross-thread communication goes through an acquire load paired with a release store. So each thread sees the other's slot access as happening before the index it publishes. The index wrap `& (Capacity - 1)` is written `% Capacity`; this is the same function because of `ASSUME CapacityPowerOfTwo`.

**Properties.**
- `NoDataRace`: the producer's slot write and the consumer's slot read never target the same slot at once.
- `QueueRefinement`: the ring implements `SPSCQueue` under the refinement mapping `queue <- Contents`, where `Contents` is the slots from `head` up to `tail`. This gives FIFO order, that no value is invented, and that no value is returned twice (spec invariant 5).
- `FrontEventuallyPopped`: a value in the ring is eventually popped.

**Fairness.** The liveness property assumes weak fairness of the three consumer steps only. The consumer is an OS thread that loops on `pop` with a 10 ms sleep while `m_running` holds. Nothing obliges the producer to push.

### Slab allocator (`SlabAllocator`)

**State.** Memory is abstracted to the words the allocator touches, per 64-byte unit:
- `hdr`: the header word at the unit's start (size and free bit);
- `ftr`: the footer word at the unit's end;
- `next`/`prev`: the `FreeNode` links in the payload of a free block.

The allocator's own fields are:
- `freeHead`, which is `m_free_list_head_offset`;
- the first block, which is `start_offset` because the base pointer is taken 64-byte aligned.

Offsets are real byte offsets, and `0` is null exactly as in the code.

**Stale words.** Merging leaves the absorbed block's tags behind as stale words, as the code does. The allocator reads a header only at a live block boundary. So the split of `hdr` and `next` into separate maps is sound: at a live boundary no free node or payload can overlap the header.

**Actions.**
- `Allocate` and `Free` are single steps, because the spinlock makes each call atomic.
- `Allocate(c, n)` is first fit over the free list. It either splits a block (remainder of at least 136 bytes) or uses the whole block. Its arithmetic is done in `size_t` of `SizeWidth` bits.
- `Free(c)` performs, in order:
  1. the free-bit (double-free) check;
  2. marking the block free and rewriting its footer;
  3. merging with a free right neighbour (bounded by `m_total_size + m_base_offset`);
  4. merging into a free left neighbour found through its footer, or else inserting at the list head.
- `DoubleFree(c)` frees again the offset a client freed last. It is limited to offsets that are still a block boundary.
  - Elsewhere the code reads whatever now lies 64 bytes below the offset as a header. That is either payload bytes of a used block, or the allocator's own data.
  - Example of the second case: a merge absorbs the old block, and a later split places a free block whose `FreeNode` covers the old header word. The code then reads the node's links as a used header of size 0. A second `Free` of that offset marks it free and unlinks it through those links, which can drop a free block from the list.
  - The model keeps `hdr` and `next`/`prev` in separate maps, so it cannot express that overlap. This double free is therefore not modelled. The `slab_double_free` run already shows a double free going wrong at a live boundary.

**Properties.**
- `HeapWellFormed`: the blocks tile the region exactly, and every footer equals its header (spec invariants 1 and 2).
- `FreeListMatchesHeap`: the free list is exactly the set of free blocks, null-terminated, with `prev` mirroring `next` (spec invariant 4).
- `NoAdjacentFree` (spec invariant 3).
- `OOMOnlyWhenNoFit`: `Allocate` returns 0 only when no free block is large enough.
- `AllocationFitsRequest`: the block `Allocate(n)` returns holds the header, `n` payload bytes and the footer. It holds on the `slab_heap` run and fails on `slab_size_wrap`.

**Walks.** The heap and the free list are walked by the recursive functions `BlockWalk[k]` and `FreeWalk[k]`, bounded by `MaxWalk`, the number of units.

### Ghost arena (`GhostArena`)

**State.**
- `mapped` says whether the reservation exists. `baseAddr` is `m_base_addr` (null, `MAP_FAILED` or an address).
- `handlers` says whether the handlers are installed. `mmRunning` is `m_running`.
- `resident` is the set of pages `handle_fault` made read-write. `faultCount` and `residentCount` are the two counters.
- `header` is the `MemoryHeader` at offset 0.
- `hpc`/`hpage` give, per thread, where it is in the fault path and the page it faulted on.
- `crashed` records a death by SIGSEGV.
- `mpc` gives where the main thread is in `initialize`/`run_self_test`.

The 1 TB reservation is abstracted to the pages the runs touch.

**Actions.**
- A touch of a page that is not resident calls `RaiseFault`. It enters the handler, or, when no handler is installed, kills the process.
- `HandleFault` is the range check and the `mprotect`. It succeeds only while the range is mapped; otherwise the handler restores `SIG_DFL` and the re-executed access kills the process.
- `CountFault` is the two `fetch_add`s and the return from the handler.
- `Initialize` has three outcomes: the `mmap` fails, the `sigaction` fails after the `mmap`, or both succeed.
- `InitializeHeader` performs the bootstrap fault on the header. `SelfTest` is the 512 GiB write.
- `Shutdown` clears `m_running` and unmaps the range, leaving `m_base_addr` stale.

### The process (`HyperionRuntime`)

This module extends `GhostArena` and instantiates `SPSCQueue` for the ingest ring. `SPSCRingBuffer` is shown to implement `SPSCQueue`, so the worker and `Ingest` use the queue's contract.

**Main thread.**
- `Boot` runs the arena's start-up. `BootFailed` is `main`'s `return 1` when `initialize` fails.
- `StartRuntime` constructs the `ProcessingUnit`, runs `SystemMonitor::initialize` (`TUIInitialize`) and starts the worker. `SystemMonitor::initialize` always returns `{}`, so its `return 1` branch in `main` is dead and is not modelled.
- The fibers run one iteration per step:
  - `Ingest(d)` drops the text when the ring is full, as the code ignores `push`'s result.
  - `UpdateBegin` may read `'q'` and clear `g_running`.
  - `UpdateReadCount` is the load of `vector_count` and the `VocabularySize()` read beside it. `UpdateTouch` is the touch at `ghost_offset`.
- An iteration of either fiber may do nothing. So any order of the iterations is a schedule of the round robin, and the fibers need no scheduler state here.

**Worker.** It is `WorkerPop`, then one action per arena access of `ProcessDocument`:
1. `Tokenize`, which goes on to `GetTermID`'s insertion into `m_vocab` (`WorkerInsertTerms`) when the text has terms the vocabulary lacks, then the early returns (`Vectorize`); `vocab` is the set of texts whose terms are known;
2. the read of `head_offset`;
3. the first and the last page of the record;
4. the `head_offset` update;
5. the `vector_count` release increment.

Each access is a `Touch`: it completes if the page is resident and mapped, and faults otherwise.

**Exit.**
- `SigInt(t)` is `signal_handler` on either thread: `g_running = false`, `SystemMonitor::shutdown`, `exit(0)`. The handler is installed before the arena boots.
- `ExitRelease` is `exit` running the static destructors in reverse order of construction: `~SystemMonitor` (`TUIDestroy`), then `~MemoryManager`, which unmaps the arena while the other thread runs on.
- `ExitEnd` is the end of the process.

**Terminal.** `tty` is the terminal's settings: the user's, raw, or a zero-filled `termios`. `origTermios` is `m_orig_termios`, zero until `enable_raw_mode`'s `tcgetattr` fills it; `tuiRunning` is `m_running`. `EnableRawMode` and `DisableRawMode` are the two `tcsetattr` calls. The model takes stdout to be a terminal, so `tcgetattr` succeeds.

**Properties.**
- `CountedRecordsWritten`: every record `vector_count` announces has been written in full at its offset.
- `CrashOnlyAfterRelease`: a fault kills the process only after `exit` unmapped the arena.
- `QueuedEventuallyHandled`: every queued text is processed unless the process is exiting.
- `TerminalRestoredOnExit` (violated): an exited process leaves the terminal with the user's settings.
- `NoVocabularyRace` (violated): the UI's `VocabularySize()` read never runs while the worker inserts into `m_vocab`.

**Fairness.** Weak fairness is assumed for:
- the worker's steps and its fault handler, because the worker is an OS thread that loops while `m_running` holds;
- the two steps of `exit`.

The fibers and the user get none, since the user need never type and the fibers need never be scheduled in a given window.

### Fiber scheduler (`FiberScheduler`)

**State.**
- `nfib`, `entryOf` and `stack` are `fiber_count`, each fiber's entry and its saved stack. A stack is its forged frame, a saved context, or none.
- `cur`/`running` are the current fiber.
- `fpc`, `taskRead` and `entrySp` are where each fiber is, the word `S_Entry` read as its task, and its stack pointer modulo 16 at entry.
- `completed` is the fiber's completed flag.
- `halted` records a process exit on a failed stack `mmap`, or a crash.

**The forged frame.** `Spawn` pushes the frame exactly as `Scheduler.cpp` lays it out for the architecture: 7 words on x86-64, 12 on AArch64. The repository declares `switch_context` but does not define it, so its pop order is taken from the spec (`PopOrder`). `Restore` maps each callee-saved register to the word it pops. `YieldToForged` then checks three things:
- that the return address is `S_Entry`;
- which word lands in the task register (R12 or X19);
- the stack alignment that results.

**Properties.**
- `EntryRunsOwnTask`: `S_Entry` calls the fiber's own function.
- `NoCrash`: no switch returns to a wild address.
- `EntryStackAligned`: the stack is ABI-aligned at `S_Entry`. It holds on AArch64 and is violated on x86-64.
- `EveryFiberRuns`: round robin runs every fiber again.

**Fairness.** `Yield` is weakly fair. `Run` (`Scheduler.cpp:205-212`) yields in a loop, `S_Entry` yields forever once its function returns (186-190), and every fiber body yields on each iteration.

## Runs

| Run | Config | Expect | What it shows |
|---|---|---|---|
| `spsc_ring` | `MC_SPSCRingBuffer.cfg` | pass | `TypeOK`, `NoDataRace`, `QueueRefinement` and `FrontEventuallyPopped`, with a capacity of 4 and two values (2361 states). |
| `slab_heap` | `MC_SlabAllocator.cfg` | pass | The four heap invariants, `OOMOnlyWhenNoFit` and `AllocationFitsRequest`, for three clients, requests of 1 and 100 bytes and a 576-byte region (63 358 states). |
| `slab_double_free` | `MC_SlabAllocator_DoubleFree.cfg` | violation | `NoSharedBlock`: after free, reallocation and a second free, two clients hold the same block. |
| `slab_size_wrap` | `MC_SlabAllocator_SizeWrap.cfg` | violation | `AllocationFitsRequest`: a request of `2^w - 1` bytes wraps in `(size + 63) & ~63` and gets a 128-byte block. |
| `runtime` | `MC_HyperionRuntime.cfg` | pass | `TypeOK`, `CountedRecordsWritten`, `CrashOnlyAfterRelease` and `QueuedEventuallyHandled` over boot, ingest, UI updates, worker records, `'q'`, SIGINT on either thread and exit (33 538 states). |
| `runtime_exit_crash` | `MC_HyperionRuntime_Crash.cfg` | violation | `NoCrash`: SIGINT's `exit(0)` unmaps the arena in `~MemoryManager` while the other thread keeps touching it; the re-executed access kills the process with SIGSEGV. |
| `runtime_quit_hangs` | `MC_HyperionRuntime_Quit.cfg` | violation | `QuitEventuallyExits`: after `'q'` nothing ever ends the process. `Scheduler::Run` loops forever with every fiber finished, so the worker is never joined and the arena never released. |
| `runtime_terminal` | `MC_HyperionRuntime_Terminal.cfg` | violation | `TerminalRestoredOnExit`: a SIGINT during the arena boot runs `SystemMonitor::shutdown` before `initialize` saved the terminal's settings, and the process exits with a zero-filled `termios` applied. |
| `runtime_vocab_race` | `MC_HyperionRuntime_Vocab.cfg` | violation | `NoVocabularyRace`: the UI's `VocabularySize()` and the worker's `GetTermID` insertion are enabled together, with no lock between them. |
| `sched_x86` | `MC_FiberScheduler_x86_64.cfg` | pass | `EntryRunsOwnTask`, `NoCrash` and `EveryFiberRuns` on x86-64 with the two fibers `main` spawns (151 states). |
| `sched_arm` | `MC_FiberScheduler_aarch64.cfg` | pass | `EntryRunsOwnTask`, `NoCrash` and `EntryStackAligned` on AArch64 (151 states). `EveryFiberRuns` is checked on x86-64 only, because the architecture does not change the round-robin index. |
| `sched_x86_align` | `MC_FiberScheduler_Align.cfg` | violation | `EntryStackAligned`: the seven-word x86-64 frame leaves RSP 16-byte aligned at `S_Entry`'s first instruction, where the System V ABI requires 8 mod 16. |

**Bounds.**
- **Ring.** A 4-slot ring has every case of the 64-slot one: empty, full (one slot kept free), wrap-around of both indices, and a producer that sees a stale head.
- **Slab.** Requests of 1 and 100 bytes need blocks of 3 and 4 units. In 9 units, three 1-byte requests fit exactly, and a 4-unit block leaves 2-unit remainders that cannot be split. So splitting, whole-block use, both merges, exhaustion and double frees all occur. A 10-unit region gives the same cases with ten times the states.
- **Runtime.** `QueueCapacity = 2` gives a ring that holds one text, so three ingested texts reach both the full queue (a dropped text) and the empty one. `PageSize = 512` stands for both literals 4096 of the code: the 264-byte records (`4 + 4 + 256`) then straddle page boundaries, and the UI's `ghost_offset` stride reaches the pages records go to within `MaxUITouch = 3` touches. So the two threads do fault on one page at once. The self-test page at 512 GiB is one extra page. Two thread identities, `main` and `worker`, are all the process has.
- **Scheduler.** `MaxFibers = 3` is the main fiber plus the two that `main` spawns, which is exactly the program. Both architectures are checked, since the forged frames differ.
- **`size_t` width.** It is 16 bits in the slab runs, because TLC's integers are 32-bit. Only the wrap run comes near the limit, and its request is `2^16 - 1`, the same relative position as `SIZE_MAX`.

**Mutants.** Each property of a passing run is broken by a plausible bug in a mapped definition (`PROJECT.json`, "mutants"):
- a dropped full check;
- a write to the wrong slot;
- an unmasked index;
- a pop that ignores the last value;
- an allocation that returns the header offset;
- a missing footer update;
- a missing back link;
- no left coalescing;
- a strict first-fit test;
- an `Ingest` without the full check;
- a commit that advances `head_offset` by the vector alone;
- an `initialize` that goes on after `sigaction` failed;
- a worker that takes a one-text queue for empty;
- a forged frame with the task slot swapped, a word missing or a word too many;
- a round robin that wraps one fiber early.

## Findings

- **`main.cpp:20`, code bug.** `signal_handler` calls `exit(0)` from a signal handler. `exit` runs `~MemoryManager`, which unmaps the arena, while the other OS thread (the worker, or the main thread's fibers) keeps touching it. The fault handler then sees `mprotect` fail, restores `SIG_DFL`, and the process dies of SIGSEGV (`runtime_exit_crash`).
- **`main.cpp:95`, spec/code divergence.** The spec describes a cooperative shutdown on `'q'`. In the code, `Scheduler::Run` never returns once the fibers have finished, so `main` never reaches the end of its scope (`runtime_quit_hangs`).
- **`main.cpp:19`, code bug.** `signal_handler` is installed (line 66) before `SystemMonitor::initialize` (line 84). A signal in between calls `shutdown`, which does not check `m_running`. Its `disable_raw_mode` applies `m_orig_termios`, never filled and zero as a member of a function-local static. The shell is left with echo, canonical input and the signal keys off (`runtime_terminal`).
- **`ProcessingUnit.cpp:88`, code bug.** `Update` reads `m_tokenizer.VocabularySize()` on the main thread while the worker's `GetTermID` inserts into the same `std::unordered_map` with no lock: a data race, which is undefined behaviour. The `vector_count` read beside it is made safe with `atomic_ref`; this read is not (`runtime_vocab_race`).
- **`Scheduler.cpp:117`, code bug.** The x86-64 forged frame has an odd number of words, so `S_Entry` starts with a misaligned stack for the ABI. Code compiled with aligned SSE spills crashes (`sched_x86_align`).
- The two slab findings are listed with their runs above. Two more hazards, the double count of `m_resident_pages` when both threads fault on one page and a `start_offset` of 0 that collides with the null offset, are listed in `PROJECT.json` without a run: the counter only feeds the statistics line, and no caller of the allocator exists to fix its offset.

## What is proved

`SPSCRingBufferProofs` proves the following for every power-of-two `Capacity` and every value set. It uses only the module's `ASSUME`s.

- `TypeCorrect`: `Spec => []TypeOK`.
- `DataRaceFreedom`: `Spec => []NoDataRace`.
  - `NoDataRace` is not inductive by itself, so the proof uses the inductive invariant `IInv`.
  - `IInv` adds four facts to `TypeOK`:
    - a producer past its full check still has a free slot (`ProducerHasRoom`);
    - a consumer past its empty check still has a value (`ConsumerHasValue`);
    - the slot the producer is about to publish holds its item;
    - the consumer's copy is still the front value.
  - Each step keeps every conjunct (`NextIInv`, one case per action and one sub-step per conjunct the action can disturb).
  - `IInv` implies `NoDataRace`: with `ConsumerHasValue`, the ring is not empty while the consumer reads, so `tail # head` when both threads are at their slot access.
- Lemmas about the index arithmetic (`NextSlotValue`, `DistanceValue`, `CountValue`) carry the modular reasoning.
- `ImplementsQueue`: `Spec => QueueRefinement`, that is, the ring implements `SPSCQueue!Spec` under the mapping of `Contents` (the slots from `head` to `tail`) and `popped`.
  - `RInv` adds `PendingItemIsValue` to `IInv`: the item a producer is writing or publishing is a value, so the published sequence stays in `Seq(Values)`.
  - Initial states map to the empty queue.
  - Every step maps to a step of the queue or a stutter (`NextRefines`). Only the two release stores change the mapping:
    - `PushPublish` (the store of `tail`) maps to `Push(pitem)`;
    - `PopPublish` (the store of `head`) maps to `Pop`.
  - The sequence equalities use `SeqEqual`, `AppendProperties` and `HeadTailProperties` from `SequenceTheorems`.
  - The index shifts rest on `WrapOnce`, which says that `x % C` is `x` or `x - C` for `x` in `0 .. 2C - 1`. The solver cannot prove `(x + C) % C = x % C` for a symbolic `C`, but it can prove this range form.

`HyperionRuntimeProofs` proves the following for every set of threads, pages and texts and every header and record size. It uses only `ArenaConstants` and `RuntimeConstants`.

- `RecordsWrittenBeforeCounted`: `Spec => []CountedRecordsWritten`.
  - The property is not inductive by itself. A worker that has written a record and is about to bump `vector_count` keeps it only if the record sits at the next record's offset. So `IInv` adds the following facts:
    - `HeadAtNextRecord`: `head_offset` is the offset of record `vector_count`, one record further between the commit and the count;
    - `WorkerAtNextRecord`: from its read of `head_offset` on, the worker's `current_offset` is that offset, and the record there is complete once it commits;
    - `HeaderBeforeWorker`: the header gets its magic and first offset in `initialize_header`, before the self-test, and the worker starts only after that and after `main` has left its start-up.
  - One lemma covers the steps that touch none of those variables: `main`'s failures, `Ingest`, `Update`, SIGINT, the fault handler and `exit`.
  - One lemma covers the arena start-up, one covers `StartRuntime`, and one covers the worker. The worker lemma has one case per step of `ProcessDocument`, each split on whether the touch faults.
  - The argument does not depend on the page size, the queue or the interleaving with the UI. It rests on the order of `ProcessDocument`'s three writes.
- `CrashesOnlyAfterRelease`: `Spec => []CrashOnlyAfterRelease`.
  - The property is not inductive by itself: a touch that faults must find the handler installed, and the handler must find the range mapped. So `CInv` adds the following facts:
    - `HandlersInstalled`: the handlers are installed exactly when `initialize` went on to `initialize_header`, and then `m_base_addr` is set;
    - `TouchesAfterInitialize`: the UI fiber and the worker run only after the arena is ready, and a thread in the fault path entered it through the handler;
    - `MainAloneBeforeWorker`: before the worker starts only `main` can have called `exit`, so a failed boot exits from a running process;
    - `UnmappedOnlyByExit`: the range is unmapped only after `exit`'s `~MemoryManager`.
  - One lemma covers the arena start-up, one every touch of the UI and the worker (split on whether it faults), and one the signal handler and `exit`.

- `TypeCorrect`: `Spec => []TypeOK`.
  - The proof uses an inductive invariant, `TInv`. `TInv` splits `TypeOK` into four groups of variables: control, queue, worker and arena. It adds the facts without which some step would leave its type:
    - `QueueConserved`: `queued = handled + Len(queue) + InFlight`, where `InFlight` is 1 while the worker holds a popped text. Without it, `handled`, which `WorkerCount` increments, could not be shown to stay within its bound;
    - `WorkerHoldsDoc`: the worker holds a text from its pop to its count, and a text with terms while it inserts into the vocabulary;
    - `CountWithinHandled`: `vector_count` never exceeds the texts handled;
    - `UITouchBelowBound`: the UI's page index stays within `MaxUITouch`;
    - `FaultPagesTouched`: a thread in the fault path faulted on a page of the model;
    - `RawAfterStart`: raw mode is set only after `main` left its boot.
  - The proof also uses `IInv` from the first theorem, because the worker's record pages are pages of the model only at the offset `HeadAtNextRecord` gives.
  - There is one lemma per action, with one step per group or fact that the action can disturb.
  - The arena's reservation is abstracted to a set `Pages`. The assumption `TouchedPages` in `HyperionRuntime` states that `Pages` holds every page the bounded UI and worker can touch. TLC checks it on every run of the module.

`SlabAllocatorProofs` proves the following for every region (`BaseOffset`, `TotalSize` multiples of 64), every `size_t` width and every set of clients and requests. It uses the module's `ASSUME`s, which include `WordPositive`: `2^SizeWidth` is a positive natural. The provers cannot derive this without induction, so it is stated as an assumption; it holds for every width.

- `SInv` is an inductive invariant, proved with one lemma per action (`InitSInv`, `AllocateSInv`, `FreeAtSInv`, `NextSInv`). It says:
  - clients hold payload offsets or null;
  - every header is a record whose size is a multiple of 64.
  - The key step is `FreeAtSInv`: the right neighbour found at `b + size` is a unit (`UnitIntro`), and merged sizes stay multiples of 64.
  - TLC also checked `SInv` on the `slab_heap` instance.
- `OOMOnlyWhenNoFitFromList`: `Spec /\ []FreeListMatchesHeap => OOMOnlyWhenNoFit`.
  - `FirstFit` takes the least index of the walk whose block fits. `LeastIndex` gets that index from `WFMin` over `<` on `Nat`.
  - `FirstFitMisses` then shows that when `FirstFit` returns null, no block on the list fits.
  - The hypothesis `FreeListMatchesHeap` turns "no block on the list" into "no free block of the heap". The theorem is conditional on that invariant, which only TLC checks.
- `AllocationFitsWithoutWrap`: under `NoWrap`, `Spec => AllocationFitsRequest`.
  - `NoWrap` says every request `n` satisfies `n + 198 < 2^SizeWidth`: neither rounding `(x + 63) & ~63` wraps.
  - `AlignUpBounds` places the rounding between `x` and `x + 63`. `RequiredCovers` then gives `Required(n) >= 72 + n`.
  - The returned block is either shrunk to `Required(n)` or used whole with a size at least that.
  - Without `NoWrap` the property fails, as `slab_size_wrap` shows. So the theorem says the wrap is the only way the property can fail.

`FiberSchedulerProofs` proves the following for every architecture and every number of fibers. It uses only the module's `ASSUME`s.

- `TypeCorrect`, `EntryRunsOwnTaskHolds` (`Spec => []EntryRunsOwnTask`) and `NeverCrashes` (`Spec => []NoCrash`).
  - These rest on an inductive invariant, `IInv`. It adds the following facts:
    - `ForgedFrameOfOwnTask`: a stack that has not yet been switched to is exactly the frame `Spawn` forged for the fiber's own entry. This is the step that matters: `Restore` of that frame puts `S_Entry` in the return address and the fiber's task in R12 or X19 (`RestoreForgedFrame`, one case per architecture);
    - `UnspawnedNotStarted`, `StartedAfterInit`: no fiber beyond `fiber_count` has run, and nothing runs before `Init`;
    - `StartedOnAlignedTop`: a fiber that entered `S_Entry` did so with SP 0 modulo 16, because the forged frame has exactly as many words as `switch_context` pops from the 16-aligned stack top.
- `EntryStackAlignedOnAArch64`: under `Arch = "aarch64"`, `Spec => []EntryStackAligned`.
- `EntryMisalignedOnX86`: under `Arch = "x86_64"`, every fiber that entered `S_Entry` did so with a stack that is *not* at the ABI's 8 mod 16. So the `sched_x86_align` violation holds for every number of fibers, not only the three that TLC runs.

The following stay with TLC:
- **Liveness** (`FrontEventuallyPopped`): the prover does not reason about fairness or `ENABLED`.
- **The runtime's liveness** (`QueuedEventuallyHandled`) and the scheduler's `EveryFiberRuns`: both are liveness.
- **The slab allocator's heap invariants** (`TypeOK`, `HeapWellFormed`, `FreeListMatchesHeap`, `NoAdjacentFree`). The walks are recursive functions the provers can read. But every one of these invariants speaks of the whole walk, and after a split or a merge it must be shown again for every index. That is induction over the walk index, and the induction theorems take an operator parameter the installed provers cannot instantiate. The same holds for the `FreeListMatchesHeap` hypothesis of `OOMOnlyWhenNoFitFromList`.
- **Action properties of the scheduler** such as "`S_Entry` runs at most once per fiber" were not added. A mutant of the code could not violate them, because fiber 0's null stack blocks the round robin before a second entry.

## What is not modelled, and the plan

| Part | Source | Status |
|---|---|---|
| TUI `SystemMonitor` | `src/src/monitor` | partly: the terminal's raw mode and its restoration are modelled; rendering, whose state is display strings, is not |
| JIT emitter/assembler/optimizer, SIMD, math | `src/include/core/JIT*`, `src/src/jit`, `src/core/math`, `src/src/math` | not modelled: code generation and arithmetic kernels, nothing stateful across threads |
| Tokenizer | `Tokenizer.cpp/.hpp` | partly: whether a text has terms and whether it inserts into `m_vocab`; tokens and term ids are abstracted |
| `HNSWIndex`, `TaggedPtr`, `Syscall` | | not modelled: headers that nothing in the build calls |
| `InputIngest` | `InputIngest.cpp` | the clipboard fiber is reduced to handing any text to `Ingest`; the throttled `popen` is I/O |
| `switch_context`, `verify_cpu_features` | declared, not defined in `src/` | `switch_context`'s pop order is modelled from the spec (`PopOrder`, `Restore`, `SwitchOut` are marked `spec_modelled`) |

The plan for later work:
- proofs of the slab allocator's heap invariants, which need an induction over the walk index that the installed provers cannot instantiate;
- the `munmap`ped range handed to a later mapping, which the model cannot express without other mappings.
