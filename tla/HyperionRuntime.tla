--------------------------- MODULE HyperionRuntime ---------------------------
(***************************************************************************)
(* The Hyperion process (src/main.cpp, src/core/ProcessingUnit.cpp): the   *)
(* main thread boots the ghost arena (GhostArena), starts the analysis     *)
(* worker thread and then runs its fibers; the worker drains the ingest    *)
(* queue and appends one record per document to the arena.                *)
(*                                                                         *)
(* Main thread.  main() calls initialize() and run_self_test(), constructs *)
(* the ProcessingUnit (whose initialize() call returns at once), starts    *)
(* the worker and enters Scheduler::Run.  From then on the UI fiber        *)
(* (Update: read vector_count, sometimes touch the page at ghost_offset)   *)
(* and the clipboard fiber (Ingest: push into the queue, dropping the text *)
(* when it is full) run one iteration at a time; since an iteration of     *)
(* either may do nothing, any order of their iterations is a schedule of   *)
(* the round-robin scheduler.  'q' clears g_running; SIGINT runs           *)
(* signal_handler on whichever thread takes it, which calls exit(0): the   *)
(* static ~MemoryManager unmaps the arena while the other thread runs on,  *)
(* and then the process ends.                                              *)
(*                                                                         *)
(* Worker thread.  AnalysisWorker pops the queue (SPSCQueue, which the     *)
(* ring implements: see SPSCRingBuffer) and ProcessDocument tokenizes,     *)
(* reads head_offset, writes the RecordSize-byte record, advances          *)
(* head_offset and publishes it with fetch_add on vector_count.  Every     *)
(* access to the arena is a Touch: it completes or it faults.              *)
(*                                                                         *)
(* Pages are scaled: PageSize stands for both literals 4096 of the code    *)
(* (the page and the ghost_offset stride), so records straddle pages and   *)
(* the UI touches the pages records go to after a few documents.           *)
(***************************************************************************)
EXTENDS GhostArena, Sequences

CONSTANTS
  Worker,         \* the std::jthread that runs AnalysisWorker
  Docs,           \* the texts the clipboard fiber ingests
  EmptyDocs,      \* the texts Tokenize maps to no terms
  NoDoc,          \* no text
  QueueCapacity,  \* the Capacity of m_input_queue
  PageSize,       \* the page size, and the ghost_offset stride
  RecordSize,     \* sizeof(float) + sizeof(float) + VECTOR_DIM
  MaxIngest,      \* bound on the texts ingested
  MaxUITouch      \* bound on the ghost_offset touches of Update

ASSUME RuntimeConstants ==
  /\ Threads = {Main, Worker}
  /\ Main # Worker
  /\ EmptyDocs \subseteq Docs
  /\ NoDoc \notin Docs
  /\ QueueCapacity \in Nat \ {0}
  /\ PageSize \in Nat \ {0}
  /\ RecordSize \in Nat \ {0}
  /\ MaxIngest \in Nat
  /\ MaxUITouch \in Nat

VARIABLES
  gRunning,     \* g_running
  puRunning,    \* ProcessingUnit::m_running
  proc,         \* "running", "exiting" (in exit), "released" (arena
                \* unmapped by ~MemoryManager), "exited"
  exitThread,   \* the thread that called exit
  mainPc,       \* where the main thread is
  uiPage,       \* ghost_offset / PageSize
  queue,        \* the contents of m_input_queue
  ingested,     \* texts the clipboard fiber handed to Ingest
  queued,       \* texts Ingest pushed into the queue
  handled,      \* documents ProcessDocument finished
  wpc,          \* where the worker is
  wdoc,         \* the document the worker popped last
  woff,         \* current_offset of ProcessDocument
  written,     \* offsets of the records written completely
  tty,          \* the terminal's settings: the user's, "raw" or "zero"
  origTermios,  \* SystemMonitor::m_orig_termios: the user's or "zero"
  tuiRunning,   \* SystemMonitor::m_running
  vocab         \* the texts whose terms Tokenizer::m_vocab holds

mainVars == <<gRunning, mainPc, uiPage, ingested, queued>>
exitVars == <<proc, exitThread, tty, origTermios, tuiRunning>>
workerVars == <<puRunning, queue, handled, wpc, wdoc, woff, written, vocab>>
rtVars == <<mainVars, exitVars, workerVars>>
vars == <<arenaVars, rtVars>>

(* The queue contract of LockFreeRingBuffer; popped is the worker's copy. *)
Q == INSTANCE SPSCQueue WITH Capacity <- QueueCapacity, Values <- Docs,
                             NoValue <- NoDoc, popped <- wdoc

PageOf(offset) == offset \div PageSize

(* ghost_offset = (ghost_offset + 4096) % (1024 * 1024 * 64) *)
UIPage(k) == ((k * PageSize) % (1024 * 1024 * 64)) \div PageSize

(* The offset of the k-th record (from 0) after the header. *)
RecordOffset(k) == HeaderBytes + k * RecordSize

(* The reservation is abstracted to the pages the bounded runs touch:     *)
(* Pages holds the UI's pages at ghost_offset and both ends of every      *)
(* record the ingested texts can produce.                                  *)
ASSUME TouchedPages ==
  /\ \A k \in 0 .. MaxUITouch - 1 : UIPage(k) \in Pages
  /\ \A k \in 0 .. MaxIngest - 1 :
       /\ PageOf(RecordOffset(k)) \in Pages
       /\ PageOf(RecordOffset(k) + RecordSize - 1) \in Pages

Init ==
  /\ ArenaInit
  /\ gRunning = TRUE
  /\ puRunning = FALSE
  /\ proc = "running"
  /\ exitThread = Main
  /\ mainPc = "boot"
  /\ uiPage = 0
  /\ queue = << >>
  /\ ingested = 0
  /\ queued = 0
  /\ handled = 0
  /\ wpc = "none"
  /\ wdoc = NoDoc
  /\ woff = 0
  /\ written = {}
  /\ tty = "user"
  /\ origTermios = "zero"
  /\ tuiRunning = FALSE
  /\ vocab = {}

(* Thread t runs: the process is alive, t is not inside exit and not in   *)
(* the fault handler.                                                      *)
Runs(t) ==
  /\ ~crashed
  /\ proc # "exited"
  /\ ~(proc \in {"exiting", "released"} /\ exitThread = t)

Live(t) == Runs(t) /\ Idle(t)

(* Thread t loads or stores page p: A happens, or the access faults. *)
Touch(t, p, A) ==
  IF Accessible(p) THEN A ELSE RaiseFault(t, p) /\ UNCHANGED rtVars

-----------------------------------------------------------------------------
(* main(): boot.                                                           *)

Boot ==
  /\ mainPc = "boot"
  /\ Live(Main)
  /\ Initialize \/ InitializeHeader \/ SelfTest
  /\ UNCHANGED rtVars

(* initialize() failed: main returns 1 and exit runs the static           *)
(* destructors.                                                            *)
BootFailed ==
  /\ mainPc = "boot"
  /\ Live(Main)
  /\ mpc = "failed"
  /\ proc' = "exiting"
  /\ mainPc' = "exit"
  /\ UNCHANGED <<arenaVars, gRunning, uiPage, ingested, queued, exitThread,
                 tty, origTermios, tuiRunning, workerVars>>

(* enable_raw_mode: tcgetattr saves the terminal's settings in           *)
(* m_orig_termios, then tcsetattr applies raw mode.  stdout is taken to be *)
(* a terminal, so tcgetattr succeeds.                                      *)
EnableRawMode ==
  /\ origTermios' = tty
  /\ tty' = "raw"

(* disable_raw_mode: tcsetattr applies m_orig_termios, whatever it holds. *)
DisableRawMode ==
  /\ tty' = origTermios
  /\ UNCHANGED origTermios

(* SystemMonitor::initialize: raw mode, then m_running is set.  It has no *)
(* failing path: it always returns {}.                                     *)
TUIInitialize ==
  /\ EnableRawMode
  /\ tuiRunning' = TRUE

(* SystemMonitor::shutdown: m_running is cleared, the terminal restored; *)
(* it does not look at m_running first.                                    *)
TUIShutdown ==
  /\ tuiRunning' = FALSE
  /\ DisableRawMode

(* ~SystemMonitor: if (m_running) shutdown(); *)
TUIDestroy ==
  IF tuiRunning THEN TUIShutdown ELSE UNCHANGED <<tty, origTermios, tuiRunning>>

(* ProcessingUnit's constructor (initialize() returns: m_running is set), *)
(* SystemMonitor::initialize, the fibers spawned, then Start sets         *)
(* m_running and starts the worker.                                        *)
StartRuntime ==
  /\ mainPc = "boot"
  /\ Live(Main)
  /\ mpc = "ready"
  /\ TUIInitialize
  /\ puRunning' = TRUE
  /\ wpc' = "loop"
  /\ mainPc' = "loop"
  /\ UNCHANGED <<arenaVars, gRunning, uiPage, ingested, queued, proc,
                 exitThread, queue, handled, wdoc, woff, written, vocab>>

-----------------------------------------------------------------------------
(* main thread: the fibers.                                                *)

(* Ingest pushing past the ring's capacity: a plausible bug. *)
IngestNoFullCheck(d) ==
  /\ mainPc = "loop"
  /\ gRunning
  /\ Live(Main)
  /\ ingested < MaxIngest
  /\ ingested' = ingested + 1
  /\ queue' = Append(queue, d)
  /\ queued' = queued + 1
  /\ UNCHANGED <<arenaVars, gRunning, mainPc, uiPage, exitVars, puRunning,
                 handled, wpc, wdoc, woff, written, vocab>>

(* InputIngest_Fiber_Func hands a new clipboard text to Ingest, which      *)
(* pushes it and ignores push's false when the queue is full.              *)
Ingest(d) ==
  /\ mainPc = "loop"
  /\ gRunning
  /\ Live(Main)
  /\ ingested < MaxIngest
  /\ ingested' = ingested + 1
  /\ IF Len(queue) < QueueCapacity - 1
     THEN Q!Push(d) /\ queued' = queued + 1
     ELSE UNCHANGED <<queue, queued>>
  /\ UNCHANGED <<arenaVars, gRunning, mainPc, uiPage, exitVars, puRunning,
                 handled, wpc, wdoc, woff, written, vocab>>

(* UI_Fiber_Func: an iteration calls Update, which (m_running is set)     *)
(* goes on to read vector_count; a 'q' read first clears g_running, and   *)
(* the iteration still calls Update.                                       *)
UpdateBegin ==
  /\ mainPc = "loop"
  /\ gRunning
  /\ Live(Main)
  /\ puRunning
  /\ \E q \in BOOLEAN : gRunning' = ~q
  /\ mainPc' = "count"
  /\ UNCHANGED <<arenaVars, uiPage, ingested, queued, exitVars, workerVars>>

(* The acquire load of header->vector_count and m_tokenizer's           *)
(* VocabularySize(); then, when rand() % 10 == 0, the touch at            *)
(* ghost_offset.                                                           *)
UpdateReadCount ==
  /\ mainPc = "count"
  /\ Live(Main)
  /\ Touch(Main, HeaderPage,
       /\ \E touch \in BOOLEAN :
            mainPc' = IF touch /\ uiPage < MaxUITouch THEN "touch" ELSE "loop"
       /\ UNCHANGED <<arenaVars, gRunning, uiPage, ingested, queued,
                      exitVars, workerVars>>)

UpdateTouch ==
  /\ mainPc = "touch"
  /\ Live(Main)
  /\ Touch(Main, UIPage(uiPage),
       /\ uiPage' = uiPage + 1
       /\ mainPc' = "loop"
       /\ UNCHANGED <<arenaVars, gRunning, ingested, queued, exitVars,
                      workerVars>>)

-----------------------------------------------------------------------------
(* Process exit.                                                           *)

(* signal_handler on thread t: g_running = false, the monitor's shutdown,*)
(* then exit(0).  The handler is installed before SystemMonitor::         *)
(* initialize runs.                                                        *)
SigInt(t) ==
  /\ proc = "running"
  /\ Live(t)
  /\ t = Worker => wpc # "none"
  /\ gRunning' = FALSE
  /\ TUIShutdown
  /\ proc' = "exiting"
  /\ exitThread' = t
  /\ UNCHANGED <<arenaVars, mainPc, uiPage, ingested, queued, workerVars>>

(* exit destroys the statics in reverse order of construction: the      *)
(* SystemMonitor, then the MemoryManager, whose destructor calls shutdown, *)
(* which unmaps the arena.  The automatic ProcessingUnit is not destroyed, *)
(* so its worker is neither stopped nor joined.                            *)
ExitRelease ==
  /\ proc = "exiting"
  /\ ~crashed
  /\ TUIDestroy
  /\ IF mmRunning THEN Shutdown ELSE UNCHANGED arenaVars
  /\ proc' = "released"
  /\ UNCHANGED <<mainVars, exitThread, workerVars>>

ExitEnd ==
  /\ proc = "released"
  /\ ~crashed
  /\ proc' = "exited"
  /\ UNCHANGED <<arenaVars, mainVars, exitThread, tty, origTermios,
                 tuiRunning, workerVars>>

-----------------------------------------------------------------------------
(* The worker: AnalysisWorker and ProcessDocument.                         *)

(* A pop that takes a queue with one text for empty: a plausible bug. *)
WorkerPopOffByOne ==
  /\ wpc = "loop"
  /\ Live(Worker)
  /\ puRunning
  /\ Len(queue) > 1
  /\ Q!Pop
  /\ wpc' = "tokenize"
  /\ UNCHANGED <<arenaVars, mainVars, exitVars, puRunning, handled, woff,
                 written, vocab>>

(* while (m_running): pop; an empty queue is a sleep, a stutter. *)
WorkerPop ==
  /\ wpc = "loop"
  /\ Live(Worker)
  /\ puRunning
  /\ Q!Pop
  /\ wpc' = "tokenize"
  /\ UNCHANGED <<arenaVars, mainVars, exitVars, puRunning, handled, woff,
                 written, vocab>>

(* After Tokenize: no terms, or a null base, return early. *)
Vectorize ==
  IF wdoc \in EmptyDocs \/ baseAddr = "null"
  THEN /\ wpc' = "loop"
       /\ handled' = handled + 1
  ELSE /\ wpc' = "offset"
       /\ UNCHANGED handled

(* Tokenize: a text with a term m_vocab lacks goes on to GetTermID's      *)
(* insertion; otherwise every term is found and the document is vectorized.*)
WorkerTokenize ==
  /\ wpc = "tokenize"
  /\ Live(Worker)
  /\ IF wdoc \notin EmptyDocs /\ wdoc \notin vocab
     THEN wpc' = "vocab" /\ UNCHANGED handled
     ELSE Vectorize
  /\ UNCHANGED <<arenaVars, mainVars, exitVars, puRunning, queue, wdoc, woff,
                 written, vocab>>

(* GetTermID: m_vocab[s] = m_next_term_id, m_inverse_vocab grown, then   *)
(* m_next_term_id++, with no lock against the UI's reads.                  *)
WorkerInsertTerms ==
  /\ wpc = "vocab"
  /\ Live(Worker)
  /\ vocab' = vocab \cup {wdoc}
  /\ Vectorize
  /\ UNCHANGED <<arenaVars, mainVars, exitVars, puRunning, queue, wdoc, woff,
                 written>>

(* uint64_t current_offset = header->head_offset; *)
WorkerReadOffset ==
  /\ wpc = "offset"
  /\ Live(Worker)
  /\ Touch(Worker, HeaderPage,
       /\ woff' = header.head
       /\ wpc' = "write"
       /\ UNCHANGED <<arenaVars, mainVars, exitVars, puRunning, queue,
                      handled, wdoc, written, vocab>>)

(* The memcpy of scale and bias at dest: the record's first page. *)
WorkerWriteFirst ==
  /\ wpc = "write"
  /\ Live(Worker)
  /\ Touch(Worker, PageOf(woff),
       /\ wpc' = "write2"
       /\ UNCHANGED <<arenaVars, mainVars, exitVars, puRunning, queue,
                      handled, wdoc, woff, written, vocab>>)

(* The quantize loop up to the record's last byte. *)
WorkerWriteLast ==
  /\ wpc = "write2"
  /\ Live(Worker)
  /\ Touch(Worker, PageOf(woff + RecordSize - 1),
       /\ written' = written \cup {woff}
       /\ wpc' = "commit"
       /\ UNCHANGED <<arenaVars, mainVars, exitVars, puRunning, queue,
                      handled, wdoc, woff, vocab>>)

(* head_offset advanced by VECTOR_DIM only, forgetting scale and bias:  *)
(* a plausible bug.                                                        *)
WorkerCommitWrongSize ==
  /\ wpc = "commit"
  /\ Live(Worker)
  /\ Touch(Worker, HeaderPage,
       /\ header' = [header EXCEPT !.head = @ + RecordSize - 8]
       /\ wpc' = "count"
       /\ UNCHANGED <<mapped, baseAddr, handlers, mmRunning, resident,
                      faultCount, residentCount, hpc, hpage, crashed, mpc,
                      mainVars, exitVars, puRunning, queue, handled, wdoc,
                      woff, written, vocab>>)

(* header->head_offset += entry_size; *)
WorkerCommit ==
  /\ wpc = "commit"
  /\ Live(Worker)
  /\ Touch(Worker, HeaderPage,
       /\ header' = [header EXCEPT !.head = @ + RecordSize]
       /\ wpc' = "count"
       /\ UNCHANGED <<mapped, baseAddr, handlers, mmRunning, resident,
                      faultCount, residentCount, hpc, hpage, crashed, mpc,
                      mainVars, exitVars, puRunning, queue, handled, wdoc,
                      woff, written, vocab>>)

(* vector_count.fetch_add(1, release); ProcessDocument returns. *)
WorkerCount ==
  /\ wpc = "count"
  /\ Live(Worker)
  /\ Touch(Worker, HeaderPage,
       /\ header' = [header EXCEPT !.count = @ + 1]
       /\ handled' = handled + 1
       /\ wpc' = "loop"
       /\ UNCHANGED <<mapped, baseAddr, handlers, mmRunning, resident,
                      faultCount, residentCount, hpc, hpage, crashed, mpc,
                      mainVars, exitVars, puRunning, queue, wdoc, woff,
                      written, vocab>>)

-----------------------------------------------------------------------------
(* The signal handler, on a thread that faulted. *)
Handler(t) ==
  /\ Runs(t)
  /\ HandleFault(t) \/ CountFault(t)
  /\ UNCHANGED rtVars

WorkerStep ==
  \/ WorkerPop \/ WorkerTokenize \/ WorkerInsertTerms \/ WorkerReadOffset
  \/ WorkerWriteFirst \/ WorkerWriteLast \/ WorkerCommit \/ WorkerCount

Next ==
  \/ Boot \/ BootFailed \/ StartRuntime
  \/ \E d \in Docs : Ingest(d)
  \/ UpdateBegin \/ UpdateReadCount \/ UpdateTouch
  \/ \E t \in Threads : SigInt(t) \/ Handler(t)
  \/ ExitRelease \/ ExitEnd
  \/ WorkerStep

(* The worker is an OS thread: once it can take a step it eventually does, *)
(* and the fault handler runs to completion on it.  exit runs to its end.  *)
(* The fibers and the user get no fairness.                                *)
Fairness ==
  /\ WF_vars(WorkerStep)
  /\ WF_vars(Handler(Worker))
  /\ WF_vars(ExitRelease)
  /\ WF_vars(ExitEnd)

Spec == Init /\ [][Next]_vars /\ Fairness

-----------------------------------------------------------------------------
(* Properties.                                                             *)

TypeOK ==
  /\ gRunning \in BOOLEAN
  /\ puRunning \in BOOLEAN
  /\ proc \in {"running", "exiting", "released", "exited"}
  /\ exitThread \in Threads
  /\ mainPc \in {"boot", "loop", "count", "touch", "exit"}
  /\ uiPage \in 0 .. MaxUITouch
  /\ queue \in Seq(Docs) /\ Len(queue) < QueueCapacity
  /\ ingested \in 0 .. MaxIngest
  /\ queued \in 0 .. ingested
  /\ handled \in 0 .. queued
  /\ wpc \in {"none", "loop", "tokenize", "vocab", "offset", "write",
              "write2", "commit", "count"}
  /\ wdoc \in Docs \cup {NoDoc}
  /\ woff \in Nat
  /\ written \subseteq Nat
  /\ header \in [magic : BOOLEAN, count : Nat, head : Nat]
  /\ resident \subseteq Pages
  /\ hpc \in [Threads -> {"none", "handler", "count"}]
  /\ hpage \in [Threads -> Pages \cup {NoPage}]
  /\ tty \in {"user", "raw", "zero"}
  /\ origTermios \in {"user", "zero"}
  /\ tuiRunning \in BOOLEAN
  /\ vocab \subseteq Docs \ EmptyDocs

(* Every record vector_count announces has been written in full at the   *)
(* offset its index gives: ProcessDocument writes the record, advances    *)
(* head_offset by its size, and only then publishes the count, so the UI  *)
(* (or a reader of a persisted arena) never counts an unwritten or a      *)
(* misplaced record.                                                       *)
CountedRecordsWritten ==
  \A k \in 0 .. header.count - 1 : RecordOffset(k) \in written

(* The only way the process dies of a fault is a touch of the arena after *)
(* exit's ~MemoryManager unmapped it: no fault while the arena is mapped, *)
(* by either thread, on any page the UI or the worker touches, escapes    *)
(* the handler.                                                            *)
CrashOnlyAfterRelease ==
  crashed => proc = "released" /\ ~mapped

(* Every text Ingest queued is eventually processed by the worker, unless *)
(* the process is exiting: the worker's loop drains the queue.            *)
QueuedEventuallyHandled ==
  \A k \in 1 .. MaxIngest :
    (queued >= k) ~> (handled >= k \/ proc # "running")

(* signal_handler is the "graceful exit": the process ends by exit(0),    *)
(* never by an unhandled SIGSEGV.                                         *)
NoCrash == ~crashed

(* Shutdown is cooperative (spec section 5): once g_running is false the  *)
(* worker joins, the arena is released and the process ends.              *)
QuitEventuallyExits ==
  (~gRunning) ~> (proc = "exited")

(* The terminal is left as the program found it, which is what           *)
(* SystemMonitor::shutdown's disable_raw_mode is for: once the process    *)
(* has exited, after a SIGINT or a failed boot, the terminal has the      *)
(* user's settings again.                                                  *)
TerminalRestoredOnExit ==
  proc = "exited" => tty = "user"

(* The UI's read of m_tokenizer.VocabularySize() in Update never runs     *)
(* while the worker's GetTermID inserts into the same unordered_map:      *)
(* there is no lock between the two threads.                               *)
NoVocabularyRace ==
  ~(mainPc = "count" /\ wpc = "vocab")
=============================================================================
