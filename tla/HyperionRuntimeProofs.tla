------------------------ MODULE HyperionRuntimeProofs ------------------------
(***************************************************************************)
(* Proofs about the Hyperion process of HyperionRuntime, for every set of  *)
(* pages, texts and threads and every header and record size.              *)
(***************************************************************************)
EXTENDS HyperionRuntime, TLAPS

-----------------------------------------------------------------------------
(* The records of the arena.                                               *)

(* CountedRecordsWritten is not inductive by itself: a worker that has     *)
(* written a record at woff and is about to bump vector_count keeps the   *)
(* property only if woff is the offset of the next record.  The           *)
(* strengthening ties ProcessDocument's local current_offset and the      *)
(* header's head_offset to vector_count at each point of the worker, and  *)
(* records that the worker starts only after initialize_header gave the   *)
(* header its magic and its first offset, since main starts the worker    *)
(* only after run_self_test.                                               *)

(* The header's fields keep their types. *)
HeaderTyped == header \in [magic : BOOLEAN, count : Nat, head : Nat]

(* The places of the worker and of Main's arena start-up. *)
PcsTyped ==
  /\ wpc \in {"none", "loop", "tokenize", "vocab", "offset", "write",
              "write2", "commit", "count"}
  /\ mpc \in {"boot", "failed", "header", "selftest", "ready"}

(* The header gets its magic before the self-test, and the worker starts  *)
(* after it, once main has left its start-up; before the magic no record  *)
(* is counted.                                                             *)
HeaderBeforeWorker ==
  /\ ~header.magic => header.count = 0
  /\ mpc \in {"selftest", "ready"} => header.magic
  /\ wpc # "none" => mpc = "ready"
  /\ mainPc = "boot" => wpc = "none"

(* head_offset is the offset of record vector_count, one record further   *)
(* while the worker has committed a record it has not counted yet.        *)
HeadAtNextRecord ==
  header.magic =>
    header.head = RecordOffset(header.count)
                    + (IF wpc = "count" THEN RecordSize ELSE 0)

(* From its read of head_offset on, the worker writes at the offset of    *)
(* record vector_count, and that record is complete once it commits.      *)
WorkerAtNextRecord ==
  /\ wpc \in {"write", "write2", "commit", "count"} =>
       woff = RecordOffset(header.count)
  /\ wpc \in {"commit", "count"} => woff \in written

IInv ==
  /\ HeaderTyped
  /\ PcsTyped
  /\ HeaderBeforeWorker
  /\ HeadAtNextRecord
  /\ WorkerAtNextRecord
  /\ CountedRecordsWritten

(* The variables the invariant reads. *)
recordVars == <<header, wpc, mpc, woff, written>>

LEMMA RecordOffsetNat ==
  ASSUME NEW k \in Nat
  PROVE  /\ RecordOffset(k) \in Nat
         /\ RecordOffset(k + 1) = RecordOffset(k) + RecordSize
BY ArenaConstants, RuntimeConstants DEF RecordOffset

LEMMA InitIInv == Init => IInv
BY DEF Init, ArenaInit, Header, IInv, HeaderTyped, PcsTyped,
       HeaderBeforeWorker, HeadAtNextRecord, WorkerAtNextRecord,
       CountedRecordsWritten

(* A step that leaves the invariant's variables alone, and does not send *)
(* main back to its start-up, keeps it.                                    *)
LEMMA UnchangedIInv ==
  IInv /\ UNCHANGED recordVars /\ (mainPc' = "boot" => mainPc = "boot")
    => IInv'
BY DEF recordVars, IInv, HeaderTyped, PcsTyped, HeaderBeforeWorker,
       HeadAtNextRecord, WorkerAtNextRecord, CountedRecordsWritten,
       RecordOffset

(* The actions that touch none of the invariant's variables. *)
LEMMA QuietActions ==
  ASSUME \/ BootFailed \/ \E d \in Docs : Ingest(d)
         \/ UpdateBegin \/ UpdateReadCount \/ UpdateTouch
         \/ \E t \in Threads : SigInt(t) \/ Handler(t)
         \/ ExitRelease \/ ExitEnd
  PROVE  UNCHANGED recordVars /\ (mainPc' = "boot" => mainPc = "boot")
<1> USE DEF recordVars, mainVars
<1>1. CASE BootFailed
  BY <1>1 DEF BootFailed, recordVars, arenaVars, workerVars
<1>2. CASE \E d \in Docs : Ingest(d)
  BY <1>2 DEF Ingest, recordVars, arenaVars
<1>3. CASE UpdateBegin
  BY <1>3 DEF UpdateBegin, recordVars, arenaVars, workerVars
<1>4. CASE UpdateReadCount
  BY <1>4 DEF UpdateReadCount, Touch, RaiseFault, recordVars, arenaVars,
              rtVars, workerVars
<1>5. CASE UpdateTouch
  BY <1>5 DEF UpdateTouch, Touch, RaiseFault, recordVars, arenaVars,
              rtVars, workerVars
<1>6. CASE \E t \in Threads : SigInt(t) \/ Handler(t)
  <2>1. PICK t \in Threads : SigInt(t) \/ Handler(t)
    BY <1>6
  <2>2. CASE SigInt(t)
    BY <2>2 DEF SigInt, recordVars, arenaVars, workerVars
  <2>3. CASE Handler(t)
    BY <2>3 DEF Handler, HandleFault, CountFault, recordVars, rtVars,
                workerVars
  <2>4. QED
    BY <2>1, <2>2, <2>3
<1>8. CASE ExitRelease
  BY <1>8 DEF ExitRelease, Shutdown, recordVars, arenaVars, workerVars
<1>9. CASE ExitEnd
  BY <1>9 DEF ExitEnd, recordVars, arenaVars, workerVars
<1>10. QED
  BY <1>1, <1>2, <1>3, <1>4, <1>5, <1>6, <1>8, <1>9

(* Main's arena start-up gives the header its magic and first offset      *)
(* while the worker has not started.                                       *)
LEMMA BootIInv == IInv /\ Boot => IInv'
<1> SUFFICES ASSUME IInv, Boot PROVE IInv'
  OBVIOUS
<1> USE DEF IInv, HeaderTyped, PcsTyped, HeaderBeforeWorker,
            HeadAtNextRecord, WorkerAtNextRecord, CountedRecordsWritten,
            mainVars
<1>1. UNCHANGED <<wpc, woff, written>>
  BY DEF Boot, rtVars, workerVars
<1>2. CASE Initialize
  BY <1>1, <1>2 DEF Initialize
<1>3. CASE InitializeHeader /\ Accessible(HeaderPage)
  <2>1. mpc' = "selftest" /\ wpc = "none"
    BY <1>1, <1>3 DEF InitializeHeader
  <2>2. CASE header.magic
    BY <1>1, <2>1, <2>2, <1>3 DEF InitializeHeader
  <2>3. CASE ~header.magic
    <3>1. header' = [magic |-> TRUE, count |-> 0, head |-> HeaderBytes]
      BY <2>3, <1>3 DEF InitializeHeader, Header
    <3>2. HeaderBytes = RecordOffset(0) /\ HeaderBytes \in Nat
      BY ArenaConstants, RuntimeConstants DEF RecordOffset
    <3>3. QED
      BY <1>1, <2>1, <3>1, <3>2
  <2>4. QED
    BY <2>2, <2>3
<1>4. CASE InitializeHeader /\ ~Accessible(HeaderPage)
  BY <1>1, <1>4 DEF InitializeHeader, RaiseFault
<1>5. CASE SelfTest
  BY <1>1, <1>5 DEF SelfTest, RaiseFault
<1>6. QED
  BY <1>2, <1>3, <1>4, <1>5 DEF Boot

(* main starts the worker only after run_self_test. *)
LEMMA StartIInv == IInv /\ StartRuntime => IInv'
BY DEF StartRuntime, IInv, HeaderTyped, PcsTyped, HeaderBeforeWorker,
       HeadAtNextRecord, WorkerAtNextRecord, CountedRecordsWritten,
       arenaVars, mainVars, workerVars

(* Each step of ProcessDocument keeps head_offset, current_offset and the *)
(* written records in step with vector_count.                              *)
LEMMA WorkerIInv == IInv /\ WorkerStep => IInv'
<1> SUFFICES ASSUME IInv, WorkerStep PROVE IInv'
  OBVIOUS
<1> USE DEF IInv, HeaderTyped, PcsTyped, HeaderBeforeWorker,
            HeadAtNextRecord, WorkerAtNextRecord, CountedRecordsWritten,
            mainVars
<1>1. CASE WorkerPop
  BY <1>1 DEF WorkerPop, arenaVars
<1>2. CASE WorkerTokenize
  BY <1>2 DEF WorkerTokenize, Vectorize, arenaVars
<1>9. CASE WorkerInsertTerms
  BY <1>9 DEF WorkerInsertTerms, Vectorize, arenaVars
<1>3. CASE WorkerReadOffset
  <2>1. CASE Accessible(HeaderPage)
    <3>1. header.magic /\ header.head = RecordOffset(header.count)
      <4>1. wpc = "offset"
        BY <1>3 DEF WorkerReadOffset
      <4>2. header.magic
        BY <4>1
      <4>3. QED
        BY <4>1, <4>2, RecordOffsetNat
    <3>2. QED
      BY <1>3, <2>1, <3>1 DEF WorkerReadOffset, Touch, arenaVars
  <2>2. CASE ~Accessible(HeaderPage)
    BY <1>3, <2>2 DEF WorkerReadOffset, Touch, RaiseFault, rtVars,
                      workerVars
  <2>3. QED
    BY <2>1, <2>2
<1>4. CASE WorkerWriteFirst
  BY <1>4 DEF WorkerWriteFirst, Touch, RaiseFault, arenaVars, rtVars,
              workerVars
<1>5. CASE WorkerWriteLast
  BY <1>5 DEF WorkerWriteLast, Touch, RaiseFault, arenaVars, rtVars,
              workerVars
<1>6. CASE WorkerCommit
  <2>1. CASE Accessible(HeaderPage)
    <3>0. wpc = "commit"
      BY <1>6 DEF WorkerCommit
    <3>1. header.magic /\ header.head = RecordOffset(header.count)
      <4>1. header.magic
        BY <3>0
      <4>2. QED
        BY <3>0, <4>1, RecordOffsetNat
    <3>2. header' = [header EXCEPT !.head = @ + RecordSize]
          /\ wpc' = "count" /\ UNCHANGED <<mpc, woff, written, mainPc>>
      BY <1>6, <2>1 DEF WorkerCommit, Touch
    <3>3. /\ header'.magic /\ header'.count = header.count
          /\ header'.head = RecordOffset(header.count) + RecordSize
          /\ header' \in [magic : BOOLEAN, count : Nat, head : Nat]
      BY <3>1, <3>2, RuntimeConstants, RecordOffsetNat
    <3>4. QED
      BY <3>0, <3>2, <3>3
  <2>2. CASE ~Accessible(HeaderPage)
    BY <1>6, <2>2 DEF WorkerCommit, Touch, RaiseFault, rtVars, workerVars
  <2>3. QED
    BY <2>1, <2>2
<1>7. CASE WorkerCount
  <2>1. CASE Accessible(HeaderPage)
    <3>0. wpc = "count"
      BY <1>7 DEF WorkerCount
    <3>1. header.magic /\ header.head = RecordOffset(header.count) + RecordSize
          /\ woff = RecordOffset(header.count) /\ woff \in written
      <4>1. header.magic
        BY <3>0
      <4>2. QED
        BY <3>0, <4>1, RecordOffsetNat
    <3>2. header' = [header EXCEPT !.count = @ + 1]
          /\ wpc' = "loop" /\ UNCHANGED <<mpc, woff, written, mainPc>>
      BY <1>7, <2>1 DEF WorkerCount, Touch
    <3>3. RecordOffset(header.count + 1) = RecordOffset(header.count) + RecordSize
      BY RecordOffsetNat
    <3>4. \A k \in 0 .. header.count : RecordOffset(k) \in written
      <4> SUFFICES ASSUME NEW k \in 0 .. header.count
                   PROVE  RecordOffset(k) \in written
        OBVIOUS
      <4>1. CASE k = header.count
        BY <3>1, <4>1
      <4>2. CASE k # header.count
        BY <4>2
      <4>3. QED
        BY <4>1, <4>2
    <3>5. /\ header'.magic /\ header'.count = header.count + 1
          /\ header'.head = RecordOffset(header'.count)
          /\ header' \in [magic : BOOLEAN, count : Nat, head : Nat]
      BY <3>1, <3>2, <3>3
    <3>6. QED
      BY <3>0, <3>2, <3>4, <3>5
  <2>2. CASE ~Accessible(HeaderPage)
    BY <1>7, <2>2 DEF WorkerCount, Touch, RaiseFault, rtVars, workerVars
  <2>3. QED
    BY <2>1, <2>2
<1>8. QED
  BY <1>1, <1>2, <1>3, <1>4, <1>5, <1>6, <1>7, <1>9 DEF WorkerStep

LEMMA NextIInv == IInv /\ [Next]_vars => IInv'
<1> SUFFICES ASSUME IInv, [Next]_vars PROVE IInv'
  OBVIOUS
<1>1. CASE Boot
  BY <1>1, BootIInv
<1>2. CASE StartRuntime
  BY <1>2, StartIInv
<1>3. CASE WorkerStep
  BY <1>3, WorkerIInv
<1>4. CASE \/ BootFailed \/ \E d \in Docs : Ingest(d)
           \/ UpdateBegin \/ UpdateReadCount \/ UpdateTouch
           \/ \E t \in Threads : SigInt(t) \/ Handler(t)
           \/ ExitRelease \/ ExitEnd
  BY <1>4, QuietActions, UnchangedIInv
<1>5. CASE UNCHANGED vars
  <2>1. UNCHANGED recordVars /\ UNCHANGED mainPc
    BY <1>5 DEF vars, recordVars, arenaVars, rtVars, mainVars, workerVars
  <2>2. QED
    BY <2>1, UnchangedIInv
<1>6. QED
  BY <1>1, <1>2, <1>3, <1>4, <1>5 DEF Next

(* Every record that vector_count announces has been written in full at   *)
(* the offset its index gives, in every run of the process and for every   *)
(* header and record size: ProcessDocument writes the record, advances    *)
(* head_offset and only then publishes the count, and no other step of    *)
(* main, the fibers, the fault handler or exit moves either field.         *)
THEOREM RecordsWrittenBeforeCounted == Spec => []CountedRecordsWritten
<1>1. Init => IInv
  BY InitIInv
<1>2. IInv => CountedRecordsWritten
  BY DEF IInv
<1>3. QED
  BY <1>1, <1>2, NextIInv, PTL DEF Spec

-----------------------------------------------------------------------------
(* Faults.                                                                 *)

(* CrashOnlyAfterRelease is not inductive by itself: a touch that faults  *)
(* must find the handler installed, and the handler must find m_base_addr *)
(* set and the range mapped unless exit has unmapped it.  The              *)
(* strengthening records that the handlers are installed exactly from     *)
(* initialize's success on, that every thread that touches the arena runs *)
(* after it, and that only ~MemoryManager unmaps the range.                *)

(* The places of the process and of the fault path keep their types. *)
FaultPcsTyped ==
  /\ proc \in {"running", "exiting", "released", "exited"}
  /\ hpc \in [Threads -> {"none", "handler", "count"}]
  /\ mpc \in {"boot", "failed", "header", "selftest", "ready"}

(* initialize installs ghost_signal_handler, with m_base_addr set, just   *)
(* when it goes on to initialize_header.                                   *)
HandlersInstalled ==
  /\ handlers <=> mpc \in {"header", "selftest", "ready"}
  /\ handlers => baseAddr = "addr"

(* The threads touch the arena only after initialize succeeded, and a     *)
(* thread inside the fault path got there through the handler.            *)
TouchesAfterInitialize ==
  /\ mainPc \in {"loop", "count", "touch"} => mpc = "ready"
  /\ wpc # "none" => mpc = "ready"
  /\ \A t \in Threads : hpc[t] # "none" => handlers

(* Before main starts the worker only main can have called exit. *)
MainAloneBeforeWorker ==
  /\ mainPc = "boot" => wpc = "none"
  /\ wpc = "none" => exitThread = Main

(* The range is unmapped only by exit's ~MemoryManager. *)
UnmappedOnlyByExit ==
  baseAddr = "addr" /\ ~mapped => proc \in {"released", "exited"}

CInv ==
  /\ FaultPcsTyped
  /\ HandlersInstalled
  /\ TouchesAfterInitialize
  /\ MainAloneBeforeWorker
  /\ UnmappedOnlyByExit
  /\ CrashOnlyAfterRelease

LEMMA InitCInv == Init => CInv
BY DEF Init, ArenaInit, CInv, FaultPcsTyped, HandlersInstalled,
       TouchesAfterInitialize,
       MainAloneBeforeWorker, UnmappedOnlyByExit, CrashOnlyAfterRelease

(* A touch that faults while the handler is installed enters the handler *)
(* and changes nothing else.                                               *)
LEMMA FaultCInv ==
  ASSUME CInv, NEW t \in Threads, NEW p, handlers, RaiseFault(t, p),
         UNCHANGED rtVars
  PROVE  CInv'
BY DEF RaiseFault, CInv, FaultPcsTyped, HandlersInstalled,
       TouchesAfterInitialize,
       MainAloneBeforeWorker, UnmappedOnlyByExit, CrashOnlyAfterRelease,
       rtVars, mainVars, exitVars, workerVars

(* A step that leaves the arena, the process and the threads' places     *)
(* alone keeps the invariant.                                              *)
LEMMA UnchangedCInv ==
  ASSUME CInv, UNCHANGED <<arenaVars, proc, exitThread, mainPc, wpc>>
  PROVE  CInv'
BY DEF CInv, FaultPcsTyped, HandlersInstalled, TouchesAfterInitialize,
       MainAloneBeforeWorker,
       UnmappedOnlyByExit, CrashOnlyAfterRelease, arenaVars

(* Main's arena start-up installs the handlers as it leaves initialize,  *)
(* and its touches fault only after that.                                  *)
LEMMA BootCInv == CInv /\ Boot => CInv'
<1> SUFFICES ASSUME CInv, Boot PROVE CInv'
  OBVIOUS
<1>1. UNCHANGED rtVars
  BY DEF Boot
<1>2. CASE Initialize
  BY <1>1, <1>2 DEF Initialize, CInv, FaultPcsTyped, HandlersInstalled,
     TouchesAfterInitialize,
     MainAloneBeforeWorker, UnmappedOnlyByExit, CrashOnlyAfterRelease,
     rtVars, mainVars, exitVars, workerVars
<1>3. CASE InitializeHeader
  <2>1. CASE Accessible(HeaderPage)
    BY <1>1, <1>3, <2>1 DEF InitializeHeader, CInv, FaultPcsTyped,
       HandlersInstalled, TouchesAfterInitialize,
       MainAloneBeforeWorker, UnmappedOnlyByExit,
       CrashOnlyAfterRelease, rtVars, mainVars, exitVars, workerVars
  <2>2. CASE ~Accessible(HeaderPage)
    <3>1. handlers /\ RaiseFault(Main, HeaderPage)
      BY <1>3, <2>2 DEF InitializeHeader, CInv, HandlersInstalled
    <3>2. QED
      BY <1>1, <3>1, FaultCInv, ArenaConstants
  <2>3. QED
    BY <2>1, <2>2
<1>4. CASE SelfTest
  <2>1. CASE Accessible(SelfTestPage)
    BY <1>1, <1>4, <2>1 DEF SelfTest, CInv, FaultPcsTyped,
       HandlersInstalled, TouchesAfterInitialize,
       MainAloneBeforeWorker, UnmappedOnlyByExit,
       CrashOnlyAfterRelease, rtVars, mainVars, exitVars, workerVars
  <2>2. CASE ~Accessible(SelfTestPage)
    <3>1. handlers /\ RaiseFault(Main, SelfTestPage)
      BY <1>4, <2>2 DEF SelfTest, CInv, HandlersInstalled
    <3>2. QED
      BY <1>1, <3>1, FaultCInv, ArenaConstants
  <2>3. QED
    BY <2>1, <2>2
<1>5. QED
  BY <1>2, <1>3, <1>4 DEF Boot

(* The touches of the UI fiber and of the worker come after main started *)
(* them, so a fault finds the handler installed; an access that completes *)
(* leaves the arena, the process and Main's start-up alone.               *)
LEMMA ThreadTouchCInv ==
  ASSUME CInv,
         \/ UpdateReadCount \/ UpdateTouch
         \/ WorkerReadOffset \/ WorkerWriteFirst \/ WorkerWriteLast
         \/ WorkerCommit \/ WorkerCount
  PROVE  CInv'
<1> USE DEF CInv, FaultPcsTyped, HandlersInstalled, TouchesAfterInitialize,
            MainAloneBeforeWorker,
            UnmappedOnlyByExit, CrashOnlyAfterRelease
<1>1. mpc = "ready" /\ handlers
  BY DEF UpdateReadCount, UpdateTouch, WorkerReadOffset, WorkerWriteFirst,
         WorkerWriteLast, WorkerCommit, WorkerCount
<1>2. CASE UpdateReadCount
  <2>1. CASE Accessible(HeaderPage)
    BY <1>1, <1>2, <2>1 DEF UpdateReadCount, Touch, arenaVars, mainVars,
                              exitVars, workerVars
  <2>2. CASE ~Accessible(HeaderPage)
    BY <1>1, <1>2, <2>2, FaultCInv, RuntimeConstants DEF UpdateReadCount, Touch
  <2>3. QED
    BY <2>1, <2>2
<1>3. CASE UpdateTouch
  <2>1. CASE Accessible(UIPage(uiPage))
    BY <1>1, <1>3, <2>1 DEF UpdateTouch, Touch, arenaVars, mainVars,
                              exitVars, workerVars
  <2>2. CASE ~Accessible(UIPage(uiPage))
    BY <1>1, <1>3, <2>2, FaultCInv, RuntimeConstants DEF UpdateTouch, Touch
  <2>3. QED
    BY <2>1, <2>2
<1>4. CASE WorkerReadOffset
  <2>1. CASE Accessible(HeaderPage)
    BY <1>1, <1>4, <2>1 DEF WorkerReadOffset, Touch, arenaVars, mainVars,
                              exitVars, workerVars
  <2>2. CASE ~Accessible(HeaderPage)
    BY <1>1, <1>4, <2>2, FaultCInv, RuntimeConstants DEF WorkerReadOffset, Touch
  <2>3. QED
    BY <2>1, <2>2
<1>5. CASE WorkerWriteFirst
  <2>1. CASE Accessible(PageOf(woff))
    BY <1>1, <1>5, <2>1 DEF WorkerWriteFirst, Touch, arenaVars, mainVars,
                              exitVars, workerVars
  <2>2. CASE ~Accessible(PageOf(woff))
    BY <1>1, <1>5, <2>2, FaultCInv, RuntimeConstants DEF WorkerWriteFirst, Touch
  <2>3. QED
    BY <2>1, <2>2
<1>6. CASE WorkerWriteLast
  <2>1. CASE Accessible(PageOf(woff + RecordSize - 1))
    BY <1>1, <1>6, <2>1 DEF WorkerWriteLast, Touch, arenaVars, mainVars,
                              exitVars, workerVars
  <2>2. CASE ~Accessible(PageOf(woff + RecordSize - 1))
    BY <1>1, <1>6, <2>2, FaultCInv, RuntimeConstants DEF WorkerWriteLast, Touch
  <2>3. QED
    BY <2>1, <2>2
<1>7. CASE WorkerCommit
  <2>1. CASE Accessible(HeaderPage)
    BY <1>1, <1>7, <2>1 DEF WorkerCommit, Touch, arenaVars, mainVars,
                              exitVars, workerVars
  <2>2. CASE ~Accessible(HeaderPage)
    BY <1>1, <1>7, <2>2, FaultCInv, RuntimeConstants DEF WorkerCommit, Touch
  <2>3. QED
    BY <2>1, <2>2
<1>8. CASE WorkerCount
  <2>1. CASE Accessible(HeaderPage)
    BY <1>1, <1>8, <2>1 DEF WorkerCount, Touch, arenaVars, mainVars,
                              exitVars, workerVars
  <2>2. CASE ~Accessible(HeaderPage)
    BY <1>1, <1>8, <2>2, FaultCInv, RuntimeConstants DEF WorkerCount, Touch
  <2>3. QED
    BY <2>1, <2>2
<1>9. QED
  BY <1>2, <1>3, <1>4, <1>5, <1>6, <1>7, <1>8

(* The fault handler crashes the process only when it finds the range   *)
(* unmapped, and only exit unmaps it; exit's own steps keep the handlers  *)
(* and the arena's place.                                                  *)
LEMMA ExitCInv ==
  ASSUME CInv,
         \/ \E t \in Threads : SigInt(t) \/ Handler(t)
         \/ ExitRelease \/ ExitEnd
  PROVE  CInv'
<1> USE DEF CInv, FaultPcsTyped, HandlersInstalled, TouchesAfterInitialize,
            MainAloneBeforeWorker,
            UnmappedOnlyByExit, CrashOnlyAfterRelease
<1>1. CASE \E t \in Threads : SigInt(t)
  BY <1>1, RuntimeConstants DEF SigInt, TUIShutdown, DisableRawMode, arenaVars,
                              workerVars
<1>2. CASE \E t \in Threads : Handler(t)
  <2>1. PICK t \in Threads : Handler(t)
    BY <1>2
  <2>2. CASE HandleFault(t)
    <3>1. hpc[t] = "handler" /\ proc # "exited"
      BY <2>1, <2>2 DEF Handler, HandleFault, Runs
    <3>2. baseAddr = "addr"
      BY <3>1
    <3>3. QED
      BY <2>1, <2>2, <3>1, <3>2 DEF Handler, HandleFault, rtVars, mainVars,
                                    exitVars, workerVars
  <2>3. CASE CountFault(t)
    BY <2>1, <2>3 DEF Handler, CountFault, rtVars, mainVars, exitVars,
                      workerVars
  <2>4. QED
    BY <2>1, <2>2, <2>3 DEF Handler
<1>3. CASE ExitRelease
  BY <1>3 DEF ExitRelease, Shutdown, TUIDestroy, TUIShutdown,
              DisableRawMode, arenaVars,
              mainVars, workerVars
<1>4. CASE ExitEnd
  BY <1>4 DEF ExitEnd, arenaVars, mainVars, workerVars
<1>5. QED
  BY <1>1, <1>2, <1>3, <1>4

LEMMA NextCInv == CInv /\ [Next]_vars => CInv'
<1> SUFFICES ASSUME CInv, [Next]_vars PROVE CInv'
  OBVIOUS
<1>1. CASE Boot
  BY <1>1, BootCInv
<1>2. CASE BootFailed
  <2>1. ~crashed /\ proc = "running" /\ mpc = "failed"
    <3>1. mainPc = "boot" /\ mpc = "failed" /\ Runs(Main)
      BY <1>2 DEF BootFailed, Live
    <3>2. wpc = "none"
      BY <3>1 DEF CInv, MainAloneBeforeWorker
    <3>3. QED
      BY <3>1, <3>2 DEF Runs, CInv, FaultPcsTyped, MainAloneBeforeWorker
  <2>2. /\ UNCHANGED <<mapped, baseAddr, handlers, hpc, crashed, mpc, wpc,
                      exitThread>>
        /\ proc' = "exiting" /\ mainPc' = "exit"
    BY <1>2 DEF BootFailed, arenaVars, workerVars
  <2>3. QED
    BY <2>1, <2>2 DEF CInv, FaultPcsTyped, HandlersInstalled,
       TouchesAfterInitialize,
       MainAloneBeforeWorker, UnmappedOnlyByExit, CrashOnlyAfterRelease
<1>3. CASE StartRuntime
  BY <1>3 DEF StartRuntime, TUIInitialize, EnableRawMode, CInv, FaultPcsTyped,
     HandlersInstalled, TouchesAfterInitialize,
     MainAloneBeforeWorker, UnmappedOnlyByExit,
     CrashOnlyAfterRelease, arenaVars
<1>4. CASE \E d \in Docs : Ingest(d)
  BY <1>4, UnchangedCInv DEF Ingest, exitVars
<1>5. CASE UpdateBegin
  BY <1>5 DEF UpdateBegin, CInv, FaultPcsTyped, HandlersInstalled,
     TouchesAfterInitialize,
     MainAloneBeforeWorker, UnmappedOnlyByExit, CrashOnlyAfterRelease,
     arenaVars, exitVars, workerVars
<1>6. CASE UpdateReadCount \/ UpdateTouch
  BY <1>6, ThreadTouchCInv
<1>7. CASE \/ \E t \in Threads : SigInt(t) \/ Handler(t)
           \/ ExitRelease \/ ExitEnd
  BY <1>7, ExitCInv
<1>8. CASE WorkerStep
  <2>1. CASE WorkerReadOffset \/ WorkerWriteFirst \/ WorkerWriteLast
             \/ WorkerCommit \/ WorkerCount
    BY <2>1, ThreadTouchCInv
  <2>2. CASE WorkerPop \/ WorkerTokenize \/ WorkerInsertTerms
    <3>1. wpc # "none" /\ wpc' # "none"
      BY <2>2 DEF WorkerPop, WorkerTokenize, WorkerInsertTerms, Vectorize
    <3>2. UNCHANGED <<arenaVars, proc, mainPc>>
      BY <2>2 DEF WorkerPop, WorkerTokenize, WorkerInsertTerms, mainVars,
                  exitVars
    <3>3. QED
      BY <3>1, <3>2 DEF CInv, FaultPcsTyped, HandlersInstalled,
         TouchesAfterInitialize,
         MainAloneBeforeWorker, UnmappedOnlyByExit, CrashOnlyAfterRelease,
         arenaVars
  <2>3. QED
    BY <1>8, <2>1, <2>2 DEF WorkerStep
<1>9. CASE UNCHANGED vars
  BY <1>9, UnchangedCInv DEF vars, rtVars, mainVars, exitVars, workerVars
<1>10. QED
  BY <1>1, <1>2, <1>3, <1>4, <1>5, <1>6, <1>7, <1>8, <1>9 DEF Next

(* The process dies of a fault only after exit's ~MemoryManager unmapped *)
(* the arena, in every run and for every set of pages and texts: the     *)
(* handlers are installed before main, the UI fiber or the worker touch  *)
(* the arena, and ghost_signal_handler resolves every fault while the    *)
(* range is mapped.                                                        *)
THEOREM CrashesOnlyAfterRelease == Spec => []CrashOnlyAfterRelease
<1>1. Init => CInv
  BY InitCInv
<1>2. CInv => CrashOnlyAfterRelease
  BY DEF CInv
<1>3. QED
  BY <1>1, <1>2, NextCInv, PTL DEF Spec

-----------------------------------------------------------------------------
(* Type correctness.                                                       *)

(* TypeOK is not inductive: its bounds on handled, on the pages in        *)
(* resident and in hpage, on uiPage and on the saved terminal settings    *)
(* each rest on a fact about a state that came earlier.                    *)

(* Whether the worker holds a popped text ProcessDocument has not        *)
(* finished.                                                               *)
InFlight == IF wpc \in {"none", "loop"} THEN 0 ELSE 1

(* Every text Ingest pushed is in the ring, held by the worker, or        *)
(* handled: none is lost or processed twice.                               *)
QueueConserved == queued = handled + Len(queue) + InFlight

(* The text the worker holds is one the clipboard fiber ingested, and it  *)
(* reaches GetTermID only when it has terms.                               *)
WorkerHoldsDoc ==
  /\ wpc \notin {"none", "loop"} => wdoc \in Docs
  /\ wpc = "vocab" => wdoc \notin EmptyDocs

(* vector_count counts only documents the worker handled. *)
CountWithinHandled == header.count <= handled

(* Update touches ghost_offset only below the bound on its touches. *)
UITouchBelowBound == mainPc = "touch" => uiPage < MaxUITouch

(* A thread in the fault handler faulted on a page of the reservation. *)
FaultPagesTouched == \A t \in Threads : hpc[t] # "none" => hpage[t] \in Pages

(* Raw mode is entered once, by SystemMonitor::initialize after boot, so  *)
(* m_orig_termios never saves the raw settings.                           *)
RawAfterStart == tty = "raw" => mainPc # "boot"

(* TypeOK in four groups, after the variables they type: the control     *)
(* state of the threads and the process, the ingest counters, the        *)
(* worker's document, and the arena.                                       *)
TyCtl ==
  /\ gRunning \in BOOLEAN
  /\ puRunning \in BOOLEAN
  /\ tuiRunning \in BOOLEAN
  /\ proc \in {"running", "exiting", "released", "exited"}
  /\ exitThread \in Threads
  /\ mainPc \in {"boot", "loop", "count", "touch", "exit"}
  /\ wpc \in {"none", "loop", "tokenize", "vocab", "offset", "write",
              "write2", "commit", "count"}
  /\ tty \in {"user", "raw", "zero"}
  /\ origTermios \in {"user", "zero"}

TyQueue ==
  /\ uiPage \in 0 .. MaxUITouch
  /\ queue \in Seq(Docs) /\ Len(queue) < QueueCapacity
  /\ ingested \in 0 .. MaxIngest
  /\ queued \in 0 .. ingested
  /\ handled \in 0 .. queued

TyWorker ==
  /\ wdoc \in Docs \cup {NoDoc}
  /\ woff \in Nat
  /\ written \subseteq Nat
  /\ vocab \subseteq Docs \ EmptyDocs

TyArena ==
  /\ header \in [magic : BOOLEAN, count : Nat, head : Nat]
  /\ resident \subseteq Pages
  /\ hpc \in [Threads -> {"none", "handler", "count"}]
  /\ hpage \in [Threads -> Pages \cup {NoPage}]

TInv ==
  /\ TyCtl
  /\ TyQueue
  /\ TyWorker
  /\ TyArena
  /\ QueueConserved
  /\ WorkerHoldsDoc
  /\ CountWithinHandled
  /\ UITouchBelowBound
  /\ FaultPagesTouched
  /\ RawAfterStart

LEMMA TypeGroups == TypeOK <=> TyCtl /\ TyQueue /\ TyWorker /\ TyArena
BY DEF TypeOK, TyCtl, TyQueue, TyWorker, TyArena

(* The worker's writes fall on pages of the reservation: the record it    *)
(* writes is number vector_count, below the number of texts ingested.     *)
LEMMA WorkerPagesTouched ==
  ASSUME IInv, TInv, wpc \in {"write", "write2"}
  PROVE  /\ PageOf(woff) \in Pages
         /\ PageOf(woff + RecordSize - 1) \in Pages
<1>1. woff = RecordOffset(header.count) /\ header.count \in Nat
  BY DEF IInv, WorkerAtNextRecord, HeaderTyped
<1>2. header.count \in 0 .. MaxIngest - 1
  <2>1. queue \in Seq(Docs) /\ Len(queue) \in Nat
    BY DEF TInv, TyQueue
  <2>2. QED
    BY <1>1, <2>1, RuntimeConstants
    DEF TInv, TyQueue, QueueConserved, InFlight, CountWithinHandled
<1>3. QED
  BY <1>1, <1>2, TouchedPages

(* A fault on a page of the reservation keeps the invariant. *)
LEMMA FaultTInv ==
  ASSUME TInv, NEW t \in Threads, NEW p \in Pages, RaiseFault(t, p),
         UNCHANGED rtVars
  PROVE  TInv'
<1>0. /\ TyCtl /\ TyQueue /\ TyWorker /\ TyArena /\ QueueConserved
      /\ WorkerHoldsDoc /\ CountWithinHandled /\ UITouchBelowBound
      /\ FaultPagesTouched /\ RawAfterStart
  BY DEF TInv
<1>u. UNCHANGED <<gRunning, puRunning, tuiRunning, proc, exitThread, mainPc,
                wpc, tty, origTermios, uiPage, queue, ingested, queued,
                handled, wdoc, woff, written, vocab, header, resident>>
  BY DEF RaiseFault, rtVars, mainVars, exitVars, workerVars, arenaVars
<1>f. (TyCtl /\ TyQueue /\ TyWorker /\
       QueueConserved /\ WorkerHoldsDoc /\ CountWithinHandled /\
       UITouchBelowBound /\ RawAfterStart)'
  BY <1>0, <1>u DEF TyCtl, TyQueue, TyWorker, QueueConserved, InFlight,
                    WorkerHoldsDoc, CountWithinHandled, UITouchBelowBound,
                    RawAfterStart
<1>1. TyArena'
  BY <1>0, <1>u
  DEF TyArena, RaiseFault
<1>2. FaultPagesTouched'
  BY <1>0, <1>u
  DEF FaultPagesTouched, RaiseFault, TyArena
<1>q. QED
  BY <1>f, <1>1, <1>2 DEF TInv

(* A step that changes none of the invariant's variables keeps it. *)
LEMMA UnchangedTInv ==
  ASSUME TInv, UNCHANGED <<gRunning, puRunning, tuiRunning, proc, exitThread, mainPc, wpc, tty,
                          origTermios, uiPage, queue, ingested, queued, handled, wdoc, woff,
                          written, vocab, header, resident, hpc, hpage>>
  PROVE  TInv'
BY DEF TInv, TyCtl, TyQueue, TyWorker, TyArena, QueueConserved,
   WorkerHoldsDoc, CountWithinHandled, UITouchBelowBound, FaultPagesTouched, RawAfterStart, InFlight

LEMMA InitTInv == Init => TInv
<1> SUFFICES ASSUME Init PROVE TInv
  OBVIOUS
<1>1. queue \in Seq(Docs) /\ Len(queue) = 0
  BY DEF Init
<1>2. header \in [magic : BOOLEAN, count : Nat, head : Nat] /\ header.count = 0
  BY DEF Init, ArenaInit, Header
<1>3. /\ hpc = [t \in Threads |-> "none"]
      /\ hpc \in [Threads -> {"none", "handler", "count"}]
      /\ hpage \in [Threads -> Pages \cup {NoPage}]
  BY ArenaConstants DEF Init, ArenaInit
<1>4. /\ gRunning \in BOOLEAN /\ puRunning \in BOOLEAN
      /\ tuiRunning \in BOOLEAN
      /\ proc \in {"running", "exiting", "released", "exited"}
      /\ exitThread \in Threads
      /\ mainPc = "boot" /\ wpc = "none" /\ tty = "user"
      /\ origTermios \in {"user", "zero"}
      /\ uiPage = 0 /\ ingested = 0 /\ queued = 0 /\ handled = 0
      /\ woff = 0 /\ wdoc = NoDoc /\ written = {} /\ resident = {}
      /\ vocab = {}
  BY ArenaConstants DEF Init, ArenaInit
<1>5. TyCtl /\ TyQueue /\ TyWorker /\ TyArena
  BY <1>1, <1>2, <1>3, <1>4, RuntimeConstants
  DEF TyCtl, TyQueue, TyWorker, TyArena
<1>6. QED
  BY <1>1, <1>2, <1>3, <1>4, <1>5
  DEF TInv, QueueConserved, InFlight, WorkerHoldsDoc, CountWithinHandled,
      UITouchBelowBound, FaultPagesTouched, RawAfterStart

(* Main's arena start-up: initialize, the header, the self-test. *)
LEMMA BootTInv ==
  ASSUME TInv, Boot
  PROVE  TInv'
<1>0. /\ TyCtl /\ TyQueue /\ TyWorker /\ TyArena /\ QueueConserved
      /\ WorkerHoldsDoc /\ CountWithinHandled /\ UITouchBelowBound
      /\ FaultPagesTouched /\ RawAfterStart
  BY DEF TInv
<1>r. UNCHANGED rtVars
  BY DEF Boot
<1>1. CASE Initialize \/ (SelfTest /\ Accessible(SelfTestPage))
  <2>u. UNCHANGED <<gRunning, puRunning, tuiRunning, proc, exitThread, mainPc,
                  wpc, tty, origTermios, uiPage, queue, ingested, queued,
                  handled, wdoc, woff, written, vocab, header, resident, hpc,
                  hpage>>
    BY <1>r, <1>1 DEF Initialize, SelfTest, rtVars, mainVars, exitVars, workerVars, arenaVars
  <2>f. (TyCtl /\ TyQueue /\ TyWorker /\
         TyArena /\ QueueConserved /\ WorkerHoldsDoc /\
         CountWithinHandled /\ UITouchBelowBound /\ FaultPagesTouched /\
         RawAfterStart)'
    BY <1>0, <2>u DEF TyCtl, TyQueue, TyWorker, TyArena,
                      QueueConserved, InFlight, WorkerHoldsDoc,
                      CountWithinHandled, UITouchBelowBound,
                      FaultPagesTouched, RawAfterStart
  <2>q. QED
    BY <2>f DEF TInv
<1>2. CASE InitializeHeader /\ Accessible(HeaderPage)
  <2>h. header' \in [magic : BOOLEAN, count : Nat, head : Nat]
        /\ header'.count <= header.count
    <3>1. CASE header.magic
      BY <1>0, <1>2, <3>1 DEF InitializeHeader, TyArena
    <3>2. CASE ~header.magic
      <4>1. header' = [magic |-> TRUE, count |-> 0, head |-> HeaderBytes]
        BY <1>2, <3>2 DEF InitializeHeader, Header
      <4>2. QED
        BY <1>0, <4>1, ArenaConstants DEF TyArena
    <3>3. QED
      BY <3>1, <3>2
  <2>u. UNCHANGED <<gRunning, puRunning, tuiRunning, proc, exitThread, mainPc,
                  wpc, tty, origTermios, uiPage, queue, ingested, queued,
                  handled, wdoc, woff, written, vocab, resident, hpc, hpage>>
    BY <1>r, <1>2 DEF InitializeHeader, rtVars, mainVars, exitVars, workerVars, arenaVars
  <2>f. (TyCtl /\ TyQueue /\ TyWorker /\
         QueueConserved /\ WorkerHoldsDoc /\ UITouchBelowBound /\
         FaultPagesTouched /\ RawAfterStart)'
    BY <1>0, <2>u DEF TyCtl, TyQueue, TyWorker, QueueConserved, InFlight,
                      WorkerHoldsDoc, UITouchBelowBound, FaultPagesTouched,
                      RawAfterStart
  <2>1. TyArena'
    BY <1>0, <2>u, <2>h
    DEF TyArena
  <2>2. CountWithinHandled'
    BY <1>0, <2>u, <2>h
    DEF CountWithinHandled, TyArena, TyQueue
  <2>q. QED
    BY <2>f, <2>1, <2>2 DEF TInv
<1>3. CASE InitializeHeader /\ ~Accessible(HeaderPage)
  <2>1. RaiseFault(Main, HeaderPage) /\ UNCHANGED rtVars
    BY <1>r, <1>3 DEF InitializeHeader
  <2>2. HeaderPage \in Pages
    BY ArenaConstants
  <2>3. QED
    BY <2>1, <2>2, FaultTInv, ArenaConstants, RuntimeConstants
<1>4. CASE SelfTest /\ ~Accessible(SelfTestPage)
  <2>1. RaiseFault(Main, SelfTestPage) /\ UNCHANGED rtVars
    BY <1>r, <1>4 DEF SelfTest
  <2>2. SelfTestPage \in Pages
    BY ArenaConstants
  <2>3. QED
    BY <2>1, <2>2, FaultTInv, ArenaConstants, RuntimeConstants
<1>5. QED
  BY <1>1, <1>2, <1>3, <1>4 DEF Boot

(* main returns 1 after a failed initialize(). *)
LEMMA BootFailedTInv ==
  ASSUME TInv, BootFailed
  PROVE  TInv'
<1>0. /\ TyCtl /\ TyQueue /\ TyWorker /\ TyArena /\ QueueConserved
      /\ WorkerHoldsDoc /\ CountWithinHandled /\ UITouchBelowBound
      /\ FaultPagesTouched /\ RawAfterStart
  BY DEF TInv
<1>u. UNCHANGED <<gRunning, puRunning, tuiRunning, exitThread, wpc, tty,
                origTermios, uiPage, queue, ingested, queued, handled, wdoc,
                woff, written, vocab, header, resident, hpc, hpage>>
  BY DEF BootFailed, rtVars, mainVars, exitVars, workerVars, arenaVars
<1>e1. proc' = "exiting" /\ mainPc' = "exit"
  BY DEF BootFailed
<1>f. (TyQueue /\ TyWorker /\ TyArena /\
       QueueConserved /\ WorkerHoldsDoc /\ CountWithinHandled /\
       FaultPagesTouched)'
  BY <1>0, <1>u DEF TyQueue, TyWorker, TyArena, QueueConserved, InFlight,
                    WorkerHoldsDoc, CountWithinHandled, FaultPagesTouched
<1>1. TyCtl'
  BY <1>0, <1>u, <1>e1
  DEF TyCtl
<1>2. UITouchBelowBound'
  BY <1>0, <1>u, <1>e1
  DEF UITouchBelowBound
<1>3. RawAfterStart'
  BY <1>0, <1>u, <1>e1
  DEF RawAfterStart
<1>q. QED
  BY <1>f, <1>1, <1>2, <1>3 DEF TInv

(* SystemMonitor::initialize saves the user's terminal, not raw mode, and *)
(* the worker starts with no text in flight.                              *)
LEMMA StartTInv ==
  ASSUME IInv, TInv, StartRuntime
  PROVE  TInv'
<1>0. /\ TyCtl /\ TyQueue /\ TyWorker /\ TyArena /\ QueueConserved
      /\ WorkerHoldsDoc /\ CountWithinHandled /\ UITouchBelowBound
      /\ FaultPagesTouched /\ RawAfterStart
  BY DEF TInv
<1>p. mainPc = "boot" /\ wpc = "none" /\ tty # "raw"
  BY <1>0 DEF StartRuntime, IInv, HeaderBeforeWorker, RawAfterStart
<1>u. UNCHANGED <<gRunning, proc, exitThread, uiPage, queue, ingested, queued,
                handled, wdoc, woff, written, vocab, header, resident, hpc,
                hpage>>
  BY DEF StartRuntime, TUIInitialize, EnableRawMode, rtVars, mainVars, exitVars, workerVars, arenaVars
<1>e1. /\ origTermios' = tty /\ tty' = "raw" /\ tuiRunning' = TRUE
       /\ puRunning' = TRUE /\ wpc' = "loop" /\ mainPc' = "loop"
  BY DEF StartRuntime, TUIInitialize, EnableRawMode
<1>f. (TyQueue /\ TyWorker /\ TyArena /\
       CountWithinHandled /\ FaultPagesTouched)'
  BY <1>0, <1>u DEF TyQueue, TyWorker, TyArena, CountWithinHandled,
                    FaultPagesTouched
<1>1. TyCtl'
  BY <1>0, <1>u, <1>e1, <1>p
  DEF TyCtl
<1>2. QueueConserved'
  BY <1>0, <1>u, <1>e1, <1>p
  DEF QueueConserved, InFlight
<1>3. WorkerHoldsDoc'
  BY <1>0, <1>u, <1>e1
  DEF WorkerHoldsDoc
<1>4. UITouchBelowBound'
  BY <1>0, <1>u, <1>e1
  DEF UITouchBelowBound
<1>5. RawAfterStart'
  BY <1>0, <1>u, <1>e1
  DEF RawAfterStart
<1>q. QED
  BY <1>f, <1>1, <1>2, <1>3, <1>4, <1>5 DEF TInv

(* Ingest pushes into the ring when it has room and drops the text      *)
(* otherwise: queued counts exactly the texts pushed.                   *)
LEMMA IngestTInv ==
  ASSUME TInv, NEW d \in Docs, Ingest(d)
  PROVE  TInv'
<1>0. /\ TyCtl /\ TyQueue /\ TyWorker /\ TyArena /\ QueueConserved
      /\ WorkerHoldsDoc /\ CountWithinHandled /\ UITouchBelowBound
      /\ FaultPagesTouched /\ RawAfterStart
  BY DEF TInv
<1>1. CASE Len(queue) < QueueCapacity - 1
  <2>u. UNCHANGED <<gRunning, puRunning, tuiRunning, proc, exitThread, mainPc,
                  wpc, tty, origTermios, uiPage, handled, wdoc, woff, written,
                  vocab, header, resident, hpc, hpage>>
    BY <1>1 DEF Ingest, rtVars, mainVars, exitVars, workerVars, arenaVars
  <2>e1. /\ ingested' = ingested + 1 /\ ingested < MaxIngest
         /\ queue' = Append(queue, d) /\ queued' = queued + 1
    BY <1>1 DEF Ingest, Q!Push
  <2>e2. queue' \in Seq(Docs) /\ Len(queue') = Len(queue) + 1 /\ Len(queue') < QueueCapacity
    BY <1>0, <1>1, <2>e1, RuntimeConstants DEF TyQueue
  <2>f. (TyCtl /\ TyWorker /\ TyArena /\
         WorkerHoldsDoc /\ CountWithinHandled /\ UITouchBelowBound /\
         FaultPagesTouched /\ RawAfterStart)'
    BY <1>0, <2>u DEF TyCtl, TyWorker, TyArena, WorkerHoldsDoc,
                      CountWithinHandled, UITouchBelowBound,
                      FaultPagesTouched, RawAfterStart
  <2>1. TyQueue'
    BY <1>0, <2>u, <2>e1, <2>e2, RuntimeConstants
    DEF TyQueue
  <2>2. QueueConserved'
    BY <1>0, <2>u, <2>e1, <2>e2
    DEF QueueConserved, InFlight, TyQueue
  <2>q. QED
    BY <2>f, <2>1, <2>2 DEF TInv
<1>2. CASE ~(Len(queue) < QueueCapacity - 1)
  <2>u. UNCHANGED <<gRunning, puRunning, tuiRunning, proc, exitThread, mainPc,
                  wpc, tty, origTermios, uiPage, queue, queued, handled, wdoc,
                  woff, written, vocab, header, resident, hpc, hpage>>
    BY <1>2 DEF Ingest, rtVars, mainVars, exitVars, workerVars, arenaVars
  <2>e1. ingested' = ingested + 1 /\ ingested < MaxIngest
    BY <1>2 DEF Ingest
  <2>f. (TyCtl /\ TyWorker /\ TyArena /\
         QueueConserved /\ WorkerHoldsDoc /\ CountWithinHandled /\
         UITouchBelowBound /\ FaultPagesTouched /\ RawAfterStart)'
    BY <1>0, <2>u DEF TyCtl, TyWorker, TyArena, QueueConserved, InFlight,
                      WorkerHoldsDoc, CountWithinHandled, UITouchBelowBound,
                      FaultPagesTouched, RawAfterStart
  <2>1. TyQueue'
    BY <1>0, <2>u, <2>e1, RuntimeConstants
    DEF TyQueue
  <2>q. QED
    BY <2>f, <2>1 DEF TInv
<1>3. QED
  BY <1>1, <1>2

(* The UI fiber's iteration reads 'q' or not. *)
LEMMA UpdateBeginTInv ==
  ASSUME TInv, UpdateBegin
  PROVE  TInv'
<1>0. /\ TyCtl /\ TyQueue /\ TyWorker /\ TyArena /\ QueueConserved
      /\ WorkerHoldsDoc /\ CountWithinHandled /\ UITouchBelowBound
      /\ FaultPagesTouched /\ RawAfterStart
  BY DEF TInv
<1>u. UNCHANGED <<puRunning, tuiRunning, proc, exitThread, wpc, tty,
                origTermios, uiPage, queue, ingested, queued, handled, wdoc,
                woff, written, vocab, header, resident, hpc, hpage>>
  BY DEF UpdateBegin, rtVars, mainVars, exitVars, workerVars, arenaVars
<1>e1. gRunning' \in BOOLEAN /\ mainPc' = "count"
  BY DEF UpdateBegin
<1>f. (TyQueue /\ TyWorker /\ TyArena /\
       QueueConserved /\ WorkerHoldsDoc /\ CountWithinHandled /\
       FaultPagesTouched)'
  BY <1>0, <1>u DEF TyQueue, TyWorker, TyArena, QueueConserved, InFlight,
                    WorkerHoldsDoc, CountWithinHandled, FaultPagesTouched
<1>1. TyCtl'
  BY <1>0, <1>u, <1>e1
  DEF TyCtl
<1>2. UITouchBelowBound'
  BY <1>0, <1>u, <1>e1
  DEF UITouchBelowBound
<1>3. RawAfterStart'
  BY <1>0, <1>u, <1>e1
  DEF RawAfterStart
<1>q. QED
  BY <1>f, <1>1, <1>2, <1>3 DEF TInv

(* The UI reads vector_count, and decides to touch below the bound. *)
LEMMA UpdateReadCountTInv ==
  ASSUME TInv, UpdateReadCount
  PROVE  TInv'
<1>0. /\ TyCtl /\ TyQueue /\ TyWorker /\ TyArena /\ QueueConserved
      /\ WorkerHoldsDoc /\ CountWithinHandled /\ UITouchBelowBound
      /\ FaultPagesTouched /\ RawAfterStart
  BY DEF TInv
<1>a. CASE Accessible(HeaderPage)
  <2>u. UNCHANGED <<gRunning, puRunning, tuiRunning, proc, exitThread, wpc, tty,
                  origTermios, uiPage, queue, ingested, queued, handled, wdoc,
                  woff, written, vocab, header, resident, hpc, hpage>>
    BY <1>a DEF UpdateReadCount, Touch, rtVars, mainVars, exitVars, workerVars, arenaVars
  <2>e1. /\ mainPc = "count" /\ mainPc' \in {"touch", "loop"}
         /\ mainPc' = "touch" => uiPage < MaxUITouch
    BY <1>a DEF UpdateReadCount, Touch
  <2>f. (TyQueue /\ TyWorker /\ TyArena /\
         QueueConserved /\ WorkerHoldsDoc /\ CountWithinHandled /\
         FaultPagesTouched)'
    BY <1>0, <2>u DEF TyQueue, TyWorker, TyArena, QueueConserved, InFlight,
                      WorkerHoldsDoc, CountWithinHandled, FaultPagesTouched
  <2>1. TyCtl'
    BY <1>0, <2>u, <2>e1
    DEF TyCtl
  <2>2. UITouchBelowBound'
    BY <1>0, <2>u, <2>e1
    DEF UITouchBelowBound
  <2>3. RawAfterStart'
    BY <1>0, <2>u, <2>e1
    DEF RawAfterStart
  <2>q. QED
    BY <2>f, <2>1, <2>2, <2>3 DEF TInv
<1>b. CASE ~Accessible(HeaderPage)
  <2>1. RaiseFault(Main, HeaderPage) /\ UNCHANGED rtVars
    BY <1>b DEF UpdateReadCount, Touch
  <2>2. HeaderPage \in Pages
    BY ArenaConstants
  <2>3. QED
    BY <2>1, <2>2, FaultTInv, ArenaConstants, RuntimeConstants
<1>c. QED
  BY <1>a, <1>b

(* The UI touches ghost_offset, one of the pages the run reaches. *)
LEMMA UpdateTouchTInv ==
  ASSUME TInv, UpdateTouch
  PROVE  TInv'
<1>0. /\ TyCtl /\ TyQueue /\ TyWorker /\ TyArena /\ QueueConserved
      /\ WorkerHoldsDoc /\ CountWithinHandled /\ UITouchBelowBound
      /\ FaultPagesTouched /\ RawAfterStart
  BY DEF TInv
<1>p. mainPc = "touch" /\ uiPage \in 0 .. MaxUITouch - 1
  BY <1>0, RuntimeConstants DEF UpdateTouch, UITouchBelowBound, TyQueue
<1>a. CASE Accessible(UIPage(uiPage))
  <2>u. UNCHANGED <<gRunning, puRunning, tuiRunning, proc, exitThread, wpc, tty,
                  origTermios, queue, ingested, queued, handled, wdoc, woff,
                  written, vocab, header, resident, hpc, hpage>>
    BY <1>a DEF UpdateTouch, Touch, rtVars, mainVars, exitVars, workerVars, arenaVars
  <2>e1. uiPage' = uiPage + 1 /\ mainPc' = "loop"
    BY <1>a DEF UpdateTouch, Touch
  <2>f. (TyWorker /\ TyArena /\ QueueConserved /\
         WorkerHoldsDoc /\ CountWithinHandled /\ FaultPagesTouched)'
    BY <1>0, <2>u DEF TyWorker, TyArena, QueueConserved, InFlight,
                      WorkerHoldsDoc, CountWithinHandled, FaultPagesTouched
  <2>1. TyCtl'
    BY <1>0, <2>u, <2>e1
    DEF TyCtl
  <2>2. TyQueue'
    BY <1>0, <2>u, <2>e1, <1>p, RuntimeConstants
    DEF TyQueue
  <2>3. UITouchBelowBound'
    BY <1>0, <2>u, <2>e1
    DEF UITouchBelowBound
  <2>4. RawAfterStart'
    BY <1>0, <2>u, <2>e1
    DEF RawAfterStart
  <2>q. QED
    BY <2>f, <2>1, <2>2, <2>3, <2>4 DEF TInv
<1>b. CASE ~Accessible(UIPage(uiPage))
  <2>1. RaiseFault(Main, UIPage(uiPage)) /\ UNCHANGED rtVars
    BY <1>b DEF UpdateTouch, Touch
  <2>2. UIPage(uiPage) \in Pages
    BY <1>p, TouchedPages
  <2>3. QED
    BY <2>1, <2>2, FaultTInv, ArenaConstants, RuntimeConstants
<1>c. QED
  BY <1>a, <1>b

(* signal_handler restores m_orig_termios, never raw mode. *)
LEMMA SigIntTInv ==
  ASSUME TInv, NEW t \in Threads, SigInt(t)
  PROVE  TInv'
<1>0. /\ TyCtl /\ TyQueue /\ TyWorker /\ TyArena /\ QueueConserved
      /\ WorkerHoldsDoc /\ CountWithinHandled /\ UITouchBelowBound
      /\ FaultPagesTouched /\ RawAfterStart
  BY DEF TInv
<1>u. UNCHANGED <<puRunning, mainPc, wpc, origTermios, uiPage, queue,
                ingested, queued, handled, wdoc, woff, written, vocab,
                header, resident, hpc, hpage>>
  BY DEF SigInt, TUIShutdown, DisableRawMode, rtVars, mainVars, exitVars, workerVars, arenaVars
<1>e1. /\ gRunning' = FALSE /\ tuiRunning' = FALSE /\ tty' = origTermios
       /\ proc' = "exiting" /\ exitThread' = t
  BY DEF SigInt, TUIShutdown, DisableRawMode
<1>f. (TyQueue /\ TyWorker /\ TyArena /\
       QueueConserved /\ WorkerHoldsDoc /\ CountWithinHandled /\
       UITouchBelowBound /\ FaultPagesTouched)'
  BY <1>0, <1>u DEF TyQueue, TyWorker, TyArena, QueueConserved, InFlight,
                    WorkerHoldsDoc, CountWithinHandled, UITouchBelowBound,
                    FaultPagesTouched
<1>1. TyCtl'
  BY <1>0, <1>u, <1>e1
  DEF TyCtl
<1>2. RawAfterStart'
  BY <1>0, <1>u, <1>e1
  DEF RawAfterStart, TyCtl
<1>q. QED
  BY <1>f, <1>1, <1>2 DEF TInv

(* handle_fault makes the faulting page resident; the handler returns. *)
LEMMA HandlerTInv ==
  ASSUME TInv, NEW t \in Threads, Handler(t)
  PROVE  TInv'
<1>0. /\ TyCtl /\ TyQueue /\ TyWorker /\ TyArena /\ QueueConserved
      /\ WorkerHoldsDoc /\ CountWithinHandled /\ UITouchBelowBound
      /\ FaultPagesTouched /\ RawAfterStart
  BY DEF TInv
<1>1. CASE HandleFault(t)
  <2>u. UNCHANGED <<gRunning, puRunning, tuiRunning, proc, exitThread, mainPc,
                  wpc, tty, origTermios, uiPage, queue, ingested, queued,
                  handled, wdoc, woff, written, vocab, header, hpage>>
    BY <1>1 DEF Handler, HandleFault, rtVars, mainVars, exitVars, workerVars, arenaVars
  <2>e1. hpc[t] = "handler" /\ hpage[t] \in Pages
    BY <1>0, <1>1 DEF HandleFault, FaultPagesTouched
  <2>e2. \/ resident' = resident \cup {hpage[t]} /\ hpc' = [hpc EXCEPT ![t] = "count"]
         \/ resident' = resident /\ hpc' = hpc
    BY <1>1 DEF HandleFault
  <2>f. (TyCtl /\ TyQueue /\ TyWorker /\
         QueueConserved /\ WorkerHoldsDoc /\ CountWithinHandled /\
         UITouchBelowBound /\ RawAfterStart)'
    BY <1>0, <2>u DEF TyCtl, TyQueue, TyWorker, QueueConserved, InFlight,
                      WorkerHoldsDoc, CountWithinHandled, UITouchBelowBound,
                      RawAfterStart
  <2>1. TyArena'
    BY <1>0, <2>u, <2>e1, <2>e2
    DEF TyArena
  <2>2. FaultPagesTouched'
    BY <1>0, <2>u, <2>e1, <2>e2
    DEF FaultPagesTouched, TyArena
  <2>q. QED
    BY <2>f, <2>1, <2>2 DEF TInv
<1>2. CASE CountFault(t)
  <2>u. UNCHANGED <<gRunning, puRunning, tuiRunning, proc, exitThread, mainPc,
                  wpc, tty, origTermios, uiPage, queue, ingested, queued,
                  handled, wdoc, woff, written, vocab, header, resident>>
    BY <1>2 DEF Handler, CountFault, rtVars, mainVars, exitVars, workerVars, arenaVars
  <2>e1. hpc' = [hpc EXCEPT ![t] = "none"] /\ hpage' = [hpage EXCEPT ![t] = NoPage]
    BY <1>2 DEF CountFault
  <2>f. (TyCtl /\ TyQueue /\ TyWorker /\
         QueueConserved /\ WorkerHoldsDoc /\ CountWithinHandled /\
         UITouchBelowBound /\ RawAfterStart)'
    BY <1>0, <2>u DEF TyCtl, TyQueue, TyWorker, QueueConserved, InFlight,
                      WorkerHoldsDoc, CountWithinHandled, UITouchBelowBound,
                      RawAfterStart
  <2>1. TyArena'
    BY <1>0, <2>u, <2>e1
    DEF TyArena
  <2>2. FaultPagesTouched'
    BY <1>0, <2>u, <2>e1
    DEF FaultPagesTouched, TyArena
  <2>q. QED
    BY <2>f, <2>1, <2>2 DEF TInv
<1>3. QED
  BY <1>1, <1>2 DEF Handler

(* exit's destructors: ~SystemMonitor restores the terminal if it runs, *)
(* ~MemoryManager unmaps the arena.                                     *)
LEMMA ExitReleaseTInv ==
  ASSUME TInv, ExitRelease
  PROVE  TInv'
<1>0. /\ TyCtl /\ TyQueue /\ TyWorker /\ TyArena /\ QueueConserved
      /\ WorkerHoldsDoc /\ CountWithinHandled /\ UITouchBelowBound
      /\ FaultPagesTouched /\ RawAfterStart
  BY DEF TInv
<1>u. UNCHANGED <<gRunning, puRunning, exitThread, mainPc, wpc, uiPage, queue,
                ingested, queued, handled, wdoc, woff, written, vocab,
                header, hpc, hpage>>
  BY DEF ExitRelease, TUIDestroy, TUIShutdown, DisableRawMode, Shutdown, rtVars, mainVars, exitVars, workerVars, arenaVars
<1>e1. proc' = "released" /\ resident' \subseteq resident
  BY DEF ExitRelease, Shutdown, arenaVars
<1>e2. \/ tty' = origTermios /\ origTermios' = origTermios /\ tuiRunning' = FALSE
       \/ UNCHANGED <<tty, origTermios, tuiRunning>>
  BY DEF ExitRelease, TUIDestroy, TUIShutdown, DisableRawMode
<1>f. (TyQueue /\ TyWorker /\ QueueConserved /\
       WorkerHoldsDoc /\ CountWithinHandled /\ UITouchBelowBound /\
       FaultPagesTouched)'
  BY <1>0, <1>u DEF TyQueue, TyWorker, QueueConserved, InFlight,
                    WorkerHoldsDoc, CountWithinHandled, UITouchBelowBound,
                    FaultPagesTouched
<1>1. TyCtl'
  BY <1>0, <1>u, <1>e1, <1>e2
  DEF TyCtl
<1>2. TyArena'
  BY <1>0, <1>u, <1>e1, <1>e2
  DEF TyArena
<1>3. RawAfterStart'
  BY <1>0, <1>u, <1>e1, <1>e2
  DEF RawAfterStart, TyCtl
<1>q. QED
  BY <1>f, <1>1, <1>2, <1>3 DEF TInv

(* The process ends. *)
LEMMA ExitEndTInv ==
  ASSUME TInv, ExitEnd
  PROVE  TInv'
<1>0. /\ TyCtl /\ TyQueue /\ TyWorker /\ TyArena /\ QueueConserved
      /\ WorkerHoldsDoc /\ CountWithinHandled /\ UITouchBelowBound
      /\ FaultPagesTouched /\ RawAfterStart
  BY DEF TInv
<1>u. UNCHANGED <<gRunning, puRunning, tuiRunning, exitThread, mainPc, wpc,
                tty, origTermios, uiPage, queue, ingested, queued, handled,
                wdoc, woff, written, vocab, header, resident, hpc, hpage>>
  BY DEF ExitEnd, rtVars, mainVars, exitVars, workerVars, arenaVars
<1>e1. proc' = "exited"
  BY DEF ExitEnd
<1>f. (TyQueue /\ TyWorker /\ TyArena /\
       QueueConserved /\ WorkerHoldsDoc /\ CountWithinHandled /\
       UITouchBelowBound /\ FaultPagesTouched /\ RawAfterStart)'
  BY <1>0, <1>u DEF TyQueue, TyWorker, TyArena, QueueConserved, InFlight,
                    WorkerHoldsDoc, CountWithinHandled, UITouchBelowBound,
                    FaultPagesTouched, RawAfterStart
<1>1. TyCtl'
  BY <1>0, <1>u, <1>e1
  DEF TyCtl
<1>q. QED
  BY <1>f, <1>1 DEF TInv

(* The worker pops the oldest text: it leaves the ring and is in flight. *)
LEMMA WorkerPopTInv ==
  ASSUME TInv, WorkerPop
  PROVE  TInv'
<1>0. /\ TyCtl /\ TyQueue /\ TyWorker /\ TyArena /\ QueueConserved
      /\ WorkerHoldsDoc /\ CountWithinHandled /\ UITouchBelowBound
      /\ FaultPagesTouched /\ RawAfterStart
  BY DEF TInv
<1>u. UNCHANGED <<gRunning, puRunning, tuiRunning, proc, exitThread, mainPc,
                tty, origTermios, uiPage, ingested, queued, handled, woff,
                written, vocab, header, resident, hpc, hpage>>
  BY DEF WorkerPop, rtVars, mainVars, exitVars, workerVars, arenaVars
<1>e1. /\ wpc = "loop" /\ wpc' = "tokenize" /\ queue # << >>
       /\ wdoc' = Head(queue) /\ queue' = Tail(queue)
  BY DEF WorkerPop, Q!Pop
<1>e2. /\ Head(queue) \in Docs /\ Tail(queue) \in Seq(Docs)
       /\ Len(Tail(queue)) = Len(queue) - 1 /\ Len(queue) \in Nat \ {0}
  BY <1>0, <1>e1 DEF TyQueue
<1>f. (TyArena /\ CountWithinHandled /\ UITouchBelowBound /\
       FaultPagesTouched /\ RawAfterStart)'
  BY <1>0, <1>u DEF TyArena, CountWithinHandled, UITouchBelowBound,
                    FaultPagesTouched, RawAfterStart
<1>1. TyCtl'
  BY <1>0, <1>u, <1>e1, <1>e2
  DEF TyCtl
<1>2. TyQueue'
  BY <1>0, <1>u, <1>e1, <1>e2, RuntimeConstants
  DEF TyQueue
<1>3. TyWorker'
  BY <1>0, <1>u, <1>e1, <1>e2
  DEF TyWorker
<1>4. QueueConserved'
  BY <1>0, <1>u, <1>e1, <1>e2
  DEF QueueConserved, InFlight, TyQueue
<1>5. WorkerHoldsDoc'
  BY <1>0, <1>u, <1>e1, <1>e2
  DEF WorkerHoldsDoc
<1>q. QED
  BY <1>f, <1>1, <1>2, <1>3, <1>4, <1>5 DEF TInv

(* Tokenize: on to GetTermID, an early return that finishes the text,   *)
(* or on to the arena.                                                   *)
LEMMA WorkerTokenizeTInv ==
  ASSUME TInv, WorkerTokenize
  PROVE  TInv'
<1>0. /\ TyCtl /\ TyQueue /\ TyWorker /\ TyArena /\ QueueConserved
      /\ WorkerHoldsDoc /\ CountWithinHandled /\ UITouchBelowBound
      /\ FaultPagesTouched /\ RawAfterStart
  BY DEF TInv
<1>p. wpc = "tokenize" /\ wdoc \in Docs
  BY <1>0 DEF WorkerTokenize, WorkerHoldsDoc
<1>1. CASE wdoc \notin EmptyDocs /\ wdoc \notin vocab
  <2>u. UNCHANGED <<gRunning, puRunning, tuiRunning, proc, exitThread, mainPc,
                  tty, origTermios, uiPage, queue, ingested, queued, handled,
                  wdoc, woff, written, vocab, header, resident, hpc, hpage>>
    BY <1>1 DEF WorkerTokenize, rtVars, mainVars, exitVars, workerVars, arenaVars
  <2>e1. wpc' = "vocab"
    BY <1>1 DEF WorkerTokenize
  <2>f. (TyQueue /\ TyWorker /\ TyArena /\
         CountWithinHandled /\ UITouchBelowBound /\ FaultPagesTouched /\
         RawAfterStart)'
    BY <1>0, <2>u DEF TyQueue, TyWorker, TyArena, CountWithinHandled,
                      UITouchBelowBound, FaultPagesTouched, RawAfterStart
  <2>1. TyCtl'
    BY <1>0, <2>u, <2>e1
    DEF TyCtl
  <2>2. QueueConserved'
    BY <1>0, <2>u, <2>e1, <1>p
    DEF QueueConserved, InFlight
  <2>3. WorkerHoldsDoc'
    BY <1>0, <2>u, <2>e1, <1>p, <1>1
    DEF WorkerHoldsDoc
  <2>q. QED
    BY <2>f, <2>1, <2>2, <2>3 DEF TInv
<1>2. CASE ~(wdoc \notin EmptyDocs /\ wdoc \notin vocab) /\ (wdoc \in EmptyDocs \/ baseAddr = "null")
  <2>u. UNCHANGED <<gRunning, puRunning, tuiRunning, proc, exitThread, mainPc,
                  tty, origTermios, uiPage, queue, ingested, queued, wdoc,
                  woff, written, vocab, header, resident, hpc, hpage>>
    BY <1>2 DEF WorkerTokenize, Vectorize, rtVars, mainVars, exitVars, workerVars, arenaVars
  <2>e1. wpc' = "loop" /\ handled' = handled + 1
    BY <1>2 DEF WorkerTokenize, Vectorize
  <2>f. (TyWorker /\ TyArena /\ UITouchBelowBound /\
         FaultPagesTouched /\ RawAfterStart)'
    BY <1>0, <2>u DEF TyWorker, TyArena, UITouchBelowBound,
                      FaultPagesTouched, RawAfterStart
  <2>1. TyCtl'
    BY <1>0, <2>u, <2>e1
    DEF TyCtl
  <2>2. TyQueue'
    BY <1>0, <2>u, <2>e1, <1>p, RuntimeConstants
    DEF TyQueue, QueueConserved, InFlight
  <2>3. QueueConserved'
    BY <1>0, <2>u, <2>e1, <1>p
    DEF QueueConserved, InFlight, TyQueue
  <2>4. WorkerHoldsDoc'
    BY <1>0, <2>u, <2>e1
    DEF WorkerHoldsDoc
  <2>5. CountWithinHandled'
    BY <1>0, <2>u, <2>e1
    DEF CountWithinHandled, TyArena, TyQueue
  <2>q. QED
    BY <2>f, <2>1, <2>2, <2>3, <2>4, <2>5 DEF TInv
<1>3. CASE ~(wdoc \notin EmptyDocs /\ wdoc \notin vocab) /\ ~(wdoc \in EmptyDocs \/ baseAddr = "null")
  <2>u. UNCHANGED <<gRunning, puRunning, tuiRunning, proc, exitThread, mainPc,
                  tty, origTermios, uiPage, queue, ingested, queued, handled,
                  wdoc, woff, written, vocab, header, resident, hpc, hpage>>
    BY <1>3 DEF WorkerTokenize, Vectorize, rtVars, mainVars, exitVars, workerVars, arenaVars
  <2>e1. wpc' = "offset"
    BY <1>3 DEF WorkerTokenize, Vectorize
  <2>f. (TyQueue /\ TyWorker /\ TyArena /\
         CountWithinHandled /\ UITouchBelowBound /\ FaultPagesTouched /\
         RawAfterStart)'
    BY <1>0, <2>u DEF TyQueue, TyWorker, TyArena, CountWithinHandled,
                      UITouchBelowBound, FaultPagesTouched, RawAfterStart
  <2>1. TyCtl'
    BY <1>0, <2>u, <2>e1
    DEF TyCtl
  <2>2. QueueConserved'
    BY <1>0, <2>u, <2>e1, <1>p
    DEF QueueConserved, InFlight
  <2>3. WorkerHoldsDoc'
    BY <1>0, <2>u, <2>e1, <1>p
    DEF WorkerHoldsDoc
  <2>q. QED
    BY <2>f, <2>1, <2>2, <2>3 DEF TInv
<1>4. QED
  BY <1>1, <1>2, <1>3

(* GetTermID inserts the terms of a text that has some. *)
LEMMA WorkerInsertTermsTInv ==
  ASSUME TInv, WorkerInsertTerms
  PROVE  TInv'
<1>0. /\ TyCtl /\ TyQueue /\ TyWorker /\ TyArena /\ QueueConserved
      /\ WorkerHoldsDoc /\ CountWithinHandled /\ UITouchBelowBound
      /\ FaultPagesTouched /\ RawAfterStart
  BY DEF TInv
<1>p. wpc = "vocab" /\ wdoc \in Docs \ EmptyDocs /\ vocab' = vocab \cup {wdoc}
  BY <1>0 DEF WorkerInsertTerms, WorkerHoldsDoc
<1>1. CASE wdoc \in EmptyDocs \/ baseAddr = "null"
  <2>u. UNCHANGED <<gRunning, puRunning, tuiRunning, proc, exitThread, mainPc,
                  tty, origTermios, uiPage, queue, ingested, queued, wdoc,
                  woff, written, header, resident, hpc, hpage>>
    BY <1>1 DEF WorkerInsertTerms, Vectorize, rtVars, mainVars, exitVars, workerVars, arenaVars
  <2>e1. wpc' = "loop" /\ handled' = handled + 1
    BY <1>1 DEF WorkerInsertTerms, Vectorize
  <2>f. (TyArena /\ UITouchBelowBound /\ FaultPagesTouched /\
         RawAfterStart)'
    BY <1>0, <2>u DEF TyArena, UITouchBelowBound, FaultPagesTouched,
                      RawAfterStart
  <2>1. TyCtl'
    BY <1>0, <2>u, <2>e1
    DEF TyCtl
  <2>2. TyQueue'
    BY <1>0, <2>u, <2>e1, <1>p, RuntimeConstants
    DEF TyQueue, QueueConserved, InFlight
  <2>3. TyWorker'
    BY <1>0, <2>u, <2>e1, <1>p
    DEF TyWorker
  <2>4. QueueConserved'
    BY <1>0, <2>u, <2>e1, <1>p
    DEF QueueConserved, InFlight, TyQueue
  <2>5. WorkerHoldsDoc'
    BY <1>0, <2>u, <2>e1
    DEF WorkerHoldsDoc
  <2>6. CountWithinHandled'
    BY <1>0, <2>u, <2>e1
    DEF CountWithinHandled, TyArena, TyQueue
  <2>q. QED
    BY <2>f, <2>1, <2>2, <2>3, <2>4, <2>5, <2>6 DEF TInv
<1>2. CASE ~(wdoc \in EmptyDocs \/ baseAddr = "null")
  <2>u. UNCHANGED <<gRunning, puRunning, tuiRunning, proc, exitThread, mainPc,
                  tty, origTermios, uiPage, queue, ingested, queued, handled,
                  wdoc, woff, written, header, resident, hpc, hpage>>
    BY <1>2 DEF WorkerInsertTerms, Vectorize, rtVars, mainVars, exitVars, workerVars, arenaVars
  <2>e1. wpc' = "offset"
    BY <1>2 DEF WorkerInsertTerms, Vectorize
  <2>f. (TyQueue /\ TyArena /\ CountWithinHandled /\
         UITouchBelowBound /\ FaultPagesTouched /\ RawAfterStart)'
    BY <1>0, <2>u DEF TyQueue, TyArena, CountWithinHandled,
                      UITouchBelowBound, FaultPagesTouched, RawAfterStart
  <2>1. TyCtl'
    BY <1>0, <2>u, <2>e1
    DEF TyCtl
  <2>2. TyWorker'
    BY <1>0, <2>u, <2>e1, <1>p
    DEF TyWorker
  <2>3. QueueConserved'
    BY <1>0, <2>u, <2>e1, <1>p
    DEF QueueConserved, InFlight
  <2>4. WorkerHoldsDoc'
    BY <1>0, <2>u, <2>e1, <1>p
    DEF WorkerHoldsDoc
  <2>q. QED
    BY <2>f, <2>1, <2>2, <2>3, <2>4 DEF TInv
<1>3. QED
  BY <1>1, <1>2

(* current_offset = head_offset, on the header page. *)
LEMMA WorkerReadOffsetTInv ==
  ASSUME TInv, WorkerReadOffset
  PROVE  TInv'
<1>0. /\ TyCtl /\ TyQueue /\ TyWorker /\ TyArena /\ QueueConserved
      /\ WorkerHoldsDoc /\ CountWithinHandled /\ UITouchBelowBound
      /\ FaultPagesTouched /\ RawAfterStart
  BY DEF TInv
<1>p. wpc = "offset" /\ wdoc \in Docs
  BY <1>0 DEF WorkerReadOffset, WorkerHoldsDoc
<1>a. CASE Accessible(HeaderPage)
  <2>u. UNCHANGED <<gRunning, puRunning, tuiRunning, proc, exitThread, mainPc,
                  tty, origTermios, uiPage, queue, ingested, queued, handled,
                  wdoc, written, vocab, header, resident, hpc, hpage>>
    BY <1>a DEF WorkerReadOffset, Touch, rtVars, mainVars, exitVars, workerVars, arenaVars
  <2>e1. woff' = header.head /\ wpc' = "write"
    BY <1>a DEF WorkerReadOffset, Touch
  <2>f. (TyQueue /\ TyArena /\ CountWithinHandled /\
         UITouchBelowBound /\ FaultPagesTouched /\ RawAfterStart)'
    BY <1>0, <2>u DEF TyQueue, TyArena, CountWithinHandled,
                      UITouchBelowBound, FaultPagesTouched, RawAfterStart
  <2>1. TyCtl'
    BY <1>0, <2>u, <2>e1
    DEF TyCtl
  <2>2. TyWorker'
    BY <1>0, <2>u, <2>e1
    DEF TyWorker, TyArena
  <2>3. QueueConserved'
    BY <1>0, <2>u, <2>e1, <1>p
    DEF QueueConserved, InFlight
  <2>4. WorkerHoldsDoc'
    BY <1>0, <2>u, <2>e1, <1>p
    DEF WorkerHoldsDoc
  <2>q. QED
    BY <2>f, <2>1, <2>2, <2>3, <2>4 DEF TInv
<1>b. CASE ~Accessible(HeaderPage)
  <2>1. RaiseFault(Worker, HeaderPage) /\ UNCHANGED rtVars
    BY <1>b DEF WorkerReadOffset, Touch
  <2>2. HeaderPage \in Pages
    BY ArenaConstants
  <2>3. QED
    BY <2>1, <2>2, FaultTInv, ArenaConstants, RuntimeConstants
<1>c. QED
  BY <1>a, <1>b

(* The first bytes of the record, on its first page. *)
LEMMA WorkerWriteFirstTInv ==
  ASSUME IInv, TInv, WorkerWriteFirst
  PROVE  TInv'
<1>0. /\ TyCtl /\ TyQueue /\ TyWorker /\ TyArena /\ QueueConserved
      /\ WorkerHoldsDoc /\ CountWithinHandled /\ UITouchBelowBound
      /\ FaultPagesTouched /\ RawAfterStart
  BY DEF TInv
<1>p. wpc = "write" /\ wdoc \in Docs
  BY <1>0 DEF WorkerWriteFirst, WorkerHoldsDoc
<1>a. CASE Accessible(PageOf(woff))
  <2>u. UNCHANGED <<gRunning, puRunning, tuiRunning, proc, exitThread, mainPc,
                  tty, origTermios, uiPage, queue, ingested, queued, handled,
                  wdoc, woff, written, vocab, header, resident, hpc, hpage>>
    BY <1>a DEF WorkerWriteFirst, Touch, rtVars, mainVars, exitVars, workerVars, arenaVars
  <2>e1. wpc' = "write2"
    BY <1>a DEF WorkerWriteFirst, Touch
  <2>f. (TyQueue /\ TyWorker /\ TyArena /\
         CountWithinHandled /\ UITouchBelowBound /\ FaultPagesTouched /\
         RawAfterStart)'
    BY <1>0, <2>u DEF TyQueue, TyWorker, TyArena, CountWithinHandled,
                      UITouchBelowBound, FaultPagesTouched, RawAfterStart
  <2>1. TyCtl'
    BY <1>0, <2>u, <2>e1
    DEF TyCtl
  <2>2. QueueConserved'
    BY <1>0, <2>u, <2>e1, <1>p
    DEF QueueConserved, InFlight
  <2>3. WorkerHoldsDoc'
    BY <1>0, <2>u, <2>e1, <1>p
    DEF WorkerHoldsDoc
  <2>q. QED
    BY <2>f, <2>1, <2>2, <2>3 DEF TInv
<1>b. CASE ~Accessible(PageOf(woff))
  <2>1. RaiseFault(Worker, PageOf(woff)) /\ UNCHANGED rtVars
    BY <1>b DEF WorkerWriteFirst, Touch
  <2>2. PageOf(woff) \in Pages
    BY <1>p, WorkerPagesTouched
  <2>3. QED
    BY <2>1, <2>2, FaultTInv, ArenaConstants, RuntimeConstants
<1>c. QED
  BY <1>a, <1>b

(* The last byte of the record, on its last page. *)
LEMMA WorkerWriteLastTInv ==
  ASSUME IInv, TInv, WorkerWriteLast
  PROVE  TInv'
<1>0. /\ TyCtl /\ TyQueue /\ TyWorker /\ TyArena /\ QueueConserved
      /\ WorkerHoldsDoc /\ CountWithinHandled /\ UITouchBelowBound
      /\ FaultPagesTouched /\ RawAfterStart
  BY DEF TInv
<1>p. wpc = "write2" /\ wdoc \in Docs
  BY <1>0 DEF WorkerWriteLast, WorkerHoldsDoc
<1>a. CASE Accessible(PageOf(woff + RecordSize - 1))
  <2>u. UNCHANGED <<gRunning, puRunning, tuiRunning, proc, exitThread, mainPc,
                  tty, origTermios, uiPage, queue, ingested, queued, handled,
                  wdoc, woff, vocab, header, resident, hpc, hpage>>
    BY <1>a DEF WorkerWriteLast, Touch, rtVars, mainVars, exitVars, workerVars, arenaVars
  <2>e1. written' = written \cup {woff} /\ wpc' = "commit"
    BY <1>a DEF WorkerWriteLast, Touch
  <2>f. (TyQueue /\ TyArena /\ CountWithinHandled /\
         UITouchBelowBound /\ FaultPagesTouched /\ RawAfterStart)'
    BY <1>0, <2>u DEF TyQueue, TyArena, CountWithinHandled,
                      UITouchBelowBound, FaultPagesTouched, RawAfterStart
  <2>1. TyCtl'
    BY <1>0, <2>u, <2>e1
    DEF TyCtl
  <2>2. TyWorker'
    BY <1>0, <2>u, <2>e1
    DEF TyWorker
  <2>3. QueueConserved'
    BY <1>0, <2>u, <2>e1, <1>p
    DEF QueueConserved, InFlight
  <2>4. WorkerHoldsDoc'
    BY <1>0, <2>u, <2>e1, <1>p
    DEF WorkerHoldsDoc
  <2>q. QED
    BY <2>f, <2>1, <2>2, <2>3, <2>4 DEF TInv
<1>b. CASE ~Accessible(PageOf(woff + RecordSize - 1))
  <2>1. RaiseFault(Worker, PageOf(woff + RecordSize - 1)) /\ UNCHANGED rtVars
    BY <1>b DEF WorkerWriteLast, Touch
  <2>2. PageOf(woff + RecordSize - 1) \in Pages
    BY <1>p, WorkerPagesTouched
  <2>3. QED
    BY <2>1, <2>2, FaultTInv, ArenaConstants, RuntimeConstants
<1>c. QED
  BY <1>a, <1>b

(* head_offset += entry_size, on the header page. *)
LEMMA WorkerCommitTInv ==
  ASSUME TInv, WorkerCommit
  PROVE  TInv'
<1>0. /\ TyCtl /\ TyQueue /\ TyWorker /\ TyArena /\ QueueConserved
      /\ WorkerHoldsDoc /\ CountWithinHandled /\ UITouchBelowBound
      /\ FaultPagesTouched /\ RawAfterStart
  BY DEF TInv
<1>p. wpc = "commit" /\ wdoc \in Docs
  BY <1>0 DEF WorkerCommit, WorkerHoldsDoc
<1>a. CASE Accessible(HeaderPage)
  <2>u. UNCHANGED <<gRunning, puRunning, tuiRunning, proc, exitThread, mainPc,
                  tty, origTermios, uiPage, queue, ingested, queued, handled,
                  wdoc, woff, written, vocab, resident, hpc, hpage>>
    BY <1>a DEF WorkerCommit, Touch, rtVars, mainVars, exitVars, workerVars, arenaVars
  <2>e1. header' = [header EXCEPT !.head = @ + RecordSize] /\ wpc' = "count"
    BY <1>a DEF WorkerCommit, Touch
  <2>f. (TyQueue /\ TyWorker /\ UITouchBelowBound /\
         FaultPagesTouched /\ RawAfterStart)'
    BY <1>0, <2>u DEF TyQueue, TyWorker, UITouchBelowBound,
                      FaultPagesTouched, RawAfterStart
  <2>1. TyCtl'
    BY <1>0, <2>u, <2>e1
    DEF TyCtl
  <2>2. TyArena'
    BY <1>0, <2>u, <2>e1, RuntimeConstants
    DEF TyArena
  <2>3. QueueConserved'
    BY <1>0, <2>u, <2>e1, <1>p
    DEF QueueConserved, InFlight
  <2>4. WorkerHoldsDoc'
    BY <1>0, <2>u, <2>e1, <1>p
    DEF WorkerHoldsDoc
  <2>5. CountWithinHandled'
    BY <1>0, <2>u, <2>e1
    DEF CountWithinHandled, TyArena
  <2>q. QED
    BY <2>f, <2>1, <2>2, <2>3, <2>4, <2>5 DEF TInv
<1>b. CASE ~Accessible(HeaderPage)
  <2>1. RaiseFault(Worker, HeaderPage) /\ UNCHANGED rtVars
    BY <1>b DEF WorkerCommit, Touch
  <2>2. HeaderPage \in Pages
    BY ArenaConstants
  <2>3. QED
    BY <2>1, <2>2, FaultTInv, ArenaConstants, RuntimeConstants
<1>c. QED
  BY <1>a, <1>b

(* vector_count.fetch_add: the count and the handled texts grow together. *)
LEMMA WorkerCountTInv ==
  ASSUME TInv, WorkerCount
  PROVE  TInv'
<1>0. /\ TyCtl /\ TyQueue /\ TyWorker /\ TyArena /\ QueueConserved
      /\ WorkerHoldsDoc /\ CountWithinHandled /\ UITouchBelowBound
      /\ FaultPagesTouched /\ RawAfterStart
  BY DEF TInv
<1>p. wpc = "count" /\ wdoc \in Docs
  BY <1>0 DEF WorkerCount, WorkerHoldsDoc
<1>a. CASE Accessible(HeaderPage)
  <2>u. UNCHANGED <<gRunning, puRunning, tuiRunning, proc, exitThread, mainPc,
                  tty, origTermios, uiPage, queue, ingested, queued, wdoc,
                  woff, written, vocab, resident, hpc, hpage>>
    BY <1>a DEF WorkerCount, Touch, rtVars, mainVars, exitVars, workerVars, arenaVars
  <2>e1. /\ header' = [header EXCEPT !.count = @ + 1] /\ handled' = handled + 1
         /\ wpc' = "loop"
    BY <1>a DEF WorkerCount, Touch
  <2>f. (TyWorker /\ UITouchBelowBound /\ FaultPagesTouched /\
         RawAfterStart)'
    BY <1>0, <2>u DEF TyWorker, UITouchBelowBound, FaultPagesTouched,
                      RawAfterStart
  <2>1. TyCtl'
    BY <1>0, <2>u, <2>e1
    DEF TyCtl
  <2>2. TyQueue'
    BY <1>0, <2>u, <2>e1, <1>p, RuntimeConstants
    DEF TyQueue, QueueConserved, InFlight
  <2>3. TyArena'
    BY <1>0, <2>u, <2>e1
    DEF TyArena
  <2>4. QueueConserved'
    BY <1>0, <2>u, <2>e1, <1>p
    DEF QueueConserved, InFlight, TyQueue
  <2>5. WorkerHoldsDoc'
    BY <1>0, <2>u, <2>e1
    DEF WorkerHoldsDoc
  <2>6. CountWithinHandled'
    BY <1>0, <2>u, <2>e1
    DEF CountWithinHandled, TyArena, TyQueue
  <2>q. QED
    BY <2>f, <2>1, <2>2, <2>3, <2>4, <2>5, <2>6 DEF TInv
<1>b. CASE ~Accessible(HeaderPage)
  <2>1. RaiseFault(Worker, HeaderPage) /\ UNCHANGED rtVars
    BY <1>b DEF WorkerCount, Touch
  <2>2. HeaderPage \in Pages
    BY ArenaConstants
  <2>3. QED
    BY <2>1, <2>2, FaultTInv, ArenaConstants, RuntimeConstants
<1>c. QED
  BY <1>a, <1>b

(* Every step keeps the invariant. *)
LEMMA NextTInv == IInv /\ TInv /\ [Next]_vars => TInv'
<1> SUFFICES ASSUME IInv, TInv, [Next]_vars PROVE TInv'
  OBVIOUS
<1>1. CASE Boot
  BY <1>1, BootTInv
<1>2. CASE BootFailed
  BY <1>2, BootFailedTInv
<1>3. CASE StartRuntime
  BY <1>3, StartTInv
<1>4. CASE \E d \in Docs : Ingest(d)
  BY <1>4, IngestTInv
<1>5. CASE UpdateBegin
  BY <1>5, UpdateBeginTInv
<1>6. CASE UpdateReadCount
  BY <1>6, UpdateReadCountTInv
<1>7. CASE UpdateTouch
  BY <1>7, UpdateTouchTInv
<1>8. CASE \E t \in Threads : SigInt(t)
  BY <1>8, SigIntTInv
<1>9. CASE \E t \in Threads : Handler(t)
  BY <1>9, HandlerTInv
<1>10. CASE ExitRelease
  BY <1>10, ExitReleaseTInv
<1>11. CASE ExitEnd
  BY <1>11, ExitEndTInv
<1>12. CASE WorkerStep
  BY <1>12, WorkerPopTInv, WorkerTokenizeTInv, WorkerInsertTermsTInv,
     WorkerReadOffsetTInv, WorkerWriteFirstTInv, WorkerWriteLastTInv,
     WorkerCommitTInv, WorkerCountTInv
  DEF WorkerStep
<1>13. CASE UNCHANGED vars
  BY <1>13, UnchangedTInv
  DEF vars, rtVars, mainVars, exitVars, workerVars, arenaVars
<1>14. QED
  BY <1>1, <1>2, <1>3, <1>4, <1>5, <1>6, <1>7, <1>8, <1>9, <1>10, <1>11,
     <1>12, <1>13 DEF Next

(* Main, the UI and clipboard fibers, SIGINT, exit, the fault handler and  *)
(* the worker keep every variable within its type, for every set of       *)
(* pages, texts and sizes: in particular the worker never handles more    *)
(* texts than Ingest queued, the UI's ghost_offset stays within its       *)
(* bound, and m_orig_termios never saves raw mode.                         *)
THEOREM TypeCorrect == Spec => []TypeOK
<1>1. Init => IInv /\ TInv
  BY InitIInv, InitTInv
<1>2. IInv /\ TInv /\ [Next]_vars => (IInv /\ TInv)'
  BY NextIInv, NextTInv
<1>3. TInv => TypeOK
  BY TypeGroups DEF TInv
<1>4. QED
  BY <1>1, <1>2, <1>3, PTL DEF Spec
=============================================================================
