------------------------------ MODULE GhostArena ------------------------------
(***************************************************************************)
(* Hyperion::Core::MemoryManager (src/mm/MemoryManager.cpp): a 1 TB        *)
(* PROT_NONE reservation whose pages are made read-write by a SIGSEGV /    *)
(* SIGBUS handler the first time a thread touches them.                    *)
(*                                                                         *)
(* A touch of a page that is not read-write traps; the handler runs on the *)
(* faulting thread (hpc), checks the address against m_base_addr, calls    *)
(* handle_fault (mprotect, then the two counters) and returns, and the     *)
(* thread executes the access again.  When mprotect fails, or the address  *)
(* is out of range, the handler restores SIG_DFL and returns, so the       *)
(* re-executed access raises the signal again and the default action ends *)
(* the process (crashed).  Main runs initialize(), whose header read is    *)
(* the first fault, then run_self_test(), and later shutdown().            *)
(*                                                                         *)
(* The reservation is abstracted to the pages the runs touch.  Clients of  *)
(* the arena use Accessible, RaiseFault and Idle; this module's own        *)
(* clients are threads that touch arbitrary pages.                         *)
(***************************************************************************)
EXTENDS Naturals, FiniteSets

CONSTANTS
  Threads,       \* the OS threads that touch the arena
  Main,          \* the thread that initializes the arena and shuts it down
  Pages,         \* the pages of the reservation that are touched
  HeaderPage,    \* the page at offset 0, which holds MemoryHeader
  SelfTestPage,  \* the page at offset 512 GiB that run_self_test writes
  HeaderBytes,   \* sizeof(MemoryHeader)
  NoPage         \* no page

ASSUME ArenaConstants ==
  /\ Main \in Threads
  /\ {HeaderPage, SelfTestPage} \subseteq Pages
  /\ HeaderBytes \in Nat
  /\ NoPage \notin Pages

VARIABLES
  mapped,         \* the reservation exists: mmap succeeded, no munmap yet
  baseAddr,       \* m_base_addr: "null", "failed" (MAP_FAILED) or "addr"
  handlers,       \* ghost_signal_handler is installed
  mmRunning,      \* MemoryManager::m_running
  resident,       \* the pages handle_fault made read-write
  faultCount,     \* m_fault_count
  residentCount,  \* m_resident_pages
  header,         \* MemoryHeader at offset 0
  hpc,            \* where each thread is in the fault path
  hpage,          \* the page each thread faulted on
  crashed,        \* the process died of an unhandled SIGSEGV / SIGBUS
  mpc             \* where Main is in initialize / run_self_test / shutdown

arenaVars == <<mapped, baseAddr, handlers, mmRunning, resident, faultCount,
               residentCount, header, hpc, hpage, crashed, mpc>>

(* The MemoryHeader fields: magic is GHOST_MAGIC or not. *)
Header(magic, count, head) == [magic |-> magic, count |-> count, head |-> head]

ArenaInit ==
  /\ mapped = FALSE
  /\ baseAddr = "null"
  /\ handlers = FALSE
  /\ mmRunning = FALSE
  /\ resident = {}
  /\ faultCount = 0
  /\ residentCount = 0
  /\ header = Header(FALSE, 0, 0)
  /\ hpc = [t \in Threads |-> "none"]
  /\ hpage = [t \in Threads |-> NoPage]
  /\ crashed = FALSE
  /\ mpc = "boot"

-----------------------------------------------------------------------------
(* The interface to the threads that touch the arena.                      *)

(* A load or store to page p completes without a fault. *)
Accessible(p) == mapped /\ p \in resident

(* Thread t is not inside the signal handler. *)
Idle(t) == hpc[t] = "none"

(* The access of thread t to page p traps: the handler is entered, or,    *)
(* with no handler installed, the default action ends the process.        *)
RaiseFault(t, p) ==
  /\ IF handlers
     THEN /\ hpc' = [hpc EXCEPT ![t] = "handler"]
          /\ hpage' = [hpage EXCEPT ![t] = p]
          /\ UNCHANGED crashed
     ELSE /\ crashed' = TRUE
          /\ UNCHANGED <<hpc, hpage>>
  /\ UNCHANGED <<mapped, baseAddr, handlers, mmRunning, resident, faultCount,
                 residentCount, header, mpc>>

-----------------------------------------------------------------------------
(* The signal handler, on the faulting thread.                             *)

(* handle_fault aligning the address up instead of down: a plausible bug. *)
HandleFaultNextPage(t) ==
  /\ ~crashed
  /\ hpc[t] = "handler"
  /\ IF baseAddr = "addr" /\ mapped
     THEN /\ resident' = resident \cup {CHOOSE q \in Pages : q # hpage[t]}
          /\ hpc' = [hpc EXCEPT ![t] = "count"]
          /\ UNCHANGED crashed
     ELSE /\ crashed' = TRUE
          /\ UNCHANGED <<resident, hpc>>
  /\ UNCHANGED <<mapped, baseAddr, handlers, mmRunning, faultCount,
                 residentCount, header, hpage, mpc>>

(* ghost_signal_handler: the fault is inside [base, base + 1 TB) and       *)
(* base is not null, so handle_fault mprotects the page read-write; that   *)
(* succeeds while the reservation is mapped.  Otherwise the handler        *)
(* restores SIG_DFL and the re-executed access ends the process.           *)
HandleFault(t) ==
  /\ ~crashed
  /\ hpc[t] = "handler"
  /\ IF baseAddr = "addr" /\ mapped
     THEN /\ resident' = resident \cup {hpage[t]}
          /\ hpc' = [hpc EXCEPT ![t] = "count"]
          /\ UNCHANGED crashed
     ELSE /\ crashed' = TRUE
          /\ UNCHANGED <<resident, hpc>>
  /\ UNCHANGED <<mapped, baseAddr, handlers, mmRunning, faultCount,
                 residentCount, header, hpage, mpc>>

(* handle_fault's two relaxed fetch_adds; the handler returns and the      *)
(* thread executes its access again.                                       *)
CountFault(t) ==
  /\ ~crashed
  /\ hpc[t] = "count"
  /\ faultCount' = faultCount + 1
  /\ residentCount' = residentCount + 1
  /\ hpc' = [hpc EXCEPT ![t] = "none"]
  /\ hpage' = [hpage EXCEPT ![t] = NoPage]
  /\ UNCHANGED <<mapped, baseAddr, handlers, mmRunning, resident, header,
                 crashed, mpc>>

-----------------------------------------------------------------------------
(* Main: initialize(), initialize_header(), run_self_test(), shutdown().   *)

(* initialize() going on when sigaction failed: a plausible bug. *)
InitializeIgnoresSigaction ==
  /\ ~crashed
  /\ mpc = "boot"
  /\ ~mmRunning
  /\ mapped' = TRUE
  /\ baseAddr' = "addr"
  /\ mmRunning' = TRUE
  /\ mpc' = "header"
  /\ \E ok \in BOOLEAN : handlers' = ok
  /\ UNCHANGED <<resident, faultCount, residentCount, header, hpc, hpage,
                 crashed>>

(* initialize(): reserve the range, install the handlers, set m_running.   *)
(* A failed mmap leaves m_base_addr = MAP_FAILED; a failed sigaction       *)
(* leaves the range reserved; either way the caller exits.                 *)
Initialize ==
  /\ ~crashed
  /\ mpc = "boot"
  /\ ~mmRunning
  /\ \/ /\ baseAddr' = "failed"
        /\ mpc' = "failed"
        /\ UNCHANGED <<mapped, handlers, mmRunning>>
     \/ /\ mapped' = TRUE
        /\ baseAddr' = "addr"
        /\ mpc' = "failed"
        /\ UNCHANGED <<handlers, mmRunning>>
     \/ /\ mapped' = TRUE
        /\ baseAddr' = "addr"
        /\ handlers' = TRUE
        /\ mmRunning' = TRUE
        /\ mpc' = "header"
  /\ UNCHANGED <<resident, faultCount, residentCount, header, hpc, hpage,
                 crashed>>

(* initialize_header: the read of header->magic at offset 0 is the first   *)
(* fault; once it succeeds, an unset magic gets {MAGIC, 0, sizeof}.        *)
InitializeHeader ==
  /\ ~crashed
  /\ mpc = "header"
  /\ Idle(Main)
  /\ IF Accessible(HeaderPage)
     THEN /\ header' = IF header.magic THEN header
                       ELSE Header(TRUE, 0, HeaderBytes)
          /\ mpc' = "selftest"
          /\ UNCHANGED <<mapped, baseAddr, handlers, mmRunning, resident,
                         faultCount, residentCount, hpc, hpage, crashed>>
     ELSE /\ RaiseFault(Main, HeaderPage)

(* run_self_test: write 9999 at offset 512 GiB and read it back. *)
SelfTest ==
  /\ ~crashed
  /\ mpc = "selftest"
  /\ Idle(Main)
  /\ IF Accessible(SelfTestPage)
     THEN /\ mpc' = "ready"
          /\ UNCHANGED <<mapped, baseAddr, handlers, mmRunning, resident,
                         faultCount, residentCount, header, hpc, hpage,
                         crashed>>
     ELSE /\ RaiseFault(Main, SelfTestPage)

(* shutdown(): clear m_running and munmap the whole range; m_base_addr     *)
(* keeps its value.                                                        *)
Shutdown ==
  /\ ~crashed
  /\ mmRunning
  /\ mmRunning' = FALSE
  /\ IF baseAddr = "addr"
     THEN /\ mapped' = FALSE
          /\ resident' = {}
     ELSE UNCHANGED <<mapped, resident>>
  /\ UNCHANGED <<baseAddr, handlers, faultCount, residentCount, header, hpc,
                 hpage, crashed, mpc>>

=============================================================================
