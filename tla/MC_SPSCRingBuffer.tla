------------------------- MODULE MC_SPSCRingBuffer -------------------------
(***************************************************************************)
(* The ring of ProcessingUnit is LockFreeRingBuffer<std::string, 64>.  A   *)
(* ring of 4 slots has every case 64 has (empty, one slot short of full,   *)
(* wrap-around of both indices, the producer blocked by a stale head)      *)
(* with far fewer states; two distinct texts let FIFO order be observed.   *)
(***************************************************************************)
EXTENDS SPSCRingBuffer

CONSTANTS t1, t2

MCValues == {t1, t2}
=============================================================================
