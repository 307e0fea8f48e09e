------------------------- MODULE MC_FiberScheduler -------------------------
(***************************************************************************)
(* The main fiber and up to two spawned fibers, as main() spawns the UI    *)
(* and the clipboard fibers; the functions are model values.               *)
(***************************************************************************)
EXTENDS FiberScheduler, TLC

CONSTANTS ui, clip
=============================================================================
