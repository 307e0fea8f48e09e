-------------------------- MODULE MC_SlabAllocator --------------------------
(***************************************************************************)
(* A region of nine 64-byte units.  Requests of 1 and 100 bytes need blocks *)
(* of 3 and 4 units, so three clients can split the region down to an     *)
(* exact fit (3 + 3 + 4), leave remainders too small to split (1 or 2      *)
(* units), and free in every order to exercise both merges.  size_t is     *)
(* 16 bits wide here: TLC's integers are 32-bit, and 100-byte requests do  *)
(* not come near the wrap at any width.                                    *)
(***************************************************************************)
EXTENDS SlabAllocator, TLC

CONSTANTS c1, c2, c3

MCClients == {c1, c2, c3}
MCSymmetry == Permutations(MCClients)
=============================================================================
