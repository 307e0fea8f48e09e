------------------------- MODULE MC_HyperionRuntime -------------------------
(***************************************************************************)
(* The process with pages scaled to 512 bytes: three 264-byte records      *)
(* after the 24-byte header end in page 1, where the second record         *)
(* straddles pages 0 and 1, and the UI's touches at ghost_offset reach     *)
(* pages 0, 1 and 2.  A two-slot ring holds one text, so a third ingested  *)
(* text can find it full.  One text has words, the other none.             *)
(***************************************************************************)
EXTENDS HyperionRuntime, TLC

CONSTANTS main, worker, words, blank, none

MCThreads == {main, worker}
MCPages == 0 .. 2 \cup {2 ^ 30}
MCSelfTestPage == 2 ^ 30
=============================================================================
