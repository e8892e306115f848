------------------------------- MODULE MCHeap -------------------------------
(***************************************************************************)
(* Small pages: a block of one page holds the header and up to three       *)
(* units, the last of which passes its end; the largest request takes      *)
(* a block of two pages.                                                   *)
(***************************************************************************)
EXTENDS Heap

MCBases == {64 * i : i \in 1 .. 4}
MCRequests == {0, 16, 20, 40}
MCForeign == {0, 352}
=============================================================================
