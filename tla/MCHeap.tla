------------------------------- MODULE MCHeap -------------------------------
(* Two pages of nine header-sized units: a page holds up to three blocks,  *)
(* and the largest size does not fit in one.                                *)
EXTENDS Heap
=============================================================================
