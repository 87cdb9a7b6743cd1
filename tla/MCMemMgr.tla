------------------------------ MODULE MCMemMgr ------------------------------
(* Two processors share the manager.  The region of three pages straddles   *)
(* two page tables, and a range can merge with both of its neighbours.      *)
(* Frames are too few for the pages and their tables, so that both the      *)
(* region and the PMM run out.                                              *)
EXTENDS MemMgr

TwoFrames == <<2, 1>>
=============================================================================
