----------------------------- MODULE MCNodeAlloc -----------------------------
(* Words of eight bits and ints of six, two node pages.  A frame comes       *)
(* zeroed, or with stale bits that leave only nodes 3, 4 and 8, or only      *)
(* node 0, to hand out.                                                      *)
EXTENDS NodeAlloc

StaleFrames == {Zero, [lo |-> {0, 1, 2, 5, 6, 7}, hi |-> {1}],
                [lo |-> 1 .. 7, hi |-> {0, 1}]}
=============================================================================
