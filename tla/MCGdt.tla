-------------------------------- MODULE MCGdt --------------------------------
(* The sizes of the code; eight processors.                                 *)
EXTENDS Gdt
=============================================================================
