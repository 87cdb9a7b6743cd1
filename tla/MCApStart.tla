------------------------------ MODULE MCApStart ------------------------------
(* A page for the payload below and one above 64 KiB; malloc_pages fails or *)
(* succeeds.                                                                *)
EXTENDS ApStart
=============================================================================
