---------------------------- MODULE MCMajorHeap -----------------------------
(* Instances of MajorHeap for TLC. *)
EXTENDS MajorHeap

CONSTANT none

MCzero_addr == 4096
=============================================================================
