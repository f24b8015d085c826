---------------------------- MODULE MCMarkSweep -----------------------------
(* Instances of MarkSweep for TLC. *)
EXTENDS MarkSweep

CONSTANT none

MCzero_addr == 4096

small    == [wz |-> 1, tag |-> 0]
raw      == [wz |-> 2, tag |-> no_scan_tag]
closures == [wz |-> 5, tag |-> closure_tag]

MCMixed    == {small, raw, closures}
MCRaw      == {small, raw}
MCClosures == {small, closures}
=============================================================================
