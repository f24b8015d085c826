---------------------------- MODULE MCMinorWords ----------------------------
(* Instances of MinorWords for TLC: cells of one field, blocks of raw data  *)
(* and closures with an infix header.                                       *)
EXTENDS MinorWords

Cell    == [wz |-> 1, tag |-> 0, infix |-> {}]
Raw     == [wz |-> 1, tag |-> 252, infix |-> {}]
Closure == [wz |-> 4, tag |-> Closure_tag, infix |-> {1}]

MCRequests == {Cell, Raw, Closure}
=============================================================================
