--------------------------- MODULE MCNativeMinor ---------------------------
(* An instance of NativeMinor for TLC: a minor heap that the sizes of the   *)
(* requests fill exactly or not.                                            *)
EXTENDS NativeMinor

MCRequests == {2, 3, 7}
=============================================================================
