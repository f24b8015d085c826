----------------------------- MODULE MCGenHeap -----------------------------
(* Small instances of GenHeap: objects and roots are interchangeable names. *)
EXTENDS GenHeap, TLC

ObjSymmetry == Permutations(Small) \cup Permutations(Large)
Symmetry    == ObjSymmetry \cup Permutations(RootVars)
=============================================================================
