------------------------------- MODULE MCMark -------------------------------
(* Instances of Mark for TLC.  Four blocks; the first has two fields, the   *)
(* second is a closure with an infix header, the last holds no pointer.     *)
(* Block 1 starts with a pointer, block 3 points to block 1, to block 4 or  *)
(* nowhere, and block 2 not to itself; else a field is any word.  Every set *)
(* of free blocks that leaves the heap well formed is tried.                *)
EXTENDS Mark

CONSTANTS inf, imm

MCNumBlocks  == 4
MCInfix      == {inf}
MCParentOf   == [h \in MCInfix |-> 2]
MCImmediates == {imm}
MCWords      == 1 .. MCNumBlocks \cup {inf, imm}
MCContents   ==
  {<<<<v1, w1>>, <<v2>>, <<v3>>, <<imm>>>> :
     v1 \in MCWords \ {imm}, w1 \in MCWords, v2 \in MCWords \ {2}, v3 \in {1, 4, imm}}
MCNoScanSets == {{}, {3}}
MCRootArrays == {<<3, 1>>, <<4, inf, 3>>}
MCCapacities == 1 .. 2
=============================================================================
