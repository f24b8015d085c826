------------------------------ MODULE WordHeap ------------------------------
(***************************************************************************)
(* A heap that is one array of words, in which blocks follow one another:  *)
(* a header, and as many words as the header says.  Both collectors of the *)
(* repository find the blocks by walking from header to header.            *)
(***************************************************************************)
EXTENDS Header

CONSTANTS
  zero_addr,  \* byte address of the first word of the heap
  HeapWords   \* length of the heap, in words

heap_size == zero_addr + WordBytes * HeapWords  \* end of the heap, an address
Addresses == {zero_addr + WordBytes * i : i \in 0 .. HeapWords - 1}

ASSUME HeapAssumption ==
  /\ HeapWords \in Nat /\ HeapWords >= 2
  /\ zero_addr \in Nat \ {0} /\ zero_addr % WordBytes = 0

\* Where the block with its header at a ends, in the heap h.
nextHeader(h, a) == a + (getWosize(h[a]) + 1) * WordBytes

\* Where a walk by header sizes is after n blocks; it stops outside the heap.
walkOf(h) ==
  LET walk[n \in 0 .. HeapWords] ==
        IF n = 0 THEN zero_addr
        ELSE LET a == walk[n - 1] IN IF a \in Addresses THEN nextHeader(h, a) ELSE a
  IN  walk

HeadersOf(h) == {walkOf(h)[n] : n \in 0 .. HeapWords} \cap Addresses

-----------------------------------------------------------------------------
(* The free list of the generational collector: each block of it holds the *)
(* first field of the next one in its own.                                 *)

\* Mutant: the first block of the heap is not accepted.
is_valid_fp_Strict(v) == v > zero_addr + WordBytes /\ v < heap_size /\ v % WordBytes = 0

is_valid_fp(v) == v >= zero_addr + WordBytes /\ v < heap_size /\ v % WordBytes = 0

\* The first fields met along the list from head in the heap h, 0 after its end.
chainOf(h, head) ==
  LET chain[i \in 0 .. HeapWords] ==
        IF i = 0 THEN head
        ELSE LET v == chain[i - 1] IN IF is_valid_fp(v) THEN h[v] ELSE 0
  IN  chain
=============================================================================
