------------------------------ MODULE MajorHeap ------------------------------
(***************************************************************************)
(* The words of the major heap: allocate, flush_blue_impl and              *)
(* fused_sweep_coalesce of generational/snapshot/GC_Gen_Impl.c, driven by  *)
(* verified_allocate and do_full_gc of ocaml-integration/verified_gc/      *)
(* alloc_gen.c.  Headers, free-list links and fields share one array of    *)
(* words, so that a write at a wrong address damages what lies there.      *)
(*                                                                         *)
(* Free blocks are blue.  A free block of size one or more is linked       *)
(* through its first field; one of size zero is a bare header and is on no *)
(* list until a sweep merges it with a neighbour.  allocate takes the      *)
(* first block that fits and carves the object from its right end.         *)
(*                                                                         *)
(* The mark phase is one step here (module Mark is about its steps): any   *)
(* subset of the objects may turn out reachable, and is blackened.         *)
(***************************************************************************)
EXTENDS WordHeap, FiniteSets

CONSTANTS
  Requests,   \* sizes the program asks for
  Tags,       \* tags the program asks for
  NoRequest

ASSUME RequestAssumption ==
  /\ Requests \subseteq Nat
  /\ Tags \subseteq 0 .. 255
  /\ NoRequest \notin [wz : Requests, tag : Tags]

VARIABLES
  heap,    \* the words of the heap
  fp_ref,  \* head of the free list, 0 when empty
  pc,      \* mutator, search (allocate), mark, sweep
  req,     \* the request verified_allocate serves, or NoRequest
  retried, \* verified_allocate has run its full collection
  prev_fp, cur_fp, fuel,  \* locals of allocate
  current, fb, rw, fp,    \* locals of fused_sweep_coalesce
  live     \* history: first field |-> size and tag of each object in use

searchVars == <<prev_fp, cur_fp, fuel>>
sweepVars  == <<current, fb, rw, fp>>
vars == <<heap, fp_ref, pc, req, retried, searchVars, sweepVars, live>>

Val_unit == 1  \* what the program stores in the fields of its objects

-----------------------------------------------------------------------------
\* ensure_heap: one blue block spans the heap.
Init ==
  /\ heap = [a \in Addresses |->
               IF a = zero_addr THEN makeHeader(HeapWords - 1, Blue, 0) ELSE 0]
  /\ fp_ref = zero_addr + WordBytes
  /\ pc = "mutator"
  /\ req = NoRequest
  /\ retried = FALSE
  /\ prev_fp = 0 /\ cur_fp = 0 /\ fuel = 0
  /\ current = 0 /\ fb = 0 /\ rw = 0 /\ fp = 0
  /\ live = [o \in {} |-> 0]

(* allocate: first fit, carved from the right *)

\* What both calls of allocate in verified_allocate start from.
StartSearch(head) ==
  /\ pc' = "search"
  /\ prev_fp' = 0
  /\ cur_fp' = head
  /\ fuel' = heap_size \div WordBytes

\* A block is never smaller than one word: verified_allocate normalises zero.
normalised(w) == IF w = 0 THEN 1 ELSE w

\* caml_alloc_shr asks verified_allocate for a block.
Request ==
  /\ pc = "mutator"
  /\ \E w \in Requests, t \in Tags : req' = [wz |-> w, tag |-> t]
  /\ retried' = FALSE
  /\ StartSearch(fp_ref)
  /\ UNCHANGED <<heap, fp_ref, sweepVars, live>>

blockWosize == getWosize(heap[hd_address(cur_fp)])
searching == pc = "search" /\ fuel # 0 /\ is_valid_fp(cur_fp)
leftover == blockWosize - normalised(req.wz)
allocHeader == hd_address(cur_fp) + leftover * WordBytes
fits == blockWosize >= normalised(req.wz)

NextBlock ==
  /\ searching
  /\ ~fits
  /\ prev_fp' = cur_fp
  /\ cur_fp' = heap[cur_fp]
  /\ fuel' = fuel - 1
  /\ UNCHANGED <<heap, fp_ref, pc, req, retried, sweepVars, live>>

\* Mutant: a bare header stays on the list.
new_fp_KeepsBare == IF leftover >= 1 THEN cur_fp ELSE heap[cur_fp]

\* The block found keeps its place in the list when two words or more are
\* left of it, and leaves the list otherwise.
new_fp == IF leftover >= 2 THEN cur_fp ELSE heap[cur_fp]
vp_unusable == prev_fp = 0 \/ prev_fp = hd_address(cur_fp)

linked == IF vp_unusable THEN heap ELSE [heap EXCEPT ![prev_fp] = new_fp]
remainder(wz) ==
  IF leftover = 0 THEN linked
  ELSE [linked EXCEPT ![hd_address(cur_fp)] = makeHeader(wz, Blue, 0)]

\* Mutant: the header of the remainder counts itself.
split_CountsHeader == remainder(leftover)
split == remainder(leftover - 1)

\* caml_alloc_shr_aux writes the header again, with the size and the tag it was
\* asked for, and the caller initialises the fields before anything else runs.
initialised(h, o, w, t) ==
  [a \in Addresses |->
     CASE a = hd_address(o) -> makeHeader(w, White, t)
       [] a \in o .. o + WordBytes * w - 1 -> Val_unit
       [] OTHER -> h[a]]

TakeBlock ==
  /\ searching
  /\ fits
  /\ f_address(allocHeader) < heap_size
  /\ heap' = initialised(split, f_address(allocHeader), req.wz, req.tag)
  /\ fp_ref' = IF vp_unusable THEN new_fp ELSE fp_ref
  /\ live' = [o \in DOMAIN live \cup {f_address(allocHeader)} |->
                IF o = f_address(allocHeader) THEN req ELSE live[o]]
  /\ pc' = "mutator"
  /\ req' = NoRequest
  /\ UNCHANGED <<retried, searchVars, sweepVars>>

searchFailed ==
  /\ pc = "search"
  /\ \/ fuel = 0
     \/ ~is_valid_fp(cur_fp)
     \/ searching /\ fits /\ f_address(allocHeader) >= heap_size

Collecting(again) ==
  /\ searchFailed
  /\ ~retried
  /\ retried' = again
  /\ pc' = "mark"
  /\ UNCHANGED <<heap, fp_ref, req, searchVars, sweepVars, live>>

\* Mutant: the retry is not remembered.
CollectAndRetry_Forever == Collecting(FALSE)

\* verified_allocate: after a failure, one full collection and a second try.
CollectAndRetry == Collecting(TRUE)

GivingUp ==
  /\ searchFailed
  /\ pc' = "mutator"
  /\ req' = NoRequest
  /\ UNCHANGED <<heap, fp_ref, retried, searchVars, sweepVars, live>>

\* Mutant: NULL without a collection.
OutOfMemory_AtOnce == GivingUp

\* The second failure: NULL, which caml_alloc_shr turns into Out_of_memory.
OutOfMemory == retried /\ GivingUp

-----------------------------------------------------------------------------
(* A full collection *)

\* do_full_gc on its own: caml_trigger_verified_gc, or do_minor_gc's threshold.
StartCollection ==
  /\ pc = "mutator"
  /\ pc' = "mark"
  /\ UNCHANGED <<heap, fp_ref, req, retried, searchVars, sweepVars, live>>

\* The mark phase, then the first lines of fused_sweep_coalesce.
MarkPhase ==
  /\ pc = "mark"
  /\ \E S \in SUBSET DOMAIN live :
       /\ heap' = [a \in Addresses |->
                     IF f_address(a) \in S
                     THEN makeHeader(getWosize(heap[a]), Black, getTag(heap[a]))
                     ELSE heap[a]]
       /\ live' = [o \in S |-> live[o]]
  /\ pc' = "sweep"
  /\ current' = zero_addr
  /\ fb' = 0 /\ rw' = 0 /\ fp' = 0
  /\ UNCHANGED <<fp_ref, req, retried, searchVars>>

\* flush_blue_impl: a run of w words whose first field is b becomes one free
\* block, linked in front of f unless it is a bare header.
flushedHeap(h, b, w, f) ==
  [a \in Addresses |->
     CASE w >= 1 /\ a = hd_address(b) -> makeHeader(w - 1, Blue, 0)
       [] w >= 2 /\ a = b -> f
       [] w >= 3 /\ a > b /\ a < b + WordBytes * (w - 1) -> 0
       [] OTHER -> h[a]]
flushedFp(b, w, f) == IF w >= 2 THEN b ELSE f

sweeping == pc = "sweep" /\ current + WordBytes < heap_size
sweepWosize == getWosize(heap[current])
sweepNext == current + (sweepWosize + 1) * WordBytes

KeepBlock(tag) ==
  /\ sweeping
  /\ getColor(heap[current]) = Black
  /\ heap' = [flushedHeap(heap, fb, rw, fp) EXCEPT
                ![current] = makeHeader(sweepWosize, White, tag)]
  /\ fp' = flushedFp(fb, rw, fp)
  /\ fb' = 0
  /\ rw' = 0
  /\ current' = sweepNext
  /\ UNCHANGED <<fp_ref, pc, req, retried, searchVars, live>>

\* Mutant: the tag is lost.
SweepSurvivor_LosesTag == KeepBlock(0)

\* A black block ends the run of free words before it and becomes white.
SweepSurvivor == KeepBlock(getTag(heap[current]))

\* Mutant: every free block is flushed by itself.
SweepFree_NoMerge ==
  /\ sweeping
  /\ getColor(heap[current]) # Black
  /\ heap' = flushedHeap(heap, f_address(current), sweepWosize + 1, fp)
  /\ fp' = flushedFp(f_address(current), sweepWosize + 1, fp)
  /\ current' = sweepNext
  /\ UNCHANGED <<fp_ref, pc, req, retried, fb, rw, searchVars, live>>

\* Anything else, garbage or free block, extends the run.
SweepFree ==
  /\ sweeping
  /\ getColor(heap[current]) # Black
  /\ fb' = IF rw = 0 THEN f_address(current) ELSE fb
  /\ rw' = rw + sweepWosize + 1
  /\ current' = sweepNext
  /\ UNCHANGED <<heap, fp_ref, pc, req, retried, fp, searchVars, live>>

\* The last run, and the return to the program or to verified_allocate.
EndSweep ==
  /\ pc = "sweep"
  /\ ~sweeping
  /\ heap' = flushedHeap(heap, fb, rw, fp)
  /\ fp_ref' = flushedFp(fb, rw, fp)
  /\ IF req = NoRequest
     THEN pc' = "mutator" /\ UNCHANGED searchVars
     ELSE StartSearch(fp_ref')
  /\ UNCHANGED <<req, retried, sweepVars, live>>

Next ==
  \/ Request \/ NextBlock \/ TakeBlock \/ CollectAndRetry \/ OutOfMemory
  \/ StartCollection \/ MarkPhase \/ SweepSurvivor \/ SweepFree \/ EndSweep

\* The program stops only between calls: whatever it called into runs on.
Runtime ==
  \/ NextBlock \/ TakeBlock \/ CollectAndRetry \/ OutOfMemory
  \/ MarkPhase \/ SweepSurvivor \/ SweepFree \/ EndSweep

Spec == Init /\ [][Next]_vars
FairSpec == Spec /\ WF_vars(Runtime)

-----------------------------------------------------------------------------
(* The blocks a heap walk visits *)

Headers == HeadersOf(heap)
freeBlocks == {a \in Headers : getColor(heap[a]) = Blue}
usedBlocks == Headers \ freeBlocks

\* The first fields met along the free list, 0 after its end.
chain == chainOf(heap, fp_ref)

-----------------------------------------------------------------------------
(* Properties *)

TypeOK ==
  /\ heap \in [Addresses -> Nat]
  /\ fp_ref \in Addresses \cup {0}
  /\ pc \in {"mutator", "search", "mark", "sweep"}
  /\ req \in [wz : Requests, tag : Tags] \cup {NoRequest}
  /\ retried \in BOOLEAN
  /\ {prev_fp, cur_fp, fb, fp} \subseteq Addresses \cup {0}
  /\ fuel \in 0 .. heap_size \div WordBytes
  /\ current \in Addresses \cup {0, heap_size}
  /\ rw \in 0 .. HeapWords
  /\ DOMAIN live \subseteq Addresses
  /\ \A o \in DOMAIN live : live[o] \in [wz : Requests, tag : Tags]

\* No search, split, sweep or flush ever writes into an object in use: its
\* header keeps size and tag and its fields keep what the program stored.
LiveIntact ==
  \A o \in DOMAIN live :
    /\ o + WordBytes * live[o].wz <= heap_size
    /\ getWosize(heap[hd_address(o)]) = live[o].wz
    /\ getTag(heap[hd_address(o)]) = live[o].tag
    /\ \A i \in 0 .. live[o].wz - 1 : heap[o + WordBytes * i] = Val_unit

\* Outside a sweep, the walk by header sizes ends exactly at the end of the
\* heap, and what it finds in use is exactly what the program has: rescans and
\* sweeps see every block and nothing else.
HeapWalkable ==
  pc # "sweep" =>
    /\ walkOf(heap)[HeapWords] = heap_size
    /\ {f_address(a) : a \in usedBlocks} = DOMAIN live
    /\ \A a \in usedBlocks : getColor(heap[a]) = White

\* Outside a sweep, the free list ends, holds no block twice, and holds
\* exactly the blue blocks that have a field: no free block of the heap is lost
\* and no object in use is on the list.
FreeListExact ==
  pc # "sweep" =>
    /\ chain[HeapWords] = 0
    /\ {chain[i] : i \in 0 .. HeapWords} \ {0} =
         {f_address(a) : a \in {b \in freeBlocks : getWosize(heap[b]) >= 1}}
    /\ \A i, j \in 0 .. HeapWords : chain[i] = chain[j] /\ chain[i] # 0 => i = j

\* A sweep leaves no two free blocks side by side, bare headers included.
SweepCoalesces ==
  [][pc = "sweep" /\ pc' # "sweep" =>
       \A a \in freeBlocks' : nextHeader(heap', a) \notin freeBlocks']_vars

\* allocate gives up only when no block of the free list is large enough; fuel
\* and the bound test on the carved object never cut a search short.
FailureMeansNoFit ==
  searchFailed =>
    \A a \in freeBlocks : getWosize(heap[a]) < normalised(req.wz)

\* The header of an allocated block has the size verified_allocate normalised,
\* for a request of size zero as well.
NormalisedInStep ==
  \A o \in DOMAIN live : getWosize(heap[hd_address(o)]) = normalised(live[o].wz)

\* verified_allocate and collections return.
Returns == pc # "mutator" ~> pc = "mutator"

\* The promise of BlockStore, read off the objects in use: in particular, an
\* allocation fails only after a full collection, and only when no gap between
\* the objects that survived it is large enough.
Store == INSTANCE BlockStore WITH
  FirstWord <- zero_addr, held <- live,
  collected <- req # NoRequest /\ retried /\ pc # "mark"
StoreSpec == Store!Spec
=============================================================================
