------------------------------ MODULE MarkSweep ------------------------------
(***************************************************************************)
(* The mark-and-sweep collector of mark-and-sweep/ocaml-integration: the   *)
(* free-list allocator of allocator.c, the extracted mark and sweep of     *)
(* GC_Impl.c and the bridge alloc.c, driven by the runtime it is patched   *)
(* into.  Headers, free-list links and fields share one array of words.    *)
(*                                                                         *)
(* Unlike the collector of modules Mark and MajorHeap this one pushes      *)
(* every block it colours on an unchecked stack, never rescans, knows no   *)
(* infix pointers, carves objects from the left end of a free block, and   *)
(* sweeps block by block onto the free list it finds, without merging.     *)
(*                                                                         *)
(* The runtime breaks what collect relies on in two ways: an object may    *)
(* leave the last word of its block without a header, and a program may    *)
(* hold pointers to infix headers.  Both are actions here, and two history *)
(* variables record that they have happened.                               *)
(***************************************************************************)
EXTENDS WordHeap, Integers, FiniteSets

CONSTANTS
  NumRoots,   \* roots that caml_do_roots visits, in this order
  Requests,   \* sizes and tags the program asks for: records [wz, tag]
  gray_cap,   \* entries of the gray stack
  NoRequest

Roots == 1 .. NumRoots

ASSUME RootsAssumption == NumRoots \in Nat
ASSUME RequestAssumption == Requests \subseteq [wz : Nat, tag : 0 .. 255]
ASSUME StackAssumption == gray_cap \in Nat \ {0}

VARIABLES
  heap,       \* the words of the heap
  roots,      \* the words in the program's roots
  free_head,  \* head of the free list, 0 when empty
  pc,         \* mutator, search, roots, mark, scan, sweep, fatal
  req,        \* the request verified_allocate serves, or NoRequest
  retried,    \* verified_allocate has run its collection
  prev_val_addr, cur_val_addr,  \* locals of allocator_alloc
  storage, top,                 \* the gray stack
  h_addr, i,                    \* the block mark_step scans; next field, or root
  current, free_ptr,            \* locals of sweep
  spare,      \* history: an object has left a word of its block uncovered
  inner       \* history: the program has been given a pointer to an infix header

searchVars == <<req, retried, prev_val_addr, cur_val_addr>>
stackVars  == <<storage, top>>
sweepVars  == <<current, free_ptr>>
history    == <<spare, inner>>
vars == <<heap, roots, free_head, pc, searchVars, stackVars, h_addr, i, sweepVars, history>>

Val_unit == 1
closure_tag == 247

\* What collect relies on: the blocks of the heap follow one another without a
\* gap, and pointers lead to the first fields of blocks.
contract == ~spare /\ ~inner

read_word(a) == heap[a]
write_word(a, v) == heap' = [heap EXCEPT ![a] = v]
colorOf(a) == getColor(read_word(a))
wosizeOf(a) == getWosize(read_word(a))
tagOf(a) == getTag(read_word(a))

\* The header at a with another colour.
recolored(a, c) == makeHeader(wosizeOf(a), c, tagOf(a))

is_pointer(v) ==
  v >= zero_addr + WordBytes /\ v < heap_size /\ v % WordBytes = 0

-----------------------------------------------------------------------------
\* allocator_init: one blue block spans the heap.
Init ==
  /\ heap = [a \in Addresses |->
               IF a = zero_addr THEN makeHeader(HeapWords - 1, Blue, 0) ELSE 0]
  /\ free_head = zero_addr + WordBytes
  /\ roots = [r \in Roots |-> Val_unit]
  /\ pc = "mutator"
  /\ req = NoRequest /\ retried = FALSE
  /\ prev_val_addr = 0 /\ cur_val_addr = 0
  /\ storage = [k \in 0 .. gray_cap - 1 |-> 0] /\ top = gray_cap
  /\ h_addr = 0 /\ i = 0
  /\ current = 0 /\ free_ptr = 0
  /\ spare = FALSE /\ inner = FALSE

(* The program *)

\* A store into an object; in one that is not scanned the word is raw data.
\* Nothing is stored through an infix pointer, nor over an infix header.
Store ==
  /\ pc = "mutator"
  /\ \E r, s \in Roots :
       /\ is_pointer(roots[r])
       /\ tagOf(hd_address(roots[r])) # infix_tag
       /\ \E k \in 0 .. wosizeOf(hd_address(roots[r])) - 1 :
            /\ roots[r] + WordBytes * k \in Addresses
            /\ tagOf(roots[r] + WordBytes * k) # infix_tag
            /\ write_word(roots[r] + WordBytes * k, roots[s])
  /\ UNCHANGED <<roots, free_head, pc, searchVars, stackVars, h_addr, i, sweepVars, history>>

Forget ==
  /\ pc = "mutator"
  /\ \E r \in Roots :
       /\ roots[r] # Val_unit
       /\ roots' = [roots EXCEPT ![r] = Val_unit]
  /\ UNCHANGED <<heap, free_head, pc, searchVars, stackVars, h_addr, i, sweepVars, history>>

(* allocator_alloc: first fit, carved from the left *)

StartSearch(head) ==
  /\ pc' = "search"
  /\ prev_val_addr' = 0
  /\ cur_val_addr' = head

\* verified_allocate, from Alloc_small or caml_alloc_shr.
Request ==
  /\ pc = "mutator"
  /\ \E q \in Requests, r \in Roots :
       req' = [wz |-> q.wz, tag |-> q.tag, root |-> r]
  /\ retried' = FALSE
  /\ StartSearch(free_head)
  /\ UNCHANGED <<heap, roots, free_head, stackVars, h_addr, i, sweepVars, history>>

hdr_addr == cur_val_addr - WordBytes
searching == pc = "search" /\ {hdr_addr, cur_val_addr} \subseteq Addresses
wosize == IF req.wz = 0 THEN 1 ELSE req.wz  \* room for a free-list link
blk_wosize == wosizeOf(hdr_addr)
fits == blk_wosize >= wosize

NextBlock ==
  /\ searching
  /\ ~fits
  /\ prev_val_addr' = cur_val_addr
  /\ cur_val_addr' = read_word(cur_val_addr)
  /\ UNCHANGED <<heap, roots, free_head, pc, req, retried, stackVars, h_addr, i, sweepVars, history>>

leftover == blk_wosize - wosize
splits == leftover >= 2
rem_hdr_addr == hdr_addr + (1 + wosize) * WordBytes
rem_wosize == leftover - 1
successor == IF splits THEN f_address(rem_hdr_addr) ELSE read_word(cur_val_addr)

\* The heap when the caller has its object: allocator_alloc splits the block or
\* takes all of it, unlinks it and clears it; Alloc_small_aux and
\* caml_alloc_shr_aux then write the header they want over the one it wrote.
taken ==
  [a \in Addresses |->
     CASE a = hdr_addr -> makeHeader(req.wz, White, req.tag)
       [] a \in cur_val_addr .. cur_val_addr + WordBytes * wosize - 1 ->
            IF (a - cur_val_addr) \div WordBytes < req.wz THEN Val_unit ELSE 0
       [] splits /\ a = rem_hdr_addr -> makeHeader(rem_wosize, Blue, 0)
       [] splits /\ a = f_address(rem_hdr_addr) -> read_word(cur_val_addr)
       [] a = prev_val_addr -> successor
       [] OTHER -> heap[a]]

\* The size the caller writes is not that of the block: the block taken whole is
\* one word larger, or the size asked for is zero.
leavesSpare == leftover = 1 \/ req.wz = 0

Take ==
  /\ searching
  /\ fits
  /\ free_head' = IF prev_val_addr = 0 THEN successor ELSE free_head
  /\ pc' = "mutator"
  /\ req' = NoRequest /\ retried' = FALSE
  /\ prev_val_addr' = 0 /\ cur_val_addr' = 0
  /\ spare' = (spare \/ leavesSpare)
  /\ UNCHANGED <<stackVars, h_addr, i, sweepVars>>

TakeBlock ==
  /\ Take
  /\ heap' = taken
  /\ roots' = [roots EXCEPT ![req.root] = cur_val_addr]
  /\ UNCHANGED inner

\* CLOSUREREC of two functions: the block is closed over both.  The header of
\* the second is black, and the stack gets the closure and a pointer behind it.
infixHeader == cur_val_addr + 2 * WordBytes
TakeClosures ==
  /\ Take
  /\ req.tag = closure_tag /\ req.wz >= 5
  /\ heap' = [a \in Addresses |->
                IF a = infixHeader THEN makeHeader(3, Black, infix_tag) ELSE taken[a]]
  /\ \E r \in Roots \ {req.root} :
       roots' = [roots EXCEPT ![req.root] = cur_val_addr, ![r] = f_address(infixHeader)]
  /\ inner' = TRUE

noBlock == pc = "search" /\ cur_val_addr = 0

\* The first lines of verified_gc: a fresh stack whose top is t.
verified_gc(t) ==
  /\ storage' = [k \in 0 .. gray_cap - 1 |-> 0]
  /\ top' = t
  /\ i' = 1
  /\ pc' = "roots"
  /\ UNCHANGED <<heap, roots, free_head, req, h_addr, sweepVars, history>>

\* verified_allocate: after a first failure, one collection and a second try.
CollectAndRetry(t) ==
  /\ noBlock
  /\ ~retried
  /\ retried' = TRUE
  /\ prev_val_addr' = 0 /\ cur_val_addr' = 0
  /\ verified_gc(t)

\* After the second failure, a fatal error.
OutOfMemory ==
  /\ noBlock
  /\ retried
  /\ pc' = "fatal"
  /\ UNCHANGED <<heap, roots, free_head, searchVars, stackVars, h_addr, i, sweepVars, history>>

\* caml_trigger_verified_gc.
Trigger(t) ==
  /\ pc = "mutator"
  /\ verified_gc(t)
  /\ UNCHANGED <<retried, prev_val_addr, cur_val_addr>>

-----------------------------------------------------------------------------
(* Marking *)

stackEmpty == top = gray_cap

\* push does not look whether there is room: below index 0 it writes outside
\* the storage.  The model shows that as a negative top, and stops there: what
\* the process does next is undefined.
push(v) ==
  /\ top' = top - 1
  /\ storage' = [k \in DOMAIN storage |-> IF k = top - 1 THEN v ELSE storage[k]]

darken_write_gray(a) == write_word(a, recolored(a, Gray))

\* Mutant: gray blocks are pushed again.
darken_if_white_Regray(a) ==
  \/ /\ colorOf(a) \in {White, Gray}
     /\ darken_write_gray(a)
     /\ push(f_address(a))
  \/ /\ colorOf(a) \notin {White, Gray}
     /\ UNCHANGED <<heap, stackVars>>

darken_if_white(a) ==
  \/ /\ colorOf(a) = White
     /\ darken_write_gray(a)
     /\ push(f_address(a))
  \/ /\ colorOf(a) # White
     /\ UNCHANGED <<heap, stackVars>>

\* darken_root, called by caml_do_roots for every root.
isHeapRoot(v) == is_pointer(v) /\ wosizeOf(hd_address(v)) > 0

DarkenRoot ==
  /\ pc = "roots"
  /\ top >= 0
  /\ i <= NumRoots
  /\ \/ isHeapRoot(roots[i]) /\ darken_if_white(hd_address(roots[i]))
     \/ ~isHeapRoot(roots[i]) /\ UNCHANGED <<heap, stackVars>>
  /\ i' = i + 1
  /\ UNCHANGED <<roots, free_head, pc, searchVars, h_addr, sweepVars, history>>

EndRoots ==
  /\ pc = "roots"
  /\ i > NumRoots
  /\ pc' = "mark"
  /\ i' = 0
  /\ UNCHANGED <<heap, roots, free_head, searchVars, stackVars, h_addr, sweepVars, history>>

marking == pc = "mark" /\ ~stackEmpty
popped == storage[top]
mark_write_black(a) == write_word(a, recolored(a, Black))

\* mark_step up to the test of the tag; fields are counted from first.
PopStep(first, unscanned) ==
  /\ marking
  /\ top >= 0
  /\ LET a == hd_address(popped)
     IN  /\ a \in Addresses
         /\ mark_write_black(a)
         /\ IF tagOf(a) \in unscanned
            THEN pc' = "mark" /\ h_addr' = 0 /\ i' = 0
            ELSE pc' = "scan" /\ h_addr' = a /\ i' = first
  /\ top' = top + 1
  /\ UNCHANGED <<roots, free_head, searchVars, storage, sweepVars, history>>

\* Mutants: fields counted from zero; raw data taken for pointers.
MarkStep_SkipsFirst == PopStep(2, no_scan_tag .. 255)
MarkStep_IgnoresTag == PopStep(1, {})
MarkStep == PopStep(1, no_scan_tag .. 255)

read_field(a, k) == read_word(a + k * WordBytes)

check_and_darken(v) ==
  \/ is_pointer(v) /\ darken_if_white(hd_address(v))
  \/ ~is_pointer(v) /\ UNCHANGED <<heap, stackVars>>

\* push_children: one field.  A read outside the heap is undefined: the model
\* stops there.
PushChild ==
  /\ pc = "scan"
  /\ i <= wosizeOf(h_addr)
  /\ h_addr + i * WordBytes \in Addresses
  /\ check_and_darken(read_field(h_addr, i))
  /\ i' = i + 1
  /\ UNCHANGED <<roots, free_head, pc, searchVars, h_addr, sweepVars, history>>

EndScan ==
  /\ pc = "scan"
  /\ i > wosizeOf(h_addr)
  /\ pc' = "mark"
  /\ h_addr' = 0 /\ i' = 0
  /\ UNCHANGED <<heap, roots, free_head, searchVars, stackVars, sweepVars, history>>

-----------------------------------------------------------------------------
(* Sweeping *)

StartSweep(fp) ==
  /\ pc = "mark"
  /\ stackEmpty
  /\ pc' = "sweep"
  /\ current' = zero_addr
  /\ free_ptr' = fp
  /\ storage' = [k \in 0 .. gray_cap - 1 |-> 0]
  /\ UNCHANGED <<heap, roots, free_head, searchVars, top, h_addr, i, history>>

\* Mutant: the list is built from nothing.
EndMark_NewList == StartSweep(0)

\* collect: the sweep adds to the free list it is given.
EndMark == StartSweep(free_head)

sweeping == pc = "sweep" /\ current + WordBytes < heap_size
next_object == nextHeader(heap, current)

sweep_loop_body ==
  /\ current' = next_object
  /\ UNCHANGED <<roots, free_head, pc, searchVars, stackVars, h_addr, i, history>>

\* sweep_white_spec: a block without a field takes the head of the list too,
\* but no link.
SweepWhite ==
  /\ sweeping
  /\ colorOf(current) = White
  /\ heap' = [a \in Addresses |->
                CASE a = current -> recolored(current, Blue)
                  [] a = f_address(current) /\ wosizeOf(current) > 0 -> free_ptr
                  [] OTHER -> heap[a]]
  /\ free_ptr' = f_address(current)
  /\ sweep_loop_body

SweepBlack ==
  /\ sweeping
  /\ colorOf(current) = Black
  /\ write_word(current, recolored(current, White))
  /\ sweep_loop_body
  /\ UNCHANGED free_ptr

\* Free blocks stay as they are.
SweepOther ==
  /\ sweeping
  /\ colorOf(current) \in {Gray, Blue}
  /\ sweep_loop_body
  /\ UNCHANGED <<heap, free_ptr>>

\* The end of verified_gc: back to the program or to verified_allocate.  Here is
\* a bound of the model: it ends with the first collection that follows a breach
\* of the contract, which may leave anything in the free list and in the roots.
EndSweep ==
  /\ pc = "sweep"
  /\ ~sweeping
  /\ contract
  /\ free_head' = free_ptr
  /\ IF req = NoRequest
     THEN pc' = "mutator" /\ UNCHANGED <<prev_val_addr, cur_val_addr>>
     ELSE StartSearch(free_ptr)
  /\ current' = 0 /\ free_ptr' = 0
  /\ UNCHANGED <<heap, roots, req, retried, stackVars, h_addr, i, history>>

\* Everything between the calls of the program; t is where the stack starts.
Runtime(t) ==
  \/ NextBlock \/ TakeBlock \/ TakeClosures \/ CollectAndRetry(t) \/ OutOfMemory
  \/ DarkenRoot \/ EndRoots \/ MarkStep \/ PushChild \/ EndScan
  \/ EndMark \/ SweepWhite \/ SweepBlack \/ SweepOther \/ EndSweep

(* Two ways to call collect.  Its stack is empty when top is gray_cap, as    *)
(* snapshot/main.c passes it: Next is the collector with this one line of    *)
(* the bridge put right.  BridgeNext is the code as it stands: alloc.c       *)
(* passes a top of zero.                                                     *)

Next == Store \/ Forget \/ Request \/ Trigger(gray_cap) \/ Runtime(gray_cap)
Spec == Init /\ [][Next]_vars

BridgeNext == Store \/ Forget \/ Request \/ Trigger(0) \/ Runtime(0)
BridgeSpec == Init /\ [][BridgeNext]_vars

-----------------------------------------------------------------------------
(* The blocks a heap walk visits, the free list, and what is reachable *)

Headers == HeadersOf(heap)
freeBlocks == {a \in Headers : colorOf(a) = Blue}
usedBlocks == Headers \ freeBlocks
grayBlocks == {a \in Headers : colorOf(a) = Gray}

listHead == IF pc = "sweep" THEN free_ptr ELSE free_head
chain[n \in 0 .. HeapWords] ==
  IF n = 0 THEN listHead
  ELSE LET v == chain[n - 1] IN IF is_pointer(v) THEN heap[v] ELSE 0

\* What the object o holds, and what the roots rs lead to in the heap h.
fieldsOf(h, o) == {o + WordBytes * k : k \in 0 .. getWosize(h[hd_address(o)]) - 1}
pointees(h, o) ==
  IF getTag(h[hd_address(o)]) >= no_scan_tag THEN {}
  ELSE {v \in {h[a] : a \in fieldsOf(h, o) \cap Addresses} : is_pointer(v)}

reachedFrom(h, rs) ==
  LET reached[n \in 0 .. HeapWords] ==
        IF n = 0 THEN {v \in {rs[r] : r \in Roots} : is_pointer(v)}
        ELSE LET R == reached[n - 1] IN R \cup UNION {pointees(h, o) : o \in R}
  IN  reached
Reachable == reachedFrom(heap, roots)[HeapWords]

-----------------------------------------------------------------------------
(* Properties *)

TypeOK ==
  /\ heap \in [Addresses -> Nat]
  /\ \A r \in Roots : roots[r] = Val_unit \/ roots[r] \in Addresses
  /\ {free_head, prev_val_addr, cur_val_addr, free_ptr, h_addr} \subseteq Addresses \cup {0}
  /\ pc \in {"mutator", "search", "roots", "mark", "scan", "sweep", "fatal"}
  /\ \/ req = NoRequest
     \/ req.root \in Roots /\ [wz |-> req.wz, tag |-> req.tag] \in Requests
  /\ retried \in BOOLEAN
  /\ storage \in [0 .. gray_cap - 1 -> Addresses \cup {0}]
  /\ top \in 0 .. gray_cap
  /\ i \in 0 .. HeapWords + NumRoots
  /\ current \in Addresses \cup {0, heap_size}

\* The program's view, read off the heap through its own pointers, changes only
\* by the program's stores and by new objects: no search, split, mark or sweep
\* is visible, and allocator_alloc never hands out words that are in use.  It is
\* so up to the first step that breaks the contract.
objectOf(h, o) ==
  [wz    |-> getWosize(h[hd_address(o)]),
   tag   |-> getTag(h[hd_address(o)]),
   field |-> [k \in 1 .. getWosize(h[hd_address(o)]) |-> h[o + WordBytes * (k - 1)]]]
objectsOf(h, R) == [o \in R |-> objectOf(h, o)]
Graph == INSTANCE ObjectGraph WITH
  Places <- Addresses, NoScan <- no_scan_tag, Initial <- Val_unit,
  obj <- objectsOf(heap, Reachable)
GraphSpec == Graph!Init /\ [][contract' => [Graph!Next]_(Graph!gvars)]_vars

\* While the contract of collect is kept: the walk by header sizes ends exactly
\* at the end of the heap, and the free list ends, holds no block twice and holds
\* exactly the blue blocks of the walk, whatever mix of splits and of sweeps onto
\* an older list has built it.
FreeListExact ==
  contract =>
    /\ walkOf(heap)[HeapWords] = heap_size
    /\ chain[HeapWords] = 0
    /\ {chain[n] : n \in 0 .. HeapWords} \ {0} = {f_address(a) : a \in freeBlocks}
    /\ \A m, n \in 0 .. HeapWords : chain[m] = chain[n] /\ chain[m] # 0 => m = n

\* While the contract is kept, the gray stack holds exactly the gray blocks, each
\* once: with no rescan, a gray block that is not on it is never scanned, and a
\* sweep skips it for ever.
StackExact ==
  contract /\ pc \in {"roots", "mark", "scan"} =>
    /\ {storage[k] : k \in top .. gray_cap - 1} = {f_address(a) : a \in grayBlocks}
    /\ \A m, n \in top .. gray_cap - 1 : storage[m] = storage[n] => m = n

\* When verified_gc returns and the contract has been kept, the blocks in use are
\* exactly the reachable ones, and all of them are white again.
GarbageFreed ==
  [][contract /\ pc = "sweep" /\ pc' # "sweep" =>
       /\ usedBlocks' = {hd_address(o) : o \in Reachable'}
       /\ \A a \in usedBlocks' : colorOf(a)' = White]_vars

\* Every push lands inside the storage of the gray stack.
StackInBounds == top \in 0 .. gray_cap

\* allocator.h: after collect the free list runs through the first fields of dead
\* objects, free blocks of the heap, and through nothing else, whatever sizes the
\* program asks for.
FreeListOfBlocks ==
  pc = "sweep" /\ ~sweeping =>
    \A n \in 0 .. HeapWords :
      chain[n] # 0 => is_pointer(chain[n]) /\ hd_address(chain[n]) \in freeBlocks

\* A black infix header keeps the sweep from the functions of a closure: what a
\* root points to, a block's first field or an infix header's, is in use.
RootsInUse ==
  \A r \in Roots : is_pointer(roots[r]) =>
    \E a \in usedBlocks : a < roots[r] /\ roots[r] < nextHeader(heap, a)
=============================================================================
