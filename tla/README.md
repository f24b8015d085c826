# TLA+ models and proofs for pulse-verified-gc

The repository holds a garbage collector for OCaml 4.14 whose algorithms are written and
verified in F*/Pulse, extracted to C
(`generational/snapshot/GC_Gen_Impl.c`), and tied to the OCaml runtime by a hand-written,
unverified bridge (`generational/ocaml-integration/verified_gc/alloc_gen.c`) and a patch of
the runtime (`generational/ocaml-integration/patches/runtime_gen.patch`).  An earlier
collector, mark-and-sweep only, has its own extracted C, bridge, allocator and patch
(`mark-and-sweep/ocaml-integration`).  The models here follow the extracted C and the
bridges, the programs that run.  They check the algorithms
against statements that do not share the F* development's definitions, and they check what
the F* proofs leave out: the bridge, the callers of the verified entry points, and the
order in which they are called.

## Inventory

| part | state | operations | what is hard |
|---|---|---|---|
| mark phase | colour bits of every header, gray stack (`storage`, `top`, `cap`) | `darken_roots_bounded`, `mark_loop_bounded` (`mark_inner_loop_impl`, `rescan_heap_impl`) | the stack overflows; blocks then are gray and on no work list, until the heap is walked again |
| major heap | one array of words, head of the free list (`fp_ref`) | `allocate` (and its copy `allocate_part1`), `flush_blue_impl`, `fused_sweep_coalesce` | splitting and merging at the granularity of one word, bare headers, free list in the heap itself |
| minor collection | minor heap, `fwd_arr`, `queue`, roots array, `oom` flag | `cheney_promote_phase` (`forward_roots`, `scan_loop`), `update_promoted_objects`, `rewrite_heap_slots`, the root loop of `minor_collect_full`, `minor_heap_reset` | sharing, infix headers, no-scan data, promotion that fails half way |
| bridge | `root_values`, `root_locs`, `bytes_promoted_since_major`, `in_full_gc`, the OCaml `ref_table` | `ensure_heap`, `do_minor_gc`, `do_full_gc`, `verified_allocate`, `verified_allocate_minor`, root collection and write-back | when which collection runs, retry after failure, roots and slots in one array |
| runtime patch | header words, bump pointer | `Alloc_small_aux`, `caml_alloc_shr_aux`, `caml_minor_collection` | headers are written a second time by the runtime |
| native code | `young_ptr`, `young_limit`, and `bump_ref` as their copy | `vergc_sync_bump_ref_from_young_ptr`, `vergc_native_run_minor_collection`, `caml_alloc_small_dispatch` | two pointers for one quantity, one of them stale between collections |
| exported passes of the snapshot | the minor heap word by word, the roots array | `gen_alloc`, `translate_minor_fields`, `find_infix_parents`, `synthesize_infix_forwarding`, `update_all_objects`, `rewrite_roots_impl` | each recognises objects, infix headers and addresses by the bits of a word |
| mark-and-sweep | the words of its heap, `free_head`, the gray stack | `allocator_alloc`, `darken_root`, `mark_loop`, `sweep`, `verified_allocate`, `verified_gc` | an unchecked stack, a free list extended by each sweep and never merged |

The parts interact by calls on one thread: the OCaml program allocates through the patched
runtime, which calls the bridge; the bridge collects the roots, calls the extracted
collector, and writes the moved roots back.  The program is stopped while the collector
runs, so there are no interleavings of threads.  What is hard is elsewhere: long loops over
shared mutable memory whose intermediate states matter (overflow, partial promotion,
a free list inside the words it manages), state that outlives a collection, and limits
(stack, queue, fuel, heap size) that are reached in the middle of an operation.

What makes each part correct:

* marking: on return exactly the reachable blocks are black and nothing is gray, for every
  graph and every stack capacity, and marking returns;
* major heap: blocks in use never overlap or change; the walk by header sizes meets every
  block; the free list is exactly the free blocks with a field; allocation fails only when
  nothing fits;
* minor collection: every live block is copied once, all pointers follow, nothing else
  changes, and a failure is always reported;
* bridge: a failed allocation is retried after a full collection exactly once; roots are
  written back where they came from;
* native code: no object is below `young_ptr` before it has been moved, and an allocation
  that has to wait for a collection comes to an end;
* exported passes: each treats exactly the words it is for, and the collection built from
  them leaves what `minor_collect_full` leaves;
* mark-and-sweep: free list and gray stack are exact, a collection frees exactly the
  garbage, and the program's view of the heap changes only by what the program does.

### Not modelled

The table of components in `PROJECT.json` has the reasons one by one.  In short:

* the F* sources and proofs: not a running program; the C extracted from them is modelled;
* of the bridge, the settings `ensure_heap` reads from the environment and the fatal error
  of a root array of 256K entries that is full;
* of the snapshot, `init_heap`, which is right only for a `zero_addr` of 0,
  `alloc_minor_heap`, which returns the address of a local array, and `collect`, a synonym of
  `collect_with_roots`: nothing calls them;
* of the mark-and-sweep collector, what the program does after a collection that started with
  the contract of `collect` broken: see `MarkSweep` below;
* of native code, callbacks served inside the loop of `caml_alloc_small_dispatch` that
  allocate in their turn: `PendingAction` may collect, not allocate;
* of the exported promotion, the test for a full queue (`GC_Gen_Impl.c:926-929`), which
  `MinorWords` leaves out: the queue has an entry for every object of the minor heap, and
  `QueueExact` of `Cheney` is the proof that it never overflows;
* profiling, generated headers, and build or test material.

## Modules

| module | models | state and actions |
|---|---|---|
| `Mark` | the mark phase | `color`, `noscan`, `field` are the heap; `stack` is the part of `st.storage` from `st.top` up, `cap` is `st.cap`; `pc` tells the loops apart, `obj` and `idx` are their cursors. `DarkenRoot`, `MarkStep`, `PushChild`, `RescanBlock` are one iteration of one loop each; `EndRoots`, `EndScan`, `StartRescan`, `EndRescan` their exits. |
| `MarkProofs` | theorems about `Mark` | see below |
| `Header`, `WordHeap` | header words and addresses; a heap of words, the walk over it, the chain of its free list | operators only |
| `MajorHeap` | allocate, flush, sweep, `verified_allocate` | `heap` is the array of words, `fp_ref` the head of the list; the locals of the running function are variables. `Request` enters `verified_allocate`; `NextBlock`, `TakeBlock` are the iterations of `allocate`; `CollectAndRetry` and `OutOfMemory` its two failures; `MarkPhase`, `SweepSurvivor`, `SweepFree`, `EndSweep` a full collection. `live` is a history variable: the objects the program was given. |
| `HeapLemmas` | induction up to a bound, iterates of a function, what a header holds, tilings, free lists and what an allocation carves out of them | see below |
| `MajorHeapProofs` | theorems about `MajorHeap` | see below |
| `BlockStore` | what the major heap promises | objects with a size, requests, collection; no words |
| `Cheney` | `do_minor_gc_core` and `minor_collect_full` | `field`, `noscan` the minor heap, `mem`, `memNoscan` the major one, `slots` the `ref_table`, `globals` the program's root slots, `roots` the root array. One action per iteration of each loop: `CollectRoots` fills the array with the program's roots, `CollectRef` adds one remembered slot, and so on to `WriteBack`. |
| `CheneyProofs` | theorems about `Cheney` | see below |
| `GenHeap` | the bridge and the runtime's allocation paths, as the program drives them | `where` is the heap an object is in, `field` its contents, `roots` the program's roots, `ref_table` the remembered set, `bump` is `bump_ref`, `promoted` is `bytes_promoted_since_major`. `Fragmented` says when the free words may lie so that no run of them is long enough, `PromotionMayFail` and `AllocateMayFail` when `allocate` may therefore fail. `stack` holds the calls under way: `do_minor_gc` pushes `do_full_gc` when the threshold says so, the allocators push the collection they wait for and find their request in `req` when it returns. `Alloc_small`, `caml_alloc_shr`, `caml_make_vect`, `caml_modify`, `Load`, `Forget`, `caml_minor_collection` and `caml_trigger_verified_gc` are the program's steps. |
| `GenHeapProofs` | theorems about `GenHeap` and its counters | see below |
| `MinorWords` | `gen_alloc`, `minor_alloc`, the collection at the level of words, and the passes that are exported beside it | `data`, `bump` are the minor heap, `heap`, `fp_ref` the major one, `slots` the `ref_table`; `fwd_arr`, `queue`, `roots`, `oom` as in the code. `gen_alloc` and `Store` are the program; `Collect` chooses the way of the collection, `legacy`. The live way is `forward_roots`, `scan_loop`, `update_promoted_objects`, `rewrite_heap_slots`, `rewrite_roots`; the legacy way is the sequence of `generational/PATCHES.md` (steps 4.1 to 4.5 before the promotion): `find_infix_parents`, `translate_minor_fields`, the promotion, `synthesize_infix_forwarding`, `update_all_objects`, `rewrite_roots`. `forward_roots` and `scan_loop` go one root or field at a time; the other passes are one action each, since nothing happens between their iterations that they do not do. `objs` is a history variable: the objects the program was given. |
| `MinorWordsProofs` | theorems about `MinorWords` | see below |
| `NativeMinor` | the minor heap of native code | `young_ptr`, `bump_ref`, `bytes_promoted_since_major` in words. `FastAlloc` is compiled code, `SlowAlloc` the decrement that passes `young_limit`; `Undo`, `Collect`, `PendingAction`, `Retry` are `caml_alloc_small_dispatch`. `fresh` and `promoted` are history: the words allocated and not yet moved, and the words promoted since the last full collection. |
| `NativeMinorProofs` | theorems about `NativeMinor` | see below |
| `MarkSweep` | the mark-and-sweep collector, its allocator and its bridge | `heap` the words, `free_head` the list, `storage` and `top` the gray stack; `Request`, `NextBlock`, `TakeBlock`, `CollectAndRetry`, `OutOfMemory` are `verified_allocate`, and `TakeClosures` is the allocation of two mutually recursive functions, which gives the program a pointer behind an infix header; `DarkenRoot`, `MarkStep`, `PushChild`, `SweepWhite`, `SweepBlack`, `SweepOther` are one iteration of one loop of the collection each. `spare` and `inner` are history variables: an object has left a word of its block without a header, the program has been given a pointer to an infix header. `contract` says that neither has happened. `Spec` starts the stack empty, as `collect` requires and as `snapshot/main.c` does in the generational half; `BridgeSpec` with the top that `alloc.c` passes. |
| `MarkSweepProofs` | theorems about `MarkSweep` | see below |
| `ObjectGraph` | what a collector that moves nothing promises the program | reachable objects, the program's roots; no heap, no collection |
| `MCMark`, `MCMajorHeap`, `MCCheney`, `MCGenHeap`, `MCMinorWords`, `MCNativeMinor`, `MCMarkSweep` | constants for TLC | |

`MarkPhase` in `MajorHeap` blackens any subset of the objects in one step: which subset is
what `Mark` is about.  A collection in `GenHeap` is one step whose effect is what the other modules establish: what
is reachable is promoted or kept, every pointer to it follows, the rest is freed.  There the
major heap has a number of words and no addresses.  A promotion or an allocation fails when the
words do not suffice, and it may fail before that: `n` free words beside and between the objects
of `S` may leave no run of `wh` words if `n <= (Cardinality(S) + 1) * (wh - 1)`.  Whether they do
is left open; every such failure of the code is a behaviour of the model.  `allocate` in `Cheney` picks any block not in use or fails: where it
finds the block and when it fails is what `MajorHeap` is about.

`MinorWords` lies below `Cheney`: there pointers are blocks with a distance and nothing can be
mistaken for anything else; here a header, an infix header, an immediate and an address are
words, an immediate of a closure may have the bits of an infix header, and raw data the bits
of an address.  What `Cheney` says about the order of the steps, partial failure included, is
not repeated.  `MarkSweep` implements `ObjectGraph` by reading the program's view off the
heap through its own roots; a collection is a stutter of the abstract specification.

## Runs

| run | configuration | shows |
|---|---|---|
| `mark` | `MCMark.cfg` | graphs of four blocks (the first with two fields and a pointer in the first of them, the second a closure with an infix header, the third with a pointer to one of two blocks or none, the last without pointers), two roots or three including an infix pointer, one block tagged no-scan or none, every well-formed set of free blocks, stacks of one or two entries: marking is exact and terminates. A stack of one overflows on every block with two white children, and rescans overflow again, so all paths of the overflow logic are taken. |
| `major_heap` | `MCMajorHeap.cfg` | ten words, sizes 1 to 3, any sequence of allocations and collections: up to three blocks on the free list with objects between them, so that blocks are taken from the head, the middle and the end of the list; refinement of `BlockStore`; `verified_allocate` returns |
| `zero_size` | `MCZeroSize.cfg` | seven words, a request of size zero; expected violation, see Findings |
| `cheney` | `MCCheney.cfg` | three minor blocks, the second a closure with an infix header, the third possibly no-scan, an old block whose remembered field is listed twice, one or three roots, room for three copies and an allocation that may fail at any time |
| `gen_heap` | `MCGenHeap.cfg` | three small objects and a large one, two roots, a minor heap of two small objects, a major heap that holds two small objects and the large one: every sequence of allocations, stores, losses and collections. Promotion through the threshold and without it, promotion that fails for want of words or of one block, allocation that succeeds at once, after a collection or never, all occur. |
| `gen_fatal` | `MCGenFatal.cfg` | five small objects and a large one, one root, a minor heap of one small object and a major heap of eight words; expected violation, see Findings |
| `mark_sweep` | `MCMarkSweep.cfg` | six words, two roots, scanned objects of one field, raw data of two words and closures of two functions, which fill the heap: every sequence of allocations, stores and losses, with collections that the program asks for and that a failed allocation asks for. An object that leaves a word of its block uncovered and a pointer to an infix header both occur; the properties speak of behaviours up to the first of them |
| `ms_gray_stack` | `MCGrayStack.cfg` | the same with the top of the bridge; expected violation, see Findings |
| `ms_spare_word` | `MCSpareWord.cfg` | `mark_sweep` without closures: what a sweep makes of an uncovered word; expected violation, see Findings |
| `ms_infix` | `MCInfix.cfg` | `mark_sweep` without raw data: what becomes of a closure held by its second function; expected violation, see Findings |
| `minor_words` | `MCMinorWords.cfg` | a minor heap of seven words with cells, raw data, and closures with one infix header and one immediate that may look like one; a major heap of a free block, an old object and a free block, in which one more object may be allocated; four entries in the roots array, so that infix parents are dropped; both ways of the collection |
| `native_minor` | `MCNativeMinor.cfg` | eight words, requests of two, three and seven words, a threshold that is met and not |

`CHECK_DEADLOCK FALSE` is set where the modelled call returns and the model stops (marking
and minor collection, in `Cheney` and in `MinorWords`), and in `GenHeap` and `MarkSweep`, where
a fatal error ends the process.  The runs of `MajorHeap` and `NativeMinor` check deadlock.  Names of
objects of one size are interchangeable in `GenHeap`, and so are roots: its runs use symmetry, and check
no liveness property.

Bounds.  Marking has three boundary conditions (stack full, stack empty, end of walk), all
reached with two entries and four blocks; termination is a lexicographic argument over the
number of blocks that are not black, which is not sensitive to size.  In the major heap the
cases of `allocate` differ by the leftover (0, 1, 2 or more) and by the place in the list
(first or not); those of the sweep by the length of a run (1, 2, 3 or more).  Ten words
reach all of them, in all combinations that ten words can hold.  In the minor
collection the cases differ by the kind of pointer (not minor, forwarded, infix with a
forwarded closure, infix without, plain) and by whether allocation succeeds.

In `GenHeap` the distances that matter are a remembered object that dies with a live target,
a chain of two young objects behind a remembered slot, and a major heap that garbage fills or
cuts into pieces; three or four objects suffice for each.

In `MarkSweep` six words hold three objects, or free blocks between them, so that the list is
extended by a sweep while older blocks are on it, and a block is taken from its head and from
behind it.  The leftover of an allocation is anything from 0 to 4, a spare word included.  `EndSweep` has a bound:
the model stops with the first collection that ends after a breach of the contract.  That
collection is modelled to its end, as `ms_spare_word` and `ms_infix` show; it may leave anything in the roots
and the free list, and what an allocation then overwrites says nothing more about the code.

In `MinorWords` a closure needs four words with its infix header, so that seven
words hold one with another object before or after it; what the passes confuse is decided
inside one object, or by the header before it.  `MaxMajor` and `MaxSlots` are bounds of the
model: two objects allocated in the major heap, the old one included, and one remembered
slot.  In `NativeMinor` the
requests fill eight words exactly, nearly or not.

The runs of `Mark` and `GenHeap` check their type invariants.  Those of `Cheney`,
`MajorHeap`, `MarkSweep`, `NativeMinor` and `MinorWords` are proved and not checked by a run.

Fairness.  `FairSpec` is weak fairness of the collector's own steps: the program is stopped
while a collection or an allocation runs, and the loops are sequential code.  Nothing is
assumed about the program: in `MajorHeap`, `Request` and `StartCollection` are not fair.  In
`NativeMinor` fairness is that of `Dispatch`: the runtime goes on with the allocation it has
started.  Callbacks and collections served inside the loop (`PendingAction`) are not fair and
may come at any time.  `Cheney`, `GenHeap`, `MinorWords` and `MarkSweep` state no fairness and
check no liveness.

## What is proved

`MarkProofs` proves, for every heap, root array, set of no-scan blocks and stack capacity:
`Spec => []P` for `P` each of `TypeOK`, `StackIsGraySet`, `TriColor`, `RescanCovers`,
`OnlyReachableMarked` and `MarkExact` (theorems `TypeCorrect`, `StackCorrect`,
`TriColorHolds`, `RescanComplete`, `Precise`, `MarkCorrect`).

The inductive invariant `IInv` is the conjunction of these statements, but for `MarkExact`,
and of

* `BlueUnreached`: no reachable block is free;
* `RootsDarkened`: the roots already visited, or all of them once the loop over them is
  over, lead to no white block;
* `ScanOK`: the block under scan is black, scannable and its cursor is in range;
* `WalkAhead`: a rescan started from an empty stack, so that it is full only if it pushed;
* `NoGrayAtEnd`: after the last walk no block is gray.

`MarkExact` is not inductive: it speaks of the last state only.  It follows from `IInv`: at
the end nothing is gray, so by `TriColor` the black blocks are closed under `Children`, by
`RootsDarkened` they contain what the roots lead to, hence all of `Reachable`, which is
defined as the least such set; the converse is `OnlyReachableMarked`.  The walk is where the
argument is delicate: that an empty stack at the end of a walk means no gray block anywhere
needs `RescanCovers`, whose escape, a full stack, contradicts emptiness because a stack has
at least one entry (`CapacityAssumption`, which `do_full_gc` ensures).

`MarkingAdvances` proves of termination what can be proved here: every step lowers a measure
of three natural numbers in their lexicographic order.  They are the number of blocks that
are not black (`blocksLeft`), the loops still to come while none is blackened (`stagesLeft`),
and the iterations of the running loop (`iterationsLeft`).  Rescans do no harm, since a walk
that leaves something on the stack is followed by `MarkStep`, which blackens a block, and one
that leaves nothing ends the marking.  No behaviour takes infinitely many steps, then; that
the next one is taken is the fairness of `FairSpec`, which only TLC uses.

The assumptions are those named in `Mark`: there is a block, infix headers lie in blocks and
are distinct from them, contents and roots are sequences of words, capacities are positive.
The invariance proof has one step per action and one below it per conjunct.

`GenHeapProofs` proves, for any objects, roots and sizes of the two heaps, `Spec => []P` for
`P` each of `TypeOK`, `NoDangling`, `RefTableComplete`, `RefTableValid` and
`MinorRoomAfterGC` (theorems `TypeCorrect`, `PointersSound`, `Remembered`, `TableValid`,
`RoomAfterCollection`), and the two action properties `Transparent` and `FullPrecise`
(`CollectionInvisible`, `FullCollectionPrecise`).  Its inductive invariant adds to the first
four

* `BumpZero`: a bump counter of zero means an empty minor heap, which is what makes it right
  for `do_minor_gc_core` to return early;
* `Resumes`: an allocation that waited resumes with the bump counter at zero, so that
  `caml_make_vect` may store its initial value without a barrier, and
  `verified_allocate_minor` finds room;
* `Pending`: the call that waits is the outermost one and its object is still free: a
  collection run from inside another one resumes nothing;
* `NeverFailed`: the fatal error of `verified_allocate_minor` is not on the stack.

That a collection keeps it comes from `Promotable` and `Marked` being least closed sets:
`CollectionSafe` shows that promoting and rewriting leave every pointer sound if the sweep
spares what is still pointed to, and `FullInv` that what `gen_gc` marks is spared.
`Transparent` needs one more fact, `LiveMarked`: the mark phase follows only pointers into
the major heap, and reaches everything live because the minor phase rewrote the others.
The assumptions are `NamesAssumption` and `SizesAssumption` of `GenHeap`: finitely many
objects, positive sizes, and a minor heap in which any small object fits.

`NativeMinorProofs` proves, for every size of the minor heap, threshold and set of requests,
`TypeOK`, `YoungIntact` and `PromotedIsUpperBound` of `NativeMinor` (`TypeCorrect`,
`YoungSafe`, `EstimateSound`).  The invariant speaks of `settled`, where `young_ptr` stands
once the allocation under way is undone: compiled code decrements before it compares, so
`young_ptr` itself may be below the heap.  Above `settled` lies everything fresh, hence the
copy made when a collection starts bounds what the collection promotes.  The assumption is
`MinorAssumption`: a minor heap that is not empty, and requests that fit in it.

`GenHeapProofs` also proves two statements about counters for any sizes,
`PromotedIsUpperBound` and `PromotionBudget` (`EstimateConservative`, `BudgetKept`).  The second
is about promotions that fail because the free words do not add up (`ShortOfWords`): then what
promotion did not put in the major heap takes all but half of it and a minor heap.  It says
nothing of a promotion that fails because the words are scattered: against that the threshold
is no guarantee, and no run checks the statement.  To its `IInv` they add
that only small objects are in the minor heap and `bump` counts all their words
(`MinorCounted`), that no more than half the major heap has been promoted since the last full
collection (`PromotedBounded`), and that a minor collection about to run has passed the
threshold test or finds the minor heap empty (`CoreReady`): this is what carries the test
made by `do_minor_gc` over the full collection it may run first.

`CheneyProofs` proves, for every minor and major heap, remembered set and root array and
whatever `allocate` answers, `TypeOK`, `SharingKept`, `QueueExact`, `PromotesLive`,
`NoMinorLeft` and `RootsMoved`, and that `internal error` is never reached (`TypeCorrect`,
`SharingPreserved`, `QueueNeverDrops`, `PromotionExact`, `MinorHeapForgotten`, `RootsFollow`,
`WriteBackSafe`).  The invariant has a part that holds throughout (types, sharing, the queue,
`CopiesPlaced`) and one part per loop that says what the loop has done when its cursor has
come so far: slots collected, roots forwarded, fields of queued blocks forwarded, copies
rewritten, slots rewritten.  Each clause about completeness is excused by `oom`.  The old
heap starts with every pointer into the minor heap remembered (`OldRemembered`, the
assumption on the initial state that `RefTableComplete` of `GenHeap` establishes); a slot that
is in the root array twice, or a closure known by an infix pointer first, is where the
argument is delicate.  `QueueExact` rests on counting: a queue without repetition has no more
entries than there are blocks.  The assumptions are those of `Cheney` about the sizes of its
sets.

`MajorHeapProofs` proves about `MajorHeap`, for heaps of any length and any set of requests
without the size zero, `TypeOK`, `LiveIntact`, `HeapWalkable`, `FreeListExact`,
`FailureMeansNoFit` and `SweepCoalesces` (`TypeCorrect`, `ObjectsIntact`, `Walkable`,
`FreeListCorrect`, `FailureExact`, `SweepMerges`), and that `MajorHeap` implements
`BlockStore` (`StoreImplemented`).  The properties speak of a walk by header sizes and of
following links; the invariant speaks of sets instead:

* there is a set of headers that tiles the heap from its first word to its end
  (`Tiled`): each block ends where another begins, or at the end of the heap;
* blocks in use are white, hold what the program stored and are the objects of `live`
  (`Settled`, `Intact`); no two free blocks are adjacent (`Coalesced`), and no header is the last word of
  the heap (`HaveField`), where the sweep would stop short of it;
* the free list holds exactly the free blocks with a field, from the highest address down
  (`Descending`), because a sweep pushes each block on the list and allocation keeps the
  order: hence the list ends, and `fuel`, the number of words up to the end of the heap,
  cannot run out (`SearchInv`);
* during a sweep the heap is in three parts: the blocks `P` that are done, the pending run of
  free words, and the blocks `U` ahead, of which the black ones are in use.

From the tiling to the walk, and from the order to the chain of links, leads an induction on
the number of steps.  The induction theorems of the library cannot be used with the installed
provers; `HeapLemmas` replaces them by `Induction`, about the set of numbers that have the
property, whose proof takes a least counterexample.  The hypothesis `0 \notin Requests` is
necessary: run `zero_size` shows what a request of size zero does.  The third conjunct of `RequestAssumption`,
that `NoRequest` is no request, only fixes the meaning of a model value.  For the refinement the
step that grants a block needs that the block lies in a gap (`BlockTakenFree`), and the one that refuses
that no gap is large enough (`NoGap`), which needs `Coalesced` after a collection.

`RuntimeAdvances` is about `Returns`: as long as the program waits, every step lowers the
stage of the call (search, mark, sweep, second search) or, within a stage, the fuel of the
search or the part of the heap that is still to be swept.  A request collects at most once
because `CallInv` knows that a sweep on behalf of one is followed by its second search.

`MinorWordsProofs` proves about `MinorWords`, for heaps of any length at any addresses, any
requests and any numbers of roots and slots, `TypeOK` (`TypeCorrect`) and all that its run
checks: `ParentsFound`, `CopiesExact`, `NoMinorLeft`, and the action properties
`TranslateExact`, `SynthesisExact` and `MajorKept` (`ParentsAdded`, `CopiesFaithful`,
`NoDanglingPointer`, `TranslationFaithful`, `SynthesisFaithful`, `MajorObjectsKept`).  Here
every pass reads words, and each conjunct of the invariant rules out one thing that a word
could be taken for:

* `MinorTiled`: the objects lie one behind the other from the start of the minor heap to
  `bump`, with their headers between them.  From it follows what the walks visit
  (`VisitedIs`): the headers of the objects and nothing else, although a walk stops at any
  word whose size looks wrong;
* `MinorFields`: a word of a scanned field is odd, an address of the major heap, or leads to
  an object or an infix header (`Sound`).  Raw data may be anything.  Nothing is said of
  the immediates of closures that read as an infix header: the passes that meet one treat
  the closure around it, and `VisitedFieldsAre` says that this is an object;
* `MajorBlocks`: the major heap is tiled, its free list exact (`Listed`, as in
  `MajorHeapProofs`), and its blocks in use are the objects of the program and the copies,
  each with the header it should have, no copy where an object is.  Hence a pass over the
  whole heap meets those and nothing else (`ScannedBlocksAre`);
* `Remembered`: a field of the major heap that leads to the minor heap is in `slots`, then
  its target in `roots`, and after the last pass there is none;
* `Forwarded`: an object has a forwarding address exactly if it is in `queue`, and an infix
  header only with its closure and at its distance.  Other words get an entry only from
  `synthesize_infix_forwarding`, in the legacy way, when nobody promotes any more;
* `CopyWords`: a copy holds the words of its object until the pass over the copies, and
  their images after it;
* `Roots`, `Progress`, `Control`: roots are pointers of the program until they are
  rewritten, what is behind the cursors is forwarded unless `oom`, and `oom` never gets past
  the promotion.

The delicate places are an infix pointer that is met before its closure, where one step
records two entries (`RecordedIs`, `ForwardInv`); that the pass over the copies, which finds
them in `fwd_arr`, updates each field once even if several entries lead into one copy, because
an entry for an infix header leads to a word with the tag of one (`PromotedFields`); and that
what a pass writes is never an address of the minor heap, so that rewriting twice is harmless
(`RewrittenIs`).  `allocate` is the one of `MajorHeap` as a function; `AllocateCarves` says
what it takes from which free block, by the lemmas of `HeapLemmas` on which
`MajorHeapProofs` rests too.  The assumptions are `SizesAssumption`, `RequestsAssumption` and
`HeapAssumption`: aligned heaps that do not overlap, in either order (`ensure_heap` takes both
from the C library), at addresses larger than any offset, objects of one word or more whose
tag is a byte but not that of an infix header, and closures that hold a code word first and
one after each infix header.  They do not bound the heaps, the objects, `RootCap`,
`MaxMajor` or `MaxSlots`.  The free block at the end of the first major heap takes what the
other two leave (`HighWz`), so the theorems hold for every length of it.

`MarkSweepProofs` proves about `MarkSweep`, for heaps of any length, any number of roots, any
stack and any sizes and tags asked for, `FreeListExact`, `GarbageFreed` and `GraphSpec`, the
refinement of `ObjectGraph` (`FreeListCorrect`, `GarbageFreedExactly`, `GraphImplemented`), and
`StackExact` as long as `StackInBounds` holds (`StackCorrect`).  Each of them speaks of a
behaviour up to the first step that breaks the contract of `collect`.  That is part of the
properties (`contract =>`), not a hypothesis about the program: the runtime does break it, by taking
a block one word larger than its object, by asking for an object without a word, and by
giving out a pointer to an infix header, and what is claimed ends there.  `ContractStep` says
that the contract, once broken, stays so, which is why `contract => IInv` is inductive.

`RuntimeAdvances` is the like for `MarkSweep`, where no run checks liveness: the measure is
the stage of the call, the blocks to be marked, and the iterations of the loop.  The search
of the free list has no fuel here (`allocator_alloc`) and a list with a cycle would keep it
busy for ever.  What falls is the number of free blocks that follow along the links from
the one the search looks at (`Ahead`); that the search never comes back to a block is a
consequence of the rank in `ListInv`.

`StackBounded` and `TypeCorrect` are about the stack the bridge allocates, the larger of 4096
and an eighth of the number of words (`BridgeStack`), and about heaps of at most 64 KB
(`SmallHeap`).  A block takes two words or more, so 4096 entries are enough for 8192 words
(`SmallHeapFits`).  In a larger heap, the default of 256 MB included, an eighth of the words is
less than the number of blocks there may be: nothing in the code keeps `push` from leaving the
storage, and `StackCorrect` holds up to the step that does.  All of this is about `Spec`, where
the stack starts empty; with the top of the bridge the first push leaves the storage.

The invariant again speaks of sets.  Since this sweep merges nothing, one set of headers,
`Headers`, tiles the heap throughout, sweeps included, and only `TakeBlock` changes it
(`TakeBlocks`); that the header the caller writes covers the whole block is where the
contract is used.  Beside the tiling it consists of

* `ListInv`: the free list is `Linked`, that is, there is a rank that falls by one with each
  link and tells the free blocks apart.  The list is in no order of addresses, since a sweep
  pushes onto what the allocator left; the rank replaces the order, and from it follow that
  the list ends and holds no block twice (`ChainIs`);
* `PointersInv`: roots and `Survivors`, the blocks a sweep that has come this far will have
  kept, lead only to `Survivors`.  Outside a sweep these are the blocks in use, at its start
  the black ones, and that they are closed then is where marking enters (`EndMarkFacts`);
* `RootsDarkened`, `TriColor`, `ScanInv`: what is black leads to no white block, but for the
  fields of the block under scan that are still ahead;
* `StackInv`: the stack holds the gray blocks, each once.  It is stated for `top >= 0`; once a push
  has left the storage the model stops, and the rest of the invariant still holds;
* `SearchInv`, `SweepInv`, `ColourInv`: where a search and a sweep stand, and which colours
  occur in which phase.

That a collection keeps no garbage needs a second invariant, `MarkedReachable`: what is
marked is reachable.  `Reachable` is computed by a recursive function, in as many rounds as
the heap has words; `Reach` shows that this is the least set that holds what the roots lead
to and is closed under `pointees`, since a set of addresses cannot grow more often than there are
addresses (`Saturated`).  `ObjectGraph` defines what is reached by what is lost, without a
recursion; `GraphReached` shows that the two agree.  The refinement then has one lemma per
step of the program (`GraphStore`, `GraphForget`, `GraphAllocate`), and `GraphStutter` for
all steps of the collector and of a search, by `ViewKept`.  The assumptions are those of `WordHeap` and
`MarkSweep`: a heap of two words or more at an aligned address that is not zero, a stack with
an entry, a number of roots, tags that are bytes.

Only model-checked: the liveness properties `MarkTerminates`, `Returns` and `AllocReturns`,
since the prover does not reason about fairness or ENABLED.  `MarkingAdvances` and
`RuntimeAdvances` prove the half of the first two that needs neither.  Every other property of a passing
run is a theorem, those of `MajorHeap` for requests that are not of size zero, `StackExact` of
`MarkSweep` while `StackInBounds` holds.

## Findings

* `zero_size`.  `verified_allocate` normalises a request of size zero to one, to stay in
  step with `alloc_spec`; `caml_alloc_shr_aux` then writes the header with size zero.
* `gen_fatal`.  A promotion that fails ends the process with "live set exceeds heap
  capacity".  The live set may be one small object: `do_full_gc` promotes before it sweeps,
  so what it needs is room beside the garbage it is about to free, and the threshold of
  `do_minor_gc` does not count blocks allocated directly in the major heap nor what survived
  the last collection.  The run needs no fragmentation.  `PromotionBudget` states what the
  threshold does guarantee, about words and not about their places.
* `ms_gray_stack`.  The gray stack of the mark-and-sweep collector grows downwards from
  `cap`; its bridge starts it with top 0 (`alloc.c:105`) and then "pushes live object headers
  onto the gray stack".  `push` does not test for room and `top` is unsigned: the first root
  goes to `storage[SIZE_MAX]`, before the array, and an empty stack looks full.
* `ms_spare_word`.  A free block of the mark-and-sweep collector that is one word larger than
  the request is handed out whole with its size in the header ("Use entire block (no split)",
  `mark-and-sweep/ocaml-integration/verified_gc/allocator.c:106`).  The patched
  `Alloc_small_aux` and `caml_alloc_shr_aux` write the header again with the size they asked
  for, and the last word of the block is covered by no header.  The next sweep reads as a header whatever
  that word held before.  In the run this is a word of dead raw data, which as a header spans
  the free block behind it: a free list that should run "through dead objects' first fields"
  (`allocator.h:3`) runs through a word that is none.
* `ms_infix`.  The mark-and-sweep collector does not look for the closure around an infix
  header.  The patched interpreter writes infix headers black ("prevents sweep of
  sub-closures", `mark-and-sweep/ocaml-integration/README.md:89`), but no sweep sees them, and
  marking takes the black header for a block that is done.  A closure that is held only by the
  address of its second function is not marked, and freed.

### Observations

Read off the code while modelling; no run of the project is about them.

* `do_full_gc` of native code makes `bump_ref` agree with `young_ptr`, empties the minor heap
  and resets `bump_ref` only.  Until the next minor collection the space stays unused, and that
  collection counts it again; `YoungIntact`, `EstimateSound` and `AllocReturns` hold all the
  same.
* `find_infix_parents` and `synthesize_infix_forwarding` also take an immediate with the low
  byte 249 for an infix header.  `ParentsFound` and `SynthesisExact` say why this is harmless:
  what becomes a root is the closure around it, which is an object, and no entry of another
  object changes.

## What remains

Every safety and action property of the runs that pass is proved.  What the models leave out
is listed under Not modelled.  One extension would say more: the order of `MinorWords`'
passes as a refinement of `Cheney`; the two share their properties but not their states.
