----------------------------- MODULE NativeMinor -----------------------------
(***************************************************************************)
(* The minor heap of native code (NATIVE_CODE in ocaml-integration/        *)
(* verified_gc/alloc_gen.c).  Compiled code allocates downwards by         *)
(* decrementing young_ptr and traps when it passes young_limit; the        *)
(* collector counts the bytes in use in bump_ref, a copy that is made when *)
(* a collection starts.  All sizes are words.  Module GenHeap is about     *)
(* bytecode, where bump_ref is the only pointer.                           *)
(***************************************************************************)
EXTENDS Integers

CONSTANTS
  MinorWords,  \* words of the minor heap: young_alloc_start is 0, young_alloc_end this
  Threshold,   \* words promoted that make do_minor_gc run a full collection
  Requests     \* sizes of objects, headers included

ASSUME MinorAssumption ==
  /\ MinorWords \in Nat \ {0} /\ Threshold \in Nat
  /\ Requests \subseteq 1 .. MinorWords /\ Requests # {}

young_alloc_end == MinorWords
young_trigger == 0

VARIABLES
  young_ptr,
  bump_ref,
  bytes_promoted_since_major,
  pc,        \* program; dispatch and retry inside caml_alloc_small_dispatch
  whsize,    \* the request caml_alloc_small_dispatch serves, or 0
  fresh,     \* history: words allocated since the last collection, not yet moved
  promoted   \* history: words promoted since the last full collection

heapVars == <<young_ptr, bump_ref, bytes_promoted_since_major, fresh, promoted>>
vars == <<heapVars, pc, whsize>>

\* vergc_native_minor_startup_init.
Init ==
  /\ young_ptr = young_alloc_end /\ bump_ref = 0
  /\ bytes_promoted_since_major = 0
  /\ pc = "program" /\ whsize = 0
  /\ fresh = 0 /\ promoted = 0

used == young_alloc_end - young_ptr
\* Mutant: bump_ref is read as it is.
synced_Stale == bump_ref

\* What vergc_sync_bump_ref_from_young_ptr writes to bump_ref.
synced == IF used > MinorWords THEN MinorWords ELSE used

\* minor_collect_full, then the sweep: what survived is no longer counted.
FullCollection ==
  /\ fresh' = 0 /\ promoted' = 0
  /\ bump_ref' = 0
  /\ bytes_promoted_since_major' = 0

\* do_full_gc.  young_ptr stays where it was.
do_full_gc == FullCollection /\ UNCHANGED young_ptr

\* do_minor_gc, bump being the synchronised bump_ref.
do_minor_gc(bump) ==
  \/ /\ bump = 0
     /\ bump_ref' = 0
     /\ UNCHANGED <<bytes_promoted_since_major, fresh, promoted>>
  \/ /\ bump # 0 /\ bytes_promoted_since_major + bump > Threshold
     /\ FullCollection
  \/ /\ bump # 0 /\ bytes_promoted_since_major + bump <= Threshold
     /\ \E survivors \in 0 .. fresh : promoted' = promoted + survivors
     /\ fresh' = 0
     /\ bump_ref' = 0
     /\ bytes_promoted_since_major' = bytes_promoted_since_major + bump

\* Mutant: young_ptr is not reset.
young_ptr_after_Kept == young_ptr

young_ptr_after == young_alloc_end

vergc_native_run_minor_collection ==
  /\ do_minor_gc(synced)
  /\ young_ptr' = young_ptr_after

\* caml_minor_collection: verified_do_minor_gc.
verified_do_minor_gc ==
  /\ pc = "program" /\ young_ptr # young_alloc_end
  /\ vergc_native_run_minor_collection
  /\ UNCHANGED <<pc, whsize>>

\* verified_allocate after a failure, or caml_trigger_verified_gc.
Full ==
  /\ pc = "program"
  /\ do_full_gc
  /\ UNCHANGED <<pc, whsize>>

Take(w) == young_ptr' = young_ptr - w /\ fresh' = fresh + w
           /\ UNCHANGED <<bump_ref, bytes_promoted_since_major, promoted>>

\* The code ocamlopt emits: decrement young_ptr and compare.
FastAlloc ==
  /\ pc = "program"
  /\ \E w \in Requests : young_ptr - w >= young_trigger /\ Take(w)
  /\ UNCHANGED <<pc, whsize>>

\* young_limit is passed: there is no room, or a signal has raised young_limit.
SlowAlloc ==
  /\ pc = "program"
  /\ \E w \in Requests : young_ptr' = young_ptr - w /\ whsize' = w
  /\ pc' = "dispatch"
  /\ UNCHANGED <<bump_ref, bytes_promoted_since_major, fresh, promoted>>

\* caml_alloc_small_dispatch first undoes the allocation.
undone == young_ptr + whsize

Undo ==
  /\ pc = "dispatch"
  /\ young_ptr' = undone
  /\ pc' = "retry"
  /\ UNCHANGED <<bump_ref, bytes_promoted_since_major, fresh, promoted, whsize>>

\* A callback or a requested collection served inside the loop.
PendingAction ==
  /\ pc = "retry"
  /\ do_full_gc \/ (young_ptr # young_alloc_end /\ vergc_native_run_minor_collection)
  /\ UNCHANGED <<pc, whsize>>

hasRoom == young_ptr - whsize >= young_trigger

Collect ==
  /\ pc = "retry" /\ ~hasRoom
  /\ vergc_native_run_minor_collection
  /\ UNCHANGED <<pc, whsize>>

Retry ==
  /\ pc = "retry" /\ hasRoom
  /\ Take(whsize)
  /\ pc' = "program"
  /\ whsize' = 0

Dispatch == Undo \/ Collect \/ Retry
Next == FastAlloc \/ SlowAlloc \/ Full \/ verified_do_minor_gc \/ PendingAction \/ Dispatch

\* The runtime goes on with the allocation it has started.
Spec == Init /\ [][Next]_vars /\ WF_vars(Dispatch)

-----------------------------------------------------------------------------
(* Properties *)

TypeOK ==
  /\ young_ptr \in IF pc = "dispatch" THEN -MinorWords .. MinorWords ELSE 0 .. MinorWords
  /\ bump_ref \in 0 .. MinorWords
  /\ bytes_promoted_since_major \in 0 .. Threshold
  /\ fresh \in 0 .. MinorWords /\ promoted \in Nat
  /\ pc \in {"program", "dispatch", "retry"}
  /\ whsize \in Requests \cup {0} /\ (whsize = 0 <=> pc = "program")

\* The objects allocated since the last collection are still there, between
\* young_ptr and the end of the heap: young_ptr goes back only when a collection
\* has moved them, which do_minor_gc decides by bump_ref.
YoungIntact == fresh <= used

\* The estimate behind the 50% threshold never falls behind what was promoted,
\* although it is taken from a copy of young_ptr.
PromotedIsUpperBound == promoted <= bytes_promoted_since_major

\* caml_alloc_small_dispatch comes to an end: the collection makes room, even
\* when full collections have left young_ptr behind.
AllocReturns == pc = "dispatch" ~> pc = "program"
=============================================================================
