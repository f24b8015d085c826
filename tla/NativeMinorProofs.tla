-------------------------- MODULE NativeMinorProofs --------------------------
(***************************************************************************)
(* The safety of the minor heap of native code, for every size of the heap, *)
(* every threshold and every set of requests.  The copy in bump_ref is not  *)
(* trusted between collections: what carries the proof is where young_ptr   *)
(* will be once a started allocation is undone.                             *)
(***************************************************************************)
EXTENDS NativeMinor, TLAPS

\* Where young_ptr stands when no allocation is half done.
settled == IF pc = "dispatch" THEN young_ptr + whsize ELSE young_ptr

Settled == settled \in 0 .. MinorWords /\ fresh <= young_alloc_end - settled

IInv == TypeOK /\ Settled /\ PromotedIsUpperBound

-----------------------------------------------------------------------------
(* Collections, which run only when no allocation is half done.             *)

\* What is left of n after k of it is not negative.
LEMMA InRange ==
  ASSUME NEW n \in Nat, NEW k \in 0 .. n
  PROVE  n - k >= 0
OBVIOUS

\* do_full_gc leaves young_ptr where it was, and the callers of do_minor_gc put
\* it at the end: either way nothing below it is in use.
LEMMA FullKeeps ==
  ASSUME IInv, pc # "dispatch", FullCollection,
         young_ptr' \in {young_ptr, young_alloc_end}, UNCHANGED <<pc, whsize>>
  PROVE  IInv'
<1>1. young_ptr' \in 0 .. MinorWords /\ settled' = young_ptr'
  BY MinorAssumption DEF IInv, TypeOK, settled, young_alloc_end
<1>2. TypeOK'
  BY <1>1, MinorAssumption DEF IInv, TypeOK, FullCollection
<1>3. Settled'
  <2>1. young_ptr' \in 0 .. MinorWords /\ MinorWords \in Nat
    BY <1>1, MinorAssumption
  <2>2. MinorWords - young_ptr' >= 0
    BY <2>1, InRange
  <2>3. fresh' = 0
    BY DEF FullCollection
  <2> QED
    BY <1>1, <2>1, <2>2, <2>3 DEF Settled, young_alloc_end
<1>4. PromotedIsUpperBound'
  BY DEF PromotedIsUpperBound, FullCollection
<1> QED
  BY <1>2, <1>3, <1>4 DEF IInv

\* The words that survive are among those young_ptr accounts for, so that the
\* synchronised copy is an upper bound of them.
LEMMA MinorKeeps ==
  ASSUME IInv, pc # "dispatch", vergc_native_run_minor_collection, UNCHANGED <<pc, whsize>>
  PROVE  IInv'
<1>1. synced = MinorWords - young_ptr /\ fresh <= synced /\ synced \in 0 .. MinorWords
  BY MinorAssumption DEF IInv, TypeOK, Settled, settled, synced, used, young_alloc_end
<1>2. young_ptr' = young_alloc_end
  BY DEF vergc_native_run_minor_collection, young_ptr_after
<1>3. CASE synced = 0 /\ bump_ref' = 0 /\ UNCHANGED <<bytes_promoted_since_major, fresh, promoted>>
  BY <1>1, <1>2, <1>3, MinorAssumption
     DEF IInv, TypeOK, Settled, settled, PromotedIsUpperBound, young_alloc_end
<1>4. CASE FullCollection
  BY <1>2, <1>4, FullKeeps
<1>5. CASE /\ bytes_promoted_since_major + synced <= Threshold
           /\ \E survivors \in 0 .. fresh : promoted' = promoted + survivors
           /\ fresh' = 0 /\ bump_ref' = 0
           /\ bytes_promoted_since_major' = bytes_promoted_since_major + synced
  BY <1>1, <1>2, <1>5, MinorAssumption
     DEF IInv, TypeOK, Settled, settled, PromotedIsUpperBound, young_alloc_end
<1> QED
  BY <1>3, <1>4, <1>5 DEF vergc_native_run_minor_collection, do_minor_gc

-----------------------------------------------------------------------------
\* The invariant holds at the start, and every step keeps it.
LEMMA Initially == Init => IInv
BY MinorAssumption
   DEF Init, IInv, TypeOK, Settled, settled, PromotedIsUpperBound, young_alloc_end

LEMMA Step == IInv /\ [Next]_vars => IInv'
<1> SUFFICES ASSUME IInv, [Next]_vars PROVE IInv'
  OBVIOUS
<1> USE MinorAssumption
<1>1. CASE FastAlloc
  BY <1>1 DEF FastAlloc, Take, young_trigger, IInv, TypeOK, Settled, settled,
              PromotedIsUpperBound, young_alloc_end
<1>2. CASE SlowAlloc
  BY <1>2 DEF SlowAlloc, IInv, TypeOK, Settled, settled, PromotedIsUpperBound, young_alloc_end
<1>3. CASE Full
  BY <1>3, FullKeeps DEF Full, do_full_gc
<1>4. CASE verified_do_minor_gc
  BY <1>4, MinorKeeps DEF verified_do_minor_gc
<1>5. CASE PendingAction
  BY <1>5, FullKeeps, MinorKeeps DEF PendingAction, do_full_gc
<1>6. CASE Undo
  BY <1>6 DEF Undo, undone, IInv, TypeOK, Settled, settled, PromotedIsUpperBound, young_alloc_end
<1>7. CASE Collect
  BY <1>7, MinorKeeps DEF Collect
<1>8. CASE Retry
  BY <1>8 DEF Retry, Take, hasRoom, young_trigger, IInv, TypeOK, Settled, settled,
              PromotedIsUpperBound, young_alloc_end
<1>9. CASE UNCHANGED vars
  BY <1>9 DEF vars, heapVars, IInv, TypeOK, Settled, settled, PromotedIsUpperBound, young_alloc_end
<1> QED
  BY <1>1, <1>2, <1>3, <1>4, <1>5, <1>6, <1>7, <1>8, <1>9 DEF Next, Dispatch

LEMMA Invariance == Spec => []IInv
BY Initially, Step, PTL DEF Spec

\* The types hold for every heap size, threshold and set of requests: young_ptr
\* leaves the heap only between the decrement and its undoing.
THEOREM TypeCorrect == Spec => []TypeOK
<1>1. IInv => TypeOK
  BY DEF IInv
<1> QED
  BY <1>1, Invariance, PTL

\* No object that was allocated since the last collection is ever below
\* young_ptr: the space of an object is reused only after it has been moved.
THEOREM YoungSafe == Spec => []YoungIntact
<1>1. IInv => YoungIntact
  BY MinorAssumption DEF IInv, TypeOK, Settled, settled, YoungIntact, used, young_alloc_end
<1> QED
  BY <1>1, Invariance, PTL

\* The estimate the 50% threshold reads is never below the words promoted since
\* the last full collection.
THEOREM EstimateSound == Spec => []PromotedIsUpperBound
<1>1. IInv => PromotedIsUpperBound
  BY DEF IInv
<1> QED
  BY <1>1, Invariance, PTL
=============================================================================
