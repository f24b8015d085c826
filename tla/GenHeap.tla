------------------------------ MODULE GenHeap ------------------------------
(***************************************************************************)
(* The collector as the OCaml program meets it: do_minor_gc, do_full_gc,   *)
(* verified_allocate and verified_allocate_minor of ocaml-integration/     *)
(* verified_gc/alloc_gen.c (as the bytecode runtime builds them), the      *)
(* allocation macro and caml_minor_collection of patches/                  *)
(* runtime_gen.patch, and a program that allocates, stores and forgets.    *)
(*                                                                         *)
(* A collection is one step here: modules Cheney, Mark and MajorHeap are   *)
(* about what it does to memory.  An object keeps its name when it is      *)
(* promoted, and a pointer says in which heap the object was when the      *)
(* pointer was written, so that a pointer nobody rewrote dangles visibly.  *)
(* An object has one field.  The major heap is counted in words, and where *)
(* its free words lie is left open: allocate may fail whenever they can be *)
(* spread so that no free block is large enough.  Module MajorHeap is      *)
(* about the blocks.                                                       *)
(***************************************************************************)
EXTENDS Integers, Sequences, FiniteSets

CONSTANTS
  Small, Large,      \* names for the objects of each size alive at one time
  SmallWh, LargeWh,  \* their sizes in words, header included
  NoObj,             \* the target of a value that is not a pointer
  MinorWords,        \* words of the minor heap
  MajorWords,        \* words of the major heap
  RootVars           \* the program's roots

Objs == Small \cup Large

ASSUME NamesAssumption ==
  IsFiniteSet(Objs) /\ Small \cap Large = {} /\ NoObj \notin Objs
\* Small objects are those within max_young_wosize_u64; ensure_heap makes the
\* minor heap large enough for each of them.
ASSUME SizesAssumption ==
  /\ SmallWh \in Nat \ {0} /\ LargeWh \in Nat \ {0}
  /\ MajorWords \in Nat /\ MinorWords \in Nat /\ SmallWh <= MinorWords

VARIABLES
  where,      \* the heap each object is in, or "free"
  field,      \* the field of each object
  roots,      \* the program's root slots
  ref_table,  \* the major objects whose field is remembered
  bump,       \* *bump_ref, in words
  promoted,   \* bytes_promoted_since_major, in words
  copied,     \* history: the words really promoted since the last full collection
  stack,      \* the calls under way in the runtime, innermost first
  req         \* the allocation that waits for them

heap == <<where, field, roots, ref_table, bump, promoted, copied>>
vars == <<heap, stack, req>>

Minor(o) == [gen |-> "minor", obj |-> o]
Major(o) == [gen |-> "major", obj |-> o]
Null     == [gen |-> "none", obj |-> NoObj]
Values   == [gen : {"minor", "major"}, obj : Objs] \cup {Null}
is_minor(v) == v.gen = "minor"

In(g) == {o \in Objs : where[o] = g}
Words(S) == SmallWh * Cardinality(S \cap Small) + LargeWh * Cardinality(S \cap Large)
FreeWords == MajorWords - Words(In("major"))

\* n words can lie between and beside the objects of S in such a way that no run
\* of them is as long as wh.
Fragmented(n, S, wh) == n <= (Cardinality(S) + 1) * (wh - 1)

\* The smallest set of objects that holds the targets of the pointers of vs
\* of these kinds and, with each object, that of its pointer in f.
Reach(vs, f, kinds) ==
  LET Holds(S, v)  == v.gen \in kinds => v.obj \in S
      closed       == {S \in SUBSET Objs : /\ \A v \in vs : Holds(S, v)
                                           /\ \A o \in S : Holds(S, f[o])}
  IN  {o \in Objs : \A S \in closed : o \in S}

RootValues == {roots[r] : r \in RootVars}
Requests   == [kind : {"small", "shr", "vect"}, obj : Objs, src : RootVars, dst : RootVars]
NoReq      == [kind |-> "none"]

Init ==
  /\ where = [o \in Objs |-> "free"] /\ field = [o \in Objs |-> Null]
  /\ roots = [r \in RootVars |-> Null] /\ ref_table = {}
  /\ bump = 0 /\ promoted = 0 /\ copied = 0
  /\ stack = <<>> /\ req = NoReq

-----------------------------------------------------------------------------
(* The collections.                                                        *)

\* collect_minor_roots_and_refs: what the minor collection starts from.
MinorRoots == RootValues \cup {field[o] : o \in ref_table}
Promotable == Reach(MinorRoots, field, {"minor"})
Moved(v) == IF is_minor(v) THEN Major(v.obj) ELSE v

\* Mutant: the remembered slots keep their minor pointers.
Rewritten_NoSlots == Promotable
\* The objects whose field the collection rewrites: update_promoted_objects
\* and rewrite_heap_slots.
Rewritten == Promotable \cup ref_table

\* Mutants: the table is not emptied; minor_heap_reset is forgotten.
TableAfter_Kept == ref_table
BumpAfter_Kept == bump
\* What the collection leaves of the remembered set and of the minor heap.
TableAfter == {}
BumpAfter == 0

\* minor_collect_full, the write-back of the roots and the reset of the table
\* and of the minor heap; the objects of Swept are freed by a sweep as well.
PromoteAndFree(Swept) ==
  LET gone == (In("minor") \ Promotable) \cup Swept IN
  /\ where' = [o \in Objs |-> IF o \in gone THEN "free"
                              ELSE IF o \in Promotable THEN "major" ELSE where[o]]
  /\ field' = [o \in Objs |-> IF o \in gone THEN Null
                              ELSE IF o \in Rewritten THEN Moved(field[o]) ELSE field[o]]
  /\ roots' = [r \in RootVars |-> Moved(roots[r])]
  /\ ref_table' = TableAfter
  /\ bump' = BumpAfter

\* Some promotion finds no free block that is large enough, others having been
\* served before it.
Wh(o) == IF o \in Small THEN SmallWh ELSE LargeWh
PromotionMayFail ==
  \E Q \in SUBSET Promotable : \E o \in Promotable \ Q :
    /\ Words(Q) <= FreeWords
    /\ Fragmented(FreeWords - Words(Q), In("major") \cup Q, Wh(o))
ShortOfWords == Words(Promotable) > FreeWords

\* fatal_promotion_failed: the process ends.
Fatal == stack' = <<"fatal">> /\ UNCHANGED <<heap, req>>
Running(frame) == stack # <<>> /\ Head(stack) = frame
Return == stack' = Tail(stack) /\ UNCHANGED req

\* The test that turns a minor collection into a full one first.
OverThreshold == promoted + bump > MajorWords \div 2

\* do_minor_gc up to that test.
do_minor_gc ==
  /\ Running("minor")
  /\ UNCHANGED <<heap, req>>
  /\ stack' = IF bump = 0 THEN Tail(stack)
              ELSE IF OverThreshold
                   THEN <<"full", "core">> \o Tail(stack)
                   ELSE <<"core">> \o Tail(stack)

\* Mutant: it is read after the collection has reset the counter.
BumpBefore_After == BumpAfter
\* bump_before, read before.
BumpBefore == bump

\* The rest of do_minor_gc: do_minor_gc_core and the count of what it promoted.
do_minor_gc_core ==
  /\ Running("core")
  /\ \/ bump = 0 /\ Return /\ UNCHANGED heap
     \/ bump # 0 /\ PromotionMayFail /\ Fatal
     \/ /\ bump # 0 /\ ~ShortOfWords
        /\ PromoteAndFree({})
        /\ promoted' = promoted + BumpBefore
        /\ copied' = copied + Words(Promotable)
        /\ Return

\* Mutants: roots_for_gc is not rewritten by the minor phase; the remembered
\* objects are roots, not what they point to.
MarkRoots_Unmoved == RootValues
MarkRoots_Objects == {Moved(v) : v \in RootValues} \cup {Major(o) : o \in ref_table}

\* The roots gen_gc marks from: the rewritten values of the minor collection's
\* roots, a remembered slot counting only if it held a minor pointer.
MarkRoots ==
  {Moved(v) : v \in RootValues \cup {field[o] : o \in {p \in ref_table : is_minor(field[p])}}}
Marked ==
  Reach(MarkRoots, [o \in Objs |-> IF o \in Rewritten THEN Moved(field[o]) ELSE field[o]],
        {"major"})

\* do_full_gc: gen_gc promotes first, then marks and sweeps.
do_full_gc ==
  /\ Running("full")
  /\ \/ PromotionMayFail /\ Fatal
     \/ /\ ~ShortOfWords
        /\ PromoteAndFree((In("major") \cup Promotable) \ Marked)
        /\ promoted' = 0
        /\ copied' = 0
        /\ Return

-----------------------------------------------------------------------------
(* Allocation.  The new object's field is read from a root after any       *)
(* collection, and the object becomes the value of a root.                 *)

\* Mutant: the size of the request is left out.
MinorFits_NoSize == bump <= MinorWords
MinorFits == bump + SmallWh <= MinorWords

NewMinor(r) ==
  /\ where' = [where EXCEPT ![r.obj] = "minor"]
  /\ field' = [field EXCEPT ![r.obj] = roots[r.src]]
  /\ roots' = [roots EXCEPT ![r.dst] = Minor(r.obj)]
  /\ bump' = bump + SmallWh
  /\ UNCHANGED <<ref_table, promoted, copied>>

\* Alloc_small_aux: the fast path, or verified_allocate_minor, which collects.
Alloc_small(o, s, d) ==
  LET r == [kind |-> "small", obj |-> o, src |-> s, dst |-> d] IN
  /\ stack = <<>> /\ o \in Small \cap In("free")
  /\ \/ MinorFits /\ NewMinor(r) /\ UNCHANGED <<stack, req>>
     \/ ~MinorFits /\ stack' = <<"minor", "small">> /\ req' = r /\ UNCHANGED heap

\* verified_allocate_minor once its collection has returned.
verified_allocate_minor ==
  /\ Running("small")
  /\ \/ MinorFits /\ NewMinor(req) /\ stack' = Tail(stack) /\ req' = NoReq
     \/ ~MinorFits /\ stack' = <<"minor allocation failed">> /\ UNCHANGED <<heap, req>>

\* A block of caml_alloc_shr, its field set by caml_initialize, which
\* remembers it, or by the plain stores of caml_make_vect, which do not.
NewMajor(r) ==
  /\ where' = [where EXCEPT ![r.obj] = "major"]
  /\ field' = [field EXCEPT ![r.obj] = roots[r.src]]
  /\ roots' = [roots EXCEPT ![r.dst] = Major(r.obj)]
  /\ ref_table' = IF r.kind = "shr" /\ is_minor(roots[r.src])
                  THEN ref_table \cup {r.obj} ELSE ref_table
  /\ UNCHANGED <<bump, promoted, copied>>

\* allocate returns a block, or 0.
Allocated(r) == LargeWh <= FreeWords /\ NewMajor(r)
AllocateMayFail == Fragmented(FreeWords, In("major"), LargeWh)

\* verified_allocate: a second attempt follows a full collection.
verified_allocate(r) ==
  \/ Allocated(r) /\ stack' = <<>> /\ req' = NoReq
  \/ AllocateMayFail /\ stack' = <<"full", "again">> /\ req' = r /\ UNCHANGED heap

caml_alloc_shr(o, s, d) ==
  /\ stack = <<>> /\ o \in Large \cap In("free")
  /\ verified_allocate([kind |-> "shr", obj |-> o, src |-> s, dst |-> d])

\* Mutant: caml_minor_collection has an empty body.
caml_make_vect_NoGC(o, s, d) ==
  /\ stack = <<>> /\ o \in Large \cap In("free")
  /\ verified_allocate([kind |-> "vect", obj |-> o, src |-> s, dst |-> d])

\* caml_make_vect of a large array: a young initial value is promoted first by
\* caml_minor_collection.
caml_make_vect(o, s, d) ==
  LET r == [kind |-> "vect", obj |-> o, src |-> s, dst |-> d] IN
  /\ stack = <<>> /\ o \in Large \cap In("free")
  /\ \/ ~is_minor(roots[s]) /\ verified_allocate(r)
     \/ is_minor(roots[s]) /\ stack' = <<"minor", "vect">> /\ req' = r /\ UNCHANGED heap

make_vect_alloc == Running("vect") /\ verified_allocate(req)

\* The second attempt: a failure becomes the exception Out_of_memory.
verified_allocate_again ==
  /\ Running("again")
  /\ \/ Allocated(req)
     \/ AllocateMayFail /\ UNCHANGED heap
  /\ stack' = Tail(stack) /\ req' = NoReq

-----------------------------------------------------------------------------
(* The program.                                                            *)

UNCHANGED_but_roots == UNCHANGED <<where, field, ref_table, bump, promoted, copied, stack, req>>

Forget(r) == stack = <<>> /\ roots' = [roots EXCEPT ![r] = Null] /\ UNCHANGED_but_roots

Load(r, s) ==
  /\ stack = <<>> /\ roots[s] # Null
  /\ roots' = [roots EXCEPT ![r] = field[roots[s].obj]]
  /\ UNCHANGED_but_roots

\* caml_modify of OCaml 4.14: a block that already holds a young pointer is
\* already remembered.
Remember(o, v) == ~is_minor(field[o]) /\ is_minor(v)

caml_modify(r, s) ==
  LET o == roots[r].obj IN
  /\ stack = <<>> /\ roots[r] # Null
  /\ field' = [field EXCEPT ![o] = roots[s]]
  /\ ref_table' = IF ~is_minor(roots[r]) /\ Remember(o, roots[s])
                  THEN ref_table \cup {o} ELSE ref_table
  /\ UNCHANGED <<where, roots, bump, promoted, copied, stack, req>>

\* caml_minor_collection and caml_check_urgent_gc; caml_trigger_verified_gc.
caml_minor_collection == stack = <<>> /\ stack' = <<"minor">> /\ UNCHANGED <<heap, req>>
caml_trigger_verified_gc == stack = <<>> /\ stack' = <<"full">> /\ UNCHANGED <<heap, req>>

Next ==
  \/ do_minor_gc \/ do_minor_gc_core \/ do_full_gc
  \/ verified_allocate_minor \/ make_vect_alloc \/ verified_allocate_again
  \/ \E o \in Objs, s, d \in RootVars :
       Alloc_small(o, s, d) \/ caml_alloc_shr(o, s, d) \/ caml_make_vect(o, s, d)
  \/ \E r \in RootVars : Forget(r)
  \/ \E r, s \in RootVars : Load(r, s) \/ caml_modify(r, s)
  \/ caml_minor_collection \/ caml_trigger_verified_gc

Spec == Init /\ [][Next]_vars

-----------------------------------------------------------------------------
(* Properties.                                                             *)

Frames == {"minor", "core", "full", "small", "vect", "again",
           "fatal", "minor allocation failed"}

\* Type correctness, with the bound bump_ref keeps under.
TypeOK ==
  /\ where \in [Objs -> {"minor", "major", "free"}]
  /\ field \in [Objs -> Values]
  /\ roots \in [RootVars -> Values]
  /\ ref_table \subseteq Objs
  /\ bump \in 0 .. MinorWords /\ promoted \in Nat /\ copied \in Nat
  /\ stack \in Seq(Frames)
  /\ req \in Requests \cup {NoReq}

\* Every pointer in a root or in an allocated object names an object of the
\* heap it points into: no collection leaves a pointer to where an object was,
\* or to one it freed.
Sound(v) == v = Null \/ where[v.obj] = v.gen
NoDangling ==
  /\ \A r \in RootVars : Sound(roots[r])
  /\ \A o \in Objs : where[o] # "free" => Sound(field[o])

\* Each major object that points into the minor heap is in the remembered
\* set: the barrier of caml_modify and caml_initialize, and the collection
\* caml_make_vect makes so as to store without one, miss none.
RefTableComplete ==
  \A o \in Objs : where[o] = "major" /\ is_minor(field[o]) => o \in ref_table

\* The remembered set names live blocks of the major heap: a full collection
\* that frees a remembered object also forgets it, so that no later minor
\* collection reads or rewrites a slot in a free block.
RefTableValid == ref_table \subseteq In("major")

Live == Reach(RootValues, field, {"minor", "major"})
Shape == <<[r \in RootVars |-> roots[r].obj], [o \in Live |-> field[o].obj]>>

\* A collection is invisible to the program: the graph of the objects it can
\* reach, as it sees it, is the same before and after.
Transparent == [][Running("core") \/ Running("full") => Shape' = Shape]_vars

\* What a full collection leaves in the major heap was reachable from a root
\* or from a remembered slot: other garbage never survives it.
FullPrecise ==
  [][Running("full") /\ stack' # <<"fatal">> =>
       \A o \in Objs : where'[o] = "major" =>
          o \in Reach(MinorRoots, field, {"minor", "major"})]_vars

\* verified_allocate_minor's last fatal error is dead code: after the
\* collection there is room for any small object.
MinorRoomAfterGC == stack # <<"minor allocation failed">>

\* "bump_before as a conservative upper bound on promoted bytes": the count the
\* threshold test uses never falls short of what was promoted.
PromotedIsUpperBound == copied <= promoted

\* What the 50% threshold buys: promotion runs short of words only if the
\* survivors of the last full collection and the blocks allocated directly in the
\* major heap leave less than half of it and a minor heap.  Where there are words
\* enough a promotion may still find them in pieces that are too small.
PromotionBudget ==
  stack = <<"fatal">> /\ ShortOfWords =>
    Words(In("major")) - copied > MajorWords - MajorWords \div 2 - MinorWords

\* fatal_promotion_failed's message: "live set exceeds heap capacity".  Failures
\* of promotions that are short of words are meant here, not those that fail for
\* want of one large block.
PromotionFailsOnlyWhenFull ==
  stack = <<"fatal">> /\ ShortOfWords => Words(Live) > MajorWords
=============================================================================
