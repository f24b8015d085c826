--------------------------- MODULE GenHeapProofs ---------------------------
(***************************************************************************)
(* What GenHeap promises for every number of objects, roots and words: the *)
(* remembered set is complete and valid, no pointer dangles, and the minor *)
(* heap has room after a collection.  One inductive invariant carries all  *)
(* of it; the facts about a collection come from Reach being the smallest  *)
(* closed set.                                                             *)
(***************************************************************************)
EXTENDS GenHeap, FiniteSetTheorems, SequenceTheorems, TLAPS

-----------------------------------------------------------------------------
(* The invariant.                                                          *)

Waiting == {"small", "vect", "again"}

\* An empty bump counter means an empty minor heap.
BumpZero == bump = 0 => In("minor") = {}

\* An allocation resumes over an empty minor heap: this is what lets
\* caml_make_vect store without a barrier.
Resumes == stack # <<>> /\ Head(stack) \in Waiting => bump = 0

\* The allocation that waits for a collection is the program's own call, the
\* outermost one, and its object is not in use.
Pending ==
  \A i \in 1 .. Len(stack) :
    stack[i] \in Waiting =>
      i = Len(stack) /\ req \in Requests /\ where[req.obj] = "free"

NeverFailed == \A i \in 1 .. Len(stack) : stack[i] # "minor allocation failed"

HeapType ==
  /\ where \in [Objs -> {"minor", "major", "free"}]
  /\ field \in [Objs -> Values]
  /\ roots \in [RootVars -> Values]
  /\ ref_table \subseteq Objs
  /\ bump \in 0 .. MinorWords /\ promoted \in Nat /\ copied \in Nat

HeapInv  == HeapType /\ NoDangling /\ RefTableComplete /\ RefTableValid /\ BumpZero
StackInv == /\ stack \in Seq(Frames) /\ req \in Requests \cup {NoReq}
            /\ Resumes /\ Pending /\ NeverFailed
IInv == HeapInv /\ StackInv

-----------------------------------------------------------------------------
(* Values and reachability.                                                *)

LEMMA ValueForm ==
  ASSUME NEW v \in Values
  PROVE  /\ v.gen \in {"minor", "major", "none"}
         /\ v.gen # "none" => v.obj \in Objs
         /\ v = Null <=> v.gen = "none"
BY DEF Values, Null

LEMMA MovedForm ==
  ASSUME NEW v \in Values
  PROVE  /\ Moved(v) \in Values /\ ~is_minor(Moved(v))
         /\ Moved(v).obj = v.obj
         /\ Moved(v).gen = "major" <=> v.gen \in {"minor", "major"}
         /\ ~is_minor(v) => Moved(v) = v
         /\ v = Null <=> Moved(v) = Null
BY DEF Values, Null, Moved, is_minor, Major

LEMMA ReachType == \A vs, f, kinds : Reach(vs, f, kinds) \subseteq Objs
BY DEF Reach

LEMMA ReachRoot ==
  ASSUME NEW vs, NEW f, NEW kinds, NEW v \in vs, v.gen \in kinds, v.obj \in Objs
  PROVE  v.obj \in Reach(vs, f, kinds)
BY DEF Reach

LEMMA ReachStep ==
  ASSUME NEW vs, NEW f, NEW kinds, NEW o \in Reach(vs, f, kinds),
         f[o].gen \in kinds, f[o].obj \in Objs
  PROVE  f[o].obj \in Reach(vs, f, kinds)
BY DEF Reach

LEMMA ReachLeast ==
  ASSUME NEW vs, NEW f, NEW kinds, NEW S \in SUBSET Objs,
         \A v \in vs : v.gen \in kinds => v.obj \in S,
         \A o \in S : f[o].gen \in kinds => f[o].obj \in S
  PROVE  Reach(vs, f, kinds) \subseteq S
BY DEF Reach

\* Only objects of the minor heap are promoted.
LEMMA PromotableMinor ==
  ASSUME HeapInv
  PROVE  Promotable \subseteq In("minor")
<1> USE DEF HeapInv
<1> DEFINE S == In("minor")
<1>1. S \in SUBSET Objs
  BY DEF In
<1>2. \A v \in MinorRoots : v.gen \in {"minor"} => v.obj \in S
  <2> SUFFICES ASSUME NEW v \in MinorRoots, v.gen = "minor" PROVE v.obj \in S
    OBVIOUS
  <2>1. v \in Values /\ Sound(v)
    BY DEF MinorRoots, RootValues, HeapType, NoDangling, RefTableValid, In
  <2> QED
    BY <2>1, ValueForm DEF Sound, In, Null
<1>3. \A o \in S : field[o].gen \in {"minor"} => field[o].obj \in S
  <2> SUFFICES ASSUME NEW o \in S, field[o].gen = "minor" PROVE field[o].obj \in S
    OBVIOUS
  <2>1. field[o] \in Values /\ Sound(field[o])
    BY DEF HeapType, NoDangling, In
  <2> QED
    BY <2>1, ValueForm DEF Sound, In, Null
<1> QED
  BY <1>1, <1>2, <1>3, ReachLeast DEF Promotable

-----------------------------------------------------------------------------
(* A collection that promotes, rewrites and frees, and whose sweep spares  *)
(* the targets of what is left, leaves the heaps sound and the minor heap  *)
(* empty.                                                                  *)

LEMMA CollectionSafe ==
  ASSUME HeapInv, NEW Swept, PromoteAndFree(Swept),
         \A r \in RootVars : roots'[r].gen = "major" => roots'[r].obj \notin Swept,
         \A o \in Objs : where'[o] # "free" /\ field'[o].gen = "major"
                            => field'[o].obj \notin Swept
  PROVE  /\ where' \in [Objs -> {"major", "free"}]
         /\ field' \in [Objs -> Values]
         /\ roots' \in [RootVars -> Values]
         /\ ref_table' = {} /\ bump' = 0
         /\ NoDangling' /\ RefTableComplete'
         /\ \A o \in Objs : where[o] = "free" => where'[o] = "free"
<1> USE DEF HeapInv
<1> DEFINE gone == (In("minor") \ Promotable) \cup Swept
<1>1. Promotable \subseteq In("minor") /\ Promotable \subseteq Objs
  BY PromotableMinor DEF In
<1>2. /\ where' = [o \in Objs |-> IF o \in gone THEN "free"
                                  ELSE IF o \in Promotable THEN "major" ELSE where[o]]
      /\ field' = [o \in Objs |-> IF o \in gone THEN Null
                                  ELSE IF o \in Rewritten THEN Moved(field[o]) ELSE field[o]]
      /\ roots' = [r \in RootVars |-> Moved(roots[r])]
      /\ ref_table' = {} /\ bump' = 0
  BY DEF PromoteAndFree, TableAfter, BumpAfter
<1>3. Null \in Values
  BY DEF Values
<1>4. /\ where' \in [Objs -> {"major", "free"}]
      /\ \A o \in Objs : where[o] = "free" => where'[o] = "free"
  BY <1>1, <1>2 DEF HeapType, In
<1>5. field' \in [Objs -> Values] /\ roots' \in [RootVars -> Values]
  BY <1>2, <1>3, MovedForm DEF HeapType
\* What a kept object points to is in the major heap after the collection.
<1>6. ASSUME NEW o \in Objs, where'[o] # "free"
      PROVE  Sound(field[o]) /\ field'[o] = Moved(field[o])
  <2>1. where[o] # "free" /\ o \notin gone
    BY <1>2, <1>4, <1>6
  <2>2. Sound(field[o])
    BY <2>1 DEF NoDangling
  <2>3. CASE o \in Rewritten
    BY <1>2, <2>1, <2>2, <2>3
  <2>4. CASE o \notin Rewritten
    <3>1. where[o] = "major" /\ o \notin ref_table
      BY <2>1, <2>4 DEF Rewritten, In, HeapType
    <3>2. ~is_minor(field[o])
      BY <3>1 DEF RefTableComplete
    <3> QED
      BY <1>2, <2>1, <2>2, <2>4, <3>2, MovedForm DEF HeapType
  <2> QED
    BY <2>3, <2>4
<1>7. ASSUME NEW v \in Values, Sound(v), Moved(v).obj \notin Swept \/ v = Null,
             is_minor(v) => v.obj \in Promotable
      PROVE  Moved(v) = Null \/ where'[Moved(v).obj] = Moved(v).gen
  <2> SUFFICES ASSUME v # Null
               PROVE  where'[v.obj] = "major" /\ Moved(v).obj = v.obj /\ Moved(v).gen = "major"
    BY <1>7, MovedForm
  <2>1. v.obj \in Objs /\ v.gen \in {"minor", "major"} /\ where[v.obj] = v.gen
        /\ v.obj \notin Swept
    BY <1>7, ValueForm, MovedForm DEF Sound
  <2>2. v.obj \notin gone
    BY <1>7, <2>1 DEF In, is_minor
  <2>3. v.obj \in Promotable \/ where[v.obj] = "major"
    BY <1>7, <2>1 DEF is_minor
  <2> QED
    BY <1>2, <2>1, <2>2, <2>3, MovedForm
<1>8. ASSUME NEW r \in RootVars
      PROVE  roots'[r] = Null \/ where'[roots'[r].obj] = roots'[r].gen
  <2>1. roots[r] \in Values /\ Sound(roots[r]) /\ roots'[r] = Moved(roots[r])
    BY <1>2 DEF HeapType, NoDangling
  <2>2. is_minor(roots[r]) => roots[r].obj \in Promotable
    <3>1. roots[r] \in MinorRoots
      BY DEF MinorRoots, RootValues
    <3> QED
      BY <2>1, <3>1, ReachRoot, ValueForm DEF Promotable, is_minor
  <2>3. Moved(roots[r]).obj \notin Swept \/ roots[r] = Null
    BY <2>1, MovedForm, ValueForm
  <2> QED
    BY <1>7, <2>1, <2>2, <2>3
<1>9. ASSUME NEW o \in Objs, where'[o] # "free"
      PROVE  field'[o] = Null \/ where'[field'[o].obj] = field'[o].gen
  <2>1. field[o] \in Values /\ Sound(field[o]) /\ field'[o] = Moved(field[o])
    BY <1>6, <1>9 DEF HeapType
  <2>2. is_minor(field[o]) => field[o].obj \in Promotable
    <3> SUFFICES ASSUME is_minor(field[o]) PROVE field[o].obj \in Promotable
      OBVIOUS
    <3>1. o \in Promotable \/ o \in ref_table
      BY <1>2, <1>4, <1>9 DEF In, HeapType, RefTableComplete
    <3>2. field[o].gen \in {"minor"} /\ field[o].obj \in Objs
      BY <2>1, ValueForm DEF is_minor
    <3>3. CASE o \in Promotable
      BY <3>2, <3>3, ReachStep DEF Promotable
    <3>4. CASE o \in ref_table
      BY <3>2, <3>4, ReachRoot DEF Promotable, MinorRoots
    <3> QED
      BY <3>1, <3>3, <3>4
  <2>3. Moved(field[o]).obj \notin Swept \/ field[o] = Null
    BY <1>9, <2>1, MovedForm, ValueForm
  <2> QED
    BY <1>7, <2>1, <2>2, <2>3
<1>10. NoDangling'
  BY <1>8, <1>9 DEF NoDangling, Sound
<1>11. RefTableComplete'
  <2> SUFFICES ASSUME NEW o \in Objs, where'[o] = "major" PROVE ~is_minor(field'[o])
    BY DEF RefTableComplete
  <2> QED
    BY <1>6, MovedForm DEF HeapType
<1> QED
  BY <1>2, <1>4, <1>5, <1>10, <1>11

LEMMA WordsType ==
  ASSUME NEW S \in SUBSET Objs
  PROVE  Words(S) \in Nat
<1>1. IsFiniteSet(S \cap Small) /\ IsFiniteSet(S \cap Large)
  BY NamesAssumption, FS_Subset DEF Objs
<1>2. Cardinality(S \cap Small) \in Nat /\ Cardinality(S \cap Large) \in Nat
  BY <1>1, FS_CardinalityType
<1> QED
  BY <1>2, SizesAssumption DEF Words

\* With the counters, a collection keeps the invariant of the heap.
LEMMA CollectionInv ==
  ASSUME HeapInv, NEW Swept, PromoteAndFree(Swept),
         \A r \in RootVars : roots'[r].gen = "major" => roots'[r].obj \notin Swept,
         \A o \in Objs : where'[o] # "free" /\ field'[o].gen = "major"
                            => field'[o].obj \notin Swept,
         promoted' \in Nat, copied' \in Nat
  PROVE  /\ HeapInv' /\ bump' = 0
         /\ \A o \in Objs : where[o] = "free" => where'[o] = "free"
<1>1. /\ where' \in [Objs -> {"major", "free"}]
      /\ field' \in [Objs -> Values]
      /\ roots' \in [RootVars -> Values]
      /\ ref_table' = {} /\ bump' = 0
      /\ NoDangling' /\ RefTableComplete'
      /\ \A o \in Objs : where[o] = "free" => where'[o] = "free"
  BY CollectionSafe
<1>2. HeapType'
  BY <1>1, SizesAssumption DEF HeapType
<1>3. RefTableValid' /\ BumpZero'
  BY <1>1 DEF RefTableValid, BumpZero, In
<1> QED
  BY <1>1, <1>2, <1>3 DEF HeapInv

LEMMA CoreInv ==
  ASSUME IInv, do_minor_gc_core
  PROVE  /\ HeapInv' /\ (bump' = 0 \/ stack' = <<"fatal">>)
         /\ \A o \in Objs : where[o] = "free" => where'[o] = "free"
<1> USE DEF IInv
<1>1. CASE UNCHANGED heap /\ (bump = 0 \/ stack' = <<"fatal">>)
  BY <1>1 DEF heap, HeapInv, HeapType, NoDangling, Sound, RefTableComplete, RefTableValid,
              BumpZero, In
<1>2. CASE /\ PromoteAndFree({}) /\ promoted' = promoted + BumpBefore
           /\ copied' = copied + Words(Promotable)
  <2>1. promoted' \in Nat /\ copied' \in Nat
    BY <1>2, WordsType, ReachType DEF HeapInv, HeapType, BumpBefore, Promotable
  <2> QED
    BY <1>2, <2>1, CollectionInv
<1> QED
  BY <1>1, <1>2 DEF do_minor_gc_core, Fatal

\* The sweep of a full collection spares what the mark phase reached, and that
\* is what the roots and the kept objects point to.
LEMMA FullInv ==
  ASSUME IInv, do_full_gc
  PROVE  /\ HeapInv' /\ (bump' = 0 \/ stack' = <<"fatal">>)
         /\ \A o \in Objs : where[o] = "free" => where'[o] = "free"
<1> USE DEF IInv
<1>1. CASE UNCHANGED heap /\ stack' = <<"fatal">>
  BY <1>1 DEF heap, HeapInv, HeapType, NoDangling, Sound, RefTableComplete, RefTableValid,
              BumpZero, In
<1> DEFINE Swept == (In("major") \cup Promotable) \ Marked
           gone  == (In("minor") \ Promotable) \cup Swept
           F     == [o \in Objs |-> IF o \in Rewritten THEN Moved(field[o]) ELSE field[o]]
<1>2. CASE PromoteAndFree(Swept) /\ promoted' = 0 /\ copied' = 0
  <2>1. /\ where' = [o \in Objs |-> IF o \in gone THEN "free"
                                    ELSE IF o \in Promotable THEN "major" ELSE where[o]]
        /\ field' = [o \in Objs |-> IF o \in gone THEN Null ELSE F[o]]
        /\ roots' = [r \in RootVars |-> Moved(roots[r])]
    BY <1>2 DEF PromoteAndFree
  <2>2. ASSUME NEW r \in RootVars, roots'[r].gen = "major"
        PROVE  roots'[r].obj \notin Swept
    <3>1. roots'[r] = Moved(roots[r]) /\ roots[r] \in Values
      BY <2>1 DEF HeapInv, HeapType
    <3>2. roots'[r] \in MarkRoots /\ roots'[r].obj \in Objs
      BY <2>2, <3>1, MovedForm, ValueForm DEF MarkRoots, RootValues
    <3>3. roots'[r].obj \in Marked
      BY <2>2, <3>2, ReachRoot DEF Marked
    <3> QED
      BY <3>3
  <2>3. ASSUME NEW o \in Objs, where'[o] # "free", field'[o].gen = "major"
        PROVE  field'[o].obj \notin Swept
    <3>1. o \notin gone /\ where[o] # "free" /\ field'[o] = F[o]
      BY <2>1, <2>3, PromotableMinor DEF In, HeapInv, HeapType
    <3>2. o \in Marked
      BY <3>1 DEF In, HeapInv, HeapType
    <3>3. F[o].obj \in Objs
      BY <2>3, <3>1, MovedForm, ValueForm DEF HeapInv, HeapType
    <3>4. F[o].obj \in Marked
      BY <2>3, <3>1, <3>2, <3>3, ReachStep DEF Marked
    <3> QED
      BY <3>1, <3>4
  <2> QED
    BY <1>2, <2>2, <2>3, CollectionInv
<1> QED
  BY <1>1, <1>2 DEF do_full_gc, Fatal

-----------------------------------------------------------------------------
(* Allocation.                                                             *)

LEMMA RequestForm ==
  ASSUME NEW r \in Requests
  PROVE  r.obj \in Objs /\ r.src \in RootVars /\ r.dst \in RootVars
BY DEF Requests

LEMMA NewMinorInv ==
  ASSUME HeapInv, NEW r \in Requests, where[r.obj] = "free", MinorFits, NewMinor(r)
  PROVE  HeapInv'
<1> USE RequestForm DEF HeapInv, NewMinor
<1>1. Minor(r.obj) \in Values /\ roots[r.src] \in Values /\ Sound(roots[r.src])
  BY DEF Minor, Values, HeapType, NoDangling
<1>2. HeapType'
  BY <1>1, SizesAssumption DEF HeapType, MinorFits
<1>3. \A v \in Values : Sound(v) => v = Null \/ where'[v.obj] = v.gen
  BY ValueForm DEF Sound, HeapType
<1>4. Minor(r.obj) = Null \/ where'[Minor(r.obj).obj] = Minor(r.obj).gen
  BY DEF Minor, HeapType
<1>5. NoDangling'
  BY <1>1, <1>3, <1>4 DEF NoDangling, Sound, HeapType
<1>6. RefTableComplete' /\ RefTableValid'
  BY DEF RefTableComplete, RefTableValid, In, HeapType
<1>7. BumpZero'
  BY SizesAssumption DEF BumpZero, HeapType
<1> QED
  BY <1>2, <1>5, <1>6, <1>7

\* A major block may hold a young pointer only if caml_initialize remembers it.
LEMMA NewMajorInv ==
  ASSUME HeapInv, NEW r \in Requests, where[r.obj] = "free", NewMajor(r),
         r.kind = "shr" \/ ~is_minor(roots[r.src])
  PROVE  HeapInv'
<1> USE RequestForm DEF HeapInv, NewMajor
<1>1. Major(r.obj) \in Values /\ roots[r.src] \in Values /\ Sound(roots[r.src])
  BY DEF Major, Values, HeapType, NoDangling
<1>2. HeapType'
  BY <1>1 DEF HeapType
<1>3. \A v \in Values : Sound(v) => v = Null \/ where'[v.obj] = v.gen
  BY ValueForm DEF Sound, HeapType
<1>4. Major(r.obj) = Null \/ where'[Major(r.obj).obj] = Major(r.obj).gen
  BY DEF Major, HeapType
<1>5. NoDangling'
  BY <1>1, <1>3, <1>4 DEF NoDangling, Sound, HeapType
<1>6. RefTableComplete' /\ RefTableValid'
  BY DEF RefTableComplete, RefTableValid, In, HeapType
<1>7. BumpZero'
  BY DEF BumpZero, In, HeapType
<1> QED
  BY <1>2, <1>5, <1>6, <1>7

-----------------------------------------------------------------------------
(* Calls and returns.                                                      *)

LEMMA OneFrame ==
  ASSUME NEW S, NEW f \in S
  PROVE  /\ <<f>> \in Seq(S) /\ Len(<<f>>) = 1 /\ <<f>>[1] = f /\ Head(<<f>>) = f
         /\ \A i \in 1 .. Len(<<f>>) : <<f>>[i] = f
OBVIOUS

LEMMA TwoFrames ==
  ASSUME NEW S, NEW f \in S, NEW g \in S
  PROVE  /\ <<f, g>> \in Seq(S) /\ Len(<<f, g>>) = 2
         /\ <<f, g>>[1] = f /\ <<f, g>>[2] = g /\ Head(<<f, g>>) = f
         /\ \A i \in 1 .. Len(<<f, g>>) : i = 1 \/ i = 2
OBVIOUS

LEMMA Concat ==
  ASSUME NEW S, NEW t \in Seq(S), NEW u \in Seq(S)
  PROVE  /\ u \o t \in Seq(S) /\ Len(u \o t) = Len(u) + Len(t)
         /\ \A i \in 1 .. Len(u) : (u \o t)[i] = u[i]
         /\ \A i \in 1 .. Len(u \o t) :
              i \in 1 .. Len(u) \/ (i - Len(u) \in 1 .. Len(t) /\ (u \o t)[i] = t[i - Len(u)])
OBVIOUS

Pushed(u, s) == u \o Tail(s)

LEMMA PushedForm ==
  ASSUME NEW S, NEW s \in Seq(S), s # <<>>, NEW u \in Seq(S)
  PROVE  /\ Pushed(u, s) \in Seq(S) /\ Len(Pushed(u, s)) = Len(u) + (Len(s) - 1)
         /\ \A i \in 1 .. Len(u) : Pushed(u, s)[i] = u[i]
         /\ \A i \in 1 .. Len(Pushed(u, s)) :
              \/ i \in 1 .. Len(u)
              \/ (i - Len(u)) + 1 \in 1 .. Len(s) /\ Pushed(u, s)[i] = s[(i - Len(u)) + 1]
<1> DEFINE t == Tail(s)
<1>1. /\ t \in Seq(S) /\ Len(t) = Len(s) - 1
      /\ \A i \in 1 .. Len(t) : i + 1 \in 1 .. Len(s) /\ t[i] = s[i + 1]
  OBVIOUS
<1> HIDE DEF t
<1>2. /\ u \o t \in Seq(S) /\ Len(u \o t) = Len(u) + Len(t)
      /\ \A i \in 1 .. Len(u) : (u \o t)[i] = u[i]
      /\ \A i \in 1 .. Len(u \o t) :
           i \in 1 .. Len(u) \/ (i - Len(u) \in 1 .. Len(t) /\ (u \o t)[i] = t[i - Len(u)])
  BY <1>1, Concat, ZenonT(60)
<1>3. Pushed(u, s) = u \o t
  BY DEF Pushed, t
<1> QED
  BY <1>1, <1>2, <1>3

Failed == "minor allocation failed"

\* A stack whose head is replaced by frames that wait for nothing keeps its
\* waiting frame at the end, and has no failed one.
LEMMA Push ==
  ASSUME NEW s \in Seq(Frames), s # <<>>,
         \A i \in 1 .. Len(s) : s[i] # Failed /\ (s[i] \in Waiting => i = Len(s)),
         NEW u \in Seq(Frames), Len(u) > 0, \A i \in 1 .. Len(u) : u[i] \notin Waiting /\ u[i] # Failed,
         NEW q, q = Pushed(u, s)
  PROVE  /\ q \in Seq(Frames) /\ q # <<>> /\ Head(q) \notin Waiting
         /\ \A i \in 1 .. Len(q) :
              /\ q[i] # Failed
              /\ q[i] \in Waiting => i = Len(q) /\ \E j \in 1 .. Len(s) : s[j] \in Waiting
<1>1. Len(s) \in Nat \ {0} /\ Len(u) \in Nat
  BY EmptySeq
<1>2. /\ q \in Seq(Frames) /\ Len(q) = Len(u) + (Len(s) - 1)
      /\ \A i \in 1 .. Len(u) : q[i] = u[i]
      /\ \A i \in 1 .. Len(q) :
           i \in 1 .. Len(u) \/ ((i - Len(u)) + 1 \in 1 .. Len(s) /\ q[i] = s[(i - Len(u)) + 1])
  BY PushedForm
<1>3. q # <<>> /\ Head(q) \notin Waiting
  <2>1. Len(q) > 0 /\ Len(q) \in Nat /\ 1 \in 1 .. Len(u)
    BY <1>1, <1>2
  <2>2. q # <<>> /\ Head(q) = q[1] /\ q[1] = u[1]
    BY <1>1, <1>2, <2>1
  <2> QED
    BY <2>1, <2>2
<1>4. ASSUME NEW i \in 1 .. Len(q)
      PROVE  /\ q[i] # Failed
             /\ q[i] \in Waiting => i = Len(q) /\ \E j \in 1 .. Len(s) : s[j] \in Waiting
  <2>1. CASE i \in 1 .. Len(u)
    BY <1>1, <1>2, <2>1
  <2>2. CASE (i - Len(u)) + 1 \in 1 .. Len(s) /\ q[i] = s[(i - Len(u)) + 1]
    <3> DEFINE j == (i - Len(u)) + 1
    <3>1. j \in 1 .. Len(s) /\ q[i] = s[j]
      BY <2>2
    <3>2. j = Len(s) => i = Len(q)
      BY <1>1, <1>2, <2>2
    <3> QED
      BY <3>1, <3>2
  <2> QED
    BY <1>1, <1>2, <2>1, <2>2
<1> QED
  BY <1>2, <1>3, <1>4

\* What a step of the runtime owes the frames below it.
LEMMA ReturnInv ==
  ASSUME StackInv, stack # <<>>, Return, bump' = 0,
         \A o \in Objs : where[o] = "free" => where'[o] = "free"
  PROVE  StackInv'
<1> USE DEF StackInv
<1>1. stack' \in Seq(Frames) /\ \A i \in 1 .. Len(stack') : i + 1 \in 1 .. Len(stack)
                                                            /\ stack'[i] = stack[i + 1]
  BY DEF Return
<1>2. Pending'
  BY <1>1, RequestForm DEF Pending, Return
<1>3. NeverFailed'
  BY <1>1 DEF NeverFailed
<1> QED
  BY <1>1, <1>2, <1>3 DEF Resumes, Return

\* The allocation is over: the stack is empty.
LEMMA DoneInv ==
  ASSUME stack' = <<>>, req' = NoReq
  PROVE  StackInv'
BY DEF StackInv, Resumes, Pending, NeverFailed

\* A call that makes the program wait with a request for a free object.
LEMMA CallInv ==
  ASSUME UNCHANGED heap,
         NEW g \in {"minor", "full"}, NEW w \in Waiting, NEW r \in Requests,
         where[r.obj] = "free", stack' = <<g, w>>, req' = r
  PROVE  StackInv'
<1>1. /\ g \in Frames /\ g \notin Waiting /\ g # "minor allocation failed"
      /\ w \in Frames /\ w # "minor allocation failed"
  BY DEF Frames, Waiting
<1>2. /\ stack' \in Seq(Frames) /\ Len(stack') = 2
      /\ stack'[1] = g /\ stack'[2] = w /\ Head(stack') = g
      /\ \A i \in 1 .. Len(stack') : i = 1 \/ i = 2
  <2> SUFFICES ASSUME NEW t, t = <<g, w>>
               PROVE  /\ t \in Seq(Frames) /\ Len(t) = 2
                      /\ t[1] = g /\ t[2] = w /\ Head(t) = g
                      /\ \A i \in 1 .. Len(t) : i = 1 \/ i = 2
    OBVIOUS
  <2>1. t \in Seq(Frames)
    <3>1. \A S : g \in S /\ w \in S => <<g, w>> \in Seq(S)
      BY TwoFrames
    <3> QED
      BY <1>1, <3>1
  <2>2. Len(t) = 2 /\ t[1] = g /\ t[2] = w
    OBVIOUS
  <2>3. Head(t) = g
    BY <2>1, <2>2
  <2> QED
    BY <2>1, <2>2, <2>3
<1>3. Resumes' /\ NeverFailed'
  BY <1>1, <1>2 DEF Resumes, NeverFailed
<1>4. Pending'
  BY <1>1, <1>2 DEF Pending, heap
<1> QED
  BY <1>2, <1>3, <1>4 DEF StackInv

\* A runtime function replaces itself by calls that wait for no request.
LEMMA PushInv ==
  ASSUME StackInv, stack # <<>>, UNCHANGED heap, UNCHANGED req,
         NEW u \in Seq(Frames), Len(u) > 0,
         \A i \in 1 .. Len(u) : u[i] \notin Waiting /\ u[i] # Failed,
         stack' = Pushed(u, stack)
  PROVE  StackInv'
<1>1. \A i \in 1 .. Len(stack) :
        stack[i] # Failed /\ (stack[i] \in Waiting => i = Len(stack))
  BY DEF StackInv, Pending, NeverFailed, Failed
<1>2. /\ stack' \in Seq(Frames) /\ stack' # <<>> /\ Head(stack') \notin Waiting
      /\ \A i \in 1 .. Len(stack') :
           /\ stack'[i] # Failed
           /\ stack'[i] \in Waiting => /\ i = Len(stack')
                                       /\ \E j \in 1 .. Len(stack) : stack[j] \in Waiting
  <2>1. stack \in Seq(Frames)
    BY DEF StackInv
  <2> QED
    BY <1>1, <2>1, Push
<1>3. Resumes' /\ NeverFailed'
  BY <1>2 DEF Resumes, NeverFailed, Failed
<1>4. Pending'
  BY <1>2 DEF Pending, StackInv, heap
<1> QED
  BY <1>2, <1>3, <1>4 DEF StackInv

\* A single frame that waits for nothing.
LEMMA FrameInv ==
  ASSUME StackInv, NEW f \in {"minor", "full", "fatal"}, stack' = <<f>>, UNCHANGED req
  PROVE  StackInv'
<1>1. f \in Frames /\ f \notin Waiting /\ f # "minor allocation failed"
  BY DEF Frames, Waiting
<1>2. /\ stack' \in Seq(Frames) /\ Head(stack') = f
      /\ \A i \in 1 .. Len(stack') : stack'[i] = f
  BY <1>1, OneFrame
<1>3. Resumes' /\ Pending' /\ NeverFailed'
  BY <1>1, <1>2 DEF Resumes, Pending, NeverFailed
<1> QED
  BY <1>2, <1>3 DEF StackInv

LEMMA HeapStutter ==
  ASSUME HeapInv, UNCHANGED heap
  PROVE  HeapInv'
BY DEF heap, HeapInv, HeapType, NoDangling, Sound, RefTableComplete, RefTableValid,
       BumpZero, In

\* verified_allocate, called by the program or after the collection of
\* caml_make_vect: in the latter case the collection has emptied the minor heap.
LEMMA AllocateInv ==
  ASSUME IInv, NEW r \in Requests, where[r.obj] = "free", verified_allocate(r),
         r.kind = "shr" \/ ~is_minor(roots[r.src])
  PROVE  IInv'
<1> USE DEF IInv
<1>1. CASE NewMajor(r) /\ stack' = <<>> /\ req' = NoReq
  BY <1>1, NewMajorInv, DoneInv
<1>2. CASE stack' = <<"full", "again">> /\ req' = r /\ UNCHANGED heap
  <2>1. StackInv'
    BY <1>2, CallInv DEF Waiting
  <2> QED
    BY <1>2, <2>1, HeapStutter
<1> QED
  BY <1>1, <1>2 DEF verified_allocate, Allocated

\* An allocation that resumes finds its request, its object free and no
\* pointer into the minor heap.
LEMMA Resumed ==
  ASSUME IInv, NEW w \in Waiting, Running(w)
  PROVE  /\ req \in Requests /\ where[req.obj] = "free" /\ bump = 0
         /\ stack # <<>> /\ Len(stack) > 0
         /\ Tail(stack) = <<>>
         /\ \A r \in RootVars : ~is_minor(roots[r])
<1> USE DEF IInv, HeapInv, StackInv
<1>1. stack # <<>> /\ Len(stack) > 0 /\ stack[1] \in Waiting /\ Head(stack) \in Waiting
  BY DEF Running
<1>2. bump = 0
  BY <1>1 DEF Resumes
<1>3. 1 \in 1 .. Len(stack)
  BY <1>1
<1>4. req \in Requests /\ where[req.obj] = "free" /\ Len(stack) = 1
  BY <1>1, <1>3 DEF Pending
<1>5. Tail(stack) = <<>>
  <2>1. Tail(stack) \in Seq(Frames) /\ Len(Tail(stack)) = 0
    BY <1>1, <1>4, HeadTailProperties
  <2> QED
    BY <2>1, EmptySeq
<1>6. ASSUME NEW r \in RootVars, is_minor(roots[r]) PROVE FALSE
  <2>1. roots[r] \in Values /\ Sound(roots[r])
    BY DEF HeapType, NoDangling
  <2>2. roots[r].obj \in In("minor")
    BY <1>6, <2>1, ValueForm DEF is_minor, Sound, In
  <2> QED
    BY <1>2, <2>2 DEF BumpZero
<1> QED
  BY <1>1, <1>2, <1>4, <1>5, <1>6

-----------------------------------------------------------------------------
(* The invariant is inductive.                                             *)

LEMMA InitInv == Init => IInv
<1> SUFFICES ASSUME Init PROVE IInv
  OBVIOUS
<1> USE DEF Init
<1>1. HeapType
  BY SizesAssumption DEF HeapType, Values
<1>2. NoDangling /\ RefTableComplete /\ RefTableValid /\ BumpZero
  BY DEF NoDangling, Sound, RefTableComplete, RefTableValid, BumpZero, In
<1>3. StackInv
  BY DEF StackInv, Resumes, Pending, NeverFailed
<1> QED
  BY <1>1, <1>2, <1>3 DEF IInv, HeapInv

LEMMA AllocStepInv ==
  ASSUME IInv, NEW o \in Objs, NEW s \in RootVars, NEW d \in RootVars,
         Alloc_small(o, s, d) \/ caml_alloc_shr(o, s, d) \/ caml_make_vect(o, s, d)
  PROVE  IInv'
<1> DEFINE Req(k) == [kind |-> k, obj |-> o, src |-> s, dst |-> d]
<1>1. \A k \in {"small", "shr", "vect"} : Req(k) \in Requests
  BY DEF Requests
<1>2. stack = <<>> /\ where[o] = "free"
  BY DEF Alloc_small, caml_alloc_shr, caml_make_vect, In
<1>3. CASE Alloc_small(o, s, d)
  <2>1. Req("small") \in Requests /\ where[Req("small").obj] = "free"
    BY <1>1, <1>2
  <2>2. CASE MinorFits /\ NewMinor(Req("small")) /\ UNCHANGED <<stack, req>>
    <3>1. HeapInv'
      BY <2>1, <2>2, NewMinorInv DEF IInv
    <3>2. StackInv'
      BY <1>2, <2>2 DEF IInv, StackInv, Resumes, Pending, NeverFailed
    <3> QED
      BY <3>1, <3>2 DEF IInv
  <2>3. CASE stack' = <<"minor", "small">> /\ req' = Req("small") /\ UNCHANGED heap
    BY <1>2, <2>1, <2>3, CallInv, HeapStutter DEF IInv, Waiting
  <2> QED
    BY <1>3, <2>2, <2>3 DEF Alloc_small
<1>4. CASE caml_alloc_shr(o, s, d)
  <2>1. Req("shr") \in Requests /\ where[Req("shr").obj] = "free" /\ Req("shr").kind = "shr"
    BY <1>1, <1>2
  <2>2. verified_allocate(Req("shr"))
    BY <1>4 DEF caml_alloc_shr
  <2> QED
    BY <1>2, <2>1, <2>2, AllocateInv
<1>5. CASE caml_make_vect(o, s, d)
  <2>1. Req("vect") \in Requests /\ where[Req("vect").obj] = "free" /\ Req("vect").src = s
    BY <1>1, <1>2
  <2>2. CASE ~is_minor(roots[s]) /\ verified_allocate(Req("vect"))
    BY <1>2, <2>1, <2>2, AllocateInv
  <2>3. CASE stack' = <<"minor", "vect">> /\ req' = Req("vect") /\ UNCHANGED heap
    BY <1>2, <2>1, <2>3, CallInv, HeapStutter DEF IInv, Waiting
  <2> QED
    BY <1>5, <2>2, <2>3 DEF caml_make_vect
<1> QED
  BY <1>3, <1>4, <1>5

LEMMA ResumeStepInv ==
  ASSUME IInv, verified_allocate_minor \/ make_vect_alloc \/ verified_allocate_again
  PROVE  IInv'
<1>1. CASE verified_allocate_minor
  <2>1. /\ req \in Requests /\ where[req.obj] = "free" /\ bump = 0 /\ Tail(stack) = <<>>
        /\ "small" \in Waiting /\ Running("small")
    BY <1>1, Resumed DEF verified_allocate_minor, Waiting
  <2>2. MinorFits
    BY <2>1, SizesAssumption DEF MinorFits
  <2>3. NewMinor(req) /\ stack' = Tail(stack) /\ req' = NoReq
    BY <1>1, <2>2 DEF verified_allocate_minor
  <2>4. HeapInv'
    BY <2>1, <2>2, <2>3, NewMinorInv DEF IInv
  <2>5. StackInv'
    BY <2>1, <2>3, DoneInv
  <2> QED
    BY <2>4, <2>5 DEF IInv
<1>2. CASE make_vect_alloc
  <2>1. /\ req \in Requests /\ where[req.obj] = "free" /\ ~is_minor(roots[req.src])
        /\ verified_allocate(req)
    BY <1>2, Resumed, RequestForm DEF make_vect_alloc, Waiting
  <2> QED
    BY <2>1, AllocateInv
<1>3. CASE verified_allocate_again
  <2>1. /\ req \in Requests /\ where[req.obj] = "free" /\ ~is_minor(roots[req.src])
        /\ Tail(stack) = <<>>
    BY <1>3, Resumed, RequestForm DEF verified_allocate_again, Waiting
  <2>2. StackInv'
    BY <1>3, <2>1, DoneInv DEF verified_allocate_again
  <2>3. HeapInv'
    BY <1>3, <2>1, NewMajorInv, HeapStutter DEF verified_allocate_again, Allocated, IInv
  <2> QED
    BY <2>2, <2>3 DEF IInv
<1> QED
  BY <1>1, <1>2, <1>3

\* The program's own steps leave the stack alone and touch one root or field.
LEMMA ProgramInv ==
  ASSUME IInv, NEW r \in RootVars, NEW s \in RootVars,
         Forget(r) \/ Load(r, s) \/ caml_modify(r, s)
  PROVE  IInv'
<1> USE DEF IInv, HeapInv
<1>1. StackInv'
  BY DEF Forget, Load, caml_modify, UNCHANGED_but_roots, StackInv, Resumes, Pending, NeverFailed
<1>2. CASE Forget(r) \/ Load(r, s)
  <2>1. PICK v : /\ roots' = [roots EXCEPT ![r] = v] /\ UNCHANGED_but_roots
                 /\ v \in Values /\ Sound(v)
    <3>1. CASE Forget(r)
      BY <3>1 DEF Forget, Values, Sound
    <3>2. CASE Load(r, s)
      <4> DEFINE o == roots[s].obj
      <4>1. o \in Objs /\ where[o] # "free"
        BY <3>2, ValueForm DEF Load, HeapType, NoDangling, Sound
      <4>2. field[o] \in Values /\ Sound(field[o])
        BY <4>1 DEF HeapType, NoDangling
      <4> QED
        BY <3>2, <4>2 DEF Load
    <3> QED
      BY <1>2, <3>1, <3>2
  <2>2. HeapType' /\ NoDangling'
    BY <2>1 DEF HeapType, NoDangling, Sound, UNCHANGED_but_roots
  <2>3. RefTableComplete' /\ RefTableValid' /\ BumpZero'
    BY <2>1 DEF RefTableComplete, RefTableValid, BumpZero, In, UNCHANGED_but_roots
  <2> QED
    BY <1>1, <2>2, <2>3
<1>3. CASE caml_modify(r, s)
  <2> DEFINE o == roots[r].obj
  <2>1. /\ o \in Objs /\ where[o] = roots[r].gen /\ where[o] # "free"
        /\ roots[s] \in Values /\ Sound(roots[s])
    BY <1>3, ValueForm DEF caml_modify, HeapType, NoDangling, Sound
  <2>2. /\ field' = [field EXCEPT ![o] = roots[s]]
        /\ ref_table' = IF ~is_minor(roots[r]) /\ Remember(o, roots[s])
                        THEN ref_table \cup {o} ELSE ref_table
        /\ UNCHANGED <<where, roots, bump, promoted, copied>>
    BY <1>3 DEF caml_modify
  <2>3. HeapType' /\ NoDangling'
    BY <2>1, <2>2 DEF HeapType, NoDangling, Sound
  <2>4. RefTableComplete'
    BY <2>1, <2>2 DEF RefTableComplete, Remember, is_minor, HeapType
  <2>5. RefTableValid' /\ BumpZero'
    BY <2>1, <2>2 DEF RefTableValid, BumpZero, In, HeapType, is_minor
  <2> QED
    BY <1>1, <2>3, <2>4, <2>5
<1> QED
  BY <1>2, <1>3

LEMMA CollectorInv ==
  ASSUME IInv, do_minor_gc \/ do_minor_gc_core \/ do_full_gc
  PROVE  IInv'
<1>1. CASE do_minor_gc
  <2>1. UNCHANGED heap /\ UNCHANGED req /\ stack # <<>> /\ Head(stack) = "minor"
    BY <1>1 DEF do_minor_gc, Running
  <2>2. CASE bump = 0 /\ Return
    <3>1. bump' = 0 /\ where' = where
      BY <2>1, <2>2 DEF heap
    <3>2. StackInv'
      BY <2>1, <2>2, <3>1, ReturnInv DEF IInv
    <3> QED
      BY <2>1, <3>2, HeapStutter DEF IInv
  <2>3. CASE stack' = <<"full", "core">> \o Tail(stack)
    <3> DEFINE u == <<"full", "core">>
    <3>1. "full" \in Frames /\ "core" \in Frames
      BY DEF Frames
    <3>2. /\ u \in Seq(Frames) /\ Len(u) = 2 /\ u[1] = "full" /\ u[2] = "core"
          /\ \A i \in 1 .. Len(u) : i = 1 \/ i = 2
      BY <3>1, TwoFrames
    <3>3. \A i \in 1 .. Len(u) : u[i] \notin Waiting /\ u[i] # Failed
      BY <3>2 DEF Waiting, Failed
    <3>4. stack' = Pushed(u, stack)
      BY <2>3 DEF Pushed
    <3> HIDE DEF u
    <3>5. StackInv'
      BY <2>1, <3>2, <3>3, <3>4, PushInv DEF IInv
    <3> QED
      BY <2>1, <3>5, HeapStutter DEF IInv
  <2>4. CASE stack' = <<"core">> \o Tail(stack)
    <3> DEFINE u == <<"core">>
    <3>1. "core" \in Frames
      BY DEF Frames
    <3>2. /\ u \in Seq(Frames) /\ Len(u) = 1
          /\ \A i \in 1 .. Len(u) : u[i] = "core"
      BY <3>1, OneFrame
    <3>3. \A i \in 1 .. Len(u) : u[i] \notin Waiting /\ u[i] # Failed
      BY <3>2 DEF Waiting, Failed
    <3>4. stack' = Pushed(u, stack)
      BY <2>4 DEF Pushed
    <3> HIDE DEF u
    <3>5. StackInv'
      BY <2>1, <3>2, <3>3, <3>4, PushInv DEF IInv
    <3> QED
      BY <2>1, <3>5, HeapStutter DEF IInv
  <2> QED
    BY <1>1, <2>2, <2>3, <2>4 DEF do_minor_gc, Return
<1>2. CASE do_minor_gc_core \/ do_full_gc
  <2>1. /\ HeapInv' /\ (bump' = 0 \/ stack' = <<"fatal">>)
        /\ \A o \in Objs : where[o] = "free" => where'[o] = "free"
    BY <1>2, CoreInv, FullInv
  <2>2. stack # <<>> /\ (Fatal \/ (Return /\ stack' = Tail(stack)))
    BY <1>2 DEF do_minor_gc_core, do_full_gc, Running, Return
  <2>3. CASE Fatal
    <3>1. StackInv'
      BY <2>3, FrameInv DEF Fatal, IInv
    <3> QED
      BY <2>1, <3>1 DEF IInv
  <2>4. CASE Return /\ bump' = 0
    <3>1. StackInv'
      BY <2>1, <2>2, <2>4, ReturnInv DEF IInv
    <3> QED
      BY <2>1, <3>1 DEF IInv
  <2>5. CASE Return /\ stack' = <<"fatal">>
    <3>1. StackInv'
      BY <2>5, FrameInv DEF Return, IInv
    <3> QED
      BY <2>1, <3>1 DEF IInv
  <2> QED
    BY <2>1, <2>2, <2>3, <2>4, <2>5
<1> QED
  BY <1>1, <1>2

LEMMA TriggerInv ==
  ASSUME IInv, caml_minor_collection \/ caml_trigger_verified_gc
  PROVE  IInv'
<1>1. /\ UNCHANGED heap /\ UNCHANGED req
      /\ \E f \in {"minor", "full", "fatal"} : stack' = <<f>>
  BY DEF caml_minor_collection, caml_trigger_verified_gc
<1>2. StackInv'
  BY <1>1, FrameInv DEF IInv
<1> QED
  BY <1>1, <1>2, HeapStutter DEF IInv

LEMMA NextInv == IInv /\ [Next]_vars => IInv'
<1> SUFFICES ASSUME IInv, [Next]_vars PROVE IInv'
  OBVIOUS
<1>1. CASE do_minor_gc \/ do_minor_gc_core \/ do_full_gc
  BY <1>1, CollectorInv
<1>2. CASE verified_allocate_minor \/ make_vect_alloc \/ verified_allocate_again
  BY <1>2, ResumeStepInv
<1>3. CASE \E o \in Objs, s, d \in RootVars :
             Alloc_small(o, s, d) \/ caml_alloc_shr(o, s, d) \/ caml_make_vect(o, s, d)
  BY <1>3, AllocStepInv
<1>4. CASE \/ \E r \in RootVars : Forget(r)
           \/ \E r, s \in RootVars : Load(r, s) \/ caml_modify(r, s)
  BY <1>4, ProgramInv
<1>5. CASE caml_minor_collection \/ caml_trigger_verified_gc
  BY <1>5, TriggerInv
<1>6. CASE UNCHANGED vars
  <2>1. HeapInv'
    BY <1>6, HeapStutter DEF IInv, vars
  <2>2. StackInv'
    BY <1>6 DEF IInv, vars, heap, StackInv, Resumes, Pending, NeverFailed
  <2> QED
    BY <2>1, <2>2 DEF IInv
<1> QED
  BY <1>1, <1>2, <1>3, <1>4, <1>5, <1>6 DEF Next

LEMMA Invariance == Spec => []IInv
<1>1. Init => IInv
  BY InitInv
<1>2. IInv /\ [Next]_vars => IInv'
  BY NextInv
<1> QED
  BY <1>1, <1>2, PTL DEF Spec

-----------------------------------------------------------------------------
(* The theorems.                                                           *)

\* The heaps, the counters and the calls keep their types; in particular the
\* bump pointer never passes the end of the minor heap, on the fast path of
\* Alloc_small_aux or on the slow one.
THEOREM TypeCorrect == Spec => []TypeOK
<1>1. IInv => TypeOK
  BY DEF IInv, HeapInv, StackInv, HeapType, TypeOK
<1> QED
  BY <1>1, Invariance, PTL

\* No root and no allocated object ever holds a pointer to where an object was
\* before a collection moved it, or to an object a collection freed.
THEOREM PointersSound == Spec => []NoDangling
<1>1. IInv => NoDangling
  BY DEF IInv, HeapInv
<1> QED
  BY <1>1, Invariance, PTL

\* The write barrier misses no pointer from the major into the minor heap, the
\* plain stores of caml_make_vect included.
THEOREM Remembered == Spec => []RefTableComplete
<1>1. IInv => RefTableComplete
  BY DEF IInv, HeapInv
<1> QED
  BY <1>1, Invariance, PTL

\* No collection leaves a freed object in the remembered set.
THEOREM TableValid == Spec => []RefTableValid
<1>1. IInv => RefTableValid
  BY DEF IInv, HeapInv
<1> QED
  BY <1>1, Invariance, PTL

\* After the collection verified_allocate_minor asked for, there is room.
THEOREM RoomAfterCollection == Spec => []MinorRoomAfterGC
<1>1. ASSUME IInv PROVE MinorRoomAfterGC
  <2> SUFFICES ASSUME stack = <<Failed>> PROVE FALSE
    BY DEF MinorRoomAfterGC, Failed
  <2>1. Failed \in Frames
    BY DEF Frames, Failed
  <2>2. Len(<<Failed>>) = 1 /\ <<Failed>>[1] = Failed
    BY <2>1, OneFrame
  <2>3. 1 \in 1 .. Len(stack) /\ stack[1] = Failed
    BY <2>2
  <2> QED
    BY <1>1, <2>3 DEF IInv, StackInv, NeverFailed, Failed
<1> QED
  BY <1>1, Invariance, PTL

-----------------------------------------------------------------------------
(* What the program sees of a collection, and what survives one.           *)

\* A pointer of an object that the collection keeps or promotes, after it.
FieldAfter == [o \in Objs |-> IF o \in Rewritten THEN Moved(field[o]) ELSE field[o]]

Survivors == In("major") \cup Promotable

\* Every minor pointer of a survivor is rewritten, and leads to a survivor.
LEMMA SurvivorField ==
  ASSUME HeapInv, NEW o \in Survivors
  PROVE  /\ o \in Objs /\ field[o] \in Values
         /\ FieldAfter[o] = Moved(field[o])
         /\ field[o].gen \in {"minor", "major"} => field[o].obj \in Survivors
<1> USE DEF HeapInv
<1>1. o \in Objs /\ field[o] \in Values /\ where[o] # "free"
  BY PromotableMinor DEF Survivors, In, HeapType
<1>2. Sound(field[o])
  BY <1>1 DEF NoDangling
<1>3. is_minor(field[o]) => o \in Rewritten
  BY <1>1 DEF Survivors, In, RefTableComplete, Rewritten
<1>4. FieldAfter[o] = Moved(field[o])
  BY <1>1, <1>3, MovedForm DEF FieldAfter
<1>5. CASE field[o].gen = "major"
  BY <1>1, <1>2, <1>4, <1>5, ValueForm DEF Sound, Survivors, In
<1>6. CASE field[o].gen = "minor"
  <2>1. field[o].gen \in {"minor"}
    BY <1>6
  <2>2. field[o].obj \in Objs
    <3>1. field[o].gen # "none"
      BY <1>6
    <3> QED
      BY <1>1, <3>1, ValueForm
  <2>3. field[o].obj \in Promotable
    <3>1. CASE o \in Promotable
      BY <2>1, <2>2, <3>1, ReachStep DEF Promotable
    <3>2. CASE o \in ref_table
      BY <2>1, <2>2, <3>2, ReachRoot DEF Promotable, MinorRoots
    <3> QED
      BY <1>3, <1>6, <3>1, <3>2 DEF Rewritten, is_minor
  <2> QED
    BY <1>1, <1>4, <2>3 DEF Survivors
<1> QED
  BY <1>1, <1>4, <1>5, <1>6, ValueForm

LEMMA SurvivorRoot ==
  ASSUME HeapInv, NEW r \in RootVars, roots[r].gen \in {"minor", "major"}
  PROVE  roots[r].obj \in Survivors
<1> USE DEF HeapInv
<1>1. roots[r] \in Values /\ Sound(roots[r]) /\ roots[r] \in MinorRoots
  BY DEF HeapType, NoDangling, MinorRoots, RootValues
<1>2. roots[r].obj \in Objs
  BY <1>1, ValueForm
<1>3. CASE roots[r].gen = "minor"
  BY <1>1, <1>2, <1>3, ReachRoot DEF Promotable, Survivors
<1>4. CASE roots[r].gen = "major"
  BY <1>1, <1>2, <1>4, ValueForm DEF Sound, Survivors, In
<1> QED
  BY <1>3, <1>4

LEMMA LiveSurvives ==
  ASSUME HeapInv
  PROVE  Live \subseteq Survivors
<1> DEFINE K == {"minor", "major"}
<1>1. Survivors \in SUBSET Objs
  BY ReachType DEF Survivors, In, Promotable
<1>2. \A v \in RootValues : v.gen \in K => v.obj \in Survivors
  BY SurvivorRoot DEF RootValues
<1>3. \A o \in Survivors : field[o].gen \in K => field[o].obj \in Survivors
  BY SurvivorField
<1> HIDE DEF K
<1> QED
  BY <1>1, <1>2, <1>3, ReachLeast DEF Live, K

\* A collection that sweeps nothing live leaves the graph the program sees.
LEMMA KeptShape ==
  ASSUME HeapInv, NEW Swept, PromoteAndFree(Swept), Live \cap Swept = {}
  PROVE  Shape' = Shape
<1> USE DEF HeapInv
<1> DEFINE K    == {"minor", "major"}
           gone == (In("minor") \ Promotable) \cup Swept
<1>1. /\ field' = [o \in Objs |-> IF o \in gone THEN Null ELSE FieldAfter[o]]
      /\ roots' = [r \in RootVars |-> Moved(roots[r])]
  BY DEF PromoteAndFree, FieldAfter
<1>2. Live \subseteq Objs /\ Live' \subseteq Objs
  BY ReachType DEF Live
<1>3. ASSUME NEW o \in Live
      PROVE  field[o] \in Values /\ field'[o] = Moved(field[o])
  <2>1. o \in Survivors /\ o \in Objs /\ o \notin Swept
    BY <1>2, LiveSurvives
  <2>2. o \notin gone
    BY <2>1 DEF Survivors, In
  <2> QED
    BY <1>1, <2>1, <2>2, SurvivorField
<1>4. \A v \in Values : /\ v.gen \in K <=> Moved(v).gen \in K
                        /\ Moved(v).obj = v.obj
                        /\ v.gen \in K => v.obj \in Objs
  BY MovedForm, ValueForm
<1>5. RootValues' = {Moved(v) : v \in RootValues} /\ RootValues \subseteq Values
  BY <1>1 DEF RootValues, HeapType
<1>6. Live = Reach(RootValues, field, K) /\ Live' = Reach(RootValues', field', K)
  BY DEF Live
<1> HIDE DEF K, gone
<1>7. /\ \A v \in RootValues : v.gen \in K => v.obj \in Live
      /\ \A o \in Live : field[o].gen \in K => field[o].obj \in Live
  BY <1>3, <1>4, <1>5, <1>6, ReachRoot, ReachStep
<1>8. /\ \A v \in RootValues' : v.gen \in K => v.obj \in Live'
      /\ \A o \in Live \cap Live' : field'[o].gen \in K => field'[o].obj \in Live'
  BY <1>3, <1>4, <1>5, <1>6, ReachRoot, ReachStep
<1>9. Live' \subseteq Live
  <2>1. \A v \in RootValues' : v.gen \in K => v.obj \in Live
    BY <1>4, <1>5, <1>7
  <2>2. \A o \in Live : field'[o].gen \in K => field'[o].obj \in Live
    BY <1>3, <1>4, <1>7
  <2> QED
    BY <1>2, <1>6, <2>1, <2>2, ReachLeast
<1>10. Live \subseteq Live \cap Live'
  <2> DEFINE S == Live \cap Live'
  <2>1. S \in SUBSET Objs
    BY <1>2
  <2>2. \A v \in RootValues : v.gen \in K => v.obj \in S
    BY <1>4, <1>5, <1>7, <1>8
  <2>3. \A o \in S : field[o].gen \in K => field[o].obj \in S
    BY <1>3, <1>4, <1>7, <1>8
  <2> HIDE DEF S
  <2>4. Live \subseteq S
    BY <1>6, <2>1, <2>2, <2>3, ReachLeast
  <2> QED
    BY <2>4 DEF S
<1>11. Live' = Live
  BY <1>9, <1>10
<1>12. \A o \in Live : field'[o].obj = field[o].obj
  BY <1>3, <1>4
<1>13. \A r \in RootVars : roots'[r].obj = roots[r].obj
  BY <1>1, <1>4 DEF HeapType
<1>14. [o \in Live' |-> field'[o].obj] = [o \in Live |-> field[o].obj]
  BY <1>11, <1>12
<1>15. [r \in RootVars |-> roots'[r].obj] = [r \in RootVars |-> roots[r].obj]
  BY <1>13
<1> QED
  BY <1>14, <1>15 DEF Shape

\* The mark phase of a full collection reaches everything live, although it
\* follows only the pointers into the major heap: the minor phase rewrote the
\* others.
LEMMA LiveMarked ==
  ASSUME HeapInv
  PROVE  Live \subseteq Marked
<1> USE DEF HeapInv
<1> DEFINE K == {"minor", "major"}
           S == Marked \cap Survivors
<1>1. S \in SUBSET Objs
  BY ReachType DEF Marked
<1>2. \A v \in Values : v.gen \in K => /\ Moved(v).gen \in {"major"}
                                       /\ Moved(v).obj = v.obj /\ v.obj \in Objs
  BY MovedForm, ValueForm
<1>3. Marked = Reach(MarkRoots, FieldAfter, {"major"})
  BY DEF Marked, FieldAfter
<1>4. ASSUME NEW v \in RootValues, v.gen \in K
      PROVE  v.obj \in S
  <2>1. v \in Values /\ v.obj \in Survivors
    BY <1>4, SurvivorRoot DEF RootValues, HeapType
  <2>2. Moved(v) \in MarkRoots
    BY DEF MarkRoots
  <2>3. Moved(v).obj \in Marked
    BY <1>2, <1>3, <1>4, <2>1, <2>2, ReachRoot
  <2> QED
    BY <1>2, <1>4, <2>1, <2>3
<1>5. ASSUME NEW o \in S, field[o].gen \in K
      PROVE  field[o].obj \in S
  <2>1. /\ field[o] \in Values /\ FieldAfter[o] = Moved(field[o])
        /\ field[o].obj \in Survivors
    BY <1>5, SurvivorField
  <2>2. FieldAfter[o].obj \in Marked
    BY <1>2, <1>3, <1>5, <2>1, ReachStep
  <2> QED
    BY <1>2, <1>5, <2>1, <2>2
<1> HIDE DEF K, S
<1>6. Live = Reach(RootValues, field, K)
  BY DEF Live, K
<1>7. Live \subseteq S
  BY <1>1, <1>4, <1>5, <1>6, ReachLeast
<1> QED
  BY <1>7 DEF S

\* What it reaches was reachable before, from a root or a remembered slot.
LEMMA MarkedReachable ==
  ASSUME HeapInv
  PROVE  Marked \subseteq Reach(MinorRoots, field, {"minor", "major"})
<1> USE DEF HeapInv
<1> DEFINE K == {"minor", "major"}
           S == Reach(MinorRoots, field, K)
<1>1. S \in SUBSET Objs
  BY ReachType
<1>2. \A v \in Values : Moved(v).gen \in {"major"} =>
                          v.gen \in K /\ Moved(v).obj = v.obj /\ v.obj \in Objs
  BY MovedForm, ValueForm
<1>3. ASSUME NEW w \in MarkRoots, w.gen \in {"major"}
      PROVE  w.obj \in S
  <2>1. PICK v \in MinorRoots : w = Moved(v)
    BY DEF MarkRoots, MinorRoots
  <2>2. v \in Values
    BY DEF MinorRoots, RootValues, HeapType
  <2> QED
    BY <1>2, <1>3, <2>1, <2>2, ReachRoot
<1>4. ASSUME NEW o \in S, FieldAfter[o].gen \in {"major"}
      PROVE  FieldAfter[o].obj \in S
  <2>1. o \in Objs /\ field[o] \in Values
    BY <1>1 DEF HeapType
  <2>2. FieldAfter[o] = Moved(field[o]) \/ FieldAfter[o] = field[o]
    BY <2>1 DEF FieldAfter
  <2>3. /\ field[o].gen \in K /\ field[o].obj \in Objs
        /\ FieldAfter[o].obj = field[o].obj
    BY <1>2, <1>4, <2>1, <2>2, ValueForm
  <2> QED
    BY <2>3, ReachStep
<1> HIDE DEF S
<1>5. Marked = Reach(MarkRoots, FieldAfter, {"major"})
  BY DEF Marked, FieldAfter
<1>6. Marked \subseteq S
  BY <1>1, <1>3, <1>4, <1>5, ReachLeast
<1> QED
  BY <1>6 DEF S

LEMMA FatalShape ==
  ASSUME UNCHANGED heap
  PROVE  Shape' = Shape
BY DEF heap, Shape, Live, RootValues

\* Only the collection under way can take a step.
LEMMA OnlyCollects ==
  ASSUME Running("core") \/ Running("full"), Next
  PROVE  \/ Running("core") /\ do_minor_gc_core
         \/ Running("full") /\ do_full_gc
<1>1. stack # <<>> /\ Head(stack) \in {"core", "full"}
  BY DEF Running
<1>2. /\ ~do_minor_gc /\ ~verified_allocate_minor
      /\ ~make_vect_alloc /\ ~verified_allocate_again
  BY <1>1 DEF do_minor_gc, verified_allocate_minor, make_vect_alloc,
              verified_allocate_again, Running
<1>3. \A o, s, d : ~Alloc_small(o, s, d) /\ ~caml_alloc_shr(o, s, d) /\ ~caml_make_vect(o, s, d)
  BY <1>1 DEF Alloc_small, caml_alloc_shr, caml_make_vect
<1>4. /\ \A r, s : ~Forget(r) /\ ~Load(r, s) /\ ~caml_modify(r, s)
      /\ ~caml_minor_collection /\ ~caml_trigger_verified_gc
  BY <1>1 DEF Forget, Load, caml_modify, caml_minor_collection, caml_trigger_verified_gc
<1>5. do_minor_gc_core \/ do_full_gc
  BY <1>2, <1>3, <1>4 DEF Next
<1> QED
  BY <1>5 DEF do_minor_gc_core, do_full_gc

\* A program cannot tell that a collection happened: every object it can reach
\* is still there, reached the same way, whatever do_minor_gc_core or
\* do_full_gc promoted, rewrote and freed.
THEOREM CollectionInvisible == Spec => Transparent
<1>1. ASSUME IInv, Next, Running("core") \/ Running("full")
      PROVE  Shape' = Shape
  <2> USE <1>1 DEF IInv
  <2>1. CASE do_minor_gc_core
    <3>1. CASE UNCHANGED heap
      BY <3>1, FatalShape
    <3>2. CASE PromoteAndFree({})
      <4>1. Live \cap {} = {}
        OBVIOUS
      <4> QED
        BY <3>2, <4>1, KeptShape
    <3> QED
      BY <2>1, <3>1, <3>2 DEF do_minor_gc_core, Fatal
  <2>2. CASE do_full_gc
    <3> DEFINE Swept == (In("major") \cup Promotable) \ Marked
    <3>1. CASE UNCHANGED heap
      BY <3>1, FatalShape
    <3>2. CASE PromoteAndFree(Swept)
      <4>1. Live \cap Swept = {}
        BY LiveMarked
      <4> QED
        BY <3>2, <4>1, KeptShape
    <3> QED
      BY <2>2, <3>1, <3>2 DEF do_full_gc, Fatal
  <2> QED
    BY <2>1, <2>2, OnlyCollects
<1>2. ASSUME IInv, [Next]_vars
      PROVE  [Running("core") \/ Running("full") => Shape' = Shape]_vars
  BY <1>1, <1>2
<1> QED
  BY <1>2, Invariance, PTL DEF Spec, Transparent

\* A full collection keeps in the major heap only what a root or a remembered
\* slot led to.
THEOREM FullCollectionPrecise == Spec => FullPrecise
<1> DEFINE K == {"minor", "major"}
           Precise == Running("full") /\ stack' # <<"fatal">> =>
                        \A o \in Objs : where'[o] = "major" =>
                           o \in Reach(MinorRoots, field, K)
<1>1. ASSUME IInv, Next, Running("full"), stack' # <<"fatal">>,
             NEW o \in Objs, where'[o] = "major"
      PROVE  o \in Reach(MinorRoots, field, K)
  <2> DEFINE Swept == (In("major") \cup Promotable) \ Marked
             gone  == (In("minor") \ Promotable) \cup Swept
  <2>1. do_full_gc
    BY <1>1, OnlyCollects DEF do_minor_gc_core, Running
  <2>2. PromoteAndFree(Swept)
    BY <1>1, <2>1 DEF do_full_gc, Fatal
  <2>3. where' = [p \in Objs |-> IF p \in gone THEN "free"
                                 ELSE IF p \in Promotable THEN "major" ELSE where[p]]
    BY <2>2 DEF PromoteAndFree
  <2>4. o \notin gone /\ (o \in Promotable \/ where[o] = "major")
    BY <1>1, <2>3
  <2>5. o \in Marked
    BY <2>4 DEF In
  <2> QED
    BY <1>1, <2>5, MarkedReachable DEF IInv
<1>2. ASSUME IInv, [Next]_vars
      PROVE  [Precise]_vars
  BY <1>1, <1>2
<1> QED
  BY <1>2, Invariance, PTL DEF Spec, FullPrecise

-----------------------------------------------------------------------------
(* What the counters promise for every size of the two heaps:              *)
(* bytes_promoted_since_major never falls short of what was promoted, and  *)
(* the threshold test of do_minor_gc keeps half of the major heap for the  *)
(* promotions of one cycle.  The argument is in words: the minor heap      *)
(* holds no more of them than bump counts, and a promotion that was not    *)
(* preceded by a full collection stays under the threshold.                *)

Half == MajorWords \div 2

\* Only small objects are in the minor heap, and bump counts all their words.
MinorCounted == In("minor") \subseteq Small /\ Words(In("minor")) <= bump

\* Between two full collections no more than half the major heap is promoted.
PromotedBounded == copied <= promoted /\ promoted <= Half

\* A minor collection that is about to run passed the threshold test, or
\* follows the full collection the test asked for.
CoreReady ==
  stack # <<>> /\ Head(stack) = "core" => bump = 0 \/ promoted + bump <= Half

\* The allocation that waits in verified_allocate_minor is that of a small object.
SmallRequest == \A i \in 1 .. Len(stack) : stack[i] = "small" => req.obj \in Small

\* The process that ended calls nothing.
FatalAlone == \A i \in 2 .. Len(stack) : stack[i] # "fatal"

CountInv == /\ MinorCounted /\ PromotedBounded /\ PromotionBudget
            /\ CoreReady /\ SmallRequest /\ FatalAlone
BudgetInv == IInv /\ CountInv

-----------------------------------------------------------------------------
(* Words of sets of objects.                                               *)

LEMMA Counts ==
  ASSUME NEW S \in SUBSET Objs
  PROVE  /\ IsFiniteSet(S \cap Small) /\ IsFiniteSet(S \cap Large)
         /\ Cardinality(S \cap Small) \in Nat /\ Cardinality(S \cap Large) \in Nat
<1>1. IsFiniteSet(S \cap Small) /\ IsFiniteSet(S \cap Large)
  BY NamesAssumption, FS_Subset DEF Objs
<1> QED
  BY <1>1, FS_CardinalityType

LEMMA TimesMonotone ==
  ASSUME NEW k \in Nat, NEW a \in Nat, NEW b \in Nat, a <= b
  PROVE  k * a <= k * b
<1>1. b - a \in Nat /\ k * (b - a) \in Nat /\ k * b = k * a + k * (b - a)
  OBVIOUS
<1> QED
  BY <1>1

LEMMA WordsMonotone ==
  ASSUME NEW T \in SUBSET Objs, NEW S \in SUBSET T
  PROVE  Words(S) <= Words(T)
<1>1. /\ IsFiniteSet(T \cap Small) /\ IsFiniteSet(T \cap Large)
      /\ Cardinality(T \cap Small) \in Nat /\ Cardinality(T \cap Large) \in Nat
      /\ Cardinality(S \cap Small) \in Nat /\ Cardinality(S \cap Large) \in Nat
  BY Counts
<1>2. S \cap Small \in SUBSET (T \cap Small) /\ S \cap Large \in SUBSET (T \cap Large)
  OBVIOUS
<1>3. /\ Cardinality(S \cap Small) <= Cardinality(T \cap Small)
      /\ Cardinality(S \cap Large) <= Cardinality(T \cap Large)
  BY <1>1, <1>2, FS_Subset
<1>4. /\ SmallWh * Cardinality(S \cap Small) <= SmallWh * Cardinality(T \cap Small)
      /\ LargeWh * Cardinality(S \cap Large) <= LargeWh * Cardinality(T \cap Large)
  BY <1>1, <1>3, TimesMonotone, SizesAssumption
<1>5. /\ SmallWh * Cardinality(S \cap Small) \in Nat /\ SmallWh * Cardinality(T \cap Small) \in Nat
      /\ LargeWh * Cardinality(S \cap Large) \in Nat /\ LargeWh * Cardinality(T \cap Large) \in Nat
  BY <1>1, SizesAssumption
<1> QED
  BY <1>4, <1>5 DEF Words

LEMMA WordsAdd ==
  ASSUME NEW S \in SUBSET Objs, NEW o \in Small, o \notin S
  PROVE  Words(S \cup {o}) = Words(S) + SmallWh
<1>1. (S \cup {o}) \cap Small = (S \cap Small) \cup {o} /\ o \notin S \cap Small
  OBVIOUS
<1>2. (S \cup {o}) \cap Large = S \cap Large
  BY NamesAssumption
<1>3. /\ IsFiniteSet(S \cap Small) /\ Cardinality(S \cap Small) \in Nat
      /\ Cardinality(S \cap Large) \in Nat
  BY Counts
<1>4. Cardinality((S \cap Small) \cup {o}) = Cardinality(S \cap Small) + 1
  BY <1>1, <1>3, FS_AddElement
<1>5. SmallWh * (Cardinality(S \cap Small) + 1) = SmallWh * Cardinality(S \cap Small) + SmallWh
  BY <1>3, SizesAssumption
<1>6. /\ SmallWh * Cardinality(S \cap Small) \in Nat /\ LargeWh * Cardinality(S \cap Large) \in Nat
  BY <1>3, SizesAssumption
<1>7. Words(S \cup {o}) = (SmallWh * Cardinality(S \cap Small) + SmallWh)
                          + LargeWh * Cardinality(S \cap Large)
  BY <1>1, <1>2, <1>4, <1>5 DEF Words
<1> QED
  BY <1>6, <1>7, SizesAssumption DEF Words

LEMMA WordsEmpty == Words({}) = 0
BY FS_EmptySet, SizesAssumption DEF Words

LEMMA HalfType == Half \in Nat /\ Half <= MajorWords
BY SizesAssumption DEF Half

\* What a collection promotes is counted by bump.
LEMMA PromotableWords ==
  ASSUME HeapInv, MinorCounted
  PROVE  Words(Promotable) \in Nat /\ Words(Promotable) <= bump
<1>1. In("minor") \in SUBSET Objs /\ Promotable \in SUBSET In("minor")
  BY PromotableMinor DEF In
<1>2. Words(Promotable) <= Words(In("minor"))
  BY <1>1, WordsMonotone
<1>3. Words(Promotable) \in Nat /\ Words(In("minor")) \in Nat
  BY <1>1, WordsType
<1> QED
  BY <1>2, <1>3 DEF MinorCounted, HeapInv, HeapType

-----------------------------------------------------------------------------
(* What each step does to the counters.                                    *)

LEMMA CountStutter ==
  ASSUME UNCHANGED heap, MinorCounted, PromotedBounded
  PROVE  MinorCounted' /\ PromotedBounded'
BY DEF heap, MinorCounted, PromotedBounded, In, Words

LEMMA NewMinorCount ==
  ASSUME HeapInv, MinorCounted, PromotedBounded,
         NEW r \in Requests, where[r.obj] = "free", r.obj \in Small, NewMinor(r)
  PROVE  MinorCounted' /\ PromotedBounded'
<1>1. r.obj \in Objs /\ where \in [Objs -> {"minor", "major", "free"}] /\ bump \in Nat
  BY RequestForm, SizesAssumption DEF HeapInv, HeapType
<1>2. In("minor")' = In("minor") \cup {r.obj}
  BY <1>1 DEF NewMinor, In
<1>3. In("minor") \in SUBSET Objs /\ r.obj \notin In("minor")
  BY DEF In
<1>4. Words(In("minor") \cup {r.obj}) = Words(In("minor")) + SmallWh
  BY <1>3, WordsAdd
<1>5. Words(In("minor"))' = Words(In("minor")) + SmallWh
  BY <1>2, <1>4 DEF Words
<1>6. Words(In("minor")) \in Nat
  BY <1>3, WordsType
<1>7. MinorCounted'
  BY <1>1, <1>2, <1>5, <1>6, SizesAssumption DEF MinorCounted, NewMinor
<1> QED
  BY <1>7 DEF NewMinor, PromotedBounded

LEMMA NewMajorCount ==
  ASSUME HeapInv, MinorCounted, PromotedBounded,
         NEW r \in Requests, where[r.obj] = "free", NewMajor(r)
  PROVE  MinorCounted' /\ PromotedBounded'
<1>1. r.obj \in Objs /\ where \in [Objs -> {"minor", "major", "free"}]
  BY RequestForm DEF HeapInv, HeapType
<1>2. In("minor")' = In("minor")
  BY <1>1 DEF NewMajor, In
<1> QED
  BY <1>2 DEF NewMajor, MinorCounted, PromotedBounded, Words

\* A collection empties the minor heap.
LEMMA EmptiedCount ==
  ASSUME HeapInv', bump' = 0
  PROVE  MinorCounted'
<1>1. In("minor")' = {}
  BY DEF HeapInv, BumpZero
<1>2. Words(In("minor"))' = Words({})
  BY <1>1 DEF Words
<1> QED
  BY <1>1, <1>2, WordsEmpty DEF MinorCounted

-----------------------------------------------------------------------------
(* The calls under way.                                                    *)

LEMMA PopCount ==
  ASSUME StackInv, SmallRequest, FatalAlone, stack # <<>>, Return
  PROVE  SmallRequest' /\ FatalAlone' /\ stack' # <<"fatal">>
<1>1. stack \in Seq(Frames) /\ stack' = Tail(stack) /\ req' = req
  BY DEF StackInv, Return
<1>2. Len(stack') \in Nat /\ \A i \in 1 .. Len(stack') :
        i + 1 \in 2 .. Len(stack) /\ stack'[i] = stack[i + 1]
  BY <1>1
<1>3. SmallRequest' /\ FatalAlone'
  BY <1>1, <1>2 DEF SmallRequest, FatalAlone
<1>4. ASSUME stack' = <<"fatal">> PROVE FALSE
  <2>1. 1 \in 1 .. Len(stack') /\ stack'[1] = "fatal"
    BY <1>4
  <2> QED
    BY <1>2, <2>1 DEF FatalAlone
<1> QED
  BY <1>3, <1>4

LEMMA PushCount ==
  ASSUME StackInv, SmallRequest, FatalAlone, stack # <<>>, UNCHANGED req,
         NEW u \in Seq(Frames), Len(u) > 0,
         \A i \in 1 .. Len(u) : u[i] \notin {"small", "fatal"},
         stack' = Pushed(u, stack)
  PROVE  SmallRequest' /\ FatalAlone' /\ stack' # <<"fatal">>
<1>1. stack \in Seq(Frames) /\ Len(stack) \in Nat \ {0} /\ Len(u) \in Nat \ {0}
  BY EmptySeq DEF StackInv
<1>2. /\ stack' \in Seq(Frames) /\ Len(stack') = Len(u) + (Len(stack) - 1)
      /\ \A i \in 1 .. Len(u) : stack'[i] = u[i]
      /\ \A i \in 1 .. Len(stack') :
           \/ i \in 1 .. Len(u)
           \/ (i - Len(u)) + 1 \in 1 .. Len(stack) /\ stack'[i] = stack[(i - Len(u)) + 1]
  <2> DEFINE q == Pushed(u, stack)
  <2>1. /\ q \in Seq(Frames) /\ Len(q) = Len(u) + (Len(stack) - 1)
        /\ \A i \in 1 .. Len(u) : q[i] = u[i]
        /\ \A i \in 1 .. Len(q) :
             \/ i \in 1 .. Len(u)
             \/ (i - Len(u)) + 1 \in 1 .. Len(stack) /\ q[i] = stack[(i - Len(u)) + 1]
    BY <1>1, PushedForm, SMTT(40)
  <2> QED
    BY <2>1
<1>3. ASSUME NEW i \in 1 .. Len(stack')
      PROVE  (stack'[i] = "small" => req.obj \in Small) /\ stack'[i] # "fatal"
  <2>1. CASE i \in 1 .. Len(u)
    BY <1>2, <2>1
  <2>2. CASE i \notin 1 .. Len(u)
    <3> DEFINE j == (i - Len(u)) + 1
    <3>1. j \in 2 .. Len(stack) /\ j \in 1 .. Len(stack) /\ stack'[i] = stack[j]
      BY <1>1, <1>2, <2>2
    <3> QED
      BY <3>1 DEF SmallRequest, FatalAlone
  <2> QED
    BY <2>1, <2>2
<1>4. SmallRequest' /\ FatalAlone'
  BY <1>1, <1>2, <1>3 DEF SmallRequest, FatalAlone
<1>5. ASSUME stack' = <<"fatal">> PROVE FALSE
  <2>1. 1 \in 1 .. Len(stack') /\ stack'[1] = "fatal"
    BY <1>5
  <2> QED
    BY <1>3, <2>1
<1> QED
  BY <1>4, <1>5

\* A stack of one frame, or of a collection and a call that waits for it.
LEMMA OneCount ==
  ASSUME NEW f \in Frames, f \notin {"small", "core"}, stack' = <<f>>
  PROVE  /\ SmallRequest' /\ FatalAlone' /\ CoreReady'
         /\ f # "fatal" => stack' # <<"fatal">>
<1>1. Len(stack') = 1 /\ stack'[1] = f /\ Head(stack') = f
  BY OneFrame
<1>2. f # "fatal" => stack' # <<"fatal">>
  BY <1>1, OneFrame DEF Frames
<1> QED
  BY <1>1, <1>2 DEF SmallRequest, FatalAlone, CoreReady

LEMMA CallCount ==
  ASSUME NEW g \in {"minor", "full"}, NEW w \in Waiting, NEW r \in Requests,
         w = "small" => r.obj \in Small, stack' = <<g, w>>, req' = r
  PROVE  SmallRequest' /\ FatalAlone' /\ CoreReady' /\ stack' # <<"fatal">>
<1>1. Len(stack') = 2 /\ stack'[1] = g /\ stack'[2] = w
  OBVIOUS
<1>2. Head(stack') = g
  BY TwoFrames
<1>3. Len(<<"fatal">>) = 1
  OBVIOUS
<1>4. stack' # <<"fatal">>
  BY <1>1, <1>3
<1>5. \A i \in 1 .. Len(stack') : i = 1 \/ i = 2
  BY <1>1
<1>6. SmallRequest'
  BY <1>1, <1>5 DEF SmallRequest
<1>7. FatalAlone'
  BY <1>1, <1>5 DEF FatalAlone, Waiting
<1>8. CoreReady'
  BY <1>2 DEF CoreReady
<1> QED
  BY <1>4, <1>6, <1>7, <1>8

LEMMA EmptyCount ==
  ASSUME stack' = <<>>
  PROVE  SmallRequest' /\ FatalAlone' /\ CoreReady' /\ stack' # <<"fatal">>
BY DEF SmallRequest, FatalAlone, CoreReady

-----------------------------------------------------------------------------
(* The collections.                                                        *)

\* Whether the major heap is short of words depends on the heaps alone.
LEMMA SameShortage ==
  ASSUME UNCHANGED heap
  PROVE  ShortOfWords' <=> ShortOfWords
<1>1. RootValues' = RootValues
  BY DEF heap, RootValues
<1>2. MinorRoots' = MinorRoots
  BY <1>1 DEF heap, MinorRoots
<1>3. Promotable' = Promotable
  BY <1>2 DEF heap, Promotable, Reach
<1>4. Words(Promotable)' = Words(Promotable) /\ FreeWords' = FreeWords
  BY <1>3 DEF heap, FreeWords, In, Words
<1> QED
  BY <1>4 DEF ShortOfWords

\* A minor collection that runs promotes no more than bump, and the threshold
\* test left room for that.
LEMMA CoreCount ==
  ASSUME IInv, CountInv, do_minor_gc_core
  PROVE  CountInv'
<1> USE DEF IInv, CountInv
<1>1. /\ Words(Promotable) \in Nat /\ Words(Promotable) <= bump
      /\ bump \in Nat /\ promoted \in Nat /\ copied \in Nat
      /\ Words(In("major")) \in Nat /\ stack # <<>>
  BY PromotableWords, WordsType, SizesAssumption
     DEF HeapInv, HeapType, In, do_minor_gc_core, Running
<1>2. bump = 0 \/ promoted + bump <= Half
  BY DEF do_minor_gc_core, Running, CoreReady
<1>3. CASE bump = 0 /\ Return /\ UNCHANGED heap
  <2>1. SmallRequest' /\ FatalAlone' /\ stack' # <<"fatal">>
    BY <1>1, <1>3, PopCount
  <2>2. CoreReady' /\ PromotionBudget'
    BY <1>3, <2>1 DEF heap, CoreReady, PromotionBudget
  <2> QED
    BY <1>3, <2>1, <2>2, CountStutter
<1>4. CASE bump # 0 /\ PromotionMayFail /\ Fatal
  <2>1. SmallRequest' /\ FatalAlone' /\ CoreReady'
    BY <1>4, OneCount DEF Fatal, Frames
  <2>2. ShortOfWords => Words(In("major")) - copied > MajorWords - Half - MinorWords
    BY <1>1, <1>2, <1>4, HalfType, SizesAssumption
       DEF FreeWords, ShortOfWords, PromotedBounded, HeapInv, HeapType
  <2>3. PromotionBudget'
    BY <1>4, <2>2, SameShortage DEF Fatal, heap, PromotionBudget, Half, In, Words
  <2> QED
    BY <1>4, <2>1, <2>3, CountStutter DEF Fatal
<1>5. CASE /\ bump # 0 /\ PromoteAndFree({}) /\ promoted' = promoted + BumpBefore
           /\ copied' = copied + Words(Promotable) /\ Return
  <2>1. HeapInv' /\ bump' = 0
    BY <1>5, CoreInv DEF PromoteAndFree, BumpAfter
  <2>2. MinorCounted'
    BY <2>1, EmptiedCount
  <2>3. PromotedBounded'
    BY <1>1, <1>2, <1>5, HalfType DEF PromotedBounded, BumpBefore, Half
  <2>4. SmallRequest' /\ FatalAlone' /\ stack' # <<"fatal">>
    BY <1>1, <1>5, PopCount
  <2>5. CoreReady' /\ PromotionBudget'
    BY <2>1, <2>4 DEF CoreReady, PromotionBudget
  <2> QED
    BY <2>2, <2>3, <2>4, <2>5
<1> QED
  BY <1>3, <1>4, <1>5 DEF do_minor_gc_core

LEMMA FullCount ==
  ASSUME IInv, CountInv, do_full_gc
  PROVE  CountInv'
<1> USE DEF IInv, CountInv
<1>1. /\ Words(Promotable) \in Nat /\ Words(Promotable) <= bump
      /\ bump \in Nat /\ bump <= MinorWords /\ promoted \in Nat /\ copied \in Nat
      /\ Words(In("major")) \in Nat /\ stack # <<>>
  BY PromotableWords, WordsType, SizesAssumption DEF HeapInv, HeapType, In, do_full_gc, Running
<1>2. CASE PromotionMayFail /\ Fatal
  <2>1. SmallRequest' /\ FatalAlone' /\ CoreReady'
    BY <1>2, OneCount DEF Fatal, Frames
  <2>2. ShortOfWords => Words(In("major")) - copied > MajorWords - Half - MinorWords
    BY <1>1, <1>2, HalfType, SizesAssumption DEF FreeWords, ShortOfWords, PromotedBounded
  <2>3. PromotionBudget'
    BY <1>2, <2>2, SameShortage DEF Fatal, heap, PromotionBudget, Half, In, Words
  <2> QED
    BY <1>2, <2>1, <2>3, CountStutter DEF Fatal
<1>3. CASE /\ PromoteAndFree((In("major") \cup Promotable) \ Marked)
           /\ promoted' = 0 /\ copied' = 0 /\ Return
  <2>1. HeapInv' /\ bump' = 0
    BY <1>3, FullInv DEF PromoteAndFree, BumpAfter
  <2>2. MinorCounted'
    BY <2>1, EmptiedCount
  <2>3. PromotedBounded'
    BY <1>3, HalfType DEF PromotedBounded, Half
  <2>4. SmallRequest' /\ FatalAlone' /\ stack' # <<"fatal">>
    BY <1>1, <1>3, PopCount
  <2>5. CoreReady' /\ PromotionBudget'
    BY <2>1, <2>4 DEF CoreReady, PromotionBudget
  <2> QED
    BY <2>2, <2>3, <2>4, <2>5
<1> QED
  BY <1>2, <1>3 DEF do_full_gc

\* The threshold test: a minor collection goes straight to its core only if
\* bump fits under the threshold with what was promoted before.
LEMMA TestCount ==
  ASSUME IInv, CountInv, do_minor_gc
  PROVE  CountInv'
<1> USE DEF IInv, CountInv
<1>1. UNCHANGED heap /\ UNCHANGED req /\ stack # <<>>
  BY DEF do_minor_gc, Running
<1>2. MinorCounted' /\ PromotedBounded'
  BY <1>1, CountStutter
<1>3. \A u : u # <<>> /\ u \in Seq(Frames) => Head(u \o Tail(stack)) = Head(u)
  <2> SUFFICES ASSUME NEW u \in Seq(Frames), u # <<>>
               PROVE  Head(u \o Tail(stack)) = Head(u)
    OBVIOUS
  <2>1. stack \in Seq(Frames) /\ Tail(stack) \in Seq(Frames) /\ Len(u) > 0
    BY <1>1, EmptySeq DEF StackInv
  <2> QED
    BY <2>1
<1>4. CASE bump = 0 /\ Return
  <2>1. SmallRequest' /\ FatalAlone' /\ stack' # <<"fatal">>
    BY <1>1, <1>4, PopCount
  <2> QED
    BY <1>1, <1>2, <1>4, <2>1 DEF heap, CoreReady, PromotionBudget
<1>5. CASE stack' = <<"full", "core">> \o Tail(stack)
  <2> DEFINE u == <<"full", "core">>
  <2>1. "full" \in Frames /\ "core" \in Frames
    BY DEF Frames
  <2>2. /\ u \in Seq(Frames) /\ Len(u) = 2 /\ Head(u) = "full" /\ u # <<>>
        /\ \A i \in 1 .. Len(u) : u[i] \notin {"small", "fatal"}
    BY <2>1, TwoFrames
  <2>3. stack' = Pushed(u, stack) /\ Head(stack') = "full"
    BY <1>3, <1>5, <2>2 DEF Pushed
  <2> HIDE DEF u
  <2>4. SmallRequest' /\ FatalAlone' /\ stack' # <<"fatal">>
    BY <1>1, <2>2, <2>3, PushCount
  <2> QED
    BY <1>2, <2>3, <2>4 DEF CoreReady, PromotionBudget
<1>6. CASE stack' = <<"core">> \o Tail(stack) /\ ~OverThreshold
  <2> DEFINE u == <<"core">>
  <2>1. "core" \in Frames
    BY DEF Frames
  <2>2. /\ u \in Seq(Frames) /\ Len(u) = 1 /\ u # <<>>
        /\ \A i \in 1 .. Len(u) : u[i] \notin {"small", "fatal"}
    BY <2>1, OneFrame
  <2>3. stack' = Pushed(u, stack)
    BY <1>6 DEF Pushed
  <2> HIDE DEF u
  <2>4. SmallRequest' /\ FatalAlone' /\ stack' # <<"fatal">>
    BY <1>1, <2>2, <2>3, PushCount
  <2>5. promoted + bump <= Half
    BY <1>6, HalfType, SizesAssumption DEF OverThreshold, Half, HeapInv, HeapType
  <2> QED
    BY <1>1, <1>2, <2>4, <2>5 DEF CoreReady, PromotionBudget, heap, Half
<1> QED
  BY <1>4, <1>5, <1>6 DEF do_minor_gc, Return

-----------------------------------------------------------------------------
(* Allocation and the program.                                             *)

LEMMA AllocateCount ==
  ASSUME IInv, CountInv, NEW r \in Requests, where[r.obj] = "free", verified_allocate(r)
  PROVE  CountInv'
<1> USE DEF IInv, CountInv
<1>1. CASE NewMajor(r) /\ stack' = <<>>
  BY <1>1, NewMajorCount, EmptyCount DEF PromotionBudget
<1>2. CASE stack' = <<"full", "again">> /\ req' = r /\ UNCHANGED heap
  <2>1. SmallRequest' /\ FatalAlone' /\ CoreReady' /\ stack' # <<"fatal">>
    BY <1>2, CallCount DEF Waiting
  <2> QED
    BY <1>2, <2>1, CountStutter DEF PromotionBudget
<1> QED
  BY <1>1, <1>2 DEF verified_allocate, Allocated

LEMMA AllocStepCount ==
  ASSUME IInv, CountInv, NEW o \in Objs, NEW s \in RootVars, NEW d \in RootVars,
         Alloc_small(o, s, d) \/ caml_alloc_shr(o, s, d) \/ caml_make_vect(o, s, d)
  PROVE  CountInv'
<1> USE DEF IInv, CountInv
<1> DEFINE Req(k) == [kind |-> k, obj |-> o, src |-> s, dst |-> d]
<1>1. \A k \in {"small", "shr", "vect"} : Req(k) \in Requests /\ Req(k).obj = o
  BY DEF Requests
<1>2. stack = <<>> /\ where[o] = "free"
  BY DEF Alloc_small, caml_alloc_shr, caml_make_vect, In
<1>3. CASE Alloc_small(o, s, d)
  <2>1. Req("small") \in Requests /\ Req("small").obj = o /\ o \in Small
    BY <1>1, <1>3 DEF Alloc_small
  <2>2. CASE NewMinor(Req("small")) /\ UNCHANGED <<stack, req>>
    BY <1>2, <2>1, <2>2, NewMinorCount, EmptyCount DEF PromotionBudget
  <2>3. CASE stack' = <<"minor", "small">> /\ req' = Req("small") /\ UNCHANGED heap
    <3>1. SmallRequest' /\ FatalAlone' /\ CoreReady' /\ stack' # <<"fatal">>
      BY <2>1, <2>3, CallCount DEF Waiting
    <3> QED
      BY <2>3, <3>1, CountStutter DEF PromotionBudget
  <2> QED
    BY <1>3, <2>2, <2>3 DEF Alloc_small
<1>4. CASE caml_alloc_shr(o, s, d)
  BY <1>1, <1>2, <1>4, AllocateCount DEF caml_alloc_shr
<1>5. CASE caml_make_vect(o, s, d)
  <2>1. Req("vect") \in Requests /\ Req("vect").obj = o
    BY <1>1
  <2>2. CASE verified_allocate(Req("vect"))
    BY <1>2, <2>1, <2>2, AllocateCount
  <2>3. CASE stack' = <<"minor", "vect">> /\ req' = Req("vect") /\ UNCHANGED heap
    <3>1. SmallRequest' /\ FatalAlone' /\ CoreReady' /\ stack' # <<"fatal">>
      BY <2>1, <2>3, CallCount DEF Waiting
    <3> QED
      BY <2>3, <3>1, CountStutter DEF PromotionBudget
  <2> QED
    BY <1>5, <2>2, <2>3 DEF caml_make_vect
<1> QED
  BY <1>3, <1>4, <1>5

LEMMA ResumeStepCount ==
  ASSUME IInv, CountInv, verified_allocate_minor \/ make_vect_alloc \/ verified_allocate_again
  PROVE  CountInv'
<1> USE DEF IInv, CountInv
<1>1. CASE verified_allocate_minor
  <2>1. /\ req \in Requests /\ where[req.obj] = "free" /\ bump = 0
        /\ Tail(stack) = <<>> /\ stack # <<>> /\ Len(stack) > 0
    BY <1>1, Resumed DEF verified_allocate_minor, Waiting
  <2>2. MinorFits
    BY <2>1, SizesAssumption DEF MinorFits
  <2>3. NewMinor(req) /\ stack' = <<>> /\ Running("small")
    BY <1>1, <2>1, <2>2 DEF verified_allocate_minor
  <2>4. stack[1] = "small" /\ 1 \in 1 .. Len(stack)
    BY <2>1, <2>3 DEF Running, StackInv
  <2>5. req.obj \in Small
    BY <2>4 DEF SmallRequest
  <2>6. MinorCounted' /\ PromotedBounded'
    BY <2>1, <2>3, <2>5, NewMinorCount
  <2> QED
    BY <2>3, <2>6, EmptyCount DEF PromotionBudget
<1>2. CASE make_vect_alloc
  <2>1. req \in Requests /\ where[req.obj] = "free" /\ verified_allocate(req)
    BY <1>2, Resumed DEF make_vect_alloc, Waiting
  <2> QED
    BY <2>1, AllocateCount
<1>3. CASE verified_allocate_again
  <2>1. req \in Requests /\ where[req.obj] = "free" /\ stack' = <<>>
    BY <1>3, Resumed DEF verified_allocate_again, Waiting
  <2>2. MinorCounted' /\ PromotedBounded'
    BY <1>3, <2>1, NewMajorCount, CountStutter DEF verified_allocate_again, Allocated
  <2> QED
    BY <2>1, <2>2, EmptyCount DEF PromotionBudget
<1> QED
  BY <1>1, <1>2, <1>3

LEMMA ProgramCount ==
  ASSUME IInv, CountInv,
         \/ \E r \in RootVars : Forget(r)
         \/ \E r, s \in RootVars : Load(r, s) \/ caml_modify(r, s)
         \/ caml_minor_collection \/ caml_trigger_verified_gc
  PROVE  CountInv'
<1> USE DEF CountInv
<1>1. UNCHANGED <<where, bump, promoted, copied>>
  BY DEF Forget, Load, caml_modify, UNCHANGED_but_roots, caml_minor_collection,
         caml_trigger_verified_gc, heap
<1>2. MinorCounted' /\ PromotedBounded'
  BY <1>1 DEF MinorCounted, PromotedBounded, In, Words
<1>3. stack' = <<>> \/ \E f \in Frames : f \notin {"small", "core", "fatal"} /\ stack' = <<f>>
  BY DEF Forget, Load, caml_modify, UNCHANGED_but_roots, caml_minor_collection,
         caml_trigger_verified_gc, Frames
<1>4. SmallRequest' /\ FatalAlone' /\ CoreReady' /\ stack' # <<"fatal">>
  BY <1>3, EmptyCount, OneCount
<1> QED
  BY <1>2, <1>4 DEF PromotionBudget

LEMMA NextCount == BudgetInv /\ [Next]_vars => CountInv'
<1> SUFFICES ASSUME IInv, CountInv, [Next]_vars PROVE CountInv'
  BY DEF BudgetInv
<1>1. CASE do_minor_gc \/ do_minor_gc_core \/ do_full_gc
  BY <1>1, TestCount, CoreCount, FullCount
<1>2. CASE verified_allocate_minor \/ make_vect_alloc \/ verified_allocate_again
  BY <1>2, ResumeStepCount
<1>3. CASE \E o \in Objs, s, d \in RootVars :
             Alloc_small(o, s, d) \/ caml_alloc_shr(o, s, d) \/ caml_make_vect(o, s, d)
  BY <1>3, AllocStepCount
<1>4. CASE \/ \E r \in RootVars : Forget(r)
           \/ \E r, s \in RootVars : Load(r, s) \/ caml_modify(r, s)
           \/ caml_minor_collection \/ caml_trigger_verified_gc
  BY <1>4, ProgramCount
<1>5. CASE UNCHANGED vars
  <2>1. UNCHANGED heap /\ UNCHANGED <<stack, req>>
    BY <1>5 DEF vars
  <2>2. MinorCounted' /\ PromotedBounded'
    BY <2>1, CountStutter DEF CountInv
  <2>3. CoreReady' /\ SmallRequest' /\ FatalAlone' /\ PromotionBudget'
    BY <2>1, SameShortage
       DEF CountInv, heap, CoreReady, SmallRequest, FatalAlone, PromotionBudget, In, Words
  <2> QED
    BY <2>2, <2>3 DEF CountInv
<1> QED
  BY <1>1, <1>2, <1>3, <1>4, <1>5 DEF Next

LEMMA InitCount == Init => CountInv
<1> SUFFICES ASSUME Init PROVE CountInv
  OBVIOUS
<1>1. In("minor") = {} /\ stack = <<>> /\ bump = 0 /\ promoted = 0 /\ copied = 0
  BY DEF Init, In
<1>2. MinorCounted
  <2>1. Words(In("minor")) = Words({})
    BY <1>1
  <2> QED
    BY <1>1, <2>1, WordsEmpty DEF MinorCounted
<1>3. PromotedBounded
  BY <1>1, HalfType DEF PromotedBounded
<1> QED
  BY <1>1, <1>2, <1>3
     DEF CountInv, CoreReady, SmallRequest, FatalAlone, PromotionBudget

LEMMA BudgetInvariance == Spec => []BudgetInv
<1>1. Init => BudgetInv
  BY InitInv, InitCount DEF BudgetInv
<1>2. BudgetInv /\ [Next]_vars => BudgetInv'
  BY NextInv, NextCount DEF BudgetInv
<1> QED
  BY <1>1, <1>2, PTL DEF Spec

-----------------------------------------------------------------------------
(* The theorems.                                                           *)

\* The count do_minor_gc tests is an upper bound of the words promoted since
\* the last full collection, for every interleaving of allocations, failed
\* attempts and collections.
THEOREM EstimateConservative == Spec => []PromotedIsUpperBound
<1>1. BudgetInv => PromotedIsUpperBound
  BY DEF BudgetInv, CountInv, PromotedBounded, PromotedIsUpperBound
<1> QED
  BY <1>1, BudgetInvariance, PTL

\* When fatal_promotion_failed ends the process for want of words, the blocks
\* that promotion did not put in the major heap take all but half of it and a
\* minor heap: the threshold leaves room in words, if not in one piece.
THEOREM BudgetKept == Spec => []PromotionBudget
<1>1. BudgetInv => PromotionBudget
  BY DEF BudgetInv, CountInv
<1> QED
  BY <1>1, BudgetInvariance, PTL
=============================================================================
