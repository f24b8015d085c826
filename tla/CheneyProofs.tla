---------------------------- MODULE CheneyProofs ----------------------------
(***************************************************************************)
(* What Cheney promises for every heap, every number of blocks and infix   *)
(* headers, and whatever allocate answers: sharing is kept, the queue      *)
(* holds each promoted block once, what is promoted is what is live, and a *)
(* collection that promoted everything leaves no pointer into the minor    *)
(* heap and moves the program's roots along.  The invariant says what each *)
(* loop has done when its cursor has come so far; an allocation that       *)
(* failed excuses every clause about completeness.                         *)
(***************************************************************************)
EXTENDS Cheney, FiniteSetTheorems, SequenceTheorems, TLAPS

-----------------------------------------------------------------------------
(* The invariant.                                                          *)

HeapType ==
  /\ field \in [MinorObjs -> Seq(Values)] /\ noscan \subseteq MinorObjs
  /\ OldObjs \subseteq DOMAIN mem /\ DOMAIN mem \subseteq MajorObjs
  /\ \A b \in DOMAIN mem : mem[b] \in Seq(Values)
  /\ memNoscan \subseteq DOMAIN mem
  /\ fwd_arr \in [MinorPtrs -> MajorPtrs \cup {Null}]
  /\ queue \in Seq(MinorObjs)
  /\ oom \in BOOLEAN

RootsType == globals \in Seq(Values) /\ roots \in Seq(Values)
CursorType == scan \in 1 .. Len(queue) + 1 /\ idx \in Nat \ {0}
PcType == pc \in {"collect", "refs", "roots", "scan", "update", "slots", "reset",
                  "done", "fatal", "internal error"}

\* The remembered slots are fields of old blocks.
SlotsType ==
  /\ slots \in Seq(OldObjs \X (Nat \ {0}))
  /\ \A k \in DOMAIN slots : slots[k][2] \in DOMAIN mem[slots[k][1]]

\* A block is in use because it was before or because it holds a copy, and a
\* copy has the tag of its original.
CopiesPlaced ==
  /\ \A b \in DOMAIN mem : b \in OldObjs \/ \E o \in Promoted : b = Copy(o).obj
  /\ \A o \in Promoted : Copy(o).obj \in memNoscan <=> o \in noscan

HeapInv == HeapType /\ SharingKept /\ QueueExact /\ CopiesPlaced

\* Every field of an old block that may hold a minor pointer is remembered.
OldRemembered ==
  \A b \in OldObjs \ memNoscan : \A i \in DOMAIN mem[b] :
    is_minor(mem[b][i]) => \E k \in DOMAIN slots : slots[k] = <<b, i>>

Forwarded(v)  == is_minor(v) => fwd_arr[v] # Null
Settled(ws)   == \A i \in DOMAIN ws : ~is_minor(ws[i])
FreshCopies   == \A o \in Promoted : mem[Copy(o).obj] = field[o]
RootsGlobal   == Len(globals) <= Len(roots) /\ \A i \in DOMAIN globals : roots[i] = globals[i]
Rooted(k)     == is_minor(Slot(slots[k])) => \E j \in DOMAIN roots : roots[j] = Slot(slots[k])
AllRooted     == \A k \in DOMAIN slots : Rooted(k)
RootsForwarded  == \A i \in DOMAIN roots : Forwarded(roots[i])
FieldsForwarded(o) == o \notin noscan => \A i \in DOMAIN field[o] : Forwarded(field[o][i])

AtStart ==
  /\ fwd_arr = [p \in MinorPtrs |-> Null] /\ queue = <<>>
  /\ scan = 1 /\ ~oom
AtRefs ==
  /\ AtStart /\ RootsGlobal
  /\ \A k \in 1 .. idx - 1 : k \in DOMAIN slots => Rooted(k)
AtRoots ==
  /\ scan = 1 /\ RootsGlobal /\ AllRooted /\ FreshCopies /\ Promoted \subseteq Live
  /\ oom \/ \A i \in 1 .. idx - 1 : i \in DOMAIN roots => Forwarded(roots[i])
AtScan ==
  /\ RootsGlobal /\ AllRooted /\ FreshCopies /\ Promoted \subseteq Live
  /\ scan > Len(queue) => idx = 1
  /\ oom \/ /\ RootsForwarded
            /\ \A k \in 1 .. scan - 1 : FieldsForwarded(queue[k])
            /\ scan <= Len(queue) =>
                 \A i \in 1 .. idx - 1 : i <= ScanLength => Forwarded(field[Scanned][i])
AtUpdate ==
  /\ RootsGlobal /\ AllRooted /\ Promoted \subseteq Live
  /\ oom \/ /\ RootsForwarded
            /\ \A o \in Promoted : FieldsForwarded(o)
            /\ \A o \in Promoted \ noscan :
                 IF o < idx THEN Settled(mem[Copy(o).obj]) ELSE mem[Copy(o).obj] = field[o]
AtSlots ==
  /\ RootsGlobal /\ AllRooted
  /\ oom \/ /\ RootsForwarded
            /\ \A o \in Promoted \ noscan : Settled(mem[Copy(o).obj])
            /\ \A k \in 1 .. idx - 1 : k \in DOMAIN slots => ~is_minor(Slot(slots[k]))
AtReset ==
  oom \/ /\ \A b \in DOMAIN mem \ memNoscan : Settled(mem[b])
         /\ Len(globals) <= Len(roots)
         /\ \A i \in DOMAIN globals : /\ Forwarded(globals[i])
                                      /\ roots[i] = rewritten(globals[i])
AtDone == /\ \A b \in DOMAIN mem \ memNoscan : Settled(mem[b])
          /\ Settled(globals)

PhaseInv ==
  /\ pc # "done" => OldRemembered
  /\ pc = "collect" => AtStart /\ idx = 1
  /\ pc = "refs"    => AtRefs
  /\ pc = "roots"   => AtRoots
  /\ pc = "scan"    => AtScan
  /\ pc = "update"  => AtUpdate
  /\ pc = "slots"   => AtSlots
  /\ pc = "reset"   => AtReset
  /\ pc = "done"    => AtDone
  /\ pc # "internal error"

IInv == HeapInv /\ RootsType /\ CursorType /\ PcType /\ SlotsType /\ PhaseInv

-----------------------------------------------------------------------------
(* Pointers and forwarding addresses.                                      *)

Block(o)    == [gen |-> "minor", obj |-> o, off |-> 0]
Into(d, k)  == [gen |-> "major", obj |-> d, off |-> k]

LEMMA ValueForm ==
  ASSUME NEW v \in Values
  PROVE  /\ is_minor(v) => v \in MinorPtrs
         /\ ~is_minor(v) => v \in MajorPtrs \cup {Null}
BY DEF Values, MinorPtrs, MajorPtrs, Null, is_minor

LEMMA MajorForm ==
  /\ \A v \in MajorPtrs \cup {Null} : v \in Values /\ ~is_minor(v)
  /\ \A d \in MajorObjs, k \in Offsets : Into(d, k) \in MajorPtrs /\ Into(d, k) # Null
  /\ Null \notin MajorPtrs
BY DEF Values, MinorPtrs, MajorPtrs, Null, is_minor, Into

LEMMA MinorForm ==
  ASSUME NEW v \in MinorPtrs
  PROVE  /\ v.obj \in MinorObjs /\ v.off \in Offsets /\ is_minor(v)
         /\ parent(v) = Block(v.obj) /\ parent(v) \in MinorPtrs
         /\ \A u \in MinorPtrs : u.obj = v.obj /\ u.off = v.off => u = v
BY DEF MinorPtrs, parent, Block, is_minor, Offsets

LEMMA BlockForm ==
  ASSUME NEW o \in MinorObjs
  PROVE  Block(o) \in MinorPtrs /\ Block(o).obj = o /\ Block(o).off = 0 /\ Copy(o) = fwd_arr[Block(o)]
BY DEF MinorPtrs, Block, Copy, Offsets

\* A minor pointer is forwarded only if its block is, and then into its copy.
LEMMA ForwardedForm ==
  ASSUME HeapType, SharingKept, NEW p \in MinorPtrs, fwd_arr[p] # Null
  PROVE  /\ p.obj \in Promoted
         /\ fwd_arr[p] = Into(Copy(p.obj).obj, p.off) /\ ~is_minor(fwd_arr[p])
         /\ fwd_arr[p] \in MajorPtrs
<1>1. p.obj \in MinorObjs /\ p.off \in Offsets
  BY MinorForm
<1>2. fwd_arr[p] \in MajorPtrs /\ fwd_arr[p] = [Copy(p.obj) EXCEPT !.off = p.off]
  BY DEF HeapType, SharingKept
<1>3. Copy(p.obj) \in MajorPtrs \cup {Null}
  BY <1>1, BlockForm DEF HeapType
<1>4. Copy(p.obj) # Null
  BY <1>2 DEF MajorPtrs, Null
<1>5. Copy(p.obj) \in MajorPtrs
  BY <1>3, <1>4
<1>6. [Copy(p.obj) EXCEPT !.off = p.off] = Into(Copy(p.obj).obj, p.off)
  BY <1>5 DEF MajorPtrs, Into
<1>7. p.obj \in Promoted
  BY <1>1, <1>4 DEF Promoted
<1>8. ~is_minor(fwd_arr[p])
  BY <1>2, MajorForm
<1> QED
  BY <1>2, <1>6, <1>7, <1>8

LEMMA CopyForm ==
  ASSUME HeapType, SharingKept, NEW o \in Promoted
  PROVE  /\ o \in MinorObjs /\ Copy(o) = Into(Copy(o).obj, 0) /\ Copy(o) # Null
         /\ Copy(o).obj \in DOMAIN mem \ OldObjs
<1>1. o \in MinorObjs /\ Copy(o) # Null
  BY DEF Promoted
<1>2. Block(o) \in MinorPtrs /\ Block(o).obj = o /\ Block(o).off = 0 /\ Copy(o) = fwd_arr[Block(o)]
  BY <1>1, BlockForm
<1>3. fwd_arr[Block(o)].obj \in DOMAIN mem \ OldObjs
  BY <1>1, <1>2 DEF SharingKept
<1>4. fwd_arr[Block(o)] = Into(Copy(o).obj, 0)
  BY <1>1, <1>2, ForwardedForm
<1> QED
  BY <1>1, <1>2, <1>3, <1>4

LEMMA MinorFinite == IsFiniteSet(MinorObjs) /\ Cardinality(MinorObjs) = NumMinor
BY SizesAssumption, FS_Interval DEF MinorObjs

LEMMA PromotedFinite == Promoted \subseteq MinorObjs /\ IsFiniteSet(Promoted)
BY MinorFinite, FS_Subset DEF Promoted

-----------------------------------------------------------------------------
(* forward_if_minor.                                                       *)

\* What forwarding leaves alone.
Grows ==
  /\ Promoted \subseteq Promoted'
  /\ \A p \in MinorPtrs : fwd_arr[p] # Null => fwd_arr'[p] = fwd_arr[p]
  /\ Len(queue) <= Len(queue') /\ \A k \in 1 .. Len(queue) : queue'[k] = queue[k]
  /\ DOMAIN mem \subseteq DOMAIN mem'
  /\ \A b \in DOMAIN mem : mem'[b] = mem[b] /\ (b \in memNoscan' <=> b \in memNoscan)
  /\ oom => oom'

\* An infix pointer whose closure was promoted before.
LEMMA InfixForwarded ==
  ASSUME HeapInv, FreshCopies, UNCHANGED <<minorHeap, mem, memNoscan, queue, oom>>,
         NEW v \in MinorPtrs, fwd_arr[v] = Null, fwd_arr[parent(v)] # Null,
         fwd_arr' = [fwd_arr EXCEPT ![v] = [fwd_arr[parent(v)] EXCEPT !.off = v.off]]
  PROVE  HeapInv' /\ FreshCopies' /\ Grows /\ Promoted' = Promoted /\ fwd_arr'[v] # Null
<1> USE DEF HeapInv, minorHeap
<1>1. /\ parent(v) = Block(v.obj) /\ parent(v) \in MinorPtrs /\ v.obj \in MinorObjs
      /\ v.off \in Offsets /\ v # parent(v)
  BY MinorForm
<1>2. v.obj \in Promoted
  BY <1>1, BlockForm DEF Promoted
<1>3. Copy(v.obj) = Into(Copy(v.obj).obj, 0) /\ Copy(v.obj) = fwd_arr[parent(v)]
      /\ Copy(v.obj).obj \in DOMAIN mem \ OldObjs
  BY <1>1, <1>2, CopyForm, BlockForm
<1>4. [fwd_arr[parent(v)] EXCEPT !.off = v.off] = Into(Copy(v.obj).obj, v.off)
  BY <1>3 DEF Into
<1>5. /\ fwd_arr \in [MinorPtrs -> MajorPtrs \cup {Null}]
      /\ Copy(v.obj).obj \in MajorObjs
  BY <1>3 DEF HeapType
<1>6. Into(Copy(v.obj).obj, v.off) \in MajorPtrs /\ Into(Copy(v.obj).obj, v.off) # Null
  BY <1>1, <1>5, MajorForm
<1>7. /\ fwd_arr' \in [MinorPtrs -> MajorPtrs \cup {Null}]
      /\ fwd_arr'[v] = Into(Copy(v.obj).obj, v.off)
      /\ \A p \in MinorPtrs : p # v => fwd_arr'[p] = fwd_arr[p]
  BY <1>4, <1>5, <1>6
<1>8. \A o \in MinorObjs : Copy(o)' = Copy(o)
  <2> SUFFICES ASSUME NEW o \in MinorObjs PROVE fwd_arr'[Block(o)] = fwd_arr[Block(o)]
    BY DEF Copy, Block
  <2>1. Block(o) # v
    BY <1>1, BlockForm
  <2> QED
    BY <1>7, <2>1, BlockForm
<1>9. Promoted' = Promoted
  BY <1>8 DEF Promoted
<1>10. SharingKept'
  <2>1. ASSUME NEW p \in MinorPtrs, fwd_arr'[p] # Null
        PROVE  /\ fwd_arr'[p] = [Copy(p.obj)' EXCEPT !.off = p.off]
               /\ fwd_arr'[p].obj \in DOMAIN mem' \ OldObjs
    <3>1. p.obj \in MinorObjs /\ Copy(p.obj)' = Copy(p.obj)
      BY <1>8, MinorForm
    <3>2. CASE p = v
      <4>1. Into(Copy(v.obj).obj, v.off).obj = Copy(v.obj).obj
        BY DEF Into
      <4> QED
        BY <1>3, <1>4, <1>7, <3>1, <3>2, <4>1
    <3>3. CASE p # v
      BY <1>7, <2>1, <3>1, <3>3 DEF SharingKept
    <3> QED
      BY <3>2, <3>3
  <2>2. \A o1, o2 \in Promoted' : Copy(o1)' = Copy(o2)' => o1 = o2
    BY <1>8, <1>9, PromotedFinite DEF SharingKept
  <2> QED
    BY <2>1, <2>2 DEF SharingKept
<1>11. QueueExact'
  BY <1>9 DEF QueueExact, Range
<1>12. CopiesPlaced' /\ FreshCopies'
  BY <1>8, <1>9, PromotedFinite DEF CopiesPlaced, FreshCopies
<1>13. HeapType'
  BY <1>7 DEF HeapType
<1>14. Grows
  BY <1>7, <1>9 DEF Grows, HeapType
<1> QED
  BY <1>6, <1>7, <1>9, <1>10, <1>11, <1>12, <1>13, <1>14

\* A block promoted into d, which was not in use; v leads to it.
LEMMA PromoteInv ==
  ASSUME HeapInv, FreshCopies, UNCHANGED minorHeap, UNCHANGED oom,
         NEW v \in MinorPtrs, fwd_arr[parent(v)] = Null,
         NEW d \in MajorObjs \ DOMAIN mem, Promote(v.obj, d), fwd_arr' = recorded(v, d)
  PROVE  HeapInv' /\ FreshCopies' /\ Grows /\ Promoted' = Promoted \cup {v.obj}
         /\ fwd_arr'[v] # Null
<1> USE DEF HeapInv, minorHeap
<1> DEFINE o == v.obj
<1>1. /\ parent(v) = Block(o) /\ Block(o) \in MinorPtrs /\ o \in MinorObjs
      /\ v.off \in Offsets /\ 0 \in Offsets /\ d \in MajorObjs
  BY MinorForm DEF Offsets
<1>2. o \notin Promoted
  BY <1>1, BlockForm DEF Promoted
<1>3. /\ Into(d, 0) \in MajorPtrs /\ Into(d, v.off) \in MajorPtrs
      /\ Into(d, 0) # Null /\ Into(d, v.off) # Null
  BY <1>1, MajorForm
<1>4. /\ fwd_arr' \in [MinorPtrs -> MajorPtrs \cup {Null}]
      /\ fwd_arr'[v] = Into(d, v.off)
      /\ fwd_arr'[Block(o)] = Into(d, 0)
      /\ \A p \in MinorPtrs : p # v /\ p # Block(o) => fwd_arr'[p] = fwd_arr[p]
  <2>1. fwd_arr' = [fwd_arr EXCEPT ![Block(o)] = Into(d, 0), ![v] = Into(d, v.off)]
    BY <1>1 DEF recorded, Into
  <2>2. fwd_arr \in [MinorPtrs -> MajorPtrs \cup {Null}]
    BY DEF HeapType
  <2>3. v = Block(o) => v.off = 0
    BY <1>1, BlockForm
  <2> QED
    BY <1>1, <1>3, <2>1, <2>2, <2>3
<1>5. \A p \in MinorPtrs : p.obj # o => fwd_arr'[p] = fwd_arr[p]
  BY <1>1, <1>4, BlockForm
<1>6. \A p \in MinorPtrs : p.obj = o => fwd_arr[p] = Null
  BY <1>2, ForwardedForm
<1>7. Copy(o)' = Into(d, 0) /\ \A q \in MinorObjs : q # o => Copy(q)' = Copy(q)
  BY <1>1, <1>4, <1>5, BlockForm DEF Copy, Block
<1>8. Promoted' = Promoted \cup {o}
  BY <1>1, <1>3, <1>7 DEF Promoted
<1>9. /\ DOMAIN mem' = DOMAIN mem \cup {d} /\ mem'[d] = field[o]
      /\ \A b \in DOMAIN mem : mem'[b] = mem[b] /\ b # d
      /\ memNoscan' = IF o \in noscan THEN memNoscan \cup {d} ELSE memNoscan
      /\ d \notin memNoscan /\ d \notin OldObjs
  BY DEF Promote, HeapType
<1>10. \A q \in Promoted : /\ q # o /\ Copy(q)' = Copy(q) /\ Copy(q).obj \in DOMAIN mem \ OldObjs
                           /\ Copy(q).obj # d
  BY <1>2, <1>7, CopyForm, PromotedFinite
<1>11. Into(d, 0).obj = d /\ Into(d, v.off).obj = d
  BY DEF Into
<1>12. SharingKept'
  <2>1. ASSUME NEW p \in MinorPtrs, fwd_arr'[p] # Null
        PROVE  /\ fwd_arr'[p] = [Copy(p.obj)' EXCEPT !.off = p.off]
               /\ fwd_arr'[p].obj \in DOMAIN mem' \ OldObjs
    <3>1. p.obj \in MinorObjs
      BY MinorForm
    <3>2. CASE p.obj # o
      BY <1>5, <1>7, <1>9, <2>1, <3>1, <3>2 DEF SharingKept
    <3>3. CASE p.obj = o
      <4>1. p = v \/ p = Block(o)
        BY <1>4, <1>6, <2>1, <3>3
      <4>2. fwd_arr'[p] = Into(d, p.off)
        BY <1>1, <1>4, <4>1, BlockForm
      <4>3. [Into(d, 0) EXCEPT !.off = p.off] = Into(d, p.off) /\ Into(d, p.off).obj = d
        BY DEF Into
      <4> QED
        BY <1>7, <1>9, <3>3, <4>2, <4>3
    <3> QED
      BY <3>2, <3>3
  <2>2. ASSUME NEW o1 \in Promoted', NEW o2 \in Promoted', Copy(o1)' = Copy(o2)'
        PROVE  o1 = o2
    <3>1. CASE o1 \in Promoted /\ o2 \in Promoted
      BY <1>10, <2>2, <3>1 DEF SharingKept
    <3>2. CASE o1 = o /\ o2 \in Promoted
      BY <1>7, <1>10, <1>11, <2>2, <3>2
    <3>3. CASE o2 = o /\ o1 \in Promoted
      BY <1>7, <1>10, <1>11, <2>2, <3>3
    <3> QED
      BY <1>8, <3>1, <3>2, <3>3
  <2> QED
    BY <2>1, <2>2 DEF SharingKept
<1>13. /\ queue' = Append(queue, o) /\ Len(queue') = Len(queue) + 1
       /\ Cardinality(Promoted') = Len(queue')
       /\ queue' \in Seq(MinorObjs)
  <2>1. Promoted' \subseteq MinorObjs /\ IsFiniteSet(Promoted)
    BY <1>1, <1>8, PromotedFinite
  <2>2. Cardinality(Promoted') = Cardinality(Promoted) + 1
    BY <1>2, <1>8, <2>1, FS_AddElement
  <2>3. Cardinality(Promoted') <= NumMinor
    BY <2>1, MinorFinite, FS_Subset
  <2>4. Cardinality(Promoted) \in Nat /\ Cardinality(Promoted) = Len(queue)
    BY <2>1, FS_CardinalityType DEF QueueExact
  <2>5. Len(queue) < QueueSize
    BY <2>2, <2>3, <2>4, QueueAssumption, SizesAssumption
  <2>6. queue' = Append(queue, o)
    BY <2>5 DEF Promote, enqueued
  <2>7. queue \in Seq(MinorObjs)
    BY DEF HeapType
  <2> QED
    BY <1>1, <2>2, <2>4, <2>6, <2>7
<1>14. /\ \A k \in 1 .. Len(queue) : queue'[k] = queue[k]
       /\ queue'[Len(queue) + 1] = o
       /\ Len(queue) \in Nat /\ DOMAIN queue = 1 .. Len(queue) /\ DOMAIN queue' = 1 .. Len(queue')
  BY <1>1, <1>13 DEF HeapType
<1>15. QueueExact'
  <2>1. Range(queue) = Promoted
    BY DEF QueueExact
  <2>2. Range(queue)' = Range(queue) \cup {o}
    BY <1>13, <1>14 DEF Range
  <2> QED
    BY <1>8, <1>13, <2>1, <2>2 DEF QueueExact
<1>16. CopiesPlaced'
  <2>1. ASSUME NEW b \in DOMAIN mem', b \notin OldObjs
        PROVE  \E q \in Promoted' : b = Copy(q)'.obj
    BY <1>7, <1>8, <1>9, <1>10, <1>11, <2>1 DEF CopiesPlaced
  <2>2. ASSUME NEW q \in Promoted'
        PROVE  Copy(q)'.obj \in memNoscan' <=> q \in noscan'
    BY <1>7, <1>8, <1>9, <1>10, <1>11 DEF CopiesPlaced
  <2> QED
    BY <2>1, <2>2 DEF CopiesPlaced
<1>17. FreshCopies'
  BY <1>7, <1>8, <1>9, <1>10, <1>11 DEF FreshCopies
<1>18. HeapType'
  <2>1. field[o] \in Seq(Values)
    BY <1>1 DEF HeapType
  <2> QED
    BY <1>1, <1>4, <1>9, <1>13, <2>1 DEF HeapType
<1>19. Grows
  BY <1>4, <1>5, <1>6, <1>8, <1>9, <1>13, <1>14 DEF Grows
<1> QED
  BY <1>3, <1>4, <1>8, <1>12, <1>15, <1>16, <1>17, <1>18, <1>19

\* Whatever forward_if_minor does, the heap stays consistent, nothing that was
\* forwarded changes, and v is forwarded unless an allocation failed.
LEMMA ForwardInv ==
  ASSUME HeapInv, FreshCopies, UNCHANGED minorHeap, NEW v \in Values, forward_if_minor(v)
  PROVE  /\ HeapInv' /\ FreshCopies' /\ Grows
         /\ oom' \/ (is_minor(v) => fwd_arr'[v] # Null)
         /\ Promoted' = Promoted \/ (is_minor(v) /\ Promoted' = Promoted \cup {v.obj})
<1>1. CASE /\ UNCHANGED <<fwd_arr, mem, memNoscan, queue>>
           /\ \/ oom' = TRUE
              \/ oom' = oom /\ (is_minor(v) => fwd_arr[v] # Null)
  <2>1. Promoted' = Promoted /\ \A o : Copy(o)' = Copy(o)
    BY <1>1 DEF Promoted, Copy
  <2>2. SharingKept' /\ CopiesPlaced' /\ FreshCopies'
    BY <1>1, <2>1 DEF HeapInv, minorHeap, SharingKept, CopiesPlaced, FreshCopies
  <2>3. QueueExact' /\ HeapType'
    BY <1>1, <2>1 DEF HeapInv, minorHeap, QueueExact, HeapType, Range
  <2>4. Grows
    BY <1>1, <2>1 DEF Grows, HeapInv, HeapType
  <2> QED
    BY <1>1, <2>1, <2>2, <2>3, <2>4 DEF HeapInv
<1>2. CASE /\ is_minor(v) /\ fwd_arr[v] = Null /\ fwd_arr[parent(v)] # Null
           /\ fwd_arr' = [fwd_arr EXCEPT ![v] = [fwd_arr[parent(v)] EXCEPT !.off = v.off]]
           /\ UNCHANGED <<mem, memNoscan, queue, oom>>
  BY <1>2, ValueForm, InfixForwarded
<1>3. CASE /\ is_minor(v) /\ fwd_arr[parent(v)] = Null
           /\ \E d \in MajorObjs \ DOMAIN mem : Promote(v.obj, d) /\ fwd_arr' = recorded(v, d)
           /\ UNCHANGED oom
  BY <1>3, ValueForm, PromoteInv
<1> QED
  BY <1>1, <1>2, <1>3 DEF forward_if_minor, CannotPromote

-----------------------------------------------------------------------------
(* What a step that touches neither the roots nor the slots keeps.         *)

LEMMA LiveRoot ==
  ASSUME NEW i \in DOMAIN roots, roots[i] \in MinorPtrs
  PROVE  roots[i].obj \in Live
BY MinorForm DEF Live, Leads, Range

LEMMA LiveStep ==
  ASSUME NEW o \in Live, o \notin noscan, NEW i \in DOMAIN field[o], field[o][i] \in MinorPtrs
  PROVE  field[o][i].obj \in Live
<1>1. field[o][i].obj \in Leads(field[o]) /\ field[o][i].obj \in MinorObjs
  BY MinorForm DEF Leads, Range
<1> QED
  BY <1>1 DEF Live, Closed

LEMMA LiveLeast ==
  ASSUME NEW S \in SUBSET MinorObjs, Leads(roots) \subseteq S, Closed(S)
  PROVE  Live \subseteq S
BY DEF Live

LEMMA LiveStutter ==
  ASSUME UNCHANGED <<minorHeap, roots>>
  PROVE  Live' = Live
BY DEF minorHeap, Live, Leads, Range, Closed

LEMMA HeapStutter ==
  ASSUME HeapInv, UNCHANGED <<minorHeap, mem, memNoscan, fwd_arr, queue, oom>>
  PROVE  /\ HeapInv' /\ Promoted' = Promoted /\ \A o : Copy(o)' = Copy(o)
         /\ Grows
<1>1. Promoted' = Promoted /\ \A o : Copy(o)' = Copy(o)
  BY DEF Promoted, Copy
<1>2. SharingKept' /\ CopiesPlaced'
  BY <1>1 DEF HeapInv, minorHeap, SharingKept, CopiesPlaced
<1>3. QueueExact' /\ HeapType'
  BY <1>1 DEF HeapInv, minorHeap, QueueExact, HeapType, Range
<1>4. Grows
  BY <1>1 DEF Grows, HeapInv, HeapType
<1> QED
  BY <1>1, <1>2, <1>3, <1>4 DEF HeapInv

LEMMA GrowsStable ==
  ASSUME HeapType, SlotsType, Grows, UNCHANGED <<minorHeap, slots, globals, roots>>
  PROVE  /\ SlotsType'
         /\ OldRemembered => OldRemembered'
         /\ RootsGlobal => RootsGlobal'
         /\ AllRooted => AllRooted'
         /\ \A v \in Values : Forwarded(v) => (is_minor(v) => fwd_arr'[v] # Null)
<1>1. \A b \in OldObjs : mem'[b] = mem[b] /\ (b \in memNoscan' <=> b \in memNoscan)
  BY DEF Grows, HeapType
<1>2. slots \in Seq(OldObjs \X (Nat \ {0})) /\ \A k \in DOMAIN slots : slots[k][1] \in OldObjs
  BY DEF SlotsType
<1>3. SlotsType'
  BY <1>1, <1>2 DEF SlotsType
<1>4. OldRemembered => OldRemembered'
  BY <1>1 DEF OldRemembered
<1>5. RootsGlobal => RootsGlobal'
  BY DEF RootsGlobal
<1>6. AllRooted => AllRooted'
  BY <1>1, <1>2 DEF AllRooted, Rooted, Slot
<1>7. \A v \in Values : Forwarded(v) => (is_minor(v) => fwd_arr'[v] # Null)
  <2> SUFFICES ASSUME NEW v \in Values, is_minor(v), fwd_arr[v] # Null PROVE fwd_arr'[v] # Null
    BY DEF Forwarded
  <2> QED
    BY ValueForm DEF Grows
<1> QED
  BY <1>3, <1>4, <1>5, <1>6, <1>7

-----------------------------------------------------------------------------
(* Collecting the roots.                                                   *)

LEMMA CollectRootsInv ==
  ASSUME IInv, CollectRoots
  PROVE  IInv'
<1> USE DEF IInv, CollectRoots
<1>1. HeapInv' /\ SlotsType' /\ (OldRemembered => OldRemembered')
  BY HeapStutter DEF SlotsType, OldRemembered
<1>2. RootsType' /\ CursorType' /\ PcType'
  BY DEF RootsType, CursorType, PcType
<1>3. AtRefs'
  BY DEF PhaseInv, RootsType, AtStart, AtRefs, RootsGlobal
<1> QED
  BY <1>1, <1>2, <1>3 DEF PhaseInv

LEMMA CollectRefInv ==
  ASSUME IInv, CollectRef
  PROVE  IInv'
<1> USE DEF IInv, CollectRef
<1>1. HeapInv' /\ SlotsType' /\ (OldRemembered => OldRemembered')
  BY HeapStutter DEF SlotsType, OldRemembered
<1> DEFINE v == Slot(slots[idx])
<1>2. v \in Values
  BY DEF HeapInv, HeapType, SlotsType, Slot, CursorType
<1>3. /\ roots \in Seq(Values) /\ globals \in Seq(Values) /\ roots' \in Seq(Values)
      /\ Len(roots) <= Len(roots') /\ \A j \in DOMAIN roots : j \in DOMAIN roots' /\ roots'[j] = roots[j]
      /\ is_minor(v) => \E j \in DOMAIN roots' : roots'[j] = v
  <2>1. roots \in Seq(Values) /\ globals \in Seq(Values)
    BY DEF RootsType
  <2>2. CASE ~is_minor(v)
    BY <2>1, <2>2 DEF withRef
  <2>3. CASE is_minor(v)
    <3>1. roots' = Append(roots, v)
      BY <2>3 DEF withRef
    <3>2. Len(roots') = Len(roots) + 1 /\ roots'[Len(roots) + 1] = v /\ Len(roots) + 1 \in DOMAIN roots'
      BY <1>2, <2>1, <3>1
    <3> QED
      BY <1>2, <2>1, <3>1, <3>2
  <2> QED
    BY <2>2, <2>3
<1>4. AtRefs /\ idx \in Nat \ {0}
  BY DEF PhaseInv, CursorType
<1>5. RootsType' /\ CursorType' /\ PcType'
  BY <1>3, <1>4 DEF RootsType, CursorType, PcType
<1>6. AtStart' /\ RootsGlobal'
  BY <1>3, <1>4 DEF AtRefs, AtStart, RootsGlobal
<1>7. ASSUME NEW k \in 1 .. idx' - 1, k \in DOMAIN slots'
      PROVE  Rooted(k)'
  <2>1. CASE k = idx
    BY <1>3, <2>1 DEF Rooted, Slot
  <2>2. CASE k # idx
    <3>1. k \in 1 .. idx - 1 /\ k \in DOMAIN slots
      BY <1>4, <1>7, <2>2
    <3> QED
      BY <1>3, <1>4, <3>1, ZenonT(60) DEF AtRefs, Rooted, Slot
  <2> QED
    BY <2>1, <2>2
<1> QED
  BY <1>1, <1>5, <1>6, <1>7 DEF PhaseInv, AtRefs

LEMMA EndCollectInv ==
  ASSUME IInv, EndCollect
  PROVE  IInv'
<1> USE DEF IInv, EndCollect
<1>1. HeapInv' /\ SlotsType' /\ (OldRemembered => OldRemembered')
  BY HeapStutter DEF SlotsType, OldRemembered
<1>2. RootsType' /\ CursorType' /\ PcType'
  BY DEF RootsType, CursorType, PcType
<1>3. AtRefs /\ Promoted = {}
  BY BlockForm DEF PhaseInv, AtRefs, AtStart, Promoted
<1>4. Promoted' = {} /\ scan' = 1
  BY <1>3, HeapStutter DEF AtRefs, AtStart
<1>5. RootsGlobal' /\ AllRooted'
  BY <1>3, SMTT(40) DEF AtRefs, RootsGlobal, AllRooted, Rooted, Slot, SlotsType, CursorType
<1>6. AtRoots'
  BY <1>4, <1>5 DEF AtRoots, FreshCopies
<1> QED
  BY <1>1, <1>2, <1>6 DEF PhaseInv

-----------------------------------------------------------------------------
(* Promotion.                                                              *)

LEMMA ForwardRootInv ==
  ASSUME IInv, ForwardRoot
  PROVE  IInv'
<1> USE DEF IInv, ForwardRoot
<1> DEFINE v == roots[idx]
<1>1. idx \in DOMAIN roots /\ v \in Values /\ AtRoots /\ OldRemembered /\ idx \in Nat \ {0}
  BY DEF RootsType, CursorType, PhaseInv
<1>2. forward_if_minor(v) /\ UNCHANGED minorHeap /\ FreshCopies
  BY <1>1 DEF AtRoots
<1> HIDE DEF v
<1>3. /\ HeapInv' /\ FreshCopies' /\ Grows
      /\ oom' \/ (is_minor(v) => fwd_arr'[v] # Null)
      /\ Promoted' = Promoted \/ (is_minor(v) /\ Promoted' = Promoted \cup {v.obj})
  BY <1>1, <1>2, ForwardInv
<1>4. /\ SlotsType' /\ OldRemembered' /\ RootsGlobal' /\ AllRooted'
      /\ \A u \in Values : Forwarded(u) => (is_minor(u) => fwd_arr'[u] # Null)
  BY <1>1, <1>3, GrowsStable DEF AtRoots, HeapInv
<1>5. RootsType' /\ PcType' /\ CursorType'
  BY <1>1, <1>3 DEF RootsType, PcType, CursorType, HeapInv, HeapType, AtRoots
<1>6. Promoted' \subseteq Live'
  <2>1. is_minor(v) => v.obj \in Live
    BY <1>1, LiveRoot, ValueForm DEF v
  <2>2. Live' = Live
    BY LiveStutter
  <2> QED
    BY <1>1, <1>3, <2>1, <2>2 DEF AtRoots
<1>7. ASSUME ~oom', NEW i \in 1 .. idx' - 1, i \in DOMAIN roots'
      PROVE  Forwarded(roots[i])'
  <2>1. ~oom
    BY <1>3, <1>7 DEF Grows
  <2>2. CASE i = idx
    BY <1>3, <1>7, <2>2 DEF v, Forwarded
  <2>3. CASE i # idx
    <3>1. i \in 1 .. idx - 1 /\ i \in DOMAIN roots /\ roots[i] \in Values
      BY <1>1, <1>7, <2>3 DEF RootsType
    <3>2. Forwarded(roots[i])
      BY <1>1, <2>1, <3>1 DEF AtRoots
    <3> QED
      BY <1>4, <3>1, <3>2 DEF Forwarded
  <2> QED
    BY <2>2, <2>3
<1>8. AtRoots'
  BY <1>1, <1>3, <1>4, <1>6, <1>7 DEF AtRoots
<1> QED
  BY <1>3, <1>4, <1>5, <1>8 DEF PhaseInv

LEMMA EndRootsInv ==
  ASSUME IInv, EndRoots
  PROVE  IInv'
<1> USE DEF IInv, EndRoots
<1>1. /\ HeapInv' /\ SlotsType' /\ (OldRemembered => OldRemembered')
      /\ Promoted' = Promoted /\ \A o : Copy(o)' = Copy(o)
  BY HeapStutter DEF SlotsType, OldRemembered
<1>2. RootsType' /\ CursorType' /\ PcType'
  BY DEF RootsType, CursorType, PcType
<1>3. AtRoots /\ Live' = Live /\ idx \in Nat \ {0}
  BY LiveStutter DEF PhaseInv, CursorType
<1>4. RootsGlobal' /\ AllRooted' /\ FreshCopies' /\ Promoted' \subseteq Live'
  BY <1>1, <1>3 DEF AtRoots, RootsGlobal, AllRooted, Rooted, Slot, FreshCopies, minorHeap
<1>5. oom \/ RootsForwarded
  BY <1>3 DEF AtRoots, RootsForwarded, RootsType
<1>6. AtScan'
  BY <1>3, <1>4, <1>5 DEF AtRoots, AtScan, RootsForwarded, Forwarded
<1> QED
  BY <1>1, <1>2, <1>6 DEF PhaseInv

LEMMA ScanFieldInv ==
  ASSUME IInv, ScanField
  PROVE  IInv'
<1> USE DEF IInv, ScanField
<1> DEFINE o == Scanned
           v == field[o][idx]
<1>1. AtScan /\ OldRemembered /\ idx \in Nat \ {0} /\ scan \in 1 .. Len(queue) /\ Len(queue) \in Nat
  BY DEF PhaseInv, CursorType, HeapInv, HeapType
<1>2. o \in Promoted /\ o \in MinorObjs
  BY <1>1 DEF Scanned, HeapInv, QueueExact, HeapType, Range
<1>3. o \notin noscan /\ ScanLength = Len(field[o]) /\ field[o] \in Seq(Values)
  BY <1>1, <1>2 DEF ScanLength, HeapInv, HeapType
<1>4. idx \in DOMAIN field[o] /\ v \in Values
  BY <1>1, <1>3
<1>5. forward_if_minor(v) /\ UNCHANGED minorHeap /\ FreshCopies
  BY <1>1 DEF AtScan
<1> HIDE DEF v, o
<1>6. /\ HeapInv' /\ FreshCopies' /\ Grows
      /\ oom' \/ (is_minor(v) => fwd_arr'[v] # Null)
      /\ Promoted' = Promoted \/ (is_minor(v) /\ Promoted' = Promoted \cup {v.obj})
  BY <1>4, <1>5, ForwardInv
<1>7. /\ SlotsType' /\ OldRemembered' /\ RootsGlobal' /\ AllRooted'
      /\ \A u \in Values : Forwarded(u) => (is_minor(u) => fwd_arr'[u] # Null)
  BY <1>1, <1>6, GrowsStable DEF AtScan, HeapInv
<1>8. /\ \A k \in 1 .. Len(queue) : queue'[k] = queue[k]
      /\ Len(queue) <= Len(queue') /\ Len(queue') \in Nat
      /\ Scanned' = Scanned /\ ScanLength' = ScanLength
  BY <1>1, <1>6 DEF Grows, HeapInv, HeapType, Scanned, ScanLength, minorHeap
<1>9. RootsType' /\ PcType' /\ CursorType'
  BY <1>1, <1>8 DEF RootsType, PcType, CursorType
<1>10. Promoted' \subseteq Live'
  <2>1. is_minor(v) => v.obj \in Live
    BY <1>1, <1>2, <1>3, <1>4, LiveStep, ValueForm DEF v, AtScan
  <2>2. Live' = Live
    BY LiveStutter
  <2> QED
    BY <1>1, <1>6, <2>1, <2>2 DEF AtScan
<1>11. scan' <= Len(queue')
  BY <1>1, <1>8
<1>12. ASSUME ~oom'
       PROVE  /\ RootsForwarded'
              /\ \A k \in 1 .. scan' - 1 : FieldsForwarded(queue[k])'
              /\ \A i \in 1 .. idx' - 1 : i <= ScanLength' => Forwarded(field[Scanned][i])'
  <2>1. ~oom
    BY <1>6, <1>12 DEF Grows
  <2>2. RootsForwarded'
    BY <1>1, <1>7, <2>1 DEF AtScan, RootsForwarded, Forwarded, RootsType
  <2>3. ASSUME NEW k \in 1 .. scan' - 1 PROVE FieldsForwarded(queue[k])'
    <3>1. k \in 1 .. Len(queue) /\ k \in 1 .. scan - 1 /\ queue'[k] = queue[k] /\ queue[k] \in MinorObjs
      BY <1>1, <1>8 DEF HeapInv, HeapType
    <3>2. FieldsForwarded(queue[k]) /\ field[queue[k]] \in Seq(Values)
      BY <1>1, <2>1, <3>1 DEF AtScan, HeapInv, HeapType
    <3> QED
      BY <1>7, <3>1, <3>2 DEF FieldsForwarded, Forwarded, minorHeap
  <2>4. ASSUME NEW i \in 1 .. idx' - 1, i <= ScanLength' PROVE Forwarded(field[Scanned][i])'
    <3>1. i \in 1 .. Len(field[o]) /\ field[o][i] \in Values
      BY <1>1, <1>3, <1>8, <2>4 DEF o
    <3>2. CASE i = idx
      BY <1>6, <1>8, <1>12, <3>2 DEF v, o, Forwarded, minorHeap
    <3>3. CASE i # idx
      <4>1. i \in 1 .. idx - 1 /\ i <= ScanLength /\ scan <= Len(queue)
        BY <1>1, <1>8, <2>4, <3>3
      <4>2. Forwarded(field[o][i])
        BY <1>1, <2>1, <4>1 DEF AtScan, o
      <4> QED
        BY <1>7, <1>8, <3>1, <4>2 DEF Forwarded, minorHeap, o
    <3> QED
      BY <3>2, <3>3
  <2> QED
    BY <2>2, <2>3, <2>4
<1>13. AtScan'
  BY <1>6, <1>7, <1>10, <1>11, <1>12, <1>8, <1>1 DEF AtScan
<1> QED
  BY <1>6, <1>7, <1>9, <1>13 DEF PhaseInv

LEMMA ScanNextInv ==
  ASSUME IInv, ScanNext
  PROVE  IInv'
<1> USE DEF IInv, ScanNext
<1>1. /\ HeapInv' /\ SlotsType' /\ (OldRemembered => OldRemembered')
      /\ Promoted' = Promoted /\ \A o : Copy(o)' = Copy(o)
  BY HeapStutter DEF SlotsType, OldRemembered
<1>2. AtScan /\ Live' = Live /\ idx \in Nat \ {0} /\ scan \in 1 .. Len(queue) /\ Len(queue) \in Nat
  BY LiveStutter DEF PhaseInv, CursorType, HeapInv, HeapType
<1>3. RootsType' /\ CursorType' /\ PcType'
  BY <1>2 DEF RootsType, CursorType, PcType
<1>4. RootsGlobal' /\ AllRooted' /\ FreshCopies' /\ Promoted' \subseteq Live'
  BY <1>1, <1>2 DEF AtScan, RootsGlobal, AllRooted, Rooted, Slot, FreshCopies, minorHeap
<1>5. ASSUME ~oom PROVE FieldsForwarded(Scanned)
  <2>1. field[Scanned] \in Seq(Values)
    BY <1>2 DEF Scanned, HeapInv, HeapType
  <2>2. Scanned \notin noscan => \A i \in DOMAIN field[Scanned] : i \in 1 .. idx - 1 /\ i <= ScanLength
    BY <1>2, <2>1 DEF ScanLength
  <2> QED
    BY <1>2, <1>5, <2>2 DEF AtScan, FieldsForwarded
<1>6. ASSUME ~oom', NEW k \in 1 .. scan' - 1 PROVE FieldsForwarded(queue[k])'
  <2>1. FieldsForwarded(queue[k])
    <3>1. CASE k = scan
      BY <1>5, <1>6, <3>1 DEF Scanned
    <3>2. CASE k # scan
      BY <1>2, <1>6, <3>2 DEF AtScan
    <3> QED
      BY <3>1, <3>2
  <2> QED
    BY <2>1 DEF FieldsForwarded, Forwarded, minorHeap
<1>7. oom' \/ RootsForwarded'
  BY <1>2 DEF AtScan, RootsForwarded, Forwarded
<1>8. AtScan'
  BY <1>4, <1>6, <1>7 DEF AtScan
<1> QED
  BY <1>1, <1>3, <1>8 DEF PhaseInv

LEMMA EndScanInv ==
  ASSUME IInv, EndScan
  PROVE  IInv'
<1> USE DEF IInv, EndScan
<1>1. /\ HeapInv' /\ SlotsType' /\ (OldRemembered => OldRemembered')
      /\ Promoted' = Promoted /\ \A o : Copy(o)' = Copy(o)
  BY HeapStutter DEF SlotsType, OldRemembered
<1>2. AtScan /\ Live' = Live /\ idx = 1 /\ scan \in Nat /\ scan > Len(queue) /\ Len(queue) \in Nat
  BY LiveStutter DEF PhaseInv, AtScan, CursorType, HeapInv, HeapType
<1>3. RootsType' /\ CursorType' /\ PcType'
  BY DEF RootsType, CursorType, PcType
<1>4. RootsGlobal' /\ AllRooted' /\ Promoted' \subseteq Live'
  BY <1>1, <1>2 DEF AtScan, RootsGlobal, AllRooted, Rooted, Slot
<1>5. ASSUME ~oom', NEW o \in Promoted'
      PROVE  FieldsForwarded(o)' /\ mem'[Copy(o)'.obj] = field'[o] /\ ~(o < idx')
  <2>1. PICK k \in 1 .. Len(queue) : queue[k] = o
    BY <1>1 DEF HeapInv, QueueExact, HeapType, Range
  <2>2. k \in 1 .. scan - 1
    BY <1>2
  <2>3. FieldsForwarded(o)
    BY <1>2, <1>5, <2>1, <2>2 DEF AtScan
  <2>4. o \in MinorObjs
    BY <1>1, PromotedFinite
  <2> QED
    BY <1>1, <1>2, <2>3, <2>4 DEF AtScan, FreshCopies, FieldsForwarded, Forwarded, minorHeap,
                                  MinorObjs
<1>6. oom' \/ RootsForwarded'
  BY <1>2 DEF AtScan, RootsForwarded, Forwarded
<1>7. AtUpdate'
  BY <1>4, <1>5, <1>6 DEF AtUpdate
<1> QED
  BY <1>1, <1>3, <1>7 DEF PhaseInv

-----------------------------------------------------------------------------
(* Rewriting.                                                              *)

LEMMA RewrittenForm ==
  ASSUME HeapType, SharingKept, NEW v \in Values
  PROVE  /\ rewritten(v) \in Values
         /\ ~is_minor(v) => rewritten(v) = v
         /\ Forwarded(v) => ~is_minor(rewritten(v)) /\ rewritten(v) = Moved(v)
         /\ is_minor(rewritten(v)) => rewritten(v) = v
<1>1. CASE is_minor(v) /\ fwd_arr[v] # Null
  BY <1>1, ValueForm, ForwardedForm, MajorForm DEF rewritten, Moved
<1>2. CASE ~(is_minor(v) /\ fwd_arr[v] # Null)
  BY <1>2 DEF rewritten, Forwarded, Moved
<1> QED
  BY <1>1, <1>2

\* A step that changes only the contents of blocks, and keeps their type, keeps
\* the consistency of the heap.
LEMMA ContentsInv ==
  ASSUME HeapInv, UNCHANGED <<minorHeap, memNoscan, fwd_arr, queue, oom>>,
         DOMAIN mem' = DOMAIN mem, \A b \in DOMAIN mem : mem'[b] \in Seq(Values)
  PROVE  HeapInv' /\ Promoted' = Promoted /\ \A o : Copy(o)' = Copy(o)
<1>1. Promoted' = Promoted /\ \A o : Copy(o)' = Copy(o)
  BY DEF Promoted, Copy
<1>2. SharingKept' /\ CopiesPlaced'
  BY <1>1 DEF HeapInv, minorHeap, SharingKept, CopiesPlaced
<1>3. QueueExact' /\ HeapType'
  BY <1>1 DEF HeapInv, minorHeap, QueueExact, HeapType, Range
<1> QED
  BY <1>1, <1>2, <1>3 DEF HeapInv

LEMMA UpdatePromotedInv ==
  ASSUME IInv, UpdatePromoted
  PROVE  IInv'
<1> USE DEF IInv, UpdatePromoted
<1> DEFINE d == Copy(idx).obj
           new == [i \in DOMAIN mem[d] |-> rewritten(mem[d][i])]
<1>1. AtUpdate /\ OldRemembered /\ idx \in MinorObjs /\ idx \in Nat \ {0}
  BY DEF PhaseInv, CursorType
<1>2. CASE Copy(idx) = Null \/ d \in memNoscan
  <2>1. UNCHANGED mem
    BY <1>2 DEF Copy
  <2>2. /\ HeapInv' /\ SlotsType' /\ OldRemembered'
        /\ Promoted' = Promoted /\ \A o : Copy(o)' = Copy(o)
    BY <1>1, <2>1, HeapStutter DEF SlotsType, OldRemembered
  <2>3. RootsType' /\ CursorType' /\ PcType' /\ Live' = Live
    BY <1>1, LiveStutter DEF RootsType, CursorType, PcType
  <2>4. RootsGlobal' /\ AllRooted' /\ Promoted' \subseteq Live'
    BY <1>1, <2>1, <2>2, <2>3 DEF AtUpdate, RootsGlobal, AllRooted, Rooted, Slot
  <2>5. idx \notin Promoted \ noscan
    BY <1>1, <1>2 DEF HeapInv, CopiesPlaced, Promoted
  <2>6. ASSUME ~oom', NEW o \in Promoted'
        PROVE  /\ FieldsForwarded(o)'
               /\ o \notin noscan' =>
                    IF o < idx' THEN Settled(mem'[Copy(o)'.obj])
                    ELSE mem'[Copy(o)'.obj] = field'[o]
    <3>1. FieldsForwarded(o)'
      BY <1>1, <2>2, <2>6 DEF AtUpdate, FieldsForwarded, Forwarded, minorHeap
    <3>2. o \in MinorObjs /\ MinorObjs \subseteq Nat
      BY <2>2, PromotedFinite DEF MinorObjs
    <3>3. CASE o \notin noscan
      <4>1. o # idx /\ (o < idx' <=> o < idx)
        BY <1>1, <2>2, <2>5, <2>6, <3>2, <3>3
      <4> QED
        BY <1>1, <2>1, <2>2, <2>6, <3>1, <3>3, <4>1 DEF AtUpdate, minorHeap
    <3> QED
      BY <3>1, <3>3 DEF minorHeap
  <2>7. oom' \/ RootsForwarded'
    BY <1>1 DEF AtUpdate, RootsForwarded, Forwarded
  <2>8. AtUpdate'
    BY <2>4, <2>6, <2>7 DEF AtUpdate, Settled
  <2> QED
    BY <2>2, <2>3, <2>8 DEF PhaseInv
<1>3. CASE Copy(idx) # Null /\ d \notin memNoscan
  <2>1. idx \in Promoted /\ idx \notin noscan /\ d \in DOMAIN mem \ OldObjs
    BY <1>1, <1>3, CopyForm DEF Promoted, HeapInv, CopiesPlaced
  <2>2. /\ mem' = [mem EXCEPT ![d] = new]
        /\ DOMAIN mem' = DOMAIN mem /\ mem'[d] = new
        /\ \A b \in DOMAIN mem : b # d => mem'[b] = mem[b]
    BY <1>3, <2>1 DEF Copy
  <2>3. mem[d] \in Seq(Values)
    BY <2>1 DEF HeapInv, HeapType
  <2>4. \A i \in DOMAIN mem[d] : mem[d][i] \in Values /\ rewritten(mem[d][i]) \in Values
    BY <2>3, RewrittenForm DEF HeapInv
  <2>5. new \in Seq(Values)
    <3>1. DOMAIN mem[d] = 1 .. Len(mem[d]) /\ Len(mem[d]) \in Nat
      BY <2>3
    <3> QED
      BY <2>4, <3>1
  <2>6. HeapInv' /\ Promoted' = Promoted /\ \A o : Copy(o)' = Copy(o)
    BY <2>2, <2>5, ContentsInv DEF HeapInv, HeapType
  <2>7. \A b \in OldObjs : mem'[b] = mem[b]
    BY <2>1, <2>2 DEF HeapInv, HeapType
  <2>8. slots \in Seq(OldObjs \X (Nat \ {0})) /\ \A k \in DOMAIN slots : slots[k][1] \in OldObjs
    BY DEF SlotsType
  <2>9. SlotsType' /\ OldRemembered' /\ AllRooted' /\ RootsGlobal'
    <3>1. SlotsType'
      BY <2>7, <2>8 DEF SlotsType
    <3>2. OldRemembered'
      BY <1>1, <2>7 DEF OldRemembered
    <3>3. \A k \in DOMAIN slots : Slot(slots[k])' = Slot(slots[k])
      BY <2>7, <2>8 DEF Slot
    <3>4. AllRooted'
      BY <1>1, <3>3 DEF AllRooted, Rooted, AtUpdate
    <3>5. RootsGlobal'
      BY <1>1 DEF RootsGlobal, AtUpdate
    <3> QED
      BY <3>1, <3>2, <3>4, <3>5
  <2>10. RootsType' /\ CursorType' /\ PcType' /\ Live' = Live
    BY <1>1, LiveStutter DEF RootsType, CursorType, PcType
  <2>11. \A o \in Promoted : o # idx => Copy(o).obj # d /\ Copy(o).obj \in DOMAIN mem
    BY <2>1, CopyForm DEF HeapInv, SharingKept
  <2>12. ASSUME ~oom PROVE Settled(new)
    <3>1. mem[d] = field[idx] /\ FieldsForwarded(idx)
      BY <1>1, <2>1, <2>12 DEF AtUpdate
    <3>2. \A i \in DOMAIN mem[d] : Forwarded(mem[d][i])
      BY <2>1, <3>1 DEF FieldsForwarded
    <3> QED
      BY <2>4, <3>2, RewrittenForm DEF Settled, HeapInv
  <2> HIDE DEF new, d
  <2>13. ASSUME ~oom', NEW o \in Promoted'
         PROVE  /\ FieldsForwarded(o)'
                /\ o \notin noscan' =>
                     IF o < idx' THEN Settled(mem'[Copy(o)'.obj])
                     ELSE mem'[Copy(o)'.obj] = field'[o]
    <3>1. FieldsForwarded(o)'
      BY <1>1, <2>6, <2>13 DEF AtUpdate, FieldsForwarded, Forwarded, minorHeap
    <3>2. o \in Promoted /\ o \in MinorObjs /\ MinorObjs \subseteq Nat
      BY <2>6, PromotedFinite DEF MinorObjs
    <3>3. CASE o = idx
      <4>1. mem'[Copy(o)'.obj] = new /\ Settled(new) /\ o < idx'
        BY <1>1, <2>2, <2>6, <2>12, <2>13, <3>3 DEF d
      <4> QED
        BY <3>1, <4>1
    <3>4. CASE o # idx
      <4>1. mem'[Copy(o)'.obj] = mem[Copy(o).obj] /\ (o < idx' <=> o < idx)
        BY <1>1, <2>2, <2>6, <2>11, <3>2, <3>4
      <4>2. o \notin noscan => IF o < idx THEN Settled(mem[Copy(o).obj])
                               ELSE mem[Copy(o).obj] = field[o]
        BY <1>1, <2>13, <3>2 DEF AtUpdate
      <4> QED
        BY <3>1, <4>1, <4>2 DEF minorHeap
    <3> QED
      BY <3>3, <3>4
  <2>14. (oom' \/ RootsForwarded') /\ Promoted' \subseteq Live'
    BY <1>1, <2>6, <2>10 DEF AtUpdate, RootsForwarded, Forwarded
  <2>15. AtUpdate'
    BY <2>9, <2>13, <2>14 DEF AtUpdate, Settled
  <2> QED
    BY <2>6, <2>9, <2>10, <2>15 DEF PhaseInv
<1> QED
  BY <1>2, <1>3

LEMMA EndUpdateInv ==
  ASSUME IInv, EndUpdate
  PROVE  IInv'
<1> USE DEF IInv, EndUpdate
<1>1. /\ HeapInv' /\ SlotsType' /\ (OldRemembered => OldRemembered')
      /\ Promoted' = Promoted /\ \A o : Copy(o)' = Copy(o)
  BY HeapStutter DEF SlotsType, OldRemembered
<1>2. RootsType' /\ CursorType' /\ PcType'
  BY DEF RootsType, CursorType, PcType
<1>3. AtUpdate /\ idx \in Nat /\ idx > NumMinor
  BY DEF PhaseInv, CursorType
<1>4. RootsGlobal' /\ AllRooted'
  BY <1>3 DEF AtUpdate, RootsGlobal, AllRooted, Rooted, Slot
<1>5. ASSUME ~oom', NEW o \in Promoted' \ noscan' PROVE Settled(mem[Copy(o).obj])'
  <2>1. o \in Promoted \ noscan /\ o < idx
    BY <1>1, <1>3, <1>5, PromotedFinite, SizesAssumption DEF MinorObjs, minorHeap
  <2>2. Settled(mem[Copy(o).obj])
    BY <1>3, <1>5, <2>1 DEF AtUpdate
  <2> QED
    BY <1>1, <2>2 DEF Settled
<1>6. oom' \/ RootsForwarded'
  BY <1>3 DEF AtUpdate, RootsForwarded, Forwarded
<1>7. AtSlots'
  BY <1>4, <1>5, <1>6 DEF AtSlots
<1> QED
  BY <1>1, <1>2, <1>7 DEF PhaseInv

LEMMA RewriteSlotInv ==
  ASSUME IInv, RewriteSlot
  PROVE  IInv'
<1> USE DEF IInv, RewriteSlot
<1> DEFINE b == slots[idx][1]
           i == slots[idx][2]
           v == Slot(slots[idx])
           new == [mem[b] EXCEPT ![i] = rewritten(v)]
<1>1. AtSlots /\ OldRemembered /\ idx \in Nat \ {0} /\ idx \in DOMAIN slots
  BY DEF PhaseInv, CursorType, SlotsType
<1>2. b \in OldObjs /\ b \in DOMAIN mem /\ mem[b] \in Seq(Values) /\ i \in DOMAIN mem[b] /\ v = mem[b][i]
  BY <1>1 DEF SlotsType, HeapInv, HeapType, Slot
<1>3. v \in Values /\ rewritten(v) \in Values /\ (is_minor(rewritten(v)) => rewritten(v) = v)
  BY <1>2, RewrittenForm DEF HeapInv
<1>4. /\ DOMAIN mem' = DOMAIN mem /\ mem'[b] = new
      /\ \A c \in DOMAIN mem : c # b => mem'[c] = mem[c]
  BY <1>2 DEF Slot
<1>5. /\ new \in Seq(Values) /\ DOMAIN new = DOMAIN mem[b]
      /\ new[i] = rewritten(v) /\ \A j \in DOMAIN mem[b] : j # i => new[j] = mem[b][j]
  BY <1>2, <1>3
<1>6. HeapInv' /\ Promoted' = Promoted /\ \A o : Copy(o)' = Copy(o)
  BY <1>4, <1>5, ContentsInv DEF HeapInv, HeapType
\* Every field of an old block is as it was, or rewritten to what is not minor.
<1>7. ASSUME NEW c \in OldObjs
      PROVE  /\ DOMAIN mem'[c] = DOMAIN mem[c]
             /\ \A j \in DOMAIN mem[c] :
                  /\ mem'[c][j] = mem[c][j] \/ (c = b /\ j = i)
                  /\ is_minor(mem'[c][j]) => mem'[c][j] = mem[c][j]
  <2>1. c \in DOMAIN mem
    BY DEF HeapInv, HeapType
  <2>2. CASE c # b
    BY <1>4, <2>1, <2>2
  <2>3. CASE c = b
    BY <1>2, <1>3, <1>4, <1>5, <2>3
  <2> QED
    BY <2>2, <2>3
<1>8. \A k \in DOMAIN slots : slots[k][1] \in OldObjs /\ slots[k][2] \in DOMAIN mem[slots[k][1]]
  BY DEF SlotsType
<1> HIDE DEF new
<1>9. SlotsType'
  BY <1>7, <1>8 DEF SlotsType
<1>10. OldRemembered'
  BY <1>1, <1>7 DEF OldRemembered
<1>11. AllRooted' /\ RootsGlobal'
  BY <1>1, <1>7, <1>8 DEF AllRooted, Rooted, Slot, RootsGlobal, AtSlots
<1>12. RootsType' /\ CursorType' /\ PcType'
  BY <1>1 DEF RootsType, CursorType, PcType
<1>13. ASSUME ~oom', NEW o \in Promoted' \ noscan' PROVE Settled(mem[Copy(o).obj])'
  <2>1. o \in Promoted \ noscan /\ Copy(o).obj \in DOMAIN mem \ OldObjs
    BY <1>6, <1>13, CopyForm DEF minorHeap, HeapInv
  <2>2. mem'[Copy(o)'.obj] = mem[Copy(o).obj]
    BY <1>2, <1>4, <1>6, <2>1
  <2> QED
    BY <1>1, <1>13, <2>1, <2>2 DEF AtSlots, Settled
<1>14. ASSUME ~oom', NEW k \in 1 .. idx' - 1, k \in DOMAIN slots'
       PROVE  ~is_minor(Slot(slots[k]))'
  <2>1. k \in DOMAIN slots /\ slots[k][1] \in OldObjs /\ slots[k][2] \in DOMAIN mem[slots[k][1]]
    BY <1>8, <1>14
  <2>2. CASE k = idx
    <3>1. Forwarded(v)
      <4>1. ASSUME is_minor(v) PROVE \E j \in DOMAIN roots : roots[j] = v
        BY <1>1, <4>1 DEF AtSlots, AllRooted, Rooted
      <4> QED
        BY <1>1, <1>14, <4>1 DEF AtSlots, RootsForwarded, Forwarded
    <3>2. ~is_minor(rewritten(v))
      BY <1>3, <3>1, RewrittenForm DEF HeapInv
    <3>3. mem'[b][i] = rewritten(v)
      BY <1>4, <1>5
    <3> QED
      BY <2>2, <3>2, <3>3 DEF Slot
  <2>3. CASE k # idx
    <3>1. k \in 1 .. idx - 1
      BY <1>1, <1>14, <2>3
    <3>2. ~is_minor(Slot(slots[k]))
      BY <1>1, <1>14, <2>1, <3>1 DEF AtSlots
    <3> QED
      BY <1>7, <2>1, <3>2 DEF Slot
  <2> QED
    BY <2>2, <2>3
<1>15. oom' \/ RootsForwarded'
  BY <1>1 DEF AtSlots, RootsForwarded, Forwarded
<1>16. AtSlots'
  BY <1>11, <1>13, <1>14, <1>15 DEF AtSlots
<1> QED
  BY <1>6, <1>9, <1>10, <1>12, <1>16 DEF PhaseInv

LEMMA RewriteRootsInv ==
  ASSUME IInv, RewriteRoots
  PROVE  IInv'
<1> USE DEF IInv, RewriteRoots
<1>1. /\ HeapInv' /\ SlotsType' /\ (OldRemembered => OldRemembered')
  BY HeapStutter DEF SlotsType, OldRemembered
<1>2. AtSlots /\ OldRemembered /\ idx \in Nat \ {0} /\ roots \in Seq(Values) /\ globals \in Seq(Values)
      /\ Len(slots) \in Nat /\ DOMAIN slots = 1 .. Len(slots)
  BY DEF PhaseInv, CursorType, RootsType, SlotsType
<1>3. DOMAIN roots = 1 .. Len(roots) /\ Len(roots) \in Nat
      /\ \A i \in DOMAIN roots : roots[i] \in Values /\ rewritten(roots[i]) \in Values
  BY <1>2, RewrittenForm DEF HeapInv
<1>4. roots' \in Seq(Values) /\ Len(roots') = Len(roots)
      /\ \A i \in DOMAIN roots : roots'[i] = rewritten(roots[i])
  BY <1>3
<1>5. RootsType' /\ CursorType' /\ PcType'
  BY <1>2, <1>4 DEF RootsType, CursorType, PcType
<1>6. ASSUME ~oom, NEW b \in DOMAIN mem \ memNoscan PROVE Settled(mem[b])
  <2>1. CASE b \in OldObjs
    <3> SUFFICES ASSUME NEW i \in DOMAIN mem[b], is_minor(mem[b][i]) PROVE FALSE
      BY DEF Settled
    <3>1. PICK k \in DOMAIN slots : slots[k] = <<b, i>>
      BY <1>2, <1>6, <2>1 DEF OldRemembered
    <3>2. k \in 1 .. idx - 1 /\ Slot(slots[k]) = mem[b][i]
      BY <1>2, <3>1 DEF Slot
    <3> QED
      BY <1>2, <1>6, <3>2 DEF AtSlots
  <2>2. CASE b \notin OldObjs
    <3>1. PICK o \in Promoted : b = Copy(o).obj
      BY <2>2 DEF HeapInv, CopiesPlaced
    <3>2. o \notin noscan
      BY <1>6, <3>1 DEF HeapInv, CopiesPlaced
    <3> QED
      BY <1>2, <1>6, <3>1, <3>2 DEF AtSlots
  <2> QED
    BY <2>1, <2>2
<1>7. ASSUME ~oom, NEW i \in DOMAIN globals
      PROVE  Forwarded(globals[i]) /\ roots'[i] = rewritten(globals[i])
  BY <1>2, <1>3, <1>4, <1>7 DEF AtSlots, RootsGlobal, RootsForwarded
<1>8. AtReset'
  <2>1. ASSUME ~oom', NEW b \in DOMAIN mem' \ memNoscan' PROVE Settled(mem[b])'
    BY <1>6, <2>1 DEF Settled
  <2>2. \A v : rewritten(v)' = rewritten(v) /\ Forwarded(v)' = Forwarded(v)
    BY DEF rewritten, Forwarded
  <2>3. ASSUME ~oom', NEW i \in DOMAIN globals'
        PROVE  Forwarded(globals[i])' /\ (roots[i] = rewritten(globals[i]))'
    BY <1>7, <2>2, <2>3
  <2>4. Len(globals') <= Len(roots')
    BY <1>2, <1>4 DEF AtSlots, RootsGlobal
  <2> QED
    BY <2>1, <2>3, <2>4 DEF AtReset
<1> QED
  BY <1>1, <1>2, <1>5, <1>8 DEF PhaseInv

LEMMA PromotionFailedInv ==
  ASSUME IInv, PromotionFailed
  PROVE  IInv'
<1> USE DEF IInv, PromotionFailed
<1>1. /\ HeapInv' /\ SlotsType' /\ (OldRemembered => OldRemembered')
  BY HeapStutter DEF SlotsType, OldRemembered
<1>2. RootsType' /\ CursorType' /\ PcType'
  BY DEF RootsType, CursorType, PcType
<1> QED
  BY <1>1, <1>2 DEF PhaseInv

\* What write_back_rewritten_roots checks is true, and what it writes is where
\* the roots moved.
LEMMA WriteBackForm ==
  ASSUME IInv, WriteBack
  PROVE  /\ globals' = [i \in DOMAIN globals |-> Moved(globals[i])]
         /\ \A i \in DOMAIN globals : ~is_minor(Moved(globals[i])) /\ Moved(globals[i]) \in Values
         /\ slots' = <<>> /\ pc' = "done" /\ AtReset
<1> USE DEF IInv
<1>1. AtReset /\ ~oom
  BY DEF PhaseInv, WriteBack
<1>2. ASSUME NEW i \in DOMAIN globals
      PROVE  /\ roots[i] = Moved(globals[i]) /\ ~is_minor(roots[i]) /\ roots[i] \in Values
  <2>1. globals[i] \in Values /\ Forwarded(globals[i]) /\ roots[i] = rewritten(globals[i])
    BY <1>1 DEF AtReset, RootsType
  <2> QED
    BY <2>1, RewrittenForm DEF HeapInv
<1>3. globals' = writtenBack /\ slots' = <<>> /\ pc' = "done"
  BY <1>2 DEF WriteBack
<1> QED
  BY <1>1, <1>2, <1>3 DEF writtenBack

LEMMA WriteBackInv ==
  ASSUME IInv, WriteBack
  PROVE  IInv'
<1> USE DEF IInv
<1>1. /\ UNCHANGED <<minorHeap, mem, memNoscan, roots, fwd_arr, queue, scan, idx, oom>> /\ ~oom
  BY DEF WriteBack
<1>2. /\ globals' = [i \in DOMAIN globals |-> Moved(globals[i])]
      /\ \A i \in DOMAIN globals : ~is_minor(Moved(globals[i])) /\ Moved(globals[i]) \in Values
      /\ slots' = <<>> /\ pc' = "done" /\ AtReset
  BY WriteBackForm
<1>3. HeapInv'
  BY <1>1, HeapStutter
<1>4. globals \in Seq(Values) /\ DOMAIN globals = 1 .. Len(globals) /\ Len(globals) \in Nat
  BY DEF RootsType
<1>5. globals' \in Seq(Values) /\ DOMAIN globals' = DOMAIN globals
      /\ \A i \in DOMAIN globals : ~is_minor(globals'[i])
  BY <1>2, <1>4
<1>6. RootsType' /\ CursorType' /\ PcType'
  BY <1>1, <1>2, <1>5 DEF RootsType, CursorType, PcType
<1>7. SlotsType'
  BY <1>2 DEF SlotsType
<1>8. AtDone'
  BY <1>1, <1>2, <1>5 DEF AtReset, AtDone, Settled
<1> QED
  BY <1>2, <1>3, <1>6, <1>7, <1>8 DEF PhaseInv

-----------------------------------------------------------------------------
(* The invariant is inductive.                                             *)

LEMMA InitInv == Init => IInv
<1> SUFFICES ASSUME Init PROVE IInv
  OBVIOUS
<1>1. PICK im \in Images :
        /\ field = im.field /\ noscan = im.noscan
        /\ mem = im.old /\ memNoscan = im.oldNoscan
        /\ slots = im.slots /\ globals = im.globals
  BY DEF Init
<1>2. /\ field \in [MinorObjs -> Seq(Values)] /\ noscan \subseteq MinorObjs
      /\ mem \in [OldObjs -> Seq(Values)] /\ memNoscan \subseteq OldObjs
      /\ globals \in Seq(Values) /\ slots \in Seq(OldObjs \X (Nat \ {0}))
      /\ \A k \in DOMAIN slots : slots[k][2] \in DOMAIN mem[slots[k][1]]
  BY <1>1, ImagesAssumption
<1>3. /\ roots = <<>> /\ fwd_arr = [p \in MinorPtrs |-> Null] /\ queue = <<>>
      /\ scan = 1 /\ idx = 1 /\ oom = FALSE /\ pc = "collect" /\ Remembered
  BY DEF Init
<1>4. OldObjs \subseteq MajorObjs
  BY SizesAssumption DEF OldObjs, MajorObjs
<1>5. HeapType
  <2>1. fwd_arr \in [MinorPtrs -> MajorPtrs \cup {Null}] /\ queue \in Seq(MinorObjs)
    BY <1>3
  <2>2. DOMAIN mem = OldObjs /\ \A b \in OldObjs : mem[b] \in Seq(Values)
    BY <1>2
  <2> QED
    BY <1>2, <1>3, <1>4, <2>1, <2>2 DEF HeapType
<1>6. Promoted = {} /\ \A p \in MinorPtrs : fwd_arr[p] = Null
  BY <1>3, BlockForm DEF Promoted
<1>7. SharingKept /\ CopiesPlaced
  BY <1>2, <1>6 DEF SharingKept, CopiesPlaced
<1>8. QueueExact
  BY <1>3, <1>6, FS_EmptySet DEF QueueExact, Range
<1>9. RootsType /\ CursorType /\ PcType /\ SlotsType
  BY <1>2, <1>3 DEF RootsType, CursorType, PcType, SlotsType
<1>10. OldRemembered
  BY <1>2, <1>3 DEF OldRemembered, Remembered
<1>11. PhaseInv
  BY <1>3, <1>10 DEF PhaseInv, AtStart
<1> QED
  BY <1>5, <1>7, <1>8, <1>9, <1>11 DEF IInv, HeapInv

LEMMA StutterInv ==
  ASSUME IInv, UNCHANGED vars
  PROVE  IInv'
<1> USE DEF IInv, vars
<1>1. /\ HeapInv' /\ Promoted' = Promoted /\ (\A o : Copy(o)' = Copy(o)) /\ Live' = Live
  BY HeapStutter, LiveStutter
<1>2. RootsType' /\ CursorType' /\ PcType' /\ SlotsType'
  BY DEF RootsType, CursorType, PcType, SlotsType
<1>3. OldRemembered' = OldRemembered /\ RootsGlobal' = RootsGlobal
  BY DEF OldRemembered, RootsGlobal
<1>4. AllRooted' = AllRooted /\ \A k : Rooted(k)' = Rooted(k)
  BY DEF AllRooted, Rooted, Slot
<1>5. /\ FreshCopies => FreshCopies'
      /\ \A v : Forwarded(v)' = Forwarded(v)
      /\ \A o : FieldsForwarded(o)' = FieldsForwarded(o)
      /\ RootsForwarded' = RootsForwarded
  BY <1>1 DEF FreshCopies, Forwarded, FieldsForwarded, RootsForwarded, minorHeap
<1>6. AtStart' = AtStart /\ AtRefs' = AtRefs /\ AtReset' = AtReset /\ AtDone' = AtDone
  BY <1>3, <1>4, <1>5 DEF AtStart, AtRefs, AtReset, AtDone, Settled, rewritten
<1>7. AtRoots => AtRoots'
  BY <1>1, <1>3, <1>4, <1>5 DEF AtRoots
<1>8. AtScan => AtScan'
  BY <1>1, <1>3, <1>4, <1>5 DEF AtScan, ScanLength, Scanned, minorHeap
<1>9. AtUpdate => AtUpdate'
  BY <1>1, <1>3, <1>4, <1>5 DEF AtUpdate, Settled, minorHeap
<1>10. AtSlots => AtSlots'
  BY <1>1, <1>3, <1>4, <1>5 DEF AtSlots, Settled, Slot, minorHeap
<1> QED
  BY <1>1, <1>2, <1>3, <1>6, <1>7, <1>8, <1>9, <1>10 DEF PhaseInv

LEMMA NextInv == IInv /\ [Next]_vars => IInv'
<1> SUFFICES ASSUME IInv, [Next]_vars PROVE IInv'
  OBVIOUS
<1>1. CASE CollectRoots \/ CollectRef \/ EndCollect
  BY <1>1, CollectRootsInv, CollectRefInv, EndCollectInv
<1>2. CASE ForwardRoot \/ EndRoots
  BY <1>2, ForwardRootInv, EndRootsInv
<1>3. CASE ScanField \/ ScanNext \/ EndScan
  BY <1>3, ScanFieldInv, ScanNextInv, EndScanInv
<1>4. CASE UpdatePromoted \/ EndUpdate
  BY <1>4, UpdatePromotedInv, EndUpdateInv
<1>5. CASE RewriteSlot \/ RewriteRoots
  BY <1>5, RewriteSlotInv, RewriteRootsInv
<1>6. CASE PromotionFailed \/ WriteBack
  BY <1>6, PromotionFailedInv, WriteBackInv
<1>7. CASE UNCHANGED vars
  BY <1>7, StutterInv
<1> QED
  BY <1>1, <1>2, <1>3, <1>4, <1>5, <1>6, <1>7 DEF Next

LEMMA Invariance == Spec => []IInv
<1>1. Init => IInv
  BY InitInv
<1>2. IInv /\ [Next]_vars => IInv'
  BY NextInv
<1> QED
  BY <1>1, <1>2, PTL DEF Spec

-----------------------------------------------------------------------------
(* The theorems.                                                           *)

\* The collection's variables keep their types, whatever the heap holds.
THEOREM TypeCorrect == Spec => []TypeOK
<1>1. IInv => TypeOK
  BY DEF IInv, HeapInv, HeapType, RootsType, CursorType, PcType, SlotsType, TypeOK
<1> QED
  BY <1>1, Invariance, PTL

\* One copy for each block, reached through any of its pointers, infix or not,
\* and placed where nothing was: cheney_promote never copies a block twice and
\* never over another one.
THEOREM SharingPreserved == Spec => []SharingKept
<1>1. IInv => SharingKept
  BY DEF IInv, HeapInv
<1> QED
  BY <1>1, Invariance, PTL

\* The queue never fills up, so that no promoted block is dropped from the scan.
THEOREM QueueNeverDrops == Spec => []QueueExact
<1>1. IInv => QueueExact
  BY DEF IInv, HeapInv
<1> QED
  BY <1>1, Invariance, PTL

\* At the end of cheney_promote_phase what is promoted is live, and what is
\* live is promoted unless an allocation failed.
THEOREM PromotionExact == Spec => []PromotesLive
<1>1. ASSUME IInv PROVE PromotesLive
  <2> SUFFICES ASSUME pc = "update"
               PROVE  Promoted \subseteq Live /\ (~oom => Live \subseteq Promoted)
    BY DEF PromotesLive
  <2>1. AtUpdate /\ HeapInv /\ RootsType
    BY <1>1 DEF IInv, PhaseInv
  <2>2. ASSUME ~oom PROVE Live \subseteq Promoted
    <3>1. ASSUME NEW v \in Values, is_minor(v), Forwarded(v) PROVE v.obj \in Promoted
      BY <2>1, <3>1, ValueForm, ForwardedForm DEF Forwarded, HeapInv
    <3>2. Leads(roots) \subseteq Promoted
      BY <2>1, <2>2, <3>1 DEF AtUpdate, RootsForwarded, Leads, Range, RootsType
    <3>3. Closed(Promoted)
      <4> SUFFICES ASSUME NEW o \in Promoted \ noscan, NEW i \in DOMAIN field[o],
                          is_minor(field[o][i])
                   PROVE  field[o][i].obj \in Promoted
        BY DEF Closed, Leads, Range
      <4>1. field[o][i] \in Values /\ Forwarded(field[o][i])
        BY <2>1, <2>2, PromotedFinite DEF AtUpdate, FieldsForwarded, HeapInv, HeapType
      <4> QED
        BY <3>1, <4>1
    <3> QED
      BY <3>2, <3>3, LiveLeast, PromotedFinite
  <2> QED
    BY <2>1, <2>2 DEF AtUpdate
<1> QED
  BY <1>1, Invariance, PTL

\* A collection that ends well leaves no pointer into the minor heap that the
\* major collector or the program could follow.
THEOREM MinorHeapForgotten == Spec => []NoMinorLeft
<1>1. ASSUME IInv PROVE NoMinorLeft
  <2> SUFFICES ASSUME pc = "done" PROVE NoMinorLeft
    BY DEF NoMinorLeft
  <2>1. AtDone /\ HeapType /\ globals \in Seq(Values)
    BY <1>1 DEF IInv, PhaseInv, HeapInv, RootsType
  <2>2. ASSUME NEW ws \in Seq(Values), Settled(ws), NEW v \in Range(ws)
        PROVE  v \in MajorPtrs \cup {Null}
    BY <2>2, ValueForm DEF Range, Settled
  <2> QED
    BY <2>1, <2>2 DEF AtDone, NoMinorLeft, HeapType
<1> QED
  BY <1>1, Invariance, PTL

\* write_back_rewritten_roots never finds a root that still points into the
\* minor heap: its internal error cannot be reached.
THEOREM WriteBackSafe == Spec => [](pc # "internal error")
<1>1. IInv => pc # "internal error"
  BY DEF IInv, PhaseInv
<1> QED
  BY <1>1, Invariance, PTL

\* Each root of the program is moved to the copy of what it pointed to, and is
\* written at no other time.
THEOREM RootsFollow == Spec => RootsMoved
<1> DEFINE Step == globals' # globals => globals' = [i \in DOMAIN globals |-> Moved(globals[i])]
<1>1. ASSUME IInv, Next PROVE Step
  <2>1. CASE WriteBack
    BY <1>1, <2>1, WriteBackForm
  <2>2. CASE ~WriteBack
    BY <1>1, <2>2 DEF Next, CollectRoots, CollectRef, EndCollect, ForwardRoot, EndRoots, ScanField,
       ScanNext, EndScan, UpdatePromoted, EndUpdate, RewriteSlot, RewriteRoots, PromotionFailed
  <2> QED
    BY <2>1, <2>2
<1>2. ASSUME IInv, [Next]_vars PROVE [Step]_vars
  BY <1>1, <1>2
<1> QED
  BY <1>2, Invariance, PTL DEF Spec, RootsMoved
=============================================================================
