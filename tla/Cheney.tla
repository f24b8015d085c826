------------------------------- MODULE Cheney -------------------------------
(***************************************************************************)
(* One minor collection: do_minor_gc_core of ocaml-integration/            *)
(* verified_gc/alloc_gen.c and the minor_collect_full it calls             *)
(* (generational/snapshot/GC_Gen_Impl.c): cheney_promote_phase copies what *)
(* the roots reach from the minor heap into blocks of the major heap,      *)
(* breadth first, leaving forwarding addresses in fwd_arr; then the copies,*)
(* the remembered slots and the roots are rewritten.                       *)
(*                                                                         *)
(* A pointer is a block and a distance into it: distance 0 is the block,   *)
(* any other an infix header inside a closure.  allocate is abstract: it   *)
(* returns a block that is not in use, or fails (module MajorHeap is about *)
(* when).  It may succeed again after a failure, with a smaller request.   *)
(***************************************************************************)
EXTENDS Naturals, Sequences, FiniteSets, Functions

CONSTANTS
  NumMinor,    \* blocks of the minor heap
  NumOld,      \* blocks of the major heap in use when the collection starts
  NumMajor,    \* blocks the major heap may hold
  Distances,   \* distances of infix headers from their closure
  QueueSize,   \* queue_size_sz: entries of the queue
  Images       \* candidate heaps at the start of a collection

Null == [gen |-> "none", obj |-> 0, off |-> 0]  \* immediates, and 0 in fwd_arr
MinorObjs == 1 .. NumMinor
OldObjs   == 1 .. NumOld
MajorObjs == 1 .. NumMajor
Offsets   == Distances \cup {0}

MinorPtrs == [gen : {"minor"}, obj : MinorObjs, off : Offsets]
MajorPtrs == [gen : {"major"}, obj : MajorObjs, off : Offsets]
Values    == MinorPtrs \cup MajorPtrs \cup {Null}

is_minor(v) == v.gen = "minor"
parent(v)   == [v EXCEPT !.off = 0]

ASSUME SizesAssumption ==
  /\ NumMinor \in Nat \ {0} /\ NumOld \in Nat /\ NumMajor \in Nat /\ NumOld <= NumMajor
  /\ Distances \subseteq Nat \ {0}
\* ensure_heap gives the queue and fwd_arr one entry per word of the minor heap.
ASSUME QueueAssumption == QueueSize \in Nat /\ QueueSize >= NumMinor
\* field, noscan: the minor heap; old, oldNoscan: the major heap; slots: the
\* remembered set, fields of old blocks; globals: the roots of the program.
ASSUME ImagesAssumption ==
  \A im \in Images :
    /\ im.field \in [MinorObjs -> Seq(Values)] /\ im.noscan \subseteq MinorObjs
    /\ im.old \in [OldObjs -> Seq(Values)]     /\ im.oldNoscan \subseteq OldObjs
    /\ im.globals \in Seq(Values)              /\ im.slots \in Seq(OldObjs \X (Nat \ {0}))
    /\ \A i \in DOMAIN im.slots : im.slots[i][2] \in DOMAIN im.old[im.slots[i][1]]

VARIABLES
  field, noscan,   \* contents and tags of the minor blocks
  mem, memNoscan,  \* contents and tags of the major blocks in use
  slots,           \* the ref_table
  globals,         \* root slots of the program: *root_locs[i]
  roots,           \* root_values
  fwd_arr,         \* forwarding address of each minor pointer, or Null
  queue,           \* queue[0 .. back - 1]: forwarded blocks, in order
  scan,            \* next entry of queue to scan
  idx,             \* cursor of the running loop
  oom,             \* an allocation failed
  pc

minorHeap == <<field, noscan>>
vars == <<minorHeap, mem, memNoscan, slots, globals, roots, fwd_arr, queue,
          scan, idx, oom, pc>>

Slot(s) == mem[s[1]][s[2]]

\* caml_modify and caml_initialize put every field of a major block that
\* receives a minor pointer in the ref_table; no-scan blocks receive none.
Remembered ==
  /\ \A o \in DOMAIN mem \ memNoscan : \A i \in DOMAIN mem[o] :
       is_minor(mem[o][i]) => \E k \in DOMAIN slots : slots[k] = <<o, i>>
  /\ \A k \in DOMAIN slots : slots[k][1] \notin memNoscan

-----------------------------------------------------------------------------
Init ==
  /\ \E im \in Images :
       /\ field = im.field /\ noscan = im.noscan
       /\ mem = im.old /\ memNoscan = im.oldNoscan
       /\ slots = im.slots /\ globals = im.globals
  /\ Remembered
  /\ roots = <<>>
  /\ fwd_arr = [p \in MinorPtrs |-> Null]
  /\ queue = <<>>
  /\ scan = 1
  /\ idx = 1
  /\ oom = FALSE
  /\ pc = "collect"

\* collect_minor_roots_and_refs: the program's roots come first.
CollectRoots ==
  /\ pc = "collect"
  /\ roots' = globals
  /\ pc' = "refs"
  /\ UNCHANGED <<minorHeap, mem, memNoscan, slots, globals, fwd_arr, queue, scan, idx, oom>>

\* Mutant: the ref_table adds no roots.
withRef_None(v) == roots
\* The roots with the content of a remembered slot, if that is a minor pointer.
withRef(v) == IF is_minor(v) THEN Append(roots, v) ELSE roots

\* Its loop over the ref_table.
CollectRef ==
  /\ pc = "refs" /\ idx <= Len(slots)
  /\ roots' = withRef(Slot(slots[idx]))
  /\ idx' = idx + 1
  /\ UNCHANGED <<minorHeap, mem, memNoscan, slots, globals, fwd_arr, queue, scan, oom, pc>>

EndCollect ==
  /\ pc = "refs" /\ idx > Len(slots)
  /\ pc' = "roots"
  /\ idx' = 1
  /\ UNCHANGED <<minorHeap, mem, memNoscan, slots, globals, roots, fwd_arr, queue, scan, oom>>

\* Mutant: the last entry of the queue is never used.
enqueued_Short(o) == IF Len(queue) + 1 < QueueSize THEN Append(queue, o) ELSE queue

\* A full queue drops the block silently.
enqueued(o) == IF Len(queue) < QueueSize THEN Append(queue, o) ELSE queue

\* cheney_promote of block o into block d: fields as they are, tag copied.
Promote(o, d) ==
  /\ mem' = [b \in DOMAIN mem \cup {d} |-> IF b = d THEN field[o] ELSE mem[b]]
  /\ memNoscan' = IF o \in noscan THEN memNoscan \cup {d} ELSE memNoscan
  /\ queue' = enqueued(o)

\* Mutant: promoting a closure through an infix pointer records the latter only.
recorded_InfixOnly(v, d) == [fwd_arr EXCEPT ![v] = [gen |-> "major", obj |-> d, off |-> v.off]]

\* The forwarding addresses left when v's block is promoted into d.
recorded(v, d) ==
  [fwd_arr EXCEPT ![parent(v)] = [gen |-> "major", obj |-> d, off |-> 0],
                  ![v] = [gen |-> "major", obj |-> d, off |-> v.off]]

\* cheney_promote returns 0: allocate found no block.
CannotPromote(v) ==
  /\ is_minor(v) /\ fwd_arr[parent(v)] = Null
  /\ oom' = TRUE
  /\ UNCHANGED <<fwd_arr, mem, memNoscan, queue>>

\* forward_if_minor: leaves a forwarding address for v unless it has one or is
\* not minor.  An infix pointer forwards its closure, once.
forward_if_minor(v) ==
  \/ /\ is_minor(v) => fwd_arr[v] # Null
     /\ UNCHANGED <<fwd_arr, mem, memNoscan, queue, oom>>
  \/ /\ is_minor(v) /\ fwd_arr[v] = Null
     /\ fwd_arr[parent(v)] # Null
     /\ fwd_arr' = [fwd_arr EXCEPT ![v] = [fwd_arr[parent(v)] EXCEPT !.off = v.off]]
     /\ UNCHANGED <<mem, memNoscan, queue, oom>>
  \/ /\ is_minor(v) /\ fwd_arr[parent(v)] = Null
     /\ \E d \in MajorObjs \ DOMAIN mem : Promote(v.obj, d) /\ fwd_arr' = recorded(v, d)
     /\ UNCHANGED oom
  \/ CannotPromote(v)

\* forward_roots.
ForwardRoot ==
  /\ pc = "roots" /\ idx <= Len(roots)
  /\ forward_if_minor(roots[idx])
  /\ idx' = idx + 1
  /\ UNCHANGED <<minorHeap, slots, globals, roots, scan, pc>>

EndRoots ==
  /\ pc = "roots" /\ idx > Len(roots)
  /\ pc' = "scan"
  /\ idx' = 1
  /\ UNCHANGED <<minorHeap, mem, memNoscan, slots, globals, roots, fwd_arr, queue, scan, oom>>

\* scan_loop: no-scan blocks count as empty.
Scanned == queue[scan]
\* Mutant: no-scan blocks are scanned.
ScanLength_AllTags == Len(field[Scanned])

ScanLength == IF Scanned \in noscan THEN 0 ELSE Len(field[Scanned])

ScanField ==
  /\ pc = "scan" /\ scan <= Len(queue) /\ idx <= ScanLength
  /\ forward_if_minor(field[Scanned][idx])
  /\ idx' = idx + 1
  /\ UNCHANGED <<minorHeap, slots, globals, roots, scan, pc>>

ScanNext ==
  /\ pc = "scan" /\ scan <= Len(queue) /\ idx > ScanLength
  /\ scan' = scan + 1
  /\ idx' = 1
  /\ UNCHANGED <<minorHeap, mem, memNoscan, slots, globals, roots, fwd_arr, queue, oom, pc>>

EndScan ==
  /\ pc = "scan" /\ scan > Len(queue)
  /\ pc' = "update"
  /\ UNCHANGED <<minorHeap, mem, memNoscan, slots, globals, roots, fwd_arr, queue, scan, idx, oom>>

\* What the rewriting loops put in place of a word.
rewritten(v) == IF is_minor(v) /\ fwd_arr[v] # Null THEN fwd_arr[v] ELSE v

\* update_promoted_objects, one entry of fwd_arr at a time; the entries of
\* infix headers are skipped, like those of no-scan blocks.
UpdatePromoted ==
  /\ pc = "update" /\ idx \in MinorObjs
  /\ LET f == fwd_arr[[gen |-> "minor", obj |-> idx, off |-> 0]]
     IN mem' = IF f = Null \/ f.obj \in memNoscan THEN mem
               ELSE [mem EXCEPT ![f.obj] = [i \in DOMAIN @ |-> rewritten(@[i])]]
  /\ idx' = idx + 1
  /\ UNCHANGED <<minorHeap, memNoscan, slots, globals, roots, fwd_arr, queue, scan, oom, pc>>

EndUpdate ==
  /\ pc = "update" /\ idx > NumMinor
  /\ pc' = "slots"
  /\ idx' = 1
  /\ UNCHANGED <<minorHeap, mem, memNoscan, slots, globals, roots, fwd_arr, queue, scan, oom>>

\* rewrite_heap_slots: one entry of the ref_table.
RewriteSlot ==
  /\ pc = "slots" /\ idx <= Len(slots)
  /\ mem' = [mem EXCEPT ![slots[idx][1]][slots[idx][2]] = rewritten(@)]
  /\ idx' = idx + 1
  /\ UNCHANGED <<minorHeap, memNoscan, slots, globals, roots, fwd_arr, queue, scan, oom, pc>>

\* The loop of minor_collect_full over the roots, then minor_heap_reset, which
\* is done whether or not everything was promoted.  field keeps what the minor
\* heap held, for the properties; nothing reads it from here on.
RewriteRoots ==
  /\ pc = "slots" /\ idx > Len(slots)
  /\ roots' = [i \in DOMAIN roots |-> rewritten(roots[i])]
  /\ pc' = "reset"
  /\ idx' = 1
  /\ UNCHANGED <<minorHeap, mem, memNoscan, slots, globals, fwd_arr, queue, scan, oom>>

\* do_minor_gc_core: fatal_promotion_failed.
PromotionFailed ==
  /\ pc = "reset" /\ oom
  /\ pc' = "fatal"
  /\ UNCHANGED <<minorHeap, mem, memNoscan, slots, globals, roots, fwd_arr, queue, scan, idx, oom>>

\* Mutant: the roots are written back from the end of the array.
writtenBack_FromEnd ==
  [i \in DOMAIN globals |-> roots[Len(roots) - Len(globals) + i]]

writtenBack == [i \in DOMAIN globals |-> roots[i]]

\* write_back_rewritten_roots stops the program on a root that still points
\* into the minor heap; the roots found in the ref_table have no location.
\* Then the ref_table is cleared.
WriteBack ==
  /\ pc = "reset" /\ ~oom
  /\ IF \E i \in DOMAIN globals : is_minor(roots[i])
     THEN pc' = "internal error" /\ UNCHANGED <<globals, slots>>
     ELSE /\ globals' = writtenBack
          /\ slots' = <<>>
          /\ pc' = "done"
  /\ UNCHANGED <<minorHeap, mem, memNoscan, roots, fwd_arr, queue, scan, idx, oom>>

Next ==
  \/ CollectRoots \/ CollectRef \/ EndCollect
  \/ ForwardRoot \/ EndRoots
  \/ ScanField \/ ScanNext \/ EndScan
  \/ UpdatePromoted \/ EndUpdate \/ RewriteSlot \/ RewriteRoots
  \/ PromotionFailed \/ WriteBack

Spec == Init /\ [][Next]_vars

-----------------------------------------------------------------------------
(* The graph of the minor heap *)

\* Minor blocks that a sequence of words leads to, its closure for an infix.
Leads(ws) == {v.obj : v \in {u \in Range(ws) : is_minor(u)}}

Closed(S) == \A o \in S \ noscan : Leads(field[o]) \subseteq S

\* The minor blocks to keep, while the roots are those collected.
Live ==
  {o \in MinorObjs : \A S \in SUBSET MinorObjs : Leads(roots) \subseteq S /\ Closed(S) => o \in S}

Copy(o) == fwd_arr[[gen |-> "minor", obj |-> o, off |-> 0]]
Promoted == {o \in MinorObjs : Copy(o) # Null}

\* Where a word points after a collection that promoted everything it needs.
Moved(v) == IF is_minor(v) THEN fwd_arr[v] ELSE v

-----------------------------------------------------------------------------
(* Properties *)

TypeOK ==
  /\ field \in [MinorObjs -> Seq(Values)] /\ noscan \subseteq MinorObjs
  /\ OldObjs \subseteq DOMAIN mem /\ DOMAIN mem \subseteq MajorObjs
  /\ \A b \in DOMAIN mem : mem[b] \in Seq(Values)
  /\ memNoscan \subseteq DOMAIN mem
  /\ slots \in Seq(OldObjs \X (Nat \ {0}))
  /\ globals \in Seq(Values)
  /\ roots \in Seq(Values)
  /\ fwd_arr \in [MinorPtrs -> MajorPtrs \cup {Null}]
  /\ queue \in Seq(MinorObjs)
  /\ scan \in 1 .. Len(queue) + 1
  /\ idx \in Nat \ {0}
  /\ oom \in BOOLEAN
  /\ pc \in {"collect", "refs", "roots", "scan", "update", "slots", "reset",
             "done", "fatal", "internal error"}

\* Sharing survives: a block has one copy however many pointers lead to it, two
\* blocks never share one, an infix pointer leads into the copy of its closure
\* at the same distance, and no copy lands on a block that was in use.
SharingKept ==
  /\ \A p \in MinorPtrs : fwd_arr[p] # Null =>
       /\ fwd_arr[p] = [Copy(p.obj) EXCEPT !.off = p.off]
       /\ fwd_arr[p].obj \in DOMAIN mem \ OldObjs
  /\ \A o1, o2 \in Promoted : Copy(o1) = Copy(o2) => o1 = o2

\* The queue holds every promoted block once: it never fills up, which would
\* drop a block from the scan silently.
QueueExact ==
  /\ Range(queue) = Promoted
  /\ Len(queue) = Cardinality(Promoted)

\* cheney_promote_phase promotes live blocks only, and its oom flag is exact in
\* the sense that matters: when it is clear, every live block is promoted.
PromotesLive ==
  pc = "update" => /\ Promoted \subseteq Live
                   /\ ~oom => Promoted = Live

\* After a successful collection nothing the major collector may scan, and no
\* root, still points into the minor heap, which is about to be reused.
NoMinorLeft ==
  pc = "done" =>
    /\ \A b \in DOMAIN mem \ memNoscan : \A v \in Range(mem[b]) : v \in MajorPtrs \cup {Null}
    /\ \A v \in Range(globals) : v \in MajorPtrs \cup {Null}

\* The roots of the program are moved along with what they point to.
RootsMoved == [][globals' # globals => globals' = [i \in DOMAIN globals |-> Moved(globals[i])]]_vars
=============================================================================
