-------------------------------- MODULE Mark --------------------------------
(***************************************************************************)
(* The mark phase of a major collection: darken_roots_bounded and          *)
(* mark_loop_bounded of generational/snapshot/GC_Gen_Impl.c (extracted     *)
(* from common/impl/GC.Impl.MarkBounded.fst).  A depth-first trace runs    *)
(* over a gray stack of fixed capacity.  When the stack is full a block is *)
(* coloured gray without being pushed; after the stack has drained, the    *)
(* heap is walked in address order and every gray block found is pushed    *)
(* again, until a whole walk pushes nothing.                               *)
(*                                                                         *)
(* A block is its position in the heap walk, 1 .. NumBlocks.  An infix     *)
(* pointer points at an infix header inside a closure block; both kinds of *)
(* header carry colour bits, so both are in the domain of color.  Every    *)
(* other word (immediates, code pointers, raw data that is not a heap      *)
(* address) is one of Immediates.                                          *)
(***************************************************************************)
EXTENDS Naturals, Sequences, FiniteSets

CONSTANTS
  NumBlocks,    \* blocks of the major heap, in the order of the heap walk
  InfixHeaders, \* infix headers found inside closures
  ParentOf,     \* the closure that holds each infix header
  Immediates,   \* words that is_pointer rejects
  Contents,     \* candidate contents: functions from blocks to sequences
  NoScanSets,   \* candidate sets of blocks tagged no_scan_tag or above
  RootArrays,   \* candidate root arrays: sequences of words
  Capacities    \* capacities a gray stack may be created with

Blocks  == 1 .. NumBlocks
Headers == Blocks \cup InfixHeaders
Words   == Headers \cup Immediates
Colors  == {"White", "Gray", "Blue", "Black"}

ASSUME NumBlocksAssumption == NumBlocks \in Nat \ {0}
ASSUME InfixAssumption ==
  /\ InfixHeaders \cap Blocks = {}
  /\ Immediates \cap Headers = {}
  /\ ParentOf \in [InfixHeaders -> Blocks]
ASSUME ContentsAssumption ==
  \A f \in Contents : DOMAIN f = Blocks /\ \A b \in Blocks : f[b] \in Seq(Words)
ASSUME NoScanAssumption == NoScanSets \subseteq SUBSET Blocks
ASSUME RootsAssumption == \A r \in RootArrays : r \in Seq(Words)
\* do_full_gc sizes the stack max(size / 64, 4096, root count, 1).
ASSUME CapacityAssumption == Capacities \subseteq Nat \ {0}

VARIABLES
  color,   \* colour bits of every header
  noscan,  \* blocks whose tag is at least no_scan_tag
  field,   \* field[b][i]: word i of block b, 1 .. wosize
  roots,   \* the root array
  cap,     \* st.cap
  stack,   \* st.storage from st.top upwards: the top of the stack is first
  pc,      \* which loop is running
  obj,     \* the block being scanned, or the block the walk has reached
  idx      \* the next root, or the next field of obj

vars == <<color, noscan, field, roots, cap, stack, pc, obj, idx>>
memory == <<noscan, field, roots, cap>>

-----------------------------------------------------------------------------
(* The object graph *)

is_pointer(v) == v \in Headers

\* The header a pointer leads to: an infix pointer leads to its closure.
resolve(v) == IF v \in InfixHeaders THEN ParentOf[v] ELSE v

Targets(ws) == {resolve(ws[i]) : i \in {j \in DOMAIN ws : is_pointer(ws[j])}}

Children(b) == IF b \in noscan THEN {} ELSE Targets(field[b])

Closed(S) == \A b \in S : Children(b) \subseteq S

Reachable ==
  {b \in Blocks :
     \A S \in SUBSET Blocks : Targets(roots) \subseteq S /\ Closed(S) => b \in S}

\* What the mutator and the previous sweep leave behind: live blocks are
\* white, free ones blue, and nothing but the free list points to a blue one.  The compiler writes
\* infix headers white, the patched interpreter black.
WellFormedHeap ==
  /\ \A b \in Blocks : color[b] \in {"White", "Blue"}
  /\ \A h \in InfixHeaders : color[h] \in {"White", "Black"}
  /\ \A b \in Targets(roots) : color[b] # "Blue"
  /\ \A b \in Blocks : color[b] = "White" =>
       \A c \in Children(b) : color[c] # "Blue"

-----------------------------------------------------------------------------
(* The gray stack *)

is_empty == stack = <<>>
is_full  == Len(stack) = cap
push(h)  == <<h>> \o stack

(* Colouring one target *)

\* Mutant: the push does not look at is_full.
darken_Overruns(h) ==
  \/ /\ color[h] = "White"
     /\ color' = [color EXCEPT ![h] = "Gray"]
     /\ stack' = push(h)
  \/ /\ color[h] # "White"
     /\ UNCHANGED <<color, stack>>

\* Mutant: anything that is not black is pushed.
darken_Twice(h) ==
  \/ /\ color[h] # "Black"
     /\ color' = [color EXCEPT ![h] = "Gray"]
     /\ stack' = IF is_full THEN stack ELSE push(h)
  \/ /\ color[h] = "Black"
     /\ UNCHANGED <<color, stack>>

darken_if_white_bounded(h) ==
  \/ /\ color[h] = "White"
     /\ color' = [color EXCEPT ![h] = "Gray"]
     /\ stack' = IF is_full THEN stack ELSE push(h)
  \/ /\ color[h] # "White"
     /\ UNCHANGED <<color, stack>>

check_and_darken_bounded(v) ==
  \/ is_pointer(v) /\ darken_if_white_bounded(resolve(v))
  \/ ~is_pointer(v) /\ UNCHANGED <<color, stack>>

-----------------------------------------------------------------------------
Init ==
  /\ color \in [Headers -> {"White", "Blue", "Black"}]
  /\ noscan \in NoScanSets
  /\ field \in Contents
  /\ roots \in RootArrays
  /\ cap \in Capacities
  /\ WellFormedHeap
  /\ stack = <<>>
  /\ pc = "roots"
  /\ obj = 1
  /\ idx = 1

\* darken_roots_bounded: one root.
DarkenRoot ==
  /\ pc = "roots"
  /\ idx <= Len(roots)
  /\ check_and_darken_bounded(roots[idx])
  /\ idx' = idx + 1
  /\ UNCHANGED <<pc, obj, memory>>

EndRoots ==
  /\ pc = "roots"
  /\ idx > Len(roots)
  /\ pc' = "inner"
  /\ UNCHANGED <<color, stack, obj, idx, memory>>

\* The step that takes a block off the stack, with the colour it gets, the field
\* its scan starts from and the blocks that are not scanned.
PopStep(c, first, unscanned) ==
  /\ pc = "inner"
  /\ ~is_empty
  /\ obj' = Head(stack)
  /\ stack' = Tail(stack)
  /\ color' = [color EXCEPT ![Head(stack)] = c]
  /\ pc' = IF Head(stack) \in unscanned THEN "inner" ELSE "scan"
  /\ idx' = first
  /\ UNCHANGED memory

\* Mutants: fields counted from zero, tags ignored, the block left gray.
MarkStep_SkipsFirst   == PopStep("Black", 2, noscan)
MarkStep_IgnoresTag   == PopStep("Black", 1, {})
MarkStep_LeavesGray   == PopStep("Gray", 1, noscan)

\* mark_step_bounded_impl up to the test of the tag: pop and blacken.
MarkStep == PopStep("Black", 1, noscan)

\* push_children_bounded_impl: one field.
PushChild ==
  /\ pc = "scan"
  /\ idx <= Len(field[obj])
  /\ check_and_darken_bounded(field[obj][idx])
  /\ idx' = idx + 1
  /\ UNCHANGED <<pc, obj, memory>>

EndScan ==
  /\ pc = "scan"
  /\ idx > Len(field[obj])
  /\ pc' = "inner"
  /\ UNCHANGED <<color, stack, obj, idx, memory>>

\* Mutants: the walk starts after the first block; there is no walk at all.
StartRescan_Late ==
  /\ pc = "inner"
  /\ is_empty
  /\ pc' = "rescan"
  /\ obj' = 2
  /\ UNCHANGED <<color, stack, idx, memory>>
StartRescan_Never ==
  /\ pc = "inner"
  /\ is_empty
  /\ pc' = "done"
  /\ UNCHANGED <<color, stack, obj, idx, memory>>

\* The inner loop has drained the stack: walk the heap from its first block.
StartRescan ==
  /\ pc = "inner"
  /\ is_empty
  /\ pc' = "rescan"
  /\ obj' = 1
  /\ UNCHANGED <<color, stack, idx, memory>>

\* rescan_push_if_gray on one block, and the step to the next header.
RescanBlock ==
  /\ pc = "rescan"
  /\ obj <= NumBlocks
  /\ stack' = IF color[obj] = "Gray" /\ ~is_full THEN push(obj) ELSE stack
  /\ obj' = obj + 1
  /\ UNCHANGED <<color, pc, idx, memory>>

\* mark_loop_bounded: stop when the walk has pushed nothing.
EndRescan ==
  /\ pc = "rescan"
  /\ obj > NumBlocks
  /\ pc' = IF is_empty THEN "done" ELSE "inner"
  /\ UNCHANGED <<color, stack, obj, idx, memory>>

Next ==
  \/ DarkenRoot \/ EndRoots
  \/ MarkStep \/ PushChild \/ EndScan
  \/ StartRescan \/ RescanBlock \/ EndRescan

Spec == Init /\ [][Next]_vars

\* One thread runs the collector to completion while the mutator is stopped.
FairSpec == Spec /\ WF_vars(Next)

-----------------------------------------------------------------------------
(* Properties *)

TypeOK ==
  /\ color \in [Headers -> Colors]
  /\ noscan \in NoScanSets
  /\ field \in Contents
  /\ roots \in RootArrays
  /\ cap \in Capacities
  /\ stack \in Seq(Blocks) /\ Len(stack) <= cap
  /\ pc \in {"roots", "inner", "scan", "rescan", "done"}
  /\ obj \in 1 .. NumBlocks + 1 /\ (pc = "scan" => obj \in Blocks)
  /\ idx \in Nat \ {0}

OnStack == {stack[i] : i \in DOMAIN stack}
IsColor(c) == {b \in Blocks : color[b] = c}

\* The stack holds gray blocks only, none of them twice, however often the
\* walk pushes again what an overflow had left off it (push in
\* darken_if_white_bounded and in rescan_push_if_gray).
StackIsGraySet ==
  /\ OnStack \subseteq IsColor("Gray")
  /\ \A i, j \in DOMAIN stack : stack[i] = stack[j] => i = j

\* The tri-colour invariant: a black block points to no white one, but for
\* the fields of the block under scan that are still to be visited.  It must
\* survive overflow, when gray blocks are on no work list.
Pending == IF pc = "scan" THEN {obj} ELSE {}
TriColor ==
  /\ \A b \in IsColor("Black") \ Pending :
       \A c \in Children(b) : color[c] \in {"Gray", "Black"}
  /\ pc = "scan" =>
       \A i \in 1 .. Len(field[obj]) :
         i < idx /\ is_pointer(field[obj][i]) =>
           color[resolve(field[obj][i])] \in {"Gray", "Black"}

\* Behind the cursor of the walk no gray block is forgotten, unless the stack
\* filled up: an empty stack at the end of a walk proves that no gray is left.
RescanCovers ==
  pc = "rescan" =>
    \/ \A b \in IsColor("Gray") : b < obj => b \in OnStack
    \/ is_full

\* Marking colours reachable blocks only: data of no-scan blocks that happens
\* to look like a pointer keeps nothing alive, and no blue block is touched.
OnlyReachableMarked == IsColor("Gray") \cup IsColor("Black") \subseteq Reachable

\* When mark_loop_bounded returns, exactly the reachable blocks are black and
\* nothing is gray: fused_sweep_coalesce frees gray blocks like white ones.
MarkExact ==
  pc = "done" =>
    /\ IsColor("Gray") = {}
    /\ IsColor("Black") = Reachable

\* The mark loop returns for every graph and every capacity: each walk that
\* pushes something is followed by a step that blackens a gray block for good.
MarkTerminates == <>(pc = "done")

=============================================================================
