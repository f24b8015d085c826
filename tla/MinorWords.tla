----------------------------- MODULE MinorWords -----------------------------
(***************************************************************************)
(* The words of the minor heap: minor_alloc, gen_alloc, the promotion of   *)
(* objects and infix headers, and the passes that generational/snapshot/   *)
(* GC_Gen_Impl.c exports beside minor_collect_full.  Module Cheney has     *)
(* pointers to blocks; here a header, an infix header, an immediate and an *)
(* address are all words, and a pass may take one for another.             *)
(*                                                                         *)
(* A collection runs in one of two ways.  The live one is                  *)
(* minor_collect_full.  The legacy one is the sequence that                *)
(* generational/PATCHES.md describes (BRIDGE 6, 7, 6b): the parents of     *)
(* infix headers become roots, fields are made offsets, promotion, then    *)
(* forwarding addresses for infix headers and a walk over the whole major  *)
(* heap.  PATCHES.md calls the infix passes "currently verified for        *)
(* memory safety only"; the properties below say what they must achieve.   *)
(*                                                                         *)
(* Addresses of the minor heap are byte offsets; the program stores        *)
(* minor_base_addr plus an offset.                                         *)
(***************************************************************************)
EXTENDS WordHeap, FiniteSets, Sequences, Functions

CONSTANTS
  minor_heap_size,  \* minor_heap_size_u64, in bytes
  max_young_wosize, \* max_young_wosize_u64
  minor_base_addr,  \* where the minor heap is, for the program
  LowWz, OldWz,     \* sizes of the first blocks of the major heap at the start: free, used
  Requests,         \* objects the program allocates: size, tag, fields that are infix headers
  RootCap,          \* entries of the roots array
  MaxMajor,         \* bound: objects of the major heap
  MaxSlots          \* bound: entries of the ref_table

Closure_tag == 247
MinorAddresses == {WordBytes * i : i \in 0 .. (minor_heap_size \div WordBytes) - 1}

\* Behind them, one free block fills the major heap.
oldHeader  == zero_addr + WordBytes * (LowWz + 1)
highHeader == oldHeader + WordBytes * (OldWz + 1)
HighWz     == HeapWords - (LowWz + OldWz + 3)

\* The heaps do not overlap, whichever comes first, and no address is as small as an
\* offset.
ASSUME SizesAssumption ==
  /\ \A n \in {minor_heap_size, minor_base_addr} :
       n \in Nat \ {0} /\ n % WordBytes = 0
  /\ minor_heap_size <= zero_addr /\ minor_heap_size <= minor_base_addr
  /\ heap_size <= minor_base_addr \/ minor_base_addr + minor_heap_size <= zero_addr
  /\ {max_young_wosize, RootCap, MaxMajor, MaxSlots} \subseteq Nat
  /\ {LowWz, OldWz} \subseteq Nat \ {0} /\ HeapWords > LowWz + OldWz + 3
\* No object has the tag of an infix header; a closure holds a code word first and
\* after each infix header.
ASSUME RequestsAssumption ==
  \A r \in Requests :
    /\ r.wz \in Nat \ {0} /\ r.tag \in (0 .. 255) \ {infix_tag}
    /\ r.infix \subseteq 1 .. r.wz - 2 /\ (r.infix # {} => r.tag = Closure_tag)

VARIABLES
  data, bump,    \* the minor heap: its words, and the offset of the first free one
  heap, fp_ref,  \* the major heap: its words, and the head of its free list
  slots,         \* the ref_table: fields of the major heap
  roots, fwd_arr, queue, scan, idx, oom,
  legacy,        \* the collection runs in the legacy way
  pc,
  objs           \* history: first field |-> request, of every object allocated

minorHeap == <<data, bump>>
majorHeap == <<heap, fp_ref>>
tracing == <<roots, fwd_arr, queue, scan, idx, oom>>
vars == <<minorHeap, majorHeap, slots, tracing, legacy, pc, objs>>

fields(o, wz) == {o + WordBytes * i : i \in 0 .. wz - 1}

\* to_minor_offset_u64, as it is inlined.
to_minor_offset(v) ==
  IF v >= minor_base_addr /\ v - minor_base_addr < minor_heap_size /\ v % WordBytes = 0
  THEN v - minor_base_addr ELSE v

isScanned(tag) == tag < no_scan_tag

is_minor(v) == v >= WordBytes /\ v < minor_heap_size /\ v % WordBytes = 0

\* The members of a finite set of numbers, in the order in which a loop meets them.
ascending(A) ==
  [i \in 1 .. Cardinality(A) |-> CHOOSE a \in A : Cardinality({b \in A : b <= a}) = i]

-----------------------------------------------------------------------------
(* The free list *)

chain == chainOf(heap, fp_ref)

\* Where in the list a request fits.
fitting(wz) ==
  {i \in 0 .. HeapWords - 1 :
     is_valid_fp(chain[i]) /\ getWosize(heap[hd_address(chain[i])]) >= wz}

\* allocate: the heap and the free list after a request, and the object.
allocate(wz) ==
  IF fitting(wz) = {} THEN [heap |-> heap, fp |-> fp_ref, obj |-> 0]
  ELSE LET i == CHOOSE i \in fitting(wz) : \A j \in fitting(wz) : i <= j
           hd == hd_address(chain[i])
           left == getWosize(heap[hd]) - wz
           obj == f_address(hd + left * WordBytes)
           new_fp == IF left >= 2 THEN chain[i] ELSE chain[i + 1]
           linked == IF i = 0 THEN heap ELSE [heap EXCEPT ![chain[i - 1]] = new_fp]
           split == IF left = 0 THEN linked
                    ELSE [linked EXCEPT ![hd] = makeHeader(left - 1, Blue, 0)]
       IN [heap |-> [split EXCEPT ![hd_address(obj)] = makeHeader(wz, White, 0)],
           fp |-> IF i = 0 THEN new_fp ELSE fp_ref,
           obj |-> obj]

-----------------------------------------------------------------------------
(* The program *)

\* Blocks and infix headers of the program, as the words that point to them.
minorObjs == {o \in DOMAIN objs : o < minor_heap_size}
majorObjs == DOMAIN objs \ minorObjs
infixes(o) == {o + WordBytes * (i + 1) : i \in objs[o].infix}
absolute(v) == IF is_minor(v) THEN minor_base_addr + v ELSE v
Pointers == DOMAIN objs \cup UNION {infixes(o) : o \in DOMAIN objs}

\* An immediate, and one whose low byte is that of an infix header: the OCaml
\* integer 124.
Immediates == {1, 249}
Values == {1} \cup {absolute(v) : v \in Pointers}

\* What field i of a new object may hold: raw data looks like an address.
initialField(r, i) ==
  IF i \in r.infix THEN {makeHeader(i + 1, White, infix_tag)}
  ELSE IF r.tag = Closure_tag THEN IF i = 0 \/ i - 1 \in r.infix THEN {1} ELSE Values \cup Immediates
  ELSE IF r.tag >= no_scan_tag THEN {minor_base_addr + WordBytes}
  ELSE Values

initialFields(r) ==
  {f \in [0 .. r.wz - 1 -> UNION {initialField(r, i) : i \in 0 .. r.wz - 1}] :
     \A i \in DOMAIN f : f[i] \in initialField(r, i)}

filled(h, o, wz, f) ==
  [a \in DOMAIN h |-> IF a \in fields(o, wz) THEN f[(a - o) \div WordBytes] ELSE h[a]]

\* The major heap is as a sweep leaves it: the last free block heads the list.
Init ==
  /\ data = [a \in MinorAddresses |-> 0] /\ bump = 0
  /\ heap = [a \in Addresses |->
              CASE a = zero_addr -> makeHeader(LowWz, Blue, 0)
                [] a = oldHeader -> makeHeader(OldWz, White, 0)
                [] a = highHeader -> makeHeader(HighWz, Blue, 0)
                [] a = f_address(highHeader) -> f_address(zero_addr)
                [] a \in fields(f_address(oldHeader), OldWz) -> 1
                [] OTHER -> 0]
  /\ fp_ref = f_address(highHeader)
  /\ objs = [o \in {f_address(oldHeader)} |-> [wz |-> OldWz, tag |-> 0, infix |-> {}]]
  /\ slots = <<>> /\ roots = <<>> /\ queue = <<>>
  /\ fwd_arr = [a \in MinorAddresses |-> 0]
  /\ scan = 1 /\ idx = 1 /\ oom = FALSE
  /\ legacy = FALSE /\ pc = "mutator"

withObject(o, r) == [p \in DOMAIN objs \cup {o} |-> IF p = o THEN r ELSE objs[p]]

minor_fits(wz) == bump + (wz + 1) * WordBytes <= minor_heap_size

minor_header(r) == makeHeader(r.wz, 0, r.tag)

\* minor_alloc, and the program fills the fields of its object.
minor_alloc(r) ==
  /\ minor_fits(r.wz)
  /\ \E f \in initialFields(r) :
       data' = filled([data EXCEPT ![bump] = minor_header(r)], f_address(bump), r.wz, f)
  /\ bump' = bump + (r.wz + 1) * WordBytes
  /\ objs' = withObject(f_address(bump), r)
  /\ UNCHANGED <<majorHeap, slots>>

\* The minor heap is full, or the object large.  gen_alloc gives it tag 0: the
\* caller writes the tag, and caml_initialize remembers the fields.
major_alloc(r) ==
  /\ r.wz > max_young_wosize \/ ~minor_fits(r.wz)
  /\ Cardinality(majorObjs) < MaxMajor
  /\ LET res == allocate(r.wz)
     IN /\ res.obj # 0
        /\ \E f \in initialFields(r) :
             /\ heap' = filled([res.heap EXCEPT ![hd_address(res.obj)] = @ + r.tag], res.obj, r.wz, f)
             /\ slots' = slots \o ascending(
                  {a \in fields(res.obj, r.wz) :
                     r.tag < no_scan_tag /\ is_minor(to_minor_offset(heap'[a]))})
        /\ fp_ref' = res.fp
        /\ objs' = withObject(res.obj, r)
  /\ UNCHANGED minorHeap

gen_alloc ==
  /\ pc = "mutator"
  /\ \E r \in Requests : (r.wz <= max_young_wosize /\ minor_alloc(r)) \/ major_alloc(r)
  /\ UNCHANGED <<tracing, legacy, pc>>

\* caml_modify of a field of a major object, which is never a closure.
Store ==
  /\ pc = "mutator"
  /\ \E o \in {m \in majorObjs : objs[m].tag < Closure_tag} : \E a \in fields(o, objs[o].wz), v \in Values :
       /\ heap' = [heap EXCEPT ![a] = v]
       /\ slots' = IF is_minor(to_minor_offset(v)) /\ ~is_minor(to_minor_offset(heap[a]))
                   THEN Append(slots, a) ELSE slots
       /\ Len(slots') <= MaxSlots
  /\ UNCHANGED <<minorHeap, fp_ref, tracing, legacy, pc, objs>>

-----------------------------------------------------------------------------
(* Walking the minor heap by header sizes *)

wosizeAt(p) == getWosize(data[p])
stops(p) ==
  \/ wosizeAt(p) = 0
  \/ wosizeAt(p) > bump \div WordBytes
  \/ f_address(p) + wosizeAt(p) * WordBytes > bump

\* Where the walk is after i objects: a walk ends at bump.
position[i \in 0 .. minor_heap_size \div WordBytes] ==
  IF i = 0 THEN 0
  ELSE LET p == position[i - 1]
       IN IF p >= bump \/ stops(p) THEN bump ELSE p + (wosizeAt(p) + 1) * WordBytes

\* The headers the walks act on.
Visited == {p \in {position[i] : i \in DOMAIN position} : p < bump /\ ~stops(p)}
VisitedFields(tags) ==
  UNION {fields(f_address(p), wosizeAt(p)) : p \in {q \in Visited : getTag(data[q]) \in tags}}

-----------------------------------------------------------------------------
(* The collection *)

\* The runtime hands the program's roots over as offsets, and after them what
\* the remembered slots point to; it stops the program when they do not fit.
remembered(i) == to_minor_offset(heap[slots[i]])
Collect ==
  /\ pc = "mutator"
  /\ LET kept == ascending({i \in DOMAIN slots : is_minor(remembered(i))})
     IN \E p \in Pointers : roots' = <<p>> \o [k \in DOMAIN kept |-> remembered(kept[k])]
  /\ Len(roots') <= RootCap
  /\ legacy' \in BOOLEAN
  /\ pc' = IF legacy' THEN "parents" ELSE "roots"
  /\ UNCHANGED <<minorHeap, majorHeap, slots, fwd_arr, queue, scan, idx, oom, objs>>

\* Words in closures that read as an infix header.
infixWords == ascending({a \in VisitedFields({Closure_tag}) : getTag(data[a]) = infix_tag})
closureHeader(a) == CHOOSE p \in Visited : a \in fields(f_address(p), wosizeAt(p))

\* Mutant: the address of the header.
closureOf_Header(a) == closureHeader(a)

closureOf(a) == f_address(closureHeader(a))

\* Each adds its closure to the roots, while there is room.
find_infix_parents ==
  /\ pc = "parents"
  /\ LET found == [i \in DOMAIN infixWords |-> closureOf(infixWords[i])]
         room == RootCap - Len(roots)
     IN roots' = roots \o [i \in 1 .. IF Len(found) <= room THEN Len(found) ELSE room |-> found[i]]
  /\ pc' = "translate"
  /\ UNCHANGED <<minorHeap, majorHeap, slots, fwd_arr, queue, scan, idx, oom, legacy, objs>>

translated(v) ==
  IF v >= minor_base_addr /\ v - minor_base_addr < bump /\ v % 2 = 0 THEN v - minor_base_addr ELSE v

translated_in(A) == [a \in DOMAIN data |-> IF a \in A THEN translated(data[a]) ELSE data[a]]

TranslatePass(tags) ==
  /\ pc = "translate"
  /\ data' = translated_in(VisitedFields(tags))
  /\ pc' = "roots"
  /\ UNCHANGED <<bump, majorHeap, slots, tracing, legacy, objs>>

\* Mutant: raw data is translated.
translate_minor_fields_AllTags == TranslatePass(0 .. 255)

translate_minor_fields == TranslatePass(0 .. no_scan_tag - 1)

\* cheney_promote of the object at o, minor_hdr being its header: the fields as
\* they are, with the tag.  allocate gives the size asked for, so that the padding
\* of a larger block has no case here.
copied(h, o, d, tag) ==
  [a \in DOMAIN h |->
     IF a \in fields(d, wosizeAt(hd_address(o))) THEN data[o + (a - d)]
     ELSE IF a = hd_address(d) THEN makeHeader(getWosize(h[a]), White, tag)
     ELSE h[a]]

\* Mutant: the tag that allocate gives stays.
cheney_copy_LosesTag(h, o, d) == copied(h, o, d, 0)

cheney_copy(h, o, d) == copied(h, o, d, getTag(data[hd_address(o)]))

isInfix(v) == getTag(data[hd_address(v)]) = infix_tag
infixParent(v) == v - wosizeAt(hd_address(v)) * WordBytes

\* Mutant: the infix header itself gets no forwarding address.
recorded_infix_ParentOnly(v, d) == [fwd_arr EXCEPT ![infixParent(v)] = d]

recorded_infix(v, d) == [fwd_arr EXCEPT ![infixParent(v)] = d, ![v] = d + (v - infixParent(v))]

recorded(v, d) == IF isInfix(v) THEN recorded_infix(v, d) ELSE [fwd_arr EXCEPT ![v] = d]

\* Object o is copied because v leads to it.
Promote(o, v) ==
  LET res == allocate(wosizeAt(hd_address(o)))
  IN IF res.obj = 0
     THEN oom' = TRUE /\ UNCHANGED <<majorHeap, fwd_arr, queue>>
     ELSE /\ heap' = cheney_copy(res.heap, o, res.obj)
          /\ fp_ref' = res.fp
          /\ fwd_arr' = recorded(v, res.obj)
          /\ queue' = Append(queue, o)
          /\ UNCHANGED oom

forward_if_minor_infix(v) ==
  LET parent == infixParent(v)
  IN IF fwd_arr[parent] # 0
     THEN fwd_arr' = recorded(v, fwd_arr[parent]) /\ UNCHANGED <<majorHeap, queue, oom>>
     ELSE Promote(parent, v)

forward_if_minor(v) ==
  IF ~is_minor(v) \/ fwd_arr[v] # 0 THEN UNCHANGED <<majorHeap, fwd_arr, queue, oom>>
  ELSE IF isInfix(v) THEN forward_if_minor_infix(v)
  ELSE Promote(v, v)

forward_roots ==
  /\ pc = "roots"
  /\ IF idx <= Len(roots)
     THEN forward_if_minor(roots[idx]) /\ idx' = idx + 1 /\ UNCHANGED pc
     ELSE idx' = 1 /\ pc' = "scan" /\ UNCHANGED <<majorHeap, fwd_arr, queue, oom>>
  /\ UNCHANGED <<minorHeap, slots, roots, scan, legacy, objs>>

scanWosize(o) == IF isScanned(getTag(data[hd_address(o)])) THEN wosizeAt(hd_address(o)) ELSE 0

\* scan_loop, one field a step.
scan_loop ==
  /\ pc = "scan" /\ scan <= Len(queue)
  /\ IF idx <= scanWosize(queue[scan])
     THEN /\ forward_if_minor(to_minor_offset(data[queue[scan] + (idx - 1) * WordBytes]))
          /\ idx' = idx + 1 /\ UNCHANGED scan
     ELSE idx' = 1 /\ scan' = scan + 1 /\ UNCHANGED <<majorHeap, fwd_arr, queue, oom>>
  /\ UNCHANGED <<minorHeap, slots, roots, legacy, pc, objs>>

\* The flag of cheney_promote_phase; the bridge stops the program when it is set.
EndPromotion ==
  /\ pc = "scan" /\ scan > Len(queue)
  /\ pc' = IF oom THEN "fatal" ELSE IF legacy THEN "synthesize" ELSE "update"
  /\ UNCHANGED <<minorHeap, majorHeap, slots, tracing, legacy, objs>>

\* The addresses forwarded by the pass, one for each word of a promoted closure
\* that reads as an infix header.
synthesized ==
  {f_address(a) : a \in {w \in VisitedFields({Closure_tag}) :
     getTag(data[w]) = infix_tag /\ fwd_arr[closureOf(w)] # 0}} \cap MinorAddresses

\* Mutant: the distance of the header.
infixForwarding_Header(v) == LET o == closureOf(hd_address(v)) IN fwd_arr[o] + (hd_address(v) - o)

infixForwarding(v) == LET o == closureOf(hd_address(v)) IN fwd_arr[o] + (v - o)

synthesize_infix_forwarding ==
  /\ pc = "synthesize"
  /\ fwd_arr' = [v \in DOMAIN fwd_arr |-> IF v \in synthesized THEN infixForwarding(v) ELSE fwd_arr[v]]
  /\ pc' = "update"
  /\ UNCHANGED <<minorHeap, majorHeap, slots, roots, queue, scan, idx, oom, legacy, objs>>

\* The new value of a field or a root.
rewritten(raw) ==
  LET v == to_minor_offset(raw)
  IN IF is_minor(v) /\ fwd_arr[v] # 0 THEN fwd_arr[v] ELSE raw

\* update_one_object, for every object of a set.
updated_in(O) ==
  LET A == UNION {fields(o, getWosize(heap[hd_address(o)])) : o \in O}
  IN [a \in DOMAIN heap |-> IF a \in A THEN rewritten(heap[a]) ELSE heap[a]]

\* The copies, found in fwd_arr; an entry for an infix header leads to a word
\* that reads as one.
update_promoted_objects ==
  /\ pc = "update" /\ ~legacy
  /\ LET tagOf(d) == getTag(heap[hd_address(d)])
     IN heap' = updated_in({d \in {fwd_arr[v] : v \in DOMAIN fwd_arr} \ {0} :
                              isScanned(tagOf(d)) /\ tagOf(d) # infix_tag})
  /\ pc' = "slots"
  /\ UNCHANGED <<minorHeap, fp_ref, slots, tracing, legacy, objs>>

\* Headers a walk over the major heap visits; it stops within a word of the end.
majorPosition[i \in 0 .. HeapWords] ==
  IF i = 0 THEN zero_addr
  ELSE LET p == majorPosition[i - 1]
       IN IF p + WordBytes >= heap_size THEN p
          ELSE p + (getWosize(heap[p]) + 1) * WordBytes
MajorVisited ==
  {zero_addr} \cup {p \in {majorPosition[i] : i \in 0 .. HeapWords} : p + WordBytes < heap_size}

usedBlocks == {p \in MajorVisited : getColor(heap[p]) # Blue}

\* Mutant: the tag is not looked at.
scannedBlocks_AllTags == usedBlocks

scannedBlocks == {p \in usedBlocks : isScanned(getTag(heap[p]))}

update_all_objects ==
  /\ pc = "update" /\ legacy
  /\ heap' = updated_in({f_address(p) : p \in scannedBlocks})
  /\ pc' = "rewrite"
  /\ UNCHANGED <<minorHeap, fp_ref, slots, tracing, legacy, objs>>

rewrite_heap_slots ==
  /\ pc = "slots"
  /\ heap' = [a \in DOMAIN heap |-> IF a \in Range(slots) THEN rewritten(heap[a]) ELSE heap[a]]
  /\ pc' = "rewrite"
  /\ UNCHANGED <<minorHeap, fp_ref, slots, tracing, legacy, objs>>

rewrite_roots ==
  /\ pc = "rewrite"
  /\ roots' = [i \in DOMAIN roots |-> rewritten(roots[i])]
  /\ pc' = "reset"
  /\ UNCHANGED <<minorHeap, majorHeap, slots, fwd_arr, queue, scan, idx, oom, legacy, objs>>

minor_heap_reset ==
  /\ pc = "reset"
  /\ data' = [a \in MinorAddresses |-> 0]
  /\ bump' = 0
  /\ pc' = "done"
  /\ UNCHANGED <<majorHeap, slots, tracing, legacy, objs>>

Next ==
  \/ gen_alloc \/ Store \/ Collect
  \/ find_infix_parents \/ translate_minor_fields
  \/ forward_roots \/ scan_loop \/ EndPromotion
  \/ synthesize_infix_forwarding
  \/ update_promoted_objects \/ update_all_objects \/ rewrite_heap_slots
  \/ rewrite_roots \/ minor_heap_reset

Spec == Init /\ [][Next]_vars

-----------------------------------------------------------------------------
(* Properties *)

TypeOK ==
  /\ DOMAIN data = MinorAddresses /\ DOMAIN heap = Addresses
  /\ bump \in MinorAddresses \cup {minor_heap_size}
  /\ fp_ref = 0 \/ is_valid_fp(fp_ref)
  /\ Range(slots) \subseteq Addresses
  /\ Len(roots) <= RootCap
  /\ DOMAIN fwd_arr = MinorAddresses
  /\ \A v \in MinorAddresses : fwd_arr[v] = 0 \/ fwd_arr[v] \in Addresses \cup {heap_size}
  /\ Range(queue) \subseteq MinorAddresses
  /\ scan \in 1 .. Len(queue) + 1 /\ idx \in Nat \ {0}
  /\ oom \in BOOLEAN /\ legacy \in BOOLEAN
  /\ pc \in {"mutator", "translate", "parents", "roots", "scan", "synthesize",
             "update", "slots", "rewrite", "reset", "done", "fatal"}

\* translate_minor_fields makes of every field that is scanned what the promotion
\* makes of it when it reads it, and leaves every other word alone: the reason
\* why the live collection may do without the pass.
TranslateExact ==
  [][pc = "translate" /\ pc' = "roots" =>
       \A a \in MinorAddresses :
         data'[a] = IF \E o \in minorObjs : a \in fields(o, objs[o].wz) /\ isScanned(objs[o].tag)
                    THEN to_minor_offset(data[a]) ELSE data[a]]_vars

\* find_infix_parents adds the closure of every infix header, unless the array is
\* full, and no word that is not an object, whatever immediates closures hold.
ParentsFound ==
  pc = "roots" /\ idx = 1 /\ legacy =>
    /\ Range(roots) \subseteq Pointers
    /\ \A o \in minorObjs : infixes(o) # {} => o \in Range(roots) \/ Len(roots) = RootCap

\* synthesize_infix_forwarding gives the infix headers of a promoted closure the
\* place they have in its copy, keeps what the promotion recorded already, and
\* touches the entry of no other object.
SynthesisExact ==
  [][pc = "synthesize" /\ pc' = "update" =>
       /\ \A o \in minorObjs :
            /\ fwd_arr'[o] = fwd_arr[o]
            /\ \A v \in infixes(o) : fwd_arr[o] # 0 => fwd_arr'[v] = fwd_arr[o] + (v - o)
       /\ \A v \in MinorAddresses : fwd_arr[v] # 0 => fwd_arr'[v] = fwd_arr[v]]_vars

\* Both ways leave the same copy of each promoted object: its header but for the
\* colour, its raw data, its immediates, and the new addresses of its pointers.
CopiesExact ==
  pc = "rewrite" =>
    \A o \in {m \in minorObjs : fwd_arr[m] # 0} :
      /\ heap[hd_address(fwd_arr[o])] = makeHeader(objs[o].wz, White, objs[o].tag)
      /\ \A a \in fields(o, objs[o].wz) :
           LET v == to_minor_offset(data[a])
           IN heap[fwd_arr[o] + (a - o)] =
                IF isScanned(objs[o].tag) /\ is_minor(v) THEN fwd_arr[v] ELSE data[a]

\* Both ways leave no address of the minor heap in a block that is scanned, nor in
\* a root: neither an absolute one nor an offset, infix pointers included.
NoMinorLeft ==
  pc = "done" =>
    /\ \A p \in scannedBlocks : \A a \in fields(f_address(p), getWosize(heap[p])) :
         ~is_minor(to_minor_offset(heap[a]))
    /\ \A r \in Range(roots) : ~is_minor(r)

\* A collection changes an object that was in the major heap only where it points
\* into the minor heap, to the new address; raw data that looks like such a
\* pointer stays, whether the slots are known or the whole heap is walked.
MajorKept ==
  [][pc # "mutator" =>
       \A o \in majorObjs : \A a \in fields(o, objs[o].wz) :
         \/ heap'[a] = heap[a]
         \/ /\ isScanned(objs[o].tag) /\ is_minor(to_minor_offset(heap[a]))
            /\ heap'[a] = fwd_arr[to_minor_offset(heap[a])]]_vars
=============================================================================
