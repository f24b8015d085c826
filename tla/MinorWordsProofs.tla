-------------------------- MODULE MinorWordsProofs --------------------------
(***************************************************************************)
(* Theorems about the words of the two heaps in a minor collection, for    *)
(* heaps of any size, any requests and any number of roots and slots.      *)
(*                                                                         *)
(* The invariant has a part for each thing a pass may take for another.    *)
(* The objects tile the minor heap, and the words of their scanned fields  *)
(* are odd, addresses of the major heap or pointers to objects or infix    *)
(* headers.  The blocks in use of the major heap are its objects and the   *)
(* copies, and the rest is on the free list or too small for it.  A copy   *)
(* holds the words of its object, until the pass over the copies, and then *)
(* their images.  The entries of fwd_arr for infix headers go with those   *)
(* of their objects.  Everything behind the cursors has been forwarded.    *)
(***************************************************************************)
EXTENDS MinorWords, HeapLemmas, FiniteSetTheorems, SequenceTheorems

-----------------------------------------------------------------------------
(* The inductive invariant *)

Shape(r) ==
  /\ r.wz \in Nat \ {0} /\ r.tag \in (0 .. 255) \ {infix_tag}
  /\ r.infix \subseteq 1 .. r.wz - 2 /\ (r.infix # {} => r.tag = Closure_tag)

ObjsInv == DOMAIN objs \subseteq Nat /\ \A o \in DOMAIN objs : Shape(objs[o])

endOf(o) == o + WordBytes * objs[o].wz

\* The objects of the minor heap follow one another from its start to bump.
MinorTiled ==
  /\ bump \in MinorAddresses \cup {minor_heap_size}
  /\ bump = 0 \/ WordBytes \in minorObjs
  /\ \A o \in minorObjs :
       /\ o \in MinorAddresses /\ hd_address(o) \in MinorAddresses
       /\ data[hd_address(o)] = minor_header(objs[o])
       /\ endOf(o) <= bump
       /\ endOf(o) = bump \/ endOf(o) + WordBytes \in minorObjs
  /\ \A o, p \in minorObjs : o < p => endOf(o) + WordBytes <= p

\* Objects and infix headers of the minor heap.
minorPointers == minorObjs \cup UNION {infixes(o) : o \in minorObjs}

\* A word that no pass takes for something else, when P are the pointers.
SoundFor(v, P) ==
  /\ v \in Nat
  /\ v % 2 = 1 \/ v \in Addresses \/ to_minor_offset(v) \in P

Sound(v) == SoundFor(v, minorPointers)

MinorFields ==
  /\ data \in [MinorAddresses -> Nat]
  /\ \A o \in minorObjs :
       /\ isScanned(objs[o].tag) => \A a \in fields(o, objs[o].wz) : Sound(data[a])
       /\ \A i \in objs[o].infix : data[o + WordBytes * i] = makeHeader(i + 1, White, infix_tag)

\* In the heap h the block with first field d is the object r.
HoldsIn(h, d, r) ==
  /\ d \in Addresses /\ hd_address(d) \in HeadersOf(h)
  /\ h[hd_address(d)] = makeHeader(r.wz, White, r.tag)

Holds(d, r) == HoldsIn(heap, d, r)

copies == {fwd_arr[o] : o \in Range(queue)}

\* The blocks in use of the major heap are its objects and the copies.
MajorBlocks ==
  /\ Listed(heap, HeadersOf(heap), fp_ref)
  /\ \A o \in majorObjs : Holds(o, objs[o])
  /\ \A o \in Range(queue) : Holds(fwd_arr[o], objs[o]) /\ fwd_arr[o] \notin majorObjs
  /\ \A b \in HeadersOf(heap) : getColor(heap[b]) # Blue =>
       f_address(b) \in majorObjs \cup copies

\* The fields of the major heap that may hold pointers.
majorFields == UNION {fields(o, objs[o].wz) : o \in {m \in majorObjs : isScanned(objs[m].tag)}}

\* A field of the major heap that points into the minor heap is remembered, then
\* a root, then rewritten.
Remembered ==
  /\ slots \in Seq(Addresses) /\ Range(slots) \subseteq majorFields
  /\ pc \notin {"rewrite", "reset", "done"} =>
       \A a \in majorFields :
         /\ Sound(heap[a])
         /\ is_minor(to_minor_offset(heap[a])) =>
              /\ a \in Range(slots)
              /\ pc # "mutator" => to_minor_offset(heap[a]) \in Range(roots)
  /\ pc \in {"rewrite", "reset", "done"} =>
       \A a \in majorFields : ~is_minor(to_minor_offset(heap[a]))

\* A forwarding address is that of a copy, or of an infix header in one.
Forwarded ==
  /\ fwd_arr \in [MinorAddresses -> Addresses \cup {0, heap_size}]
  /\ queue \in Seq(minorObjs)
  /\ \A o \in minorObjs :
       /\ fwd_arr[o] # 0 <=> o \in Range(queue)
       /\ \A v \in infixes(o) : fwd_arr[v] # 0 =>
            fwd_arr[o] # 0 /\ fwd_arr[v] = fwd_arr[o] + (v - o)
  /\ ~legacy \/ pc \notin {"update", "rewrite", "reset", "done"} =>
       \A v \in MinorAddresses : fwd_arr[v] # 0 => v \in minorPointers

\* What the word v of an object is in its copy, once the copies are updated.
Image(v, tag) ==
  LET w == to_minor_offset(v) IN IF isScanned(tag) /\ is_minor(w) THEN fwd_arr[w] ELSE v

CopyWords ==
  /\ pc # "done" =>
       \A o \in Range(queue) : \A a \in fields(o, objs[o].wz) :
         heap[fwd_arr[o] + (a - o)] =
           IF pc \in {"slots", "rewrite", "reset"} THEN Image(data[a], objs[o].tag) ELSE data[a]
  /\ pc = "done" =>
       \A o \in Range(queue) : isScanned(objs[o].tag) =>
         \A a \in fields(fwd_arr[o], objs[o].wz) : ~is_minor(to_minor_offset(heap[a]))

Roots ==
  /\ roots \in Seq(Nat) /\ Len(roots) <= RootCap
  /\ pc \notin {"reset", "done"} => Range(roots) \subseteq Pointers
  /\ pc \in {"reset", "done"} => \A r \in Range(roots) : ~is_minor(r)
  /\ legacy /\ pc \in {"translate", "roots"} =>
       \A o \in minorObjs : infixes(o) # {} => o \in Range(roots) \/ Len(roots) = RootCap

Reached(v) == is_minor(v) => fwd_arr[v] # 0
ReachedFrom(o) ==
  isScanned(objs[o].tag) => \A a \in fields(o, objs[o].wz) : Reached(to_minor_offset(data[a]))

\* Everything behind the cursors is forwarded, unless a promotion failed.
Progress ==
  /\ scan \in 1 .. Len(queue) + 1 /\ idx \in Nat \ {0}
  /\ pc = "roots" /\ ~oom => \A j \in 1 .. Len(roots) : j < idx => Reached(roots[j])
  /\ pc = "roots" => scan = 1
  /\ pc \in {"scan", "synthesize", "update", "slots", "rewrite"} /\ ~oom =>
       \A r \in Range(roots) : Reached(r)
  /\ pc = "scan" /\ ~oom =>
       /\ \A i \in 1 .. Len(queue) : i < scan => ReachedFrom(queue[i])
       /\ scan <= Len(queue) =>
            \A i \in 1 .. scanWosize(queue[scan]) : i < idx =>
              Reached(to_minor_offset(data[queue[scan] + (i - 1) * WordBytes]))
  /\ pc \in {"synthesize", "update", "slots", "rewrite", "reset"} =>
       \A o \in Range(queue) : ReachedFrom(o)

Control ==
  /\ pc \in {"mutator", "translate", "parents", "roots", "scan", "synthesize",
             "update", "slots", "rewrite", "reset", "done", "fatal"}
  /\ oom \in BOOLEAN /\ legacy \in BOOLEAN
  /\ oom => pc \in {"roots", "scan", "fatal"}
  /\ pc \in {"mutator", "slots"} => ~legacy
  /\ pc \in {"translate", "parents", "synthesize"} => legacy
  /\ pc = "mutator" => roots = <<>>
  /\ pc \in {"mutator", "translate", "parents"} =>
       /\ queue = <<>> /\ scan = 1 /\ idx = 1
       /\ fwd_arr = [a \in MinorAddresses |-> 0]

\* At the end the minor heap is empty; the objects it held remain in the history.
MinorInv ==
  /\ pc # "done" => MinorTiled /\ MinorFields
  /\ pc = "done" => DOMAIN data = MinorAddresses /\ bump = 0 /\ minorObjs \subseteq MinorAddresses

IInv ==
  /\ ObjsInv /\ MinorInv
  /\ MajorBlocks /\ Remembered
  /\ Forwarded /\ CopyWords
  /\ Roots /\ Progress /\ Control

-----------------------------------------------------------------------------
(* Addresses and words *)

\* A white header reads back as the size and the tag it was made of.
LEMMA WhiteHeader ==
  ASSUME NEW w \in Nat, NEW t \in 0 .. 255
  PROVE  /\ makeHeader(w, White, t) \in Nat
         /\ getWosize(makeHeader(w, White, t)) = w /\ getTag(makeHeader(w, White, t)) = t
         /\ getColor(makeHeader(w, White, t)) = White
<1>1. White \in 0 .. 3
  BY DEF White
<1> QED
  BY <1>1, HeaderParts, ZenonT(60)

\* The two heaps and the program's addresses do not overlap.
LEMMA Constants ==
  /\ minor_heap_size \in Nat /\ minor_heap_size % 8 = 0 /\ minor_heap_size > 0
  /\ minor_base_addr \in Nat /\ minor_base_addr % 8 = 0
  /\ zero_addr \in Nat /\ heap_size \in Nat /\ HeapWords \in Nat
  /\ minor_heap_size <= zero_addr /\ zero_addr < heap_size /\ minor_heap_size <= minor_base_addr
  /\ heap_size <= minor_base_addr \/ minor_base_addr + minor_heap_size <= zero_addr
  /\ RootCap \in Nat
<1>1. zero_addr \in Nat /\ heap_size \in Nat /\ HeapWords \in Nat /\ zero_addr < heap_size
  BY HeapAssumption DEF heap_size, WordBytes
<1> QED
  BY <1>1, SizesAssumption DEF WordBytes

\* The addresses of the minor heap are the multiples of eight below its size.
LEMMA MinorAddress ==
  ASSUME NEW v
  PROVE  v \in MinorAddresses <=> v \in Nat /\ v < minor_heap_size /\ v % 8 = 0
<1>1. minor_heap_size \in Nat /\ minor_heap_size % 8 = 0
  BY Constants
<1>2. ASSUME v \in MinorAddresses PROVE v \in Nat /\ v < minor_heap_size /\ v % 8 = 0
  <2>1. PICK i \in 0 .. (minor_heap_size \div 8) - 1 : v = 8 * i
    BY <1>2 DEF MinorAddresses, WordBytes
  <2> QED
    BY <1>1, <2>1
<1>3. ASSUME v \in Nat, v < minor_heap_size, v % 8 = 0 PROVE v \in MinorAddresses
  <2> DEFINE i == v \div 8
  <2>1. i \in 0 .. (minor_heap_size \div 8) - 1 /\ v = 8 * i
    BY <1>1, <1>3
  <2> QED
    BY <2>1 DEF MinorAddresses, WordBytes
<1> QED
  BY <1>2, <1>3

\* An offset is an address of the minor heap, the first header excepted.
LEMMA IsMinor ==
  ASSUME NEW v \in Nat
  PROVE  is_minor(v) <=> v \in MinorAddresses /\ v # 0
<1>1. v \in MinorAddresses <=> v < minor_heap_size /\ v % 8 = 0
  BY MinorAddress
<1> QED
  BY <1>1 DEF is_minor, WordBytes

\* What to_minor_offset makes of a word.
LEMMA Offsets ==
  ASSUME NEW v \in Nat
  PROVE  /\ to_minor_offset(v) \in Nat
         /\ v < minor_base_addr \/ v % 2 = 1 => to_minor_offset(v) = v
         /\ v % 2 = 1 => ~is_minor(v) /\ v % 8 # 0
         /\ v \in Addresses \cup {heap_size} => ~is_minor(to_minor_offset(v))
         /\ v \in MinorAddresses => /\ to_minor_offset(v) = v
                                    /\ to_minor_offset(minor_base_addr + v) = v
<1>1. to_minor_offset(v) \in Nat
  BY Constants DEF to_minor_offset
<1>2. v % 2 = 1 => v % 8 # 0
  OBVIOUS
<1>3. v < minor_base_addr \/ v % 2 = 1 => to_minor_offset(v) = v
  BY <1>2, Constants DEF to_minor_offset, WordBytes
<1>4. v % 2 = 1 => ~is_minor(v)
  BY <1>2 DEF is_minor, WordBytes
<1>5. ASSUME v \in Addresses \cup {heap_size}
      PROVE  ~is_minor(to_minor_offset(v))
  <2>1. /\ v >= zero_addr
        /\ v <= minor_base_addr \/ v >= minor_base_addr + minor_heap_size
    BY <1>5, AddressFacts, Constants
  <2>2. to_minor_offset(v) \in {0, v}
    BY <2>1, Constants DEF to_minor_offset
  <2> QED
    BY <2>1, <2>2, Constants DEF is_minor, WordBytes
<1>6. ASSUME v \in MinorAddresses
      PROVE  to_minor_offset(v) = v /\ to_minor_offset(minor_base_addr + v) = v
  <2>1. v < minor_heap_size /\ v % 8 = 0
    BY <1>6, MinorAddress
  <2>2. (minor_base_addr + v) % 8 = 0
    BY <2>1, Constants
  <2> QED
    BY <1>3, <2>1, <2>2, Constants DEF to_minor_offset, WordBytes
<1> QED
  BY <1>1, <1>2, <1>3, <1>4, <1>5, <1>6

\* A sound word that reads as an address of the minor heap points to an object or an
\* infix header.
LEMMA SoundPointer ==
  ASSUME NEW v, Sound(v)
  PROVE  /\ to_minor_offset(v) \in Nat
         /\ is_minor(to_minor_offset(v)) => to_minor_offset(v) \in minorPointers
<1>1. v \in Nat
  BY DEF Sound, SoundFor
<1> QED
  BY <1>1, Offsets DEF Sound, SoundFor

\* A field has a place among the fields.
LEMMA FieldIs ==
  ASSUME NEW o \in Nat, o % 8 = 0, NEW wz \in Nat, NEW a
  PROVE  /\ a \in fields(o, wz) <=> a \in Nat /\ o <= a /\ a < o + 8 * wz /\ a % 8 = 0
         /\ a \in fields(o, wz) => /\ (a - o) \div 8 \in 0 .. wz - 1
                                   /\ a = o + 8 * ((a - o) \div 8)
<1>1. ASSUME a \in fields(o, wz) PROVE a \in Nat /\ o <= a /\ a < o + 8 * wz /\ a % 8 = 0
  <2>1. PICK i \in 0 .. wz - 1 : a = o + 8 * i
    BY <1>1 DEF fields, WordBytes
  <2> QED
    BY <2>1
<1>2. ASSUME a \in Nat, o <= a, a < o + 8 * wz, a % 8 = 0
      PROVE  /\ a \in fields(o, wz)
             /\ (a - o) \div 8 \in 0 .. wz - 1 /\ a = o + 8 * ((a - o) \div 8)
  <2> DEFINE i == (a - o) \div 8
  <2>1. i \in 0 .. wz - 1 /\ a = o + 8 * i
    BY <1>2
  <2> QED
    BY <2>1 DEF fields, WordBytes
<1> QED
  BY <1>1, <1>2

-----------------------------------------------------------------------------
(* The order in which a loop meets the members of a set *)

rank(A, a) == Cardinality({b \in A : b <= a})

\* Ranks tell the members of a finite set apart.
LEMMA RankFacts ==
  ASSUME NEW A \in SUBSET Nat, IsFiniteSet(A)
  PROVE  /\ \A a \in A : rank(A, a) \in 1 .. Cardinality(A)
         /\ \A a, b \in A : rank(A, a) = rank(A, b) => a = b
<1>1. ASSUME NEW a \in A
      PROVE  /\ IsFiniteSet({b \in A : b <= a}) /\ rank(A, a) \in Nat
             /\ rank(A, a) <= Cardinality(A) /\ rank(A, a) # 0
  <2> DEFINE S == {b \in A : b <= a}
  <2>1. S \subseteq A /\ a \in S
    OBVIOUS
  <2>2. IsFiniteSet(S) /\ Cardinality(S) \in Nat /\ Cardinality(S) <= Cardinality(A)
    BY <2>1, FS_Subset, FS_CardinalityType
  <2>3. Cardinality(S) # 0
    BY <2>1, <2>2, FS_EmptySet
  <2> QED
    BY <2>2, <2>3 DEF rank
<1>2. ASSUME NEW a \in A, NEW b \in A, a < b
      PROVE  rank(A, a) # rank(A, b)
  <2> DEFINE S == {c \in A : c <= a}
             T == {c \in A : c <= b}
  <2>1. S \subseteq T /\ b \in T /\ b \notin S
    <3>1. \A c \in A : c \in Nat
      OBVIOUS
    <3>2. \A c \in A : c <= a => c <= b
      BY <1>2, <3>1
    <3>3. ~ (b <= a) /\ b <= b
      BY <1>2, <3>1
    <3> QED
      BY <3>2, <3>3, Zenon
  <2>2. IsFiniteSet(S) /\ IsFiniteSet(T)
    BY <1>1
  <2>5. Cardinality(S) \in Nat /\ Cardinality(T) \in Nat
    <3> HIDE DEF S, T
    <3> QED
      BY <2>2, FS_CardinalityType
  <2>3. S # T
    BY <2>1
  <2>4. Cardinality(S) < Cardinality(T)
    <3> HIDE DEF S, T
    <3> QED
      <4>1. Cardinality(S) <= Cardinality(T) /\ (Cardinality(S) = Cardinality(T) => S = T)
        BY <2>1, <2>2, FS_Subset, Zenon
      <4> QED
        BY <2>3, <2>5, <4>1
  <2> QED
    BY <2>4, <2>5 DEF rank
<1>3. \A a, b \in A : rank(A, a) = rank(A, b) => a = b
  <2> SUFFICES ASSUME NEW a \in A, NEW b \in A, a # b PROVE rank(A, a) # rank(A, b)
    OBVIOUS
  <2>1. a < b \/ b < a
    OBVIOUS
  <2> QED
    BY <1>2, <2>1
<1>4. Cardinality(A) \in Nat
  BY FS_CardinalityType
<1>5. ASSUME NEW a \in A PROVE rank(A, a) \in 1 .. Cardinality(A)
  <2>1. rank(A, a) \in Nat /\ rank(A, a) <= Cardinality(A) /\ rank(A, a) # 0
    BY <1>1
  <2> QED
    BY <1>4, <2>1
<1> QED
  BY <1>3, <1>5

\* All of them, and nothing else.
LEMMA Ascending ==
  ASSUME NEW A \in SUBSET Nat, IsFiniteSet(A)
  PROVE  /\ ascending(A) \in Seq(A) /\ Len(ascending(A)) = Cardinality(A)
         /\ Range(ascending(A)) = A
<1> DEFINE N == Cardinality(A)
           f == [a \in A |-> rank(A, a)]
<1>1. N \in Nat
  BY FS_CardinalityType
<1>2. f \in [A -> 1 .. N] /\ \A a, b \in A : f[a] = f[b] => a = b
  BY RankFacts
<1>3. \A i \in 1 .. N : \E a \in A : rank(A, a) = i
  <2> DEFINE T == 1 .. N
  <2>1. IsFiniteSet(T) /\ Cardinality(T) = N
    BY <1>1, FS_Interval
  <2>2. f \in Injection(A, T)
    BY <1>2 DEF Injection, IsInjective
  <2> HIDE DEF f, T
  <2>3. f \in Surjection(A, T)
    BY <2>1, <2>2, FS_Injection
  <2>4. \A i \in T : \E a \in A : f[a] = i
    BY <2>3 DEF Surjection
  <2> QED
    BY <2>4 DEF f, T
<1> DEFINE s == [i \in 1 .. N |-> CHOOSE a \in A : rank(A, a) = i]
<1>4. ascending(A) = s
  BY DEF ascending, rank
<1>5. \A i \in 1 .. N : s[i] \in A /\ rank(A, s[i]) = i
  BY <1>3
<1>6. \A a \in A : rank(A, a) \in 1 .. N /\ s[rank(A, a)] = a
  BY <1>2, <1>5, RankFacts
<1> HIDE DEF N
<1>7. s \in Seq(A) /\ Len(s) = N
  <2>1. s \in [1 .. N -> A]
    BY <1>5
  <2> HIDE DEF s
  <2> QED
    BY <1>1, <2>1
<1>8. Range(s) = A
  <2>1. DOMAIN s = 1 .. N
    OBVIOUS
  <2> HIDE DEF s
  <2> QED
    BY <1>5, <1>6, <2>1 DEF Range
<1> QED
  BY <1>4, <1>7, <1>8 DEF N

-----------------------------------------------------------------------------
(* The objects of the minor heap *)

Minor == ObjsInv /\ MinorTiled /\ MinorFields

\* An object of the minor heap, its header and its end.
LEMMA MinorObject ==
  ASSUME Minor, NEW o \in minorObjs
  PROVE  /\ o \in Nat /\ o % 8 = 0 /\ o >= 8 /\ o < minor_heap_size
         /\ hd_address(o) \in Nat /\ o = hd_address(o) + 8 /\ f_address(hd_address(o)) = o
         /\ o \in MinorAddresses /\ hd_address(o) \in MinorAddresses /\ is_minor(o)
         /\ Shape(objs[o]) /\ objs[o].wz \in Nat /\ objs[o].wz >= 1 /\ objs[o].tag \in 0 .. 255
         /\ endOf(o) = o + 8 * objs[o].wz /\ endOf(o) <= bump
         /\ bump \in Nat /\ bump <= minor_heap_size /\ bump % 8 = 0
<1>1. o \in DOMAIN objs /\ o \in Nat /\ Shape(objs[o])
  BY DEF Minor, ObjsInv, minorObjs
<1>2. o \in MinorAddresses /\ hd_address(o) \in MinorAddresses
      /\ endOf(o) <= bump /\ bump \in MinorAddresses \cup {minor_heap_size}
  BY DEF Minor, MinorTiled
<1>3. o % 8 = 0 /\ o < minor_heap_size /\ hd_address(o) \in Nat
      /\ bump \in Nat /\ bump <= minor_heap_size /\ bump % 8 = 0
  BY <1>2, MinorAddress, Constants
<1>4. o = hd_address(o) + 8 /\ f_address(hd_address(o)) = o /\ o >= 8
  BY <1>1, <1>3 DEF hd_address, f_address, WordBytes
<1>5. is_minor(o)
  BY <1>1, <1>2, <1>4, IsMinor
<1>6. objs[o].wz \in Nat /\ objs[o].wz >= 1 /\ objs[o].tag \in 0 .. 255
  BY <1>1 DEF Shape
<1>7. endOf(o) = o + 8 * objs[o].wz
  BY DEF endOf, WordBytes
<1> QED
  BY <1>1, <1>2, <1>3, <1>4, <1>5, <1>6, <1>7

\* What its header says.
LEMMA MinorHeader ==
  ASSUME Minor, NEW o \in minorObjs
  PROVE  /\ data[hd_address(o)] = makeHeader(objs[o].wz, White, objs[o].tag)
         /\ wosizeAt(hd_address(o)) = objs[o].wz /\ getTag(data[hd_address(o)]) = objs[o].tag
         /\ ~isInfix(o)
         /\ scanWosize(o) = IF isScanned(objs[o].tag) THEN objs[o].wz ELSE 0
<1>1. data[hd_address(o)] = makeHeader(objs[o].wz, White, objs[o].tag)
  BY DEF Minor, MinorTiled, minor_header, White
<1>2. objs[o].wz \in Nat /\ objs[o].tag \in 0 .. 255 /\ objs[o].tag # infix_tag
  BY MinorObject DEF Shape
<1>3. getWosize(data[hd_address(o)]) = objs[o].wz /\ getTag(data[hd_address(o)]) = objs[o].tag
  <2> DEFINE w == objs[o].wz
             t == objs[o].tag
  <2>1. w \in Nat /\ t \in 0 .. 255
    BY <1>2
  <2>2. data[hd_address(o)] = makeHeader(w, White, t)
    BY <1>1
  <2> HIDE DEF w, t
  <2>3. getWosize(makeHeader(w, White, t)) = w /\ getTag(makeHeader(w, White, t)) = t
    BY <2>1, WhiteHeader, Zenon
  <2>4. getWosize(data[hd_address(o)]) = w /\ getTag(data[hd_address(o)]) = t
    BY <2>2, <2>3, Zenon
  <2> QED
    BY <2>4 DEF w, t
<1> QED
  BY <1>1, <1>2, <1>3 DEF wosizeAt, isInfix, scanWosize

\* A field of an object of the minor heap.
LEMMA MinorField ==
  ASSUME Minor, NEW o \in minorObjs, NEW a \in fields(o, objs[o].wz)
  PROVE  /\ a \in Nat /\ a % 8 = 0 /\ o <= a /\ a + 8 <= endOf(o) /\ a < bump
         /\ a \in MinorAddresses /\ a # 0 /\ is_minor(a)
         /\ data[a] \in Nat /\ a - o \in Nat
<1>1. /\ o \in Nat /\ o % 8 = 0 /\ o >= 8 /\ objs[o].wz \in Nat /\ endOf(o) = o + 8 * objs[o].wz
      /\ endOf(o) <= bump /\ bump \in Nat /\ bump <= minor_heap_size
  BY MinorObject
<1>2. a \in Nat /\ o <= a /\ a < o + 8 * objs[o].wz /\ a % 8 = 0
  BY <1>1, FieldIs
<1>3. a + 8 <= endOf(o) /\ a < bump /\ a < minor_heap_size /\ a # 0
  BY <1>1, <1>2, Constants
<1>4. a \in MinorAddresses
  BY <1>2, <1>3, MinorAddress
<1>5. is_minor(a)
  BY <1>2, <1>3, <1>4, IsMinor
<1> QED
  BY <1>1, <1>2, <1>3, <1>4, <1>5 DEF Minor, MinorFields

\* No two objects share a word.
LEMMA MinorApart ==
  ASSUME Minor, NEW o \in minorObjs, NEW p \in minorObjs, o # p
  PROVE  /\ fields(o, objs[o].wz) \cap fields(p, objs[p].wz) = {}
         /\ hd_address(p) \notin fields(o, objs[o].wz)
         /\ p \notin fields(o, objs[o].wz)
<1>1. /\ o \in Nat /\ p \in Nat /\ endOf(o) \in Nat /\ endOf(p) \in Nat
      /\ hd_address(p) \in Nat /\ p = hd_address(p) + 8
  BY MinorObject
<1>2. endOf(o) + 8 <= p \/ endOf(p) + 8 <= o
  <2>1. o < p \/ p < o
    BY <1>1
  <2> QED
    BY <2>1 DEF Minor, MinorTiled, WordBytes
<1>3. \A a \in fields(o, objs[o].wz) : a \in Nat /\ o <= a /\ a + 8 <= endOf(o)
  BY MinorField
<1>4. \A a \in fields(p, objs[p].wz) : a \in Nat /\ p <= a /\ a + 8 <= endOf(p)
  BY MinorField
<1>5. endOf(p) >= p
  BY MinorObject
<1>6. ASSUME NEW a \in fields(o, objs[o].wz) PROVE a \notin fields(p, objs[p].wz) /\ a # p /\ a # hd_address(p)
  BY <1>1, <1>2, <1>3, <1>4, <1>5
<1> QED
  BY <1>6

\* An infix header of an object leads back to it.
LEMMA MinorInfix ==
  ASSUME Minor, NEW o \in minorObjs, NEW v \in infixes(o)
  PROVE  /\ v \in fields(o, objs[o].wz) /\ hd_address(v) \in fields(o, objs[o].wz)
         /\ v \in Nat /\ v % 8 = 0 /\ v \in MinorAddresses /\ is_minor(v)
         /\ v = hd_address(v) + 8 /\ f_address(hd_address(v)) = v
         /\ isInfix(v) /\ infixParent(v) = o /\ v # o /\ v - o \in Nat
         /\ v + 8 <= endOf(o)
         /\ objs[o].tag = Closure_tag
<1>1. PICK i \in objs[o].infix : v = o + 8 * (i + 1)
  BY DEF infixes, WordBytes
<1>2. o \in Nat /\ o % 8 = 0 /\ o >= 8 /\ objs[o].wz \in Nat /\ Shape(objs[o])
  BY MinorObject
<1>3. i \in Nat /\ i >= 1 /\ i <= objs[o].wz - 2 /\ objs[o].tag = Closure_tag
  BY <1>2 DEF Shape
<1>4. v \in Nat /\ hd_address(v) = o + 8 * i /\ v = hd_address(v) + 8 /\ f_address(hd_address(v)) = v
      /\ v # o /\ v - o \in Nat /\ v % 8 = 0
  BY <1>1, <1>2, <1>3 DEF hd_address, f_address, WordBytes
<1>5. v \in fields(o, objs[o].wz) /\ hd_address(v) \in fields(o, objs[o].wz)
  <2>1. i \in 0 .. objs[o].wz - 1 /\ i + 1 \in 0 .. objs[o].wz - 1
    BY <1>2, <1>3
  <2> QED
    BY <1>1, <1>4, <2>1 DEF fields, WordBytes
<1>6. data[hd_address(v)] = makeHeader(i + 1, White, infix_tag)
  BY <1>4 DEF Minor, MinorFields, WordBytes
<1>7. getTag(data[hd_address(v)]) = infix_tag /\ getWosize(data[hd_address(v)]) = i + 1
  <2>1. infix_tag \in 0 .. 255 /\ i + 1 \in Nat
    BY <1>3 DEF infix_tag
  <2>2. \A w \in Nat, t \in 0 .. 255 :
          getWosize(makeHeader(w, White, t)) = w /\ getTag(makeHeader(w, White, t)) = t
    BY WhiteHeader, Zenon
  <2> QED
    BY <1>6, <2>1, <2>2
<1>8. isInfix(v) /\ infixParent(v) = o
  BY <1>1, <1>2, <1>3, <1>7 DEF isInfix, infixParent, wosizeAt, WordBytes
<1>9. v \in MinorAddresses /\ is_minor(v) /\ v + 8 <= endOf(o)
  BY <1>5, MinorField
<1> QED
  BY <1>3, <1>4, <1>5, <1>8, <1>9

\* A pointer leads to an object or to an infix header, and can be told which.
LEMMA MinorPointer ==
  ASSUME Minor, NEW v \in minorPointers
  PROVE  /\ v \in Nat /\ v % 8 = 0 /\ v \in MinorAddresses /\ is_minor(v)
         /\ to_minor_offset(v) = v
         /\ v < bump
         /\ ~isInfix(v) => v \in minorObjs
         /\ isInfix(v) => /\ infixParent(v) \in minorObjs /\ v \in infixes(infixParent(v))
                          /\ v \notin minorObjs
<1>1. CASE v \in minorObjs
  <2>1. v \in Nat /\ v % 8 = 0 /\ v \in MinorAddresses /\ is_minor(v) /\ ~isInfix(v)
    BY <1>1, MinorObject, MinorHeader
  <2>2. v < bump
    BY <1>1, MinorObject
  <2> QED
    BY <1>1, <2>1, <2>2, Offsets
<1>2. CASE v \notin minorObjs
  <2>1. PICK o \in minorObjs : v \in infixes(o)
    BY <1>2 DEF minorPointers
  <2>2. v \in Nat /\ v % 8 = 0 /\ v \in MinorAddresses /\ is_minor(v) /\ isInfix(v) /\ infixParent(v) = o
        /\ v \in fields(o, objs[o].wz)
    BY <2>1, MinorInfix
  <2>3. v < bump
    BY <2>2, MinorField
  <2> QED
    BY <1>2, <2>1, <2>2, <2>3, Offsets
<1> QED
  BY <1>1, <1>2

\* The infix headers of an object are none of its own fields' objects.
LEMMA InfixNotObject ==
  ASSUME Minor, NEW o \in minorObjs, NEW v \in infixes(o), NEW p \in minorObjs
  PROVE  v # p /\ (v \in infixes(p) => p = o)
<1>1. isInfix(v) /\ infixParent(v) = o
  BY MinorInfix
<1>2. ~isInfix(p)
  BY MinorHeader
<1>3. v \in infixes(p) => infixParent(v) = p
  BY MinorInfix
<1> QED
  BY <1>1, <1>2, <1>3

-----------------------------------------------------------------------------
(* The walk over the minor heap *)

minorHeaders == {hd_address(o) : o \in minorObjs}

\* A walk by header sizes goes from an object to the next one.
LEMMA TileStep ==
  ASSUME Minor, NEW o \in minorObjs
  PROVE  LET p == hd_address(o)
         IN  /\ p \in minorHeaders /\ p \in Nat /\ p < bump /\ ~stops(p)
             /\ p + (wosizeAt(p) + 1) * WordBytes = endOf(o)
             /\ endOf(o) \in minorHeaders \cup {bump} /\ endOf(o) \in Nat /\ endOf(o) >= p + 8
<1> DEFINE p == hd_address(o)
           w == objs[o].wz
<1>1. /\ o \in Nat /\ p \in Nat /\ o = p + 8 /\ w \in Nat /\ w >= 1 /\ endOf(o) = o + 8 * w
      /\ endOf(o) <= bump /\ bump \in Nat /\ bump % 8 = 0
  BY MinorObject
<1>2. wosizeAt(p) = w
  BY MinorHeader
<1>3. p \in minorHeaders
  BY DEF minorHeaders
<1>4. endOf(o) \in minorHeaders \cup {bump}
  <2>1. endOf(o) = bump \/ endOf(o) + WordBytes \in minorObjs
    BY DEF Minor, MinorTiled
  <2>2. hd_address(endOf(o) + WordBytes) = endOf(o)
    BY <1>1 DEF hd_address, WordBytes
  <2> QED
    BY <2>1, <2>2 DEF minorHeaders
<1> HIDE DEF p, w
<1>5. p < bump /\ endOf(o) \in Nat /\ endOf(o) >= p + 8
  BY <1>1
<1>6. p + (wosizeAt(p) + 1) * WordBytes = endOf(o)
  BY <1>1, <1>2 DEF WordBytes
<1>7. ~ (w > bump \div 8)
  BY <1>1
<1>8. ~stops(p)
  BY <1>1, <1>2, <1>7 DEF stops, f_address, WordBytes
<1> QED
  BY <1>3, <1>4, <1>5, <1>6, <1>8, <1>1 DEF p

\* The walk stays on headers until it is at bump.
LEMMA PositionSteps ==
  ASSUME Minor
  PROVE  LET M == minor_heap_size \div WordBytes
         IN  /\ M \in Nat /\ 8 * M = minor_heap_size
             /\ DOMAIN position = 0 .. M
             /\ position[0] = 0
             /\ \A i \in 0 .. M : position[i] \in minorHeaders \cup {bump}
             /\ \A i \in 0 .. M - 1 :
                  position[i + 1] = IF position[i] \in minorHeaders
                                    THEN position[i] + (wosizeAt(position[i]) + 1) * WordBytes ELSE bump
<1> DEFINE M == minor_heap_size \div WordBytes
           S == minorHeaders \cup {bump}
           next(p) == p + (wosizeAt(p) + 1) * WordBytes
           g == [p \in S |-> IF p \in minorHeaders THEN next(p) ELSE bump]
<1>1. M \in Nat /\ 8 * M = minor_heap_size
  BY Constants DEF WordBytes
<1>2. \A p \in minorHeaders : p \in Nat /\ p < bump /\ ~stops(p) /\ next(p) \in S
  BY TileStep DEF minorHeaders
<1>3. bump \in Nat
  BY MinorAddress, Constants DEF Minor, MinorTiled
<1>4. 0 \in S
  <2>1. hd_address(WordBytes) = 0
    BY DEF hd_address, WordBytes
  <2> QED
    BY <2>1 DEF Minor, MinorTiled, minorHeaders
<1>5. g \in [S -> S]
  BY <1>2
<1>6. \A p \in S : g[p] = IF p >= bump \/ stops(p) THEN bump ELSE next(p)
  <2>1. ASSUME NEW p \in S, p \in minorHeaders
        PROVE  g[p] = IF p >= bump \/ stops(p) THEN bump ELSE next(p)
    <3>1. ~(p >= bump) /\ ~stops(p)
      BY <1>2, <1>3, <2>1
    <3> HIDE DEF next
    <3> QED
      BY <2>1, <3>1
  <2>2. ASSUME NEW p \in S, p \notin minorHeaders
        PROVE  g[p] = IF p >= bump \/ stops(p) THEN bump ELSE next(p)
    BY <1>3, <2>2
  <2> QED
    BY <2>1, <2>2
<1> HIDE DEF g, S, M, next
<1>7. PICK f : Iterates(f, S, 0, g, M)
  <2>1. M \in Nat
    BY <1>1
  <2> QED
    BY <1>4, <1>5, <2>1, IteratesExist, Zenon
<1>8. f = [i \in 0 .. M |->
             IF i = 0 THEN 0
             ELSE LET p == f[i - 1] IN IF p >= bump \/ stops(p) THEN bump ELSE next(p)]
  <2>1. ASSUME NEW i \in 0 .. M, i # 0 PROVE f[i - 1] \in S
    <3>1. i - 1 \in 0 .. M
      BY <1>1, <2>1
    <3> QED
      BY <1>7, <3>1 DEF Iterates
  <2> QED
    BY <1>6, <1>7, <2>1 DEF Iterates
<1>9. position = [i \in 0 .. M |->
             IF i = 0 THEN 0
             ELSE LET p == position[i - 1] IN IF p >= bump \/ stops(p) THEN bump ELSE next(p)]
  BY <1>8 DEF position, M, next
<1>10. /\ DOMAIN position = 0 .. M /\ position[0] = 0
       /\ \A i \in 0 .. M - 1 :
            position[i + 1] = IF position[i] >= bump \/ stops(position[i]) THEN bump ELSE next(position[i])
  <2> DEFINE F(f0) == [i \in 0 .. M |->
                IF i = 0 THEN 0
                ELSE LET p == f0[i - 1] IN IF p >= bump \/ stops(p) THEN bump ELSE next(p)]
  <2>1. \A f0 : /\ DOMAIN F(f0) = 0 .. M /\ F(f0)[0] = 0
                /\ \A i \in 0 .. M - 1 :
                     F(f0)[i + 1] = IF f0[i] >= bump \/ stops(f0[i]) THEN bump ELSE next(f0[i])
    <3>1. \A i \in 0 .. M - 1 : i + 1 \in 0 .. M /\ i + 1 # 0 /\ i + 1 - 1 = i
      BY <1>1
    <3> QED
      BY <1>1, <3>1
  <2>2. position = F(position)
    BY <1>9
  <2> HIDE DEF F
  <2> QED
    BY <2>1, <2>2
<1>11. ASSUME NEW i \in 0 .. M - 1, position[i] \in S
       PROVE  /\ position[i + 1] \in S
              /\ position[i + 1] = IF position[i] \in minorHeaders THEN next(position[i]) ELSE bump
  <2>1. position[i + 1] = g[position[i]]
    BY <1>6, <1>10, <1>11
  <2>2. g[position[i]] \in S
    BY <1>5, <1>11
  <2> QED
    BY <2>1, <2>2, <1>11 DEF g
<1>12. 0 .. M \subseteq {i \in 0 .. M : position[i] \in S}
  <2> DEFINE T == {i \in 0 .. M : position[i] \in S}
  <2>1. 0 \in T
    BY <1>1, <1>4, <1>10
  <2>2. ASSUME NEW i \in 0 .. M - 1, i \in T PROVE i + 1 \in T
    <3>1. i + 1 \in 0 .. M
      BY <1>1
    <3> QED
      BY <1>11, <2>2, <3>1
  <2> HIDE DEF T
  <2>3. 0 .. M \subseteq T
    BY <1>1, <2>1, <2>2, Induction
  <2> QED
    BY <2>3 DEF T
<1>13. \A i \in 0 .. M - 1 : i \in 0 .. M
  BY <1>1
<1>14. \A i \in 0 .. M - 1 :
         position[i + 1] = IF position[i] \in minorHeaders THEN next(position[i]) ELSE bump
  BY <1>11, <1>12, <1>13
<1>15. \A i \in 0 .. M : position[i] \in S
  BY <1>12
<1> QED
  BY <1>1, <1>10, <1>14, <1>15 DEF M, S, next

\* It acts on every object and on nothing else.
LEMMA VisitedIs ==
  ASSUME Minor
  PROVE  Visited = minorHeaders
<1> DEFINE M == minor_heap_size \div WordBytes
<1>1. /\ M \in Nat /\ 8 * M = minor_heap_size /\ DOMAIN position = 0 .. M /\ position[0] = 0
      /\ \A i \in 0 .. M : position[i] \in minorHeaders \cup {bump}
      /\ \A i \in 0 .. M - 1 :
           position[i + 1] = IF position[i] \in minorHeaders
                             THEN position[i] + (wosizeAt(position[i]) + 1) * WordBytes ELSE bump
  BY PositionSteps
<1>2. bump \in Nat /\ bump <= minor_heap_size
  BY MinorAddress, Constants DEF Minor, MinorTiled
<1>3. \A p \in minorHeaders : p \in Nat /\ p < bump /\ ~stops(p)
  BY TileStep DEF minorHeaders
<1>4. ASSUME NEW p \in minorHeaders
      PROVE  /\ p + (wosizeAt(p) + 1) * WordBytes \in Nat
             /\ p + (wosizeAt(p) + 1) * WordBytes >= p + 8
             /\ \A b \in minorHeaders : p < b => p + (wosizeAt(p) + 1) * WordBytes <= b
  <2>1. PICK o \in minorObjs : p = hd_address(o)
    BY DEF minorHeaders
  <2>2. p + (wosizeAt(p) + 1) * WordBytes = endOf(o) /\ endOf(o) \in Nat /\ endOf(o) >= p + 8
    BY <2>1, TileStep
  <2>3. ASSUME NEW b \in minorHeaders, p < b PROVE endOf(o) <= b
    <3>1. PICK q \in minorObjs : b = hd_address(q)
      BY DEF minorHeaders
    <3>2. q = b + 8 /\ o = p + 8 /\ p \in Nat /\ b \in Nat
      BY <2>1, <3>1, MinorObject
    <3>3. o < q
      BY <2>3, <3>2
    <3>4. endOf(o) + 8 <= q
      BY <3>3 DEF Minor, MinorTiled, WordBytes
    <3> QED
      BY <2>2, <3>2, <3>4
  <2> QED
    BY <2>2, <2>3
<1> DEFINE next(p) == p + (wosizeAt(p) + 1) * WordBytes
<1>5. \A p \in minorHeaders : /\ next(p) \in Nat /\ next(p) >= p + 8
                              /\ \A b \in minorHeaders : p < b => next(p) <= b
  BY <1>4
<1>6. \A i \in 0 .. M - 1 :
           position[i + 1] = IF position[i] \in minorHeaders THEN next(position[i]) ELSE bump
  BY <1>1
<1> HIDE DEF next, M
<1>7. position[M] = bump \/ position[M] >= 8 * M
  <2> DEFINE V == {i \in 0 .. M : position[i] = bump \/ position[i] >= 8 * i}
  <2>1. 0 \in V
    BY <1>1
  <2>2. ASSUME NEW i \in 0 .. M - 1, i \in V PROVE i + 1 \in V
    <3>1. i \in 0 .. M /\ i + 1 \in 0 .. M
      BY <1>1
    <3>2. CASE position[i] \in minorHeaders
      <4>1. position[i] \in Nat /\ position[i] >= 8 * i
        BY <1>3, <1>2, <2>2, <3>2
      <4>2. position[i + 1] \in Nat /\ position[i + 1] >= position[i] + 8
        BY <1>5, <1>6, <3>2
      <4> QED
        BY <3>1, <4>1, <4>2
    <3>3. CASE position[i] \notin minorHeaders
      BY <1>6, <3>1, <3>3
    <3> QED
      BY <3>2, <3>3
  <2> HIDE DEF V
  <2>3. 0 .. M \subseteq V
    BY <1>1, <2>1, <2>2, Induction
  <2> QED
    BY <1>1, <2>3 DEF V
<1>8. position[M] = bump
  <2>1. M \in 0 .. M
    BY <1>1
  <2> QED
    BY <1>1, <1>2, <1>3, <1>7, <2>1
<1>9. Visited \subseteq minorHeaders
  BY <1>1, <1>2 DEF Visited
<1>10. ASSUME NEW b \in minorHeaders, \A i \in 0 .. M : position[i] # b
       PROVE  FALSE
  <2> DEFINE T == {i \in 0 .. M : position[i] < b}
  <2>1. b \in Nat /\ b < bump
    BY <1>3
  <2>2. 0 \in T
    BY <1>1, <1>10, <2>1
  <2>3. ASSUME NEW i \in 0 .. M - 1, i \in T PROVE i + 1 \in T
    <3>1. i \in 0 .. M /\ i + 1 \in 0 .. M
      BY <1>1
    <3>2. position[i] \in minorHeaders
      BY <1>1, <1>2, <2>1, <2>3, <3>1
    <3>3. position[i + 1] \in Nat /\ position[i + 1] <= b
      BY <1>5, <1>6, <2>3, <3>2
    <3> QED
      BY <1>10, <2>1, <3>1, <3>3
  <2> HIDE DEF T
  <2>4. 0 .. M \subseteq T
    BY <1>1, <2>2, <2>3, Induction
  <2> QED
    BY <1>1, <1>2, <1>8, <2>1, <2>4 DEF T
<1>11. minorHeaders \subseteq Visited
  <2>1. \A b \in minorHeaders : \E i \in 0 .. M : position[i] = b
    BY <1>10
  <2> QED
    BY <1>1, <1>3, <2>1 DEF Visited
<1> QED
  BY <1>9, <1>11

\* What it does to fields it does to those of the objects with the tags.
LEMMA VisitedFieldsAre ==
  ASSUME Minor, NEW T, NEW a
  PROVE  a \in VisitedFields(T) <=>
           \E o \in minorObjs : objs[o].tag \in T /\ a \in fields(o, objs[o].wz)
<1>1. \A o \in minorObjs : /\ f_address(hd_address(o)) = o /\ wosizeAt(hd_address(o)) = objs[o].wz
                           /\ getTag(data[hd_address(o)]) = objs[o].tag
  BY MinorObject, MinorHeader
<1>2. Visited = minorHeaders
  BY VisitedIs
<1>3. ASSUME a \in VisitedFields(T)
      PROVE  \E o \in minorObjs : objs[o].tag \in T /\ a \in fields(o, objs[o].wz)
  <2>1. PICK p \in Visited : getTag(data[p]) \in T /\ a \in fields(f_address(p), wosizeAt(p))
    BY <1>3 DEF VisitedFields
  <2>2. PICK o \in minorObjs : p = hd_address(o)
    BY <1>2, <2>1 DEF minorHeaders
  <2> QED
    BY <1>1, <2>1, <2>2
<1>4. ASSUME NEW o \in minorObjs, objs[o].tag \in T, a \in fields(o, objs[o].wz)
      PROVE  a \in VisitedFields(T)
  <2>1. hd_address(o) \in Visited
    BY <1>2 DEF minorHeaders
  <2>2. getTag(data[hd_address(o)]) \in T
    BY <1>1, <1>4
  <2>3. a \in fields(f_address(hd_address(o)), wosizeAt(hd_address(o)))
    BY <1>1, <1>4
  <2> QED
    BY <2>1, <2>2, <2>3 DEF VisitedFields
<1> QED
  BY <1>3, <1>4

\* The object that a word belongs to.
LEMMA ClosureIs ==
  ASSUME Minor, NEW o \in minorObjs, NEW a \in fields(o, objs[o].wz)
  PROVE  closureOf(a) = o
<1>1. \A p \in minorObjs : f_address(hd_address(p)) = p /\ wosizeAt(hd_address(p)) = objs[p].wz
  BY MinorObject, MinorHeader
<1>2. Visited = minorHeaders
  BY VisitedIs
<1>3. hd_address(o) \in Visited /\ a \in fields(f_address(hd_address(o)), wosizeAt(hd_address(o)))
  BY <1>1, <1>2 DEF minorHeaders
<1>4. closureHeader(a) \in Visited /\ a \in fields(f_address(closureHeader(a)), wosizeAt(closureHeader(a)))
  BY <1>3, Zenon DEF closureHeader
<1>5. PICK p \in minorObjs : closureHeader(a) = hd_address(p)
  BY <1>2, <1>4 DEF minorHeaders
<1>6. a \in fields(p, objs[p].wz)
  BY <1>1, <1>4, <1>5
<1>7. p = o
  BY <1>6, MinorApart
<1> QED
  BY <1>1, <1>5, <1>7 DEF closureOf

-----------------------------------------------------------------------------
(* The blocks of the major heap *)

B == HeadersOf(heap)

\* A heap whose blocks and free list are in order.
MajorHeap == Listed(heap, B, fp_ref)

\* The parts of MajorHeap.
LEMMA MajorFacts ==
  ASSUME MajorHeap
  PROVE  /\ heap \in Words /\ heap \in [Addresses -> Nat] /\ DOMAIN heap = Addresses
         /\ B \subseteq Addresses /\ HaveField(B)
         /\ Tiled(heap, B, zero_addr, heap_size) /\ Descending(heap, FreeIn(heap, B), fp_ref)
BY DEF MajorHeap, Listed, Words

\* A block that holds an object, and its fields.
LEMMA HeldBlock ==
  ASSUME MajorHeap, NEW r, Shape(r), NEW d, Holds(d, r)
  PROVE  /\ d \in Nat /\ d % 8 = 0 /\ d \in Addresses /\ hd_address(d) \in B
         /\ hd_address(d) \in Addresses /\ hd_address(d) \in Nat
         /\ d = hd_address(d) + 8 /\ f_address(hd_address(d)) = d
         /\ r.wz \in Nat /\ r.wz >= 1
         /\ getWosize(heap[hd_address(d)]) = r.wz /\ getTag(heap[hd_address(d)]) = r.tag
         /\ getColor(heap[hd_address(d)]) = White
         /\ nextHeader(heap, hd_address(d)) = d + 8 * r.wz /\ d + 8 * r.wz <= heap_size
<1>1. d \in Addresses /\ hd_address(d) \in B /\ heap[hd_address(d)] = makeHeader(r.wz, White, r.tag)
  BY DEF Holds, HoldsIn, B
<1>2. d \in Nat /\ d % 8 = 0 /\ d = hd_address(d) + 8 /\ f_address(hd_address(d)) = d
      /\ hd_address(d) \in Addresses /\ hd_address(d) \in Nat
  BY <1>1, MajorFacts, AddressFacts, HeaderAddress
<1>3. r.wz \in Nat /\ r.wz >= 1 /\ r.tag \in 0 .. 255
  BY DEF Shape
<1>4. /\ getWosize(heap[hd_address(d)]) = r.wz /\ getTag(heap[hd_address(d)]) = r.tag
      /\ getColor(heap[hd_address(d)]) = White
  <2> DEFINE w == r.wz
             t == r.tag
  <2>1. w \in Nat /\ t \in 0 .. 255 /\ heap[hd_address(d)] = makeHeader(w, White, t)
    BY <1>1, <1>3
  <2> HIDE DEF w, t
  <2>2. /\ getWosize(makeHeader(w, White, t)) = w /\ getTag(makeHeader(w, White, t)) = t
        /\ getColor(makeHeader(w, White, t)) = White
    BY <2>1, WhiteHeader, Zenon
  <2>3. /\ getWosize(heap[hd_address(d)]) = w /\ getTag(heap[hd_address(d)]) = t
        /\ getColor(heap[hd_address(d)]) = White
    BY <2>1, <2>2, Zenon
  <2> QED
    BY <2>3 DEF w, t
<1>5. nextHeader(heap, hd_address(d)) = d + 8 * r.wz
  BY <1>2, <1>3, <1>4, MajorFacts, Sizes
<1>6. nextHeader(heap, hd_address(d)) <= heap_size
  <2>1. zero_addr \in Addresses \cup {heap_size} /\ heap_size \in Addresses \cup {heap_size}
    BY AddressFacts
  <2> QED
    BY <1>1, <2>1, MajorFacts, TileBounds
<1> QED
  BY <1>1, <1>2, <1>3, <1>4, <1>5, <1>6

\* The fields of a block that holds an object are the words within it.
LEMMA HeldField ==
  ASSUME MajorHeap, NEW r, Shape(r), NEW d, Holds(d, r), NEW a
  PROVE  /\ a \in fields(d, r.wz) => /\ a \in Addresses /\ a \in Nat /\ a % 8 = 0
                                     /\ d <= a /\ a + 8 <= d + 8 * r.wz /\ a - d \in Nat
                                     /\ Within(heap, hd_address(d), a)
         /\ a \in Addresses /\ Within(heap, hd_address(d), a) => a \in fields(d, r.wz)
<1>1. /\ d \in Nat /\ d % 8 = 0 /\ d \in Addresses /\ d = hd_address(d) + 8 /\ hd_address(d) \in Nat
      /\ r.wz \in Nat /\ nextHeader(heap, hd_address(d)) = d + 8 * r.wz /\ d + 8 * r.wz <= heap_size
  BY HeldBlock
<1>2. a \in fields(d, r.wz) <=> a \in Nat /\ d <= a /\ a < d + 8 * r.wz /\ a % 8 = 0
  BY <1>1, FieldIs
<1>3. ASSUME a \in fields(d, r.wz)
      PROVE  /\ a \in Addresses /\ a \in Nat /\ a % 8 = 0
             /\ d <= a /\ a + 8 <= d + 8 * r.wz /\ a - d \in Nat
             /\ Within(heap, hd_address(d), a)
  <2>1. a \in Nat /\ d <= a /\ a < d + 8 * r.wz /\ a % 8 = 0
    BY <1>2, <1>3
  <2>2. d >= zero_addr /\ zero_addr \in Nat /\ heap_size \in Nat
    BY <1>1, AddressFacts, Constants
  <2>3. a \in Addresses
    BY <1>1, <2>1, <2>2, AddressOf
  <2>4. a + 8 <= d + 8 * r.wz /\ a - d \in Nat
    BY <1>1, <2>1
  <2>5. Within(heap, hd_address(d), a)
    BY <1>1, <2>1 DEF Within
  <2> QED
    BY <2>1, <2>3, <2>4, <2>5
<1>4. ASSUME a \in Addresses, Within(heap, hd_address(d), a) PROVE a \in fields(d, r.wz)
  <2>1. a \in Nat /\ a % 8 = 0
    BY <1>4, AddressFacts
  <2>2. d <= a /\ a < d + 8 * r.wz
    BY <1>1, <1>4, <2>1 DEF Within
  <2> QED
    BY <1>2, <2>1, <2>2
<1> QED
  BY <1>3, <1>4

\* No two objects share a word.
LEMMA HeldApart ==
  ASSUME MajorHeap, NEW r, Shape(r), NEW d, Holds(d, r), NEW s, Shape(s), NEW e, Holds(e, s), d # e
  PROVE  /\ fields(d, r.wz) \cap fields(e, s.wz) = {}
         /\ hd_address(e) \notin fields(d, r.wz)
<1>1. hd_address(d) \in B /\ hd_address(e) \in B /\ hd_address(d) # hd_address(e)
  BY HeldBlock
<1>2. ASSUME NEW a \in fields(d, r.wz)
      PROVE  a # hd_address(e) /\ a \notin fields(e, s.wz)
  <2>1. a \in Addresses /\ Within(heap, hd_address(d), a)
    BY HeldField
  <2>2. a # hd_address(e) /\ ~Within(heap, hd_address(e), a)
    BY <1>1, <2>1, WithinOne DEF MajorHeap
  <2> QED
    BY <2>2, HeldField
<1> QED
  BY <1>2

-----------------------------------------------------------------------------
(* The walk over the major heap *)

\* The two walks over the major heap visit the same headers.
LEMMA MajorSteps ==
  ASSUME MajorHeap
  PROVE  \A i \in 0 .. HeapWords : majorPosition[i] = walkOf(heap)[i]
<1> DEFINE W == walkOf(heap)
           S == B \cup {heap_size}
           next(p) == p + (getWosize(heap[p]) + 1) * WordBytes
           step(p) == IF p + WordBytes >= heap_size THEN p ELSE next(p)
           g == [p \in S |-> step(p)]
<1>1. HeapWords \in Nat /\ heap_size \in Nat /\ zero_addr \in S
  BY MajorFacts, Constants DEF Tiled
<1>2. \A p \in B : p \in Nat /\ p + 8 < heap_size /\ step(p) = nextHeader(heap, p) /\ nextHeader(heap, p) \in S
  <2>1. ASSUME NEW p \in B
        PROVE  p \in Nat /\ p + 8 < heap_size
    <3>1. p \in Addresses /\ f_address(p) \in Addresses
      BY MajorFacts DEF HaveField
    <3>2. f_address(p) = p + 8 /\ p \in Nat /\ f_address(p) + 8 <= heap_size
      BY <3>1, AddressFacts, HeaderAddress
    <3> QED
      BY <1>1, <3>2
  <2>2. ASSUME NEW p \in B
        PROVE  step(p) = nextHeader(heap, p) /\ nextHeader(heap, p) \in S
    <3>1. p \in Nat /\ ~(p + WordBytes >= heap_size)
      BY <1>1, <2>1 DEF WordBytes
    <3>2. nextHeader(heap, p) \in S
      BY MajorFacts DEF Tiled
    <3> QED
      BY <3>1, <3>2 DEF nextHeader
  <2> QED
    BY <2>1, <2>2
<1>3. step(heap_size) = heap_size
  BY <1>1 DEF WordBytes
<1>4. g \in [S -> S]
  BY <1>2, <1>3
<1>5. \A p \in S : g[p] = step(p)
  OBVIOUS
<1> HIDE DEF g, S, next
<1>6. PICK f : Iterates(f, S, zero_addr, g, HeapWords)
  BY <1>1, <1>4, IteratesExist, Zenon
<1>7. f = [i \in 0 .. HeapWords |->
             IF i = 0 THEN zero_addr
             ELSE LET p == f[i - 1] IN IF p + WordBytes >= heap_size THEN p ELSE next(p)]
  <2>1. ASSUME NEW i \in 0 .. HeapWords, i # 0 PROVE f[i - 1] \in S
    <3>1. i - 1 \in 0 .. HeapWords
      BY <1>1, <2>1
    <3> QED
      BY <1>6, <3>1 DEF Iterates
  <2> QED
    BY <1>5, <1>6, <2>1 DEF Iterates
<1>8. majorPosition = [i \in 0 .. HeapWords |->
             IF i = 0 THEN zero_addr
             ELSE LET p == majorPosition[i - 1] IN IF p + WordBytes >= heap_size THEN p ELSE next(p)]
  BY <1>7 DEF majorPosition, next
<1>9. /\ majorPosition[0] = zero_addr
      /\ \A i \in 0 .. HeapWords - 1 :
           majorPosition[i + 1] = IF majorPosition[i] + WordBytes >= heap_size THEN majorPosition[i]
                                  ELSE next(majorPosition[i])
  <2> DEFINE F(f0) == [i \in 0 .. HeapWords |->
                IF i = 0 THEN zero_addr
                ELSE LET p == f0[i - 1] IN IF p + WordBytes >= heap_size THEN p ELSE next(p)]
  <2>1. \A f0 : /\ F(f0)[0] = zero_addr
                /\ \A i \in 0 .. HeapWords - 1 :
                     F(f0)[i + 1] = IF f0[i] + WordBytes >= heap_size THEN f0[i] ELSE next(f0[i])
    <3>1. \A i \in 0 .. HeapWords - 1 : i + 1 \in 0 .. HeapWords /\ i + 1 # 0 /\ i + 1 - 1 = i
      BY <1>1
    <3> QED
      BY <1>1, <3>1
  <2>2. majorPosition = F(majorPosition)
    BY <1>8
  <2> HIDE DEF F
  <2> QED
    BY <2>1, <2>2
<1>10. \A i \in 0 .. HeapWords - 1 : majorPosition[i + 1] = step(majorPosition[i])
  BY <1>9
<1> HIDE DEF step
<1>11. /\ W[0] = zero_addr
       /\ \A i \in 0 .. HeapWords : W[i] \in S
       /\ \A i \in 0 .. HeapWords - 1 : W[i + 1] = IF W[i] \in B THEN nextHeader(heap, W[i]) ELSE heap_size
  BY MajorFacts, WalkSteps DEF S
<1>12. 0 .. HeapWords \subseteq {i \in 0 .. HeapWords : majorPosition[i] = W[i]}
  <2> DEFINE T == {i \in 0 .. HeapWords : majorPosition[i] = W[i]}
  <2> HIDE DEF W
  <2>1. 0 \in T
    BY <1>1, <1>9, <1>11
  <2>2. ASSUME NEW i \in 0 .. HeapWords - 1, i \in T PROVE i + 1 \in T
    <3>1. i \in 0 .. HeapWords /\ i + 1 \in 0 .. HeapWords
      BY <1>1
    <3>2. majorPosition[i + 1] = step(W[i])
      BY <1>10, <2>2
    <3>3. step(W[i]) = W[i + 1]
      <4>1. W[i] \in S
        BY <1>11, <3>1
      <4> QED
        BY <1>2, <1>3, <1>11, <4>1 DEF S
    <3> QED
      BY <3>1, <3>2, <3>3
  <2> HIDE DEF T
  <2>3. 0 .. HeapWords \subseteq T
    BY <1>1, <2>1, <2>2, Induction
  <2> QED
    BY <2>3 DEF T
<1> QED
  BY <1>12

\* It meets every block.
LEMMA MajorVisitedIs ==
  ASSUME MajorHeap
  PROVE  MajorVisited = B
<1>1. /\ zero_addr \in B
      /\ \A b \in B : b \in Addresses /\ b + WordBytes < heap_size
  <2>1. zero_addr \in B
    BY MajorFacts, Constants DEF Tiled
  <2>2. ASSUME NEW p \in B
        PROVE  p \in Addresses /\ p + WordBytes < heap_size
    <3>1. p \in Addresses /\ f_address(p) \in Addresses
      BY MajorFacts DEF HaveField
    <3>2. f_address(p) = p + 8 /\ p \in Nat /\ f_address(p) + 8 <= heap_size /\ heap_size \in Nat
      BY <3>1, AddressFacts, HeaderAddress
    <3> QED
      BY <3>1, <3>2 DEF WordBytes
  <2> QED
    BY <2>1, <2>2
<1>2. \A i \in 0 .. HeapWords : majorPosition[i] = walkOf(heap)[i]
  BY MajorSteps
<1>3. \A i \in 0 .. HeapWords : walkOf(heap)[i] \in B \cup {heap_size}
  BY MajorFacts, WalkSteps
<1>4. \A b \in B : \E i \in 0 .. HeapWords : b = walkOf(heap)[i]
  BY DEF B, HeadersOf
<1>5. ~(heap_size + WordBytes < heap_size)
  BY Constants DEF WordBytes
<1>6. MajorVisited \subseteq B
  BY <1>1, <1>2, <1>3, <1>5 DEF MajorVisited
<1>7. B \subseteq MajorVisited
  BY <1>1, <1>2, <1>4 DEF MajorVisited
<1> QED
  BY <1>6, <1>7

-----------------------------------------------------------------------------
(* Allocation in the major heap *)

\* From the heap, n words at the end of a free block became the object obj; the
\* heap is k now, and the free list starts at fp.
Allocated(k, fp, obj, n) ==
  /\ obj \in Addresses /\ hd_address(obj) \in Addresses
  /\ Listed(k, B \cup {hd_address(obj)}, fp)
  /\ HeadersOf(k) = B \cup {hd_address(obj)}
  /\ nextHeader(k, hd_address(obj)) = obj + 8 * n /\ obj + 8 * n <= heap_size
  /\ \A b \in B : getColor(heap[b]) # Blue =>
       /\ b # hd_address(obj) /\ k[b] = heap[b]
       /\ \A x \in Addresses : Within(heap, b, x) =>
            k[x] = heap[x] /\ (x < hd_address(obj) \/ x >= obj + 8 * n)
  /\ \A b \in B : getColor(k[b]) # Blue => b = hd_address(obj) \/ getColor(heap[b]) # Blue

\* The block that allocate chooses.
chosen(n) == CHOOSE i \in fitting(n) : \A j \in fitting(n) : i <= j

\* allocate takes the first free block that is large enough.
LEMMA ChosenBlock ==
  ASSUME MajorHeap, NEW n \in Nat, fitting(n) # {}
  PROVE  LET i == chosen(n)
             c == chain[i]
         IN  /\ i \in 0 .. HeapWords - 1
             /\ c \in FreeIn(heap, B) /\ getWosize(heap[hd_address(c)]) >= n
             /\ chain[i + 1] = heap[c]
             /\ i = 0 => c = fp_ref
             /\ i # 0 => chain[i - 1] \in FreeIn(heap, B) /\ heap[chain[i - 1]] = c
<1> DEFINE i == chosen(n)
           F == FreeIn(heap, B)
<1>1. fitting(n) \in SUBSET Nat
  BY Constants DEF fitting
<1>2. i \in fitting(n)
  <2>1. \E j \in fitting(n) : \A m \in fitting(n) : j <= m
    BY <1>1, LeastNumber, Zenon
  <2> QED
    BY <2>1 DEF chosen
<1>3. i \in 0 .. HeapWords - 1 /\ is_valid_fp(chain[i]) /\ getWosize(heap[hd_address(chain[i])]) >= n
  BY <1>2 DEF fitting
<1>4. zero_addr \in Addresses \cup {heap_size} /\ heap_size \in Addresses \cup {heap_size}
  BY AddressFacts
<1>5. \A o \in F : o \in Addresses /\ o # zero_addr
  BY <1>4, MajorFacts, ListedFacts
<1>6. /\ chain[0] = fp_ref
      /\ \A j \in 0 .. HeapWords : chain[j] \in F \cup {0}
      /\ \A j \in 0 .. HeapWords - 1 : chain[j + 1] = IF chain[j] \in F THEN heap[chain[j]] ELSE 0
  <2>1. heap \in Words /\ F \in SUBSET Addresses /\ zero_addr \notin F /\ Descending(heap, F, fp_ref)
    BY <1>5, MajorFacts
  <2> HIDE DEF F
  <2> QED
    BY <2>1, ListSteps DEF chain
<1> HIDE DEF i, F
<1>7. i \in 0 .. HeapWords /\ chain[i] \in F
  <2>1. i \in 0 .. HeapWords
    BY <1>3, Constants
  <2> QED
    BY <1>3, <1>6, <2>1, ValidPointers
<1>8. chain[i + 1] = heap[chain[i]]
  BY <1>3, <1>6, <1>7
<1>9. i = 0 => chain[i] = fp_ref
  BY <1>6
<1>10. ASSUME i # 0 PROVE chain[i - 1] \in F /\ heap[chain[i - 1]] = chain[i]
  <2>1. i - 1 \in 0 .. HeapWords - 1 /\ i - 1 + 1 = i
    BY <1>3, <1>10, Constants
  <2>2. chain[i] = IF chain[i - 1] \in F THEN heap[chain[i - 1]] ELSE 0
    BY <1>6, <2>1
  <2>3. 0 \notin F
    BY <1>5, AddressFacts
  <2> QED
    BY <1>7, <2>2, <2>3
<1> QED
  BY <1>3, <1>7, <1>8, <1>9, <1>10 DEF i, F

\* What allocate returns.
LEMMA AllocateIs ==
  ASSUME NEW n, fitting(n) # {}
  PROVE  LET i == chosen(n)
             c == chain[i]
             hd == hd_address(c)
             left == getWosize(heap[hd]) - n
             obj == f_address(hd + left * WordBytes)
             new_fp == IF left >= 2 THEN c ELSE chain[i + 1]
             linked == IF i = 0 THEN heap ELSE [heap EXCEPT ![chain[i - 1]] = new_fp]
             split == IF left = 0 THEN linked
                      ELSE [linked EXCEPT ![hd] = makeHeader(left - 1, Blue, 0)]
         IN  /\ allocate(n).heap = [split EXCEPT ![hd_address(obj)] = makeHeader(n, White, 0)]
             /\ allocate(n).fp = IF i = 0 THEN new_fp ELSE fp_ref
             /\ allocate(n).obj = obj
BY Zenon DEF allocate, chosen

\* A heap in which the new block is filled is the old one with the request carved.
LEMMA AllocateCarves ==
  ASSUME MajorHeap, NEW n \in Nat, n >= 1, fitting(n) # {},
         NEW k \in Words,
         getWosize(k[hd_address(allocate(n).obj)]) = n,
         getColor(k[hd_address(allocate(n).obj)]) # Blue,
         \A x \in Addresses :
           x < hd_address(allocate(n).obj) \/ x >= allocate(n).obj + 8 * n =>
             k[x] = allocate(n).heap[x]
  PROVE  \E c, p, L :
           /\ Carving(heap, k, B, fp_ref, allocate(n).fp, c, p, hd_address(allocate(n).obj), n, L)
           /\ allocate(n).obj = hd_address(allocate(n).obj) + 8
<1> DEFINE i == chosen(n)
           c == chain[i]
           hd == hd_address(c)
           left == getWosize(heap[hd]) - n
           obj == f_address(hd + left * WordBytes)
           new_fp == IF left >= 2 THEN c ELSE chain[i + 1]
           linked == IF i = 0 THEN heap ELSE [heap EXCEPT ![chain[i - 1]] = new_fp]
           split == IF left = 0 THEN linked
                    ELSE [linked EXCEPT ![hd] = makeHeader(left - 1, Blue, 0)]
           p == IF i = 0 THEN 0 ELSE chain[i - 1]
           A == hd + 8 * left
<1>1. /\ allocate(n).heap = [split EXCEPT ![hd_address(obj)] = makeHeader(n, White, 0)]
      /\ allocate(n).fp = IF i = 0 THEN new_fp ELSE fp_ref
      /\ allocate(n).obj = obj
  BY AllocateIs, Zenon
<1>2. /\ i \in 0 .. HeapWords - 1
      /\ c \in FreeIn(heap, B) /\ getWosize(heap[hd]) >= n
      /\ chain[i + 1] = heap[c]
      /\ i = 0 => c = fp_ref
      /\ i # 0 => chain[i - 1] \in FreeIn(heap, B) /\ heap[chain[i - 1]] = c
  BY ChosenBlock
<1>3. zero_addr \in Addresses \cup {heap_size} /\ heap_size \in Addresses \cup {heap_size}
  BY AddressFacts
<1>4. /\ hd \in B /\ hd \in Addresses /\ hd \in Nat /\ getWosize(heap[hd]) \in Nat /\ c = hd + 8
      /\ c \in Addresses
  <2>0. heap \in Words /\ Tiled(heap, B, zero_addr, heap_size)
    BY MajorFacts
  <2>1. hd \in B /\ c = hd + 8 /\ c \in Addresses
    BY <1>2, <1>3, <2>0, ListedFacts, ZenonT(60)
  <2>2. hd \in Addresses /\ hd \in Nat
    BY <2>1, MajorFacts, AddressFacts
  <2> QED
    BY <2>1, <2>2, MajorFacts, Sizes
<1>5. left \in Nat /\ getWosize(heap[hd]) = left + n
  BY <1>2, <1>4
<1>6. obj = A + 8 /\ hd_address(obj) = A /\ A \in Nat
  <2> HIDE DEF hd, left
  <2> QED
    BY <1>4, <1>5 DEF f_address, hd_address, WordBytes
<1>7. heap \in [Addresses -> Nat]
  BY MajorFacts
<1>8. (p = 0 /\ c = fp_ref) \/ (p \in FreeIn(heap, B) /\ heap[p] = c)
  BY <1>2
<1>9. allocate(n).fp = IF p = 0 THEN (IF left >= 2 THEN c ELSE heap[c]) ELSE fp_ref
  <2>1. i # 0 => p \in Addresses /\ p # 0
    BY <1>2, <1>3, MajorFacts, ListedFacts, AddressFacts
  <2> QED
    BY <1>1, <1>2, <2>1
<1>10. ASSUME NEW x \in Addresses, x < A \/ x >= A + 8 + 8 * n
       PROVE  k[x] = IF left > 0 /\ x = hd THEN makeHeader(left - 1, Blue, 0)
                     ELSE IF x = p THEN (IF left >= 2 THEN c ELSE heap[c])
                     ELSE heap[x]
  <2>1. x \in Nat /\ x # A /\ x # 0
    BY <1>6, <1>10, AddressFacts
  <2>2. k[x] = allocate(n).heap[x]
    BY <1>1, <1>6, <1>10
  <2>3. DOMAIN linked = Addresses /\ DOMAIN split = Addresses
    BY <1>7
  <2>4. linked[x] = IF x = p THEN new_fp ELSE heap[x]
    BY <1>7, <2>1
  <2>5. split[x] = IF left # 0 /\ x = hd THEN makeHeader(left - 1, Blue, 0) ELSE linked[x]
    <3> HIDE DEF linked
    <3> QED
      BY <2>3
  <2>6. allocate(n).heap[x] = split[x]
    <3> HIDE DEF split, A
    <3> QED
      BY <1>1, <1>6, <2>1, <2>3
  <2> HIDE DEF split, linked, left, hd, c, p
  <2> QED
    BY <1>2, <1>5, <2>2, <2>4, <2>5, <2>6
<1> HIDE DEF i, c, hd, left, obj, new_fp, linked, split, p, A
<1>11. Carving(heap, k, B, fp_ref, allocate(n).fp, c, p, A, n, left)
  BY <1>1, <1>2, <1>5, <1>6, <1>8, <1>9, <1>10 DEF Carving, A, hd
<1> QED
  BY <1>1, <1>6, <1>11

\* Such a heap is well formed, and every block in use is kept.
LEMMA AllocatesSound ==
  ASSUME MajorHeap, NEW n \in Nat, n >= 1, fitting(n) # {},
         NEW k \in Words,
         getWosize(k[hd_address(allocate(n).obj)]) = n,
         getColor(k[hd_address(allocate(n).obj)]) # Blue,
         \A x \in Addresses :
           x < hd_address(allocate(n).obj) \/ x >= allocate(n).obj + 8 * n =>
             k[x] = allocate(n).heap[x]
  PROVE  Allocated(k, allocate(n).fp, allocate(n).obj, n)
<1> DEFINE obj == allocate(n).obj
           fp == allocate(n).fp
           A == hd_address(obj)
<1>1. PICK c, p, L : Carving(heap, k, B, fp_ref, fp, c, p, A, n, L) /\ obj = A + 8
  BY AllocateCarves, Zenon
<1>2. Carved(heap, k, B, fp, c, A, n, L)
  <2>1. Listed(heap, B, fp_ref)
    BY DEF MajorHeap
  <2> QED
    BY <1>1, <2>1, CarveListed, Zenon
<1> HIDE DEF obj, fp, A
<1>3. /\ Listed(k, B \cup {A}, fp) /\ A \in Addresses /\ obj \in Addresses
      /\ nextHeader(k, A) = obj + 8 * n /\ obj + 8 * n <= heap_size /\ A + 8 + 8 * n = obj + 8 * n
  BY <1>1, <1>2 DEF Carved
<1>4. HeadersOf(k) = B \cup {A}
  BY <1>3, WalkIs DEF Listed
<1>5. ASSUME NEW b \in B, getColor(heap[b]) # Blue
      PROVE  /\ b # A /\ k[b] = heap[b]
             /\ \A x \in Addresses : Within(heap, b, x) => k[x] = heap[x] /\ (x < A \/ x >= obj + 8 * n)
  <2>1. b # hd_address(c)
    BY <1>2, <1>5 DEF Carved
  <2> QED
    BY <1>2, <1>3, <1>5, <2>1 DEF Carved, Within
<1>6. ASSUME NEW b \in B, getColor(k[b]) # Blue
      PROVE  b = A \/ getColor(heap[b]) # Blue
  <2>1. CASE b = hd_address(c)
    <3>1. L \in Nat
      BY <1>1 DEF Carving
    <3>2. L = 0
      BY <1>2, <1>6, <2>1, <3>1 DEF Carved
    <3> QED
      BY <1>2, <2>1, <3>2 DEF Carved
  <2>2. CASE b # hd_address(c)
    <3>1. k[b] = heap[b]
      BY <1>2, <2>2 DEF Carved
    <3> QED
      BY <1>6, <3>1
  <2> QED
    BY <2>1, <2>2
<1> QED
  BY <1>3, <1>4, <1>5, <1>6 DEF Allocated, obj, fp, A

\* The objects of the heap are kept.
LEMMA HeldKept ==
  ASSUME MajorHeap, NEW k, NEW fp, NEW obj, NEW n, Allocated(k, fp, obj, n),
         NEW r, Shape(r), NEW d, Holds(d, r)
  PROVE  /\ d # obj /\ HoldsIn(k, d, r)
         /\ \A a \in fields(d, r.wz) : k[a] = heap[a] /\ (a < hd_address(obj) \/ a >= obj + 8 * n)
<1>1. /\ hd_address(d) \in B /\ d \in Addresses /\ getColor(heap[hd_address(d)]) = White
      /\ heap[hd_address(d)] = makeHeader(r.wz, White, r.tag)
  BY HeldBlock DEF Holds, HoldsIn
<1>2. getColor(heap[hd_address(d)]) # Blue
  BY <1>1 DEF White, Blue
<1>3. hd_address(d) # hd_address(obj) /\ k[hd_address(d)] = heap[hd_address(d)]
  BY <1>1, <1>2 DEF Allocated
<1>4. HoldsIn(k, d, r)
  BY <1>1, <1>3 DEF HoldsIn, Allocated
<1>5. \A a \in fields(d, r.wz) : a \in Addresses /\ Within(heap, hd_address(d), a)
  BY HeldField
<1>6. \A a \in fields(d, r.wz) : k[a] = heap[a] /\ (a < hd_address(obj) \/ a >= obj + 8 * n)
  BY <1>1, <1>2, <1>5 DEF Allocated
<1> QED
  BY <1>3, <1>4, <1>6

-----------------------------------------------------------------------------
(* The blocks that are in use *)

\* What the invariant says of the major heap, with the shapes of its blocks.
Major == ObjsInv /\ MajorBlocks /\ queue \in Seq(minorObjs)

\* The members of a sequence.
LEMMA SeqRange ==
  ASSUME NEW S, NEW s \in Seq(S)
  PROVE  /\ Range(s) \subseteq S
         /\ Range(s) = {s[i] : i \in 1 .. Len(s)}
         /\ \A i \in 1 .. Len(s) : s[i] \in Range(s) /\ s[i] \in S
<1>1. DOMAIN s = 1 .. Len(s) /\ \A i \in 1 .. Len(s) : s[i] \in S
  <2>1. Len(s) \in Nat /\ s \in [1 .. Len(s) -> S]
    OBVIOUS
  <2> QED
    BY <2>1
<1>2. Range(s) = {s[i] : i \in 1 .. Len(s)}
  BY <1>1, Zenon DEF Range
<1> QED
  BY <1>1, <1>2, Zenon

\* Objects of the major heap and copies have blocks of their own.
LEMMA UsedBlocks ==
  ASSUME Major
  PROVE  /\ MajorHeap
         /\ \A o \in majorObjs : Shape(objs[o]) /\ Holds(o, objs[o]) /\ o \notin minorObjs
         /\ \A o \in Range(queue) : /\ o \in minorObjs /\ Shape(objs[o]) /\ Holds(fwd_arr[o], objs[o])
                                    /\ fwd_arr[o] \in copies /\ fwd_arr[o] \notin majorObjs
<1>1. Range(queue) \subseteq minorObjs
  BY SeqRange DEF Major
<1>2. \A o \in DOMAIN objs : Shape(objs[o])
  BY DEF Major, ObjsInv
<1>3. minorObjs \subseteq DOMAIN objs /\ majorObjs \subseteq DOMAIN objs /\ majorObjs \cap minorObjs = {}
  BY DEF minorObjs, majorObjs
<1>4. MajorHeap
  BY DEF Major, MajorBlocks, MajorHeap, B
<1>5. /\ \A o \in majorObjs : Holds(o, objs[o])
      /\ \A o \in Range(queue) : Holds(fwd_arr[o], objs[o]) /\ fwd_arr[o] \notin majorObjs
  BY DEF Major, MajorBlocks
<1>6. \A o \in Range(queue) : fwd_arr[o] \in copies
  BY DEF copies
<1> QED
  BY <1>1, <1>2, <1>3, <1>4, <1>5, <1>6

\* A new block joins them.
LEMMA GrowBlocks ==
  ASSUME Major, NEW r, Shape(r), NEW k, NEW fp, NEW obj, Allocated(k, fp, obj, r.wz),
         k[hd_address(obj)] = makeHeader(r.wz, White, r.tag)
  PROVE  /\ Listed(k, HeadersOf(k), fp)
         /\ HoldsIn(k, obj, r) /\ obj \notin majorObjs /\ obj \notin copies
         /\ \A o \in majorObjs : HoldsIn(k, o, objs[o])
         /\ \A o \in Range(queue) : HoldsIn(k, fwd_arr[o], objs[o])
         /\ \A b \in HeadersOf(k) : getColor(k[b]) # Blue =>
              f_address(b) \in majorObjs \cup copies \cup {obj}
         /\ \A o \in majorObjs : \A a \in fields(o, objs[o].wz) :
              k[a] = heap[a] /\ (a < hd_address(obj) \/ a >= obj + 8 * r.wz)
         /\ \A o \in Range(queue) : \A a \in fields(fwd_arr[o], objs[o].wz) :
              k[a] = heap[a] /\ (a < hd_address(obj) \/ a >= obj + 8 * r.wz)
<1>1. HeadersOf(k) = B \cup {hd_address(obj)} /\ Listed(k, B \cup {hd_address(obj)}, fp) /\ obj \in Addresses
  BY DEF Allocated
<1>2. HoldsIn(k, obj, r)
  BY <1>1 DEF HoldsIn
<1>3. \A o \in majorObjs :
        /\ o # obj /\ HoldsIn(k, o, objs[o])
        /\ \A a \in fields(o, objs[o].wz) :
             k[a] = heap[a] /\ (a < hd_address(obj) \/ a >= obj + 8 * r.wz)
  BY UsedBlocks, HeldKept
<1>4. \A o \in Range(queue) :
        /\ fwd_arr[o] # obj /\ HoldsIn(k, fwd_arr[o], objs[o])
        /\ \A a \in fields(fwd_arr[o], objs[o].wz) :
             k[a] = heap[a] /\ (a < hd_address(obj) \/ a >= obj + 8 * r.wz)
  BY UsedBlocks, HeldKept
<1>5. obj \notin majorObjs /\ obj \notin copies
  BY <1>3, <1>4 DEF copies
<1>6. ASSUME NEW b \in HeadersOf(k), getColor(k[b]) # Blue
      PROVE  f_address(b) \in majorObjs \cup copies \cup {obj}
  <2>1. CASE b = hd_address(obj)
    BY <1>1, <2>1, HeaderAddress
  <2>2. CASE b # hd_address(obj)
    <3>1. b \in B /\ getColor(heap[b]) # Blue
      BY <1>1, <1>6, <2>2 DEF Allocated
    <3> QED
      BY <3>1 DEF Major, MajorBlocks, B
  <2> QED
    BY <2>1, <2>2
<1> QED
  BY <1>1, <1>2, <1>3, <1>4, <1>5, <1>6

\* Writes to fields keep them.
LEMMA WriteBlocks ==
  ASSUME Major, NEW k \in Words,
         \A x \in Addresses : k[x] # heap[x] =>
           \/ \E o \in majorObjs : x \in fields(o, objs[o].wz)
           \/ \E o \in Range(queue) : x \in fields(fwd_arr[o], objs[o].wz)
  PROVE  /\ Listed(k, HeadersOf(k), fp_ref) /\ HeadersOf(k) = B
         /\ \A b \in B : k[b] = heap[b]
         /\ \A d, r : Holds(d, r) => HoldsIn(k, d, r)
<1>1. ASSUME NEW x \in Addresses, k[x] # heap[x]
      PROVE  \E b \in B : getColor(heap[b]) # Blue /\ Within(heap, b, x)
  <2>1. ASSUME NEW d, NEW r, Shape(r), Holds(d, r), x \in fields(d, r.wz)
        PROVE  \E b \in B : getColor(heap[b]) # Blue /\ Within(heap, b, x)
    <3>1. Within(heap, hd_address(d), x) /\ hd_address(d) \in B /\ getColor(heap[hd_address(d)]) = White
      BY <2>1, UsedBlocks, HeldField, HeldBlock
    <3> QED
      BY <3>1 DEF White, Blue
  <2>2. CASE \E o \in majorObjs : x \in fields(o, objs[o].wz)
    BY <2>1, <2>2, UsedBlocks
  <2>3. CASE \E o \in Range(queue) : x \in fields(fwd_arr[o], objs[o].wz)
    BY <2>1, <2>3, UsedBlocks
  <2> QED
    BY <1>1, <2>2, <2>3
<1>2. /\ Listed(k, B, fp_ref) /\ HeadersOf(k) = B /\ \A b \in B : k[b] = heap[b]
  <2>1. Listed(heap, B, fp_ref)
    BY UsedBlocks DEF MajorHeap
  <2> HIDE DEF B
  <2> QED
    BY <1>1, <2>1, UsedWrites
<1>3. \A d, r : Holds(d, r) => HoldsIn(k, d, r)
  BY <1>2 DEF Holds, HoldsIn, B
<1> QED
  BY <1>2, <1>3

-----------------------------------------------------------------------------
(* Values of the program *)

\* A pointer of the program leads into the minor heap or is an address of the
\* major heap.
LEMMA PointerIs ==
  ASSUME Minor, Major, NEW v \in Pointers
  PROVE  v \in minorPointers \/ v \in Addresses
<1>1. CASE v \in DOMAIN objs
  <2>1. CASE v \in minorObjs
    BY <2>1 DEF minorPointers
  <2>2. CASE v \notin minorObjs
    <3>1. v \in majorObjs
      BY <1>1, <2>2 DEF majorObjs
    <3> QED
      BY <3>1, UsedBlocks, HeldBlock
  <2> QED
    BY <2>1, <2>2
<1>2. CASE v \notin DOMAIN objs
  <2>1. PICK o \in DOMAIN objs : v \in infixes(o)
    BY <1>2 DEF Pointers
  <2>2. CASE o \in minorObjs
    BY <2>1, <2>2 DEF minorPointers
  <2>3. CASE o \notin minorObjs
    <3>1. o \in majorObjs
      BY <2>1, <2>3 DEF majorObjs
    <3>2. Shape(objs[o]) /\ Holds(o, objs[o]) /\ MajorHeap
      BY <3>1, UsedBlocks
    <3>3. PICK i \in objs[o].infix : v = o + WordBytes * (i + 1)
      BY <2>1 DEF infixes
    <3>4. i + 1 \in 0 .. objs[o].wz - 1
      BY <3>2 DEF Shape
    <3>5. v \in fields(o, objs[o].wz)
      BY <3>3, <3>4 DEF fields
    <3> QED
      BY <3>2, <3>5, HeldField
  <2> QED
    BY <2>2, <2>3
<1> QED
  BY <1>1, <1>2

\* The other way round, what the passes take for a pointer is one of the program.
LEMMA MinorPointersKnown == minorPointers \subseteq Pointers
BY DEF minorPointers, Pointers, minorObjs

\* No pass takes a value of the program for something else.
LEMMA ValueSound ==
  ASSUME Minor, Major, NEW v \in Values \cup Immediates
  PROVE  v \in Nat /\ Sound(v)
<1>1. CASE v \in {1, 249}
  <2>1. v \in Nat /\ v % 2 = 1
    BY <1>1
  <2> QED
    BY <2>1 DEF Sound, SoundFor
<1>2. ASSUME NEW p \in Pointers, v = absolute(p)
      PROVE  v \in Nat /\ Sound(v)
  <2>1. CASE p \in minorPointers
    <3>1. is_minor(p) /\ p \in MinorAddresses /\ p \in Nat
      BY <2>1, MinorPointer
    <3>2. v = minor_base_addr + p /\ v \in Nat
      BY <1>2, <3>1, Constants DEF absolute
    <3>3. to_minor_offset(v) = p
      BY <3>1, <3>2, Offsets
    <3> QED
      BY <2>1, <3>2, <3>3 DEF Sound, SoundFor
  <2>2. CASE p \in Addresses
    <3>1. p \in Nat /\ p >= minor_heap_size
      BY <2>2, AddressFacts, Constants
    <3>2. ~is_minor(p)
      BY <3>1, Constants DEF is_minor
    <3>3. v = p
      BY <1>2, <3>2 DEF absolute
    <3> QED
      BY <2>2, <3>1, <3>3 DEF Sound, SoundFor
  <2> QED
    BY <2>1, <2>2, PointerIs
<1> QED
  BY <1>1, <1>2 DEF Values, Immediates

\* The objects the program asks for have the shape of an object.
LEMMA RequestShape ==
  ASSUME NEW r \in Requests
  PROVE  Shape(r)
BY RequestsAssumption DEF Shape

\* What a new object may hold no pass takes for something else.
LEMMA InitialField ==
  ASSUME Minor, Major, NEW r \in Requests, NEW i \in 0 .. r.wz - 1, NEW v \in initialField(r, i)
  PROVE  /\ v \in Nat
         /\ isScanned(r.tag) => Sound(v)
         /\ i \in r.infix => v = makeHeader(i + 1, White, infix_tag)
<1>1. Shape(r)
  BY RequestShape
<1>2. CASE i \in r.infix
  <2>1. v = makeHeader(i + 1, White, infix_tag) /\ i \in Nat
    BY <1>1, <1>2 DEF initialField, Shape
  <2>2. v = i * 1024 + 1273
    BY <2>1 DEF makeHeader, White, infix_tag
  <2>3. v \in Nat /\ v % 2 = 1
    BY <2>1, <2>2
  <2> QED
    BY <2>1, <2>3 DEF Sound, SoundFor
<1>3. CASE i \notin r.infix
  <2>1. CASE r.tag = Closure_tag
    <3>1. v \in Values \cup Immediates
      BY <1>3, <2>1 DEF initialField, Values
    <3> QED
      BY <1>3, <3>1, ValueSound
  <2>2. CASE r.tag # Closure_tag /\ r.tag >= no_scan_tag
    <3>1. v = minor_base_addr + 8
      BY <1>3, <2>2 DEF initialField, WordBytes
    <3>2. ~isScanned(r.tag)
      BY <1>1, <2>2 DEF isScanned, Shape, no_scan_tag
    <3> QED
      BY <1>3, <3>1, <3>2, Constants
  <2>3. CASE r.tag # Closure_tag /\ ~(r.tag >= no_scan_tag)
    <3>1. v \in Values
      BY <1>3, <2>3 DEF initialField
    <3> QED
      BY <1>3, <3>1, ValueSound
  <2> QED
    BY <2>1, <2>2, <2>3
<1> QED
  BY <1>2, <1>3

\* Each field of a new object holds what it may.
LEMMA InitialFields ==
  ASSUME NEW r \in Requests, NEW f \in initialFields(r)
  PROVE  \A i \in 0 .. r.wz - 1 : f[i] \in initialField(r, i)
BY DEF initialFields

\* The heap h with the fields f of the object o.
LEMMA FilledIs ==
  ASSUME NEW h, NEW o \in Nat, o % 8 = 0, NEW wz \in Nat, NEW f, NEW a \in DOMAIN h
  PROVE  /\ DOMAIN filled(h, o, wz, f) = DOMAIN h
         /\ a \notin fields(o, wz) => filled(h, o, wz, f)[a] = h[a]
         /\ a \in fields(o, wz) => \E i \in 0 .. wz - 1 : a = o + 8 * i /\ filled(h, o, wz, f)[a] = f[i]
<1>1. a \in fields(o, wz) => (a - o) \div 8 \in 0 .. wz - 1 /\ a = o + 8 * ((a - o) \div 8)
  BY FieldIs
<1>2. filled(h, o, wz, f)[a] = IF a \in fields(o, wz) THEN f[(a - o) \div 8] ELSE h[a]
  BY DEF filled, WordBytes
<1>3. DOMAIN filled(h, o, wz, f) = DOMAIN h
  BY DEF filled
<1> QED
  BY <1>1, <1>2, <1>3

-----------------------------------------------------------------------------
(* The initial state *)

\* The first major heap is three blocks, the second one in use.
LEMMA InitHeap ==
  ASSUME Init
  PROVE  LET d == f_address(oldHeader)
         IN  /\ Listed(heap, HeadersOf(heap), fp_ref)
             /\ HoldsIn(heap, d, [wz |-> OldWz, tag |-> 0, infix |-> {}])
             /\ \A b \in HeadersOf(heap) : getColor(heap[b]) # Blue => f_address(b) = d
             /\ \A a \in fields(d, OldWz) : heap[a] = 1
             /\ d \in Addresses /\ d >= minor_heap_size
<1> DEFINE z == zero_addr
           y == oldHeader
           x == highHeader
           H == {z, y, x}
<1>1. /\ z \in Nat /\ z % 8 = 0 /\ LowWz \in Nat /\ OldWz \in Nat /\ LowWz >= 1 /\ OldWz >= 1
      /\ y = z + 8 * (LowWz + 1) /\ x = y + 8 * (OldWz + 1) /\ heap_size = z + 8 * HeapWords
      /\ HeapWords \in Nat /\ HeapWords > LowWz + OldWz + 3
      /\ HighWz = HeapWords - (LowWz + OldWz + 3) /\ minor_heap_size <= z /\ z > 0
  BY SizesAssumption, Constants, HeapAssumption DEF oldHeader, highHeader, HighWz, heap_size, WordBytes
<1>2. /\ y \in Nat /\ x \in Nat /\ z < y /\ y < x /\ y >= z + 16 /\ x >= y + 16 /\ x + 16 <= heap_size
      /\ y % 8 = 0 /\ x % 8 = 0 /\ (z + 8) % 8 = 0 /\ (y + 8) % 8 = 0 /\ (x + 8) % 8 = 0
      /\ HighWz \in Nat /\ HighWz >= 1 /\ x + 8 + 8 * HighWz = heap_size
  BY <1>1
<1>3. f_address(z) = z + 8 /\ f_address(y) = y + 8 /\ f_address(x) = x + 8
  BY DEF f_address, WordBytes
<1>4. heap_size \in Nat
  BY Constants
<1> HIDE DEF z, y, x
<1>5. z \in Addresses /\ y \in Addresses /\ x \in Addresses
      /\ z + 8 \in Addresses /\ y + 8 \in Addresses /\ x + 8 \in Addresses
  <2>1. zero_addr = z
    BY DEF z
  <2> QED
    BY <1>1, <1>2, <1>4, <2>1, AddressOf
<1>6. \A a \in fields(y + 8, OldWz) : a \in Nat /\ a >= y + 8 /\ a < x
  <2>1. y + 8 \in Nat
    BY <1>2
  <2>2. \A a \in fields(y + 8, OldWz) : a \in Nat /\ y + 8 <= a /\ a < y + 8 + 8 * OldWz
    BY <1>1, <1>2, <2>1, FieldIs
  <2> QED
    BY <1>1, <1>2, <2>2
<1>7. heap = [a \in Addresses |->
              CASE a = z -> makeHeader(LowWz, Blue, 0)
                [] a = y -> makeHeader(OldWz, White, 0)
                [] a = x -> makeHeader(HighWz, Blue, 0)
                [] a = x + 8 -> z + 8
                [] a \in fields(y + 8, OldWz) -> 1
                [] OTHER -> 0]
  <2>1. heap = [a \in Addresses |->
              CASE a = z -> makeHeader(LowWz, Blue, 0)
                [] a = y -> makeHeader(OldWz, White, 0)
                [] a = x -> makeHeader(HighWz, Blue, 0)
                [] a = f_address(x) -> f_address(z)
                [] a \in fields(f_address(y), OldWz) -> 1
                [] OTHER -> 0]
    BY Zenon DEF Init, z, y, x
  <2> QED
    BY <1>3, <2>1
<1>8. /\ heap[z] = makeHeader(LowWz, Blue, 0) /\ heap[y] = makeHeader(OldWz, White, 0)
      /\ heap[x] = makeHeader(HighWz, Blue, 0) /\ heap[x + 8] = z + 8
      /\ heap[z + 8] = 0
  BY <1>1, <1>2, <1>5, <1>6, <1>7
<1>9. ASSUME NEW a \in Addresses
      PROVE  /\ heap[a] \in {heap[z], heap[y], heap[x], z + 8, 1, 0}
             /\ a \in fields(y + 8, OldWz) => heap[a] = 1
  <2>1. a \in Nat
    BY AddressFacts
  <2> QED
    BY <1>2, <1>6, <1>7, <1>8, <2>1
<1>10. \A w \in Nat : /\ makeHeader(w, Blue, 0) \in Nat /\ getWosize(makeHeader(w, Blue, 0)) = w
                      /\ getColor(makeHeader(w, Blue, 0)) = Blue
                      /\ makeHeader(w, White, 0) \in Nat /\ getWosize(makeHeader(w, White, 0)) = w
                      /\ getColor(makeHeader(w, White, 0)) = White
  <2>1. Blue \in 0 .. 3 /\ White \in 0 .. 3 /\ 0 \in 0 .. 255
    BY DEF Blue, White
  <2> QED
    BY <2>1, HeaderParts, ZenonT(60)
<1>11. heap \in Words
  <2>1. \A a \in Addresses : heap[a] \in Nat
    BY <1>1, <1>2, <1>8, <1>9, <1>10
  <2>2. heap = [a \in Addresses |-> heap[a]]
    BY <1>7
  <2> QED
    BY <2>1, <2>2 DEF Words
<1>12. /\ getWosize(heap[z]) = LowWz /\ getWosize(heap[y]) = OldWz /\ getWosize(heap[x]) = HighWz
       /\ getColor(heap[z]) = Blue /\ getColor(heap[y]) = White /\ getColor(heap[x]) = Blue
  BY <1>1, <1>2, <1>8, <1>10
<1>13. nextHeader(heap, z) = y /\ nextHeader(heap, y) = x /\ nextHeader(heap, x) = heap_size
  BY <1>1, <1>2, <1>12 DEF nextHeader, WordBytes
<1>14. Tiled(heap, H, zero_addr, heap_size)
  <2>1. zero_addr = z
    BY DEF z
  <2> QED
    BY <1>1, <1>2, <1>4, <1>5, <1>13, <2>1 DEF Tiled
<1>15. HeadersOf(heap) = H
  BY <1>11, <1>14, WalkIs
<1>16. FreeIn(heap, H) = {z + 8, x + 8}
  <2>1. White # Blue
    BY DEF White, Blue
  <2>2. {b \in H : getColor(heap[b]) = Blue /\ getWosize(heap[b]) >= 1} = {z, x}
    BY <1>1, <1>2, <1>12, <2>1
  <2> QED
    BY <1>3, <2>2 DEF FreeIn
<1>17. Descending(heap, FreeIn(heap, H), fp_ref)
  <2>1. fp_ref = x + 8
    BY <1>3, Zenon DEF Init, x
  <2> QED
    <3>1. /\ heap[x + 8] = z + 8 /\ heap[z + 8] = 0 /\ z + 8 < x + 8 /\ 0 < z + 8
          /\ z + 8 \in Nat /\ x + 8 \in Nat
      BY <1>1, <1>2, <1>8
    <3> DEFINE u == x + 8
               v == z + 8
    <3>2. /\ heap[u] = v /\ heap[v] = 0 /\ v < u /\ 0 < v /\ v \in Nat /\ u \in Nat
          /\ FreeIn(heap, H) = {v, u} /\ fp_ref = u
      BY <1>16, <2>1, <3>1
    <3> HIDE DEF u, v
    <3>3. Descending(heap, {v, u}, u)
      BY <3>2 DEF Descending
    <3> QED
      BY <3>2, <3>3
<1>18. HaveField(H)
  BY <1>3, <1>5 DEF HaveField
<1>19. Listed(heap, HeadersOf(heap), fp_ref)
  <2>1. H \in SUBSET Addresses
    BY <1>5
  <2> HIDE DEF H
  <2> QED
    BY <1>11, <1>14, <1>15, <1>17, <1>18, <2>1 DEF Listed
<1>20. HoldsIn(heap, y + 8, [wz |-> OldWz, tag |-> 0, infix |-> {}])
  <2>1. hd_address(y + 8) = y
    BY <1>2 DEF hd_address, WordBytes
  <2> QED
    BY <1>5, <1>8, <1>15, <2>1 DEF HoldsIn
<1>21. \A b \in HeadersOf(heap) : getColor(heap[b]) # Blue => f_address(b) = y + 8
  BY <1>3, <1>12, <1>15
<1>22. y + 8 >= minor_heap_size
  BY <1>1, <1>2, Constants
<1>23. ASSUME NEW a \in fields(y + 8, OldWz) PROVE heap[a] = 1
  <2>1. a \in Nat /\ a >= y + 8 /\ a < x /\ a % 8 = 0
    BY <1>1, <1>2, <1>6, FieldIs
  <2>2. zero_addr = z
    BY DEF z
  <2>3. a \in Addresses
    BY <1>1, <1>2, <1>4, <2>1, <2>2, AddressOf
  <2> QED
    BY <1>9, <2>3
<1>24. f_address(oldHeader) = y + 8
  BY <1>3 DEF y
<1> QED
  BY <1>5, <1>19, <1>20, <1>21, <1>22, <1>23, <1>24

\* A word that is odd is nobody's pointer.
LEMMA OddSound ==
  ASSUME NEW v \in Nat, v % 2 = 1
  PROVE  Sound(v) /\ ~is_minor(to_minor_offset(v))
BY Offsets DEF Sound, SoundFor

\* The invariant holds at the start.
LEMMA InitInv ==
  ASSUME Init
  PROVE  IInv
<1> DEFINE d == f_address(oldHeader)
           r == [wz |-> OldWz, tag |-> 0, infix |-> {}]
<1>1. /\ Listed(heap, HeadersOf(heap), fp_ref)
      /\ HoldsIn(heap, d, r)
      /\ \A b \in HeadersOf(heap) : getColor(heap[b]) # Blue => f_address(b) = d
      /\ \A a \in fields(d, OldWz) : heap[a] = 1
      /\ d \in Addresses /\ d >= minor_heap_size
  BY InitHeap
<1>2. d \in Nat
  BY <1>1, AddressFacts
<1>3. objs = [o \in {d} |-> r] /\ data = [a \in MinorAddresses |-> 0] /\ bump = 0
      /\ slots = <<>> /\ roots = <<>> /\ queue = <<>> /\ scan = 1 /\ idx = 1 /\ oom = FALSE
      /\ fwd_arr = [a \in MinorAddresses |-> 0] /\ legacy = FALSE /\ pc = "mutator"
  BY DEF Init
<1> HIDE DEF d, r
<1>4. DOMAIN objs = {d} /\ objs[d] = r
  BY <1>3
<1>5. minorObjs = {} /\ majorObjs = {d}
  BY <1>1, <1>2, <1>4, Constants DEF minorObjs, majorObjs
<1>6. r.wz = OldWz /\ r.tag = 0 /\ Shape(r)
  <2>1. OldWz \in Nat \ {0}
    BY SizesAssumption
  <2> QED
    BY <2>1 DEF r, Shape, infix_tag
<1>7. ObjsInv
  BY <1>2, <1>4, <1>6 DEF ObjsInv
<1>8. 0 \in MinorAddresses
  BY MinorAddress, Constants
<1>9. MinorInv
  BY <1>3, <1>5, <1>8 DEF MinorInv, MinorTiled, MinorFields
<1>10. Range(queue) = {} /\ Range(slots) = {} /\ Range(roots) = {}
       /\ Len(queue) = 0 /\ Len(roots) = 0
  BY <1>3 DEF Range
<1>11. MajorBlocks
  BY <1>1, <1>4, <1>5, <1>10 DEF MajorBlocks, Holds
<1>12. majorFields = fields(d, OldWz)
  <2>1. isScanned(objs[d].tag) /\ objs[d].wz = OldWz
    BY <1>4, <1>6 DEF isScanned, no_scan_tag
  <2> QED
    BY <1>5, <2>1 DEF majorFields
<1>13. Remembered
  <2>1. \A a \in majorFields : Sound(heap[a]) /\ ~is_minor(to_minor_offset(heap[a]))
    <3>1. \A a \in majorFields : heap[a] = 1
      BY <1>1, <1>12
    <3>2. Sound(1) /\ ~is_minor(to_minor_offset(1))
      <4>1. 1 \in Nat /\ 1 % 2 = 1
        OBVIOUS
      <4> QED
        BY <4>1, OddSound
    <3> QED
      BY <3>1, <3>2
  <2>2. slots \in Seq(Addresses)
    BY <1>3
  <2> QED
    BY <1>3, <1>10, <2>1, <2>2 DEF Remembered
<1>14. Forwarded
  BY <1>3, <1>5 DEF Forwarded
<1>15. CopyWords
  BY <1>10 DEF CopyWords
<1>16. Roots
  BY <1>3, <1>10, Constants DEF Roots
<1>17. Progress
  BY <1>3, <1>10 DEF Progress
<1>18. Control
  BY <1>3 DEF Control
<1> QED
  BY <1>7, <1>9, <1>11, <1>13, <1>14, <1>15, <1>16, <1>17, <1>18 DEF IInv

-----------------------------------------------------------------------------
(* What a step leaves alone *)

\* What depends on the program's objects alone.
LEMMA ObjsFrame ==
  ASSUME objs' = objs
  PROVE  /\ minorObjs' = minorObjs /\ majorObjs' = majorObjs /\ Pointers' = Pointers
         /\ minorPointers' = minorPointers /\ majorFields' = majorFields
         /\ \A v : Sound(v)' <=> Sound(v)
         /\ ObjsInv' <=> ObjsInv
BY DEF minorObjs, majorObjs, Pointers, minorPointers, majorFields, Sound, SoundFor, ObjsInv, infixes

\* What depends on the minor heap alone.
LEMMA MinorFrame ==
  ASSUME UNCHANGED <<minorHeap, objs>>
  PROVE  /\ MinorTiled' <=> MinorTiled
         /\ MinorFields' <=> MinorFields
         /\ Minor' <=> Minor
<1>1. /\ minorObjs' = minorObjs /\ minorPointers' = minorPointers
      /\ \A v : Sound(v)' <=> Sound(v)
      /\ ObjsInv' <=> ObjsInv
      /\ data' = data /\ bump' = bump /\ objs' = objs
  BY ObjsFrame DEF minorHeap
<1>2. MinorTiled' <=> MinorTiled
  BY <1>1 DEF MinorTiled, endOf
<1>3. MinorFields' <=> MinorFields
  BY <1>1 DEF MinorFields
<1> QED
  BY <1>1, <1>2, <1>3 DEF Minor

\* A step that changes neither the heap, the objects nor the copies.
LEMMA BlocksFrame ==
  ASSUME MajorBlocks, UNCHANGED <<majorHeap, objs, queue>>,
         \A o \in Range(queue) : fwd_arr'[o] = fwd_arr[o]
  PROVE  MajorBlocks' /\ copies' = copies
<1>1. /\ heap' = heap /\ fp_ref' = fp_ref /\ objs' = objs /\ queue' = queue
      /\ majorObjs' = majorObjs
  BY ObjsFrame DEF majorHeap
<1>2. copies' = copies
  BY <1>1 DEF copies
<1> QED
  BY <1>1, <1>2 DEF MajorBlocks, Holds

\* The parts of the invariant that hold of every state.
LEMMA Parts ==
  ASSUME IInv
  PROVE  /\ ObjsInv /\ Major /\ MajorHeap
         /\ pc # "done" => Minor
         /\ Remembered /\ Forwarded /\ CopyWords /\ Roots /\ Progress /\ Control /\ MajorBlocks /\ MinorInv
<1>1. Major
  BY DEF IInv, Major, Forwarded
<1>2. pc # "done" => Minor
  BY DEF IInv, MinorInv, Minor
<1> QED
  BY <1>1, <1>2, UsedBlocks DEF IInv

-----------------------------------------------------------------------------
(* Allocation by the program *)

\* The object o joins those of the program.
LEMMA ObjectJoins ==
  ASSUME Minor, Major, NEW r, Shape(r), NEW o \in Nat, o \notin DOMAIN objs,
         objs' = withObject(o, r)
  PROVE  /\ DOMAIN objs' = DOMAIN objs \cup {o} /\ objs'[o] = r
         /\ \A p \in DOMAIN objs : objs'[p] = objs[p]
         /\ ObjsInv'
         /\ minorObjs' = IF o < minor_heap_size THEN minorObjs \cup {o} ELSE minorObjs
         /\ majorObjs' = IF o < minor_heap_size THEN majorObjs ELSE majorObjs \cup {o}
         /\ minorPointers \subseteq minorPointers'
         /\ \A v : Sound(v) => Sound(v)'
         /\ o >= minor_heap_size => minorPointers' = minorPointers /\ \A v : Sound(v)' <=> Sound(v)
<1>1. /\ DOMAIN objs' = DOMAIN objs \cup {o} /\ objs'[o] = r
      /\ \A p \in DOMAIN objs : objs'[p] = objs[p]
  BY DEF withObject
<1>2. ObjsInv'
  <2>1. DOMAIN objs' \subseteq Nat
    BY <1>1 DEF Minor, ObjsInv
  <2>2. ASSUME NEW p \in DOMAIN objs' PROVE Shape(objs'[p])
    BY <1>1 DEF Minor, ObjsInv
  <2> QED
    BY <2>1, <2>2 DEF ObjsInv, Shape
<1>3. /\ minorObjs' = IF o < minor_heap_size THEN minorObjs \cup {o} ELSE minorObjs
      /\ majorObjs' = IF o < minor_heap_size THEN majorObjs ELSE majorObjs \cup {o}
  BY <1>1 DEF minorObjs, majorObjs
<1>4. \A p \in DOMAIN objs : infixes(p)' = infixes(p)
  BY <1>1 DEF infixes
<1>5. minorObjs \subseteq DOMAIN objs
  BY DEF minorObjs
<1>6. minorPointers \subseteq minorPointers'
  BY <1>3, <1>4, <1>5 DEF minorPointers
<1>7. o >= minor_heap_size => minorPointers' = minorPointers
  <2>1. o >= minor_heap_size => minorObjs' = minorObjs
    BY <1>3, Constants
  <2> QED
    BY <1>4, <1>5, <2>1 DEF minorPointers
<1> QED
  BY <1>1, <1>2, <1>3, <1>6, <1>7 DEF Sound, SoundFor

\* minor_alloc extends the row of objects.
LEMMA MinorAllocMinor ==
  ASSUME Minor, Major, NEW r \in Requests, minor_alloc(r)
  PROVE  /\ Minor' /\ f_address(bump) \in Nat /\ f_address(bump) < minor_heap_size
         /\ f_address(bump) \notin DOMAIN objs /\ objs' = withObject(f_address(bump), r)
<1>0. PICK o : o = f_address(bump)
  OBVIOUS
<1>1. Shape(r) /\ r.wz \in Nat /\ r.wz >= 1
  BY RequestShape DEF Shape
<1>2. PICK f \in initialFields(r) :
        data' = filled([data EXCEPT ![bump] = minor_header(r)], o, r.wz, f)
  BY <1>0 DEF minor_alloc
<1>3. bump \in Nat /\ bump % 8 = 0 /\ bump <= minor_heap_size /\ minor_heap_size \in Nat
      /\ minor_heap_size % 8 = 0
  BY MinorAddress, Constants DEF Minor, MinorTiled
<1>4. bump + 8 + 8 * r.wz <= minor_heap_size /\ bump' = bump + 8 + 8 * r.wz
  BY <1>1, <1>3 DEF minor_alloc, minor_fits, WordBytes
<1>5. o = bump + 8 /\ o \in Nat /\ o % 8 = 0 /\ o < minor_heap_size /\ hd_address(o) = bump
      /\ bump < minor_heap_size
  <2>1. o = bump + 8
    BY <1>0 DEF f_address, WordBytes
  <2> QED
    BY <1>1, <1>3, <1>4, <2>1 DEF hd_address, WordBytes
<1>6. objs' = withObject(o, r)
  BY <1>0 DEF minor_alloc
<1>7. \A p \in minorObjs : p \in Nat /\ endOf(p) \in Nat /\ p < endOf(p) /\ endOf(p) <= bump
  BY MinorObject
<1>8. o \notin DOMAIN objs
  <2>1. o \notin minorObjs
    BY <1>3, <1>5, <1>7
  <2> QED
    BY <1>5, <2>1 DEF minorObjs
<1>9. /\ DOMAIN objs' = DOMAIN objs \cup {o} /\ objs'[o] = r
      /\ \A p \in DOMAIN objs : objs'[p] = objs[p]
      /\ ObjsInv' /\ minorObjs' = minorObjs \cup {o}
      /\ \A v : Sound(v) => SoundFor(v, minorPointers')
  BY <1>1, <1>5, <1>6, <1>8, ObjectJoins DEF Sound
<1>10. \A p \in minorObjs : objs'[p] = objs[p] /\ endOf(p)' = endOf(p)
  BY <1>9 DEF minorObjs, endOf
<1>11. endOf(o)' = bump'
  BY <1>4, <1>5, <1>9 DEF endOf, WordBytes
<1>12. bump \in MinorAddresses /\ o \in MinorAddresses
  BY <1>3, <1>5, MinorAddress
<1>13. data \in [MinorAddresses -> Nat]
  BY DEF Minor, MinorFields
<1> DEFINE g == [data EXCEPT ![bump] = minor_header(r)]
<1>14. DOMAIN g = MinorAddresses /\ g[bump] = minor_header(r)
       /\ \A a \in MinorAddresses : a # bump => g[a] = data[a]
  BY <1>12, <1>13
<1>15. data' = filled(g, o, r.wz, f)
  BY <1>2
<1> HIDE DEF g
<1>16. ASSUME NEW a \in MinorAddresses
       PROVE  /\ a \notin fields(o, r.wz) => data'[a] = g[a]
              /\ a \in fields(o, r.wz) => \E i \in 0 .. r.wz - 1 : a = o + 8 * i /\ data'[a] = f[i]
  <2>1. a \in DOMAIN g
    BY <1>14
  <2>2. o \in Nat /\ o % 8 = 0 /\ r.wz \in Nat
    BY <1>1, <1>5
  <2>3. /\ a \notin fields(o, r.wz) => filled(g, o, r.wz, f)[a] = g[a]
        /\ a \in fields(o, r.wz) =>
             \E i \in 0 .. r.wz - 1 : a = o + 8 * i /\ filled(g, o, r.wz, f)[a] = f[i]
    BY <2>1, <2>2, FilledIs, SMTT(40)
  <2> QED
    BY <1>15, <2>3, ZenonT(60)
<1>17. DOMAIN data' = MinorAddresses
  BY <1>14, <1>15 DEF filled
<1>18. \A a \in fields(o, r.wz) : a \in Nat /\ a >= o /\ a \in MinorAddresses
  <2>1. ASSUME NEW a \in fields(o, r.wz) PROVE a \in Nat /\ a >= o /\ a < o + 8 * r.wz /\ a % 8 = 0
    BY <1>1, <1>5, FieldIs
  <2>2. o + 8 * r.wz <= minor_heap_size /\ o + 8 * r.wz \in Nat
    BY <1>1, <1>3, <1>4, <1>5
  <2>3. ASSUME NEW a \in fields(o, r.wz) PROVE a < minor_heap_size
    BY <1>3, <1>5, <2>1, <2>2
  <2> QED
    BY <2>1, <2>3, MinorAddress
<1>19. \A a \in MinorAddresses : a < bump => data'[a] = data[a]
  <2>1. \A a \in MinorAddresses : a \in Nat
    BY MinorAddress
  <2> QED
    BY <1>3, <1>5, <1>14, <1>16, <1>18, <2>1
<1>20. data'[bump] = minor_header(r) /\ minor_header(r) \in Nat
  <2>1. bump \notin fields(o, r.wz)
    BY <1>3, <1>5, <1>18
  <2>2. minor_header(r) \in Nat
    BY <1>1 DEF minor_header, makeHeader, Shape
  <2> QED
    BY <1>12, <1>14, <1>16, <2>1, <2>2
<1>21. ASSUME NEW i \in 0 .. r.wz - 1, NEW a, a = o + 8 * i, data'[a] = f[i]
       PROVE  /\ data'[a] \in Nat
              /\ isScanned(r.tag) => Sound(data'[a])
              /\ i \in r.infix => data'[a] = makeHeader(i + 1, White, infix_tag)
  <2>1. f[i] \in initialField(r, i)
    BY InitialFields
  <2> QED
    BY <1>21, <2>1, InitialField
<1>22. data' \in [MinorAddresses -> Nat]
  <2>1. ASSUME NEW a \in MinorAddresses PROVE data'[a] \in Nat
    <3>1. CASE a \in fields(o, r.wz)
      BY <1>16, <1>21, <3>1
    <3>2. CASE a \notin fields(o, r.wz)
      BY <1>13, <1>14, <1>16, <1>20, <3>2
    <3> QED
      BY <3>1, <3>2
  <2>2. data' = [a \in MinorAddresses |-> data'[a]]
    BY <1>15, <1>17 DEF filled
  <2> QED
    BY <2>1, <2>2
<1>23. MinorTiled'
  <2>1. bump' \in MinorAddresses \cup {minor_heap_size}
    <3>1. bump' \in Nat /\ bump' <= minor_heap_size /\ bump' % 8 = 0
      BY <1>1, <1>3, <1>4
    <3>2. bump' < minor_heap_size => bump' \in MinorAddresses
      BY <3>1, MinorAddress
    <3> QED
      BY <1>3, <3>1, <3>2
  <2>2. WordBytes \in minorObjs'
    <3>1. CASE bump = 0
      BY <1>5, <1>9, <3>1 DEF WordBytes
    <3>2. CASE bump # 0
      BY <1>9, <3>2 DEF Minor, MinorTiled
    <3> QED
      BY <3>1, <3>2
  <2>3. ASSUME NEW p \in minorObjs
        PROVE  /\ p \in MinorAddresses /\ hd_address(p) \in MinorAddresses
               /\ data'[hd_address(p)] = minor_header(objs'[p])
               /\ endOf(p)' <= bump'
               /\ endOf(p)' = bump' \/ endOf(p)' + WordBytes \in minorObjs'
    <3>1. /\ p \in MinorAddresses /\ hd_address(p) \in MinorAddresses
          /\ data[hd_address(p)] = minor_header(objs[p])
          /\ endOf(p) = bump \/ endOf(p) + WordBytes \in minorObjs
      BY DEF Minor, MinorTiled
    <3>2. hd_address(p) < bump
      BY TileStep
    <3>3. endOf(p) <= bump'
      BY <1>1, <1>3, <1>4, <1>7
    <3>4. endOf(p) + WordBytes \in minorObjs'
      BY <1>5, <1>9, <3>1 DEF WordBytes
    <3> QED
      BY <1>10, <1>19, <3>1, <3>2, <3>3, <3>4
  <2>4. ASSUME NEW p \in minorObjs', NEW q \in minorObjs', p < q
        PROVE  endOf(p)' + WordBytes <= q
    <3>1. CASE p \in minorObjs /\ q \in minorObjs
      BY <1>10, <2>4, <3>1 DEF Minor, MinorTiled
    <3>2. CASE p \in minorObjs /\ q = o
      BY <1>3, <1>5, <1>7, <1>10, <3>2 DEF WordBytes
    <3>3. CASE p = o
      BY <1>3, <1>5, <1>7, <1>9, <2>4, <3>3
    <3> QED
      BY <1>9, <3>1, <3>2, <3>3
  <2>5. /\ o \in MinorAddresses /\ hd_address(o) \in MinorAddresses
        /\ data'[hd_address(o)] = minor_header(objs'[o])
        /\ endOf(o)' <= bump' /\ endOf(o)' = bump'
    <3>1. bump' \in Nat
      BY <1>1, <1>3, <1>4
    <3> QED
      BY <1>5, <1>9, <1>11, <1>12, <1>20, <3>1
  <2>6. \A p \in minorObjs' :
          /\ p \in MinorAddresses /\ hd_address(p) \in MinorAddresses
          /\ data'[hd_address(p)] = minor_header(objs'[p])
          /\ endOf(p)' <= bump'
          /\ endOf(p)' = bump' \/ endOf(p)' + WordBytes \in minorObjs'
    BY <1>9, <2>3, <2>5
  <2> QED
    BY <2>1, <2>2, <2>4, <2>6 DEF MinorTiled
<1>24. MinorFields'
  <2>1. ASSUME NEW p \in minorObjs
        PROVE  /\ isScanned(objs'[p].tag) => \A a \in fields(p, objs'[p].wz) : SoundFor(data'[a], minorPointers')
               /\ \A i \in objs'[p].infix : data'[p + WordBytes * i] = makeHeader(i + 1, White, infix_tag)
    <3>1. \A a \in fields(p, objs[p].wz) : a \in MinorAddresses /\ a < bump
      BY MinorField
    <3>2. \A a \in fields(p, objs[p].wz) : data'[a] = data[a]
      BY <1>19, <3>1
    <3>3. \A i \in objs[p].infix : p + WordBytes * i \in fields(p, objs[p].wz)
      <4>1. Shape(objs[p])
        BY MinorObject
      <4>2. \A i \in objs[p].infix : i \in 0 .. objs[p].wz - 1
        BY <4>1 DEF Shape
      <4> QED
        BY <4>2 DEF fields
    <3> QED
      BY <1>9, <1>10, <3>2, <3>3 DEF Minor, MinorFields
  <2>2. isScanned(r.tag) => \A a \in fields(o, r.wz) : SoundFor(data'[a], minorPointers')
    BY <1>9, <1>16, <1>18, <1>21
  <2>3. ASSUME NEW i \in r.infix PROVE data'[o + WordBytes * i] = makeHeader(i + 1, White, infix_tag)
    <3>1. i \in 0 .. r.wz - 1 /\ o + WordBytes * i = o + 8 * i
      BY <1>1 DEF Shape, WordBytes
    <3>2. o + 8 * i \in fields(o, r.wz)
      BY <3>1 DEF fields
    <3>3. PICK j \in 0 .. r.wz - 1 : o + 8 * i = o + 8 * j /\ data'[o + 8 * i] = f[j]
      BY <1>16, <1>18, <3>2
    <3>4. i = j
      BY <1>5, <3>1, <3>3
    <3> QED
      BY <1>21, <3>1, <3>3, <3>4
  <2> QED
    BY <1>9, <1>22, <2>1, <2>2, <2>3 DEF MinorFields, Sound
<1> QED
  BY <1>0, <1>5, <1>6, <1>8, <1>9, <1>23, <1>24 DEF Minor

PointersInside ==
  /\ minorObjs \subseteq MinorAddresses
  /\ \A o \in minorObjs : infixes(o) \subseteq MinorAddresses

\* Objects and infix headers are at addresses of the minor heap.
LEMMA PointerPlaces == Minor => PointersInside
<1> SUFFICES ASSUME Minor PROVE PointersInside
  OBVIOUS
<1>1. minorObjs \subseteq MinorAddresses
  BY MinorObject
<1>2. \A o \in minorObjs : infixes(o) \subseteq MinorAddresses
  BY MinorInfix
<1> QED
  BY <1>1, <1>2 DEF PointersInside

\* The same after a step.
LEMMA PointerPlacesNext ==
  Minor' => /\ minorObjs' \subseteq MinorAddresses
            /\ \A o \in minorObjs' : infixes(o)' \subseteq MinorAddresses
<1>1. Minor' => PointersInside'
  BY PointerPlaces, PTL
<1> QED
  BY <1>1 DEF PointersInside

\* Outside a collection nothing is known of one.
LEMMA IdleInv ==
  ASSUME IInv, pc = "mutator", UNCHANGED <<tracing, legacy, pc>>, Minor'
  PROVE  /\ Forwarded' /\ CopyWords' /\ Roots' /\ Progress' /\ Control'
         /\ Range(queue)' = {} /\ Range(queue) = {} /\ copies' = {} /\ copies = {}
<1>1. /\ queue = <<>> /\ scan = 1 /\ idx = 1 /\ roots = <<>> /\ ~oom /\ legacy = FALSE
      /\ fwd_arr = [a \in MinorAddresses |-> 0]
  BY DEF IInv, Control
<1>2. /\ queue' = <<>> /\ scan' = 1 /\ idx' = 1 /\ roots' = <<>> /\ ~oom' /\ legacy' = FALSE
      /\ fwd_arr' = [a \in MinorAddresses |-> 0] /\ pc' = "mutator" /\ oom' \in BOOLEAN
  BY <1>1 DEF tracing, IInv, Control
<1>3. Range(queue) = {} /\ Range(queue)' = {} /\ Range(roots') = {} /\ Len(roots') = 0 /\ Len(queue') = 0
  BY <1>1, <1>2 DEF Range
<1>4. copies = {} /\ copies' = {}
  BY <1>3 DEF copies
<1>5. Forwarded'
  <2>1. \A a \in MinorAddresses : fwd_arr'[a] = 0
    BY <1>2
  <2>2. fwd_arr' \in [MinorAddresses -> Addresses \cup {0, heap_size}] /\ queue' \in Seq(minorObjs')
    BY <1>2
  <2> QED
    BY <1>3, <2>1, <2>2, PointerPlacesNext DEF Forwarded
<1>6. CopyWords'
  BY <1>3 DEF CopyWords
<1>7. Roots'
  BY <1>2, <1>3, Constants DEF Roots
<1>8. Progress'
  BY <1>2, <1>3 DEF Progress
<1>9. Control'
  BY <1>2 DEF Control
<1> QED
  BY <1>3, <1>4, <1>5, <1>6, <1>7, <1>8, <1>9

\* minor_alloc keeps the invariant.
LEMMA MinorAllocInv ==
  ASSUME IInv, pc = "mutator", NEW r \in Requests, minor_alloc(r), UNCHANGED <<tracing, legacy, pc>>
  PROVE  IInv'
<1>1. Minor /\ Major
  BY Parts
<1>2. PICK o : o = f_address(bump)
  OBVIOUS
<1>3. Minor' /\ o \in Nat /\ o < minor_heap_size /\ o \notin DOMAIN objs /\ objs' = withObject(o, r)
  BY <1>1, <1>2, MinorAllocMinor
<1>4. /\ \A p \in DOMAIN objs : objs'[p] = objs[p]
      /\ ObjsInv' /\ majorObjs' = majorObjs
      /\ \A v : Sound(v) => Sound(v)'
  BY <1>1, <1>3, RequestShape, ObjectJoins
<1>5. \A p \in majorObjs : objs'[p] = objs[p]
  BY <1>4 DEF majorObjs
<1>6. heap' = heap /\ fp_ref' = fp_ref /\ slots' = slots
  BY DEF minor_alloc, majorHeap
<1>7. Range(queue)' = {} /\ Range(queue) = {} /\ copies' = {} /\ copies = {}
  BY <1>3, IdleInv
<1>8. MajorBlocks'
  BY <1>1, <1>4, <1>5, <1>6, <1>7 DEF Major, MajorBlocks, Holds
<1>9. majorFields' = majorFields
  BY <1>4, <1>5 DEF majorFields
<1>10. Remembered'
  BY <1>4, <1>6, <1>9, Parts DEF Remembered
<1>11. MinorInv'
  BY <1>3 DEF Minor, MinorInv
<1> QED
  BY <1>3, <1>4, <1>8, <1>10, <1>11, IdleInv DEF IInv

\* allocate leaves a heap of words, and a white header on the new block.
LEMMA AllocateType ==
  ASSUME MajorHeap, NEW n \in Nat, n >= 1, fitting(n) # {}
  PROVE  /\ allocate(n).heap \in Words
         /\ allocate(n).obj \in Nat /\ allocate(n).obj = hd_address(allocate(n).obj) + 8
         /\ hd_address(allocate(n).obj) \in Addresses
         /\ allocate(n).heap[hd_address(allocate(n).obj)] = makeHeader(n, White, 0)
<1> DEFINE i == chosen(n)
           c == chain[i]
           hd == hd_address(c)
           left == getWosize(heap[hd]) - n
           obj == f_address(hd + left * WordBytes)
           new_fp == IF left >= 2 THEN c ELSE chain[i + 1]
           linked == IF i = 0 THEN heap ELSE [heap EXCEPT ![chain[i - 1]] = new_fp]
           split == IF left = 0 THEN linked
                    ELSE [linked EXCEPT ![hd] = makeHeader(left - 1, Blue, 0)]
           A == hd + 8 * left
<1>1. /\ allocate(n).heap = [split EXCEPT ![hd_address(obj)] = makeHeader(n, White, 0)]
      /\ allocate(n).obj = obj
  BY AllocateIs, Zenon
<1>2. c \in FreeIn(heap, B) /\ getWosize(heap[hd]) >= n /\ chain[i + 1] = heap[c]
  BY ChosenBlock
<1>3. zero_addr \in Addresses \cup {heap_size} /\ heap_size \in Addresses \cup {heap_size}
  BY AddressFacts
<1>4. /\ hd \in B /\ hd \in Addresses /\ hd \in Nat /\ getWosize(heap[hd]) \in Nat /\ c = hd + 8
      /\ c \in Addresses /\ nextHeader(heap, hd) = hd + 8 + 8 * getWosize(heap[hd])
      /\ nextHeader(heap, hd) <= heap_size /\ hd >= zero_addr
  <2>0. heap \in Words /\ Tiled(heap, B, zero_addr, heap_size)
    BY MajorFacts
  <2>1. hd \in B /\ c = hd + 8 /\ c \in Addresses
    BY <1>2, <1>3, <2>0, ListedFacts, ZenonT(60)
  <2>2. hd \in Addresses /\ hd \in Nat /\ hd >= zero_addr
    BY <2>1, MajorFacts, AddressFacts
  <2>3. nextHeader(heap, hd) <= heap_size
    BY <1>3, <2>1, MajorFacts, TileBounds
  <2> QED
    BY <2>1, <2>2, <2>3, MajorFacts, Sizes
<1>5. left \in Nat /\ getWosize(heap[hd]) = left + n
  BY <1>2, <1>4
<1>6. obj = A + 8 /\ hd_address(obj) = A /\ A \in Nat
  <2> HIDE DEF hd, left
  <2> QED
    BY <1>4, <1>5 DEF f_address, hd_address, WordBytes
<1>7. heap \in [Addresses -> Nat]
  BY MajorFacts
<1>8. new_fp \in Nat
  BY <1>2, <1>4, <1>7, AddressFacts
<1>9. linked \in [Addresses -> Nat]
  BY <1>7, <1>8
<1>10. left # 0 => makeHeader(left - 1, Blue, 0) \in Nat
  <2> HIDE DEF left
  <2> QED
    BY <1>5 DEF makeHeader, Blue
<1>11. split \in [Addresses -> Nat]
  <2> HIDE DEF linked, left
  <2> QED
    BY <1>9, <1>10
<1>12. makeHeader(n, White, 0) \in Nat
  BY DEF makeHeader, White
<1>13. A \in Addresses
  <2>1. zero_addr \in Nat /\ heap_size \in Nat
    BY Constants
  <2> HIDE DEF hd, left
  <2>2. hd + 8 * left >= zero_addr /\ hd + 8 * left < heap_size
    BY <1>4, <1>5, <2>1
  <2> QED
    BY <1>4, <1>5, <2>2, Shifted
<1> HIDE DEF split, A, obj
<1>14. allocate(n).heap \in [Addresses -> Nat] /\ allocate(n).heap[A] = makeHeader(n, White, 0)
  BY <1>1, <1>6, <1>11, <1>12, <1>13
<1> QED
  BY <1>1, <1>6, <1>13, <1>14 DEF Words

\* It gives no object exactly when no block is large enough.
LEMMA AllocateFails ==
  ASSUME MajorHeap, NEW n \in Nat, n >= 1
  PROVE  allocate(n).obj = 0 <=> fitting(n) = {}
<1>1. fitting(n) = {} => allocate(n).obj = 0
  BY DEF allocate
<1>2. ASSUME fitting(n) # {} PROVE allocate(n).obj # 0
  <2>1. allocate(n).obj = hd_address(allocate(n).obj) + 8 /\ hd_address(allocate(n).obj) \in Addresses
    BY <1>2, AllocateType
  <2>2. hd_address(allocate(n).obj) \in Nat
    BY <2>1, AddressFacts
  <2> QED
    BY <2>1, <2>2
<1> QED
  BY <1>1, <1>2

\* What an allocation in the major heap makes of it.
LEMMA MajorAllocHeap ==
  ASSUME Minor, Major, NEW r \in Requests, major_alloc(r)
  PROVE  \E obj \in Addresses :
           /\ Allocated(heap', fp_ref', obj, r.wz)
           /\ heap'[hd_address(obj)] = makeHeader(r.wz, White, r.tag)
           /\ objs' = withObject(obj, r)
           /\ \A a \in fields(obj, r.wz) : isScanned(r.tag) => Sound(heap'[a])
           /\ slots' = slots \o ascending({a \in fields(obj, r.wz) :
                r.tag < no_scan_tag /\ is_minor(to_minor_offset(heap'[a]))})
<1> DEFINE n == r.wz
           res == allocate(n)
           obj == res.obj
           A == hd_address(obj)
<1>1. Shape(r) /\ n \in Nat /\ n >= 1 /\ r.tag \in 0 .. 255
  BY RequestShape DEF Shape
<1>2. MajorHeap
  BY UsedBlocks
<1>3. fitting(n) # {}
  <2>1. obj # 0
    BY DEF major_alloc
  <2> QED
    BY <1>1, <1>2, <2>1, AllocateFails
<1>4. /\ res.heap \in Words /\ obj \in Nat /\ obj = A + 8 /\ A \in Addresses
      /\ res.heap[A] = makeHeader(n, White, 0)
  BY <1>1, <1>2, <1>3, AllocateType
<1>5. A \in Nat /\ A % 8 = 0 /\ obj % 8 = 0
  <2> HIDE DEF A, obj
  <2>1. A \in Nat /\ A % 8 = 0
    BY <1>4, AddressFacts
  <2> QED
    BY <1>4, <2>1
<1>6. PICK f \in initialFields(r) :
        /\ heap' = filled([res.heap EXCEPT ![A] = @ + r.tag], obj, n, f)
        /\ slots' = slots \o ascending({a \in fields(obj, n) :
             r.tag < no_scan_tag /\ is_minor(to_minor_offset(heap'[a]))})
  BY DEF major_alloc
<1>7. fp_ref' = res.fp /\ objs' = withObject(obj, r)
  BY DEF major_alloc
<1> DEFINE g == [res.heap EXCEPT ![A] = @ + r.tag]
<1> HIDE DEF obj, A, res
<1>8. makeHeader(n, White, 0) + r.tag = makeHeader(n, White, r.tag)
  <2>1. r.tag \in Nat
    BY <1>1
  <2> QED
    BY <1>1, <2>1 DEF makeHeader, White
<1>9. /\ DOMAIN g = Addresses /\ g[A] = makeHeader(n, White, r.tag)
      /\ \A a \in Addresses : a # A => g[a] = res.heap[a]
  BY <1>4, <1>8 DEF Words
<1>10. heap' = filled(g, obj, n, f)
  BY <1>6
<1> HIDE DEF g, n
<1>11. ASSUME NEW a \in Addresses
       PROVE  /\ a \notin fields(obj, n) => heap'[a] = g[a]
              /\ a \in fields(obj, n) => \E i \in 0 .. n - 1 : a = obj + 8 * i /\ heap'[a] = f[i]
  <2>1. a \in DOMAIN g
    BY <1>9
  <2> QED
    BY <1>1, <1>4, <1>5, <1>10, <2>1, FilledIs
<1>12. DOMAIN heap' = Addresses
  BY <1>9, <1>10 DEF filled
<1>13. \A a \in fields(obj, n) : a \in Nat /\ a >= A + 8 /\ a < A + 8 + 8 * n
  <2>1. \A a \in fields(obj, n) : a \in Nat /\ a >= obj /\ a < obj + 8 * n
    BY <1>1, <1>4, <1>5, FieldIs
  <2> QED
    BY <1>4, <2>1
<1>14. ASSUME NEW i \in 0 .. n - 1, NEW a, heap'[a] = f[i]
       PROVE  heap'[a] \in Nat /\ (isScanned(r.tag) => Sound(heap'[a]))
  <2>1. f[i] \in initialField(r, i)
    BY InitialFields DEF n
  <2> QED
    BY <1>14, <2>1, InitialField DEF n
<1>15. heap'[A] = makeHeader(n, White, r.tag)
  <2>1. A \notin fields(obj, n)
    BY <1>5, <1>13
  <2> QED
    BY <1>4, <1>9, <1>11, <2>1
<1>16. /\ makeHeader(n, White, r.tag) \in Nat /\ getWosize(makeHeader(n, White, r.tag)) = n
       /\ getColor(makeHeader(n, White, r.tag)) # Blue
  <2> DEFINE t == r.tag
  <2>1. t \in 0 .. 255
    BY <1>1
  <2> HIDE DEF t
  <2>2. /\ makeHeader(n, White, t) \in Nat /\ getWosize(makeHeader(n, White, t)) = n
        /\ getColor(makeHeader(n, White, t)) = White
    BY <1>1, <2>1, WhiteHeader, Zenon
  <2>3. White # Blue
    BY DEF White, Blue
  <2> QED
    BY <2>2, <2>3 DEF t
<1>17. heap' \in Words
  <2>1. ASSUME NEW a \in Addresses PROVE heap'[a] \in Nat
    <3>1. CASE a \in fields(obj, n)
      BY <1>11, <1>14, <3>1
    <3>2. CASE a \notin fields(obj, n)
      BY <1>4, <1>9, <1>11, <1>16, <3>2 DEF Words
    <3> QED
      BY <3>1, <3>2
  <2>2. heap' = [a \in Addresses |-> heap'[a]]
    BY <1>10, <1>12 DEF filled
  <2> QED
    BY <2>1, <2>2 DEF Words
<1>18. \A x \in Addresses : x < A \/ x >= obj + 8 * n => heap'[x] = res.heap[x]
  <2>1. ASSUME NEW x \in Addresses, x < A \/ x >= obj + 8 * n
        PROVE  x # A /\ x \notin fields(obj, n)
    <3>1. x \in Nat
      BY AddressFacts
    <3> QED
      BY <1>1, <1>4, <1>5, <1>13, <2>1, <3>1
  <2> QED
    BY <1>9, <1>11, <2>1
<1>19. Allocated(heap', fp_ref', obj, n)
  BY <1>1, <1>2, <1>3, <1>7, <1>15, <1>16, <1>17, <1>18, AllocatesSound DEF A, obj, res
<1>20. \A a \in fields(obj, n) : isScanned(r.tag) => Sound(heap'[a])
  <2>1. \A a \in fields(obj, n) : a \in Addresses
    <3>1. obj + 8 * n <= heap_size /\ heap_size \in Nat /\ zero_addr \in Nat
      BY <1>19, Constants DEF Allocated
    <3>2. A >= zero_addr
      BY <1>4, AddressFacts
    <3>3. ASSUME NEW a \in fields(obj, n) PROVE a \in Addresses
      <4>1. a \in Nat /\ a >= A + 8 /\ a < A + 8 + 8 * n /\ a % 8 = 0
        BY <1>1, <1>4, <1>5, <1>13, FieldIs
      <4>2. a >= zero_addr /\ a < heap_size
        BY <1>1, <1>4, <1>5, <3>1, <3>2, <4>1
      <4> QED
        BY <4>1, <4>2, AddressOf
    <3> QED
      BY <3>3
  <2> QED
    BY <1>11, <1>14, <2>1
<1>21. obj \in Addresses
  BY <1>19 DEF Allocated
<1> QED
  BY <1>6, <1>7, <1>15, <1>19, <1>20, <1>21 DEF n, A

\* The order in which a loop meets a set of places.
LEMMA AscendingPlaces ==
  ASSUME NEW lo \in Nat, NEW hi \in Nat, NEW A, \A a \in A : a \in lo .. hi
  PROVE  ascending(A) \in Seq(A) /\ Range(ascending(A)) = A
<1>1. A \in SUBSET (lo .. hi) /\ A \in SUBSET Nat
  OBVIOUS
<1>2. IsFiniteSet(lo .. hi)
  BY FS_Interval
<1>3. IsFiniteSet(A)
  BY <1>1, <1>2, FS_Subset, Zenon
<1> QED
  BY <1>1, <1>3, Ascending

\* An allocation in the major heap keeps the invariant.
LEMMA MajorAllocInv ==
  ASSUME IInv, pc = "mutator", NEW r \in Requests, major_alloc(r), UNCHANGED <<tracing, legacy, pc>>
  PROVE  IInv'
<1>1. Minor /\ Major /\ Shape(r) /\ r.wz \in Nat /\ MajorHeap
  BY Parts, RequestShape DEF Shape
<1>2. PICK obj \in Addresses :
        /\ Allocated(heap', fp_ref', obj, r.wz)
        /\ heap'[hd_address(obj)] = makeHeader(r.wz, White, r.tag)
        /\ objs' = withObject(obj, r)
        /\ \A a \in fields(obj, r.wz) : isScanned(r.tag) => Sound(heap'[a])
        /\ slots' = slots \o ascending({a \in fields(obj, r.wz) :
             r.tag < no_scan_tag /\ is_minor(to_minor_offset(heap'[a]))})
  BY <1>1, MajorAllocHeap
<1>3. obj \in Nat /\ obj >= minor_heap_size /\ obj % 8 = 0 /\ ~(obj < minor_heap_size)
  BY AddressFacts, Constants
<1>4. /\ Listed(heap', HeadersOf(heap'), fp_ref')
      /\ HoldsIn(heap', obj, r) /\ obj \notin majorObjs
      /\ \A o \in majorObjs : HoldsIn(heap', o, objs[o])
      /\ \A b \in HeadersOf(heap') : getColor(heap'[b]) # Blue =>
           f_address(b) \in majorObjs \cup copies \cup {obj}
      /\ \A o \in majorObjs : \A a \in fields(o, objs[o].wz) : heap'[a] = heap[a]
  BY <1>1, <1>2, GrowBlocks
<1>5. obj \notin DOMAIN objs
  BY <1>3, <1>4 DEF majorObjs, minorObjs
<1>6. /\ DOMAIN objs' = DOMAIN objs \cup {obj} /\ objs'[obj] = r
      /\ \A p \in DOMAIN objs : objs'[p] = objs[p]
      /\ ObjsInv' /\ minorObjs' = minorObjs /\ majorObjs' = majorObjs \cup {obj}
      /\ minorPointers' = minorPointers /\ \A v : Sound(v)' <=> Sound(v)
  BY <1>1, <1>2, <1>3, <1>5, ObjectJoins
<1>7. /\ \A p \in minorObjs : objs'[p] = objs[p]
      /\ \A p \in majorObjs : objs'[p] = objs[p]
  BY <1>6 DEF majorObjs, minorObjs
<1>8. Minor' /\ MinorInv'
  <2>1. data' = data /\ bump' = bump
    BY DEF major_alloc, minorHeap
  <2>2. MinorTiled'
    BY <1>1, <1>6, <1>7, <2>1 DEF Minor, MinorTiled, endOf
  <2>3. MinorFields'
    BY <1>1, <1>6, <1>7, <2>1 DEF Minor, MinorFields, Sound
  <2> QED
    BY <1>6, <2>2, <2>3 DEF Minor, MinorInv
<1>9. Range(queue)' = {} /\ Range(queue) = {} /\ copies' = {} /\ copies = {}
  BY <1>8, IdleInv
<1>10. MajorBlocks'
  <2>1. \A o \in majorObjs' : HoldsIn(heap', o, objs'[o])
    BY <1>4, <1>6, <1>7
  <2> QED
    BY <1>4, <1>6, <1>9, <2>1 DEF MajorBlocks, Holds
<1> DEFINE R == {a \in fields(obj, r.wz) :
                   r.tag < no_scan_tag /\ is_minor(to_minor_offset(heap'[a]))}
<1>11. fields(obj, r.wz) \subseteq Addresses
  <2>1. \A a \in fields(obj, r.wz) : a \in Nat /\ obj <= a /\ a < obj + 8 * r.wz /\ a % 8 = 0
    BY <1>1, <1>3, FieldIs
  <2>2. obj + 8 * r.wz <= heap_size /\ heap_size \in Nat /\ zero_addr \in Nat /\ obj >= zero_addr
    BY <1>2, Constants, AddressFacts DEF Allocated
  <2>3. ASSUME NEW a \in fields(obj, r.wz) PROVE a \in Addresses
    <3>1. a \in Nat /\ a >= zero_addr /\ a < heap_size /\ a % 8 = 0
      BY <1>1, <1>3, <2>1, <2>2
    <3> QED
      BY <3>1, AddressOf
  <2> QED
    BY <2>3
<1>12. ascending(R) \in Seq(Addresses) /\ Range(ascending(R)) = R
  <2>0. \A a \in Addresses : a \in 0 .. heap_size
    BY AddressFacts, Constants
  <2>1. \A a \in R : a \in 0 .. heap_size /\ a \in Addresses
    BY <1>11, <2>0
  <2> HIDE DEF R
  <2>2. ascending(R) \in Seq(R) /\ Range(ascending(R)) = R
    <3>1. 0 \in Nat /\ heap_size \in Nat
      BY Constants
    <3> QED
      BY <2>1, <3>1, AscendingPlaces
  <2>3. R \subseteq Addresses
    BY <2>1
  <2> QED
    BY <2>2, <2>3
<1>13. slots' = slots \o ascending(R)
  BY <1>2
<1>14. slots \in Seq(Addresses) /\ Range(slots) \subseteq majorFields
       /\ \A a \in majorFields :
            Sound(heap[a]) /\ (is_minor(to_minor_offset(heap[a])) => a \in Range(slots))
  BY Parts DEF Remembered
<1>15. slots' \in Seq(Addresses) /\ Range(slots') = Range(slots) \cup R
  <2> HIDE DEF R
  <2>1. Range(slots \o ascending(R)) = Range(slots) \cup Range(ascending(R))
    BY <1>12, <1>14, RangeConcatenation, ZenonT(60)
  <2> QED
    BY <1>12, <1>13, <1>14, <2>1
<1>16. \A a : a \in majorFields' <=> a \in majorFields \/ (isScanned(r.tag) /\ a \in fields(obj, r.wz))
  BY <1>6, <1>7, Zenon DEF majorFields
<1>17. \A a \in majorFields : heap'[a] = heap[a]
  BY <1>4 DEF majorFields
<1>18. \A a \in R : a \in majorFields'
  BY <1>16 DEF isScanned
<1>19. ASSUME NEW a \in majorFields'
       PROVE  /\ SoundFor(heap'[a], minorPointers')
              /\ is_minor(to_minor_offset(heap'[a])) => a \in Range(slots')
  <2>1. CASE a \in majorFields
    BY <1>6, <1>14, <1>15, <1>17, <2>1 DEF Sound
  <2>2. CASE isScanned(r.tag) /\ a \in fields(obj, r.wz)
    <3>1. Sound(heap'[a])
      BY <1>2, <2>2
    <3>2. is_minor(to_minor_offset(heap'[a])) => a \in R
      BY <2>2 DEF isScanned
    <3> QED
      BY <1>6, <1>15, <3>1, <3>2 DEF Sound
  <2> QED
    BY <1>16, <2>1, <2>2
<1>20. Remembered'
  <2>1. pc' = "mutator"
    OBVIOUS
  <2>2. Range(slots') \subseteq majorFields'
    BY <1>14, <1>15, <1>16, <1>18
  <2> QED
    BY <1>15, <1>19, <2>1, <2>2 DEF Remembered, Sound
<1> QED
  BY <1>6, <1>8, <1>10, <1>20, IdleInv DEF IInv

\* A field is overwritten.
LEMMA StoreInv ==
  ASSUME IInv, Store
  PROVE  IInv'
<1>1. Minor /\ Major /\ MajorHeap /\ pc = "mutator" /\ UNCHANGED <<tracing, legacy, pc>>
      /\ UNCHANGED <<minorHeap, objs>> /\ fp_ref' = fp_ref
  BY Parts DEF Store
<1>0. PICK o \in {m \in majorObjs : objs[m].tag < Closure_tag} :
        \E a \in fields(o, objs[o].wz), v \in Values :
          /\ heap' = [heap EXCEPT ![a] = v]
          /\ slots' = IF is_minor(to_minor_offset(v)) /\ ~is_minor(to_minor_offset(heap[a]))
                      THEN Append(slots, a) ELSE slots
  BY Zenon DEF Store
<1>2. PICK a \in fields(o, objs[o].wz), v \in Values :
        /\ o \in majorObjs /\ objs[o].tag < Closure_tag
        /\ heap' = [heap EXCEPT ![a] = v]
        /\ slots' = IF is_minor(to_minor_offset(v)) /\ ~is_minor(to_minor_offset(heap[a]))
                    THEN Append(slots, a) ELSE slots
  <2>1. o \in majorObjs /\ objs[o].tag < Closure_tag
    OBVIOUS
  <2> QED
    BY <1>0, <2>1, Zenon
<1>3. Shape(objs[o]) /\ Holds(o, objs[o]) /\ a \in Addresses
  BY <1>1, <1>2, UsedBlocks, HeldField
<1>4. v \in Nat /\ Sound(v)
  BY <1>1, ValueSound
<1>5. heap \in [Addresses -> Nat]
  BY <1>1, MajorFacts
<1>6. heap' \in Words /\ heap'[a] = v /\ \A x \in Addresses : x # a => heap'[x] = heap[x]
  BY <1>2, <1>3, <1>4, <1>5 DEF Words
<1>7. /\ Listed(heap', HeadersOf(heap'), fp_ref) /\ HeadersOf(heap') = B
      /\ \A b \in B : heap'[b] = heap[b]
      /\ \A d, r : Holds(d, r) => HoldsIn(heap', d, r)
  <2>1. \A x \in Addresses : heap'[x] # heap[x] =>
           \/ \E p \in majorObjs : x \in fields(p, objs[p].wz)
           \/ \E p \in Range(queue) : x \in fields(fwd_arr[p], objs[p].wz)
    BY <1>2, <1>6
  <2> QED
    BY <1>1, <1>6, <2>1, WriteBlocks
<1>8. /\ minorObjs' = minorObjs /\ majorObjs' = majorObjs /\ minorPointers' = minorPointers
      /\ majorFields' = majorFields /\ objs' = objs /\ ObjsInv'
  BY <1>1, ObjsFrame DEF Minor
<1>9. Minor' /\ MinorInv'
  <2>1. Minor' /\ MinorTiled' /\ MinorFields'
    BY <1>1, MinorFrame DEF Minor
  <2> QED
    BY <1>1, <2>1 DEF MinorInv
<1>10. Range(queue)' = {} /\ Range(queue) = {} /\ copies' = {} /\ copies = {}
  BY <1>1, <1>9, IdleInv
<1>11. MajorBlocks'
  BY <1>1, <1>7, <1>8, <1>10 DEF Major, MajorBlocks, Holds, B
<1>12. a \in majorFields
  <2>1. isScanned(objs[o].tag)
    <3>1. objs[o].tag \in Nat
      BY <1>3 DEF Shape
    <3> QED
      BY <1>2, <3>1 DEF isScanned, Closure_tag, no_scan_tag
  <2> QED
    BY <1>2, <2>1 DEF majorFields
<1>13. slots \in Seq(Addresses) /\ Range(slots) \subseteq majorFields
       /\ \A x \in majorFields :
            Sound(heap[x]) /\ (is_minor(to_minor_offset(heap[x])) => x \in Range(slots))
  BY <1>1, Parts DEF Remembered
<1>14. \A x \in majorFields : x \in Addresses
  BY <1>1, UsedBlocks, HeldField DEF majorFields
<1>15. /\ slots' \in Seq(Addresses) /\ Range(slots) \subseteq Range(slots')
       /\ Range(slots') \subseteq Range(slots) \cup {a}
       /\ is_minor(to_minor_offset(v)) /\ ~is_minor(to_minor_offset(heap[a])) => a \in Range(slots')
  <2>1. CASE is_minor(to_minor_offset(v)) /\ ~is_minor(to_minor_offset(heap[a]))
    <3>1. slots' = Append(slots, a)
      BY <1>2, <2>1
    <3>2. slots' = slots \o <<a>> /\ <<a>> \in Seq(Addresses)
      BY <1>3, <1>13, <3>1, AppendIsConcat
    <3>3. Range(slots') = Range(slots) \cup Range(<<a>>)
      BY <1>13, <3>2, RangeConcatenation, ZenonT(60)
    <3>4. Range(<<a>>) = {a}
      BY DEF Range
    <3> QED
      BY <1>3, <1>13, <3>1, <3>3, <3>4
  <2>2. CASE ~(is_minor(to_minor_offset(v)) /\ ~is_minor(to_minor_offset(heap[a])))
    BY <1>2, <1>13, <2>2
  <2> QED
    BY <2>1, <2>2
<1>16. ASSUME NEW x \in majorFields
       PROVE  /\ Sound(heap'[x])
              /\ is_minor(to_minor_offset(heap'[x])) => x \in Range(slots')
  <2>1. CASE x = a
    BY <1>4, <1>6, <1>13, <1>15, <2>1
  <2>2. CASE x # a
    BY <1>6, <1>13, <1>14, <1>15, <2>2
  <2> QED
    BY <2>1, <2>2
<1>17. Remembered'
  <2>1. pc' = "mutator"
    BY <1>1
  <2>2. Range(slots') \subseteq majorFields'
    BY <1>8, <1>12, <1>13, <1>15
  <2>3. \A x \in majorFields' :
          SoundFor(heap'[x], minorPointers') /\ (is_minor(to_minor_offset(heap'[x])) => x \in Range(slots'))
    BY <1>8, <1>16 DEF Sound
  <2> QED
    BY <1>15, <2>1, <2>2, <2>3 DEF Remembered, Sound
<1>18. Forwarded' /\ CopyWords' /\ Roots' /\ Progress' /\ Control'
  BY <1>1, <1>9, IdleInv
<1> QED
  BY <1>8, <1>9, <1>11, <1>17, <1>18 DEF IInv

\* gen_alloc keeps the invariant.
LEMMA GenAllocInv ==
  ASSUME IInv, gen_alloc
  PROVE  IInv'
<1>1. PICK r \in Requests : minor_alloc(r) \/ major_alloc(r)
  BY DEF gen_alloc
<1>2. pc = "mutator" /\ UNCHANGED <<tracing, legacy, pc>>
  BY DEF gen_alloc
<1> QED
  BY <1>1, <1>2, MinorAllocInv, MajorAllocInv

-----------------------------------------------------------------------------
(* The start of a collection *)

\* The forwarding addresses and the copies in a step that leaves them alone.
LEMMA ForwardedFrame ==
  ASSUME Forwarded, UNCHANGED <<fwd_arr, queue, objs>>,
         \/ UNCHANGED <<legacy, pc>>
         \/ \A v \in MinorAddresses : fwd_arr[v] # 0 => v \in minorPointers
  PROVE  Forwarded'
<1>1. /\ fwd_arr' = fwd_arr /\ queue' = queue /\ objs' = objs
      /\ minorObjs' = minorObjs /\ minorPointers' = minorPointers
  BY ObjsFrame
<1>2. \A o : infixes(o)' = infixes(o)
  BY <1>1 DEF infixes
<1>3. (~legacy' \/ pc' \notin {"update", "rewrite", "reset", "done"}) =>
        \A v \in MinorAddresses : fwd_arr[v] # 0 => v \in minorPointers
  BY DEF Forwarded
<1> QED
  BY <1>1, <1>2, <1>3 DEF Forwarded

\* Gathering the roots keeps the invariant.
LEMMA CollectInv ==
  ASSUME IInv, Collect
  PROVE  IInv'
<1>1. Minor /\ Major /\ pc = "mutator" /\ MajorBlocks
  BY Parts DEF Collect
<1>2. /\ UNCHANGED <<minorHeap, objs>> /\ UNCHANGED <<majorHeap, objs, queue>> /\ UNCHANGED slots
      /\ UNCHANGED <<fwd_arr, queue, objs>> /\ UNCHANGED <<scan, idx, oom>>
      /\ Len(roots') <= RootCap /\ legacy' \in BOOLEAN
      /\ pc' = IF legacy' THEN "parents" ELSE "roots"
  BY DEF Collect
<1>3. /\ queue = <<>> /\ scan = 1 /\ idx = 1 /\ roots = <<>> /\ ~oom /\ ~legacy /\ oom \in BOOLEAN
      /\ fwd_arr = [a \in MinorAddresses |-> 0]
  BY <1>1, Parts DEF Control
<1>4. /\ minorObjs' = minorObjs /\ majorObjs' = majorObjs /\ minorPointers' = minorPointers
      /\ majorFields' = majorFields /\ Pointers' = Pointers /\ objs' = objs /\ ObjsInv'
      /\ \A v : Sound(v)' <=> Sound(v)
  BY <1>1, <1>2, ObjsFrame DEF Minor
<1>5. MinorInv'
  BY <1>1, <1>2, MinorFrame DEF Minor, MinorInv
<1>6. MajorBlocks'
  BY <1>1, <1>2, BlocksFrame
<1>7. \A v \in MinorAddresses : fwd_arr[v] = 0
  BY <1>3
<1>8. Forwarded'
  BY <1>2, <1>7, ForwardedFrame, Parts
<1>9. Range(queue') = {} /\ Len(queue') = 0
  BY <1>2, <1>3 DEF Range
<1>10. CopyWords'
  BY <1>9 DEF CopyWords
<1>11. slots \in Seq(Addresses) /\ Range(slots) \subseteq majorFields
       /\ \A a \in majorFields :
            Sound(heap[a]) /\ (is_minor(to_minor_offset(heap[a])) => a \in Range(slots))
  BY <1>1, Parts DEF Remembered
<1> DEFINE K == {i \in DOMAIN slots : is_minor(remembered(i))}
           kept == ascending(K)
           R == [k \in DOMAIN kept |-> remembered(kept[k])]
<1>12. DOMAIN slots = 1 .. Len(slots) /\ Len(slots) \in Nat
  BY <1>11
<1>13. kept \in Seq(K) /\ Range(kept) = K
  <2>1. \A i \in K : i \in 1 .. Len(slots)
    BY <1>12
  <2> HIDE DEF K
  <2> QED
    BY <1>12, <2>1, AscendingPlaces
<1>14. \A i \in K : remembered(i) \in minorPointers
  <2>1. \A i \in K : slots[i] \in majorFields
    BY <1>11, <1>12, SeqRange
  <2>2. \A i \in K : Sound(heap[slots[i]])
    BY <1>11, <2>1
  <2> QED
    BY <2>2, SoundPointer DEF remembered
<1>15. DOMAIN kept = 1 .. Len(kept) /\ Len(kept) \in Nat /\ \A k \in DOMAIN kept : kept[k] \in K
  <2> HIDE DEF kept, K
  <2> QED
    BY <1>13
<1>16. R \in Seq(minorPointers) /\ Range(R) = {remembered(i) : i \in K}
  <2>1. \A k \in DOMAIN kept : remembered(kept[k]) \in minorPointers
    BY <1>14, <1>15
  <2>2. K = {kept[k] : k \in DOMAIN kept}
    BY <1>13, Zenon DEF Range
  <2> HIDE DEF kept, K
  <2>3. R \in Seq(minorPointers)
    BY <1>15, <2>1
  <2>4. Range(R) = {remembered(kept[k]) : k \in DOMAIN kept}
    BY Zenon DEF Range
  <2> QED
    BY <2>2, <2>3, <2>4
<1>17. PICK p \in Pointers : roots' = <<p>> \o R
  BY Zenon DEF Collect
<1>18. Pointers \subseteq Nat /\ minorPointers \subseteq Pointers
  <2>1. \A v \in Pointers : v \in minorPointers \/ v \in Addresses
    BY <1>1, PointerIs
  <2> QED
    BY <1>1, <2>1, MinorPointer, MinorPointersKnown, AddressFacts
<1>19. roots' \in Seq(Nat) /\ Range(roots') = {p} \cup Range(R)
  <2> HIDE DEF R
  <2>1. p \in Nat /\ minorPointers \subseteq Nat
    BY <1>18
  <2>2. <<p>> \in Seq(Nat)
    BY <2>1
  <2>3. R \in Seq(Nat)
    BY <1>16, <2>1, SeqMonotonic
  <2>4. Range(<<p>>) = {p}
    BY DEF Range
  <2>5. Range(<<p>> \o R) = Range(<<p>>) \cup Range(R)
    BY <2>2, <2>3, RangeConcatenation, ZenonT(60)
  <2> QED
    BY <1>17, <2>2, <2>3, <2>4, <2>5
<1>20. Range(roots') \subseteq Pointers
  BY <1>14, <1>16, <1>18, <1>19
<1>21. Remembered'
  <2>1. heap' = heap /\ slots' = slots /\ pc' # "mutator" /\ pc' \notin {"rewrite", "reset", "done"}
    BY <1>2 DEF majorHeap
  <2>2. ASSUME NEW a \in majorFields, is_minor(to_minor_offset(heap[a]))
        PROVE  to_minor_offset(heap[a]) \in Range(roots')
    <3>1. PICK i \in 1 .. Len(slots) : slots[i] = a
      BY <1>11, <2>2, SeqRange
    <3>2. i \in K /\ remembered(i) = to_minor_offset(heap[a])
      BY <1>12, <2>2, <3>1 DEF remembered
    <3> QED
      BY <1>16, <1>19, <3>2
  <2> QED
    BY <1>4, <1>11, <2>1, <2>2 DEF Remembered
<1>22. Roots'
  BY <1>2, <1>4, <1>19, <1>20 DEF Roots
<1>23. Progress'
  BY <1>2, <1>3, <1>9 DEF Progress
<1>24. Control'
  BY <1>2, <1>3 DEF Control
<1> QED
  BY <1>4, <1>5, <1>6, <1>8, <1>10, <1>21, <1>22, <1>23, <1>24 DEF IInv

-----------------------------------------------------------------------------
(* The passes before the promotion of the legacy way *)

\* Before the promotion, nothing is copied.
LEMMA EarlyInv ==
  ASSUME IInv, pc \in {"parents", "translate"}, pc' \in {"translate", "roots"},
         UNCHANGED <<majorHeap, slots, fwd_arr, queue, scan, idx, oom, legacy, objs>>,
         Range(roots) \subseteq Range(roots')
  PROVE  /\ ObjsInv' /\ MajorBlocks' /\ Remembered' /\ Forwarded'
         /\ CopyWords' /\ Progress' /\ Control'
<1>1. Minor /\ Major /\ MajorBlocks /\ Control /\ Remembered /\ Forwarded
  BY Parts
<1>2. /\ UNCHANGED <<majorHeap, objs, queue>> /\ UNCHANGED <<fwd_arr, queue, objs>>
      /\ heap' = heap /\ slots' = slots /\ scan' = scan /\ idx' = idx /\ oom' = oom
      /\ legacy' = legacy /\ fwd_arr' = fwd_arr
  BY DEF majorHeap
<1>3. /\ queue = <<>> /\ scan = 1 /\ idx = 1 /\ ~oom /\ legacy /\ oom \in BOOLEAN /\ legacy \in BOOLEAN
      /\ fwd_arr = [a \in MinorAddresses |-> 0]
  BY <1>1 DEF Control
<1>4. majorFields' = majorFields /\ ObjsInv' /\ \A v : Sound(v)' <=> Sound(v)
  BY <1>1, <1>2, ObjsFrame DEF Minor
<1>5. MajorBlocks'
  BY <1>1, <1>2, BlocksFrame
<1>6. Forwarded'
  <2>1. \A v \in MinorAddresses : fwd_arr[v] = 0
    BY <1>3
  <2> QED
    BY <1>1, <1>2, <2>1, ForwardedFrame
<1>7. Range(queue') = {} /\ Len(queue') = 0
  BY <1>2, <1>3 DEF Range
<1>8. CopyWords'
  BY <1>7 DEF CopyWords
<1>9. Remembered'
  BY <1>1, <1>2, <1>4 DEF Remembered
<1>10. Progress'
  BY <1>2, <1>3, <1>7 DEF Progress
<1>11. Control'
  BY <1>2, <1>3 DEF Control
<1> QED
  BY <1>4, <1>5, <1>6, <1>8, <1>9, <1>10, <1>11

\* On the words of a scanned field the pass does what promotion does.
LEMMA TranslatedIs ==
  ASSUME Minor, NEW v, Sound(v)
  PROVE  translated(v) = to_minor_offset(v) /\ Sound(to_minor_offset(v))
<1>1. v \in Nat
  BY DEF Sound, SoundFor
<1>2. minor_base_addr \in Nat /\ minor_base_addr > 0 /\ minor_heap_size \in Nat /\ bump \in Nat
      /\ bump <= minor_heap_size /\ minor_heap_size <= minor_base_addr
  <2>1. bump \in MinorAddresses \cup {minor_heap_size}
    BY DEF Minor, MinorTiled
  <2> QED
    BY <2>1, Constants, MinorAddress
<1>3. CASE v % 2 = 1
  BY <1>1, <1>3, Offsets DEF translated, Sound, SoundFor
<1>4. CASE v \in Addresses
  <2>1. v < minor_base_addr \/ v >= minor_base_addr + minor_heap_size
    BY <1>1, <1>4, AddressFacts, Constants
  <2>2. translated(v) = v /\ to_minor_offset(v) = v
    BY <1>1, <1>2, <2>1 DEF translated, to_minor_offset
  <2> QED
    BY <2>2
<1>5. CASE to_minor_offset(v) \in minorPointers
  <2> DEFINE w == to_minor_offset(v)
  <2>1. w \in Nat /\ w < bump /\ to_minor_offset(w) = w
    BY <1>5, MinorPointer
  <2>2. Sound(w)
    BY <1>5, <2>1 DEF Sound, SoundFor
  <2>3. translated(v) = w
    BY <1>1, <1>2, <2>1 DEF translated, to_minor_offset, WordBytes
  <2> QED
    BY <2>2, <2>3
<1> QED
  BY <1>3, <1>4, <1>5 DEF Sound, SoundFor

\* What the pass leaves in each word.
LEMMA TranslateData ==
  ASSUME Minor, translate_minor_fields
  PROVE  /\ data' \in [MinorAddresses -> Nat]
         /\ \A o \in minorObjs : \A a \in fields(o, objs[o].wz) :
              data'[a] = IF isScanned(objs[o].tag) THEN to_minor_offset(data[a]) ELSE data[a]
         /\ \A a \in MinorAddresses :
              (\A o \in minorObjs : a \notin fields(o, objs[o].wz)) => data'[a] = data[a]
<1> DEFINE V == VisitedFields(0 .. no_scan_tag - 1)
<1>1. data \in [MinorAddresses -> Nat]
      /\ \A o \in minorObjs : isScanned(objs[o].tag) => \A a \in fields(o, objs[o].wz) : Sound(data[a])
  BY DEF Minor, MinorFields
<1>2. \A a \in MinorAddresses : data'[a] = IF a \in V THEN translated(data[a]) ELSE data[a]
  BY <1>1, Zenon DEF translate_minor_fields, TranslatePass, translated_in
<1>3. DOMAIN data' = MinorAddresses /\ data' = [a \in MinorAddresses |-> data'[a]]
  BY <1>1 DEF translate_minor_fields, TranslatePass, translated_in
<1>4. \A a : a \in V <=> \E o \in minorObjs : isScanned(objs[o].tag) /\ a \in fields(o, objs[o].wz)
  <2>1. \A o \in minorObjs : isScanned(objs[o].tag) <=> objs[o].tag \in 0 .. no_scan_tag - 1
    BY MinorObject DEF isScanned, no_scan_tag
  <2> QED
    BY <2>1, VisitedFieldsAre
<1> HIDE DEF V
<1>5. ASSUME NEW o \in minorObjs, NEW a \in fields(o, objs[o].wz)
      PROVE  data'[a] = IF isScanned(objs[o].tag) THEN to_minor_offset(data[a]) ELSE data[a]
  <2>1. a \in MinorAddresses
    BY MinorField
  <2>2. CASE isScanned(objs[o].tag)
    BY <1>1, <1>2, <1>4, <2>1, <2>2, TranslatedIs
  <2>3. CASE ~isScanned(objs[o].tag)
    <3>1. \A p \in minorObjs : a \in fields(p, objs[p].wz) => p = o
      BY MinorApart
    <3>2. a \notin V
      BY <1>4, <2>3, <3>1
    <3> QED
      BY <1>2, <2>1, <2>3, <3>2
  <2> QED
    BY <2>2, <2>3
<1>6. ASSUME NEW a \in MinorAddresses, \A o \in minorObjs : a \notin fields(o, objs[o].wz)
      PROVE  data'[a] = data[a]
  BY <1>2, <1>4, <1>6
<1>7. ASSUME NEW a \in MinorAddresses PROVE data'[a] \in Nat
  <2>1. CASE \A o \in minorObjs : a \notin fields(o, objs[o].wz)
    BY <1>1, <1>6, <2>1
  <2>2. ASSUME NEW o \in minorObjs, a \in fields(o, objs[o].wz)
        PROVE  data'[a] \in Nat
    <3>1. data[a] \in Nat /\ to_minor_offset(data[a]) \in Nat
      BY <1>1, Offsets
    <3> QED
      BY <1>5, <2>2, <3>1
  <2> QED
    BY <2>1, <2>2
<1> QED
  BY <1>3, <1>5, <1>6, <1>7

\* translate_minor_fields keeps the invariant.
LEMMA TranslateInv ==
  ASSUME IInv, translate_minor_fields
  PROVE  IInv'
<1>1. Minor /\ pc = "translate" /\ MinorTiled /\ MinorFields /\ Roots
  BY Parts DEF translate_minor_fields, TranslatePass, Minor
<1>2. /\ pc' = "roots" /\ bump' = bump /\ objs' = objs
      /\ UNCHANGED <<majorHeap, slots, fwd_arr, queue, scan, idx, oom, legacy, objs>>
      /\ roots' = roots
  BY DEF translate_minor_fields, TranslatePass, tracing
<1>3. /\ minorObjs' = minorObjs /\ minorPointers' = minorPointers /\ Pointers' = Pointers
      /\ \A o : infixes(o)' = infixes(o)
      /\ \A v : Sound(v)' <=> Sound(v)
  BY <1>2, ObjsFrame DEF infixes
<1>4. /\ data' \in [MinorAddresses -> Nat]
      /\ \A o \in minorObjs : \A a \in fields(o, objs[o].wz) :
           data'[a] = IF isScanned(objs[o].tag) THEN to_minor_offset(data[a]) ELSE data[a]
      /\ \A a \in MinorAddresses :
           (\A o \in minorObjs : a \notin fields(o, objs[o].wz)) => data'[a] = data[a]
  BY <1>1, TranslateData
<1>5. ASSUME NEW o \in minorObjs PROVE data'[hd_address(o)] = data[hd_address(o)]
  <2>1. hd_address(o) \in MinorAddresses
    BY <1>1, MinorObject
  <2>2. hd_address(o) \notin fields(o, objs[o].wz)
    <3>1. \A a \in fields(o, objs[o].wz) : o <= a
      BY <1>1, MinorField
    <3>2. hd_address(o) \in Nat /\ o = hd_address(o) + 8
      BY <1>1, MinorObject
    <3> QED
      BY <3>1, <3>2
  <2>3. \A p \in minorObjs : hd_address(o) \notin fields(p, objs[p].wz)
    BY <1>1, <2>2, MinorApart
  <2> QED
    BY <1>4, <2>1, <2>3
<1>6. MinorTiled'
  BY <1>1, <1>2, <1>3, <1>5 DEF MinorTiled, endOf
<1>7. ASSUME NEW o \in minorObjs, isScanned(objs[o].tag), NEW a \in fields(o, objs[o].wz)
      PROVE  SoundFor(data'[a], minorPointers)
  BY <1>1, <1>4, <1>7, TranslatedIs DEF MinorFields, Sound
<1>8. ASSUME NEW o \in minorObjs, NEW i \in objs[o].infix
      PROVE  data'[o + WordBytes * i] = makeHeader(i + 1, White, infix_tag)
  <2> DEFINE a == o + WordBytes * i
             h == makeHeader(i + 1, White, infix_tag)
  <2>1. i \in 0 .. objs[o].wz - 1 /\ i \in Nat
    <3>1. objs[o].infix \subseteq 1 .. objs[o].wz - 2 /\ objs[o].wz \in Nat
      BY <1>1, MinorObject DEF Shape
    <3> QED
      BY <3>1
  <2>2. a \in fields(o, objs[o].wz)
    BY <2>1 DEF fields
  <2>3. data[a] = h
    BY <1>1 DEF MinorFields
  <2>4. h \in Nat /\ h % 2 = 1
    BY <2>1 DEF makeHeader, White, infix_tag
  <2>5. to_minor_offset(h) = h
    BY <2>4, Offsets
  <2> HIDE DEF a, h
  <2>6. data'[a] = h
    BY <1>4, <2>2, <2>3, <2>5
  <2> QED
    BY <2>6 DEF a, h
<1>9. MinorFields'
  BY <1>2, <1>3, <1>4, <1>7, <1>8 DEF MinorFields, Sound
<1>10. MinorInv'
  BY <1>2, <1>6, <1>9 DEF MinorInv
<1>11. /\ ObjsInv' /\ MajorBlocks' /\ Remembered' /\ Forwarded'
       /\ CopyWords' /\ Progress' /\ Control'
  BY <1>1, <1>2, EarlyInv
<1>12. Roots'
  <2>1. Range(roots') \subseteq Pointers' /\ roots' \in Seq(Nat) /\ Len(roots') <= RootCap
    BY <1>1, <1>2, <1>3 DEF Roots
  <2>2. \A o \in minorObjs' : infixes(o)' # {} => o \in Range(roots') \/ Len(roots') = RootCap
    BY <1>1, <1>2, <1>3, Parts DEF Roots, Control
  <2> QED
    BY <1>2, <2>1, <2>2 DEF Roots
<1> QED
  BY <1>10, <1>11, <1>12 DEF IInv

\* The closures of the words found.
LEMMA ParentsAre ==
  ASSUME Minor
  PROVE  /\ [i \in DOMAIN infixWords |-> closureOf(infixWords[i])] \in Seq(minorObjs)
         /\ \A o \in minorObjs : infixes(o) # {} =>
              \E j \in DOMAIN infixWords : closureOf(infixWords[j]) = o
<1> DEFINE W == {a \in VisitedFields({Closure_tag}) : getTag(data[a]) = infix_tag}
<1>1. \A a \in W : \E o \in minorObjs : objs[o].tag \in {Closure_tag} /\ a \in fields(o, objs[o].wz)
  BY VisitedFieldsAre
<1>2. \A a \in W : closureOf(a) \in minorObjs
  BY <1>1, ClosureIs
<1>3. infixWords \in Seq(W) /\ Range(infixWords) = W
  <2>1. \A a \in W : a \in 0 .. minor_heap_size
    <3>1. \A a \in W : a \in MinorAddresses
      BY <1>1, MinorField
    <3> QED
      BY <3>1, MinorAddress, Constants
  <2>2. 0 \in Nat /\ minor_heap_size \in Nat /\ infixWords = ascending(W)
    BY Constants DEF infixWords
  <2> HIDE DEF W
  <2> QED
    BY <2>1, <2>2, AscendingPlaces
<1>4. ASSUME NEW o \in minorObjs, infixes(o) # {}
      PROVE  \E j \in DOMAIN infixWords : closureOf(infixWords[j]) = o
  <2>1. PICK i \in objs[o].infix : TRUE
    BY <1>4 DEF infixes
  <2> DEFINE a == o + WordBytes * i
  <2>2. i \in 0 .. objs[o].wz - 1 /\ i \in Nat /\ objs[o].tag = Closure_tag
    <3>1. objs[o].infix \subseteq 1 .. objs[o].wz - 2 /\ objs[o].wz \in Nat
          /\ (objs[o].infix # {} => objs[o].tag = Closure_tag)
      BY MinorObject DEF Shape
    <3> QED
      BY <3>1
  <2>3. a \in fields(o, objs[o].wz)
    BY <2>2 DEF fields
  <2>4. getTag(data[a]) = infix_tag
    <3>1. data[a] = makeHeader(i + 1, White, infix_tag) /\ i + 1 \in Nat /\ infix_tag \in 0 .. 255
      BY <2>2 DEF Minor, MinorFields, infix_tag
    <3>2. getTag(makeHeader(i + 1, White, infix_tag)) = infix_tag
      BY <3>1, WhiteHeader
    <3> QED
      BY <3>1, <3>2
  <2> HIDE DEF a
  <2>5. a \in W
    BY <2>2, <2>3, <2>4, VisitedFieldsAre
  <2>6. PICK j \in DOMAIN infixWords : infixWords[j] = a
    BY <1>3, <2>5, Zenon DEF Range
  <2> QED
    BY <2>3, <2>6, ClosureIs
<1>5. [i \in DOMAIN infixWords |-> closureOf(infixWords[i])] \in Seq(minorObjs)
  <2> HIDE DEF W
  <2>1. DOMAIN infixWords = 1 .. Len(infixWords) /\ Len(infixWords) \in Nat
        /\ \A i \in DOMAIN infixWords : infixWords[i] \in W
    BY <1>3
  <2>2. \A i \in DOMAIN infixWords : closureOf(infixWords[i]) \in minorObjs
    BY <1>2, <2>1
  <2> QED
    BY <2>1, <2>2
<1> QED
  BY <1>4, <1>5

\* find_infix_parents keeps the invariant, and finds every parent it has room for.
LEMMA ParentsInv ==
  ASSUME IInv, find_infix_parents
  PROVE  IInv'
<1>1. Minor /\ Major /\ pc = "parents" /\ Roots /\ MinorInv
  BY Parts DEF find_infix_parents
<1>2. /\ pc' = "translate" /\ UNCHANGED <<minorHeap, objs>> /\ objs' = objs
      /\ UNCHANGED <<majorHeap, slots, fwd_arr, queue, scan, idx, oom, legacy, objs>>
  BY DEF find_infix_parents
<1>3. /\ minorObjs' = minorObjs /\ Pointers' = Pointers /\ \A o : infixes(o)' = infixes(o)
  BY <1>2, ObjsFrame DEF infixes
<1> DEFINE found == [i \in DOMAIN infixWords |-> closureOf(infixWords[i])]
           m == IF Len(found) <= RootCap - Len(roots) THEN Len(found) ELSE RootCap - Len(roots)
           added == [i \in 1 .. m |-> found[i]]
<1>4. roots' = roots \o added
  BY Zenon DEF find_infix_parents
<1>5. found \in Seq(minorObjs) /\ \A o \in minorObjs : infixes(o) # {} => \E j \in DOMAIN found : found[j] = o
  <2>1. found \in Seq(minorObjs)
    BY <1>1, ParentsAre
  <2>2. \A j \in DOMAIN infixWords : j \in DOMAIN found /\ found[j] = closureOf(infixWords[j])
    OBVIOUS
  <2> HIDE DEF found
  <2> QED
    BY <1>1, <2>1, <2>2, ParentsAre
<1> HIDE DEF found
<1>6. roots \in Seq(Nat) /\ Len(roots) \in Nat /\ Len(roots) <= RootCap /\ RootCap \in Nat
      /\ Range(roots) \subseteq Pointers
  BY <1>1, Constants DEF Roots
<1>7. Len(found) \in Nat /\ DOMAIN found = 1 .. Len(found) /\ m \in Nat /\ m <= Len(found)
      /\ m <= RootCap - Len(roots) /\ (m = Len(found) \/ Len(roots) + m = RootCap)
  BY <1>5, <1>6
<1> HIDE DEF m
<1>8. added \in Seq(minorObjs) /\ Len(added) = m /\ \A i \in 1 .. m : added[i] = found[i]
  <2>1. m \in Nat
    BY <1>7
  <2>2. \A i \in 1 .. m : i \in DOMAIN found
    <3> DEFINE l == Len(found)
    <3>1. m \in Nat /\ l \in Nat /\ m <= l /\ DOMAIN found = 1 .. l
      BY <1>7
    <3> HIDE DEF l
    <3>2. \A i \in 1 .. m : i \in 1 .. l
      BY <3>1
    <3> QED
      BY <3>1, <3>2, Zenon
  <2>3. \A i \in DOMAIN found : found[i] \in minorObjs
    <3>1. found \in Seq(minorObjs)
      BY <1>5
    <3> QED
      BY <3>1
  <2>4. \A i \in 1 .. m : found[i] \in minorObjs
    BY <2>2, <2>3, Zenon
  <2>5. added \in [1 .. m -> minorObjs]
    BY <2>4, Zenon
  <2> QED
    BY <2>1, <2>5
<1>9. minorObjs \subseteq Nat /\ minorObjs \subseteq Pointers
  BY <1>1, MinorObject, MinorPointersKnown DEF minorPointers
<1> HIDE DEF added
<1>10. added \in Seq(Nat) /\ Range(added) \subseteq minorObjs /\ \A i \in 1 .. m : added[i] \in Range(added)
  <2>1. added \in Seq(Nat)
    BY <1>8, <1>9, SeqMonotonic
  <2> QED
    BY <1>8, <2>1, SeqRange
<1>11. roots' \in Seq(Nat) /\ Len(roots') = Len(roots) + m /\ Range(roots') = Range(roots) \cup Range(added)
  <2>1. Range(roots \o added) = Range(roots) \cup Range(added)
    BY <1>6, <1>10, RangeConcatenation, ZenonT(60)
  <2> QED
    <3>1. roots \in Seq(Nat) /\ added \in Seq(Nat) /\ Len(added) = m
      BY <1>6, <1>8, <1>10
    <3>2. roots \o added \in Seq(Nat) /\ Len(roots \o added) = Len(roots) + m
      BY <3>1, SMTT(40)
    <3> QED
      BY <1>4, <2>1, <3>2, Zenon
<1>12. \A o \in minorObjs : infixes(o) # {} => o \in Range(roots') \/ Len(roots') = RootCap
  <2> SUFFICES ASSUME NEW o \in minorObjs, infixes(o) # {}
               PROVE  o \in Range(roots') \/ Len(roots') = RootCap
    OBVIOUS
  <2>1. PICK j \in DOMAIN found : found[j] = o
    BY <1>5
  <2>2. CASE m = Len(found)
    BY <1>7, <1>8, <1>10, <1>11, <2>1, <2>2
  <2>3. CASE Len(roots) + m = RootCap
    BY <1>11, <2>3
  <2> QED
    BY <1>7, <2>2, <2>3
<1>13. Roots'
  <2>1. Len(roots') <= RootCap
    <3>1. Len(roots) \in Nat /\ RootCap \in Nat /\ m \in Nat /\ m <= RootCap - Len(roots)
      BY <1>6, <1>7
    <3>2. Len(roots') = Len(roots) + m
      BY <1>11
    <3> QED
      BY <3>1, <3>2
  <2>2. Range(roots') \subseteq Pointers
    BY <1>6, <1>9, <1>10, <1>11
  <2> QED
    BY <1>2, <1>3, <1>11, <1>12, <2>1, <2>2 DEF Roots
<1>14. MinorInv'
  BY <1>1, <1>2, MinorFrame DEF Minor, MinorInv
<1>15. /\ ObjsInv' /\ MajorBlocks' /\ Remembered' /\ Forwarded'
       /\ CopyWords' /\ Progress' /\ Control'
  BY <1>1, <1>2, <1>11, EarlyInv
<1> QED
  BY <1>13, <1>14, <1>15 DEF IInv

-----------------------------------------------------------------------------
(* Promotion *)

\* A field and its place in the copy.
LEMMA ShiftedField ==
  ASSUME NEW o \in Nat, o % 8 = 0, NEW d \in Nat, d % 8 = 0, NEW wz \in Nat,
         NEW a \in fields(o, wz)
  PROVE  /\ d + (a - o) \in fields(d, wz) /\ o + ((d + (a - o)) - d) = a
         /\ a \in Nat /\ a - o \in Nat
<1>1. PICK i \in 0 .. wz - 1 : a = o + 8 * i
  BY DEF fields, WordBytes
<1>2. d + (a - o) = d + 8 * i /\ o + ((d + (a - o)) - d) = a /\ a \in Nat /\ a - o \in Nat
  BY <1>1
<1>3. d + 8 * i \in fields(d, wz)
  BY DEF fields, WordBytes
<1> QED
  BY <1>2, <1>3

\* An element is added at the end of a sequence.
LEMMA AppendRange ==
  ASSUME NEW S, NEW s \in Seq(S), NEW e \in S
  PROVE  /\ Append(s, e) \in Seq(S) /\ Len(Append(s, e)) = Len(s) + 1
         /\ Range(Append(s, e)) = Range(s) \cup {e}
         /\ \A i \in 1 .. Len(s) : Append(s, e)[i] = s[i]
<1>1. Append(s, e) = s \o <<e>> /\ <<e>> \in Seq(S)
  BY AppendIsConcat
<1>2. Range(s \o <<e>>) = Range(s) \cup Range(<<e>>)
  BY <1>1, RangeConcatenation, ZenonT(60)
<1>3. Range(<<e>>) = {e}
  BY DEF Range
<1>4. Append(s, e) \in Seq(S) /\ Len(Append(s, e)) = Len(s) + 1 /\ \A i \in 1 .. Len(s) : Append(s, e)[i] = s[i]
  OBVIOUS
<1> QED
  BY <1>1, <1>2, <1>3, <1>4, Zenon

\* The forwarding addresses when v, which is the object o or an infix header in
\* it, has been forwarded to the copy at d.
Recording(f, o, v, d) ==
  /\ f \in [MinorAddresses -> Addresses \cup {0, heap_size}]
  /\ f[o] = d /\ f[v] = d + (v - o) /\ f[v] # 0
  /\ \A w \in MinorAddresses : w # o /\ w # v => f[w] = fwd_arr[w]

\* Recording a forwarding address changes the entries of the object and of the pointer.
LEMMA RecordedIs ==
  ASSUME Minor, Forwarded, NEW o \in minorObjs, NEW v, v = o \/ v \in infixes(o),
         NEW d \in Addresses, d + 8 * objs[o].wz <= heap_size
  PROVE  Recording(recorded(v, d), o, v, d)
<1> SUFFICES
      /\ recorded(v, d) \in [MinorAddresses -> Addresses \cup {0, heap_size}]
      /\ recorded(v, d)[o] = d
      /\ recorded(v, d)[v] = d + (v - o) /\ recorded(v, d)[v] # 0
      /\ \A w \in MinorAddresses : w # o /\ w # v => recorded(v, d)[w] = fwd_arr[w]
  BY DEF Recording
<1>1. fwd_arr \in [MinorAddresses -> Addresses \cup {0, heap_size}] /\ o \in MinorAddresses /\ o \in Nat
  BY MinorObject DEF Forwarded
<1>2. d \in Nat /\ d # 0
  BY AddressFacts
<1>3. CASE v = o
  <2>1. recorded(v, d) = [fwd_arr EXCEPT ![v] = d]
    BY <1>3, MinorHeader DEF recorded
  <2> QED
    BY <1>1, <1>2, <1>3, <2>1
<1>4. CASE v \in infixes(o)
  <2>1. v \in MinorAddresses /\ v # o /\ isInfix(v) /\ infixParent(v) = o /\ v \in fields(o, objs[o].wz)
        /\ v \in Nat /\ v - o \in Nat /\ v + 8 <= endOf(o) /\ endOf(o) = o + 8 * objs[o].wz
        /\ v % 8 = 0 /\ o % 8 = 0 /\ objs[o].wz \in Nat
    BY <1>4, MinorInfix, MinorObject
  <2>2. recorded(v, d) = [fwd_arr EXCEPT ![o] = d, ![v] = d + (v - o)]
    BY <2>1 DEF recorded, recorded_infix
  <2>3. d + (v - o) \in Addresses /\ d + (v - o) # 0
    <3>1. d >= zero_addr /\ d % 8 = 0 /\ zero_addr \in Nat /\ heap_size \in Nat
      BY AddressFacts, Constants
    <3> DEFINE e == d + (v - o)
    <3>2. e \in Nat /\ e >= zero_addr /\ e < heap_size /\ e # 0
      BY <1>1, <1>2, <2>1, <3>1
    <3>3. e % 8 = 0
      <4>1. (v - o) % 8 = 0
        BY <1>1, <2>1
      <4> QED
        BY <1>2, <2>1, <3>1, <4>1
    <3> HIDE DEF e
    <3> QED
      BY <3>2, <3>3, AddressOf DEF e
  <2> DEFINE e == d + (v - o)
  <2> HIDE DEF e
  <2>4. e \in Addresses /\ e # 0 /\ recorded(v, d) = [fwd_arr EXCEPT ![o] = d, ![v] = e]
    BY <2>2, <2>3 DEF e
  <2>5. /\ recorded(v, d) \in [MinorAddresses -> Addresses \cup {0, heap_size}]
        /\ recorded(v, d)[o] = d /\ recorded(v, d)[v] = e
        /\ \A w \in MinorAddresses : w # o /\ w # v => recorded(v, d)[w] = fwd_arr[w]
    BY <1>1, <2>1, <2>4
  <2> QED
    BY <2>4, <2>5 DEF e
<1> QED
  BY <1>3, <1>4

\* Recording keeps the order of the forwarding addresses.
LEMMA RecordedInv ==
  ASSUME Minor, Forwarded, NEW o \in minorObjs, NEW v, v = o \/ v \in infixes(o),
         NEW d \in Addresses, d + 8 * objs[o].wz <= heap_size,
         fwd_arr[o] = 0 \/ fwd_arr[o] = d,
         fwd_arr' = recorded(v, d), objs' = objs,
         queue' \in Seq(minorObjs), Range(queue') = Range(queue) \cup {o},
         pc \in {"roots", "scan"}
  PROVE  /\ Forwarded'
         /\ \A w \in MinorAddresses : fwd_arr[w] # 0 => fwd_arr'[w] = fwd_arr[w]
         /\ fwd_arr'[v] # 0 /\ fwd_arr'[o] = d
<1>1. /\ fwd_arr' \in [MinorAddresses -> Addresses \cup {0, heap_size}]
      /\ fwd_arr'[o] = d /\ fwd_arr'[v] = d + (v - o) /\ fwd_arr'[v] # 0
      /\ \A w \in MinorAddresses : w # o /\ w # v => fwd_arr'[w] = fwd_arr[w]
  <2>1. Recording(recorded(v, d), o, v, d)
    BY RecordedIs, Zenon
  <2> QED
    BY <2>1 DEF Recording
<1>2. /\ \A p \in minorObjs : fwd_arr[p] # 0 <=> p \in Range(queue)
      /\ \A p \in minorObjs : \A w \in infixes(p) : fwd_arr[w] # 0 =>
           fwd_arr[p] # 0 /\ fwd_arr[w] = fwd_arr[p] + (w - p)
      /\ \A w \in MinorAddresses : fwd_arr[w] # 0 => w \in minorPointers
  BY DEF Forwarded
<1>3. d # 0
  BY AddressFacts
<1>4. /\ minorObjs' = minorObjs /\ minorPointers' = minorPointers /\ \A p : infixes(p)' = infixes(p)
  BY ObjsFrame DEF infixes
<1>5. \A p \in minorObjs : p \in MinorAddresses /\ (p # o => p # v)
  BY MinorObject, InfixNotObject
<1>6. \A p \in minorObjs : \A w \in infixes(p) : w \in MinorAddresses /\ w # o /\ (w = v => p = o)
  BY MinorInfix, InfixNotObject
<1>7. ASSUME NEW p \in minorObjs
      PROVE  fwd_arr'[p] # 0 <=> p \in Range(queue')
  BY <1>1, <1>2, <1>3, <1>5
<1>8. ASSUME NEW p \in minorObjs, NEW w \in infixes(p), fwd_arr'[w] # 0
      PROVE  fwd_arr'[p] # 0 /\ fwd_arr'[w] = fwd_arr'[p] + (w - p)
  <2>1. CASE w = v
    BY <1>1, <1>3, <1>6, <2>1
  <2>2. CASE w # v
    <3>1. fwd_arr'[w] = fwd_arr[w] /\ fwd_arr[p] # 0 /\ fwd_arr[w] = fwd_arr[p] + (w - p)
      BY <1>1, <1>2, <1>6, <1>8, <2>2
    <3>2. fwd_arr'[p] = fwd_arr[p]
      BY <1>1, <1>5, <3>1
    <3> QED
      BY <3>1, <3>2
  <2> QED
    BY <2>1, <2>2
<1>9. v \in minorPointers /\ o \in minorPointers
  BY DEF minorPointers
<1>10. \A w \in MinorAddresses : fwd_arr'[w] # 0 => w \in minorPointers
  BY <1>1, <1>2, <1>9
<1>11. Forwarded'
  BY <1>1, <1>4, <1>7, <1>8, <1>10 DEF Forwarded
<1>12. ASSUME NEW w \in MinorAddresses, fwd_arr[w] # 0 PROVE fwd_arr'[w] = fwd_arr[w]
  <2>1. CASE w = o
    BY <1>1, <1>12, <2>1
  <2>2. CASE w # o /\ w = v
    BY <1>1, <1>2, <1>12, <2>2
  <2>3. CASE w # o /\ w # v
    BY <1>1, <2>3
  <2> QED
    BY <2>1, <2>2, <2>3
<1> QED
  BY <1>1, <1>11, <1>12

\* What a promotion leaves in the major heap.
LEMMA PromoteHeap ==
  ASSUME Minor, Major, NEW o \in minorObjs, NEW v, Promote(o, v), allocate(objs[o].wz).obj # 0
  PROVE  \E d \in Addresses :
           /\ Allocated(heap', fp_ref', d, objs[o].wz)
           /\ heap'[hd_address(d)] = makeHeader(objs[o].wz, White, objs[o].tag)
           /\ \A a \in fields(o, objs[o].wz) : heap'[d + (a - o)] = data[a]
           /\ fwd_arr' = recorded(v, d) /\ queue' = Append(queue, o) /\ oom' = oom
<1> DEFINE n == objs[o].wz
           tag == objs[o].tag
           res == allocate(n)
           d == res.obj
           A == hd_address(d)
<1>1. /\ n \in Nat /\ n >= 1 /\ tag \in 0 .. 255 /\ o \in Nat /\ o % 8 = 0
      /\ wosizeAt(hd_address(o)) = n /\ getTag(data[hd_address(o)]) = tag
  BY MinorObject, MinorHeader
<1>2. MajorHeap
  BY UsedBlocks
<1>3. fitting(n) # {}
  BY <1>1, <1>2, AllocateFails
<1>4. /\ res.heap \in Words /\ d \in Nat /\ d = A + 8 /\ A \in Addresses
      /\ res.heap[A] = makeHeader(n, White, 0)
  BY <1>1, <1>2, <1>3, AllocateType
<1>5. /\ heap' = copied(res.heap, o, d, tag) /\ fp_ref' = res.fp
      /\ fwd_arr' = recorded(v, d) /\ queue' = Append(queue, o) /\ oom' = oom
  BY <1>1 DEF Promote, cheney_copy
<1>6. A \in Nat /\ A % 8 = 0 /\ d % 8 = 0
  <2> HIDE DEF A, d
  <2>1. A \in Nat /\ A % 8 = 0
    BY <1>4, AddressFacts
  <2> QED
    BY <1>4, <2>1
<1>7. /\ getWosize(makeHeader(n, White, 0)) = n
      /\ makeHeader(n, White, tag) \in Nat /\ getWosize(makeHeader(n, White, tag)) = n
      /\ getColor(makeHeader(n, White, tag)) # Blue
  <2>1. 0 \in 0 .. 255 /\ White # Blue
    BY DEF White, Blue
  <2> DEFINE t == tag
  <2>2. t \in 0 .. 255
    BY <1>1
  <2> HIDE DEF t, n
  <2>3. getWosize(makeHeader(n, White, 0)) = n
    BY <1>1, <2>1, WhiteHeader
  <2>4. /\ makeHeader(n, White, t) \in Nat /\ getWosize(makeHeader(n, White, t)) = n
        /\ getColor(makeHeader(n, White, t)) = White
    BY <1>1, <2>2, WhiteHeader, Zenon
  <2> QED
    BY <2>1, <2>3, <2>4 DEF t
<1> DEFINE F == fields(d, n)
<1>8. \A a \in F : a \in Nat /\ a >= A + 8 /\ a < A + 8 + 8 * n /\ a # A
  <2> HIDE DEF A, d, n
  <2>1. \A a \in fields(d, n) : a \in Nat /\ a >= d /\ a < d + 8 * n
    BY <1>1, <1>4, <1>6, FieldIs
  <2> QED
    BY <1>4, <1>6, <2>1
<1>9. \A x \in Addresses : heap'[x] =
        IF x \in F THEN data[o + (x - d)]
        ELSE IF x = A THEN makeHeader(getWosize(res.heap[x]), White, tag) ELSE res.heap[x]
  <2>1. DOMAIN res.heap = Addresses
    BY <1>4 DEF Words
  <2> HIDE DEF res, d, A, n, tag
  <2> QED
    BY <1>1, <1>5, <2>1, Zenon DEF copied, A
<1>10. DOMAIN heap' = Addresses /\ heap' = [x \in Addresses |-> heap'[x]]
  <2>1. DOMAIN res.heap = Addresses
    BY <1>4 DEF Words
  <2> QED
    BY <1>5, <2>1 DEF copied
<1> HIDE DEF res, d, A, n, tag, F
<1>11. heap'[A] = makeHeader(n, White, tag)
  BY <1>4, <1>7, <1>8, <1>9
<1>12. ASSUME NEW x \in F PROVE data[o + (x - d)] \in Nat
  <2>1. o + (x - d) \in fields(o, n)
    BY <1>1, <1>4, <1>6, ShiftedField DEF F
  <2> QED
    BY <2>1, MinorField DEF n
<1>13. heap' \in Words
  <2>1. ASSUME NEW x \in Addresses PROVE heap'[x] \in Nat
    <3>1. CASE x \in F
      BY <1>9, <1>12, <3>1
    <3>2. CASE x = A
      BY <1>7, <1>11, <3>2
    <3>3. CASE x \notin F /\ x # A
      <4>1. heap'[x] = res.heap[x]
        BY <1>9, <3>3
      <4>2. res.heap \in [Addresses -> Nat]
        BY <1>4 DEF Words
      <4> QED
        BY <4>1, <4>2
    <3> QED
      BY <3>1, <3>2, <3>3
  <2> QED
    BY <1>10, <2>1 DEF Words
<1>14. \A x \in Addresses : x < A \/ x >= d + 8 * n => heap'[x] = res.heap[x]
  <2>1. ASSUME NEW x \in Addresses, x < A \/ x >= d + 8 * n
        PROVE  x # A /\ x \notin F
    <3>1. x \in Nat
      BY AddressFacts
    <3> QED
      BY <1>1, <1>4, <1>6, <1>8, <2>1, <3>1
  <2> QED
    BY <1>9, <2>1
<1>15. Allocated(heap', fp_ref', d, n)
  BY <1>1, <1>2, <1>3, <1>5, <1>7, <1>11, <1>13, <1>14, AllocatesSound DEF A, d, res
<1>16. d \in Addresses /\ d + 8 * n <= heap_size
  BY <1>15 DEF Allocated
<1>17. ASSUME NEW a \in fields(o, n) PROVE heap'[d + (a - o)] = data[a]
  <2>1. d + (a - o) \in F /\ o + ((d + (a - o)) - d) = a
    BY <1>1, <1>4, <1>6, ShiftedField DEF F
  <2>2. d + (a - o) \in Addresses
    <3> DEFINE e == d + (a - o)
    <3>1. e \in F
      BY <2>1
    <3> HIDE DEF e
    <3>2. e \in Nat /\ e % 8 = 0 /\ e >= d /\ e < d + 8 * n
      BY <1>1, <1>4, <1>6, <3>1, FieldIs DEF F
    <3>3. d >= zero_addr /\ heap_size \in Nat /\ zero_addr \in Nat /\ d \in Nat
      BY <1>16, AddressFacts, Constants
    <3>4. e \in Addresses
      BY <1>1, <1>16, <3>2, <3>3, AddressOf
    <3> QED
      BY <3>4 DEF e
  <2> DEFINE e == d + (a - o)
  <2>3. e \in Addresses /\ e \in F /\ o + (e - d) = a
    BY <2>1, <2>2
  <2> HIDE DEF e
  <2>4. heap'[e] = data[a]
    BY <1>9, <2>3
  <2> QED
    BY <2>4 DEF e
<1> QED
  BY <1>5, <1>11, <1>15, <1>16, <1>17 DEF n, tag, A

\* The ways in which a pointer that has not been forwarded is.
LEMMA ForwardKinds ==
  ASSUME Minor, NEW v \in minorPointers, forward_if_minor(v), fwd_arr[v] = 0
  PROVE  \E o \in minorObjs :
           /\ v = o \/ v \in infixes(o)
           /\ \/ /\ fwd_arr[o] # 0 /\ fwd_arr' = recorded(v, fwd_arr[o])
                 /\ UNCHANGED <<majorHeap, queue, oom>>
              \/ fwd_arr[o] = 0 /\ Promote(o, v)
<1>1. is_minor(v)
  BY MinorPointer
<1>2. CASE isInfix(v)
  <2>1. infixParent(v) \in minorObjs /\ v \in infixes(infixParent(v))
    BY <1>2, MinorPointer
  <2>2. forward_if_minor_infix(v)
    BY <1>1, <1>2 DEF forward_if_minor
  <2>3. CASE fwd_arr[infixParent(v)] # 0
    <3>1. fwd_arr' = recorded(v, fwd_arr[infixParent(v)]) /\ UNCHANGED <<majorHeap, queue, oom>>
      BY <2>2, <2>3 DEF forward_if_minor_infix
    <3> QED
      BY <2>1, <2>3, <3>1
  <2>4. CASE fwd_arr[infixParent(v)] = 0
    <3>1. Promote(infixParent(v), v)
      BY <2>2, <2>4 DEF forward_if_minor_infix
    <3> QED
      BY <2>1, <2>4, <3>1
  <2> QED
    BY <2>3, <2>4
<1>3. CASE ~isInfix(v)
  <2>1. v \in minorObjs
    BY <1>3, MinorPointer
  <2>2. Promote(v, v)
    BY <1>1, <1>3 DEF forward_if_minor
  <2> QED
    BY <2>1, <2>2
<1> QED
  BY <1>2, <1>3

\* What forwarding v leaves.
ForwardedOne(v) ==
  /\ MajorBlocks' /\ Remembered' /\ Forwarded' /\ CopyWords'
  /\ \A w \in MinorAddresses : fwd_arr[w] # 0 => fwd_arr'[w] # 0
  /\ oom' \in BOOLEAN /\ (oom => oom')
  /\ queue' = queue \/ \E o \in minorObjs : queue' = Append(queue, o)
  /\ ~oom' => (is_minor(v) => fwd_arr'[v] # 0)
  /\ \A o \in majorObjs : \A a \in fields(o, objs[o].wz) : heap'[a] = heap[a]

\* The step touches the tracing and the major heap only.
Tracing == UNCHANGED <<minorHeap, slots, roots, legacy, objs>>

\* What no step of the promotion changes.
LEMMA TracingFrame ==
  ASSUME Tracing
  PROVE  /\ minorObjs' = minorObjs /\ majorObjs' = majorObjs /\ Pointers' = Pointers
         /\ minorPointers' = minorPointers /\ majorFields' = majorFields
         /\ objs' = objs /\ slots' = slots /\ roots' = roots /\ legacy' = legacy
         /\ data' = data /\ bump' = bump
         /\ \A v : Sound(v)' <=> Sound(v)
         /\ ObjsInv' <=> ObjsInv
<1>1. objs' = objs /\ slots' = slots /\ roots' = roots /\ legacy' = legacy /\ data' = data /\ bump' = bump
  BY DEF Tracing, minorHeap
<1> QED
  BY <1>1, ObjsFrame

\* The fields that may hold pointers are as they were.
LEMMA RememberedFrame ==
  ASSUME Remembered, Tracing, pc \in {"roots", "scan"}, pc' \in {"roots", "scan"},
         \A a \in majorFields : heap'[a] = heap[a]
  PROVE  Remembered'
<1>1. /\ majorFields' = majorFields /\ slots' = slots /\ roots' = roots
      /\ \A v : Sound(v)' <=> Sound(v)
  BY TracingFrame
<1>2. \A v : SoundFor(v, minorPointers') <=> Sound(v)
  BY TracingFrame DEF Sound
<1>3. \A a \in majorFields :
        /\ SoundFor(heap'[a], minorPointers')
        /\ is_minor(to_minor_offset(heap'[a])) =>
             a \in Range(slots) /\ to_minor_offset(heap'[a]) \in Range(roots)
  BY <1>2 DEF Remembered
<1> QED
  BY <1>1, <1>3 DEF Remembered, Sound

\* A pointer that leads nowhere new is forwarded by doing nothing.
LEMMA NoneForwarded ==
  ASSUME IInv, pc \in {"roots", "scan"}, pc' \in {"roots", "scan"}, Tracing, NEW v,
         UNCHANGED <<majorHeap, fwd_arr, queue>>, oom' = oom \/ oom' = TRUE,
         oom' \/ (is_minor(v) => fwd_arr[v] # 0)
  PROVE  ForwardedOne(v)
<1>1. MajorBlocks /\ Remembered /\ Forwarded /\ CopyWords /\ oom \in BOOLEAN
  BY Parts DEF Control
<1>2. /\ UNCHANGED <<majorHeap, objs, queue>> /\ UNCHANGED <<fwd_arr, queue, objs>>
      /\ fwd_arr' = fwd_arr /\ queue' = queue /\ heap' = heap /\ oom' \in BOOLEAN /\ (oom => oom')
  BY <1>1, TracingFrame DEF majorHeap
<1>3. MajorBlocks'
  BY <1>1, <1>2, BlocksFrame
<1>4. Remembered'
  BY <1>1, <1>2, RememberedFrame
<1>5. Forwarded'
  <2>1. \A w \in MinorAddresses : fwd_arr[w] # 0 => w \in minorPointers
    BY <1>1 DEF Forwarded
  <2> QED
    BY <1>1, <1>2, <2>1, ForwardedFrame
<1>6. CopyWords'
  BY <1>1, <1>2, TracingFrame DEF CopyWords
<1> QED
  BY <1>2, <1>3, <1>4, <1>5, <1>6 DEF ForwardedOne

\* The infix header of a copied object.
LEMMA InfixForwarded ==
  ASSUME IInv, pc \in {"roots", "scan"}, pc' \in {"roots", "scan"}, Tracing,
         NEW o \in minorObjs, NEW v, v = o \/ v \in infixes(o),
         fwd_arr[o] # 0, fwd_arr' = recorded(v, fwd_arr[o]), UNCHANGED <<majorHeap, queue, oom>>
  PROVE  ForwardedOne(v)
<1>1. Minor /\ Major /\ MajorBlocks /\ Remembered /\ Forwarded /\ CopyWords /\ oom \in BOOLEAN
  BY Parts DEF Control
<1>2. /\ objs' = objs /\ UNCHANGED <<majorHeap, objs, queue>>
      /\ queue' = queue /\ heap' = heap /\ oom' = oom /\ data' = data
  BY TracingFrame DEF majorHeap
<1>3. o \in Range(queue) /\ queue \in Seq(minorObjs)
  BY <1>1 DEF Forwarded
<1>4. fwd_arr[o] \in Addresses /\ fwd_arr[o] + 8 * objs[o].wz <= heap_size
  BY <1>1, <1>3, UsedBlocks, HeldBlock
<1>5. /\ Forwarded'
      /\ \A w \in MinorAddresses : fwd_arr[w] # 0 => fwd_arr'[w] = fwd_arr[w]
      /\ fwd_arr'[v] # 0
  <2>1. queue' \in Seq(minorObjs) /\ Range(queue') = Range(queue) \cup {o}
    BY <1>2, <1>3
  <2> QED
    BY <1>1, <1>2, <1>4, <2>1, RecordedInv
<1>6. \A p \in Range(queue) : fwd_arr'[p] = fwd_arr[p] /\ p \in minorObjs
  <2>1. \A p \in Range(queue) : p \in minorObjs /\ p \in MinorAddresses /\ fwd_arr[p] # 0
    BY <1>1, UsedBlocks, MinorObject DEF Forwarded
  <2> QED
    BY <1>5, <2>1
<1>7. MajorBlocks'
  BY <1>1, <1>2, <1>6, BlocksFrame
<1>8. Remembered'
  BY <1>1, <1>2, RememberedFrame
<1>9. CopyWords'
  <2>1. pc # "done" /\ pc \notin {"slots", "rewrite", "reset"}
        /\ pc' # "done" /\ pc' \notin {"slots", "rewrite", "reset"}
    OBVIOUS
  <2> QED
    BY <1>1, <1>2, <1>6, <2>1 DEF CopyWords
<1> QED
  BY <1>1, <1>2, <1>5, <1>7, <1>8, <1>9 DEF ForwardedOne

\* An object is copied.
LEMMA ObjectCopied ==
  ASSUME IInv, pc \in {"roots", "scan"}, pc' \in {"roots", "scan"}, Tracing,
         NEW o \in minorObjs, NEW v, v = o \/ v \in infixes(o),
         fwd_arr[o] = 0, Promote(o, v), allocate(objs[o].wz).obj # 0
  PROVE  ForwardedOne(v)
<1>1. Minor /\ Major /\ MajorBlocks /\ Remembered /\ Forwarded /\ CopyWords /\ oom \in BOOLEAN
  BY Parts DEF Control
<1>2. objs' = objs /\ data' = data /\ minorObjs' = minorObjs /\ majorObjs' = majorObjs
  BY TracingFrame
<1>3. PICK d \in Addresses :
        /\ Allocated(heap', fp_ref', d, objs[o].wz)
        /\ heap'[hd_address(d)] = makeHeader(objs[o].wz, White, objs[o].tag)
        /\ \A a \in fields(o, objs[o].wz) : heap'[d + (a - o)] = data[a]
        /\ fwd_arr' = recorded(v, d) /\ queue' = Append(queue, o) /\ oom' = oom
  BY <1>1, PromoteHeap
<1>4. Shape(objs[o])
  BY <1>1, MinorObject
<1>5. /\ Listed(heap', HeadersOf(heap'), fp_ref')
      /\ HoldsIn(heap', d, objs[o]) /\ d \notin majorObjs /\ d \notin copies
      /\ \A p \in majorObjs : HoldsIn(heap', p, objs[p])
      /\ \A p \in Range(queue) : HoldsIn(heap', fwd_arr[p], objs[p])
      /\ \A b \in HeadersOf(heap') : getColor(heap'[b]) # Blue =>
           f_address(b) \in majorObjs \cup copies \cup {d}
      /\ \A p \in majorObjs : \A a \in fields(p, objs[p].wz) : heap'[a] = heap[a]
      /\ \A p \in Range(queue) : \A a \in fields(fwd_arr[p], objs[p].wz) : heap'[a] = heap[a]
  <2> DEFINE r == objs[o]
             k == heap'
             fp == fp_ref'
  <2>1. Allocated(k, fp, d, r.wz) /\ k[hd_address(d)] = makeHeader(r.wz, White, r.tag) /\ Shape(r)
    BY <1>3, <1>4
  <2> HIDE DEF r, k, fp
  <2>2. /\ Listed(k, HeadersOf(k), fp)
        /\ HoldsIn(k, d, r) /\ d \notin majorObjs /\ d \notin copies
        /\ \A p \in majorObjs : HoldsIn(k, p, objs[p])
        /\ \A p \in Range(queue) : HoldsIn(k, fwd_arr[p], objs[p])
        /\ \A b \in HeadersOf(k) : getColor(k[b]) # Blue => f_address(b) \in majorObjs \cup copies \cup {d}
        /\ \A p \in majorObjs : \A a \in fields(p, objs[p].wz) : k[a] = heap[a]
        /\ \A p \in Range(queue) : \A a \in fields(fwd_arr[p], objs[p].wz) : k[a] = heap[a]
    BY <1>1, <2>1, GrowBlocks, ZenonT(60)
  <2> QED
    BY <2>2 DEF r, k, fp
<1>6. queue \in Seq(minorObjs) /\ queue' \in Seq(minorObjs) /\ Range(queue') = Range(queue) \cup {o}
  BY <1>1, <1>3, AppendRange DEF Forwarded
<1>7. /\ Forwarded'
      /\ \A w \in MinorAddresses : fwd_arr[w] # 0 => fwd_arr'[w] = fwd_arr[w]
      /\ fwd_arr'[v] # 0 /\ fwd_arr'[o] = d
  <2>1. d + 8 * objs[o].wz <= heap_size
    BY <1>3 DEF Allocated
  <2> QED
    BY <1>1, <1>2, <1>3, <1>6, <2>1, RecordedInv
<1>8. \A p \in Range(queue) : /\ p \in minorObjs /\ fwd_arr'[p] = fwd_arr[p] /\ fwd_arr[p] \in copies
                              /\ fwd_arr[p] \notin majorObjs
  <2>1. \A p \in Range(queue) : /\ p \in minorObjs /\ p \in MinorAddresses /\ fwd_arr[p] # 0
                                /\ fwd_arr[p] \in copies /\ fwd_arr[p] \notin majorObjs
    BY <1>1, UsedBlocks, MinorObject DEF Forwarded
  <2> QED
    BY <1>7, <2>1
<1>9. copies' = copies \cup {d}
  BY <1>6, <1>7, <1>8 DEF copies
<1>10. MajorBlocks'
  <2>1. \A p \in Range(queue') : HoldsIn(heap', fwd_arr'[p], objs[p]) /\ fwd_arr'[p] \notin majorObjs
    BY <1>5, <1>6, <1>7, <1>8
  <2> QED
    BY <1>2, <1>5, <1>9, <2>1 DEF MajorBlocks, Holds
<1>11. Remembered'
  <2>1. \A a \in majorFields : heap'[a] = heap[a]
    BY <1>5 DEF majorFields
  <2> QED
    BY <1>1, <2>1, RememberedFrame
<1>12. CopyWords'
  <2>1. ASSUME NEW p \in Range(queue), NEW a \in fields(p, objs[p].wz)
        PROVE  heap'[fwd_arr[p] + (a - p)] = data[a]
    <3>1. /\ p \in minorObjs /\ p \in Nat /\ p % 8 = 0 /\ objs[p].wz \in Nat
          /\ fwd_arr[p] \in Nat /\ fwd_arr[p] % 8 = 0
      BY <1>1, UsedBlocks, MinorObject, HeldBlock
    <3>2. fwd_arr[p] + (a - p) \in fields(fwd_arr[p], objs[p].wz)
      BY <3>1, ShiftedField
    <3>3. heap[fwd_arr[p] + (a - p)] = data[a]
      BY <1>1 DEF CopyWords
    <3> QED
      BY <1>5, <3>2, <3>3
  <2>2. ASSUME NEW p \in Range(queue'), NEW a \in fields(p, objs[p].wz)
        PROVE  heap'[fwd_arr'[p] + (a - p)] = data[a]
    <3>1. CASE p \in Range(queue)
      BY <1>8, <2>1, <3>1
    <3>2. CASE p = o
      BY <1>3, <1>7, <3>2
    <3> QED
      BY <1>6, <3>1, <3>2
  <2> QED
    BY <1>2, <2>2 DEF CopyWords
<1> QED
  BY <1>1, <1>3, <1>5, <1>7, <1>10, <1>11, <1>12 DEF ForwardedOne

\* forward_if_minor forwards a pointer, or finds no memory and says so.
LEMMA ForwardInv ==
  ASSUME IInv, pc \in {"roots", "scan"}, pc' \in {"roots", "scan"}, Tracing,
         NEW v, is_minor(v) => v \in minorPointers, forward_if_minor(v)
  PROVE  ForwardedOne(v)
<1>1. Minor /\ Major /\ oom \in BOOLEAN
  BY Parts DEF Control
<1>2. CASE ~is_minor(v) \/ fwd_arr[v] # 0
  <2>1. UNCHANGED <<majorHeap, fwd_arr, queue>> /\ oom' = oom
    BY <1>2 DEF forward_if_minor
  <2> QED
    BY <1>2, <2>1, NoneForwarded
<1>3. CASE is_minor(v) /\ fwd_arr[v] = 0
  <2>1. PICK o \in minorObjs :
          /\ v = o \/ v \in infixes(o)
          /\ \/ /\ fwd_arr[o] # 0 /\ fwd_arr' = recorded(v, fwd_arr[o])
                /\ UNCHANGED <<majorHeap, queue, oom>>
             \/ fwd_arr[o] = 0 /\ Promote(o, v)
    BY <1>1, <1>3, ForwardKinds, Zenon
  <2>2. CASE fwd_arr[o] # 0
    BY <2>1, <2>2, InfixForwarded, Zenon
  <2>3. CASE fwd_arr[o] = 0 /\ allocate(objs[o].wz).obj # 0
    BY <2>1, <2>3, ObjectCopied, Zenon
  <2>4. CASE fwd_arr[o] = 0 /\ allocate(objs[o].wz).obj = 0
    <3>1. wosizeAt(hd_address(o)) = objs[o].wz
      BY <1>1, MinorHeader
    <3>2. UNCHANGED <<majorHeap, fwd_arr, queue>> /\ oom' = TRUE
      BY <2>1, <2>4, <3>1 DEF Promote
    <3> QED
      BY <3>2, NoneForwarded
  <2> QED
    BY <2>2, <2>3, <2>4
<1> QED
  BY <1>2, <1>3

\* A root that leads into the minor heap leads to an object or an infix header.
LEMMA RootIs ==
  ASSUME Minor, Major, Roots, pc \notin {"reset", "done"}, NEW r \in Range(roots)
  PROVE  r \in Nat /\ (is_minor(r) => r \in minorPointers)
<1>1. r \in minorPointers \/ r \in Addresses
  BY PointerIs DEF Roots
<1>2. CASE r \in Addresses
  <2>1. r \in Nat /\ r >= zero_addr
    BY <1>2, AddressFacts
  <2> QED
    BY <2>1, Constants DEF is_minor
<1>3. CASE r \in minorPointers
  BY <1>3, MinorPointer
<1> QED
  BY <1>1, <1>2, <1>3

\* What is forwarded stays forwarded.
LEMMA StaysReached ==
  ASSUME \A w \in MinorAddresses : fwd_arr[w] # 0 => fwd_arr'[w] # 0, NEW v \in Nat, Reached(v)
  PROVE  is_minor(v) => fwd_arr'[v] # 0
BY IsMinor DEF Reached

\* What forwarding leaves of the parts of the invariant that the cursors are not in.
LEMMA ForwardedParts ==
  ASSUME IInv, pc \in {"roots", "scan"}, pc' \in {"roots", "scan"}, Tracing,
         pc' = "roots" => pc = "roots", NEW v, ForwardedOne(v)
  PROVE  /\ ObjsInv' /\ MinorInv' /\ MajorBlocks' /\ Remembered' /\ Forwarded' /\ CopyWords'
         /\ Roots' /\ Control'
<1>1. Minor /\ Roots /\ Control
  BY Parts
<1>2. /\ minorObjs' = minorObjs /\ Pointers' = Pointers /\ objs' = objs
      /\ roots' = roots /\ legacy' = legacy /\ ObjsInv'
      /\ \A o : infixes(o)' = infixes(o)
  BY <1>1, TracingFrame DEF Minor, infixes
<1>3. MinorInv'
  BY <1>1, MinorFrame DEF Minor, MinorInv, Tracing
<1>4. MajorBlocks' /\ Remembered' /\ Forwarded' /\ CopyWords' /\ oom' \in BOOLEAN
  BY DEF ForwardedOne
<1>5. Roots'
  BY <1>1, <1>2 DEF Roots
<1>6. Control'
  BY <1>1, <1>2, <1>4 DEF Control
<1> QED
  BY <1>2, <1>3, <1>4, <1>5, <1>6

\* The fields that the scan reads.
Scanning(p) ==
  /\ scanWosize(p) = (IF isScanned(objs[p].tag) THEN objs[p].wz ELSE 0) /\ scanWosize(p) \in Nat
  /\ p \in Nat /\ p % 8 = 0 /\ objs[p].wz \in Nat

\* scan_loop reads the size of an object from its header.
LEMMA ScanningIs ==
  ASSUME Minor, NEW p \in minorObjs
  PROVE  Scanning(p)
BY MinorHeader, MinorObject DEF Scanning

\* forward_roots keeps the invariant.
LEMMA ForwardRootsInv ==
  ASSUME IInv, forward_roots
  PROVE  IInv'
<1>1. /\ Minor /\ Major /\ Roots /\ Progress /\ pc = "roots" /\ Tracing
      /\ roots \in Seq(Nat) /\ scan = 1 /\ idx \in Nat \ {0} /\ scan' = scan
      /\ queue \in Seq(minorObjs)
  BY Parts DEF forward_roots, Tracing, Progress, Roots, Major
<1>2. DOMAIN roots = 1 .. Len(roots) /\ Len(roots) \in Nat /\ Len(queue) \in Nat
  BY <1>1
<1>3. /\ roots' = roots /\ data' = data /\ objs' = objs /\ minorObjs' = minorObjs
  BY <1>1, TracingFrame
<1>4. \A r \in Range(roots) : r \in Nat /\ (is_minor(r) => r \in minorPointers)
  BY <1>1, RootIs
<1>5. \A j \in 1 .. Len(roots) : roots[j] \in Range(roots) /\ roots[j] \in Nat
  BY <1>1, SeqRange
<1>6. ~oom => \A j \in 1 .. Len(roots) : j < idx => Reached(roots[j])
  BY <1>1 DEF Progress
<1>7. CASE idx <= Len(roots)
  <2>1. forward_if_minor(roots[idx]) /\ idx' = idx + 1 /\ pc' = pc
    BY <1>7 DEF forward_roots
  <2>2. idx \in 1 .. Len(roots)
    BY <1>1, <1>2, <1>7
  <2>3. ForwardedOne(roots[idx])
    <3>1. is_minor(roots[idx]) => roots[idx] \in minorPointers
      BY <1>4, <1>5, <2>2
    <3>2. pc \in {"roots", "scan"} /\ pc' \in {"roots", "scan"}
      BY <1>1, <2>1
    <3> QED
      BY <1>1, <2>1, <3>1, <3>2, ForwardInv
  <2>4. /\ \A w \in MinorAddresses : fwd_arr[w] # 0 => fwd_arr'[w] # 0
        /\ oom => oom'
        /\ queue' = queue \/ \E o \in minorObjs : queue' = Append(queue, o)
        /\ ~oom' => (is_minor(roots[idx]) => fwd_arr'[roots[idx]] # 0)
    BY <2>3 DEF ForwardedOne
  <2>5. Len(queue') \in Nat
    BY <1>1, <1>2, <2>4
  <2>6. ASSUME ~oom', NEW j \in 1 .. Len(roots), j < idx + 1
        PROVE  is_minor(roots[j]) => fwd_arr'[roots[j]] # 0
    <3>1. CASE j = idx
      BY <2>4, <2>6, <3>1
    <3>2. CASE j < idx
      <4>1. Reached(roots[j]) /\ roots[j] \in Nat
        BY <1>5, <1>6, <2>4, <2>6, <3>2
      <4> QED
        BY <2>4, <4>1, StaysReached
    <3> QED
      BY <1>1, <2>6, <3>1, <3>2
  <2>7. Progress'
    <3>1. scan' \in 1 .. Len(queue') + 1 /\ idx' \in Nat \ {0}
      BY <1>1, <2>1, <2>5
    <3>2. ~oom' => \A j \in 1 .. Len(roots') : j < idx' => Reached(roots[j])'
      BY <1>3, <2>1, <2>6 DEF Reached
    <3> QED
      BY <1>1, <1>3, <2>1, <3>1, <3>2 DEF Progress
  <2> QED
    BY <1>1, <2>1, <2>3, <2>7, ForwardedParts DEF IInv
<1>8. CASE ~(idx <= Len(roots))
  <2>1. idx' = 1 /\ pc' = "scan" /\ UNCHANGED <<majorHeap, fwd_arr, queue>> /\ oom' = oom
    BY <1>8 DEF forward_roots
  <2>2. ForwardedOne(1)
    <3>1. is_minor(1) => fwd_arr[1] # 0
      BY DEF is_minor, WordBytes
    <3>2. pc \in {"roots", "scan"} /\ pc' \in {"roots", "scan"}
      BY <1>1, <2>1
    <3> QED
      BY <1>1, <2>1, <3>1, <3>2, NoneForwarded
  <2>3. Progress'
    <3>1. fwd_arr' = fwd_arr /\ queue' = queue
      BY <2>1
    <3>2. scan' \in 1 .. Len(queue') + 1 /\ idx' \in Nat \ {0}
      BY <1>1, <1>2, <2>1, <3>1
    <3>3. ~oom => \A r \in Range(roots) : Reached(r)
      <4>1. \A j \in 1 .. Len(roots) : j < idx
        BY <1>1, <1>2, <1>8
      <4>2. \A r \in Range(roots) : \E j \in 1 .. Len(roots) : roots[j] = r
        BY <1>1, SeqRange
      <4> QED
        BY <1>6, <4>1, <4>2
    <3>4. ~oom' => \A r \in Range(roots') : Reached(r)'
      BY <1>3, <2>1, <3>1, <3>3 DEF Reached
    <3>5. /\ \A i \in 1 .. Len(queue') : ~(i < scan')
          /\ \A i \in Nat : i >= 1 => ~(i < idx')
      BY <1>1, <1>2, <2>1, <3>1
    <3>6. ASSUME scan' <= Len(queue')
          PROVE  scanWosize(queue[scan])' \in Nat
      <4>1. queue[scan] \in minorObjs
        BY <1>1, <1>2, <3>1, <3>6
      <4>2. scanWosize(queue[scan]) \in Nat
        BY <1>1, <4>1, ScanningIs DEF Scanning
      <4>3. queue'[scan'] = queue[scan]
        BY <1>1, <3>1
      <4> QED
        BY <1>3, <4>2, <4>3 DEF scanWosize, wosizeAt
    <3>7. scan' <= Len(queue') => \A i \in 1 .. scanWosize(queue[scan])' : ~(i < idx')
      <4> SUFFICES ASSUME scan' <= Len(queue'), NEW i \in 1 .. scanWosize(queue[scan])' PROVE ~(i < idx')
        OBVIOUS
      <4>1. i \in Nat /\ i >= 1
        BY <3>6
      <4> QED
        BY <3>5, <4>1
    <3> QED
      BY <2>1, <3>2, <3>4, <3>5, <3>7 DEF Progress
  <2> QED
    BY <1>1, <2>1, <2>2, <2>3, ForwardedParts DEF IInv
<1> QED
  BY <1>7, <1>8

\* scan_loop keeps the invariant.
LEMMA ScanLoopInv ==
  ASSUME IInv, scan_loop
  PROVE  IInv'
<1> DEFINE o == queue[scan]
           n == scanWosize(o)
           at(i) == to_minor_offset(data[o + (i - 1) * WordBytes])
<1>1. /\ Minor /\ Major /\ Roots /\ Progress /\ MinorFields /\ pc = "scan" /\ pc' = "scan" /\ Tracing
      /\ scan <= Len(queue) /\ queue \in Seq(minorObjs)
      /\ scan \in 1 .. Len(queue) + 1 /\ idx \in Nat \ {0}
  BY Parts DEF scan_loop, Tracing, Progress, Minor, Major
<1>2. Len(queue) \in Nat /\ scan \in 1 .. Len(queue) /\ o \in minorObjs
  <2>1. Len(queue) \in Nat
    BY <1>1
  <2>2. scan \in 1 .. Len(queue)
    BY <1>1, <2>1
  <2> QED
    BY <1>1, <2>1, <2>2
<1>3. /\ roots' = roots /\ data' = data /\ objs' = objs /\ minorObjs' = minorObjs
  BY <1>1, TracingFrame
<1>4. /\ n = (IF isScanned(objs[o].tag) THEN objs[o].wz ELSE 0) /\ n \in Nat
      /\ o \in Nat /\ o % 8 = 0 /\ objs[o].wz \in Nat
  <2> HIDE DEF o
  <2>1. Scanning(o)
    BY <1>1, <1>2, ScanningIs
  <2> QED
    BY <2>1 DEF Scanning
<1>5. /\ ~oom => \A r \in Range(roots) : Reached(r)
      /\ ~oom => \A i \in 1 .. Len(queue) : i < scan => ReachedFrom(queue[i])
      /\ ~oom => \A i \in 1 .. n : i < idx => Reached(at(i))
  BY <1>1 DEF Progress
<1>6. \A p \in minorObjs : isScanned(objs[p].tag) => \A a \in fields(p, objs[p].wz) : Sound(data[a])
  BY <1>1 DEF MinorFields
<1>7. ASSUME NEW i \in 1 .. n
      PROVE  /\ isScanned(objs[o].tag) /\ o + (i - 1) * WordBytes \in fields(o, objs[o].wz)
             /\ at(i) \in Nat /\ (is_minor(at(i)) => at(i) \in minorPointers)
  <2>1. isScanned(objs[o].tag) /\ n = objs[o].wz
    BY <1>4
  <2>2. i - 1 \in 0 .. objs[o].wz - 1 /\ o + (i - 1) * WordBytes = o + WordBytes * (i - 1)
    BY <1>4, <2>1 DEF WordBytes
  <2>3. o + (i - 1) * WordBytes \in fields(o, objs[o].wz)
    BY <2>2 DEF fields
  <2>4. Sound(data[o + (i - 1) * WordBytes])
    BY <1>2, <1>6, <2>1, <2>3
  <2> QED
    BY <2>1, <2>3, <2>4, SoundPointer
<1>8. \A r \in Range(roots) : r \in Nat
  BY <1>1, RootIs
<1>9. ASSUME NEW p \in minorObjs, ReachedFrom(p),
             \A w \in MinorAddresses : fwd_arr[w] # 0 => fwd_arr'[w] # 0
      PROVE  ReachedFrom(p)'
  <2>1. ASSUME isScanned(objs[p].tag), NEW a \in fields(p, objs[p].wz)
        PROVE  is_minor(to_minor_offset(data[a])) => fwd_arr'[to_minor_offset(data[a])] # 0
    <3>1. to_minor_offset(data[a]) \in Nat
      BY <1>6, <2>1, SoundPointer
    <3>2. Reached(to_minor_offset(data[a]))
      BY <1>9, <2>1 DEF ReachedFrom
    <3> QED
      BY <1>9, <3>1, <3>2, StaysReached
  <2> QED
    BY <1>3, <2>1 DEF ReachedFrom, Reached
<1>10. CASE idx <= n
  <2>1. forward_if_minor(at(idx)) /\ idx' = idx + 1 /\ scan' = scan
    BY <1>10 DEF scan_loop
  <2>2. idx \in 1 .. n
    BY <1>1, <1>4, <1>10
  <2>3. ForwardedOne(at(idx))
    <3>1. is_minor(at(idx)) => at(idx) \in minorPointers
      BY <1>7, <2>2
    <3>2. pc \in {"roots", "scan"} /\ pc' \in {"roots", "scan"} /\ Tracing
      BY <1>1
    <3> HIDE DEF at
    <3> QED
      BY <2>1, <3>1, <3>2, ForwardInv
  <2>4. /\ \A w \in MinorAddresses : fwd_arr[w] # 0 => fwd_arr'[w] # 0
        /\ oom => oom'
        /\ queue' = queue \/ \E q \in minorObjs : queue' = Append(queue, q)
        /\ ~oom' => (is_minor(at(idx)) => fwd_arr'[at(idx)] # 0)
    BY <2>3 DEF ForwardedOne
  <2>5. /\ Len(queue') \in Nat /\ Len(queue') >= Len(queue)
        /\ \A i \in 1 .. Len(queue) : queue'[i] = queue[i]
    BY <1>1, <1>2, <2>4, AppendRange
  <2>6. ASSUME ~oom', NEW i \in 1 .. n, i < idx + 1
        PROVE  is_minor(at(i)) => fwd_arr'[at(i)] # 0
    <3>1. CASE i = idx
      BY <2>4, <2>6, <3>1
    <3>2. CASE i < idx
      <4>1. Reached(at(i)) /\ at(i) \in Nat
        BY <1>5, <1>7, <2>4, <2>6, <3>2
      <4> HIDE DEF at
      <4> QED
        BY <2>4, <4>1, StaysReached
    <3> QED
      BY <1>1, <2>6, <3>1, <3>2
  <2>7. Progress'
    <3>1. scan' \in 1 .. Len(queue') + 1 /\ idx' \in Nat \ {0}
      BY <1>1, <1>2, <2>1, <2>5
    <3>2. ~oom' => \A r \in Range(roots') : Reached(r)'
      <4>1. ASSUME ~oom', NEW r \in Range(roots) PROVE is_minor(r) => fwd_arr'[r] # 0
        BY <1>5, <1>8, <2>4, <4>1, StaysReached
      <4> QED
        BY <1>3, <4>1 DEF Reached
    <3>3. ASSUME ~oom', NEW i \in 1 .. Len(queue'), i < scan'
          PROVE  ReachedFrom(queue[i])'
      <4>1. i \in 1 .. Len(queue) /\ i < scan
        BY <1>2, <2>1, <2>5, <3>3
      <4>2. queue[i] \in minorObjs /\ ReachedFrom(queue[i]) /\ queue'[i] = queue[i]
        BY <1>1, <1>5, <2>4, <2>5, <3>3, <4>1
      <4>3. PICK q \in minorObjs : q = queue[i]
        BY <4>2
      <4>4. ReachedFrom(q)'
        BY <1>9, <2>4, <4>2, <4>3
      <4> QED
        BY <4>2, <4>3, <4>4 DEF ReachedFrom
    <3>4. queue'[scan'] = queue[scan] /\ scanWosize(queue[scan])' = n
      <4>1. queue'[scan'] = queue[scan]
        BY <1>2, <2>1, <2>5
      <4> QED
        BY <1>3, <4>1 DEF scanWosize, wosizeAt
    <3>5. ~oom' => \A i \in 1 .. scanWosize(queue[scan])' : i < idx' =>
            Reached(to_minor_offset(data[queue[scan] + (i - 1) * WordBytes]))'
      BY <1>3, <2>1, <2>6, <3>4 DEF Reached
    <3> QED
      BY <1>1, <3>1, <3>2, <3>3, <3>5 DEF Progress
  <2> QED
    BY <1>1, <2>3, <2>7, ForwardedParts DEF IInv
<1>11. CASE ~(idx <= n)
  <2>1. idx' = 1 /\ scan' = scan + 1 /\ UNCHANGED <<majorHeap, fwd_arr, queue>> /\ oom' = oom
    BY <1>11 DEF scan_loop
  <2>2. ForwardedOne(1)
    <3>1. is_minor(1) => fwd_arr[1] # 0
      BY DEF is_minor, WordBytes
    <3> QED
      BY <1>1, <2>1, <3>1, NoneForwarded
  <2>3. fwd_arr' = fwd_arr /\ queue' = queue
    BY <2>1
  <2>4. ASSUME ~oom PROVE ReachedFrom(o)
    <3> SUFFICES ASSUME isScanned(objs[o].tag), NEW a \in fields(o, objs[o].wz)
                 PROVE  Reached(to_minor_offset(data[a]))
      BY DEF ReachedFrom
    <3>1. PICK j \in 0 .. objs[o].wz - 1 : a = o + WordBytes * j
      BY DEF fields
    <3> DEFINE i == j + 1
    <3>2. i \in 1 .. n /\ i < idx /\ a = o + (i - 1) * WordBytes
      <4>1. n = objs[o].wz
        BY <1>4
      <4>2. i \in 1 .. n
        BY <1>4, <4>1
      <4>3. i < idx
        BY <1>1, <1>4, <1>11, <4>2
      <4> HIDE DEF o, n
      <4> QED
        BY <1>4, <3>1, <4>2, <4>3 DEF WordBytes
    <3>3. Reached(at(i))
      BY <1>5, <2>4, <3>2
    <3> QED
      BY <3>2, <3>3
  <2>5. Progress'
    <3>1. scan' \in 1 .. Len(queue') + 1 /\ idx' \in Nat \ {0}
      BY <1>1, <1>2, <2>1, <2>3
    <3>2. ~oom' => \A r \in Range(roots') : Reached(r)'
      BY <1>3, <1>5, <2>1, <2>3 DEF Reached
    <3>3. ASSUME ~oom, NEW i \in 1 .. Len(queue), i < scan + 1
          PROVE  ReachedFrom(queue[i])
      <4>1. CASE i = scan
        BY <2>4, <3>3, <4>1
      <4>2. CASE i < scan
        BY <1>5, <3>3, <4>2
      <4> QED
        BY <1>2, <3>3, <4>1, <4>2
    <3>4. ~oom' => \A i \in 1 .. Len(queue') : i < scan' => ReachedFrom(queue[i])'
      BY <1>3, <2>1, <2>3, <3>3 DEF ReachedFrom, Reached
    <3>5. ASSUME scan' <= Len(queue'), NEW i \in 1 .. scanWosize(queue[scan])' PROVE ~(i < idx')
      <4>1. scan + 1 \in 1 .. Len(queue)
        BY <1>2, <2>1, <2>3, <3>5
      <4>2. queue[scan + 1] \in minorObjs
        BY <1>1, <4>1
      <4>3. scanWosize(queue[scan + 1]) \in Nat
        BY <1>1, <4>2, ScanningIs DEF Scanning
      <4>4. scanWosize(queue[scan])' = scanWosize(queue[scan + 1])
        BY <1>3, <2>1, <2>3 DEF scanWosize, wosizeAt
      <4>5. i \in Nat /\ i >= 1
        BY <4>3, <4>4
      <4> QED
        BY <2>1, <4>5
    <3> QED
      BY <1>1, <3>1, <3>2, <3>4, <3>5 DEF Progress
  <2> QED
    BY <1>1, <2>2, <2>5, ForwardedParts DEF IInv
<1> QED
  BY <1>10, <1>11

\* The end of the promotion keeps the invariant: everything reachable is forwarded.
LEMMA EndPromotionInv ==
  ASSUME IInv, EndPromotion
  PROVE  IInv'
<1>1. /\ Minor /\ Major /\ MajorBlocks /\ Remembered /\ Forwarded /\ CopyWords /\ Roots /\ Progress
      /\ Control /\ pc = "scan" /\ scan > Len(queue)
  BY Parts DEF EndPromotion
<1>2. /\ pc' = (IF oom THEN "fatal" ELSE IF legacy THEN "synthesize" ELSE "update")
      /\ UNCHANGED <<minorHeap, objs>> /\ UNCHANGED <<majorHeap, objs, queue>>
      /\ UNCHANGED <<fwd_arr, queue, objs>>
      /\ roots' = roots /\ legacy' = legacy /\ oom' = oom /\ scan' = scan /\ idx' = idx
      /\ objs' = objs /\ data' = data /\ bump' = bump /\ queue' = queue /\ fwd_arr' = fwd_arr
      /\ heap' = heap /\ slots' = slots
  BY DEF EndPromotion, minorHeap, majorHeap, tracing
<1>3. pc' \in {"fatal", "synthesize", "update"} /\ (pc' # "fatal" => ~oom)
  BY <1>1, <1>2 DEF Control
<1>4. /\ minorObjs' = minorObjs /\ majorFields' = majorFields /\ Pointers' = Pointers /\ ObjsInv'
      /\ \A v : Sound(v)' <=> Sound(v)
  BY <1>1, <1>2, ObjsFrame DEF Minor
<1>5. MinorInv'
  BY <1>1, <1>2, MinorFrame DEF Minor, MinorInv
<1>6. MajorBlocks'
  BY <1>1, <1>2, BlocksFrame
<1>7. Remembered'
  BY <1>1, <1>2, <1>3, <1>4 DEF Remembered
<1>8. Forwarded'
  <2>1. \A w \in MinorAddresses : fwd_arr[w] # 0 => w \in minorPointers
    BY <1>1 DEF Forwarded
  <2> QED
    BY <1>1, <1>2, <2>1, ForwardedFrame
<1>9. CopyWords'
  BY <1>1, <1>2, <1>3 DEF CopyWords
<1>10. Roots'
  BY <1>1, <1>2, <1>3, <1>4 DEF Roots
<1>11. Progress'
  <2>1. ASSUME pc' # "fatal", NEW o \in Range(queue) PROVE ReachedFrom(o)
    <3>1. queue \in Seq(minorObjs) /\ scan \in 1 .. Len(queue) + 1 /\ Len(queue) \in Nat
      <4>1. queue \in Seq(minorObjs)
        BY <1>1 DEF Major
      <4> QED
        BY <1>1, <4>1 DEF Progress
    <3>2. PICK i \in 1 .. Len(queue) : queue[i] = o
      BY <2>1, <3>1, SeqRange
    <3>3. i < scan
      BY <1>1, <3>1, <3>2
    <3> QED
      BY <1>1, <1>3, <2>1, <3>2, <3>3 DEF Progress
  <2>2. pc' # "fatal" => \A o \in Range(queue') : ReachedFrom(o)'
    BY <1>2, <2>1 DEF ReachedFrom, Reached
  <2>3. pc' # "fatal" => \A r \in Range(roots') : Reached(r)'
    BY <1>1, <1>2, <1>3 DEF Progress, Reached
  <2> QED
    BY <1>1, <1>2, <1>3, <2>2, <2>3 DEF Progress
<1>12. Control'
  BY <1>1, <1>2, <1>3 DEF Control
<1> QED
  BY <1>4, <1>5, <1>6, <1>7, <1>8, <1>9, <1>10, <1>11, <1>12 DEF IInv

-----------------------------------------------------------------------------
(* Forwarding addresses for infix headers *)

\* The word before v is one of the object o that reads as an infix header.
Synthesizes(o, v) ==
  /\ o \in minorObjs /\ v = hd_address(v) + 8 /\ hd_address(v) \in fields(o, objs[o].wz)
  /\ closureOf(hd_address(v)) = o /\ fwd_arr[o] # 0

\* The pass forwards nothing but infix headers of promoted closures.
LEMMA SynthesizedIs ==
  ASSUME Minor, NEW v \in synthesized
  PROVE  v \in MinorAddresses /\ \E o \in minorObjs : Synthesizes(o, v)
<1>1. v \in MinorAddresses
  BY DEF synthesized
<1>2. PICK a \in VisitedFields({Closure_tag}) : fwd_arr[closureOf(a)] # 0 /\ v = f_address(a)
  BY DEF synthesized
<1>3. PICK o \in minorObjs : a \in fields(o, objs[o].wz)
  BY VisitedFieldsAre
<1>4. closureOf(a) = o /\ a \in Nat
  BY <1>3, ClosureIs, MinorField
<1>5. v = a + 8 /\ hd_address(v) = a
  BY <1>2, <1>4 DEF f_address, hd_address, WordBytes
<1> QED
  BY <1>1, <1>2, <1>3, <1>4, <1>5 DEF Synthesizes

\* It forwards every one of them.
LEMMA SynthesizedInfix ==
  ASSUME Minor, NEW o \in minorObjs, NEW v \in infixes(o), fwd_arr[o] # 0
  PROVE  v \in synthesized /\ Synthesizes(o, v)
<1>1. /\ hd_address(v) \in fields(o, objs[o].wz) /\ v = hd_address(v) + 8 /\ f_address(hd_address(v)) = v
      /\ v \in MinorAddresses /\ isInfix(v) /\ objs[o].tag = Closure_tag
  BY MinorInfix
<1>2. hd_address(v) \in VisitedFields({Closure_tag})
  BY <1>1, VisitedFieldsAre
<1>3. closureOf(hd_address(v)) = o
  BY <1>1, ClosureIs
<1> QED
  BY <1>1, <1>2, <1>3 DEF synthesized, Synthesizes, isInfix

\* The entry of an object is never among them.
LEMMA SynthesizedOther ==
  ASSUME Minor, NEW o \in minorObjs, NEW v, Synthesizes(o, v)
  PROVE  v \notin minorObjs /\ \A p \in minorObjs : v \in infixes(p) => p = o
<1>1. v \notin minorObjs
  <2> SUFFICES ASSUME v \in minorObjs PROVE FALSE
    OBVIOUS
  <2>1. CASE v = o
    <3>1. o \in Nat /\ hd_address(o) \in Nat /\ o = hd_address(o) + 8
      BY MinorObject
    <3>2. o <= hd_address(o)
      BY <2>1, MinorField DEF Synthesizes
    <3> QED
      BY <3>1, <3>2
  <2>2. CASE v # o
    BY <2>2, MinorApart DEF Synthesizes
  <2> QED
    BY <2>1, <2>2
<1>2. ASSUME NEW p \in minorObjs, v \in infixes(p) PROVE p = o
  BY <1>2, MinorInfix, MinorApart DEF Synthesizes
<1> QED
  BY <1>1, <1>2

\* What the pass leaves in the entries.
SynthesisIs ==
  /\ fwd_arr' \in [MinorAddresses -> Addresses \cup {0, heap_size}]
  /\ \A o \in minorObjs :
       /\ fwd_arr'[o] = fwd_arr[o]
       /\ \A v \in infixes(o) :
            IF fwd_arr[o] # 0 THEN fwd_arr'[v] = fwd_arr[o] + (v - o) ELSE fwd_arr'[v] = fwd_arr[v]
  /\ \A v \in MinorAddresses : fwd_arr[v] # 0 => fwd_arr'[v] = fwd_arr[v]

\* What the pass records.
LEMMA Synthesis ==
  ASSUME IInv, synthesize_infix_forwarding
  PROVE  SynthesisIs
<1>1. Minor /\ Major /\ Forwarded /\ pc = "synthesize"
  BY Parts DEF synthesize_infix_forwarding
<1>2. /\ fwd_arr \in [MinorAddresses -> Addresses \cup {0, heap_size}]
      /\ \A o \in minorObjs :
           /\ fwd_arr[o] # 0 <=> o \in Range(queue)
           /\ \A v \in infixes(o) : fwd_arr[v] # 0 =>
                fwd_arr[o] # 0 /\ fwd_arr[v] = fwd_arr[o] + (v - o)
      /\ \A v \in MinorAddresses : fwd_arr[v] # 0 => v \in minorPointers
  BY <1>1 DEF Forwarded
<1>3. /\ fwd_arr' = [v \in MinorAddresses |-> fwd_arr'[v]]
      /\ \A v \in MinorAddresses : fwd_arr'[v] = IF v \in synthesized THEN infixForwarding(v) ELSE fwd_arr[v]
  BY <1>2 DEF synthesize_infix_forwarding
<1>4. ASSUME NEW o \in minorObjs, NEW v, Synthesizes(o, v)
      PROVE  infixForwarding(v) = fwd_arr[o] + (v - o)
             /\ infixForwarding(v) \in Addresses \cup {heap_size}
  <2> DEFINE a == hd_address(v)
             d == fwd_arr[o]
  <2>1. a \in fields(o, objs[o].wz) /\ v = a + 8 /\ closureOf(a) = o /\ d # 0
    BY <1>4 DEF Synthesizes
  <2>2. infixForwarding(v) = d + (v - o)
    BY <2>1 DEF infixForwarding
  <2>3. /\ o \in Nat /\ objs[o].wz \in Nat /\ endOf(o) = o + 8 * objs[o].wz /\ o % 8 = 0
        /\ a \in Nat /\ a % 8 = 0 /\ o <= a /\ a + 8 <= endOf(o)
    BY <1>1, <2>1, MinorObject, MinorField
  <2>4. d \in Addresses /\ d \in Nat /\ d % 8 = 0 /\ d + 8 * objs[o].wz <= heap_size
    BY <1>1, <1>2, <2>1, UsedBlocks, HeldBlock
  <2>5. d >= zero_addr /\ zero_addr \in Nat /\ heap_size \in Nat
    BY <2>4, AddressFacts, Constants
  <2> HIDE DEF a, d
  <2>6. /\ d + (v - o) \in Nat /\ d + (v - o) >= zero_addr /\ d + (v - o) <= heap_size
    BY <2>1, <2>3, <2>4, <2>5
  <2>7. (d + (v - o)) % 8 = 0
    <3>1. PICK i \in Int : a = o + 8 * i
      <4>1. (a - o) % 8 = 0 /\ a - o \in Int
        BY <2>3
      <4>2. a = o + 8 * ((a - o) \div 8) /\ (a - o) \div 8 \in Int
        BY <2>3, <4>1
      <4> QED
        BY <4>2
    <3>2. d + (v - o) = d + 8 * (i + 1)
      BY <2>1, <2>3, <2>4, <3>1
    <3> QED
      BY <2>4, <3>2
  <2> DEFINE e == d + (v - o)
  <2>8. e \in Nat /\ e >= zero_addr /\ e <= heap_size /\ e % 8 = 0
    BY <2>6, <2>7
  <2> HIDE DEF e
  <2>9. e \in Addresses \cup {heap_size}
    BY <2>5, <2>8, AddressOf
  <2> QED
    BY <2>2, <2>9 DEF e, d
<1>5. ASSUME NEW v \in synthesized
      PROVE  v \in MinorAddresses /\ infixForwarding(v) \in Addresses \cup {heap_size}
  BY <1>1, <1>4, SynthesizedIs
<1>6. fwd_arr' \in [MinorAddresses -> Addresses \cup {0, heap_size}]
  <2>1. \A v \in MinorAddresses : fwd_arr'[v] \in Addresses \cup {0, heap_size}
    BY <1>2, <1>3, <1>5
  <2> QED
    BY <1>3, <2>1
<1>7. ASSUME NEW o \in minorObjs PROVE fwd_arr'[o] = fwd_arr[o]
  <2>1. o \notin synthesized
    BY <1>1, SynthesizedIs, SynthesizedOther
  <2>2. o \in MinorAddresses
    BY <1>1, MinorObject
  <2> QED
    BY <1>3, <2>1, <2>2
<1>8. ASSUME NEW o \in minorObjs, NEW v \in infixes(o)
      PROVE  IF fwd_arr[o] # 0 THEN fwd_arr'[v] = fwd_arr[o] + (v - o) ELSE fwd_arr'[v] = fwd_arr[v]
  <2>1. v \in MinorAddresses
    BY <1>1, MinorInfix
  <2>2. CASE fwd_arr[o] # 0
    <3>1. v \in synthesized /\ Synthesizes(o, v)
      BY <1>1, <2>2, SynthesizedInfix
    <3> QED
      BY <1>3, <1>4, <2>1, <2>2, <3>1
  <2>3. CASE fwd_arr[o] = 0
    <3>1. v \notin synthesized
      <4> SUFFICES ASSUME v \in synthesized PROVE FALSE
        OBVIOUS
      <4>1. PICK p \in minorObjs : Synthesizes(p, v)
        BY <1>1, SynthesizedIs
      <4>2. p = o /\ fwd_arr[p] # 0
        BY <1>1, <4>1, SynthesizedOther DEF Synthesizes
      <4> QED
        BY <2>3, <4>2
    <3> QED
      BY <1>3, <2>1, <2>3, <3>1
  <2> QED
    BY <2>2, <2>3
<1>9. ASSUME NEW v \in MinorAddresses, fwd_arr[v] # 0 PROVE fwd_arr'[v] = fwd_arr[v]
  <2>1. CASE v \in minorObjs
    BY <1>7, <2>1
  <2>2. CASE v \notin minorObjs
    <3>1. PICK o \in minorObjs : v \in infixes(o)
      BY <1>2, <1>9, <2>2 DEF minorPointers
    <3>2. fwd_arr[o] # 0 /\ fwd_arr[v] = fwd_arr[o] + (v - o)
      BY <1>2, <1>9, <3>1
    <3> QED
      BY <1>8, <3>1, <3>2
  <2> QED
    BY <2>1, <2>2
<1> QED
  BY <1>6, <1>7, <1>8, <1>9 DEF SynthesisIs

\* synthesize_infix_forwarding keeps the invariant.
LEMMA SynthesisInv ==
  ASSUME IInv, synthesize_infix_forwarding
  PROVE  IInv'
<1>1. /\ Minor /\ Major /\ MajorBlocks /\ Remembered /\ Forwarded /\ CopyWords /\ Roots /\ Progress
      /\ Control /\ pc = "synthesize" /\ legacy /\ ~oom
  BY Parts DEF synthesize_infix_forwarding, Control
<1>2. /\ pc' = "update" /\ UNCHANGED <<minorHeap, objs>> /\ UNCHANGED <<majorHeap, objs, queue>>
      /\ roots' = roots /\ legacy' = legacy /\ oom' = oom /\ scan' = scan /\ idx' = idx
      /\ objs' = objs /\ data' = data /\ bump' = bump /\ queue' = queue
      /\ heap' = heap /\ slots' = slots
  BY DEF synthesize_infix_forwarding, minorHeap, majorHeap
<1>3. /\ minorObjs' = minorObjs /\ majorFields' = majorFields /\ Pointers' = Pointers /\ ObjsInv'
      /\ \A v : Sound(v)' <=> Sound(v)
      /\ \A o : infixes(o)' = infixes(o)
  BY <1>1, <1>2, ObjsFrame DEF Minor, infixes
<1>4. /\ fwd_arr' \in [MinorAddresses -> Addresses \cup {0, heap_size}]
      /\ \A o \in minorObjs :
           /\ fwd_arr'[o] = fwd_arr[o]
           /\ \A v \in infixes(o) :
                IF fwd_arr[o] # 0 THEN fwd_arr'[v] = fwd_arr[o] + (v - o) ELSE fwd_arr'[v] = fwd_arr[v]
      /\ \A v \in MinorAddresses : fwd_arr[v] # 0 => fwd_arr'[v] # 0
  BY Synthesis DEF SynthesisIs
<1>5. queue \in Seq(minorObjs) /\ \A o \in Range(queue) : o \in minorObjs
  BY <1>1, UsedBlocks DEF Major
<1>6. MinorInv'
  BY <1>1, <1>2, MinorFrame DEF Minor, MinorInv
<1>7. MajorBlocks'
  BY <1>1, <1>2, <1>4, <1>5, BlocksFrame
<1>8. Remembered'
  BY <1>1, <1>2, <1>3 DEF Remembered
<1>9. Forwarded'
  <2>1. ASSUME NEW o \in minorObjs
        PROVE  /\ fwd_arr'[o] # 0 <=> o \in Range(queue)
               /\ \A v \in infixes(o) : fwd_arr'[v] # 0 =>
                    fwd_arr'[o] # 0 /\ fwd_arr'[v] = fwd_arr'[o] + (v - o)
    BY <1>1, <1>4 DEF Forwarded
  <2>2. ~(~legacy' \/ pc' \notin {"update", "rewrite", "reset", "done"})
    BY <1>1, <1>2
  <2> QED
    BY <1>2, <1>3, <1>4, <1>5, <2>1, <2>2 DEF Forwarded
<1>10. CopyWords'
  BY <1>1, <1>2, <1>4, <1>5 DEF CopyWords
<1>11. Roots'
  BY <1>1, <1>2, <1>3 DEF Roots
<1>12. Progress'
  <2>1. ASSUME NEW r \in Range(roots) PROVE is_minor(r) => fwd_arr'[r] # 0
    <3>1. r \in Nat /\ Reached(r)
      BY <1>1, RootIs DEF Progress
    <3> QED
      BY <1>4, <3>1, StaysReached
  <2>2. ASSUME NEW o \in Range(queue), isScanned(objs[o].tag), NEW a \in fields(o, objs[o].wz)
        PROVE  is_minor(to_minor_offset(data[a])) => fwd_arr'[to_minor_offset(data[a])] # 0
    <3>1. Sound(data[a]) /\ Reached(to_minor_offset(data[a]))
      BY <1>1, <1>5, <2>2 DEF Minor, MinorFields, Progress, ReachedFrom
    <3> QED
      BY <1>4, <3>1, SoundPointer, StaysReached
  <2>3. \A r \in Range(roots') : Reached(r)'
    BY <1>2, <2>1 DEF Reached
  <2>4. \A o \in Range(queue') : ReachedFrom(o)'
    BY <1>2, <2>2 DEF ReachedFrom, Reached
  <2> QED
    BY <1>1, <1>2, <2>3, <2>4 DEF Progress
<1>13. Control'
  BY <1>1, <1>2 DEF Control
<1> QED
  BY <1>3, <1>6, <1>7, <1>8, <1>9, <1>10, <1>11, <1>12, <1>13 DEF IInv

-----------------------------------------------------------------------------
(* The passes that rewrite the major heap *)

\* The fields of the copies that may hold pointers.
copyFields ==
  UNION {fields(fwd_arr[o], objs[o].wz) : o \in {q \in Range(queue) : isScanned(objs[q].tag)}}

\* The fields of an object of the major heap belong to no other object and to no copy.
LEMMA MajorApart ==
  ASSUME Major, NEW o \in majorObjs, NEW a \in fields(o, objs[o].wz)
  PROVE  (a \in majorFields => isScanned(objs[o].tag)) /\ a \notin copyFields
<1>1. ASSUME NEW m \in majorObjs, a \in fields(m, objs[m].wz) PROVE m = o
  BY <1>1, UsedBlocks, HeldApart
<1>2. ASSUME NEW q \in Range(queue), a \in fields(fwd_arr[q], objs[q].wz) PROVE FALSE
  <2>1. fwd_arr[q] # o
    BY UsedBlocks
  <2> QED
    BY <1>2, <2>1, UsedBlocks, HeldApart
<1>3. a \in majorFields => isScanned(objs[o].tag)
  BY <1>1 DEF majorFields
<1>4. a \notin copyFields
  BY <1>2 DEF copyFields
<1> QED
  BY <1>3, <1>4

\* The fields of a copy belong to no object of the major heap and to no other copy.
LEMMA CopyApart ==
  ASSUME Major, NEW o \in Range(queue), NEW a \in fields(fwd_arr[o], objs[o].wz)
  PROVE  a \notin majorFields /\ (a \in copyFields <=> isScanned(objs[o].tag))
<1>1. ASSUME NEW m \in majorObjs, a \in fields(m, objs[m].wz) PROVE FALSE
  <2>1. fwd_arr[o] # m
    BY UsedBlocks
  <2> QED
    BY <1>1, <2>1, UsedBlocks, HeldApart
<1>2. ASSUME NEW q \in Range(queue), a \in fields(fwd_arr[q], objs[q].wz)
      PROVE  objs[q].tag = objs[o].tag
  <2>1. fwd_arr[q] = fwd_arr[o]
    BY <1>2, UsedBlocks, HeldApart
  <2>2. /\ getTag(heap[hd_address(fwd_arr[q])]) = objs[q].tag
        /\ getTag(heap[hd_address(fwd_arr[o])]) = objs[o].tag
    BY UsedBlocks, HeldBlock
  <2> QED
    BY <2>1, <2>2
<1>3. a \notin majorFields
  BY <1>1 DEF majorFields
<1>4. a \in copyFields <=> isScanned(objs[o].tag)
  BY <1>2 DEF copyFields
<1> QED
  BY <1>3, <1>4

\* The fields A are rewritten.
Rewrites(A) == heap' = [a \in DOMAIN heap |-> IF a \in A THEN rewritten(heap[a]) ELSE heap[a]]

\* update_promoted_objects rewrites the fields of the copies that may hold pointers.
LEMMA PromotedFields ==
  ASSUME IInv, update_promoted_objects
  PROVE  Rewrites(copyFields)
<1>1. Minor /\ Major /\ Forwarded /\ CopyWords /\ pc = "update" /\ ~legacy
  BY Parts DEF update_promoted_objects
<1> DEFINE tagOf(d) == getTag(heap[hd_address(d)])
           O == {d \in {fwd_arr[v] : v \in DOMAIN fwd_arr} \ {0} : isScanned(tagOf(d)) /\ tagOf(d) # infix_tag}
           A == UNION {fields(o, getWosize(heap[hd_address(o)])) : o \in O}
<1>2. heap' = [a \in DOMAIN heap |-> IF a \in A THEN rewritten(heap[a]) ELSE heap[a]]
  BY DEF update_promoted_objects, updated_in
<1>3. \A o \in Range(queue) :
        /\ o \in minorObjs /\ o \in MinorAddresses /\ fwd_arr[o] # 0
        /\ getTag(heap[hd_address(fwd_arr[o])]) = objs[o].tag
        /\ getWosize(heap[hd_address(fwd_arr[o])]) = objs[o].wz
        /\ objs[o].tag # infix_tag
  BY <1>1, UsedBlocks, HeldBlock, MinorObject, ZenonT(60) DEF Forwarded, Shape
<1>4. /\ DOMAIN fwd_arr = MinorAddresses
      /\ \A v \in MinorAddresses : fwd_arr[v] # 0 => v \in minorPointers
      /\ \A o \in minorObjs : fwd_arr[o] # 0 => o \in Range(queue)
  BY <1>1 DEF Forwarded
<1>5. ASSUME NEW o \in minorObjs, NEW v \in infixes(o), fwd_arr[v] # 0
      PROVE  tagOf(fwd_arr[v]) = infix_tag
  <2>1. fwd_arr[o] # 0 /\ fwd_arr[v] = fwd_arr[o] + (v - o)
    BY <1>1, <1>5 DEF Forwarded
  <2>2. o \in Range(queue)
    BY <1>4, <2>1
  <2> DEFINE a == hd_address(v)
             d == fwd_arr[o]
  <2>3. a \in fields(o, objs[o].wz) /\ v = a + 8 /\ getTag(data[a]) = infix_tag
    BY <1>1, MinorInfix DEF isInfix
  <2>4. heap[d + (a - o)] = data[a]
    BY <1>1, <2>2, <2>3 DEF CopyWords
  <2>5. d \in Nat /\ o \in Nat /\ a \in Nat
    BY <1>1, <2>2, <2>3, UsedBlocks, HeldBlock, MinorObject, MinorField
  <2> HIDE DEF a, d
  <2>6. hd_address(d + (v - o)) = d + (a - o)
    BY <2>3, <2>5 DEF hd_address, WordBytes
  <2> QED
    BY <2>1, <2>3, <2>4, <2>6 DEF d
<1>6. ASSUME NEW d \in O
      PROVE  \E o \in Range(queue) : isScanned(objs[o].tag) /\ d = fwd_arr[o]
  <2>1. PICK v \in MinorAddresses : d = fwd_arr[v] /\ fwd_arr[v] # 0
    <3>1. d \in {fwd_arr[v] : v \in DOMAIN fwd_arr} \ {0}
      OBVIOUS
    <3> QED
      BY <1>4, <3>1
  <2>2. CASE v \in minorObjs
    <3>1. v \in Range(queue)
      BY <1>4, <2>1, <2>2
    <3>2. isScanned(tagOf(d)) /\ tagOf(d) = objs[v].tag
      BY <1>3, <2>1, <3>1
    <3> QED
      BY <2>1, <3>1, <3>2
  <2>3. CASE v \notin minorObjs
    <3>1. PICK o \in minorObjs : v \in infixes(o)
      BY <1>4, <2>1, <2>3 DEF minorPointers
    <3>2. tagOf(d) = infix_tag
      BY <1>5, <2>1, <3>1
    <3> QED
      BY <3>2
  <2> QED
    BY <2>2, <2>3
<1>7. ASSUME NEW o \in Range(queue), isScanned(objs[o].tag)
      PROVE  fwd_arr[o] \in O
  BY <1>3, <1>4, <1>7
<1> HIDE DEF O
<1>8. A = copyFields
  <2>1. ASSUME NEW a \in A PROVE a \in copyFields
    <3>1. PICK d \in O : a \in fields(d, getWosize(heap[hd_address(d)]))
      OBVIOUS
    <3>2. PICK o \in Range(queue) : isScanned(objs[o].tag) /\ d = fwd_arr[o]
      BY <1>6
    <3> QED
      BY <1>3, <3>1, <3>2 DEF copyFields
  <2>2. ASSUME NEW a \in copyFields PROVE a \in A
    <3>1. PICK o \in Range(queue) : isScanned(objs[o].tag) /\ a \in fields(fwd_arr[o], objs[o].wz)
      BY DEF copyFields
    <3>2. fwd_arr[o] \in O /\ a \in fields(fwd_arr[o], getWosize(heap[hd_address(fwd_arr[o])]))
      BY <1>3, <1>7, <3>1
    <3> QED
      BY <3>2
  <2> QED
    BY <2>1, <2>2
<1> HIDE DEF A
<1> QED
  BY <1>2, <1>8 DEF Rewrites

\* The scanned blocks are the scanned objects of the major heap and their like among
\* the copies.
LEMMA ScannedBlocksAre ==
  ASSUME Major, NEW p
  PROVE  /\ p \in scannedBlocks =>
              \/ \E o \in majorObjs : isScanned(objs[o].tag) /\ f_address(p) = o
                                      /\ getWosize(heap[p]) = objs[o].wz
              \/ \E o \in Range(queue) : isScanned(objs[o].tag) /\ f_address(p) = fwd_arr[o]
                                         /\ getWosize(heap[p]) = objs[o].wz
         /\ \A o \in majorObjs : isScanned(objs[o].tag) =>
              /\ hd_address(o) \in scannedBlocks /\ f_address(hd_address(o)) = o
              /\ getWosize(heap[hd_address(o)]) = objs[o].wz
         /\ \A o \in Range(queue) : isScanned(objs[o].tag) =>
              /\ hd_address(fwd_arr[o]) \in scannedBlocks
              /\ f_address(hd_address(fwd_arr[o])) = fwd_arr[o]
              /\ getWosize(heap[hd_address(fwd_arr[o])]) = objs[o].wz
<1>1. MajorHeap /\ MajorVisited = B
  BY UsedBlocks, MajorVisitedIs
<1>2. ASSUME NEW d, NEW r, Shape(r), Holds(d, r), isScanned(r.tag)
      PROVE  /\ hd_address(d) \in scannedBlocks /\ f_address(hd_address(d)) = d
             /\ getWosize(heap[hd_address(d)]) = r.wz
  <2>1. /\ hd_address(d) \in B /\ f_address(hd_address(d)) = d
        /\ getWosize(heap[hd_address(d)]) = r.wz /\ getTag(heap[hd_address(d)]) = r.tag
        /\ getColor(heap[hd_address(d)]) = White
    BY <1>1, <1>2, HeldBlock
  <2> QED
    BY <1>1, <1>2, <2>1 DEF scannedBlocks, usedBlocks, White, Blue
<1>3. ASSUME p \in scannedBlocks
      PROVE  \/ \E o \in majorObjs : isScanned(objs[o].tag) /\ f_address(p) = o
                                     /\ getWosize(heap[p]) = objs[o].wz
             \/ \E o \in Range(queue) : isScanned(objs[o].tag) /\ f_address(p) = fwd_arr[o]
                                        /\ getWosize(heap[p]) = objs[o].wz
  <2>1. p \in B /\ getColor(heap[p]) # Blue /\ isScanned(getTag(heap[p]))
    BY <1>1, <1>3 DEF scannedBlocks, usedBlocks
  <2>2. f_address(p) \in majorObjs \cup copies
    BY <2>1 DEF Major, MajorBlocks, B
  <2>3. p = hd_address(f_address(p))
    <3>1. p \in Nat
      BY <1>1, <2>1, MajorFacts, AddressFacts
    <3> QED
      BY <3>1 DEF f_address, hd_address, WordBytes
  <2>4. CASE f_address(p) \in majorObjs
    <3>1. PICK o \in majorObjs : f_address(p) = o
      BY <2>4
    <3>2. getTag(heap[p]) = objs[o].tag /\ getWosize(heap[p]) = objs[o].wz
      BY <2>3, <3>1, UsedBlocks, HeldBlock
    <3> QED
      BY <2>1, <3>1, <3>2
  <2>5. CASE f_address(p) \in copies
    <3>1. PICK o \in Range(queue) : f_address(p) = fwd_arr[o]
      BY <2>5 DEF copies
    <3>2. getTag(heap[p]) = objs[o].tag /\ getWosize(heap[p]) = objs[o].wz
      BY <2>3, <3>1, UsedBlocks, HeldBlock
    <3> QED
      BY <2>1, <3>1, <3>2
  <2> QED
    BY <2>2, <2>4, <2>5
<1>4. \A o \in majorObjs : isScanned(objs[o].tag) =>
        /\ hd_address(o) \in scannedBlocks /\ f_address(hd_address(o)) = o
        /\ getWosize(heap[hd_address(o)]) = objs[o].wz
  BY <1>2, UsedBlocks
<1>5. \A o \in Range(queue) : isScanned(objs[o].tag) =>
        /\ hd_address(fwd_arr[o]) \in scannedBlocks
        /\ f_address(hd_address(fwd_arr[o])) = fwd_arr[o]
        /\ getWosize(heap[hd_address(fwd_arr[o])]) = objs[o].wz
  BY <1>2, UsedBlocks
<1> QED
  BY <1>3, <1>4, <1>5

\* update_all_objects rewrites those fields, and the ones of the objects of the major heap.
LEMMA AllFields ==
  ASSUME IInv, update_all_objects
  PROVE  Rewrites(majorFields \cup copyFields)
<1>1. Major
  BY Parts
<1> DEFINE O == {f_address(p) : p \in scannedBlocks}
           A == UNION {fields(o, getWosize(heap[hd_address(o)])) : o \in O}
<1>2. heap' = [a \in DOMAIN heap |-> IF a \in A THEN rewritten(heap[a]) ELSE heap[a]]
  BY DEF update_all_objects, updated_in
<1>3. ASSUME NEW a \in A PROVE a \in majorFields \cup copyFields
  <2>1. PICK p \in scannedBlocks : a \in fields(f_address(p), getWosize(heap[hd_address(f_address(p))]))
    OBVIOUS
  <2>2. hd_address(f_address(p)) = p
    <3>1. MajorVisited = B /\ MajorHeap
      BY <1>1, UsedBlocks, MajorVisitedIs
    <3>2. p \in Nat
      BY <3>1, MajorFacts, AddressFacts DEF scannedBlocks, usedBlocks
    <3> QED
      BY <3>2 DEF f_address, hd_address, WordBytes
  <2>3. \/ \E o \in majorObjs : isScanned(objs[o].tag) /\ f_address(p) = o
                                /\ getWosize(heap[p]) = objs[o].wz
        \/ \E o \in Range(queue) : isScanned(objs[o].tag) /\ f_address(p) = fwd_arr[o]
                                   /\ getWosize(heap[p]) = objs[o].wz
    BY <1>1, ScannedBlocksAre
  <2> QED
    BY <2>1, <2>2, <2>3 DEF majorFields, copyFields
<1>4. ASSUME NEW a \in majorFields \cup copyFields PROVE a \in A
  <2>1. \/ \E o \in majorObjs : isScanned(objs[o].tag) /\ a \in fields(o, objs[o].wz)
        \/ \E o \in Range(queue) : isScanned(objs[o].tag) /\ a \in fields(fwd_arr[o], objs[o].wz)
    BY DEF majorFields, copyFields
  <2>2. ASSUME NEW d, NEW wz, hd_address(d) \in scannedBlocks, f_address(hd_address(d)) = d,
               getWosize(heap[hd_address(d)]) = wz, a \in fields(d, wz)
        PROVE  a \in A
    <3>1. d \in O
      BY <2>2
    <3> HIDE DEF O
    <3> QED
      BY <2>2, <3>1
  <2> HIDE DEF A
  <2> QED
    BY <1>1, <2>1, <2>2, ScannedBlocksAre
<1>5. A = majorFields \cup copyFields
  BY <1>3, <1>4
<1> HIDE DEF A
<1> QED
  BY <1>2, <1>5 DEF Rewrites

\* The new value of a word that leads somewhere that has been forwarded.
LEMMA RewrittenIs ==
  ASSUME Forwarded, NEW v \in Nat
  PROVE  /\ rewritten(v) \in Nat
         /\ \/ rewritten(v) = v
            \/ is_minor(to_minor_offset(v)) /\ rewritten(v) = fwd_arr[to_minor_offset(v)]
         /\ Reached(to_minor_offset(v)) =>
              /\ rewritten(v) = Image(v, 0)
              /\ ~is_minor(to_minor_offset(rewritten(v)))
<1> DEFINE w == to_minor_offset(v)
<1>1. w \in Nat
  BY Offsets
<1>2. is_minor(w) => w \in MinorAddresses
  BY <1>1, IsMinor
<1>3. fwd_arr \in [MinorAddresses -> Addresses \cup {0, heap_size}]
  BY DEF Forwarded
<1>4. \A a \in Addresses \cup {heap_size} : a \in Nat /\ ~is_minor(to_minor_offset(a))
  BY AddressFacts, Offsets
<1>5. isScanned(0)
  BY DEF isScanned, no_scan_tag
<1>6. rewritten(v) = IF is_minor(w) /\ fwd_arr[w] # 0 THEN fwd_arr[w] ELSE v
  BY DEF rewritten
<1>7. Image(v, 0) = IF is_minor(w) THEN fwd_arr[w] ELSE v
  BY <1>5 DEF Image
<1>8. Reached(w) <=> (is_minor(w) => fwd_arr[w] # 0)
  BY DEF Reached
<1>9. CASE is_minor(w) /\ fwd_arr[w] # 0
  <2>1. fwd_arr[w] \in Addresses \cup {heap_size}
    BY <1>2, <1>3, <1>9
  <2> HIDE DEF w
  <2> QED
    BY <1>4, <1>6, <1>7, <1>9, <2>1 DEF w
<1>10. CASE ~(is_minor(w) /\ fwd_arr[w] # 0)
  <2> HIDE DEF w
  <2> QED
    BY <1>6, <1>7, <1>8, <1>10 DEF w
<1> QED
  BY <1>9, <1>10

\* A pass over the major heap that rewrites the fields A.
Rewriting(A) ==
  /\ pc \in {"update", "slots"} /\ pc' \in {"slots", "rewrite"} /\ (pc' = "slots" => ~legacy)
  /\ A \subseteq majorFields \cup copyFields /\ Rewrites(A)
  /\ UNCHANGED <<minorHeap, fp_ref, slots, tracing, legacy, objs>>

\* What a pass that rewrites fields leaves alone.
LEMMA RewritingFrame ==
  ASSUME NEW A, Rewriting(A)
  PROVE  /\ UNCHANGED <<minorHeap, objs>> /\ UNCHANGED <<fwd_arr, queue, objs>>
         /\ data' = data /\ objs' = objs /\ slots' = slots /\ fp_ref' = fp_ref
         /\ roots' = roots /\ fwd_arr' = fwd_arr /\ queue' = queue /\ scan' = scan /\ idx' = idx
         /\ oom' = oom /\ legacy' = legacy
         /\ minorObjs' = minorObjs /\ majorObjs' = majorObjs /\ Pointers' = Pointers
         /\ minorPointers' = minorPointers /\ majorFields' = majorFields /\ copies' = copies
         /\ \A v : Sound(v)' <=> Sound(v)
         /\ ObjsInv' <=> ObjsInv
<1>1. /\ UNCHANGED <<minorHeap, objs>> /\ UNCHANGED <<fwd_arr, queue, objs>>
      /\ data' = data /\ objs' = objs /\ slots' = slots /\ fp_ref' = fp_ref
      /\ roots' = roots /\ fwd_arr' = fwd_arr /\ queue' = queue /\ scan' = scan /\ idx' = idx
      /\ oom' = oom /\ legacy' = legacy
  BY DEF Rewriting, minorHeap, tracing
<1>2. copies' = copies
  BY <1>1 DEF copies
<1> QED
  BY <1>1, <1>2, ObjsFrame

\* The fields are words of blocks in use.
LEMMA RewritingHeap ==
  ASSUME IInv, NEW A, Rewriting(A)
  PROVE  /\ \A a \in Addresses : heap'[a] = IF a \in A THEN rewritten(heap[a]) ELSE heap[a]
         /\ MajorBlocks'
<1>1. Major /\ Forwarded /\ MajorHeap /\ heap \in [Addresses -> Nat] /\ MajorBlocks
  BY Parts, MajorFacts
<1>2. \A a \in Addresses : heap'[a] = IF a \in A THEN rewritten(heap[a]) ELSE heap[a]
  BY <1>1 DEF Rewriting, Rewrites
<1>3. heap' \in Words
  <2>1. heap' = [a \in Addresses |-> heap'[a]]
    BY <1>1 DEF Rewriting, Rewrites
  <2>2. \A a \in Addresses : heap'[a] \in Nat
    BY <1>1, <1>2, RewrittenIs
  <2> QED
    BY <2>1, <2>2 DEF Words
<1>4. \A x \in Addresses : heap'[x] # heap[x] =>
        \/ \E o \in majorObjs : x \in fields(o, objs[o].wz)
        \/ \E o \in Range(queue) : x \in fields(fwd_arr[o], objs[o].wz)
  <2>1. \A x \in Addresses : heap'[x] # heap[x] => x \in majorFields \cup copyFields
    BY <1>2 DEF Rewriting
  <2> QED
    BY <2>1 DEF majorFields, copyFields
<1>5. /\ Listed(heap', HeadersOf(heap'), fp_ref) /\ HeadersOf(heap') = B
      /\ \A b \in B : heap'[b] = heap[b]
      /\ \A d, r : Holds(d, r) => HoldsIn(heap', d, r)
  BY <1>1, <1>3, <1>4, WriteBlocks
<1>6. MajorBlocks'
  BY <1>1, <1>5, RewritingFrame DEF MajorBlocks, Holds, B
<1> QED
  BY <1>2, <1>6

\* The parts of the invariant that do not speak of the words.
LEMMA RewritingParts ==
  ASSUME IInv, NEW A, Rewriting(A)
  PROVE  ObjsInv' /\ MinorInv' /\ Forwarded' /\ Roots' /\ Progress' /\ Control'
<1>1. /\ Minor /\ Major /\ Forwarded /\ Roots /\ Progress /\ Control
      /\ pc \in {"update", "slots"} /\ pc' \in {"slots", "rewrite"} /\ (pc' = "slots" => ~legacy)
  BY Parts DEF Rewriting
<1>2. /\ UNCHANGED <<minorHeap, objs>> /\ UNCHANGED <<fwd_arr, queue, objs>>
      /\ data' = data /\ objs' = objs /\ roots' = roots /\ fwd_arr' = fwd_arr /\ queue' = queue
      /\ scan' = scan /\ idx' = idx /\ oom' = oom /\ legacy' = legacy
      /\ minorObjs' = minorObjs /\ Pointers' = Pointers /\ minorPointers' = minorPointers
  BY RewritingFrame
<1>3. ObjsInv'
  BY <1>1, RewritingFrame DEF Minor
<1>4. MinorInv'
  BY <1>1, <1>2, MinorFrame DEF Minor, MinorInv
<1>5. Forwarded'
  <2>1. \A o : infixes(o)' = infixes(o)
    BY <1>2 DEF infixes
  <2>2. (~legacy' \/ pc' \notin {"update", "rewrite", "reset", "done"}) =>
          \A v \in MinorAddresses : fwd_arr[v] # 0 => v \in minorPointers
    BY <1>1, <1>2 DEF Forwarded
  <2> QED
    BY <1>1, <1>2, <2>1, <2>2 DEF Forwarded
<1>6. Roots'
  BY <1>1, <1>2 DEF Roots
<1>7. Progress'
  <2>1. \A r \in Range(roots') : Reached(r)'
    BY <1>1, <1>2 DEF Progress, Control, Reached
  <2>2. \A o \in Range(queue') : ReachedFrom(o)'
    BY <1>1, <1>2 DEF Progress, ReachedFrom, Reached
  <2> QED
    BY <1>1, <1>2, <2>1, <2>2 DEF Progress
<1>8. Control'
  BY <1>1, <1>2 DEF Control
<1> QED
  BY <1>3, <1>4, <1>5, <1>6, <1>7, <1>8

\* A field of a copy.
LEMMA CopyField ==
  ASSUME Minor, Major, NEW o \in Range(queue), NEW a \in fields(o, objs[o].wz)
  PROVE  /\ fwd_arr[o] + (a - o) \in fields(fwd_arr[o], objs[o].wz)
         /\ fwd_arr[o] + (a - o) \in Addresses
         /\ fwd_arr[o] + (a - o) \notin majorFields
         /\ fwd_arr[o] + (a - o) \in copyFields <=> isScanned(objs[o].tag)
         /\ data[a] \in Nat
<1>1. /\ o \in minorObjs /\ o \in Nat /\ o % 8 = 0 /\ objs[o].wz \in Nat
      /\ fwd_arr[o] \in Nat /\ fwd_arr[o] % 8 = 0 /\ MajorHeap /\ Shape(objs[o]) /\ Holds(fwd_arr[o], objs[o])
  BY UsedBlocks, MinorObject, HeldBlock
<1> DEFINE x == fwd_arr[o] + (a - o)
<1>2. x \in fields(fwd_arr[o], objs[o].wz)
  BY <1>1, ShiftedField
<1> HIDE DEF x
<1>3. x \in Addresses
  BY <1>1, <1>2, HeldField
<1>4. x \notin majorFields /\ (x \in copyFields <=> isScanned(objs[o].tag))
  BY <1>2, CopyApart
<1>5. data[a] \in Nat
  BY <1>1, MinorField
<1> QED
  BY <1>2, <1>3, <1>4, <1>5 DEF x

\* The copies get the images of their words.
LEMMA RewritingCopies ==
  ASSUME IInv, NEW A, Rewriting(A), pc = "update", copyFields \subseteq A
  PROVE  CopyWords'
<1>1. Minor /\ Major /\ Forwarded /\ CopyWords /\ Progress /\ pc' \in {"slots", "rewrite"}
  BY Parts DEF Rewriting
<1>2. data' = data /\ objs' = objs /\ fwd_arr' = fwd_arr /\ queue' = queue
  BY RewritingFrame
<1>3. ASSUME NEW o \in Range(queue), NEW a \in fields(o, objs[o].wz)
      PROVE  heap'[fwd_arr[o] + (a - o)] = Image(data[a], objs[o].tag)
  <2> DEFINE x == fwd_arr[o] + (a - o)
  <2>1. /\ x \in Addresses /\ x \notin majorFields /\ (x \in copyFields <=> isScanned(objs[o].tag))
        /\ data[a] \in Nat
    BY <1>1, CopyField
  <2>2. heap[x] = data[a]
    BY <1>1 DEF CopyWords
  <2> HIDE DEF x
  <2>3. heap'[x] = IF x \in A THEN rewritten(heap[x]) ELSE heap[x]
    BY <2>1, RewritingHeap
  <2>4. CASE isScanned(objs[o].tag)
    <3>1. Reached(to_minor_offset(data[a]))
      BY <1>1, <2>4 DEF Progress, ReachedFrom
    <3>2. rewritten(data[a]) = Image(data[a], 0)
      BY <1>1, <2>1, <3>1, RewrittenIs
    <3>3. Image(data[a], 0) = Image(data[a], objs[o].tag)
      BY <2>4 DEF Image, isScanned, no_scan_tag
    <3> QED
      BY <2>1, <2>2, <2>3, <2>4, <3>2, <3>3 DEF x
  <2>5. CASE ~isScanned(objs[o].tag)
    <3>1. x \notin A
      BY <2>1, <2>5 DEF Rewriting
    <3>2. Image(data[a], objs[o].tag) = data[a]
      BY <2>5 DEF Image
    <3> QED
      BY <2>2, <2>3, <3>1, <3>2 DEF x
  <2> QED
    BY <2>4, <2>5
<1>4. \A v, t : Image(v, t)' = Image(v, t)
  BY <1>2 DEF Image
<1> QED
  BY <1>1, <1>2, <1>3, <1>4 DEF CopyWords

\* After the last pass no field of the major heap's objects leads to the minor heap.
LEMMA RewritingMajor ==
  ASSUME IInv, NEW A, Rewriting(A), pc' = "rewrite",
         \A a \in majorFields : is_minor(to_minor_offset(heap[a])) => a \in A
  PROVE  Remembered'
<1>1. Minor /\ Major /\ Forwarded /\ Remembered /\ Progress /\ Control /\ Roots /\ pc \in {"update", "slots"}
  BY Parts DEF Rewriting
<1>2. majorFields' = majorFields /\ slots' = slots
  BY RewritingFrame
<1>3. ASSUME NEW a \in majorFields PROVE ~is_minor(to_minor_offset(heap'[a]))
  <2>1. a \in Addresses
    BY <1>1, UsedBlocks, HeldField DEF majorFields
  <2>2. /\ Sound(heap[a])
        /\ is_minor(to_minor_offset(heap[a])) => to_minor_offset(heap[a]) \in Range(roots)
    BY <1>1 DEF Remembered
  <2>3. heap[a] \in Nat
    BY <2>2 DEF Sound, SoundFor
  <2>4. Reached(to_minor_offset(heap[a]))
    <3>1. \A r \in Range(roots) : Reached(r)
      BY <1>1 DEF Progress, Control
    <3> QED
      BY <2>2, <3>1 DEF Reached
  <2>5. ~is_minor(to_minor_offset(rewritten(heap[a])))
    BY <1>1, <2>3, <2>4, RewrittenIs
  <2>6. heap'[a] = IF a \in A THEN rewritten(heap[a]) ELSE heap[a]
    BY <2>1, RewritingHeap
  <2> QED
    BY <2>5, <2>6
<1> QED
  BY <1>1, <1>2, <1>3 DEF Remembered

\* update_promoted_objects keeps the invariant.
LEMMA UpdatePromotedInv ==
  ASSUME IInv, update_promoted_objects
  PROVE  IInv'
<1>1. Rewriting(copyFields) /\ pc = "update" /\ pc' = "slots"
  BY PromotedFields DEF Rewriting, update_promoted_objects
<1>2. Remembered'
  <2>1. Major /\ Remembered
    BY Parts
  <2>2. /\ majorFields' = majorFields /\ slots' = slots /\ roots' = roots /\ minorPointers' = minorPointers
    BY <1>1, RewritingFrame
  <2>3. ASSUME NEW a \in majorFields PROVE heap'[a] = heap[a]
    <3>1. a \in Addresses
      BY <2>1, UsedBlocks, HeldField DEF majorFields
    <3>2. a \notin copyFields
      BY <2>1, MajorApart DEF majorFields
    <3> QED
      BY <1>1, <3>1, <3>2, RewritingHeap
  <2> QED
    BY <1>1, <2>1, <2>2, <2>3 DEF Remembered, Sound
<1> QED
  BY <1>1, <1>2, RewritingHeap, RewritingParts, RewritingCopies DEF IInv

\* update_all_objects keeps the invariant.
LEMMA UpdateAllInv ==
  ASSUME IInv, update_all_objects
  PROVE  IInv'
<1>1. Rewriting(majorFields \cup copyFields) /\ pc = "update" /\ pc' = "rewrite"
  BY AllFields DEF Rewriting, update_all_objects
<1> DEFINE A == majorFields \cup copyFields
<1>2. Rewriting(A) /\ copyFields \subseteq A /\ majorFields \subseteq A
  BY <1>1
<1> HIDE DEF A
<1>3. Remembered'
  BY <1>1, <1>2, RewritingMajor
<1> QED
  BY <1>1, <1>2, <1>3, RewritingHeap, RewritingParts, RewritingCopies DEF IInv

\* rewrite_heap_slots keeps the invariant.
LEMMA RewriteSlotsInv ==
  ASSUME IInv, rewrite_heap_slots
  PROVE  IInv'
<1>1. Minor /\ Major /\ Remembered /\ CopyWords /\ Control /\ pc = "slots" /\ pc' = "rewrite" /\ ~legacy
  BY Parts DEF rewrite_heap_slots, Control
<1> DEFINE A == Range(slots)
<1>2. A \subseteq majorFields
  BY <1>1 DEF Remembered
<1>3. Rewriting(A)
  <2>1. Rewrites(A)
    BY DEF rewrite_heap_slots, Rewrites
  <2> QED
    BY <1>1, <1>2, <2>1 DEF Rewriting, rewrite_heap_slots
<1>4. Remembered'
  <2>1. \A a \in majorFields : is_minor(to_minor_offset(heap[a])) => a \in A
    BY <1>1 DEF Remembered
  <2> HIDE DEF A
  <2> QED
    BY <1>1, <1>3, <2>1, RewritingMajor
<1>5. CopyWords'
  <2>1. data' = data /\ objs' = objs /\ fwd_arr' = fwd_arr /\ queue' = queue
    BY <1>3, RewritingFrame
  <2>2. ASSUME NEW o \in Range(queue), NEW a \in fields(o, objs[o].wz)
        PROVE  heap'[fwd_arr[o] + (a - o)] = Image(data[a], objs[o].tag)
    <3> DEFINE x == fwd_arr[o] + (a - o)
    <3>1. x \in Addresses /\ x \notin majorFields
      BY <1>1, CopyField
    <3>2. heap[x] = Image(data[a], objs[o].tag)
      BY <1>1 DEF CopyWords
    <3> HIDE DEF x
    <3>3. heap'[x] = heap[x]
      BY <1>2, <1>3, <3>1, RewritingHeap
    <3> QED
      BY <3>2, <3>3 DEF x
  <2>3. \A v, t : Image(v, t)' = Image(v, t)
    BY <2>1 DEF Image
  <2> QED
    BY <1>1, <2>1, <2>2, <2>3 DEF CopyWords
<1> HIDE DEF A
<1> QED
  BY <1>3, <1>4, <1>5, RewritingHeap, RewritingParts DEF IInv

-----------------------------------------------------------------------------
(* The end of the collection *)

\* A root and what it leads to.
LEMMA RootRewritten ==
  ASSUME IInv, pc = "rewrite", NEW q \in Range(roots)
  PROVE  rewritten(q) \in Nat /\ ~is_minor(rewritten(q))
<1>1. Minor /\ Major /\ Roots /\ Forwarded /\ Progress /\ Control
  BY Parts
<1>2. q \in Nat /\ (is_minor(q) => q \in minorPointers)
  BY <1>1, RootIs
<1>3. Reached(q)
  BY <1>1 DEF Progress, Control
<1>4. Reached(to_minor_offset(q))
  <2>1. q \in minorPointers \/ q \in Addresses
    BY <1>1, PointerIs DEF Roots
  <2>2. CASE q \in minorPointers
    BY <1>1, <1>3, <2>2, MinorPointer
  <2>3. CASE q \in Addresses
    <3>1. ~is_minor(to_minor_offset(q))
      BY <1>2, <2>3, Offsets
    <3> QED
      BY <3>1 DEF Reached
  <2> QED
    BY <2>1, <2>2, <2>3
<1>5. rewritten(q) \in Nat /\ ~is_minor(to_minor_offset(rewritten(q)))
  BY <1>1, <1>2, <1>4, RewrittenIs
<1>6. \A v \in Nat : is_minor(v) => is_minor(to_minor_offset(v))
  BY IsMinor, Offsets
<1> QED
  BY <1>5, <1>6

\* rewrite_roots keeps the invariant, and leaves no root in the minor heap.
LEMMA RewriteRootsInv ==
  ASSUME IInv, rewrite_roots
  PROVE  IInv'
<1>1. /\ Minor /\ Major /\ MajorBlocks /\ Remembered /\ Forwarded /\ CopyWords /\ Roots /\ Progress
      /\ Control /\ pc = "rewrite" /\ pc' = "reset"
  BY Parts DEF rewrite_roots
<1>2. /\ UNCHANGED <<minorHeap, objs>> /\ UNCHANGED <<majorHeap, objs, queue>>
      /\ UNCHANGED <<fwd_arr, queue, objs>>
      /\ legacy' = legacy /\ oom' = oom /\ scan' = scan /\ idx' = idx
      /\ objs' = objs /\ data' = data /\ queue' = queue /\ fwd_arr' = fwd_arr
      /\ heap' = heap /\ slots' = slots
      /\ roots' = [i \in DOMAIN roots |-> rewritten(roots[i])]
  BY DEF rewrite_roots, minorHeap, majorHeap
<1>3. /\ minorObjs' = minorObjs /\ majorFields' = majorFields /\ minorPointers' = minorPointers /\ ObjsInv'
  BY <1>1, <1>2, ObjsFrame DEF Minor
<1>4. MinorInv'
  BY <1>1, <1>2, MinorFrame DEF Minor, MinorInv
<1>5. MajorBlocks'
  BY <1>1, <1>2, BlocksFrame
<1>6. Remembered'
  BY <1>1, <1>2, <1>3 DEF Remembered
<1>7. Forwarded'
  <2>1. \A o : infixes(o)' = infixes(o)
    BY <1>2 DEF infixes
  <2>2. (~legacy' \/ pc' \notin {"update", "rewrite", "reset", "done"}) =>
          \A v \in MinorAddresses : fwd_arr[v] # 0 => v \in minorPointers
    BY <1>1, <1>2 DEF Forwarded
  <2> QED
    BY <1>1, <1>2, <1>3, <2>1, <2>2 DEF Forwarded
<1>8. CopyWords'
  <2>1. \A v, t : Image(v, t)' = Image(v, t)
    BY <1>2 DEF Image
  <2> QED
    BY <1>1, <1>2, <2>1 DEF CopyWords
<1>9. Roots'
  <2>1. roots \in Seq(Nat) /\ Len(roots) <= RootCap
    BY <1>1 DEF Roots
  <2>2. DOMAIN roots = 1 .. Len(roots) /\ Len(roots) \in Nat
    BY <2>1
  <2>3. \A i \in 1 .. Len(roots) : rewritten(roots[i]) \in Nat /\ ~is_minor(rewritten(roots[i]))
    BY <1>1, <2>1, SeqRange, RootRewritten
  <2>4. roots' \in [1 .. Len(roots) -> Nat]
    BY <1>2, <2>2, <2>3, Zenon
  <2>5. roots' \in Seq(Nat) /\ Len(roots') = Len(roots)
    BY <2>2, <2>4
  <2>6. \A r \in Range(roots') : ~is_minor(r)
    BY <1>2, <2>2, <2>3, Zenon DEF Range
  <2> QED
    BY <1>1, <2>1, <2>5, <2>6 DEF Roots
<1>10. Progress'
  <2>1. \A o \in Range(queue') : ReachedFrom(o)'
    BY <1>1, <1>2 DEF Progress, ReachedFrom, Reached
  <2> QED
    BY <1>1, <1>2, <2>1 DEF Progress
<1>11. Control'
  BY <1>1, <1>2 DEF Control
<1> QED
  BY <1>3, <1>4, <1>5, <1>6, <1>7, <1>8, <1>9, <1>10, <1>11 DEF IInv

\* A field of the copy and its place in the object.
LEMMA FieldBack ==
  ASSUME NEW o \in Nat, o % 8 = 0, NEW d \in Nat, d % 8 = 0, NEW wz \in Nat,
         NEW x \in fields(d, wz)
  PROVE  o + (x - d) \in fields(o, wz) /\ d + ((o + (x - d)) - o) = x
BY ShiftedField

\* No word of a scanned copy is an address of the minor heap.
LEMMA CopiesClean ==
  ASSUME IInv, pc = "reset", NEW o \in Range(queue), isScanned(objs[o].tag),
         NEW x \in fields(fwd_arr[o], objs[o].wz)
  PROVE  ~is_minor(to_minor_offset(heap[x]))
<1>1. Minor /\ Major /\ Forwarded /\ CopyWords /\ Progress
  BY Parts
<1>2. /\ o \in minorObjs /\ o \in Nat /\ o % 8 = 0 /\ objs[o].wz \in Nat
      /\ fwd_arr[o] \in Nat /\ fwd_arr[o] % 8 = 0
  BY <1>1, UsedBlocks, MinorObject, HeldBlock
<1> DEFINE d == fwd_arr[o]
           wz == objs[o].wz
           a == o + (x - d)
<1>3. a \in fields(o, objs[o].wz) /\ d + (a - o) = x
  <2>1. x \in fields(d, wz) /\ d \in Nat /\ d % 8 = 0 /\ wz \in Nat
    BY <1>2
  <2> HIDE DEF d, wz
  <2>2. o + (x - d) \in fields(o, wz) /\ d + ((o + (x - d)) - o) = x
    BY <1>2, <2>1, FieldBack
  <2> QED
    BY <2>2 DEF wz
<1> HIDE DEF a
<1>4. heap[x] = Image(data[a], objs[o].tag)
  BY <1>1, <1>3 DEF CopyWords
<1>5. data[a] \in Nat /\ Reached(to_minor_offset(data[a]))
  BY <1>1, <1>2, <1>3, MinorField DEF Progress, ReachedFrom
<1>6. Image(data[a], objs[o].tag) = Image(data[a], 0)
  BY DEF Image, isScanned, no_scan_tag
<1> QED
  BY <1>1, <1>4, <1>5, <1>6, RewrittenIs

\* minor_heap_reset keeps the invariant.
LEMMA ResetInv ==
  ASSUME IInv, minor_heap_reset
  PROVE  IInv'
<1>1. /\ Minor /\ Major /\ MajorBlocks /\ Remembered /\ Forwarded /\ CopyWords /\ Roots /\ Progress
      /\ Control /\ pc = "reset" /\ pc' = "done"
  BY Parts DEF minor_heap_reset
<1>2. /\ UNCHANGED <<majorHeap, objs, queue>> /\ UNCHANGED <<fwd_arr, queue, objs>>
      /\ legacy' = legacy /\ oom' = oom /\ scan' = scan /\ idx' = idx /\ roots' = roots
      /\ objs' = objs /\ queue' = queue /\ fwd_arr' = fwd_arr
      /\ heap' = heap /\ slots' = slots
      /\ data' = [a \in MinorAddresses |-> 0] /\ bump' = 0
  BY DEF minor_heap_reset, tracing, majorHeap
<1>3. /\ minorObjs' = minorObjs /\ majorFields' = majorFields /\ minorPointers' = minorPointers /\ ObjsInv'
  BY <1>1, <1>2, ObjsFrame DEF Minor
<1>4. MinorInv'
  <2>1. minorObjs \subseteq MinorAddresses
    BY <1>1, MinorObject
  <2> QED
    BY <1>1, <1>2, <1>3, <2>1 DEF MinorInv
<1>5. MajorBlocks'
  BY <1>1, <1>2, BlocksFrame
<1>6. Remembered'
  BY <1>1, <1>2, <1>3 DEF Remembered
<1>7. Forwarded'
  <2>1. \A o : infixes(o)' = infixes(o)
    BY <1>2 DEF infixes
  <2>2. (~legacy' \/ pc' \notin {"update", "rewrite", "reset", "done"}) =>
          \A v \in MinorAddresses : fwd_arr[v] # 0 => v \in minorPointers
    BY <1>1, <1>2 DEF Forwarded
  <2> QED
    BY <1>1, <1>2, <1>3, <2>1, <2>2 DEF Forwarded
<1>8. CopyWords'
  BY <1>1, <1>2, CopiesClean DEF CopyWords
<1>9. Roots'
  BY <1>1, <1>2 DEF Roots
<1>10. Progress'
  BY <1>1, <1>2 DEF Progress
<1>11. Control'
  BY <1>1, <1>2 DEF Control
<1> QED
  BY <1>3, <1>4, <1>5, <1>6, <1>7, <1>8, <1>9, <1>10, <1>11 DEF IInv

\* A stuttering step keeps the invariant.
LEMMA StutterInv ==
  ASSUME IInv, UNCHANGED vars
  PROVE  IInv'
<1>1. /\ UNCHANGED <<minorHeap, objs>> /\ UNCHANGED <<majorHeap, objs, queue>>
      /\ UNCHANGED <<fwd_arr, queue, objs>> /\ UNCHANGED <<legacy, pc>>
      /\ legacy' = legacy /\ oom' = oom /\ scan' = scan /\ idx' = idx /\ roots' = roots
      /\ objs' = objs /\ queue' = queue /\ fwd_arr' = fwd_arr /\ data' = data /\ bump' = bump
      /\ heap' = heap /\ slots' = slots /\ pc' = pc
  BY DEF vars, minorHeap, majorHeap, tracing
<1>2. /\ minorObjs' = minorObjs /\ majorFields' = majorFields /\ Pointers' = Pointers
      /\ ObjsInv' /\ \A v : Sound(v)' <=> Sound(v)
      /\ \A o : infixes(o)' = infixes(o)
  BY <1>1, ObjsFrame DEF IInv, infixes
<1>3. MinorInv'
  <2>1. (MinorTiled' <=> MinorTiled) /\ (MinorFields' <=> MinorFields)
    BY <1>1, MinorFrame
  <2> QED
    BY <1>1, <1>2, <2>1 DEF IInv, MinorInv
<1>4. MajorBlocks'
  BY <1>1, BlocksFrame DEF IInv
<1>5. Remembered'
  BY <1>1, <1>2 DEF IInv, Remembered
<1>6. Forwarded'
  BY <1>1, ForwardedFrame DEF IInv
<1>7. CopyWords'
  <2>1. \A v, t : Image(v, t)' = Image(v, t)
    BY <1>1 DEF Image
  <2> QED
    BY <1>1, <2>1 DEF IInv, CopyWords
<1>8. Roots'
  BY <1>1, <1>2 DEF IInv, Roots
<1>9. Progress'
  BY <1>1 DEF IInv, Progress, Reached, ReachedFrom, scanWosize, wosizeAt
<1>10. Control'
  BY <1>1 DEF IInv, Control
<1> QED
  BY <1>2, <1>3, <1>4, <1>5, <1>6, <1>7, <1>8, <1>9, <1>10 DEF IInv

\* Every step keeps the invariant.
LEMMA NextInv ==
  ASSUME IInv, [Next]_vars
  PROVE  IInv'
BY GenAllocInv, StoreInv, CollectInv, TranslateInv, ParentsInv, ForwardRootsInv, ScanLoopInv,
   EndPromotionInv, SynthesisInv, UpdatePromotedInv, UpdateAllInv, RewriteSlotsInv,
   RewriteRootsInv, ResetInv, StutterInv DEF Next

\* The invariant holds in every state, whatever the program allocates, stores and
\* keeps as roots, and whichever way the collection runs.
THEOREM Invariance == Spec => []IInv
<1>1. Init => IInv
  BY InitInv
<1>2. IInv /\ [Next]_vars => IInv'
  BY NextInv
<1> QED
  BY <1>1, <1>2, PTL DEF Spec

-----------------------------------------------------------------------------
(* What the invariant says of the properties that TLC checks *)

\* The invariant gives every variable its type.
LEMMA TypeOKHolds ==
  ASSUME IInv
  PROVE  TypeOK
<1>1. ObjsInv /\ MajorHeap /\ Remembered /\ Forwarded /\ Roots /\ Progress /\ Control /\ MinorInv
  BY Parts
<1>2. DOMAIN data = MinorAddresses /\ bump \in MinorAddresses \cup {minor_heap_size}
      /\ minorObjs \subseteq MinorAddresses
  <2>1. CASE pc = "done"
    <3>1. 0 \in MinorAddresses
      BY Constants, MinorAddress
    <3> QED
      BY <1>1, <2>1, <3>1 DEF MinorInv
  <2>2. CASE pc # "done"
    BY <1>1, <2>2 DEF MinorInv, MinorTiled, MinorFields
  <2> QED
    BY <2>1, <2>2
<1>3. DOMAIN heap = Addresses
  BY <1>1, MajorFacts
<1>4. fp_ref = 0 \/ is_valid_fp(fp_ref)
  <2>1. fp_ref \in FreeIn(heap, B) \cup {0}
    BY <1>1, MajorFacts DEF Descending
  <2>2. zero_addr \in Addresses \cup {heap_size} /\ heap_size \in Addresses \cup {heap_size}
    BY AddressFacts
  <2>3. heap \in Words /\ Tiled(heap, B, zero_addr, heap_size)
    BY <1>1, MajorFacts
  <2>4. CASE fp_ref \in FreeIn(heap, B)
    <3>1. fp_ref \in Addresses /\ fp_ref # zero_addr
      BY <2>2, <2>3, <2>4, ListedFacts
    <3> QED
      BY <3>1, ValidPointers
  <2> QED
    BY <2>1, <2>4
<1>5. Range(slots) \subseteq Addresses
  <2>1. slots \in Seq(Addresses)
    BY <1>1 DEF Remembered
  <2> QED
    BY <2>1, SeqRange
<1>6. DOMAIN fwd_arr = MinorAddresses
      /\ \A v \in MinorAddresses : fwd_arr[v] = 0 \/ fwd_arr[v] \in Addresses \cup {heap_size}
  BY <1>1 DEF Forwarded
<1>7. Range(queue) \subseteq MinorAddresses
  <2>1. queue \in Seq(minorObjs)
    BY <1>1 DEF Forwarded
  <2>2. Range(queue) \subseteq minorObjs
    BY <2>1, SeqRange
  <2> QED
    BY <1>2, <2>2
<1> QED
  BY <1>1, <1>2, <1>3, <1>4, <1>5, <1>6, <1>7 DEF TypeOK, Roots, Progress, Control

\* The invariant says what the copies hold.
LEMMA CopiesExactHolds ==
  ASSUME IInv
  PROVE  CopiesExact
<1> SUFFICES ASSUME pc = "rewrite", NEW o \in minorObjs, fwd_arr[o] # 0
             PROVE  /\ heap[hd_address(fwd_arr[o])] = makeHeader(objs[o].wz, White, objs[o].tag)
                    /\ \A a \in fields(o, objs[o].wz) :
                         LET v == to_minor_offset(data[a])
                         IN heap[fwd_arr[o] + (a - o)] =
                              IF isScanned(objs[o].tag) /\ is_minor(v) THEN fwd_arr[v] ELSE data[a]
  BY DEF CopiesExact
<1>1. o \in Range(queue) /\ Major /\ CopyWords
  BY Parts DEF Forwarded
<1>2. heap[hd_address(fwd_arr[o])] = makeHeader(objs[o].wz, White, objs[o].tag)
  BY <1>1, UsedBlocks DEF Holds, HoldsIn
<1>3. \A a \in fields(o, objs[o].wz) : heap[fwd_arr[o] + (a - o)] = Image(data[a], objs[o].tag)
  BY <1>1 DEF CopyWords
<1> QED
  BY <1>2, <1>3 DEF Image

\* The invariant leaves no address of the minor heap in a scanned block or a root.
LEMMA NoMinorLeftHolds ==
  ASSUME IInv
  PROVE  NoMinorLeft
<1> SUFFICES ASSUME pc = "done"
             PROVE  /\ \A p \in scannedBlocks : \A a \in fields(f_address(p), getWosize(heap[p])) :
                         ~is_minor(to_minor_offset(heap[a]))
                    /\ \A r \in Range(roots) : ~is_minor(r)
  BY DEF NoMinorLeft
<1>1. Major /\ Remembered /\ CopyWords /\ Roots
  BY Parts
<1>2. ASSUME NEW p \in scannedBlocks, NEW a \in fields(f_address(p), getWosize(heap[p]))
      PROVE  ~is_minor(to_minor_offset(heap[a]))
  <2>1. CASE \E o \in majorObjs : isScanned(objs[o].tag) /\ f_address(p) = o
                                  /\ getWosize(heap[p]) = objs[o].wz
    <3>1. a \in majorFields
      BY <2>1 DEF majorFields
    <3> QED
      BY <1>1, <3>1 DEF Remembered
  <2>2. CASE \E o \in Range(queue) : isScanned(objs[o].tag) /\ f_address(p) = fwd_arr[o]
                                     /\ getWosize(heap[p]) = objs[o].wz
    BY <1>1, <2>2 DEF CopyWords
  <2> QED
    BY <1>1, <2>1, <2>2, ScannedBlocksAre
<1>3. \A r \in Range(roots) : ~is_minor(r)
  BY <1>1 DEF Roots
<1> QED
  BY <1>2, <1>3

\* Only one action leaves each of these places.
LEMMA TranslateStep ==
  ASSUME IInv, [Next]_vars, pc = "translate", pc' = "roots"
  PROVE  translate_minor_fields
BY DEF Next, vars, gen_alloc, Store, Collect, translate_minor_fields, TranslatePass,
       find_infix_parents, forward_roots, scan_loop, EndPromotion, synthesize_infix_forwarding,
       update_promoted_objects, update_all_objects, rewrite_heap_slots, rewrite_roots,
       minor_heap_reset

\* Only synthesize_infix_forwarding goes from its stage to the next.
LEMMA SynthesisStep ==
  ASSUME IInv, [Next]_vars, pc = "synthesize", pc' = "update"
  PROVE  synthesize_infix_forwarding
BY DEF Next, vars, gen_alloc, Store, Collect, translate_minor_fields, TranslatePass,
       find_infix_parents, forward_roots, scan_loop, EndPromotion, synthesize_infix_forwarding,
       update_promoted_objects, update_all_objects, rewrite_heap_slots, rewrite_roots,
       minor_heap_reset

\* A step out of the first stage of the legacy way is the translation.
LEMMA TranslateExactHolds ==
  ASSUME IInv, [Next]_vars, pc = "translate", pc' = "roots", NEW a \in MinorAddresses
  PROVE  data'[a] = IF \E o \in minorObjs : a \in fields(o, objs[o].wz) /\ isScanned(objs[o].tag)
                    THEN to_minor_offset(data[a]) ELSE data[a]
<1>1. translate_minor_fields /\ Minor
  BY TranslateStep, Parts
<1>2. /\ \A o \in minorObjs : a \in fields(o, objs[o].wz) =>
           data'[a] = IF isScanned(objs[o].tag) THEN to_minor_offset(data[a]) ELSE data[a]
      /\ (\A o \in minorObjs : a \notin fields(o, objs[o].wz)) => data'[a] = data[a]
  BY <1>1, TranslateData
<1> QED
  BY <1>2

\* A step out of that stage records what the property says.
LEMMA SynthesisExactHolds ==
  ASSUME IInv, [Next]_vars, pc = "synthesize", pc' = "update"
  PROVE  /\ \A o \in minorObjs :
              /\ fwd_arr'[o] = fwd_arr[o]
              /\ \A v \in infixes(o) : fwd_arr[o] # 0 => fwd_arr'[v] = fwd_arr[o] + (v - o)
         /\ \A v \in MinorAddresses : fwd_arr[v] # 0 => fwd_arr'[v] = fwd_arr[v]
BY SynthesisStep, Synthesis DEF SynthesisIs

\* What a step leaves of an object of the major heap.
Kept ==
  \A o \in majorObjs : \A a \in fields(o, objs[o].wz) :
    \/ heap'[a] = heap[a]
    \/ /\ isScanned(objs[o].tag) /\ is_minor(to_minor_offset(heap[a]))
       /\ heap'[a] = fwd_arr[to_minor_offset(heap[a])]

\* A pass that rewrites fields keeps the objects of the major heap.
LEMMA RewritingKept ==
  ASSUME IInv, NEW A, Rewriting(A)
  PROVE  Kept
<1> SUFFICES ASSUME NEW o \in majorObjs, NEW a \in fields(o, objs[o].wz), heap'[a] # heap[a]
             PROVE  /\ isScanned(objs[o].tag) /\ is_minor(to_minor_offset(heap[a]))
                    /\ heap'[a] = fwd_arr[to_minor_offset(heap[a])]
  BY DEF Kept
<1>1. Major /\ MajorHeap /\ Forwarded /\ heap \in [Addresses -> Nat]
  BY Parts, MajorFacts
<1>2. a \in Addresses
  BY <1>1, UsedBlocks, HeldField
<1>3. a \in A /\ heap'[a] = rewritten(heap[a])
  BY <1>2, RewritingHeap
<1>4. isScanned(objs[o].tag)
  BY <1>1, <1>3, MajorApart DEF Rewriting
<1> QED
  BY <1>1, <1>2, <1>3, <1>4, RewrittenIs

\* forward_roots keeps them: allocate carves free blocks only.
LEMMA ForwardRootsKept ==
  ASSUME IInv, forward_roots
  PROVE  Kept
<1>1. Minor /\ Major /\ Roots /\ pc = "roots" /\ idx \in Nat \ {0} /\ roots \in Seq(Nat)
  BY Parts DEF forward_roots, Progress, Roots
<1>2. CASE idx <= Len(roots)
  <2>1. forward_if_minor(roots[idx]) /\ pc' = pc /\ Tracing
    BY <1>2 DEF forward_roots, Tracing
  <2>2. idx \in 1 .. Len(roots)
    BY <1>1, <1>2
  <2>3. roots[idx] \in Range(roots)
    BY <1>1, <2>2, SeqRange
  <2>4. is_minor(roots[idx]) => roots[idx] \in minorPointers
    BY <1>1, <2>3, RootIs
  <2>5. ForwardedOne(roots[idx])
    BY <1>1, <2>1, <2>4, ForwardInv
  <2> QED
    BY <2>5 DEF ForwardedOne, Kept
<1>3. CASE ~(idx <= Len(roots))
  BY <1>3 DEF forward_roots, majorHeap, Kept
<1> QED
  BY <1>2, <1>3

\* So does scan_loop.
LEMMA ScanLoopKept ==
  ASSUME IInv, scan_loop
  PROVE  Kept
<1> DEFINE o == queue[scan]
           a == o + (idx - 1) * WordBytes
<1>1. /\ Minor /\ Major /\ MinorFields /\ pc = "scan" /\ pc' = "scan" /\ Tracing
      /\ scan <= Len(queue) /\ queue \in Seq(minorObjs)
      /\ scan \in 1 .. Len(queue) + 1 /\ idx \in Nat \ {0}
  BY Parts DEF scan_loop, Tracing, Progress, Minor, Major
<1>2. o \in minorObjs
  <2>1. scan \in 1 .. Len(queue)
    BY <1>1
  <2> QED
    BY <1>1, <2>1
<1>3. CASE idx <= scanWosize(o)
  <2>1. forward_if_minor(to_minor_offset(data[a]))
    BY <1>3 DEF scan_loop
  <2> HIDE DEF o
  <2>2. /\ scanWosize(o) = (IF isScanned(objs[o].tag) THEN objs[o].wz ELSE 0)
        /\ o \in Nat /\ o % 8 = 0 /\ objs[o].wz \in Nat
    BY <1>1, <1>2, ScanningIs DEF Scanning
  <2>3. isScanned(objs[o].tag) /\ idx - 1 \in 0 .. objs[o].wz - 1 /\ a = o + WordBytes * (idx - 1)
    BY <1>1, <1>3, <2>2 DEF WordBytes
  <2>4. a \in fields(o, objs[o].wz)
    BY <2>3 DEF fields
  <2> HIDE DEF a
  <2>5. Sound(data[a])
    BY <1>1, <1>2, <2>3, <2>4 DEF MinorFields
  <2>6. is_minor(to_minor_offset(data[a])) => to_minor_offset(data[a]) \in minorPointers
    BY <2>5, SoundPointer
  <2>7. ForwardedOne(to_minor_offset(data[a]))
    BY <1>1, <2>1, <2>6, ForwardInv
  <2> QED
    BY <2>7 DEF ForwardedOne, Kept
<1>4. CASE ~(idx <= scanWosize(o))
  <2>1. heap' = heap
    BY <1>4 DEF scan_loop, majorHeap
  <2> QED
    BY <2>1 DEF Kept
<1> QED
  BY <1>3, <1>4

\* So does every step of a collection.
LEMMA MajorKeptHolds ==
  ASSUME IInv, [Next]_vars, pc # "mutator"
  PROVE  Kept
<1>1. ASSUME heap' = heap PROVE Kept
  BY <1>1 DEF Kept
<1>2. CASE gen_alloc \/ Store \/ Collect
  BY <1>2 DEF gen_alloc, Store, Collect
<1>3. CASE translate_minor_fields \/ find_infix_parents \/ EndPromotion \/ synthesize_infix_forwarding
           \/ rewrite_roots \/ minor_heap_reset \/ UNCHANGED vars
  BY <1>1, <1>3 DEF translate_minor_fields, TranslatePass, find_infix_parents, EndPromotion,
     synthesize_infix_forwarding, rewrite_roots, minor_heap_reset, vars, majorHeap
<1>4. CASE forward_roots
  BY <1>4, ForwardRootsKept
<1>5. CASE scan_loop
  BY <1>5, ScanLoopKept
<1>6. CASE update_promoted_objects
  <2>1. Rewriting(copyFields)
    BY <1>6, PromotedFields DEF Rewriting, update_promoted_objects
  <2> QED
    BY <2>1, RewritingKept
<1>7. CASE update_all_objects
  <2>1. Rewriting(majorFields \cup copyFields)
    BY <1>7, AllFields DEF Rewriting, update_all_objects
  <2> QED
    BY <2>1, RewritingKept
<1>8. CASE rewrite_heap_slots
  <2>1. Remembered /\ Control /\ pc = "slots" /\ ~legacy
    BY <1>8, Parts DEF rewrite_heap_slots, Control
  <2>2. Rewriting(Range(slots))
    BY <1>8, <2>1 DEF Rewriting, Rewrites, rewrite_heap_slots, Remembered
  <2> QED
    BY <2>2, RewritingKept
<1> QED
  BY <1>2, <1>3, <1>4, <1>5, <1>6, <1>7, <1>8 DEF Next

-----------------------------------------------------------------------------
(* The theorems *)

\* Every variable keeps its type: no walk, promotion or rewriting leaves its heap,
\* and the root array never holds more than its capacity.
THEOREM TypeCorrect == Spec => []TypeOK
<1>1. IInv => TypeOK
  BY TypeOKHolds
<1> QED
  BY <1>1, Invariance, PTL

\* When the promotion of a legacy collection starts, the roots are pointers of the
\* program, with the closure of every infix header of the minor heap unless the
\* array is full: find_infix_parents adds no word that is not an object.
THEOREM ParentsAdded == Spec => []ParentsFound
<1>1. IInv => ParentsFound
  BY DEF IInv, Roots, ParentsFound
<1> QED
  BY <1>1, Invariance, PTL

\* Both ways of a collection leave the same copy of each promoted object: its
\* header, its raw data, its immediates, and the new addresses of its pointers.
THEOREM CopiesFaithful == Spec => []CopiesExact
<1>1. IInv => CopiesExact
  BY CopiesExactHolds
<1> QED
  BY <1>1, Invariance, PTL

\* After either way, no scanned block of the major heap and no root holds an
\* address of the minor heap, which is then reset.
THEOREM NoDanglingPointer == Spec => []NoMinorLeft
<1>1. IInv => NoMinorLeft
  BY NoMinorLeftHolds
<1> QED
  BY <1>1, Invariance, PTL

\* translate_minor_fields rewrites the scanned fields of the objects as promotion
\* would read them, and no other word.
THEOREM TranslationFaithful == Spec => TranslateExact
<1>1. IInv /\ [Next]_vars =>
        (pc = "translate" /\ pc' = "roots" =>
           \A a \in MinorAddresses :
             data'[a] = IF \E o \in minorObjs : a \in fields(o, objs[o].wz) /\ isScanned(objs[o].tag)
                        THEN to_minor_offset(data[a]) ELSE data[a])
  BY TranslateExactHolds
<1> QED
  BY <1>1, Invariance, PTL DEF Spec, TranslateExact

\* synthesize_infix_forwarding records for each infix header of a promoted closure
\* the place it has in the copy, and changes no entry that promotion recorded.
THEOREM SynthesisFaithful == Spec => SynthesisExact
<1>1. IInv /\ [Next]_vars =>
        (pc = "synthesize" /\ pc' = "update" =>
           /\ \A o \in minorObjs :
                /\ fwd_arr'[o] = fwd_arr[o]
                /\ \A v \in infixes(o) : fwd_arr[o] # 0 => fwd_arr'[v] = fwd_arr[o] + (v - o)
           /\ \A v \in MinorAddresses : fwd_arr[v] # 0 => fwd_arr'[v] = fwd_arr[v])
  BY SynthesisExactHolds
<1> QED
  BY <1>1, Invariance, PTL DEF Spec, SynthesisExact

\* No step of a collection changes an object that was in the major heap but for its
\* pointers into the minor heap, which become the new addresses.
THEOREM MajorObjectsKept == Spec => MajorKept
<1>1. IInv /\ [Next]_vars =>
        (pc # "mutator" =>
           \A o \in majorObjs : \A a \in fields(o, objs[o].wz) :
             \/ heap'[a] = heap[a]
             \/ /\ isScanned(objs[o].tag) /\ is_minor(to_minor_offset(heap[a]))
                /\ heap'[a] = fwd_arr[to_minor_offset(heap[a])])
  BY MajorKeptHolds DEF Kept
<1> QED
  BY <1>1, Invariance, PTL DEF Spec, MajorKept
=============================================================================
