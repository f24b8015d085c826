--------------------------- MODULE MajorHeapProofs ---------------------------
(***************************************************************************)
(* Theorems about the major heap of module MajorHeap, for heaps of any     *)
(* length and requests of any size but zero: run zero_size shows what a    *)
(* request of size zero does.                                              *)
(*                                                                         *)
(* The invariant says that a set of headers tiles the heap, that what is   *)
(* not in use is free and coalesced, and that the free list goes down in   *)
(* addresses from block to block without leaving one out.  During a sweep  *)
(* it says this of the part behind the run of free words that is being     *)
(* collected, and of the part from current on only that a set of headers   *)
(* tiles it.                                                               *)
(***************************************************************************)
EXTENDS MajorHeap, HeapLemmas

(* Parts of a heap h, which need not be the current one *)

\* Blocks in use, with their first fields in O, are white, the others free.
Settled(h, B, O) ==
  \A a \in B : getColor(h[a]) = IF f_address(a) \in O THEN White ELSE Blue

\* Blocks in use are black, the others are not.
Unswept(h, B, O) ==
  \A a \in B : getColor(h[a]) = Black <=> f_address(a) \in O

Coalesced(h, B) ==
  \A a, b \in B : getColor(h[a]) = Blue /\ getColor(h[b]) = Blue => nextHeader(h, a) # b

\* No free block ends at e.
NoFreeBefore(h, B, e) == \A a \in B : nextHeader(h, a) = e => getColor(h[a]) # Blue

\* The objects obj lie in blocks of B and hold what they should.
Intact(h, B, obj) ==
  \A o \in DOMAIN obj :
    /\ hd_address(o) \in B
    /\ getWosize(h[hd_address(o)]) = obj[o].wz
    /\ getTag(h[hd_address(o)]) = obj[o].tag
    /\ \A i \in 0 .. obj[o].wz - 1 : h[o + WordBytes * i] = Val_unit

-----------------------------------------------------------------------------
(* The inductive invariant *)

\* A search has passed what does not fit, and has fuel for the rest of the list.
SearchInv(F) ==
  pc = "search" =>
    /\ cur_fp \in F \cup {0}
    /\ \/ prev_fp = 0 /\ cur_fp = fp_ref
       \/ prev_fp \in F /\ heap[prev_fp] = cur_fp
    /\ fuel * WordBytes > cur_fp
    /\ \A o \in F : o > cur_fp => getWosize(heap[hd_address(o)]) < normalised(req.wz)

HeapInv ==
  pc # "sweep" =>
    \E B \in SUBSET Addresses :
      /\ Tiled(heap, B, zero_addr, heap_size)
      /\ HaveField(B)
      /\ Settled(heap, B, DOMAIN live)
      /\ Coalesced(heap, B)
      /\ Intact(heap, B, live)
      /\ Descending(heap, FreeIn(heap, B), fp_ref)
      /\ SearchInv(FreeIn(heap, B))

\* Where the pending run of free words starts.
runStart == IF rw = 0 THEN current ELSE hd_address(fb)

SweepInv ==
  pc = "sweep" =>
    /\ runStart \in Addresses \cup {heap_size}
    /\ current = runStart + rw * WordBytes
    /\ rw # 0 => fb \in Addresses
    /\ \E P, U \in SUBSET Addresses :
         /\ Tiled(heap, P, zero_addr, runStart)
         /\ HaveField(P \cup U)
         /\ Settled(heap, P, DOMAIN live)
         /\ Coalesced(heap, P)
         /\ NoFreeBefore(heap, P, runStart)
         /\ Descending(heap, FreeIn(heap, P), fp)
         /\ Tiled(heap, U, current, heap_size)
         /\ Unswept(heap, U, DOMAIN live)
         /\ Intact(heap, P \cup U, live)

\* Which calls are under way.
CallInv ==
  /\ pc = "mutator" => req = NoRequest
  /\ pc = "search" => req # NoRequest
  /\ pc \in {"mark", "sweep"} /\ req # NoRequest => retried

IInv == TypeOK /\ HeapInv /\ SweepInv /\ CallInv

-----------------------------------------------------------------------------
(* Writes that leave a part of the heap alone *)

LEMMA HeadersFrame ==
  ASSUME NEW h, NEW g, NEW P, NEW O, NEW e, \A a \in P : g[a] = h[a]
  PROVE  /\ Settled(h, P, O) => Settled(g, P, O)
         /\ Unswept(h, P, O) => Unswept(g, P, O)
         /\ Coalesced(h, P) => Coalesced(g, P)
         /\ NoFreeBefore(h, P, e) => NoFreeBefore(g, P, e)
<1>1. \A a \in P : nextHeader(g, a) = nextHeader(h, a)
  BY DEF nextHeader
<1>2. Settled(h, P, O) => Settled(g, P, O)
  BY DEF Settled
<1>3. Unswept(h, P, O) => Unswept(g, P, O)
  BY DEF Unswept
<1>4. Coalesced(h, P) => Coalesced(g, P)
  BY <1>1 DEF Coalesced
<1>5. NoFreeBefore(h, P, e) => NoFreeBefore(g, P, e)
  BY <1>1 DEF NoFreeBefore
<1> QED
  BY <1>2, <1>3, <1>4, <1>5

\* An object keeps what it holds if the size and tag of its header and the
\* words behind it stay.
LEMMA IntactFrame ==
  ASSUME NEW h \in Words, NEW g \in Words, NEW B, NEW C, NEW obj,
         \A o \in DOMAIN obj : o \in Addresses /\ obj[o].wz \in Nat,
         Intact(h, B, obj), B \subseteq Addresses, B \subseteq C,
         \A a \in B : nextHeader(h, a) <= heap_size,
         \A a \in B : f_address(a) \in DOMAIN obj =>
            /\ getWosize(g[a]) = getWosize(h[a]) /\ getTag(g[a]) = getTag(h[a])
            /\ \A x \in Addresses : a < x /\ x < nextHeader(h, a) => g[x] = h[x]
  PROVE  Intact(g, C, obj)
<1> SUFFICES ASSUME NEW o \in DOMAIN obj
             PROVE  /\ hd_address(o) \in C
                    /\ getWosize(g[hd_address(o)]) = obj[o].wz
                    /\ getTag(g[hd_address(o)]) = obj[o].tag
                    /\ \A i \in 0 .. obj[o].wz - 1 : g[o + WordBytes * i] = Val_unit
  BY DEF Intact
<1> DEFINE a == hd_address(o)
<1>1. o \in Addresses /\ obj[o].wz \in Nat /\ o \in Nat
  BY AddressFacts
<1>2. a \in B /\ f_address(a) = o /\ o = a + 8 /\ a \in Addresses
  BY <1>1, HeaderAddress DEF Intact
<1>3. /\ getWosize(h[a]) = obj[o].wz /\ getTag(h[a]) = obj[o].tag
      /\ \A i \in 0 .. obj[o].wz - 1 : h[o + WordBytes * i] = Val_unit
  BY DEF Intact
<1>4. /\ getWosize(g[a]) = getWosize(h[a]) /\ getTag(g[a]) = getTag(h[a])
      /\ \A x \in Addresses : a < x /\ x < nextHeader(h, a) => g[x] = h[x]
  BY <1>2
<1>5. nextHeader(h, a) = o + 8 * obj[o].wz /\ nextHeader(h, a) <= heap_size /\ a \in Nat /\ heap_size \in Nat
  BY <1>1, <1>2, <1>3, Sizes, AddressFacts
<1> HIDE DEF a
<1>6. ASSUME NEW i \in 0 .. obj[o].wz - 1
      PROVE  g[o + WordBytes * i] = Val_unit
  <2>1. o + 8 * i >= o /\ o + 8 * i < nextHeader(h, a)
    BY <1>1, <1>5
  <2>2. o >= zero_addr /\ zero_addr \in Nat
    BY <1>1, AddressFacts, HeapAssumption
  <2>3. o + 8 * i \in Addresses
    BY <1>1, <1>5, <2>1, <2>2, Shifted
  <2>4. g[o + 8 * i] = h[o + 8 * i]
    BY <1>1, <1>2, <1>4, <1>5, <2>1, <2>3
  <2> QED
    BY <1>3, <2>4 DEF WordBytes
<1> QED
  BY <1>2, <1>3, <1>4, <1>6 DEF a

-----------------------------------------------------------------------------
(* flush_blue_impl *)

\* The headers of the part behind the run, the run included once it is a block.
WithRun(P, w, s) == IF w = 0 THEN P ELSE P \cup {s}

\* Flushing the run of w words at s, whose first field is b, turns it into one
\* free block, links it if it has a field, and writes nothing else.
LEMMA FlushSound ==
  ASSUME NEW h \in Words, NEW P, NEW O, NEW w \in Nat, NEW b \in Addresses \cup {0}, NEW f,
         NEW s \in Addresses \cup {heap_size}, NEW e \in Addresses \cup {heap_size},
         e = s + 8 * w, w # 0 => b \in Addresses /\ s = hd_address(b),
         w # 0 => b \notin O,
         Tiled(h, P, zero_addr, s), HaveField(P), Settled(h, P, O), Coalesced(h, P),
         NoFreeBefore(h, P, s), Descending(h, FreeIn(h, P), f),
         NEW g, g = flushedHeap(h, b, w, f), NEW Q, Q = WithRun(P, w, s)
  PROVE  /\ g \in Words
         /\ \A x \in Addresses : x < s \/ x >= e => g[x] = h[x]
         /\ Tiled(g, Q, zero_addr, e)
         /\ HaveField(Q)
         /\ Settled(g, Q, O)
         /\ Coalesced(g, Q)
         /\ Descending(g, FreeIn(g, Q), flushedFp(b, w, f))
<1>1. /\ s \in Nat /\ e \in Nat /\ heap_size \in Nat /\ zero_addr \in Nat
      /\ zero_addr \in Addresses /\ b \in Nat
      /\ \A x \in Addresses : x \in Nat
  BY AddressFacts
<1>2. FreeIn(h, P) \subseteq Addresses
  BY ListedFacts, <1>1
<1>3. f \in Nat
  <2>1. f \in FreeIn(h, P) \cup {0}
    BY DEF Descending
  <2>2. CASE f \in FreeIn(h, P)
    BY <1>1, <1>2, <2>2
  <2> QED
    BY <2>1, <2>2
<1>4. w # 0 => b = s + 8 /\ s \in Addresses /\ s >= zero_addr
  <2>1. SUFFICES ASSUME w # 0 PROVE b = s + 8 /\ s \in Addresses /\ s >= zero_addr
    OBVIOUS
  <2>2. b = s + 8
    BY <2>1, HeaderAddress
  <2>3. b < heap_size + 8
    BY <2>1, AddressFacts
  <2>4. s # heap_size
    BY <2>1, <2>2, AddressFacts
  <2>5. s \in Addresses
    BY <2>4
  <2> QED
    BY <2>2, <2>5, AddressFacts
<1>5. w = 0 => g = h
  BY DEF flushedHeap, Words
<1>6. g \in Words
  BY <1>3, HeaderParts, SMTT(40) DEF flushedHeap, Words, Blue
<1>7. ASSUME NEW x \in Addresses, x < s \/ x >= e
      PROVE  g[x] = h[x]
  <2>1. CASE w = 0
    BY <1>5, <2>1
  <2>2. CASE w # 0
    <3>1. x \in Nat /\ b = s + 8 /\ hd_address(b) = s /\ e = s + 8 * w /\ w >= 1
      BY <1>1, <1>4, <2>2
    <3>2. x # s
      BY <1>7, <3>1, <1>1
    <3>3. ~ (w >= 2 /\ x = b)
      BY <1>7, <3>1, <1>1
    <3>4. ~ (w >= 3 /\ x > b /\ x < b + 8 * (w - 1))
      BY <1>7, <3>1, <1>1
    <3> QED
      BY <3>1, <3>2, <3>3, <3>4 DEF flushedHeap, WordBytes
  <2> QED
    BY <2>1, <2>2
<1>8. CASE w = 0
  <2>1. e = s /\ Q = P /\ g = h /\ flushedFp(b, w, f) = f
    BY <1>1, <1>5, <1>8 DEF WithRun, flushedFp
  <2> QED
    BY <1>6, <1>7, <2>1
<1>9. CASE w # 0
  <2>1. /\ b = s + 8 /\ hd_address(b) = s /\ s \in Addresses /\ b \in Addresses
        /\ Q = P \cup {s} /\ w - 1 \in Nat
    BY <1>4, <1>9 DEF WithRun
  <2>2. g[s] = makeHeader(w - 1, Blue, 0)
    <3>1. w >= 1 /\ ~ (w >= 2 /\ s = b) /\ ~ (w >= 3 /\ s > b)
      BY <1>1, <1>9, <2>1
    <3> QED
      BY <2>1, <3>1 DEF flushedHeap
  <2>3. getWosize(g[s]) = w - 1 /\ getColor(g[s]) = Blue
    BY <2>1, <2>2, HeaderParts, SMTT(40) DEF Blue
  <2>4. nextHeader(g, s) = e
    BY <1>1, <2>3 DEF nextHeader, WordBytes
  <2>5. /\ Tiled(g, P, zero_addr, s) /\ FreeIn(g, P) = FreeIn(h, P)
        /\ \A o \in FreeIn(h, P) : g[o] = h[o]
        /\ Settled(g, P, O) /\ Coalesced(g, P) /\ NoFreeBefore(g, P, s)
    <3>1. \A x \in Addresses : zero_addr <= x /\ x < s => g[x] = h[x]
      BY <1>7
    <3>2. zero_addr \in Addresses \cup {heap_size}
      BY <1>1
    <3>3. /\ \A a \in P : g[a] = h[a]
          /\ Tiled(g, P, zero_addr, s) /\ FreeIn(g, P) = FreeIn(h, P)
          /\ \A o \in FreeIn(h, P) : g[o] = h[o]
      BY <1>6, <3>1, <3>2, PartFrame
    <3> QED
      BY <3>3, HeadersFrame
  <2>6. Tiled(g, {s}, s, e)
    BY <1>6, <2>1, <2>4, TiledOne
  <2>7. Tiled(g, Q, zero_addr, e)
    <3>1. zero_addr \in Addresses \cup {heap_size} /\ s \in Addresses \cup {heap_size}
      BY <1>1
    <3> QED
      BY <1>6, <2>1, <2>5, <2>6, <3>1, TiledJoin
  <2>8. f_address(s) = b
    BY <2>1, HeaderAddress
  <2>9. HaveField(Q)
    BY <2>1, <2>8 DEF HaveField
  <2>10. Settled(g, Q, O)
    BY <1>9, <2>1, <2>3, <2>5, <2>8 DEF Settled
  <2>11. \A a \in P : a \in Nat /\ a < s /\ a \in Addresses
    BY <1>1, <2>5 DEF Tiled
  <2>12. Coalesced(g, Q)
    <3> SUFFICES ASSUME NEW c \in Q, NEW d \in Q,
                        getColor(g[c]) = Blue, getColor(g[d]) = Blue, nextHeader(g, c) = d
                 PROVE  FALSE
      BY DEF Coalesced
    <3>1. c # s
      <4>1. e > s
        BY <1>1, <1>9
      <4> QED
        BY <1>1, <2>1, <2>4, <2>11, <4>1
    <3>2. c \in P
      BY <2>1, <3>1
    <3>3. d # s
      BY <2>5, <3>2 DEF NoFreeBefore
    <3> QED
      BY <2>1, <2>5, <3>2, <3>3 DEF Coalesced
  <2>13. FreeIn(g, Q) = IF w >= 2 THEN FreeIn(h, P) \cup {b} ELSE FreeIn(h, P)
    <3>1. FreeIn(g, Q) = FreeIn(g, P) \cup {f_address(a) : a \in {c \in {s} : getColor(g[c]) = Blue /\ getWosize(g[c]) >= 1}}
      BY <2>1 DEF FreeIn
    <3>2. CASE w >= 2
      <4>1. getColor(g[s]) = Blue /\ getWosize(g[s]) >= 1
        BY <2>3, <3>2
      <4> QED
        BY <2>5, <2>8, <3>1, <3>2, <4>1
    <3>3. CASE ~ (w >= 2)
      <4>1. ~ (getWosize(g[s]) >= 1)
        BY <2>3, <3>3
      <4> QED
        BY <2>5, <3>1, <3>3, <4>1
    <3> QED
      BY <3>2, <3>3
  <2>14. Descending(g, FreeIn(g, Q), flushedFp(b, w, f))
    <3>1. CASE w >= 2
      <4>1. g[b] = f
        BY <1>1, <2>1, <3>1 DEF flushedHeap
      <4>2. ASSUME NEW o \in FreeIn(h, P)
            PROVE  o < b /\ g[o] = h[o]
        <5>1. /\ hd_address(o) \in P /\ o \in Addresses
              /\ o + 8 <= nextHeader(h, hd_address(o))
          BY <1>1, ListedFacts
        <5>2. nextHeader(h, hd_address(o)) <= s
          BY <1>1, <5>1, TileBounds
        <5>3. nextHeader(h, hd_address(o)) \in Nat
          BY <2>11, <5>1, Sizes
        <5> QED
          BY <1>1, <2>1, <2>5, <5>1, <5>2, <5>3
      <4>3. FreeIn(h, P) \in SUBSET Nat /\ b \in Nat /\ b > 0
        <5>1. \A x \in FreeIn(h, P) : x \in Nat
          BY <1>1, <1>2
        <5> QED
          BY <1>1, <2>1, <5>1
      <4>4. Descending(g, FreeIn(h, P) \cup {b}, b)
        BY <1>1, <4>1, <4>2, <4>3, DescendingPush
      <4> QED
        BY <2>13, <3>1, <4>4 DEF flushedFp
    <3>2. CASE ~ (w >= 2)
      BY <2>5, <2>13, <3>2, DescendingFrame DEF flushedFp
    <3> QED
      BY <3>1, <3>2
  <2> QED
    BY <1>6, <1>7, <1>9, <2>7, <2>9, <2>10, <2>12, <2>14
<1> QED
  BY <1>8, <1>9

-----------------------------------------------------------------------------
(* The steps *)

LEMMA LiveType ==
  ASSUME TypeOK
  PROVE  /\ heap \in Words
         /\ \A o \in DOMAIN live :
              /\ o \in Addresses /\ live[o] \in [wz : Requests, tag : Tags]
              /\ live[o].wz \in Requests /\ live[o].wz \in Nat /\ live[o].tag \in 0 .. 255
BY RequestAssumption DEF TypeOK, Words

LEMMA InitInv ==
  ASSUME Init
  PROVE  IInv
<1>1. /\ heap_size \in Nat /\ zero_addr \in Addresses /\ zero_addr \in Nat
      /\ HeapWords \in Nat /\ HeapWords >= 2 /\ heap_size = zero_addr + 8 * HeapWords
  BY AddressFacts, HeapAssumption DEF heap_size, WordBytes
<1>2. f_address(zero_addr) = zero_addr + 8 /\ zero_addr + 8 \in Addresses
  <2>1. zero_addr + 8 * 1 >= zero_addr /\ zero_addr + 8 * 1 < heap_size
    BY <1>1
  <2>2. zero_addr + 8 * 1 \in Addresses
    BY <1>1, <2>1, Shifted
  <2> QED
    BY <1>1, <2>2 DEF f_address, WordBytes
<1>3. fp_ref = zero_addr + 8
  BY DEF Init, WordBytes
<1>4. HeapWords - 1 \in Nat /\ Blue \in 0 .. 3 /\ 0 \in 0 .. 255
  BY <1>1 DEF Blue
<1>5. /\ makeHeader(HeapWords - 1, Blue, 0) \in Nat
      /\ getWosize(makeHeader(HeapWords - 1, Blue, 0)) = HeapWords - 1
      /\ getColor(makeHeader(HeapWords - 1, Blue, 0)) = Blue
  BY <1>4, HeaderParts, ZenonT(60)
<1>6. heap \in Words /\ DOMAIN live = {}
  BY <1>5 DEF Init, Words
<1>7. heap[zero_addr] = makeHeader(HeapWords - 1, Blue, 0) /\ heap[zero_addr + 8] = 0
  BY <1>1, <1>2 DEF Init
<1>8. nextHeader(heap, zero_addr) = heap_size
  BY <1>1, <1>5, <1>7 DEF nextHeader, WordBytes
<1>9. TypeOK
  <2>1. heap_size \div WordBytes \in Nat
    BY <1>1 DEF WordBytes
  <2>2. /\ fp_ref \in Addresses /\ {prev_fp, cur_fp, fb, fp} \subseteq Addresses \cup {0}
        /\ current \in Addresses \cup {0, heap_size}
    BY <1>2, <1>3 DEF Init
  <2>3. fuel \in 0 .. heap_size \div WordBytes /\ rw \in 0 .. HeapWords
    BY <1>1, <2>1 DEF Init
  <2>4. pc = "mutator" /\ req = NoRequest /\ retried = FALSE
    BY DEF Init
  <2> QED
    BY <1>6, <2>2, <2>3, <2>4 DEF TypeOK, Words
<1>10. HeapInv
  <2> DEFINE B == {zero_addr}
  <2>1. Tiled(heap, B, zero_addr, heap_size)
    BY <1>1, <1>6, <1>8, TiledOne
  <2>2. HaveField(B)
    BY <1>2 DEF HaveField
  <2>3. Settled(heap, B, DOMAIN live)
    BY <1>5, <1>6, <1>7 DEF Settled
  <2>4. Coalesced(heap, B)
    BY <1>1, <1>8 DEF Coalesced
  <2>5. Intact(heap, B, live)
    BY <1>6 DEF Intact
  <2>6. FreeIn(heap, B) = {zero_addr + 8}
    BY <1>1, <1>2, <1>5, <1>7 DEF FreeIn
  <2>7. Descending(heap, FreeIn(heap, B), fp_ref)
    BY <1>1, <1>3, <1>7, <2>6 DEF Descending
  <2>8. SearchInv(FreeIn(heap, B))
    BY DEF SearchInv, Init
  <2>9. B \in SUBSET Addresses
    BY <1>1
  <2> QED
    BY <2>1, <2>2, <2>3, <2>4, <2>5, <2>7, <2>8, <2>9 DEF HeapInv
<1>11. SweepInv /\ CallInv
  BY DEF Init, SweepInv, CallInv
<1> QED
  BY <1>9, <1>10, <1>11 DEF IInv

\* What a search starts from.
LEMMA SearchStarts ==
  ASSUME NEW h \in Words, NEW F \in SUBSET Addresses, NEW head, Descending(h, F, head)
  PROVE  /\ head \in Addresses \cup {0}
         /\ (heap_size \div WordBytes) * WordBytes > head
         /\ heap_size \div WordBytes \in 0 .. heap_size \div WordBytes
         /\ \A o \in F : ~ (o > head)
<1>1. heap_size \in Nat /\ heap_size % 8 = 0 /\ heap_size > 0
  BY AddressFacts
<1>2. head \in F \cup {0} /\ \A o \in F : o <= head
  BY DEF Descending
<1>3. head \in Nat /\ head < heap_size
  BY <1>1, <1>2, AddressFacts
<1>4. \A o \in F : o \in Nat
  BY AddressFacts
<1>5. (heap_size \div 8) * 8 = heap_size /\ heap_size \div 8 \in Nat
  BY <1>1
<1> QED
  BY <1>2, <1>3, <1>4, <1>5 DEF WordBytes

\* Outside a sweep, a step that changes neither heap nor free list nor objects
\* keeps the invariant if it keeps what is said of searches.
LEMMA SameHeap ==
  ASSUME IInv, pc # "sweep", pc' # "sweep", UNCHANGED <<heap, fp_ref, live>>,
         \A F \in SUBSET Addresses :
           Descending(heap, F, fp_ref) /\ SearchInv(F) => SearchInv(F)'
  PROVE  HeapInv' /\ SweepInv'
<1>1. PICK B \in SUBSET Addresses :
        /\ Tiled(heap, B, zero_addr, heap_size)
        /\ HaveField(B)
        /\ Settled(heap, B, DOMAIN live)
        /\ Coalesced(heap, B)
        /\ Intact(heap, B, live)
        /\ Descending(heap, FreeIn(heap, B), fp_ref)
        /\ SearchInv(FreeIn(heap, B))
  BY DEF IInv, HeapInv
<1>2. FreeIn(heap, B) \in SUBSET Addresses
  <2>1. heap \in Words /\ zero_addr \in Addresses
    BY AddressFacts, LiveType DEF IInv
  <2> QED
    BY <1>1, <2>1, ListedFacts
<1>3. PICK F \in SUBSET Addresses : F = FreeIn(heap, B)
  BY <1>2
<1>4. SearchInv(F)'
  BY <1>1, <1>3
<1> QED
  BY <1>1, <1>3, <1>4 DEF HeapInv, SweepInv

\* Fuel never runs out, and the search stands on a free block or at the end.
LEMMA SearchState ==
  ASSUME IInv, pc = "search"
  PROVE  /\ fuel # 0 /\ fuel \in Nat
         /\ \E B \in SUBSET Addresses :
              /\ Tiled(heap, B, zero_addr, heap_size)
              /\ HaveField(B)
              /\ Settled(heap, B, DOMAIN live)
              /\ Coalesced(heap, B)
              /\ Intact(heap, B, live)
              /\ Descending(heap, FreeIn(heap, B), fp_ref)
              /\ SearchInv(FreeIn(heap, B))
              /\ FreeIn(heap, B) \in SUBSET Addresses
              /\ cur_fp \in FreeIn(heap, B) \cup {0}
              /\ is_valid_fp(cur_fp) <=> cur_fp \in FreeIn(heap, B)
<1>1. PICK B \in SUBSET Addresses :
        /\ Tiled(heap, B, zero_addr, heap_size)
        /\ HaveField(B)
        /\ Settled(heap, B, DOMAIN live)
        /\ Coalesced(heap, B)
        /\ Intact(heap, B, live)
        /\ Descending(heap, FreeIn(heap, B), fp_ref)
        /\ SearchInv(FreeIn(heap, B))
  BY DEF IInv, HeapInv
<1>2. heap \in Words /\ zero_addr \in Addresses
  BY AddressFacts, LiveType DEF IInv
<1>3. \A o \in FreeIn(heap, B) : o \in Addresses /\ o # zero_addr /\ o # 0
  <2>1. \A o \in FreeIn(heap, B) : o \in Addresses /\ o # zero_addr
    BY <1>1, <1>2, ListedFacts
  <2> QED
    BY <2>1, AddressFacts
<1>4. cur_fp \in FreeIn(heap, B) \cup {0} /\ fuel * WordBytes > cur_fp
  BY <1>1 DEF SearchInv
<1>5. fuel \in Nat /\ cur_fp \in Nat
  BY AddressFacts DEF IInv, TypeOK, WordBytes
<1>6. fuel # 0
  BY <1>4, <1>5 DEF WordBytes
<1>7. is_valid_fp(cur_fp) <=> cur_fp \in FreeIn(heap, B)
  BY <1>3, <1>4, ValidPointers
<1> QED
  BY <1>1, <1>3, <1>4, <1>5, <1>6, <1>7

LEMMA RequestInv ==
  ASSUME IInv, Request
  PROVE  IInv'
<1>1. heap \in Words /\ pc = "mutator" /\ pc' = "search"
  BY LiveType DEF IInv, Request, StartSearch
<1>2. UNCHANGED <<heap, fp_ref, live, current, fb, rw, fp>>
  BY DEF Request, sweepVars
<1>3. prev_fp' = 0 /\ cur_fp' = fp_ref /\ fuel' = heap_size \div WordBytes
  BY DEF Request, StartSearch
<1>4. req' \in [wz : Requests, tag : Tags] /\ req' # NoRequest /\ retried' = FALSE
  BY RequestAssumption DEF Request
<1>5. ASSUME NEW F \in SUBSET Addresses, Descending(heap, F, fp_ref)
      PROVE  /\ SearchInv(F)'
             /\ cur_fp' \in Addresses \cup {0} /\ fuel' \in 0 .. heap_size \div WordBytes
  <2>1. /\ fp_ref \in Addresses \cup {0}
        /\ (heap_size \div WordBytes) * WordBytes > fp_ref
        /\ heap_size \div WordBytes \in 0 .. heap_size \div WordBytes
        /\ \A o \in F : ~ (o > fp_ref)
    BY <1>1, <1>5, SearchStarts
  <2>2. fp_ref \in F \cup {0}
    BY <1>5 DEF Descending
  <2> QED
    BY <1>1, <1>2, <1>3, <2>1, <2>2 DEF SearchInv
<1>6. HeapInv' /\ SweepInv'
  BY <1>1, <1>2, <1>5, SameHeap
<1>8. fuel' \in 0 .. heap_size \div WordBytes
  <2>1. heap_size \div 8 \in Nat
    BY AddressFacts
  <2> QED
    BY <1>3, <2>1 DEF WordBytes
<1>9. TypeOK'
  BY <1>1, <1>2, <1>3, <1>4, <1>8 DEF IInv, TypeOK
<1>10. CallInv'
  BY <1>1, <1>4 DEF CallInv
<1> QED
  BY <1>6, <1>9, <1>10 DEF IInv

LEMMA NextBlockInv ==
  ASSUME IInv, NextBlock
  PROVE  IInv'
<1>1. /\ pc = "search" /\ is_valid_fp(cur_fp) /\ ~fits
      /\ prev_fp' = cur_fp /\ cur_fp' = heap[cur_fp] /\ fuel' = fuel - 1
  BY DEF NextBlock, searching
<1>2. UNCHANGED <<heap, fp_ref, pc, req, retried, current, fb, rw, fp, live>>
  BY DEF NextBlock, sweepVars
<1>3. fuel # 0 /\ fuel \in Nat
  BY <1>1, SearchState
<1>4. PICK B \in SUBSET Addresses :
        /\ Tiled(heap, B, zero_addr, heap_size)
        /\ HaveField(B)
        /\ Settled(heap, B, DOMAIN live)
        /\ Coalesced(heap, B)
        /\ Intact(heap, B, live)
        /\ Descending(heap, FreeIn(heap, B), fp_ref)
        /\ SearchInv(FreeIn(heap, B))
        /\ FreeIn(heap, B) \in SUBSET Addresses
        /\ cur_fp \in FreeIn(heap, B) \cup {0}
        /\ is_valid_fp(cur_fp) <=> cur_fp \in FreeIn(heap, B)
  BY <1>1, SearchState
<1>5. PICK F \in SUBSET Addresses : F = FreeIn(heap, B)
  BY <1>4
<1>6. /\ cur_fp \in F /\ Descending(heap, F, fp_ref)
      /\ fuel * WordBytes > cur_fp
      /\ \A o \in F : o > cur_fp => getWosize(heap[hd_address(o)]) < normalised(req.wz)
  BY <1>1, <1>4, <1>5 DEF SearchInv
<1>7. /\ heap[cur_fp] \in F \cup {0} /\ heap[cur_fp] < cur_fp
      /\ \A p \in F : p < cur_fp => p <= heap[cur_fp]
  BY <1>6 DEF Descending
<1>8. fuel' * WordBytes > cur_fp'
  <2>1. heap[cur_fp] + 8 <= cur_fp /\ heap[cur_fp] \in Nat /\ cur_fp \in Nat
    <3>1. heap[cur_fp] \in Addresses \cup {0, heap_size} /\ cur_fp \in Addresses \cup {0, heap_size}
      BY <1>6, <1>7
    <3>2. heap[cur_fp] + 8 <= cur_fp
      BY <1>7, <3>1, Apart
    <3> QED
      BY <3>1, <3>2, AddressFacts
  <2> QED
    BY <1>1, <1>3, <1>6, <2>1 DEF WordBytes
<1>9. ASSUME NEW o \in F, o > cur_fp'
      PROVE  getWosize(heap'[hd_address(o)]) < normalised(req'.wz)
  <2>1. CASE o > cur_fp
    BY <1>2, <1>6, <2>1
  <2>2. CASE ~ (o > cur_fp)
    <3>1. o \in Nat /\ cur_fp \in Nat /\ heap[cur_fp] \in Nat
      BY <1>6, <1>7, AddressFacts
    <3>2. o = cur_fp
      BY <1>1, <1>7, <1>9, <2>2, <3>1
    <3>3. blockWosize < normalised(req.wz)
      <4>1. heap \in Words /\ hd_address(cur_fp) \in Addresses
        <5>1. heap \in Words /\ zero_addr \in Addresses
          BY AddressFacts, LiveType DEF IInv
        <5> QED
          BY <1>4, <1>5, <1>6, <5>1, ListedFacts
      <4>2. blockWosize \in Nat
        BY <4>1, Sizes DEF blockWosize
      <4>3. normalised(req.wz) \in Nat
        BY <1>1, RequestAssumption DEF IInv, TypeOK, CallInv, normalised
      <4> QED
        BY <1>1, <4>2, <4>3 DEF fits
    <3> QED
      BY <1>2, <3>2, <3>3 DEF blockWosize
  <2> QED
    BY <2>1, <2>2
<1>10. SearchInv(F)'
  BY <1>1, <1>2, <1>6, <1>7, <1>8, <1>9 DEF SearchInv
<1>11. HeapInv'
  BY <1>2, <1>4, <1>5, <1>10 DEF HeapInv
<1>12. SweepInv' /\ CallInv'
  BY <1>1, <1>2 DEF IInv, SweepInv, CallInv
<1>13. TypeOK'
  <2>1. fuel' \in 0 .. heap_size \div WordBytes
    <3>1. heap_size \div 8 \in Nat
      BY AddressFacts
    <3> QED
      BY <1>1, <1>3, <3>1 DEF IInv, TypeOK, WordBytes
  <2>2. prev_fp' \in Addresses /\ cur_fp' \in Addresses \cup {0}
    BY <1>1, <1>6, <1>7
  <2> QED
    BY <1>2, <2>1, <2>2 DEF IInv, TypeOK
<1> QED
  BY <1>11, <1>12, <1>13 DEF IInv

\* The steps that only change which call is under way.
LEMMA ControlInv ==
  ASSUME IInv, CollectAndRetry \/ OutOfMemory \/ StartCollection
  PROVE  IInv'
<1>1. UNCHANGED <<heap, fp_ref, prev_fp, cur_fp, fuel, current, fb, rw, fp, live>>
  BY DEF CollectAndRetry, Collecting, OutOfMemory, GivingUp, StartCollection, searchVars, sweepVars
<1>2. /\ pc \in {"mutator", "search"} /\ pc' \in {"mutator", "mark"}
      /\ retried' \in BOOLEAN /\ req' \in {req, NoRequest}
  BY DEF CollectAndRetry, Collecting, OutOfMemory, GivingUp, StartCollection, searchFailed, searching,
         IInv, TypeOK
<1>3. TypeOK'
  BY <1>1, <1>2 DEF IInv, TypeOK
<1>4. CallInv'
  BY DEF CollectAndRetry, Collecting, OutOfMemory, GivingUp, StartCollection, IInv, CallInv
<1>5. HeapInv' /\ SweepInv'
  <2>1. \A F \in SUBSET Addresses : SearchInv(F)'
    BY <1>2 DEF SearchInv
  <2> QED
    BY <1>1, <1>2, <2>1, SameHeap
<1> QED
  BY <1>3, <1>4, <1>5 DEF IInv

\* Blackening S changes no size and no tag.
LEMMA MarkPhaseInv ==
  ASSUME IInv, MarkPhase
  PROVE  IInv'
<1>1. PICK S \in SUBSET DOMAIN live :
        /\ heap' = [a \in Addresses |->
                      IF f_address(a) \in S
                      THEN makeHeader(getWosize(heap[a]), Black, getTag(heap[a]))
                      ELSE heap[a]]
        /\ live' = [o \in S |-> live[o]]
  BY DEF MarkPhase
<1>2. /\ pc = "mark" /\ pc' = "sweep" /\ current' = zero_addr
      /\ fb' = 0 /\ rw' = 0 /\ fp' = 0
      /\ UNCHANGED <<fp_ref, req, retried, prev_fp, cur_fp, fuel>>
  BY DEF MarkPhase, searchVars
<1>3. PICK B \in SUBSET Addresses :
        /\ Tiled(heap, B, zero_addr, heap_size)
        /\ HaveField(B)
        /\ Settled(heap, B, DOMAIN live)
        /\ Intact(heap, B, live)
  BY <1>2 DEF IInv, HeapInv
<1>4. /\ heap \in Words
      /\ \A o \in DOMAIN live :
              /\ o \in Addresses /\ live[o] \in [wz : Requests, tag : Tags]
              /\ live[o].wz \in Requests /\ live[o].wz \in Nat /\ live[o].tag \in 0 .. 255
  BY LiveType DEF IInv
<1>5. zero_addr \in Addresses /\ heap_size \in Nat /\ zero_addr \in Nat
  BY AddressFacts
<1>6. ASSUME NEW a \in Addresses
      PROVE  /\ heap'[a] \in Nat
             /\ getWosize(heap'[a]) = getWosize(heap[a]) /\ getTag(heap'[a]) = getTag(heap[a])
             /\ f_address(a) \in S => getColor(heap'[a]) = Black
             /\ f_address(a) \notin S => heap'[a] = heap[a]
  <2>1. /\ getWosize(heap[a]) \in Nat /\ getTag(heap[a]) \in 0 .. 255
        /\ heap[a] \in Nat
    BY <1>4, HeaderType DEF Words
  <2>2. CASE f_address(a) \in S
    <3>1. Black \in 0 .. 3
      BY DEF Black
    <3>2. heap'[a] = makeHeader(getWosize(heap[a]), Black, getTag(heap[a]))
      BY <1>1, <2>2
    <3>3. \A w \in Nat, t \in 0 .. 255 :
            /\ makeHeader(w, Black, t) \in Nat /\ getWosize(makeHeader(w, Black, t)) = w
            /\ getColor(makeHeader(w, Black, t)) = Black /\ getTag(makeHeader(w, Black, t)) = t
      BY <3>1, HeaderParts, ZenonT(60)
    <3>4. /\ heap'[a] \in Nat /\ getColor(heap'[a]) = Black
          /\ getWosize(heap'[a]) = getWosize(heap[a]) /\ getTag(heap'[a]) = getTag(heap[a])
      <4>1. PICK w \in Nat, t \in 0 .. 255 : w = getWosize(heap[a]) /\ t = getTag(heap[a])
        BY <2>1
      <4>2. heap'[a] = makeHeader(w, Black, t)
        BY <3>2, <4>1
      <4> QED
        BY <3>3, <4>1, <4>2, ZenonT(60)
    <3> QED
      BY <2>2, <3>4
  <2>3. CASE f_address(a) \notin S
    BY <1>1, <2>1, <2>3
  <2> QED
    BY <2>2, <2>3
<1>7. heap' \in Words
  BY <1>1, <1>6 DEF Words
<1>8. Tiled(heap', B, zero_addr, heap_size)
  BY <1>3, <1>6, TiledFrame
<1>9. Unswept(heap', B, DOMAIN live')
  <2>1. \A a \in B : getColor(heap[a]) # Black
    BY <1>3 DEF Settled, White, Blue, Black
  <2> QED
    BY <1>1, <1>6, <2>1 DEF Unswept
<1>10. Intact(heap', B, live')
  <2>1. \A o \in S : o \in Addresses /\ live'[o] = live[o]
    BY <1>1, <1>4
  <2>2. Intact(heap, B, live')
    BY <1>1, <1>3, <2>1 DEF Intact
  <2>3. DOMAIN live' = S
    BY <1>1
  <2>4. \A o \in DOMAIN live' : o \in Addresses /\ live'[o].wz \in Nat
    BY <1>4, <2>1, <2>3
  <2>5. \A a \in B : nextHeader(heap, a) <= heap_size
    BY <1>3, <1>4, <1>5, TileBounds
  <2>6. ASSUME NEW a \in B, f_address(a) \in DOMAIN live',
               NEW x \in Addresses, a < x, x < nextHeader(heap, a)
        PROVE  heap'[x] = heap[x]
    <3>1. f_address(x) \notin S
      <4>1. SUFFICES ASSUME f_address(x) \in S PROVE FALSE
        OBVIOUS
      <4>2. hd_address(f_address(x)) = x
        BY <1>5, AddressFacts DEF hd_address, f_address, WordBytes
      <4>3. x \in B
        BY <1>3, <4>1, <4>2 DEF Intact
      <4>4. nextHeader(heap, a) <= x
        BY <1>3, <2>6, <4>3 DEF Tiled
      <4>5. nextHeader(heap, a) \in Nat /\ x \in Nat
        BY <1>4, AddressFacts, Sizes
      <4> QED
        BY <2>6, <4>4, <4>5
    <3> QED
      BY <1>6, <3>1
  <2> QED
    BY <1>4, <1>6, <1>7, <2>2, <2>4, <2>5, <2>6, IntactFrame
<1>11. SweepInv'
  <2>1. (runStart = zero_addr)' /\ (current = runStart + rw * WordBytes)'
    BY <1>2, <1>5 DEF runStart, WordBytes
  <2>2. Tiled(heap', {}, zero_addr, zero_addr) /\ Settled(heap', {}, DOMAIN live')
        /\ Coalesced(heap', {}) /\ NoFreeBefore(heap', {}, zero_addr) /\ FreeIn(heap', {}) = {}
    BY DEF Tiled, Settled, Coalesced, NoFreeBefore, FreeIn
  <2>3. Descending(heap', FreeIn(heap', {}), fp')
    BY <1>2, <2>2 DEF Descending
  <2>4. {} \cup B = B
    OBVIOUS
  <2> QED
    BY <1>2, <1>3, <1>5, <1>8, <1>9, <1>10, <2>1, <2>2, <2>3, <2>4 DEF SweepInv
<1>12. CallInv'
  BY <1>2 DEF IInv, CallInv
<1>13. HeapInv'
  BY <1>2 DEF HeapInv
<1>14. TypeOK'
  <2>1. heap' \in [Addresses -> Nat]
    BY <1>7 DEF Words
  <2>2. \A o \in DOMAIN live' : o \in Addresses /\ live'[o] \in [wz : Requests, tag : Tags]
    BY <1>1, <1>4
  <2>3. rw' \in 0 .. HeapWords
    BY <1>2, HeapAssumption
  <2>4. pc' = "sweep" /\ current' \in Addresses /\ fb' = 0 /\ fp' = 0
    BY <1>2, <1>5
  <2> QED
    BY <1>2, <2>1, <2>2, <2>3, <2>4 DEF IInv, TypeOK
<1> QED
  BY <1>11, <1>12, <1>13, <1>14 DEF IInv

\* The heap during a sweep, and what flushing the pending run makes of it.
LEMMA SweepState ==
  ASSUME IInv, pc = "sweep"
  PROVE  LET g == flushedHeap(heap, fb, rw, fp)
         IN  /\ runStart \in Addresses \cup {heap_size}
             /\ current \in Addresses \cup {heap_size}
             /\ runStart <= current
             /\ g \in Words
             /\ \A x \in Addresses : x < runStart \/ x >= current => g[x] = heap[x]
             /\ \E P, U, Q \in SUBSET Addresses :
                  /\ P \subseteq Q
                  /\ Tiled(heap, P, zero_addr, runStart)
                  /\ Tiled(heap, U, current, heap_size)
                  /\ HaveField(P \cup U)
                  /\ Unswept(heap, U, DOMAIN live)
                  /\ Intact(heap, P \cup U, live)
                  /\ Tiled(g, Q, zero_addr, current)
                  /\ HaveField(Q)
                  /\ Settled(g, Q, DOMAIN live)
                  /\ Coalesced(g, Q)
                  /\ Descending(g, FreeIn(g, Q), flushedFp(fb, rw, fp))
<1> DEFINE g == flushedHeap(heap, fb, rw, fp)
<1>1. PICK P \in SUBSET Addresses, U \in SUBSET Addresses :
        /\ Tiled(heap, P, zero_addr, runStart)
        /\ HaveField(P \cup U)
        /\ Settled(heap, P, DOMAIN live)
        /\ Coalesced(heap, P)
        /\ NoFreeBefore(heap, P, runStart)
        /\ Descending(heap, FreeIn(heap, P), fp)
        /\ Tiled(heap, U, current, heap_size)
        /\ Unswept(heap, U, DOMAIN live)
        /\ Intact(heap, P \cup U, live)
  BY DEF IInv, SweepInv
<1>2. /\ runStart \in Addresses \cup {heap_size} /\ current = runStart + 8 * rw
      /\ rw # 0 => fb \in Addresses /\ runStart = hd_address(fb)
      /\ rw \in Nat /\ fb \in Addresses \cup {0}
  BY DEF IInv, SweepInv, TypeOK, runStart, WordBytes
<1>3. /\ heap \in Words /\ zero_addr \in Addresses /\ heap_size \in Nat /\ runStart \in Nat
      /\ \A x \in Addresses : x \in Nat
  BY <1>2, AddressFacts, LiveType DEF IInv
<1>4. current \in Addresses \cup {heap_size} /\ runStart <= current /\ current \in Nat
  <2>1. current \in U \cup {heap_size}
    BY <1>1 DEF Tiled
  <2>2. current \in Nat /\ runStart <= current
    BY <1>2, <1>3
  <2> QED
    BY <2>1, <2>2
<1>5. rw # 0 => fb \notin DOMAIN live
  <2>1. SUFFICES ASSUME rw # 0, fb \in DOMAIN live PROVE FALSE
    OBVIOUS
  <2>2. runStart \in P \cup U /\ runStart < current
    BY <1>1, <1>2, <1>3, <2>1 DEF Intact
  <2>3. \A a \in P : a < runStart
    BY <1>1 DEF Tiled
  <2>4. \A a \in U : current <= a
    BY <1>1 DEF Tiled
  <2> QED
    BY <1>3, <1>4, <2>2, <2>3, <2>4
<1> DEFINE Q == WithRun(P, rw, runStart)
<1>6. HaveField(P)
  BY <1>1 DEF HaveField
<1>7. /\ g \in Words
      /\ \A x \in Addresses : x < runStart \/ x >= current => g[x] = heap[x]
      /\ Tiled(g, Q, zero_addr, current)
      /\ HaveField(Q)
      /\ Settled(g, Q, DOMAIN live)
      /\ Coalesced(g, Q)
      /\ Descending(g, FreeIn(g, Q), flushedFp(fb, rw, fp))
  <2> HIDE DEF g, Q
  <2>1. /\ heap \in Words /\ rw \in Nat /\ fb \in Addresses \cup {0}
        /\ runStart \in Addresses \cup {heap_size} /\ current \in Addresses \cup {heap_size}
        /\ current = runStart + 8 * rw
        /\ rw # 0 => fb \in Addresses /\ runStart = hd_address(fb)
    BY <1>2, <1>3, <1>4
  <2>2. /\ Tiled(heap, P, zero_addr, runStart) /\ HaveField(P) /\ Settled(heap, P, DOMAIN live)
        /\ Coalesced(heap, P) /\ NoFreeBefore(heap, P, runStart)
        /\ Descending(heap, FreeIn(heap, P), fp)
    BY <1>1, <1>6
  <2>3. g = flushedHeap(heap, fb, rw, fp) /\ Q = WithRun(P, rw, runStart)
    BY DEF g, Q
  <2> QED
    BY <1>5, <2>1, <2>2, <2>3, FlushSound
<1>8. P \subseteq Q /\ Q \in SUBSET Addresses
  BY <1>7 DEF WithRun, Tiled
<1> HIDE DEF g, Q
<1>9. \E P_, U_, Q_ \in SUBSET Addresses :
                  /\ P_ \subseteq Q_
                  /\ Tiled(heap, P_, zero_addr, runStart)
                  /\ Tiled(heap, U_, current, heap_size)
                  /\ HaveField(P_ \cup U_)
                  /\ Unswept(heap, U_, DOMAIN live)
                  /\ Intact(heap, P_ \cup U_, live)
                  /\ Tiled(g, Q_, zero_addr, current)
                  /\ HaveField(Q_)
                  /\ Settled(g, Q_, DOMAIN live)
                  /\ Coalesced(g, Q_)
                  /\ Descending(g, FreeIn(g, Q_), flushedFp(fb, rw, fp))
  BY <1>1, <1>7, <1>8
<1> QED
  BY <1>2, <1>4, <1>7, <1>9 DEF g

\* What stands at current, while the sweep goes on.
LEMMA AtCurrent ==
  ASSUME NEW h \in Words, NEW U \in SUBSET Addresses, NEW c \in Addresses \cup {heap_size},
         Tiled(h, U, c, heap_size), c + WordBytes < heap_size
  PROVE  /\ c \in U /\ c \in Addresses /\ c \in Nat
         /\ nextHeader(h, c) \in Addresses \cup {heap_size} /\ nextHeader(h, c) \in Nat /\ c < nextHeader(h, c)
         /\ nextHeader(h, c) = c + 8 + 8 * getWosize(h[c]) /\ getWosize(h[c]) \in Nat
         /\ Tiled(h, U \ {c}, nextHeader(h, c), heap_size)
<1>1. c \in Nat /\ heap_size \in Nat
  BY AddressFacts
<1>2. c < heap_size
  BY <1>1 DEF WordBytes
<1>3. c \in U /\ nextHeader(h, c) \in Addresses \cup {heap_size} /\ Tiled(h, U \ {c}, nextHeader(h, c), heap_size)
  BY <1>2, TiledTail
<1> QED
  BY <1>1, <1>3, Sizes

LEMMA SweepFreeInv ==
  ASSUME IInv, SweepFree
  PROVE  IInv'
<1>1. /\ pc = "sweep" /\ current + WordBytes < heap_size
      /\ getColor(heap[current]) # Black
      /\ fb' = IF rw = 0 THEN f_address(current) ELSE fb
      /\ rw' = rw + getWosize(heap[current]) + 1
      /\ current' = current + (getWosize(heap[current]) + 1) * WordBytes
      /\ UNCHANGED <<heap, fp_ref, pc, req, retried, fp, prev_fp, cur_fp, fuel, live>>
  BY DEF SweepFree, sweeping, sweepWosize, sweepNext, searchVars
<1>2. PICK P \in SUBSET Addresses, U \in SUBSET Addresses :
        /\ Tiled(heap, P, zero_addr, runStart)
        /\ HaveField(P \cup U)
        /\ Settled(heap, P, DOMAIN live)
        /\ Coalesced(heap, P)
        /\ NoFreeBefore(heap, P, runStart)
        /\ Descending(heap, FreeIn(heap, P), fp)
        /\ Tiled(heap, U, current, heap_size)
        /\ Unswept(heap, U, DOMAIN live)
        /\ Intact(heap, P \cup U, live)
  BY <1>1 DEF IInv, SweepInv
<1>3. /\ runStart \in Addresses \cup {heap_size} /\ current = runStart + 8 * rw
      /\ rw # 0 => fb \in Addresses
      /\ rw \in Nat
  BY <1>1 DEF IInv, SweepInv, TypeOK, WordBytes
<1>4. /\ heap \in Words /\ zero_addr \in Addresses /\ heap_size \in Nat /\ runStart \in Nat
      /\ \A x \in Addresses : x \in Nat
  BY <1>3, AddressFacts, LiveType DEF IInv
<1>5. current \in Addresses \cup {heap_size}
  BY <1>2 DEF Tiled
<1>6. /\ current \in U /\ current \in Addresses /\ current \in Nat
      /\ nextHeader(heap, current) \in Addresses \cup {heap_size} /\ nextHeader(heap, current) \in Nat
      /\ nextHeader(heap, current) = current + 8 + 8 * getWosize(heap[current])
      /\ getWosize(heap[current]) \in Nat
      /\ Tiled(heap, U \ {current}, nextHeader(heap, current), heap_size)
  BY <1>1, <1>2, <1>4, <1>5, AtCurrent
<1>7. current' = nextHeader(heap, current) /\ rw' \in Nat /\ rw' # 0
  BY <1>1, <1>3, <1>6 DEF WordBytes
<1>8. f_address(current) \in Addresses /\ hd_address(f_address(current)) = current
  <2>1. hd_address(f_address(current)) = current
    BY <1>6 DEF hd_address, f_address, WordBytes
  <2> QED
    BY <1>2, <1>6, <2>1 DEF HaveField
<1>9. runStart' = runStart /\ fb' \in Addresses
  BY <1>1, <1>3, <1>7, <1>8 DEF runStart
<1>10. current' = runStart' + rw' * WordBytes
  BY <1>1, <1>3, <1>4, <1>6, <1>7, <1>9 DEF WordBytes
<1>11. DOMAIN live \subseteq Addresses
  BY DEF IInv, TypeOK
<1>12. Intact(heap, P \cup (U \ {current}), live)
  <2>1. \A o \in DOMAIN live : hd_address(o) # current
    BY <1>1, <1>2, <1>6, <1>11, HeaderAddress DEF Unswept
  <2> QED
    BY <1>2, <2>1 DEF Intact
<1>13. Unswept(heap, U \ {current}, DOMAIN live) /\ HaveField(P \cup (U \ {current}))
  BY <1>2 DEF Unswept, HaveField
<1>14. SweepInv'
  <2>1. (U \ {current}) \in SUBSET Addresses
    OBVIOUS
  <2>2. \E P_, U_ \in SUBSET Addresses :
         /\ Tiled(heap', P_, zero_addr, runStart')
         /\ HaveField(P_ \cup U_)
         /\ Settled(heap', P_, DOMAIN live')
         /\ Coalesced(heap', P_)
         /\ NoFreeBefore(heap', P_, runStart')
         /\ Descending(heap', FreeIn(heap', P_), fp')
         /\ Tiled(heap', U_, current', heap_size)
         /\ Unswept(heap', U_, DOMAIN live')
         /\ Intact(heap', P_ \cup U_, live')
    BY <1>1, <1>2, <1>6, <1>7, <1>9, <1>12, <1>13, <2>1
  <2> QED
    BY <1>1, <1>3, <1>7, <1>9, <1>10, <2>2 DEF SweepInv
<1>15. CallInv' /\ HeapInv'
  BY <1>1 DEF IInv, CallInv, HeapInv
<1>16. TypeOK'
  <2>1. rw' \in 0 .. HeapWords
    <3>1. heap_size = zero_addr + 8 * HeapWords /\ HeapWords \in Nat /\ zero_addr \in Nat
      BY HeapAssumption DEF heap_size, WordBytes
    <3>2. heap_size >= zero_addr
      BY <3>1
    <3>3. current' <= heap_size /\ current' \in Nat
      BY <1>6, <1>7, AddressFacts
    <3>4. runStart >= zero_addr
      BY <1>3, <3>2, AddressFacts
    <3>5. PICK r \in Nat : r = rw'
      BY <1>7
    <3>6. current' = runStart + 8 * r
      BY <1>4, <1>9, <1>10, <3>5 DEF WordBytes
    <3>7. 8 * r <= 8 * HeapWords
      BY <1>4, <3>1, <3>3, <3>4, <3>6
    <3>8. r <= HeapWords
      BY <3>1, <3>7
    <3>9. r \in 0 .. HeapWords
      BY <3>1, <3>8
    <3> QED
      BY <3>5, <3>9
  <2>2. fb' \in Addresses /\ current' \in Addresses \cup {heap_size}
    BY <1>6, <1>7, <1>9
  <2> QED
    BY <1>1, <2>1, <2>2 DEF IInv, TypeOK
<1> QED
  BY <1>14, <1>15, <1>16 DEF IInv

LEMMA SweepSurvivorInv ==
  ASSUME IInv, SweepSurvivor
  PROVE  IInv'
<1>1. /\ pc = "sweep" /\ current + WordBytes < heap_size
      /\ getColor(heap[current]) = Black
      /\ heap' = [flushedHeap(heap, fb, rw, fp) EXCEPT
                    ![current] = makeHeader(getWosize(heap[current]), White, getTag(heap[current]))]
      /\ fp' = flushedFp(fb, rw, fp)
      /\ fb' = 0 /\ rw' = 0
      /\ current' = current + (getWosize(heap[current]) + 1) * WordBytes
      /\ UNCHANGED <<fp_ref, pc, req, retried, prev_fp, cur_fp, fuel, live>>
  BY DEF SweepSurvivor, KeepBlock, sweeping, sweepWosize, sweepNext, searchVars
<1>2. PICK g \in Words : g = flushedHeap(heap, fb, rw, fp)
  BY <1>1, SweepState
<1>3. /\ runStart \in Addresses \cup {heap_size}
      /\ current \in Addresses \cup {heap_size}
      /\ runStart <= current
      /\ \A x \in Addresses : x < runStart \/ x >= current => g[x] = heap[x]
  BY <1>1, <1>2, SweepState
<1>4. PICK P \in SUBSET Addresses, U \in SUBSET Addresses, Q \in SUBSET Addresses :
        /\ P \subseteq Q
        /\ Tiled(heap, P, zero_addr, runStart)
        /\ Tiled(heap, U, current, heap_size)
        /\ HaveField(P \cup U)
        /\ Unswept(heap, U, DOMAIN live)
        /\ Intact(heap, P \cup U, live)
        /\ Tiled(g, Q, zero_addr, current)
        /\ HaveField(Q)
        /\ Settled(g, Q, DOMAIN live)
        /\ Coalesced(g, Q)
        /\ Descending(g, FreeIn(g, Q), flushedFp(fb, rw, fp))
  BY <1>1, <1>2, SweepState
<1>5. /\ heap \in Words /\ zero_addr \in Addresses /\ heap_size \in Nat /\ runStart \in Nat
      /\ \A x \in Addresses : x \in Nat
      /\ \A o \in DOMAIN live : o \in Addresses /\ live[o].wz \in Nat
  BY <1>3, AddressFacts, LiveType DEF IInv
<1>6. /\ current \in U /\ current \in Addresses /\ current \in Nat
      /\ nextHeader(heap, current) \in Addresses \cup {heap_size} /\ nextHeader(heap, current) \in Nat
      /\ current < nextHeader(heap, current)
      /\ nextHeader(heap, current) = current + 8 + 8 * getWosize(heap[current])
      /\ getWosize(heap[current]) \in Nat
      /\ Tiled(heap, U \ {current}, nextHeader(heap, current), heap_size)
  BY <1>1, <1>3, <1>4, <1>5, AtCurrent
<1>7. current' = nextHeader(heap, current)
  BY <1>1, <1>6 DEF WordBytes
<1>8. /\ heap' \in Words
      /\ \A x \in Addresses \ {current} : heap'[x] = g[x]
      /\ getWosize(heap'[current]) = getWosize(heap[current])
      /\ getTag(heap'[current]) = getTag(heap[current])
      /\ getColor(heap'[current]) = White
  <2>1. PICK w \in Nat, t \in 0 .. 255 : w = getWosize(heap[current]) /\ t = getTag(heap[current])
    BY <1>5, <1>6, HeaderType DEF Words
  <2>2. heap' = [g EXCEPT ![current] = makeHeader(w, White, t)]
    BY <1>1, <1>2, <2>1
  <2>3. /\ makeHeader(w, White, t) \in Nat
        /\ getWosize(makeHeader(w, White, t)) = w
        /\ getColor(makeHeader(w, White, t)) = White
        /\ getTag(makeHeader(w, White, t)) = t
    <3>1. White \in 0 .. 3
      BY DEF White
    <3> QED
      BY <3>1, HeaderParts
  <2>4. heap' \in Words /\ heap'[current] = makeHeader(w, White, t)
        /\ \A x \in Addresses \ {current} : heap'[x] = g[x]
    BY <1>2, <1>6, <2>2, <2>3 DEF Words
  <2> QED
    BY <2>1, <2>3, <2>4
<1>9. nextHeader(heap', current) = current'
  BY <1>7, <1>8 DEF nextHeader
<1>10. /\ Tiled(heap', Q, zero_addr, current) /\ FreeIn(heap', Q) = FreeIn(g, Q)
       /\ \A a \in Q : heap'[a] = g[a]
       /\ \A o \in FreeIn(g, Q) : heap'[o] = g[o]
  <2>1. \A x \in Addresses : zero_addr <= x /\ x < current => heap'[x] = g[x]
    BY <1>5, <1>6, <1>8
  <2>2. zero_addr \in Addresses \cup {heap_size} /\ g \in Words /\ heap' \in Words
    BY <1>5, <1>8
  <2>3. current \in Addresses \cup {heap_size} /\ Tiled(g, Q, zero_addr, current)
    BY <1>3, <1>4
  <2> QED
    <3>1. PICK k \in Words : k = heap'
      BY <2>2
    <3>2. \A x \in Addresses : zero_addr <= x /\ x < current => k[x] = g[x]
      BY <2>1, <3>1
    <3>3. /\ \A a \in Q : k[a] = g[a]
          /\ Tiled(k, Q, zero_addr, current)
          /\ FreeIn(k, Q) = FreeIn(g, Q)
          /\ \A o \in FreeIn(g, Q) : k[o] = g[o]
      BY <2>2, <2>3, <3>2, PartFrame
    <3> QED
      BY <3>1, <3>3
<1>11. Settled(heap', Q, DOMAIN live) /\ Coalesced(heap', Q)
  BY <1>4, <1>10, HeadersFrame
<1> DEFINE R == Q \cup {current}
           V == U \ {current}
<1>12. R \in SUBSET Addresses /\ V \in SUBSET Addresses
  BY <1>6
<1>13. Tiled(heap', R, zero_addr, current')
  <2>1. Tiled(heap', {current}, current, current')
    BY <1>6, <1>8, <1>9, TiledOne
  <2>2. zero_addr \in Addresses \cup {heap_size} /\ current' \in Addresses \cup {heap_size}
    BY <1>5, <1>6, <1>7
  <2> QED
    BY <1>3, <1>8, <1>10, <2>1, <2>2, TiledJoin
<1>14. \A a \in Q : a \in Nat /\ a < current /\ nextHeader(heap', a) <= current /\ nextHeader(heap', a) \in Nat
  <2>1. zero_addr \in Addresses \cup {heap_size}
    BY <1>5
  <2>2. \A a \in Q : nextHeader(heap', a) <= current
    BY <1>3, <1>8, <1>10, <2>1, TileBounds
  <2>3. \A a \in Q : a \in Addresses /\ a < current
    BY <1>4 DEF Tiled
  <2> QED
    BY <1>5, <1>8, <2>2, <2>3, Sizes
<1>15. HaveField(R \cup V)
  BY <1>4, <1>6 DEF HaveField
<1>16. Settled(heap', R, DOMAIN live)
  BY <1>1, <1>4, <1>6, <1>8, <1>11 DEF Settled, Unswept
<1>17. Coalesced(heap', R)
  BY <1>8, <1>11 DEF Coalesced, White, Blue
<1>18. NoFreeBefore(heap', R, current')
  <2>1. \A a \in Q : nextHeader(heap', a) # current'
    BY <1>6, <1>7, <1>14
  <2> QED
    BY <1>8, <2>1 DEF NoFreeBefore, White, Blue
<1>19. Descending(heap', FreeIn(heap', R), fp')
  <2>1. FreeIn(heap', R) = FreeIn(heap', Q)
    BY <1>8 DEF FreeIn, White, Blue
  <2> QED
    BY <1>1, <1>4, <1>10, <2>1, DescendingFrame, ZenonT(60)
<1>20. ASSUME NEW x \in Addresses, x > current
       PROVE  heap'[x] = heap[x]
  <2>1. x \in Nat /\ x >= current /\ x # current
    BY <1>5, <1>6, <1>20
  <2>2. g[x] = heap[x]
    BY <1>3, <2>1
  <2> QED
    BY <1>8, <2>1, <2>2
<1>21. Tiled(heap', V, current', heap_size) /\ \A a \in V : heap'[a] = heap[a]
  <2>1. ASSUME NEW x \in Addresses, nextHeader(heap, current) <= x
        PROVE  heap'[x] = heap[x]
    <3>1. x > current
      <4>1. x \in Nat /\ current \in Nat /\ nextHeader(heap, current) \in Nat /\ current < nextHeader(heap, current)
        BY <1>5, <1>6
      <4> QED
        BY <2>1, <4>1
    <3> QED
      BY <1>20, <3>1
  <2> QED
    BY <1>5, <1>6, <1>7, <1>8, <2>1, PartFrame
<1>22. Unswept(heap', V, DOMAIN live)
  BY <1>4, <1>21 DEF Unswept
<1>23. Intact(heap', R \cup V, live)
  <2>1. (P \cup U) \subseteq (R \cup V) /\ (P \cup U) \subseteq Addresses
    BY <1>4
  <2>2. ASSUME NEW a \in P
        PROVE  /\ nextHeader(heap, a) <= heap_size /\ heap'[a] = heap[a]
               /\ \A x \in Addresses : a < x /\ x < nextHeader(heap, a) => heap'[x] = heap[x]
    <3>1. a \in Addresses /\ a < runStart /\ nextHeader(heap, a) <= runStart /\ nextHeader(heap, a) \in Nat
      BY <1>3, <1>4, <1>5, Sizes, TileBounds DEF Tiled
    <3>2. \A x \in Addresses : x < runStart => heap'[x] = heap[x]
      BY <1>3, <1>5, <1>6, <1>8
    <3>3. runStart <= heap_size
      BY <1>3, <1>5, AddressFacts
    <3> QED
      BY <1>5, <3>1, <3>2, <3>3
  <2>3. ASSUME NEW a \in U
        PROVE  /\ nextHeader(heap, a) <= heap_size
               /\ getWosize(heap'[a]) = getWosize(heap[a]) /\ getTag(heap'[a]) = getTag(heap[a])
               /\ \A x \in Addresses : a < x /\ x < nextHeader(heap, a) => heap'[x] = heap[x]
    <3>1. a \in Addresses /\ a \in Nat /\ current <= a /\ nextHeader(heap, a) <= heap_size
      <4>1. Tiled(heap, U, current, heap_size) /\ heap_size \in Addresses \cup {heap_size}
        BY <1>4
      <4>2. nextHeader(heap, a) <= heap_size
        BY <1>3, <1>5, <4>1, TileBounds
      <4>3. a \in Addresses /\ current <= a
        BY <4>1 DEF Tiled
      <4> QED
        BY <1>5, <4>2, <4>3
    <3>2. a # current => heap'[a] = heap[a]
      BY <1>6, <1>20, <3>1
    <3> QED
      BY <1>5, <1>6, <1>8, <1>20, <3>1, <3>2
  <2>4. \A a \in P \cup U : nextHeader(heap, a) <= heap_size
    BY <2>2, <2>3
  <2>5. \A a \in P \cup U : f_address(a) \in DOMAIN live =>
            /\ getWosize(heap'[a]) = getWosize(heap[a]) /\ getTag(heap'[a]) = getTag(heap[a])
            /\ \A x \in Addresses : a < x /\ x < nextHeader(heap, a) => heap'[x] = heap[x]
    BY <2>2, <2>3
  <2> QED
    BY <1>4, <1>5, <1>8, <2>1, <2>4, <2>5, IntactFrame
<1> HIDE DEF R, V
<1>24. SweepInv'
  <2>1. runStart' = current'
    BY <1>1 DEF runStart
  <2>2. current' \in Addresses \cup {heap_size} /\ current' = runStart' + rw' * WordBytes
    BY <1>1, <1>6, <1>7, <2>1 DEF WordBytes
  <2>3. \E P_, U_ \in SUBSET Addresses :
         /\ Tiled(heap', P_, zero_addr, runStart')
         /\ HaveField(P_ \cup U_)
         /\ Settled(heap', P_, DOMAIN live')
         /\ Coalesced(heap', P_)
         /\ NoFreeBefore(heap', P_, runStart')
         /\ Descending(heap', FreeIn(heap', P_), fp')
         /\ Tiled(heap', U_, current', heap_size)
         /\ Unswept(heap', U_, DOMAIN live')
         /\ Intact(heap', P_ \cup U_, live')
    BY <1>1, <1>12, <1>13, <1>15, <1>16, <1>17, <1>18, <1>19, <1>21, <1>22, <1>23, <2>1
  <2> QED
    BY <1>1, <2>1, <2>2, <2>3 DEF SweepInv
<1>25. CallInv' /\ HeapInv'
  BY <1>1 DEF IInv, CallInv, HeapInv
<1>26. TypeOK'
  <2>1. fp' \in Addresses \cup {0}
    <3>1. fp' \in FreeIn(g, Q) \cup {0}
      BY <1>1, <1>4 DEF Descending
    <3>2. FreeIn(g, Q) \subseteq Addresses
      <4>1. zero_addr \in Addresses \cup {heap_size}
        BY <1>5
      <4> QED
        BY <1>3, <1>4, <4>1, ListedFacts
    <3> QED
      BY <3>1, <3>2
  <2>2. rw' \in 0 .. HeapWords /\ fb' = 0 /\ current' \in Addresses \cup {heap_size}
    BY <1>1, <1>6, <1>7, HeapAssumption
  <2>3. heap' \in [Addresses -> Nat]
    BY <1>8 DEF Words
  <2> QED
    BY <1>1, <2>1, <2>2, <2>3 DEF IInv, TypeOK
<1> QED
  BY <1>24, <1>25, <1>26 DEF IInv

LEMMA EndSweepInv ==
  ASSUME IInv, EndSweep
  PROVE  IInv'
<1>1. /\ pc = "sweep" /\ ~ (current + WordBytes < heap_size)
      /\ heap' = flushedHeap(heap, fb, rw, fp) /\ fp_ref' = flushedFp(fb, rw, fp)
      /\ UNCHANGED <<req, retried, current, fb, rw, fp, live>>
  BY DEF EndSweep, sweeping, sweepVars
<1>2. \/ req = NoRequest /\ pc' = "mutator" /\ UNCHANGED <<prev_fp, cur_fp, fuel>>
      \/ req # NoRequest /\ pc' = "search" /\ prev_fp' = 0 /\ cur_fp' = fp_ref'
         /\ fuel' = heap_size \div WordBytes
  BY DEF EndSweep, StartSearch, searchVars
<1>3. PICK g \in Words : g = flushedHeap(heap, fb, rw, fp)
  BY <1>1, SweepState
<1>4. /\ runStart \in Addresses \cup {heap_size}
      /\ current \in Addresses \cup {heap_size}
      /\ runStart <= current
      /\ \A x \in Addresses : x < runStart \/ x >= current => g[x] = heap[x]
  BY <1>1, <1>3, SweepState
<1>5. PICK P \in SUBSET Addresses, U \in SUBSET Addresses, Q \in SUBSET Addresses :
        /\ P \subseteq Q
        /\ Tiled(heap, P, zero_addr, runStart)
        /\ Tiled(heap, U, current, heap_size)
        /\ HaveField(P \cup U)
        /\ Unswept(heap, U, DOMAIN live)
        /\ Intact(heap, P \cup U, live)
        /\ Tiled(g, Q, zero_addr, current)
        /\ HaveField(Q)
        /\ Settled(g, Q, DOMAIN live)
        /\ Coalesced(g, Q)
        /\ Descending(g, FreeIn(g, Q), flushedFp(fb, rw, fp))
  BY <1>1, <1>3, SweepState
<1>6. /\ heap \in Words /\ zero_addr \in Addresses /\ heap_size \in Nat /\ runStart \in Nat
      /\ \A x \in Addresses : x \in Nat
      /\ \A o \in DOMAIN live : o \in Addresses /\ live[o].wz \in Nat
  BY <1>4, AddressFacts, LiveType DEF IInv
<1>7. current = heap_size
  <2>1. SUFFICES ASSUME current # heap_size PROVE FALSE
    OBVIOUS
  <2>2. current \in U /\ current \in Addresses
    BY <1>4, <1>5, <2>1 DEF Tiled
  <2>3. f_address(current) \in Addresses
    BY <1>5, <2>2 DEF HaveField
  <2> QED
    BY <1>1, <1>6, <2>2, <2>3, AddressFacts DEF f_address, WordBytes
<1>8. U = {}
  BY <1>5, <1>6, <1>7 DEF Tiled
<1>9. Intact(g, Q, live)
  <2>1. Intact(heap, P, live)
    BY <1>5, <1>8
  <2>2. ASSUME NEW a \in P
        PROVE  /\ nextHeader(heap, a) <= heap_size /\ g[a] = heap[a]
               /\ \A x \in Addresses : a < x /\ x < nextHeader(heap, a) => g[x] = heap[x]
    <3>1. zero_addr \in Addresses \cup {heap_size}
      BY <1>6
    <3>2. a \in Addresses /\ a < runStart /\ nextHeader(heap, a) <= runStart /\ nextHeader(heap, a) \in Nat
      BY <1>4, <1>5, <1>6, <3>1, Sizes, TileBounds DEF Tiled
    <3>3. runStart <= heap_size
      BY <1>4, <1>6, AddressFacts
    <3> QED
      BY <1>4, <1>6, <3>2, <3>3
  <2>3. P \in SUBSET Addresses /\ \A a \in P : f_address(a) \in DOMAIN live =>
            /\ getWosize(g[a]) = getWosize(heap[a]) /\ getTag(g[a]) = getTag(heap[a])
            /\ \A x \in Addresses : a < x /\ x < nextHeader(heap, a) => g[x] = heap[x]
    BY <2>2
  <2> QED
    BY <1>5, <1>6, <2>1, <2>2, <2>3, IntactFrame
<1>10. FreeIn(g, Q) \in SUBSET Addresses
  <2>1. zero_addr \in Addresses \cup {heap_size}
    BY <1>6
  <2> QED
    BY <1>4, <1>5, <2>1, ListedFacts
<1>11. PICK F \in SUBSET Addresses : F = FreeIn(g, Q)
  BY <1>10
<1>12. Descending(g, F, fp_ref')
  BY <1>1, <1>5, <1>11
<1>13. /\ fp_ref' \in Addresses \cup {0} /\ fp_ref' \in F \cup {0}
       /\ (heap_size \div WordBytes) * WordBytes > fp_ref'
       /\ heap_size \div WordBytes \in 0 .. heap_size \div WordBytes
       /\ \A o \in F : ~ (o > fp_ref')
  <2>1. fp_ref' \in F \cup {0}
    BY <1>12 DEF Descending
  <2>2. PICK head : head = fp_ref'
    OBVIOUS
  <2>3. Descending(g, F, head)
    BY <1>12, <2>2
  <2> QED
    BY <2>1, <2>2, <2>3, SearchStarts
<1>14. SearchInv(F)'
  BY <1>2, <1>13 DEF SearchInv
<1>15. heap' = g
  BY <1>1, <1>3
<1>16. HeapInv'
  BY <1>1, <1>5, <1>7, <1>9, <1>11, <1>12, <1>14, <1>15 DEF HeapInv
<1>17. pc' # "sweep" /\ pc' # "mark"
  BY <1>2
<1>18. SweepInv' /\ CallInv'
  BY <1>1, <1>2, <1>17 DEF SweepInv, CallInv
<1>19. TypeOK'
  <2>1. heap' \in [Addresses -> Nat]
    BY <1>15 DEF Words
  <2>2. /\ {prev_fp', cur_fp'} \subseteq Addresses \cup {0}
        /\ fuel' \in 0 .. heap_size \div WordBytes
        /\ pc' \in {"mutator", "search"}
    BY <1>2, <1>13 DEF IInv, TypeOK
  <2> QED
    BY <1>1, <1>13, <2>1, <2>2 DEF IInv, TypeOK
<1> QED
  BY <1>16, <1>18, <1>19 DEF IInv

-----------------------------------------------------------------------------
(* allocate *)

\* The heap k that allocate leaves when it carves an object of n words at A, the
\* header's address, from the block whose first field is c, and p links to c.
Initialised(h, k, c, p, A, n, L, t) ==
  \A x \in Addresses :
    k[x] = IF x = A THEN makeHeader(n, White, t)
           ELSE IF A < x /\ x < A + 8 + 8 * n THEN Val_unit
           ELSE IF L > 0 /\ x = hd_address(c) THEN makeHeader(L - 1, Blue, 0)
           ELSE IF x = p THEN (IF L >= 2 THEN c ELSE h[c])
           ELSE h[x]

\* The heap h outside a sweep: headers B, objects obj, free list from head.
Whole(h, B, obj, head) ==
  /\ B \in SUBSET Addresses
  /\ Tiled(h, B, zero_addr, heap_size)
  /\ HaveField(B)
  /\ Settled(h, B, DOMAIN obj)
  /\ Coalesced(h, B)
  /\ Intact(h, B, obj)
  /\ Descending(h, FreeIn(h, B), head)

\* allocate for request r takes the heap h with blocks B, objects obj and free
\* list head to the heap k with objects obj2 and free list head2: the search has
\* stopped at c, behind p if there is a block before c.
Allocation(h, k, B, obj, obj2, head, head2, c, p, A, n, L, t, r) ==
  /\ h \in Words /\ n \in Nat /\ L \in Nat /\ t \in 0 .. 255
  /\ \A o \in DOMAIN obj : o \in Addresses /\ obj[o].wz \in Nat
  /\ DOMAIN k = Addresses /\ k = [x \in Addresses |-> k[x]]
  /\ n >= 1 /\ r.wz = n /\ r.tag = t
  /\ c \in FreeIn(h, B)
  /\ (p = 0 /\ c = head) \/ (p \in FreeIn(h, B) /\ h[p] = c)
  /\ getWosize(h[hd_address(c)]) = L + n
  /\ A = hd_address(c) + 8 * L
  /\ Initialised(h, k, c, p, A, n, L, t)
  /\ obj2 = [o \in DOMAIN obj \cup {A + 8} |-> IF o = A + 8 THEN r ELSE obj[o]]
  /\ head2 = IF p = 0 THEN (IF L >= 2 THEN c ELSE h[c]) ELSE head

LEMMA CarveSound ==
  ASSUME NEW h, NEW k, NEW B, NEW obj, NEW obj2, NEW head, NEW head2,
         NEW c, NEW p, NEW A, NEW n, NEW L, NEW t, NEW r,
         Allocation(h, k, B, obj, obj2, head, head2, c, p, A, n, L, t, r),
         Whole(h, B, obj, head)
  PROVE  /\ k \in Words
         /\ A + 8 \in Addresses
         /\ A + 8 \notin DOMAIN obj
         /\ Whole(k, B \cup {A}, obj2, head2)
<1> USE DEF Allocation, Whole
<1> DEFINE a == hd_address(c)
           end == A + 8 + 8 * n
           D == B \cup {A}
<1>1. /\ heap_size \in Nat /\ B \subseteq Addresses
      /\ \A x \in Addresses : x \in Nat /\ x < heap_size
  BY AddressFacts
<1>2. Listed(h, B, head)
  BY DEF Listed
<1>3. a \in B /\ a \in Nat /\ A = a + 8 * L /\ A \in Nat /\ end \in Nat /\ A < end /\ end <= heap_size /\ A \in Addresses
  <2>1. c = hd_address(c) + 8 /\ a \in B /\ nextHeader(h, a) <= heap_size
    <3>1. zero_addr \in Addresses
      BY AddressFacts
    <3>2. hd_address(c) \in B /\ c = hd_address(c) + 8
      BY <3>1, ListedFacts
    <3> QED
      BY <3>1, <3>2, TileBounds
  <2>2. a \in Addresses /\ a \in Nat
    BY <1>1, <2>1
  <2>3. nextHeader(h, a) = a + 8 + 8 * (L + n)
    BY <2>2, Sizes
  <2> HIDE DEF a
  <2>4. A = a + 8 * L
    BY DEF a
  <2>5. A \in Nat /\ end \in Nat /\ A < end /\ end <= heap_size
    BY <1>1, <2>1, <2>2, <2>3, <2>4
  <2>6. a \in Addresses \cup {heap_size} /\ a + 8 * L >= zero_addr /\ a + 8 * L < heap_size
    BY <1>1, <2>2, <2>4, <2>5, AddressFacts
  <2>7. A \in Addresses
    BY <2>4, <2>6, Shifted
  <2> QED
    BY <2>1, <2>2, <2>4, <2>5, <2>7
<1>4. k[A] = makeHeader(n, White, t)
  BY <1>3 DEF Initialised
<1>5. White \in 0 .. 3 /\ Blue \in 0 .. 3 /\ White # Blue /\ 0 \in 0 .. 255
  BY DEF White, Blue
<1>6. getWosize(k[A]) = n /\ getColor(k[A]) = White /\ getTag(k[A]) = t /\ k[A] \in Nat
  <2>1. \A w \in Nat, g \in 0 .. 255 :
          /\ getWosize(makeHeader(w, White, g)) = w
          /\ getColor(makeHeader(w, White, g)) = White
          /\ getTag(makeHeader(w, White, g)) = g
          /\ makeHeader(w, White, g) \in Nat
    BY <1>5, HeaderParts, ZenonT(60)
  <2>2. n \in Nat /\ t \in 0 .. 255
    OBVIOUS
  <2> HIDE DEF Allocation, Whole
  <2>3. /\ getWosize(makeHeader(n, White, t)) = n /\ getColor(makeHeader(n, White, t)) = White
        /\ getTag(makeHeader(n, White, t)) = t /\ makeHeader(n, White, t) \in Nat
    BY <2>1, <2>2, ZenonT(60)
  <2> QED
    BY <1>4, <2>3, ZenonT(60)
<1>7. k \in Words
  <2>1. ASSUME NEW x \in Addresses PROVE k[x] \in Nat
    <3>1. h[x] \in Nat /\ h[c] \in Nat /\ c \in Nat
      <4>1. c \in Addresses
        <5>1. zero_addr \in Addresses
          BY AddressFacts
        <5> QED
          BY <5>1, ListedFacts
      <4> QED
        BY <1>1, <4>1 DEF Words
    <3>2. L > 0 => makeHeader(L - 1, Blue, 0) \in Nat
      <4>1. L > 0 => L - 1 \in Nat
        OBVIOUS
      <4> QED
        BY <1>5, <4>1, HeaderParts
    <3> QED
      BY <1>4, <1>6, <3>1, <3>2 DEF Initialised, Val_unit
  <2> QED
    BY <2>1 DEF Words
<1>8. Carving(h, k, B, head, head2, c, p, A, n, L)
  <2>1. ASSUME NEW x \in Addresses, x < A \/ x >= end
        PROVE  k[x] = IF L > 0 /\ x = a THEN makeHeader(L - 1, Blue, 0)
                      ELSE IF x = p THEN (IF L >= 2 THEN c ELSE h[c])
                      ELSE h[x]
    <3>1. x # A /\ ~ (A < x /\ x < end)
      BY <1>1, <1>3, <2>1
    <3> QED
      BY <3>1 DEF Initialised
  <2> QED
    BY <1>5, <1>6, <1>7, <2>1 DEF Carving
<1> HIDE DEF a, end
<1>9. /\ Listed(k, D, head2)
      /\ A + 8 \in Addresses
      /\ nextHeader(k, A) = nextHeader(h, a) /\ nextHeader(h, a) <= heap_size
      /\ a \in B /\ c = a + 8 /\ getColor(h[a]) = Blue
      /\ L = 0 => A = a
      /\ L > 0 => /\ A \notin B /\ A + 8 # c
                  /\ getColor(k[a]) = Blue /\ nextHeader(k, a) = A
      /\ \A b \in B \ {a} : k[b] = h[b] /\ b # A /\ nextHeader(k, b) = nextHeader(h, b)
      /\ \A b \in B \ {a} : getColor(h[b]) # Blue =>
           \A x \in Addresses : b < x /\ x < nextHeader(h, b) => k[x] = h[x]
  <2>1. Carved(h, k, B, head2, c, A, n, L)
    BY <1>2, <1>8, CarveListed, Zenon
  <2> QED
    BY <2>1 DEF Carved, a
<1>10. ASSUME NEW b \in B \ {a}, getColor(h[b]) # Blue,
              NEW x \in Addresses, b < x, x < nextHeader(h, b)
       PROVE  k[x] = h[x]
  BY <1>9, <1>10
<1>11. f_address(A) = A + 8 /\ f_address(a) = c /\ hd_address(A + 8) = A
  BY <1>3, <1>9 DEF f_address, hd_address, WordBytes
<1>12. A + 8 \notin DOMAIN obj /\ c \notin DOMAIN obj
  <2>1. c \notin DOMAIN obj
    BY <1>5, <1>9, <1>11 DEF Settled
  <2>2. L = 0 => A + 8 = c
    BY <1>9
  <2>3. L > 0 => A + 8 \notin DOMAIN obj
    BY <1>9, <1>11 DEF Intact
  <2> QED
    BY <2>1, <2>2, <2>3
<1>13. DOMAIN obj2 = DOMAIN obj \cup {A + 8} /\ obj2[A + 8] = r
       /\ \A o \in DOMAIN obj : obj2[o] = obj[o]
  BY <1>12
<1>14. \A b \in D : b = A \/ (b = a /\ L > 0) \/ b \in B \ {a}
  BY <1>9
<1>15. Settled(k, D, DOMAIN obj2)
  <2> SUFFICES ASSUME NEW b \in D
               PROVE  getColor(k[b]) = IF f_address(b) \in DOMAIN obj2 THEN White ELSE Blue
    BY DEF Settled
  <2>1. CASE b = A
    BY <1>6, <1>11, <1>13, <2>1
  <2>2. CASE b = a /\ L > 0
    BY <1>9, <1>11, <1>12, <1>13, <2>2
  <2>3. CASE b \in B \ {a}
    <3>1. f_address(b) # A + 8
      BY <1>1, <1>3, <1>9, <2>3 DEF f_address, WordBytes
    <3> QED
      BY <1>9, <1>13, <2>3, <3>1 DEF Settled
  <2> QED
    BY <1>14, <2>1, <2>2, <2>3
<1>16. Coalesced(k, D)
  <2> SUFFICES ASSUME NEW b \in D, NEW d \in D,
                      getColor(k[b]) = Blue, getColor(k[d]) = Blue, nextHeader(k, b) = d
               PROVE  FALSE
    BY DEF Coalesced
  <2>1. b # A /\ d # A
    BY <1>5, <1>6
  <2>2. b \in B \ {a}
    BY <1>9, <1>14, <2>1
  <2>3. d \in B /\ getColor(h[d]) = Blue
    BY <1>9, <2>1
  <2> QED
    BY <1>9, <2>2, <2>3 DEF Coalesced
<1>17. Intact(k, D, obj)
  <2>1. B \subseteq Addresses /\ B \subseteq D /\ (\A b \in B : nextHeader(h, b) <= heap_size)
    <3>1. zero_addr \in Addresses
      BY AddressFacts
    <3> QED
      BY <1>1, <3>1, TileBounds
  <2>2. ASSUME NEW b \in B, f_address(b) \in DOMAIN obj
        PROVE  /\ getWosize(k[b]) = getWosize(h[b]) /\ getTag(k[b]) = getTag(h[b])
               /\ \A x \in Addresses : b < x /\ x < nextHeader(h, b) => k[x] = h[x]
    <3>1. getColor(h[b]) = White
      BY <2>2 DEF Settled
    <3>2. b \in B \ {a}
      BY <1>5, <1>9, <3>1
    <3> QED
      BY <1>5, <1>9, <1>10, <3>1, <3>2
  <2> HIDE DEF D
  <2> QED
    BY <1>7, <2>1, <2>2, IntactFrame
<1>18. Intact(k, D, obj2)
  <2>1. ASSUME NEW i \in 0 .. n - 1
        PROVE  k[A + 8 + 8 * i] = Val_unit
    <3>1. A + 8 + 8 * i > A /\ A + 8 + 8 * i < end
      BY <1>3 DEF end
    <3>2. (A + 8) + 8 * i >= zero_addr /\ (A + 8) + 8 * i < heap_size
      BY <1>1, <1>3, <3>1, AddressFacts
    <3>3. A + 8 \in Addresses \cup {heap_size} /\ i \in Int
      BY <1>9
    <3>4. (A + 8) + 8 * i \in Addresses
      BY <3>2, <3>3, Shifted
    <3>5. \A x \in Addresses : A < x /\ x < end => k[x] = Val_unit
      BY <1>1, <1>3 DEF Initialised, end
    <3>6. A + 8 + 8 * i = (A + 8) + 8 * i
      BY <1>3
    <3> QED
      BY <3>1, <3>4, <3>5, <3>6
  <2> SUFFICES ASSUME NEW o \in DOMAIN obj2
               PROVE  /\ hd_address(o) \in D
                      /\ getWosize(k[hd_address(o)]) = obj2[o].wz
                      /\ getTag(k[hd_address(o)]) = obj2[o].tag
                      /\ \A i \in 0 .. obj2[o].wz - 1 : k[o + WordBytes * i] = Val_unit
    BY DEF Intact
  <2>2. CASE o = A + 8
    BY <1>6, <1>11, <1>13, <2>1, <2>2 DEF WordBytes
  <2>3. CASE o \in DOMAIN obj
    BY <1>13, <1>17, <2>3, ZenonT(60) DEF Intact
  <2> QED
    BY <1>13, <2>2, <2>3
<1> QED
  BY <1>7, <1>9, <1>12, <1>15, <1>16, <1>18 DEF Listed

\* What TakeBlock does to the heap.
LEMMA TakeBlockHeap ==
  ASSUME IInv, TakeBlock, 0 \notin Requests,
         NEW B \in SUBSET Addresses, NEW F, F = FreeIn(heap, B),
         Tiled(heap, B, zero_addr, heap_size), Descending(heap, F, fp_ref),
         SearchInv(F), cur_fp \in F
  PROVE  /\ req \in [wz : Requests, tag : Tags] /\ req.wz \in Nat /\ req.wz >= 1
         /\ req.tag \in 0 .. 255
         /\ leftover \in Nat /\ blockWosize = leftover + req.wz
         /\ allocHeader = hd_address(cur_fp) + 8 * leftover
         /\ f_address(allocHeader) = allocHeader + 8
         /\ (prev_fp = 0 /\ cur_fp = fp_ref) \/ (prev_fp \in F /\ heap[prev_fp] = cur_fp)
         /\ new_fp = IF leftover >= 2 THEN cur_fp ELSE heap[cur_fp]
         /\ fp_ref' = IF prev_fp = 0 THEN new_fp ELSE fp_ref
         /\ DOMAIN heap' = Addresses /\ heap' = [x \in Addresses |-> heap'[x]]
         /\ Initialised(heap, heap', cur_fp, prev_fp, allocHeader, req.wz, leftover, req.tag)
<1>1. /\ pc = "search" /\ fits
      /\ heap' = initialised(split, f_address(allocHeader), req.wz, req.tag)
      /\ fp_ref' = IF vp_unusable THEN new_fp ELSE fp_ref
  BY DEF TakeBlock, searching
<1>2. req \in [wz : Requests, tag : Tags]
  BY <1>1 DEF IInv, TypeOK, CallInv
<1>3. req.wz \in Nat /\ req.wz >= 1 /\ req.tag \in 0 .. 255 /\ normalised(req.wz) = req.wz
  <2>1. req.wz \in Requests /\ req.tag \in Tags
    BY <1>2
  <2>2. req.wz \in Nat /\ req.tag \in 0 .. 255 /\ req.wz # 0
    BY <2>1, RequestAssumption
  <2> QED
    BY <2>2 DEF normalised
<1>4. heap \in Words /\ zero_addr \in Addresses
  BY AddressFacts, LiveType DEF IInv
<1>5. \A o \in F : /\ hd_address(o) \in B /\ o = hd_address(o) + 8
                   /\ o \in Addresses /\ o \in Nat /\ o # 0
  <2>1. \A o \in F : hd_address(o) \in B /\ o = hd_address(o) + 8 /\ o \in Addresses
    BY <1>4, ListedFacts
  <2> QED
    BY <2>1, AddressFacts
<1>6. hd_address(cur_fp) \in Addresses /\ hd_address(cur_fp) \in Nat
  BY <1>5, AddressFacts
<1>7. blockWosize \in Nat
  BY <1>4, <1>6, Sizes DEF blockWosize
<1>8. leftover \in Nat /\ blockWosize = leftover + req.wz
  BY <1>1, <1>3, <1>7 DEF fits, leftover
<1>9. /\ allocHeader = hd_address(cur_fp) + 8 * leftover /\ allocHeader \in Nat
      /\ f_address(allocHeader) = allocHeader + 8
      /\ hd_address(f_address(allocHeader)) = allocHeader
  BY <1>6, <1>8 DEF allocHeader, f_address, hd_address, WordBytes
<1>10. (prev_fp = 0 /\ cur_fp = fp_ref) \/ (prev_fp \in F /\ heap[prev_fp] = cur_fp)
  BY <1>1 DEF SearchInv
<1>11. vp_unusable <=> prev_fp = 0
  <2>1. CASE prev_fp = 0
    BY <2>1 DEF vp_unusable
  <2>2. CASE prev_fp \in F /\ heap[prev_fp] = cur_fp
    <3>1. cur_fp < prev_fp /\ prev_fp # 0 /\ prev_fp \in Nat /\ cur_fp \in Nat
      BY <1>5, <2>2 DEF Descending
    <3>2. cur_fp = hd_address(cur_fp) + 8
      BY <1>5
    <3>3. prev_fp # hd_address(cur_fp)
      BY <1>6, <3>1, <3>2
    <3> QED
      BY <3>1, <3>3 DEF vp_unusable
  <2> QED
    BY <1>10, <2>1, <2>2
<1>12. /\ DOMAIN split = Addresses
       /\ \A x \in Addresses :
            split[x] = IF leftover > 0 /\ x = hd_address(cur_fp) THEN makeHeader(leftover - 1, Blue, 0)
                       ELSE IF x = prev_fp THEN new_fp
                       ELSE heap[x]
  <2>1. /\ DOMAIN linked = Addresses
        /\ \A x \in Addresses : linked[x] = IF x = prev_fp THEN new_fp ELSE heap[x]
    <3>1. CASE prev_fp = 0
      <4>1. 0 \notin Addresses
        BY AddressFacts
      <4> QED
        BY <1>4, <1>11, <3>1, <4>1 DEF linked, Words
    <3>2. CASE prev_fp # 0
      BY <1>4, <1>11, <3>2 DEF linked, Words
    <3> QED
      BY <3>1, <3>2
  <2>2. CASE leftover = 0
    BY <1>8, <2>1, <2>2 DEF split, remainder
  <2>3. CASE leftover # 0
    <3>1. split = [linked EXCEPT ![hd_address(cur_fp)] = makeHeader(leftover - 1, Blue, 0)]
      BY <2>3 DEF split, remainder
    <3>2. leftover > 0
      BY <1>8, <2>3
    <3> QED
      BY <2>1, <3>1, <3>2
  <2> QED
    BY <2>2, <2>3
<1>13. heap' = [x \in Addresses |-> heap'[x]] /\ DOMAIN heap' = Addresses
  BY <1>1 DEF initialised
<1>14. ASSUME NEW x \in Addresses
       PROVE  heap'[x] = IF x = allocHeader THEN makeHeader(req.wz, White, req.tag)
                         ELSE IF allocHeader < x /\ x < allocHeader + 8 + 8 * req.wz THEN Val_unit
                         ELSE split[x]
  <2>1. x \in Nat
    BY AddressFacts
  <2>2. allocHeader \in Addresses \cup {0, heap_size} \/ ~ (allocHeader < x)
    <3>1. SUFFICES ASSUME allocHeader < x PROVE allocHeader \in Addresses
      OBVIOUS
    <3>2. x < heap_size /\ heap_size \in Nat /\ zero_addr \in Nat /\ hd_address(cur_fp) >= zero_addr
      BY <1>6, AddressFacts
    <3>3. /\ hd_address(cur_fp) + 8 * leftover >= zero_addr
          /\ hd_address(cur_fp) + 8 * leftover < heap_size
      BY <1>6, <1>8, <1>9, <2>1, <3>1, <3>2
    <3>4. hd_address(cur_fp) \in Addresses \cup {heap_size} /\ leftover \in Int
      BY <1>6, <1>8
    <3>5. hd_address(cur_fp) + 8 * leftover \in Addresses
      BY <3>3, <3>4, Shifted
    <3> QED
      BY <1>9, <3>5
  <2>3. x \in allocHeader + 8 .. allocHeader + 8 + 8 * req.wz - 1
          <=> allocHeader < x /\ x < allocHeader + 8 + 8 * req.wz
    <3>1. allocHeader < x => allocHeader + 8 <= x
      BY <2>2, Apart
    <3> QED
      BY <1>3, <1>9, <2>1, <3>1
  <2> QED
    BY <1>1, <1>9, <2>3 DEF initialised, WordBytes
<1>15. new_fp = IF leftover >= 2 THEN cur_fp ELSE heap[cur_fp]
  BY DEF new_fp
<1>16. Initialised(heap, heap', cur_fp, prev_fp, allocHeader, req.wz, leftover, req.tag)
  BY <1>12, <1>14, <1>15 DEF Initialised
<1> QED
  BY <1>1, <1>2, <1>3, <1>8, <1>9, <1>10, <1>11, <1>13, <1>15, <1>16

LEMMA TakeBlockInv ==
  ASSUME IInv, TakeBlock, 0 \notin Requests
  PROVE  IInv' /\ f_address(allocHeader) \in Addresses \ DOMAIN live
<1>1. /\ pc = "search" /\ is_valid_fp(cur_fp) /\ pc' = "mutator" /\ req' = NoRequest
      /\ live' = [o \in DOMAIN live \cup {f_address(allocHeader)} |->
                    IF o = f_address(allocHeader) THEN req ELSE live[o]]
      /\ UNCHANGED <<retried, prev_fp, cur_fp, fuel, current, fb, rw, fp>>
  BY DEF TakeBlock, searching, searchVars, sweepVars
<1>2. PICK B \in SUBSET Addresses :
        /\ Tiled(heap, B, zero_addr, heap_size)
        /\ HaveField(B)
        /\ Settled(heap, B, DOMAIN live)
        /\ Coalesced(heap, B)
        /\ Intact(heap, B, live)
        /\ Descending(heap, FreeIn(heap, B), fp_ref)
        /\ SearchInv(FreeIn(heap, B))
        /\ FreeIn(heap, B) \in SUBSET Addresses
        /\ cur_fp \in FreeIn(heap, B) \cup {0}
        /\ is_valid_fp(cur_fp) <=> cur_fp \in FreeIn(heap, B)
  BY <1>1, SearchState
<1>3. cur_fp \in FreeIn(heap, B)
  BY <1>1, <1>2
<1>4. /\ req \in [wz : Requests, tag : Tags] /\ req.wz \in Nat /\ req.wz >= 1
      /\ req.tag \in 0 .. 255
      /\ leftover \in Nat /\ blockWosize = leftover + req.wz
      /\ allocHeader = hd_address(cur_fp) + 8 * leftover
      /\ f_address(allocHeader) = allocHeader + 8
      /\ (prev_fp = 0 /\ cur_fp = fp_ref) \/ (prev_fp \in FreeIn(heap, B) /\ heap[prev_fp] = cur_fp)
      /\ new_fp = IF leftover >= 2 THEN cur_fp ELSE heap[cur_fp]
      /\ fp_ref' = IF prev_fp = 0 THEN new_fp ELSE fp_ref
      /\ DOMAIN heap' = Addresses /\ heap' = [x \in Addresses |-> heap'[x]]
      /\ Initialised(heap, heap', cur_fp, prev_fp, allocHeader, req.wz, leftover, req.tag)
  BY <1>2, <1>3, TakeBlockHeap
<1>5. PICK L \in Nat, n \in Nat, t \in 0 .. 255 : L = leftover /\ n = req.wz /\ t = req.tag
  BY <1>4
<1>6. PICK A, k, obj2, head2 :
        A = allocHeader /\ k = heap' /\ obj2 = live' /\ head2 = fp_ref'
  OBVIOUS
<1>7. heap \in Words /\ \A o \in DOMAIN live : o \in Addresses /\ live[o].wz \in Nat
  BY LiveType DEF IInv
<1>8. /\ DOMAIN k = Addresses /\ k = [x \in Addresses |-> k[x]]
      /\ n >= 1 /\ req.wz = n /\ req.tag = t
      /\ obj2 = [o \in DOMAIN live \cup {A + 8} |-> IF o = A + 8 THEN req ELSE live[o]]
      /\ head2 = IF prev_fp = 0 THEN (IF L >= 2 THEN cur_fp ELSE heap[cur_fp]) ELSE fp_ref
      /\ getWosize(heap[hd_address(cur_fp)]) = L + n
      /\ (prev_fp = 0 /\ cur_fp = fp_ref) \/ (prev_fp \in FreeIn(heap, B) /\ heap[prev_fp] = cur_fp)
      /\ A = hd_address(cur_fp) + 8 * L
      /\ Initialised(heap, k, cur_fp, prev_fp, A, n, L, t)
  BY <1>1, <1>4, <1>5, <1>6 DEF blockWosize
<1>9. /\ k \in Words /\ A + 8 \in Addresses /\ A + 8 \notin DOMAIN live
      /\ Whole(k, B \cup {A}, obj2, head2)
  <2>1. PICK h, obj, c, p, head, r :
          h \in Words /\ h = heap /\ obj = live /\ c = cur_fp /\ p = prev_fp /\ head = fp_ref /\ r = req
    BY <1>7
  <2>2. Whole(h, B, obj, head)
    BY <1>2, <2>1 DEF Whole
  <2>3. \A o \in DOMAIN obj : o \in Addresses /\ obj[o].wz \in Nat
    BY <1>7, <2>1
  <2>4. Allocation(h, k, B, obj, obj2, head, head2, c, p, A, n, L, t, r)
    BY <1>3, <1>8, <2>1, <2>3 DEF Allocation
  <2>5. /\ k \in Words /\ A + 8 \in Addresses /\ A + 8 \notin DOMAIN obj
        /\ Whole(k, B \cup {A}, obj2, head2)
    BY <2>2, <2>4, CarveSound, Zenon
  <2> QED
    BY <2>1, <2>5
<1>10. k = heap' /\ obj2 = live' /\ head2 = fp_ref'
  BY <1>6
<1>11. \A G : SearchInv(G)'
  BY <1>1 DEF SearchInv
<1>12. HeapInv'
  BY <1>9, <1>10, <1>11 DEF HeapInv, Whole
<1>13. SweepInv' /\ CallInv'
  BY <1>1 DEF SweepInv, CallInv
<1>14. fp_ref' \in Addresses \cup {0}
  <2>1. head2 \in FreeIn(k, B \cup {A}) \cup {0}
    BY <1>9 DEF Descending, Whole
  <2>2. zero_addr \in Addresses
    BY AddressFacts
  <2>3. \A o \in FreeIn(k, B \cup {A}) : o \in Addresses
    BY <1>9, <2>2, ListedFacts DEF Whole
  <2> QED
    BY <1>10, <2>1, <2>3
<1>15. TypeOK'
  <2>1. DOMAIN live' \subseteq Addresses /\ \A o \in DOMAIN live' : live'[o] \in [wz : Requests, tag : Tags]
    BY <1>4, <1>7, <1>8, <1>9, <1>10 DEF IInv, TypeOK
  <2>2. heap' \in [Addresses -> Nat]
    BY <1>9, <1>10 DEF Words
  <2> QED
    BY <1>1, <1>14, <2>1, <2>2 DEF IInv, TypeOK
<1> QED
  BY <1>4, <1>6, <1>9, <1>12, <1>13, <1>15 DEF IInv

-----------------------------------------------------------------------------
LEMMA StutterInv ==
  ASSUME IInv, UNCHANGED vars
  PROVE  IInv'
<1>1. UNCHANGED <<heap, fp_ref, pc, req, retried, prev_fp, cur_fp, fuel, current, fb, rw, fp, live>>
  BY DEF vars, searchVars, sweepVars
<1>2. TypeOK'
  BY <1>1 DEF IInv, TypeOK
<1>3. HeapInv'
  <2>1. \A F : SearchInv(F)' = SearchInv(F)
    BY <1>1 DEF SearchInv
  <2> QED
    BY <1>1, <2>1 DEF IInv, HeapInv
<1>4. SweepInv'
  BY <1>1 DEF IInv, SweepInv, runStart
<1>5. CallInv'
  BY <1>1 DEF IInv, CallInv
<1> QED
  BY <1>2, <1>3, <1>4, <1>5 DEF IInv

\* The invariant holds in every state, whatever the program asks for, as long as
\* it asks for no block of size zero.
THEOREM Invariance ==
  ASSUME 0 \notin Requests
  PROVE  Spec => []IInv
<1>1. Init => IInv
  BY InitInv
<1>2. IInv /\ [Next]_vars => IInv'
  BY RequestInv, NextBlockInv, TakeBlockInv, ControlInv, MarkPhaseInv,
     SweepSurvivorInv, SweepFreeInv, EndSweepInv, StutterInv DEF Next
<1> QED
  BY <1>1, <1>2, PTL DEF Spec

-----------------------------------------------------------------------------
(* What the invariant says of the properties that TLC checks *)

\* Outside a sweep, the blocks of the walk are those of the invariant.
LEMMA Blocks ==
  ASSUME IInv, pc # "sweep"
  PROVE  /\ heap \in Words /\ Headers \in SUBSET Addresses
         /\ Tiled(heap, Headers, zero_addr, heap_size)
         /\ Settled(heap, Headers, DOMAIN live)
         /\ Coalesced(heap, Headers)
         /\ Intact(heap, Headers, live)
         /\ Descending(heap, FreeIn(heap, Headers), fp_ref)
         /\ SearchInv(FreeIn(heap, Headers))
         /\ walkOf(heap)[HeapWords] = heap_size
<1>1. PICK B \in SUBSET Addresses :
        /\ Tiled(heap, B, zero_addr, heap_size)
        /\ HaveField(B)
        /\ Settled(heap, B, DOMAIN live)
        /\ Coalesced(heap, B)
        /\ Intact(heap, B, live)
        /\ Descending(heap, FreeIn(heap, B), fp_ref)
        /\ SearchInv(FreeIn(heap, B))
  BY DEF IInv, HeapInv
<1>2. heap \in Words
  BY LiveType DEF IInv
<1>3. walkOf(heap)[HeapWords] = heap_size /\ Headers = B
  BY <1>1, <1>2, WalkIs DEF Headers
<1> QED
  BY <1>1, <1>2, <1>3

LEMMA LiveIntactHolds ==
  ASSUME IInv
  PROVE  LiveIntact
<1>1. heap \in Words /\ \A o \in DOMAIN live : o \in Addresses /\ live[o].wz \in Nat
  BY LiveType DEF IInv
<1>2. heap_size \in Nat /\ zero_addr \in Addresses
  BY AddressFacts
<1>3. PICK B \in SUBSET Addresses :
        Intact(heap, B, live) /\ \A a \in B : nextHeader(heap, a) <= heap_size
  <2>1. CASE pc # "sweep"
    <3>1. Headers \in SUBSET Addresses /\ Intact(heap, Headers, live)
          /\ Tiled(heap, Headers, zero_addr, heap_size)
      BY <2>1, Blocks
    <3>2. \A a \in Headers : nextHeader(heap, a) <= heap_size
      BY <1>1, <1>2, <3>1, TileBounds
    <3> QED
      BY <3>1, <3>2
  <2>2. CASE pc = "sweep"
    <3>1. PICK P, U \in SUBSET Addresses :
            /\ Tiled(heap, P, zero_addr, runStart)
            /\ Tiled(heap, U, current, heap_size)
            /\ Intact(heap, P \cup U, live)
      BY <2>2 DEF IInv, SweepInv
    <3>2. runStart \in Addresses \cup {heap_size}
      BY <2>2 DEF IInv, SweepInv
    <3>3. \A a \in P : nextHeader(heap, a) <= heap_size
      <4>1. runStart <= heap_size /\ runStart \in Nat
        BY <3>2, AddressFacts
      <4>2. \A a \in P : nextHeader(heap, a) <= runStart
        BY <1>1, <1>2, <3>1, <3>2, TileBounds
      <4>3. \A a \in P : nextHeader(heap, a) \in Nat
        BY <1>1, Sizes
      <4> QED
        BY <1>2, <4>1, <4>2, <4>3
    <3>4. ASSUME NEW a \in U PROVE nextHeader(heap, a) <= heap_size
      <4>1. nextHeader(heap, a) \in U \cup {heap_size}
        BY <3>1 DEF Tiled
      <4> QED
        BY <1>2, <4>1, AddressFacts
    <3> QED
      BY <3>1, <3>3, <3>4
  <2> QED
    BY <2>1, <2>2
<1>4. ASSUME NEW o \in DOMAIN live
      PROVE  /\ o + WordBytes * live[o].wz <= heap_size
             /\ getWosize(heap[hd_address(o)]) = live[o].wz
             /\ getTag(heap[hd_address(o)]) = live[o].tag
             /\ \A i \in 0 .. live[o].wz - 1 : heap[o + WordBytes * i] = Val_unit
  <2>1. /\ hd_address(o) \in B /\ getWosize(heap[hd_address(o)]) = live[o].wz
        /\ getTag(heap[hd_address(o)]) = live[o].tag
        /\ \A i \in 0 .. live[o].wz - 1 : heap[o + WordBytes * i] = Val_unit
    BY <1>3 DEF Intact
  <2>2. /\ o = hd_address(o) + 8 /\ hd_address(o) \in Nat
        /\ nextHeader(heap, hd_address(o)) = hd_address(o) + 8 + 8 * live[o].wz
        /\ nextHeader(heap, hd_address(o)) <= heap_size
    BY <1>1, <1>3, <2>1, HeaderAddress, Sizes, AddressFacts
  <2> QED
    BY <1>1, <1>2, <2>1, <2>2 DEF WordBytes
<1> QED
  BY <1>4 DEF LiveIntact

LEMMA HeapWalkableHolds ==
  ASSUME IInv
  PROVE  HeapWalkable
<1> SUFFICES ASSUME pc # "sweep"
             PROVE  /\ walkOf(heap)[HeapWords] = heap_size
                    /\ {f_address(a) : a \in usedBlocks} = DOMAIN live
                    /\ \A a \in usedBlocks : getColor(heap[a]) = White
  BY DEF HeapWalkable
<1>1. /\ Headers \in SUBSET Addresses /\ Settled(heap, Headers, DOMAIN live)
      /\ Intact(heap, Headers, live) /\ walkOf(heap)[HeapWords] = heap_size
  BY Blocks
<1>2. White # Blue
  BY DEF White, Blue
<1>3. usedBlocks = {a \in Headers : getColor(heap[a]) # Blue}
  BY DEF usedBlocks, freeBlocks
<1>4. \A a \in usedBlocks : getColor(heap[a]) = White /\ f_address(a) \in DOMAIN live
  BY <1>1, <1>3 DEF Settled
<1>5. ASSUME NEW o \in DOMAIN live PROVE \E a \in usedBlocks : o = f_address(a)
  <2>1. hd_address(o) \in Headers /\ f_address(hd_address(o)) = o
    <3>1. o \in Addresses
      BY LiveType DEF IInv
    <3> QED
      BY <1>1, <3>1, HeaderAddress DEF Intact
  <2>2. getColor(heap[hd_address(o)]) = White
    BY <1>1, <2>1 DEF Settled
  <2> QED
    BY <1>2, <1>3, <2>1, <2>2
<1> QED
  BY <1>1, <1>4, <1>5

LEMMA FreeListExactHolds ==
  ASSUME IInv
  PROVE  FreeListExact
<1> SUFFICES ASSUME pc # "sweep"
             PROVE  /\ chain[HeapWords] = 0
                    /\ {chain[i] : i \in 0 .. HeapWords} \ {0} =
                         {f_address(a) : a \in {b \in freeBlocks : getWosize(heap[b]) >= 1}}
                    /\ \A i, j \in 0 .. HeapWords : chain[i] = chain[j] /\ chain[i] # 0 => i = j
  BY DEF FreeListExact
<1>1. /\ heap \in Words /\ Tiled(heap, Headers, zero_addr, heap_size)
      /\ Descending(heap, FreeIn(heap, Headers), fp_ref) /\ zero_addr \in Addresses
  BY Blocks, AddressFacts
<1>2. FreeIn(heap, Headers) \in SUBSET Addresses /\ zero_addr \notin FreeIn(heap, Headers)
  BY <1>1, ListedFacts
<1>3. {f_address(a) : a \in {b \in freeBlocks : getWosize(heap[b]) >= 1}} = FreeIn(heap, Headers)
  BY DEF FreeIn, freeBlocks
<1> QED
  BY <1>1, <1>2, <1>3, ListIs DEF chain

LEMMA RequestSize ==
  ASSUME IInv, pc = "search"
  PROVE  /\ req \in [wz : Requests, tag : Tags] /\ req.wz \in Nat
         /\ normalised(req.wz) \in Nat /\ normalised(req.wz) >= 1
<1>1. req \in [wz : Requests, tag : Tags]
  BY DEF IInv, TypeOK, CallInv
<1>2. req.wz \in Nat
  BY <1>1, RequestAssumption
<1> QED
  BY <1>1, <1>2 DEF normalised

\* The carved object lies inside the block it is carved from, so that the bound
\* test of allocate never fails a search that has found a block.
LEMMA CarvedInside ==
  ASSUME IInv, pc = "search", fits, NEW B, Tiled(heap, B, zero_addr, heap_size),
         cur_fp \in FreeIn(heap, B)
  PROVE  f_address(allocHeader) < heap_size
<1>1. heap \in Words /\ zero_addr \in Addresses /\ heap_size \in Nat
  BY LiveType, AddressFacts DEF IInv
<1>2. /\ hd_address(cur_fp) \in B /\ hd_address(cur_fp) \in Addresses
      /\ hd_address(cur_fp) \in Nat /\ nextHeader(heap, hd_address(cur_fp)) <= heap_size
  <2>1. hd_address(cur_fp) \in B
    BY <1>1, ListedFacts
  <2>2. nextHeader(heap, hd_address(cur_fp)) <= heap_size
    BY <1>1, <2>1, TileBounds
  <2> QED
    BY <2>1, <2>2, AddressFacts DEF Tiled
<1>3. /\ blockWosize \in Nat
      /\ nextHeader(heap, hd_address(cur_fp)) = hd_address(cur_fp) + 8 + 8 * blockWosize
  BY <1>1, <1>2, Sizes DEF blockWosize
<1>4. normalised(req.wz) \in Nat /\ normalised(req.wz) >= 1
  BY RequestSize
<1>5. leftover \in Nat /\ leftover + 1 <= blockWosize
  BY <1>3, <1>4 DEF leftover, fits
<1>6. f_address(allocHeader) = hd_address(cur_fp) + 8 * leftover + 8
  BY <1>2, <1>5 DEF f_address, allocHeader, WordBytes
<1> QED
  BY <1>1, <1>2, <1>3, <1>5, <1>6

LEMMA FailureMeansNoFitHolds ==
  ASSUME IInv
  PROVE  FailureMeansNoFit
<1> SUFFICES ASSUME searchFailed, NEW b \in freeBlocks
             PROVE  getWosize(heap[b]) < normalised(req.wz)
  BY DEF FailureMeansNoFit
<1>1. pc = "search"
  BY DEF searchFailed
<1>2. /\ heap \in Words /\ Headers \in SUBSET Addresses
      /\ Tiled(heap, Headers, zero_addr, heap_size)
      /\ SearchInv(FreeIn(heap, Headers))
  BY <1>1, Blocks
<1>3. PICK F : F = FreeIn(heap, Headers)
  OBVIOUS
<1>4. \A o \in F : o \in Addresses /\ o # zero_addr /\ o # 0 /\ o \in Nat
  <2>1. zero_addr \in Addresses
    BY AddressFacts
  <2>2. \A o \in F : o \in Addresses /\ o # zero_addr
    BY <1>2, <1>3, <2>1, ListedFacts
  <2> QED
    BY <2>2, AddressFacts
<1>5. fuel # 0
  BY <1>1, SearchState
<1>6. cur_fp \in F \cup {0} /\ \A o \in F : o > cur_fp => getWosize(heap[hd_address(o)]) < normalised(req.wz)
  BY <1>1, <1>2, <1>3 DEF SearchInv
<1>7. cur_fp = 0
  <2>1. CASE ~is_valid_fp(cur_fp)
    BY <1>4, <1>6, <2>1, ValidPointers
  <2>2. CASE is_valid_fp(cur_fp)
    <3>1. fits /\ f_address(allocHeader) >= heap_size /\ cur_fp \in F
      BY <1>5, <1>6, <2>2, ValidPointers DEF searchFailed
    <3>2. f_address(allocHeader) < heap_size
      BY <1>1, <1>2, <1>3, <3>1, CarvedInside
    <3>3. f_address(allocHeader) \in Int /\ heap_size \in Nat
      <4>1. hd_address(cur_fp) \in Int
        BY <1>4, <3>1, HeaderAddress
      <4>2. normalised(req.wz) \in Nat
        BY <1>1, RequestSize
      <4>3. blockWosize \in Nat
        <5>1. hd_address(cur_fp) \in Addresses
          <6>1. zero_addr \in Addresses
            BY AddressFacts
          <6> QED
            BY <1>2, <1>3, <3>1, <6>1, ListedFacts
        <5> QED
          BY <1>2, <5>1, Sizes DEF blockWosize
      <4> QED
        BY <4>1, <4>2, <4>3, AddressFacts DEF f_address, allocHeader, leftover, WordBytes
    <3> QED
      BY <3>1, <3>2, <3>3
  <2> QED
    BY <2>1, <2>2
<1>8. b \in Headers /\ getColor(heap[b]) = Blue /\ b \in Addresses
  BY <1>2 DEF freeBlocks
<1>9. getWosize(heap[b]) \in Nat /\ normalised(req.wz) \in Nat /\ normalised(req.wz) >= 1
  BY <1>1, <1>2, <1>8, Sizes, RequestSize
<1>10. CASE getWosize(heap[b]) >= 1
  <2>1. f_address(b) \in F
    BY <1>3, <1>8, <1>10 DEF FreeIn
  <2>2. hd_address(f_address(b)) = b
    BY <1>8, HeaderAddress
  <2>3. f_address(b) > 0
    BY <1>4, <2>1
  <2> QED
    BY <1>6, <1>7, <2>1, <2>2, <2>3
<1>11. CASE ~ (getWosize(heap[b]) >= 1)
  BY <1>9, <1>11
<1> QED
  BY <1>10, <1>11

LEMMA BlocksCoalesced ==
  IInv /\ pc # "sweep" => Coalesced(heap, Headers)
BY Blocks

\* The blocks when a sweep ends are coalesced.
LEMMA SweepCoalescesHolds ==
  IInv' => (pc = "sweep" /\ pc' # "sweep" =>
              \A a \in freeBlocks' : nextHeader(heap', a) \notin freeBlocks')
<1>1. (IInv /\ pc # "sweep" => Coalesced(heap, Headers))'
  BY BlocksCoalesced, PTL
<1> SUFFICES ASSUME IInv', pc' # "sweep", NEW a \in freeBlocks', nextHeader(heap', a) \in freeBlocks'
             PROVE  FALSE
  OBVIOUS
<1>2. Coalesced(heap', Headers')
  BY <1>1
<1> QED
  BY <1>2 DEF freeBlocks, Coalesced

-----------------------------------------------------------------------------
(* The theorems *)

\* Every variable keeps its type: in particular allocate and the sweep never
\* leave the heap, and the fuel and the run of free words stay in bounds.
THEOREM TypeCorrect ==
  ASSUME 0 \notin Requests
  PROVE  Spec => []TypeOK
<1>1. IInv => TypeOK
  BY DEF IInv
<1> QED
  BY <1>1, Invariance, PTL

\* No search, split, sweep or flush writes into an object in use.
THEOREM ObjectsIntact ==
  ASSUME 0 \notin Requests
  PROVE  Spec => []LiveIntact
<1>1. IInv => LiveIntact
  BY LiveIntactHolds
<1> QED
  BY <1>1, Invariance, PTL

\* Outside a sweep, the walk by header sizes ends at the end of the heap and
\* finds exactly the objects in use, all of them white.
THEOREM Walkable ==
  ASSUME 0 \notin Requests
  PROVE  Spec => []HeapWalkable
<1>1. IInv => HeapWalkable
  BY HeapWalkableHolds
<1> QED
  BY <1>1, Invariance, PTL

\* Outside a sweep, the free list ends and holds each free block with a field
\* exactly once.
THEOREM FreeListCorrect ==
  ASSUME 0 \notin Requests
  PROVE  Spec => []FreeListExact
<1>1. IInv => FreeListExact
  BY FreeListExactHolds
<1> QED
  BY <1>1, Invariance, PTL

\* A search fails only when no free block is large enough: fuel and the bound
\* test on the carved object never cut it short.
THEOREM FailureExact ==
  ASSUME 0 \notin Requests
  PROVE  Spec => []FailureMeansNoFit
<1>1. IInv => FailureMeansNoFit
  BY FailureMeansNoFitHolds
<1> QED
  BY <1>1, Invariance, PTL

\* When a sweep ends, no two free blocks are side by side.
THEOREM SweepMerges ==
  ASSUME 0 \notin Requests
  PROVE  Spec => SweepCoalesces
<1>1. IInv' => (pc = "sweep" /\ pc' # "sweep" =>
                  \A a \in freeBlocks' : nextHeader(heap', a) \notin freeBlocks')
  BY SweepCoalescesHolds
<1> QED
  BY <1>1, Invariance, PTL DEF SweepCoalesces

-----------------------------------------------------------------------------
(* The heap implements BlockStore *)

LEMMA StoreWords ==
  /\ Store!HeapEnd = heap_size
  /\ Store!Objects = Addresses \ {zero_addr}
<1>1. Store!HeapEnd = heap_size
  BY DEF Store!HeapEnd, Store!Place, heap_size, WordBytes
<1>2. Store!Objects = {zero_addr + 8 * i : i \in 1 .. HeapWords - 1}
  BY DEF Store!Objects, Store!Place
<1>3. ASSUME NEW i \in 1 .. HeapWords - 1
      PROVE  zero_addr + 8 * i \in Addresses \ {zero_addr}
  <2>1. i \in 0 .. HeapWords - 1 /\ zero_addr + 8 * i # zero_addr
    BY HeapAssumption
  <2> QED
    BY <2>1 DEF Addresses, WordBytes
<1>4. ASSUME NEW x \in Addresses \ {zero_addr}
      PROVE  \E i \in 1 .. HeapWords - 1 : x = zero_addr + 8 * i
  <2>1. PICK i \in 0 .. HeapWords - 1 : x = zero_addr + 8 * i
    BY DEF Addresses, WordBytes
  <2>2. i # 0
    BY <2>1, HeapAssumption
  <2>3. i \in 1 .. HeapWords - 1
    BY <2>2, HeapAssumption
  <2> QED
    BY <2>1, <2>3
<1> QED
  BY <1>1, <1>2, <1>3, <1>4

\* The block taken lies off every object in use: in the heap that TakeBlock
\* leaves, both lie in blocks of the tiling.
LEMMA BlockTakenFree ==
  ASSUME IInv, TakeBlock, 0 \notin Requests
  PROVE  /\ f_address(allocHeader) \in Store!Objects
         /\ Store!Free(f_address(allocHeader), req.wz)
<1>1. IInv' /\ f_address(allocHeader) \in Addresses \ DOMAIN live
  BY TakeBlockInv
<1>2. PICK o \in Addresses \ DOMAIN live : o = f_address(allocHeader)
  BY <1>1
<1>3. /\ pc = "search" /\ pc' = "mutator"
      /\ live' = [p \in DOMAIN live \cup {o} |-> IF p = o THEN req ELSE live[p]]
  BY <1>2 DEF TakeBlock, searching
<1>4. PICK B \in SUBSET Addresses :
        Tiled(heap', B, zero_addr, heap_size) /\ Intact(heap', B, live')
  BY <1>1, <1>3 DEF IInv, HeapInv
<1>5. PICK k, obj : k \in Words /\ k = heap' /\ obj = live'
  BY <1>1 DEF IInv, TypeOK, Words
<1>6. Tiled(k, B, zero_addr, heap_size) /\ Intact(k, B, obj)
  BY <1>4, <1>5
<1>7. /\ DOMAIN obj = DOMAIN live \cup {o} /\ obj[o].wz = req.wz
      /\ \A p \in DOMAIN live : p # o /\ obj[p].wz = live[p].wz
  BY <1>3, <1>5
<1>8. heap_size \in Nat /\ zero_addr \in Addresses /\ zero_addr \in Nat /\ req.wz \in Nat
      /\ \A p \in DOMAIN live : p \in Addresses /\ live[p].wz \in Nat
  BY <1>3, RequestSize, AddressFacts, LiveType DEF IInv
<1>9. ASSUME NEW p \in DOMAIN obj
      PROVE  /\ hd_address(p) \in B /\ p = hd_address(p) + 8 /\ p \in Nat /\ hd_address(p) \in Nat
             /\ obj[p].wz \in Nat
             /\ nextHeader(k, hd_address(p)) = p + 8 * obj[p].wz
             /\ nextHeader(k, hd_address(p)) <= heap_size
  <2>1. p \in Addresses /\ p \in Nat /\ obj[p].wz \in Nat
    BY <1>2, <1>7, <1>8, AddressFacts
  <2>2. hd_address(p) \in B /\ getWosize(k[hd_address(p)]) = obj[p].wz /\ p = hd_address(p) + 8
    BY <1>6, <2>1, HeaderAddress DEF Intact
  <2>3. hd_address(p) \in Addresses /\ hd_address(p) \in Nat
    BY <2>2, AddressFacts
  <2>4. nextHeader(k, hd_address(p)) = p + 8 * obj[p].wz
    BY <1>5, <2>1, <2>2, <2>3, Sizes
  <2>5. nextHeader(k, hd_address(p)) <= heap_size
    BY <1>5, <1>6, <1>8, <2>2, TileBounds
  <2> QED
    BY <2>1, <2>2, <2>3, <2>4, <2>5
<1>10. o \in DOMAIN obj /\ nextHeader(k, hd_address(o)) = o + 8 * req.wz
  BY <1>7, <1>9
<1>11. o # zero_addr /\ o \in Nat
  <2>1. hd_address(o) >= zero_addr
    BY <1>9, <1>10, AddressFacts
  <2> QED
    BY <1>8, <1>9, <1>10, <2>1
<1>12. ASSUME NEW p \in DOMAIN live
       PROVE  p + 8 * live[p].wz <= o - 8 \/ o + 8 * req.wz <= p - 8
  <2>1. /\ p \in DOMAIN obj /\ p # o /\ obj[p].wz = live[p].wz
        /\ nextHeader(k, hd_address(p)) = p + 8 * live[p].wz
    BY <1>7, <1>9
  <2>2. hd_address(p) < hd_address(o) => nextHeader(k, hd_address(p)) <= hd_address(o)
    BY <1>6, <1>9, <1>10, <2>1 DEF Tiled
  <2>3. hd_address(o) < hd_address(p) => nextHeader(k, hd_address(o)) <= hd_address(p)
    BY <1>6, <1>9, <1>10, <2>1 DEF Tiled
  <2>4. /\ hd_address(p) \in Nat /\ hd_address(o) \in Nat /\ p = hd_address(p) + 8
        /\ o = hd_address(o) + 8 /\ live[p].wz \in Nat
    BY <1>8, <1>9, <1>10, <2>1
  <2> QED
    BY <1>8, <1>10, <2>1, <2>2, <2>3, <2>4
<1>13. o + 8 * req.wz <= heap_size
  BY <1>9, <1>10
<1>14. Store!Free(o, req.wz)
  BY <1>12, <1>13, StoreWords DEF Store!Free
<1>15. o \in Store!Objects
  BY <1>11, StoreWords
<1> QED
  BY <1>2, <1>14, <1>15

\* A failed search leaves no gap between the objects in use that is large
\* enough, because a gap that is not one free block would hold two of them side
\* by side.
LEMMA NoGap ==
  ASSUME IInv, searchFailed, 0 \notin Requests, NEW o \in Store!Objects, Store!Free(o, req.wz)
  PROVE  FALSE
<1>1. pc = "search" /\ req # NoRequest
  BY DEF searchFailed, IInv, CallInv
<1>2. /\ heap \in Words /\ Headers \in SUBSET Addresses
      /\ Tiled(heap, Headers, zero_addr, heap_size)
      /\ Settled(heap, Headers, DOMAIN live)
      /\ Coalesced(heap, Headers)
      /\ Intact(heap, Headers, live)
  BY <1>1, Blocks
<1>3. /\ req.wz \in Nat /\ req.wz >= 1 /\ normalised(req.wz) = req.wz
  <2>1. req.wz \in Requests /\ req.wz \in Nat
    BY <1>1, RequestSize
  <2>2. req.wz # 0
    BY <2>1
  <2> QED
    BY <2>1, <2>2 DEF normalised
<1>4. PICK n \in Nat : n = req.wz /\ n >= 1
  BY <1>3
<1>5. /\ o + 8 * n <= heap_size
      /\ \A p \in DOMAIN live : p + 8 * live[p].wz <= o - 8 \/ o + 8 * n <= p - 8
  BY <1>4, StoreWords DEF Store!Free
<1>6. /\ o \in Addresses /\ o # zero_addr /\ o \in Nat /\ o >= zero_addr
      /\ heap_size \in Nat /\ zero_addr \in Nat /\ zero_addr \in Addresses
  BY StoreWords, AddressFacts
<1>7. o - 8 \in Addresses
  <2>1. zero_addr + 8 <= o
    <3>1. zero_addr < o
      BY <1>6
    <3> QED
      BY <1>6, <3>1, Apart
  <2>2. o + 8 * (-1) >= zero_addr /\ o + 8 * (-1) < heap_size
    BY <1>5, <1>6, <2>1
  <2>3. o + 8 * (-1) \in Addresses
    <3>1. o \in Addresses \cup {heap_size} /\ -1 \in Int
      BY <1>6
    <3> QED
      BY <2>2, <3>1, Shifted
  <2>4. o + 8 * (-1) = o - 8
    BY <1>6
  <2> QED
    BY <2>3, <2>4
<1>8. PICK b \in Headers : b <= o - 8 /\ o - 8 < nextHeader(heap, b)
  BY <1>2, <1>7, WalkPasses
<1>9. ASSUME NEW a \in Headers
      PROVE  /\ a \in Nat /\ a \in Addresses /\ nextHeader(heap, a) \in Nat
             /\ nextHeader(heap, a) = a + 8 + 8 * getWosize(heap[a]) /\ getWosize(heap[a]) \in Nat
             /\ \/ /\ getColor(heap[a]) = White /\ a + 8 \in DOMAIN live
                   /\ nextHeader(heap, a) = a + 8 + 8 * live[a + 8].wz
                \/ getColor(heap[a]) = Blue /\ getWosize(heap[a]) < n
  <2>1. /\ a \in Nat /\ a \in Addresses /\ nextHeader(heap, a) \in Nat
        /\ nextHeader(heap, a) = a + 8 + 8 * getWosize(heap[a]) /\ getWosize(heap[a]) \in Nat
    BY <1>2, AddressFacts, Sizes
  <2>2. f_address(a) = a + 8 /\ hd_address(f_address(a)) = a
    BY <2>1, HeaderAddress
  <2>3. CASE f_address(a) \in DOMAIN live
    <3>1. getColor(heap[a]) = White /\ getWosize(heap[a]) = live[a + 8].wz
      BY <1>2, <2>2, <2>3 DEF Settled, Intact
    <3> QED
      BY <2>1, <2>2, <2>3, <3>1
  <2>4. CASE f_address(a) \notin DOMAIN live
    <3>1. getColor(heap[a]) = Blue
      BY <1>2, <2>4 DEF Settled
    <3>2. getWosize(heap[a]) < normalised(req.wz)
      BY <3>1, FailureMeansNoFitHolds DEF FailureMeansNoFit, freeBlocks
    <3> QED
      BY <1>3, <1>4, <2>1, <3>1, <3>2
  <2> QED
    BY <2>3, <2>4
<1>10. getColor(heap[b]) = Blue /\ getWosize(heap[b]) < n
  <2>1. SUFFICES ASSUME b + 8 \in DOMAIN live, nextHeader(heap, b) = b + 8 + 8 * live[b + 8].wz
                 PROVE  FALSE
    BY <1>9
  <2>2. nextHeader(heap, b) <= o - 8 \/ o + 8 * n <= (b + 8) - 8
    BY <1>5, <2>1
  <2>3. b \in Nat /\ nextHeader(heap, b) \in Nat
    BY <1>9
  <2> QED
    BY <1>4, <1>6, <1>8, <2>2, <2>3
<1>11. nextHeader(heap, b) < o + 8 * n
  <2>1. /\ nextHeader(heap, b) = b + 8 + 8 * getWosize(heap[b]) /\ getWosize(heap[b]) \in Nat
        /\ b \in Nat
    BY <1>9
  <2> QED
    BY <1>4, <1>6, <1>8, <1>10, <2>1
<1>12. PICK e \in Headers : e = nextHeader(heap, b)
  <2>1. nextHeader(heap, b) \in Headers \cup {heap_size}
    BY <1>2 DEF Tiled
  <2>2. nextHeader(heap, b) # heap_size
    BY <1>4, <1>5, <1>6, <1>11
  <2> QED
    BY <2>1, <2>2
<1>13. getColor(heap[e]) # Blue
  BY <1>2, <1>10, <1>12 DEF Coalesced
<1>14. e + 8 \in DOMAIN live /\ nextHeader(heap, e) = e + 8 + 8 * live[e + 8].wz
  BY <1>9, <1>13
<1>15. nextHeader(heap, e) <= o - 8 \/ o + 8 * n <= (e + 8) - 8
  BY <1>5, <1>14
<1>16. e \in Nat /\ nextHeader(heap, e) \in Nat /\ e < nextHeader(heap, e) /\ o - 8 < e /\ e < o + 8 * n
  BY <1>2, <1>8, <1>9, <1>11, <1>12, Sizes
<1> QED
  BY <1>4, <1>6, <1>15, <1>16

\* The collected flag of BlockStore.
Collected == req # NoRequest /\ retried /\ pc # "mark"

LEMMA StoreInit ==
  Init => Store!Init
BY DEF Init, Store!Init

LEMMA StoreRequest ==
  ASSUME IInv, Request
  PROVE  Store!Ask
<1>1. req = NoRequest /\ UNCHANGED live /\ retried' = FALSE
  BY DEF Request, IInv, CallInv
<1>2. \E w \in Requests, t \in Tags : req' = [wz |-> w, tag |-> t]
  BY DEF Request
<1> QED
  BY <1>1, <1>2 DEF Store!Ask

LEMMA StoreTakeBlock ==
  ASSUME IInv, TakeBlock, 0 \notin Requests
  PROVE  Store!Grant
<1>1. /\ f_address(allocHeader) \in Store!Objects
      /\ Store!Free(f_address(allocHeader), req.wz)
  BY BlockTakenFree
<1>2. /\ req # NoRequest /\ req' = NoRequest
      /\ live' = [p \in DOMAIN live \cup {f_address(allocHeader)} |->
                    IF p = f_address(allocHeader) THEN req ELSE live[p]]
  BY DEF TakeBlock, searching, IInv, CallInv
<1> QED
  BY <1>1, <1>2 DEF Store!Grant

LEMMA StoreOutOfMemory ==
  ASSUME IInv, OutOfMemory, 0 \notin Requests
  PROVE  Store!Refuse
<1>1. /\ searchFailed /\ retried /\ pc = "search" /\ req # NoRequest
      /\ req' = NoRequest /\ UNCHANGED live
  BY DEF OutOfMemory, GivingUp, searchFailed, IInv, CallInv
<1>2. \A o \in Store!Objects : ~Store!Free(o, req.wz)
  BY <1>1, NoGap
<1> QED
  BY <1>1, <1>2 DEF Store!Refuse

LEMMA StoreMarkPhase ==
  ASSUME IInv, MarkPhase
  PROVE  Store!Collect
<1>1. \E S \in SUBSET DOMAIN live : live' = [o \in S |-> live[o]]
  BY DEF MarkPhase
<1>2. /\ UNCHANGED <<req, retried>> /\ pc' = "sweep"
      /\ req # NoRequest => retried
  BY DEF MarkPhase, IInv, CallInv
<1>3. Collected' = (req # NoRequest)
  BY <1>2 DEF Collected, IInv, TypeOK
<1> QED
  BY <1>1, <1>2, <1>3 DEF Store!Collect, Collected

\* Everything else allocate and the collector do is invisible.
LEMMA StoreStutter ==
  ASSUME IInv,
         NextBlock \/ CollectAndRetry \/ StartCollection \/ SweepSurvivor \/ SweepFree
           \/ EndSweep \/ UNCHANGED vars
  PROVE  UNCHANGED Store!bvars
<1>1. UNCHANGED <<live, req>>
  BY DEF NextBlock, CollectAndRetry, Collecting, StartCollection, SweepSurvivor, KeepBlock,
         SweepFree, EndSweep, vars
<1>2. Collected' = Collected
  <2>1. CASE NextBlock \/ UNCHANGED vars
    BY <2>1 DEF NextBlock, vars, Collected
  <2>2. CASE CollectAndRetry
    BY <2>2 DEF CollectAndRetry, Collecting, Collected
  <2>3. CASE StartCollection
    BY <2>3 DEF StartCollection, Collected, IInv, CallInv
  <2>4. CASE SweepSurvivor \/ SweepFree
    BY <2>4 DEF SweepSurvivor, KeepBlock, SweepFree, Collected
  <2>5. CASE EndSweep
    BY <2>5 DEF EndSweep, StartSearch, Collected
  <2> QED
    BY <2>1, <2>2, <2>3, <2>4, <2>5
<1> QED
  BY <1>1, <1>2 DEF Store!bvars, Collected

\* Free list, search, split, collection and sweep together keep the promise of
\* BlockStore: blocks in use never overlap, and a request is refused only after a
\* collection and when no gap between the objects that survived it is large enough.
THEOREM StoreImplemented ==
  ASSUME 0 \notin Requests
  PROVE  Spec => StoreSpec
<1>1. Init => Store!Init
  BY StoreInit
<1>2. IInv /\ [Next]_vars => [Store!Next]_Store!bvars
  BY StoreRequest, StoreTakeBlock, StoreOutOfMemory, StoreMarkPhase, StoreStutter
  DEF Next, Store!Next
<1> QED
  BY <1>1, <1>2, Invariance, PTL DEF Spec, StoreSpec, Store!Spec

-----------------------------------------------------------------------------
(* Progress: a measure that every step of the runtime lowers *)

\* The loops in the order in which a call runs them; a request collects once.
stagesLeft ==
  CASE pc = "search" -> IF retried THEN 1 ELSE 4
    [] pc = "mark" -> 3
    [] pc = "sweep" -> 2
    [] OTHER -> 0

\* Iterations, or words, that the running loop may still take.
iterationsLeft ==
  CASE pc = "search" -> fuel
    [] pc = "sweep" -> heap_size - current
    [] OTHER -> 0

Measured == {stagesLeft, iterationsLeft} \subseteq Nat

\* The lexicographic order of the two.
Advances ==
  \/ stagesLeft' < stagesLeft
  \/ stagesLeft' = stagesLeft /\ iterationsLeft' < iterationsLeft

\* The measure is made of natural numbers.
LEMMA MeasureType ==
  ASSUME IInv
  PROVE  Measured
<1>1. stagesLeft \in Nat
  BY DEF stagesLeft
<1>2. heap_size \in Nat /\ \A a \in Addresses : a \in Nat /\ a < heap_size
  BY AddressFacts
<1>3. fuel \in Nat /\ heap_size - current \in Nat
  <2>1. heap_size \div WordBytes \in Int
    BY <1>2 DEF WordBytes
  <2>2. fuel \in Nat
    BY <2>1 DEF IInv, TypeOK
  <2>3. current \in Nat /\ current <= heap_size
    BY <1>2 DEF IInv, TypeOK
  <2> QED
    BY <1>2, <2>2, <2>3
<1>4. iterationsLeft \in Nat
  BY <1>3 DEF iterationsLeft
<1> QED
  BY <1>1, <1>4 DEF Measured

\* One iteration of a search has less fuel left, one of a sweep less of the heap.
LEMMA IterationAdvances ==
  ASSUME IInv, NextBlock \/ SweepSurvivor \/ SweepFree
  PROVE  Advances
<1>1. CASE NextBlock
  <2>1. pc = "search" /\ fuel' = fuel - 1 /\ UNCHANGED <<pc, retried>>
    BY <1>1 DEF NextBlock, searching
  <2>2. fuel \in Nat
    BY <2>1, SearchState
  <2>3. fuel' < fuel
    BY <2>1, <2>2
  <2> QED
    BY <2>1, <2>3 DEF Advances, stagesLeft, iterationsLeft
<1>2. CASE SweepSurvivor \/ SweepFree
  <2>1. /\ pc = "sweep" /\ UNCHANGED pc /\ current + WordBytes < heap_size
        /\ current' = current + (getWosize(heap[current]) + 1) * WordBytes
    BY <1>2 DEF SweepSurvivor, KeepBlock, SweepFree, sweeping, sweepWosize, sweepNext
  <2>2. heap_size \in Nat /\ \A a \in Addresses : a \in Nat
    BY AddressFacts
  <2>3. current \in Addresses \cup {heap_size} /\ heap \in [Addresses -> Nat]
    BY <2>1, SweepState DEF IInv, TypeOK
  <2>4. current \in Addresses
    BY <2>1, <2>2, <2>3 DEF WordBytes
  <2>5. heap[current] \in Nat
    BY <2>3, <2>4
  <2>6. getWosize(heap[current]) \in Nat
    BY <2>5 DEF getWosize
  <2>7. PICK w \in Nat : current' = current + (w + 1) * 8
    BY <2>1, <2>6 DEF WordBytes
  <2>8. heap_size - current' < heap_size - current
    BY <2>2, <2>4, <2>7
  <2> QED
    BY <2>1, <2>8 DEF Advances, stagesLeft, iterationsLeft
<1> QED
  BY <1>1, <1>2

\* Every other step goes on to a loop further down, or back to the program.
LEMMA StageAdvances ==
  ASSUME IInv, TakeBlock \/ CollectAndRetry \/ OutOfMemory \/ MarkPhase \/ EndSweep
  PROVE  Advances
<1>1. CASE TakeBlock \/ OutOfMemory
  <2>1. pc = "search" /\ pc' = "mutator"
    BY <1>1 DEF TakeBlock, searching, OutOfMemory, GivingUp, searchFailed
  <2> QED
    BY <2>1 DEF Advances, stagesLeft
<1>2. CASE CollectAndRetry
  <2>1. pc = "search" /\ ~retried /\ pc' = "mark"
    BY <1>2 DEF CollectAndRetry, Collecting, searchFailed
  <2> QED
    BY <2>1 DEF Advances, stagesLeft
<1>3. CASE MarkPhase
  <2>1. pc = "mark" /\ pc' = "sweep"
    BY <1>3 DEF MarkPhase
  <2> QED
    BY <2>1 DEF Advances, stagesLeft
<1>4. CASE EndSweep
  <2>1. pc = "sweep" /\ UNCHANGED retried
    BY <1>4 DEF EndSweep
  <2>2. \/ req = NoRequest /\ pc' = "mutator" /\ UNCHANGED <<prev_fp, cur_fp, fuel>>
        \/ /\ req # NoRequest /\ pc' = "search" /\ prev_fp' = 0 /\ cur_fp' = fp_ref'
           /\ fuel' = heap_size \div WordBytes
    BY <1>4 DEF EndSweep, StartSearch, searchVars
  <2>3. pc' = "search" => retried
    BY <2>1, <2>2 DEF IInv, CallInv
  <2> QED
    BY <2>1, <2>2, <2>3 DEF Advances, stagesLeft
<1> QED
  BY <1>1, <1>2, <1>3, <1>4

\* verified_allocate and a collection take finitely many steps: while the program
\* waits for them, every step lowers the stage of the call or, within a stage, the
\* fuel of the search or the part of the heap that is still to be swept.
THEOREM RuntimeAdvances ==
  ASSUME 0 \notin Requests
  PROVE  Spec => [][pc # "mutator" => Measured /\ Advances]_vars
<1>1. IInv /\ [Next]_vars => [pc # "mutator" => Measured /\ Advances]_vars
  <2>1. Request \/ StartCollection => pc = "mutator"
    BY DEF Request, StartCollection
  <2> QED
    BY <2>1, MeasureType, IterationAdvances, StageAdvances DEF Next
<1> QED
  BY <1>1, Invariance, PTL DEF Spec
=============================================================================
