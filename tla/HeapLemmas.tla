----------------------------- MODULE HeapLemmas -----------------------------
(***************************************************************************)
(* Facts about header words, about functions on 0 .. N defined by          *)
(* iteration, and about the heap of module WordHeap: if a set of headers   *)
(* tiles it, the walk visits exactly this set.                             *)
(***************************************************************************)
EXTENDS WordHeap, WellFoundedInduction, TLAPS

\* A set of natural numbers that is not empty has a least element.
LEMMA LeastNumber ==
  ASSUME NEW T \in SUBSET Nat, T # {}
  PROVE  \E n \in T : \A m \in T : n <= m
<1>1. PICK n \in T : \A m \in T : <<m, n>> \notin OpToRel(<, Nat)
  BY WFMin, NatLessThanWellFounded, Zenon
<1>2. \A m \in T : <<m, n>> \in Nat \X Nat /\ <<m, n>>[1] = m /\ <<m, n>>[2] = n
  OBVIOUS
<1>3. \A m \in T : ~ (m < n)
  BY <1>1, <1>2, Zenon DEF OpToRel
<1> QED
  BY <1>3

\* Induction up to N, for a property given as the set of numbers that have it.
LEMMA Induction ==
  ASSUME NEW N \in Nat, NEW T,
         0 \in T,
         \A n \in 0 .. N - 1 : n \in T => n + 1 \in T
  PROVE  0 .. N \subseteq T
<1>1. SUFFICES ASSUME (0 .. N) \ T # {} PROVE FALSE
  OBVIOUS
<1>2. PICK n \in (0 .. N) \ T : \A m \in (0 .. N) \ T : n <= m
  <2>1. (0 .. N) \ T \in SUBSET Nat
    OBVIOUS
  <2> QED
    BY <1>1, <2>1, LeastNumber, Zenon
<1>3. n # 0
  OBVIOUS
<1>4. n - 1 \in 0 .. N - 1 /\ n - 1 \in T
  BY <1>2, <1>3
<1>5. n - 1 + 1 = n
  OBVIOUS
<1> QED
  BY <1>4, <1>5

\* f holds the first N iterates of g from x on.
Iterates(f, S, x, g, N) ==
  f \in [0 .. N -> S] /\ f[0] = x /\ \A k \in 1 .. N : f[k] = g[f[k - 1]]

LEMMA IteratesExist ==
  ASSUME NEW S, NEW x \in S, NEW g \in [S -> S], NEW N \in Nat
  PROVE  \E f : Iterates(f, S, x, g, N)
<1> DEFINE From(f, m) == f[0] = x /\ \A k \in 1 .. m : f[k] = g[f[k - 1]]
           T == {m \in 0 .. N : \E f \in [0 .. m -> S] : From(f, m)}
<1>1. 0 \in T
  <2> DEFINE e == [k \in 0 .. 0 |-> x]
  <2>1. e \in [0 .. 0 -> S] /\ From(e, 0)
    OBVIOUS
  <2> HIDE DEF e
  <2>2. \E f \in [0 .. 0 -> S] : From(f, 0)
    BY <2>1
  <2> QED
    BY <2>2
<1>2. ASSUME NEW m \in 0 .. N - 1, m \in T
      PROVE  m + 1 \in T
  <2>1. PICK f \in [0 .. m -> S] : From(f, m)
    BY <1>2
  <2> DEFINE e == [k \in 0 .. m + 1 |-> IF k = m + 1 THEN g[f[m]] ELSE f[k]]
  <2>2. g[f[m]] \in S
    OBVIOUS
  <2>3. e \in [0 .. m + 1 -> S]
    BY <2>2
  <2>4. e[0] = x
    BY <2>1
  <2>5. ASSUME NEW k \in 1 .. m + 1 PROVE e[k] = g[e[k - 1]]
    <3>1. CASE k = m + 1
      BY <3>1
    <3>2. CASE k # m + 1
      BY <3>2, <2>1
    <3> QED
      BY <3>1, <3>2
  <2> HIDE DEF e
  <2>6. \E longer \in [0 .. m + 1 -> S] : From(longer, m + 1)
    BY <2>3, <2>4, <2>5
  <2> QED
    BY <2>6
<1>3. 0 .. N \subseteq T
  <2> HIDE DEF T
  <2> QED
    BY <1>1, <1>2, Induction
<1>4. PICK f \in [0 .. N -> S] : From(f, N)
  BY <1>3
<1> QED
  BY <1>4 DEF Iterates

LEMMA Iteration ==
  ASSUME NEW S, NEW x \in S, NEW g \in [S -> S], NEW N \in Nat
  PROVE  \E f \in [0 .. N -> S] : f = [n \in 0 .. N |-> IF n = 0 THEN x ELSE g[f[n - 1]]]
<1>1. PICK f : Iterates(f, S, x, g, N)
  BY IteratesExist, Zenon
<1>2. f = [n \in 0 .. N |-> IF n = 0 THEN x ELSE g[f[n - 1]]]
  BY <1>1 DEF Iterates
<1> QED
  BY <1>1, <1>2 DEF Iterates

-----------------------------------------------------------------------------
(* Header words *)

\* What a header is made of is what is read from it.
LEMMA HeaderParts ==
  ASSUME NEW wz \in Nat, NEW c \in 0 .. 3, NEW t \in 0 .. 255
  PROVE  /\ makeHeader(wz, c, t) \in Nat
         /\ getWosize(makeHeader(wz, c, t)) = wz
         /\ getColor(makeHeader(wz, c, t)) = c
         /\ getTag(makeHeader(wz, c, t)) = t
<1>1. makeHeader(wz, c, t) \in Nat
  BY DEF makeHeader
<1>2. getWosize(makeHeader(wz, c, t)) = wz
  BY DEF makeHeader, getWosize
<1>3. getTag(makeHeader(wz, c, t)) = t
  BY DEF makeHeader, getTag
<1>4. getColor(makeHeader(wz, c, t)) = c
  <2>1. makeHeader(wz, c, t) \div 256 = wz * 4 + c
    BY DEF makeHeader
  <2>2. (wz * 4 + c) % 4 = c
    OBVIOUS
  <2> QED
    BY <2>1, <2>2 DEF getColor
<1> QED
  BY <1>1, <1>2, <1>3, <1>4

\* Every word is a header of some size, colour and tag.
LEMMA HeaderType ==
  ASSUME NEW hdr \in Nat
  PROVE  getWosize(hdr) \in Nat /\ getColor(hdr) \in 0 .. 3 /\ getTag(hdr) \in 0 .. 255
<1>1. hdr \div 1024 \in Nat /\ hdr \div 256 \in Nat
  OBVIOUS
<1> QED
  BY <1>1 DEF getWosize, getColor, getTag

-----------------------------------------------------------------------------
(* Addresses *)

LEMMA AddressFacts ==
  /\ heap_size \in Nat
  /\ zero_addr \in Addresses
  /\ zero_addr >= 8
  /\ \A a \in Addresses :
       /\ a \in Nat /\ a >= zero_addr /\ a + 8 <= heap_size
       /\ a % 8 = 0
  /\ heap_size % 8 = 0
<1>1. zero_addr + WordBytes * 0 = zero_addr /\ 0 \in 0 .. HeapWords - 1
  BY HeapAssumption DEF WordBytes
<1>2. zero_addr \in Addresses
  BY <1>1 DEF Addresses
<1>3. heap_size \in Nat /\ zero_addr >= 8
  BY HeapAssumption DEF heap_size, WordBytes
<1>4. ASSUME NEW a \in Addresses
      PROVE  /\ a \in Nat /\ a >= zero_addr /\ a + 8 <= heap_size
             /\ a % 8 = 0
  <2>1. PICK k \in 0 .. HeapWords - 1 : a = zero_addr + 8 * k
    BY DEF Addresses, WordBytes
  <2> QED
    BY <2>1, HeapAssumption DEF heap_size, WordBytes
<1>5. heap_size % 8 = 0
  BY HeapAssumption DEF heap_size, WordBytes
<1> QED
  BY <1>2, <1>3, <1>4, <1>5

LEMMA AddressOf ==
  ASSUME NEW a \in Int, a >= zero_addr, a < heap_size, a % 8 = 0
  PROVE  a \in Addresses
<1>1. zero_addr \in Nat /\ HeapWords \in Nat /\ zero_addr % 8 = 0
  BY HeapAssumption DEF WordBytes
<1> DEFINE k == (a - zero_addr) \div 8
<1>2. k \in 0 .. HeapWords - 1 /\ a = zero_addr + 8 * k
  BY <1>1 DEF heap_size, WordBytes
<1> QED
  BY <1>2 DEF Addresses, WordBytes

\* Steps of whole words lead from address to address.
LEMMA Shifted ==
  ASSUME NEW a \in Addresses \cup {heap_size}, NEW k \in Int,
         a + 8 * k >= zero_addr, a + 8 * k < heap_size
  PROVE  a + 8 * k \in Addresses
<1>1. a \in Nat /\ a % 8 = 0
  BY AddressFacts
<1>2. (a + 8 * k) % 8 = 0
  BY <1>1
<1> QED
  BY <1>1, <1>2, AddressOf

\* Addresses are at least a word apart.
LEMMA Apart ==
  ASSUME NEW a \in Addresses \cup {0, heap_size}, NEW b \in Addresses \cup {0, heap_size}, a < b
  PROVE  a + 8 <= b
<1>1. a \in Nat /\ b \in Nat /\ a % 8 = 0 /\ b % 8 = 0
  BY AddressFacts
<1> QED
  BY <1>1

-----------------------------------------------------------------------------
(* Tilings *)

Words == [Addresses -> Nat]

\* The blocks with headers B follow one another from lo to hi.
Tiled(h, B, lo, hi) ==
  /\ B \subseteq Addresses
  /\ lo \in B \cup {hi}
  /\ \A a \in B : lo <= a /\ a < hi /\ nextHeader(h, a) \in B \cup {hi}
  /\ \A a, b \in B : a < b => nextHeader(h, a) <= b

LEMMA Sizes ==
  ASSUME NEW h \in Words, NEW a \in Addresses
  PROVE  /\ getWosize(h[a]) \in Nat
         /\ nextHeader(h, a) = a + 8 + 8 * getWosize(h[a])
         /\ nextHeader(h, a) \in Nat /\ nextHeader(h, a) >= a + 8
<1>1. h[a] \in Nat /\ a \in Nat
  BY AddressFacts DEF Words
<1>2. getWosize(h[a]) \in Nat
  BY <1>1, HeaderType
<1> QED
  BY <1>1, <1>2 DEF nextHeader, WordBytes

LEMMA TileBounds ==
  ASSUME NEW h \in Words, NEW B, NEW lo \in Addresses \cup {heap_size},
         NEW hi \in Addresses \cup {heap_size}, Tiled(h, B, lo, hi)
  PROVE  /\ lo <= hi
         /\ \A a \in B : nextHeader(h, a) <= hi
<1>1. lo \in Nat /\ hi \in Nat
  BY AddressFacts
<1>2. \A a \in B : a \in Nat /\ a < hi
  BY AddressFacts DEF Tiled
<1>3. lo <= hi
  BY <1>1, <1>2 DEF Tiled
<1>4. ASSUME NEW a \in B PROVE nextHeader(h, a) <= hi
  <2>1. nextHeader(h, a) \in B \cup {hi}
    BY DEF Tiled
  <2> QED
    BY <1>1, <1>2, <2>1
<1> QED
  BY <1>3, <1>4

\* Only the sizes matter.
LEMMA TiledFrame ==
  ASSUME NEW h, NEW g, NEW B, NEW lo, NEW hi, Tiled(h, B, lo, hi),
         \A a \in B : getWosize(g[a]) = getWosize(h[a])
  PROVE  Tiled(g, B, lo, hi)
<1>1. \A a \in B : nextHeader(g, a) = nextHeader(h, a)
  BY DEF nextHeader
<1> QED
  BY <1>1 DEF Tiled

LEMMA TiledJoin ==
  ASSUME NEW h \in Words, NEW P, NEW U,
         NEW lo \in Addresses \cup {heap_size}, NEW m \in Addresses \cup {heap_size},
         NEW hi \in Addresses \cup {heap_size},
         Tiled(h, P, lo, m), Tiled(h, U, m, hi)
  PROVE  Tiled(h, P \cup U, lo, hi)
<1>1. lo \in Nat /\ m \in Nat /\ hi \in Nat /\ \A a \in Addresses : a \in Nat
  BY AddressFacts
<1>2. lo <= m /\ m <= hi /\ (\A a \in P : nextHeader(h, a) <= m)
  BY TileBounds
<1>3. P \cup U \subseteq Addresses
  BY DEF Tiled
<1>4. lo \in P \cup U \cup {hi}
  BY DEF Tiled
<1>5. ASSUME NEW a \in P \cup U
      PROVE  lo <= a /\ a < hi /\ nextHeader(h, a) \in P \cup U \cup {hi}
  <2>1. a \in Nat
    BY <1>1, <1>3
  <2>2. CASE a \in P
    <3>1. lo <= a /\ a < m /\ nextHeader(h, a) \in P \cup {m}
      BY <2>2 DEF Tiled
    <3>2. m \in U \cup {hi}
      BY DEF Tiled
    <3> QED
      BY <1>1, <1>2, <2>1, <3>1, <3>2
  <2>3. CASE a \in U
    <3>1. m <= a /\ a < hi /\ nextHeader(h, a) \in U \cup {hi}
      BY <2>3 DEF Tiled
    <3> QED
      BY <1>1, <1>2, <2>1, <3>1
  <2> QED
    BY <2>2, <2>3
<1>6. ASSUME NEW a \in P \cup U, NEW b \in P \cup U, a < b
      PROVE  nextHeader(h, a) <= b
  <2>1. a \in Nat /\ b \in Nat /\ nextHeader(h, a) \in Nat
    BY <1>1, <1>3, Sizes
  <2>2. CASE a \in P /\ b \in P
    BY <1>6, <2>2 DEF Tiled
  <2>3. CASE a \in U /\ b \in U
    BY <1>6, <2>3 DEF Tiled
  <2>4. CASE a \in P /\ b \in U
    <3>1. m <= b
      BY <2>4 DEF Tiled
    <3> QED
      BY <1>1, <1>2, <2>1, <2>4, <3>1
  <2>5. CASE a \in U /\ b \in P
    <3>1. m <= a /\ b < m
      BY <2>5 DEF Tiled
    <3> QED
      BY <1>1, <1>6, <2>1, <3>1
  <2> QED
    BY <2>2, <2>3, <2>4, <2>5
<1> QED
  BY <1>3, <1>4, <1>5, <1>6 DEF Tiled

LEMMA TiledOne ==
  ASSUME NEW h \in Words, NEW a \in Addresses
  PROVE  Tiled(h, {a}, a, nextHeader(h, a))
<1>1. a \in Nat /\ a < nextHeader(h, a) /\ nextHeader(h, a) \in Nat
  BY Sizes, AddressFacts
<1> QED
  BY <1>1 DEF Tiled

LEMMA TiledTail ==
  ASSUME NEW h \in Words, NEW U, NEW c \in Addresses \cup {heap_size},
         NEW hi \in Addresses \cup {heap_size}, Tiled(h, U, c, hi), c < hi
  PROVE  /\ c \in U
         /\ nextHeader(h, c) \in Addresses \cup {heap_size}
         /\ Tiled(h, U \ {c}, nextHeader(h, c), hi)
<1>1. c \in Nat /\ hi \in Nat /\ \A a \in Addresses : a \in Nat
  BY AddressFacts
<1>2. c \in U
  BY <1>1 DEF Tiled
<1>3. c \in Addresses /\ nextHeader(h, c) \in Nat /\ c < nextHeader(h, c)
  BY <1>1, <1>2, Sizes DEF Tiled
<1>4. nextHeader(h, c) \in Addresses \cup {heap_size}
  BY <1>2 DEF Tiled
<1>5. nextHeader(h, c) \in (U \ {c}) \cup {hi}
  BY <1>2, <1>3, <1>1 DEF Tiled
<1>6. ASSUME NEW a \in U \ {c}
      PROVE  nextHeader(h, c) <= a /\ a < hi /\ nextHeader(h, a) \in (U \ {c}) \cup {hi}
  <2>1. a \in Addresses /\ a \in Nat /\ c <= a /\ a < hi /\ nextHeader(h, a) \in U \cup {hi}
    BY <1>1 DEF Tiled
  <2>2. c < a
    BY <1>1, <2>1
  <2>3. nextHeader(h, c) <= a
    BY <1>2, <2>2 DEF Tiled
  <2>4. nextHeader(h, a) # c
    BY <2>1, <2>2, <1>1, Sizes
  <2> QED
    BY <2>1, <2>3, <2>4
<1> QED
  BY <1>2, <1>4, <1>5, <1>6 DEF Tiled

LEMMA HeaderAddress ==
  ASSUME NEW o \in Addresses
  PROVE  /\ hd_address(o) \in Int /\ o = hd_address(o) + 8
         /\ f_address(hd_address(o)) = o /\ hd_address(f_address(o)) = o
         /\ f_address(o) = o + 8
<1>1. o \in Nat /\ o >= 8
  BY AddressFacts
<1> QED
  BY <1>1 DEF hd_address, f_address, WordBytes

-----------------------------------------------------------------------------
(* The walk by header sizes visits the blocks of the tiling *)

LEMMA WalkSteps ==
  ASSUME NEW h \in Words, NEW B, Tiled(h, B, zero_addr, heap_size)
  PROVE  /\ walkOf(h)[0] = zero_addr
         /\ \A i \in 0 .. HeapWords : walkOf(h)[i] \in B \cup {heap_size}
         /\ \A i \in 0 .. HeapWords - 1 :
              walkOf(h)[i + 1] = IF walkOf(h)[i] \in B THEN nextHeader(h, walkOf(h)[i]) ELSE heap_size
<1> DEFINE S == B \cup {heap_size}
           g == [a \in S |-> IF a \in B THEN nextHeader(h, a) ELSE heap_size]
<1>1. HeapWords \in Nat /\ heap_size \notin Addresses /\ B \subseteq Addresses /\ zero_addr \in S
  BY AddressFacts, HeapAssumption DEF Tiled
<1>2. g \in [S -> S]
  BY DEF Tiled
<1>3. PICK f \in [0 .. HeapWords -> S] :
        f = [n \in 0 .. HeapWords |-> IF n = 0 THEN zero_addr ELSE g[f[n - 1]]]
  <2> HIDE DEF g, S
  <2> QED
    BY <1>1, <1>2, Iteration
<1>4. \A a \in S : g[a] = IF a \in Addresses THEN nextHeader(h, a) ELSE a
  BY <1>1 DEF Tiled
<1>5. f = [i \in 0 .. HeapWords |->
             IF i = 0 THEN zero_addr
             ELSE LET a == f[i - 1] IN IF a \in Addresses THEN nextHeader(h, a) ELSE a]
  <2> HIDE DEF g, S
  <2>1. ASSUME NEW i \in 0 .. HeapWords, i # 0 PROVE f[i - 1] \in S
    <3>1. i - 1 \in 0 .. HeapWords
      BY <1>1, <2>1
    <3> QED
      BY <3>1
  <2> QED
    BY <1>3, <1>4, <2>1
<1>6. walkOf(h) = [i \in 0 .. HeapWords |->
                IF i = 0 THEN zero_addr
                ELSE LET a == walkOf(h)[i - 1] IN IF a \in Addresses THEN nextHeader(h, a) ELSE a]
  BY <1>5 DEF walkOf
<1>7. walkOf(h)[0] = zero_addr /\ \A i \in 0 .. HeapWords - 1 :
         walkOf(h)[i + 1] = IF walkOf(h)[i] \in Addresses THEN nextHeader(h, walkOf(h)[i]) ELSE walkOf(h)[i]
  <2> DEFINE F(f0) == [i \in 0 .. HeapWords |->
                IF i = 0 THEN zero_addr
                ELSE LET a == f0[i - 1] IN IF a \in Addresses THEN nextHeader(h, a) ELSE a]
  <2>1. \A f0 : F(f0)[0] = zero_addr /\ \A i \in 0 .. HeapWords - 1 :
         F(f0)[i + 1] = IF f0[i] \in Addresses THEN nextHeader(h, f0[i]) ELSE f0[i]
    <3>1. \A i \in 0 .. HeapWords - 1 : i + 1 \in 0 .. HeapWords /\ i + 1 # 0 /\ i + 1 - 1 = i
      BY <1>1
    <3> QED
      BY <1>1, <3>1
  <2>2. walkOf(h) = F(walkOf(h))
    BY <1>6
  <2> HIDE DEF F
  <2> QED
    BY <2>1, <2>2
<1>8. 0 .. HeapWords \subseteq {i \in 0 .. HeapWords : walkOf(h)[i] \in S}
  <2> DEFINE T == {i \in 0 .. HeapWords : walkOf(h)[i] \in S}
  <2>1. 0 \in T
    BY <1>1, <1>7
  <2>2. ASSUME NEW i \in 0 .. HeapWords - 1, i \in T PROVE i + 1 \in T
    <3>1. walkOf(h)[i] \in S
      BY <2>2
    <3>2. walkOf(h)[i + 1] = g[walkOf(h)[i]]
      BY <1>4, <1>7, <3>1
    <3>3. g[walkOf(h)[i]] \in S
      BY <1>2, <3>1
    <3>4. i + 1 \in 0 .. HeapWords
      BY <1>1
    <3> QED
      BY <3>2, <3>3, <3>4
  <2> HIDE DEF T
  <2>3. 0 .. HeapWords \subseteq T
    BY <1>1, <2>1, <2>2, Induction
  <2> QED
    BY <2>3 DEF T
<1>9. ASSUME NEW i \in 0 .. HeapWords - 1
      PROVE  walkOf(h)[i + 1] = IF walkOf(h)[i] \in B THEN nextHeader(h, walkOf(h)[i]) ELSE heap_size
  <2>1. walkOf(h)[i] \in S
    <3>1. i \in 0 .. HeapWords
      BY <1>1
    <3> QED
      BY <1>8, <3>1
  <2>2. walkOf(h)[i + 1] = g[walkOf(h)[i]]
    BY <1>4, <1>7, <2>1
  <2> QED
    BY <2>1, <2>2
<1> QED
  BY <1>7, <1>8, <1>9

LEMMA WalkIs ==
  ASSUME NEW h \in Words, NEW B, Tiled(h, B, zero_addr, heap_size)
  PROVE  walkOf(h)[HeapWords] = heap_size /\ HeadersOf(h) = B
<1>1. /\ HeapWords \in Nat /\ HeapWords >= 2 /\ zero_addr \in Nat /\ heap_size \in Nat
      /\ B \subseteq Addresses
      /\ heap_size \notin Addresses /\ \A b \in B : b \in Nat /\ b < heap_size
      /\ heap_size = zero_addr + 8 * HeapWords
  BY AddressFacts, HeapAssumption DEF Tiled, heap_size, WordBytes
<1>2. walkOf(h)[HeapWords] = heap_size
  <2> DEFINE V == {i \in 0 .. HeapWords : walkOf(h)[i] = heap_size \/ walkOf(h)[i] >= zero_addr + 8 * i}
  <2>1. 0 \in V
    BY <1>1, WalkSteps
  <2>2. ASSUME NEW i \in 0 .. HeapWords - 1, i \in V PROVE i + 1 \in V
    <3>1. walkOf(h)[i] \in B \cup {heap_size} /\ i + 1 \in 0 .. HeapWords
          /\ walkOf(h)[i + 1] = IF walkOf(h)[i] \in B THEN nextHeader(h, walkOf(h)[i]) ELSE heap_size
      BY <1>1, WalkSteps
    <3>2. CASE walkOf(h)[i] \in B
      <4>1. walkOf(h)[i] \in Nat /\ walkOf(h)[i] >= zero_addr + 8 * i
        BY <1>1, <2>2, <3>2
      <4>2. nextHeader(h, walkOf(h)[i]) >= walkOf(h)[i] + 8 /\ nextHeader(h, walkOf(h)[i]) \in Nat
        BY <1>1, <3>2, Sizes
      <4>3. walkOf(h)[i + 1] >= zero_addr + 8 * (i + 1)
        BY <1>1, <3>1, <3>2, <4>1, <4>2
      <4> QED
        BY <3>1, <4>3
    <3>3. CASE walkOf(h)[i] \notin B
      BY <3>1, <3>3
    <3> QED
      BY <3>2, <3>3
  <2> HIDE DEF V
  <2>3. 0 .. HeapWords \subseteq V
    BY <1>1, <2>1, <2>2, Induction
  <2>4. walkOf(h)[HeapWords] = heap_size \/ walkOf(h)[HeapWords] >= zero_addr + 8 * HeapWords
    BY <1>1, <2>3 DEF V
  <2>5. walkOf(h)[HeapWords] \in B \cup {heap_size}
    BY <1>1, WalkSteps
  <2> QED
    BY <1>1, <2>4, <2>5
<1>3. HeadersOf(h) \subseteq B
  BY <1>1, WalkSteps DEF HeadersOf
<1>4. ASSUME NEW b \in B, b \notin HeadersOf(h) PROVE FALSE
  <2> DEFINE T == {i \in 0 .. HeapWords : walkOf(h)[i] < b}
  <2>1. \A i \in 0 .. HeapWords : walkOf(h)[i] # b
    BY <1>1, <1>4 DEF HeadersOf
  <2>2. 0 \in T
    <3>1. zero_addr <= b
      BY DEF Tiled
    <3> QED
      BY <1>1, <2>1, <3>1, WalkSteps
  <2>3. ASSUME NEW i \in 0 .. HeapWords - 1, i \in T PROVE i + 1 \in T
    <3>1. /\ walkOf(h)[i] < b /\ walkOf(h)[i] \in B \cup {heap_size} /\ i + 1 \in 0 .. HeapWords
          /\ walkOf(h)[i + 1] = IF walkOf(h)[i] \in B THEN nextHeader(h, walkOf(h)[i]) ELSE heap_size
      BY <1>1, <2>3, WalkSteps
    <3>2. walkOf(h)[i] \in B
      BY <1>1, <3>1
    <3>3. nextHeader(h, walkOf(h)[i]) <= b /\ nextHeader(h, walkOf(h)[i]) \in Nat
      BY <1>1, <3>1, <3>2, Sizes DEF Tiled
    <3>4. walkOf(h)[i + 1] # b
      BY <2>1, <3>1
    <3>5. walkOf(h)[i + 1] < b
      BY <1>1, <3>1, <3>2, <3>3, <3>4
    <3> QED
      BY <3>1, <3>5
  <2> HIDE DEF T
  <2>4. 0 .. HeapWords \subseteq T
    BY <1>1, <2>2, <2>3, Induction
  <2>5. walkOf(h)[HeapWords] < b
    BY <1>1, <2>4 DEF T
  <2> QED
    BY <1>1, <1>2, <2>5
<1> QED
  BY <1>2, <1>3, <1>4

\* A walk that is still before x stops in the block that holds x.
LEMMA WalkPasses ==
  ASSUME NEW h \in Words, NEW B, Tiled(h, B, zero_addr, heap_size), NEW x \in Addresses,
         \A b \in B : ~ (b <= x /\ x < nextHeader(h, b))
  PROVE  FALSE
<1>1. /\ HeapWords \in Nat /\ heap_size \in Nat /\ x \in Nat /\ zero_addr <= x /\ x < heap_size
  BY AddressFacts, HeapAssumption
<1> DEFINE T == {i \in 0 .. HeapWords : walkOf(h)[i] <= x}
<1>2. 0 \in T
  BY <1>1, WalkSteps
<1>3. ASSUME NEW i \in 0 .. HeapWords - 1, i \in T PROVE i + 1 \in T
  <2>1. walkOf(h)[i] <= x /\ walkOf(h)[i] \in B \cup {heap_size} /\ i + 1 \in 0 .. HeapWords
    BY <1>1, <1>3, WalkSteps
  <2>2. walkOf(h)[i] \in B
    BY <1>1, <2>1
  <2>3. walkOf(h)[i + 1] = nextHeader(h, walkOf(h)[i])
    BY <2>2, WalkSteps
  <2>4. nextHeader(h, walkOf(h)[i]) \in Nat
    BY <2>2, Sizes DEF Tiled
  <2>5. nextHeader(h, walkOf(h)[i]) <= x
    BY <1>1, <2>1, <2>2, <2>4
  <2> QED
    BY <2>1, <2>3, <2>5
<1> HIDE DEF T
<1>4. 0 .. HeapWords \subseteq T
  BY <1>1, <1>2, <1>3, Induction
<1>5. walkOf(h)[HeapWords] <= x
  BY <1>1, <1>4 DEF T
<1> QED
  BY <1>1, <1>5, WalkIs

-----------------------------------------------------------------------------
(* Free lists *)

\* No header is the last word of the heap, which no walk visits.
HaveField(B) == \A a \in B : f_address(a) \in Addresses

\* First fields of the free blocks that have one.
FreeIn(h, B) ==
  {f_address(a) : a \in {b \in B : getColor(h[b]) = Blue /\ getWosize(h[b]) >= 1}}

\* The list from head holds exactly F, from the highest address down.
Descending(h, F, head) ==
  /\ head \in F \cup {0}
  /\ \A o \in F : /\ o <= head
                  /\ h[o] \in F \cup {0} /\ h[o] < o
                  /\ \A p \in F : p < o => p <= h[o]

\* Free pointers are addresses.
LEMMA ValidPointers ==
  /\ \A v \in Addresses : v # zero_addr => is_valid_fp(v)
  /\ ~is_valid_fp(0)
<1>1. ASSUME NEW v \in Addresses, v # zero_addr
      PROVE  is_valid_fp(v)
  <2>1. v \in Nat /\ v >= zero_addr /\ v + 8 <= heap_size /\ v % 8 = 0 /\ zero_addr \in Nat
    BY AddressFacts, HeapAssumption
  <2>2. zero_addr + 8 <= v
    BY <1>1, <2>1, AddressFacts, Apart
  <2> QED
    BY <2>1, <2>2, AddressFacts DEF is_valid_fp, WordBytes
<1>2. ~is_valid_fp(0)
  BY AddressFacts, HeapAssumption DEF is_valid_fp, WordBytes
<1> QED
  BY <1>1, <1>2

LEMMA ListedFacts ==
  ASSUME NEW h \in Words, NEW B, NEW lo \in Addresses \cup {heap_size},
         NEW hi \in Addresses \cup {heap_size}, Tiled(h, B, lo, hi),
         NEW o \in FreeIn(h, B)
  PROVE  /\ hd_address(o) \in B
         /\ o = hd_address(o) + 8
         /\ o \in Addresses /\ o # zero_addr
         /\ getColor(h[hd_address(o)]) = Blue /\ getWosize(h[hd_address(o)]) >= 1
         /\ o + 8 <= nextHeader(h, hd_address(o))
<1>1. PICK a \in B : getColor(h[a]) = Blue /\ getWosize(h[a]) >= 1 /\ o = a + 8
  BY DEF FreeIn, f_address, WordBytes
<1>2. a \in Addresses /\ a \in Nat /\ a >= zero_addr
  BY AddressFacts DEF Tiled
<1>3. hd_address(o) = a
  BY <1>1, <1>2 DEF hd_address, WordBytes
<1>4. o + 8 <= nextHeader(h, a) /\ nextHeader(h, a) <= hi /\ nextHeader(h, a) \in Nat
  BY <1>1, <1>2, Sizes, TileBounds
<1>5. hi \in Nat /\ hi <= heap_size /\ heap_size \in Nat /\ zero_addr \in Nat
  BY AddressFacts
<1>6. o = a + 8 * 1 /\ a + 8 * 1 < heap_size /\ a + 8 * 1 >= zero_addr
  BY <1>1, <1>2, <1>4, <1>5
<1>7. o \in Addresses
  BY <1>2, <1>6, Shifted
<1> QED
  BY <1>1, <1>2, <1>3, <1>4, <1>5, <1>7

\* A free list depends on nothing but its links.
LEMMA DescendingFrame ==
  ASSUME NEW h, NEW g, NEW F, NEW head, Descending(h, F, head),
         \A o \in F : g[o] = h[o]
  PROVE  Descending(g, F, head)
BY DEF Descending

LEMMA DescendingPush ==
  ASSUME NEW h, NEW g, NEW F \in SUBSET Nat, NEW head, Descending(h, F, head),
         NEW b \in Nat, \A o \in F : o < b /\ g[o] = h[o],
         b > 0, g[b] = head
  PROVE  Descending(g, F \cup {b}, b)
<1>1. head \in F \cup {0} /\ \A o \in F : o <= head
  BY DEF Descending
<1>2. head < b
  BY <1>1
<1>3. ASSUME NEW o \in F
      PROVE  /\ o <= b
             /\ g[o] \in F \cup {b, 0} /\ g[o] < o
             /\ \A p \in F \cup {b} : p < o => p <= g[o]
  BY DEF Descending
<1>4. /\ b <= b
      /\ g[b] \in F \cup {b, 0} /\ g[b] < b
      /\ \A p \in F \cup {b} : p < b => p <= g[b]
  BY <1>1, <1>2
<1> QED
  BY <1>3, <1>4 DEF Descending

LEMMA DescendingPop ==
  ASSUME NEW h, NEW F \in SUBSET Nat, NEW head \in F, Descending(h, F, head)
  PROVE  Descending(h, F \ {head}, h[head])
<1>1. h[head] \in (F \ {head}) \cup {0}
  BY DEF Descending
<1>2. ASSUME NEW o \in F \ {head}
      PROVE  /\ o <= h[head]
             /\ h[o] \in (F \ {head}) \cup {0} /\ h[o] < o
             /\ \A p \in F \ {head} : p < o => p <= h[o]
  <2>1. o < head /\ h[o] < o /\ h[o] \in F \cup {0} /\ \A p \in F : p < o => p <= h[o]
    BY DEF Descending
  <2>2. h[o] # head
    BY <2>1
  <2>3. o <= h[head]
    BY <2>1 DEF Descending
  <2> QED
    BY <2>1, <2>2, <2>3
<1> QED
  BY <1>1, <1>2 DEF Descending

LEMMA DescendingUnlink ==
  ASSUME NEW h, NEW g, NEW F \in SUBSET Nat, NEW head, Descending(h, F, head),
         NEW p \in F, NEW c \in F, h[p] = c, g[p] = h[c],
         \A o \in F \ {p, c} : g[o] = h[o]
  PROVE  Descending(g, F \ {c}, head)
<1>1. \A o \in F : /\ o <= head /\ h[o] \in F \cup {0} /\ h[o] < o
                   /\ \A q \in F : q < o => q <= h[o]
  BY DEF Descending
<1>2. c < p /\ p <= head /\ h[c] < c
  BY <1>1
<1>3. head \in (F \ {c}) \cup {0}
  BY <1>2 DEF Descending
<1>4. ASSUME NEW o \in F \ {c}
      PROVE  /\ g[o] \in (F \ {c}) \cup {0} /\ g[o] < o
             /\ \A q \in F \ {c} : q < o => q <= g[o]
  <2>1. CASE o = p
    <3>1. g[o] \in F \cup {0} /\ g[o] # c /\ g[o] < o
      <4>1. g[o] = h[c] /\ h[c] \in F \cup {0} /\ h[c] < c /\ c < o
        BY <1>1, <1>2, <2>1
      <4>2. c \in Nat /\ o \in Nat /\ 0 \in Nat /\ \A x \in F : x \in Nat
        OBVIOUS
      <4>4. h[c] \in Nat
        BY <4>1, <4>2, Zenon
      <4>3. h[c] < o /\ h[c] # c
        BY <4>1, <4>2, <4>4
      <4> QED
        BY <4>1, <4>3, Zenon
    <3>2. ASSUME NEW q \in F \ {c}, q < o
          PROVE  q <= g[o]
      <4>1. q <= c
        BY <1>1, <2>1, <3>2
      <4>2. q < c
        BY <4>1
      <4> QED
        BY <1>1, <2>1, <4>2
    <3> QED
      BY <3>1, <3>2
  <2>2. CASE o # p
    <3>1. g[o] = h[o]
      BY <2>2
    <3>2. h[o] # c
      <4>1. SUFFICES ASSUME h[o] = c PROVE FALSE
        OBVIOUS
      <4>2. CASE o < p
        BY <4>1, <4>2, <1>1, <1>2
      <4>3. CASE p < o
        BY <4>1, <4>3, <1>1, <1>2
      <4> QED
        BY <2>2, <4>2, <4>3
    <3> QED
      BY <1>1, <3>1, <3>2
  <2> QED
    BY <2>1, <2>2
<1> QED
  BY <1>1, <1>3, <1>4 DEF Descending

\* A part of the heap is what its words say.
LEMMA PartFrame ==
  ASSUME NEW h \in Words, NEW g \in Words, NEW P,
         NEW lo \in Addresses \cup {heap_size}, NEW hi \in Addresses \cup {heap_size},
         Tiled(h, P, lo, hi),
         \A x \in Addresses : lo <= x /\ x < hi => g[x] = h[x]
  PROVE  /\ \A a \in P : g[a] = h[a]
         /\ Tiled(g, P, lo, hi)
         /\ FreeIn(g, P) = FreeIn(h, P)
         /\ \A o \in FreeIn(h, P) : g[o] = h[o]
<1>1. \A a \in P : g[a] = h[a]
  BY DEF Tiled
<1>2. Tiled(g, P, lo, hi)
  BY <1>1, TiledFrame
<1>3. FreeIn(g, P) = FreeIn(h, P)
  BY <1>1 DEF FreeIn
<1>4. ASSUME NEW o \in FreeIn(h, P)
      PROVE  g[o] = h[o]
  <2>1. /\ hd_address(o) \in P /\ o = hd_address(o) + 8 /\ o \in Addresses
        /\ o + 8 <= nextHeader(h, hd_address(o))
    BY ListedFacts
  <2>2. lo <= hd_address(o) /\ nextHeader(h, hd_address(o)) <= hi /\ hd_address(o) \in Addresses
    BY <2>1, TileBounds DEF Tiled
  <2>3. lo \in Nat /\ hi \in Nat /\ o \in Nat /\ nextHeader(h, hd_address(o)) \in Nat /\ hd_address(o) \in Nat
    BY <2>1, <2>2, AddressFacts, Sizes
  <2>4. lo <= o /\ o < hi
    BY <2>1, <2>2, <2>3
  <2> QED
    BY <2>1, <2>4
<1> QED
  BY <1>1, <1>2, <1>3, <1>4

\* The chain of links visits the free list.
LEMMA ListSteps ==
  ASSUME NEW h \in Words, NEW head, NEW F \in SUBSET Addresses, zero_addr \notin F,
         Descending(h, F, head)
  PROVE  /\ chainOf(h, head)[0] = head
         /\ \A i \in 0 .. HeapWords : chainOf(h, head)[i] \in F \cup {0}
         /\ \A i \in 0 .. HeapWords - 1 :
              chainOf(h, head)[i + 1] = IF chainOf(h, head)[i] \in F THEN h[chainOf(h, head)[i]] ELSE 0
<1> DEFINE S == F \cup {0}
           g == [v \in S |-> IF v \in F THEN h[v] ELSE 0]
<1>1. HeapWords \in Nat /\ 0 \notin F /\ head \in S /\ \A v \in S : is_valid_fp(v) <=> v \in F
  <2>1. 0 \notin F
    BY AddressFacts
  <2>2. \A v \in S : is_valid_fp(v) <=> v \in F
    BY <2>1, ValidPointers
  <2> QED
    BY <2>1, <2>2, HeapAssumption DEF Descending
<1>2. g \in [S -> S]
  BY DEF Descending
<1>3. PICK f \in [0 .. HeapWords -> S] :
        f = [n \in 0 .. HeapWords |-> IF n = 0 THEN head ELSE g[f[n - 1]]]
  <2> HIDE DEF g, S
  <2> QED
    BY <1>1, <1>2, Iteration, SMTT(40)
<1>4. \A v \in S : g[v] = IF is_valid_fp(v) THEN h[v] ELSE 0
  BY <1>1
<1>5. f = [i \in 0 .. HeapWords |->
             IF i = 0 THEN head
             ELSE LET v == f[i - 1] IN IF is_valid_fp(v) THEN h[v] ELSE 0]
  <2> HIDE DEF g, S
  <2>1. ASSUME NEW i \in 0 .. HeapWords, i # 0 PROVE f[i - 1] \in S
    <3>1. i - 1 \in 0 .. HeapWords
      BY <1>1, <2>1
    <3> QED
      BY <3>1
  <2> QED
    BY <1>3, <1>4, <2>1
<1>6. chainOf(h, head) = [i \in 0 .. HeapWords |->
                IF i = 0 THEN head
                ELSE LET v == chainOf(h, head)[i - 1] IN IF is_valid_fp(v) THEN h[v] ELSE 0]
  BY <1>5 DEF chainOf
<1>7. chainOf(h, head)[0] = head /\ \A i \in 0 .. HeapWords - 1 :
         chainOf(h, head)[i + 1] = IF is_valid_fp(chainOf(h, head)[i]) THEN h[chainOf(h, head)[i]] ELSE 0
  <2> DEFINE G(f0) == [i \in 0 .. HeapWords |->
                IF i = 0 THEN head
                ELSE LET v == f0[i - 1] IN IF is_valid_fp(v) THEN h[v] ELSE 0]
  <2>1. \A f0 : G(f0)[0] = head /\ \A i \in 0 .. HeapWords - 1 :
         G(f0)[i + 1] = IF is_valid_fp(f0[i]) THEN h[f0[i]] ELSE 0
    <3>1. \A i \in 0 .. HeapWords - 1 : i + 1 \in 0 .. HeapWords /\ i + 1 # 0 /\ i + 1 - 1 = i
      BY <1>1
    <3> QED
      BY <1>1, <3>1
  <2>2. chainOf(h, head) = G(chainOf(h, head))
    BY <1>6
  <2> HIDE DEF G
  <2> QED
    BY <2>1, <2>2
<1>8. 0 .. HeapWords \subseteq {i \in 0 .. HeapWords : chainOf(h, head)[i] \in S}
  <2> DEFINE T == {i \in 0 .. HeapWords : chainOf(h, head)[i] \in S}
  <2>1. 0 \in T
    BY <1>1, <1>7
  <2>2. ASSUME NEW i \in 0 .. HeapWords - 1, i \in T PROVE i + 1 \in T
    <3>1. chainOf(h, head)[i] \in S
      BY <2>2
    <3>2. chainOf(h, head)[i + 1] = g[chainOf(h, head)[i]]
      BY <1>4, <1>7, <3>1
    <3>3. g[chainOf(h, head)[i]] \in S
      BY <1>2, <3>1
    <3>4. i + 1 \in 0 .. HeapWords
      BY <1>1
    <3> QED
      BY <3>2, <3>3, <3>4
  <2> HIDE DEF T
  <2>3. 0 .. HeapWords \subseteq T
    BY <1>1, <2>1, <2>2, Induction
  <2> QED
    BY <2>3 DEF T
<1>9. ASSUME NEW i \in 0 .. HeapWords - 1
      PROVE  chainOf(h, head)[i + 1] = IF chainOf(h, head)[i] \in F THEN h[chainOf(h, head)[i]] ELSE 0
  <2>1. chainOf(h, head)[i] \in S
    <3>1. i \in 0 .. HeapWords
      BY <1>1
    <3> QED
      BY <1>8, <3>1
  <2> QED
    BY <1>1, <1>7, <2>1
<1> QED
  BY <1>7, <1>8, <1>9

LEMMA ListIs ==
  ASSUME NEW h \in Words, NEW head, NEW F \in SUBSET Addresses, zero_addr \notin F,
         Descending(h, F, head)
  PROVE  /\ chainOf(h, head)[HeapWords] = 0
         /\ {chainOf(h, head)[i] : i \in 0 .. HeapWords} \ {0} = F
         /\ \A i, j \in 0 .. HeapWords : chainOf(h, head)[i] = chainOf(h, head)[j] /\ chainOf(h, head)[i] # 0 => i = j
<1>1. /\ HeapWords \in Nat /\ zero_addr \in Nat /\ heap_size = zero_addr + 8 * HeapWords
      /\ 0 \notin F /\ \A o \in F : o \in Nat /\ o >= zero_addr /\ o + 8 <= heap_size
  BY AddressFacts, HeapAssumption DEF heap_size, WordBytes
<1>2. \A i \in 0 .. HeapWords : chainOf(h, head)[i] \in F \cup {0} /\ chainOf(h, head)[i] \in Nat
  BY <1>1, ListSteps
\* The chain goes down by a word or more with each link.
<1>3. ASSUME NEW i \in 0 .. HeapWords - 1
      PROVE  /\ i \in 0 .. HeapWords /\ i + 1 \in 0 .. HeapWords
             /\ chainOf(h, head)[i] \notin F => chainOf(h, head)[i + 1] = 0
             /\ chainOf(h, head)[i] \in F => /\ chainOf(h, head)[i + 1] + 8 <= chainOf(h, head)[i]
                                  /\ \A o \in F : o < chainOf(h, head)[i] => o <= chainOf(h, head)[i + 1]
  <2>1. i \in 0 .. HeapWords /\ i + 1 \in 0 .. HeapWords
    BY <1>1
  <2>2. chainOf(h, head)[i + 1] = IF chainOf(h, head)[i] \in F THEN h[chainOf(h, head)[i]] ELSE 0
    BY ListSteps
  <2>3. CASE chainOf(h, head)[i] \in F
    <3>1. /\ chainOf(h, head)[i + 1] < chainOf(h, head)[i]
          /\ \A o \in F : o < chainOf(h, head)[i] => o <= chainOf(h, head)[i + 1]
      BY <2>2, <2>3 DEF Descending
    <3>2. chainOf(h, head)[i + 1] \in Addresses \cup {0, heap_size} /\ chainOf(h, head)[i] \in Addresses \cup {0, heap_size}
      BY <1>2, <2>1
    <3>3. chainOf(h, head)[i + 1] + 8 <= chainOf(h, head)[i]
      BY <3>1, <3>2, Apart
    <3> QED
      BY <2>1, <2>3, <3>1, <3>3
  <2>4. CASE chainOf(h, head)[i] \notin F
    BY <2>1, <2>2, <2>4
  <2> QED
    BY <2>3, <2>4
<1>4. chainOf(h, head)[HeapWords] = 0
  <2> DEFINE V == {i \in 0 .. HeapWords : chainOf(h, head)[i] = 0 \/ chainOf(h, head)[i] + 8 * i + 8 <= heap_size}
  <2>1. 0 \in V
    BY <1>1, <1>2
  <2>2. ASSUME NEW i \in 0 .. HeapWords - 1, i \in V PROVE i + 1 \in V
    <3>1. i \in 0 .. HeapWords /\ i + 1 \in 0 .. HeapWords
      BY <1>3
    <3>2. chainOf(h, head)[i] \in Nat /\ chainOf(h, head)[i + 1] \in Nat /\ i \in Nat /\ heap_size \in Nat
      BY <1>1, <1>2, <3>1, AddressFacts
    <3>3. CASE chainOf(h, head)[i] \in F
      <4>1. chainOf(h, head)[i] # 0 /\ chainOf(h, head)[i] + 8 * i + 8 <= heap_size
        BY <1>1, <2>2, <3>3
      <4>2. chainOf(h, head)[i + 1] + 8 <= chainOf(h, head)[i]
        BY <1>3, <3>3
      <4>3. chainOf(h, head)[i + 1] + 8 * (i + 1) + 8 <= heap_size
        BY <3>2, <4>1, <4>2
      <4> QED
        BY <3>1, <4>3
    <3>4. CASE chainOf(h, head)[i] \notin F
      BY <1>3, <3>1, <3>4
    <3> QED
      BY <3>3, <3>4
  <2> HIDE DEF V
  <2>3. 0 .. HeapWords \subseteq V
    BY <1>1, <2>1, <2>2, Induction
  <2>4. chainOf(h, head)[HeapWords] = 0 \/ chainOf(h, head)[HeapWords] + 8 * HeapWords + 8 <= heap_size
    BY <1>1, <2>3 DEF V
  <2>5. chainOf(h, head)[HeapWords] \in F \cup {0}
    BY <1>1, <1>2
  <2> QED
    BY <1>1, <2>4, <2>5
<1>5. ASSUME NEW o \in F, \A i \in 0 .. HeapWords : chainOf(h, head)[i] # o
      PROVE  FALSE
  <2> DEFINE T == {i \in 0 .. HeapWords : o < chainOf(h, head)[i]}
  <2>1. 0 \in T
    <3>1. chainOf(h, head)[0] = head /\ o <= head
      BY ListSteps DEF Descending
    <3> QED
      BY <1>1, <1>2, <1>5, <3>1
  <2>2. ASSUME NEW i \in 0 .. HeapWords - 1, i \in T PROVE i + 1 \in T
    <3>1. /\ i \in 0 .. HeapWords /\ i + 1 \in 0 .. HeapWords /\ o < chainOf(h, head)[i]
          /\ chainOf(h, head)[i] \in F \cup {0} /\ chainOf(h, head)[i + 1] \in Nat /\ o \in Nat
      BY <1>1, <1>2, <1>3, <2>2
    <3>2. chainOf(h, head)[i] \in F
      BY <3>1
    <3>3. o <= chainOf(h, head)[i + 1] /\ chainOf(h, head)[i + 1] # o
      BY <1>3, <1>5, <3>1, <3>2
    <3> QED
      BY <3>1, <3>3
  <2> HIDE DEF T
  <2>3. 0 .. HeapWords \subseteq T
    BY <1>1, <2>1, <2>2, Induction
  <2>4. o < chainOf(h, head)[HeapWords]
    BY <1>1, <2>3 DEF T
  <2> QED
    BY <1>1, <1>4, <2>4
<1>6. ASSUME NEW i \in 0 .. HeapWords, NEW j \in 0 .. HeapWords, i < j, chainOf(h, head)[i] # 0
      PROVE  chainOf(h, head)[j] < chainOf(h, head)[i]
  <2> DEFINE T == {m \in 0 .. HeapWords : i < m => chainOf(h, head)[m] < chainOf(h, head)[i]}
  <2>1. 0 \in T
    BY <1>1
  <2>2. ASSUME NEW m \in 0 .. HeapWords - 1, m \in T PROVE m + 1 \in T
    <3>1. /\ m \in 0 .. HeapWords /\ m + 1 \in 0 .. HeapWords
          /\ chainOf(h, head)[m] \in F \cup {0} /\ chainOf(h, head)[m] \in Nat /\ chainOf(h, head)[m + 1] \in Nat
          /\ chainOf(h, head)[i] \in Nat /\ chainOf(h, head)[i] \in F
      BY <1>2, <1>3, <1>6
    <3>2. SUFFICES ASSUME i < m + 1 PROVE chainOf(h, head)[m + 1] < chainOf(h, head)[i]
      BY <3>1
    <3>3. chainOf(h, head)[m] <= chainOf(h, head)[i]
      BY <1>1, <2>2, <3>1, <3>2
    <3>4. chainOf(h, head)[m] \in F => chainOf(h, head)[m + 1] + 8 <= chainOf(h, head)[m]
      BY <1>3
    <3>5. chainOf(h, head)[m] \notin F => chainOf(h, head)[m + 1] = 0
      BY <1>3
    <3> QED
      BY <1>6, <3>1, <3>3, <3>4, <3>5
  <2> HIDE DEF T
  <2>3. 0 .. HeapWords \subseteq T
    BY <1>1, <2>1, <2>2, Induction
  <2> QED
    BY <1>6, <2>3 DEF T
<1>7. \A i, j \in 0 .. HeapWords : chainOf(h, head)[i] = chainOf(h, head)[j] /\ chainOf(h, head)[i] # 0 => i = j
  <2> SUFFICES ASSUME NEW i \in 0 .. HeapWords, NEW j \in 0 .. HeapWords,
                      chainOf(h, head)[i] = chainOf(h, head)[j], chainOf(h, head)[i] # 0, i # j
               PROVE  FALSE
    OBVIOUS
  <2>1. i < j \/ j < i
    BY <1>1
  <2>2. chainOf(h, head)[j] < chainOf(h, head)[i] \/ chainOf(h, head)[i] < chainOf(h, head)[j]
    BY <1>6, <2>1
  <2> QED
    BY <1>2, <2>2
<1>8. {chainOf(h, head)[i] : i \in 0 .. HeapWords} \ {0} = F
  <2>1. \A i \in 0 .. HeapWords : chainOf(h, head)[i] # 0 => chainOf(h, head)[i] \in F
    BY <1>2
  <2>2. \A o \in F : \E i \in 0 .. HeapWords : chainOf(h, head)[i] = o
    BY <1>5
  <2> QED
    BY <1>1, <2>1, <2>2
<1> QED
  BY <1>4, <1>7, <1>8

-----------------------------------------------------------------------------
(* Carving an object from a free block *)

\* A heap h with blocks B, and the free list from head.
Listed(h, B, head) ==
  /\ h \in Words
  /\ B \in SUBSET Addresses
  /\ Tiled(h, B, zero_addr, heap_size)
  /\ HaveField(B)
  /\ Descending(h, FreeIn(h, B), head)

\* From the heap h, allocate takes n words at the end of the block whose first
\* field is c, and puts the header of an object at A; L words are left.  The block
\* p links to c.  Whatever is in the object then, the heap is k.
Carving(h, k, B, head, head2, c, p, A, n, L) ==
  /\ n \in Nat /\ L \in Nat /\ n >= 1
  /\ c \in FreeIn(h, B)
  /\ (p = 0 /\ c = head) \/ (p \in FreeIn(h, B) /\ h[p] = c)
  /\ getWosize(h[hd_address(c)]) = L + n
  /\ A = hd_address(c) + 8 * L
  /\ k \in Words
  /\ getWosize(k[A]) = n /\ getColor(k[A]) # Blue
  /\ \A x \in Addresses : x < A \/ x >= A + 8 + 8 * n =>
       k[x] = IF L > 0 /\ x = hd_address(c) THEN makeHeader(L - 1, Blue, 0)
              ELSE IF x = p THEN (IF L >= 2 THEN c ELSE h[c])
              ELSE h[x]
  /\ head2 = IF p = 0 THEN (IF L >= 2 THEN c ELSE h[c]) ELSE head

\* What is left is tiled and listed, and no other block has changed but for a link
\* of the list.
Carved(h, k, B, head2, c, A, n, L) ==
  /\ Listed(k, B \cup {A}, head2)
  /\ A \in Addresses /\ A + 8 \in Addresses
  /\ nextHeader(k, A) = A + 8 + 8 * n
  /\ nextHeader(k, A) = nextHeader(h, hd_address(c)) /\ nextHeader(k, A) <= heap_size
  /\ hd_address(c) \in B /\ c = hd_address(c) + 8 /\ getColor(h[hd_address(c)]) = Blue
  /\ L = 0 => A = hd_address(c)
  /\ L > 0 => /\ A \notin B /\ A + 8 # c
              /\ getColor(k[hd_address(c)]) = Blue /\ nextHeader(k, hd_address(c)) = A
  /\ \A b \in B \ {hd_address(c)} :
       k[b] = h[b] /\ b # A /\ nextHeader(k, b) = nextHeader(h, b)
  /\ \A b \in B \ {hd_address(c)} : getColor(h[b]) # Blue =>
       \A x \in Addresses : b < x /\ x < nextHeader(h, b) =>
         k[x] = h[x] /\ (x < A \/ x >= A + 8 + 8 * n)

LEMMA CarveListed ==
  ASSUME NEW h, NEW k, NEW B, NEW head, NEW head2,
         NEW c, NEW p, NEW A, NEW n, NEW L,
         Carving(h, k, B, head, head2, c, p, A, n, L),
         Listed(h, B, head)
  PROVE  Carved(h, k, B, head2, c, A, n, L)
<1> USE DEF Carving, Listed
<1> DEFINE a == hd_address(c)
           F == FreeIn(h, B)
           end == A + 8 + 8 * n
<1>1. /\ zero_addr \in Addresses /\ heap_size \in Nat /\ zero_addr \in Nat /\ zero_addr >= 8
      /\ \A x \in Addresses : x \in Nat /\ x >= zero_addr /\ x < heap_size
  BY AddressFacts
<1>2. \A o \in F : /\ hd_address(o) \in B /\ o = hd_address(o) + 8 /\ o \in Addresses
                   /\ getColor(h[hd_address(o)]) = Blue /\ getWosize(h[hd_address(o)]) >= 1
                   /\ o + 8 <= nextHeader(h, hd_address(o))
  BY <1>1, ListedFacts
<1>3. /\ a \in B /\ a \in Nat /\ c = a + 8 /\ c \in F /\ c \in Addresses
      /\ getColor(h[a]) = Blue /\ A = a + 8 * L
      /\ end = a + 8 + 8 * (L + n) /\ A \in Nat /\ end \in Nat /\ a <= A /\ A < end
  <2>1. a \in B /\ a \in Nat /\ c = a + 8 /\ c \in F /\ c \in Addresses
        /\ getColor(h[a]) = Blue /\ A = a + 8 * L
    BY <1>1, <1>2
  <2> HIDE DEF a
  <2> QED
    BY <2>1
<1>4. nextHeader(h, a) = end /\ end \in B \cup {heap_size} /\ end <= heap_size
  <2>1. nextHeader(h, a) = a + 8 + 8 * (L + n)
    BY <1>3, Sizes
  <2>2. nextHeader(h, a) \in B \cup {heap_size}
    BY <1>3 DEF Tiled
  <2> HIDE DEF end
  <2> QED
    BY <1>1, <1>3, <2>1, <2>2
<1>5. A \in Addresses
  <2>1. a \in Addresses \cup {heap_size} /\ a + 8 * L >= zero_addr /\ a + 8 * L < heap_size
    BY <1>1, <1>3, <1>4
  <2> QED
    BY <1>3, <2>1, Shifted
<1>6. k[A] \in Nat /\ getWosize(k[A]) = n /\ getColor(k[A]) # Blue
  BY <1>5 DEF Words
<1>7. ASSUME NEW x \in Addresses, x < A \/ x >= end
      PROVE  k[x] = IF L > 0 /\ x = a THEN makeHeader(L - 1, Blue, 0)
                    ELSE IF x = p THEN (IF L >= 2 THEN c ELSE h[c])
                    ELSE h[x]
  BY <1>7
<1>8. Blue \in 0 .. 3 /\ 0 \in 0 .. 255
  BY DEF Blue
<1>9. L > 0 => getWosize(k[a]) = L - 1 /\ getColor(k[a]) = Blue
  <2>1. SUFFICES ASSUME L > 0 PROVE getWosize(k[a]) = L - 1 /\ getColor(k[a]) = Blue
    OBVIOUS
  <2>2. a < A /\ a \in Addresses /\ L - 1 \in Nat
    BY <1>3, <2>1
  <2>3. k[a] = makeHeader(L - 1, Blue, 0)
    BY <1>7, <2>1, <2>2
  <2>4. \A w \in Nat : getWosize(makeHeader(w, Blue, 0)) = w /\ getColor(makeHeader(w, Blue, 0)) = Blue
    BY <1>8, HeaderParts, ZenonT(60)
  <2> QED
    BY <2>2, <2>3, <2>4
<1> HIDE DEF a, F, end
<1>10. /\ 0 \notin F /\ F \subseteq Addresses /\ F \in SUBSET Nat
       /\ (p = 0 /\ c = head) \/ (p \in F /\ h[p] = c)
       /\ p \in F => p # c /\ p # 0
  <2>1. F \subseteq Addresses /\ F \in SUBSET Nat
    BY <1>1, <1>2
  <2>2. 0 \notin F
    BY <1>1, <2>1
  <2>3. (p = 0 /\ c = head) \/ (p \in F /\ h[p] = c)
    BY DEF F
  <2>4. ASSUME p \in F PROVE p # c
    <3>1. h[p] = c
      BY <2>2, <2>3, <2>4
    <3>2. h[p] < p
      BY <2>4 DEF Descending, F
    <3> QED
      BY <2>1, <2>4, <3>1, <3>2
  <2> QED
    BY <2>1, <2>2, <2>3, <2>4
\* Other blocks lie before or behind the one that is carved.
<1>11. ASSUME NEW b \in B \ {a}
       PROVE  /\ b \in Nat /\ b \in Addresses /\ nextHeader(h, b) \in Nat /\ b < nextHeader(h, b)
              /\ nextHeader(h, b) <= heap_size
              /\ (b < a /\ nextHeader(h, b) <= a) \/ b >= end
  <2>0. b \in Addresses /\ b \in Nat
    BY <1>1
  <2>1. b \in Addresses /\ b \in Nat /\ nextHeader(h, b) \in Nat /\ b < nextHeader(h, b)
    BY <2>0, Sizes
  <2>2. nextHeader(h, b) <= heap_size
    BY <1>1, TileBounds
  <2>3. b < a => nextHeader(h, b) <= a
    BY <1>3 DEF Tiled
  <2>4. a < b => b >= end
    BY <1>3, <1>4, <2>1 DEF Tiled
  <2> QED
    BY <1>3, <2>1, <2>2, <2>3, <2>4
\* A link lies strictly inside its block.
<1>12. ASSUME NEW b \in B, NEW o \in F, NEW x \in Nat, b <= x, x < nextHeader(h, b), x = o
       PROVE  b = hd_address(o) /\ x = b + 8
  <2>1. hd_address(o) \in B /\ o = hd_address(o) + 8 /\ o + 8 <= nextHeader(h, hd_address(o))
    BY <1>2
  <2>2. /\ b \in Nat /\ nextHeader(h, b) \in Nat /\ hd_address(o) \in Nat
        /\ nextHeader(h, hd_address(o)) \in Nat
    BY <1>1, <2>1, Sizes
  <2>3. b < hd_address(o) => nextHeader(h, b) <= hd_address(o)
    BY <2>1 DEF Tiled
  <2>4. hd_address(o) < b => nextHeader(h, hd_address(o)) <= b
    BY <2>1 DEF Tiled
  <2> QED
    BY <1>12, <2>1, <2>2, <2>3, <2>4
<1>13. ASSUME NEW b \in B \ {a}
       PROVE  k[b] = h[b] /\ nextHeader(k, b) = nextHeader(h, b) /\ b # A
  <2>1. b # p
    <3>1. b # 0
      BY <1>1, <1>11
    <3>2. p \in F => b # p
      <4>1. b \in Nat /\ b <= b /\ b < nextHeader(h, b)
        BY <1>11
      <4>2. b # b + 8
        BY <4>1
      <4> QED
        BY <1>12, <4>1, <4>2
    <3> QED
      BY <1>10, <3>1, <3>2
  <2>2. b # A /\ (b < A \/ b >= end) /\ b # a /\ b \in Addresses
    BY <1>3, <1>11
  <2>3. k[b] = h[b]
    BY <1>7, <2>1, <2>2
  <2> QED
    BY <2>2, <2>3 DEF nextHeader
<1>14. /\ nextHeader(k, A) = end
       /\ L > 0 => nextHeader(k, a) = A
       /\ L = 0 => A = a
  BY <1>3, <1>6, <1>9 DEF nextHeader, WordBytes, end
<1>15. L > 0 => A \notin B
  BY <1>3, <1>11, <1>13
<1>16. A + 8 \in Addresses /\ f_address(A) = A + 8
  <2>1. A + 8 * 1 >= zero_addr /\ A + 8 * 1 < heap_size
    <3>1. A + 8 < end
      BY <1>3 DEF end
    <3> QED
      BY <1>1, <1>3, <1>4, <1>5, <3>1
  <2>2. A + 8 * 1 \in Addresses
    <3>1. A \in Addresses \cup {heap_size} /\ 1 \in Int
      BY <1>5
    <3> QED
      BY <2>1, <3>1, Shifted
  <2> QED
    BY <1>3, <2>2 DEF f_address, WordBytes
<1> DEFINE D == B \cup {A}
<1>17. D \in SUBSET Addresses
  BY <1>5
<1>18. Tiled(k, D, zero_addr, heap_size)
  <2>1. zero_addr \in D \cup {heap_size}
    BY DEF Tiled
  <2>2. \A b \in D : zero_addr <= b /\ b < heap_size
    BY <1>1, <1>17
  <2>3. \A b \in D : b = A \/ (b = a /\ L > 0) \/ b \in B \ {a}
    BY <1>14
  <2>4. ASSUME NEW b \in D
        PROVE  nextHeader(k, b) \in D \cup {heap_size}
    <3>1. CASE b = A
      BY <1>4, <1>14, <3>1
    <3>2. CASE b = a /\ L > 0
      BY <1>14, <3>2
    <3>3. CASE b \in B \ {a}
      <4>1. nextHeader(h, b) \in B \cup {heap_size}
        BY <3>3 DEF Tiled
      <4> QED
        BY <1>13, <3>3, <4>1
    <3> QED
      BY <2>3, <3>1, <3>2, <3>3
  <2>5. ASSUME NEW b \in D, NEW d \in D, b < d
        PROVE  nextHeader(k, b) <= d
    <3>1. CASE b \in B \ {a} /\ d \in B \ {a}
      BY <1>13, <2>5, <3>1 DEF Tiled
    <3>2. CASE b \in B \ {a} /\ d \in {a, A}
      BY <1>3, <1>11, <1>13, <2>5, <3>2
    <3>3. CASE b = A /\ d \in B \ {a}
      BY <1>3, <1>11, <1>14, <2>5, <3>3
    <3>4. CASE b = a /\ L > 0 /\ d \in B \ {a}
      BY <1>3, <1>11, <1>14, <2>5, <3>4
    <3>5. CASE b \in {a, A} /\ d \in {a, A}
      BY <1>3, <1>14, <2>5, <3>5
    <3> QED
      BY <2>3, <3>1, <3>2, <3>3, <3>4, <3>5
  <2> QED
    BY <1>17, <2>1, <2>2, <2>4, <2>5 DEF Tiled
<1>19. HaveField(D)
  BY <1>16 DEF HaveField
<1>20. FreeIn(k, D) = IF L >= 2 THEN F ELSE F \ {c}
  <2>1. \A b \in B \ {a} : f_address(b) # c
    BY <1>3, <1>11 DEF f_address, WordBytes
  <2>2. f_address(a) = c
    BY <1>3 DEF f_address, WordBytes
  <2> DEFINE Rest == {f_address(b) : b \in {d \in B \ {a} : getColor(h[d]) = Blue /\ getWosize(h[d]) >= 1}}
  <2>3. F = Rest \cup {c}
    <3>1. getColor(h[a]) = Blue /\ getWosize(h[a]) >= 1 /\ a \in B
      BY <1>2, <1>3 DEF a
    <3> QED
      BY <2>2, <3>1 DEF F, FreeIn
  <2>4. c \notin Rest
    BY <2>1
  <2>5. Rest = {f_address(b) : b \in {d \in B \ {a} : getColor(k[d]) = Blue /\ getWosize(k[d]) >= 1}}
    BY <1>13
  <2>6. ~ (getColor(k[A]) = Blue)
    BY <1>6
  <2>7. CASE L >= 2
    <3>1. getColor(k[a]) = Blue /\ getWosize(k[a]) >= 1 /\ D = (B \ {a}) \cup {a, A}
      BY <1>3, <1>9, <2>7
    <3>2. FreeIn(k, D) = Rest \cup {c}
      <4> HIDE DEF D, Rest
      <4> QED
        BY <2>2, <2>5, <2>6, <3>1, ZenonT(60) DEF FreeIn
    <3> QED
      BY <2>3, <2>7, <3>2
  <2>8. CASE ~ (L >= 2)
    <3>1. a # A => ~ (getWosize(k[a]) >= 1)
      BY <1>9, <1>14, <2>8
    <3>2. D = (B \ {a}) \cup {a, A}
      BY <1>3
    <3>3. FreeIn(k, D) = Rest
      <4> HIDE DEF D, Rest
      <4> QED
        BY <2>5, <2>6, <3>1, <3>2 DEF FreeIn
    <3> QED
      BY <2>3, <2>4, <2>8, <3>3
  <2> QED
    BY <2>7, <2>8
<1>21. ASSUME NEW o \in F, o # p, o = c => L >= 2
       PROVE  k[o] = h[o]
  <2>1. o \in Addresses /\ o \in Nat
    BY <1>1, <1>2
  <2>2. CASE o = c
    <3>1. o # a /\ o < A
      BY <1>3, <1>21, <2>2
    <3> QED
      BY <1>7, <1>21, <2>1, <3>1
  <2>3. CASE o # c
    <3>1. hd_address(o) \in B \ {a} /\ o = hd_address(o) + 8 /\ o + 8 <= nextHeader(h, hd_address(o))
      BY <1>2, <1>3, <2>3
    <3>4. /\ hd_address(o) \in Nat /\ nextHeader(h, hd_address(o)) \in Nat
          /\ (hd_address(o) < a /\ nextHeader(h, hd_address(o)) <= a) \/ hd_address(o) >= end
      BY <1>11, <3>1, Zenon
    <3>3. o < a \/ o >= end
      BY <1>3, <2>1, <3>1, <3>4
    <3>2. o # a /\ (o < A \/ o >= end)
      BY <1>3, <2>1, <3>3
    <3> QED
      BY <1>7, <1>21, <2>1, <3>2
  <2> QED
    BY <2>2, <2>3
<1>22. p \in F => k[p] = IF L >= 2 THEN c ELSE h[c]
  <2>1. SUFFICES ASSUME p \in F PROVE k[p] = IF L >= 2 THEN c ELSE h[c]
    OBVIOUS
  <2>2. p # 0 /\ p # c /\ p \in Addresses /\ p \in Nat
    BY <1>1, <1>10, <2>1
  <2>3. hd_address(p) \in B \ {a} /\ p = hd_address(p) + 8 /\ p + 8 <= nextHeader(h, hd_address(p))
    BY <1>2, <1>3, <2>1, <2>2
  <2>6. /\ hd_address(p) \in Nat /\ nextHeader(h, hd_address(p)) \in Nat
        /\ (hd_address(p) < a /\ nextHeader(h, hd_address(p)) <= a) \/ hd_address(p) >= end
    BY <1>11, <2>3, Zenon
  <2>5. p < a \/ p >= end
    BY <1>3, <2>2, <2>3, <2>6
  <2>4. p # a /\ (p < A \/ p >= end)
    BY <1>3, <2>2, <2>5
  <2> QED
    BY <1>7, <2>2, <2>4
<1>23. Descending(k, FreeIn(k, D), head2)
  <2>1. Descending(h, F, head) /\ F \in SUBSET Nat
    BY <1>1, <1>2 DEF F
  <2>2. CASE L >= 2
    <3>1. ASSUME NEW o \in F PROVE k[o] = h[o]
      <4>1. CASE o = p
        BY <1>10, <1>22, <2>2, <4>1
      <4>2. CASE o # p
        BY <1>21, <2>2, <4>2
      <4> QED
        BY <4>1, <4>2
    <3>2. head2 = head
      BY <1>10, <2>2
    <3>3. FreeIn(k, D) = F
      BY <1>20, <2>2
    <3> QED
      BY <2>1, <3>1, <3>2, <3>3, DescendingFrame
  <2>3. CASE ~ (L >= 2) /\ p = 0
    <3>1. head = c /\ head2 = h[c] /\ p \notin F
      BY <1>10, <2>3
    <3>2. Descending(h, F \ {c}, h[c])
      BY <1>3, <2>1, <3>1, DescendingPop
    <3>3. \A o \in F \ {c} : k[o] = h[o]
      BY <1>21, <3>1
    <3>4. FreeIn(k, D) = F \ {c}
      BY <1>20, <2>3
    <3>5. Descending(k, F \ {c}, h[c])
      BY <3>2, <3>3, DescendingFrame
    <3> QED
      BY <3>1, <3>4, <3>5
  <2>4. CASE ~ (L >= 2) /\ p # 0
    <3>1. p \in F /\ h[p] = c /\ k[p] = h[c] /\ head2 = head
      BY <1>10, <1>22, <2>4
    <3>2. \A o \in F \ {p, c} : k[o] = h[o]
      BY <1>21
    <3>3. Descending(k, F \ {c}, head)
      BY <1>3, <2>1, <3>1, <3>2, DescendingUnlink
    <3>4. FreeIn(k, D) = F \ {c}
      BY <1>20, <2>4
    <3> QED
      BY <3>1, <3>3, <3>4
  <2> QED
    BY <2>2, <2>3, <2>4
<1>24. Listed(k, D, head2)
  BY <1>17, <1>18, <1>19, <1>23
<1>25. ASSUME NEW b \in B \ {a}, getColor(h[b]) # Blue,
              NEW x \in Addresses, b < x, x < nextHeader(h, b)
       PROVE  k[x] = h[x] /\ (x < A \/ x >= end)
  <2>1. x \in Nat /\ x # 0 /\ b <= x
    BY <1>1, <1>11, <1>25
  <2>2. x # a /\ (x < A \/ x >= end)
    BY <1>3, <1>11, <1>25, <2>1
  <2>3. x # p
    <3>1. p \in F => x # p
      <4>1. SUFFICES ASSUME p \in F, x = p PROVE FALSE
        OBVIOUS
      <4>2. b = hd_address(p)
        BY <1>12, <1>25, <2>1, <4>1
      <4> QED
        BY <1>2, <1>25, <4>1, <4>2
    <3> QED
      BY <1>10, <2>1, <3>1
  <2> QED
    BY <1>7, <2>2, <2>3
<1>26. L > 0 => A + 8 # c
  BY <1>3
<1> QED
  BY <1>3, <1>4, <1>5, <1>9, <1>13, <1>14, <1>15, <1>16, <1>24, <1>25, <1>26 DEF a, end, Carved

-----------------------------------------------------------------------------
(* Writing to the fields of blocks in use *)

\* The word x belongs to the block with its header at b, and is not the header.
Within(h, b, x) == b < x /\ x < nextHeader(h, b)

LEMMA WithinOne ==
  ASSUME NEW h, NEW B, NEW head, Listed(h, B, head), NEW b \in B, NEW c \in B, NEW x \in Addresses,
         Within(h, b, x)
  PROVE  x # c /\ (Within(h, c, x) => c = b)
<1>1. h \in Words /\ Tiled(h, B, zero_addr, heap_size) /\ B \subseteq Addresses
  BY DEF Listed
<1>2. /\ b \in Nat /\ c \in Nat /\ x \in Nat /\ nextHeader(h, b) \in Nat /\ nextHeader(h, c) \in Nat
  BY <1>1, AddressFacts, Sizes
<1>3. /\ b < c => nextHeader(h, b) <= c
      /\ c < b => nextHeader(h, c) <= b
  BY <1>1 DEF Tiled
<1> QED
  BY <1>2, <1>3 DEF Within

\* Such writes change neither a header nor the free list.
LEMMA UsedWrites ==
  ASSUME NEW h, NEW B, NEW head, Listed(h, B, head), NEW g \in Words,
         \A x \in Addresses : g[x] # h[x] => \E b \in B : getColor(h[b]) # Blue /\ Within(h, b, x)
  PROVE  /\ Listed(g, B, head) /\ HeadersOf(h) = B /\ HeadersOf(g) = B
         /\ \A b \in B : g[b] = h[b] /\ nextHeader(g, b) = nextHeader(h, b)
<1>1. h \in Words /\ B \in SUBSET Addresses /\ Tiled(h, B, zero_addr, heap_size) /\ HaveField(B)
      /\ Descending(h, FreeIn(h, B), head)
  BY DEF Listed
<1>2. zero_addr \in Addresses \cup {heap_size} /\ heap_size \in Addresses \cup {heap_size}
  BY AddressFacts
<1>3. \A b \in B : g[b] = h[b]
  BY <1>1, WithinOne
<1>4. \A b \in B : nextHeader(g, b) = nextHeader(h, b)
  BY <1>3 DEF nextHeader
<1>5. Tiled(g, B, zero_addr, heap_size)
  BY <1>1, <1>3, TiledFrame
<1>6. FreeIn(g, B) = FreeIn(h, B)
  BY <1>3 DEF FreeIn
<1>7. ASSUME NEW o \in FreeIn(h, B) PROVE g[o] = h[o]
  <2>1. /\ hd_address(o) \in B /\ o = hd_address(o) + 8 /\ o \in Addresses
        /\ getColor(h[hd_address(o)]) = Blue /\ o + 8 <= nextHeader(h, hd_address(o))
    BY <1>1, <1>2, ListedFacts
  <2>2. hd_address(o) \in Nat /\ nextHeader(h, hd_address(o)) \in Nat
    BY <1>1, <2>1, AddressFacts, Sizes
  <2>3. Within(h, hd_address(o), o)
    BY <2>1, <2>2 DEF Within
  <2>4. \A b \in B : Within(h, b, o) => b = hd_address(o)
    BY <2>1, <2>3, WithinOne
  <2> QED
    BY <2>1, <2>4
<1>8. Descending(g, FreeIn(g, B), head)
  BY <1>1, <1>6, <1>7, DescendingFrame
<1>9. HeadersOf(h) = B /\ HeadersOf(g) = B
  BY <1>1, <1>5, WalkIs
<1> QED
  BY <1>1, <1>3, <1>4, <1>5, <1>8, <1>9 DEF Listed
=============================================================================
