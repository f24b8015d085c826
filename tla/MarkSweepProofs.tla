--------------------------- MODULE MarkSweepProofs ---------------------------
(***************************************************************************)
(* Theorems about the mark-and-sweep collector of module MarkSweep, for    *)
(* heaps of any length, any number of roots and any stack: until the first *)
(* step that breaks the contract of collect, the walk, the free list and,  *)
(* as long as no push left its storage, the gray stack are exact, and a    *)
(* collection frees the garbage and nothing else.                          *)
(*                                                                         *)
(* While the contract is kept one set of headers tiles the heap, sweeps    *)
(* included, since they merge nothing.  What becomes of the heap after an  *)
(* object has left a word uncovered, or with an infix pointer in a root,   *)
(* is not in the theorems: the runs ms_spare_word and ms_infix show it.    *)
(***************************************************************************)
EXTENDS MarkSweep, HeapLemmas, FiniteSetTheorems

-----------------------------------------------------------------------------
(* Blocks, fields and the free list of a heap h, which need not be the     *)
(* current one.                                                            *)

\* Blocks in use; those a sweep that has come to c keeps.
Used(h, B)    == {a \in B : getColor(h[a]) # Blue}
Kept(h, B, c) == {a \in Used(h, B) : a < c \/ getColor(h[a]) = Black}

Sized(h, B) == \A a \in B : getWosize(h[a]) >= 1

FieldAt(a, k) == a + WordBytes * k
Scannable(h, a) == getTag(h[a]) < no_scan_tag

\* The word v is no pointer or leads to the block of a header in R.
Leads(v, R) == is_pointer(v) => hd_address(v) \in R

\* What the scannable blocks of V hold leads into R.
Closed(h, V, R) ==
  \A a \in V : Scannable(h, a) => \A k \in 1 .. getWosize(h[a]) : Leads(h[FieldAt(a, k)], R)

RootsLead(rs, R) == \A r \in Roots : Leads(rs[r], R)

FreeOf(h, B) == {f_address(a) : a \in {b \in B : getColor(h[b]) = Blue}}
GrayOf(h, B) == {f_address(a) : a \in {b \in B : getColor(h[b]) = Gray}}

\* The list from head holds each element of F once: rank counts the elements
\* that are left from one on.
Ranked(h, F, head, rank) ==
  /\ rank[0] = 0
  /\ \A o \in F : /\ rank[o] >= 1 /\ rank[o] <= rank[head]
                  /\ h[o] \in F \cup {0} /\ rank[h[o]] = rank[o] - 1
  /\ \A o, p \in F : rank[o] = rank[p] => o = p
Linked(h, F, head) ==
  /\ head \in F \cup {0}
  /\ \E rank \in [F \cup {0} -> Nat] : Ranked(h, F, head, rank)

\* The entries of the stack st from t on are the first fields in G, each once.
Stacked(st, t, G) ==
  /\ \A m \in t .. gray_cap - 1 : st[m] \in G
  /\ \A o \in G : \E m \in t .. gray_cap - 1 : st[m] = o
  /\ \A m, n \in t .. gray_cap - 1 : st[m] = st[n] => m = n

-----------------------------------------------------------------------------
(* The inductive invariant *)

Phases == {"mutator", "search", "roots", "mark", "scan", "sweep", "fatal"}

\* Types, with what StackInBounds says of top left out.
StateType ==
  /\ heap \in Words /\ roots \in [Roots -> Nat]
  /\ pc \in Phases /\ retried \in BOOLEAN
  /\ storage \in [0 .. gray_cap - 1 -> Nat]
  /\ top \in Int /\ top <= gray_cap
  /\ i \in Nat

IsRequest(q) ==
  /\ q.wz \in Nat /\ q.tag \in 0 .. 255 /\ q.root \in Roots
  /\ [wz |-> q.wz, tag |-> q.tag] \in Requests
CallInv ==
  /\ pc = "mutator" => req = NoRequest
  /\ pc = "search" => IsRequest(req)
  /\ req = NoRequest \/ IsRequest(req)

\* Blocks follow one another from the first word of the heap to its end.
HeapShape == Tiled(heap, Headers, zero_addr, heap_size) /\ Sized(heap, Headers)

ListInv == Linked(heap, FreeOf(heap, Headers), listHead)

\* A search stands at an element of the list, and knows the one before.
SearchInv ==
  pc = "search" =>
    /\ cur_val_addr \in FreeOf(heap, Headers) \cup {0}
    /\ \/ prev_val_addr = 0 /\ cur_val_addr = free_head
       \/ prev_val_addr \in FreeOf(heap, Headers) /\ heap[prev_val_addr] = cur_val_addr

\* Roots and blocks that stay in use lead to blocks that stay in use.
sweptTo == IF pc = "sweep" THEN current ELSE heap_size
Survivors == Kept(heap, Headers, sweptTo)
PointersInv == RootsLead(roots, Survivors) /\ Closed(heap, Survivors, Survivors)

ColourInv ==
  /\ pc \in {"mutator", "search", "fatal"} =>
       \A a \in Headers : colorOf(a) \in {White, Blue}
  /\ pc = "roots" => \A a \in Headers : colorOf(a) # Black
  /\ pc = "sweep" => \A a \in Headers : colorOf(a) # Gray /\ (a < current => colorOf(a) # Black)

Marking == pc \in {"roots", "mark", "scan"}

\* No pointer to a white block.
Dark(h, v) == is_pointer(v) => getColor(h[hd_address(v)]) # White

RootsDarkened ==
  /\ pc = "roots" => i >= 1 /\ \A r \in Roots : r < i => Dark(heap, roots[r])
  /\ pc \in {"mark", "scan"} => \A r \in Roots : Dark(heap, roots[r])

TriColor ==
  Marking =>
    \A a \in Headers : colorOf(a) = Black /\ Scannable(heap, a) =>
      \A k \in 1 .. wosizeOf(a) :
        \/ pc = "scan" /\ a = h_addr /\ k >= i
        \/ Dark(heap, heap[FieldAt(a, k)])

ScanInv ==
  pc = "scan" =>
    /\ h_addr \in Headers /\ colorOf(h_addr) = Black /\ Scannable(heap, h_addr)
    /\ i \in 1 .. wosizeOf(h_addr) + 1

StackInv == Marking /\ top >= 0 => Stacked(storage, top, GrayOf(heap, Headers))

SweepInv == pc = "sweep" => current \in Headers \cup {heap_size}

IInv ==
  /\ StateType /\ CallInv /\ HeapShape /\ ListInv /\ SearchInv /\ PointersInv /\ ColourInv
  /\ RootsDarkened /\ TriColor /\ ScanInv /\ StackInv /\ SweepInv

-----------------------------------------------------------------------------
(* Places in the heap *)

LEMMA PointerFacts ==
  /\ \A v \in Nat : is_pointer(v) <=> v \in Addresses /\ v # zero_addr
  /\ ~is_pointer(0) /\ ~is_pointer(Val_unit)
<1>1. ASSUME NEW v \in Nat PROVE is_pointer(v) <=> v \in Addresses /\ v # zero_addr
  <2>1. ASSUME is_pointer(v) PROVE v \in Addresses /\ v # zero_addr
    <3>1. v >= zero_addr + 8 /\ v < heap_size /\ v % 8 = 0
      BY <2>1 DEF is_pointer, WordBytes
    <3> QED
      BY <3>1, AddressFacts, AddressOf
  <2>2. ASSUME v \in Addresses, v # zero_addr PROVE is_pointer(v)
    <3>1. v >= zero_addr /\ v + 8 <= heap_size /\ v % 8 = 0 /\ zero_addr + 8 <= v
      BY <2>2, AddressFacts, Apart
    <3> QED
      BY <3>1, AddressFacts DEF is_pointer, WordBytes
  <2> QED
    BY <2>1, <2>2
<1>2. ~is_pointer(0) /\ ~is_pointer(Val_unit)
  BY AddressFacts DEF is_pointer, WordBytes, Val_unit
<1> QED
  BY <1>1, <1>2

\* No two fields are at one place, and no field is where a header is.
LEMMA Places ==
  ASSUME NEW h \in Words, NEW B, Tiled(h, B, zero_addr, heap_size),
         NEW a \in B, NEW k \in 1 .. getWosize(h[a])
  PROVE  /\ FieldAt(a, k) \in Addresses \ B /\ FieldAt(a, k) = a + 8 * k
         /\ a < FieldAt(a, k) /\ FieldAt(a, k) < nextHeader(h, a)
         /\ \A b \in B : \A m \in 1 .. getWosize(h[b]) : FieldAt(b, m) = FieldAt(a, k) => b = a /\ m = k
<1> DEFINE x == FieldAt(a, k)
<1>1. /\ zero_addr \in Addresses /\ zero_addr \in Nat /\ heap_size \in Nat /\ B \subseteq Addresses
      /\ \A b \in B : b \in Addresses /\ b \in Nat /\ b >= zero_addr
      /\ \A b, c \in B : b < c => nextHeader(h, b) <= c
  BY AddressFacts DEF Tiled
<1>2. ASSUME NEW b \in B, NEW m \in 1 .. getWosize(h[b])
      PROVE  /\ m \in Nat /\ FieldAt(b, m) \in Nat /\ FieldAt(b, m) = b + 8 * m
             /\ b < FieldAt(b, m) /\ FieldAt(b, m) < nextHeader(h, b) /\ nextHeader(h, b) <= heap_size
             /\ nextHeader(h, b) \in Nat
  <2>1. /\ getWosize(h[b]) \in Nat /\ nextHeader(h, b) = b + 8 + 8 * getWosize(h[b])
        /\ nextHeader(h, b) <= heap_size
    BY <1>1, Sizes, TileBounds
  <2> QED
    BY <1>1, <2>1 DEF FieldAt, WordBytes
<1>3. x \in Addresses
  BY <1>1, <1>2, Shifted
<1>4. ASSUME NEW b \in B PROVE x # b
  BY <1>1, <1>2
<1>5. ASSUME NEW b \in B, NEW m \in 1 .. getWosize(h[b]), FieldAt(b, m) = x
      PROVE  b = a /\ m = k
  <2>1. b = a
    BY <1>1, <1>2, <1>5
  <2> QED
    BY <1>1, <1>2, <1>5, <2>1
<1> QED
  BY <1>2, <1>3, <1>4, <1>5

\* A block of size one or more has a first field.
LEMMA FirstField ==
  ASSUME NEW h \in Words, NEW B, Tiled(h, B, zero_addr, heap_size), Sized(h, B), NEW a \in B
  PROVE  /\ a \in Addresses /\ a \in Nat /\ h[a] \in Nat /\ getWosize(h[a]) \in Nat
         /\ 1 \in 1 .. getWosize(h[a]) /\ f_address(a) = FieldAt(a, 1) /\ f_address(a) = a + 8
         /\ f_address(a) \in Addresses \ B /\ f_address(a) # zero_addr /\ f_address(a) # 0
         /\ hd_address(f_address(a)) = a /\ is_pointer(f_address(a))
<1>1. /\ a \in Addresses /\ a \in Nat /\ h[a] \in Nat /\ getWosize(h[a]) \in Nat
      /\ getWosize(h[a]) >= 1 /\ a >= zero_addr /\ zero_addr \in Nat
  BY AddressFacts, Sizes DEF Tiled, Words, Sized
<1>2. f_address(a) = FieldAt(a, 1) /\ f_address(a) = a + 8 /\ hd_address(f_address(a)) = a
  BY <1>1 DEF f_address, hd_address, FieldAt, WordBytes
<1>3. f_address(a) \in Addresses \ B
  BY <1>1, <1>2, Places
<1>4. f_address(a) # zero_addr /\ f_address(a) # 0 /\ f_address(a) \in Nat
  BY <1>1, <1>2
<1> QED
  BY <1>1, <1>2, <1>3, <1>4, PointerFacts

-----------------------------------------------------------------------------
(* Free lists *)

LEMMA LinkedFrame ==
  ASSUME NEW h, NEW g, NEW F, NEW head, Linked(h, F, head), \A o \in F : g[o] = h[o]
  PROVE  Linked(g, F, head)
BY DEF Linked, Ranked

LEMMA LinkedPush ==
  ASSUME NEW h, NEW g, NEW F, NEW head, Linked(h, F, head), 0 \notin F,
         NEW b, b \notin F, b # 0, g[b] = head, \A o \in F : g[o] = h[o]
  PROVE  Linked(g, F \cup {b}, b)
<1>1. PICK rank \in [F \cup {0} -> Nat] : Ranked(h, F, head, rank)
  BY DEF Linked
<1> DEFINE E == F \cup {b}
           s == [x \in E \cup {0} |-> IF x = b THEN rank[head] + 1 ELSE rank[x]]
<1>2. head \in F \cup {0} /\ rank[head] \in Nat
  BY <1>1 DEF Linked
<1>3. /\ s \in [E \cup {0} -> Nat] /\ s[b] = rank[head] + 1
      /\ \A x \in F \cup {0} : s[x] = rank[x] /\ s[x] \in Nat
  BY <1>2
<1> HIDE DEF s
<1>4. \A o \in F : rank[o] <= rank[head]
  BY <1>1 DEF Ranked
<1>5. s[0] = 0
  BY <1>1, <1>3 DEF Ranked
<1>6. ASSUME NEW o \in E
      PROVE  s[o] >= 1 /\ s[o] <= s[b] /\ g[o] \in E \cup {0} /\ s[g[o]] = s[o] - 1
  <2>1. CASE o = b
    BY <1>2, <1>3, <2>1
  <2>2. CASE o \in F
    BY <1>1, <1>2, <1>3, <2>2 DEF Ranked
  <2> QED
    BY <2>1, <2>2
<1>7. ASSUME NEW o \in E, NEW p \in E, s[o] = s[p] PROVE o = p
  <2>1. ASSUME NEW q \in F PROVE s[q] # s[b]
    BY <1>2, <1>3, <1>4
  <2>2. \A q, x \in F : s[q] = s[x] => q = x
    BY <1>1, <1>3 DEF Ranked
  <2> QED
    BY <1>7, <2>1, <2>2
<1>8. Ranked(g, E, b, s)
  BY <1>5, <1>6, <1>7 DEF Ranked
<1> QED
  BY <1>3, <1>8 DEF Linked

LEMMA LinkedPop ==
  ASSUME NEW h, NEW F, NEW head \in F, Linked(h, F, head), 0 \notin F
  PROVE  Linked(h, F \ {head}, h[head])
<1>1. PICK rank \in [F \cup {0} -> Nat] : Ranked(h, F, head, rank)
  BY DEF Linked
<1> DEFINE E == F \ {head}
           s == [x \in E \cup {0} |-> rank[x]]
<1>2. s \in [E \cup {0} -> Nat] /\ \A x \in E \cup {0} : s[x] = rank[x] /\ s[x] \in Nat
  OBVIOUS
<1> HIDE DEF s
<1>3. /\ rank[head] \in Nat /\ rank[head] >= 1 /\ rank[0] = 0
      /\ h[head] \in F \cup {0} /\ rank[h[head]] = rank[head] - 1
      /\ \A o \in F : /\ rank[o] \in Nat /\ rank[o] >= 1 /\ rank[o] <= rank[head]
                      /\ h[o] \in F \cup {0} /\ rank[h[o]] = rank[o] - 1
      /\ \A o, p \in F : rank[o] = rank[p] => o = p
  BY <1>1 DEF Ranked
<1>4. h[head] \in E \cup {0}
  BY <1>3
<1>5. ASSUME NEW o \in E
      PROVE  s[o] >= 1 /\ s[o] <= s[h[head]] /\ h[o] \in E \cup {0} /\ s[h[o]] = s[o] - 1
  <2>1. rank[o] # rank[head] /\ rank[o] < rank[head]
    BY <1>3
  <2>2. h[o] # head
    BY <1>3, <2>1
  <2>3. h[o] \in E \cup {0}
    BY <1>3, <2>2
  <2> QED
    BY <1>2, <1>3, <1>4, <2>1, <2>3
<1>6. Ranked(h, E, h[head], s)
  BY <1>2, <1>3, <1>5 DEF Ranked
<1> QED
  BY <1>2, <1>4, <1>6 DEF Linked

\* The element c behind p is dropped from the list.
LEMMA LinkedUnlink ==
  ASSUME NEW h, NEW g, NEW F, NEW head, Linked(h, F, head), 0 \notin F,
         NEW p \in F, NEW c \in F, h[p] = c, g[p] = h[c], \A o \in F \ {p, c} : g[o] = h[o]
  PROVE  p # c /\ Linked(g, F \ {c}, head)
<1>1. PICK rank \in [F \cup {0} -> Nat] : Ranked(h, F, head, rank)
  BY DEF Linked
<1> DEFINE E == F \ {c}
           s == [x \in E \cup {0} |-> IF rank[x] > rank[c] THEN rank[x] - 1 ELSE rank[x]]
<1>2. /\ rank[0] = 0 /\ head \in F \cup {0} /\ rank[head] \in Nat
      /\ \A o \in F : /\ rank[o] \in Nat /\ rank[o] >= 1 /\ rank[o] <= rank[head]
                      /\ h[o] \in F \cup {0} /\ rank[h[o]] = rank[o] - 1
      /\ \A o, q \in F : rank[o] = rank[q] => o = q
  BY <1>1 DEF Linked, Ranked
<1>3. rank[c] \in Nat /\ rank[c] >= 1 /\ rank[p] = rank[c] + 1 /\ p # c /\ head # c /\ head # 0
  BY <1>2
<1>4. ASSUME NEW x \in E \cup {0}
      PROVE  /\ s[x] = (IF rank[x] > rank[c] THEN rank[x] - 1 ELSE rank[x]) /\ s[x] \in Nat
             /\ rank[x] \in Nat
  BY <1>2, <1>3
<1>5. s \in [E \cup {0} -> Nat]
  BY <1>4
<1> HIDE DEF s
<1>6. ASSUME NEW o \in E
      PROVE  s[o] >= 1 /\ s[o] <= s[head] /\ g[o] \in E \cup {0} /\ s[g[o]] = s[o] - 1
  <2>1. rank[o] # rank[c] /\ o \in F /\ o # 0
    BY <1>2
  <2>2. s[o] >= 1 /\ s[o] <= s[head]
    <3>1. head \in E
      BY <1>2, <1>3
    <3> QED
      BY <1>2, <1>3, <1>4, <2>1, <3>1
  <2>3. CASE o = p
    <3>1. g[o] = h[c] /\ h[c] # c /\ h[c] \in E \cup {0} /\ rank[h[c]] = rank[c] - 1
      BY <1>2, <1>3, <2>3
    <3>2. s[g[o]] = rank[c] - 1 /\ s[o] = rank[c]
      BY <1>3, <1>4, <2>3, <3>1
    <3> QED
      BY <2>2, <3>1, <3>2
  <2>4. CASE o # p
    <3>1. g[o] = h[o] /\ h[o] \in F \cup {0} /\ rank[h[o]] = rank[o] - 1
      BY <1>2, <2>1, <2>4
    <3>2. h[o] # c
      BY <1>2, <1>3, <2>1, <2>4, <3>1
    <3>3. h[o] \in E \cup {0}
      BY <3>1, <3>2
    <3> QED
      BY <1>2, <1>3, <1>4, <2>1, <2>2, <3>1, <3>3
  <2> QED
    BY <2>3, <2>4
<1>7. ASSUME NEW o \in E, NEW q \in E, s[o] = s[q] PROVE o = q
  <2>1. o \in F /\ q \in F /\ rank[o] # rank[c] /\ rank[q] # rank[c]
    BY <1>2
  <2>2. rank[o] = rank[q]
    BY <1>3, <1>4, <1>7, <2>1
  <2> QED
    BY <1>2, <2>1, <2>2
<1>8. s[0] = 0
  BY <1>2, <1>3, <1>4
<1>9. Ranked(g, E, head, s)
  BY <1>6, <1>7, <1>8 DEF Ranked
<1>10. head \in E \cup {0}
  BY <1>2, <1>3
<1> QED
  BY <1>3, <1>5, <1>9, <1>10 DEF Linked

\* The element c behind p is replaced by d.
LEMMA LinkedReplace ==
  ASSUME NEW h, NEW g, NEW F, NEW head, Linked(h, F, head), 0 \notin F,
         NEW p \in F, NEW c \in F, h[p] = c, NEW d, d \notin F, d # 0,
         g[p] = d, g[d] = h[c], \A o \in F \ {p, c} : g[o] = h[o]
  PROVE  Linked(g, (F \ {c}) \cup {d}, head)
<1>1. PICK rank \in [F \cup {0} -> Nat] : Ranked(h, F, head, rank)
  BY DEF Linked
<1> DEFINE E == (F \ {c}) \cup {d}
           s == [x \in E \cup {0} |-> IF x = d THEN rank[c] ELSE rank[x]]
<1>2. /\ rank[0] = 0 /\ head \in F \cup {0} /\ rank[head] \in Nat
      /\ \A o \in F : /\ rank[o] \in Nat /\ rank[o] >= 1 /\ rank[o] <= rank[head]
                      /\ h[o] \in F \cup {0} /\ rank[h[o]] = rank[o] - 1
      /\ \A o, q \in F : rank[o] = rank[q] => o = q
  BY <1>1 DEF Linked, Ranked
<1>3. rank[c] \in Nat /\ rank[c] >= 1 /\ rank[p] = rank[c] + 1 /\ p # c /\ head # c /\ head # 0
  BY <1>2
<1>4. /\ s \in [E \cup {0} -> Nat] /\ s[d] = rank[c]
      /\ \A x \in (F \ {c}) \cup {0} : s[x] = rank[x] /\ s[x] \in Nat
  BY <1>2, <1>3
<1> HIDE DEF s
<1>5. ASSUME NEW o \in E
      PROVE  s[o] >= 1 /\ s[o] <= s[head] /\ g[o] \in E \cup {0} /\ s[g[o]] = s[o] - 1
  <2>1. head \in F \ {c}
    BY <1>2, <1>3
  <2>2. CASE o = d
    <3>1. g[o] = h[c] /\ h[c] # c /\ h[c] \in (F \ {c}) \cup {0} /\ rank[h[c]] = rank[c] - 1
      BY <1>2, <1>3, <2>2
    <3> QED
      BY <1>2, <1>3, <1>4, <2>1, <2>2, <3>1
  <2>3. CASE o = p
    BY <1>2, <1>3, <1>4, <2>1, <2>3
  <2>4. CASE o # d /\ o # p
    <3>1. o \in F \ {p, c} /\ g[o] = h[o] /\ h[o] \in F \cup {0} /\ rank[h[o]] = rank[o] - 1
      BY <1>2, <2>4
    <3>2. h[o] # c
      BY <1>2, <1>3, <3>1
    <3> QED
      BY <1>2, <1>4, <2>1, <3>1, <3>2
  <2> QED
    BY <2>2, <2>3, <2>4
<1>6. ASSUME NEW o \in E, NEW q \in E, s[o] = s[q] PROVE o = q
  <2>1. \A x \in F \ {c} : s[x] # rank[c]
    BY <1>2, <1>4
  <2> QED
    BY <1>2, <1>4, <1>6, <2>1
<1>7. s[0] = 0
  BY <1>2, <1>4
<1>8. Ranked(g, E, head, s)
  BY <1>5, <1>6, <1>7 DEF Ranked
<1>9. head \in E \cup {0}
  BY <1>2, <1>3
<1> QED
  BY <1>4, <1>8, <1>9 DEF Linked

\* Following the links, as chain does.
LEMMA ChainSteps ==
  ASSUME heap \in Words, NEW F \in SUBSET Addresses, zero_addr \notin F, Linked(heap, F, listHead)
  PROVE  /\ chain[0] = listHead
         /\ \A n \in 0 .. HeapWords : chain[n] \in F \cup {0}
         /\ \A n \in 0 .. HeapWords - 1 :
              chain[n + 1] = IF chain[n] \in F THEN heap[chain[n]] ELSE 0
<1> DEFINE S == F \cup {0}
           g == [v \in S |-> IF v \in F THEN heap[v] ELSE 0]
<1>1. HeapWords \in Nat /\ 0 \notin F /\ listHead \in S /\ \A v \in S : is_pointer(v) <=> v \in F
  <2>1. 0 \notin F
    BY AddressFacts
  <2>2. \A v \in S : is_pointer(v) <=> v \in F
    BY <2>1, PointerFacts, AddressFacts
  <2> QED
    BY <2>1, <2>2, HeapAssumption DEF Linked
<1>2. g \in [S -> S]
  BY DEF Linked, Ranked
<1>3. PICK f \in [0 .. HeapWords -> S] :
        f = [n \in 0 .. HeapWords |-> IF n = 0 THEN listHead ELSE g[f[n - 1]]]
  <2> HIDE DEF g, S
  <2> QED
    BY <1>1, <1>2, Iteration, SMTT(40)
<1>4. \A v \in S : g[v] = IF is_pointer(v) THEN heap[v] ELSE 0
  BY <1>1
<1>5. f = [n \in 0 .. HeapWords |->
             IF n = 0 THEN listHead
             ELSE LET v == f[n - 1] IN IF is_pointer(v) THEN heap[v] ELSE 0]
  <2> HIDE DEF g, S
  <2>1. ASSUME NEW n \in 0 .. HeapWords, n # 0 PROVE f[n - 1] \in S
    <3>1. n - 1 \in 0 .. HeapWords
      BY <1>1, <2>1
    <3> QED
      BY <3>1
  <2> QED
    BY <1>3, <1>4, <2>1
<1>6. chain = [n \in 0 .. HeapWords |->
                IF n = 0 THEN listHead
                ELSE LET v == chain[n - 1] IN IF is_pointer(v) THEN heap[v] ELSE 0]
  BY <1>5 DEF chain
<1>7. chain[0] = listHead /\ \A n \in 0 .. HeapWords - 1 :
         chain[n + 1] = IF is_pointer(chain[n]) THEN heap[chain[n]] ELSE 0
  <2> DEFINE G(f0) == [n \in 0 .. HeapWords |->
                IF n = 0 THEN listHead
                ELSE LET v == f0[n - 1] IN IF is_pointer(v) THEN heap[v] ELSE 0]
  <2>1. \A f0 : G(f0)[0] = listHead /\ \A n \in 0 .. HeapWords - 1 :
         G(f0)[n + 1] = IF is_pointer(f0[n]) THEN heap[f0[n]] ELSE 0
    <3>1. \A n \in 0 .. HeapWords - 1 : n + 1 \in 0 .. HeapWords /\ n + 1 # 0 /\ n + 1 - 1 = n
      BY <1>1
    <3> QED
      BY <1>1, <3>1
  <2>2. chain = G(chain)
    BY <1>6
  <2> HIDE DEF G
  <2> QED
    BY <2>1, <2>2
<1>8. 0 .. HeapWords \subseteq {n \in 0 .. HeapWords : chain[n] \in S}
  <2> DEFINE T == {n \in 0 .. HeapWords : chain[n] \in S}
  <2>1. 0 \in T
    BY <1>1, <1>7
  <2>2. ASSUME NEW n \in 0 .. HeapWords - 1, n \in T PROVE n + 1 \in T
    <3>1. chain[n] \in S
      BY <2>2
    <3>2. chain[n + 1] = g[chain[n]]
      BY <1>4, <1>7, <3>1
    <3>3. g[chain[n]] \in S
      BY <1>2, <3>1
    <3>4. n + 1 \in 0 .. HeapWords
      BY <1>1
    <3> QED
      BY <3>2, <3>3, <3>4
  <2> HIDE DEF T
  <2>3. 0 .. HeapWords \subseteq T
    BY <1>1, <2>1, <2>2, Induction
  <2> QED
    BY <2>3 DEF T
<1>9. ASSUME NEW n \in 0 .. HeapWords - 1
      PROVE  chain[n + 1] = IF chain[n] \in F THEN heap[chain[n]] ELSE 0
  <2>1. chain[n] \in S
    <3>1. n \in 0 .. HeapWords
      BY <1>1
    <3> QED
      BY <1>8, <3>1
  <2> QED
    BY <1>1, <1>7, <2>1
<1> QED
  BY <1>7, <1>8, <1>9

\* A list of places in the heap is no longer than the heap, so that the chain
\* comes to its end; it holds each element once.
LEMMA ChainIs ==
  ASSUME heap \in Words, NEW F \in SUBSET Addresses, zero_addr \notin F, Linked(heap, F, listHead)
  PROVE  /\ chain[HeapWords] = 0
         /\ {chain[n] : n \in 0 .. HeapWords} \ {0} = F
         /\ \A m, n \in 0 .. HeapWords : chain[m] = chain[n] /\ chain[m] # 0 => m = n
<1>1. HeapWords \in Nat /\ 0 \notin F /\ \A n \in 0 .. HeapWords : chain[n] \in F \cup {0}
  BY AddressFacts, HeapAssumption, ChainSteps
<1>2. PICK rank \in [F \cup {0} -> Nat] : Ranked(heap, F, listHead, rank)
  BY DEF Linked
<1> DEFINE N == rank[listHead]
<1>3. N \in Nat /\ rank[0] = 0
  BY <1>2 DEF Linked, Ranked
\* The rank goes down by one with each link.
<1>4. \A n \in 0 .. HeapWords : IF n <= N THEN rank[chain[n]] = N - n ELSE chain[n] = 0
  <2> DEFINE V == {n \in 0 .. HeapWords : IF n <= N THEN rank[chain[n]] = N - n ELSE chain[n] = 0}
  <2>1. 0 \in V
    BY <1>1, <1>3, ChainSteps
  <2>2. ASSUME NEW n \in 0 .. HeapWords - 1, n \in V PROVE n + 1 \in V
    <3>1. /\ n \in 0 .. HeapWords /\ n + 1 \in 0 .. HeapWords /\ chain[n] \in F \cup {0}
          /\ chain[n + 1] = IF chain[n] \in F THEN heap[chain[n]] ELSE 0
          /\ IF n <= N THEN rank[chain[n]] = N - n ELSE chain[n] = 0
      BY <1>1, <2>2, ChainSteps
    <3>2. CASE chain[n] \in F
      <4>1. n <= N /\ rank[chain[n]] = N - n /\ rank[chain[n]] >= 1
        BY <1>1, <1>2, <3>1, <3>2 DEF Ranked
      <4>2. rank[chain[n + 1]] = rank[chain[n]] - 1
        BY <1>2, <3>1, <3>2 DEF Ranked
      <4>3. n + 1 <= N /\ rank[chain[n + 1]] = N - (n + 1)
        BY <1>3, <4>1, <4>2
      <4> QED
        BY <3>1, <4>3
    <3>3. CASE chain[n] \notin F
      <4>1. chain[n] = 0 /\ chain[n + 1] = 0 /\ n >= N
        BY <1>3, <3>1, <3>3
      <4> QED
        BY <1>3, <3>1, <4>1
    <3> QED
      BY <3>2, <3>3
  <2> HIDE DEF V
  <2>3. 0 .. HeapWords \subseteq V
    BY <1>1, <2>1, <2>2, Induction
  <2> QED
    BY <2>3 DEF V
<1>5. \A n \in 0 .. HeapWords : chain[n] # 0 => n < N
  BY <1>1, <1>2, <1>3, <1>4 DEF Ranked
<1>6. \A m, n \in 0 .. HeapWords : chain[m] = chain[n] /\ chain[m] # 0 => m = n
  BY <1>1, <1>3, <1>4, <1>5
<1>7. chain[HeapWords] = 0
  <2>1. SUFFICES ASSUME chain[HeapWords] # 0 PROVE FALSE
    OBVIOUS
  <2>2. \A n \in 0 .. HeapWords : chain[n] # 0
    <3>1. ASSUME NEW n \in 0 .. HeapWords PROVE chain[n] # 0
      <4>1. HeapWords < N /\ n < N
        BY <1>1, <1>3, <1>5, <2>1
      <4> QED
        BY <1>1, <1>3, <1>4, <4>1
    <3> QED
      BY <3>1
  <2> DEFINE f == [n \in 0 .. HeapWords |-> (chain[n] - zero_addr) \div 8]
  <2>3. ASSUME NEW a \in Addresses
        PROVE  (a - zero_addr) \div 8 \in 0 .. HeapWords - 1 /\ a = zero_addr + 8 * ((a - zero_addr) \div 8)
    <3>1. PICK k \in 0 .. HeapWords - 1 : a = zero_addr + 8 * k
      BY DEF Addresses, WordBytes
    <3>2. (a - zero_addr) \div 8 = k
      BY <3>1, HeapAssumption
    <3> QED
      BY <3>1, <3>2
  <2>4. f \in [0 .. HeapWords -> 0 .. HeapWords - 1]
    BY <1>1, <2>2, <2>3
  <2>5. /\ IsFiniteSet(0 .. HeapWords) /\ IsFiniteSet(0 .. HeapWords - 1)
        /\ Cardinality(0 .. HeapWords - 1) < Cardinality(0 .. HeapWords)
    <3>1. 0 \in Int /\ HeapWords \in Int /\ HeapWords - 1 \in Int
      BY <1>1
    <3>2. /\ IsFiniteSet(0 .. HeapWords)
          /\ Cardinality(0 .. HeapWords) = IF 0 > HeapWords THEN 0 ELSE HeapWords - 0 + 1
      BY <3>1, FS_Interval
    <3>3. /\ IsFiniteSet(0 .. HeapWords - 1)
          /\ Cardinality(0 .. HeapWords - 1) = IF 0 > HeapWords - 1 THEN 0 ELSE HeapWords - 1 - 0 + 1
      BY <3>1, FS_Interval
    <3> QED
      BY <1>1, <3>2, <3>3
  <2>6. PICK m \in 0 .. HeapWords, n \in 0 .. HeapWords : m # n /\ f[m] = f[n]
    <3> HIDE DEF f
    <3> QED
      BY <2>4, <2>5, FS_PigeonHole
  <2>7. chain[m] = chain[n]
    <3>1. chain[m] \in Addresses /\ chain[n] \in Addresses
      BY <1>1, <2>2
    <3>2. (chain[m] - zero_addr) \div 8 = (chain[n] - zero_addr) \div 8
      BY <2>6
    <3> QED
      BY <2>3, <3>1, <3>2
  <2> QED
    BY <1>6, <2>2, <2>6, <2>7
<1>8. \A o \in F : \E n \in 0 .. HeapWords : chain[n] = o
  <2>1. ASSUME NEW o \in F PROVE \E n \in 0 .. HeapWords : chain[n] = o
    <3>1. rank[o] \in Nat /\ rank[o] >= 1 /\ rank[o] <= N
      BY <1>2 DEF Ranked
    <3>2. N <= HeapWords
      <4>1. HeapWords <= N => rank[chain[HeapWords]] = N - HeapWords
        BY <1>1, <1>4
      <4> QED
        BY <1>1, <1>3, <1>7, <4>1
    <3>3. N - rank[o] \in 0 .. HeapWords /\ N - rank[o] <= N /\ N - (N - rank[o]) = rank[o]
      BY <1>1, <1>3, <3>1, <3>2
    <3>4. rank[chain[N - rank[o]]] = rank[o]
      BY <1>4, <3>3
    <3>5. chain[N - rank[o]] \in F
      BY <1>1, <1>3, <3>1, <3>3, <3>4
    <3>6. chain[N - rank[o]] = o
      BY <1>2, <3>4, <3>5 DEF Ranked
    <3> QED
      BY <3>3, <3>6
  <2> QED
    BY <2>1
<1> QED
  BY <1>1, <1>6, <1>7, <1>8

-----------------------------------------------------------------------------
(* What a program can reach *)

LEMMA FiniteHeap == IsFiniteSet(Addresses) /\ Cardinality(Addresses) <= HeapWords
<1>1. HeapWords \in Nat /\ HeapWords >= 2
  BY HeapAssumption
<1> DEFINE T == 0 .. HeapWords - 1
           f == [a \in Addresses |-> (a - zero_addr) \div 8]
<1>2. ASSUME NEW a \in Addresses
      PROVE  (a - zero_addr) \div 8 \in T /\ a = zero_addr + 8 * ((a - zero_addr) \div 8)
  <2>1. PICK k \in 0 .. HeapWords - 1 : a = zero_addr + 8 * k
    BY DEF Addresses, WordBytes
  <2>2. (a - zero_addr) \div 8 = k
    BY <2>1, HeapAssumption
  <2> QED
    BY <2>1, <2>2
<1>3. f \in [Addresses -> T]
  BY <1>2
<1>4. \A a, b \in Addresses : f[a] = f[b] => a = b
  BY <1>2
<1>5. f \in Injection(Addresses, T)
  BY <1>3, <1>4 DEF Injection, IsInjective
<1>6. IsFiniteSet(T) /\ Cardinality(T) = HeapWords
  <2>1. 0 \in Int /\ HeapWords - 1 \in Int
    BY <1>1
  <2>2. IsFiniteSet(T) /\ Cardinality(T) = IF 0 > HeapWords - 1 THEN 0 ELSE HeapWords - 1 - 0 + 1
    BY <2>1, FS_Interval
  <2> QED
    BY <1>1, <2>2
<1> HIDE DEF f, T
<1>7. IsFiniteSet(Addresses) /\ Cardinality(Addresses) <= Cardinality(T)
  BY <1>5, <1>6, FS_Injection
<1> QED
  BY <1>6, <1>7

\* A set that grows within A, or no longer, is full after as many steps as A has
\* elements.
Grows(g, A) == g \in [SUBSET A -> SUBSET A] /\ \A R \in SUBSET A : R \subseteq g[R]

LEMMA Saturated ==
  ASSUME NEW A, IsFiniteSet(A), NEW N \in Nat, Cardinality(A) <= N,
         NEW g, Grows(g, A), NEW x, NEW f, Iterates(f, SUBSET A, x, g, N)
  PROVE  g[f[N]] = f[N]
<1> DEFINE T == {n \in 0 .. N : g[f[n]] = f[n] \/ Cardinality(f[n]) >= n}
<1>0. /\ g \in [SUBSET A -> SUBSET A] /\ \A R \in SUBSET A : R \subseteq g[R]
      /\ f \in [0 .. N -> SUBSET A] /\ \A n \in 1 .. N : f[n] = g[f[n - 1]]
  BY DEF Grows, Iterates
<1>1. \A R \in SUBSET A : IsFiniteSet(R) /\ Cardinality(R) \in Nat /\ Cardinality(R) <= Cardinality(A)
  BY FS_Subset, FS_CardinalityType
<1>2. 0 \in T
  BY <1>0, <1>1
<1>3. ASSUME NEW n \in 0 .. N - 1, n \in T PROVE n + 1 \in T
  <2>1. n + 1 \in 0 .. N /\ n \in 0 .. N /\ f[n + 1] = g[f[n]] /\ f[n] \in SUBSET A /\ f[n + 1] \in SUBSET A
    BY <1>0
  <2>2. CASE g[f[n]] = f[n]
    BY <2>1, <2>2
  <2>3. CASE g[f[n]] # f[n] /\ Cardinality(f[n]) >= n
    <3>1. f[n] \in SUBSET f[n + 1] /\ f[n] # f[n + 1]
      BY <1>0, <2>1, <2>3
    <3>2. Cardinality(f[n]) <= Cardinality(f[n + 1]) /\ Cardinality(f[n]) # Cardinality(f[n + 1])
      BY <1>1, <2>1, <3>1, FS_Subset
    <3>3. Cardinality(f[n + 1]) >= n + 1
      BY <1>1, <2>1, <2>3, <3>2
    <3> QED
      BY <2>1, <3>3
  <2> QED
    BY <1>3, <2>2, <2>3
<1> HIDE DEF T
<1>4. 0 .. N \subseteq T
  BY <1>2, <1>3, Induction
<1>5. N \in T /\ f[N] \in SUBSET A
  BY <1>0, <1>4
<1>6. CASE Cardinality(f[N]) >= N
  <2>1. Cardinality(A) = Cardinality(f[N]) /\ f[N] \in SUBSET A
    BY <1>1, <1>5, <1>6, FS_CardinalityType
  <2>2. f[N] = A
    BY <2>1, FS_Subset
  <2> QED
    BY <1>0, <1>5, <2>2
<1> QED
  BY <1>5, <1>6 DEF T

\* What reachedFrom computes: the least set that has what the roots lead to and
\* what its objects lead to.
LEMMA ReachSteps ==
  ASSUME NEW h \in Words, NEW rs \in [Roots -> Nat]
  PROVE  /\ reachedFrom(h, rs) \in [0 .. HeapWords -> SUBSET Addresses]
         /\ reachedFrom(h, rs)[0] = {v \in {rs[r] : r \in Roots} : is_pointer(v)}
         /\ \A n \in 0 .. HeapWords - 1 :
              reachedFrom(h, rs)[n + 1] =
                reachedFrom(h, rs)[n] \cup UNION {pointees(h, o) : o \in reachedFrom(h, rs)[n]}
<1> DEFINE S == SUBSET Addresses
           x == {v \in {rs[r] : r \in Roots} : is_pointer(v)}
           Grown(R) == R \cup UNION {pointees(h, o) : o \in R}
           g == [R \in S |-> Grown(R)]
           F(f0) == [n \in 0 .. HeapWords |-> IF n = 0 THEN x ELSE Grown(f0[n - 1])]
<1>1. HeapWords \in Nat
  BY HeapAssumption
<1>2. x \in S
  BY PointerFacts
<1>3. \A o : pointees(h, o) \in SUBSET Addresses
  BY PointerFacts DEF pointees, Words
<1>4. g \in [S -> S]
  BY <1>3
<1>5. PICK f : f \in [0 .. HeapWords -> S] /\ f[0] = x /\ \A k \in 1 .. HeapWords : f[k] = g[f[k - 1]]
  <2> HIDE DEF g, S, x
  <2>1. PICK f : Iterates(f, S, x, g, HeapWords)
    BY <1>1, <1>2, <1>4, IteratesExist, Zenon
  <2> QED
    BY <2>1 DEF Iterates
<1>6. f = F(f)
  <2>1. ASSUME NEW n \in 0 .. HeapWords, n # 0 PROVE f[n] = Grown(f[n - 1])
    <3>1. n - 1 \in 0 .. HeapWords /\ n \in 1 .. HeapWords
      BY <1>1, <2>1
    <3> HIDE DEF Grown
    <3> QED
      BY <1>5, <3>1
  <2> HIDE DEF g, S, x, Grown
  <2> QED
    BY <1>5, <2>1
<1>7. reachedFrom(h, rs) = F(reachedFrom(h, rs))
  BY <1>6 DEF reachedFrom
<1>8. \A f0 : F(f0)[0] = x /\ \A n \in 0 .. HeapWords - 1 : F(f0)[n + 1] = Grown(f0[n])
  <2>1. \A n \in 0 .. HeapWords - 1 : n + 1 \in 0 .. HeapWords /\ n + 1 # 0 /\ n + 1 - 1 = n
    BY <1>1
  <2> HIDE DEF x, Grown
  <2> QED
    BY <1>1, <2>1
<1> DEFINE f1 == reachedFrom(h, rs)
<1>9. f1[0] = x /\ \A n \in 0 .. HeapWords - 1 : f1[n + 1] = Grown(f1[n])
  <2> HIDE DEF F, f1, x, Grown
  <2> QED
    BY <1>7, <1>8 DEF f1
<1>10. 0 .. HeapWords \subseteq {n \in 0 .. HeapWords : f1[n] \in S}
  <2> DEFINE T == {n \in 0 .. HeapWords : f1[n] \in S}
  <2>1. 0 \in T
    BY <1>1, <1>2, <1>9
  <2>2. ASSUME NEW n \in 0 .. HeapWords - 1, n \in T PROVE n + 1 \in T
    <3>1. n + 1 \in 0 .. HeapWords /\ f1[n + 1] = Grown(f1[n]) /\ f1[n] \in S
      BY <1>1, <1>9, <2>2
    <3>2. g[f1[n]] = Grown(f1[n]) /\ g[f1[n]] \in S
      BY <1>4, <3>1
    <3> QED
      BY <3>1, <3>2
  <2> HIDE DEF T
  <2>3. 0 .. HeapWords \subseteq T
    BY <1>1, <2>1, <2>2, Induction
  <2> QED
    BY <2>3 DEF T
<1>11. f1 \in [0 .. HeapWords -> S]
  <2>1. \A f0 : F(f0) = [n \in 0 .. HeapWords |-> F(f0)[n]]
    OBVIOUS
  <2> HIDE DEF F, S
  <2> QED
    BY <1>7, <1>10, <2>1
<1> QED
  BY <1>9, <1>11

LEMMA Reach ==
  ASSUME NEW h \in Words, NEW rs \in [Roots -> Nat]
  PROVE  LET R == reachedFrom(h, rs)[HeapWords]
         IN  /\ R \in SUBSET Addresses /\ \A o \in R : is_pointer(o)
             /\ \A r \in Roots : is_pointer(rs[r]) => rs[r] \in R
             /\ \A o \in R : pointees(h, o) \subseteq R
             /\ \A T : /\ \A r \in Roots : is_pointer(rs[r]) => rs[r] \in T
                       /\ \A o \in T : pointees(h, o) \subseteq T
                       => R \subseteq T
<1> DEFINE f == reachedFrom(h, rs)
           R == f[HeapWords]
           A == {a \in Addresses : is_pointer(a)}
           g == [S \in SUBSET Addresses |-> S \cup UNION {pointees(h, o) : o \in S}]
<1>1. /\ HeapWords \in Nat /\ IsFiniteSet(Addresses) /\ Cardinality(Addresses) <= HeapWords
      /\ \A o : pointees(h, o) \in SUBSET Addresses /\ \A v \in pointees(h, o) : is_pointer(v)
  BY HeapAssumption, FiniteHeap, PointerFacts DEF pointees, Words
<1>2. /\ f \in [0 .. HeapWords -> SUBSET Addresses]
      /\ f[0] = {v \in {rs[r] : r \in Roots} : is_pointer(v)}
      /\ \A n \in 0 .. HeapWords - 1 : f[n + 1] = f[n] \cup UNION {pointees(h, o) : o \in f[n]}
  BY ReachSteps
<1> HIDE DEF f
<1>3. R \in SUBSET Addresses
  BY <1>1, <1>2
<1>4. \A o \in R : pointees(h, o) \subseteq R
  <2>1. Grows(g, Addresses)
    BY <1>1 DEF Grows
  <2>2. \A n \in 1 .. HeapWords : f[n] = g[f[n - 1]]
    <3>1. ASSUME NEW n \in 1 .. HeapWords PROVE f[n] = g[f[n - 1]]
      <4>1. n - 1 \in 0 .. HeapWords - 1 /\ n - 1 + 1 = n /\ f[n - 1] \in SUBSET Addresses
        BY <1>1, <1>2
      <4> QED
        BY <1>2, <4>1
    <3> QED
      BY <3>1
  <2>3. g[f[HeapWords]] = f[HeapWords]
    <3> HIDE DEF g
    <3>1. Iterates(f, SUBSET Addresses, f[0], g, HeapWords)
      BY <1>2, <2>2 DEF Iterates
    <3> QED
      BY <1>1, <2>1, <3>1, Saturated
  <2> QED
    BY <1>3, <2>3
<1>5. ASSUME NEW T, \A r \in Roots : is_pointer(rs[r]) => rs[r] \in T,
             \A o \in T : pointees(h, o) \subseteq T
      PROVE  R \subseteq T
  <2> DEFINE V == {n \in 0 .. HeapWords : f[n] \subseteq T}
  <2>1. 0 \in V
    BY <1>1, <1>2, <1>5
  <2>2. ASSUME NEW n \in 0 .. HeapWords - 1, n \in V PROVE n + 1 \in V
    <3>1. n + 1 \in 0 .. HeapWords
      BY <1>1
    <3>2. f[n + 1] = f[n] \cup UNION {pointees(h, o) : o \in f[n]} /\ f[n] \subseteq T
      BY <1>2, <2>2
    <3>3. f[n + 1] \subseteq T
      BY <1>5, <3>2
    <3> QED
      BY <3>1, <3>3
  <2> HIDE DEF V
  <2>3. 0 .. HeapWords \subseteq V
    BY <1>1, <2>1, <2>2, Induction
  <2> QED
    BY <1>1, <2>3 DEF V
<1>6. \A r \in Roots : is_pointer(rs[r]) => rs[r] \in R
  <2> DEFINE V == {n \in 0 .. HeapWords : f[0] \subseteq f[n]}
  <2>1. 0 \in V
    BY <1>1
  <2>2. ASSUME NEW n \in 0 .. HeapWords - 1, n \in V PROVE n + 1 \in V
    <3>1. n + 1 \in 0 .. HeapWords
      BY <1>1
    <3>2. f[n] \subseteq f[n + 1]
      BY <1>2
    <3> QED
      BY <2>2, <3>1, <3>2
  <2> HIDE DEF V
  <2>3. 0 .. HeapWords \subseteq V
    BY <1>1, <2>1, <2>2, Induction
  <2>4. f[0] \subseteq R
    BY <1>1, <2>3 DEF V
  <2> QED
    BY <1>2, <2>4
<1>7. \A o \in R : is_pointer(o)
  <2>1. R \subseteq A
    <3>1. \A r \in Roots : is_pointer(rs[r]) => rs[r] \in A
      BY PointerFacts
    <3>2. \A o \in A : pointees(h, o) \subseteq A
      BY <1>1
    <3> HIDE DEF A, R
    <3> QED
      BY <1>5, <3>1, <3>2
  <2> QED
    BY <2>1
<1> QED
  BY <1>3, <1>4, <1>5, <1>6, <1>7 DEF f

\* Nothing becomes reachable or unreachable if the reachable objects hold what
\* they held.
LEMMA ReachFrame ==
  ASSUME NEW h \in Words, NEW g \in Words, NEW rs \in [Roots -> Nat],
         \A o \in reachedFrom(h, rs)[HeapWords] : pointees(g, o) = pointees(h, o)
  PROVE  reachedFrom(g, rs)[HeapWords] = reachedFrom(h, rs)[HeapWords]
<1> DEFINE R == reachedFrom(h, rs)[HeapWords]
           S == reachedFrom(g, rs)[HeapWords]
<1>1. /\ \A r \in Roots : is_pointer(rs[r]) => rs[r] \in R
      /\ \A o \in R : pointees(h, o) \subseteq R
      /\ \A T : /\ \A r \in Roots : is_pointer(rs[r]) => rs[r] \in T
                /\ \A o \in T : pointees(h, o) \subseteq T
                => R \subseteq T
  BY Reach
<1>2. /\ \A r \in Roots : is_pointer(rs[r]) => rs[r] \in S
      /\ \A o \in S : pointees(g, o) \subseteq S
      /\ \A T : /\ \A r \in Roots : is_pointer(rs[r]) => rs[r] \in T
                /\ \A o \in T : pointees(g, o) \subseteq T
                => S \subseteq T
  BY Reach
<1> HIDE DEF R, S
<1>3. S \subseteq R
  BY <1>1, <1>2 DEF R
<1>4. R \subseteq S
  BY <1>1, <1>2, <1>3 DEF R
<1> QED
  BY <1>3, <1>4 DEF R, S

-----------------------------------------------------------------------------
(* A heap in which only colours changed *)

SameShape(h, g, B) == \A b \in B : getWosize(g[b]) = getWosize(h[b]) /\ getTag(g[b]) = getTag(h[b])
SameFields(h, g, B) == \A x \in Addresses \ B : g[x] = h[x]

LEMMA FreeFacts ==
  ASSUME NEW h \in Words, NEW B, Tiled(h, B, zero_addr, heap_size), Sized(h, B)
  PROVE  /\ FreeOf(h, B) \in SUBSET (Addresses \ B) /\ zero_addr \notin FreeOf(h, B) /\ 0 \notin FreeOf(h, B)
         /\ \A o \in FreeOf(h, B) : /\ hd_address(o) \in B /\ f_address(hd_address(o)) = o
                                    /\ getColor(h[hd_address(o)]) = Blue
         /\ \A b \in B : f_address(b) \in FreeOf(h, B) <=> getColor(h[b]) = Blue
<1>1. \A b \in B : /\ f_address(b) \in Addresses \ B /\ f_address(b) # zero_addr /\ f_address(b) # 0
                   /\ hd_address(f_address(b)) = b
  BY FirstField
<1> QED
  BY <1>1 DEF FreeOf

LEMMA GrayFacts ==
  ASSUME NEW h \in Words, NEW B, Tiled(h, B, zero_addr, heap_size), Sized(h, B)
  PROVE  /\ GrayOf(h, B) \in SUBSET (Addresses \ B)
         /\ \A o \in GrayOf(h, B) : /\ hd_address(o) \in B /\ f_address(hd_address(o)) = o
                                    /\ getColor(h[hd_address(o)]) = Gray
         /\ \A b \in B : f_address(b) \in GrayOf(h, B) <=> getColor(h[b]) = Gray
<1>1. \A b \in B : /\ f_address(b) \in Addresses \ B
                   /\ hd_address(f_address(b)) = b
  BY FirstField
<1> QED
  BY <1>1 DEF GrayOf

LEMMA ShapeFrame ==
  ASSUME NEW h \in Words, NEW g \in Words, NEW B, Tiled(h, B, zero_addr, heap_size), Sized(h, B),
         SameShape(h, g, B)
  PROVE  /\ Tiled(g, B, zero_addr, heap_size) /\ Sized(g, B)
         /\ HeadersOf(g) = B /\ HeadersOf(h) = B
<1>1. Tiled(g, B, zero_addr, heap_size)
  BY TiledFrame DEF SameShape
<1>2. Sized(g, B)
  BY DEF Sized, SameShape
<1> QED
  BY <1>1, <1>2, WalkIs

LEMMA ClosedFrame ==
  ASSUME NEW h \in Words, NEW g, NEW B, Tiled(h, B, zero_addr, heap_size),
         SameShape(h, g, B), SameFields(h, g, B), NEW V \in SUBSET B, NEW R, Closed(h, V, R)
  PROVE  Closed(g, V, R)
<1> SUFFICES ASSUME NEW a \in V, Scannable(g, a), NEW k \in 1 .. getWosize(g[a])
             PROVE  Leads(g[FieldAt(a, k)], R)
  BY DEF Closed
<1>1. a \in B /\ Scannable(h, a) /\ k \in 1 .. getWosize(h[a])
  BY DEF SameShape, Scannable
<1>2. FieldAt(a, k) \in Addresses \ B
  BY <1>1, Places
<1> QED
  BY <1>1, <1>2 DEF Closed, SameFields

\* A header in another colour.
LEMMA Repainted ==
  ASSUME NEW h \in Words, NEW a \in Addresses, NEW c \in 0 .. 3
  PROVE  /\ makeHeader(getWosize(h[a]), c, getTag(h[a])) \in Nat
         /\ getWosize(makeHeader(getWosize(h[a]), c, getTag(h[a]))) = getWosize(h[a])
         /\ getColor(makeHeader(getWosize(h[a]), c, getTag(h[a]))) = c
         /\ getTag(makeHeader(getWosize(h[a]), c, getTag(h[a]))) = getTag(h[a])
<1>1. h[a] \in Nat
  BY DEF Words
<1>2. getWosize(h[a]) \in Nat /\ getTag(h[a]) \in 0 .. 255
  BY <1>1, HeaderType
<1> QED
  BY <1>2, HeaderParts, ZenonT(60)

LEMMA Painted ==
  ASSUME NEW h \in Words, NEW B, Tiled(h, B, zero_addr, heap_size),
         NEW a \in B, NEW g \in Words,
         getWosize(g[a]) = getWosize(h[a]), getTag(g[a]) = getTag(h[a]),
         \A x \in Addresses : x # a => g[x] = h[x]
  PROVE  /\ SameShape(h, g, B) /\ SameFields(h, g, B)
         /\ \A b \in B : b # a => getColor(g[b]) = getColor(h[b])
<1>1. a \in Addresses /\ B \subseteq Addresses
  BY DEF Tiled
<1> QED
  BY <1>1 DEF SameShape, SameFields

-----------------------------------------------------------------------------
(* The invariant holds at first, and in steps that leave the heap alone *)

LEMMA Basics ==
  ASSUME IInv
  PROVE  /\ heap \in Words /\ Headers \subseteq Addresses
         /\ Tiled(heap, Headers, zero_addr, heap_size) /\ Sized(heap, Headers)
         /\ Survivors \subseteq Headers
         /\ pc # "sweep" => Survivors = Used(heap, Headers)
<1>1. heap \in Words /\ Tiled(heap, Headers, zero_addr, heap_size) /\ Sized(heap, Headers)
  BY DEF IInv, StateType, HeapShape
<1>2. \A a \in Headers : a < heap_size
  BY <1>1 DEF Tiled
<1> QED
  BY <1>1, <1>2 DEF Tiled, Survivors, sweptTo, Kept, Used

LEMMA SameHeap ==
  ASSUME IInv, heap' = heap
  PROVE  /\ Headers' = Headers /\ heap' \in Words /\ HeapShape'
         /\ Tiled(heap', Headers', zero_addr, heap_size)
         /\ pc # "sweep" /\ pc' # "sweep" => Survivors' = Survivors
<1>1. heap \in Words /\ Tiled(heap, Headers, zero_addr, heap_size) /\ Sized(heap, Headers)
  BY Basics
<1>2. Headers' = Headers
  BY DEF Headers
<1>3. HeapShape'
  BY <1>1, <1>2 DEF HeapShape
<1>4. pc # "sweep" /\ pc' # "sweep" => Survivors' = Survivors
  BY <1>2 DEF Survivors, sweptTo
<1> QED
  BY <1>1, <1>2, <1>3, <1>4

LEMMA SamePointers ==
  ASSUME IInv, heap' = heap, roots' = roots, pc # "sweep", pc' # "sweep"
  PROVE  PointersInv'
<1>1. Survivors' = Survivors
  BY SameHeap
<1> QED
  BY <1>1 DEF IInv, PointersInv

LEMMA StutterInv == IInv /\ UNCHANGED vars => IInv'
BY DEF IInv, StateType, CallInv, HeapShape, ListInv, SearchInv, PointersInv, ColourInv, RootsDarkened,
       TriColor, ScanInv, StackInv, SweepInv, Marking, Survivors, sweptTo, listHead, Headers,
       colorOf, wosizeOf, read_word,
       vars, searchVars, stackVars, sweepVars

LEMMA InitInv == Init => IInv
<1> SUFFICES ASSUME Init PROVE IInv
  OBVIOUS
<1> DEFINE o == zero_addr + 8
<1>1. /\ zero_addr \in Nat /\ HeapWords \in Nat /\ HeapWords >= 2 /\ zero_addr \in Addresses
      /\ heap_size = zero_addr + 8 * HeapWords /\ o # 0
  BY HeapAssumption, AddressFacts DEF heap_size, WordBytes
<1>2. o \in Addresses /\ o # zero_addr
  <2>1. zero_addr + 8 * 1 \in Addresses
    BY <1>1, Shifted
  <2> QED
    BY <1>1, <2>1
<1>3. /\ heap[zero_addr] = makeHeader(HeapWords - 1, Blue, 0) /\ heap[o] = 0
      /\ getWosize(heap[zero_addr]) = HeapWords - 1 /\ getColor(heap[zero_addr]) = Blue
      /\ heap \in Words
  <2>1. HeapWords - 1 \in Nat /\ Blue \in 0 .. 3 /\ 0 \in 0 .. 255
    BY <1>1 DEF Blue
  <2> DEFINE m == makeHeader(HeapWords - 1, Blue, 0)
  <2>2. m \in Nat /\ getWosize(m) = HeapWords - 1 /\ getColor(m) = Blue
    BY <2>1, HeaderParts, ZenonT(60)
  <2>3. heap = [a \in Addresses |-> IF a = zero_addr THEN m ELSE 0]
    BY DEF Init
  <2> HIDE DEF m
  <2>4. heap \in Words
    BY <2>2, <2>3 DEF Words
  <2>5. heap[zero_addr] = m /\ heap[o] = 0
    BY <1>1, <1>2, <2>3
  <2> QED
    BY <2>2, <2>4, <2>5 DEF m
<1>4. Tiled(heap, {zero_addr}, zero_addr, heap_size)
  <2>1. nextHeader(heap, zero_addr) = heap_size
    BY <1>1, <1>3, Sizes
  <2> QED
    BY <1>1, <2>1 DEF Tiled
<1>5. Headers = {zero_addr}
  BY <1>3, <1>4, WalkIs DEF Headers
<1>6. HeapShape
  BY <1>1, <1>3, <1>4, <1>5 DEF HeapShape, Sized
<1>7. FreeOf(heap, Headers) = {o}
  BY <1>1, <1>3, <1>5 DEF FreeOf, f_address, WordBytes
<1>8. ListInv
  <2> DEFINE rank == [x \in {o} \cup {0} |-> IF x = 0 THEN 0 ELSE 1]
  <2>1. rank \in [{o} \cup {0} -> Nat] /\ rank[0] = 0 /\ rank[o] = 1
    BY <1>1
  <2> HIDE DEF rank
  <2>2. Ranked(heap, {o}, o, rank)
    BY <1>3, <2>1 DEF Ranked
  <2>3. listHead = o
    BY DEF Init, listHead, WordBytes
  <2> QED
    BY <1>7, <2>1, <2>2, <2>3 DEF ListInv, Linked
<1>9. Survivors = {}
  BY <1>3, <1>5 DEF Survivors, Kept, Used
<1>10. PointersInv
  BY <1>9, PointerFacts DEF Init, PointersInv, RootsLead, Leads, Closed
<1>11. ColourInv
  BY <1>3, <1>5 DEF Init, ColourInv, colorOf, read_word
<1>12. StateType
  <2>1. gray_cap \in Nat
    BY StackAssumption
  <2>2. roots \in [Roots -> Nat] /\ storage \in [0 .. gray_cap - 1 -> Nat]
    BY DEF Init, Val_unit
  <2>3. pc \in Phases /\ top \in Int /\ top <= gray_cap /\ i \in Nat
    BY <2>1 DEF Init, Phases
  <2>4. retried \in BOOLEAN
    BY DEF Init
  <2> QED
    BY <1>3, <2>2, <2>3, <2>4 DEF StateType
<1> QED
  BY <1>6, <1>8, <1>10, <1>11, <1>12
     DEF Init, IInv, CallInv, SearchInv, RootsDarkened, TriColor, ScanInv, StackInv, SweepInv, Marking

LEMMA ForgetInv ==
  ASSUME IInv, Forget
  PROVE  IInv'
<1>1. /\ pc = "mutator" /\ pc' = "mutator" /\ heap' = heap
      /\ UNCHANGED <<free_head, searchVars, stackVars, h_addr, i, sweepVars>>
  BY DEF Forget
<1>2. PICK r \in Roots : roots' = [roots EXCEPT ![r] = Val_unit]
  BY DEF Forget
<1>3. HeapShape' /\ Headers' = Headers /\ Survivors' = Survivors /\ heap' \in Words
  BY <1>1, SameHeap
<1>4. StateType'
  BY <1>1, <1>2, <1>3 DEF IInv, StateType, Val_unit, searchVars, stackVars
<1>5. ListInv'
  BY <1>1, <1>3 DEF IInv, ListInv, listHead
<1>6. PointersInv'
  <2>1. \A s \in Roots : roots'[s] = roots[s] \/ roots'[s] = Val_unit
    BY <1>2 DEF IInv, StateType
  <2> QED
    BY <1>1, <1>3, <2>1, PointerFacts DEF IInv, PointersInv, RootsLead, Leads
<1>7. ColourInv'
  BY <1>1, <1>3 DEF IInv, ColourInv, colorOf, read_word
<1> QED
  BY <1>1, <1>3, <1>4, <1>5, <1>6, <1>7
     DEF IInv, CallInv, SearchInv, RootsDarkened, TriColor, ScanInv, StackInv, SweepInv, Marking, searchVars

LEMMA RequestInv ==
  ASSUME IInv, Request
  PROVE  IInv'
<1>1. /\ pc = "mutator" /\ pc' = "search" /\ heap' = heap /\ roots' = roots /\ retried' = FALSE
      /\ prev_val_addr' = 0 /\ cur_val_addr' = free_head
      /\ UNCHANGED <<free_head, stackVars, h_addr, i, sweepVars>>
  BY DEF Request, StartSearch
<1>2. IsRequest(req')
  <2>1. PICK q \in Requests, r \in Roots : req' = [wz |-> q.wz, tag |-> q.tag, root |-> r]
    BY DEF Request
  <2>2. q \in [wz : Nat, tag : 0 .. 255]
    BY RequestAssumption
  <2>3. q.wz \in Nat /\ q.tag \in 0 .. 255 /\ q = [wz |-> q.wz, tag |-> q.tag]
    BY <2>2
  <2>4. req'.wz = q.wz /\ req'.tag = q.tag /\ req'.root = r
    BY <2>1
  <2> QED
    BY <2>3, <2>4 DEF IsRequest
<1>3. HeapShape' /\ Headers' = Headers /\ heap' \in Words
  BY <1>1, SameHeap
<1>4. StateType'
  BY <1>1, <1>3 DEF IInv, StateType, Phases, stackVars
<1>5. CallInv'
  BY <1>1, <1>2 DEF CallInv
<1>6. ListInv'
  BY <1>1, <1>3 DEF IInv, ListInv, listHead
<1>7. SearchInv'
  BY <1>1, <1>3 DEF IInv, SearchInv, ListInv, Linked, listHead
<1>8. PointersInv'
  BY <1>1, SamePointers
<1>9. ColourInv'
  BY <1>1, <1>3 DEF IInv, ColourInv, colorOf, read_word
<1> QED
  BY <1>1, <1>3, <1>4, <1>5, <1>6, <1>7, <1>8, <1>9
     DEF IInv, RootsDarkened, TriColor, ScanInv, StackInv, SweepInv, Marking

LEMMA AtFreeBlock ==
  ASSUME IInv, searching
  PROVE  /\ cur_val_addr \in FreeOf(heap, Headers) /\ cur_val_addr # 0 /\ hdr_addr \in Headers
         /\ colorOf(hdr_addr) = Blue /\ f_address(hdr_addr) = cur_val_addr
         /\ hdr_addr = hd_address(cur_val_addr)
<1>1. pc = "search" /\ cur_val_addr \in FreeOf(heap, Headers) \cup {0} /\ hdr_addr \in Addresses
  BY DEF IInv, SearchInv, searching
<1>2. cur_val_addr # 0
  BY <1>1, AddressFacts DEF hdr_addr, WordBytes
<1> QED
  BY <1>1, <1>2, Basics, FreeFacts DEF hdr_addr, hd_address, colorOf, read_word

LEMMA NextBlockInv ==
  ASSUME IInv, NextBlock
  PROVE  IInv'
<1>1. /\ pc = "search" /\ pc' = "search" /\ heap' = heap /\ roots' = roots
      /\ prev_val_addr' = cur_val_addr /\ cur_val_addr' = heap[cur_val_addr]
      /\ UNCHANGED <<free_head, req, retried, stackVars, h_addr, i, sweepVars>>
  BY DEF NextBlock, searching, read_word
<1>2. cur_val_addr \in FreeOf(heap, Headers)
  BY AtFreeBlock DEF NextBlock
<1>3. HeapShape' /\ Headers' = Headers /\ heap' \in Words
  BY <1>1, SameHeap
<1>4. StateType'
  BY <1>1, <1>3 DEF IInv, StateType, stackVars
<1>5. CallInv'
  BY <1>1 DEF IInv, CallInv
<1>6. ListInv'
  BY <1>1, <1>3 DEF IInv, ListInv, listHead
<1>7. SearchInv'
  <2>1. heap[cur_val_addr] \in FreeOf(heap, Headers) \cup {0}
    BY <1>2 DEF IInv, ListInv, Linked, Ranked
  <2> QED
    BY <1>1, <1>2, <1>3, <2>1 DEF SearchInv
<1>8. PointersInv'
  BY <1>1, SamePointers
<1>9. ColourInv'
  BY <1>1, <1>3 DEF IInv, ColourInv, colorOf, read_word
<1> QED
  BY <1>1, <1>3, <1>4, <1>5, <1>6, <1>7, <1>8, <1>9
     DEF IInv, RootsDarkened, TriColor, ScanInv, StackInv, SweepInv, Marking

LEMMA OutOfMemoryInv ==
  ASSUME IInv, OutOfMemory
  PROVE  IInv'
<1>1. /\ pc = "search" /\ pc' = "fatal" /\ heap' = heap /\ roots' = roots
      /\ UNCHANGED <<free_head, searchVars, stackVars, h_addr, i, sweepVars>>
  BY DEF OutOfMemory, noBlock
<1>2. HeapShape' /\ Headers' = Headers /\ heap' \in Words
  BY <1>1, SameHeap
<1>3. StateType'
  BY <1>1, <1>2 DEF IInv, StateType, Phases, stackVars, searchVars
<1>4. ListInv'
  BY <1>1, <1>2 DEF IInv, ListInv, listHead
<1>5. PointersInv'
  BY <1>1, SamePointers
<1>6. ColourInv'
  BY <1>1, <1>2 DEF IInv, ColourInv, colorOf, read_word
<1>7. CallInv'
  BY <1>1 DEF IInv, CallInv, searchVars
<1> QED
  BY <1>1, <1>2, <1>3, <1>4, <1>5, <1>6, <1>7
     DEF IInv, SearchInv, RootsDarkened, TriColor, ScanInv, StackInv, SweepInv, Marking

\* A collection starts with an empty stack, and there is nothing gray.
LEMMA CollectInv ==
  ASSUME IInv, pc \in {"mutator", "search"}, verified_gc(gray_cap), retried' \in BOOLEAN
  PROVE  IInv'
<1>1. /\ pc' = "roots" /\ heap' = heap /\ roots' = roots /\ top' = gray_cap /\ i' = 1
      /\ storage' = [k \in 0 .. gray_cap - 1 |-> 0]
      /\ UNCHANGED <<free_head, req, h_addr, sweepVars>>
  BY DEF verified_gc
<1>2. HeapShape' /\ Headers' = Headers /\ heap' \in Words
  BY <1>1, SameHeap
<1>3. \A a \in Headers : getColor(heap[a]) \in {White, Blue}
  BY DEF IInv, ColourInv, colorOf, read_word
<1>4. StateType'
  BY <1>1, <1>2, StackAssumption DEF IInv, StateType, Phases
<1>5. ListInv'
  BY <1>1, <1>2 DEF IInv, ListInv, listHead, sweepVars
<1>6. PointersInv'
  BY <1>1, SamePointers
<1>7. ColourInv' /\ TriColor'
  BY <1>1, <1>2, <1>3 DEF ColourInv, TriColor, colorOf, read_word, White, Gray, Blue, Black
<1>8. CallInv'
  BY <1>1 DEF IInv, CallInv
<1>9. RootsDarkened'
  BY <1>1 DEF RootsDarkened, Roots
<1>10. StackInv'
  <2>1. GrayOf(heap, Headers) = {}
    BY <1>3 DEF GrayOf, White, Gray, Blue
  <2>2. gray_cap .. gray_cap - 1 = {}
    BY StackAssumption
  <2>3. Stacked(storage', gray_cap, {})
    BY <2>2 DEF Stacked
  <2> QED
    BY <1>1, <1>2, <2>1, <2>3 DEF StackInv
<1> QED
  BY <1>1, <1>2, <1>4, <1>5, <1>6, <1>7, <1>8, <1>9, <1>10 DEF IInv, SearchInv, ScanInv, SweepInv

-----------------------------------------------------------------------------
(* A store of the program *)

\* A store writes one field of a block in use, and what it writes leads to a
\* block in use or nowhere.
LEMMA StoreFacts ==
  ASSUME IInv, Store
  PROVE  /\ pc = "mutator" /\ pc' = "mutator" /\ roots' = roots
         /\ UNCHANGED <<free_head, searchVars, stackVars, h_addr, i, sweepVars>>
         /\ \E r, s \in Roots, a \in Used(heap, Headers) :
              /\ is_pointer(roots[r]) /\ roots[r] = f_address(a)
              /\ roots[s] \in Nat /\ Leads(roots[s], Survivors)
              /\ \E k \in 1 .. getWosize(heap[a]) :
                   /\ FieldAt(a, k) \in Addresses \ Headers
                   /\ heap' = [heap EXCEPT ![FieldAt(a, k)] = roots[s]]
<1>1. /\ pc = "mutator" /\ pc' = "mutator" /\ roots' = roots
      /\ UNCHANGED <<free_head, searchVars, stackVars, h_addr, i, sweepVars>>
  BY DEF Store
<1>2. PICK r \in Roots, s \in Roots : /\ is_pointer(roots[r])
                     /\ \E k \in 0 .. wosizeOf(hd_address(roots[r])) - 1 :
                          write_word(roots[r] + WordBytes * k, roots[s])
  BY DEF Store
<1> DEFINE B == Headers
           a == hd_address(roots[r])
           v == roots[s]
<1>3. PICK k \in 0 .. wosizeOf(a) - 1 : write_word(roots[r] + WordBytes * k, v)
  BY <1>2
<1>4. /\ heap \in Words /\ B \subseteq Addresses /\ Tiled(heap, B, zero_addr, heap_size)
      /\ Sized(heap, B) /\ Survivors = Used(heap, B) /\ roots[r] \in Nat /\ v \in Nat
      /\ a \in Survivors /\ Leads(v, Survivors)
  BY <1>1, <1>2, Basics DEF IInv, StateType, PointersInv, RootsLead, Leads
<1>5. a \in B /\ getColor(heap[a]) # Blue /\ a \in Nat /\ getWosize(heap[a]) \in Nat
  BY <1>4, Sizes, AddressFacts DEF Used
<1>6. k \in Int /\ k + 1 \in 1 .. getWosize(heap[a])
  BY <1>5 DEF wosizeOf, read_word
<1>7. /\ FieldAt(a, k + 1) \in Addresses \ B /\ FieldAt(a, k + 1) = roots[r] + WordBytes * k
      /\ roots[r] = f_address(a)
  <2>1. FieldAt(a, k + 1) \in Addresses \ B /\ FieldAt(a, k + 1) = a + 8 * (k + 1)
    BY <1>4, <1>5, <1>6, Places
  <2>2. roots[r] = a + 8 /\ f_address(a) = a + 8
    BY <1>4, <1>5 DEF hd_address, f_address, WordBytes
  <2> QED
    BY <1>5, <1>6, <2>1, <2>2 DEF WordBytes
<1>8. heap' = [heap EXCEPT ![FieldAt(a, k + 1)] = v]
  BY <1>3, <1>7 DEF write_word
<1> HIDE DEF a
<1> QED
  BY <1>1, <1>2, <1>4, <1>6, <1>7, <1>8

LEMMA StoreInv ==
  ASSUME IInv, Store
  PROVE  IInv'
<1>1. /\ pc = "mutator" /\ pc' = "mutator" /\ roots' = roots
      /\ UNCHANGED <<free_head, searchVars, stackVars, h_addr, i, sweepVars>>
  BY StoreFacts
<1> DEFINE B == Headers
<1>2. PICK r \in Roots, s \in Roots, a \in Used(heap, B) :
             /\ is_pointer(roots[r]) /\ roots[r] = f_address(a)
             /\ roots[s] \in Nat /\ Leads(roots[s], Survivors)
             /\ \E k \in 1 .. getWosize(heap[a]) :
                  /\ FieldAt(a, k) \in Addresses \ B
                  /\ heap' = [heap EXCEPT ![FieldAt(a, k)] = roots[s]]
  BY StoreFacts
<1>3. PICK k \in 1 .. getWosize(heap[a]) :
             /\ FieldAt(a, k) \in Addresses \ B
             /\ heap' = [heap EXCEPT ![FieldAt(a, k)] = roots[s]]
  BY <1>2
<1> DEFINE x == FieldAt(a, k)
           v == roots[s]
<1>4. /\ heap \in Words /\ B \subseteq Addresses /\ Tiled(heap, B, zero_addr, heap_size)
      /\ Sized(heap, B) /\ Survivors = Used(heap, B) /\ v \in Nat
      /\ Leads(v, Survivors) /\ a \in B /\ getColor(heap[a]) # Blue /\ x \in Addresses \ B
  BY <1>1, <1>2, <1>3, Basics DEF Used
<1>5. heap'[x] = v /\ \A y \in Addresses : y # x => heap'[y] = heap[y]
  BY <1>3, <1>4 DEF Words
<1>6. heap' \in Words
  BY <1>3, <1>4 DEF Words
<1> HIDE DEF x, v
<1>7. \A b \in B : heap'[b] = heap[b]
  BY <1>4, <1>5
<1>8. SameShape(heap, heap', B)
  BY <1>7 DEF SameShape
<1>9. Headers' = B /\ HeapShape'
  BY <1>4, <1>6, <1>8, ShapeFrame DEF Headers, HeapShape
<1>10. StateType'
  BY <1>1, <1>6 DEF IInv, StateType, searchVars, stackVars
<1>11. ListInv'
  <2>1. FreeOf(heap', B) = FreeOf(heap, B)
    BY <1>7 DEF FreeOf
  <2>2. ASSUME NEW o \in FreeOf(heap, B) PROVE heap'[o] = heap[o]
    <3>1. PICK b \in B : getColor(heap[b]) = Blue /\ o = f_address(b)
      BY DEF FreeOf
    <3>2. o = FieldAt(b, 1) /\ 1 \in 1 .. getWosize(heap[b]) /\ o \in Addresses
      BY <1>4, <3>1, FirstField
    <3>3. o # x
      BY <1>4, <3>1, <3>2, Places DEF x
    <3> QED
      BY <1>5, <3>2, <3>3
  <2>3. Linked(heap', FreeOf(heap, B), listHead)
    BY <2>2, LinkedFrame DEF IInv, ListInv
  <2> QED
    BY <1>1, <1>9, <2>1, <2>3 DEF ListInv, listHead
<1>12. PointersInv'
  <2>1. Survivors' = Survivors
    BY <1>1, <1>4, <1>7, <1>9 DEF Survivors, sweptTo, Kept, Used
  <2>2. ASSUME NEW b \in Survivors, Scannable(heap', b), NEW m \in 1 .. getWosize(heap'[b])
        PROVE  Leads(heap'[FieldAt(b, m)], Survivors)
    <3>1. b \in B /\ Scannable(heap, b) /\ m \in 1 .. getWosize(heap[b])
      BY <1>4, <1>7, <2>2 DEF Used, Scannable
    <3>2. FieldAt(b, m) \in Addresses
      BY <1>4, <3>1, Places
    <3>3. Leads(heap[FieldAt(b, m)], Survivors)
      BY <3>1 DEF IInv, PointersInv, Closed
    <3> QED
      BY <1>4, <1>5, <3>2, <3>3
  <2>3. Closed(heap', Survivors, Survivors)
    BY <2>2 DEF Closed
  <2> QED
    BY <1>1, <2>1, <2>3 DEF IInv, PointersInv
<1>13. ColourInv'
  BY <1>1, <1>7, <1>9 DEF IInv, ColourInv, colorOf, read_word
<1> QED
  BY <1>1, <1>9, <1>10, <1>11, <1>12, <1>13
     DEF IInv, CallInv, SearchInv, RootsDarkened, TriColor, ScanInv, StackInv, SweepInv, Marking, searchVars

-----------------------------------------------------------------------------
(* The steps of a collection that leave the heap alone *)

LEMMA EndRootsInv ==
  ASSUME IInv, EndRoots
  PROVE  IInv'
<1>1. /\ pc = "roots" /\ pc' = "mark" /\ heap' = heap /\ roots' = roots /\ i > NumRoots /\ i' = 0
      /\ UNCHANGED <<free_head, searchVars, stackVars, h_addr, sweepVars>>
  BY DEF EndRoots
<1>2. HeapShape' /\ Headers' = Headers /\ heap' \in Words
  BY <1>1, SameHeap
<1>3. StateType'
  BY <1>1, <1>2 DEF IInv, StateType, Phases, searchVars, stackVars
<1>4. ListInv'
  BY <1>1, <1>2 DEF IInv, ListInv, listHead
<1>5. PointersInv'
  BY <1>1, SamePointers
<1>6. RootsDarkened'
  <2>1. \A r \in Roots : r < i
    BY <1>1, RootsAssumption DEF Roots, IInv, StateType
  <2> QED
    BY <1>1, <2>1 DEF IInv, RootsDarkened
<1>7. TriColor'
  BY <1>1, <1>2 DEF IInv, TriColor, Marking, colorOf, wosizeOf, read_word
<1>8. StackInv'
  BY <1>1, <1>2 DEF IInv, StackInv, Marking, stackVars
<1> QED
  BY <1>1, <1>2, <1>3, <1>4, <1>5, <1>6, <1>7, <1>8
     DEF IInv, CallInv, SearchInv, ColourInv, ScanInv, SweepInv, searchVars

LEMMA EndScanInv ==
  ASSUME IInv, EndScan
  PROVE  IInv'
<1>1. /\ pc = "scan" /\ pc' = "mark" /\ heap' = heap /\ roots' = roots /\ i > wosizeOf(h_addr) /\ i' = 0
      /\ UNCHANGED <<free_head, searchVars, stackVars, sweepVars>>
  BY DEF EndScan
<1>2. HeapShape' /\ Headers' = Headers /\ heap' \in Words
  BY <1>1, SameHeap
<1>3. StateType'
  BY <1>1, <1>2 DEF IInv, StateType, Phases, searchVars, stackVars
<1>4. ListInv'
  BY <1>1, <1>2 DEF IInv, ListInv, listHead
<1>5. PointersInv'
  BY <1>1, SamePointers
<1>6. RootsDarkened'
  BY <1>1 DEF IInv, RootsDarkened
<1>7. TriColor'
  <2>1. h_addr \in Headers /\ getWosize(heap[h_addr]) \in Nat /\ i \in Nat
    BY <1>1, Basics, Sizes DEF IInv, ScanInv, StateType
  <2>2. \A k \in 1 .. wosizeOf(h_addr) : ~(k >= i)
    BY <1>1, <2>1 DEF wosizeOf, read_word
  <2> QED
    BY <1>1, <1>2, <2>2 DEF IInv, TriColor, Marking, colorOf, wosizeOf, read_word
<1>8. StackInv'
  BY <1>1, <1>2 DEF IInv, StackInv, Marking, stackVars
<1> QED
  BY <1>1, <1>2, <1>3, <1>4, <1>5, <1>6, <1>7, <1>8
     DEF IInv, CallInv, SearchInv, ColourInv, ScanInv, SweepInv, searchVars

\* When marking ends nothing is gray, and what is reached is black.
LEMMA EndMarkFacts ==
  ASSUME IInv, EndMark
  PROVE  /\ \A a \in Headers : colorOf(a) # Gray
         /\ Survivors' = {a \in Headers : colorOf(a) = Black}
         /\ Headers' = Headers /\ heap' = heap
<1>1. /\ pc = "mark" /\ top = gray_cap /\ pc' = "sweep" /\ heap' = heap /\ current' = zero_addr
  BY DEF EndMark, StartSweep, stackEmpty
<1>2. Headers' = Headers
  BY <1>1, SameHeap
<1>3. GrayOf(heap, Headers) = {}
  <2>1. Stacked(storage, gray_cap, GrayOf(heap, Headers))
    BY <1>1, StackAssumption DEF IInv, StackInv, Marking
  <2>2. gray_cap .. gray_cap - 1 = {}
    BY StackAssumption
  <2> QED
    BY <2>1, <2>2 DEF Stacked
<1>4. \A a \in Headers : colorOf(a) # Gray
  BY <1>3 DEF GrayOf, colorOf, read_word
<1>5. Survivors' = {a \in Headers : colorOf(a) = Black}
  <2>1. \A a \in Headers : ~(a < zero_addr)
    BY Basics, AddressFacts
  <2> QED
    BY <1>1, <1>2, <2>1 DEF Survivors, sweptTo, Kept, Used, colorOf, read_word, Blue, Black
<1> QED
  BY <1>1, <1>2, <1>4, <1>5

LEMMA EndMarkInv ==
  ASSUME IInv, EndMark
  PROVE  IInv'
<1>1. /\ pc = "mark" /\ pc' = "sweep" /\ heap' = heap /\ roots' = roots /\ current' = zero_addr
      /\ free_ptr' = free_head /\ storage' = [k \in 0 .. gray_cap - 1 |-> 0]
      /\ UNCHANGED <<free_head, searchVars, top, h_addr, i>>
  BY DEF EndMark, StartSweep
<1>2. HeapShape' /\ Headers' = Headers /\ heap' \in Words
  BY <1>1, SameHeap
<1>3. /\ \A a \in Headers : colorOf(a) # Gray
      /\ Survivors' = {a \in Headers : colorOf(a) = Black}
  BY EndMarkFacts
<1>4. StateType'
  BY <1>1, <1>2 DEF IInv, StateType, Phases, searchVars
<1>5. ListInv'
  BY <1>1, <1>2 DEF IInv, ListInv, listHead
<1>6. PointersInv'
  <2>1. Survivors = Used(heap, Headers)
    BY <1>1, Basics
  <2>2. \A w : Leads(w, Survivors) /\ Dark(heap, w) => Leads(w, Survivors')
    <3>1. \A a \in Headers : getColor(heap[a]) \in 0 .. 3
      BY Basics, HeaderType DEF Words
    <3> QED
      BY <1>3, <2>1, <3>1 DEF Leads, Dark, Used, colorOf, read_word, White, Gray, Blue, Black
  <2>3. RootsLead(roots', Survivors')
    BY <1>1, <2>2 DEF IInv, PointersInv, RootsLead, RootsDarkened
  <2>4. Survivors' \subseteq Survivors
    BY <1>3, <2>1 DEF Used, colorOf, read_word, Blue, Black
  <2>5. ASSUME NEW a \in Survivors', Scannable(heap, a), NEW k \in 1 .. getWosize(heap[a])
        PROVE  Leads(heap[FieldAt(a, k)], Survivors')
    <3>1. Leads(heap[FieldAt(a, k)], Survivors)
      BY <2>4, <2>5 DEF IInv, PointersInv, Closed
    <3>2. Dark(heap, heap[FieldAt(a, k)])
      BY <1>1, <1>3, <2>5 DEF IInv, TriColor, Marking, wosizeOf, read_word
    <3> QED
      BY <2>2, <3>1, <3>2
  <2>6. Closed(heap', Survivors', Survivors')
    BY <1>1, <2>5 DEF Closed
  <2> QED
    BY <2>3, <2>6 DEF PointersInv
<1>7. ColourInv'
  <2>1. \A a \in Headers : ~(a < zero_addr)
    BY Basics, AddressFacts
  <2> QED
    BY <1>1, <1>2, <1>3, <2>1 DEF ColourInv, colorOf, read_word
<1>8. SweepInv'
  <2>1. zero_addr \in Headers \cup {heap_size}
    BY Basics DEF Tiled
  <2> QED
    BY <1>1, <1>2, <2>1 DEF SweepInv
<1> QED
  BY <1>1, <1>2, <1>4, <1>5, <1>6, <1>7, <1>8
     DEF IInv, CallInv, SearchInv, RootsDarkened, TriColor, ScanInv, StackInv, Marking, searchVars

-----------------------------------------------------------------------------
(* Sweeping *)

\* A sweep stands at a header or has come to the end of the heap.
LEMMA AtCurrent ==
  ASSUME IInv, sweeping
  PROVE  /\ pc = "sweep" /\ current \in Headers /\ current \in Nat
         /\ next_object \in Headers \cup {heap_size}
         /\ \A b \in Headers : b < next_object <=> b < current \/ b = current
         /\ colorOf(current) \in {White, Black, Blue}
<1>1. /\ pc = "sweep" /\ current + 8 < heap_size /\ current \in Headers \cup {heap_size}
  BY DEF IInv, SweepInv, sweeping, WordBytes
<1>2. /\ heap \in Words /\ Headers \subseteq Addresses /\ Tiled(heap, Headers, zero_addr, heap_size)
  BY Basics
<1>3. current \in Headers /\ current \in Nat
  BY <1>1, <1>2, AddressFacts
<1>4. /\ next_object \in Headers \cup {heap_size} /\ next_object \in Nat /\ current < next_object
      /\ \A b \in Headers : current < b => next_object <= b
  BY <1>2, <1>3, Sizes, AddressFacts DEF Tiled, next_object
<1>5. \A b \in Headers : b < next_object <=> b < current \/ b = current
  BY <1>2, <1>3, <1>4, AddressFacts
<1>6. colorOf(current) \in 0 .. 3 /\ colorOf(current) # Gray
  BY <1>1, <1>2, <1>3, HeaderType DEF IInv, ColourInv, colorOf, read_word, Words
<1> QED
  BY <1>1, <1>3, <1>4, <1>5, <1>6 DEF White, Gray, Blue, Black

\* What every step of the sweep leaves of the invariant, if it keeps the blocks,
\* the survivors and their fields.
LEMMA SweepStep ==
  ASSUME IInv, sweeping, sweep_loop_body, heap' \in Words, free_ptr' \in Nat,
         SameShape(heap, heap', Headers),
         \A b \in Headers : b # current => getColor(heap'[b]) = getColor(heap[b]),
         \A b \in Headers : getColor(heap'[b]) \in {White, Blue} \/ b # current,
         colorOf(current) = Black <=> getColor(heap'[current]) = White,
         \A b \in Survivors : \A k \in 1 .. getWosize(heap[b]) : heap'[FieldAt(b, k)] = heap[FieldAt(b, k)],
         Linked(heap', FreeOf(heap', Headers), free_ptr')
  PROVE  IInv' /\ Headers' = Headers /\ Survivors' = Survivors
<1> DEFINE B == Headers
<1>1. /\ pc = "sweep" /\ pc' = "sweep" /\ roots' = roots /\ current' = next_object
      /\ UNCHANGED <<free_head, searchVars, stackVars, h_addr, i>>
  BY DEF sweeping, sweep_loop_body
<1>2. /\ heap \in Words /\ Tiled(heap, B, zero_addr, heap_size) /\ Sized(heap, B) /\ B \subseteq Addresses
      /\ Survivors \subseteq B
  BY Basics
<1>3. /\ current \in B /\ next_object \in B \cup {heap_size}
      /\ \A b \in B : b < next_object <=> b < current \/ b = current
      /\ colorOf(current) \in {White, Black, Blue}
  BY AtCurrent
<1>4. Headers' = B /\ HeapShape'
  BY <1>2, ShapeFrame DEF Headers, HeapShape
<1>5. ~(current < current)
  BY <1>2, <1>3, AddressFacts
<1>6. Survivors = {b \in B : getColor(heap[b]) # Blue /\ (b < current \/ getColor(heap[b]) = Black)}
  BY <1>1 DEF Survivors, sweptTo, Kept, Used
<1>7. Survivors' = {b \in B : getColor(heap'[b]) # Blue /\ (b < next_object \/ getColor(heap'[b]) = Black)}
  BY <1>1, <1>4 DEF Survivors, sweptTo, Kept, Used
<1>8. Survivors' = Survivors
  <2>1. ASSUME NEW b \in B PROVE b \in Survivors <=> b \in Survivors'
    <3>1. CASE b = current
      BY <1>3, <1>5, <1>6, <1>7, <3>1 DEF colorOf, read_word, White, Blue, Black
    <3>2. CASE b # current
      BY <1>3, <1>6, <1>7, <3>2
    <3> QED
      BY <3>1, <3>2
  <2> QED
    BY <1>6, <1>7, <2>1
<1>9. StateType'
  BY <1>1 DEF IInv, StateType, searchVars, stackVars
<1>10. ListInv'
  BY <1>1, <1>4 DEF ListInv, listHead
<1>11. PointersInv'
  <2>1. ASSUME NEW b \in Survivors, Scannable(heap', b), NEW k \in 1 .. getWosize(heap'[b])
        PROVE  Leads(heap'[FieldAt(b, k)], Survivors)
    <3>1. Scannable(heap, b) /\ k \in 1 .. getWosize(heap[b])
      BY <1>2, <2>1 DEF SameShape, Scannable
    <3>2. Leads(heap[FieldAt(b, k)], Survivors)
      BY <3>1 DEF IInv, PointersInv, Closed
    <3> QED
      BY <3>1, <3>2
  <2>2. Closed(heap', Survivors, Survivors)
    BY <2>1 DEF Closed
  <2> QED
    BY <1>1, <1>8, <2>2 DEF IInv, PointersInv
<1>12. ColourInv'
  <2>1. \A b \in B : getColor(heap[b]) # Gray /\ (b < current => getColor(heap[b]) # Black)
    BY <1>1 DEF IInv, ColourInv, colorOf, read_word
  <2>2. ASSUME NEW b \in B
        PROVE  getColor(heap'[b]) # Gray /\ (b < next_object => getColor(heap'[b]) # Black)
    <3>1. CASE b = current
      BY <3>1 DEF White, Gray, Blue, Black
    <3>2. CASE b # current
      BY <1>3, <2>1, <3>2
    <3> QED
      BY <3>1, <3>2
  <2> QED
    BY <1>1, <1>4, <2>2 DEF ColourInv, colorOf, read_word
<1>13. SweepInv'
  BY <1>1, <1>3, <1>4 DEF SweepInv
<1> QED
  BY <1>1, <1>4, <1>8, <1>9, <1>10, <1>11, <1>12, <1>13
     DEF IInv, CallInv, SearchInv, RootsDarkened, TriColor, ScanInv, StackInv, Marking, searchVars

LEMMA SweepOtherInv ==
  ASSUME IInv, SweepOther
  PROVE  IInv' /\ Headers' = Headers /\ Survivors' = Survivors /\ SameShape(heap, heap', Headers)
<1>1. /\ sweeping /\ sweep_loop_body /\ heap' = heap /\ free_ptr' = free_ptr
      /\ colorOf(current) = Blue
  BY AtCurrent DEF SweepOther, White, Gray, Blue, Black
<1>2. /\ heap \in Words /\ pc = "sweep" /\ Linked(heap, FreeOf(heap, Headers), free_ptr)
  BY <1>1, Basics DEF IInv, ListInv, listHead, sweeping
<1>3. free_ptr \in Nat
  BY <1>2, Basics, FreeFacts, AddressFacts DEF Linked
<1>4. SameShape(heap, heap', Headers)
  BY <1>1 DEF SameShape
<1> QED
  BY <1>1, <1>2, <1>3, <1>4, SweepStep DEF colorOf, read_word, White, Blue, Black

LEMMA SweepBlackInv ==
  ASSUME IInv, SweepBlack
  PROVE  /\ IInv' /\ Headers' = Headers /\ Survivors' = Survivors /\ SameShape(heap, heap', Headers)
         /\ \A b \in Survivors : \A k \in 1 .. getWosize(heap[b]) : heap'[FieldAt(b, k)] = heap[FieldAt(b, k)]
<1> DEFINE B == Headers
<1>1. /\ sweeping /\ sweep_loop_body /\ free_ptr' = free_ptr /\ colorOf(current) = Black
      /\ heap' = [heap EXCEPT ![current] = makeHeader(getWosize(heap[current]), White, getTag(heap[current]))]
  BY DEF SweepBlack, write_word, recolored, wosizeOf, tagOf, read_word
<1>2. /\ heap \in Words /\ pc = "sweep" /\ Linked(heap, FreeOf(heap, B), free_ptr)
      /\ Tiled(heap, B, zero_addr, heap_size) /\ Sized(heap, B) /\ Survivors \subseteq B
  BY <1>1, Basics DEF IInv, ListInv, listHead, sweeping
<1>3. free_ptr \in Nat
  BY <1>2, FreeFacts, AddressFacts DEF Linked
<1>4. /\ heap' \in Words /\ SameShape(heap, heap', B) /\ SameFields(heap, heap', B)
      /\ \A b \in B : getColor(heap'[b]) = IF b = current THEN White ELSE getColor(heap[b])
  <2> DEFINE m == makeHeader(getWosize(heap[current]), White, getTag(heap[current]))
  <2>1. current \in B /\ current \in Addresses /\ White \in 0 .. 3 /\ DOMAIN heap = Addresses
    BY <1>1, <1>2, AtCurrent DEF White, Tiled, Words
  <2>2. m \in Nat /\ getWosize(m) = getWosize(heap[current]) /\ getColor(m) = White
        /\ getTag(m) = getTag(heap[current])
    BY <1>2, <2>1, Repainted
  <2>3. heap' = [heap EXCEPT ![current] = m]
    BY <1>1
  <2> HIDE DEF m
  <2>4. heap' \in Words /\ heap'[current] = m /\ \A x \in Addresses : x # current => heap'[x] = heap[x]
    BY <1>2, <2>1, <2>2, <2>3 DEF Words
  <2> QED
    BY <1>2, <2>1, <2>2, <2>4, Painted
<1>5. FreeOf(heap', B) = FreeOf(heap, B)
  BY <1>1, <1>4 DEF FreeOf, colorOf, read_word, White, Blue, Black
<1>6. Linked(heap', FreeOf(heap, B), free_ptr)
  <2>1. \A o \in FreeOf(heap, B) : heap'[o] = heap[o]
    BY <1>2, <1>4, FreeFacts DEF SameFields
  <2> QED
    BY <1>2, <2>1, LinkedFrame
<1>7. \A b \in Survivors : \A k \in 1 .. getWosize(heap[b]) : heap'[FieldAt(b, k)] = heap[FieldAt(b, k)]
  BY <1>2, <1>4, Places DEF SameFields
<1>8. current \in B
  BY <1>1, AtCurrent
<1> QED
  BY <1>1, <1>3, <1>4, <1>5, <1>6, <1>7, <1>8, SweepStep DEF colorOf, read_word, White, Blue, Black

LEMMA SweepWhiteInv ==
  ASSUME IInv, SweepWhite
  PROVE  /\ IInv' /\ Headers' = Headers /\ Survivors' = Survivors /\ SameShape(heap, heap', Headers)
         /\ \A b \in Survivors : \A k \in 1 .. getWosize(heap[b]) : heap'[FieldAt(b, k)] = heap[FieldAt(b, k)]
<1> DEFINE B == Headers
           x == f_address(current)
           m == makeHeader(getWosize(heap[current]), Blue, getTag(heap[current]))
<1>1. /\ sweeping /\ sweep_loop_body /\ free_ptr' = x /\ colorOf(current) = White
      /\ heap' = [a \in Addresses |->
                CASE a = current -> m
                  [] a = x /\ getWosize(heap[current]) > 0 -> free_ptr
                  [] OTHER -> heap[a]]
  BY DEF SweepWhite, recolored, wosizeOf, tagOf, read_word
<1>2. /\ heap \in Words /\ pc = "sweep" /\ Linked(heap, FreeOf(heap, B), free_ptr)
      /\ Tiled(heap, B, zero_addr, heap_size) /\ Sized(heap, B) /\ Survivors \subseteq B
      /\ B \subseteq Addresses /\ current \in B
  BY <1>1, Basics, AtCurrent DEF IInv, ListInv, listHead, sweeping
<1>3. free_ptr \in Nat
  BY <1>2, FreeFacts, AddressFacts DEF Linked
<1>4. /\ getWosize(heap[current]) \in Nat /\ getWosize(heap[current]) >= 1 /\ heap[current] \in Nat
      /\ x = FieldAt(current, 1) /\ x \in Addresses \ B /\ x # 0 /\ x \in Nat
      /\ 1 \in 1 .. getWosize(heap[current])
  BY <1>2, FirstField, AddressFacts DEF Sized
<1>5. m \in Nat /\ getWosize(m) = getWosize(heap[current]) /\ getColor(m) = Blue /\ getTag(m) = getTag(heap[current])
  <2>1. getTag(heap[current]) \in 0 .. 255 /\ Blue \in 0 .. 3
    BY <1>4, HeaderType DEF Blue
  <2> QED
    BY <1>4, <2>1, HeaderParts, ZenonT(60)
<1> HIDE DEF m, x
<1>6. heap' = [a \in Addresses |-> IF a = current THEN m ELSE IF a = x THEN free_ptr ELSE heap[a]]
  BY <1>1, <1>2, <1>4
<1>7. /\ heap'[current] = m /\ heap'[x] = free_ptr
      /\ \A a \in Addresses : a # current /\ a # x => heap'[a] = heap[a]
  BY <1>2, <1>4, <1>6
<1>8. heap' \in Words
  BY <1>2, <1>3, <1>5, <1>6 DEF Words
<1>9. \A b \in B : b # current => heap'[b] = heap[b]
  BY <1>2, <1>4, <1>7
<1>10. SameShape(heap, heap', B)
  BY <1>5, <1>7, <1>9 DEF SameShape
<1>11. x \notin FreeOf(heap, B) /\ 0 \notin FreeOf(heap, B) /\ FreeOf(heap, B) \subseteq Addresses \ B
  BY <1>1, <1>2, FreeFacts DEF colorOf, read_word, White, Blue, x
<1>12. FreeOf(heap', B) = FreeOf(heap, B) \cup {x}
  BY <1>2, <1>5, <1>7, <1>9 DEF FreeOf, x
<1>13. Linked(heap', FreeOf(heap', B), x)
  <2>1. \A o \in FreeOf(heap, B) : heap'[o] = heap[o]
    BY <1>2, <1>7, <1>11
  <2> QED
    BY <1>2, <1>4, <1>7, <1>11, <1>12, <2>1, LinkedPush
<1>14. ASSUME NEW b \in Survivors, NEW k \in 1 .. getWosize(heap[b])
       PROVE  heap'[FieldAt(b, k)] = heap[FieldAt(b, k)]
  <2>1. current \notin Survivors
    <3>1. ~(current < current)
      BY <1>2, AddressFacts
    <3> QED
      BY <1>1, <1>2, <3>1 DEF Survivors, sweptTo, Kept, Used, colorOf, read_word, White, Black
  <2>2. FieldAt(b, k) \in Addresses \ B /\ FieldAt(b, k) # x
    BY <1>2, <1>4, <2>1, Places
  <2> QED
    BY <1>2, <1>7, <2>2
<1> QED
  BY <1>1, <1>2, <1>4, <1>5, <1>7, <1>8, <1>9, <1>10, <1>13, <1>14, SweepStep
     DEF colorOf, read_word, White, Blue, Black

\* At the end of the heap every block in use has been kept.
LEMMA EndSweepFacts ==
  ASSUME IInv, EndSweep
  PROVE  /\ current = heap_size /\ pc = "sweep" /\ pc' \in {"mutator", "search"}
         /\ heap' = heap /\ Headers' = Headers
         /\ Survivors = Used(heap, Headers) /\ Survivors' = Survivors
         /\ \A a \in Headers : colorOf(a) \in {White, Blue}
<1>1. /\ pc = "sweep" /\ ~(current + 8 < heap_size) /\ heap' = heap /\ pc' \in {"mutator", "search"}
  BY DEF EndSweep, sweeping, StartSearch, WordBytes
<1>2. /\ heap \in Words /\ Headers \subseteq Addresses /\ Tiled(heap, Headers, zero_addr, heap_size)
      /\ Sized(heap, Headers)
  BY Basics
<1>3. current = heap_size
  <2>1. SUFFICES ASSUME current \in Headers PROVE FALSE
    BY <1>1 DEF IInv, SweepInv
  <2>2. current \in Nat /\ heap_size \in Nat /\ nextHeader(heap, current) <= heap_size
        /\ nextHeader(heap, current) = current + 8 + 8 * getWosize(heap[current])
        /\ getWosize(heap[current]) \in Nat /\ getWosize(heap[current]) >= 1
    BY <1>2, <2>1, AddressFacts, Sizes, TileBounds DEF Sized
  <2> QED
    BY <1>1, <2>2
<1>4. Headers' = Headers
  BY <1>1, SameHeap
<1>5. \A a \in Headers : a < heap_size
  BY <1>2 DEF Tiled
<1>6. Survivors = Used(heap, Headers)
  BY <1>1, <1>3, <1>5 DEF Survivors, sweptTo, Kept, Used
<1>7. Survivors' = Used(heap, Headers)
  BY <1>1, <1>4, <1>5 DEF Survivors, sweptTo, Kept, Used
<1>8. \A a \in Headers : getColor(heap[a]) \in 0 .. 3
  BY <1>2, HeaderType DEF Words
<1>9. \A a \in Headers : colorOf(a) \in {White, Blue}
  BY <1>1, <1>3, <1>5, <1>8 DEF IInv, ColourInv, colorOf, read_word, White, Gray, Blue, Black
<1> QED
  BY <1>1, <1>3, <1>4, <1>6, <1>7, <1>9

LEMMA EndSweepInv ==
  ASSUME IInv, EndSweep
  PROVE  IInv'
<1>1. /\ pc = "sweep" /\ heap' = heap /\ roots' = roots /\ free_head' = free_ptr
      /\ \/ req = NoRequest /\ pc' = "mutator"
         \/ req # NoRequest /\ pc' = "search" /\ prev_val_addr' = 0 /\ cur_val_addr' = free_ptr
      /\ UNCHANGED <<req, retried, stackVars, h_addr, i>>
  BY DEF EndSweep, StartSearch
<1>2. HeapShape' /\ Headers' = Headers /\ heap' \in Words
  BY <1>1, SameHeap
<1>3. Survivors' = Survivors /\ \A a \in Headers : colorOf(a) \in {White, Blue}
  BY EndSweepFacts
<1>4. StateType'
  BY <1>1, <1>2 DEF IInv, StateType, Phases, stackVars
<1>5. CallInv'
  BY <1>1 DEF IInv, CallInv
<1>6. ListInv'
  BY <1>1, <1>2 DEF IInv, ListInv, listHead
<1>7. SearchInv'
  BY <1>1, <1>2 DEF IInv, ListInv, listHead, SearchInv, Linked
<1>8. PointersInv'
  BY <1>1, <1>3 DEF IInv, PointersInv
<1>9. ColourInv'
  BY <1>1, <1>2, <1>3 DEF ColourInv, colorOf, read_word
<1> QED
  BY <1>1, <1>2, <1>4, <1>5, <1>6, <1>7, <1>8, <1>9
     DEF IInv, RootsDarkened, TriColor, ScanInv, StackInv, SweepInv, Marking

-----------------------------------------------------------------------------
(* Marking *)

\* A word that leads to a block in use is darkened: the block is gray or black
\* afterwards, it is on the stack if it turned gray, and nothing else changed.
LEMMA DarkenSound ==
  ASSUME IInv, pc \in {"roots", "scan"}, NEW v \in Nat, Leads(v, Survivors),
         \/ is_pointer(v) /\ darken_if_white(hd_address(v))
         \/ ~is_pointer(v) /\ UNCHANGED <<heap, stackVars>>
  PROVE  /\ heap' \in Words /\ Headers' = Headers /\ HeapShape'
         /\ SameShape(heap, heap', Headers) /\ SameFields(heap, heap', Headers)
         /\ \A b \in Headers : getColor(heap'[b]) =
              IF is_pointer(v) /\ b = hd_address(v) /\ getColor(heap[b]) = White THEN Gray
              ELSE getColor(heap[b])
         /\ FreeOf(heap', Headers) = FreeOf(heap, Headers)
         /\ Linked(heap', FreeOf(heap, Headers), free_head)
         /\ Used(heap', Headers) = Used(heap, Headers)
         /\ storage' \in [0 .. gray_cap - 1 -> Nat] /\ top' \in Int /\ top' <= gray_cap
         /\ top' >= 0 => Stacked(storage', top', GrayOf(heap', Headers))
         /\ Dark(heap', v)
<1> DEFINE B == Headers
           a == hd_address(v)
<1>1. /\ heap \in Words /\ B \subseteq Addresses /\ Tiled(heap, B, zero_addr, heap_size) /\ Sized(heap, B)
      /\ Survivors = Used(heap, B) /\ Linked(heap, FreeOf(heap, B), free_head)
      /\ storage \in [0 .. gray_cap - 1 -> Nat] /\ top \in Int /\ top <= gray_cap
      /\ top >= 0 => Stacked(storage, top, GrayOf(heap, B))
      /\ gray_cap \in Nat
  BY Basics, StackAssumption DEF IInv, StateType, ListInv, listHead, StackInv, Marking
<1>2. CASE ~is_pointer(v) \/ colorOf(a) # White
  <2>1. heap' = heap /\ storage' = storage /\ top' = top
    BY <1>2 DEF darken_if_white, stackVars
  <2>2. Headers' = Headers /\ HeapShape'
    BY <2>1, SameHeap
  <2>3. SameShape(heap, heap', B) /\ SameFields(heap, heap', B)
    BY <2>1 DEF SameShape, SameFields
  <2> QED
    BY <1>1, <1>2, <2>1, <2>2, <2>3 DEF Dark, colorOf, read_word
<1>3. CASE is_pointer(v) /\ colorOf(a) = White
  <2>1. /\ a \in B /\ getColor(heap[a]) = White
        /\ heap' = [heap EXCEPT ![a] = makeHeader(getWosize(heap[a]), Gray, getTag(heap[a]))]
        /\ top' = top - 1
        /\ storage' = [k \in DOMAIN storage |-> IF k = top - 1 THEN f_address(a) ELSE storage[k]]
    BY <1>1, <1>3 DEF Leads, Used, darken_if_white, darken_write_gray, write_word, recolored, push,
                      colorOf, wosizeOf, tagOf, read_word
  <2>2. /\ heap' \in Words /\ SameShape(heap, heap', B) /\ SameFields(heap, heap', B)
        /\ \A b \in B : getColor(heap'[b]) = IF b = a THEN Gray ELSE getColor(heap[b])
    <3> DEFINE m == makeHeader(getWosize(heap[a]), Gray, getTag(heap[a]))
    <3>1. a \in B /\ a \in Addresses /\ Gray \in 0 .. 3 /\ DOMAIN heap = Addresses
      BY <1>1, <2>1 DEF Gray, Words
    <3>2. m \in Nat /\ getWosize(m) = getWosize(heap[a]) /\ getColor(m) = Gray /\ getTag(m) = getTag(heap[a])
      BY <1>1, <3>1, Repainted
    <3>3. heap' = [heap EXCEPT ![a] = m]
      BY <2>1
    <3> HIDE DEF m
    <3>4. heap' \in Words /\ heap'[a] = m /\ \A x \in Addresses : x # a => heap'[x] = heap[x]
      BY <1>1, <3>1, <3>2, <3>3 DEF Words
    <3>5. SameShape(heap, heap', B) /\ SameFields(heap, heap', B)
          /\ \A b \in B : b # a => getColor(heap'[b]) = getColor(heap[b])
      BY <1>1, <3>1, <3>2, <3>4, Painted
    <3> QED
      BY <3>2, <3>4, <3>5
  <2>3. Headers' = B /\ HeapShape'
    BY <1>1, <2>2, ShapeFrame DEF Headers, HeapShape
  <2>4. FreeOf(heap', B) = FreeOf(heap, B)
    BY <2>1, <2>2 DEF FreeOf, White, Gray, Blue
  <2>5. Linked(heap', FreeOf(heap, B), free_head)
    <3>1. \A o \in FreeOf(heap, B) : heap'[o] = heap[o]
      BY <1>1, <2>2, FreeFacts DEF SameFields
    <3> QED
      BY <1>1, <3>1, LinkedFrame
  <2>6. Used(heap', B) = Used(heap, B)
    BY <2>1, <2>2 DEF Used, White, Gray, Blue
  <2> DEFINE o == f_address(a)
  <2>7. o \in Nat
    BY <1>1, <2>1, FirstField, AddressFacts
  <2>8. storage' \in [0 .. gray_cap - 1 -> Nat] /\ top' \in Int /\ top' <= gray_cap
    BY <1>1, <2>1, <2>7
  <2>9. GrayOf(heap', B) = GrayOf(heap, B) \cup {o} /\ o \notin GrayOf(heap, B)
    <3>1. o \notin GrayOf(heap, B)
      BY <1>1, <2>1, GrayFacts DEF White, Gray
    <3>2. {b \in B : getColor(heap'[b]) = Gray} = {b \in B : getColor(heap[b]) = Gray} \cup {a}
      BY <2>1, <2>2
    <3> QED
      BY <3>1, <3>2 DEF GrayOf
  <2>10. ASSUME top' >= 0 PROVE Stacked(storage', top', GrayOf(heap', B))
    <3> HIDE DEF o
    <3>1. /\ top - 1 >= 0 /\ top \in 1 .. gray_cap /\ Stacked(storage, top, GrayOf(heap, B))
          /\ top - 1 \in top - 1 .. gray_cap - 1
          /\ \A n \in top - 1 .. gray_cap - 1 : n = top - 1 \/ n \in top .. gray_cap - 1
          /\ \A n \in top .. gray_cap - 1 : n # top - 1 /\ n \in top - 1 .. gray_cap - 1
      BY <1>1, <2>1, <2>10
    <3>2. /\ storage'[top - 1] = o
          /\ \A n \in top .. gray_cap - 1 : storage'[n] = storage[n]
      <4>1. DOMAIN storage = 0 .. gray_cap - 1 /\ top - 1 \in 0 .. gray_cap - 1
            /\ \A n \in top .. gray_cap - 1 : n \in 0 .. gray_cap - 1
        BY <1>1, <3>1
      <4> QED
        BY <2>1, <3>1, <4>1 DEF o
    <3>3. \A n \in top .. gray_cap - 1 : storage[n] \in GrayOf(heap, B) /\ storage[n] # o
      BY <2>9, <3>1 DEF Stacked
    <3>4. \A n \in top - 1 .. gray_cap - 1 : storage'[n] \in GrayOf(heap, B) \cup {o}
      BY <3>1, <3>2, <3>3
    <3>5. ASSUME NEW p \in GrayOf(heap, B) \cup {o}
          PROVE  \E n \in top - 1 .. gray_cap - 1 : storage'[n] = p
      <4>1. CASE p = o
        BY <3>1, <3>2, <4>1
      <4>2. CASE p \in GrayOf(heap, B)
        <5>1. PICK n \in top .. gray_cap - 1 : storage[n] = p
          BY <3>1, <4>2 DEF Stacked
        <5> QED
          BY <3>1, <3>2, <5>1
      <4> QED
        BY <4>1, <4>2
    <3>6. \A m, n \in top .. gray_cap - 1 : storage[m] = storage[n] => m = n
      BY <3>1 DEF Stacked
    <3>7. ASSUME NEW m \in top - 1 .. gray_cap - 1, NEW n \in top - 1 .. gray_cap - 1, storage'[m] = storage'[n]
          PROVE  m = n
      BY <3>1, <3>2, <3>3, <3>6, <3>7
    <3> QED
      BY <2>1, <2>9, <3>4, <3>5, <3>7 DEF Stacked
  <2>11. Dark(heap', v)
    BY <2>1, <2>2 DEF Dark, White, Gray
  <2>12. \A b \in Headers : getColor(heap'[b]) =
              IF is_pointer(v) /\ b = hd_address(v) /\ getColor(heap[b]) = White THEN Gray
              ELSE getColor(heap[b])
    BY <1>3, <2>1, <2>2
  <2> QED
    BY <2>2, <2>3, <2>4, <2>5, <2>6, <2>8, <2>10, <2>11, <2>12
<1>4. ~is_pointer(v) \/ colorOf(a) # White \/ (is_pointer(v) /\ colorOf(a) = White)
  OBVIOUS
<1> QED
  BY <1>2, <1>3, <1>4

\* Darkening makes nothing white.
LEMMA DarkStays ==
  ASSUME NEW h, NEW g, NEW B, NEW w,
         \A b \in B : getColor(g[b]) = getColor(h[b]) \/ getColor(g[b]) \in {Gray, Black},
         Leads(w, B), Dark(h, w)
  PROVE  Dark(g, w)
BY DEF Leads, Dark, White, Gray, Black

\* What is left to show when a step of marking darkens a word.
LEMMA DarkenInv ==
  ASSUME IInv, pc \in {"roots", "scan"}, NEW v \in Nat, Leads(v, Survivors),
         \/ is_pointer(v) /\ darken_if_white(hd_address(v))
         \/ ~is_pointer(v) /\ UNCHANGED <<heap, stackVars>>,
         i' = i + 1, UNCHANGED <<roots, free_head, pc, searchVars, h_addr, sweepVars>>
  PROVE  /\ StateType' /\ CallInv' /\ HeapShape' /\ ListInv' /\ SearchInv' /\ PointersInv' /\ ColourInv'
         /\ StackInv' /\ SweepInv'
         /\ Headers' = Headers /\ SameShape(heap, heap', Headers) /\ SameFields(heap, heap', Headers)
         /\ \A b \in Headers : getColor(heap'[b]) = Black <=> getColor(heap[b]) = Black
         /\ \A w : Leads(w, Headers) /\ Dark(heap, w) => Dark(heap', w)
         /\ Dark(heap', v)
<1> DEFINE B == Headers
<1>1. /\ heap' \in Words /\ Headers' = Headers /\ HeapShape'
      /\ SameShape(heap, heap', Headers) /\ SameFields(heap, heap', Headers)
      /\ \A b \in Headers : getColor(heap'[b]) =
           IF is_pointer(v) /\ b = hd_address(v) /\ getColor(heap[b]) = White THEN Gray
           ELSE getColor(heap[b])
      /\ FreeOf(heap', Headers) = FreeOf(heap, Headers)
      /\ Linked(heap', FreeOf(heap, Headers), free_head)
      /\ Used(heap', Headers) = Used(heap, Headers)
      /\ storage' \in [0 .. gray_cap - 1 -> Nat] /\ top' \in Int /\ top' <= gray_cap
      /\ top' >= 0 => Stacked(storage', top', GrayOf(heap', Headers))
      /\ Dark(heap', v)
  BY DarkenSound
<1>2. StateType'
  BY <1>1 DEF IInv, StateType, searchVars
<1>3. CallInv' /\ SearchInv' /\ SweepInv'
  BY DEF IInv, CallInv, SearchInv, SweepInv, searchVars
<1>4. ListInv'
  BY <1>1 DEF ListInv, listHead
<1>5. PointersInv'
  <2>1. Survivors = Used(heap, B) /\ Survivors \subseteq B /\ heap \in Words
        /\ Tiled(heap, B, zero_addr, heap_size)
    BY Basics
  <2>2. \A b \in B : b < heap_size
    BY <2>1 DEF Tiled
  <2>3. Survivors' = Survivors
    BY <1>1, <2>1, <2>2 DEF Survivors, sweptTo, Kept, Used
  <2>4. Closed(heap', Survivors, Survivors)
    BY <1>1, <2>1, ClosedFrame DEF IInv, PointersInv
  <2> QED
    BY <2>3, <2>4 DEF IInv, PointersInv
<1>6. \A b \in B : getColor(heap'[b]) = Black <=> getColor(heap[b]) = Black
  BY <1>1 DEF White, Gray, Black
<1>7. ColourInv'
  BY <1>1, <1>6 DEF IInv, ColourInv, colorOf, read_word
<1>8. StackInv'
  BY <1>1 DEF StackInv
<1>9. \A w : Leads(w, Headers) /\ Dark(heap, w) => Dark(heap', w)
  BY <1>1, DarkStays
<1> QED
  BY <1>1, <1>2, <1>3, <1>4, <1>5, <1>6, <1>7, <1>8, <1>9

\* A black block is still black, and its fields are still dark.
LEMMA TriColorFrame ==
  ASSUME IInv, Marking, NEW a \in Headers, colorOf(a) = Black, Scannable(heap, a),
         NEW k \in 1 .. wosizeOf(a)
  PROVE  /\ Leads(heap[FieldAt(a, k)], Survivors) /\ Leads(heap[FieldAt(a, k)], Headers)
         /\ heap[FieldAt(a, k)] \in Nat /\ FieldAt(a, k) \in Addresses \ Headers
<1>1. /\ Survivors = Used(heap, Headers) /\ Survivors \subseteq Headers /\ heap \in Words
      /\ Tiled(heap, Headers, zero_addr, heap_size)
  BY Basics DEF Marking
<1>2. a \in Survivors
  BY <1>1 DEF Used, colorOf, read_word, Blue, Black
<1>3. FieldAt(a, k) \in Addresses \ Headers
  BY <1>1, Places DEF wosizeOf, read_word
<1> QED
  BY <1>1, <1>2, <1>3 DEF IInv, PointersInv, Closed, Leads, wosizeOf, read_word, Words

\* What the two steps that darken a word have in common.
LEMMA DarkenedRoot ==
  ASSUME IInv, DarkenRoot
  PROVE  /\ pc = "roots" /\ i \in Roots /\ i \in Nat
         /\ roots[i] \in Nat /\ Leads(roots[i], Survivors)
         /\ \/ is_pointer(roots[i]) /\ darken_if_white(hd_address(roots[i]))
            \/ ~is_pointer(roots[i]) /\ UNCHANGED <<heap, stackVars>>
<1> DEFINE v == roots[i]
<1>1. pc = "roots" /\ i \in Roots /\ i \in Nat
  BY RootsAssumption DEF DarkenRoot, IInv, StateType, RootsDarkened, Roots
<1>2. v \in Nat /\ Leads(v, Survivors)
  BY <1>1 DEF IInv, StateType, PointersInv, RootsLead
<1>3. is_pointer(v) => isHeapRoot(v)
  <2>1. SUFFICES ASSUME is_pointer(v) PROVE wosizeOf(hd_address(v)) > 0
    BY DEF isHeapRoot
  <2>2. hd_address(v) \in Headers
    BY <1>2, <2>1, Basics DEF Leads
  <2> QED
    BY <2>2, Basics, FirstField DEF Sized, wosizeOf, read_word
<1>4. \/ is_pointer(v) /\ darken_if_white(hd_address(v))
      \/ ~is_pointer(v) /\ UNCHANGED <<heap, stackVars>>
  BY <1>3 DEF DarkenRoot, isHeapRoot
<1> QED
  BY <1>1, <1>2, <1>4

LEMMA DarkenedField ==
  ASSUME IInv, PushChild
  PROVE  /\ pc = "scan" /\ h_addr \in Headers /\ colorOf(h_addr) = Black /\ Scannable(heap, h_addr)
         /\ i \in Nat /\ i \in 1 .. wosizeOf(h_addr) /\ wosizeOf(h_addr) \in Nat
         /\ heap[FieldAt(h_addr, i)] \in Nat /\ Leads(heap[FieldAt(h_addr, i)], Survivors)
         /\ \/ is_pointer(heap[FieldAt(h_addr, i)]) /\ darken_if_white(hd_address(heap[FieldAt(h_addr, i)]))
            \/ ~is_pointer(heap[FieldAt(h_addr, i)]) /\ UNCHANGED <<heap, stackVars>>
<1> DEFINE v == heap[FieldAt(h_addr, i)]
<1>1. /\ pc = "scan" /\ i <= wosizeOf(h_addr)
      /\ \/ is_pointer(v) /\ darken_if_white(hd_address(v))
         \/ ~is_pointer(v) /\ UNCHANGED <<heap, stackVars>>
  <2>1. read_field(h_addr, i) = heap[h_addr + i * WordBytes]
    BY DEF read_field, read_word
  <2>2. h_addr + i * WordBytes = FieldAt(h_addr, i)
    BY DEF PushChild, FieldAt, IInv, StateType, WordBytes
  <2> QED
    BY <2>1, <2>2 DEF PushChild, check_and_darken
<1>2. /\ h_addr \in Headers /\ colorOf(h_addr) = Black /\ Scannable(heap, h_addr) /\ i \in Nat
      /\ i \in 1 .. wosizeOf(h_addr) /\ wosizeOf(h_addr) \in Nat
  <2>1. h_addr \in Headers /\ colorOf(h_addr) = Black /\ Scannable(heap, h_addr) /\ i \in 1 .. wosizeOf(h_addr) + 1
    BY <1>1 DEF IInv, ScanInv
  <2>2. wosizeOf(h_addr) \in Nat
    BY <2>1, Basics, Sizes DEF wosizeOf, read_word
  <2> QED
    BY <1>1, <2>1, <2>2
<1>3. v \in Nat /\ Leads(v, Survivors)
  BY <1>1, <1>2, TriColorFrame DEF Marking
<1> QED
  BY <1>1, <1>2, <1>3

LEMMA DarkenRootInv ==
  ASSUME IInv, DarkenRoot
  PROVE  IInv'
<1> DEFINE v == roots[i]
           B == Headers
<1>1. /\ pc = "roots" /\ pc' = "roots" /\ i \in Roots /\ i \in Nat
      /\ i' = i + 1 /\ UNCHANGED <<roots, free_head, pc, searchVars, h_addr, sweepVars>>
      /\ v \in Nat /\ Leads(v, Survivors)
      /\ \/ is_pointer(v) /\ darken_if_white(hd_address(v))
         \/ ~is_pointer(v) /\ UNCHANGED <<heap, stackVars>>
  BY DarkenedRoot DEF DarkenRoot
<1>5. /\ StateType' /\ CallInv' /\ HeapShape' /\ ListInv' /\ SearchInv' /\ PointersInv' /\ ColourInv'
      /\ StackInv' /\ SweepInv'
      /\ Headers' = B
      /\ \A b \in B : getColor(heap'[b]) = Black <=> getColor(heap[b]) = Black
      /\ \A w : Leads(w, B) /\ Dark(heap, w) => Dark(heap', w)
      /\ Dark(heap', v)
  <2> HIDE DEF v
  <2> QED
    BY <1>1, DarkenInv
<1>6. RootsDarkened'
  <2>1. \A r \in Roots : r < i + 1 => r < i \/ r = i
    BY <1>1 DEF Roots
  <2>2. \A r \in Roots : Leads(roots[r], B)
    BY Basics DEF IInv, PointersInv, RootsLead, Leads
  <2>3. \A r \in Roots : r < i + 1 => Dark(heap', roots[r])
    BY <1>1, <1>5, <2>1, <2>2 DEF IInv, RootsDarkened
  <2> QED
    BY <1>1, <2>3 DEF RootsDarkened
<1>7. TriColor'
  BY <1>1, <1>5 DEF IInv, ColourInv, TriColor, colorOf, read_word
<1> QED
  BY <1>1, <1>5, <1>6, <1>7 DEF IInv, ScanInv

LEMMA PushChildInv ==
  ASSUME IInv, PushChild
  PROVE  IInv'
<1> DEFINE v == heap[FieldAt(h_addr, i)]
           B == Headers
<1>1. /\ pc = "scan" /\ pc' = "scan" /\ h_addr' = h_addr /\ roots' = roots
      /\ i' = i + 1 /\ UNCHANGED <<roots, free_head, pc, searchVars, h_addr, sweepVars>>
      /\ v \in Nat /\ Leads(v, Survivors)
      /\ \/ is_pointer(v) /\ darken_if_white(hd_address(v))
         \/ ~is_pointer(v) /\ UNCHANGED <<heap, stackVars>>
  BY DarkenedField DEF PushChild
<1>2. /\ h_addr \in B /\ colorOf(h_addr) = Black /\ Scannable(heap, h_addr) /\ i \in Nat
      /\ i \in 1 .. wosizeOf(h_addr) /\ wosizeOf(h_addr) \in Nat
      /\ heap \in Words /\ Tiled(heap, B, zero_addr, heap_size) /\ Marking
  BY <1>1, DarkenedField, Basics DEF Marking
<1>4. /\ StateType' /\ CallInv' /\ HeapShape' /\ ListInv' /\ SearchInv' /\ PointersInv' /\ ColourInv'
      /\ StackInv' /\ SweepInv'
      /\ Headers' = B /\ SameShape(heap, heap', B) /\ SameFields(heap, heap', B)
      /\ \A b \in B : getColor(heap'[b]) = Black <=> getColor(heap[b]) = Black
      /\ \A w : Leads(w, B) /\ Dark(heap, w) => Dark(heap', w)
      /\ Dark(heap', v)
  <2> HIDE DEF v
  <2> QED
    BY <1>1, DarkenInv
<1>5. RootsDarkened'
  <2>1. \A r \in Roots : Leads(roots[r], B)
    BY Basics DEF IInv, PointersInv, RootsLead, Leads
  <2> QED
    BY <1>1, <1>4, <2>1 DEF IInv, RootsDarkened
<1>6. TriColor'
  <2>1. ASSUME NEW a \in B, getColor(heap'[a]) = Black, Scannable(heap', a), NEW k \in 1 .. getWosize(heap'[a]),
               ~(a = h_addr /\ k >= i + 1)
        PROVE  Dark(heap', heap'[FieldAt(a, k)])
    <3>1. colorOf(a) = Black /\ Scannable(heap, a) /\ k \in 1 .. wosizeOf(a)
      BY <1>4, <2>1 DEF SameShape, Scannable, colorOf, wosizeOf, read_word
    <3>2. Leads(heap[FieldAt(a, k)], B) /\ FieldAt(a, k) \in Addresses \ B
      BY <1>2, <3>1, TriColorFrame
    <3>3. heap'[FieldAt(a, k)] = heap[FieldAt(a, k)]
      BY <1>4, <3>2 DEF SameFields
    <3>4. CASE a = h_addr /\ k = i
      BY <1>4, <3>3, <3>4
    <3>5. CASE ~(a = h_addr /\ k = i)
      <4>1. ~(a = h_addr /\ k >= i)
        BY <1>2, <2>1, <3>1, <3>5
      <4>2. Dark(heap, heap[FieldAt(a, k)])
        BY <1>2, <3>1, <4>1 DEF IInv, TriColor
      <4> QED
        BY <1>4, <3>2, <3>3, <4>2
    <3> QED
      BY <3>4, <3>5
  <2> QED
    BY <1>1, <1>4, <2>1 DEF TriColor, colorOf, wosizeOf, read_word
<1>7. ScanInv'
  <2>1. i + 1 \in 1 .. wosizeOf(h_addr) + 1
    BY <1>2
  <2> QED
    BY <1>1, <1>2, <1>4, <2>1 DEF ScanInv, SameShape, Scannable, colorOf, wosizeOf, read_word
<1> QED
  BY <1>4, <1>5, <1>6, <1>7 DEF IInv

\* The entry at the top of the stack is a gray block.
LEMMA PoppedGray ==
  ASSUME IInv, MarkStep
  PROVE  /\ pc = "mark" /\ top \in 0 .. gray_cap - 1 /\ Stacked(storage, top, GrayOf(heap, Headers))
         /\ popped \in GrayOf(heap, Headers) /\ hd_address(popped) \in Headers
         /\ getColor(heap[hd_address(popped)]) = Gray /\ f_address(hd_address(popped)) = popped
<1>1. pc = "mark" /\ top # gray_cap /\ top >= 0 /\ top \in Int /\ top <= gray_cap /\ gray_cap \in Nat
  BY StackAssumption DEF MarkStep, PopStep, marking, stackEmpty, IInv, StateType
<1>2. top \in 0 .. gray_cap - 1 /\ top \in top .. gray_cap - 1
  BY <1>1
<1>3. Stacked(storage, top, GrayOf(heap, Headers))
  BY <1>1 DEF IInv, StackInv, Marking
<1>4. popped \in GrayOf(heap, Headers)
  BY <1>2, <1>3 DEF Stacked, popped
<1> QED
  BY <1>1, <1>2, <1>3, <1>4, Basics, GrayFacts

LEMMA MarkStepInv ==
  ASSUME IInv, MarkStep
  PROVE  /\ IInv' /\ Headers' = Headers /\ SameShape(heap, heap', Headers)
         /\ SameFields(heap, heap', Headers)
         /\ \A b \in Headers : getColor(heap'[b]) = IF b = hd_address(popped) THEN Black ELSE getColor(heap[b])
<1> DEFINE B == Headers
           a == hd_address(popped)
<1>1. /\ pc = "mark" /\ top \in 0 .. gray_cap - 1 /\ Stacked(storage, top, GrayOf(heap, B))
      /\ popped \in GrayOf(heap, B) /\ a \in B
      /\ getColor(heap[a]) = Gray /\ f_address(a) = popped
  BY PoppedGray
<1>2. /\ heap' = [heap EXCEPT ![a] = makeHeader(getWosize(heap[a]), Black, getTag(heap[a]))]
      /\ \/ getTag(heap[a]) \in no_scan_tag .. 255 /\ pc' = "mark" /\ h_addr' = 0 /\ i' = 0
         \/ getTag(heap[a]) \notin no_scan_tag .. 255 /\ pc' = "scan" /\ h_addr' = a /\ i' = 1
      /\ top' = top + 1
      /\ UNCHANGED <<roots, free_head, searchVars, storage, sweepVars>>
  BY DEF MarkStep, PopStep, mark_write_black, write_word, recolored, wosizeOf, tagOf, read_word
<1>3. /\ heap \in Words /\ B \subseteq Addresses /\ Tiled(heap, B, zero_addr, heap_size) /\ Sized(heap, B)
      /\ Survivors = Used(heap, B) /\ Linked(heap, FreeOf(heap, B), free_head)
  BY <1>1, Basics DEF IInv, ListInv, listHead
<1>4. /\ heap' \in Words /\ SameShape(heap, heap', B) /\ SameFields(heap, heap', B)
      /\ \A b \in B : getColor(heap'[b]) = IF b = a THEN Black ELSE getColor(heap[b])
  <2> DEFINE m == makeHeader(getWosize(heap[a]), Black, getTag(heap[a]))
  <2>1. a \in B /\ a \in Addresses /\ Black \in 0 .. 3 /\ DOMAIN heap = Addresses
    BY <1>1, <1>3 DEF Black, Words
  <2>2. m \in Nat /\ getWosize(m) = getWosize(heap[a]) /\ getColor(m) = Black /\ getTag(m) = getTag(heap[a])
    BY <1>3, <2>1, Repainted
  <2>3. heap' = [heap EXCEPT ![a] = m]
    BY <1>2
  <2> HIDE DEF m, a
  <2>4. heap' \in Words /\ heap'[a] = m /\ \A x \in Addresses : x # a => heap'[x] = heap[x]
    BY <1>3, <2>1, <2>2, <2>3 DEF Words
  <2>5. SameShape(heap, heap', B) /\ SameFields(heap, heap', B)
        /\ \A b \in B : b # a => getColor(heap'[b]) = getColor(heap[b])
    BY <1>3, <2>1, <2>2, <2>4, Painted
  <2> QED
    BY <2>2, <2>4, <2>5
<1>5. Headers' = B /\ HeapShape'
  BY <1>3, <1>4, ShapeFrame DEF Headers, HeapShape
<1>6. StateType'
  <2>1. top + 1 \in Int /\ top + 1 <= gray_cap
    BY <1>1, StackAssumption
  <2> QED
    BY <1>2, <1>4, <2>1 DEF IInv, StateType, Phases, searchVars
<1>7. ListInv'
  <2>1. FreeOf(heap', B) = FreeOf(heap, B)
    BY <1>1, <1>4 DEF FreeOf, Gray, Blue, Black
  <2>2. \A o \in FreeOf(heap, B) : heap'[o] = heap[o]
    BY <1>3, <1>4, FreeFacts DEF SameFields
  <2>3. Linked(heap', FreeOf(heap, B), free_head)
    BY <1>3, <2>2, LinkedFrame
  <2> QED
    BY <1>2, <1>5, <2>1, <2>3 DEF ListInv, listHead
<1>8. PointersInv'
  <2>1. Used(heap', B) = Used(heap, B)
    BY <1>1, <1>4 DEF Used, Gray, Blue, Black
  <2>2. \A b \in B : b < heap_size
    BY <1>3 DEF Tiled
  <2>3. Survivors' = Survivors
    BY <1>2, <1>3, <1>5, <2>1, <2>2 DEF Survivors, sweptTo, Kept, Used
  <2>4. Closed(heap', Survivors, Survivors)
    BY <1>3, <1>4, ClosedFrame, Basics DEF IInv, PointersInv
  <2> QED
    BY <1>2, <2>3, <2>4 DEF IInv, PointersInv
<1>9. \A w : Leads(w, B) /\ Dark(heap, w) => Dark(heap', w)
  BY <1>4, DarkStays
<1>10. RootsDarkened'
  <2>1. \A r \in Roots : Leads(roots[r], B)
    BY Basics DEF IInv, PointersInv, RootsLead, Leads
  <2> QED
    BY <1>1, <1>2, <1>9, <2>1 DEF IInv, RootsDarkened
<1>11. getTag(heap[a]) \in 0 .. 255
  BY <1>1, <1>3, HeaderType DEF Words
<1>12. TriColor'
  <2>1. ASSUME NEW b \in B, getColor(heap'[b]) = Black, Scannable(heap', b), NEW k \in 1 .. getWosize(heap'[b]),
               ~(pc' = "scan" /\ b = h_addr' /\ k >= i')
        PROVE  Dark(heap', heap'[FieldAt(b, k)])
    <3>1. Scannable(heap, b) /\ k \in 1 .. getWosize(heap[b]) /\ k >= 1
      BY <1>3, <1>4, <2>1 DEF SameShape, Scannable
    <3>2. b # a
      <4>1. SUFFICES ASSUME b = a PROVE FALSE
        OBVIOUS
      <4>2. getTag(heap[a]) \notin no_scan_tag .. 255
        BY <1>11, <3>1, <4>1 DEF Scannable, no_scan_tag
      <4> QED
        BY <1>2, <2>1, <3>1, <4>1, <4>2
    <3>3. colorOf(b) = Black /\ k \in 1 .. wosizeOf(b) /\ Marking
      BY <1>1, <1>4, <2>1, <3>1, <3>2 DEF colorOf, wosizeOf, read_word, Marking
    <3>4. Leads(heap[FieldAt(b, k)], B) /\ FieldAt(b, k) \in Addresses \ B
      BY <3>1, <3>3, TriColorFrame
    <3>5. Dark(heap, heap[FieldAt(b, k)])
      BY <1>1, <3>1, <3>3 DEF IInv, TriColor
    <3>6. heap'[FieldAt(b, k)] = heap[FieldAt(b, k)]
      BY <1>4, <3>4 DEF SameFields
    <3> QED
      BY <1>9, <3>4, <3>5, <3>6
  <2> QED
    BY <1>5, <2>1 DEF TriColor, colorOf, wosizeOf, read_word
<1>13. ScanInv'
  <2>1. SUFFICES ASSUME pc' = "scan"
                 PROVE  /\ a \in B /\ getColor(heap'[a]) = Black /\ Scannable(heap', a)
                        /\ i' \in 1 .. getWosize(heap'[a]) + 1 /\ h_addr' = a
    BY <1>5 DEF ScanInv, colorOf, wosizeOf, read_word
  <2>2. getTag(heap[a]) \notin no_scan_tag .. 255 /\ h_addr' = a /\ i' = 1
    BY <1>2, <2>1
  <2>3. Scannable(heap', a)
    BY <1>1, <1>4, <1>11, <2>2 DEF SameShape, Scannable, no_scan_tag
  <2>4. getWosize(heap'[a]) \in Nat
    BY <1>1, <1>3, <1>4, Sizes
  <2> QED
    BY <1>1, <1>4, <2>2, <2>3, <2>4
<1>14. StackInv'
  <2>1. GrayOf(heap', B) = GrayOf(heap, B) \ {popped}
    <3>1. \A b \in B : f_address(b) = popped <=> b = a
      <4>1. \A b \in B : hd_address(f_address(b)) = b
        BY <1>3, FirstField
      <4> QED
        BY <1>1, <4>1
    <3>2. {b \in B : getColor(heap'[b]) = Gray} = {b \in B : getColor(heap[b]) = Gray} \ {a}
      BY <1>1, <1>4 DEF Gray, Black
    <3> QED
      BY <3>1, <3>2 DEF GrayOf
  <2>2. /\ top \in top .. gray_cap - 1
        /\ \A n \in top .. gray_cap - 1 : n = top \/ n \in top + 1 .. gray_cap - 1
        /\ \A n \in top + 1 .. gray_cap - 1 : n # top /\ n \in top .. gray_cap - 1
    BY <1>1, StackAssumption
  <2>3. \A n \in top .. gray_cap - 1 : storage[n] = popped => n = top
    BY <1>1, <2>2 DEF Stacked, popped
  <2>4. \A n \in top + 1 .. gray_cap - 1 : storage[n] \in GrayOf(heap, B) /\ storage[n] # popped
    BY <1>1, <2>2, <2>3 DEF Stacked
  <2>5. ASSUME NEW o \in GrayOf(heap, B), o # popped
        PROVE  \E n \in top + 1 .. gray_cap - 1 : storage[n] = o
    <3>1. PICK n \in top .. gray_cap - 1 : storage[n] = o
      BY <1>1 DEF Stacked
    <3> QED
      BY <2>2, <2>5, <3>1 DEF popped
  <2>6. \A m, n \in top + 1 .. gray_cap - 1 : storage[m] = storage[n] => m = n
    BY <1>1, <2>2 DEF Stacked
  <2>7. Stacked(storage, top + 1, GrayOf(heap', B))
    BY <2>1, <2>4, <2>5, <2>6 DEF Stacked
  <2> QED
    BY <1>2, <1>5, <2>7 DEF StackInv
<1>15. CallInv' /\ SearchInv' /\ ColourInv' /\ SweepInv'
  BY <1>1, <1>2 DEF IInv, CallInv, SearchInv, ColourInv, SweepInv, searchVars
<1> QED
  BY <1>4, <1>5, <1>6, <1>7, <1>8, <1>10, <1>12, <1>13, <1>14, <1>15 DEF IInv

-----------------------------------------------------------------------------
(* Taking a block *)

\* Where the block that is taken lies, and what remains of it.
LEMMA TakeShape ==
  ASSUME IInv, TakeBlock, leftover # 1, req.wz # 0
  PROVE  /\ IsRequest(req) /\ req.wz >= 1 /\ wosize = req.wz
         /\ hdr_addr \in Headers /\ hdr_addr \in Nat /\ getColor(heap[hdr_addr]) = Blue
         /\ cur_val_addr = hdr_addr + 8 /\ cur_val_addr = FieldAt(hdr_addr, 1)
         /\ cur_val_addr \in FreeOf(heap, Headers) /\ cur_val_addr \in Nat
         /\ f_address(hdr_addr) = cur_val_addr
         /\ getWosize(heap[hdr_addr]) \in Nat /\ leftover = getWosize(heap[hdr_addr]) - req.wz
         /\ nextHeader(heap, hdr_addr) = hdr_addr + 8 + 8 * getWosize(heap[hdr_addr])
         /\ leftover >= 0 /\ leftover \in Int
         /\ splits <=> leftover # 0
         /\ splits => /\ rem_hdr_addr \in Addresses \ Headers /\ rem_hdr_addr = hdr_addr + 8 + 8 * req.wz
                      /\ rem_hdr_addr \in Nat
                      /\ f_address(rem_hdr_addr) \in Addresses \ Headers
                      /\ f_address(rem_hdr_addr) = rem_hdr_addr + 8
                      /\ f_address(rem_hdr_addr) < nextHeader(heap, hdr_addr)
                      /\ f_address(rem_hdr_addr) \notin FreeOf(heap, Headers)
                      /\ f_address(rem_hdr_addr) # 0
                      /\ rem_wosize \in Nat /\ rem_wosize >= 1 /\ rem_wosize = leftover - 1
                      /\ rem_wosize = getWosize(heap[hdr_addr]) - req.wz - 1
<1> DEFINE k == hdr_addr
           B == Headers
<1>1. /\ cur_val_addr \in FreeOf(heap, B) /\ k \in B /\ getColor(heap[k]) = Blue
      /\ f_address(k) = cur_val_addr /\ searching /\ fits
  BY AtFreeBlock DEF TakeBlock, Take, colorOf, read_word
<1>2. /\ heap \in Words /\ B \subseteq Addresses /\ Tiled(heap, B, zero_addr, heap_size) /\ Sized(heap, B)
      /\ zero_addr \in Nat /\ heap_size \in Nat /\ 0 \notin Addresses
  BY Basics, AddressFacts
<1>3. IsRequest(req) /\ req.wz \in Nat /\ req.wz >= 1
  BY <1>1 DEF IInv, CallInv, searching, IsRequest
<1>4. wosize = req.wz
  BY <1>3 DEF wosize
<1>5. /\ k \in Nat /\ k \in Addresses /\ getWosize(heap[k]) \in Nat
      /\ nextHeader(heap, k) = k + 8 + 8 * getWosize(heap[k]) /\ nextHeader(heap, k) <= heap_size
      /\ zero_addr <= k
  BY <1>1, <1>2, Sizes, AddressFacts, TileBounds
<1>6. cur_val_addr = k + 8 /\ cur_val_addr = FieldAt(k, 1) /\ cur_val_addr \in Nat
  BY <1>1, <1>2, <1>5, FirstField
<1>7. leftover = getWosize(heap[k]) - req.wz /\ leftover >= 0 /\ leftover \in Int
  BY <1>1, <1>3, <1>4, <1>5 DEF leftover, fits, blk_wosize, wosizeOf, read_word
<1>8. splits <=> leftover # 0
  BY <1>7 DEF splits
<1>9. ASSUME splits
      PROVE  /\ rem_hdr_addr \in Addresses \ Headers /\ rem_hdr_addr = k + 8 + 8 * req.wz
             /\ rem_hdr_addr \in Nat
             /\ f_address(rem_hdr_addr) \in Addresses \ Headers
             /\ f_address(rem_hdr_addr) = rem_hdr_addr + 8
             /\ f_address(rem_hdr_addr) < nextHeader(heap, k)
             /\ f_address(rem_hdr_addr) \notin FreeOf(heap, Headers)
             /\ f_address(rem_hdr_addr) # 0
             /\ rem_wosize \in Nat /\ rem_wosize >= 1 /\ rem_wosize = leftover - 1
             /\ rem_wosize = getWosize(heap[k]) - req.wz - 1
  <2>1. leftover >= 2
    BY <1>9 DEF splits
  <2>2. /\ req.wz + 1 \in 1 .. getWosize(heap[k]) /\ req.wz + 2 \in 1 .. getWosize(heap[k])
        /\ 1 \in 1 .. getWosize(heap[k]) /\ req.wz + 2 # 1
    BY <1>3, <1>5, <1>7, <2>1
  <2>3. /\ rem_hdr_addr = k + 8 + 8 * req.wz /\ rem_hdr_addr \in Nat
        /\ FieldAt(k, req.wz + 1) = rem_hdr_addr
        /\ f_address(rem_hdr_addr) = rem_hdr_addr + 8
        /\ FieldAt(k, req.wz + 2) = f_address(rem_hdr_addr)
    BY <1>3, <1>4, <1>5 DEF rem_hdr_addr, FieldAt, f_address, WordBytes
  <2>4. /\ FieldAt(k, req.wz + 1) \in Addresses \ B /\ FieldAt(k, req.wz + 2) \in Addresses \ B
        /\ FieldAt(k, req.wz + 2) < nextHeader(heap, k)
        /\ \A b \in B : \A n \in 1 .. getWosize(heap[b]) : FieldAt(b, n) = FieldAt(k, req.wz + 2) => n = req.wz + 2
    BY <1>1, <1>2, <2>2, Places
  <2>5. FieldAt(k, req.wz + 2) \notin FreeOf(heap, B)
    <3>1. SUFFICES ASSUME NEW b \in B, f_address(b) = FieldAt(k, req.wz + 2) PROVE FALSE
      BY DEF FreeOf
    <3>2. f_address(b) = FieldAt(b, 1) /\ 1 \in 1 .. getWosize(heap[b])
      BY <1>2, FirstField
    <3> QED
      BY <2>2, <2>4, <3>1, <3>2
  <2>6. rem_wosize = leftover - 1 /\ rem_wosize \in Nat /\ rem_wosize >= 1
    BY <1>7, <2>1 DEF rem_wosize
  <2> QED
    BY <1>2, <1>3, <1>5, <1>7, <2>3, <2>4, <2>5, <2>6
<1> QED
  BY <1>1, <1>3, <1>4, <1>5, <1>6, <1>7, <1>8, <1>9

\* What the words of the heap are afterwards.
LEMMA TakeWords ==
  ASSUME IInv, TakeBlock, leftover # 1, req.wz # 0
  PROVE  /\ heap' \in Words
         /\ heap'[hdr_addr] = makeHeader(req.wz, White, req.tag)
         /\ \A m \in 1 .. req.wz : heap'[FieldAt(hdr_addr, m)] = Val_unit
         /\ splits => /\ heap'[rem_hdr_addr] = makeHeader(rem_wosize, Blue, 0)
                      /\ heap'[f_address(rem_hdr_addr)] = heap[cur_val_addr]
         /\ prev_val_addr # 0 => heap'[prev_val_addr] = successor
         /\ \A x \in Addresses :
              (x < hdr_addr \/ x >= nextHeader(heap, hdr_addr)) /\ x # prev_val_addr => heap'[x] = heap[x]
         /\ prev_val_addr # 0 => /\ prev_val_addr \in FreeOf(heap, Headers)
                                 /\ heap[prev_val_addr] = cur_val_addr
                                 /\ prev_val_addr # cur_val_addr
         /\ prev_val_addr = 0 => cur_val_addr = free_head
         /\ heap[cur_val_addr] \in FreeOf(heap, Headers) \cup {0}
<1> DEFINE k == hdr_addr
           B == Headers
           c == cur_val_addr
           p == prev_val_addr
           r == rem_hdr_addr
<1>1. /\ IsRequest(req) /\ req.wz >= 1 /\ wosize = req.wz
      /\ k \in B /\ k \in Nat /\ getColor(heap[k]) = Blue
      /\ c = k + 8 /\ c = FieldAt(k, 1)
      /\ c \in FreeOf(heap, B) /\ c \in Nat
      /\ f_address(k) = c
      /\ getWosize(heap[k]) \in Nat /\ leftover = getWosize(heap[k]) - req.wz
      /\ nextHeader(heap, k) = k + 8 + 8 * getWosize(heap[k])
      /\ leftover >= 0 /\ leftover \in Int
  BY TakeShape
<1>2. splits => /\ r \in Addresses \ B /\ r = k + 8 + 8 * req.wz
                /\ r \in Nat
                /\ f_address(r) \in Addresses \ B
                /\ f_address(r) = r + 8
                /\ f_address(r) < nextHeader(heap, k)
                /\ rem_wosize \in Nat
  BY TakeShape
<1>3. /\ heap \in Words /\ B \subseteq Addresses /\ Tiled(heap, B, zero_addr, heap_size) /\ Sized(heap, B)
      /\ 0 \notin Addresses /\ \A x \in Addresses : x \in Nat
  BY Basics, AddressFacts
<1>4. req.wz \in Nat /\ req.tag \in 0 .. 255
  BY <1>1 DEF IsRequest
<1>5. \/ p = 0 /\ c = free_head
      \/ p # 0 /\ p \in FreeOf(heap, B) /\ heap[p] = c
  BY <1>3, FreeFacts DEF TakeBlock, Take, searching, IInv, SearchInv
<1>6. Linked(heap, FreeOf(heap, B), free_head)
  BY DEF TakeBlock, Take, searching, IInv, ListInv, listHead
<1>7. heap[c] \in FreeOf(heap, B) \cup {0} /\ heap[c] \in Nat
  <2>1. heap[c] \in FreeOf(heap, B) \cup {0}
    BY <1>1, <1>6 DEF Linked, Ranked
  <2> QED
    BY <1>3, <2>1, FreeFacts
\* The element before lies in another block.
<1>8. ASSUME p # 0
      PROVE  p # c /\ p \in Addresses /\ (p < k \/ p >= nextHeader(heap, k))
  <2>1. p \in FreeOf(heap, B) /\ heap[p] = c
    BY <1>5, <1>8
  <2>2. p # c
    <3>1. PICK rank \in [FreeOf(heap, B) \cup {0} -> Nat] : Ranked(heap, FreeOf(heap, B), free_head, rank)
      BY <1>6 DEF Linked
    <3> QED
      BY <1>1, <2>1, <3>1 DEF Ranked
  <2>3. PICK b \in B : p = f_address(b)
    BY <2>1 DEF FreeOf
  <2>4. p = FieldAt(b, 1) /\ 1 \in 1 .. getWosize(heap[b]) /\ b # k /\ b \in Nat
    BY <1>1, <1>3, <2>2, <2>3, FirstField
  <2>5. p \in Addresses /\ b < p /\ p < nextHeader(heap, b)
    BY <1>3, <2>4, Places
  <2>6. b < k => nextHeader(heap, b) <= k
    BY <1>1, <1>3 DEF Tiled
  <2>7. k < b => nextHeader(heap, k) <= b
    BY <1>1, <1>3 DEF Tiled
  <2>8. nextHeader(heap, b) \in Nat /\ p \in Nat
    BY <1>3, <2>5, Sizes
  <2> QED
    BY <1>1, <2>2, <2>4, <2>5, <2>6, <2>7, <2>8
<1> DEFINE m1 == makeHeader(req.wz, White, req.tag)
           m2 == makeHeader(rem_wosize, Blue, 0)
<1>9. m1 \in Nat /\ (splits => m2 \in Nat)
  <2>1. White \in 0 .. 3 /\ Blue \in 0 .. 3 /\ 0 \in 0 .. 255
    BY DEF White, Blue
  <2> QED
    BY <1>2, <1>4, <2>1, HeaderParts, ZenonT(60)
<1>10. successor \in Nat
  BY <1>2, <1>7 DEF successor, read_word
<1>11. heap' = [a \in Addresses |->
     CASE a = k -> m1
       [] a \in c .. c + 8 * req.wz - 1 ->
            IF (a - c) \div 8 < req.wz THEN Val_unit ELSE 0
       [] splits /\ a = r -> m2
       [] splits /\ a = f_address(r) -> heap[c]
       [] a = p -> successor
       [] OTHER -> heap[a]]
  BY <1>1 DEF TakeBlock, Take, taken, read_word, WordBytes
<1> HIDE DEF m1, m2, k, r, c, p
<1>12. ASSUME NEW a \in Addresses
       PROVE  /\ a = k => heap'[a] = m1
              /\ a \in c .. c + 8 * req.wz - 1 => heap'[a] = Val_unit
              /\ splits /\ a = r => heap'[a] = m2
              /\ splits /\ a = f_address(r) => heap'[a] = heap[c]
              /\ a = p => heap'[a] = successor
              /\ (a < k \/ a >= nextHeader(heap, k)) /\ a # p => heap'[a] = heap[a]
  <2>1. a \in Nat
    BY <1>3
  <2>2. CASE a = k
    <3>1. a \notin c .. c + 8 * req.wz - 1 /\ (splits => a # r /\ a # f_address(r)) /\ a < nextHeader(heap, k)
      BY <1>1, <1>2, <1>4, <2>2
    <3>2. a # p
      BY <1>1, <1>8, <2>2, <1>3
    <3>3. heap'[a] = m1
      BY <1>11, <2>2, <3>1, <3>2
    <3> QED
      BY <2>1, <2>2, <3>1, <3>2, <3>3, <1>1
  <2>3. CASE a \in c .. c + 8 * req.wz - 1
    <3>1. a # k /\ (splits => a # r /\ a # f_address(r)) /\ ~(a < k) /\ a < nextHeader(heap, k)
      BY <1>1, <1>2, <1>4, <2>1, <2>3
    <3>2. a # p
      BY <1>1, <1>3, <1>8, <3>1, <2>1
    <3>3. (a - c) \div 8 < req.wz
      BY <1>1, <1>4, <2>1, <2>3
    <3>4. heap'[a] = Val_unit
      BY <1>11, <2>3, <3>1, <3>2, <3>3
    <3> QED
      BY <2>1, <2>3, <3>1, <3>2, <3>4, <1>1
  <2>4. CASE splits /\ (a = r \/ a = f_address(r))
    <3>1. a # k /\ a \notin c .. c + 8 * req.wz - 1 /\ r # f_address(r) /\ ~(a < k) /\ a < nextHeader(heap, k)
      BY <1>1, <1>2, <1>4, <2>1, <2>4
    <3>2. a # p
      BY <1>1, <1>3, <1>8, <3>1, <2>1
    <3>3. a = r => heap'[a] = m2
      BY <1>11, <2>4, <3>1, <3>2
    <3>4. a = f_address(r) => heap'[a] = heap[c]
      BY <1>11, <2>4, <3>1, <3>2
    <3> QED
      BY <2>1, <2>4, <3>1, <3>2, <3>3, <3>4, <1>1
  <2>5. CASE a # k /\ a \notin c .. c + 8 * req.wz - 1 /\ ~(splits /\ (a = r \/ a = f_address(r)))
    <3>1. heap'[a] = IF a = p THEN successor ELSE heap[a]
      BY <1>11, <2>5
    <3> QED
      BY <2>5, <3>1
  <2> QED
    BY <2>2, <2>3, <2>4, <2>5
<1>13. heap' \in Words
  <2>1. \A a \in Addresses : heap'[a] \in Nat
    <3> SUFFICES ASSUME NEW a \in Addresses PROVE heap'[a] \in Nat
      OBVIOUS
    <3>1. heap[a] \in Nat /\ Val_unit \in Nat
      BY <1>3 DEF Words, Val_unit
    <3>2. CASE a = k \/ a \in c .. c + 8 * req.wz - 1 \/ (splits /\ (a = r \/ a = f_address(r))) \/ a = p
      BY <1>7, <1>9, <1>10, <1>12, <3>1, <3>2
    <3>3. CASE ~(a = k \/ a \in c .. c + 8 * req.wz - 1 \/ (splits /\ (a = r \/ a = f_address(r))) \/ a = p)
      <4>1. heap'[a] = heap[a]
        BY <1>11, <3>3
      <4> QED
        BY <3>1, <4>1
    <3> QED
      BY <3>2, <3>3
  <2>2. heap' = [a \in Addresses |-> heap'[a]]
    BY <1>11
  <2> QED
    BY <2>1, <2>2 DEF Words
<1>14. ASSUME NEW m \in 1 .. req.wz PROVE heap'[FieldAt(k, m)] = Val_unit
  <2>1. m \in 1 .. getWosize(heap[k])
    BY <1>1, <1>4
  <2>2. FieldAt(k, m) \in Addresses /\ FieldAt(k, m) = k + 8 * m
    BY <1>1, <1>3, <2>1, Places
  <2>3. FieldAt(k, m) \in c .. c + 8 * req.wz - 1
    BY <1>1, <1>4, <2>2
  <2> QED
    BY <1>12, <2>2, <2>3
<1>15. k \in Addresses
  BY <1>1, <1>3
<1>16. /\ splits => heap'[r] = m2 /\ heap'[f_address(r)] = heap[c]
       /\ p # 0 => heap'[p] = successor
       /\ heap'[k] = m1
       /\ \A x \in Addresses : (x < k \/ x >= nextHeader(heap, k)) /\ x # p => heap'[x] = heap[x]
  BY <1>2, <1>8, <1>12, <1>15
<1> QED
  BY <1>5, <1>7, <1>8, <1>13, <1>14, <1>16 DEF m1, m2, k, r, c, p

\* The blocks afterwards.
LEMMA TakeBlocks ==
  ASSUME IInv, TakeBlock, leftover # 1, req.wz # 0
  PROVE  /\ HeapShape' /\ Headers' = Headers \cup (IF splits THEN {rem_hdr_addr} ELSE {})
         /\ \A b \in Headers : b # hdr_addr => heap'[b] = heap[b]
         /\ \A b \in Headers : b # hdr_addr => b < hdr_addr \/ b >= nextHeader(heap, hdr_addr)
         /\ \A b \in Headers : b < hdr_addr => nextHeader(heap, b) <= hdr_addr
         /\ getWosize(heap'[hdr_addr]) = req.wz /\ getColor(heap'[hdr_addr]) = White
         /\ getTag(heap'[hdr_addr]) = req.tag
         /\ splits => getWosize(heap'[rem_hdr_addr]) = rem_wosize /\ getColor(heap'[rem_hdr_addr]) = Blue
<1> DEFINE k == hdr_addr
           B == Headers
           r == rem_hdr_addr
           g == heap'
<1>1. /\ req.wz \in Nat /\ req.tag \in 0 .. 255 /\ req.wz >= 1
      /\ k \in B /\ k \in Nat
      /\ getWosize(heap[k]) \in Nat /\ leftover = getWosize(heap[k]) - req.wz
      /\ nextHeader(heap, k) = k + 8 + 8 * getWosize(heap[k])
      /\ leftover >= 0 /\ leftover \in Int
      /\ splits <=> leftover # 0
  BY TakeShape DEF IsRequest
<1>2. splits => /\ r \in Addresses \ B /\ r = k + 8 + 8 * req.wz
                /\ r \in Nat /\ r < nextHeader(heap, k)
                /\ rem_wosize \in Nat /\ rem_wosize >= 1
                /\ rem_wosize = getWosize(heap[k]) - req.wz - 1
  BY <1>1, TakeShape
<1>3. /\ heap \in Words /\ B \subseteq Addresses /\ Tiled(heap, B, zero_addr, heap_size) /\ Sized(heap, B)
      /\ \A x \in Addresses : x \in Nat
      /\ heap_size \in Nat /\ zero_addr \in Addresses
  BY Basics, AddressFacts
<1>4. /\ g \in Words
      /\ g[k] = makeHeader(req.wz, White, req.tag)
      /\ splits => g[r] = makeHeader(rem_wosize, Blue, 0)
      /\ \A x \in Addresses : (x < k \/ x >= nextHeader(heap, k)) /\ x # prev_val_addr => g[x] = heap[x]
      /\ prev_val_addr # 0 => prev_val_addr \in FreeOf(heap, B)
  BY TakeWords
<1>5. getWosize(g[k]) = req.wz /\ getColor(g[k]) = White /\ getTag(g[k]) = req.tag
  <2>1. White \in 0 .. 3 /\ req.wz \in Nat /\ req.tag \in 0 .. 255
    BY <1>1 DEF White
  <2>2. /\ getWosize(makeHeader(req.wz, White, req.tag)) = req.wz
        /\ getColor(makeHeader(req.wz, White, req.tag)) = White
        /\ getTag(makeHeader(req.wz, White, req.tag)) = req.tag
    BY <2>1, HeaderParts, ZenonT(60)
  <2> QED
    BY <1>4, <2>2
<1>6. splits => getWosize(g[r]) = rem_wosize /\ getColor(g[r]) = Blue
  <2>1. SUFFICES ASSUME splits PROVE getWosize(g[r]) = rem_wosize /\ getColor(g[r]) = Blue
    OBVIOUS
  <2>2. rem_wosize \in Nat /\ Blue \in 0 .. 3 /\ 0 \in 0 .. 255
    BY <1>2, <2>1 DEF Blue
  <2>3. /\ getWosize(makeHeader(rem_wosize, Blue, 0)) = rem_wosize
        /\ getColor(makeHeader(rem_wosize, Blue, 0)) = Blue
    BY <2>2, HeaderParts, ZenonT(60)
  <2> QED
    BY <1>4, <2>1, <2>3
<1>7. /\ \A b \in B : b < k => nextHeader(heap, b) <= k
      /\ \A b \in B : b # k => b < k \/ b >= nextHeader(heap, k)
  <2>1. \A b \in B : b < k => nextHeader(heap, b) <= k
    BY <1>1, <1>3 DEF Tiled
  <2>2. \A b \in B : k < b => nextHeader(heap, k) <= b
    BY <1>1, <1>3 DEF Tiled
  <2>3. \A b \in B : b \in Nat /\ nextHeader(heap, k) \in Nat
    BY <1>1, <1>3
  <2> QED
    BY <1>1, <2>1, <2>2, <2>3
<1>8. \A b \in B : b # k => g[b] = heap[b]
  <2>1. prev_val_addr \notin B
    BY <1>3, <1>4, FreeFacts, AddressFacts
  <2> QED
    BY <1>3, <1>4, <1>7, <2>1
<1> DEFINE C == B \cup (IF splits THEN {r} ELSE {})
<1>9. /\ nextHeader(g, k) = k + 8 + 8 * req.wz
      /\ \A b \in B : b # k => nextHeader(g, b) = nextHeader(heap, b)
      /\ splits => nextHeader(g, k) = r /\ nextHeader(g, r) = nextHeader(heap, k)
      /\ ~splits => nextHeader(g, k) = nextHeader(heap, k)
  <2>1. k \in Addresses /\ (splits => r \in Addresses)
    BY <1>1, <1>2, <1>3
  <2>2. nextHeader(g, k) = k + 8 + 8 * req.wz
    BY <1>4, <1>5, <2>1, Sizes
  <2>3. \A b \in B : b # k => nextHeader(g, b) = nextHeader(heap, b)
    BY <1>8 DEF nextHeader
  <2>4. splits => nextHeader(g, r) = nextHeader(heap, k)
    <3>1. splits => nextHeader(g, r) = r + 8 + 8 * rem_wosize
      BY <1>4, <1>6, <2>1, Sizes
    <3> QED
      BY <1>1, <1>2, <3>1
  <2> QED
    BY <1>1, <1>2, <2>2, <2>3, <2>4
<1>10. Tiled(g, C, zero_addr, heap_size)
  <2>1. /\ zero_addr \in B \cup {heap_size}
        /\ \A a \in B : zero_addr <= a /\ a < heap_size /\ nextHeader(heap, a) \in B \cup {heap_size}
        /\ \A a, b \in B : a < b => nextHeader(heap, a) <= b
    BY <1>3 DEF Tiled
  <2>2. CASE ~splits
    <3>1. C = B /\ \A a \in B : nextHeader(g, a) = nextHeader(heap, a)
      BY <1>9, <2>2
    <3> QED
      BY <1>3, <2>1, <3>1 DEF Tiled
  <2>3. CASE splits
    <3>1. C = B \cup {r} /\ r \in Addresses /\ r \in Nat /\ k < r /\ r < nextHeader(heap, k)
          /\ nextHeader(heap, k) \in B \cup {heap_size} /\ nextHeader(heap, k) \in Nat
          /\ nextHeader(heap, k) <= heap_size
      BY <1>1, <1>2, <1>3, <2>1, <2>3, TileBounds
    <3>2. ASSUME NEW a \in C
          PROVE  zero_addr <= a /\ a < heap_size /\ nextHeader(g, a) \in C \cup {heap_size}
      <4>1. CASE a = r
        BY <1>3, <1>9, <2>1, <2>3, <3>1, <4>1, <1>1
      <4>2. CASE a = k
        BY <1>1, <1>9, <2>1, <2>3, <3>1, <4>2
      <4>3. CASE a \in B /\ a # k
        BY <1>9, <2>1, <3>1, <4>3
      <4> QED
        BY <3>1, <4>1, <4>2, <4>3
    <3>3. ASSUME NEW a \in C, NEW b \in C, a < b PROVE nextHeader(g, a) <= b
      <4>1. a \in Nat /\ b \in Nat
        BY <1>3, <3>1
      <4>2. CASE a = r
        <5>1. b \in B /\ k < b
          BY <1>1, <3>1, <3>3, <4>1, <4>2
        <5> QED
          BY <1>1, <1>9, <2>1, <2>3, <4>2, <5>1
      <4>3. CASE a = k
        <5>1. CASE b = r
          BY <1>9, <2>3, <3>1, <4>3, <5>1
        <5>2. CASE b \in B
          <6>1. nextHeader(heap, k) <= b
            BY <1>1, <2>1, <3>3, <4>3, <5>2
          <6> QED
            BY <1>9, <2>3, <3>1, <4>1, <4>3, <6>1
        <5> QED
          BY <3>1, <5>1, <5>2
      <4>4. CASE a \in B /\ a # k /\ b \in B
        BY <1>9, <2>1, <3>3, <4>4
      <4>5. CASE a \in B /\ a # k /\ b = r
        <5>1. a < k
          BY <1>1, <1>7, <3>1, <3>3, <4>1, <4>5
        <5>2. nextHeader(g, a) <= k /\ nextHeader(g, a) \in Nat
          BY <1>3, <1>7, <1>9, <4>5, <5>1, Sizes
        <5> QED
          BY <1>1, <3>1, <4>5, <5>2
      <4> QED
        BY <3>1, <4>2, <4>3, <4>4, <4>5
    <3>4. C \subseteq Addresses /\ zero_addr \in C \cup {heap_size}
      BY <1>3, <2>1, <3>1
    <3> QED
      BY <3>2, <3>3, <3>4 DEF Tiled
  <2> QED
    BY <2>2, <2>3
<1>11. Sized(g, C)
  BY <1>1, <1>2, <1>3, <1>5, <1>6, <1>8 DEF Sized
<1>12. Headers' = C
  BY <1>4, <1>10, WalkIs DEF Headers
<1>13. HeapShape'
  BY <1>10, <1>11, <1>12 DEF HeapShape
<1> QED
  BY <1>5, <1>6, <1>7, <1>8, <1>12, <1>13

\* The free list afterwards.
LEMMA TakeList ==
  ASSUME IInv, TakeBlock, leftover # 1, req.wz # 0
  PROVE  ListInv'
<1> DEFINE k == hdr_addr
           B == Headers
           F == FreeOf(heap, Headers)
           c == cur_val_addr
           p == prev_val_addr
           r == rem_hdr_addr
           d == f_address(rem_hdr_addr)
           g == heap'
           E == FreeOf(g, Headers')
<1>1. /\ k \in B /\ getColor(heap[k]) = Blue /\ f_address(k) = c
      /\ c = FieldAt(k, 1) /\ c \in F /\ 1 \in 1 .. getWosize(heap[k])
      /\ Linked(heap, F, free_head) /\ 0 \notin F /\ F \subseteq Addresses
      /\ heap \in Words /\ B \subseteq Addresses /\ Tiled(heap, B, zero_addr, heap_size) /\ Sized(heap, B)
  <2>1. /\ heap \in Words /\ B \subseteq Addresses /\ Tiled(heap, B, zero_addr, heap_size) /\ Sized(heap, B)
    BY Basics
  <2>2. Linked(heap, F, free_head)
    BY DEF TakeBlock, Take, searching, IInv, ListInv, listHead
  <2>3. k \in B /\ getColor(heap[k]) = Blue /\ f_address(k) = c /\ c = FieldAt(k, 1) /\ c \in F
    BY TakeShape
  <2> QED
    BY <2>1, <2>2, <2>3, FreeFacts, FirstField
<1>2. /\ splits => g[d] = heap[c] /\ d \notin F /\ d # 0
      /\ p # 0 => g[p] = successor /\ p \in F /\ heap[p] = c /\ p # c
      /\ p = 0 => c = free_head
      /\ \A x \in Addresses : (x < k \/ x >= nextHeader(heap, k)) /\ x # p => g[x] = heap[x]
  BY TakeWords, TakeShape
<1>3. /\ Headers' = B \cup (IF splits THEN {r} ELSE {})
      /\ \A b \in B : b # k => g[b] = heap[b]
      /\ \A b \in B : b # k => b < k \/ b >= nextHeader(heap, k)
      /\ \A b \in B : b < k => nextHeader(heap, b) <= k
      /\ getColor(g[k]) = White
      /\ splits => getColor(g[r]) = Blue
  BY TakeBlocks
<1>4. E = (F \ {c}) \cup (IF splits THEN {d} ELSE {})
  <2>1. \A b \in B : f_address(b) = c => b = k
    <3>1. \A b \in B : hd_address(f_address(b)) = b
      BY <1>1, FirstField
    <3> QED
      BY <1>1, <3>1
  <2>2. {b \in B : getColor(g[b]) = Blue} = {b \in B : getColor(heap[b]) = Blue} \ {k}
    BY <1>1, <1>3 DEF White, Blue
  <2>3. {f_address(a) : a \in {b \in B : getColor(g[b]) = Blue}} = F \ {c}
    BY <1>1, <2>1, <2>2 DEF FreeOf
  <2>4. {b \in Headers' : getColor(g[b]) = Blue}
          = {b \in B : getColor(g[b]) = Blue} \cup (IF splits THEN {r} ELSE {})
    BY <1>3
  <2>5. E = {f_address(a) : a \in {b \in B : getColor(g[b]) = Blue}} \cup (IF splits THEN {d} ELSE {})
    BY <2>4 DEF FreeOf
  <2> QED
    BY <2>3, <2>5
<1>5. ASSUME NEW o \in F \ {c}, o # p PROVE g[o] = heap[o]
  <2>1. PICK b \in B : o = f_address(b)
    BY DEF FreeOf
  <2>2. /\ o = FieldAt(b, 1) /\ 1 \in 1 .. getWosize(heap[b]) /\ b # k /\ b \in Nat
    BY <1>1, <2>1, FirstField
  <2>3. o \in Addresses /\ b < o /\ o < nextHeader(heap, b)
    BY <1>1, <2>2, Places
  <2>4. /\ o \in Nat /\ k \in Nat /\ nextHeader(heap, b) \in Nat /\ nextHeader(heap, k) \in Nat
    BY <1>1, <2>3, Sizes, AddressFacts
  <2>5. o < k \/ o >= nextHeader(heap, k)
    BY <1>3, <2>2, <2>3, <2>4
  <2> QED
    BY <1>2, <1>5, <2>3, <2>5
<1>6. /\ successor = IF splits THEN d ELSE heap[c]
      /\ free_head' = IF p = 0 THEN successor ELSE free_head
      /\ pc' = "mutator"
  BY DEF successor, read_word, TakeBlock, Take
<1> HIDE DEF E, F, d, r, k, c, p
<1>7. Linked(g, E, free_head')
  <2>1. CASE p = 0
    <3>1. Linked(heap, F \ {c}, heap[c]) /\ c = free_head
      BY <1>1, <1>2, <2>1, LinkedPop
    <3>2. \A o \in F \ {c} : g[o] = heap[o]
      BY <1>1, <1>5, <2>1
    <3>3. CASE splits
      <4>1. Linked(g, (F \ {c}) \cup {d}, d)
        BY <1>1, <1>2, <3>1, <3>2, <3>3, LinkedPush
      <4> QED
        BY <1>4, <1>6, <2>1, <3>3, <4>1
    <3>4. CASE ~splits
      <4>1. Linked(g, F \ {c}, heap[c])
        BY <3>1, <3>2, LinkedFrame
      <4>2. E = F \ {c}
        BY <1>4, <3>4
      <4> QED
        BY <1>6, <2>1, <3>4, <4>1, <4>2
    <3> QED
      BY <3>3, <3>4
  <2>2. CASE p # 0
    <3>1. \A o \in F \ {p, c} : g[o] = heap[o]
      BY <1>5
    <3>2. CASE splits
      <4>1. Linked(g, (F \ {c}) \cup {d}, free_head)
        BY <1>1, <1>2, <1>6, <2>2, <3>1, <3>2, LinkedReplace
      <4> QED
        BY <1>4, <1>6, <2>2, <3>2, <4>1
    <3>3. CASE ~splits
      <4>1. Linked(g, F \ {c}, free_head)
        BY <1>1, <1>2, <1>6, <2>2, <3>1, <3>3, LinkedUnlink
      <4>2. E = F \ {c}
        BY <1>4, <3>3
      <4> QED
        BY <1>6, <2>2, <4>1, <4>2
    <3> QED
      BY <3>2, <3>3
  <2> QED
    BY <2>1, <2>2
<1> QED
  BY <1>6, <1>7 DEF ListInv, listHead, E

\* The object is new, the words of the others are untouched.
LEMMA TakeObjects ==
  ASSUME IInv, TakeBlock, leftover # 1, req.wz # 0
  PROVE  /\ Used(heap', Headers') = Used(heap, Headers) \cup {hdr_addr}
         /\ \A b \in Used(heap, Headers) :
              /\ heap'[b] = heap[b]
              /\ \A m \in 1 .. getWosize(heap[b]) : heap'[FieldAt(b, m)] = heap[FieldAt(b, m)]
<1> DEFINE k == hdr_addr
           B == Headers
<1>1. /\ k \in B /\ getColor(heap[k]) = Blue
      /\ heap \in Words /\ B \subseteq Addresses /\ Tiled(heap, B, zero_addr, heap_size) /\ Sized(heap, B)
      /\ splits => rem_hdr_addr \notin B
  BY TakeShape, Basics
<1>2. /\ Headers' = B \cup (IF splits THEN {rem_hdr_addr} ELSE {})
      /\ \A b \in B : b # k => heap'[b] = heap[b]
      /\ \A b \in B : b # k => b < k \/ b >= nextHeader(heap, k)
      /\ \A b \in B : b < k => nextHeader(heap, b) <= k
      /\ getColor(heap'[k]) = White
      /\ splits => getColor(heap'[rem_hdr_addr]) = Blue
  BY TakeBlocks
<1>3. /\ \A x \in Addresses : (x < k \/ x >= nextHeader(heap, k)) /\ x # prev_val_addr => heap'[x] = heap[x]
      /\ prev_val_addr # 0 => prev_val_addr \in FreeOf(heap, B)
  BY TakeWords
<1>4. Used(heap', Headers') = Used(heap, B) \cup {k}
  BY <1>1, <1>2 DEF Used, White, Blue
<1>5. ASSUME NEW b \in Used(heap, B)
      PROVE  /\ heap'[b] = heap[b]
             /\ \A m \in 1 .. getWosize(heap[b]) : heap'[FieldAt(b, m)] = heap[FieldAt(b, m)]
  <2>1. b \in B /\ b # k /\ getColor(heap[b]) # Blue
    BY <1>1 DEF Used
  <2>2. ASSUME NEW m \in 1 .. getWosize(heap[b]) PROVE heap'[FieldAt(b, m)] = heap[FieldAt(b, m)]
    <3>1. /\ FieldAt(b, m) \in Addresses /\ b < FieldAt(b, m) /\ FieldAt(b, m) < nextHeader(heap, b)
      BY <1>1, <2>1, Places
    <3>2. /\ b \in Nat /\ FieldAt(b, m) \in Nat /\ k \in Nat /\ nextHeader(heap, b) \in Nat
          /\ nextHeader(heap, k) \in Nat
      BY <1>1, <2>1, <3>1, Sizes, AddressFacts
    <3>3. FieldAt(b, m) < k \/ FieldAt(b, m) >= nextHeader(heap, k)
      BY <1>2, <2>1, <3>1, <3>2
    <3>4. FieldAt(b, m) # prev_val_addr
      <4>1. SUFFICES ASSUME FieldAt(b, m) = prev_val_addr PROVE FALSE
        OBVIOUS
      <4>2. FieldAt(b, m) # 0
        BY <3>1, AddressFacts
      <4>3. PICK a \in B : getColor(heap[a]) = Blue /\ f_address(a) = FieldAt(b, m)
        BY <1>3, <4>1, <4>2 DEF FreeOf
      <4>4. FieldAt(a, 1) = FieldAt(b, m) /\ 1 \in 1 .. getWosize(heap[a])
        BY <1>1, <4>3, FirstField
      <4>5. a = b
        BY <1>1, <2>1, <4>4, Places
      <4> QED
        BY <2>1, <4>3, <4>5
    <3> QED
      BY <1>3, <3>1, <3>3, <3>4
  <2> QED
    BY <1>2, <2>1, <2>2
<1> QED
  BY <1>4, <1>5

LEMMA TakeBlockInv ==
  ASSUME IInv, TakeBlock, leftover # 1, req.wz # 0
  PROVE  IInv'
<1> DEFINE k == hdr_addr
           B == Headers
<1>1. /\ pc = "search" /\ pc' = "mutator" /\ req' = NoRequest /\ retried' = FALSE
      /\ roots' = [roots EXCEPT ![req.root] = cur_val_addr]
      /\ UNCHANGED <<stackVars, h_addr, i, sweepVars>>
  BY DEF TakeBlock, Take, searching
<1>2. /\ HeapShape' /\ heap' \in Words
      /\ \A b \in B : b # k => heap'[b] = heap[b]
      /\ getColor(heap'[k]) = White
      /\ getWosize(heap'[k]) = req.wz
      /\ splits => getColor(heap'[rem_hdr_addr]) = Blue
      /\ \A m \in 1 .. req.wz : heap'[FieldAt(k, m)] = Val_unit
      /\ Headers' = B \cup (IF splits THEN {rem_hdr_addr} ELSE {})
  BY TakeBlocks, TakeWords
<1>3. /\ cur_val_addr \in Nat /\ hd_address(cur_val_addr) = k /\ k \in B
  BY TakeShape, AtFreeBlock DEF TakeBlock, Take
<1>4. /\ Used(heap', Headers') = Used(heap, B) \cup {k}
      /\ \A b \in Used(heap, B) :
              /\ heap'[b] = heap[b]
              /\ \A m \in 1 .. getWosize(heap[b]) : heap'[FieldAt(b, m)] = heap[FieldAt(b, m)]
  BY TakeObjects
<1>5. StateType'
  <2>1. roots' \in [Roots -> Nat]
    BY <1>1, <1>3 DEF IInv, StateType
  <2> QED
    BY <1>1, <1>2, <2>1 DEF IInv, StateType, Phases, stackVars
<1>6. ListInv'
  BY TakeList
<1>7. PointersInv'
  <2>1. Survivors = Used(heap, B)
    BY <1>1, Basics
  <2>2. Survivors' = Used(heap', Headers')
    <3>1. \A a \in Headers' : a < heap_size
      BY <1>2 DEF HeapShape, Tiled
    <3> QED
      BY <1>1, <3>1 DEF Survivors, sweptTo, Kept, Used
  <2>3. Survivors' = Survivors \cup {k}
    BY <1>4, <2>1, <2>2
  <2>4. \A w : Leads(w, Survivors) => Leads(w, Survivors')
    BY <2>3 DEF Leads
  <2>5. RootsLead(roots', Survivors')
    <3>1. \A r \in Roots : roots'[r] = cur_val_addr \/ roots'[r] = roots[r]
      BY <1>1 DEF IInv, StateType
    <3>2. Leads(cur_val_addr, Survivors')
      BY <1>3, <2>3 DEF Leads
    <3> QED
      BY <2>4, <3>1, <3>2 DEF IInv, PointersInv, RootsLead
  <2>6. ASSUME NEW b \in Survivors', Scannable(heap', b), NEW m \in 1 .. getWosize(heap'[b])
        PROVE  Leads(heap'[FieldAt(b, m)], Survivors')
    <3>1. CASE b = k
      BY <1>2, <2>6, <3>1, PointerFacts DEF Leads
    <3>2. CASE b \in Survivors
      <4>1. /\ Scannable(heap, b) /\ m \in 1 .. getWosize(heap[b])
            /\ heap'[FieldAt(b, m)] = heap[FieldAt(b, m)]
        BY <1>4, <2>1, <2>6, <3>2 DEF Scannable
      <4>2. Leads(heap[FieldAt(b, m)], Survivors)
        BY <3>2, <4>1 DEF IInv, PointersInv, Closed
      <4> QED
        BY <2>4, <4>1, <4>2
    <3> QED
      BY <2>3, <3>1, <3>2
  <2>7. Closed(heap', Survivors', Survivors')
    BY <2>6 DEF Closed
  <2> QED
    BY <2>5, <2>7 DEF PointersInv
<1>8. ColourInv'
  <2>1. \A a \in B : getColor(heap[a]) \in {White, Blue}
    BY <1>1 DEF IInv, ColourInv, colorOf, read_word
  <2>2. \A a \in Headers' : getColor(heap'[a]) \in {White, Blue}
    BY <1>2, <2>1
  <2> QED
    BY <1>1, <2>2 DEF ColourInv, colorOf, read_word
<1> QED
  BY <1>1, <1>2, <1>5, <1>6, <1>7, <1>8
     DEF IInv, CallInv, SearchInv, RootsDarkened, TriColor, ScanInv, StackInv, SweepInv, Marking

-----------------------------------------------------------------------------
(* Every step preserves the invariant *)

\* A contract that is kept has been kept all along, and the step left no word
\* uncovered and gave out no infix pointer.
LEMMA ContractStep ==
  ASSUME [Next]_vars, contract'
  PROVE  contract /\ ~TakeClosures /\ (TakeBlock => leftover # 1 /\ req.wz # 0)
<1>1. ASSUME Take PROVE ~spare /\ leftover # 1 /\ req.wz # 0
  BY <1>1 DEF Take, contract, leavesSpare
<1>2. ~TakeClosures
  BY DEF TakeClosures, contract
<1>3. CASE TakeBlock
  <2>1. Take /\ inner' = inner
    BY <1>3 DEF TakeBlock
  <2> QED
    BY <1>1, <1>2, <2>1 DEF contract
<1>4. CASE UNCHANGED history /\ ~TakeBlock
  BY <1>2, <1>4 DEF history, contract
<1>5. UNCHANGED history \/ TakeBlock \/ TakeClosures
  BY DEF Next, Runtime, Store, Forget, Request, NextBlock, OutOfMemory, CollectAndRetry, Trigger, verified_gc,
         DarkenRoot, EndRoots, MarkStep, PopStep, PushChild, EndScan, EndMark, StartSweep, SweepOther,
         SweepBlack, SweepWhite, sweep_loop_body, EndSweep, vars
<1> QED
  BY <1>2, <1>3, <1>4, <1>5

LEMMA StepInv ==
  ASSUME IInv, [Next]_vars, contract'
  PROVE  IInv'
<1>1. CASE Store
  BY <1>1, StoreInv
<1>2. CASE Forget
  BY <1>2, ForgetInv
<1>3. CASE Request
  BY <1>3, RequestInv
<1>4. CASE Trigger(gray_cap)
  BY <1>4, CollectInv DEF Trigger, IInv, StateType
<1>5. CASE NextBlock
  BY <1>5, NextBlockInv
<1>6. CASE TakeBlock
  BY <1>6, ContractStep, TakeBlockInv
<1>7. CASE CollectAndRetry(gray_cap)
  BY <1>7, CollectInv DEF CollectAndRetry, noBlock
<1>8. CASE OutOfMemory
  BY <1>8, OutOfMemoryInv
<1>9. CASE DarkenRoot
  BY <1>9, DarkenRootInv
<1>10. CASE EndRoots
  BY <1>10, EndRootsInv
<1>11. CASE MarkStep
  BY <1>11, MarkStepInv
<1>12. CASE PushChild
  BY <1>12, PushChildInv
<1>13. CASE EndScan
  BY <1>13, EndScanInv
<1>14. CASE EndMark
  BY <1>14, EndMarkInv
<1>15. CASE SweepWhite
  BY <1>15, SweepWhiteInv
<1>16. CASE SweepBlack
  BY <1>16, SweepBlackInv
<1>17. CASE SweepOther
  BY <1>17, SweepOtherInv
<1>18. CASE EndSweep
  BY <1>18, EndSweepInv
<1>19. CASE UNCHANGED vars
  BY <1>19, StutterInv
<1> QED
  BY ContractStep, <1>1, <1>2, <1>3, <1>4, <1>5, <1>6, <1>7, <1>8, <1>9, <1>10, <1>11, <1>12, <1>13, <1>14, <1>15,
     <1>16, <1>17, <1>18, <1>19 DEF Next, Runtime

THEOREM Invariance == Spec => [](contract => IInv)
<1>1. (contract => IInv) /\ [Next]_vars => (contract' => IInv')
  BY ContractStep, StepInv
<1> QED
  BY <1>1, InitInv, PTL DEF Spec

\* The invariant says of the walk and the list what the property says.
LEMMA FreeListExactHolds == IInv => FreeListExact
<1> SUFFICES ASSUME IInv PROVE FreeListExact
  OBVIOUS
<1> DEFINE F == FreeOf(heap, Headers)
<1>1. /\ heap \in Words /\ Tiled(heap, Headers, zero_addr, heap_size) /\ Sized(heap, Headers)
      /\ Linked(heap, F, listHead)
  BY Basics DEF IInv, ListInv
<1>2. walkOf(heap)[HeapWords] = heap_size
  BY <1>1, WalkIs
<1>3. F = {f_address(a) : a \in freeBlocks}
  BY DEF FreeOf, freeBlocks, colorOf, read_word
<1>4. F \in SUBSET Addresses /\ zero_addr \notin F
  BY <1>1, FreeFacts
<1>5. /\ chain[HeapWords] = 0
      /\ {chain[n] : n \in 0 .. HeapWords} \ {0} = F
      /\ \A m, n \in 0 .. HeapWords : chain[m] = chain[n] /\ chain[m] # 0 => m = n
  BY <1>1, <1>4, ChainIs
<1> QED
  BY <1>2, <1>3, <1>5 DEF FreeListExact

LEMMA StackExactHolds == IInv /\ StackInBounds => StackExact
<1> SUFFICES ASSUME IInv, StackInBounds, pc \in {"roots", "mark", "scan"}
             PROVE  /\ {storage[k] : k \in top .. gray_cap - 1} = {f_address(a) : a \in grayBlocks}
                    /\ \A m, n \in top .. gray_cap - 1 : storage[m] = storage[n] => m = n
  BY DEF StackExact
<1>1. top >= 0
  BY DEF StackInBounds
<1>2. Stacked(storage, top, GrayOf(heap, Headers))
  BY <1>1 DEF IInv, StackInv, Marking
<1>3. GrayOf(heap, Headers) = {f_address(a) : a \in grayBlocks}
  BY DEF GrayOf, grayBlocks, colorOf, read_word
<1> QED
  BY <1>2, <1>3 DEF Stacked

-----------------------------------------------------------------------------
(* Sizes and tags change only when a block is taken *)

LEMMA SizesKept ==
  ASSUME IInv, [Next]_vars, ~TakeBlock, ~TakeClosures
  PROVE  Headers' = Headers /\ SameShape(heap, heap', Headers)
<1>1. CASE heap' = heap
  BY <1>1, SameHeap DEF SameShape
<1>2. CASE Store
  <2>1. IInv'
    BY <1>2, StoreInv
  <2>2. PICK r \in Roots, s \in Roots : /\ is_pointer(roots[r])
                     /\ \E k \in 0 .. wosizeOf(hd_address(roots[r])) - 1 :
                          write_word(roots[r] + WordBytes * k, roots[s])
    BY <1>2 DEF Store
  <2> DEFINE a == hd_address(roots[r])
  <2>3. PICK k \in 0 .. wosizeOf(a) - 1 : write_word(roots[r] + WordBytes * k, roots[s])
    BY <2>2
  <2>4. /\ heap \in Words /\ Tiled(heap, Headers, zero_addr, heap_size) /\ Sized(heap, Headers)
        /\ Headers \subseteq Addresses /\ roots[r] \in Nat /\ a \in Headers
    BY <1>2, <2>2, Basics DEF Store, IInv, StateType, PointersInv, RootsLead, Leads
  <2>5. getWosize(heap[a]) \in Nat /\ a \in Nat
    BY <2>4, Sizes, AddressFacts
  <2>6. k + 1 \in 1 .. getWosize(heap[a]) /\ k \in Int
    BY <2>5 DEF wosizeOf, read_word
  <2>7. FieldAt(a, k + 1) \notin Headers /\ FieldAt(a, k + 1) = a + 8 * (k + 1)
    BY <2>4, <2>6, Places
  <2>8. FieldAt(a, k + 1) = roots[r] + WordBytes * k
    BY <2>4, <2>5, <2>6, <2>7 DEF hd_address, WordBytes
  <2>9. \A b \in Headers : heap'[b] = heap[b]
    BY <2>3, <2>4, <2>7, <2>8 DEF write_word, Words
  <2>10. SameShape(heap, heap', Headers)
    BY <2>9 DEF SameShape
  <2>11. heap' \in Words
    BY <2>1 DEF IInv, StateType
  <2> QED
    BY <2>4, <2>10, <2>11, ShapeFrame DEF Headers
<1>3. CASE DarkenRoot
  BY <1>3, DarkenedRoot, DarkenSound
<1>4. CASE MarkStep
  BY <1>4, MarkStepInv
<1>5. CASE PushChild
  <2> DEFINE v == heap[FieldAt(h_addr, i)]
  <2>1. /\ pc = "scan" /\ v \in Nat /\ Leads(v, Survivors)
        /\ \/ is_pointer(v) /\ darken_if_white(hd_address(v))
           \/ ~is_pointer(v) /\ UNCHANGED <<heap, stackVars>>
    BY <1>5, DarkenedField
  <2> HIDE DEF v
  <2> QED
    BY <2>1, DarkenSound
<1>6. CASE SweepWhite
  BY <1>6, SweepWhiteInv
<1>7. CASE SweepBlack
  BY <1>7, SweepBlackInv
<1>8. heap' = heap \/ Store \/ DarkenRoot \/ MarkStep \/ PushChild \/ SweepWhite \/ SweepBlack
  BY DEF Next, Runtime, Forget, Request, Trigger, verified_gc, NextBlock, CollectAndRetry, OutOfMemory,
         EndRoots, EndScan, EndMark, StartSweep, SweepOther, EndSweep, vars
<1> QED
  BY <1>1, <1>2, <1>3, <1>4, <1>5, <1>6, <1>7, <1>8

-----------------------------------------------------------------------------
(* A stack that has room for every block of the heap never overflows *)

RoomForAll == HeapWords <= 2 * gray_cap

\* The gray stack that verified_gc allocates, in a heap of at most 64 KB.
BridgeStack == gray_cap = (IF HeapWords \div 8 < 4096 THEN 4096 ELSE HeapWords \div 8)
SmallHeap == HeapWords <= 8192

LEMMA SmallHeapFits == BridgeStack /\ SmallHeap => RoomForAll
BY HeapAssumption DEF BridgeStack, SmallHeap, RoomForAll

\* Blocks have at least two words.
LEMMA FewBlocks ==
  ASSUME NEW h \in Words, NEW B, Tiled(h, B, zero_addr, heap_size), Sized(h, B)
  PROVE  /\ \A a \in B : (a - zero_addr) \div 16 \in 0 .. HeapWords \div 2 - 1
         /\ \A a, b \in B : (a - zero_addr) \div 16 = (b - zero_addr) \div 16 => a = b
<1>1. /\ zero_addr \in Nat /\ zero_addr \in Addresses /\ heap_size \in Nat /\ HeapWords \in Nat
      /\ heap_size = zero_addr + 8 * HeapWords
      /\ B \subseteq Addresses /\ \A a \in B : a \in Nat /\ zero_addr <= a
  BY AddressFacts, HeapAssumption DEF heap_size, WordBytes, Tiled
<1>2. ASSUME NEW a \in B
      PROVE  /\ a + 16 <= nextHeader(h, a) /\ nextHeader(h, a) <= heap_size /\ nextHeader(h, a) \in Nat
  BY <1>1, Sizes, TileBounds DEF Sized
<1>3. ASSUME NEW a \in B PROVE (a - zero_addr) \div 16 \in 0 .. HeapWords \div 2 - 1
  <2>1. a - zero_addr \in Nat /\ a - zero_addr + 16 <= 8 * HeapWords
    BY <1>1, <1>2
  <2>2. (a - zero_addr) \div 16 + 1 <= HeapWords \div 2
    BY <1>1, <2>1
  <2> QED
    BY <2>1, <2>2, <1>1
<1>4. ASSUME NEW a \in B, NEW b \in B, a < b PROVE (a - zero_addr) \div 16 # (b - zero_addr) \div 16
  <2>1. nextHeader(h, a) <= b
    BY <1>4 DEF Tiled
  <2>2. a - zero_addr \in Nat /\ b - zero_addr \in Nat /\ a - zero_addr + 16 <= b - zero_addr
    BY <1>1, <1>2, <2>1
  <2> QED
    BY <2>2
<1> QED
  BY <1>1, <1>3, <1>4

LEMMA RoomToPush ==
  ASSUME RoomForAll, IInv, Marking, top = 0
  PROVE  \A a \in Headers : getColor(heap[a]) # White
<1> SUFFICES ASSUME NEW a \in Headers, getColor(heap[a]) = White PROVE FALSE
  OBVIOUS
<1>1. /\ heap \in Words /\ Tiled(heap, Headers, zero_addr, heap_size) /\ Sized(heap, Headers)
      /\ Stacked(storage, 0, GrayOf(heap, Headers)) /\ gray_cap \in Nat /\ HeapWords \in Nat
  BY Basics, StackAssumption, HeapAssumption DEF IInv, StackInv
<1> DEFINE e == [n \in 0 .. gray_cap |-> IF n = gray_cap THEN a ELSE hd_address(storage[n])]
           f == [n \in 0 .. gray_cap |-> (e[n] - zero_addr) \div 16]
<1>2. ASSUME NEW n \in 0 .. gray_cap - 1
      PROVE  /\ n \in 0 .. gray_cap /\ n # gray_cap /\ hd_address(storage[n]) \in Headers
             /\ getColor(heap[hd_address(storage[n])]) = Gray /\ f_address(hd_address(storage[n])) = storage[n]
  <2>1. storage[n] \in GrayOf(heap, Headers)
    BY <1>1 DEF Stacked
  <2> QED
    BY <1>1, <2>1, GrayFacts
<1>3. \A n \in 0 .. gray_cap : e[n] \in Headers
  BY <1>1, <1>2
<1>4. ASSUME NEW m \in 0 .. gray_cap, NEW n \in 0 .. gray_cap, e[m] = e[n] PROVE m = n
  <2>1. CASE m = gray_cap /\ n = gray_cap
    BY <2>1
  <2>2. CASE m = gray_cap /\ n # gray_cap
    <3>1. n \in 0 .. gray_cap - 1 /\ a = hd_address(storage[n])
      BY <1>1, <1>4, <2>2
    <3> QED
      BY <1>2, <3>1 DEF White, Gray
  <2>3. CASE m # gray_cap /\ n = gray_cap
    <3>1. m \in 0 .. gray_cap - 1 /\ a = hd_address(storage[m])
      BY <1>1, <1>4, <2>3
    <3> QED
      BY <1>2, <3>1 DEF White, Gray
  <2>4. CASE m # gray_cap /\ n # gray_cap
    <3>1. m \in 0 .. gray_cap - 1 /\ n \in 0 .. gray_cap - 1 /\ hd_address(storage[m]) = hd_address(storage[n])
      BY <1>1, <1>4, <2>4
    <3>2. storage[m] = storage[n]
      BY <1>2, <3>1
    <3> QED
      BY <1>1, <3>1, <3>2 DEF Stacked
  <2> QED
    BY <2>1, <2>2, <2>3, <2>4
<1> HIDE DEF e
<1>5. f \in [0 .. gray_cap -> 0 .. HeapWords \div 2 - 1]
  BY <1>1, <1>3, FewBlocks
<1>6. /\ IsFiniteSet(0 .. gray_cap) /\ IsFiniteSet(0 .. HeapWords \div 2 - 1)
      /\ Cardinality(0 .. HeapWords \div 2 - 1) < Cardinality(0 .. gray_cap)
  <2>1. 0 \in Int /\ gray_cap \in Int /\ HeapWords \div 2 - 1 \in Int /\ HeapWords \div 2 <= gray_cap
        /\ HeapWords \div 2 \in Nat
    BY <1>1 DEF RoomForAll
  <2>2. /\ IsFiniteSet(0 .. gray_cap)
        /\ Cardinality(0 .. gray_cap) = IF 0 > gray_cap THEN 0 ELSE gray_cap - 0 + 1
    BY <2>1, FS_Interval
  <2>3. /\ IsFiniteSet(0 .. HeapWords \div 2 - 1)
        /\ Cardinality(0 .. HeapWords \div 2 - 1) =
             IF 0 > HeapWords \div 2 - 1 THEN 0 ELSE HeapWords \div 2 - 1 - 0 + 1
    BY <2>1, FS_Interval
  <2> QED
    BY <1>1, <2>1, <2>2, <2>3
<1>7. PICK m \in 0 .. gray_cap, n \in 0 .. gray_cap : m # n /\ f[m] = f[n]
  <2> HIDE DEF f
  <2> QED
    BY <1>5, <1>6, FS_PigeonHole
<1>8. (e[m] - zero_addr) \div 16 = (e[n] - zero_addr) \div 16
  BY <1>7
<1>9. e[m] = e[n]
  BY <1>1, <1>3, <1>8, FewBlocks
<1> QED
  BY <1>4, <1>7, <1>9

\* A push in a state with a white block finds an entry below the top.
LEMMA PushHasRoom ==
  ASSUME RoomForAll, IInv, pc \in {"roots", "scan"}, top >= 0, NEW v \in Nat, Leads(v, Survivors),
         \/ is_pointer(v) /\ darken_if_white(hd_address(v))
         \/ ~is_pointer(v) /\ UNCHANGED <<heap, stackVars>>
  PROVE  top' >= 0
<1>1. top \in Int
  BY DEF IInv, StateType
<1>2. CASE UNCHANGED stackVars
  BY <1>2 DEF stackVars
<1>3. CASE is_pointer(v) /\ colorOf(hd_address(v)) = White /\ top' = top - 1
  <2>1. hd_address(v) \in Headers /\ getColor(heap[hd_address(v)]) = White
    BY <1>3, Basics DEF Leads, colorOf, read_word
  <2>2. top # 0
    BY <2>1, RoomToPush DEF Marking
  <2> QED
    BY <1>1, <1>3, <2>2
<1> QED
  BY <1>2, <1>3 DEF darken_if_white, push

LEMMA StackKept ==
  ASSUME RoomForAll, IInv, top >= 0, [Next]_vars
  PROVE  top' >= 0
<1>1. top \in Int /\ gray_cap \in Nat
  BY StackAssumption DEF IInv, StateType
<1>2. CASE DarkenRoot
  BY <1>2, DarkenedRoot, PushHasRoom
<1>3. CASE PushChild
  <2> DEFINE v == heap[FieldAt(h_addr, i)]
  <2>1. /\ pc = "scan" /\ v \in Nat /\ Leads(v, Survivors)
        /\ \/ is_pointer(v) /\ darken_if_white(hd_address(v))
           \/ ~is_pointer(v) /\ UNCHANGED <<heap, stackVars>>
    BY <1>3, DarkenedField
  <2> HIDE DEF v
  <2> QED
    BY <2>1, PushHasRoom
<1>4. CASE MarkStep
  BY <1>1, <1>4 DEF MarkStep, PopStep
<1>5. CASE CollectAndRetry(gray_cap) \/ Trigger(gray_cap)
  BY <1>1, <1>5 DEF CollectAndRetry, Trigger, verified_gc
<1>6. top' = top \/ DarkenRoot \/ PushChild \/ MarkStep \/ CollectAndRetry(gray_cap) \/ Trigger(gray_cap)
  BY DEF Next, Runtime, Store, Forget, Request, NextBlock, Take, TakeBlock, TakeClosures, OutOfMemory,
         EndRoots, EndScan, EndMark, StartSweep, SweepOther, SweepBlack, SweepWhite, sweep_loop_body,
         EndSweep, vars, stackVars
<1> QED
  BY <1>2, <1>3, <1>4, <1>5, <1>6

-----------------------------------------------------------------------------
(* Types *)

\* What TypeOK says besides the invariant.
RestOfType ==
  /\ \A r \in Roots : roots[r] = Val_unit \/ roots[r] \in Addresses
  /\ {free_head, prev_val_addr, cur_val_addr, free_ptr, h_addr} \subseteq Addresses \cup {0}
  /\ storage \in [0 .. gray_cap - 1 -> Addresses \cup {0}]
  /\ i <= HeapWords + NumRoots
  /\ current \in Addresses \cup {0, heap_size}

\* Where the lists, the scan and the sweep stand.
PlacesKnown ==
  /\ pc # "sweep" => free_head \in Addresses \cup {0}
  /\ pc = "sweep" => free_ptr \in Addresses \cup {0} /\ current \in Addresses \cup {heap_size}
  /\ pc = "search" => cur_val_addr \in Addresses \cup {0} /\ prev_val_addr \in Addresses \cup {0}
  /\ pc = "scan" => h_addr \in Addresses /\ i <= HeapWords + NumRoots

LEMMA KnownPlaces == IInv => PlacesKnown
<1> SUFFICES ASSUME IInv PROVE PlacesKnown
  OBVIOUS
<1>1. /\ heap \in Words /\ Tiled(heap, Headers, zero_addr, heap_size) /\ Sized(heap, Headers)
      /\ Headers \subseteq Addresses /\ NumRoots \in Nat /\ HeapWords \in Nat
      /\ zero_addr \in Nat /\ heap_size = zero_addr + 8 * HeapWords
  BY Basics, RootsAssumption, HeapAssumption DEF heap_size, WordBytes
<1>2. FreeOf(heap, Headers) \subseteq Addresses
  BY <1>1, FreeFacts
<1>3. pc = "scan" => i <= HeapWords + NumRoots
  <2>1. SUFFICES ASSUME pc = "scan" PROVE i <= HeapWords + NumRoots
    OBVIOUS
  <2>2. h_addr \in Headers /\ i \in 1 .. getWosize(heap[h_addr]) + 1
    BY <2>1 DEF IInv, ScanInv, wosizeOf, read_word
  <2>3. /\ getWosize(heap[h_addr]) \in Nat /\ h_addr \in Nat /\ h_addr >= zero_addr
        /\ nextHeader(heap, h_addr) = h_addr + 8 + 8 * getWosize(heap[h_addr])
        /\ nextHeader(heap, h_addr) <= heap_size
    BY <1>1, <2>2, Sizes, AddressFacts, TileBounds
  <2>4. getWosize(heap[h_addr]) + 1 <= HeapWords
    BY <1>1, <2>3
  <2> QED
    BY <1>1, <2>2, <2>3, <2>4
<1> QED
  BY <1>1, <1>2, <1>3 DEF PlacesKnown, IInv, ListInv, Linked, listHead, SearchInv, ScanInv, SweepInv

LEMMA RestOfTypeStep ==
  ASSUME IInv, IInv', RestOfType, [Next]_vars, ~TakeClosures
  PROVE  RestOfType'
<1> USE DEF RestOfType
<1>0. PlacesKnown /\ PlacesKnown'
  BY KnownPlaces, PTL
<1>1. NumRoots \in Nat /\ HeapWords \in Nat /\ HeapWords >= 2 /\ gray_cap \in Nat /\ Val_unit \in Nat
      /\ zero_addr \in Addresses /\ heap \in Words /\ i \in Nat
      /\ Tiled(heap, Headers, zero_addr, heap_size) /\ Sized(heap, Headers)
  BY RootsAssumption, HeapAssumption, StackAssumption, AddressFacts, Basics DEF Val_unit, IInv, StateType
<1>2. (\A r \in Roots : roots[r] = Val_unit \/ roots[r] \in Addresses)'
  <2>1. CASE roots' = roots
    BY <2>1
  <2>2. CASE Forget
    <3>1. roots \in [Roots -> Nat]
      BY DEF IInv, StateType
    <3> QED
      BY <2>2, <3>1 DEF Forget
  <2>3. CASE TakeBlock
    <3>1. roots' = [roots EXCEPT ![req.root] = cur_val_addr] /\ pc = "search" /\ cur_val_addr # 0
      BY <2>3, AddressFacts DEF TakeBlock, Take, searching, hdr_addr, WordBytes
    <3>2. cur_val_addr \in Addresses /\ roots \in [Roots -> Nat]
      BY <3>1, KnownPlaces DEF PlacesKnown, IInv, StateType
    <3> QED
      BY <3>1, <3>2
  <2> QED
    BY <2>1, <2>2, <2>3
    DEF Next, Runtime, Store, Request, NextBlock, OutOfMemory, CollectAndRetry, Trigger, verified_gc,
        DarkenRoot, EndRoots, MarkStep, PopStep, PushChild, EndScan, EndMark, StartSweep,
        SweepOther, SweepBlack, SweepWhite, sweep_loop_body, EndSweep, vars
<1>3. (free_head \in Addresses \cup {0})'
  <2>1. free_head' = free_head \/ pc' # "sweep"
    BY DEF Next, Runtime, Store, Forget, Request, NextBlock, Take, TakeBlock, TakeClosures, OutOfMemory, CollectAndRetry, Trigger,
        verified_gc, DarkenRoot, EndRoots, MarkStep, PopStep, PushChild, EndScan, EndMark, StartSweep,
        SweepOther, SweepBlack, SweepWhite, sweep_loop_body, EndSweep, StartSearch, vars
  <2> QED
    BY <1>0, <2>1 DEF PlacesKnown
<1>4. (free_ptr \in Addresses \cup {0})' /\ (current \in Addresses \cup {0, heap_size})'
  <2>1. \/ free_ptr' = free_ptr /\ current' = current
        \/ free_ptr' = 0 /\ current' = 0
        \/ pc' = "sweep"
    BY DEF Next, Runtime, Store, Forget, Request, NextBlock, Take, TakeBlock, TakeClosures, OutOfMemory, CollectAndRetry, Trigger,
        verified_gc, DarkenRoot, EndRoots, MarkStep, PopStep, PushChild, EndScan, EndMark, StartSweep, sweeping,
        SweepOther, SweepBlack, SweepWhite, sweep_loop_body, EndSweep, StartSearch, vars, sweepVars
  <2> QED
    BY <1>0, <2>1 DEF PlacesKnown
<1>5. (cur_val_addr \in Addresses \cup {0})' /\ (prev_val_addr \in Addresses \cup {0})'
  <2>1. \/ cur_val_addr' = cur_val_addr /\ prev_val_addr' = prev_val_addr
        \/ cur_val_addr' = 0 /\ prev_val_addr' = 0
        \/ pc' = "search"
    BY DEF Next, Runtime, Store, Forget, Request, NextBlock, Take, TakeBlock, TakeClosures, OutOfMemory, CollectAndRetry, Trigger,
        verified_gc, DarkenRoot, EndRoots, MarkStep, PopStep, PushChild, EndScan, EndMark, StartSweep, searching,
        SweepOther, SweepBlack, SweepWhite, sweep_loop_body, EndSweep, StartSearch, vars, searchVars
  <2> QED
    BY <1>0, <2>1 DEF PlacesKnown
<1>6. (h_addr \in Addresses \cup {0})' /\ (i <= HeapWords + NumRoots)'
  <2>1. \/ h_addr' = h_addr /\ i' = i
        \/ h_addr' = h_addr /\ i' = 1
        \/ h_addr' = h_addr /\ i' = 0
        \/ h_addr' = 0 /\ i' = 0
        \/ h_addr' = h_addr /\ i <= NumRoots /\ i' = i + 1
        \/ pc' = "scan"
    BY DEF Next, Runtime, Store, Forget, Request, NextBlock, Take, TakeBlock, TakeClosures, OutOfMemory, CollectAndRetry, Trigger,
        verified_gc, DarkenRoot, EndRoots, MarkStep, PopStep, PushChild, EndScan, EndMark, StartSweep,
        SweepOther, SweepBlack, SweepWhite, sweep_loop_body, EndSweep, StartSearch, vars
  <2> QED
    BY <1>0, <1>1, <2>1 DEF PlacesKnown
<1>7. (storage \in [0 .. gray_cap - 1 -> Addresses \cup {0}])'
  <2>1. \/ storage' = storage \/ storage' = [k \in 0 .. gray_cap - 1 |-> 0]
        \/ \E a \in Headers : push(f_address(a))
    <3>1. CASE DarkenRoot
      BY <3>1, DarkenedRoot, Basics DEF Leads, darken_if_white, stackVars
    <3>2. CASE PushChild
      <4> DEFINE v == heap[FieldAt(h_addr, i)]
      <4>1. /\ Leads(v, Survivors)
            /\ \/ is_pointer(v) /\ darken_if_white(hd_address(v))
               \/ ~is_pointer(v) /\ UNCHANGED <<heap, stackVars>>
        BY <3>2, DarkenedField
      <4> HIDE DEF v
      <4> QED
        BY <4>1, Basics DEF Leads, darken_if_white, stackVars
    <3> QED
      BY <3>1, <3>2 DEF Next, Runtime, Store, Forget, Request, NextBlock, Take, TakeBlock, TakeClosures, OutOfMemory, CollectAndRetry,
        Trigger, verified_gc, EndRoots, MarkStep, PopStep, EndScan, EndMark, StartSweep,
        SweepOther, SweepBlack, SweepWhite, sweep_loop_body, EndSweep, StartSearch, vars, stackVars
  <2>2. ASSUME NEW a \in Headers, push(f_address(a))
        PROVE  storage' \in [0 .. gray_cap - 1 -> Addresses \cup {0}]
    <3>1. f_address(a) \in Addresses
      BY <1>1, <2>2, FirstField
    <3> QED
      BY <2>2, <3>1 DEF push
  <2> QED
    BY <2>1, <2>2
<1> QED
  BY <1>2, <1>3, <1>4, <1>5, <1>6, <1>7

LEMMA RestOfTypeInit == Init => RestOfType
<1> SUFFICES ASSUME Init PROVE RestOfType
  OBVIOUS
<1>1. NumRoots \in Nat /\ HeapWords \in Nat /\ HeapWords >= 2 /\ zero_addr \in Addresses
      /\ zero_addr \in Nat /\ heap_size = zero_addr + 8 * HeapWords
  BY RootsAssumption, HeapAssumption, AddressFacts DEF heap_size, WordBytes
<1>2. zero_addr + WordBytes \in Addresses
  <2>1. zero_addr + 8 = zero_addr + 8 * 1 /\ zero_addr + 8 < heap_size
    BY <1>1
  <2> QED
    BY <1>1, <2>1, Shifted DEF WordBytes
<1> QED
  BY <1>1, <1>2 DEF Init, RestOfType

LEMMA TypeHolds == IInv /\ RestOfType /\ top >= 0 => TypeOK
<1> SUFFICES ASSUME IInv, RestOfType, top >= 0 PROVE TypeOK
  OBVIOUS
<1>1. NumRoots \in Nat /\ HeapWords \in Nat /\ gray_cap \in Nat
  BY RootsAssumption, HeapAssumption, StackAssumption
<1>2. top \in 0 .. gray_cap /\ i \in 0 .. HeapWords + NumRoots
  BY <1>1 DEF IInv, StateType, RestOfType
<1> QED
  BY <1>2 DEF TypeOK, IInv, StateType, RestOfType, CallInv, IsRequest, Phases, Words

-----------------------------------------------------------------------------
(* What a program sees *)

\* The objects that the object with the header a leads to.
LEMMA PointeesAre ==
  ASSUME NEW h \in Words, NEW B, Tiled(h, B, zero_addr, heap_size), Sized(h, B), NEW a \in B
  PROVE  \A v : v \in pointees(h, f_address(a)) <=>
           Scannable(h, a) /\ is_pointer(v) /\ \E k \in 1 .. getWosize(h[a]) : v = h[FieldAt(a, k)]
<1>1. /\ a \in Nat /\ getWosize(h[a]) \in Nat /\ f_address(a) = a + 8 /\ hd_address(f_address(a)) = a
      /\ getTag(h[a]) \in Nat
  <2>1. h[a] \in Nat
    BY FirstField
  <2>2. getTag(h[a]) \in 0 .. 255
    BY <2>1, HeaderType
  <2> QED
    BY <2>2, FirstField
<1>2. fieldsOf(h, f_address(a)) = {FieldAt(a, k) : k \in 1 .. getWosize(h[a])}
  <2>1. ASSUME NEW k \in 0 .. getWosize(h[a]) - 1
        PROVE  f_address(a) + WordBytes * k \in {FieldAt(a, m) : m \in 1 .. getWosize(h[a])}
    <3>1. k + 1 \in 1 .. getWosize(h[a]) /\ f_address(a) + WordBytes * k = FieldAt(a, k + 1)
      BY <1>1 DEF FieldAt, WordBytes
    <3> QED
      BY <3>1
  <2>2. ASSUME NEW k \in 1 .. getWosize(h[a])
        PROVE  FieldAt(a, k) \in {f_address(a) + WordBytes * m : m \in 0 .. getWosize(h[a]) - 1}
    <3>1. k - 1 \in 0 .. getWosize(h[a]) - 1 /\ f_address(a) + WordBytes * (k - 1) = FieldAt(a, k)
      BY <1>1 DEF FieldAt, WordBytes
    <3> QED
      BY <3>1
  <2> QED
    BY <1>1, <2>1, <2>2 DEF fieldsOf
<1>3. \A k \in 1 .. getWosize(h[a]) : FieldAt(a, k) \in Addresses
  BY Places
<1>4. Scannable(h, a) <=> ~(getTag(h[a]) >= no_scan_tag)
  BY <1>1 DEF Scannable, no_scan_tag
<1> QED
  BY <1>1, <1>2, <1>3, <1>4 DEF pointees

\* Two heaps with the same object at a.
SameObject(h, g, a) ==
  /\ getWosize(g[a]) = getWosize(h[a]) /\ getTag(g[a]) = getTag(h[a])
  /\ \A k \in 1 .. getWosize(h[a]) : g[FieldAt(a, k)] = h[FieldAt(a, k)]

\* What the program reaches is in use.
LEMMA ReachableUsed ==
  ASSUME IInv, NEW o \in Reachable
  PROVE  /\ hd_address(o) \in Survivors /\ hd_address(o) \in Headers /\ f_address(hd_address(o)) = o
         /\ o \in Addresses /\ is_pointer(o)
<1>1. /\ heap \in Words /\ Tiled(heap, Headers, zero_addr, heap_size) /\ Sized(heap, Headers)
      /\ Survivors \subseteq Headers /\ roots \in [Roots -> Nat]
  BY Basics DEF IInv, StateType
<1> DEFINE T == {v \in Addresses : is_pointer(v) /\ hd_address(v) \in Survivors}
<1>2. /\ Reachable \subseteq Addresses /\ \A p \in Reachable : is_pointer(p)
      /\ \A S : /\ \A r \in Roots : is_pointer(roots[r]) => roots[r] \in S
                /\ \A p \in S : pointees(heap, p) \subseteq S
                => Reachable \subseteq S
  BY <1>1, Reach DEF Reachable
<1>3. \A r \in Roots : is_pointer(roots[r]) => roots[r] \in T
  BY <1>1, PointerFacts DEF IInv, PointersInv, RootsLead, Leads
<1>4. ASSUME NEW p \in T PROVE pointees(heap, p) \subseteq T
  <2>1. hd_address(p) \in Survivors /\ hd_address(p) \in Headers /\ f_address(hd_address(p)) = p
    BY <1>1, HeaderAddress
  <2>2. ASSUME NEW v \in pointees(heap, p) PROVE v \in T
    <3>1. PICK k \in 1 .. getWosize(heap[hd_address(p)]) :
            Scannable(heap, hd_address(p)) /\ is_pointer(v) /\ v = heap[FieldAt(hd_address(p), k)]
      BY <1>1, <2>1, <2>2, PointeesAre
    <3>2. Leads(v, Survivors)
      BY <2>1, <3>1 DEF IInv, PointersInv, Closed
    <3>3. v \in Nat
      BY <1>1, <2>1, <3>1, Places DEF Words
    <3> QED
      BY <3>1, <3>2, <3>3, PointerFacts DEF Leads
  <2> QED
    BY <2>2
<1>5. Reachable \subseteq T
  <2> HIDE DEF T
  <2> QED
    BY <1>2, <1>3, <1>4
<1> QED
  BY <1>1, <1>2, <1>5, HeaderAddress

\* A step that leaves the survivors as they are leaves what the program sees.
LEMMA ReachableFrame ==
  ASSUME IInv, heap' \in Words, roots' = roots,
         \A a \in Survivors : SameObject(heap, heap', a)
  PROVE  Reachable' = Reachable /\ \A o \in Reachable : SameObject(heap, heap', hd_address(o))
<1>1. /\ heap \in Words /\ Tiled(heap, Headers, zero_addr, heap_size) /\ Sized(heap, Headers)
      /\ roots \in [Roots -> Nat]
  BY Basics DEF IInv, StateType
<1>2. ASSUME NEW o \in Reachable PROVE pointees(heap', o) = pointees(heap, o)
  <2> DEFINE a == hd_address(o)
  <2>1. a \in Headers /\ f_address(a) = o /\ SameObject(heap, heap', a)
    BY ReachableUsed
  <2>2. fieldsOf(heap', o) = fieldsOf(heap, o)
    BY <2>1 DEF SameObject, fieldsOf
  <2>3. \A x \in fieldsOf(heap, o) : heap'[x] = heap[x]
    <3>1. a \in Nat /\ getWosize(heap[a]) \in Nat /\ o = a + 8
      BY <1>1, <2>1, FirstField
    <3>2. ASSUME NEW k \in 0 .. getWosize(heap[a]) - 1 PROVE heap'[o + WordBytes * k] = heap[o + WordBytes * k]
      <4>1. k + 1 \in 1 .. getWosize(heap[a]) /\ o + WordBytes * k = FieldAt(a, k + 1)
        BY <3>1 DEF FieldAt, WordBytes
      <4> QED
        BY <2>1, <4>1 DEF SameObject
    <3> QED
      BY <3>2 DEF fieldsOf
  <2> QED
    BY <2>1, <2>2, <2>3 DEF SameObject, pointees
<1>3. reachedFrom(heap', roots)[HeapWords] = reachedFrom(heap, roots)[HeapWords]
  BY <1>1, <1>2, ReachFrame DEF Reachable
<1> QED
  BY <1>3, ReachableUsed DEF Reachable

\* Every step but those of the program and the last of an allocation.
CollectorStep == [Next]_vars /\ ~Store /\ ~Forget /\ ~TakeBlock /\ ~TakeClosures

LEMMA SurvivorsKept ==
  ASSUME IInv, CollectorStep
  PROVE  heap' \in Words /\ roots' = roots /\ \A a \in Survivors : SameObject(heap, heap', a)
<1>1. /\ heap \in Words /\ Tiled(heap, Headers, zero_addr, heap_size) /\ Sized(heap, Headers)
      /\ Survivors \subseteq Headers
  BY Basics
<1>2. roots' = roots
  BY DEF CollectorStep, Next, Runtime, Request, NextBlock, OutOfMemory, CollectAndRetry, Trigger, verified_gc,
         DarkenRoot, EndRoots, MarkStep, PopStep, PushChild, EndScan, EndMark, StartSweep,
         SweepOther, SweepBlack, SweepWhite, sweep_loop_body, EndSweep, vars
<1>3. SameShape(heap, heap', Headers)
  BY SizesKept DEF CollectorStep
<1>4. CASE heap' \in Words /\ SameFields(heap, heap', Headers)
  BY <1>1, <1>2, <1>3, <1>4, Places DEF SameObject, SameShape, SameFields
<1>5. CASE heap' = heap
  BY <1>1, <1>2, <1>5 DEF SameObject
<1>6. CASE DarkenRoot
  BY <1>4, <1>6, DarkenedRoot, DarkenSound
<1>7. CASE PushChild
  <2> DEFINE v == heap[FieldAt(h_addr, i)]
  <2>1. /\ pc = "scan" /\ v \in Nat /\ Leads(v, Survivors)
        /\ \/ is_pointer(v) /\ darken_if_white(hd_address(v))
           \/ ~is_pointer(v) /\ UNCHANGED <<heap, stackVars>>
    BY <1>7, DarkenedField
  <2> HIDE DEF v
  <2> QED
    BY <1>4, <2>1, DarkenSound
<1>8. CASE MarkStep
  BY <1>4, <1>8, MarkStepInv DEF IInv, StateType
<1>9. CASE SweepBlack
  BY <1>1, <1>2, <1>3, <1>9, SweepBlackInv DEF IInv, StateType, SameObject, SameShape
<1>10. CASE SweepWhite
  BY <1>1, <1>2, <1>3, <1>10, SweepWhiteInv DEF IInv, StateType, SameObject, SameShape
<1>11. heap' = heap \/ DarkenRoot \/ PushChild \/ MarkStep \/ SweepBlack \/ SweepWhite
  BY DEF CollectorStep, Next, Runtime, Request, Trigger, verified_gc, NextBlock, CollectAndRetry, OutOfMemory,
         EndRoots, EndScan, EndMark, StartSweep, SweepOther, EndSweep, vars
<1> QED
  BY <1>5, <1>6, <1>7, <1>8, <1>9, <1>10, <1>11

LEMMA ViewKept ==
  ASSUME IInv, CollectorStep
  PROVE  Reachable' = Reachable /\ \A o \in Reachable : SameObject(heap, heap', hd_address(o))
BY SurvivorsKept, ReachableFrame

-----------------------------------------------------------------------------
(* A collection keeps nothing but what the program reaches *)

Marked ==
  IF pc = "sweep" THEN Survivors ELSE {a \in Headers : colorOf(a) \in {Gray, Black}}

\* The collector follows only what the program could follow.
MarkedReachable ==
  Marking \/ pc = "sweep" => \A a \in Marked : f_address(a) \in Reachable

\* What a step of marking darkens is reachable.
LEMMA DarkenReachable ==
  ASSUME IInv, MarkedReachable, CollectorStep, pc \in {"roots", "scan"}, pc' = pc,
         NEW v \in Nat, Leads(v, Survivors), is_pointer(v) => v \in Reachable,
         \/ is_pointer(v) /\ darken_if_white(hd_address(v))
         \/ ~is_pointer(v) /\ UNCHANGED <<heap, stackVars>>
  PROVE  MarkedReachable'
<1>1. /\ Headers' = Headers
      /\ \A b \in Headers : getColor(heap'[b]) =
           IF is_pointer(v) /\ b = hd_address(v) /\ getColor(heap[b]) = White THEN Gray
           ELSE getColor(heap[b])
  BY DarkenSound
<1>2. Reachable' = Reachable
  BY ViewKept
<1>3. is_pointer(v) => f_address(hd_address(v)) \in Reachable
  BY ReachableUsed
<1>4. ASSUME NEW a \in Headers, getColor(heap'[a]) \in {Gray, Black} PROVE f_address(a) \in Reachable
  <2>1. CASE is_pointer(v) /\ a = hd_address(v)
    BY <1>3, <2>1
  <2>2. CASE getColor(heap[a]) \in {Gray, Black}
    BY <2>2 DEF MarkedReachable, Marked, Marking, colorOf, read_word
  <2> QED
    BY <1>1, <1>4, <2>1, <2>2
<1> QED
  BY <1>1, <1>2, <1>4 DEF MarkedReachable, Marked, colorOf, read_word

LEMMA MarkedReachableStep ==
  ASSUME IInv, MarkedReachable, [Next]_vars
  PROVE  MarkedReachable'
<1>1. /\ heap \in Words /\ Tiled(heap, Headers, zero_addr, heap_size) /\ Sized(heap, Headers)
      /\ Survivors \subseteq Headers /\ roots \in [Roots -> Nat]
  BY Basics DEF IInv, StateType
<1>2. /\ \A r \in Roots : is_pointer(roots[r]) => roots[r] \in Reachable
      /\ \A o \in Reachable : pointees(heap, o) \subseteq Reachable
  BY <1>1, Reach DEF Reachable
<1>3. CASE ~(pc' \in {"roots", "mark", "scan", "sweep"})
  BY <1>3 DEF MarkedReachable, Marking
<1>4. CASE pc' \in {"roots", "mark", "scan", "sweep"}
  <2>1. CollectorStep
    BY <1>4 DEF Store, Forget, TakeBlock, Take, TakeClosures, CollectorStep
  <2>2. Reachable' = Reachable
    BY <2>1, ViewKept
  <2>3. CASE DarkenRoot
    <3>1. /\ pc' = pc /\ pc = "roots" /\ roots[i] \in Nat /\ Leads(roots[i], Survivors)
          /\ is_pointer(roots[i]) => roots[i] \in Reachable
          /\ \/ is_pointer(roots[i]) /\ darken_if_white(hd_address(roots[i]))
             \/ ~is_pointer(roots[i]) /\ UNCHANGED <<heap, stackVars>>
      BY <1>2, <2>3, DarkenedRoot DEF DarkenRoot
    <3> QED
      BY <2>1, <3>1, DarkenReachable
  <2>4. CASE PushChild
    <3> DEFINE v == heap[FieldAt(h_addr, i)]
    <3>1. /\ pc = "scan" /\ h_addr \in Headers /\ colorOf(h_addr) = Black /\ Scannable(heap, h_addr)
          /\ i \in 1 .. getWosize(heap[h_addr])
          /\ v \in Nat /\ Leads(v, Survivors) /\ pc' = pc
          /\ \/ is_pointer(v) /\ darken_if_white(hd_address(v))
             \/ ~is_pointer(v) /\ UNCHANGED <<heap, stackVars>>
      BY <2>4, DarkenedField DEF PushChild, wosizeOf, read_word
    <3>2. f_address(h_addr) \in Reachable
      BY <3>1 DEF MarkedReachable, Marked, Marking
    <3>3. is_pointer(v) => v \in Reachable
      BY <1>1, <1>2, <3>1, <3>2, PointeesAre
    <3> HIDE DEF v
    <3> QED
      BY <2>1, <3>1, <3>3, DarkenReachable
  <2>5. CASE MarkStep
    <3>1. /\ pc = "mark" /\ getColor(heap[hd_address(popped)]) = Gray /\ pc' \in {"mark", "scan"}
          /\ Headers' = Headers
          /\ \A b \in Headers : getColor(heap'[b]) = IF b = hd_address(popped) THEN Black ELSE getColor(heap[b])
      BY <2>5, PoppedGray, MarkStepInv DEF MarkStep, PopStep
    <3> QED
      BY <2>2, <3>1 DEF MarkedReachable, Marked, Marking, colorOf, read_word
  <2>6. CASE EndMark
    <3>1. pc = "mark" /\ pc' = "sweep" /\ Survivors' = {a \in Headers : colorOf(a) = Black}
      BY <2>6, EndMarkFacts DEF EndMark, StartSweep
    <3> QED
      BY <2>2, <3>1 DEF MarkedReachable, Marked, Marking
  <2>7. CASE SweepWhite \/ SweepBlack \/ SweepOther
    <3>1. pc = "sweep" /\ pc' = "sweep" /\ Survivors' = Survivors
      BY <2>7, SweepWhiteInv, SweepBlackInv, SweepOtherInv
         DEF SweepWhite, SweepBlack, SweepOther, sweep_loop_body, sweeping
    <3> QED
      BY <2>2, <3>1 DEF MarkedReachable, Marked, Marking
  <2>8. CASE CollectAndRetry(gray_cap) \/ Trigger(gray_cap)
    <3>1. pc \in {"mutator", "search"} /\ pc' = "roots" /\ heap' = heap
      BY <2>8 DEF CollectAndRetry, Trigger, verified_gc, noBlock
    <3>2. Headers' = Headers /\ \A a \in Headers : getColor(heap[a]) \in {White, Blue}
      BY <3>1, SameHeap DEF IInv, ColourInv, colorOf, read_word
    <3> QED
      BY <3>1, <3>2 DEF MarkedReachable, Marked, colorOf, read_word, White, Blue, Gray, Black
  <2>9. CASE EndRoots \/ EndScan \/ UNCHANGED vars
    <3>1. heap' = heap /\ Headers' = Headers /\ (Marking' => Marking) /\ current' = current
          /\ (pc' = "sweep" <=> pc = "sweep")
      BY <2>9, SameHeap DEF EndRoots, EndScan, Marking, vars, sweepVars
    <3> QED
      BY <2>2, <3>1 DEF MarkedReachable, Marked, Survivors, sweptTo, colorOf, read_word
  <2>10. ~Request /\ ~NextBlock /\ ~OutOfMemory /\ ~EndSweep
    BY <1>4 DEF Request, NextBlock, OutOfMemory, EndSweep, StartSearch, searching
  <2> QED
    BY <2>1, <2>3, <2>4, <2>5, <2>6, <2>7, <2>8, <2>9, <2>10 DEF CollectorStep, Next, Runtime
<1> QED
  BY <1>3, <1>4

LEMMA FreedAtEnd ==
  ASSUME IInv, MarkedReachable, EndSweep
  PROVE  /\ usedBlocks' = {hd_address(o) : o \in Reachable'}
         /\ \A a \in usedBlocks' : colorOf(a)' = White
<1>1. /\ pc = "sweep" /\ heap' = heap /\ Headers' = Headers /\ Survivors = Used(heap, Headers)
      /\ \A a \in Headers : getColor(heap[a]) \in {White, Blue}
  BY EndSweepFacts DEF colorOf, read_word
<1>2. usedBlocks' = Survivors
  BY <1>1 DEF usedBlocks, freeBlocks, Used, colorOf, read_word
<1>3. Reachable' = Reachable
  <2>1. roots' = roots
    BY DEF EndSweep
  <2> QED
    BY <1>1, <2>1 DEF Reachable
<1>4. \A a \in Survivors : f_address(a) \in Reachable /\ hd_address(f_address(a)) = a
  <2>1. \A a \in Survivors : a \in Nat
    BY Basics, AddressFacts
  <2> QED
    BY <1>1, <2>1 DEF MarkedReachable, Marked, f_address, hd_address, WordBytes
<1>5. \A o \in Reachable : hd_address(o) \in Survivors
  BY ReachableUsed
<1>6. \A a \in usedBlocks' : colorOf(a)' = White
  BY <1>1, <1>2 DEF Used, colorOf, read_word
<1> QED
  BY <1>2, <1>3, <1>4, <1>5, <1>6

LEMMA FreedStep ==
  ASSUME IInv, MarkedReachable, [Next]_vars, pc = "sweep", pc' # "sweep"
  PROVE  EndSweep
BY DEF Next, Runtime, Store, Forget, Request, NextBlock, Take, TakeBlock, TakeClosures, OutOfMemory, CollectAndRetry, Trigger,
        noBlock, DarkenRoot, EndRoots, MarkStep, PopStep, PushChild, EndScan, EndMark, StartSweep,
        SweepOther, SweepBlack, SweepWhite, sweep_loop_body, searching, marking, vars

-----------------------------------------------------------------------------
(* The object graph: what the program sees is what it would see without a  *)
(* heap                                                                    *)

\* The object whose first field is at o, field by field.
LEMMA ObjectIs ==
  ASSUME NEW h \in Words, NEW B, Tiled(h, B, zero_addr, heap_size), Sized(h, B),
         NEW a \in B, NEW o, o = f_address(a)
  PROVE  objectOf(h, o) = [wz    |-> getWosize(h[a]),
                           tag   |-> getTag(h[a]),
                           field |-> [k \in 1 .. getWosize(h[a]) |-> h[FieldAt(a, k)]]]
<1>1. a \in Nat /\ getWosize(h[a]) \in Nat /\ hd_address(o) = a /\ o = a + 8
  BY FirstField
<1>2. \A k \in 1 .. getWosize(h[a]) : o + WordBytes * (k - 1) = FieldAt(a, k)
  BY <1>1 DEF FieldAt, WordBytes
<1>3. [k \in 1 .. getWosize(h[a]) |-> h[o + WordBytes * (k - 1)]] = [k \in 1 .. getWosize(h[a]) |-> h[FieldAt(a, k)]]
  BY <1>2
<1> QED
  BY <1>1, <1>3 DEF objectOf

\* Blocks that hold the same are seen as the same object.
LEMMA SameView ==
  ASSUME NEW h \in Words, NEW B, Tiled(h, B, zero_addr, heap_size), Sized(h, B),
         NEW g \in Words, NEW C, Tiled(g, C, zero_addr, heap_size), Sized(g, C),
         NEW a \in B, a \in C, SameObject(h, g, a), NEW o, o = f_address(a)
  PROVE  objectOf(g, o) = objectOf(h, o)
<1>1. objectOf(h, o) = [wz    |-> getWosize(h[a]), tag |-> getTag(h[a]),
                        field |-> [k \in 1 .. getWosize(h[a]) |-> h[FieldAt(a, k)]]]
  BY ObjectIs
<1>2. objectOf(g, o) = [wz    |-> getWosize(g[a]), tag |-> getTag(g[a]),
                        field |-> [k \in 1 .. getWosize(g[a]) |-> g[FieldAt(a, k)]]]
  BY ObjectIs
<1>3. [k \in 1 .. getWosize(g[a]) |-> g[FieldAt(a, k)]] = [k \in 1 .. getWosize(h[a]) |-> h[FieldAt(a, k)]]
  BY DEF SameObject
<1> QED
  BY <1>1, <1>2, <1>3 DEF SameObject

\* The graph that is reached from rs through objects of D, as the abstract
\* specification defines it, is the one reachedFrom computes.
LEMMA GraphReached ==
  ASSUME NEW h \in Words, NEW B, Tiled(h, B, zero_addr, heap_size), Sized(h, B),
         NEW rs \in [Roots -> Nat],
         NEW D, \A o \in D : is_pointer(o) /\ hd_address(o) \in B /\ f_address(hd_address(o)) = o,
         \A r \in Roots : is_pointer(rs[r]) => rs[r] \in D,
         \A o \in D : pointees(h, o) \subseteq D
  PROVE  Graph!Reached(objectsOf(h, D), rs) = objectsOf(h, reachedFrom(h, rs)[HeapWords])
<1> DEFINE R == reachedFrom(h, rs)[HeapWords]
           f == objectsOf(h, D)
           W == {rs[r] : r \in Roots}
<1>1. /\ \A r \in Roots : is_pointer(rs[r]) => rs[r] \in R
      /\ \A o \in R : pointees(h, o) \subseteq R /\ is_pointer(o)
      /\ \A T : /\ \A r \in Roots : is_pointer(rs[r]) => rs[r] \in T
                /\ \A o \in T : pointees(h, o) \subseteq T
                => R \subseteq T
  BY Reach
<1> HIDE DEF R
<1>2. R \subseteq D
  BY <1>1
<1>3. DOMAIN f = D /\ \A o \in D : f[o] = objectOf(h, o)
  BY DEF objectsOf
<1> HIDE DEF f
<1>4. ASSUME NEW o \in D, NEW v \in D PROVE v \in Graph!Pointers(f[o]) <=> v \in pointees(h, o)
  <2> DEFINE a == hd_address(o)
  <2>1. a \in B /\ a \in Nat /\ getWosize(h[a]) \in Nat /\ f_address(a) = o /\ o = a + 8 /\ is_pointer(v)
    BY FirstField
  <2>2. /\ f[o].tag = getTag(h[a]) /\ DOMAIN f[o].field = 1 .. getWosize(h[a])
        /\ \A k \in 1 .. getWosize(h[a]) : f[o].field[k] = h[FieldAt(a, k)]
    <3>1. f[o] = [wz |-> getWosize(h[a]), tag |-> getTag(h[a]),
                  field |-> [k \in 1 .. getWosize(h[a]) |-> h[FieldAt(a, k)]]]
      BY <1>3, <2>1, ObjectIs
    <3> QED
      BY <3>1
  <2>3. v \in pointees(h, o) <=>
           Scannable(h, a) /\ is_pointer(v) /\ \E k \in 1 .. getWosize(h[a]) : v = h[FieldAt(a, k)]
    BY <2>1, PointeesAre
  <2> HIDE DEF a
  <2> QED
    BY <2>1, <2>2, <2>3 DEF Graph!Pointers, Scannable
<1>5. ASSUME NEW p \in D PROVE p \in Graph!Lost(f, W) <=> p \notin R
  <2>1. ASSUME p \in Graph!Lost(f, W) PROVE p \notin R
    <3>1. PICK S \in SUBSET D : /\ p \in S /\ S \cap W = {}
                                /\ \A q \in D \ S : Graph!Pointers(f[q]) \cap S = {}
      BY <1>3, <2>1 DEF Graph!Lost
    <3>2. ASSUME NEW r \in Roots, is_pointer(rs[r]) PROVE rs[r] \in D \ S
      <4>1. rs[r] \in W
        OBVIOUS
      <4>2. rs[r] \in D
        BY <3>2
      <4> QED
        BY <4>1, <4>2, <3>1
    <3>3. \A q \in D \ S : pointees(h, q) \subseteq D \ S
      BY <1>4, <3>1
    <3>4. R \subseteq D \ S
      BY <1>1, <3>2, <3>3
    <3> QED
      BY <3>1, <3>4
  <2>2. ASSUME p \notin R PROVE p \in Graph!Lost(f, W)
    <3> DEFINE S == D \ R
    <3>1. S \in SUBSET D /\ p \in S /\ S \cap W = {}
      BY <1>1, <2>2
    <3>2. \A q \in D \ S : Graph!Pointers(f[q]) \cap S = {}
      BY <1>1, <1>4
    <3> HIDE DEF S
    <3> QED
      BY <1>3, <3>1, <3>2 DEF Graph!Lost
  <2> QED
    BY <2>1, <2>2
<1>6. D \ Graph!Lost(f, W) = R
  BY <1>2, <1>5
<1>7. Graph!Reached(f, rs) = [p \in R |-> f[p]]
  BY <1>3, <1>6 DEF Graph!Reached, Graph!Roots, Roots
<1>8. [p \in R |-> f[p]] = objectsOf(h, R)
  BY <1>2, <1>3 DEF objectsOf
<1> QED
  BY <1>7, <1>8 DEF R, f

LEMMA GraphInit == Init => Graph!Init
<1> SUFFICES ASSUME Init PROVE Graph!Init
  OBVIOUS
<1>1. heap \in Words /\ roots \in [Roots -> Nat] /\ roots = [r \in Roots |-> Val_unit]
  BY InitInv DEF IInv, StateType, Init
<1>2. \A T : /\ \A r \in Roots : is_pointer(roots[r]) => roots[r] \in T
             /\ \A o \in T : pointees(heap, o) \subseteq T
             => Reachable \subseteq T
  BY <1>1, Reach DEF Reachable
<1>3. \A r \in Roots : ~is_pointer(roots[r])
  BY <1>1, PointerFacts
<1>4. Reachable = {}
  <2> DEFINE T == {}
  <2>1. \A r \in Roots : is_pointer(roots[r]) => roots[r] \in T
    BY <1>3
  <2>2. \A o \in T : pointees(heap, o) \subseteq T
    OBVIOUS
  <2>3. \A S : S \subseteq T => S = {}
    OBVIOUS
  <2> HIDE DEF T
  <2> QED
    BY <1>2, <2>1, <2>2, <2>3
<1>5. objectsOf(heap, Reachable) = [p \in {} |-> 0]
  BY <1>4 DEF objectsOf
<1> QED
  BY <1>1, <1>5 DEF Graph!Init, Graph!Roots, Roots

\* Neither a search nor a collection is visible.
LEMMA GraphStutter ==
  ASSUME IInv, IInv', CollectorStep
  PROVE  UNCHANGED Graph!gvars
<1>1. Reachable' = Reachable /\ \A o \in Reachable : SameObject(heap, heap', hd_address(o))
  BY ViewKept
<1>2. /\ heap \in Words /\ Tiled(heap, Headers, zero_addr, heap_size) /\ Sized(heap, Headers)
      /\ heap' \in Words /\ Tiled(heap', Headers', zero_addr, heap_size) /\ Sized(heap', Headers')
      /\ Headers' = Headers /\ roots' = roots
  BY SizesKept, SurvivorsKept, Basics DEF CollectorStep, IInv, HeapShape
<1>3. ASSUME NEW o \in Reachable PROVE objectOf(heap', o) = objectOf(heap, o)
  <2>1. hd_address(o) \in Headers /\ f_address(hd_address(o)) = o
    BY ReachableUsed
  <2> QED
    BY <1>1, <1>2, <2>1, SameView
<1>4. objectsOf(heap', Reachable') = objectsOf(heap, Reachable)
  BY <1>1, <1>3 DEF objectsOf
<1> QED
  BY <1>2, <1>4 DEF Graph!gvars

LEMMA GraphForget ==
  ASSUME IInv, Forget
  PROVE  Graph!Forget
<1>1. /\ heap \in Words /\ Tiled(heap, Headers, zero_addr, heap_size) /\ Sized(heap, Headers)
      /\ roots \in [Roots -> Nat] /\ heap' = heap
  BY Basics DEF IInv, StateType, Forget
<1>2. PICK r \in Roots : roots' = [roots EXCEPT ![r] = Val_unit]
  BY DEF Forget
<1>3. roots' \in [Roots -> Nat] /\ \A s \in Roots : roots'[s] = roots[s] \/ roots'[s] = Val_unit
  BY <1>1, <1>2 DEF Val_unit
<1>4. /\ \A o \in Reachable : is_pointer(o) /\ hd_address(o) \in Headers /\ f_address(hd_address(o)) = o
      /\ \A s \in Roots : is_pointer(roots[s]) => roots[s] \in Reachable
      /\ \A o \in Reachable : pointees(heap, o) \subseteq Reachable
  BY <1>1, Reach, ReachableUsed DEF Reachable
<1>5. \A s \in Roots : is_pointer(roots'[s]) => roots'[s] \in Reachable
  BY <1>3, <1>4, PointerFacts
<1>6. Graph!Reached(objectsOf(heap, Reachable), roots') = objectsOf(heap, reachedFrom(heap, roots')[HeapWords])
  BY <1>1, <1>3, <1>4, <1>5, GraphReached
<1>7. objectsOf(heap', Reachable') = Graph!Reached(objectsOf(heap, Reachable), roots')
  BY <1>1, <1>6 DEF Reachable
<1> QED
  BY <1>2, <1>7 DEF Graph!Forget, Graph!Roots, Roots

\* A store in the heap is the store in the object graph.
LEMMA GraphStore ==
  ASSUME IInv, Store
  PROVE  Graph!Store
<1> DEFINE B == Headers
<1>1. /\ heap \in Words /\ Tiled(heap, B, zero_addr, heap_size) /\ Sized(heap, B)
      /\ roots \in [Roots -> Nat] /\ roots' = roots /\ B \subseteq Addresses
      /\ heap' \in Words
  BY Basics, StoreFacts, StoreInv DEF IInv, StateType
<1>2. PICK r \in Roots, s \in Roots, a \in Used(heap, B) :
             /\ is_pointer(roots[r]) /\ roots[r] = f_address(a)
             /\ roots[s] \in Nat /\ Leads(roots[s], Survivors)
             /\ \E k \in 1 .. getWosize(heap[a]) :
                  /\ FieldAt(a, k) \in Addresses \ B
                  /\ heap' = [heap EXCEPT ![FieldAt(a, k)] = roots[s]]
  BY StoreFacts
<1>3. PICK k \in 1 .. getWosize(heap[a]) :
             /\ FieldAt(a, k) \in Addresses \ B
             /\ heap' = [heap EXCEPT ![FieldAt(a, k)] = roots[s]]
  BY <1>2
<1> DEFINE x == FieldAt(a, k)
           v == roots[s]
           p == roots[r]
           R == Reachable
           obj == objectsOf(heap, R)
<1>4. heap'[x] = v /\ \A y \in Addresses : y # x => heap'[y] = heap[y]
  BY <1>1, <1>3 DEF Words
<1>5. a \in B /\ \A b \in B : heap'[b] = heap[b]
  BY <1>1, <1>2, <1>3, <1>4 DEF Used
<1>6. SameShape(heap, heap', B)
  BY <1>5 DEF SameShape
<1>7. Tiled(heap', B, zero_addr, heap_size) /\ Sized(heap', B)
  BY <1>1, <1>6, ShapeFrame
<1>8. /\ \A o \in R : is_pointer(o) /\ hd_address(o) \in B /\ f_address(hd_address(o)) = o
      /\ \A q \in Roots : is_pointer(roots[q]) => roots[q] \in R
      /\ \A o \in R : pointees(heap, o) \subseteq R
      /\ p \in R
  BY <1>1, <1>2, Reach, ReachableUsed DEF Reachable
<1>9. \A b \in B : \A m \in 1 .. getWosize(heap[b]) :
         heap'[FieldAt(b, m)] = IF b = a /\ m = k THEN v ELSE heap[FieldAt(b, m)]
  <2>1. ASSUME NEW b \in B, NEW m \in 1 .. getWosize(heap[b])
        PROVE  heap'[FieldAt(b, m)] = IF b = a /\ m = k THEN v ELSE heap[FieldAt(b, m)]
    <3>1. FieldAt(b, m) \in Addresses /\ (FieldAt(b, m) = x => b = a /\ m = k)
      BY <1>1, <1>5, Places
    <3> QED
      BY <1>4, <3>1
  <2> QED
    BY <2>1
<1> HIDE DEF x, v, B, R
<1>10. ASSUME NEW o \in R PROVE pointees(heap', o) \subseteq R
  <2> DEFINE b == hd_address(o)
  <2>1. b \in B /\ f_address(b) = o
    BY <1>8
  <2> HIDE DEF b
  <2>2. ASSUME NEW w \in pointees(heap', o) PROVE w \in R
    <3>1. PICK m \in 1 .. getWosize(heap'[b]) :
            Scannable(heap', b) /\ is_pointer(w) /\ w = heap'[FieldAt(b, m)]
      BY <1>1, <1>7, <2>1, <2>2, PointeesAre
    <3>2. m \in 1 .. getWosize(heap[b]) /\ Scannable(heap, b)
      BY <1>5, <2>1, <3>1 DEF Scannable
    <3>3. w = v \/ w = heap[FieldAt(b, m)]
      BY <1>9, <2>1, <3>1, <3>2
    <3>4. CASE w = v
      BY <1>8, <3>1, <3>4 DEF v
    <3>5. CASE w = heap[FieldAt(b, m)]
      <4>1. w \in pointees(heap, o)
        BY <1>1, <2>1, <3>1, <3>2, <3>5, PointeesAre
      <4> QED
        BY <1>8, <4>1
    <3> QED
      BY <3>3, <3>4, <3>5
  <2> QED
    BY <2>2
<1>11. Graph!Reached(objectsOf(heap', R), roots) = objectsOf(heap', reachedFrom(heap', roots)[HeapWords])
  BY <1>1, <1>7, <1>8, <1>10, GraphReached
<1>12. objectsOf(heap', Reachable') = Graph!Reached(objectsOf(heap', R), roots)
  BY <1>1, <1>11 DEF Reachable
<1>13. DOMAIN obj = R /\ \A o \in R : obj[o] = objectOf(heap, o)
  BY DEF objectsOf
<1>14. obj[p] = [wz |-> getWosize(heap[a]), tag |-> getTag(heap[a]),
                 field |-> [m \in 1 .. getWosize(heap[a]) |-> heap[FieldAt(a, m)]]]
  BY <1>1, <1>2, <1>5, <1>8, <1>13, ObjectIs
<1>15. objectOf(heap', p) = [wz |-> getWosize(heap[a]), tag |-> getTag(heap[a]),
                             field |-> [m \in 1 .. getWosize(heap[a]) |-> heap'[FieldAt(a, m)]]]
  <2>1. objectOf(heap', p) = [wz |-> getWosize(heap'[a]), tag |-> getTag(heap'[a]),
                              field |-> [m \in 1 .. getWosize(heap'[a]) |-> heap'[FieldAt(a, m)]]]
    BY <1>1, <1>2, <1>5, <1>7, ObjectIs
  <2> QED
    BY <1>5, <2>1
<1>16. [m \in 1 .. getWosize(heap[a]) |-> heap'[FieldAt(a, m)]] =
         [[m \in 1 .. getWosize(heap[a]) |-> heap[FieldAt(a, m)]] EXCEPT ![k] = v]
  BY <1>5, <1>9
<1>17. ASSUME NEW o \in R, o # p PROVE objectOf(heap', o) = obj[o]
  <2>1. hd_address(o) \in B /\ f_address(hd_address(o)) = o /\ hd_address(o) # a
    BY <1>2, <1>8, <1>17
  <2>2. SameObject(heap, heap', hd_address(o))
    BY <1>5, <1>9, <2>1 DEF SameObject
  <2> QED
    BY <1>1, <1>7, <1>13, <2>1, <2>2, SameView
<1> HIDE DEF obj
<1> DEFINE w == getWosize(heap[a])
           t == getTag(heap[a])
           fl == [m \in 1 .. getWosize(heap[a]) |-> heap[FieldAt(a, m)]]
<1>18. [obj EXCEPT ![p].field[k] = v] =
          [o \in R |-> IF o = p THEN [wz |-> w, tag |-> t, field |-> [fl EXCEPT ![k] = v]] ELSE obj[o]]
  <2>1. obj = [o \in R |-> obj[o]]
    BY DEF obj, objectsOf
  <2>2. p \in R /\ obj[p] = [wz |-> w, tag |-> t, field |-> fl]
    BY <1>8, <1>14
  <2> HIDE DEF p, w, t, fl
  <2> QED
    BY <2>1, <2>2
<1>19. [obj EXCEPT ![p].field[k] = v] = objectsOf(heap', R)
  <2>1. ASSUME NEW o \in R
        PROVE  objectOf(heap', o) =
                 IF o = p THEN [wz |-> w, tag |-> t, field |-> [fl EXCEPT ![k] = v]] ELSE obj[o]
    BY <1>15, <1>16, <1>17
  <2> QED
    BY <1>18, <2>1 DEF objectsOf
<1>20. k \in DOMAIN obj[p].field
  BY <1>14
<1>21. objectsOf(heap', Reachable') = Graph!Reached([obj EXCEPT ![p].field[k] = v], roots)
  BY <1>12, <1>19
<1> QED
  BY <1>1, <1>8, <1>13, <1>20, <1>21 DEF Graph!Store, Graph!Roots, Roots, obj, v, R

\* The end of an allocation is the allocation in the object graph: the words
\* that are handed out belong to no object the program reaches.
LEMMA GraphAllocate ==
  ASSUME IInv, TakeBlock, leftover # 1, req.wz # 0
  PROVE  Graph!Allocate
<1> DEFINE B == Headers
           C == Headers'
           a == hdr_addr
           p == cur_val_addr
           R == Reachable
           D == R \cup {p}
           obj == objectsOf(heap, R)
           new == [wz |-> req.wz, tag |-> req.tag, field |-> [k \in 1 .. req.wz |-> Val_unit]]
<1>1. /\ heap \in Words /\ Tiled(heap, B, zero_addr, heap_size) /\ Sized(heap, B)
      /\ roots \in [Roots -> Nat] /\ B \subseteq Addresses
      /\ heap' \in Words /\ Tiled(heap', C, zero_addr, heap_size) /\ Sized(heap', C)
  BY Basics, TakeWords, TakeBlocks DEF IInv, StateType, HeapShape
<1>2. /\ a \in B /\ a \in C /\ getColor(heap[a]) = Blue /\ B \subseteq C /\ p = f_address(a) /\ p \in Nat
      /\ IsRequest(req)
  BY TakeShape, TakeBlocks
<1>3. p \in Addresses /\ is_pointer(p) /\ hd_address(p) = a
  BY <1>1, <1>2, FirstField
<1>4. /\ getWosize(heap'[a]) = req.wz /\ getTag(heap'[a]) = req.tag
      /\ \A m \in 1 .. req.wz : heap'[FieldAt(a, m)] = Val_unit
  BY TakeBlocks, TakeWords
<1>5. \A b \in Used(heap, B) : SameObject(heap, heap', b)
  BY TakeObjects DEF SameObject
<1>6. roots' = [roots EXCEPT ![req.root] = p] /\ pc = "search" /\ req.root \in Roots
  BY <1>2 DEF TakeBlock, Take, searching, IsRequest
<1>7. /\ \A o \in R : /\ is_pointer(o) /\ hd_address(o) \in Used(heap, B) /\ hd_address(o) \in B
                      /\ f_address(hd_address(o)) = o
      /\ \A r \in Roots : is_pointer(roots[r]) => roots[r] \in R
      /\ \A o \in R : pointees(heap, o) \subseteq R
  BY <1>1, <1>6, Basics, Reach, ReachableUsed DEF Reachable
<1>8. p \notin R
  BY <1>2, <1>3, <1>7 DEF Used
<1> HIDE DEF B, C, a, p, R
<1>9. roots' \in [Roots -> Nat] /\ \A r \in Roots : is_pointer(roots'[r]) => roots'[r] \in D
  BY <1>1, <1>2, <1>6, <1>7
<1>10. \A o \in D : is_pointer(o) /\ hd_address(o) \in C /\ f_address(hd_address(o)) = o
  BY <1>2, <1>3, <1>7
<1>11. ASSUME NEW o \in D PROVE pointees(heap', o) \subseteq D
  <2>1. CASE o = p
    <3>1. ASSUME NEW w \in pointees(heap', o) PROVE FALSE
      <4>1. PICK m \in 1 .. getWosize(heap'[a]) : is_pointer(w) /\ w = heap'[FieldAt(a, m)]
        BY <1>1, <1>2, <2>1, <3>1, PointeesAre
      <4> QED
        BY <1>4, <4>1, PointerFacts
    <3> QED
      BY <3>1
  <2>2. CASE o \in R
    <3> DEFINE b == hd_address(o)
    <3>1. b \in B /\ b \in C /\ f_address(b) = o /\ SameObject(heap, heap', b)
      BY <1>2, <1>5, <1>7, <2>2
    <3> HIDE DEF b
    <3>2. ASSUME NEW w \in pointees(heap', o) PROVE w \in pointees(heap, o)
      <4>1. PICK m \in 1 .. getWosize(heap'[b]) :
              Scannable(heap', b) /\ is_pointer(w) /\ w = heap'[FieldAt(b, m)]
        BY <1>1, <3>1, <3>2, PointeesAre
      <4>2. m \in 1 .. getWosize(heap[b]) /\ Scannable(heap, b) /\ w = heap[FieldAt(b, m)]
        BY <3>1, <4>1 DEF SameObject, Scannable
      <4> QED
        BY <1>1, <3>1, <4>1, <4>2, PointeesAre
    <3> QED
      BY <1>7, <2>2, <3>2
  <2> QED
    BY <2>1, <2>2
<1>12. Graph!Reached(objectsOf(heap', D), roots') = objectsOf(heap', reachedFrom(heap', roots')[HeapWords])
  <2> HIDE DEF D
  <2> QED
    BY <1>1, <1>9, <1>10, <1>11, GraphReached
<1>13. objectsOf(heap', Reachable') = Graph!Reached(objectsOf(heap', D), roots')
  BY <1>12 DEF Reachable
<1>14. objectOf(heap', p) = new
  <2>1. objectOf(heap', p) = [wz |-> getWosize(heap'[a]), tag |-> getTag(heap'[a]),
                              field |-> [k \in 1 .. getWosize(heap'[a]) |-> heap'[FieldAt(a, k)]]]
    BY <1>1, <1>2, ObjectIs
  <2>2. [k \in 1 .. getWosize(heap'[a]) |-> heap'[FieldAt(a, k)]] = [k \in 1 .. req.wz |-> Val_unit]
    BY <1>4
  <2> QED
    BY <1>4, <2>1, <2>2
<1>15. ASSUME NEW o \in R PROVE objectOf(heap', o) = objectOf(heap, o)
  BY <1>1, <1>2, <1>5, <1>7, SameView
<1>16. DOMAIN obj = R /\ \A o \in R : obj[o] = objectOf(heap, o)
  BY DEF objectsOf
<1> HIDE DEF obj, new
<1>17. objectsOf(heap', D) = [o \in DOMAIN obj \cup {p} |-> IF o = p THEN new ELSE obj[o]]
  <2>1. ASSUME NEW o \in D PROVE objectOf(heap', o) = IF o = p THEN new ELSE obj[o]
    BY <1>8, <1>14, <1>15, <1>16
  <2> QED
    BY <1>16, <2>1 DEF objectsOf
<1>18. objectsOf(heap', Reachable') =
          Graph!Reached([o \in DOMAIN obj \cup {p} |-> IF o = p THEN new ELSE obj[o]], roots')
  BY <1>13, <1>17
<1> DEFINE q == [wz |-> req.wz, tag |-> req.tag]
<1>19. q \in Requests /\ q.wz = req.wz /\ q.tag = req.tag
  BY <1>2 DEF IsRequest
<1>20. p \in Addresses \ DOMAIN obj
  BY <1>3, <1>8, <1>16
<1> QED
  BY <1>6, <1>18, <1>19, <1>20 DEF Graph!Allocate, Graph!Roots, Roots, obj, new, R

LEMMA GraphStep ==
  ASSUME IInv, IInv', [Next]_vars, contract'
  PROVE  [Graph!Next]_Graph!gvars
<1>1. CASE Store
  BY <1>1, GraphStore DEF Graph!Next
<1>2. CASE Forget
  BY <1>2, GraphForget DEF Graph!Next
<1>3. CASE TakeBlock
  BY <1>3, ContractStep, GraphAllocate DEF Graph!Next
<1>4. CASE CollectorStep
  BY <1>4, GraphStutter
<1> QED
  BY <1>1, <1>2, <1>3, <1>4, ContractStep DEF CollectorStep

-----------------------------------------------------------------------------
(* Progress: a measure that every step of the runtime lowers *)

\* The loops in the order in which a call runs them; a request collects once.
stagesLeft ==
  CASE pc = "search" -> IF retried THEN 1 ELSE 5
    [] pc = "roots" -> 4
    [] pc \in {"mark", "scan"} -> 3
    [] pc = "sweep" -> 2
    [] OTHER -> 0

\* Blocks that the mark loop may still pop and blacken.
NotBlack == {a \in Headers : colorOf(a) # Black}
blocksLeft == IF pc \in {"mark", "scan"} THEN Cardinality(NotBlack) ELSE 0

\* The free blocks from the one on that the search looks at: they are in every
\* set that holds it and is closed under the links.
FreeFields == FreeOf(heap, Headers)
Onward(S) == \A o \in S \ {0} : heap[o] \in S
Ahead == {o \in FreeFields :
            \A S \in SUBSET (FreeFields \cup {0}) : cur_val_addr \in S /\ Onward(S) => o \in S}

remaining(n) == IF i > n THEN 0 ELSE n + 1 - i

\* Iterations, or words, that the running loop may still take.
iterationsLeft ==
  CASE pc = "search" -> Cardinality(Ahead)
    [] pc = "roots" -> remaining(NumRoots)
    [] pc = "scan" -> remaining(wosizeOf(h_addr)) + 1
    [] pc = "sweep" -> heap_size - current
    [] OTHER -> 0

Measured == {stagesLeft, blocksLeft, iterationsLeft} \subseteq Nat

\* The lexicographic order of the three.
Advances ==
  \/ stagesLeft' < stagesLeft
  \/ /\ stagesLeft' = stagesLeft
     /\ \/ blocksLeft' < blocksLeft
        \/ blocksLeft' = blocksLeft /\ iterationsLeft' < iterationsLeft

\* Whoever waits for a collection waits for its second try.
RetryKnown == pc \in {"roots", "mark", "scan", "sweep"} /\ req # NoRequest => retried

LEMMA RetryStep ==
  ASSUME IInv, RetryKnown, [Next]_vars
  PROVE  RetryKnown'
<1>1. CASE Trigger(gray_cap)
  BY <1>1 DEF Trigger, verified_gc, IInv, CallInv, RetryKnown
<1>2. CASE CollectAndRetry(gray_cap)
  BY <1>2 DEF CollectAndRetry, RetryKnown
<1>3. CASE Store \/ Forget \/ Request \/ NextBlock \/ TakeBlock \/ TakeClosures \/ OutOfMemory
  <2>1. pc' \in {"mutator", "search", "fatal"}
    BY <1>3 DEF Store, Forget, Request, StartSearch, NextBlock, searching, Take, TakeBlock, TakeClosures, OutOfMemory
  <2> QED
    BY <2>1 DEF RetryKnown
<1>4. CASE \/ DarkenRoot \/ EndRoots \/ MarkStep \/ PushChild \/ EndScan
           \/ EndMark \/ SweepWhite \/ SweepBlack \/ SweepOther
  <2>1. pc \in {"roots", "mark", "scan", "sweep"} /\ UNCHANGED searchVars
    BY <1>4 DEF DarkenRoot, EndRoots, MarkStep, PopStep, marking, PushChild, EndScan, EndMark, StartSweep,
                SweepWhite, SweepBlack, SweepOther, sweep_loop_body, sweeping
  <2> QED
    BY <2>1 DEF RetryKnown, searchVars
<1>5. CASE EndSweep
  <2>1. pc = "sweep" /\ pc' \in {"mutator", "search"}
    BY <1>5 DEF EndSweep, StartSearch
  <2> QED
    BY <2>1 DEF RetryKnown
<1>6. CASE UNCHANGED vars
  BY <1>6 DEF vars, searchVars, RetryKnown
<1> QED
  BY <1>1, <1>2, <1>3, <1>4, <1>5, <1>6 DEF Next, Runtime

\* The measure is made of natural numbers.
LEMMA MeasureType ==
  ASSUME IInv
  PROVE  Measured /\ IsFiniteSet(NotBlack) /\ IsFiniteSet(Ahead)
<1>1. heap \in Words /\ Tiled(heap, Headers, zero_addr, heap_size) /\ Sized(heap, Headers) /\ Headers \subseteq Addresses
  BY Basics
<1>2. IsFiniteSet(NotBlack)
  BY <1>1, FiniteHeap, FS_Subset DEF NotBlack
<1>3. IsFiniteSet(Ahead)
  <2>1. Ahead \in SUBSET Addresses
    BY <1>1, FreeFacts DEF Ahead, FreeFields
  <2> QED
    BY <2>1, FiniteHeap, FS_Subset
<1>4. stagesLeft \in Nat
  BY DEF stagesLeft
<1>5. blocksLeft \in Nat
  BY <1>2, FS_CardinalityType DEF blocksLeft
<1>6. ASSUME NEW n \in Nat PROVE remaining(n) \in Nat
  BY DEF remaining, IInv, StateType
<1>7. /\ NumRoots \in Nat /\ Cardinality(Ahead) \in Nat
      /\ pc = "scan" => wosizeOf(h_addr) \in Nat
      /\ pc = "sweep" => heap_size - current \in Nat
  <2>1. pc = "scan" => wosizeOf(h_addr) \in Nat
    BY <1>1, Sizes DEF IInv, ScanInv, wosizeOf, read_word
  <2>2. pc = "sweep" => heap_size - current \in Nat
    BY <1>1, AddressFacts DEF IInv, SweepInv
  <2> QED
    BY <1>3, <2>1, <2>2, RootsAssumption, FS_CardinalityType
<1>8. iterationsLeft \in Nat
  BY <1>6, <1>7 DEF iterationsLeft
<1> QED
  BY <1>2, <1>3, <1>4, <1>5, <1>8 DEF Measured

\* A step of the search leaves the block it looked at behind: the rank of the
\* blocks falls along the links, so no link leads back to it.
LEMMA SearchAdvances ==
  ASSUME IInv, NextBlock
  PROVE  Advances
<1> DEFINE F == FreeFields
           c == cur_val_addr
<1>1. /\ pc = "search" /\ pc' = "search" /\ retried' = retried /\ heap' = heap
      /\ cur_val_addr' = heap[c]
  BY DEF NextBlock, searching, read_word
<1>2. c \in F /\ c # 0
  BY AtFreeBlock DEF NextBlock, FreeFields
<1>3. FreeFields' = F
  BY <1>1, SameHeap DEF FreeFields
<1>4. PICK rank \in [F \cup {0} -> Nat] : Ranked(heap, F, free_head, rank)
  BY <1>1 DEF IInv, ListInv, Linked, listHead, FreeFields
<1>5. heap[c] \in F \cup {0} /\ rank[heap[c]] = rank[c] - 1
  BY <1>2, <1>4 DEF Ranked
<1>6. Ahead' = {o \in F : \A S \in SUBSET (F \cup {0}) : heap[c] \in S /\ Onward(S) => o \in S}
  BY <1>1, <1>3 DEF Ahead, Onward
<1> HIDE DEF F
<1>7. Ahead' \subseteq Ahead
  <2>1. ASSUME NEW o \in Ahead', NEW S \in SUBSET (F \cup {0}), c \in S, Onward(S) PROVE o \in S
    BY <1>2, <1>6, <2>1 DEF Onward
  <2> QED
    BY <1>6, <2>1 DEF Ahead, F
<1>8. c \in Ahead
  BY <1>2 DEF Ahead, F
<1>9. c \notin Ahead'
  <2> DEFINE S == {o \in F \cup {0} : rank[o] < rank[c]}
  <2>1. rank[c] \in Nat /\ rank[c] >= 1
    BY <1>2, <1>4 DEF Ranked
  <2>2. heap[c] \in S
    BY <1>5, <2>1
  <2>3. Onward(S)
    <3>1. ASSUME NEW o \in S \ {0} PROVE heap[o] \in S
      <4>1. o \in F /\ rank[o] \in Nat /\ rank[o] < rank[c]
        BY <1>4
      <4>2. heap[o] \in F \cup {0} /\ rank[heap[o]] = rank[o] - 1
        BY <1>4, <4>1 DEF Ranked
      <4> QED
        BY <2>1, <4>1, <4>2
    <3> QED
      BY <3>1 DEF Onward
  <2>4. c \notin S
    BY <2>1
  <2>5. S \in SUBSET (F \cup {0})
    OBVIOUS
  <2> HIDE DEF S
  <2> QED
    BY <1>6, <2>2, <2>3, <2>4, <2>5
<1>10. Cardinality(Ahead') < Cardinality(Ahead)
  <2>1. IsFiniteSet(Ahead) /\ Ahead' \in SUBSET Ahead /\ Ahead' # Ahead
    BY <1>7, <1>8, <1>9, MeasureType
  <2>2. Cardinality(Ahead') <= Cardinality(Ahead) /\ IsFiniteSet(Ahead') /\ Cardinality(Ahead) # Cardinality(Ahead')
    BY <2>1, FS_Subset
  <2>3. Cardinality(Ahead) \in Nat /\ Cardinality(Ahead') \in Nat
    BY <2>1, <2>2, FS_CardinalityType
  <2> QED
    BY <2>2, <2>3
<1>11. iterationsLeft' < iterationsLeft
  BY <1>1, <1>10 DEF iterationsLeft
<1> QED
  BY <1>1, <1>11 DEF Advances, stagesLeft, blocksLeft

\* A root or a field: the loop goes on, and no block becomes black or ceases to be.
LEMMA DarkenAdvances ==
  ASSUME IInv, DarkenRoot \/ PushChild
  PROVE  Advances
<1>1. CASE DarkenRoot
  <2>1. pc = "roots" /\ pc' = "roots" /\ i \in Nat /\ i <= NumRoots /\ i' = i + 1
    BY <1>1, DarkenedRoot DEF DarkenRoot
  <2>2. remaining(NumRoots)' < remaining(NumRoots)
    BY <2>1, RootsAssumption DEF remaining
  <2> QED
    BY <2>1, <2>2 DEF Advances, stagesLeft, blocksLeft, iterationsLeft
<1>2. CASE PushChild
  <2> DEFINE v == heap[FieldAt(h_addr, i)]
  <2>1. /\ pc = "scan" /\ pc' = "scan" /\ h_addr' = h_addr /\ i' = i + 1
        /\ UNCHANGED <<roots, free_head, pc, searchVars, h_addr, sweepVars>>
        /\ v \in Nat /\ Leads(v, Survivors)
        /\ \/ is_pointer(v) /\ darken_if_white(hd_address(v))
           \/ ~is_pointer(v) /\ UNCHANGED <<heap, stackVars>>
    BY <1>2, DarkenedField DEF PushChild
  <2>2. h_addr \in Headers /\ i \in Nat /\ i <= wosizeOf(h_addr) /\ wosizeOf(h_addr) \in Nat
    BY <1>2, DarkenedField
  <2>3. /\ Headers' = Headers /\ SameShape(heap, heap', Headers)
        /\ \A b \in Headers : getColor(heap'[b]) = Black <=> getColor(heap[b]) = Black
    <3> HIDE DEF v
    <3> QED
      BY <2>1, DarkenInv
  <2>4. NotBlack' = NotBlack
    BY <2>3 DEF NotBlack, colorOf, read_word
  <2>5. blocksLeft' = blocksLeft
    BY <2>1, <2>4 DEF blocksLeft
  <2>6. wosizeOf(h_addr)' = wosizeOf(h_addr)
    BY <2>1, <2>2, <2>3 DEF SameShape, wosizeOf, read_word
  <2>7. remaining(wosizeOf(h_addr))' + 1 < remaining(wosizeOf(h_addr)) + 1
    BY <2>1, <2>2, <2>6 DEF remaining
  <2> QED
    BY <2>1, <2>5, <2>7 DEF Advances, stagesLeft, iterationsLeft
<1> QED
  BY <1>1, <1>2

\* mark_step blackens a gray block, and blackens it for good.
LEMMA MarkStepAdvances ==
  ASSUME IInv, MarkStep
  PROVE  Advances
<1> DEFINE a == hd_address(popped)
<1>1. pc = "mark" /\ a \in Headers /\ getColor(heap[a]) = Gray
  BY PoppedGray
<1>2. pc' \in {"mark", "scan"}
  BY DEF MarkStep, PopStep
<1>3. Headers' = Headers /\ \A b \in Headers : getColor(heap'[b]) = IF b = a THEN Black ELSE getColor(heap[b])
  BY MarkStepInv
<1> HIDE DEF a
<1>4. NotBlack' = NotBlack \ {a} /\ a \in NotBlack
  BY <1>1, <1>3 DEF NotBlack, colorOf, read_word, Gray, Black
<1>5. Cardinality(NotBlack') = Cardinality(NotBlack) - 1 /\ Cardinality(NotBlack) \in Nat
  BY <1>4, MeasureType, FS_RemoveElement, FS_CardinalityType
<1>6. blocksLeft' < blocksLeft
  BY <1>1, <1>2, <1>5 DEF blocksLeft
<1> QED
  BY <1>1, <1>2, <1>6 DEF Advances, stagesLeft

\* Every other step goes on to a loop further down, or back to the program; a scan
\* that ends leaves its loop, and a step of the sweep leaves its block behind.
LEMMA OthersAdvance ==
  ASSUME IInv, RetryKnown,
         \/ TakeBlock \/ TakeClosures \/ CollectAndRetry(gray_cap) \/ OutOfMemory \/ EndRoots \/ EndScan
         \/ EndMark \/ SweepWhite \/ SweepBlack \/ SweepOther \/ EndSweep
  PROVE  Advances
<1>1. CASE TakeBlock \/ TakeClosures \/ CollectAndRetry(gray_cap) \/ OutOfMemory
  <2>1. TakeBlock \/ TakeClosures \/ OutOfMemory => pc = "search" /\ pc' \in {"mutator", "fatal"}
    BY DEF TakeBlock, TakeClosures, Take, searching, OutOfMemory, noBlock
  <2>2. CollectAndRetry(gray_cap) => pc = "search" /\ ~retried /\ pc' = "roots"
    BY DEF CollectAndRetry, verified_gc, noBlock
  <2> QED
    BY <1>1, <2>1, <2>2 DEF Advances, stagesLeft
<1>2. CASE EndRoots \/ EndMark
  <2>1. EndRoots => pc = "roots" /\ pc' = "mark"
    BY DEF EndRoots
  <2>2. EndMark => pc = "mark" /\ pc' = "sweep"
    BY DEF EndMark, StartSweep
  <2> QED
    BY <1>2, <2>1, <2>2 DEF Advances, stagesLeft
<1>3. CASE EndScan
  <2>1. pc = "scan" /\ pc' = "mark" /\ heap' = heap
    BY <1>3 DEF EndScan
  <2>2. NotBlack' = NotBlack
    BY <2>1, SameHeap DEF NotBlack, colorOf, read_word
  <2>3. wosizeOf(h_addr) \in Nat
    BY <2>1, Basics, Sizes DEF IInv, ScanInv, wosizeOf, read_word
  <2>4. remaining(wosizeOf(h_addr)) \in Nat
    BY <2>3 DEF remaining, IInv, StateType
  <2>5. iterationsLeft' < iterationsLeft
    BY <2>1, <2>4 DEF iterationsLeft
  <2> QED
    BY <2>1, <2>2, <2>5 DEF Advances, stagesLeft, blocksLeft
<1>4. CASE SweepWhite \/ SweepBlack \/ SweepOther
  <2>1. sweeping /\ pc = "sweep" /\ pc' = "sweep" /\ current' = next_object
    BY <1>4 DEF SweepWhite, SweepBlack, SweepOther, sweeping, sweep_loop_body
  <2>2. heap \in Words /\ Tiled(heap, Headers, zero_addr, heap_size)
    BY Basics
  <2>3. current \in Headers
    BY <2>1, AtCurrent
  <2>4. current \in Nat /\ next_object \in Nat /\ current < next_object /\ heap_size \in Nat
    BY <2>2, <2>3, Sizes, AddressFacts DEF Tiled, next_object
  <2>5. heap_size - current' < heap_size - current
    BY <2>1, <2>4
  <2> QED
    BY <2>1, <2>5 DEF Advances, stagesLeft, blocksLeft, iterationsLeft
<1>5. CASE EndSweep
  <2>1. pc = "sweep" /\ UNCHANGED retried
    BY <1>5 DEF EndSweep
  <2>2. \/ req = NoRequest /\ pc' = "mutator" /\ UNCHANGED <<prev_val_addr, cur_val_addr>>
        \/ req # NoRequest /\ pc' = "search" /\ prev_val_addr' = 0 /\ cur_val_addr' = free_ptr
    BY <1>5 DEF EndSweep, StartSearch
  <2> QED
    BY <2>1, <2>2 DEF Advances, stagesLeft, RetryKnown
<1> QED
  BY <1>1, <1>2, <1>3, <1>4, <1>5

-----------------------------------------------------------------------------
(* The theorems.  Each speaks of a behaviour up to the first step that     *)
(* breaks the contract of collect: until the program takes a block one     *)
(* word larger than its object, asks for an object without a word, or is   *)
(* given a pointer to an infix header.                                     *)

\* Until then the walk by header sizes ends at the end of the heap, and the free
\* list is without end or repetition the list of the blue blocks, whatever mix of
\* splits and of sweeps onto an older list has built it (allocator_alloc, sweep).
THEOREM FreeListCorrect == Spec => []FreeListExact
<1>1. (contract => IInv) => FreeListExact
  BY FreeListExactHolds DEF FreeListExact
<1> QED
  BY <1>1, Invariance, PTL

\* Until then, and as long as no push has left the storage, the stack holds the
\* gray blocks and nothing else, each once: marking needs no rescan (push,
\* mark_step).
THEOREM StackCorrect == Spec => [](StackInBounds => StackExact)
<1>1. (contract => IInv) => (StackInBounds => StackExact)
  BY StackExactHolds DEF StackExact
<1> QED
  BY <1>1, Invariance, PTL

\* Until then no push leaves the stack that verified_gc allocates, in a heap of at
\* most 64 KB.  A larger heap gets one entry for eight words (alloc.c), and may
\* have one gray block for every two.
THEOREM StackBounded ==
  ASSUME BridgeStack, SmallHeap PROVE Spec => [](contract => StackInBounds)
<1>1. Init => top >= 0
  BY StackAssumption DEF Init
<1>2. (contract => IInv /\ top >= 0) /\ [Next]_vars => (contract' => (IInv /\ top >= 0)')
  BY ContractStep, StepInv, StackKept, SmallHeapFits
<1>3. IInv /\ top >= 0 => StackInBounds
  BY StackAssumption DEF IInv, StateType, StackInBounds
<1> QED
  BY <1>1, <1>2, <1>3, InitInv, PTL DEF Spec

\* In such a heap the types are as TypeOK has them until then: locals and links
\* stay addresses of the heap through search, mark and sweep.
THEOREM TypeCorrect ==
  ASSUME BridgeStack, SmallHeap PROVE Spec => [](contract => TypeOK)
<1>1. (contract => IInv /\ RestOfType) /\ [Next]_vars => (contract' => (IInv /\ RestOfType)')
  BY ContractStep, StepInv, RestOfTypeStep
<1>2. IInv /\ RestOfType /\ StackInBounds => TypeOK
  BY TypeHolds DEF StackInBounds
<1>3. Spec => [](contract => StackInBounds)
  BY StackBounded
<1> QED
  BY <1>1, <1>2, <1>3, InitInv, RestOfTypeInit, PTL DEF Spec

\* When verified_gc returns before then, the blocks in use are the reachable ones
\* and no other, and they are white.
THEOREM GarbageFreedExactly == Spec => GarbageFreed
<1>1. Init => MarkedReachable
  BY DEF Init, MarkedReachable, Marking
<1>2. IInv /\ MarkedReachable /\ [Next]_vars =>
        (contract /\ pc = "sweep" /\ pc' # "sweep" =>
           /\ usedBlocks' = {hd_address(o) : o \in Reachable'}
           /\ \A a \in usedBlocks' : colorOf(a)' = White)
  BY FreedStep, FreedAtEnd
<1>3. (contract => IInv /\ MarkedReachable) /\ [Next]_vars => (contract' => (IInv /\ MarkedReachable)')
  BY ContractStep, StepInv, MarkedReachableStep
<1>4. (contract => IInv /\ MarkedReachable) /\ [Next]_vars =>
        (contract /\ pc = "sweep" /\ pc' # "sweep" =>
           /\ usedBlocks' = {hd_address(o) : o \in Reachable'}
           /\ \A a \in usedBlocks' : colorOf(a)' = White)
  BY <1>2
<1> QED
  BY <1>1, <1>3, <1>4, InitInv, PTL DEF Spec, GarbageFreed

\* Until then the heap, the free list and the collector implement the object
\* graph: what the program reaches changes only by its own stores and by new
\* objects, and no word in use is handed out.
THEOREM GraphImplemented == Spec => GraphSpec
<1>1. Init => Graph!Init
  BY GraphInit
<1>2. (contract => IInv) /\ (contract => IInv)' /\ [Next]_vars =>
        (contract' => [Graph!Next]_Graph!gvars)
  BY ContractStep, GraphStep
<1> QED
  BY <1>1, <1>2, Invariance, PTL DEF Spec, GraphSpec

\* Until then a call takes finitely many steps: while the program waits for
\* verified_allocate or verified_gc, every step lowers a measure of three natural
\* numbers, in their lexicographic order: stages of the call, blocks to mark,
\* iterations of the loop.  A search has no fuel here: it ends since the free list
\* leads nowhere twice.
THEOREM RuntimeAdvances ==
  Spec => [][contract /\ pc # "mutator" => Measured /\ Advances]_vars
<1>1. Init => RetryKnown
  BY DEF Init, RetryKnown
<1>2. (contract => IInv /\ RetryKnown) /\ [Next]_vars => (contract' => (IInv /\ RetryKnown)')
  BY ContractStep, StepInv, RetryStep
<1>3. IInv /\ RetryKnown /\ [Next]_vars => [pc # "mutator" => Measured /\ Advances]_vars
  <2>1. Store \/ Forget \/ Request \/ Trigger(gray_cap) => pc = "mutator"
    BY DEF Store, Forget, Request, Trigger
  <2> QED
    BY <2>1, MeasureType, SearchAdvances, DarkenAdvances, MarkStepAdvances, OthersAdvance DEF Next, Runtime
<1>4. (contract => IInv /\ RetryKnown) /\ [Next]_vars =>
        [contract /\ pc # "mutator" => Measured /\ Advances]_vars
  BY <1>3
<1> QED
  BY <1>1, <1>2, <1>4, InitInv, PTL DEF Spec
=============================================================================
