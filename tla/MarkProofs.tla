----------------------------- MODULE MarkProofs -----------------------------
(* What TLAPS proves of Mark, for every heap, root array and capacity.      *)
EXTENDS Mark, FiniteSetTheorems, SequenceTheorems, TLAPS

-----------------------------------------------------------------------------
(* The inductive invariant *)

\* Blue blocks stay out of the trace.
BlueUnreached ==
  /\ \A b \in Targets(roots) : color[b] # "Blue"
  /\ \A b \in Blocks : color[b] # "Blue" =>
       \A c \in Children(b) : color[c] # "Blue"

\* The roots the first loop has passed are gray or black.
RootsDarkened ==
  /\ pc = "roots" =>
       \A i \in DOMAIN roots :
         i < idx /\ is_pointer(roots[i]) =>
           color[resolve(roots[i])] \in {"Gray", "Black"}
  /\ pc # "roots" =>
       \A b \in Targets(roots) : color[b] \in {"Gray", "Black"}

ScanOK == pc = "scan" => color[obj] = "Black" /\ obj \notin noscan

\* What the walk has pushed lies behind its cursor.
WalkAhead == pc = "rescan" => \A b \in OnStack : b < obj

NoGrayAtEnd == pc = "done" => IsColor("Gray") = {}

IInv ==
  /\ TypeOK
  /\ StackIsGraySet
  /\ TriColor
  /\ RescanCovers
  /\ OnlyReachableMarked
  /\ BlueUnreached
  /\ RootsDarkened
  /\ ScanOK
  /\ WalkAhead
  /\ NoGrayAtEnd

-----------------------------------------------------------------------------
(* The object graph *)

\* A pointer of the heap or of the root array leads to a block.
LEMMA ResolveType ==
  ASSUME NEW v \in Words, is_pointer(v)
  PROVE  resolve(v) \in Blocks
BY InfixAssumption DEF Words, Headers, is_pointer, resolve

LEMMA TargetsElement ==
  ASSUME NEW ws \in Seq(Words), NEW b
  PROVE  b \in Targets(ws) <=>
           \E i \in 1 .. Len(ws) : is_pointer(ws[i]) /\ b = resolve(ws[i])
BY DEF Targets

LEMMA TargetsType ==
  ASSUME NEW ws \in Seq(Words)
  PROVE  Targets(ws) \subseteq Blocks
BY TargetsElement, ResolveType

\* The contents of a block are a sequence of words.
LEMMA FieldType ==
  ASSUME TypeOK
  PROVE  /\ \A b \in Blocks : field[b] \in Seq(Words)
         /\ roots \in Seq(Words)
BY ContentsAssumption, RootsAssumption DEF TypeOK

LEMMA ChildrenType ==
  ASSUME TypeOK, NEW b \in Blocks
  PROVE  Children(b) \subseteq Blocks
BY FieldType, TargetsType DEF Children

\* The roots lead to reachable blocks, and so does every reachable block.
LEMMA ReachableClosed ==
  ASSUME TypeOK
  PROVE  /\ Targets(roots) \subseteq Reachable
         /\ \A b \in Reachable : Children(b) \subseteq Reachable
<1>1. Targets(roots) \subseteq Reachable
  BY FieldType, TargetsType DEF Reachable
<1>2. ASSUME NEW b \in Reachable, NEW c \in Children(b)
      PROVE  c \in Reachable
  <2>1. b \in Blocks /\ c \in Blocks
    BY ChildrenType DEF Reachable
  <2>2. ASSUME NEW S \in SUBSET Blocks, Targets(roots) \subseteq S, Closed(S)
        PROVE  c \in S
    BY <2>2 DEF Reachable, Closed
  <2> QED BY <2>1, <2>2 DEF Reachable
<1> QED BY <1>1, <1>2

\* Reachable is the least set that holds the roots and is closed.
LEMMA ReachableLeast ==
  ASSUME NEW S \in SUBSET Blocks, Targets(roots) \subseteq S, Closed(S)
  PROVE  Reachable \subseteq S
BY DEF Reachable

-----------------------------------------------------------------------------
(* The gray stack *)

LEMMA PushProperties ==
  ASSUME NEW h \in Blocks, stack \in Seq(Blocks)
  PROVE  /\ push(h) \in Seq(Blocks)
         /\ Len(push(h)) = Len(stack) + 1
         /\ push(h)[1] = h
         /\ \A i \in 2 .. Len(stack) + 1 : push(h)[i] = stack[i - 1]
<1>1. <<h>> \in Seq(Blocks) /\ Len(<<h>>) = 1 /\ <<h>>[1] = h
  OBVIOUS
<1> QED BY <1>1, ConcatProperties DEF push

\* Pushing a gray block that is not on the stack keeps it a set of gray blocks.
LEMMA PushOnStack ==
  ASSUME NEW h \in Blocks, stack \in Seq(Blocks)
  PROVE  /\ {push(h)[i] : i \in DOMAIN push(h)} = OnStack \cup {h}
         /\ (h \notin OnStack /\ \A i, j \in DOMAIN stack : stack[i] = stack[j] => i = j)
              => \A i, j \in DOMAIN push(h) : push(h)[i] = push(h)[j] => i = j
<1> DEFINE p == push(h)
<1>1. /\ p \in Seq(Blocks) /\ Len(p) = Len(stack) + 1
      /\ p[1] = h /\ \A i \in 2 .. Len(stack) + 1 : p[i] = stack[i - 1]
  BY PushProperties
<1>2. DOMAIN p = 1 .. Len(stack) + 1 /\ DOMAIN stack = 1 .. Len(stack) /\ Len(stack) \in Nat
  BY <1>1
<1> HIDE DEF p
<1>3. {p[i] : i \in DOMAIN p} = OnStack \cup {h}
  <2>1. ASSUME NEW i \in DOMAIN p PROVE p[i] \in OnStack \cup {h}
    <3>1. CASE i = 1 BY <1>1, <3>1
    <3>2. CASE i # 1
      <4>1. i \in 2 .. Len(stack) + 1 /\ i - 1 \in 1 .. Len(stack)
        BY <1>2, <3>2
      <4> QED BY <1>1, <1>2, <4>1 DEF OnStack
    <3> QED BY <3>1, <3>2
  <2>2. ASSUME NEW i \in DOMAIN stack PROVE \E j \in DOMAIN p : p[j] = stack[i]
    <3>1. i + 1 \in 2 .. Len(stack) + 1 /\ i + 1 \in DOMAIN p /\ (i + 1) - 1 = i
      BY <1>2
    <3> QED BY <1>1, <3>1
  <2>3. 1 \in DOMAIN p
    BY <1>2
  <2> QED BY <1>1, <2>1, <2>2, <2>3 DEF OnStack
<1>4. ASSUME h \notin OnStack, \A i, j \in DOMAIN stack : stack[i] = stack[j] => i = j,
             NEW i \in DOMAIN p, NEW j \in DOMAIN p, p[i] = p[j]
      PROVE  i = j
  <2>1. \A k \in DOMAIN p : k # 1 => k - 1 \in DOMAIN stack /\ p[k] = stack[k - 1]
    BY <1>1, <1>2
  <2>2. \A k \in DOMAIN stack : stack[k] # h
    BY <1>4 DEF OnStack
  <2> QED BY <1>1, <1>2, <1>4, <2>1, <2>2
<1> QED BY <1>3, <1>4 DEF p

-----------------------------------------------------------------------------
(* One call of check_and_darken_bounded *)

\* It colours at most one header, the one its word leads to, from white to
\* gray, and keeps the stack a bounded set of gray blocks.
LEMMA DarkenProperties ==
  ASSUME TypeOK, StackIsGraySet, NEW v \in Words, check_and_darken_bounded(v),
         is_pointer(v) => color[resolve(v)] # "Blue"
  PROVE  /\ color' \in [Headers -> Colors]
         /\ stack' \in Seq(Blocks) /\ Len(stack') <= cap
         /\ \A h \in Headers :
              \/ color'[h] = color[h]
              \/ /\ color[h] = "White" /\ color'[h] = "Gray"
                 /\ is_pointer(v) /\ h = resolve(v)
         /\ is_pointer(v) => color'[resolve(v)] \in {"Gray", "Black"}
         /\ (OnStack \subseteq IsColor("Gray"))'
         /\ (\A i, j \in DOMAIN stack : stack[i] = stack[j] => i = j)'
<1>t. /\ color \in [Headers -> Colors] /\ stack \in Seq(Blocks) /\ Len(stack) <= cap
      /\ cap \in Nat /\ Len(stack) \in Nat
  BY CapacityAssumption DEF TypeOK
<1>s. /\ OnStack \subseteq IsColor("Gray")
      /\ \A i, j \in DOMAIN stack : stack[i] = stack[j] => i = j
  BY DEF StackIsGraySet
<1>1. CASE UNCHANGED <<color, stack>> /\ (is_pointer(v) => color[resolve(v)] # "White")
  <2>1. is_pointer(v) => resolve(v) \in Headers
    BY ResolveType DEF Headers
  <2>2. is_pointer(v) => color[resolve(v)] \in {"Gray", "Black"}
    BY <1>t, <1>1, <2>1 DEF Colors
  <2> QED BY <1>t, <1>s, <1>1, <2>2 DEF OnStack, IsColor
<1>2. ASSUME is_pointer(v), color[resolve(v)] = "White",
             color' = [color EXCEPT ![resolve(v)] = "Gray"],
             stack' = IF is_full THEN stack ELSE push(resolve(v))
      PROVE  /\ color' \in [Headers -> Colors]
             /\ stack' \in Seq(Blocks) /\ Len(stack') <= cap
             /\ \A h \in Headers :
                  \/ color'[h] = color[h]
                  \/ /\ color[h] = "White" /\ color'[h] = "Gray"
                     /\ is_pointer(v) /\ h = resolve(v)
             /\ is_pointer(v) => color'[resolve(v)] \in {"Gray", "Black"}
             /\ (OnStack \subseteq IsColor("Gray"))'
             /\ (\A i, j \in DOMAIN stack : stack[i] = stack[j] => i = j)'
  <2> DEFINE h == resolve(v)
  <2>1. h \in Blocks /\ h \in Headers
    BY <1>2, ResolveType DEF Headers
  <2>2. h \notin OnStack
    BY <1>s, <1>2 DEF IsColor
  <2>3. /\ color' \in [Headers -> Colors]
        /\ \A k \in Headers : color'[k] = IF k = h THEN "Gray" ELSE color[k]
    BY <1>t, <1>2, <2>1 DEF Colors
  <2>4. stack' = stack \/ (stack' = push(h) /\ Len(stack) < cap)
    BY <1>t, <1>2 DEF is_full
  <2> HIDE DEF h
  <2>5. /\ stack' \in Seq(Blocks) /\ Len(stack') <= cap
    BY <1>t, <2>1, <2>4, PushProperties
  <2>6. OnStack' \subseteq OnStack \cup {h}
    <3>1. CASE stack' = stack
      BY <3>1 DEF OnStack
    <3>2. CASE stack' = push(h)
      <4>1. OnStack' = {push(h)[i] : i \in DOMAIN push(h)}
        BY <3>2 DEF OnStack
      <4> QED BY <1>t, <2>1, <4>1, PushOnStack
    <3> QED BY <2>4, <3>1, <3>2
  <2>7. (\A i, j \in DOMAIN stack : stack[i] = stack[j] => i = j)'
    BY <1>t, <1>s, <2>1, <2>2, <2>4, PushOnStack
  <2>8. (OnStack \subseteq IsColor("Gray"))'
    <3>1. \A b \in Blocks : b \in Headers
      BY DEF Headers
    <3> QED BY <1>s, <2>1, <2>3, <2>6, <3>1 DEF IsColor
  <2>9. color'[h] = "Gray"
    BY <2>1, <2>3
  <2>10. h = resolve(v)
    BY DEF h
  <2> QED BY <1>2, <2>3, <2>5, <2>7, <2>8, <2>9, <2>10
<1> QED BY <1>1, <1>2 DEF check_and_darken_bounded, darken_if_white_bounded

-----------------------------------------------------------------------------
(* Initial states and steps *)

LEMMA InitInv == Init => IInv
<1> SUFFICES ASSUME Init PROVE IInv
  OBVIOUS
<1>1. TypeOK
  BY NumBlocksAssumption, CapacityAssumption DEF Init, TypeOK, Colors, Blocks
<1>2. \A b \in Blocks : color[b] \in {"White", "Blue"}
  BY DEF Init, WellFormedHeap
<1>3. BlueUnreached
  BY <1>2 DEF Init, WellFormedHeap, BlueUnreached
<1>4. StackIsGraySet /\ TriColor /\ OnlyReachableMarked
  BY <1>2 DEF Init, StackIsGraySet, TriColor, OnlyReachableMarked, OnStack, IsColor, Pending
<1>5. RootsDarkened
  BY <1>1, FieldType DEF Init, RootsDarkened
<1> QED BY <1>1, <1>3, <1>4, <1>5
    DEF Init, IInv, RescanCovers, ScanOK, WalkAhead, NoGrayAtEnd

\* No step of the collector changes the object graph.
LEMMA GraphUnchanged ==
  ASSUME UNCHANGED memory
  PROVE  /\ Reachable' = Reachable
         /\ Targets(roots)' = Targets(roots)
         /\ \A b : Children(b)' = Children(b)
<1>1. field' = field /\ noscan' = noscan /\ roots' = roots /\ cap' = cap
  BY DEF memory
<1>2. Targets(roots)' = Targets(roots)
  BY <1>1 DEF Targets
<1>3. \A b : Children(b)' = Children(b)
  BY <1>1 DEF Children, Targets
<1>4. \A S : Closed(S)' = Closed(S)
  BY <1>3 DEF Closed
<1>5. Reachable' = Reachable
  BY <1>2, <1>4 DEF Reachable
<1> QED BY <1>2, <1>3, <1>5

\* What holds of the colours survives a step that only turns reachable white
\* blocks gray and leaves the pending block and its cursor to be dealt with.
LEMMA GrayingStep ==
  ASSUME IInv, UNCHANGED memory,
         NEW T \in SUBSET Reachable,
         \A h \in Headers :
           \/ color'[h] = color[h]
           \/ color[h] = "White" /\ color'[h] = "Gray" /\ h \in T
  PROVE  /\ OnlyReachableMarked'
         /\ BlueUnreached'
         /\ \A b \in Blocks : color[b] \in {"Gray", "Black"} =>
                                color'[b] \in {"Gray", "Black"}
         /\ IsColor("Black")' = IsColor("Black")
<1>1. Blocks \subseteq Headers
  BY DEF Headers
<1>2. /\ Reachable' = Reachable /\ Targets(roots)' = Targets(roots)
      /\ \A b : Children(b)' = Children(b)
  BY GraphUnchanged
<1>3. /\ Targets(roots) \subseteq Blocks
      /\ \A b \in Blocks : Children(b) \subseteq Blocks
  BY FieldType, TargetsType, ChildrenType DEF IInv
<1>4. \A b \in Blocks :
        \/ color'[b] = color[b]
        \/ color[b] = "White" /\ color'[b] = "Gray" /\ b \in Reachable
  BY <1>1
<1>5. OnlyReachableMarked'
  BY <1>2, <1>4 DEF IInv, OnlyReachableMarked, IsColor
<1>6. \A b \in Blocks : color'[b] = "Blue" <=> color[b] = "Blue"
  BY <1>4
<1>7. BlueUnreached'
  <2>1. (\A b \in Targets(roots) : color[b] # "Blue")'
    BY <1>2, <1>3, <1>6 DEF IInv, BlueUnreached
  <2>2. (\A b \in Blocks : color[b] # "Blue" =>
           \A c \in Children(b) : color[c] # "Blue")'
    BY <1>2, <1>3, <1>6 DEF IInv, BlueUnreached
  <2> QED BY <2>1, <2>2 DEF BlueUnreached
<1>8. /\ \A b \in Blocks : color[b] \in {"Gray", "Black"} =>
                             color'[b] \in {"Gray", "Black"}
      /\ IsColor("Black")' = IsColor("Black")
  BY <1>4 DEF IsColor
<1> QED BY <1>5, <1>7, <1>8

LEMMA DarkenRootInv == IInv /\ DarkenRoot => IInv'
<1> SUFFICES ASSUME IInv, DarkenRoot PROVE IInv'
  OBVIOUS
<1> DEFINE v == roots[idx]
<1>1. /\ roots \in Seq(Words) /\ idx \in 1 .. Len(roots) /\ v \in Words
      /\ idx \in Nat
  BY FieldType DEF IInv, TypeOK, DarkenRoot
<1>2. is_pointer(v) => resolve(v) \in Targets(roots)
  BY <1>1, TargetsElement
<1>3. is_pointer(v) => color[resolve(v)] # "Blue" /\ resolve(v) \in Reachable
  BY <1>2, ReachableClosed DEF IInv, BlueUnreached
<1> HIDE DEF v
<1>4. check_and_darken_bounded(v)
  BY DEF DarkenRoot, v
<1>5. /\ color' \in [Headers -> Colors]
      /\ stack' \in Seq(Blocks) /\ Len(stack') <= cap
      /\ \A h \in Headers :
           \/ color'[h] = color[h]
           \/ /\ color[h] = "White" /\ color'[h] = "Gray"
              /\ is_pointer(v) /\ h = resolve(v)
      /\ is_pointer(v) => color'[resolve(v)] \in {"Gray", "Black"}
      /\ (OnStack \subseteq IsColor("Gray"))'
      /\ (\A i, j \in DOMAIN stack : stack[i] = stack[j] => i = j)'
  BY <1>1, <1>3, <1>4, DarkenProperties DEF IInv
<1>6. UNCHANGED memory /\ pc = "roots" /\ pc' = "roots" /\ obj' = obj /\ idx' = idx + 1
  BY DEF DarkenRoot
<1>7. /\ OnlyReachableMarked' /\ BlueUnreached'
      /\ \A b \in Blocks : color[b] \in {"Gray", "Black"} =>
                             color'[b] \in {"Gray", "Black"}
      /\ IsColor("Black")' = IsColor("Black")
  <2> DEFINE T == IF is_pointer(v) THEN {resolve(v)} ELSE {}
  <2>1. T \in SUBSET Reachable
    BY <1>3
  <2>2. \A h \in Headers :
          \/ color'[h] = color[h]
          \/ color[h] = "White" /\ color'[h] = "Gray" /\ h \in T
    BY <1>5
  <2> HIDE DEF T
  <2> QED BY <1>6, <2>1, <2>2, GrayingStep
<1>8. TypeOK'
  BY <1>1, <1>5, <1>6 DEF IInv, TypeOK, memory
<1>9. StackIsGraySet'
  BY <1>5 DEF StackIsGraySet
<1>10. TriColor'
  <2>1. \A b \in IsColor("Black") : \A c \in Children(b) :
          c \in Blocks /\ color[c] \in {"Gray", "Black"}
    BY <1>6, ChildrenType DEF IInv, TriColor, Pending, IsColor
  <2> QED BY <1>6, <1>7, <2>1, GraphUnchanged DEF TriColor, Pending
<1>11. RootsDarkened'
  <2>1. roots' = roots
    BY <1>6 DEF memory
  <2>2. ASSUME NEW i \in DOMAIN roots, i < idx + 1, is_pointer(roots[i])
        PROVE  color'[resolve(roots[i])] \in {"Gray", "Black"}
    <3>1. CASE i = idx
      BY <1>5, <2>2, <3>1 DEF v
    <3>2. CASE i # idx
      <4>1. i < idx /\ roots[i] \in Words
        BY <1>1, <2>2, <3>2
      <4>2. color[resolve(roots[i])] \in {"Gray", "Black"}
        BY <1>6, <2>2, <4>1 DEF IInv, RootsDarkened
      <4> QED BY <1>7, <2>2, <4>1, <4>2, ResolveType
    <3> QED BY <3>1, <3>2
  <2> QED BY <1>6, <2>1, <2>2 DEF RootsDarkened
<1> QED BY <1>6, <1>7, <1>8, <1>9, <1>10, <1>11
    DEF IInv, RescanCovers, ScanOK, WalkAhead, NoGrayAtEnd

\* A step that leaves the memory and the colours alone.
LEMMA SameColors ==
  ASSUME IInv, UNCHANGED memory, UNCHANGED color
  PROVE  OnlyReachableMarked' /\ BlueUnreached'
<1>1. \A h \in Headers : color'[h] = color[h]
  OBVIOUS
<1> QED BY <1>1, GrayingStep

LEMMA EndRootsInv == IInv /\ EndRoots => IInv'
<1> SUFFICES ASSUME IInv, EndRoots PROVE IInv'
  OBVIOUS
<1>1. /\ UNCHANGED memory /\ UNCHANGED <<color, stack, obj, idx>>
      /\ pc = "roots" /\ pc' = "inner" /\ idx > Len(roots)
  BY DEF EndRoots
<1>2. TypeOK' /\ StackIsGraySet' /\ TriColor'
  BY <1>1, GraphUnchanged
     DEF IInv, TypeOK, memory, StackIsGraySet, OnStack, TriColor, Pending, IsColor
<1>3. RootsDarkened'
  <2>1. roots \in Seq(Words) /\ idx \in Nat
    BY FieldType DEF IInv, TypeOK
  <2>2. ASSUME NEW b \in Targets(roots)
        PROVE  color[b] \in {"Gray", "Black"}
    <3>1. PICK i \in 1 .. Len(roots) : is_pointer(roots[i]) /\ b = resolve(roots[i])
      BY <2>1, TargetsElement
    <3>2. i \in DOMAIN roots /\ i < idx
      BY <1>1, <2>1
    <3> QED BY <1>1, <3>1, <3>2 DEF IInv, RootsDarkened
  <2> QED BY <1>1, <2>2, GraphUnchanged DEF RootsDarkened
<1> QED BY <1>1, <1>2, <1>3, SameColors
    DEF IInv, RescanCovers, ScanOK, WalkAhead, NoGrayAtEnd

LEMMA MarkStepInv == IInv /\ MarkStep => IInv'
<1> SUFFICES ASSUME IInv, MarkStep PROVE IInv'
  OBVIOUS
<1>t. /\ color \in [Headers -> Colors] /\ stack \in Seq(Blocks) /\ Len(stack) <= cap
      /\ cap \in Nat /\ Len(stack) \in Nat /\ Blocks \subseteq Headers
  BY CapacityAssumption DEF IInv, TypeOK, Headers
<1>1. /\ UNCHANGED memory /\ pc = "inner" /\ stack # <<>>
      /\ obj' = Head(stack) /\ stack' = Tail(stack) /\ idx' = 1
      /\ color' = [color EXCEPT ![obj'] = "Black"]
      /\ pc' = IF obj' \in noscan THEN "inner" ELSE "scan"
  BY DEF MarkStep, PopStep, is_empty
<1>2. /\ Len(stack) > 0 /\ obj' = stack[1] /\ obj' \in Blocks
      /\ stack' \in Seq(Blocks) /\ Len(stack') = Len(stack) - 1
      /\ \A i \in 1 .. Len(stack) - 1 : stack'[i] = stack[i + 1]
  BY <1>t, <1>1
<1>3. color[obj'] = "Gray" /\ obj' \in Reachable
  <2>1. stack[1] \in OnStack
    BY <1>t, <1>2 DEF OnStack
  <2> QED BY <1>2, <2>1 DEF IInv, StackIsGraySet, OnlyReachableMarked, IsColor
<1>4. \A h \in Headers : color'[h] = IF h = obj' THEN "Black" ELSE color[h]
  BY <1>t, <1>1, <1>2
<1>5. color' \in [Headers -> Colors]
  BY <1>t, <1>1, <1>2 DEF Colors
<1>6. TypeOK'
  <2>1. obj' \in 1 .. NumBlocks + 1
    BY <1>2, NumBlocksAssumption DEF Blocks
  <2>2. Len(stack') <= cap
    BY <1>t, <1>2
  <2> QED BY <1>1, <1>2, <1>5, <2>1, <2>2 DEF IInv, TypeOK, memory
<1>7. StackIsGraySet'
  <2>1. /\ DOMAIN stack = 1 .. Len(stack)
        /\ DOMAIN stack' = 1 .. Len(stack) - 1
    BY <1>t, <1>2
  <2>2. ASSUME NEW i \in DOMAIN stack'
        PROVE  stack'[i] \in OnStack /\ stack'[i] # obj'
    <3>1. i + 1 \in DOMAIN stack /\ 1 \in DOMAIN stack /\ i + 1 # 1 /\ stack'[i] = stack[i + 1]
      BY <1>t, <1>2, <2>1
    <3> QED BY <1>2, <3>1 DEF OnStack, IInv, StackIsGraySet
  <2>3. (OnStack \subseteq IsColor("Gray"))'
    BY <1>t, <1>4, <2>2 DEF OnStack, IsColor, IInv, StackIsGraySet
  <2>4. ASSUME NEW i \in DOMAIN stack', NEW j \in DOMAIN stack', stack'[i] = stack'[j]
        PROVE  i = j
    <3>1. /\ i + 1 \in DOMAIN stack /\ j + 1 \in DOMAIN stack
          /\ stack[i + 1] = stack[j + 1] /\ i \in Nat /\ j \in Nat
      BY <1>t, <1>2, <2>1, <2>4
    <3>2. i + 1 = j + 1
      BY <3>1 DEF IInv, StackIsGraySet
    <3> QED BY <3>1, <3>2
  <2> QED BY <2>3, <2>4 DEF StackIsGraySet
<1>8. /\ \A b \in Blocks : color[b] \in {"Gray", "Black"} =>
                             color'[b] \in {"Gray", "Black"}
      /\ \A b \in Blocks : color'[b] = "Blue" <=> color[b] = "Blue"
      /\ \A b \in Blocks : color'[b] = "Black" <=> color[b] = "Black" \/ b = obj'
      /\ \A b \in Blocks : color'[b] = "Gray" => color[b] = "Gray"
  BY <1>t, <1>2, <1>3, <1>4
<1>9. /\ Reachable' = Reachable /\ Targets(roots)' = Targets(roots)
      /\ \A b : Children(b)' = Children(b)
      /\ Targets(roots) \subseteq Blocks
      /\ \A b \in Blocks : Children(b) \subseteq Blocks
  BY <1>1, GraphUnchanged, FieldType, TargetsType, ChildrenType DEF IInv
<1>10. TriColor'
  <2>1. \A b \in Blocks : color[b] = "Black" =>
          \A c \in Children(b) : color[c] \in {"Gray", "Black"}
    BY <1>1 DEF IInv, TriColor, Pending, IsColor
  <2>2. pc' = "inner" => Children(obj') = {}
    BY <1>1 DEF Children
  <2>3. pc' = "inner" \/ Pending' = {obj'}
    BY <1>1 DEF Pending
  <2>4. (\A b \in IsColor("Black") \ Pending :
           \A c \in Children(b) : color[c] \in {"Gray", "Black"})'
    <3> SUFFICES ASSUME NEW b \in Blocks, color'[b] = "Black", b \notin Pending',
                        NEW c \in Children(b)
                 PROVE  color'[c] \in {"Gray", "Black"}
      BY <1>9 DEF IsColor
    <3>1. b # obj'
      BY <2>2, <2>3
    <3> QED BY <1>8, <1>9, <2>1, <3>1
  <2>5. (pc = "scan" =>
           \A i \in 1 .. Len(field[obj]) :
             i < idx /\ is_pointer(field[obj][i]) =>
               color[resolve(field[obj][i])] \in {"Gray", "Black"})'
    BY <1>1
  <2> QED BY <2>4, <2>5 DEF TriColor
<1>11. OnlyReachableMarked'
  BY <1>3, <1>8, <1>9 DEF IInv, OnlyReachableMarked, IsColor
<1>12. BlueUnreached'
  BY <1>8, <1>9 DEF IInv, BlueUnreached
<1>13. RootsDarkened'
  BY <1>1, <1>8, <1>9 DEF IInv, RootsDarkened
<1>14. ScanOK'
  BY <1>1, <1>2, <1>4, <1>t DEF ScanOK, memory
<1> QED BY <1>1, <1>6, <1>7, <1>10, <1>11, <1>12, <1>13, <1>14
    DEF IInv, RescanCovers, WalkAhead, NoGrayAtEnd

LEMMA PushChildInv == IInv /\ PushChild => IInv'
<1> SUFFICES ASSUME IInv, PushChild PROVE IInv'
  OBVIOUS
<1> DEFINE v == field[obj][idx]
<1>1. /\ UNCHANGED memory /\ pc = "scan" /\ pc' = "scan" /\ obj' = obj /\ idx' = idx + 1
      /\ idx <= Len(field[obj]) /\ check_and_darken_bounded(v)
  BY DEF PushChild
<1>2. /\ obj \in Blocks /\ field[obj] \in Seq(Words) /\ idx \in 1 .. Len(field[obj])
      /\ idx \in Nat /\ v \in Words /\ color[obj] = "Black" /\ obj \notin noscan
  BY <1>1, FieldType DEF IInv, TypeOK, ScanOK
<1>3. is_pointer(v) => resolve(v) \in Children(obj)
  BY <1>2, TargetsElement DEF Children
<1>4. is_pointer(v) => color[resolve(v)] # "Blue" /\ resolve(v) \in Reachable
  <2>1. obj \in Reachable
    BY <1>2 DEF IInv, OnlyReachableMarked, IsColor
  <2>2. color[obj] # "Blue"
    BY <1>2
  <2> QED BY <1>2, <1>3, <2>1, <2>2, ReachableClosed DEF IInv, BlueUnreached
<1>f. field' = field
  BY <1>1 DEF memory
<1>v. v = field[obj][idx]
  OBVIOUS
<1> HIDE DEF v
<1>5. /\ color' \in [Headers -> Colors]
      /\ stack' \in Seq(Blocks) /\ Len(stack') <= cap
      /\ \A h \in Headers :
           \/ color'[h] = color[h]
           \/ /\ color[h] = "White" /\ color'[h] = "Gray"
              /\ is_pointer(v) /\ h = resolve(v)
      /\ is_pointer(v) => color'[resolve(v)] \in {"Gray", "Black"}
      /\ (OnStack \subseteq IsColor("Gray"))'
      /\ (\A i, j \in DOMAIN stack : stack[i] = stack[j] => i = j)'
  BY <1>1, <1>2, <1>4, DarkenProperties DEF IInv
<1>6. /\ OnlyReachableMarked' /\ BlueUnreached'
      /\ \A b \in Blocks : color[b] \in {"Gray", "Black"} =>
                             color'[b] \in {"Gray", "Black"}
      /\ IsColor("Black")' = IsColor("Black")
  <2> DEFINE T == IF is_pointer(v) THEN {resolve(v)} ELSE {}
  <2>1. T \in SUBSET Reachable
    BY <1>4
  <2>2. \A h \in Headers :
          \/ color'[h] = color[h]
          \/ color[h] = "White" /\ color'[h] = "Gray" /\ h \in T
    BY <1>5
  <2> HIDE DEF T
  <2> QED BY <1>1, <2>1, <2>2, GrayingStep
<1>7. TypeOK'
  BY <1>1, <1>2, <1>5 DEF IInv, TypeOK, memory
<1>8. StackIsGraySet'
  BY <1>5 DEF StackIsGraySet
<1>9. TriColor'
  <2>1. \A b \in IsColor("Black") \ {obj} : \A c \in Children(b) :
          c \in Blocks /\ color[c] \in {"Gray", "Black"}
    BY <1>1, ChildrenType DEF IInv, TriColor, Pending, IsColor
  <2>2. ASSUME NEW i \in 1 .. Len(field[obj]), i < idx + 1, is_pointer(field[obj][i])
        PROVE  color'[resolve(field[obj][i])] \in {"Gray", "Black"}
    <3>1. CASE i = idx
      BY <1>5, <1>v, <2>2, <3>1
    <3>2. CASE i # idx
      <4>1. i < idx /\ field[obj][i] \in Words
        BY <1>2, <2>2, <3>2
      <4>2. color[resolve(field[obj][i])] \in {"Gray", "Black"}
        BY <1>1, <2>2, <4>1 DEF IInv, TriColor
      <4> QED BY <1>6, <2>2, <4>1, <4>2, ResolveType
    <3> QED BY <3>1, <3>2
  <2>3. (\A b \in IsColor("Black") \ Pending :
           \A c \in Children(b) : color[c] \in {"Gray", "Black"})'
    BY <1>1, <1>6, <2>1, GraphUnchanged DEF Pending
  <2>4. (pc = "scan" =>
           \A i \in 1 .. Len(field[obj]) :
             i < idx /\ is_pointer(field[obj][i]) =>
               color[resolve(field[obj][i])] \in {"Gray", "Black"})'
    BY <1>1, <1>f, <2>2
  <2> QED BY <2>3, <2>4 DEF TriColor
<1>10. RootsDarkened'
  <2>1. Targets(roots) \subseteq Blocks
    BY FieldType, TargetsType DEF IInv
  <2> QED BY <1>1, <1>6, <2>1, GraphUnchanged DEF IInv, RootsDarkened
<1>11. ScanOK'
  <2>1. color'[obj] = "Black"
    BY <1>2, <1>6 DEF IsColor
  <2> QED BY <1>1, <1>2, <2>1 DEF ScanOK, memory
<1> QED BY <1>1, <1>6, <1>7, <1>8, <1>9, <1>10, <1>11
    DEF IInv, RescanCovers, WalkAhead, NoGrayAtEnd

LEMMA EndScanInv == IInv /\ EndScan => IInv'
<1> SUFFICES ASSUME IInv, EndScan PROVE IInv'
  OBVIOUS
<1>1. /\ UNCHANGED memory /\ UNCHANGED <<color, stack, obj, idx>>
      /\ pc = "scan" /\ pc' = "inner" /\ idx > Len(field[obj])
  BY DEF EndScan
<1>2. TypeOK' /\ StackIsGraySet' /\ RootsDarkened'
  BY <1>1, GraphUnchanged
     DEF IInv, TypeOK, memory, StackIsGraySet, OnStack, IsColor, RootsDarkened
<1>3. TriColor'
  <2>1. /\ field[obj] \in Seq(Words) /\ idx \in Nat
        /\ Children(obj) = Targets(field[obj])
    BY <1>1, FieldType DEF IInv, TypeOK, ScanOK, Children
  <2>2. ASSUME NEW c \in Children(obj)
        PROVE  color[c] \in {"Gray", "Black"}
    <3>1. PICK i \in 1 .. Len(field[obj]) :
            is_pointer(field[obj][i]) /\ c = resolve(field[obj][i])
      BY <2>1, TargetsElement
    <3>2. i < idx
      BY <1>1, <2>1
    <3> QED BY <1>1, <3>1, <3>2 DEF IInv, TriColor
  <2>3. \A b \in IsColor("Black") : \A c \in Children(b) : color[c] \in {"Gray", "Black"}
    BY <1>1, <2>2 DEF IInv, TriColor, Pending
  <2>4. (\A b \in IsColor("Black") \ Pending :
           \A c \in Children(b) : color[c] \in {"Gray", "Black"})'
    BY <1>1, <2>3, GraphUnchanged DEF IsColor
  <2> QED BY <1>1, <2>4 DEF TriColor
<1> QED BY <1>1, <1>2, <1>3, SameColors
    DEF IInv, RescanCovers, ScanOK, WalkAhead, NoGrayAtEnd

LEMMA StartRescanInv == IInv /\ StartRescan => IInv'
<1> SUFFICES ASSUME IInv, StartRescan PROVE IInv'
  OBVIOUS
<1>1. /\ UNCHANGED memory /\ UNCHANGED <<color, stack, idx>>
      /\ pc = "inner" /\ pc' = "rescan" /\ obj' = 1 /\ stack = <<>>
  BY DEF StartRescan, is_empty
<1>2. TypeOK'
  BY <1>1, NumBlocksAssumption DEF IInv, TypeOK, memory
<1>3. StackIsGraySet' /\ RootsDarkened' /\ TriColor'
  BY <1>1, GraphUnchanged
     DEF IInv, StackIsGraySet, OnStack, IsColor, RootsDarkened, TriColor, Pending
<1>4. RescanCovers'
  <2>1. \A b \in Blocks : ~(b < 1)
    BY NumBlocksAssumption DEF Blocks
  <2> QED BY <1>1, <2>1 DEF RescanCovers, IsColor
<1>5. WalkAhead'
  <2>1. stack' = <<>>
    BY <1>1
  <2> QED BY <2>1 DEF WalkAhead, OnStack
<1> QED BY <1>1, <1>2, <1>3, <1>4, <1>5, SameColors DEF IInv, ScanOK, NoGrayAtEnd

LEMMA RescanBlockInv == IInv /\ RescanBlock => IInv'
<1> SUFFICES ASSUME IInv, RescanBlock PROVE IInv'
  OBVIOUS
<1>t. /\ color \in [Headers -> Colors] /\ stack \in Seq(Blocks) /\ Len(stack) <= cap
      /\ cap \in Nat /\ Len(stack) \in Nat /\ Blocks \subseteq Headers
  BY CapacityAssumption DEF IInv, TypeOK, Headers
<1>1. /\ UNCHANGED memory /\ UNCHANGED <<color, pc, idx>>
      /\ pc = "rescan" /\ obj <= NumBlocks /\ obj' = obj + 1
      /\ stack' = IF color[obj] = "Gray" /\ ~is_full THEN push(obj) ELSE stack
  BY DEF RescanBlock
<1>2. obj \in Blocks /\ obj + 1 \in 1 .. NumBlocks + 1
  BY <1>1, NumBlocksAssumption DEF IInv, TypeOK, Blocks
<1>3. obj \notin OnStack
  BY <1>1, <1>2 DEF IInv, WalkAhead, Blocks
<1>4. stack' = stack \/ (stack' = push(obj) /\ Len(stack) < cap /\ color[obj] = "Gray")
  BY <1>t, <1>1 DEF is_full
<1>5. stack' \in Seq(Blocks) /\ Len(stack') <= cap
  BY <1>t, <1>2, <1>4, PushProperties
<1>6. /\ stack' = stack => OnStack' = OnStack
      /\ stack' = push(obj) => OnStack' = OnStack \cup {obj}
  <2>1. CASE stack' = push(obj)
    <3>1. OnStack' = {push(obj)[i] : i \in DOMAIN push(obj)}
      BY <2>1 DEF OnStack
    <3>2. OnStack' = OnStack \cup {obj}
      BY <1>t, <1>2, <3>1, PushOnStack
    <3>3. stack' # stack
      BY <1>t, <1>2, <2>1, PushProperties
    <3> QED BY <3>2, <3>3
  <2>2. CASE stack' = stack
    <3>1. OnStack' = OnStack
      BY <2>2 DEF OnStack
    <3>2. stack' # push(obj)
      BY <1>t, <1>2, <2>2, PushProperties
    <3> QED BY <3>1, <3>2
  <2> QED BY <1>4, <2>1, <2>2
<1>7. TypeOK'
  BY <1>1, <1>2, <1>5 DEF IInv, TypeOK, memory
<1>8. StackIsGraySet'
  <2>1. (OnStack \subseteq IsColor("Gray"))'
    BY <1>1, <1>2, <1>4, <1>6 DEF IInv, StackIsGraySet, IsColor
  <2>2. (\A i, j \in DOMAIN stack : stack[i] = stack[j] => i = j)'
    <3>1. \A i, j \in DOMAIN stack : stack[i] = stack[j] => i = j
      BY DEF IInv, StackIsGraySet
    <3>2. CASE stack' = stack
      BY <3>1, <3>2
    <3>3. CASE stack' = push(obj)
      <4>1. \A i, j \in DOMAIN push(obj) : push(obj)[i] = push(obj)[j] => i = j
        BY <1>t, <1>2, <1>3, <3>1, PushOnStack
      <4> QED BY <3>3, <4>1
    <3> QED BY <1>4, <3>2, <3>3
  <2> QED BY <2>1, <2>2 DEF StackIsGraySet
<1>9. RootsDarkened' /\ TriColor'
  BY <1>1, GraphUnchanged DEF IInv, RootsDarkened, TriColor, Pending, IsColor
<1>10. RescanCovers'
  <2>1. CASE is_full
    <3>1. stack' = stack /\ cap' = cap
      BY <1>1, <2>1 DEF memory
    <3> QED BY <2>1, <3>1 DEF RescanCovers, is_full
  <2>2. CASE ~is_full
    <3>1. \A b \in IsColor("Gray") : b < obj => b \in OnStack
      BY <1>1, <2>2 DEF IInv, RescanCovers
    <3>2. color[obj] = "Gray" => obj \in OnStack'
      BY <1>1, <1>6, <2>2
    <3>3. ASSUME NEW b \in IsColor("Gray"), b < obj + 1
          PROVE  b \in OnStack'
      <4>1. b = obj \/ b < obj
        BY <1>2, <3>3 DEF IsColor, Blocks
      <4> QED BY <1>4, <1>6, <3>1, <3>2, <3>3, <4>1 DEF IsColor
    <3> QED BY <1>1, <3>3 DEF RescanCovers, IsColor
  <2> QED BY <2>1, <2>2
<1>11. WalkAhead'
  <2>1. \A b \in OnStack : b \in Blocks /\ b < obj
    BY <1>t, <1>1 DEF IInv, WalkAhead, OnStack
  <2>2. \A b \in OnStack' : b < obj + 1
    BY <1>2, <1>4, <1>6, <2>1 DEF Blocks
  <2> QED BY <1>1, <2>2 DEF WalkAhead
<1> QED BY <1>1, <1>7, <1>8, <1>9, <1>10, <1>11, SameColors
    DEF IInv, ScanOK, NoGrayAtEnd

LEMMA EndRescanInv == IInv /\ EndRescan => IInv'
<1> SUFFICES ASSUME IInv, EndRescan PROVE IInv'
  OBVIOUS
<1>1. /\ UNCHANGED memory /\ UNCHANGED <<color, stack, obj, idx>>
      /\ pc = "rescan" /\ obj > NumBlocks
      /\ pc' = IF stack = <<>> THEN "done" ELSE "inner"
  BY DEF EndRescan, is_empty
<1>2. TypeOK' /\ StackIsGraySet' /\ RootsDarkened' /\ TriColor'
  BY <1>1, GraphUnchanged
     DEF IInv, TypeOK, memory, StackIsGraySet, OnStack, IsColor,
         RootsDarkened, TriColor, Pending
<1>3. pc' = "done" => IsColor("Gray") = {}
  <2> SUFFICES ASSUME stack = <<>> PROVE IsColor("Gray") = {}
    BY <1>1
  <2>1. ~is_full /\ OnStack = {}
    BY CapacityAssumption DEF IInv, TypeOK, is_full, OnStack
  <2>2. \A b \in Blocks : b < obj
    BY <1>1, NumBlocksAssumption DEF IInv, TypeOK, Blocks
  <2> QED BY <1>1, <2>1, <2>2 DEF IInv, RescanCovers, IsColor
<1>4. NoGrayAtEnd'
  BY <1>1, <1>3 DEF NoGrayAtEnd, IsColor
<1> QED BY <1>1, <1>2, <1>4, SameColors DEF IInv, RescanCovers, ScanOK, WalkAhead

-----------------------------------------------------------------------------
(* Theorems *)

\* IInv holds in every reachable state of the mark phase.
THEOREM Invariance == Spec => []IInv
<1>1. IInv /\ [Next]_vars => IInv'
  <2> SUFFICES ASSUME IInv, [Next]_vars PROVE IInv'
    OBVIOUS
  <2>1. CASE UNCHANGED vars
    <3>1. UNCHANGED memory /\ UNCHANGED <<color, stack, pc, obj, idx>>
      BY <2>1 DEF vars, memory
    <3>2. TypeOK' /\ StackIsGraySet' /\ RootsDarkened' /\ TriColor'
      BY <3>1, GraphUnchanged
         DEF IInv, TypeOK, memory, StackIsGraySet, OnStack, IsColor,
             RootsDarkened, TriColor, Pending
    <3>3. RescanCovers' /\ ScanOK' /\ WalkAhead' /\ NoGrayAtEnd'
      BY <3>1 DEF IInv, RescanCovers, ScanOK, WalkAhead, NoGrayAtEnd,
                  OnStack, IsColor, is_full, memory
    <3> QED BY <3>1, <3>2, <3>3, SameColors DEF IInv
  <2>2. CASE Next
    BY <2>2, DarkenRootInv, EndRootsInv, MarkStepInv, PushChildInv, EndScanInv,
       StartRescanInv, RescanBlockInv, EndRescanInv DEF Next
  <2> QED BY <2>1, <2>2
<1> QED BY InitInv, <1>1, PTL DEF Spec

\* Every variable of the mark phase keeps its type; in particular no push
\* leaves the storage of the gray stack.
THEOREM TypeCorrect == Spec => []TypeOK
<1>1. IInv => TypeOK
  BY DEF IInv
<1> QED BY Invariance, <1>1, PTL

\* The stack never holds a block that is not gray, nor one block twice.
THEOREM StackCorrect == Spec => []StackIsGraySet
<1>1. IInv => StackIsGraySet
  BY DEF IInv
<1> QED BY Invariance, <1>1, PTL

\* The tri-colour invariant survives overflow of the gray stack.
THEOREM TriColorHolds == Spec => []TriColor
<1>1. IInv => TriColor
  BY DEF IInv
<1> QED BY Invariance, <1>1, PTL

\* The heap walk after an overflow forgets no gray block.
THEOREM RescanComplete == Spec => []RescanCovers
<1>1. IInv => RescanCovers
  BY DEF IInv
<1> QED BY Invariance, <1>1, PTL

\* Marking colours nothing that is not reachable from the roots.
THEOREM Precise == Spec => []OnlyReachableMarked
<1>1. IInv => OnlyReachableMarked
  BY DEF IInv
<1> QED BY Invariance, <1>1, PTL

\* When the mark loop returns, the black blocks are the reachable ones.
THEOREM MarkCorrect == Spec => []MarkExact
<1>1. IInv => MarkExact
  <2> SUFFICES ASSUME IInv, pc = "done"
               PROVE  IsColor("Gray") = {} /\ IsColor("Black") = Reachable
    BY DEF MarkExact
  <2>1. IsColor("Gray") = {}
    BY DEF IInv, NoGrayAtEnd
  <2>2. IsColor("Black") \subseteq Reachable
    BY DEF IInv, OnlyReachableMarked
  <2>3. Targets(roots) \subseteq IsColor("Black")
    <3>1. Targets(roots) \subseteq Blocks
      BY FieldType, TargetsType DEF IInv
    <3> QED BY <2>1, <3>1 DEF IInv, RootsDarkened, IsColor
  <2>4. Closed(IsColor("Black"))
    <3> SUFFICES ASSUME NEW b \in IsColor("Black"), NEW c \in Children(b)
                 PROVE  c \in IsColor("Black")
      BY DEF Closed
    <3>1. b \in Blocks /\ c \in Blocks
      BY ChildrenType DEF IsColor, IInv
    <3>2. color[c] \in {"Gray", "Black"}
      BY DEF IInv, TriColor, Pending
    <3> QED BY <2>1, <3>1, <3>2 DEF IsColor
  <2>5. Reachable \subseteq IsColor("Black")
    <3>1. IsColor("Black") \in SUBSET Blocks
      BY DEF IsColor
    <3> QED BY <2>3, <2>4, <3>1, ReachableLeast
  <2> QED BY <2>1, <2>2, <2>5
<1> QED BY Invariance, <1>1, PTL

-----------------------------------------------------------------------------
(* Progress: a measure that every step lowers *)

NotBlack == Blocks \ IsColor("Black")
blocksLeft == Cardinality(NotBlack)

\* The loops in the order in which they may follow one another while no block is
\* blackened: only a walk that has pushed something leads back to the inner loop.
stagesLeft ==
  CASE pc = "roots" -> 5
    [] pc = "scan" -> 4
    [] pc = "inner" -> IF is_empty THEN 3 ELSE 1
    [] pc = "rescan" -> 2
    [] OTHER -> 0

remaining(n) == IF idx > n THEN 0 ELSE n + 1 - idx

\* Iterations of the running loop.
iterationsLeft ==
  CASE pc = "roots" -> remaining(Len(roots))
    [] pc = "scan" -> remaining(Len(field[obj]))
    [] pc = "rescan" -> NumBlocks + 1 - obj
    [] OTHER -> 0

Measured == {blocksLeft, stagesLeft, iterationsLeft} \subseteq Nat

\* The lexicographic order of the three.
Advances ==
  \/ blocksLeft' < blocksLeft
  \/ /\ blocksLeft' = blocksLeft
     /\ \/ stagesLeft' < stagesLeft
        \/ stagesLeft' = stagesLeft /\ iterationsLeft' < iterationsLeft

\* The measure is made of natural numbers.
LEMMA MeasureType ==
  ASSUME IInv
  PROVE  Measured /\ IsFiniteSet(NotBlack)
<1>1. IsFiniteSet(NotBlack)
  <2>1. IsFiniteSet(Blocks)
    BY NumBlocksAssumption, FS_Interval DEF Blocks
  <2> QED
    BY <2>1, FS_Subset DEF NotBlack
<1>2. blocksLeft \in Nat
  BY <1>1, FS_CardinalityType DEF blocksLeft
<1>3. stagesLeft \in Nat
  BY DEF stagesLeft
<1>4. ASSUME NEW n \in Nat PROVE remaining(n) \in Nat
  BY DEF remaining, IInv, TypeOK
<1>5. Len(roots) \in Nat /\ (pc = "scan" => Len(field[obj]) \in Nat)
  BY FieldType DEF IInv, TypeOK
<1>6. pc = "rescan" => NumBlocks + 1 - obj \in Nat
  BY NumBlocksAssumption DEF IInv, TypeOK
<1>7. iterationsLeft \in Nat
  BY <1>4, <1>5, <1>6 DEF iterationsLeft
<1> QED
  BY <1>1, <1>2, <1>3, <1>7 DEF Measured

\* Colouring a target gray blackens nothing and whitens nothing.
LEMMA DarkenKeepsBlack ==
  ASSUME IInv, NEW v \in Words, check_and_darken_bounded(v)
  PROVE  blocksLeft' = blocksLeft
<1>1. color \in [Headers -> Colors]
  BY DEF IInv, TypeOK
<1>2. \A b \in Blocks : color'[b] = "Black" <=> color[b] = "Black"
  <2>1. CASE UNCHANGED color
    BY <2>1
  <2>2. ASSUME is_pointer(v), color[resolve(v)] = "White",
               color' = [color EXCEPT ![resolve(v)] = "Gray"]
        PROVE  \A b \in Blocks : color'[b] = "Black" <=> color[b] = "Black"
    BY <1>1, <2>2, ResolveType DEF Headers
  <2> QED
    BY <2>1, <2>2 DEF check_and_darken_bounded, darken_if_white_bounded
<1>3. NotBlack' = NotBlack
  BY <1>2 DEF NotBlack, IsColor
<1> QED
  BY <1>3 DEF blocksLeft

\* Every step of the mark phase lowers the measure.
LEMMA StepAdvances ==
  ASSUME IInv, Next
  PROVE  Advances
<1>t. /\ idx \in Nat /\ obj \in Nat /\ NumBlocks \in Nat
      /\ Len(roots) \in Nat /\ roots \in Seq(Words)
      /\ (pc = "scan" => obj \in Blocks /\ field[obj] \in Seq(Words) /\ Len(field[obj]) \in Nat)
  BY NumBlocksAssumption, FieldType DEF IInv, TypeOK
<1>1. ASSUME DarkenRoot PROVE Advances
  <2>1. /\ pc = "roots" /\ pc' = "roots" /\ roots' = roots /\ idx <= Len(roots) /\ idx' = idx + 1
        /\ check_and_darken_bounded(roots[idx])
    BY <1>1 DEF DarkenRoot, memory
  <2>2. roots[idx] \in Words
    BY <1>t, <2>1 DEF IInv, TypeOK
  <2>3. blocksLeft' = blocksLeft
    BY <2>1, <2>2, DarkenKeepsBlack
  <2>4. stagesLeft' = stagesLeft
    BY <2>1 DEF stagesLeft
  <2>5. iterationsLeft' < iterationsLeft
    BY <1>t, <2>1 DEF iterationsLeft, remaining
  <2> QED
    BY <2>3, <2>4, <2>5 DEF Advances
<1>2. ASSUME PushChild PROVE Advances
  <2>1. /\ pc = "scan" /\ pc' = "scan" /\ field' = field /\ obj' = obj /\ idx <= Len(field[obj])
        /\ idx' = idx + 1 /\ check_and_darken_bounded(field[obj][idx])
    BY <1>2 DEF PushChild, memory
  <2>2. field[obj][idx] \in Words
    BY <1>t, <2>1 DEF IInv, TypeOK
  <2>3. blocksLeft' = blocksLeft
    BY <2>1, <2>2, DarkenKeepsBlack
  <2>4. stagesLeft' = stagesLeft
    BY <2>1 DEF stagesLeft
  <2>5. iterationsLeft' < iterationsLeft
    BY <1>t, <2>1 DEF iterationsLeft, remaining
  <2> QED
    BY <2>3, <2>4, <2>5 DEF Advances
<1>3. ASSUME MarkStep PROVE Advances
  <2>1. /\ stack # <<>> /\ color' = [color EXCEPT ![Head(stack)] = "Black"]
    BY <1>3 DEF MarkStep, PopStep, is_empty
  <2>2. Head(stack) \in Blocks /\ color[Head(stack)] = "Gray"
    <3>1. stack \in Seq(Blocks) /\ 1 \in DOMAIN stack /\ Head(stack) = stack[1]
      BY <2>1 DEF IInv, TypeOK
    <3> QED
      BY <3>1 DEF IInv, StackIsGraySet, OnStack, IsColor
  <2>3. NotBlack' = NotBlack \ {Head(stack)} /\ Head(stack) \in NotBlack
    <3>1. color \in [Headers -> Colors] /\ Blocks \subseteq Headers
      BY DEF IInv, TypeOK, Headers
    <3>2. \A b \in Blocks : color'[b] = IF b = Head(stack) THEN "Black" ELSE color[b]
      BY <2>1, <3>1
    <3> QED
      BY <2>2, <3>2 DEF NotBlack, IsColor
  <2>4. blocksLeft' = blocksLeft - 1
    BY <2>3, MeasureType, FS_RemoveElement DEF blocksLeft
  <2> QED
    BY <2>4, MeasureType DEF Advances, Measured
<1>4. ASSUME UNCHANGED color, stagesLeft' < stagesLeft PROVE Advances
  <2>1. blocksLeft' = blocksLeft
    BY <1>4 DEF blocksLeft, NotBlack, IsColor
  <2> QED
    BY <1>4, <2>1 DEF Advances
<1>5. ASSUME EndRoots \/ EndScan \/ StartRescan \/ EndRescan PROVE Advances
  <2>1. UNCHANGED color /\ UNCHANGED stack
    BY <1>5 DEF EndRoots, EndScan, StartRescan, EndRescan
  <2>2. stagesLeft' < stagesLeft
    BY <1>5, <2>1 DEF stagesLeft, is_empty, EndRoots, EndScan, StartRescan, EndRescan
  <2> QED
    BY <1>4, <2>1, <2>2
<1>6. ASSUME RescanBlock PROVE Advances
  <2>1. pc = "rescan" /\ pc' = "rescan" /\ obj <= NumBlocks /\ obj' = obj + 1 /\ color' = color
    BY <1>6 DEF RescanBlock
  <2>2. blocksLeft' = blocksLeft
    BY <2>1 DEF blocksLeft, NotBlack, IsColor
  <2>3. stagesLeft' = stagesLeft
    BY <2>1 DEF stagesLeft
  <2>4. iterationsLeft' < iterationsLeft
    BY <1>t, <2>1 DEF iterationsLeft
  <2> QED
    BY <2>2, <2>3, <2>4 DEF Advances
<1> QED
  BY <1>1, <1>2, <1>3, <1>5, <1>6 DEF Next

\* Every step of the mark phase lowers a measure of three natural numbers, in their
\* lexicographic order: blocks that are not black, stages, iterations of the loop.
\* So mark_loop_bounded takes finitely many steps, however often the stack overflows.
THEOREM MarkingAdvances == Spec => [][Measured /\ Advances]_vars
<1>1. IInv /\ [Next]_vars => [Measured /\ Advances]_vars
  BY MeasureType, StepAdvances
<1> QED
  BY <1>1, Invariance, PTL DEF Spec
=============================================================================
