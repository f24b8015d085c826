----------------------------- MODULE BlockStore -----------------------------
(***************************************************************************)
(* What the major heap promises its user, with no free list, no header and *)
(* no colour: blocks that are in use never overlap, a block granted has    *)
(* the size asked for, and a request is refused only when, after all that  *)
(* is garbage has been returned, no gap between the blocks in use is large *)
(* enough for it.                                                          *)
(***************************************************************************)
EXTENDS Integers

CONSTANTS
  FirstWord,  \* address of the first word of the heap
  HeapWords,  \* its length in words
  Requests,   \* sizes asked for, in words, without the header
  Tags,       \* tags asked for
  NoRequest   \* no request is outstanding

VARIABLES
  held,      \* the blocks in use: first field |-> size and tag
  req,       \* the outstanding request, or NoRequest
  collected  \* the garbage has been returned since the request was made

bvars == <<held, req, collected>>

Place(i) == FirstWord + 8 * i  \* byte address of word i
Objects  == {Place(i) : i \in 1 .. HeapWords - 1}
HeapEnd  == Place(HeapWords)

\* A block of size wz at o lies inside the heap and off every block in use.
Free(o, wz) ==
  /\ o + 8 * wz <= HeapEnd
  /\ \A p \in DOMAIN held : \/ p + 8 * held[p].wz <= o - 8
                            \/ o + 8 * wz <= p - 8

Init == held = [o \in {} |-> 0] /\ req = NoRequest /\ collected = FALSE

Ask ==
  /\ req = NoRequest
  /\ \E w \in Requests, t \in Tags : req' = [wz |-> w, tag |-> t]
  /\ UNCHANGED <<held, collected>>

Grant ==
  /\ req # NoRequest
  /\ \E o \in Objects :
       /\ Free(o, req.wz)
       /\ held' = [p \in DOMAIN held \cup {o} |-> IF p = o THEN req ELSE held[p]]
  /\ req' = NoRequest
  /\ collected' = FALSE

\* Out_of_memory: no gap fits, even after a collection.
Refuse ==
  /\ req # NoRequest
  /\ collected
  /\ \A o \in Objects : ~Free(o, req.wz)
  /\ req' = NoRequest
  /\ collected' = FALSE
  /\ UNCHANGED held

\* A collection returns any set of blocks the program no longer reaches.
Collect ==
  /\ \E S \in SUBSET DOMAIN held : held' = [o \in S |-> held[o]]
  /\ collected' = (req # NoRequest)
  /\ UNCHANGED req

Next == Ask \/ Grant \/ Refuse \/ Collect

Spec == Init /\ [][Next]_bvars
=============================================================================
