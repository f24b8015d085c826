----------------------------- MODULE ObjectGraph -----------------------------
(***************************************************************************)
(* What a collector that does not move objects promises the program: the   *)
(* objects it can reach keep their size, tag and fields until the program  *)
(* stores into them, and a new object is none of those it can reach.  There *)
(* is no heap, no free list and no collection: an object is gone from obj  *)
(* as soon as the program has lost it.                                     *)
(***************************************************************************)
EXTENDS Naturals

CONSTANTS
  Places,    \* addresses an object may have
  NumRoots,  \* the program's roots are 1 .. NumRoots
  Requests,  \* sizes in words and tags it asks for: records [wz, tag]
  NoScan,    \* objects with this tag or a higher one hold no pointers
  Initial    \* what every field of a new object holds

VARIABLES
  roots,  \* the words in the program's roots
  obj     \* reachable objects: address |-> size, tag and fields

gvars == <<roots, obj>>

Roots == 1 .. NumRoots

Pointers(o) ==
  IF o.tag < NoScan THEN {o.field[i] : i \in DOMAIN o.field} ELSE {}

\* The part of f that the words in W lead to: the least closed set.
Lost(f, W) ==
  {p \in DOMAIN f :
     \E S \in SUBSET DOMAIN f :
       /\ p \in S
       /\ S \cap W = {}
       /\ \A q \in DOMAIN f \ S : Pointers(f[q]) \cap S = {}}

Reached(f, r) ==
  [p \in DOMAIN f \ Lost(f, {r[i] : i \in Roots}) |-> f[p]]

Init == roots = [i \in Roots |-> Initial] /\ obj = [p \in {} |-> 0]

Allocate ==
  \E i \in Roots, p \in Places \ DOMAIN obj, q \in Requests :
    LET new   == [wz |-> q.wz, tag |-> q.tag,
                  field |-> [k \in 1 .. q.wz |-> Initial]]
        grown == [a \in DOMAIN obj \cup {p} |-> IF a = p THEN new ELSE obj[a]]
    IN  /\ roots' = [roots EXCEPT ![i] = p]
        /\ obj' = Reached(grown, roots')

Store ==
  \E i, j \in Roots :
    /\ roots[i] \in DOMAIN obj
    /\ \E k \in DOMAIN obj[roots[i]].field :
         obj' = Reached([obj EXCEPT ![roots[i]].field[k] = roots[j]], roots)
    /\ UNCHANGED roots

Forget ==
  \E i \in Roots :
    /\ roots' = [roots EXCEPT ![i] = Initial]
    /\ obj' = Reached(obj, roots')

Next == Allocate \/ Store \/ Forget

Spec == Init /\ [][Next]_gvars
=============================================================================
