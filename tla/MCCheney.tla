------------------------------ MODULE MCCheney ------------------------------
(* Instances of Cheney for TLC: three minor blocks, of which the second is a *)
(* closure with an infix header; one old block, with one remembered field.  *)
EXTENDS Cheney

Minor(o, d) == [gen |-> "minor", obj |-> o, off |-> d]
Old(o) == [gen |-> "major", obj |-> o, off |-> 0]

MCValues == {Minor(1, 0), Minor(2, 0), Minor(2, 1), Minor(3, 0), Old(1), Null}

MCImages ==
  {[field |-> <<<<v1, w1>>, <<v2>>, <<v3>>>>, noscan |-> ns,
    old |-> <<<<Null, v4>>>>, oldNoscan |-> {},
    globals |-> gs, slots |-> <<<<1, 2>>, <<1, 2>>>>] :
      v1 \in MCValues, w1 \in MCValues,
      v2 \in {Minor(1, 0), Minor(2, 1), Null},
      v3 \in {Minor(1, 0), Minor(2, 1), Old(1)},
      v4 \in {Minor(2, 1), Null},
      ns \in {{}, {3}},
      gs \in {<<Minor(1, 0)>>, <<Old(1), Minor(2, 1), Minor(3, 0)>>}}
=============================================================================
