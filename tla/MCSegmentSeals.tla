--------------------------- MODULE MCSegmentSeals ---------------------------
(***************************************************************************)
(* Segments and positions are alike, so they are named in the order they   *)
(* come into use.  Every drain meets two segments; a third one comes into  *)
(* use when no bounded drain has been called.                              *)
(***************************************************************************)
EXTENDS SegmentSeals

SegmentOrder == <<"s1", "s2", "s3">>
PositionOrder == <<"p1", "p2">>

Touched == open \cup requested

InOrder(order, named) ==
  \A i \in DOMAIN order : order[i] \in named => \A j \in 1 .. i : order[j] \in named

NamedInOrder ==
  /\ InOrder(SegmentOrder, Touched)
  /\ InOrder(PositionOrder, {p \in Positions : segOf[p] # NoSegment})

FewWithDrain == drain["d2"] = "idle" \/ "s3" \notin Touched

MCSealNext == SealNext /\ NamedInOrder' /\ FewWithDrain'

=============================================================================
