---- MODULE MCVisibility ----
(* Instances of Visibility for TLC: one NPC at the origin, or none.        *)
EXTENDS Visibility

CONSTANTS n1, a1, a2
MCNpcPlace == [n \in {n1} |-> 0]
MCNoNpcPlace == [n \in {} |-> 0]

(* Two players who stay close to each other come to see each other,        *)
(* although clients that leave make the walks of VisiblityList and         *)
(* VisibilityProcess pass others over.  Addresses are interchangeable, so  *)
(* one pair stands for all.                                                *)
NeighboursSeen == ComesToSee(a1, a2)
====
