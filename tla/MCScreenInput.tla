--------------------------- MODULE MCScreenInput ----------------------------
(* An instance of ScreenInput: the virtual monitor lies on the right of a  *)
(* monitor at the origin, or on its left, at negative coordinates.         *)
EXTENDS ScreenInput

MCLayouts == {[monitor |-> 3, own |-> 0], [monitor |-> -3, own |-> 0]}

(* A finger that is in the map without being on the glass has one other    *)
(* finger beside it at most, and the monitors stay.                        *)
FewCancelled ==
    \/ Held(slots) \subseteq glass
    \/ Cardinality(Held(slots)) <= 2 /\ geometry = Geometry(layout)
=============================================================================
