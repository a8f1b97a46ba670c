------------------------------- MODULE Mouse --------------------------------
(***************************************************************************)
(* What a hand can do with a mouse, seen from the PC: the promise that the *)
(* touch translator of the second screen has to keep whatever the fingers  *)
(* on the glass do.  Nobody clicks right or turns the wheel with the left  *)
(* button down; either flips a bit, so that it can be seen.                *)
(***************************************************************************)
VARIABLES
    left,       \* the left button is down
    flip        \* parity of the right clicks and turns of the wheel

mouse == <<left, flip>>

Init == left = FALSE /\ flip = FALSE

Press == ~left /\ left' = TRUE /\ UNCHANGED flip

Release == left /\ left' = FALSE /\ UNCHANGED flip

\* The left button is released first if it is down.
RightClick == left' = FALSE /\ flip' = ~flip

Turn == ~left /\ flip' = ~flip /\ UNCHANGED left

Next == Press \/ Release \/ RightClick \/ Turn

Spec == Init /\ [][Next]_mouse
=============================================================================
