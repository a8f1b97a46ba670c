------------------------------ MODULE TwoCopies ------------------------------
(***************************************************************************)
(* What users may expect of a synchronised folder: each side has a copy of *)
(* the file or none, users write and remove on either side, and now and    *)
(* then a side gets what another one has, in a single step.  Versions are  *)
(* numbered as they are written; 0 is no file.                             *)
(***************************************************************************)
EXTENDS Naturals

CONSTANT Sides

VARIABLES
    copy,       \* the version each side has
    seen,       \* the versions a side has had
    removed     \* some user has removed a copy

copies == <<copy, seen, removed>>

Init ==
    /\ copy = [x \in Sides |-> 0]
    /\ seen = [x \in Sides |-> {}]
    /\ removed = FALSE

Write(x, v) ==
    /\ \A y \in Sides : \A w \in seen[y] : w < v
    /\ copy' = [copy EXCEPT ![x] = v]
    /\ seen' = [seen EXCEPT ![x] = @ \cup {v}]
    /\ UNCHANGED removed

Remove(x) ==
    /\ copy[x] # 0
    /\ copy' = [copy EXCEPT ![x] = 0]
    /\ removed' = TRUE
    /\ UNCHANGED seen

\* x gets the copy of y: a newer one, or what has become at y of the one x has.
\* A copy is given up for none only if some user has removed one.
PassOn(x, y) ==
    /\ copy[x] < copy[y] \/ copy[x] \in seen[y]
    /\ copy[y] = 0 => removed
    /\ copy' = [copy EXCEPT ![x] = copy[y]]
    /\ seen' = [seen EXCEPT ![x] = IF copy[y] = 0 THEN @ ELSE @ \cup {copy[y]}]
    /\ UNCHANGED removed

Next ==
    \E x \in Sides :
        \/ \E v \in Nat \ {0} : Write(x, v)
        \/ Remove(x)
        \/ \E y \in Sides : PassOn(x, y)

Spec == Init /\ [][Next]_copies

\* Until a user removes something, nobody gets an older version than he has had.
NeverOlder == ~removed => \A x \in Sides : \A v \in seen[x] : v <= copy[x]
==============================================================================
