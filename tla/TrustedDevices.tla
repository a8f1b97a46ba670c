--------------------------- MODULE TrustedDevices ---------------------------
(***************************************************************************)
(* What users may expect of pairing: the PC trusts a set of devices.  A    *)
(* device enters it by a pairing after it has presented a code, and leaves *)
(* it by a forget, each in a single step.  At times, and after a crash in  *)
(* the middle of a save for good, the PC cannot tell the set; then it      *)
(* trusts nobody, but it never takes a part of the set for the whole.      *)
(***************************************************************************)

CONSTANT Devices

VARIABLES
    listed,     \* the devices that are paired
    trusted,    \* those the PC can tell at the moment
    admitted    \* devices that have presented a code

registry == <<listed, trusted, admitted>>

Init == listed = {} /\ trusted = {} /\ admitted = {}

Present(p) == admitted' = admitted \cup {p} /\ UNCHANGED <<listed, trusted>>

Pair(p) ==
    /\ p \in admitted \ listed
    /\ listed' = listed \cup {p} /\ trusted' = listed'
    /\ UNCHANGED admitted

Forget(p) ==
    /\ p \in listed
    /\ listed' = listed \ {p} /\ trusted' = listed'
    /\ UNCHANGED admitted

\* The file is being rewritten, or was left behind by a crash that way.
Withhold == trusted' = {} /\ UNCHANGED <<listed, admitted>>

Next == Withhold \/ \E p \in Devices : Present(p) \/ Pair(p) \/ Forget(p)

Spec == Init /\ [][Next]_registry

\* All that are listed are trusted, or nobody is; and nobody is listed without a
\* code.
AllOrNobody == trusted \in {{}, listed} /\ listed \subseteq admitted
=============================================================================
