---------------------------- MODULE MCPeerTrust ----------------------------
(* PeerTrust on small sets of model values.                                *)
EXTENDS PeerTrust, TLC

\* Devices, slots, windows, boot codes and handlers are interchangeable.
Symmetry ==
    Permutations(Phones) \cup Permutations(Conns) \cup Permutations(Windows)
    \cup Permutations(BootCodes) \cup Permutations(Forgets)
=============================================================================
