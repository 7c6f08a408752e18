---------------------------- MODULE MCClientHub -----------------------------
(* Small instances of ClientHub for TLC. *)
EXTENDS ClientHub, TLC

CONSTANTS p1, p2, c1, c2

MCPublishers == {p1, p2}
MCClients == {c1, c2}
HubSymmetry == Permutations(MCPublishers) \cup Permutations(MCClients)
=============================================================================
