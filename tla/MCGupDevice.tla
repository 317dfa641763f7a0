---------------------------- MODULE MCGupDevice ----------------------------
(* Model-checking instances of GupDevice. *)
EXTENDS GupDevice, TLC

CONSTANTS c1, c2

OneClient == {c1}
TwoClients == {c1, c2}

\* The clients run the same program and nothing tells them apart.
Symmetric == Permutations(Clients)
=============================================================================
