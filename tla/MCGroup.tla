------------------------------- MODULE MCGroup -------------------------------
(****************************************************************************)
(* Values of the constants of Group for TLC.                                *)
(****************************************************************************)
EXTENDS Group, TLC

CONSTANTS c1, c2, x1, x2, x3

OneClient    == {c1}
TwoClients   == {c1, c2}
TwoObjects   == {x1, x2}
ThreeObjects == {x1, x2, x3}

\* The objects are interchangeable; so are the clients.
ObjectsSymmetric == Permutations(Pool)
AllSymmetric     == Permutations(Pool) \cup Permutations(Clients)
==============================================================================
