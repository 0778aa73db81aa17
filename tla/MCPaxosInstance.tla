--------------------------- MODULE MCPaxosInstance ---------------------------
(****************************************************************************)
(* Values of the constants of PaxosInstance for TLC.                        *)
(****************************************************************************)
EXTENDS PaxosInstanceInv

CONSTANTS v1, v2

\* The cluster of the unit tests.
ThreeNodes == {0, 1, 2}

TwoValues == {v1, v2}

\* Clients of nodes 0 and 1, as in group_test.cpp; of nodes 1 and 2; of node 0.
TwoClients      == {<<0, v1>>, <<1, v2>>}
OtherTwoClients == {<<1, v1>>, <<2, v2>>}
OneClient       == {<<0, v1>>}
\* Every link up; or nodes 0 and 1 cannot hear each other, but node 2 hears both.
AllLinks    == Nodes \X Nodes
ThroughTwo  == AllLinks \ {<<0, 1>>, <<1, 0>>}
\* The other instances of the two proposers meet rejections with id 1.
OneRejection == {0, 1} \X {1}
\* Node 2 is disconnected.
MinorityDown == {0, 1} \X {0, 1}
==============================================================================
