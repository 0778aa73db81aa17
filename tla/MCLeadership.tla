----------------------------- MODULE MCLeadership -----------------------------
(****************************************************************************)
(* Values of the constants of Leadership for TLC.                           *)
(****************************************************************************)
EXTENDS Leadership, TLC

CONSTANTS n0, n1, n2

\* The test reads no node id, so nodes are model values.
ThreeNodes == {n0, n1, n2}

Symmetric == Permutations(Nodes)
===============================================================================
