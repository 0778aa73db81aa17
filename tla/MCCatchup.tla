------------------------------- MODULE MCCatchup -------------------------------
(****************************************************************************)
(* Values of the constants of Catchup for TLC: node 2 lags behind node 1,   *)
(* and ends one id without help.                                            *)
(****************************************************************************)
EXTENDS Catchup

Ahead == {<<1, i>> : i \in Ids} \cup {<<2, 2>>}
================================================================================
