---------------------------- MODULE MCInstanceLoop ----------------------------
(****************************************************************************)
(* Values of the constants of InstanceLoop for TLC.                         *)
(****************************************************************************)
EXTENDS InstanceLoop

\* Accept is like Prepare here: no message of the acceptor changes a round.
Types == AllTypes \ {"Accept"}
===============================================================================
