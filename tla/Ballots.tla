------------------------------- MODULE Ballots -------------------------------
(****************************************************************************)
(* The ballots of tPaxos (class BallotSequence): a proposal id and the id   *)
(* of the node that uses it, ordered first by proposal id and then by node. *)
(****************************************************************************)
EXTENDS Naturals

\* The ballots with proposal ids in P and node ids in N.
Ballot(P, N) == [proposal : P, node : N]

Bal(p, n) == [proposal |-> p, node |-> n]

\* What BallotSequence() and Reset() give: "no ballot yet".  Node ids start
\* at 0 (test_config.h), so this is also a ballot that node 0 can use.
ZeroBallot == Bal(0, 0)

\* BallotSequence::operator<
b \prec c == \/ b.proposal < c.proposal
             \/ b.proposal = c.proposal /\ b.node < c.node

b \preceq c == ~(c \prec b)
==============================================================================
