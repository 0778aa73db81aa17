--------------------------- MODULE PaxosInstanceInv ---------------------------
(****************************************************************************)
(* The inductive invariant of PaxosInstance that ConditionalAgreement and   *)
(* PromiseHonoured follow from.                                             *)
(****************************************************************************)
EXTENDS PaxosInstance

Quorum == {Q \in SUBSET Nodes : AcceptReach(Q)}

\* A majority voted in ballot b, in which v was sent for acceptance.
ChosenAt(b, v) ==
    AcceptSent(b, v) /\ \E Q \in Quorum : \A a \in Q : VotedIn(a, b)

\* Node a did not vote in ballot c and never will.
WontVote(a, c) == /\ ~VotedIn(a, c)
                  /\ status[a] = "done" \/ c \prec promise[a]

\* The ballots an Accept message can have: only a leader uses proposal id 0.
Usable(c) == c.node \in Nodes /\ (c.proposal # 0 \/ c.node \in Leaders)

\* No value other than v has been or can be chosen below ballot b.
SafeAt(v, b) ==
    \A c \in AllBallots : Usable(c) /\ c \prec b =>
        \E Q \in Quorum : \A a \in Q :
            (VotedIn(a, c) /\ AcceptSent(c, v)) \/ WontVote(a, c)

\* The ballot is none, or v was sent in it.
Reported(b, v) == b = ZeroBallot \/ AcceptSent(b, v)

\* An acceptor remembers its last vote, and its promise covers it.
AcceptorOK(a) ==
    /\ acceptBallot[a] \preceq promise[a]
    /\ Reported(acceptBallot[a], acceptValue[a])
    /\ status[a] # "done" =>
         \A c \in AllBallots : VotedIn(a, c) => c \preceq acceptBallot[a]

AcceptorInv == \A a \in Nodes : AcceptorOK(a)

\* A granted PrepareReply is true when sent, and stays so.
PrepareReplyOK(m) ==
    LET b == Bal(m.proposal, m.to)
    IN  /\ Reported(m.ballot, m.value)
        /\ status[m.node] = "done" \/ b \preceq promise[m.node]
        /\ \A c \in AllBallots :
             VotedIn(m.node, c) => c \preceq m.ballot \/ b \preceq c

PrepareReplyInv == \A m \in Sent("PrepareReply") : ~m.reject => PrepareReplyOK(m)

AcceptInv == \A m \in Sent("Accept") : Usable(Bal(m.proposal, m.node))

\* Node a granted the current round of proposer n, and n knows of the vote that
\* a reported.
GrantKnown(n, a) ==
    \E m \in Sent("PrepareReply") :
        /\ m.node = a /\ m.to = n /\ ~m.reject
        /\ m.proposal = lastProposalID[n]
        /\ m.ballot \preceq adopted[n]

\* A proposer's counter counts grants of its round, and its value is the one
\* reported with the highest ballot it knows of.
ProposerOK(n) ==
    /\ status[n] = "idle" => lastProposalID[n] = 0 /\ adopted[n] = ZeroBallot
    /\ Reported(adopted[n], value[n])
    /\ preparing[n] => /\ lastProposalID[n] # 0
                       /\ \A a \in granted[n] : GrantKnown(n, a)
    /\ accepting[n] => /\ AcceptSent(Bal(lastProposalID[n], n), value[n])
                       /\ \A a \in granted[n] : VotedIn(a, Bal(lastProposalID[n], n))

ProposerInv == \A n \in Nodes : ProposerOK(n)

\* What is announced or logged was chosen.
LearnInv ==
    /\ \A m \in Sent("LearnValue") : \E b \in AllBallots : ChosenAt(b, m.value)
    /\ \A n \in Nodes :
         status[n] = "done" => \E b \in AllBallots : ChosenAt(b, log[n])

SafeInv ==
    SafeLeaders =>
        \A m \in Sent("Accept") : SafeAt(m.value, Bal(m.proposal, m.node))

\* The inductive invariant: what the handlers of Acceptor, Proposer and Learner
\* keep true together, for any loss, duplication and order of messages.
IInv == /\ TypeOK
        /\ AcceptorInv
        /\ PrepareReplyInv
        /\ AcceptInv
        /\ ProposerInv
        /\ LearnInv
        /\ SafeInv

\* A client proposed v.
Proposed(v) == v \in Values /\ \E n \in Nodes : proposal[n] = v

\* Only proposed values are sent for acceptance, and a node's client, context
\* and log entry are as new until its instance starts, or ends.
ValueInv ==
    /\ \A m \in Sent("Accept") : Proposed(m.value)
    /\ \A n \in Nodes :
         /\ preparing[n] \/ accepting[n] => Proposed(value[n])
         /\ status[n] = "idle" => proposal[n] = NoValue
         /\ status[n] # "done" => log[n] = NoValue /\ outcome[n] = "UnDone"
==============================================================================
