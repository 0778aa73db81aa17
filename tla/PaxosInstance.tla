---------------------------- MODULE PaxosInstance ----------------------------
(****************************************************************************)
(* One consensus instance of tPaxos, on every node: the Proposer, Acceptor, *)
(* Learner and Counter that an Instance owns, and the part of a node's      *)
(* State they share with its other instances.                               *)
(*                                                                          *)
(* An instance handles one message or timer at a time (InstanceIOLoop), so  *)
(* a handler is one action.  The network (QueueTransfer) loses, duplicates  *)
(* and reorders: msgs is the set of messages ever sent, a message may be    *)
(* delivered any number of times, or never.                                 *)
(****************************************************************************)
EXTENDS Integers, FiniteSets, Ballots

CONSTANTS
    Nodes,          \* ids of the nodes
    Values,         \* what clients propose
    NoValue,        \* the empty string
    Majority,       \* State.uMajority
    Proposals,      \* pairs <<n, v>>: a client of node n may propose v
    Leaders,        \* nodes whose State passes the leader test of NewProposal
    OtherRejects,   \* pairs <<n, q>>: rejections met by other instances of node n
                    \*   may write q to uMaxOtherProposalID
    Links,          \* pairs <<m, n>>: not all messages from m to n are lost
    TimingOut,      \* nodes whose timers may fire
    MaxProposal     \* bound: largest proposal id that is tried

ASSUME NodesAssumption == Nodes \subseteq Nat /\ IsFiniteSet(Nodes)
ASSUME MajorityAssumption == Majority \in Nat /\ 2 * Majority > Cardinality(Nodes)
ASSUME ValuesAssumption == NoValue \notin Values
ASSUME RolesAssumption == Proposals \subseteq Nodes \X Values /\ Leaders \subseteq Nodes
ASSUME BoundAssumption == MaxProposal \in Nat /\ OtherRejects \subseteq Nodes \X (0 .. MaxProposal)
                   /\ TimingOut \subseteq Nodes /\ Links \subseteq Nodes \X Nodes

VARIABLES
    status,          \* "idle": no instance allocated; "active"; "done": reset
    \* Acceptor
    promise,         \* _oPromiseBallot
    acceptBallot,    \* _oAcceptBallot
    acceptValue,     \* _sValue
    \* Proposer
    preparing,       \* _bPreparing, and the prepare timer is armed
    accepting,       \* _bAccepting, and the accept timer is armed
    lastProposalID,  \* _uLastProposalID
    adopted,         \* _oAcceptedBallot
    value,           \* _sValue
    received,        \* _oCounter: nodes whose reply was counted
    granted,         \* _oCounter: those among them that did not reject
    \* State
    maxOther,        \* uMaxOtherProposalID
    \* what the rest of the node sees
    proposal,        \* the value of the client's CommitCtx
    log,             \* the log entry of this instance
    outcome,         \* the status of the client's CommitCtx
    msgs             \* every message sent so far

acceptorVars == <<promise, acceptBallot, acceptValue>>
counterVars  == <<received, granted>>
roundVars    == <<preparing, accepting, lastProposalID, received, granted>>
proposerVars == <<roundVars, adopted, value>>
nodeVars     == <<status, proposal, log, outcome>>
vars == <<status, promise, acceptBallot, acceptValue, preparing, accepting,
          lastProposalID, adopted, value, received, granted, maxOther,
          proposal, log, outcome, msgs>>

(****************************************************************************)
(* Messages (message.proto).  The field value of the protocol buffer is the *)
(* empty string when it was not set, and so is the ballot of a rejection.   *)
(****************************************************************************)
AllBallots == Ballot(0 .. MaxProposal, Nodes \cup {0})

PrepareMsg == [type : {"Prepare"}, node : Nodes, proposal : 0 .. MaxProposal]

PrepareReplyMsg ==
    [type : {"PrepareReply"}, to : Nodes, node : Nodes, proposal : 0 .. MaxProposal,
     reject : BOOLEAN, ballot : AllBallots, value : Values \cup {NoValue},
     promised : 0 .. MaxProposal]

AcceptMsg == [type : {"Accept"}, node : Nodes, proposal : 0 .. MaxProposal,
              value : Values \cup {NoValue}]

AcceptReplyMsg ==
    [type : {"AcceptReply"}, to : Nodes, node : Nodes, proposal : 0 .. MaxProposal,
     reject : BOOLEAN, promised : 0 .. MaxProposal]

LearnValueMsg == [type : {"LearnValue"}, node : Nodes, value : Values \cup {NoValue}]

Message == PrepareMsg \cup PrepareReplyMsg \cup AcceptMsg \cup AcceptReplyMsg
             \cup LearnValueMsg

Sent(t) == {m \in msgs : m.type = t}

Send(m) == msgs' = msgs \cup {m}

Max2(a, b) == IF a < b THEN b ELSE a

(****************************************************************************)
(* The Acceptor.                                                            *)
(****************************************************************************)
\* Mutant: an acceptor that never refuses.
RefusesNothing(n, b) == FALSE

\* Mutant: `<=' for `<', so that an acceptor refuses the ballot it promised.
RefusesPromised(n, b) == b \preceq promise[n]

Refuses(n, b) == b \prec promise[n]

\* A message for an instance that has not been allocated allocates it.
Allocated(n) == /\ status[n] # "done"
                /\ status' = [status EXCEPT ![n] = "active"]
                /\ UNCHANGED <<proposal, log, outcome>>

OnPrepare(n, m) ==
    LET b == Bal(m.proposal, m.node)
        reply == [type |-> "PrepareReply", to |-> m.node, node |-> n,
                  proposal |-> m.proposal, reject |-> Refuses(n, b),
                  ballot |-> IF Refuses(n, b) THEN ZeroBallot ELSE acceptBallot[n],
                  value |-> IF Refuses(n, b) THEN NoValue ELSE acceptValue[n],
                  promised |-> IF Refuses(n, b) THEN promise[n].proposal ELSE 0]
    IN  /\ Allocated(n)
        /\ promise' = IF Refuses(n, b) THEN promise ELSE [promise EXCEPT ![n] = b]
        /\ Send(reply)
        /\ UNCHANGED <<acceptBallot, acceptValue, proposerVars, maxOther>>

OnAccept(n, m) ==
    LET b == Bal(m.proposal, m.node)
        reply == [type |-> "AcceptReply", to |-> m.node, node |-> n,
                  proposal |-> m.proposal, reject |-> Refuses(n, b),
                  promised |-> IF Refuses(n, b) THEN promise[n].proposal ELSE 0]
    IN  /\ Allocated(n)
        /\ IF Refuses(n, b)
             THEN UNCHANGED acceptorVars
             ELSE /\ promise' = [promise EXCEPT ![n] = b]
                  /\ acceptBallot' = [acceptBallot EXCEPT ![n] = b]
                  /\ acceptValue' = [acceptValue EXCEPT ![n] = m.value]
        /\ Send(reply)
        /\ UNCHANGED <<proposerVars, maxOther>>

(****************************************************************************)
(* The Proposer.  Prepare and Accept start a round: they set one of the two *)
(* flags, clear the other, reset the counter and broadcast.                 *)
(****************************************************************************)
NextProposalID(n) == maxOther[n] + 1

\* Mutant: a round starts with the replies counted in the last one.
KeepCounter(n) == UNCHANGED counterVars

ResetCounter(n) == /\ received' = [received EXCEPT ![n] = {}]
                   /\ granted' = [granted EXCEPT ![n] = {}]

Prepare(n) ==
    /\ maxOther[n] < MaxProposal
    /\ preparing' = [preparing EXCEPT ![n] = TRUE]
    /\ accepting' = [accepting EXCEPT ![n] = FALSE]
    /\ ResetCounter(n)
    /\ lastProposalID' = [lastProposalID EXCEPT ![n] = NextProposalID(n)]
    /\ Send([type |-> "Prepare", node |-> n, proposal |-> NextProposalID(n)])

\* Mutant: Accept without ExitPrepare.
AcceptStillPreparing(n, v) ==
    /\ accepting' = [accepting EXCEPT ![n] = TRUE]
    /\ ResetCounter(n)
    /\ Send([type |-> "Accept", node |-> n, proposal |-> lastProposalID[n], value |-> v])
    /\ UNCHANGED preparing

\* Proposer::Accept with _sValue = v, which the caller has set.
Accept(n, v) ==
    /\ preparing' = [preparing EXCEPT ![n] = FALSE]
    /\ accepting' = [accepting EXCEPT ![n] = TRUE]
    /\ ResetCounter(n)
    /\ Send([type |-> "Accept", node |-> n, proposal |-> lastProposalID[n], value |-> v])

\* The first message of an instance that the group allocated for a client.
\* A leader skips the prepare phase, with the proposal id left by Reset.
NewProposal(n, v) ==
    /\ status[n] = "idle"
    /\ status' = [status EXCEPT ![n] = "active"]
    /\ proposal' = [proposal EXCEPT ![n] = v]
    /\ value' = [value EXCEPT ![n] = v]
    /\ \/ n \in Leaders /\ Accept(n, v) /\ UNCHANGED lastProposalID
       \/ n \notin Leaders /\ Prepare(n)
    /\ UNCHANGED <<acceptorVars, adopted, maxOther, log, outcome>>

\* Counter::Accept and Counter::Reject: only a node's first reply counts.
Counted(n, m)  == received[n] \cup {m.node}
\* Mutant: a reply counts as granted whatever it says.
GrantedByAny(n, m) == granted[n] \cup {m.node}

GrantedBy(n, m) == IF m.reject \/ m.node \in received[n] THEN granted[n]
                                                         ELSE granted[n] \cup {m.node}

AcceptReach(S) == Cardinality(S) >= Majority

CountReply(n, m) == /\ received' = [received EXCEPT ![n] = Counted(n, m)]
                    /\ granted' = [granted EXCEPT ![n] = GrantedBy(n, m)]

\* uMaxOtherProposalID after a reply: only a rejection carries a proposal id.
RaiseMaxOther(n, m) ==
    maxOther' = [maxOther EXCEPT ![n] = IF m.reject THEN Max2(@, m.promised) ELSE @]

\* Mutants: the value an acceptor reports is ignored; the empty value of one
\* that accepted nothing is taken.
AdoptsNothing(n, m) == FALSE
AdoptsEmpty(n, m)   == ~m.reject /\ adopted[n] \preceq m.ballot

\* A granted reply with a higher ballot than any seen so far replaces the value.
Adopts(n, m) == ~m.reject /\ adopted[n] \prec m.ballot

\* Neither RejectReach nor ReceiveReach changes anything: their branch is empty.
OnPrepareReply(n, m) ==
    LET v == IF Adopts(n, m) THEN m.value ELSE value[n]
    IN  /\ m.to = n
        /\ status[n] = "active" /\ preparing[n] /\ m.proposal = lastProposalID[n]
        /\ RaiseMaxOther(n, m)
        /\ adopted' = [adopted EXCEPT ![n] = IF Adopts(n, m) THEN m.ballot ELSE @]
        /\ value' = [value EXCEPT ![n] = v]
        /\ IF AcceptReach(GrantedBy(n, m))
             THEN Accept(n, v)
             ELSE CountReply(n, m) /\ UNCHANGED <<preparing, accepting, msgs>>
        /\ UNCHANGED <<nodeVars, acceptorVars, lastProposalID>>

OnPrepareTimeout(n) ==
    /\ n \in TimingOut /\ preparing[n] /\ Prepare(n)
    /\ UNCHANGED <<nodeVars, acceptorVars, adopted, value, maxOther>>

OnAcceptTimeout(n) ==
    /\ n \in TimingOut /\ accepting[n] /\ Prepare(n)
    /\ UNCHANGED <<nodeVars, acceptorVars, adopted, value, maxOther>>

(****************************************************************************)
(* The end of an instance (Instance::IOLoopOnMessage once the learner has a *)
(* value): everything is reset, the client's context is committed, the log  *)
(* is written.  The group drops later messages for the instance.            *)
(****************************************************************************)
\* Mutant: a client is told Success whatever value was chosen.
CommitAnyway(n, v) == IF proposal[n] = NoValue THEN "UnDone" ELSE "Success"

CommitStatus(n, v) == CASE proposal[n] = NoValue -> "UnDone"
                        [] proposal[n] = v       -> "Success"
                        [] OTHER                 -> "Fail"

DoneConsensus(n, v) ==
    /\ status' = [status EXCEPT ![n] = "done"]
    /\ promise' = [promise EXCEPT ![n] = ZeroBallot]
    /\ acceptBallot' = [acceptBallot EXCEPT ![n] = ZeroBallot]
    /\ acceptValue' = [acceptValue EXCEPT ![n] = NoValue]
    /\ preparing' = [preparing EXCEPT ![n] = FALSE]
    /\ accepting' = [accepting EXCEPT ![n] = FALSE]
    /\ lastProposalID' = [lastProposalID EXCEPT ![n] = 0]
    /\ adopted' = [adopted EXCEPT ![n] = ZeroBallot]
    /\ value' = [value EXCEPT ![n] = NoValue]
    /\ ResetCounter(n)
    /\ log' = [log EXCEPT ![n] = v]
    /\ outcome' = [outcome EXCEPT ![n] = CommitStatus(n, v)]
    /\ UNCHANGED proposal

OnAcceptReply(n, m) ==
    /\ m.to = n
    /\ status[n] = "active" /\ accepting[n] /\ m.proposal = lastProposalID[n]
    /\ RaiseMaxOther(n, m)
    /\ IF AcceptReach(GrantedBy(n, m))
         THEN /\ DoneConsensus(n, value[n])
              /\ Send([type |-> "LearnValue", node |-> n, value |-> value[n]])
         ELSE /\ CountReply(n, m)
              /\ UNCHANGED <<nodeVars, acceptorVars, preparing, accepting,
                             lastProposalID, adopted, value, msgs>>

LearnFromOthers(n, m) ==
    /\ status[n] # "done"
    /\ DoneConsensus(n, m.value)
    /\ UNCHANGED <<maxOther, msgs>>

(****************************************************************************)
(* The other instances of the node run in threads of their own and write    *)
(* uMaxOtherProposalID too.  They check it and write it under a shared lock,*)
(* so a write may also undo a higher one made since the check.              *)
(****************************************************************************)
OtherInstance(n) ==
    /\ \E q \in 0 .. MaxProposal :
         <<n, q>> \in OtherRejects /\ maxOther' = [maxOther EXCEPT ![n] = q]
    /\ UNCHANGED <<nodeVars, acceptorVars, proposerVars, msgs>>

(****************************************************************************)
(* The specification.                                                       *)
(****************************************************************************)
Init ==
    /\ status = [n \in Nodes |-> "idle"]
    /\ promise = [n \in Nodes |-> ZeroBallot]
    /\ acceptBallot = [n \in Nodes |-> ZeroBallot]
    /\ acceptValue = [n \in Nodes |-> NoValue]
    /\ preparing = [n \in Nodes |-> FALSE]
    /\ accepting = [n \in Nodes |-> FALSE]
    /\ lastProposalID = [n \in Nodes |-> 0]
    /\ adopted = [n \in Nodes |-> ZeroBallot]
    /\ value = [n \in Nodes |-> NoValue]
    /\ received = [n \in Nodes |-> {}]
    /\ granted = [n \in Nodes |-> {}]
    /\ maxOther = [n \in Nodes |-> 0]
    /\ proposal = [n \in Nodes |-> NoValue]
    /\ log = [n \in Nodes |-> NoValue]
    /\ outcome = [n \in Nodes |-> "UnDone"]
    /\ msgs = {}

Arriving(t, n) == {m \in Sent(t) : <<m.node, n>> \in Links}

Deliver(n) ==
    \/ \E m \in Arriving("Prepare", n) : OnPrepare(n, m)
    \/ \E m \in Arriving("PrepareReply", n) : OnPrepareReply(n, m)
    \/ \E m \in Arriving("Accept", n) : OnAccept(n, m)
    \/ \E m \in Arriving("AcceptReply", n) : OnAcceptReply(n, m)
    \/ \E m \in Arriving("LearnValue", n) : LearnFromOthers(n, m)

Timeout(n) == OnPrepareTimeout(n) \/ OnAcceptTimeout(n)

Next == \E n \in Nodes :
    \/ \E v \in Values : <<n, v>> \in Proposals /\ NewProposal(n, v)
    \/ Deliver(n)
    \/ Timeout(n)
    \/ OtherInstance(n)

Spec == Init /\ [][Next]_vars

\* No ballot has carried two values.  Prepare takes uMaxOtherProposalID + 1, so
\* a round that timed out without a rejection is followed by one in the same
\* ballot, where another value may be sent.
OneValuePerBallot ==
    \A m, r \in Sent("Accept") :
        m.node = r.node /\ m.proposal = r.proposal => m.value = r.value

\* The behaviours in which no ballot is used for two values.
FreshBallotsSpec == Init /\ [][Next /\ OneValuePerBallot']_vars

\* The threads of a node keep running, and the network settles: the messages of
\* the last round arrive before its timer, whose delay doubles with each round
\* (AddPrepareTimer, AddAcceptTimer), fires.
Settled == /\ \A n \in Nodes : WF_vars(Deliver(n))
           /\ <>[][\A n \in Nodes : ~Timeout(n)]_vars

LiveSpec == Spec /\ Settled

(****************************************************************************)
(* Properties.                                                              *)
(****************************************************************************)
\* Type correctness; a proposer is never in both phases; and only a node with
\* an active instance has a round in progress (Proposer::Reset clears both).
TypeOK ==
    /\ status \in [Nodes -> {"idle", "active", "done"}]
    /\ promise \in [Nodes -> AllBallots]
    /\ acceptBallot \in [Nodes -> AllBallots]
    /\ acceptValue \in [Nodes -> Values \cup {NoValue}]
    /\ preparing \in [Nodes -> BOOLEAN]
    /\ accepting \in [Nodes -> BOOLEAN]
    /\ lastProposalID \in [Nodes -> 0 .. MaxProposal]
    /\ adopted \in [Nodes -> AllBallots]
    /\ value \in [Nodes -> Values \cup {NoValue}]
    /\ received \in [Nodes -> SUBSET Nodes]
    /\ granted \in [Nodes -> SUBSET Nodes]
    /\ maxOther \in [Nodes -> 0 .. MaxProposal]
    /\ proposal \in [Nodes -> Values \cup {NoValue}]
    /\ log \in [Nodes -> Values \cup {NoValue}]
    /\ outcome \in [Nodes -> {"UnDone", "Success", "Fail"}]
    /\ msgs \subseteq Message
    /\ \A n \in Nodes : /\ ~(preparing[n] /\ accepting[n])
                        /\ preparing[n] \/ accepting[n] => status[n] = "active"

\* Node a accepted in ballot b: it sent an AcceptReply that does not reject.
VotedIn(a, b) ==
    \E m \in Sent("AcceptReply") :
        m.node = a /\ ~m.reject /\ Bal(m.proposal, m.to) = b

\* Value v was sent for acceptance in ballot b.
AcceptSent(b, v) ==
    \E m \in Sent("Accept") : Bal(m.proposal, m.node) = b /\ m.value = v

\* What a granted PrepareReply says stays true (Acceptor::OnPrepare with
\* OnAccept): a node that reported acceptBallot in reply to ballot b never
\* accepts, before or after, in a ballot strictly between the two.
PromiseHonoured ==
    \A m \in Sent("PrepareReply"), r \in Sent("AcceptReply") :
        LET c == Bal(r.proposal, r.to)
        IN  m.node = r.node /\ ~m.reject /\ ~r.reject
              => ~(m.ballot \prec c /\ c \prec Bal(m.proposal, m.to))

\* No two nodes end the instance with different log entries.
Agreement ==
    \A m, n \in Nodes : status[m] = "done" /\ status[n] = "done" => log[m] = log[n]

\* At most one node passes the leader test, and it is not the node whose ballot
\* with proposal id 0 compares equal to "no ballot".
SafeLeaders == 0 \notin Leaders /\ \A m, n \in Leaders : m = n

\* The nodes agree on the log entry (Proposer, Acceptor and Learner together),
\* as long as no ballot was used for two values and the leader is unique.
ConditionalAgreement == SafeLeaders /\ OneValuePerBallot => Agreement

\* A node that is done logged a value that some client proposed: an acceptor's
\* empty initial value never replaces the proposer's own in OnPrepareReply.
DecidedWasProposed ==
    \A n \in Nodes : status[n] = "done" =>
        log[n] # NoValue /\ \E m \in Nodes : log[n] = proposal[m]

\* The proposer's value reaches every node it can talk to, once a majority can
\* (OnPrepareReply, OnAcceptReply, LearnFromOthers): meant for one client.
Connected(n) == {m \in Nodes : {<<n, m>>, <<m, n>>} \subseteq Links}

Termination ==
    \A n \in Nodes : AcceptReach(Connected(n)) =>
        (proposal[n] # NoValue ~> \A m \in Connected(n) : status[m] = "done")

\* The instances of the nodes together behave as one consensus (Consensus).
C == INSTANCE Consensus

ImplementsConsensus == C!Spec
==============================================================================
