------------------------- MODULE PaxosInstanceProofs -------------------------
(****************************************************************************)
(* Theorems about PaxosInstance, for every value of its constants.          *)
(****************************************************************************)
EXTENDS PaxosInstance, FiniteSetTheorems, TLAPS

\* Every typing fact uses that the bound on proposal ids is a number.
USE BoundAssumption

(****************************************************************************)
(* Messages.                                                                *)
(****************************************************************************)
\* The fields of a message in the network, by its type.
LEMMA MessageTypes ==
  ASSUME msgs \subseteq Message
  PROVE  /\ Sent("Prepare") \subseteq PrepareMsg
         /\ Sent("PrepareReply") \subseteq PrepareReplyMsg
         /\ Sent("Accept") \subseteq AcceptMsg
         /\ Sent("AcceptReply") \subseteq AcceptReplyMsg
         /\ Sent("LearnValue") \subseteq LearnValueMsg
BY DEF Sent, Message, PrepareMsg, PrepareReplyMsg, AcceptMsg, AcceptReplyMsg,
       LearnValueMsg

\* The initial ballot is a ballot, and a message's ballot is one.
LEMMA BallotTypes ==
  /\ ZeroBallot \in AllBallots
  /\ \A p \in 0 .. MaxProposal, n \in Nodes : Bal(p, n) \in AllBallots
BY DEF ZeroBallot, AllBallots, Bal, Ballot

(****************************************************************************)
(* Type correctness.                                                        *)
(****************************************************************************)
LEMMA TypeInit == Init => TypeOK
BY BallotTypes DEF Init, TypeOK

LEMMA TypeOnPrepare ==
  ASSUME TypeOK, NEW n \in Nodes, NEW m \in Sent("Prepare"), OnPrepare(n, m)
  PROVE  TypeOK'
<1> USE DEF TypeOK
<1>1. m.node \in Nodes /\ m.proposal \in 0 .. MaxProposal
  BY MessageTypes DEF PrepareMsg
<1> DEFINE b == Bal(m.proposal, m.node)
           r == [type |-> "PrepareReply", to |-> m.node, node |-> n,
                 proposal |-> m.proposal, reject |-> Refuses(n, b),
                 ballot |-> IF Refuses(n, b) THEN ZeroBallot ELSE acceptBallot[n],
                 value |-> IF Refuses(n, b) THEN NoValue ELSE acceptValue[n],
                 promised |-> IF Refuses(n, b) THEN promise[n].proposal ELSE 0]
<1>2. b \in AllBallots
  BY <1>1, BallotTypes
<1>3. Refuses(n, b) \in BOOLEAN
  BY DEF Refuses, \prec
<1>4. promise[n].proposal \in 0 .. MaxProposal
  BY DEF AllBallots, Ballot
<1>5. r \in PrepareReplyMsg
  BY <1>1, <1>3, <1>4, BallotTypes DEF PrepareReplyMsg
<1>6. msgs' = msgs \cup {r}
  BY DEF OnPrepare, Send
<1>7. msgs' \subseteq Message
  BY <1>5, <1>6 DEF Message
<1>8. status' \in [Nodes -> {"idle", "active", "done"}]
      /\ promise' \in [Nodes -> AllBallots]
  BY <1>2 DEF OnPrepare, Allocated
<1>9. status'[n] = "active" /\ \A a \in Nodes \ {n} : status'[a] = status[a]
  BY DEF OnPrepare, Allocated
<1> QED
  BY <1>7, <1>8, <1>9 DEF OnPrepare, Allocated, proposerVars, roundVars

LEMMA TypeOnAccept ==
  ASSUME TypeOK, NEW n \in Nodes, NEW m \in Sent("Accept"), OnAccept(n, m)
  PROVE  TypeOK'
<1> USE DEF TypeOK
<1>1. m.node \in Nodes /\ m.proposal \in 0 .. MaxProposal
      /\ m.value \in Values \cup {NoValue}
  BY MessageTypes DEF AcceptMsg
<1> DEFINE b == Bal(m.proposal, m.node)
           r == [type |-> "AcceptReply", to |-> m.node, node |-> n,
                 proposal |-> m.proposal, reject |-> Refuses(n, b),
                 promised |-> IF Refuses(n, b) THEN promise[n].proposal ELSE 0]
<1>2. b \in AllBallots
  BY <1>1, BallotTypes
<1>3. Refuses(n, b) \in BOOLEAN
  BY DEF Refuses, \prec
<1>4. promise[n].proposal \in 0 .. MaxProposal
  BY DEF AllBallots, Ballot
<1>5. r \in AcceptReplyMsg
  BY <1>1, <1>3, <1>4 DEF AcceptReplyMsg
<1>6. msgs' = msgs \cup {r}
  BY DEF OnAccept, Send
<1>7. msgs' \subseteq Message
  BY <1>5, <1>6 DEF Message
<1>8. /\ status' \in [Nodes -> {"idle", "active", "done"}]
      /\ promise' \in [Nodes -> AllBallots]
      /\ acceptBallot' \in [Nodes -> AllBallots]
      /\ acceptValue' \in [Nodes -> Values \cup {NoValue}]
  BY <1>1, <1>2 DEF OnAccept, Allocated, acceptorVars
<1>9. status'[n] = "active" /\ \A a \in Nodes \ {n} : status'[a] = status[a]
  BY DEF OnAccept, Allocated
<1> QED
  BY <1>7, <1>8, <1>9 DEF OnAccept, Allocated, proposerVars, roundVars

\* What Prepare leaves: a well-typed round, and the other nodes' as they were.
LEMMA TypePrepare ==
  ASSUME TypeOK, NEW n \in Nodes, Prepare(n)
  PROVE  /\ preparing' \in [Nodes -> BOOLEAN]
         /\ accepting' \in [Nodes -> BOOLEAN]
         /\ lastProposalID' \in [Nodes -> 0 .. MaxProposal]
         /\ received' \in [Nodes -> SUBSET Nodes]
         /\ granted' \in [Nodes -> SUBSET Nodes]
         /\ msgs' \subseteq Message
         /\ ~(preparing'[n] /\ accepting'[n])
         /\ \A a \in Nodes \ {n} : preparing'[a] = preparing[a]
                                   /\ accepting'[a] = accepting[a]
<1> USE DEF TypeOK
<1>1. NextProposalID(n) \in 0 .. MaxProposal
  BY DEF Prepare, NextProposalID
<1>2. msgs' \subseteq Message
  BY <1>1 DEF Prepare, Send, Message, PrepareMsg
<1> QED
  BY <1>1, <1>2 DEF Prepare, ResetCounter

LEMMA TypeAccept ==
  ASSUME TypeOK, NEW n \in Nodes, NEW v \in Values \cup {NoValue}, Accept(n, v)
  PROVE  /\ preparing' \in [Nodes -> BOOLEAN]
         /\ accepting' \in [Nodes -> BOOLEAN]
         /\ received' \in [Nodes -> SUBSET Nodes]
         /\ granted' \in [Nodes -> SUBSET Nodes]
         /\ msgs' \subseteq Message
         /\ ~(preparing'[n] /\ accepting'[n])
         /\ \A a \in Nodes \ {n} : preparing'[a] = preparing[a]
                                   /\ accepting'[a] = accepting[a]
<1> USE DEF TypeOK
<1>1. msgs' \subseteq Message
  BY DEF Accept, Send, Message, AcceptMsg
<1> QED
  BY <1>1 DEF Accept, ResetCounter

LEMMA TypeNewProposal ==
  ASSUME TypeOK, NEW n \in Nodes, NEW v \in Values, NewProposal(n, v)
  PROVE  TypeOK'
<1> USE DEF TypeOK
<1>1. /\ status' \in [Nodes -> {"idle", "active", "done"}]
      /\ status'[n] = "active" /\ \A a \in Nodes \ {n} : status'[a] = status[a]
      /\ proposal' \in [Nodes -> Values \cup {NoValue}]
      /\ value' \in [Nodes -> Values \cup {NoValue}]
      /\ UNCHANGED <<promise, acceptBallot, acceptValue, adopted, maxOther, log, outcome>>
  BY DEF NewProposal, acceptorVars
<1>2. CASE Accept(n, v) /\ UNCHANGED lastProposalID
  BY <1>1, <1>2, TypeAccept
<1>3. CASE Prepare(n)
  BY <1>1, <1>3, TypePrepare
<1> QED
  BY <1>2, <1>3 DEF NewProposal

LEMMA TypeTimeout ==
  ASSUME TypeOK, NEW n \in Nodes, Timeout(n)
  PROVE  TypeOK'
<1> USE DEF TypeOK
<1>1. /\ Prepare(n) /\ status[n] = "active"
      /\ UNCHANGED <<nodeVars, acceptorVars, adopted, value, maxOther>>
  BY DEF Timeout, OnPrepareTimeout, OnAcceptTimeout
<1> QED
  BY <1>1, TypePrepare DEF nodeVars, acceptorVars

LEMMA TypeDoneConsensus ==
  ASSUME TypeOK, NEW n \in Nodes, NEW v \in Values \cup {NoValue},
         DoneConsensus(n, v), maxOther' \in [Nodes -> 0 .. MaxProposal],
         msgs' \subseteq Message
  PROVE  TypeOK'
<1> USE DEF TypeOK
<1>1. CommitStatus(n, v) \in {"UnDone", "Success", "Fail"}
  BY DEF CommitStatus
<1>2. /\ promise' \in [Nodes -> AllBallots]
      /\ acceptBallot' \in [Nodes -> AllBallots]
      /\ adopted' \in [Nodes -> AllBallots]
  BY BallotTypes DEF DoneConsensus
<1>3. /\ received' \in [Nodes -> SUBSET Nodes]
      /\ granted' \in [Nodes -> SUBSET Nodes]
  BY DEF DoneConsensus, ResetCounter
<1> QED
  BY <1>1, <1>2, <1>3 DEF DoneConsensus

LEMMA TypeLearnFromOthers ==
  ASSUME TypeOK, NEW n \in Nodes, NEW m \in Sent("LearnValue"), LearnFromOthers(n, m)
  PROVE  TypeOK'
<1>1. m.value \in Values \cup {NoValue}
  BY MessageTypes DEF TypeOK, LearnValueMsg
<1> QED
  BY <1>1, TypeDoneConsensus DEF TypeOK, LearnFromOthers

\* The effect of a reply on the counter and on uMaxOtherProposalID.
LEMMA TypeReply ==
  ASSUME TypeOK, NEW n \in Nodes,
         NEW m \in Sent("PrepareReply") \cup Sent("AcceptReply")
  PROVE  /\ m.node \in Nodes /\ m.to \in Nodes /\ m.proposal \in 0 .. MaxProposal
         /\ m.reject \in BOOLEAN
         /\ GrantedBy(n, m) \in SUBSET Nodes
         /\ Counted(n, m) \in SUBSET Nodes
         /\ RaiseMaxOther(n, m) => maxOther' \in [Nodes -> 0 .. MaxProposal]
<1> USE DEF TypeOK
<1>1. /\ m.node \in Nodes /\ m.to \in Nodes /\ m.proposal \in 0 .. MaxProposal
      /\ m.reject \in BOOLEAN /\ m.promised \in 0 .. MaxProposal
  BY MessageTypes DEF PrepareReplyMsg, AcceptReplyMsg
<1> QED
  BY <1>1 DEF GrantedBy, Counted, RaiseMaxOther, Max2

LEMMA TypeOnPrepareReply ==
  ASSUME TypeOK, NEW n \in Nodes, NEW m \in Sent("PrepareReply"), OnPrepareReply(n, m)
  PROVE  TypeOK'
<1> USE DEF TypeOK
<1> DEFINE v == IF Adopts(n, m) THEN m.value ELSE value[n]
<1>1. m.ballot \in AllBallots /\ m.value \in Values \cup {NoValue}
  BY MessageTypes DEF PrepareReplyMsg
<1>2. v \in Values \cup {NoValue}
  BY <1>1
<1>3. /\ maxOther' \in [Nodes -> 0 .. MaxProposal]
      /\ adopted' \in [Nodes -> AllBallots]
      /\ value' \in [Nodes -> Values \cup {NoValue}]
      /\ status[n] = "active"
      /\ UNCHANGED <<status, proposal, log, outcome, promise, acceptBallot, acceptValue,
                     lastProposalID>>
  BY <1>1, <1>2, TypeReply DEF OnPrepareReply, nodeVars, acceptorVars
<1>4. CASE Accept(n, v)
  BY <1>2, <1>3, <1>4, TypeAccept
<1>5. CASE CountReply(n, m) /\ UNCHANGED <<preparing, accepting, msgs>>
  BY <1>3, <1>5, TypeReply DEF CountReply
<1> QED
  BY <1>4, <1>5 DEF OnPrepareReply

LEMMA TypeOnAcceptReply ==
  ASSUME TypeOK, NEW n \in Nodes, NEW m \in Sent("AcceptReply"), OnAcceptReply(n, m)
  PROVE  TypeOK'
<1> USE DEF TypeOK
<1>1. maxOther' \in [Nodes -> 0 .. MaxProposal]
  BY TypeReply DEF OnAcceptReply
<1>2. CASE AcceptReach(GrantedBy(n, m))
  <2>1. msgs' \subseteq Message
    BY <1>2 DEF OnAcceptReply, Send, Message, LearnValueMsg
  <2> QED
    BY <1>1, <1>2, <2>1, TypeDoneConsensus DEF OnAcceptReply
<1>3. CASE ~AcceptReach(GrantedBy(n, m))
  <2>1. CountReply(n, m)
    BY <1>3 DEF OnAcceptReply
  <2>2. GrantedBy(n, m) \in SUBSET Nodes /\ Counted(n, m) \in SUBSET Nodes
    BY TypeReply
  <2>3. received' \in [Nodes -> SUBSET Nodes] /\ granted' \in [Nodes -> SUBSET Nodes]
    BY <2>1, <2>2 DEF CountReply
  <2> QED
    BY <1>1, <1>3, <2>3 DEF OnAcceptReply, nodeVars, acceptorVars
<1> QED
  BY <1>2, <1>3

LEMMA TypeOtherInstance ==
  ASSUME TypeOK, NEW n \in Nodes, OtherInstance(n)
  PROVE  TypeOK'
BY DEF TypeOK, OtherInstance, nodeVars, acceptorVars, proposerVars, roundVars

\* A step of Next is one of the actions above.
LEMMA StepCases ==
  ASSUME Next
  PROVE  \E n \in Nodes :
           \/ \E v \in Values : <<n, v>> \in Proposals /\ NewProposal(n, v)
           \/ \E m \in Sent("Prepare") : OnPrepare(n, m)
           \/ \E m \in Sent("PrepareReply") : OnPrepareReply(n, m)
           \/ \E m \in Sent("Accept") : OnAccept(n, m)
           \/ \E m \in Sent("AcceptReply") : OnAcceptReply(n, m)
           \/ \E m \in Sent("LearnValue") : LearnFromOthers(n, m)
           \/ Timeout(n)
           \/ OtherInstance(n)
BY DEF Next, Deliver, Arriving

LEMMA TypeNext == TypeOK /\ [Next]_vars => TypeOK'
<1> SUFFICES ASSUME TypeOK, [Next]_vars PROVE TypeOK'
  OBVIOUS
<1>1. CASE Next
  BY <1>1, StepCases, TypeNewProposal, TypeOnPrepare, TypeOnPrepareReply, TypeOnAccept,
     TypeOnAcceptReply, TypeLearnFromOthers, TypeTimeout, TypeOtherInstance
<1>2. CASE UNCHANGED vars
  BY <1>2 DEF vars, TypeOK
<1> QED
  BY <1>1, <1>2

\* Every reachable state is well typed, and a proposer is never in two phases.
THEOREM TypeCorrect == Spec => []TypeOK
BY TypeInit, TypeNext, PTL DEF Spec
==============================================================================
