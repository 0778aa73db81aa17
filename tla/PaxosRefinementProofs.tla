------------------------ MODULE PaxosRefinementProofs ------------------------
(****************************************************************************)
(* What is logged was proposed, and an instance implements Consensus.       *)
(****************************************************************************)
EXTENDS PaxosSafetyProofs

\* What a step leaves of a proposal: a client's context never changes its value.
LEMMA ProposedStable ==
  ASSUME NEW n \in Nodes, NEW w, TypeOK, proposal[n] = NoValue,
         proposal' = [proposal EXCEPT ![n] = w] \/ proposal' = proposal
  PROVE  \A v : Proposed(v) => Proposed(v)'
BY ValuesAssumption DEF Proposed, TypeOK

LEMMA ValueInit == Init => ValueInv
BY DEF Init, ValueInv, Sent

\* A value that was chosen was proposed.
LEMMA ChosenProposed ==
  ASSUME ValueInv, NEW b, NEW v, ChosenAt(b, v) \/ AcceptSent(b, v)
  PROVE  Proposed(v)
BY DEF ValueInv, ChosenAt, AcceptSent

LEMMA ValueNewProposal ==
  ASSUME IInv, ValueInv, NEW n \in Nodes, NEW v \in Values, NewProposal(n, v)
  PROVE  ValueInv'
<1>1. /\ TypeOK /\ status[n] = "idle" /\ status'[n] = "active" /\ proposal[n] = NoValue
      /\ proposal' = [proposal EXCEPT ![n] = v] /\ value'[n] = v
      /\ UNCHANGED <<log, outcome>>
      /\ \A a \in Nodes \ {n} : status'[a] = status[a] /\ value'[a] = value[a]
  BY DEF NewProposal, ValueInv, IInv, TypeOK
<1>2. \A w : Proposed(w) => Proposed(w)'
  BY <1>1, ProposedStable
<1>3. Proposed(v)'
  BY <1>1 DEF Proposed, TypeOK
<1>4. /\ \A m \in Sent("Accept")' : m \in Sent("Accept") \/ m.value = v
      /\ \A a \in Nodes \ {n} : preparing'[a] = preparing[a] /\ accepting'[a] = accepting[a]
  <2>1. CASE Prepare(n)
    BY <1>1, <2>1, PrepareFacts
  <2>2. CASE Accept(n, v)
    BY <1>1, <2>2, SendOne, AcceptFacts DEF Accept
  <2> QED
    BY <2>1, <2>2 DEF NewProposal
<1>5. \A m \in Sent("Accept")' : Proposed(m.value)'
  BY <1>2, <1>3, <1>4 DEF ValueInv
<1>6. ASSUME NEW a \in Nodes, (preparing[a] \/ accepting[a])'
      PROVE  Proposed(value[a])'
  <2>1. PICK w : w = value'[a]
    OBVIOUS
  <2>2. Proposed(w)'
    BY <1>1, <1>2, <1>3, <1>4, <1>6, <2>1 DEF ValueInv
  <2> QED
    BY <2>1, <2>2 DEF Proposed
<1> QED
  BY <1>1, <1>5, <1>6 DEF ValueInv, IInv, TypeOK

LEMMA ValueOnPrepareReply ==
  ASSUME IInv, ValueInv, NEW n \in Nodes, NEW m \in Sent("PrepareReply"),
         OnPrepareReply(n, m)
  PROVE  ValueInv'
<1>1. PICK v : v = IF Adopts(n, m) THEN m.value ELSE value[n]
  OBVIOUS
<1>2. /\ TypeOK /\ preparing[n] /\ UNCHANGED <<status, proposal, log, outcome>>
      /\ value'[n] = v /\ \A a \in Nodes \ {n} : value'[a] = value[a]
  BY <1>1 DEF OnPrepareReply, nodeVars, IInv, TypeOK
<1>3. Proposed(v)
  <2>1. CASE ~Adopts(n, m)
    BY <1>1, <1>2, <2>1 DEF ValueInv
  <2>2. CASE Adopts(n, m)
    <3>1. m.ballot \in AllBallots /\ adopted[n] \in AllBallots
      BY <1>2, BallotOfMessage DEF TypeOK
    <3>2. m.ballot # ZeroBallot
      BY <2>2, <3>1, BallotOrder DEF Adopts, \preceq
    <3>3. AcceptSent(m.ballot, v)
      BY <1>1, <2>2, <3>2 DEF Adopts, IInv, PrepareReplyInv, PrepareReplyOK, Reported
    <3> QED
      BY <3>3, ChosenProposed
  <2> QED
    BY <2>1, <2>2
<1>4. /\ \A x \in Sent("Accept")' : x \in Sent("Accept") \/ x.value = v
      /\ \A a \in Nodes \ {n} : preparing'[a] = preparing[a] /\ accepting'[a] = accepting[a]
  <2>1. CASE Accept(n, v)
    BY <1>2, <2>1, SendOne, AcceptFacts DEF Accept
  <2>2. CASE UNCHANGED <<preparing, accepting, msgs>>
    BY <2>2 DEF Sent
  <2> QED
    BY <1>1, <2>1, <2>2 DEF OnPrepareReply
<1>5. \A w : Proposed(w) => Proposed(w)'
  BY <1>2 DEF Proposed
<1>6. ASSUME NEW a \in Nodes, (preparing[a] \/ accepting[a])'
      PROVE  Proposed(value[a])'
  <2>1. PICK w : w = value'[a]
    OBVIOUS
  <2>2. Proposed(w)'
    BY <1>2, <1>3, <1>4, <1>5, <1>6, <2>1 DEF ValueInv
  <2> QED
    BY <2>1, <2>2 DEF Proposed
<1> QED
  BY <1>2, <1>3, <1>4, <1>5, <1>6 DEF ValueInv

LEMMA ValueDoneConsensus ==
  ASSUME IInv, ValueInv, NEW n \in Nodes, NEW v, DoneConsensus(n, v),
         Sent("Accept")' = Sent("Accept")
  PROVE  ValueInv'
<1>1. /\ status'[n] = "done" /\ ~preparing'[n] /\ ~accepting'[n] /\ proposal' = proposal
      /\ \A a \in Nodes \ {n} :
           /\ status'[a] = status[a] /\ preparing'[a] = preparing[a]
           /\ accepting'[a] = accepting[a] /\ value'[a] = value[a]
           /\ log'[a] = log[a] /\ outcome'[a] = outcome[a]
  BY DEF DoneConsensus, IInv, TypeOK
<1> QED
  BY <1>1 DEF ValueInv, Proposed

\* A step that starts no proposal, sends no Accept and ends no instance.
LEMMA ValueFrame ==
  ASSUME ValueInv, UNCHANGED <<proposal, log, outcome, value>>,
         Sent("Accept")' = Sent("Accept"),
         \A a \in Nodes : /\ status'[a] = "idle" => status[a] = "idle"
                          /\ status'[a] # "done" => status[a] # "done"
                          /\ preparing'[a] \/ accepting'[a] => preparing[a] \/ accepting[a]
  PROVE  ValueInv'
BY DEF ValueInv, Proposed

LEMMA ValueNext == IInv /\ ValueInv /\ [Next]_vars => ValueInv'
<1> SUFFICES ASSUME IInv, ValueInv, [Next]_vars PROVE ValueInv'
  OBVIOUS
<1>0. TypeOK
  BY DEF IInv
<1>1. ASSUME NEW n \in Nodes, NEW m \in Sent("Prepare"), OnPrepare(n, m) PROVE ValueInv'
  BY <1>0, <1>1, ValueFrame, SendOne
     DEF OnPrepare, Allocated, TypeOK, proposerVars, roundVars
<1>2. ASSUME NEW n \in Nodes, NEW m \in Sent("Accept"), OnAccept(n, m) PROVE ValueInv'
  BY <1>0, <1>2, ValueFrame, SendOne
     DEF OnAccept, Allocated, TypeOK, proposerVars, roundVars
<1>3. ASSUME NEW n \in Nodes, NEW m \in Sent("AcceptReply"), OnAcceptReply(n, m)
      PROVE  ValueInv'
  <2>1. CASE DoneConsensus(n, value[n]) /\ Send([type |-> "LearnValue", node |-> n,
                                                 value |-> value[n]])
    BY <2>1, ValueDoneConsensus, SendOne
  <2>2. CASE UNCHANGED <<nodeVars, preparing, accepting, value, msgs>>
    BY <2>2, ValueFrame DEF nodeVars, Sent
  <2> QED
    BY <1>3, <2>1, <2>2 DEF OnAcceptReply
<1>4. ASSUME NEW n \in Nodes, NEW m \in Sent("LearnValue"), LearnFromOthers(n, m)
      PROVE  ValueInv'
  BY <1>4, ValueDoneConsensus DEF LearnFromOthers, Sent
<1>5. ASSUME NEW n \in Nodes, Timeout(n) PROVE ValueInv'
  <2>1. /\ Prepare(n)
        /\ preparing[n] \/ accepting[n]
        /\ UNCHANGED <<nodeVars, value>>
    BY <1>5 DEF Timeout, OnPrepareTimeout, OnAcceptTimeout
  <2> QED
    BY <1>0, <1>5, <2>1, PrepareFacts, ValueFrame
       DEF nodeVars, Timeout, OnPrepareTimeout, OnAcceptTimeout
<1>6. ASSUME NEW n \in Nodes, OtherInstance(n) PROVE ValueInv'
  BY <1>6, ValueFrame DEF OtherInstance, nodeVars, proposerVars, roundVars, Sent
<1>7. CASE UNCHANGED vars
  BY <1>7, ValueFrame DEF vars, Sent
<1> QED
  BY <1>1, <1>2, <1>3, <1>4, <1>5, <1>6, <1>7, StepCases, ValueNewProposal,
     ValueOnPrepareReply

\* A node only logs a value that a client of some node proposed.
THEOREM LoggedWasProposed == Spec => []DecidedWasProposed
<1>1. IInv /\ ValueInv => DecidedWasProposed
  <2> SUFFICES ASSUME IInv, ValueInv, NEW n \in Nodes, status[n] = "done"
               PROVE  log[n] # NoValue /\ \E m \in Nodes : log[n] = proposal[m]
    BY DEF DecidedWasProposed
  <2>1. Proposed(log[n])
    BY ChosenProposed DEF IInv, LearnInv
  <2> QED
    BY <2>1, ValuesAssumption DEF Proposed
<1>2. Spec => [](IInv /\ ValueInv)
  BY InvInit, InvNext, ValueInit, ValueNext, PTL DEF Spec
<1> QED
  BY <1>1, <1>2, PTL

(****************************************************************************)
(* The instance implements Consensus.                                       *)
(****************************************************************************)
\* A node that ends its instance makes a Learn step of Consensus.
LEMMA LearnStep ==
  ASSUME IInv, ValueInv, Agreement', NEW n \in Nodes, NEW v, DoneConsensus(n, v),
         status[n] # "done", Proposed(v)
  PROVE  C!Next
<1>1. /\ TypeOK /\ log[n] = NoValue
      /\ log' = [log EXCEPT ![n] = v] /\ log'[n] = v
      /\ outcome' = [outcome EXCEPT ![n] = CommitStatus(n, v)] /\ proposal' = proposal
  BY DEF DoneConsensus, ValueInv, IInv, TypeOK
<1>2. ASSUME NEW m \in Nodes PROVE log[m] \in {NoValue, v}
  <2>1. CASE m = n
    BY <1>1, <2>1
  <2>2. CASE m # n /\ status[m] # "done"
    BY <2>2 DEF ValueInv
  <2>3. CASE m # n /\ status[m] = "done"
    <3>1. status'[m] = "done" /\ status'[n] = "done" /\ log'[m] = log[m]
      BY <1>1, <2>3 DEF DoneConsensus, TypeOK
    <3> QED
      BY <1>1, <3>1 DEF Agreement
  <2> QED
    BY <2>1, <2>2, <2>3
<1>3. C!Learn(n, v)
  BY <1>1, <1>2 DEF C!Learn, CommitStatus, Proposed
<1> QED
  BY <1>3 DEF C!Next, Proposed

LEMMA RefineNext ==
  ASSUME IInv, ValueInv, Agreement', [Next]_vars
  PROVE  [C!Next]_<<proposal, log, outcome>>
<1>1. ASSUME NEW n \in Nodes, NEW v \in Values, NewProposal(n, v) PROVE C!Next
  <2>1. C!Propose(n, v)
    BY <1>1 DEF NewProposal, ValueInv, C!Propose
  <2> QED
    BY <2>1 DEF C!Next
<1>2. ASSUME NEW n \in Nodes, NEW m \in Sent("AcceptReply"), OnAcceptReply(n, m)
      PROVE  C!Next \/ UNCHANGED <<proposal, log, outcome>>
  <2>1. CASE DoneConsensus(n, value[n])
    <3>1. status[n] # "done" /\ Proposed(value[n])
      BY <1>2 DEF OnAcceptReply, ValueInv
    <3> QED
      BY <2>1, <3>1, LearnStep
  <2> QED
    BY <1>2, <2>1 DEF OnAcceptReply, nodeVars
<1>3. ASSUME NEW n \in Nodes, NEW m \in Sent("LearnValue"), LearnFromOthers(n, m)
      PROVE  C!Next
  <2>1. Proposed(m.value)
    BY ChosenProposed DEF IInv, LearnInv
  <2> QED
    BY <1>3, <2>1, LearnStep DEF LearnFromOthers
<1>4. ASSUME NEW n \in Nodes,
             \/ \E m \in Sent("Prepare") : OnPrepare(n, m)
             \/ \E m \in Sent("PrepareReply") : OnPrepareReply(n, m)
             \/ \E m \in Sent("Accept") : OnAccept(n, m)
             \/ Timeout(n)
             \/ OtherInstance(n)
      PROVE  UNCHANGED <<proposal, log, outcome>>
  BY <1>4 DEF OnPrepare, OnPrepareReply, OnAccept, Timeout, OnPrepareTimeout,
     OnAcceptTimeout, OtherInstance, Allocated, nodeVars
<1>5. CASE UNCHANGED vars
  BY <1>5 DEF vars
<1> QED
  BY <1>1, <1>2, <1>3, <1>4, <1>5, StepCases

\* With at most one leader, not node 0, every behaviour in which no ballot is
\* used for two values is one of the abstract consensus: a node's log entry and
\* what its client was told agree with all others.
THEOREM InstanceImplementsConsensus ==
  ASSUME SafeLeaders
  PROVE  FreshBallotsSpec => ImplementsConsensus
<1>1. Init => C!Init /\ IInv /\ ValueInv /\ OneValuePerBallot
  BY InvInit, ValueInit DEF Init, C!Init, OneValuePerBallot, Sent
<1>2. IInv /\ OneValuePerBallot => Agreement
  BY AgreementOfInv DEF ConditionalAgreement
<1>3. IInv /\ ValueInv /\ OneValuePerBallot /\ [Next /\ OneValuePerBallot']_vars
        => (IInv /\ ValueInv /\ OneValuePerBallot)'
  BY InvNext, ValueNext DEF vars, OneValuePerBallot, Sent
<1>4. (IInv /\ OneValuePerBallot)' => Agreement'
  BY <1>2, PTL
<1>5. IInv /\ ValueInv /\ OneValuePerBallot /\ (IInv /\ OneValuePerBallot)'
        /\ [Next /\ OneValuePerBallot']_vars => [C!Next]_<<proposal, log, outcome>>
  BY <1>4, RefineNext
<1> QED
  BY <1>1, <1>3, <1>5, PTL DEF FreshBallotsSpec, ImplementsConsensus, C!Spec
==============================================================================
