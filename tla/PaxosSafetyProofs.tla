-------------------------- MODULE PaxosSafetyProofs --------------------------
(****************************************************************************)
(* The invariant IInv is inductive, and with it the promises of acceptors   *)
(* are honoured and the nodes agree, for every value of the constants.      *)
(****************************************************************************)
EXTENDS PaxosInstanceInv, PaxosInstanceProofs

(****************************************************************************)
(* Ballots.                                                                 *)
(****************************************************************************)
LEMMA BallotOrder ==
  \A b, c, d \in AllBallots :
    /\ b.proposal \in Nat /\ b.node \in Nat
    /\ ~(b \prec b)
    /\ b \prec c \/ b = c \/ c \prec b
    /\ b \prec c /\ c \prec d => b \prec d
    /\ b \prec c /\ c \preceq d => b \prec d
    /\ b \preceq c /\ c \prec d => b \prec d
    /\ b \preceq c /\ c \preceq d => b \preceq d
    /\ b \preceq c => b \prec c \/ b = c
    /\ b \prec c => b \preceq c
    /\ b = c => b \preceq c
    /\ ~(b \prec c) <=> c \preceq b
    /\ ZeroBallot \preceq b
<1>0. Nodes \cup {0} \subseteq Nat /\ 0 .. MaxProposal \subseteq Nat
  BY NodesAssumption, BoundAssumption
<1>1. \A b \in AllBallots : /\ b = Bal(b.proposal, b.node)
                            /\ b.proposal \in Nat /\ b.node \in Nat
  BY <1>0 DEF AllBallots, Ballot, Bal
<1>2. \A b, c \in AllBallots : b.proposal = c.proposal /\ b.node = c.node => b = c
  BY <1>1
<1> QED
  BY <1>1, <1>2 DEF \prec, \preceq, ZeroBallot, Bal

(****************************************************************************)
(* Facts on messages and votes only grow.                                   *)
(****************************************************************************)
LEMMA Monotone ==
  ASSUME msgs \subseteq msgs'
  PROVE  /\ \A t : Sent(t) \subseteq Sent(t)'
         /\ \A a, c : VotedIn(a, c) => VotedIn(a, c)'
         /\ \A b, v : AcceptSent(b, v) => AcceptSent(b, v)'
         /\ \A b, v : Reported(b, v) => Reported(b, v)'
         /\ \A b, v : ChosenAt(b, v) => ChosenAt(b, v)'
<1>1. \A t : Sent(t) \subseteq Sent(t)'
  BY DEF Sent
<1>2. \A a, c : VotedIn(a, c) => VotedIn(a, c)'
  BY <1>1 DEF VotedIn
<1>3. \A b, v : AcceptSent(b, v) => AcceptSent(b, v)'
  BY <1>1 DEF AcceptSent
<1>4. \A b, v : Reported(b, v) => Reported(b, v)'
  BY <1>3 DEF Reported
<1>5. \A b, v : ChosenAt(b, v) => ChosenAt(b, v)'
  BY <1>2, <1>3 DEF ChosenAt, Quorum, AcceptReach
<1> QED
  BY <1>1, <1>2, <1>3, <1>4, <1>5

\* Sending one message adds it to the messages of its type only.
LEMMA SendOne ==
  ASSUME NEW m, Send(m)
  PROVE  /\ msgs \subseteq msgs'
         /\ \A t : m.type # t => Sent(t)' = Sent(t)
         /\ \A t : m.type = t => Sent(t)' = Sent(t) \cup {m}
BY DEF Send, Sent

\* The type of a message is the one it was sent with.
LEMMA BallotOfMessage ==
  ASSUME TypeOK
  PROVE  /\ \A m \in Sent("PrepareReply") \cup Sent("AcceptReply") :
              Bal(m.proposal, m.to) \in AllBallots
         /\ \A m \in Sent("Prepare") \cup Sent("Accept") :
              Bal(m.proposal, m.node) \in AllBallots
         /\ \A m \in Sent("PrepareReply") : m.ballot \in AllBallots /\ m.node \in Nodes
         /\ \A m \in Sent("AcceptReply") : m.node \in Nodes
BY MessageTypes, BallotTypes
   DEF TypeOK, PrepareMsg, AcceptMsg, PrepareReplyMsg, AcceptReplyMsg

\* What every step keeps: an instance that is done stays done, promises of the
\* others do not go back, and a new vote is by a node that had not promised more.
AcceptorStep ==
  /\ msgs \subseteq msgs'
  /\ \A a \in Nodes :
       /\ status[a] = "done" => status'[a] = "done"
       /\ status'[a] = "done" \/ promise[a] \preceq promise'[a]
       /\ \A c \in AllBallots : VotedIn(a, c)' =>
            VotedIn(a, c) \/ (status[a] # "done" /\ promise[a] \preceq c)

\* A step that changes nothing an acceptor keeps or has answered.
Quiet ==
  /\ UNCHANGED acceptorVars
  /\ msgs \subseteq msgs'
  /\ Sent("PrepareReply")' = Sent("PrepareReply")
  /\ Sent("AcceptReply")' = Sent("AcceptReply")
  /\ \A a \in Nodes : status'[a] = "done" <=> status[a] = "done"

LEMMA QuietStep ==
  ASSUME TypeOK, Quiet
  PROVE  AcceptorStep
<1>1. \A a, c : VotedIn(a, c)' => VotedIn(a, c)
  BY DEF Quiet, VotedIn
<1> QED
  BY <1>1, BallotOrder DEF Quiet, AcceptorStep, acceptorVars, TypeOK

\* Once no value but v can be chosen below b, that stays so.
LEMMA SafeAtStable ==
  ASSUME TypeOK, AcceptorStep, NEW v, NEW b, SafeAt(v, b), TypeOK'
  PROVE  SafeAt(v, b)'
<1>1. ASSUME NEW a \in Nodes, NEW c \in AllBallots, WontVote(a, c)
      PROVE  WontVote(a, c)'
  <2>1. ~VotedIn(a, c)'
    BY <1>1, BallotOrder DEF AcceptorStep, WontVote, TypeOK
  <2>2. (status[a] = "done" \/ c \prec promise[a])'
    BY <1>1, BallotOrder DEF AcceptorStep, WontVote, TypeOK
  <2> QED
    BY <2>1, <2>2 DEF WontVote
<1>2. ASSUME NEW a, NEW c, VotedIn(a, c) /\ AcceptSent(c, v)
      PROVE  (VotedIn(a, c) /\ AcceptSent(c, v))'
  BY <1>2, Monotone DEF AcceptorStep
<1>3. Quorum' = Quorum /\ Quorum \subseteq SUBSET Nodes
  BY DEF Quorum, AcceptReach
<1> SUFFICES ASSUME NEW c \in AllBallots, Usable(c) /\ c \prec b
             PROVE  \E Q \in Quorum : \A a \in Q :
                      ((VotedIn(a, c) /\ AcceptSent(c, v)) \/ WontVote(a, c))'
  BY <1>3 DEF SafeAt, Usable, AllBallots, \prec
<1>4. PICK Q \in Quorum : \A a \in Q :
        (VotedIn(a, c) /\ AcceptSent(c, v)) \/ WontVote(a, c)
  BY DEF SafeAt
<1> QED
  BY <1>1, <1>2, <1>3, <1>4

(****************************************************************************)
(* Frames: the parts of IInv that a step does not disturb.                  *)
(****************************************************************************)
LEMMA QuietFrame ==
  ASSUME IInv, Quiet
  PROVE  AcceptorInv' /\ PrepareReplyInv'
<1> USE Monotone DEF Quiet
<1>1. \A a, c : VotedIn(a, c)' => VotedIn(a, c)
  BY DEF VotedIn
<1>2. ASSUME NEW a \in Nodes PROVE AcceptorOK(a)'
  BY <1>1 DEF IInv, AcceptorInv, AcceptorOK, acceptorVars, AllBallots
<1>3. ASSUME NEW m \in Sent("PrepareReply"), ~m.reject PROVE PrepareReplyOK(m)'
  <2>1. m.node \in Nodes
    BY BallotOfMessage DEF IInv
  <2> QED
    BY <1>1, <1>3, <2>1 DEF IInv, PrepareReplyInv, PrepareReplyOK, acceptorVars, AllBallots
<1> QED
  BY <1>2, <1>3 DEF AcceptorInv, PrepareReplyInv

\* A proposer that a step leaves alone.
LEMMA ProposerFrame ==
  ASSUME NEW n \in Nodes, ProposerOK(n), msgs \subseteq msgs',
         status'[n] = "idle" => status[n] = "idle",
         lastProposalID'[n] = lastProposalID[n], adopted'[n] = adopted[n],
         value'[n] = value[n], preparing'[n] = preparing[n],
         accepting'[n] = accepting[n], granted'[n] = granted[n]
  PROVE  ProposerOK(n)'
<1>1. \A a : GrantKnown(n, a) => GrantKnown(n, a)'
  BY Monotone DEF GrantKnown
<1> QED
  BY <1>1, Monotone DEF ProposerOK

LEMMA LearnFrame ==
  ASSUME IInv, msgs \subseteq msgs', Sent("LearnValue")' = Sent("LearnValue"),
         log' = log, \A a \in Nodes : status'[a] = "done" <=> status[a] = "done"
  PROVE  LearnInv'
BY Monotone DEF IInv, LearnInv, AllBallots

\* A step that sends no Accept, and one that sends one whose value is safe.
LEMMA SafeFrame ==
  ASSUME IInv, AcceptorStep, TypeOK', Sent("Accept")' = Sent("Accept")
  PROVE  AcceptInv' /\ SafeInv'
BY SafeAtStable DEF IInv, AcceptInv, SafeInv, Usable, SafeLeaders

LEMMA SafeSend ==
  ASSUME IInv, AcceptorStep, TypeOK', NEW n \in Nodes, NEW v,
         Accept(n, v), Usable(Bal(lastProposalID[n], n)),
         SafeLeaders => SafeAt(v, Bal(lastProposalID[n], n))
  PROVE  AcceptInv' /\ SafeInv'
<1> DEFINE x == [type |-> "Accept", node |-> n, proposal |-> lastProposalID[n], value |-> v]
<1>1. Sent("Accept")' = Sent("Accept") \cup {x}
  BY SendOne DEF Accept
<1>2. SafeLeaders => \A m \in Sent("Accept")' : SafeAt(m.value, Bal(m.proposal, m.node))
  BY <1>1 DEF IInv, SafeInv
<1>3. SafeInv'
  BY <1>2, SafeAtStable DEF IInv, SafeInv, SafeLeaders
<1>4. AcceptInv'
  BY <1>1 DEF IInv, AcceptInv, Usable
<1> QED
  BY <1>3, <1>4

(****************************************************************************)
(* The value a proposer sends after a majority of grants is safe.           *)
(****************************************************************************)
LEMMA SafeChoice ==
  ASSUME IInv, SafeLeaders, NEW n \in Nodes, NEW p \in 0 .. MaxProposal,
         NEW Q \in Quorum, NEW B \in AllBallots, NEW v, Reported(B, v),
         \A a \in Q : \E m \in Sent("PrepareReply") :
            m.node = a /\ m.to = n /\ ~m.reject /\ m.proposal = p /\ m.ballot \preceq B
  PROVE  SafeAt(v, Bal(p, n))
<1> DEFINE b == Bal(p, n)
<1>1. b \in AllBallots /\ Q \subseteq Nodes
  BY BallotTypes DEF Quorum
<1> SUFFICES ASSUME NEW c \in AllBallots, Usable(c), c \prec b
             PROVE  \E R \in Quorum : \A a \in R :
                      (VotedIn(a, c) /\ AcceptSent(c, v)) \/ WontVote(a, c)
  BY DEF SafeAt
<1>2. c # ZeroBallot
  BY DEF Usable, SafeLeaders, ZeroBallot, Bal
<1>3. ASSUME NEW a \in Q
      PROVE  /\ status[a] = "done" \/ c \prec promise[a]
             /\ VotedIn(a, c) => c \preceq B
  <2>1. PICK m \in Sent("PrepareReply") :
          m.node = a /\ m.to = n /\ ~m.reject /\ m.proposal = p /\ m.ballot \preceq B
    OBVIOUS
  <2>2. PrepareReplyOK(m)
    BY <2>1 DEF IInv, PrepareReplyInv
  <2>3. m.ballot \in AllBallots /\ promise[a] \in AllBallots
    BY <1>1, BallotOfMessage DEF IInv, TypeOK
  <2>4. status[a] = "done" \/ c \prec promise[a]
    BY <1>1, <2>1, <2>2, <2>3, BallotOrder DEF PrepareReplyOK
  <2>5. VotedIn(a, c) => c \preceq B
    BY <1>1, <2>1, <2>2, <2>3, BallotOrder DEF PrepareReplyOK
  <2> QED
    BY <2>4, <2>5
<1>4. CASE B \prec c
  <2>1. \A a \in Q : WontVote(a, c)
    BY <1>3, <1>4, BallotOrder DEF WontVote, \preceq
  <2> QED
    BY <2>1
<1>5. CASE B = c
  <2>1. AcceptSent(c, v)
    BY <1>2, <1>5 DEF Reported
  <2>2. \A a \in Q : (VotedIn(a, c) /\ AcceptSent(c, v)) \/ WontVote(a, c)
    BY <1>3, <2>1 DEF WontVote
  <2> QED
    BY <2>2
<1>6. CASE c \prec B
  <2>1. AcceptSent(B, v)
    BY <1>6, BallotOrder DEF Reported, \preceq
  <2>2. SafeAt(v, B)
    BY <2>1 DEF IInv, SafeInv, AcceptSent
  <2> QED
    BY <1>6, <2>2 DEF SafeAt
<1> QED
  BY <1>4, <1>5, <1>6, BallotOrder

\* Without a rival, what a leader sends with proposal id 0 is safe.
LEMMA SafeLeader ==
  ASSUME SafeLeaders, NEW n \in Leaders, NEW v
  PROVE  SafeAt(v, Bal(0, n))
<1> SUFFICES ASSUME NEW c \in AllBallots, Usable(c), c \prec Bal(0, n)
             PROVE  FALSE
  BY DEF SafeAt
<1>1. c.proposal \in Nat /\ c.node \in Nat /\ n \in Nat
  BY BallotOrder, RolesAssumption, NodesAssumption
<1>2. c.proposal = 0 /\ c.node < n
  BY <1>1 DEF \prec, Bal
<1> QED
  BY <1>1, <1>2 DEF Usable, SafeLeaders

(****************************************************************************)
(* IInv holds initially and is kept by every action.                        *)
(****************************************************************************)
LEMMA InvInit == Init => IInv
<1> SUFFICES ASSUME Init PROVE IInv
  OBVIOUS
<1>1. \A t : Sent(t) = {}
  BY DEF Init, Sent
<1>2. TypeOK
  BY TypeInit
<1>3. AcceptorInv
  BY <1>1, BallotOrder, BallotTypes DEF Init, AcceptorInv, AcceptorOK, Reported, VotedIn
<1>4. ProposerInv
  BY DEF Init, ProposerInv, ProposerOK, Reported
<1> QED
  BY <1>1, <1>2, <1>3, <1>4
     DEF Init, IInv, PrepareReplyInv, AcceptInv, LearnInv, SafeInv

LEMMA InvOnPrepare ==
  ASSUME IInv, NEW n \in Nodes, NEW m \in Sent("Prepare"), OnPrepare(n, m)
  PROVE  IInv'
<1> DEFINE b == Bal(m.proposal, m.node)
           r == [type |-> "PrepareReply", to |-> m.node, node |-> n,
                 proposal |-> m.proposal, reject |-> Refuses(n, b),
                 ballot |-> IF Refuses(n, b) THEN ZeroBallot ELSE acceptBallot[n],
                 value |-> IF Refuses(n, b) THEN NoValue ELSE acceptValue[n],
                 promised |-> IF Refuses(n, b) THEN promise[n].proposal ELSE 0]
<1>1. TypeOK /\ TypeOK' /\ b \in AllBallots
  BY TypeOnPrepare, BallotOfMessage DEF IInv
<1>2. /\ msgs \subseteq msgs'
      /\ \A t : t # "PrepareReply" => Sent(t)' = Sent(t)
      /\ Sent("PrepareReply")' = Sent("PrepareReply") \cup {r}
  BY SendOne DEF OnPrepare
<1>3. /\ status[n] # "done"
      /\ \A a \in Nodes : status'[a] = "done" <=> status[a] = "done"
      /\ \A a \in Nodes : status'[a] = "idle" => status[a] = "idle"
      /\ UNCHANGED <<acceptBallot, acceptValue, proposerVars, maxOther, log>>
  BY <1>1 DEF OnPrepare, Allocated, TypeOK
<1>4. \A a, c : VotedIn(a, c)' <=> VotedIn(a, c)
  BY <1>2 DEF VotedIn
<1>5. \A a \in Nodes : promise[a] \preceq promise'[a]
  <2>1. ~Refuses(n, b) => promise[n] \preceq b
    BY DEF Refuses, \preceq
  <2> QED
    BY <1>1, <2>1, BallotOrder DEF OnPrepare, TypeOK
<1>6. AcceptorStep
  BY <1>2, <1>3, <1>4, <1>5 DEF AcceptorStep
<1>7. AcceptorInv'
  <2>1. \A a \in Nodes : acceptBallot[a] \preceq promise'[a]
    BY <1>1, <1>5, BallotOrder DEF IInv, AcceptorInv, AcceptorOK, TypeOK
  <2> QED
    BY <1>2, <1>3, <1>4, <2>1, Monotone DEF IInv, AcceptorInv, AcceptorOK, AllBallots
<1>8. PrepareReplyInv'
  <2>1. ASSUME NEW x \in Sent("PrepareReply"), ~x.reject PROVE PrepareReplyOK(x)'
    <3>1. x.node \in Nodes /\ Bal(x.proposal, x.to) \in AllBallots
      BY <1>1, BallotOfMessage
    <3>2. PrepareReplyOK(x)
      BY <2>1 DEF IInv, PrepareReplyInv
    <3>3. status'[x.node] = "done" \/ Bal(x.proposal, x.to) \preceq promise'[x.node]
      BY <1>1, <1>3, <1>5, <3>1, <3>2, BallotOrder DEF PrepareReplyOK, TypeOK
    <3> QED
      BY <1>2, <1>4, <3>2, <3>3, Monotone DEF PrepareReplyOK, AllBallots
  <2>2. PICK y : y = r
    OBVIOUS
  <2>3. ASSUME ~y.reject PROVE PrepareReplyOK(y)'
    <3>1. /\ y.ballot = acceptBallot[n] /\ y.value = acceptValue[n]
          /\ y.node = n /\ Bal(y.proposal, y.to) = b /\ promise'[n] = b
      BY <1>1, <2>2, <2>3 DEF OnPrepare, TypeOK
    <3>2. AcceptorOK(n)
      BY DEF IInv, AcceptorInv
    <3>3. Reported(y.ballot, y.value)'
      BY <1>2, <3>1, <3>2, Monotone DEF AcceptorOK
    <3>4. Bal(y.proposal, y.to) \preceq promise'[y.node]
      BY <1>1, <3>1, BallotOrder
    <3> QED
      BY <1>3, <1>4, <3>1, <3>2, <3>3, <3>4 DEF AcceptorOK, PrepareReplyOK, AllBallots
  <2>4. Sent("PrepareReply")' = Sent("PrepareReply") \cup {y}
    BY <1>2, <2>2
  <2> QED
    BY <2>1, <2>3, <2>4 DEF PrepareReplyInv
<1>9. ProposerInv'
  BY <1>2, <1>3, ProposerFrame DEF IInv, ProposerInv, proposerVars, roundVars
<1>10. LearnInv'
  BY <1>2, <1>3, LearnFrame
<1> QED
  BY <1>1, <1>2, <1>6, <1>7, <1>8, <1>9, <1>10, SafeFrame DEF IInv

LEMMA InvOnAccept ==
  ASSUME IInv, NEW n \in Nodes, NEW m \in Sent("Accept"), OnAccept(n, m)
  PROVE  IInv'
<1> DEFINE b == Bal(m.proposal, m.node)
<1>1. TypeOK /\ TypeOK' /\ b \in AllBallots /\ AcceptSent(b, m.value)
  BY TypeOnAccept, BallotOfMessage DEF IInv, AcceptSent
<1>2. PICK r : /\ Send(r) /\ r.type = "AcceptReply" /\ r.node = n
               /\ Bal(r.proposal, r.to) = b /\ r.reject = Refuses(n, b)
  BY DEF OnAccept
<1>3. /\ msgs \subseteq msgs'
      /\ \A t : t # "AcceptReply" => Sent(t)' = Sent(t)
      /\ Sent("AcceptReply")' = Sent("AcceptReply") \cup {r}
  BY <1>2, SendOne
<1>4. /\ status[n] # "done"
      /\ \A a \in Nodes : status'[a] = "done" <=> status[a] = "done"
      /\ \A a \in Nodes : status'[a] = "idle" => status[a] = "idle"
      /\ UNCHANGED <<proposerVars, maxOther, log>>
  BY <1>1 DEF OnAccept, Allocated, TypeOK
<1>5. \A a, c : VotedIn(a, c)' <=>
        VotedIn(a, c) \/ (a = n /\ c = b /\ ~Refuses(n, b))
  BY <1>2, <1>3 DEF VotedIn
<1>6. ~Refuses(n, b) => promise[n] \preceq b
  BY DEF Refuses, \preceq
<1>7. \A a \in Nodes : promise[a] \preceq promise'[a]
  BY <1>1, <1>6, BallotOrder DEF OnAccept, acceptorVars, TypeOK
<1>8. AcceptorStep
  BY <1>3, <1>4, <1>5, <1>6, <1>7 DEF AcceptorStep
<1>9. AcceptorInv'
  <2>1. ASSUME NEW a \in Nodes, a # n \/ Refuses(n, b) PROVE AcceptorOK(a)'
    <3>1. /\ promise'[a] = promise[a] /\ acceptBallot'[a] = acceptBallot[a]
          /\ acceptValue'[a] = acceptValue[a]
      BY <1>1, <2>1 DEF OnAccept, acceptorVars, TypeOK
    <3>2. \A c : VotedIn(a, c)' => VotedIn(a, c)
      BY <1>5, <2>1
    <3> QED
      BY <1>3, <1>4, <3>1, <3>2, Monotone DEF IInv, AcceptorInv, AcceptorOK, AllBallots
  <2>2. ASSUME ~Refuses(n, b) PROVE AcceptorOK(n)'
    <3>1. promise'[n] = b /\ acceptBallot'[n] = b /\ acceptValue'[n] = m.value
      BY <1>1, <2>2 DEF OnAccept, TypeOK
    <3>2. \A c \in AllBallots : VotedIn(n, c) => c \preceq b
      BY <1>1, <1>4, <1>6, <2>2, BallotOrder DEF IInv, AcceptorInv, AcceptorOK, TypeOK
    <3> QED
      BY <1>1, <1>3, <1>5, <3>1, <3>2, BallotOrder, Monotone
         DEF AcceptorOK, Reported, AllBallots
  <2> QED
    BY <2>1, <2>2 DEF AcceptorInv
<1>10. PrepareReplyInv'
  <2> SUFFICES ASSUME NEW x \in Sent("PrepareReply"), ~x.reject PROVE PrepareReplyOK(x)'
    BY <1>3 DEF PrepareReplyInv
  <2>1. /\ x.node \in Nodes /\ x.ballot \in AllBallots
        /\ Bal(x.proposal, x.to) \in AllBallots
    BY <1>1, BallotOfMessage
  <2>2. PrepareReplyOK(x)
    BY DEF IInv, PrepareReplyInv
  <2>3. status'[x.node] = "done" \/ Bal(x.proposal, x.to) \preceq promise'[x.node]
    BY <1>1, <1>4, <1>7, <2>1, <2>2, BallotOrder DEF PrepareReplyOK, TypeOK
  <2>4. x.node = n /\ ~Refuses(n, b) => Bal(x.proposal, x.to) \preceq b
    BY <1>1, <1>4, <1>6, <2>1, <2>2, BallotOrder DEF PrepareReplyOK, TypeOK
  <2> QED
    BY <1>3, <1>5, <2>2, <2>3, <2>4, Monotone DEF PrepareReplyOK, AllBallots
<1>11. ProposerInv'
  BY <1>3, <1>4, ProposerFrame DEF IInv, ProposerInv, proposerVars, roundVars
<1>12. LearnInv'
  BY <1>3, <1>4, LearnFrame
<1> QED
  BY <1>1, <1>3, <1>8, <1>9, <1>10, <1>11, <1>12, SafeFrame DEF IInv

\* A node that ends its instance with a chosen value.
LEMMA InvDoneConsensus ==
  ASSUME IInv, TypeOK', NEW n \in Nodes, NEW v, DoneConsensus(n, v),
         NEW d \in AllBallots, ChosenAt(d, v), msgs \subseteq msgs',
         \A t : t # "LearnValue" => Sent(t)' = Sent(t),
         \A m \in Sent("LearnValue")' : m \in Sent("LearnValue") \/ m.value = v
  PROVE  IInv'
<1>1. /\ status'[n] = "done"
      /\ promise'[n] = ZeroBallot /\ acceptBallot'[n] = ZeroBallot
      /\ adopted'[n] = ZeroBallot /\ ~preparing'[n] /\ ~accepting'[n]
      /\ log'[n] = v
  BY DEF IInv, TypeOK, DoneConsensus
<1>2. \A a \in Nodes \ {n} :
        /\ status'[a] = status[a] /\ promise'[a] = promise[a]
        /\ acceptBallot'[a] = acceptBallot[a] /\ acceptValue'[a] = acceptValue[a]
        /\ lastProposalID'[a] = lastProposalID[a] /\ adopted'[a] = adopted[a]
        /\ value'[a] = value[a] /\ preparing'[a] = preparing[a]
        /\ accepting'[a] = accepting[a] /\ granted'[a] = granted[a] /\ log'[a] = log[a]
  BY DEF IInv, TypeOK, DoneConsensus, ResetCounter
<1>3. \A a, c : VotedIn(a, c)' <=> VotedIn(a, c)
  BY DEF VotedIn
<1>4. AcceptorStep
  BY <1>1, <1>2, <1>3, BallotOrder DEF AcceptorStep, IInv, TypeOK
<1>5. AcceptorInv'
  <2>1. AcceptorOK(n)'
    BY <1>1, BallotOrder, BallotTypes DEF AcceptorOK, Reported
  <2>2. ASSUME NEW a \in Nodes \ {n} PROVE AcceptorOK(a)'
    BY <1>2, <1>3, Monotone DEF IInv, AcceptorInv, AcceptorOK, AllBallots
  <2> QED
    BY <2>1, <2>2 DEF AcceptorInv
<1>6. PrepareReplyInv'
  <2> SUFFICES ASSUME NEW x \in Sent("PrepareReply"), ~x.reject PROVE PrepareReplyOK(x)'
    BY DEF PrepareReplyInv
  <2>1. x.node \in Nodes /\ PrepareReplyOK(x)
    BY BallotOfMessage DEF IInv, PrepareReplyInv
  <2> QED
    BY <1>1, <1>2, <1>3, <2>1, Monotone DEF PrepareReplyOK, AllBallots
<1>7. ProposerInv'
  <2>1. ProposerOK(n)'
    BY <1>1 DEF ProposerOK, Reported
  <2>2. ASSUME NEW a \in Nodes \ {n} PROVE ProposerOK(a)'
    BY <1>2, ProposerFrame DEF IInv, ProposerInv
  <2> QED
    BY <2>1, <2>2 DEF ProposerInv
<1>8. LearnInv'
  <2>1. \A x : (\E c \in AllBallots : ChosenAt(c, x)) => (\E c \in AllBallots : ChosenAt(c, x)')
    BY Monotone
  <2>2. \E c \in AllBallots : ChosenAt(c, v)'
    BY Monotone
  <2>3. \A m \in Sent("LearnValue")' : \E c \in AllBallots : ChosenAt(c, m.value)'
    BY <2>1, <2>2 DEF IInv, LearnInv
  <2>4. ASSUME NEW a \in Nodes, status'[a] = "done"
        PROVE  \E c \in AllBallots : ChosenAt(c, log[a])'
    <3>1. PICK x : x = log'[a]
      OBVIOUS
    <3>2. \E c \in AllBallots : ChosenAt(c, x)'
      BY <1>1, <1>2, <2>1, <2>2, <2>4, <3>1 DEF IInv, LearnInv
    <3> QED
      BY <3>1, <3>2
  <2> QED
    BY <2>3, <2>4 DEF LearnInv, AllBallots
<1> QED
  BY <1>4, <1>5, <1>6, <1>7, <1>8, SafeFrame DEF IInv

\* A step of the proposer of node n.
LEMMA InvProposerStep ==
  ASSUME IInv, TypeOK', NEW n \in Nodes, Quiet,
         Sent("LearnValue")' = Sent("LearnValue"), log' = log,
         \A a \in Nodes \ {n} :
           /\ status'[a] = status[a]
           /\ lastProposalID'[a] = lastProposalID[a] /\ adopted'[a] = adopted[a]
           /\ value'[a] = value[a] /\ preparing'[a] = preparing[a]
           /\ accepting'[a] = accepting[a] /\ granted'[a] = granted[a],
         ProposerOK(n)', AcceptInv', SafeInv'
  PROVE  IInv'
<1>1. AcceptorInv' /\ PrepareReplyInv'
  BY QuietFrame
<1>2. \A a \in Nodes \ {n} : ProposerOK(a)'
  BY ProposerFrame DEF IInv, ProposerInv, Quiet
<1>3. LearnInv'
  BY LearnFrame DEF Quiet
<1> QED
  BY <1>1, <1>2, <1>3 DEF IInv, ProposerInv

\* Prepare and Accept send one message that is no answer, and start a round with
\* no replies counted.
LEMMA PrepareFacts ==
  ASSUME TypeOK, NEW n \in Nodes, Prepare(n)
  PROVE  /\ msgs \subseteq msgs'
         /\ \A t : t # "Prepare" => Sent(t)' = Sent(t)
         /\ lastProposalID'[n] # 0 /\ preparing'[n] /\ ~accepting'[n] /\ granted'[n] = {}
         /\ \A a \in Nodes \ {n} :
              /\ lastProposalID'[a] = lastProposalID[a] /\ preparing'[a] = preparing[a]
              /\ accepting'[a] = accepting[a] /\ granted'[a] = granted[a]
<1>1. msgs \subseteq msgs' /\ \A t : t # "Prepare" => Sent(t)' = Sent(t)
  BY SendOne DEF Prepare
<1>2. NextProposalID(n) # 0
  BY DEF NextProposalID, TypeOK
<1> QED
  BY <1>1, <1>2 DEF Prepare, ResetCounter, TypeOK

LEMMA AcceptFacts ==
  ASSUME TypeOK, NEW n \in Nodes, NEW v, Accept(n, v)
  PROVE  /\ msgs \subseteq msgs'
         /\ \A t : t # "Accept" => Sent(t)' = Sent(t)
         /\ \A b : b = Bal(lastProposalID[n], n) => AcceptSent(b, v)'
         /\ ~preparing'[n] /\ accepting'[n] /\ granted'[n] = {}
         /\ \A a \in Nodes \ {n} :
              /\ preparing'[a] = preparing[a]
              /\ accepting'[a] = accepting[a] /\ granted'[a] = granted[a]
<1> DEFINE x == [type |-> "Accept", node |-> n, proposal |-> lastProposalID[n], value |-> v]
<1>1. /\ msgs \subseteq msgs'
      /\ \A t : t # "Accept" => Sent(t)' = Sent(t)
      /\ Sent("Accept")' = Sent("Accept") \cup {x}
  BY SendOne DEF Accept
<1>2. ASSUME NEW b, b = Bal(lastProposalID[n], n) PROVE AcceptSent(b, v)'
  <2>1. PICK y : y = x
    OBVIOUS
  <2>2. y \in Sent("Accept")' /\ Bal(y.proposal, y.node) = b /\ y.value = v
    BY <1>1, <1>2, <2>1
  <2> QED
    BY <2>2 DEF AcceptSent
<1> QED
  BY <1>1, <1>2 DEF Accept, ResetCounter, TypeOK

LEMMA InvNewProposal ==
  ASSUME IInv, NEW n \in Nodes, NEW v \in Values, NewProposal(n, v)
  PROVE  IInv'
<1>1. TypeOK /\ TypeOK'
  BY TypeNewProposal DEF IInv
<1>2. /\ status[n] = "idle" /\ status'[n] = "active"
      /\ value'[n] = v /\ adopted'[n] = adopted[n] /\ log' = log
      /\ \A a \in Nodes \ {n} : /\ status'[a] = status[a] /\ value'[a] = value[a]
                                /\ adopted'[a] = adopted[a]
      /\ UNCHANGED acceptorVars
  BY <1>1 DEF NewProposal, TypeOK
<1>3. lastProposalID[n] = 0 /\ adopted[n] = ZeroBallot
  BY <1>2 DEF IInv, ProposerInv, ProposerOK
<1>4. CASE Prepare(n)
  <2>1. Quiet
    BY <1>1, <1>2, <1>4, PrepareFacts DEF Quiet
  <2>2. ProposerOK(n)'
    BY <1>1, <1>2, <1>3, <1>4, PrepareFacts DEF ProposerOK, Reported
  <2>3. AcceptInv' /\ SafeInv'
    BY <1>1, <1>4, <2>1, PrepareFacts, QuietStep, SafeFrame
  <2> QED
    BY <1>1, <1>2, <1>4, <2>1, <2>2, <2>3, PrepareFacts, InvProposerStep
<1>5. CASE n \in Leaders /\ Accept(n, v) /\ UNCHANGED lastProposalID
  <2>1. Quiet
    BY <1>1, <1>2, <1>5, AcceptFacts DEF Quiet
  <2>2. AcceptSent(Bal(0, n), v)'
    BY <1>1, <1>3, <1>5, AcceptFacts
  <2>3. ProposerOK(n)'
    BY <1>1, <1>2, <1>3, <1>5, <2>2, AcceptFacts DEF ProposerOK, Reported
  <2>4. Usable(Bal(lastProposalID[n], n)) /\ (SafeLeaders => SafeAt(v, Bal(lastProposalID[n], n)))
    BY <1>3, <1>5, SafeLeader DEF Usable, Bal
  <2>5. AcceptInv' /\ SafeInv'
    BY <1>1, <1>5, <2>1, <2>4, QuietStep, SafeSend
  <2> QED
    BY <1>1, <1>2, <1>5, <2>1, <2>3, <2>5, AcceptFacts, InvProposerStep
<1> QED
  BY <1>4, <1>5 DEF NewProposal

LEMMA InvTimeout ==
  ASSUME IInv, NEW n \in Nodes, Timeout(n)
  PROVE  IInv'
<1>1. TypeOK /\ TypeOK'
  BY TypeTimeout DEF IInv
<1>2. /\ Prepare(n) /\ status[n] = "active"
      /\ UNCHANGED <<nodeVars, acceptorVars, adopted, value, maxOther>>
  BY <1>1 DEF Timeout, OnPrepareTimeout, OnAcceptTimeout, TypeOK
<1>3. UNCHANGED <<status, log, adopted, value>> /\ UNCHANGED acceptorVars
  BY <1>2 DEF nodeVars
<1>4. Quiet
  BY <1>1, <1>2, <1>3, PrepareFacts DEF Quiet
<1>5. ProposerOK(n)'
  <2>1. Reported(adopted[n], value[n])'
    BY <1>1, <1>2, <1>3, PrepareFacts, Monotone
       DEF IInv, ProposerInv, ProposerOK, Reported, AcceptSent
  <2> QED
    BY <1>1, <1>2, <1>3, <2>1, PrepareFacts DEF ProposerOK
<1>6. AcceptInv' /\ SafeInv'
  BY <1>1, <1>2, <1>4, PrepareFacts, QuietStep, SafeFrame
<1> QED
  BY <1>1, <1>2, <1>3, <1>4, <1>5, <1>6, PrepareFacts, InvProposerStep

LEMMA InvOtherInstance ==
  ASSUME IInv, NEW n \in Nodes, OtherInstance(n)
  PROVE  IInv'
<1>1. TypeOK /\ TypeOK'
  BY TypeOtherInstance DEF IInv
<1>2. /\ UNCHANGED <<status, log, msgs, proposerVars>> /\ UNCHANGED acceptorVars
      /\ \A t : Sent(t)' = Sent(t)
  BY DEF OtherInstance, nodeVars, Sent
<1>3. Quiet
  BY <1>2 DEF Quiet
<1>4. ProposerOK(n)'
  BY <1>2, ProposerFrame DEF IInv, ProposerInv, proposerVars, roundVars
<1>5. AcceptInv' /\ SafeInv'
  BY <1>1, <1>2, <1>3, QuietStep, SafeFrame
<1> QED
  BY <1>1, <1>2, <1>3, <1>4, <1>5, InvProposerStep DEF proposerVars, roundVars

LEMMA InvOnPrepareReply ==
  ASSUME IInv, NEW n \in Nodes, NEW m \in Sent("PrepareReply"), OnPrepareReply(n, m)
  PROVE  IInv'
<1>1. TypeOK /\ TypeOK'
  BY TypeOnPrepareReply DEF IInv
<1>2. PICK B, v, G, p :
        /\ B = (IF Adopts(n, m) THEN m.ballot ELSE adopted[n])
        /\ v = (IF Adopts(n, m) THEN m.value ELSE value[n])
        /\ G = GrantedBy(n, m) /\ p = lastProposalID[n]
  OBVIOUS
<1>3. /\ m.to = n /\ m.proposal = p /\ preparing[n] /\ ~accepting[n]
      /\ status' = status /\ log' = log /\ UNCHANGED acceptorVars
      /\ lastProposalID' = lastProposalID /\ adopted'[n] = B /\ value'[n] = v
      /\ \A a \in Nodes \ {n} : value'[a] = value[a] /\ adopted'[a] = adopted[a]
      /\ p \in 0 .. MaxProposal /\ status[n] = "active"
  BY <1>1, <1>2 DEF OnPrepareReply, nodeVars, TypeOK
<1>4. m.ballot \in AllBallots /\ adopted[n] \in AllBallots /\ B \in AllBallots
  BY <1>1, <1>2, BallotOfMessage DEF TypeOK
<1>5. /\ p # 0 /\ \A a \in granted[n] : GrantKnown(n, a)
      /\ Reported(adopted[n], value[n])
  BY <1>2, <1>3 DEF IInv, ProposerInv, ProposerOK
<1>6. adopted[n] \preceq B /\ (~m.reject => m.ballot \preceq B)
  BY <1>2, <1>4, BallotOrder DEF Adopts
<1>7. Reported(B, v)
  BY <1>2, <1>5 DEF Adopts, IInv, PrepareReplyInv, PrepareReplyOK
<1>8. ASSUME NEW a \in G
      PROVE  \E x \in Sent("PrepareReply") :
               x.node = a /\ x.to = n /\ ~x.reject /\ x.proposal = p /\ x.ballot \preceq B
  <2>1. CASE a \in granted[n]
    <3>1. PICK x \in Sent("PrepareReply") :
            /\ x.node = a /\ x.to = n /\ ~x.reject /\ x.proposal = p
            /\ x.ballot \preceq adopted[n]
      BY <1>2, <1>5, <2>1 DEF GrantKnown
    <3>2. x.ballot \in AllBallots
      BY <1>1, BallotOfMessage
    <3>3. x.ballot \preceq B
      BY <1>4, <1>6, <3>1, <3>2, BallotOrder
    <3> QED
      BY <3>1, <3>3
  <2>2. CASE a \notin granted[n]
    <3>1. a = m.node /\ ~m.reject
      BY <1>2, <2>2 DEF GrantedBy
    <3> QED
      BY <1>3, <1>6, <3>1
  <2> QED
    BY <2>1, <2>2
<1>9. CASE AcceptReach(G)
  <2>1. Accept(n, v)
    BY <1>2, <1>9 DEF OnPrepareReply
  <2>2. Quiet
    BY <1>1, <1>3, <2>1, AcceptFacts DEF Quiet
  <2>3. ProposerOK(n)'
    <3>1. Reported(B, v)' /\ AcceptSent(Bal(p, n), v)'
      BY <1>1, <1>2, <1>7, <2>1, AcceptFacts, Monotone
    <3> QED
      BY <1>1, <1>2, <1>3, <2>1, <3>1, AcceptFacts DEF ProposerOK, Reported, AcceptSent
  <2>4. G \in Quorum
    BY <1>1, <1>2, <1>9, TypeReply DEF Quorum
  <2>5. Usable(Bal(p, n)) /\ (SafeLeaders => SafeAt(v, Bal(p, n)))
    BY <1>3, <1>4, <1>5, <1>7, <1>8, <2>4, SafeChoice DEF Usable, Bal
  <2>6. AcceptInv' /\ SafeInv'
    BY <1>1, <1>2, <2>1, <2>2, <2>5, QuietStep, SafeSend
  <2> QED
    BY <1>1, <1>3, <2>1, <2>2, <2>3, <2>6, AcceptFacts, InvProposerStep
<1>10. CASE ~AcceptReach(G)
  <2>1. CountReply(n, m) /\ UNCHANGED <<preparing, accepting, msgs>>
    BY <1>2, <1>10 DEF OnPrepareReply
  <2>2. granted'[n] = G /\ \A a \in Nodes \ {n} : granted'[a] = granted[a]
    BY <1>1, <1>2, <2>1 DEF CountReply, TypeOK
  <2>3. \A t : Sent(t)' = Sent(t)
    BY <2>1 DEF Sent
  <2>4. Quiet
    BY <1>3, <2>1, <2>3 DEF Quiet
  <2>5. ProposerOK(n)'
    <3>1. \A a \in G : GrantKnown(n, a)'
      BY <1>2, <1>3, <1>8, <2>3 DEF GrantKnown
    <3>2. Reported(B, v)'
      BY <1>7, <2>1, Monotone
    <3>3. Reported(adopted[n], value[n])'
      BY <1>3, <3>2 DEF Reported, AcceptSent
    <3> QED
      BY <1>2, <1>3, <1>5, <2>1, <2>2, <3>1, <3>3 DEF ProposerOK
  <2>6. AcceptInv' /\ SafeInv'
    BY <1>1, <2>3, <2>4, QuietStep, SafeFrame
  <2> QED
    BY <1>1, <1>3, <2>1, <2>2, <2>3, <2>4, <2>5, <2>6, InvProposerStep
<1> QED
  BY <1>9, <1>10

LEMMA InvOnAcceptReply ==
  ASSUME IInv, NEW n \in Nodes, NEW m \in Sent("AcceptReply"), OnAcceptReply(n, m)
  PROVE  IInv'
<1>1. TypeOK /\ TypeOK'
  BY TypeOnAcceptReply DEF IInv
<1>2. PICK G, b, v : G = GrantedBy(n, m) /\ b = Bal(lastProposalID[n], n) /\ v = value[n]
  OBVIOUS
<1>3. b \in AllBallots
  BY <1>1, <1>2, BallotTypes DEF TypeOK
<1>4. accepting[n] /\ ~preparing[n] /\ status[n] = "active" /\ Bal(m.proposal, m.to) = b
  BY <1>1, <1>2 DEF OnAcceptReply, TypeOK
<1>5. AcceptSent(b, v) /\ \A a \in granted[n] : VotedIn(a, b)
  BY <1>2, <1>4 DEF IInv, ProposerInv, ProposerOK
<1>6. \A a \in G : VotedIn(a, b)
  BY <1>2, <1>4, <1>5 DEF GrantedBy, VotedIn
<1>7. CASE AcceptReach(G)
  <2>1. PICK x : /\ DoneConsensus(n, v) /\ Send(x)
                 /\ x.type = "LearnValue" /\ x.value = v
    BY <1>2, <1>7 DEF OnAcceptReply
  <2>2. ChosenAt(b, v)
    BY <1>1, <1>2, <1>5, <1>6, <1>7, TypeReply DEF ChosenAt, Quorum
  <2>3. /\ msgs \subseteq msgs'
        /\ \A t : t # "LearnValue" => Sent(t)' = Sent(t)
        /\ \A y \in Sent("LearnValue")' : y \in Sent("LearnValue") \/ y.value = v
    BY <2>1, SendOne
  <2> QED
    BY <1>1, <1>3, <2>1, <2>2, <2>3, InvDoneConsensus
<1>8. CASE ~AcceptReach(G)
  <2>1. /\ CountReply(n, m) /\ UNCHANGED acceptorVars
        /\ UNCHANGED <<status, log, preparing, accepting, lastProposalID, adopted, value, msgs>>
    BY <1>2, <1>8 DEF OnAcceptReply, nodeVars
  <2>2. granted'[n] = G /\ \A a \in Nodes \ {n} : granted'[a] = granted[a]
    BY <1>1, <1>2, <2>1 DEF CountReply, TypeOK
  <2>3. \A t : Sent(t)' = Sent(t)
    BY <2>1 DEF Sent
  <2>4. Quiet
    BY <2>1, <2>3 DEF Quiet
  <2>5. ProposerOK(n)'
    <3>1. Reported(adopted[n], value[n])' /\ AcceptSent(Bal(lastProposalID[n], n), value[n])'
      BY <1>2, <1>5, <2>1, <2>3
         DEF IInv, ProposerInv, ProposerOK, Reported, AcceptSent
    <3>2. \A a \in G : VotedIn(a, Bal(lastProposalID[n], n))'
      BY <1>2, <1>6, <2>1, <2>3 DEF VotedIn
    <3> QED
      BY <1>4, <2>1, <2>2, <3>1, <3>2 DEF ProposerOK
  <2>6. AcceptInv' /\ SafeInv'
    BY <1>1, <2>3, <2>4, QuietStep, SafeFrame
  <2> QED
    BY <1>1, <2>1, <2>2, <2>3, <2>4, <2>5, <2>6, InvProposerStep
<1> QED
  BY <1>7, <1>8

LEMMA InvLearnFromOthers ==
  ASSUME IInv, NEW n \in Nodes, NEW m \in Sent("LearnValue"), LearnFromOthers(n, m)
  PROVE  IInv'
<1>1. TypeOK'
  BY TypeLearnFromOthers DEF IInv
<1>2. PICK d \in AllBallots : ChosenAt(d, m.value)
  BY DEF IInv, LearnInv
<1>3. DoneConsensus(n, m.value) /\ msgs' = msgs /\ \A t : Sent(t)' = Sent(t)
  BY DEF LearnFromOthers, Sent
<1> QED
  BY <1>1, <1>2, <1>3, InvDoneConsensus

LEMMA InvNext == IInv /\ [Next]_vars => IInv'
<1> SUFFICES ASSUME IInv, [Next]_vars PROVE IInv'
  OBVIOUS
<1>1. CASE Next
  BY <1>1, StepCases, InvNewProposal, InvOnPrepare, InvOnPrepareReply, InvOnAccept,
     InvOnAcceptReply, InvLearnFromOthers, InvTimeout, InvOtherInstance
<1>2. CASE UNCHANGED vars
  <2>1. TypeOK /\ TypeOK'
    BY TypeNext DEF IInv
  <2>2. UNCHANGED <<status, log, msgs, proposerVars>> /\ UNCHANGED acceptorVars
    BY <1>2 DEF vars, proposerVars, roundVars, acceptorVars
  <2>3. \A t : Sent(t)' = Sent(t)
    BY <2>2 DEF Sent
  <2>4. Quiet
    BY <2>2, <2>3 DEF Quiet
  <2>5. ProposerInv'
    BY <2>2, ProposerFrame DEF IInv, ProposerInv, proposerVars, roundVars
  <2> QED
    BY <2>1, <2>2, <2>3, <2>4, <2>5, QuietFrame, LearnFrame, QuietStep, SafeFrame DEF IInv
<1> QED
  BY <1>1, <1>2

\* IInv holds in every reachable state.
THEOREM Invariance == Spec => []IInv
BY InvInit, InvNext, PTL DEF Spec

(****************************************************************************)
(* What follows from it.                                                    *)
(****************************************************************************)
\* A granted PrepareReply excludes votes between the ballot it reports and the
\* ballot it grants, whatever the number of leaders and retries.
THEOREM PromisesHonoured == Spec => []PromiseHonoured
<1>1. IInv => PromiseHonoured
  <2> SUFFICES ASSUME IInv, NEW m \in Sent("PrepareReply"), NEW r \in Sent("AcceptReply"),
                      m.node = r.node, ~m.reject, ~r.reject,
                      m.ballot \prec Bal(r.proposal, r.to),
                      Bal(r.proposal, r.to) \prec Bal(m.proposal, m.to)
               PROVE  FALSE
    BY DEF PromiseHonoured
  <2>1. Bal(r.proposal, r.to) \in AllBallots
    BY BallotOfMessage DEF IInv
  <2>2. VotedIn(m.node, Bal(r.proposal, r.to))
    BY DEF VotedIn
  <2> QED
    BY <2>1, <2>2 DEF IInv, PrepareReplyInv, PrepareReplyOK, \preceq
<1> QED
  BY <1>1, Invariance, PTL

\* Two majorities share a node.
LEMMA QuorumsIntersect == \A P, Q \in Quorum : P \cap Q # {}
<1> SUFFICES ASSUME NEW P \in Quorum, NEW Q \in Quorum PROVE P \cap Q # {}
  OBVIOUS
<1>1. /\ IsFiniteSet(Nodes) /\ P \subseteq Nodes /\ Q \subseteq Nodes
      /\ Cardinality(P) >= Majority /\ Cardinality(Q) >= Majority
  BY NodesAssumption DEF Quorum, AcceptReach
<1>2. /\ Cardinality(Nodes) \in Nat /\ Cardinality(P) \in Nat /\ Cardinality(Q) \in Nat
  BY <1>1, FS_Subset, FS_CardinalityType
<1>3. Cardinality(P) + Cardinality(Q) > Cardinality(Nodes)
  BY <1>1, <1>2, MajorityAssumption
<1> QED
  BY <1>1, <1>3, FS_MajoritiesIntersect

\* Two values chosen in an instance are the same one.
LEMMA AgreementOfInv == IInv => ConditionalAgreement
<1>1. ASSUME IInv, SafeLeaders, OneValuePerBallot, NEW b \in AllBallots, NEW c \in AllBallots,
             NEW v, NEW w, ChosenAt(b, v), ChosenAt(c, w), b \preceq c
      PROVE  v = w
  <2>1. \A x, y, d : AcceptSent(d, x) /\ AcceptSent(d, y) => x = y
    BY <1>1 DEF OneValuePerBallot, AcceptSent, Bal
  <2>2. CASE b = c
    BY <1>1, <2>1, <2>2 DEF ChosenAt
  <2>3. CASE b \prec c
    <3>1. SafeAt(w, c) /\ Usable(b)
      BY <1>1 DEF IInv, SafeInv, AcceptInv, ChosenAt, AcceptSent
    <3>2. PICK P \in Quorum : \A a \in P :
            (VotedIn(a, b) /\ AcceptSent(b, w)) \/ WontVote(a, b)
      BY <2>3, <3>1 DEF SafeAt
    <3>3. PICK Q \in Quorum : \A a \in Q : VotedIn(a, b)
      BY <1>1 DEF ChosenAt
    <3>4. AcceptSent(b, w)
      BY <3>2, <3>3, QuorumsIntersect DEF WontVote
    <3> QED
      BY <1>1, <2>1, <3>4 DEF ChosenAt
  <2> QED
    BY <1>1, <2>2, <2>3, BallotOrder
<1> SUFFICES ASSUME IInv, SafeLeaders, OneValuePerBallot, NEW m \in Nodes, NEW n \in Nodes,
                    status[m] = "done", status[n] = "done"
             PROVE  log[m] = log[n]
  BY DEF ConditionalAgreement, Agreement
<1>2. PICK b \in AllBallots, c \in AllBallots : ChosenAt(b, log[m]) /\ ChosenAt(c, log[n])
  BY DEF IInv, LearnInv
<1> QED
  BY <1>1, <1>2, BallotOrder

\* The nodes agree on the value of the instance, as long as at most one of them
\* passes the leader test, not node 0, and no ballot carries two values.
THEOREM NodesAgree == Spec => []ConditionalAgreement
BY AgreementOfInv, Invariance, PTL
==============================================================================
