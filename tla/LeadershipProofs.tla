--------------------------- MODULE LeadershipProofs ---------------------------
(****************************************************************************)
(* Theorems about Leadership: the types, and, for clients of a node that    *)
(* propose one after the other, that whoever skips the prepare phase won    *)
(* the last instance it took part in.                                       *)
(****************************************************************************)
EXTENDS Leadership, FiniteSetTheorems, TLAPS

\* The ids of node n's clients that have not been answered.
Unanswered(n) == open[n] \cup (started[n] \ finished[n])

\* With one proposal at a time, ids are answered in their order ...
Serial ==
    \A n \in Nodes :
        /\ \A i, j \in Unanswered(n) : i = j
        /\ \A i \in Unanswered(n), j \in finished[n] : j < i

\* ... so that the two ids that the leader test compares are the last one that
\* was won, and one that no lost one lies above.
LastInv ==
    \A n \in Nodes :
        /\ lastAccept[n] # 0 => lastAccept[n] \in finished[n] /\ chosen[lastAccept[n]] = n
        /\ \A j \in finished[n] : j <= lastAccept[n] \/ j <= lastReject[n]
        /\ \A j \in finished[n] : chosen[j] # NoNode

IInv == TypeOK /\ Serial /\ LastInv

(****************************************************************************)
(* The types.                                                               *)
(****************************************************************************)
LEMMA InitTypes == Init => TypeOK
BY NumberAssumption DEF Init, TypeOK, Instance

LEMMA NextTypes == TypeOK /\ [Next]_vars => TypeOK'
<1> SUFFICES ASSUME TypeOK, [Next]_vars PROVE TypeOK'
  OBVIOUS
<1>0. MaxInstance \in Nat /\ \A i \in Instance : i \in 1 .. MaxInstance /\ i \in 0 .. MaxInstance
  BY NumberAssumption DEF Instance
<1>1. ASSUME NEW n \in Nodes, IOLoopNewPropose(n) PROVE TypeOK'
  <2>1. /\ next[n] \in Instance
        /\ open' = [open EXCEPT ![n] = open[n] \cup {next[n]}]
        /\ next' = [next EXCEPT ![n] = next[n] + 1]
        /\ UNCHANGED <<lastAccept, lastReject, started, finished, led, chosen>>
    BY <1>1 DEF IOLoopNewPropose, nodeState
  <2>2. /\ open' \in [Nodes -> SUBSET Instance] /\ next' \in [Nodes -> 1 .. MaxInstance + 1]
        /\ \A m \in Nodes : m # n => open'[m] = open[m] /\ next'[m] = next[m]
        /\ open'[n] = open[n] \cup {next[n]} /\ next'[n] = next[n] + 1
    <3>1. next[n] + 1 \in 1 .. MaxInstance + 1
      BY <1>0, <2>1
    <3> QED BY <2>1, <3>1 DEF TypeOK
  <2>3. \A m \in Nodes : open'[m] \cap started[m] = {}
    <3>1. next[n] \notin started[n]
      BY <1>0, <2>1 DEF TypeOK
    <3> QED BY <2>2, <3>1 DEF TypeOK
  <2>4. \A m \in Nodes : \A i \in open'[m] \cup started[m] : i < next'[m]
    <3>1. \A i \in open[n] \cup started[n] : i < next[n] /\ i \in Int
      BY <1>0 DEF TypeOK
    <3>2. next[n] \in Int
      BY <1>0, <2>1
    <3>3. \A i \in open'[n] \cup started[n] : i < next[n] + 1
      BY <2>2, <3>1, <3>2
    <3> QED BY <2>2, <3>3 DEF TypeOK
  <2> QED BY <2>1, <2>2, <2>3, <2>4 DEF TypeOK
<1>2. ASSUME NEW n \in Nodes, NEW i \in Instance, OnPaxosMessage(n, i) PROVE TypeOK'
  <2>1. /\ next[n] <= i /\ next' = [next EXCEPT ![n] = i + 1]
        /\ UNCHANGED <<lastAccept, lastReject, open, started, finished, led, chosen>>
    BY <1>2 DEF OnPaxosMessage, nodeState
  <2>2. /\ next' \in [Nodes -> 1 .. MaxInstance + 1]
        /\ next'[n] = i + 1 /\ \A m \in Nodes : m # n => next'[m] = next[m]
    <3>1. i + 1 \in 1 .. MaxInstance + 1
      BY <1>0
    <3> QED BY <2>1, <3>1 DEF TypeOK
  <2>3. \A m \in Nodes : \A j \in open[m] \cup started[m] : j < next'[m]
    <3>1. \A j \in open[n] \cup started[n] : j < next[n] /\ j \in Int
      BY <1>0 DEF TypeOK
    <3>2. next[n] \in Int /\ i \in Int
      BY <1>0 DEF TypeOK
    <3>3. \A j \in open[n] \cup started[n] : j < i + 1
      BY <2>1, <3>1, <3>2
    <3> QED BY <2>2, <3>3 DEF TypeOK
  <2> QED BY <2>1, <2>2, <2>3 DEF TypeOK
<1>3. ASSUME NEW n \in Nodes, NEW i \in Instance, NewProposal(n, i) PROVE TypeOK'
  <2>1. /\ i \in open[n] /\ open' = [open EXCEPT ![n] = open[n] \ {i}]
        /\ started' = [started EXCEPT ![n] = started[n] \cup {i}]
        /\ led' \subseteq led \cup {<<n, i>>}
        /\ UNCHANGED <<lastAccept, lastReject, next, finished, chosen>>
    BY <1>3 DEF NewProposal, nodeState
  <2>2. /\ open' \in [Nodes -> SUBSET Instance] /\ started' \in [Nodes -> SUBSET Instance]
        /\ open'[n] = open[n] \ {i} /\ started'[n] = started[n] \cup {i}
        /\ \A m \in Nodes : m # n => open'[m] = open[m] /\ started'[m] = started[m]
    BY <2>1 DEF TypeOK
  <2>3. led' \subseteq Nodes \X Instance
    BY <2>1 DEF TypeOK
  <2>4. \A m \in Nodes : /\ finished[m] \subseteq started'[m]
                         /\ open'[m] \cap started'[m] = {}
                         /\ \A j \in open'[m] \cup started'[m] : j < next[m]
    BY <2>1, <2>2 DEF TypeOK
  <2> QED BY <2>1, <2>2, <2>3, <2>4 DEF TypeOK
<1>4. ASSUME NEW n \in Nodes, NEW i \in Instance, DoneConsensus(n, i) PROVE TypeOK'
  <2>1. /\ i \in started[n] /\ finished' = [finished EXCEPT ![n] = finished[n] \cup {i}]
        /\ \/ lastAccept' = [lastAccept EXCEPT ![n] = i] /\ UNCHANGED lastReject
           \/ lastReject' = [lastReject EXCEPT ![n] = i] /\ UNCHANGED lastAccept
        /\ UNCHANGED <<next, open, started, led, chosen>>
    BY <1>4 DEF DoneConsensus
  <2>2. /\ lastAccept' \in [Nodes -> 0 .. MaxInstance]
        /\ lastReject' \in [Nodes -> 0 .. MaxInstance]
    BY <1>0, <2>1 DEF TypeOK
  <2>3. /\ finished' \in [Nodes -> SUBSET Instance]
        /\ \A m \in Nodes : finished'[m] \subseteq started[m]
    BY <2>1 DEF TypeOK
  <2> QED BY <2>1, <2>2, <2>3 DEF TypeOK
<1>5. ASSUME NEW i \in Instance, Choose(i) PROVE TypeOK'
  BY <1>5 DEF Choose, TypeOK, nodeState
<1>6. CASE UNCHANGED vars
  BY <1>6 DEF vars, nodeState, TypeOK
<1> QED BY <1>1, <1>2, <1>3, <1>4, <1>5, <1>6 DEF Next

\* The types of the variables hold, and an id is given out once.
THEOREM Typing == Spec => []TypeOK
BY InitTypes, NextTypes, PTL DEF Spec

(****************************************************************************)
(* The leader test, for one open proposal at a time.                        *)
(****************************************************************************)
\* The group gives an id to a client only when no other is open.
LEMMA NoneUnanswered ==
  ASSUME TypeOK, Outstanding = 1, NEW n \in Nodes, IOLoopNewPropose(n)
  PROVE  Unanswered(n) = {}
<1>1. /\ open[n] \in SUBSET (1 .. MaxInstance)
      /\ started[n] \ finished[n] \in SUBSET (1 .. MaxInstance)
  BY DEF TypeOK, Instance
<1>2. IsFiniteSet(1 .. MaxInstance)
  BY NumberAssumption, FS_Interval
<1>3. /\ IsFiniteSet(open[n]) /\ Cardinality(open[n]) \in Nat
      /\ IsFiniteSet(started[n] \ finished[n]) /\ Cardinality(started[n] \ finished[n]) \in Nat
  BY <1>1, <1>2, FS_Subset, FS_CardinalityType
<1>4. Cardinality(open[n]) + Cardinality(started[n] \ finished[n]) < 1
  BY DEF IOLoopNewPropose
<1>5. Cardinality(open[n]) = 0 /\ Cardinality(started[n] \ finished[n]) = 0
  BY <1>3, <1>4
<1>6. open[n] = {} /\ started[n] \ finished[n] = {}
  BY <1>3, <1>5, FS_EmptySet
<1> QED BY <1>6 DEF Unanswered

LEMMA InitIInv == Init => IInv
BY InitTypes DEF Init, IInv, Serial, LastInv, Unanswered

LEMMA NextIInv ==
  ASSUME Outstanding = 1
  PROVE  IInv /\ [Next]_vars => IInv'
<1> SUFFICES ASSUME IInv, [Next]_vars PROVE IInv'
  OBVIOUS
<1>0. TypeOK /\ Serial /\ LastInv /\ TypeOK'
  BY NextTypes DEF IInv
<1>1. ASSUME NEW n \in Nodes, IOLoopNewPropose(n) PROVE IInv'
  <2>1. /\ next[n] \in Instance
        /\ open' = [open EXCEPT ![n] = open[n] \cup {next[n]}]
        /\ UNCHANGED <<lastAccept, lastReject, started, finished, chosen>>
    BY <1>1 DEF IOLoopNewPropose, nodeState
  <2>2. /\ Unanswered(n)' = {next[n]}
        /\ \A m \in Nodes : m # n => Unanswered(m)' = Unanswered(m)
    <3>1. Unanswered(n) = {}
      BY <1>0, <1>1, NoneUnanswered
    <3> QED BY <1>0, <2>1, <3>1 DEF Unanswered, TypeOK
  <2>3. \A j \in finished[n] : j < next[n]
    BY <1>0 DEF TypeOK
  <2>4. Serial'
    BY <1>0, <2>1, <2>2, <2>3 DEF Serial
  <2>5. LastInv'
    BY <1>0, <2>1 DEF LastInv
  <2> QED BY <1>0, <2>4, <2>5 DEF IInv
<1>2. ASSUME NEW n \in Nodes, NEW i \in Instance, OnPaxosMessage(n, i) PROVE IInv'
  <2>1. UNCHANGED <<lastAccept, lastReject, open, started, finished, chosen>>
    BY <1>2 DEF OnPaxosMessage, nodeState
  <2> QED BY <1>0, <2>1 DEF IInv, Serial, LastInv, Unanswered
<1>3. ASSUME NEW n \in Nodes, NEW i \in Instance, NewProposal(n, i) PROVE IInv'
  <2>1. /\ i \in open[n] /\ open' = [open EXCEPT ![n] = open[n] \ {i}]
        /\ started' = [started EXCEPT ![n] = started[n] \cup {i}]
        /\ UNCHANGED <<lastAccept, lastReject, finished, chosen>>
    BY <1>3 DEF NewProposal, nodeState
  <2>2. \A m \in Nodes : Unanswered(m)' = Unanswered(m)
    BY <1>0, <2>1 DEF Unanswered, TypeOK
  <2>3. Serial'
    BY <1>0, <2>1, <2>2 DEF Serial
  <2>4. LastInv'
    BY <1>0, <2>1 DEF LastInv
  <2> QED BY <1>0, <2>3, <2>4 DEF IInv
<1>4. ASSUME NEW n \in Nodes, NEW i \in Instance, DoneConsensus(n, i) PROVE IInv'
  <2>1. /\ i \in started[n] \ finished[n] /\ chosen[i] # NoNode
        /\ finished' = [finished EXCEPT ![n] = finished[n] \cup {i}]
        /\ IF chosen[i] = n
             THEN lastAccept' = [lastAccept EXCEPT ![n] = i] /\ UNCHANGED lastReject
             ELSE lastReject' = [lastReject EXCEPT ![n] = i] /\ UNCHANGED lastAccept
        /\ UNCHANGED <<open, started, chosen>>
    BY <1>4 DEF DoneConsensus
  <2>2. /\ finished'[n] = finished[n] \cup {i}
        /\ \A m \in Nodes : m # n => finished'[m] = finished[m]
    BY <1>0, <2>1 DEF TypeOK
  <2>3. i \in Unanswered(n) /\ i \in Int /\ \A j \in finished[n] : j < i /\ j \in Int
    BY <1>0, <2>1 DEF Serial, Unanswered, TypeOK, Instance
  <2>4. Unanswered(n)' = {}
    <3>1. \A j \in Unanswered(n) : j = i
      BY <1>0, <2>3 DEF Serial
    <3>2. i \notin open[n]
      BY <1>0, <2>1 DEF TypeOK
    <3> QED BY <2>1, <2>2, <3>1, <3>2 DEF Unanswered
  <2>5. \A m \in Nodes : m # n => Unanswered(m)' = Unanswered(m)
    BY <2>1, <2>2 DEF Unanswered
  <2>6. Serial'
    BY <1>0, <2>2, <2>4, <2>5 DEF Serial
  <2>7. LastInv'
    <3>1. \A m \in Nodes : m # n => lastAccept'[m] = lastAccept[m] /\ lastReject'[m] = lastReject[m]
      BY <1>0, <2>1 DEF TypeOK
    <3>2. \/ lastAccept'[n] = i /\ chosen[i] = n
          \/ lastReject'[n] = i /\ lastAccept'[n] = lastAccept[n]
      BY <1>0, <2>1 DEF TypeOK
    <3>3. /\ lastAccept'[n] # 0 => lastAccept'[n] \in finished'[n] /\ chosen[lastAccept'[n]] = n
          /\ \A j \in finished'[n] : j <= lastAccept'[n] \/ j <= lastReject'[n]
          /\ \A j \in finished'[n] : chosen[j] # NoNode
      BY <1>0, <2>1, <2>2, <2>3, <3>2 DEF LastInv
    <3> QED BY <1>0, <2>1, <2>2, <3>1, <3>3 DEF LastInv
  <2> QED BY <1>0, <2>6, <2>7 DEF IInv
<1>5. ASSUME NEW i \in Instance, Choose(i) PROVE IInv'
  <2>1. /\ chosen[i] = NoNode /\ \A j \in Instance : j # i => chosen'[j] = chosen[j]
        /\ UNCHANGED <<lastAccept, lastReject, open, started, finished>>
    BY <1>0, <1>5 DEF Choose, nodeState, TypeOK
  <2>2. \A n \in Nodes : \A j \in finished[n] : chosen'[j] = chosen[j]
    BY <1>0, <2>1 DEF LastInv, TypeOK
  <2>3. Serial'
    BY <1>0, <2>1 DEF Serial, Unanswered
  <2>4. LastInv'
    BY <1>0, <2>1, <2>2 DEF LastInv
  <2> QED BY <1>0, <2>3, <2>4 DEF IInv
<1>6. CASE UNCHANGED vars
  BY <1>0, <1>6 DEF vars, nodeState, IInv, Serial, LastInv, Unanswered
<1> QED BY <1>1, <1>2, <1>3, <1>4, <1>5, <1>6 DEF Next

\* A node whose clients propose one after the other leads only after it won the last
\* instance it took part in (the leader test of Proposer::NewProposal).  With more
\* proposals open at a time, a lower id may be answered last, and the test errs.
THEOREM SerialLeaderWonLast ==
  ASSUME Outstanding = 1
  PROVE  Spec => LeaderWonLast
<1> DEFINE Won == \A n \in Nodes, i \in Instance : <<n, i>> \in led' \ led => WonLast(n)
<1>1. IInv /\ [Next]_vars => [Won]_vars
  <2> SUFFICES ASSUME IInv, [Next]_vars, NEW n \in Nodes, NEW i \in Instance,
                      <<n, i>> \in led' \ led
               PROVE  WonLast(n)
    OBVIOUS
  <2>0. TypeOK /\ LastInv
    BY DEF IInv
  <2>1. PICK m \in Nodes, j \in Instance : NewProposal(m, j)
    BY DEF Next, vars, IOLoopNewPropose, OnPaxosMessage, DoneConsensus, Choose
  <2>2. LeaderTest(n, i)
    BY <2>1 DEF NewProposal
  <2>3. /\ lastAccept[n] \in Int /\ lastReject[n] \in Int /\ lastReject[n] >= 0
        /\ lastAccept[n] > lastReject[n] /\ \A k \in finished[n] : k \in Int
    BY <2>0, <2>2 DEF LeaderTest, TypeOK, Instance
  <2>4. lastAccept[n] \in finished[n] /\ chosen[lastAccept[n]] = n
    BY <2>0, <2>3 DEF LastInv
  <2>5. \A k \in finished[n] : k <= lastAccept[n]
    BY <2>0, <2>3 DEF LastInv
  <2> QED BY <2>4, <2>5 DEF WonLast
<1>2. IInv /\ [Next]_vars => IInv'
  BY NextIInv
<1> QED BY <1>1, <1>2, InitIInv, PTL DEF Spec, LeaderWonLast
================================================================================
