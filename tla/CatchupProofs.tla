----------------------------- MODULE CatchupProofs -----------------------------
(****************************************************************************)
(* Theorems about Catchup, for every value of its constants: whatever the   *)
(* network does, a node is asked only for ids that it has finished, and the *)
(* one entry that a lookup can miss is one that is just being written.      *)
(*                                                                          *)
(* AskedOnlyFinished is inductive with the types: a bound that was right    *)
(* when a message was sent stays right, since Min never decreases.          *)
(****************************************************************************)
EXTENDS Catchup, WellFoundedInduction, TLAPS

IInv == TypeOK /\ AskedOnlyFinished

(****************************************************************************)
(* _uMinInstanceID as a function of the finished ids.                       *)
(****************************************************************************)
First(S) == CHOOSE i \in 1 .. MaxInstance + 1 :
              i \notin S /\ \A j \in 1 .. i - 1 : j \in S

\* There is always a first id that has not finished.
LEMMA FirstFacts ==
  ASSUME NEW S \in SUBSET Ids
  PROVE  /\ First(S) \in 1 .. MaxInstance + 1 /\ First(S) \notin S
         /\ \A j \in 1 .. First(S) - 1 : j \in S
<1> DEFINE T == {i \in 1 .. MaxInstance + 1 : i \notin S}
<1>1. MaxInstance \in Nat
  BY WindowAssumption
<1>2. T \subseteq Nat /\ MaxInstance + 1 \in T
  BY <1>1 DEF Ids
<1>3. PICK x \in T : \A y \in T : ~(<<y, x>> \in OpToRel(<, Nat))
  <2> HIDE DEF T
  <2> QED BY <1>2, NatLessThanWellFounded, WFMin
<1>4. \A y \in T : ~(y < x)
  BY <1>2, <1>3 DEF OpToRel
<1>5. \A j \in 1 .. x - 1 : j \in S
  <2>1. SUFFICES ASSUME NEW j \in 1 .. x - 1, j \notin S PROVE FALSE
    OBVIOUS
  <2>2. x \in 1 .. MaxInstance + 1
    OBVIOUS
  <2>3. j \in 1 .. MaxInstance + 1 /\ j < x
    BY <1>1, <2>2
  <2> QED BY <1>4, <2>1, <2>3
<1>6. \E i \in 1 .. MaxInstance + 1 : i \notin S /\ \A j \in 1 .. i - 1 : j \in S
  BY <1>5
<1> QED BY <1>6 DEF First

\* It never goes back while more ids finish.
LEMMA FirstGrows ==
  ASSUME NEW S \in SUBSET Ids, NEW T \in SUBSET Ids, S \subseteq T
  PROVE  First(S) <= First(T)
<1>1. /\ First(S) \in 1 .. MaxInstance + 1 /\ \A j \in 1 .. First(S) - 1 : j \in S
      /\ First(T) \in 1 .. MaxInstance + 1 /\ First(T) \notin T
  BY FirstFacts
<1>2. MaxInstance \in Nat
  BY WindowAssumption
<1>3. ASSUME First(T) < First(S) PROVE FALSE
  <2>1. First(T) \in 1 .. First(S) - 1
    BY <1>1, <1>2, <1>3
  <2> QED BY <1>1, <2>1
<1> QED BY <1>1, <1>2, <1>3

LEMMA MinFacts ==
  ASSUME TypeOK, NEW n \in Nodes
  PROVE  /\ Min(n) = First(finished[n])
         /\ Min(n) \in 1 .. MaxInstance + 1
         /\ \A i \in Ids : i < Min(n) => i \in finished[n]
<1>1. finished[n] \in SUBSET Ids /\ MaxInstance \in Nat
  BY WindowAssumption DEF TypeOK
<1>2. Min(n) = First(finished[n])
  BY DEF Min, First
<1>3. \A i \in Ids : i < Min(n) => i \in 1 .. Min(n) - 1
  BY <1>1, <1>2, FirstFacts DEF Ids
<1> QED BY <1>1, <1>2, <1>3, FirstFacts

(****************************************************************************)
(* The messages.                                                            *)
(****************************************************************************)
LEMMA MessageTypes ==
  ASSUME NEW m \in NetMessages
  PROVE  /\ m.from \in Nodes /\ m.to \in Nodes /\ m.from # m.to
         /\ m.type = "Probe" => m.from \in Probing
         /\ m.type = "ProbeReply" => m.to \in Probing /\ m.id \in 1 .. MaxInstance + 1
         /\ m.type = "Lookup" => m.from \in Probing /\ m.id \in Ids
         /\ m.type = "LearnValue" => m.to \in Probing /\ m.id \in Ids
<1>1. \A p \in Exchanges : p[1] \in Probing /\ p[1] \in Nodes /\ p[2] \in Nodes /\ p[1] # p[2]
  BY RestrictionAssumption DEF Exchanges
<1>2. ASSUME NEW p \in Exchanges, m = Probe(p[1], p[2])
      PROVE  m.from = p[1] /\ m.to = p[2] /\ m.type = "Probe"
  BY <1>2 DEF Probe
<1>3. ASSUME NEW p \in Exchanges, NEW i \in 1 .. MaxInstance + 1, m = ProbeReply(p[2], p[1], i)
      PROVE  m.from = p[2] /\ m.to = p[1] /\ m.type = "ProbeReply" /\ m.id = i
  BY <1>3 DEF ProbeReply
<1>4. ASSUME NEW p \in Exchanges, NEW i \in Ids, m = Lookup(p[1], p[2], i)
      PROVE  m.from = p[1] /\ m.to = p[2] /\ m.type = "Lookup" /\ m.id = i
  BY <1>4 DEF Lookup
<1>5. ASSUME NEW p \in Exchanges, NEW i \in Ids, m = LearnValue(p[2], p[1], i)
      PROVE  m.from = p[2] /\ m.to = p[1] /\ m.type = "LearnValue" /\ m.id = i
  BY <1>5 DEF LearnValue
<1>6. \/ \E p \in Exchanges : m = Probe(p[1], p[2])
      \/ \E p \in Exchanges, i \in 1 .. MaxInstance + 1 : m = ProbeReply(p[2], p[1], i)
      \/ \E p \in Exchanges, i \in Ids : m = Lookup(p[1], p[2], i)
      \/ \E p \in Exchanges, i \in Ids : m = LearnValue(p[2], p[1], i)
  BY DEF NetMessages
<1>7. CASE \E p \in Exchanges : m = Probe(p[1], p[2])
  BY <1>1, <1>2, <1>7
<1>8. CASE \E p \in Exchanges, i \in 1 .. MaxInstance + 1 : m = ProbeReply(p[2], p[1], i)
  BY <1>1, <1>3, <1>8
<1>9. CASE \E p \in Exchanges, i \in Ids : m = Lookup(p[1], p[2], i)
  BY <1>1, <1>4, <1>9
<1>10. CASE \E p \in Exchanges, i \in Ids : m = LearnValue(p[2], p[1], i)
  BY <1>1, <1>5, <1>10
<1> QED BY <1>6, <1>7, <1>8, <1>9, <1>10

LEMMA MessageMembers ==
  ASSUME NEW p \in Probing, NEW q \in Nodes, p # q
  PROVE  /\ Probe(p, q) \in NetMessages
         /\ \A i \in 1 .. MaxInstance + 1 : ProbeReply(q, p, i) \in NetMessages
         /\ \A i \in Ids : Lookup(p, q, i) \in NetMessages
         /\ \A i \in Ids : LearnValue(q, p, i) \in NetMessages
<1>1. <<p, q>> \in Exchanges /\ <<p, q>>[1] = p /\ <<p, q>>[2] = q
  BY DEF Exchanges
<1> QED BY <1>1 DEF NetMessages

\* Add sends nothing but what it is given.
LEMMA AddFacts ==
  ASSUME NEW m \in net, NEW rest \in Remaining(m), NEW ms, Add(rest, ms)
  PROVE  net' \subseteq net \cup ms
BY DEF Add, Remaining

(****************************************************************************)
(* What a message says of the state, and how both change.                   *)
(****************************************************************************)
\* AskedOnlyFinished, of one message.
Asked(m) ==
    /\ m.type = "ProbeReply" => m.id <= Min(m.from)
    /\ m.type = "Lookup" => m.id < Min(m.to)
    /\ m.type = "LearnValue" => m.id \in Logged(m.from)

\* Finished ids and log entries only grow, and messages of good types that say
\* what is true may be sent.
LEMMA GrowingStep ==
  ASSUME IInv, TypeOK',
         \A n \in Nodes : finished[n] \subseteq finished'[n] /\ Logged(n) \subseteq Logged(n)',
         \A m \in net' : m \in net \/ Asked(m)
  PROVE  IInv'
<1>1. TypeOK /\ AskedOnlyFinished /\ MaxInstance \in Nat
  BY WindowAssumption DEF IInv
<1>2. ASSUME NEW n \in Nodes PROVE Min(n) <= Min(n)' /\ Min(n) \in Int /\ Min(n)' \in Int
  <2>1. finished[n] \in SUBSET Ids /\ finished'[n] \in SUBSET Ids
    BY <1>1 DEF TypeOK
  <2>2. Min(n) = First(finished[n]) /\ Min(n)' = First(finished'[n])
    BY DEF Min, First
  <2> QED BY <1>1, <2>1, <2>2, FirstFacts, FirstGrows
<1>3. ASSUME NEW m \in net'
      PROVE  /\ m.type = "ProbeReply" => m.id <= Min(m.from)'
             /\ m.type = "Lookup" => m.id < Min(m.to)'
             /\ m.type = "LearnValue" => m.id \in Logged(m.from)'
  <2>1. Asked(m)
    BY <1>1 DEF AskedOnlyFinished, Asked
  <2>2. m \in NetMessages
    BY DEF TypeOK
  <2>3. /\ m.from \in Nodes /\ m.to \in Nodes
        /\ m.type \in {"ProbeReply", "Lookup"} => m.id \in Int
    BY <1>1, <2>2, MessageTypes DEF Ids
  <2>4. m.type = "ProbeReply" => m.id <= Min(m.from)'
    BY <1>2, <2>1, <2>3 DEF Asked
  <2>5. m.type = "Lookup" => m.id < Min(m.to)'
    BY <1>2, <2>1, <2>3 DEF Asked
  <2>6. m.type = "LearnValue" => m.id \in Logged(m.from)'
    BY <2>1, <2>3 DEF Asked
  <2> QED BY <2>4, <2>5, <2>6
<1>4. AskedOnlyFinished'
  BY <1>3 DEF AskedOnlyFinished
<1> QED BY <1>4 DEF IInv

(****************************************************************************)
(* One lemma per kind of step.                                              *)
(****************************************************************************)
LEMMA InitIInv == Init => IInv
BY WindowAssumption DEF Init, IInv, TypeOK, AskedOnlyFinished

\* What a step of the instances leaves as it was, or brings further.
LEMMA EndStep ==
  ASSUME IInv, NEW n \in Nodes, NEW i \in Ids, NEW s \in {"reached", "queued", "logged"},
         end' = [end EXCEPT ![n][i] = s],
         s \in {"queued", "logged"} \/ end[n][i] = "open",
         s = "logged" \/ end[n][i] # "logged",
         retry' \in [Nodes -> SUBSET Ids], UNCHANGED <<finished, oversleeps, connected, alive>>,
         net' \subseteq net
  PROVE  IInv'
<1>1. TypeOK
  BY DEF IInv
<1>2. end' \in [Nodes -> [Ids -> {"open", "reached", "queued", "logged"}]]
  BY <1>1 DEF TypeOK
<1>3. \A m \in Nodes, j \in Ids :
        end'[m][j] = IF m = n /\ j = i THEN s ELSE end[m][j]
  BY <1>1 DEF TypeOK
<1>4. \A m \in Nodes, j \in Ids : j \in finished[m] => end'[m][j] \in {"queued", "logged"}
  BY <1>1, <1>3 DEF TypeOK
<1>5. TypeOK'
  BY <1>1, <1>2, <1>4 DEF TypeOK
<1>6. \A m \in Nodes : finished[m] \subseteq finished'[m] /\ Logged(m) \subseteq Logged(m)'
  BY <1>3 DEF Logged
<1> QED BY <1>5, <1>6, GrowingStep

\* What a step of the syncer or the network leaves as it was.
LEMMA NetStep ==
  ASSUME IInv, UNCHANGED endVars, oversleeps' \subseteq oversleeps,
         connected' \in [Nodes -> BOOLEAN], alive' \in [Nodes -> BOOLEAN],
         NEW ms \in SUBSET NetMessages, net' \subseteq net \cup ms, \A m \in ms : Asked(m)
  PROVE  IInv'
<1>1. TypeOK /\ UNCHANGED <<end, finished, retry>>
  BY DEF IInv, endVars
<1>2. TypeOK'
  BY <1>1 DEF TypeOK
<1>3. \A n \in Nodes : finished[n] \subseteq finished'[n] /\ Logged(n) \subseteq Logged(n)'
  BY <1>1 DEF Logged
<1> QED BY <1>2, <1>3, GrowingStep

LEMMA InstanceStepIInv ==
  ASSUME IInv, NEW n \in Nodes, InstanceStep(n)
  PROVE  IInv'
<1>1. TypeOK /\ retry \in [Nodes -> SUBSET Ids]
  BY DEF IInv, TypeOK
<1>2. PICK i \in Ids : ReachConsensus(n, i) \/ QueueInternal(n, i) \/ SetConsensusResult(n, i)
  BY DEF InstanceStep
<1>3. UNCHANGED <<finished, retry, oversleeps, net, connected, alive>>
  BY <1>2 DEF ReachConsensus, QueueInternal, SetConsensusResult, syncerVars, networkVars
<1>4. CASE ReachConsensus(n, i)
  <2>1. end[n][i] = "open" /\ end' = [end EXCEPT ![n][i] = "reached"]
    BY <1>4 DEF ReachConsensus
  <2> QED BY <1>1, <1>3, <2>1, EndStep
<1>5. CASE QueueInternal(n, i)
  <2>1. end[n][i] = "reached" /\ end' = [end EXCEPT ![n][i] = "queued"]
    BY <1>5 DEF QueueInternal
  <2> QED BY <1>1, <1>3, <2>1, EndStep
<1>6. CASE SetConsensusResult(n, i)
  <2>1. end' = [end EXCEPT ![n][i] = "logged"]
    BY <1>6 DEF SetConsensusResult
  <2> QED BY <1>1, <1>3, <2>1, EndStep
<1> QED BY <1>2, <1>4, <1>5, <1>6

\* LearnFromOthers: the id reaches consensus, or it has already.
LEMMA LearnStep ==
  ASSUME IInv, NEW n \in Nodes, NEW i \in Ids, LearnFromOthers(n, i),
         retry' \in [Nodes -> SUBSET Ids], UNCHANGED <<finished, oversleeps, connected, alive>>,
         net' \subseteq net
  PROVE  IInv'
<1>1. TypeOK
  BY DEF IInv
<1>2. CASE end[n][i] = "open"
  <2>1. end' = [end EXCEPT ![n][i] = "reached"]
    BY <1>2 DEF LearnFromOthers
  <2> QED BY <1>2, <2>1, EndStep
<1>3. CASE end[n][i] # "open"
  <2>1. end' = end
    BY <1>1, <1>3 DEF LearnFromOthers, TypeOK
  <2>2. TypeOK'
    BY <1>1, <2>1 DEF TypeOK
  <2>3. \A m \in Nodes : finished[m] \subseteq finished'[m] /\ Logged(m) \subseteq Logged(m)'
    BY <2>1 DEF Logged
  <2> QED BY <2>2, <2>3, GrowingStep
<1> QED BY <1>2, <1>3

LEMMA GroupStepIInv ==
  ASSUME IInv, NEW n \in Nodes, GroupStep(n)
  PROVE  IInv'
<1>1. TypeOK
  BY DEF IInv
<1>2. ASSUME NEW i \in Ids, OnInternalMessage(n, i) PROVE IInv'
  <2>1. /\ i \in Internals(n) /\ finished' = [finished EXCEPT ![n] = finished[n] \cup {i}]
        /\ UNCHANGED <<end, retry, oversleeps, net, connected, alive>>
    BY <1>2 DEF OnInternalMessage, syncerVars, networkVars
  <2>2. end[n][i] \in {"queued", "logged"}
    BY <2>1 DEF Internals
  <2>3. /\ finished' \in [Nodes -> SUBSET Ids]
        /\ \A m \in Nodes : finished'[m] = IF m = n THEN finished[n] \cup {i} ELSE finished[m]
    BY <1>1, <2>1 DEF TypeOK
  <2>4. TypeOK'
    BY <1>1, <2>1, <2>2, <2>3 DEF TypeOK
  <2>5. \A m \in Nodes : finished[m] \subseteq finished'[m] /\ Logged(m) \subseteq Logged(m)'
    BY <2>1, <2>3 DEF Logged
  <2> QED BY <2>1, <2>4, <2>5, GrowingStep
<1>3. ASSUME NEW i \in Ids, DealWithRetry(n, i) PROVE IInv'
  <2>1. /\ LearnFromOthers(n, i) /\ retry' = [retry EXCEPT ![n] = retry[n] \ {i}]
        /\ UNCHANGED <<finished, oversleeps, net, connected, alive>>
    BY <1>3 DEF DealWithRetry, syncerVars, networkVars
  <2>2. retry' \in [Nodes -> SUBSET Ids]
    BY <1>1, <2>1 DEF TypeOK
  <2> QED BY <2>1, <2>2, LearnStep
<1> QED BY <1>2, <1>3 DEF GroupStep

LEMMA SyncerTimerIInv ==
  ASSUME IInv, NEW n \in Nodes, SyncerTimer(n)
  PROVE  IInv'
<1>1. /\ TypeOK /\ connected \in [Nodes -> BOOLEAN] /\ alive \in [Nodes -> BOOLEAN]
  BY DEF IInv, TypeOK
<1>2. CASE IOLoopOnTimeout(n)
  <2> DEFINE ms == {Probe(n, m) : m \in Nodes \ {n}}
  <2>1. /\ n \in Probing /\ Add(net, ms)
        /\ UNCHANGED <<endVars, oversleeps, connected, alive>>
    BY <1>2 DEF IOLoopOnTimeout, syncerVars
  <2>2. ms \in SUBSET NetMessages
    BY <2>1, MessageMembers
  <2>3. \A m \in ms : Asked(m)
    <3>1. \A q \in Nodes : Probe(n, q).type = "Probe"
      BY DEF Probe
    <3> QED BY <3>1 DEF Asked
  <2>4. net' \subseteq net \cup ms
    BY <2>1 DEF Add
  <2> QED BY <1>1, <2>1, <2>2, <2>3, <2>4, NetStep
<1>3. CASE WaitTimesOut(n)
  <2>1. UNCHANGED <<endVars, net, connected, alive>> /\ oversleeps' \subseteq oversleeps
    BY <1>3 DEF WaitTimesOut, networkVars
  <2>2. {} \in SUBSET NetMessages /\ net' \subseteq net \cup {} /\ \A m \in {} : Asked(m)
    BY <2>1
  <2> QED BY <1>1, <2>1, <2>2, NetStep
<1> QED BY <1>2, <1>3 DEF SyncerTimer

LEMMA DeliverIInv ==
  ASSUME IInv, NEW m \in net, Deliver(m)
  PROVE  IInv'
<1>1. /\ TypeOK /\ connected \in [Nodes -> BOOLEAN] /\ alive \in [Nodes -> BOOLEAN]
      /\ MaxInstance \in Nat
  BY WindowAssumption DEF IInv, TypeOK
<1>2. m \in NetMessages
  BY <1>1 DEF TypeOK
<1>3. m.from \in Nodes /\ m.to \in Nodes /\ m.from # m.to
  BY <1>2, MessageTypes
<1>4. Asked(m)
  BY DEF IInv, AskedOnlyFinished, Asked
<1>5. CASE OnProbeMessage(m)
  <2> DEFINE r == ProbeReply(m.to, m.from, Min(m.to))
  <2>1. m.type = "Probe" /\ UNCHANGED <<endVars, oversleeps, connected, alive>>
    BY <1>5 DEF OnProbeMessage, syncerVars
  <2>2. PICK rest \in Remaining(m) : Add(rest, {r})
    BY <1>5 DEF OnProbeMessage
  <2>3. m.from \in Probing /\ Min(m.to) \in 1 .. MaxInstance + 1
    BY <1>1, <1>2, <1>3, <2>1, MessageTypes, MinFacts
  <2>4. {r} \in SUBSET NetMessages
    BY <1>3, <2>3, MessageMembers
  <2>5. r.type = "ProbeReply" /\ r.id = Min(m.to) /\ r.from = m.to
    BY DEF ProbeReply
  <2>6. Asked(r)
    BY <2>3, <2>5 DEF Asked
  <2> HIDE DEF r
  <2>7. net' \subseteq net \cup {r}
    BY <2>2, AddFacts
  <2>8. \A a \in {r} : Asked(a)
    BY <2>6
  <2> QED BY <1>1, <2>1, <2>4, <2>7, <2>8, NetStep
<1>6. CASE OnProbeReply(m)
  <2> DEFINE ms == {Lookup(m.to, m.from, i) : i \in Missing(m.to, m.id)}
  <2>1. /\ m.type = "ProbeReply" /\ UNCHANGED <<endVars, connected, alive>>
        /\ oversleeps' \subseteq oversleeps
    BY <1>6 DEF OnProbeReply, TakesTask
  <2>2. PICK rest \in Remaining(m) : Add(rest, ms)
    BY <1>6 DEF OnProbeReply
  <2>3. m.to \in Probing /\ m.id \in Int /\ m.id <= Min(m.from) /\ Min(m.from) \in Int
    BY <1>1, <1>2, <1>3, <1>4, <2>1, MessageTypes, MinFacts DEF Asked
  <2>4. \A i \in Missing(m.to, m.id) : i \in Ids /\ i < Min(m.from)
    BY <2>3 DEF Missing, Ids
  <2>5. ms \in SUBSET NetMessages
    BY <1>3, <2>3, <2>4, MessageMembers
  <2>6. \A a \in ms : Asked(a)
    <3>1. SUFFICES ASSUME NEW i \in Missing(m.to, m.id) PROVE Asked(Lookup(m.to, m.from, i))
      OBVIOUS
    <3>2. /\ Lookup(m.to, m.from, i).type = "Lookup" /\ Lookup(m.to, m.from, i).id = i
          /\ Lookup(m.to, m.from, i).to = m.from
      BY DEF Lookup
    <3> QED BY <2>4, <3>2 DEF Asked
  <2> HIDE DEF ms
  <2>7. net' \subseteq net \cup ms
    BY <2>2, AddFacts
  <2> QED BY <1>1, <2>1, <2>5, <2>6, <2>7, NetStep
<1>7. CASE OnSendUpdate(m)
  <2> DEFINE r == LearnValue(m.to, m.from, m.id)
  <2>1. /\ m.type = "Lookup" /\ UNCHANGED <<endVars, connected>>
        /\ oversleeps' \subseteq oversleeps
    BY <1>7 DEF OnSendUpdate, TakesTask
  <2>2. PICK rest \in Remaining(m) :
          \/ m.id \in Logged(m.to) /\ Add(rest, {r}) /\ UNCHANGED alive
          \/ alive' = [alive EXCEPT ![m.to] = FALSE] /\ net' = rest
    BY <1>7 DEF OnSendUpdate
  <2>3. m.from \in Probing /\ m.id \in Ids
    BY <1>2, <2>1, MessageTypes
  <2>4. alive' \in [Nodes -> BOOLEAN]
    BY <1>1, <2>2
  <2>5. CASE m.id \in Logged(m.to) /\ Add(rest, {r})
    <3>1. {r} \in SUBSET NetMessages
      BY <1>3, <2>3, MessageMembers
    <3>2. r.type = "LearnValue" /\ r.id = m.id /\ r.from = m.to
      BY DEF LearnValue
    <3>3. \A a \in {r} : Asked(a)
      BY <2>5, <3>2 DEF Asked
    <3> HIDE DEF r
    <3>4. net' \subseteq net \cup {r}
      BY <2>5, AddFacts
    <3> QED BY <1>1, <2>1, <2>4, <3>1, <3>3, <3>4, NetStep
  <2>6. CASE net' = rest
    <3>1. {} \in SUBSET NetMessages /\ net' \subseteq net \cup {} /\ \A a \in {} : Asked(a)
      BY <2>6 DEF Remaining
    <3> QED BY <1>1, <2>1, <2>4, <3>1, NetStep
  <2> QED BY <2>2, <2>5, <2>6
<1>8. CASE OnLearnValue(m)
  <2>1. /\ m.type = "LearnValue" /\ OnPaxosMessage(m.to, m.id) /\ net' \in Remaining(m)
        /\ UNCHANGED <<finished, oversleeps, connected, alive>>
    BY <1>8 DEF OnLearnValue, syncerVars
  <2>2. m.id \in Ids /\ net' \subseteq net
    BY <1>2, <2>1, MessageTypes DEF Remaining
  <2>3. CASE LearnFromOthers(m.to, m.id) /\ UNCHANGED retry
    <3>1. retry' \in [Nodes -> SUBSET Ids]
      BY <1>1, <2>3 DEF TypeOK
    <3> QED BY <1>3, <2>1, <2>2, <2>3, <3>1, LearnStep
  <2>4. CASE retry' = [retry EXCEPT ![m.to] = retry[m.to] \cup {m.id}] /\ UNCHANGED end
    <3>1. TypeOK'
      BY <1>1, <2>1, <2>2, <2>4 DEF TypeOK
    <3>2. \A n \in Nodes : finished[n] \subseteq finished'[n] /\ Logged(n) \subseteq Logged(n)'
      BY <2>1, <2>4 DEF Logged
    <3> QED BY <2>2, <3>1, <3>2, GrowingStep
  <2> QED BY <2>1, <2>3, <2>4 DEF OnPaxosMessage
<1> QED BY <1>5, <1>6, <1>7, <1>8 DEF Deliver

LEMMA NextIInv == IInv /\ [Next]_vars => IInv'
<1> SUFFICES ASSUME IInv, [Next]_vars PROVE IInv'
  OBVIOUS
<1>0. /\ TypeOK /\ connected \in [Nodes -> BOOLEAN] /\ alive \in [Nodes -> BOOLEAN]
  BY DEF IInv, TypeOK
<1>1. ASSUME NEW n \in Nodes, InstanceStep(n) \/ GroupStep(n) \/ SyncerTimer(n) PROVE IInv'
  BY <1>1, InstanceStepIInv, GroupStepIInv, SyncerTimerIInv
<1>2. ASSUME NEW m \in net, Deliver(m) PROVE IInv'
  BY <1>2, DeliverIInv
<1>3. ASSUME UNCHANGED <<endVars, oversleeps, alive>>, net' \subseteq net,
             connected' \in [Nodes -> BOOLEAN]
      PROVE  IInv'
  <2>1. {} \in SUBSET NetMessages /\ net' \subseteq net \cup {} /\ \A m \in {} : Asked(m)
    BY <1>3
  <2> QED BY <1>0, <1>3, <2>1, NetStep
<1>4. ASSUME NEW m \in net, Lose(m) PROVE IInv'
  BY <1>0, <1>3, <1>4 DEF Lose, syncerVars
<1>5. ASSUME NEW n \in Unplugged, Connect(n) \/ Disconnect(n) PROVE IInv'
  BY <1>0, <1>3, <1>5 DEF Connect, Disconnect, syncerVars
<1>6. CASE UNCHANGED vars
  BY <1>0, <1>3, <1>6 DEF vars, syncerVars, networkVars
<1> QED BY <1>1, <1>2, <1>4, <1>5, <1>6 DEF Next

LEMMA Invariance == Spec => []IInv
BY InitIInv, NextIInv, PTL DEF Spec

(****************************************************************************)
(* The theorems.                                                            *)
(****************************************************************************)
\* The types of the variables hold in every reachable state.
THEOREM Typing == Spec => []TypeOK
<1>1. IInv => TypeOK
  BY DEF IInv
<1> QED BY <1>1, Invariance, PTL

\* A node is only asked for ids that its group has finished, however late, often
\* or out of order the probe replies and lookups arrive.
THEOREM Promise == Spec => []AskedOnlyFinished
<1>1. IInv => AskedOnlyFinished
  BY DEF IInv
<1> QED BY <1>1, Invariance, PTL

\* The assertion of Syncer::OnSendUpdate fails for no entry but one that the
\* thread of a finished instance has still to write.
THEOREM GapIsOnlyFailure == Spec => FailsOnlyInGap
<1> DEFINE Dies == \A n \in Nodes : alive[n] /\ ~alive'[n] =>
                     \E i \in finished[n] : end[n][i] = "queued"
<1>1. IInv /\ [Next]_vars => [Dies]_vars
  <2> SUFFICES ASSUME IInv, [Next]_vars, NEW n \in Nodes, alive[n], ~alive'[n]
               PROVE  \E i \in finished[n] : end[n][i] = "queued"
    OBVIOUS
  <2>0. TypeOK /\ alive \in [Nodes -> BOOLEAN]
    BY DEF IInv, TypeOK
  <2>1. alive' # alive
    OBVIOUS
  <2>2. ASSUME NEW p \in Nodes, InstanceStep(p) \/ GroupStep(p) \/ SyncerTimer(p)
        PROVE  UNCHANGED alive
    BY <2>2 DEF InstanceStep, ReachConsensus, QueueInternal, SetConsensusResult, GroupStep,
                OnInternalMessage, DealWithRetry, SyncerTimer, IOLoopOnTimeout, WaitTimesOut
  <2>3. ASSUME NEW p \in Unplugged, Connect(p) \/ Disconnect(p)
        PROVE  UNCHANGED alive
    BY <2>3 DEF Connect, Disconnect
  <2>4. ASSUME NEW m \in net, OnProbeMessage(m) \/ OnProbeReply(m) \/ OnLearnValue(m) \/ Lose(m)
        PROVE  UNCHANGED alive
    BY <2>4 DEF OnProbeMessage, OnProbeReply, OnLearnValue, Lose
  <2>5. PICK m \in net : OnSendUpdate(m)
    BY <2>1, <2>2, <2>3, <2>4 DEF Next, Deliver, vars
  <2>6. /\ m.type = "Lookup" /\ m.id \notin Logged(m.to)
        /\ alive' = [alive EXCEPT ![m.to] = FALSE]
    BY <2>1, <2>5 DEF OnSendUpdate
  <2>7. m.to = n
    BY <2>0, <2>6
  <2>8. m.id \in Ids
    BY <2>0, <2>6, MessageTypes DEF TypeOK
  <2>9. m.id < Min(n)
    BY <2>6, <2>7 DEF IInv, AskedOnlyFinished
  <2>10. m.id \in finished[n]
    BY <2>0, <2>8, <2>9, MinFacts
  <2>11. end[n][m.id] = "queued"
    BY <2>0, <2>6, <2>7, <2>8, <2>10 DEF TypeOK, Logged
  <2> QED BY <2>10, <2>11
<1> QED BY <1>1, Invariance, PTL DEF Spec, FailsOnlyInGap
================================================================================
