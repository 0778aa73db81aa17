------------------------------ MODULE Leadership ------------------------------
(****************************************************************************)
(* Who leads which instance: the part of every node's State that the leader *)
(* test of Proposer::NewProposal reads, over several instances.             *)
(*                                                                          *)
(* Each instance is one consensus among the values proposed in it           *)
(* (Consensus); ids are allocated as Group does.  PaxosInstance takes its   *)
(* outcome, who passes the test for one instance, as the constant Leaders.  *)
(****************************************************************************)
EXTENDS Integers, FiniteSets

CONSTANTS
    Nodes,
    NoNode,
    Outstanding,    \* how many proposals of a node's clients are open at a time
    MaxInstance     \* bound: largest instance id

ASSUME NodeAssumption == NoNode \notin Nodes
ASSUME NumberAssumption == Outstanding \in Nat /\ MaxInstance \in Nat

VARIABLES
    lastAccept,     \* uLastAcceptInstanceID
    lastReject,     \* uLastRejectInstanceID
    next,           \* _uMaxInstanceID
    open,           \* ids given to a client, whose proposer has not started
    started,        \* ids whose proposer has started
    finished,       \* those among them whose client was committed
    led,            \* pairs <<n, i>>: n sent Accept for i without a prepare phase
    chosen          \* chosen[i]: the node whose client's value was chosen

nodeState == <<lastAccept, lastReject>>
vars == <<nodeState, next, open, started, finished, led, chosen>>

Instance == 1 .. MaxInstance

Init ==
    /\ lastAccept = [n \in Nodes |-> 0]
    /\ lastReject = [n \in Nodes |-> 0]
    /\ next = [n \in Nodes |-> 1]
    /\ open = [n \in Nodes |-> {}]
    /\ started = [n \in Nodes |-> {}]
    /\ finished = [n \in Nodes |-> {}]
    /\ led = {}
    /\ chosen = [i \in Instance |-> NoNode]

\* Mutant: the id stays the next one.
ReuseID(n) ==
    /\ next[n] \in Instance
    /\ Cardinality(open[n]) + Cardinality(started[n] \ finished[n]) < Outstanding
    /\ open' = [open EXCEPT ![n] = @ \cup {next[n]}]
    /\ UNCHANGED <<nodeState, next, started, finished, led, chosen>>

\* The group gives the next id to a client's context.
IOLoopNewPropose(n) ==
    /\ next[n] \in Instance
    /\ Cardinality(open[n]) + Cardinality(started[n] \ finished[n]) < Outstanding
    /\ open' = [open EXCEPT ![n] = @ \cup {next[n]}]
    /\ next' = [next EXCEPT ![n] = @ + 1]
    /\ UNCHANGED <<nodeState, started, finished, led, chosen>>

\* A message for an id that the node has not used allocates an instance.
OnPaxosMessage(n, i) ==
    /\ next[n] <= i
    /\ \E m \in Nodes : i \in started[m]
    /\ next' = [next EXCEPT ![n] = i + 1]
    /\ UNCHANGED <<nodeState, open, started, finished, led, chosen>>

\* Mutant: a node that ever won leads.
LeadsOnceWon(n, i) == lastAccept[n] > 0 /\ lastReject[n] < i

LeaderTest(n, i) == lastAccept[n] > lastReject[n] /\ lastReject[n] < i

\* The instance's own thread, some time after the group's.
NewProposal(n, i) ==
    /\ i \in open[n]
    /\ open' = [open EXCEPT ![n] = @ \ {i}]
    /\ started' = [started EXCEPT ![n] = @ \cup {i}]
    /\ led' = led \cup (IF LeaderTest(n, i) THEN {<<n, i>>} ELSE {})
    /\ UNCHANGED <<nodeState, next, finished, chosen>>

\* What an instance promises: the value is one that was proposed in it.
Choose(i) ==
    /\ chosen[i] = NoNode
    /\ \E n \in Nodes : i \in started[n] /\ chosen' = [chosen EXCEPT ![i] = n]
    /\ UNCHANGED <<nodeState, next, open, started, finished, led>>

\* The end of Instance::IOLoopOnMessage.  Instances have threads of their own,
\* and end in any order.
DoneConsensus(n, i) ==
    /\ i \in started[n] \ finished[n]
    /\ chosen[i] # NoNode
    /\ finished' = [finished EXCEPT ![n] = @ \cup {i}]
    /\ IF chosen[i] = n
         THEN lastAccept' = [lastAccept EXCEPT ![n] = i] /\ UNCHANGED lastReject
         ELSE lastReject' = [lastReject EXCEPT ![n] = i] /\ UNCHANGED lastAccept
    /\ UNCHANGED <<next, open, started, led, chosen>>

Next ==
    \/ \E n \in Nodes : IOLoopNewPropose(n)
    \/ \E n \in Nodes, i \in Instance :
         OnPaxosMessage(n, i) \/ NewProposal(n, i) \/ DoneConsensus(n, i)
    \/ \E i \in Instance : Choose(i)

Spec == Init /\ [][Next]_vars

\* Type correctness.
TypeOK ==
    /\ lastAccept \in [Nodes -> 0 .. MaxInstance]
    /\ lastReject \in [Nodes -> 0 .. MaxInstance]
    /\ next \in [Nodes -> 1 .. MaxInstance + 1]
    /\ open \in [Nodes -> SUBSET Instance]
    /\ started \in [Nodes -> SUBSET Instance]
    /\ finished \in [Nodes -> SUBSET Instance]
    /\ led \subseteq Nodes \X Instance
    /\ chosen \in [Instance -> Nodes \cup {NoNode}]
    /\ \A n \in Nodes : /\ finished[n] \subseteq started[n]
                        /\ open[n] \cap started[n] = {}
                        /\ \A i \in open[n] \cup started[n] : i < next[n]

\* The instance with the highest id in which node n's client was answered chose
\* that client's value.
WonLast(n) == \E i \in finished[n] :
    chosen[i] = n /\ \A j \in finished[n] : j <= i

\* "Last instance commit success, this node become leader" (NewProposal): a node
\* that skips the prepare phase won the last instance it took part in.
LeaderWonLast == [][\A n \in Nodes, i \in Instance :
                      <<n, i>> \in led' \ led => WonLast(n)]_vars
==============================================================================
