-------------------------------- MODULE Catchup --------------------------------
(****************************************************************************)
(* How a node that missed messages gets the log entries of the others: the  *)
(* Syncer's probe, the group's reply with its _uMinInstanceID, the lookup   *)
(* of every missing id below it, and the LearnValue that answers a lookup,  *)
(* over a network that loses, duplicates and reorders messages and from     *)
(* which nodes are disconnected for a while.                                *)
(*                                                                          *)
(* The value of an entry does not matter here: all nodes log the same one   *)
(* (Consensus).                                                             *)
(****************************************************************************)
EXTENDS Integers

CONSTANTS
    Nodes,
    Window,         \* MAXINSTANCENUM
    Ends,           \* pairs <<n, i>>: the proposers and acceptors of id i may end it at n
    Probing,        \* nodes whose syncer probes
    Unplugged,      \* nodes that may be disconnected
    MaxInstance     \* bound: largest instance id

Ids == 1 .. MaxInstance

ASSUME WindowAssumption == Window \in Nat \ {0} /\ MaxInstance \in Nat
ASSUME RestrictionAssumption ==
    Ends \subseteq Nodes \X Ids /\ Probing \subseteq Nodes /\ Unplugged \subseteq Nodes

VARIABLES
    \* Instance and Log
    end,        \* end[n][i]: how far the thread of instance i is with its end; "logged":
                \* the entry is in Log::_oConsensusResult
    \* Group and GroupIOLoop
    finished,   \* ids below _uMinInstanceID and ids with a flag in _oDoneInstanceID
    retry,      \* ids of the LearnValue messages in GroupIOLoop::_oRetry
    \* SyncerIOLoop
    oversleeps, \* nodes whose syncer waits on a deadline it read before Run had set it
    \* QueueTransfer
    net,        \* messages in flight, in its queue and in those of the loops
    connected,  \* _oConnected
    alive       \* no assertion has ended the process

endVars == <<end, finished, retry>>
syncerVars == <<oversleeps>>
networkVars == <<net, connected>>
vars == <<endVars, syncerVars, networkVars, alive>>

Logged(n) == {i \in Ids : end[n][i] = "logged"}
EntryNotExist(n, i) == i \notin Logged(n)

\* _uMinInstanceID: UpdateMinMaxInstanceID shifts it past the finished ids.
Min(n) == CHOOSE i \in 1 .. MaxInstance + 1 :
            i \notin finished[n] /\ \A j \in 1 .. i - 1 : j \in finished[n]

\* The log is told of it at once.
ContinuousLogID(n) == Min(n)

InWindow(n, i) == i < Min(n) + Window

(****************************************************************************)
(* The network.                                                             *)
(****************************************************************************)
Probe(n, m)         == [type |-> "Probe", from |-> n, to |-> m, id |-> 0]
ProbeReply(n, m, i) == [type |-> "ProbeReply", from |-> n, to |-> m, id |-> i]
Lookup(n, m, i)     == [type |-> "Lookup", from |-> n, to |-> m, id |-> i]
LearnValue(n, m, i) == [type |-> "LearnValue", from |-> n, to |-> m, id |-> i]

\* QueueTransfer::Add looks at the connections when a message is sent, and not again
\* before it is delivered.
Add(rest, ms) ==
    net' = rest \cup {m \in ms : connected[m.from] /\ connected[m.to]}

\* What is left in flight when m is delivered: it may have been added once more.
Remaining(m) == {net \ {m}} \cup IF connected[m.from] /\ connected[m.to] THEN {net} ELSE {}

Lose(m) ==
    /\ net' = net \ {m}
    /\ UNCHANGED <<endVars, syncerVars, connected, alive>>

Disconnect(n) ==
    /\ connected' = [connected EXCEPT ![n] = FALSE]
    /\ UNCHANGED <<endVars, syncerVars, net, alive>>

Connect(n) ==
    /\ connected' = [connected EXCEPT ![n] = TRUE]
    /\ UNCHANGED <<endVars, syncerVars, net, alive>>

(****************************************************************************)
(* The end of an instance (as in Group, for every node).                    *)
(****************************************************************************)
\* A majority accepted, or its LearnValue came through.
ReachConsensus(n, i) ==
    /\ alive[n] /\ end[n][i] = "open" /\ InWindow(n, i)
    /\ <<n, i>> \in Ends
    /\ end' = [end EXCEPT ![n][i] = "reached"]
    /\ UNCHANGED <<finished, retry, syncerVars, networkVars, alive>>

\* InstanceDoneConsensus queues the internal message ...
QueueInternal(n, i) ==
    /\ alive[n] /\ end[n][i] = "reached"
    /\ end' = [end EXCEPT ![n][i] = "queued"]
    /\ UNCHANGED <<finished, retry, syncerVars, networkVars, alive>>

\* ... and writes the log.
SetConsensusResult(n, i) ==
    /\ alive[n] /\ end[n][i] = "queued"
    /\ end' = [end EXCEPT ![n][i] = "logged"]
    /\ UNCHANGED <<finished, retry, syncerVars, networkVars, alive>>

(****************************************************************************)
(* The group's thread.                                                      *)
(****************************************************************************)
\* Mutant: the internal message is there before the instance's thread queues it.
InternalsEarly(n) == {i \in Ids : end[n][i] # "open"} \ finished[n]

\* Internal messages are in front of all others.
Internals(n) == {i \in Ids : end[n][i] \in {"queued", "logged"}} \ finished[n]

OnInternalMessage(n, i) ==
    /\ alive[n] /\ i \in Internals(n)
    /\ finished' = [finished EXCEPT ![n] = @ \cup {i}]
    /\ UNCHANGED <<end, retry, syncerVars, networkVars, alive>>

\* LearnFromOthers, unless the id has finished (the group drops the message) or the
\* thread of the instance is past Reset (the object drops it).
LearnFromOthers(n, i) ==
    end' = [end EXCEPT ![n][i] = IF @ = "open" THEN "reached" ELSE @]

\* OnPaxosMessage with a LearnValue.
OnPaxosMessage(n, i) ==
    \/ InWindow(n, i) /\ LearnFromOthers(n, i) /\ UNCHANGED retry
    \/ ~InWindow(n, i) /\ retry' = [retry EXCEPT ![n] = @ \cup {i}] /\ UNCHANGED end

\* The retry queue, up to the next id beyond the window.
Retriable(n) == {i \in retry[n] : InWindow(n, i)}

DealWithRetry(n, i) ==
    /\ alive[n] /\ i \in Retriable(n)
    /\ LearnFromOthers(n, i)
    /\ retry' = [retry EXCEPT ![n] = @ \ {i}]
    /\ UNCHANGED <<finished, syncerVars, networkVars, alive>>

\* The group takes m from its queue.
Receives(m) == alive[m.to] /\ Internals(m.to) = {} /\ Retriable(m.to) = {}

OnProbeMessage(m) ==
    /\ m.type = "Probe" /\ m.from # m.to /\ Receives(m)
    /\ \E rest \in Remaining(m) : Add(rest, {ProbeReply(m.to, m.from, Min(m.to))})
    /\ UNCHANGED <<endVars, syncerVars, connected, alive>>

OnLearnValue(m) ==
    /\ m.type = "LearnValue" /\ Receives(m)
    /\ OnPaxosMessage(m.to, m.id)
    /\ net' \in Remaining(m)
    /\ UNCHANGED <<finished, syncerVars, connected, alive>>

(****************************************************************************)
(* The syncer's thread.  The group makes a task of a probe reply or a       *)
(* lookup and reads nothing for it, so until the syncer takes the task, the *)
(* message counts as in flight.                                             *)
(****************************************************************************)
\* The deadline passed.
IOLoopOnTimeout(n) ==
    /\ alive[n] /\ n \in Probing \ oversleeps
    /\ Add(net, {Probe(n, m) : m \in Nodes \ {n}})
    /\ UNCHANGED <<endVars, syncerVars, connected, alive>>

\* The wait for a task times out; the deadline that is read next is set.
WaitTimesOut(n) ==
    /\ alive[n] /\ n \in oversleeps
    /\ oversleeps' = oversleeps \ {n}
    /\ UNCHANGED <<endVars, networkVars, alive>>

\* OnProbeReplyMessage and OnLookupMessage of the group.
BecomesTask(m) == m.type \in {"ProbeReply", "Lookup"} /\ m.from # m.to

\* The syncer's loop takes the task; it reads its deadline before the next wait.
TakesTask(m) ==
    /\ BecomesTask(m) /\ alive[m.to]
    /\ oversleeps' = oversleeps \ {m.to}

\* Mutants: also the first id that the other node has not finished; only ids with
\* an entry.
MissingUpTo(n, id) == {i \in Ids : ContinuousLogID(n) <= i /\ i <= id /\ EntryNotExist(n, i)}
NotMissing(n, id) == {i \in Ids : ContinuousLogID(n) <= i /\ i < id /\ ~EntryNotExist(n, i)}

\* The ids that are asked for.
Missing(n, id) == {i \in Ids : ContinuousLogID(n) <= i /\ i < id /\ EntryNotExist(n, i)}

OnProbeReply(m) ==
    /\ m.type = "ProbeReply" /\ TakesTask(m)
    /\ \E rest \in Remaining(m) :
         Add(rest, {Lookup(m.to, m.from, i) : i \in Missing(m.to, m.id)})
    /\ UNCHANGED <<endVars, connected, alive>>

\* The entry is there, or the assertion fails.
OnSendUpdate(m) ==
    /\ m.type = "Lookup" /\ TakesTask(m)
    /\ \E rest \in Remaining(m) :
         \/ /\ m.id \in Logged(m.to)
            /\ Add(rest, {LearnValue(m.to, m.from, m.id)})
            /\ UNCHANGED alive
         \/ /\ m.id \notin Logged(m.to)
            /\ alive' = [alive EXCEPT ![m.to] = FALSE]
            /\ net' = rest
    /\ UNCHANGED <<endVars, connected>>

(****************************************************************************)
(* The specification.                                                       *)
(****************************************************************************)
\* Messages are sent only on behalf of a node that probes.
Exchanges == {p \in Probing \X Nodes : p[1] # p[2]}

NetMessages ==
    {Probe(p[1], p[2]) : p \in Exchanges}
      \cup {ProbeReply(p[2], p[1], i) : p \in Exchanges, i \in 1 .. MaxInstance + 1}
      \cup {Lookup(p[1], p[2], i) : p \in Exchanges, i \in Ids}
      \cup {LearnValue(p[2], p[1], i) : p \in Exchanges, i \in Ids}

Init ==
    /\ end = [n \in Nodes |-> [i \in Ids |-> "open"]]
    /\ finished = [n \in Nodes |-> {}]
    /\ retry = [n \in Nodes |-> {}]
    /\ oversleeps \in SUBSET Probing
    /\ net = {}
    /\ connected = [n \in Nodes |-> TRUE]
    /\ alive = [n \in Nodes |-> TRUE]

InstanceStep(n) == \E i \in Ids :
    ReachConsensus(n, i) \/ QueueInternal(n, i) \/ SetConsensusResult(n, i)

GroupStep(n) == \E i \in Ids : OnInternalMessage(n, i) \/ DealWithRetry(n, i)

Deliver(m) == OnProbeMessage(m) \/ OnProbeReply(m) \/ OnSendUpdate(m) \/ OnLearnValue(m)

SyncerTimer(n) == IOLoopOnTimeout(n) \/ WaitTimesOut(n)

Next ==
    \/ \E n \in Nodes : InstanceStep(n) \/ GroupStep(n) \/ SyncerTimer(n)
    \/ \E m \in net : Deliver(m) \/ Lose(m)
    \/ \E n \in Unplugged : Connect(n) \/ Disconnect(n)

Spec == Init /\ [][Next]_vars

\* Threads keep running; of a message that is sent again and again, one arrives (the
\* network loses some messages, not all).
LiveSpec ==
    /\ Spec
    /\ \A n \in Nodes :
         /\ WF_vars(\E i \in Ids : QueueInternal(n, i) \/ SetConsensusResult(n, i))
         /\ WF_vars(GroupStep(n))
         /\ WF_vars(IOLoopOnTimeout(n))
         /\ WF_vars(WaitTimesOut(n))
    /\ \A m \in {f \in NetMessages : f.type = "ProbeReply" => f.id > 1} :
         SF_vars(m \in net /\ Deliver(m))

(****************************************************************************)
(* Properties.                                                              *)
(****************************************************************************)
\* Type correctness, and what an end in steps leaves between them.
TypeOK ==
    /\ end \in [Nodes -> [Ids -> {"open", "reached", "queued", "logged"}]]
    /\ finished \in [Nodes -> SUBSET Ids]
    /\ \A n \in Nodes, i \in Ids : i \in finished[n] => end[n][i] \in {"queued", "logged"}
    /\ retry \in [Nodes -> SUBSET Ids]
    /\ oversleeps \subseteq Probing
    /\ net \subseteq NetMessages
    /\ connected \in [Nodes -> BOOLEAN] /\ alive \in [Nodes -> BOOLEAN]

\* Whatever is lost, repeated or late: a node is only asked for ids that its group
\* has finished, and never beyond (the promise of Group::OnProbeMessage, on which
\* Syncer::OnProbeReply of another node relies).
AskedOnlyFinished ==
    \A m \in net :
        /\ m.type = "ProbeReply" => m.id <= Min(m.from)
        /\ m.type = "Lookup" => m.id < Min(m.to)
        /\ m.type = "LearnValue" => m.id \in Logged(m.from)

\* The assertion of Syncer::OnSendUpdate: the entry that another node asks for is in
\* the log.
LookupAnswered == \A n \in Nodes : alive[n]

\* ... and it fails in one place only: a node dies while an entry of an id that its
\* group has finished is yet to be written (InstanceDoneConsensus queues the internal
\* message before SetConsensusResult; no other reply of Group::OnProbeMessage, however
\* late, makes anyone ask for an entry that is not there).
FailsOnlyInGap ==
    [][\A n \in Nodes : alive[n] /\ ~alive'[n] =>
         \E i \in finished[n] : end[n][i] = "queued"]_vars

\* A node that missed messages, was disconnected or overslept catches up: every id
\* that another node has finished without a gap gets into its log, as long as no
\* assertion ends a process and the nodes are connected again in the end.
CatchesUp ==
    []LookupAnswered /\ <>[](\A n \in Nodes : connected[n]) =>
      \A p \in Exchanges, i \in Ids : i < Min(p[2]) ~> i \in Logged(p[1])
================================================================================
