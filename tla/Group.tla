-------------------------------- MODULE Group --------------------------------
(****************************************************************************)
(* The Group of one node: the window of instance ids, the pool of Instance  *)
(* objects, the clients that wait in NewPropose, the group's loop and the   *)
(* end of an instance in the threads of the objects.                        *)
(*                                                                          *)
(* What an instance decides is left open (Consensus says what it may be),   *)
(* and of a message of another node only the instance id is kept.           *)
(****************************************************************************)
EXTENDS Integers, Sequences, FiniteSets

CONSTANTS
    Clients,        \* threads that call NewPropose once, each with a value of its own
    NoClient,       \* no context; as a log entry, the value of another node's client
    Pool,           \* the Instance objects
    Window,         \* MAXINSTANCENUM
    Tries,          \* how often NewPropose tries
    PeerIDs,        \* ids for which other nodes send messages
    MaxInstance,    \* bound: largest instance id
    QueueBound      \* bound: messages of other nodes waiting in the loop

ASSUME PoolAssumption == /\ IsFiniteSet(Pool) /\ Cardinality(Pool) = Window
                         /\ Window \in Nat \ {0}
ASSUME ClientAssumption == NoClient \notin Clients /\ Tries \in Nat \ {0}
ASSUME IdAssumption == /\ MaxInstance \in Nat /\ PeerIDs \subseteq 1 .. MaxInstance
                       /\ QueueBound \in Nat

VARIABLES
    \* Group, written by the group's thread
    min,        \* _uMinInstanceID
    max,        \* _uMaxInstanceID
    idle,       \* _oIdleInstance; which of its objects is taken makes no difference
    map,        \* _oInstanceMap
    flags,      \* _oDoneInstanceID, from id min on
    retry,      \* GroupIOLoop::_oRetry, ids only
    loop,       \* where the group's thread is: "message", "retry" or "propose"
    \* shared by threads, under a lock
    queue,      \* GroupIOLoop::_oMessages
    ctxs,       \* _oCommitCtxs
    log,        \* Log::_oConsensusResult
    \* Instance
    object,     \* instance id (0: none) and context of each object
    thread,     \* how far the object's thread is with the end of an instance
    \* CommitCtx and NewPropose
    client,     \* "new", "queued", "dispatched", "notified", "returned"
    commit,     \* _uInstanceID and _oStatus of the client's context
    tries

groupVars  == <<min, max, idle, map, flags>>
objectVars == <<object, thread>>
clientVars == <<client, commit, tries>>
vars == <<groupVars, retry, loop, queue, ctxs, log, objectVars, clientVars>>

InWindow(id) == min <= id /\ id < min + Window

Free  == [id |-> 0, ctx |-> NoClient]
Ready == [step |-> "ready", id |-> 0, ctx |-> NoClient, value |-> NoClient]

(****************************************************************************)
(* The clients (Group::NewPropose).                                         *)
(****************************************************************************)
\* One round of the loop: ResetStatus, and into the queue of contexts.
NewPropose(c) ==
    /\ client[c] = "new"
    /\ client' = [client EXCEPT ![c] = "queued"]
    /\ commit' = [commit EXCEPT ![c] = [id |-> 0, status |-> "UnDone"]]
    /\ ctxs' = Append(ctxs, c)
    /\ tries' = [tries EXCEPT ![c] = @ + 1]
    /\ UNCHANGED <<groupVars, retry, loop, queue, log, objectVars>>

\* Mutants: one round too many; a client that does not look at the status.
WakeUpLate(c) ==
    /\ client[c] = "notified"
    /\ client' = [client EXCEPT ![c] =
                    IF commit[c].status = "Success" \/ tries[c] > Tries
                    THEN "returned" ELSE "new"]
    /\ UNCHANGED <<groupVars, retry, loop, queue, ctxs, log, objectVars, commit, tries>>
WakeUpBlind(c) ==
    /\ client[c] = "notified"
    /\ client' = [client EXCEPT ![c] = IF tries[c] = Tries THEN "returned" ELSE "new"]
    /\ UNCHANGED <<groupVars, retry, loop, queue, ctxs, log, objectVars, commit, tries>>

\* Return on Success and after the last round.
WakeUp(c) ==
    /\ client[c] = "notified"
    /\ client' = [client EXCEPT ![c] =
                    IF commit[c].status = "Success" \/ tries[c] = Tries
                    THEN "returned" ELSE "new"]
    /\ UNCHANGED <<groupVars, retry, loop, queue, ctxs, log, objectVars, commit, tries>>

(****************************************************************************)
(* The group's thread: one message, then the retry queue, then the contexts.*)
(****************************************************************************)
\* AllocateNewInstance and InitForNewInstance; with a context, also
\* Instance::NewPropose.
AllocateNewInstance(id, ctx) == \E x \in idle :
    /\ idle' = idle \ {x}
    /\ map' = [i \in DOMAIN map \cup {id} |-> IF i = id THEN x ELSE map[i]]
    /\ max' = IF max > id THEN max ELSE id + 1
    /\ object' = [object EXCEPT ![x] = [id |-> id, ctx |-> ctx]]
    /\ UNCHANGED <<min, flags>>

\* Mutant: without the test of the flag.
OnPaxosMessageAnyway(id) ==
    IF id < min \/ id \in DOMAIN map
      THEN UNCHANGED <<groupVars, object>>
      ELSE AllocateNewInstance(id, NoClient)

\* A message for a finished instance is dropped; one for an instance that has an
\* object goes to its queue, where the object drops it if it has ended already.
OnPaxosMessage(id) ==
    IF id < min \/ flags[id - min] \/ id \in DOMAIN map
      THEN UNCHANGED <<groupVars, object>>
      ELSE AllocateNewInstance(id, NoClient)

\* Mutant: no shift when every id of the window has ended.
UpdateMinMaxUnlessFull(id) ==
    LET done == [flags EXCEPT ![id - min] = TRUE]
        undone == {i \in 0 .. Window - 1 : ~done[i]}
        first == IF undone = {} THEN 0 ELSE CHOOSE i \in undone : \A j \in undone : i <= j
    IN  /\ min' = min + first
        /\ flags' = [i \in 0 .. Window - 1 |-> i + first < Window /\ done[i + first]]

\* UpdateMinMaxInstanceID: set the flag, and shift the window past its prefix
\* of finished ids.
UpdateMinMaxInstanceID(id) ==
    LET done == [flags EXCEPT ![id - min] = TRUE]
        undone == {i \in 0 .. Window : i = Window \/ ~done[i]}
        first == CHOOSE i \in undone : \A j \in undone : i <= j
    IN  IF ~done[0]
          THEN flags' = done /\ UNCHANGED min
          ELSE /\ min' = min + first
               /\ flags' = [i \in 0 .. Window - 1 |-> i + first < Window /\ done[i + first]]

OnInternalMessage(id) ==
    /\ idle' = idle \cup {map[id]}
    /\ map' = [i \in DOMAIN map \ {id} |-> map[i]]
    /\ UpdateMinMaxInstanceID(id)
    /\ UNCHANGED <<max, object>>

DealWithMessage ==
    /\ loop = "message"
    /\ loop' = "retry"
    /\ \/ \* the wait timed out
          queue = <<>> /\ UNCHANGED <<queue, groupVars, object, retry>>
       \/ /\ queue # <<>> /\ queue' = Tail(queue)
          /\ LET m == Head(queue)
             IN  \/ /\ m.type = "Internal"
                    /\ OnInternalMessage(m.id) /\ UNCHANGED retry
                 \/ \* it lies beyond the window
                    /\ m.type = "Paxos" /\ m.id >= min + Window
                    /\ retry' = retry \cup {m.id} /\ UNCHANGED <<groupVars, object>>
                 \/ /\ m.type = "Paxos" /\ m.id < min + Window
                    /\ OnPaxosMessage(m.id) /\ UNCHANGED retry
    /\ UNCHANGED <<ctxs, log, thread, clientVars>>

\* The smallest id first, until the next one still lies beyond the window.
DealWithRetry ==
    /\ loop = "retry"
    /\ \/ /\ \A i \in retry : i >= min + Window
          /\ loop' = "propose"
          /\ UNCHANGED <<retry, groupVars, object>>
       \/ \E id \in retry : /\ \A i \in retry : id <= i
                            /\ id < min + Window
                            /\ OnPaxosMessage(id)
                            /\ retry' = retry \ {id}
                            /\ UNCHANGED loop
    /\ UNCHANGED <<queue, ctxs, log, thread, clientVars>>

\* IOLoopNewPropose gives a new id to the first context, as long as there is
\* one and the window has room.
IOLoopNewPropose ==
    /\ loop = "propose"
    /\ \/ /\ idle = {} \/ ctxs = <<>> \/ max >= min + Window \/ max > MaxInstance
          /\ loop' = "message"
          /\ UNCHANGED <<groupVars, object, ctxs, client, commit>>
       \/ /\ ctxs # <<>> /\ max < min + Window /\ max <= MaxInstance
          /\ AllocateNewInstance(max, Head(ctxs))
          /\ commit' = [commit EXCEPT ![Head(ctxs)].id = max]
          /\ client' = [client EXCEPT ![Head(ctxs)] = "dispatched"]
          /\ ctxs' = Tail(ctxs)
          /\ UNCHANGED loop
    /\ UNCHANGED <<retry, queue, log, thread, tries>>

(****************************************************************************)
(* The thread of an object at the end of its instance (the second half of   *)
(* Instance::IOLoopOnMessage, InstanceDoneConsensus).                       *)
(****************************************************************************)
\* The learner has a value: Reset, then CommitCtx::Commit, which the client sees
\* once it is notified.
ReachConsensus(x) ==
    /\ thread[x] = Ready
    /\ object[x].id # 0
    /\ object' = [object EXCEPT ![x] = Free]
    /\ \E v \in {object[x].ctx, NoClient} :
         /\ thread' = [thread EXCEPT ![x] = [step |-> "internal", id |-> object[x].id,
                                             ctx |-> object[x].ctx, value |-> v]]
         /\ IF object[x].ctx = NoClient
              THEN UNCHANGED commit
              ELSE commit' = [commit EXCEPT ![object[x].ctx].status =
                                IF v = NoClient THEN "Fail" ELSE "Success"]
    /\ UNCHANGED <<groupVars, retry, loop, queue, ctxs, log, client, tries>>

\* InstanceDoneConsensus puts the internal message in front of all others ...
QueueInternal(x) ==
    /\ thread[x].step = "internal"
    /\ queue' = <<[type |-> "Internal", id |-> thread[x].id]>> \o queue
    /\ thread' = [thread EXCEPT ![x].step = "log"]
    /\ UNCHANGED <<groupVars, retry, loop, ctxs, log, object, clientVars>>

\* ... and then writes the log.
SetConsensusResult(x) ==
    /\ thread[x].step = "log"
    /\ log' = [i \in DOMAIN log \cup {thread[x].id} |->
                 IF i = thread[x].id THEN thread[x].value ELSE log[i]]
    /\ thread' = [thread EXCEPT ![x] = IF @.ctx = NoClient THEN Ready
                                       ELSE [@ EXCEPT !.step = "notify"]]
    /\ UNCHANGED <<groupVars, retry, loop, queue, ctxs, object, clientVars>>

\* Mutant: the client is woken up before the log is written.
NotifyEarly(x) ==
    /\ thread[x].step \in {"internal", "log", "notify"} /\ thread[x].ctx # NoClient
    /\ client' = [client EXCEPT ![thread[x].ctx] = "notified"]
    /\ UNCHANGED <<groupVars, retry, loop, queue, ctxs, log, objectVars, commit, tries>>

Notify(x) ==
    /\ thread[x].step = "notify"
    /\ client' = [client EXCEPT ![thread[x].ctx] = "notified"]
    /\ thread' = [thread EXCEPT ![x] = Ready]
    /\ UNCHANGED <<groupVars, retry, loop, queue, ctxs, log, object, commit, tries>>

\* A message of another node (Group::OnReceiveNewMessage).
OnReceiveNewMessage(id) ==
    /\ Len(queue) < QueueBound
    /\ queue' = Append(queue, [type |-> "Paxos", id |-> id])
    /\ UNCHANGED <<groupVars, retry, loop, ctxs, log, objectVars, clientVars>>

(****************************************************************************)
(* The specification.                                                       *)
(****************************************************************************)
Init ==
    /\ min = 1 /\ max = 1
    /\ idle = Pool
    /\ map = [i \in {} |-> 0]
    /\ flags = [i \in 0 .. Window - 1 |-> FALSE]
    /\ retry = {} /\ loop = "message" /\ queue = <<>> /\ ctxs = <<>>
    /\ log = [i \in {} |-> 0]
    /\ object = [x \in Pool |-> Free]
    /\ thread = [x \in Pool |-> Ready]
    /\ client = [c \in Clients |-> "new"]
    /\ commit = [c \in Clients |-> [id |-> 0, status |-> "UnDone"]]
    /\ tries = [c \in Clients |-> 0]

GroupLoop == DealWithMessage \/ DealWithRetry \/ IOLoopNewPropose

InstanceStep(x) == ReachConsensus(x) \/ QueueInternal(x) \/ SetConsensusResult(x) \/ Notify(x)

Next ==
    \/ GroupLoop
    \/ \E x \in Pool : InstanceStep(x)
    \/ \E c \in Clients : NewPropose(c) \/ WakeUp(c)
    \/ \E id \in PeerIDs : OnReceiveNewMessage(id)

Spec == Init /\ [][Next]_vars

\* Every thread keeps running, and the other nodes send for the ids they use
\* until this one has them: by their timers, or in answer to its Syncer.
LiveSpec ==
    /\ Spec
    /\ WF_vars(GroupLoop)
    /\ \A x \in Pool : WF_vars(InstanceStep(x))
    /\ \A c \in Clients : WF_vars(NewPropose(c) \/ WakeUp(c))
    /\ \A id \in PeerIDs : SF_vars(OnReceiveNewMessage(id))

(****************************************************************************)
(* Properties.                                                              *)
(****************************************************************************)
Ids == 1 .. MaxInstance

GroupMessage == [type : {"Paxos", "Internal"}, id : Ids]

\* Type correctness.  The partial functions are bounded by the window.
TypeOK ==
    /\ min \in 1 .. MaxInstance + 1 /\ max \in 1 .. MaxInstance + 1
    /\ idle \subseteq Pool
    /\ DOMAIN map \subseteq Ids /\ map \in [DOMAIN map -> Pool]
    /\ flags \in [0 .. Window - 1 -> BOOLEAN]
    /\ retry \subseteq Ids
    /\ loop \in {"message", "retry", "propose"}
    /\ queue \in Seq(GroupMessage)
    /\ ctxs \in Seq(Clients)
    /\ DOMAIN log \subseteq Ids /\ log \in [DOMAIN log -> Clients \cup {NoClient}]
    /\ object \in [Pool -> [id : 0 .. MaxInstance, ctx : Clients \cup {NoClient}]]
    /\ thread \in [Pool -> [step : {"ready", "internal", "log", "notify"},
                            id : 0 .. MaxInstance, ctx : Clients \cup {NoClient},
                            value : Clients \cup {NoClient}]]
    /\ client \in [Clients -> {"new", "queued", "dispatched", "notified", "returned"}]
    /\ commit \in [Clients -> [id : 0 .. MaxInstance, status : {"UnDone", "Success", "Fail"}]]
    /\ tries \in [Clients -> 0 .. Tries]

\* The ids whose end the group's thread was told of: the internal message comes
\* before the log entry.
Announced == DOMAIN log \cup {thread[x].id : x \in {y \in Pool : thread[y].step = "log"}}

\* AllocateNewInstance finds an object for every id of the window that has none,
\* and InitForNewInstance and Instance::NewPropose find it reset.
AllocationSucceeds ==
    /\ (\E id \in min .. min + Window - 1 : ~flags[id - min] /\ id \notin DOMAIN map)
         => idle # {}
    /\ \A x \in idle : object[x] = Free

\* OnInternalMessage finds the object of the id, UpdateMinMaxInstanceID finds the
\* id in the window, and no second internal message will be there for it.
InternalFound ==
    \A k \in 1 .. Len(queue) : queue[k].type = "Internal" =>
        /\ queue[k].id \in DOMAIN map /\ InWindow(queue[k].id)
        /\ \A j \in 1 .. Len(queue) : queue[j] = queue[k] => j = k

\* SetConsensusResult finds no entry for the id, and the ids that two threads
\* are about to log differ.
LogWrittenOnce ==
    \A x \in Pool : thread[x].step \in {"internal", "log"} =>
        /\ thread[x].id \notin DOMAIN log
        /\ \A y \in Pool : thread[y].step \in {"internal", "log"} /\ thread[y].id = thread[x].id
                          => x = y

\* No assertion of Group, Instance::InitForNewInstance, Instance::NewPropose or
\* Group::InstanceDoneConsensus fails, in any order in which instances finish.
NoAssertionFails == AllocationSucceeds /\ InternalFound /\ LogWrittenOnce

\* The window is right (UpdateMinMaxInstanceID): exactly the ids below it and
\* those with a flag have ended and given back their object; the first is open.
WindowRight ==
    /\ ~flags[0]
    /\ \A id \in Ids :
         (id < min \/ (InWindow(id) /\ flags[id - min]))
           <=> id \in Announced /\ id \notin DOMAIN map

\* A client that was notified reads its result in the log: Success if and only
\* if the entry of its instance is its own value (the order of Commit,
\* InstanceDoneConsensus and Notify in Instance::IOLoopOnMessage).
NotifiedMeansLogged ==
    \A c \in Clients : client[c] \in {"notified", "returned"} =>
        /\ commit[c].id \in DOMAIN log
        /\ commit[c].status = IF log[commit[c].id] = c THEN "Success" ELSE "Fail"

\* However often NewPropose tries, a client's value is logged at most once.
LoggedAtMostOnce ==
    \A i, j \in DOMAIN log : log[i] = log[j] /\ log[i] # NoClient => i = j

\* Every call of NewPropose returns.
ClientsReturn == \A c \in Clients : <>(client[c] = "returned")
=============================================================================
