---------------------------- MODULE InstanceLoop ----------------------------
(****************************************************************************)
(* One Instance object and its InstanceIOLoop over the instance ids that    *)
(* the group gives to it, one after the other.  Two threads meet here: the  *)
(* group's, which initialises the object and dispatches messages to it, and *)
(* the object's own, which handles timers and messages and resets the       *)
(* object at the end of an id.                                              *)
(*                                                                          *)
(* Of the proposer only the phases and their timers are kept.  What replies *)
(* add up to is left open (PaxosInstance), and so is which timer is due     *)
(* first.                                                                   *)
(****************************************************************************)
EXTENDS Integers, Sequences

CONSTANTS
    Ids,            \* ids the group gives to this object
    PeerTypes,      \* types of the messages of other nodes
    MaxTimer,       \* bound: largest timer id
    QueueBound      \* bound: messages waiting in the object's queue

AllTypes == {"Prepare", "PrepareReply", "Accept", "AcceptReply", "LearnValue"}

ASSUME IdsAssumption == Ids \subseteq Nat \ {0}
ASSUME TypesAssumption == PeerTypes \subseteq AllTypes
ASSUME BoundAssumption == MaxTimer \in Nat /\ QueueBound \in Nat \ {0}

VARIABLES
    \* group's thread
    mapped,     \* the id under which _oInstanceMap holds the object; 0: it is idle
    unserved,   \* ids the group has not given to it
    internal,   \* the group's queue holds the internal message of this id
    \* shared, under the lock of the queue
    accept,     \* InstanceIOLoop::_uAcceptInstanceID
    queue,      \* InstanceIOLoop::_oMessages
    \* Instance
    config,     \* _oConfig.uInstanceID
    ctx,        \* the id whose client _pCommitCtx belongs to; 0: no context
    thread,     \* where the object's thread is
    current,    \* the message it has taken from the queue, or NoMessage
    rounds      \* timers of the loop and phases of the proposer

groupVars == <<mapped, unserved, internal>>
loopVars == <<accept, queue>>
instanceVars == <<config, ctx>>
vars == <<groupVars, loopVars, instanceVars, thread, current, rounds>>

NoMessage == [id |-> 0, type |-> "none"]

(****************************************************************************)
(* Timers and InstanceIOLoop: the heap keeps what RemoveTimer takes out of  *)
(* the set of active timers.                                                *)
(****************************************************************************)
NoTimers == [heap |-> {}, active |-> {}, next |-> 1,
             preparing |-> FALSE, accepting |-> FALSE,
             prepareTimer |-> 0, acceptTimer |-> 0]

\* Mutant: the next timer gets the same id.
AddTimerSameID(r, type) ==
    [r EXCEPT !.heap = @ \cup {[id |-> r.next, type |-> type]},
              !.active = @ \cup {r.next}]

AddTimer(r, type) ==
    [r EXCEPT !.heap = @ \cup {[id |-> r.next, type |-> type]},
              !.active = @ \cup {r.next},
              !.next = @ + 1]

RemoveTimer(r, t) == [r EXCEPT !.active = @ \ {t}]

\* Mutant: the heap keeps the timers of the id that ended.
ClearActiveTimers(r) == [r EXCEPT !.active = {}]

ClearTimers(r) == [r EXCEPT !.heap = {}, !.active = {}]

(****************************************************************************)
(* Proposer: a flag and a timer for each phase.                             *)
(****************************************************************************)
\* Mutant: the timer of the prepare phase stays active in the accept phase.
ExitPrepareOnly(r) == [r EXCEPT !.preparing = FALSE, !.prepareTimer = 0]

ExitPrepare(r) ==
    IF r.preparing
      THEN [RemoveTimer(r, r.prepareTimer) EXCEPT !.preparing = FALSE, !.prepareTimer = 0]
      ELSE r

ExitAccept(r) ==
    IF r.accepting
      THEN [RemoveTimer(r, r.acceptTimer) EXCEPT !.accepting = FALSE, !.acceptTimer = 0]
      ELSE r

\* Mutant: the timer is removed after its id was overwritten.
AddThenRemove(r) ==
    LET added == [AddTimer(r, "Prepare") EXCEPT !.prepareTimer = r.next]
    IN  IF r.prepareTimer = 0 THEN added ELSE RemoveTimer(added, added.prepareTimer)

AddPrepareTimer(r) ==
    [AddTimer(RemoveTimer(r, r.prepareTimer), "Prepare") EXCEPT !.prepareTimer = r.next]

AddAcceptTimer(r) ==
    [AddTimer(RemoveTimer(r, r.acceptTimer), "Accept") EXCEPT !.acceptTimer = r.next]

Prepare(r) == AddPrepareTimer([ExitAccept(r) EXCEPT !.preparing = TRUE])
Accept(r)  == AddAcceptTimer([ExitPrepare(r) EXCEPT !.accepting = TRUE])
ResetProposer(r) == ExitAccept(ExitPrepare(r))

\* The timer that ends the current round; 0: no round.
RoundTimer == IF rounds.preparing THEN rounds.prepareTimer
              ELSE IF rounds.accepting THEN rounds.acceptTimer ELSE 0

(****************************************************************************)
(* The group's thread.                                                      *)
(****************************************************************************)
\* Queue::add.
Added(q, m, back) == IF back THEN Append(q, m) ELSE <<m>> \o q

\* Mutant: without the test of the id.
AddMessageAnyway(m, back) == queue' = Added(queue, m, back)

\* Under the lock of the queue, as every write of the accepted id.
AddMessage(m, back) == queue' = IF m.id = accept' THEN Added(queue, m, back) ELSE queue

\* AllocateNewInstance has taken the object from the pool.
InitForNewInstance(id) ==
    /\ mapped = 0
    /\ mapped' = id
    /\ unserved' = unserved \ {id}
    /\ accept' = id
    /\ config' = id

\* An id that begins with a message of another node (Group::OnPaxosMessage) ...
AllocateForMessage(id, type) ==
    /\ InitForNewInstance(id)
    /\ AddMessage([id |-> id, type |-> type], TRUE)
    /\ UNCHANGED <<internal, ctx, thread, current, rounds>>

\* ... or with a client's proposal (Group::IOLoopNewPropose, Instance::NewPropose).
AllocateForClient(id) ==
    /\ InitForNewInstance(id)
    /\ ctx' = id
    /\ AddMessage([id |-> id, type |-> "NewProposal"], FALSE)
    /\ UNCHANGED <<internal, thread, current, rounds>>

\* The group finds the object in its map, also when its thread is past Reset and
\* the internal message still waits.
OnReceiveNewMessage(type) ==
    /\ mapped # 0 /\ Len(queue) < QueueBound
    /\ UNCHANGED accept
    /\ AddMessage([id |-> mapped, type |-> type], TRUE)
    /\ UNCHANGED <<groupVars, instanceVars, thread, current, rounds>>

\* The object goes back to the pool.
OnInternalMessage ==
    /\ internal
    /\ internal' = FALSE
    /\ mapped' = 0
    /\ UNCHANGED <<unserved, loopVars, instanceVars, thread, current, rounds>>

(****************************************************************************)
(* The object's thread: timers that are due, then one message.              *)
(****************************************************************************)
Popped(r, t) == [r EXCEPT !.heap = @ \ {t}]

\* Mutant: the set of active timers is not looked at.
DealWithAnyTimeout(t) ==
    /\ thread = "loop" /\ t \in rounds.heap
    /\ rounds.next <= MaxTimer
    /\ rounds' = Prepare(RemoveTimer(Popped(rounds, t), t.id))
    /\ UNCHANGED <<groupVars, loopVars, instanceVars, thread, current>>

\* A timer that was removed is popped and ignored; either phase is restarted
\* with a new prepare (OnPrepareTimeout, OnAcceptTimeout).
DealWithTimeout(t) ==
    /\ thread = "loop" /\ t \in rounds.heap
    /\ \/ /\ t.id \notin rounds.active
          /\ rounds' = Popped(rounds, t)
       \/ /\ t.id \in rounds.active /\ rounds.next <= MaxTimer
          /\ rounds' = Prepare(RemoveTimer(Popped(rounds, t), t.id))
    /\ UNCHANGED <<groupVars, loopVars, instanceVars, thread, current>>

\* The message is taken out under the lock and handled without it.
DealWithMessage ==
    /\ thread = "loop" /\ queue # <<>>
    /\ current' = Head(queue)
    /\ queue' = Tail(queue)
    /\ thread' = "handle"
    /\ UNCHANGED <<groupVars, accept, instanceVars, rounds>>

\* IOLoopOnMessage up to the test whether the learner has a value.
IOLoopOnMessage ==
    /\ thread = "handle"
    /\ current' = NoMessage
    /\ \/ \* NewProposal: the leader goes straight to the accept phase
          /\ current.type = "NewProposal" /\ rounds.next <= MaxTimer
          /\ LET r == ExitAccept(ExitPrepare(rounds))
             IN  rounds' \in {Prepare(r), Accept(r)}
          /\ thread' = "loop"
       \/ \* OnPrepareReply, the majority
          /\ current.type = "PrepareReply" /\ rounds.preparing /\ rounds.next <= MaxTimer
          /\ rounds' = Accept(rounds)
          /\ thread' = "loop"
       \/ \* OnAcceptReply, the majority: the learner has a value
          /\ current.type = "AcceptReply" /\ rounds.accepting
          /\ rounds' = ExitAccept(rounds)
          /\ thread' = "stop"
       \/ \* LearnFromOthers
          /\ current.type = "LearnValue"
          /\ thread' = "stop" /\ UNCHANGED rounds
       \/ \* the acceptor, and replies that decide nothing
          /\ current.type \notin {"NewProposal", "LearnValue"}
          /\ thread' = "loop" /\ UNCHANGED rounds
    /\ UNCHANGED <<groupVars, loopVars, instanceVars>>

\* Reset, first half: from here on AddMessage drops what the group dispatches ...
StopAccepting ==
    /\ thread = "stop" /\ thread' = "clear"
    /\ ctx' = 0
    /\ accept' = 0
    /\ UNCHANGED <<groupVars, queue, config, current, rounds>>

\* Mutant: the queue is left as it is.
ClearLess ==
    /\ thread = "clear" /\ thread' = "reset"
    /\ rounds' = ClearTimers(rounds)
    /\ UNCHANGED <<groupVars, loopVars, instanceVars, current>>

\* ... so that the queue stays empty after Clear.
Clear ==
    /\ thread = "clear" /\ thread' = "reset"
    /\ queue' = <<>>
    /\ rounds' = ClearTimers(rounds)
    /\ UNCHANGED <<groupVars, accept, instanceVars, current>>

\* Reset, second half.
ResetMembers ==
    /\ thread = "reset" /\ thread' = "internal"
    /\ config' = 0
    /\ rounds' = ResetProposer(rounds)
    /\ UNCHANGED <<groupVars, loopVars, ctx, current>>

\* InstanceDoneConsensus: the group may now reuse the object, while its thread
\* still writes the log and wakes the client.
QueueInternal ==
    /\ thread = "internal" /\ thread' = "log"
    /\ internal' = TRUE
    /\ UNCHANGED <<mapped, unserved, loopVars, instanceVars, current, rounds>>

LogAndNotify ==
    /\ thread = "log" /\ thread' = "loop"
    /\ UNCHANGED <<groupVars, loopVars, instanceVars, current, rounds>>

(****************************************************************************)
(* The specification.                                                       *)
(****************************************************************************)
Init ==
    /\ mapped = 0 /\ unserved = Ids /\ internal = FALSE
    /\ accept = 0 /\ queue = <<>>
    /\ config = 0 /\ ctx = 0
    /\ thread = "loop" /\ current = NoMessage
    /\ rounds = NoTimers

GroupStep ==
    \/ \E id \in unserved : AllocateForClient(id) \/ \E t \in PeerTypes : AllocateForMessage(id, t)
    \/ \E t \in PeerTypes : OnReceiveNewMessage(t)
    \/ OnInternalMessage

EndStep == StopAccepting \/ Clear \/ ResetMembers \/ QueueInternal \/ LogAndNotify

InstanceStep ==
    \/ \E t \in rounds.heap : DealWithTimeout(t)
    \/ DealWithMessage \/ IOLoopOnMessage \/ EndStep

Next == GroupStep \/ InstanceStep

Spec == Init /\ [][Next]_vars

Timer == [id : 1 .. MaxTimer, type : {"Prepare", "Accept"}]

\* The object's thread keeps running.  A timer that is due stays due and is popped
\* before the next message is handled.
LiveSpec ==
    /\ Spec
    /\ WF_vars(IOLoopOnMessage \/ EndStep)
    /\ \A t \in Timer : SF_vars(DealWithTimeout(t))

(****************************************************************************)
(* Properties.                                                              *)
(****************************************************************************)
Message == [id : Ids, type : PeerTypes \cup {"NewProposal"}]

\* Type correctness; timer ids are used once.
TypeOK ==
    /\ \A t \in rounds.heap : t.id < rounds.next
    /\ mapped \in Ids \cup {0} /\ unserved \subseteq Ids /\ internal \in BOOLEAN
    /\ accept \in Ids \cup {0} /\ queue \in Seq(Message)
    /\ config \in Ids \cup {0} /\ ctx \in Ids \cup {0}
    /\ thread \in {"loop", "handle", "stop", "clear", "reset", "internal", "log"}
    /\ current \in Message \cup {NoMessage}
    /\ rounds \in [heap : SUBSET Timer, active : SUBSET (1 .. MaxTimer),
                   next : 1 .. MaxTimer + 1, preparing : BOOLEAN, accepting : BOOLEAN,
                   prepareTimer : 0 .. MaxTimer, acceptTimer : 0 .. MaxTimer]

\* The assertion at the head of Instance::IOLoopOnMessage, without its second
\* case: a message is handled under the id it was sent for, and a NewProposal
\* finds the context of this id and, as Proposer::NewProposal says, no round.
HandlesOwnMessages ==
    current # NoMessage =>
        /\ current.id = config
        /\ current.type = "NewProposal" => ctx = config /\ RoundTimer = 0

\* What Instance::InitForNewInstance and NewPropose rely on ("this instance should
\* be new or called Reset() before", "instance's ioloop should be empty"): an
\* object in the pool has nothing left of an earlier id.
ResetBeforeReuse ==
    mapped = 0 =>
        /\ accept = 0 /\ config = 0 /\ ctx = 0
        /\ queue = <<>> /\ current = NoMessage
        /\ rounds = [NoTimers EXCEPT !.next = rounds.next]

\* The only timer that can fire is that of the current round, and there is one as
\* long as there is a round: a round that a majority has rejected, for which the
\* code does nothing else, is not stuck.
TimerArmed ==
    thread \in {"loop", "handle"} =>
        /\ rounds.active = {RoundTimer} \ {0}
        /\ rounds.preparing =>
             [id |-> rounds.prepareTimer, type |-> "Prepare"] \in rounds.heap /\ ~rounds.accepting
        /\ rounds.accepting =>
             [id |-> rounds.acceptTimer, type |-> "Accept"] \in rounds.heap

\* A timer of an earlier round that is popped late changes no phase and starts no
\* round (InstanceIOLoop::DealWithTimeout).
StaleTimersIgnored ==
    [][\A t \in rounds.heap :
         thread = "loop" /\ t \notin rounds'.heap /\ t.id # RoundTimer
           => rounds' = Popped(rounds, t)]_vars

\* Every round ends, by replies or by its timer.  (The round with the last timer id
\* of the model cannot be restarted.)
RoundsEnd == \A t \in 1 .. MaxTimer - 1 : RoundTimer = t ~> RoundTimer # t

\* With its ids, its heap of old timers and its Reset in several steps, the object
\* behaves as one that serves each id with an inbox and a timer of its own.
ActiveTypes(r) == {t.type : t \in {h \in r.heap : h.id \in r.active}}

ActiveTimer(r) ==
    IF ActiveTypes(r) = {} THEN "none" ELSE CHOOSE type \in ActiveTypes(r) : TRUE

InHand(m) == IF m = NoMessage THEN <<>> ELSE <<m.type>>
TypesOf(q) == [k \in 1 .. Len(q) |-> q[k].type]

ServedInbox == IF accept = 0 THEN <<>> ELSE InHand(current) \o TypesOf(queue)
ServedTimer == IF accept = 0 \/ thread = "stop" THEN "none" ELSE ActiveTimer(rounds)

Serving == INSTANCE Inbox WITH
    NoId    <- 0,
    serving <- accept,
    inbox   <- ServedInbox,
    timer   <- ServedTimer,
    client  <- ctx # 0 /\ thread # "stop",
    done    <- thread = "stop"

ImplementsInbox == Serving!Spec
=============================================================================
