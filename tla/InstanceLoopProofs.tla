-------------------------- MODULE InstanceLoopProofs --------------------------
(****************************************************************************)
(* Theorems about InstanceLoop, for every value of its constants.           *)
(****************************************************************************)
EXTENDS InstanceLoop, SequenceTheorems, TLAPS

(****************************************************************************)
(* What the operations of the timers and the proposer do to the record of   *)
(* timers and phases.                                                       *)
(****************************************************************************)
Rounds == [heap : SUBSET Timer, active : SUBSET (1 .. MaxTimer),
           next : 1 .. MaxTimer + 1, preparing : BOOLEAN, accepting : BOOLEAN,
           prepareTimer : 0 .. MaxTimer, acceptTimer : 0 .. MaxTimer]

\* No phase, and nothing in the heap.
IsIdle(r) == /\ r.heap = {} /\ r.active = {}
             /\ r.preparing = FALSE /\ r.accepting = FALSE
             /\ r.prepareTimer = 0 /\ r.acceptTimer = 0

LEMMA InitialRounds ==
  ASSUME NEW n \in 1 .. MaxTimer + 1
  PROVE  [NoTimers EXCEPT !.next = n] \in Rounds
<1>1. /\ 0 \in 0 .. MaxTimer /\ 1 \in 1 .. MaxTimer + 1
      /\ {} \in SUBSET Timer /\ {} \in SUBSET (1 .. MaxTimer)
  BY BoundAssumption
<1>2. NoTimers \in Rounds
  BY <1>1 DEF NoTimers, Rounds
<1> QED BY <1>2 DEF Rounds

LEMMA SameRounds ==
  ASSUME NEW r \in Rounds, NEW q \in Rounds,
         q.heap = r.heap, q.active = r.active, q.next = r.next,
         q.preparing = r.preparing, q.accepting = r.accepting,
         q.prepareTimer = r.prepareTimer, q.acceptTimer = r.acceptTimer
  PROVE  r = q
BY DEF Rounds

LEMMA IdleRecord ==
  ASSUME NEW r \in Rounds
  PROVE  IsIdle(r) <=> r = [NoTimers EXCEPT !.next = r.next]
<1> DEFINE q == [NoTimers EXCEPT !.next = r.next]
<1>1. r.next \in 1 .. MaxTimer + 1
  BY DEF Rounds
<1>2. q \in Rounds
  BY <1>1, InitialRounds
<1>3. IsIdle(q) /\ q.next = r.next
  BY DEF NoTimers, IsIdle
<1> HIDE DEF q
<1>4. IsIdle(r) => r = q
  BY <1>2, <1>3, SameRounds DEF IsIdle
<1>5. r = q => IsIdle(r)
  BY <1>3
<1> QED BY <1>4, <1>5 DEF q

LEMMA RemoveTimerRecord ==
  ASSUME NEW r \in Rounds, NEW t
  PROVE  /\ RemoveTimer(r, t) \in Rounds
         /\ RemoveTimer(r, t).active = r.active \ {t}
         /\ RemoveTimer(r, t).heap = r.heap
         /\ RemoveTimer(r, t).next = r.next
         /\ RemoveTimer(r, t).preparing = r.preparing
         /\ RemoveTimer(r, t).accepting = r.accepting
         /\ RemoveTimer(r, t).prepareTimer = r.prepareTimer
         /\ RemoveTimer(r, t).acceptTimer = r.acceptTimer
BY DEF RemoveTimer, Rounds

LEMMA AddTimerRecord ==
  ASSUME NEW r \in Rounds, NEW type \in {"Prepare", "Accept"}, r.next <= MaxTimer
  PROVE  /\ AddTimer(r, type) \in Rounds
         /\ AddTimer(r, type).heap = r.heap \cup {[id |-> r.next, type |-> type]}
         /\ AddTimer(r, type).active = r.active \cup {r.next}
         /\ AddTimer(r, type).next = r.next + 1
         /\ AddTimer(r, type).preparing = r.preparing
         /\ AddTimer(r, type).accepting = r.accepting
         /\ AddTimer(r, type).prepareTimer = r.prepareTimer
         /\ AddTimer(r, type).acceptTimer = r.acceptTimer
<1>1. r.next \in 1 .. MaxTimer
  BY BoundAssumption DEF Rounds
<1>2. [id |-> r.next, type |-> type] \in Timer
  BY <1>1 DEF Timer
<1>3. /\ r.heap \cup {[id |-> r.next, type |-> type]} \in SUBSET Timer
      /\ r.active \cup {r.next} \in SUBSET (1 .. MaxTimer)
      /\ r.next + 1 \in 1 .. MaxTimer + 1
  BY <1>1, <1>2, BoundAssumption DEF Rounds
<1>4. AddTimer(r, type) \in Rounds
  BY <1>3 DEF AddTimer, Rounds
<1> QED BY <1>4 DEF AddTimer, Rounds

\* A phase that ends takes its timer with it.
Left(on, timer) == IF on THEN {timer} ELSE {}

LEMMA ExitPrepareRecord ==
  ASSUME NEW r \in Rounds
  PROVE  /\ ExitPrepare(r) \in Rounds
         /\ ExitPrepare(r).active = r.active \ Left(r.preparing, r.prepareTimer)
         /\ ExitPrepare(r).preparing = FALSE
         /\ ExitPrepare(r).prepareTimer = IF r.preparing THEN 0 ELSE r.prepareTimer
         /\ ExitPrepare(r).heap = r.heap
         /\ ExitPrepare(r).next = r.next
         /\ ExitPrepare(r).accepting = r.accepting
         /\ ExitPrepare(r).acceptTimer = r.acceptTimer
<1>1. CASE r.preparing
  <2> DEFINE q == RemoveTimer(r, r.prepareTimer)
  <2>1. ExitPrepare(r) = [q EXCEPT !.preparing = FALSE, !.prepareTimer = 0]
    BY <1>1 DEF ExitPrepare
  <2>2. q \in Rounds /\ 0 \in 0 .. MaxTimer
    BY RemoveTimerRecord, BoundAssumption
  <2>3. /\ q.active = r.active \ {r.prepareTimer} /\ q.heap = r.heap /\ q.next = r.next
        /\ q.accepting = r.accepting /\ q.acceptTimer = r.acceptTimer
    BY RemoveTimerRecord
  <2> HIDE DEF q
  <2>4. ExitPrepare(r) \in Rounds
    BY <2>1, <2>2 DEF Rounds
  <2>5. /\ ExitPrepare(r).active = q.active /\ ExitPrepare(r).heap = q.heap
        /\ ExitPrepare(r).next = q.next /\ ExitPrepare(r).accepting = q.accepting
        /\ ExitPrepare(r).acceptTimer = q.acceptTimer
        /\ ExitPrepare(r).preparing = FALSE /\ ExitPrepare(r).prepareTimer = 0
    BY <2>1, <2>2 DEF Rounds
  <2> QED BY <1>1, <2>3, <2>4, <2>5 DEF Left
<1>2. CASE ~r.preparing
  BY <1>2 DEF ExitPrepare, Rounds, Left
<1> QED BY <1>1, <1>2

LEMMA ExitAcceptRecord ==
  ASSUME NEW r \in Rounds
  PROVE  /\ ExitAccept(r) \in Rounds
         /\ ExitAccept(r).active = r.active \ Left(r.accepting, r.acceptTimer)
         /\ ExitAccept(r).accepting = FALSE
         /\ ExitAccept(r).acceptTimer = IF r.accepting THEN 0 ELSE r.acceptTimer
         /\ ExitAccept(r).heap = r.heap
         /\ ExitAccept(r).next = r.next
         /\ ExitAccept(r).preparing = r.preparing
         /\ ExitAccept(r).prepareTimer = r.prepareTimer
<1>1. CASE r.accepting
  <2> DEFINE q == RemoveTimer(r, r.acceptTimer)
  <2>1. ExitAccept(r) = [q EXCEPT !.accepting = FALSE, !.acceptTimer = 0]
    BY <1>1 DEF ExitAccept
  <2>2. q \in Rounds /\ 0 \in 0 .. MaxTimer
    BY RemoveTimerRecord, BoundAssumption
  <2>3. /\ q.active = r.active \ {r.acceptTimer} /\ q.heap = r.heap /\ q.next = r.next
        /\ q.preparing = r.preparing /\ q.prepareTimer = r.prepareTimer
    BY RemoveTimerRecord
  <2> HIDE DEF q
  <2>4. ExitAccept(r) \in Rounds
    BY <2>1, <2>2 DEF Rounds
  <2>5. /\ ExitAccept(r).active = q.active /\ ExitAccept(r).heap = q.heap
        /\ ExitAccept(r).next = q.next /\ ExitAccept(r).preparing = q.preparing
        /\ ExitAccept(r).prepareTimer = q.prepareTimer
        /\ ExitAccept(r).accepting = FALSE /\ ExitAccept(r).acceptTimer = 0
    BY <2>1, <2>2 DEF Rounds
  <2> QED BY <1>1, <2>3, <2>4, <2>5 DEF Left
<1>2. CASE ~r.accepting
  BY <1>2 DEF ExitAccept, Rounds, Left
<1> QED BY <1>1, <1>2

LEMMA PrepareRecord ==
  ASSUME NEW r \in Rounds, r.next <= MaxTimer
  PROVE  /\ Prepare(r) \in Rounds
         /\ Prepare(r).active = ((r.active \ Left(r.accepting, r.acceptTimer)) \ {r.prepareTimer}) \cup {r.next}
         /\ Prepare(r).heap = r.heap \cup {[id |-> r.next, type |-> "Prepare"]}
         /\ Prepare(r).next = r.next + 1
         /\ Prepare(r).preparing = TRUE /\ Prepare(r).accepting = FALSE
         /\ Prepare(r).prepareTimer = r.next
         /\ Prepare(r).acceptTimer = IF r.accepting THEN 0 ELSE r.acceptTimer
<1> DEFINE x == ExitAccept(r)
           e == [x EXCEPT !.preparing = TRUE]
           f == RemoveTimer(e, e.prepareTimer)
           g == AddTimer(f, "Prepare")
<1>1. Prepare(r) = [g EXCEPT !.prepareTimer = e.next]
  BY DEF Prepare, AddPrepareTimer
<1>2. /\ x \in Rounds
      /\ x.active = r.active \ Left(r.accepting, r.acceptTimer)
      /\ x.heap = r.heap /\ x.next = r.next
      /\ x.accepting = FALSE /\ x.prepareTimer = r.prepareTimer
      /\ x.acceptTimer = IF r.accepting THEN 0 ELSE r.acceptTimer
  BY ExitAcceptRecord
<1> HIDE DEF x
<1>3. /\ e \in Rounds /\ e.preparing = TRUE
      /\ e.active = x.active /\ e.heap = x.heap /\ e.next = x.next
      /\ e.accepting = x.accepting /\ e.prepareTimer = x.prepareTimer /\ e.acceptTimer = x.acceptTimer
  BY <1>2 DEF Rounds
<1> HIDE DEF e
<1>4. /\ f \in Rounds /\ f.active = e.active \ {e.prepareTimer}
      /\ f.heap = e.heap /\ f.next = e.next /\ f.preparing = e.preparing
      /\ f.accepting = e.accepting /\ f.acceptTimer = e.acceptTimer
  BY <1>3, RemoveTimerRecord
<1> HIDE DEF f
<1>5. f.next <= MaxTimer
  BY <1>2, <1>3, <1>4
<1>6. /\ g \in Rounds /\ g.active = f.active \cup {f.next}
      /\ g.heap = f.heap \cup {[id |-> f.next, type |-> "Prepare"]} /\ g.next = f.next + 1
      /\ g.preparing = f.preparing /\ g.accepting = f.accepting /\ g.acceptTimer = f.acceptTimer
  BY <1>4, <1>5, AddTimerRecord
<1> HIDE DEF g
<1>7. e.next \in 0 .. MaxTimer
  BY <1>3, <1>4, <1>5, BoundAssumption DEF Rounds
<1>8. /\ Prepare(r) \in Rounds /\ Prepare(r).active = g.active /\ Prepare(r).heap = g.heap
      /\ Prepare(r).next = g.next /\ Prepare(r).preparing = g.preparing /\ Prepare(r).accepting = g.accepting
      /\ Prepare(r).prepareTimer = e.next /\ Prepare(r).acceptTimer = g.acceptTimer
  BY <1>1, <1>6, <1>7 DEF Rounds
<1> QED BY <1>2, <1>3, <1>4, <1>6, <1>8

LEMMA AcceptRecord ==
  ASSUME NEW r \in Rounds, r.next <= MaxTimer
  PROVE  /\ Accept(r) \in Rounds
         /\ Accept(r).active = ((r.active \ Left(r.preparing, r.prepareTimer)) \ {r.acceptTimer}) \cup {r.next}
         /\ Accept(r).heap = r.heap \cup {[id |-> r.next, type |-> "Accept"]}
         /\ Accept(r).next = r.next + 1
         /\ Accept(r).accepting = TRUE /\ Accept(r).preparing = FALSE
         /\ Accept(r).acceptTimer = r.next
         /\ Accept(r).prepareTimer = IF r.preparing THEN 0 ELSE r.prepareTimer
<1> DEFINE x == ExitPrepare(r)
           e == [x EXCEPT !.accepting = TRUE]
           f == RemoveTimer(e, e.acceptTimer)
           g == AddTimer(f, "Accept")
<1>1. Accept(r) = [g EXCEPT !.acceptTimer = e.next]
  BY DEF Accept, AddAcceptTimer
<1>2. /\ x \in Rounds
      /\ x.active = r.active \ Left(r.preparing, r.prepareTimer)
      /\ x.heap = r.heap /\ x.next = r.next
      /\ x.preparing = FALSE /\ x.acceptTimer = r.acceptTimer
      /\ x.prepareTimer = IF r.preparing THEN 0 ELSE r.prepareTimer
  BY ExitPrepareRecord
<1> HIDE DEF x
<1>3. /\ e \in Rounds /\ e.accepting = TRUE
      /\ e.active = x.active /\ e.heap = x.heap /\ e.next = x.next
      /\ e.preparing = x.preparing /\ e.acceptTimer = x.acceptTimer /\ e.prepareTimer = x.prepareTimer
  BY <1>2 DEF Rounds
<1> HIDE DEF e
<1>4. /\ f \in Rounds /\ f.active = e.active \ {e.acceptTimer}
      /\ f.heap = e.heap /\ f.next = e.next /\ f.accepting = e.accepting
      /\ f.preparing = e.preparing /\ f.prepareTimer = e.prepareTimer
  BY <1>3, RemoveTimerRecord
<1> HIDE DEF f
<1>5. f.next <= MaxTimer
  BY <1>2, <1>3, <1>4
<1>6. /\ g \in Rounds /\ g.active = f.active \cup {f.next}
      /\ g.heap = f.heap \cup {[id |-> f.next, type |-> "Accept"]} /\ g.next = f.next + 1
      /\ g.accepting = f.accepting /\ g.preparing = f.preparing /\ g.prepareTimer = f.prepareTimer
  BY <1>4, <1>5, AddTimerRecord
<1> HIDE DEF g
<1>7. e.next \in 0 .. MaxTimer
  BY <1>3, <1>4, <1>5, BoundAssumption DEF Rounds
<1>8. /\ Accept(r) \in Rounds /\ Accept(r).active = g.active /\ Accept(r).heap = g.heap
      /\ Accept(r).next = g.next /\ Accept(r).accepting = g.accepting /\ Accept(r).preparing = g.preparing
      /\ Accept(r).acceptTimer = e.next /\ Accept(r).prepareTimer = g.prepareTimer
  BY <1>1, <1>6, <1>7 DEF Rounds
<1> QED BY <1>2, <1>3, <1>4, <1>6, <1>8

LEMMA PoppedRecord ==
  ASSUME NEW r \in Rounds, NEW t
  PROVE  /\ Popped(r, t) \in Rounds
         /\ Popped(r, t).heap = r.heap \ {t}
         /\ Popped(r, t).active = r.active
         /\ Popped(r, t).next = r.next
         /\ Popped(r, t).preparing = r.preparing
         /\ Popped(r, t).accepting = r.accepting
         /\ Popped(r, t).prepareTimer = r.prepareTimer
         /\ Popped(r, t).acceptTimer = r.acceptTimer
BY DEF Popped, Rounds

LEMMA ClearTimersRecord ==
  ASSUME NEW r \in Rounds
  PROVE  /\ ClearTimers(r) \in Rounds
         /\ ClearTimers(r).heap = {}
         /\ ClearTimers(r).active = {}
         /\ ClearTimers(r).next = r.next
         /\ ClearTimers(r).preparing = r.preparing
         /\ ClearTimers(r).accepting = r.accepting
         /\ ClearTimers(r).prepareTimer = r.prepareTimer
         /\ ClearTimers(r).acceptTimer = r.acceptTimer
<1>1. {} \in SUBSET Timer /\ {} \in SUBSET (1 .. MaxTimer)
  OBVIOUS
<1> QED BY <1>1 DEF ClearTimers, Rounds

\* The round that follows a timer.
Restarted(r, t) == Prepare(RemoveTimer(Popped(r, t), t.id))


LEMMA RestartedRecord ==
  ASSUME NEW r \in Rounds, NEW t, r.next <= MaxTimer
  PROVE  /\ Restarted(r, t) \in Rounds
         /\ Restarted(r, t).active =
              (((r.active \ {t.id}) \ Left(r.accepting, r.acceptTimer)) \ {r.prepareTimer})
                \cup {r.next}
         /\ Restarted(r, t).heap = (r.heap \ {t}) \cup {[id |-> r.next, type |-> "Prepare"]}
         /\ Restarted(r, t).next = r.next + 1
         /\ Restarted(r, t).preparing = TRUE /\ Restarted(r, t).accepting = FALSE
         /\ Restarted(r, t).prepareTimer = r.next
         /\ Restarted(r, t).acceptTimer = IF r.accepting THEN 0 ELSE r.acceptTimer
<1> DEFINE p == Popped(r, t)
           q == RemoveTimer(p, t.id)
<1>1. /\ p \in Rounds /\ p.heap = r.heap \ {t} /\ p.active = r.active /\ p.next = r.next
      /\ p.accepting = r.accepting /\ p.prepareTimer = r.prepareTimer
      /\ p.acceptTimer = r.acceptTimer
  BY PoppedRecord
<1> HIDE DEF p
<1>2. /\ q \in Rounds /\ q.heap = p.heap /\ q.active = p.active \ {t.id} /\ q.next = p.next
      /\ q.accepting = p.accepting /\ q.prepareTimer = p.prepareTimer
      /\ q.acceptTimer = p.acceptTimer
  BY <1>1, RemoveTimerRecord
<1>3. Restarted(r, t) = Prepare(q)
  BY DEF Restarted, p
<1> HIDE DEF q
<1>4. q.next <= MaxTimer
  BY <1>1, <1>2
<1>5. /\ Prepare(q) \in Rounds
      /\ Prepare(q).active = ((q.active \ Left(q.accepting, q.acceptTimer))
                                \ {q.prepareTimer}) \cup {q.next}
      /\ Prepare(q).heap = q.heap \cup {[id |-> q.next, type |-> "Prepare"]}
      /\ Prepare(q).next = q.next + 1
      /\ Prepare(q).preparing = TRUE /\ Prepare(q).accepting = FALSE
      /\ Prepare(q).prepareTimer = q.next
      /\ Prepare(q).acceptTimer = IF q.accepting THEN 0 ELSE q.acceptTimer
  BY <1>2, <1>4, PrepareRecord
<1>6. /\ q.heap = r.heap \ {t} /\ q.active = r.active \ {t.id} /\ q.next = r.next
      /\ q.accepting = r.accepting /\ q.prepareTimer = r.prepareTimer
      /\ q.acceptTimer = r.acceptTimer
  BY <1>1, <1>2
<1> QED BY <1>3, <1>5, <1>6

\* Without a phase, no timer is active that a phase had.
LEMMA BothLeftRecord ==
  ASSUME NEW r \in Rounds
  PROVE  LET q == ExitAccept(ExitPrepare(r))
         IN  /\ q \in Rounds /\ q.heap = r.heap /\ q.next = r.next
             /\ q.active = (r.active \ Left(r.preparing, r.prepareTimer))
                             \ Left(r.accepting, r.acceptTimer)
             /\ q.preparing = FALSE /\ q.accepting = FALSE
             /\ q.prepareTimer = IF r.preparing THEN 0 ELSE r.prepareTimer
             /\ q.acceptTimer = IF r.accepting THEN 0 ELSE r.acceptTimer
<1> DEFINE p == ExitPrepare(r)
<1>1. /\ p \in Rounds /\ p.heap = r.heap /\ p.next = r.next
      /\ p.active = r.active \ Left(r.preparing, r.prepareTimer)
      /\ p.preparing = FALSE /\ p.accepting = r.accepting
      /\ p.prepareTimer = IF r.preparing THEN 0 ELSE r.prepareTimer
      /\ p.acceptTimer = r.acceptTimer
  BY ExitPrepareRecord
<1> HIDE DEF p
<1> QED BY <1>1, ExitAcceptRecord DEF p

(****************************************************************************)
(* Type correctness.                                                        *)
(****************************************************************************)
Threads == {"loop", "handle", "stop", "clear", "reset", "internal", "log"}

\* Ids of timers are not used again.
Fresh(r) == \A t \in r.heap : t.id < r.next /\ \A s \in r.heap : s.id = t.id => s = t

Types ==
    /\ rounds \in Rounds /\ Fresh(rounds)
    /\ mapped \in Ids \cup {0} /\ unserved \subseteq Ids /\ internal \in BOOLEAN
    /\ accept \in Ids \cup {0} /\ queue \in Seq(Message)
    /\ config \in Ids \cup {0} /\ ctx \in Ids \cup {0}
    /\ thread \in Threads /\ current \in Message \cup {NoMessage}

LEMMA TypeParts == Types => TypeOK
BY DEF TypeOK, Types, Rounds, Fresh, Threads

LEMMA FreshNext ==
  ASSUME NEW r \in Rounds, Fresh(r), NEW q \in Rounds, NEW type,
         q.next = r.next + 1, q.heap \subseteq r.heap \cup {[id |-> r.next, type |-> type]}
  PROVE  Fresh(q)
<1>1. r.next \in Nat /\ \A t \in r.heap : t.id \in Nat
  BY BoundAssumption DEF Rounds, Timer
<1> QED BY <1>1 DEF Fresh

LEMMA FreshLess ==
  ASSUME NEW r \in Rounds, Fresh(r), NEW q \in Rounds,
         q.next = r.next, q.heap \subseteq r.heap
  PROVE  Fresh(q)
BY DEF Fresh

\* No timer id is given out, or one.
LEMMA FreshStart ==
  ASSUME NEW r \in Rounds, Fresh(r), r.next <= MaxTimer
  PROVE  /\ Prepare(r) \in Rounds /\ Fresh(Prepare(r))
         /\ Accept(r) \in Rounds /\ Fresh(Accept(r))
BY PrepareRecord, AcceptRecord, FreshNext

LEMMA FreshLeave ==
  ASSUME NEW r \in Rounds, Fresh(r)
  PROVE  /\ ExitAccept(r) \in Rounds /\ Fresh(ExitAccept(r))
         /\ ExitAccept(ExitPrepare(r)) \in Rounds /\ Fresh(ExitAccept(ExitPrepare(r)))
         /\ ExitAccept(ExitPrepare(r)).next = r.next
         /\ ResetProposer(r) \in Rounds /\ Fresh(ResetProposer(r))
BY ExitAcceptRecord, BothLeftRecord, FreshLess DEF ResetProposer

LEMMA FreshTimer ==
  ASSUME NEW r \in Rounds, Fresh(r), NEW t
  PROVE  /\ Popped(r, t) \in Rounds /\ Fresh(Popped(r, t))
         /\ ClearTimers(r) \in Rounds /\ Fresh(ClearTimers(r))
         /\ r.next <= MaxTimer => Restarted(r, t) \in Rounds /\ Fresh(Restarted(r, t))
<1>1. Popped(r, t) \in Rounds /\ Fresh(Popped(r, t))
  BY PoppedRecord, FreshLess
<1>2. ClearTimers(r) \in Rounds /\ Fresh(ClearTimers(r))
  BY ClearTimersRecord, FreshLess
<1>3. ASSUME r.next <= MaxTimer
      PROVE  Restarted(r, t) \in Rounds /\ Fresh(Restarted(r, t))
  <2> DEFINE q == Restarted(r, t)
  <2>1. /\ q \in Rounds /\ q.next = r.next + 1
        /\ q.heap = (r.heap \ {t}) \cup {[id |-> r.next, type |-> "Prepare"]}
    BY <1>3, RestartedRecord
  <2> HIDE DEF q
  <2>2. q.heap \subseteq r.heap \cup {[id |-> r.next, type |-> "Prepare"]}
    BY <2>1
  <2>3. Fresh(q)
    BY <2>1, <2>2, FreshNext
  <2> QED BY <2>1, <2>3 DEF q
<1> QED BY <1>1, <1>2, <1>3

\* The first message of an id.
LEMMA AddedTypes ==
  ASSUME queue \in Seq(Message), NEW m \in Message, NEW back \in BOOLEAN
  PROVE  Added(queue, m, back) \in Seq(Message)
<1>1. CASE back
  BY <1>1 DEF Added
<1>2. CASE ~back
  <2>1. <<m>> \in Seq(Message)
    OBVIOUS
  <2>2. Added(queue, m, back) = <<m>> \o queue
    BY <1>2 DEF Added
  <2> QED BY <2>1, <2>2
<1> QED BY <1>1, <1>2

LEMMA TypeInit == Init => Types
<1> SUFFICES ASSUME Init PROVE Types
  OBVIOUS
<1>1. NoTimers = [NoTimers EXCEPT !.next = 1] /\ NoTimers.next = 1
  BY DEF NoTimers
<1>2. 1 \in 1 .. MaxTimer + 1
  BY BoundAssumption
<1>3. NoTimers \in Rounds /\ Fresh(NoTimers)
  BY <1>1, <1>2, InitialRounds DEF NoTimers, Fresh
<1>4. rounds \in Rounds /\ Fresh(rounds)
  BY <1>3 DEF Init
<1>5. queue \in Seq(Message)
  BY DEF Init
<1>6. mapped = 0 /\ unserved = Ids /\ internal = FALSE /\ accept = 0 /\ config = 0 /\ ctx = 0
  BY DEF Init
<1>7. thread \in Threads /\ current \in Message \cup {NoMessage}
  BY DEF Init, Threads
<1> QED BY <1>4, <1>5, <1>6, <1>7 DEF Types

LEMMA TypeGroupStep ==
  ASSUME Types, GroupStep
  PROVE  Types'
<1> USE DEF Types
<1>1. ASSUME NEW id \in unserved, AllocateForClient(id)
      PROVE  Types'
  <2>1. [id |-> id, type |-> "NewProposal"] \in Message /\ FALSE \in BOOLEAN
    BY DEF Message
  <2>2. queue' \in Seq(Message)
    BY <1>1, <2>1, AddedTypes DEF AllocateForClient, AddMessage
  <2> QED BY <1>1, <2>2 DEF AllocateForClient, InitForNewInstance
<1>2. ASSUME NEW id \in unserved, NEW type \in PeerTypes, AllocateForMessage(id, type)
      PROVE  Types'
  <2>1. [id |-> id, type |-> type] \in Message /\ TRUE \in BOOLEAN
    BY DEF Message
  <2>2. queue' \in Seq(Message)
    BY <1>2, <2>1, AddedTypes DEF AllocateForMessage, AddMessage
  <2> QED BY <1>2, <2>2 DEF AllocateForMessage, InitForNewInstance
<1>3. ASSUME NEW type \in PeerTypes, OnReceiveNewMessage(type)
      PROVE  Types'
  <2>1. [id |-> mapped, type |-> type] \in Message /\ TRUE \in BOOLEAN
    BY <1>3 DEF Message, OnReceiveNewMessage
  <2>2. queue' \in Seq(Message)
    BY <1>3, <2>1, AddedTypes DEF OnReceiveNewMessage, AddMessage
  <2> QED BY <1>3, <2>2 DEF OnReceiveNewMessage, groupVars, instanceVars
<1>4. ASSUME OnInternalMessage
      PROVE  Types'
  BY <1>4 DEF OnInternalMessage, loopVars, instanceVars
<1> QED BY <1>1, <1>2, <1>3, <1>4 DEF GroupStep

LEMMA TypeInstanceStep ==
  ASSUME Types, InstanceStep
  PROVE  Types'
<1> USE DEF Types, Threads, groupVars, loopVars, instanceVars
<1>1. ASSUME NEW t \in rounds.heap, DealWithTimeout(t)
      PROVE  Types'
  <2>1. rounds' = Popped(rounds, t) \/ (rounds.next <= MaxTimer /\ rounds' = Restarted(rounds, t))
    BY <1>1 DEF DealWithTimeout, Restarted
  <2>2. rounds' \in Rounds /\ Fresh(rounds')
    BY <2>1, FreshTimer
  <2> QED BY <1>1, <2>2 DEF DealWithTimeout
<1>2. ASSUME DealWithMessage
      PROVE  Types'
  <2>1. Head(queue) \in Message /\ Tail(queue) \in Seq(Message)
    BY <1>2 DEF DealWithMessage
  <2> QED BY <1>2, <2>1 DEF DealWithMessage
<1>3. ASSUME IOLoopOnMessage
      PROVE  Types'
  <2> DEFINE r == ExitAccept(ExitPrepare(rounds))
  <2>1. \/ rounds.next <= MaxTimer /\ rounds' \in {Prepare(r), Accept(r)}
        \/ rounds.next <= MaxTimer /\ rounds' = Accept(rounds)
        \/ rounds' = ExitAccept(rounds)
        \/ rounds' = rounds
    BY <1>3 DEF IOLoopOnMessage
  <2>2. r \in Rounds /\ Fresh(r) /\ r.next = rounds.next
    BY FreshLeave
  <2>3. rounds' \in Rounds /\ Fresh(rounds')
    BY <2>1, <2>2, FreshLeave, FreshStart
  <2> QED BY <1>3, <2>3 DEF IOLoopOnMessage
<1>4. ASSUME StopAccepting
      PROVE  Types'
  BY <1>4 DEF StopAccepting
<1>5. ASSUME Clear
      PROVE  Types'
  BY <1>5, FreshTimer DEF Clear
<1>6. ASSUME ResetMembers
      PROVE  Types'
  BY <1>6, FreshLeave DEF ResetMembers
<1>7. ASSUME QueueInternal \/ LogAndNotify
      PROVE  Types'
  BY <1>7 DEF QueueInternal, LogAndNotify
<1> QED BY <1>1, <1>2, <1>3, <1>4, <1>5, <1>6, <1>7 DEF InstanceStep, EndStep

LEMMA TypeStep ==
  ASSUME Types, [Next]_vars
  PROVE  Types'
<1>1. CASE UNCHANGED vars
  BY <1>1 DEF Types, vars, groupVars, loopVars, instanceVars
<1> QED BY <1>1, TypeGroupStep, TypeInstanceStep DEF Next

\* The types of all variables, and that a timer id is used once (Timers::AddTimer).
THEOREM LoopTypeCorrect == Spec => []TypeOK
<1>1. Types /\ [Next]_vars => Types'
  BY TypeStep
<1>2. Types => TypeOK
  BY TypeParts
<1> QED BY <1>1, <1>2, TypeInit, PTL DEF Spec

(****************************************************************************)
(* The inductive invariant: the phases and their timers, the stage of the   *)
(* object in the life of an id, and the messages it holds.                  *)
(****************************************************************************)
RoundOf(r) == IF r.preparing THEN r.prepareTimer ELSE IF r.accepting THEN r.acceptTimer ELSE 0

NoPhase(r) == r.preparing = FALSE /\ r.accepting = FALSE

\* At most one phase; without a phase, its timer is 0.
Phases(r) == /\ r.preparing = FALSE \/ r.accepting = FALSE
             /\ r.preparing = FALSE => r.prepareTimer = 0
             /\ r.accepting = FALSE => r.acceptTimer = 0

\* One active timer, which the heap holds, as long as there is a phase.
Armed(r) == /\ r.active = {RoundOf(r)} \ {0}
            /\ r.preparing = TRUE => [id |-> r.prepareTimer, type |-> "Prepare"] \in r.heap
            /\ r.accepting = TRUE => [id |-> r.acceptTimer, type |-> "Accept"] \in r.heap

\* In the pool.
Pooled == /\ mapped = 0 /\ internal = FALSE /\ thread \in {"loop", "log"}
          /\ accept = 0 /\ config = 0 /\ ctx = 0 /\ queue = <<>> /\ IsIdle(rounds)

\* Serving an id, possibly before its thread is done with the one before.
Serves == /\ mapped # 0 /\ internal = FALSE /\ thread \in {"loop", "handle", "stop", "log"}
          /\ accept = mapped /\ config = mapped /\ ctx \in {0, mapped}

\* Between the two halves of Reset.
Ends == /\ mapped # 0 /\ internal = FALSE /\ thread \in {"clear", "reset"}
        /\ accept = 0 /\ config = mapped /\ ctx = 0
        /\ thread = "reset" => queue = <<>> /\ rounds.heap = {} /\ rounds.active = {}

\* Reset, but not yet back in the pool: the group still dispatches to it.
Ended == /\ mapped # 0 /\ accept = 0 /\ config = 0 /\ ctx = 0 /\ queue = <<>> /\ IsIdle(rounds)
         /\ \/ internal = FALSE /\ thread = "internal"
            \/ internal = TRUE /\ thread \in {"log", "loop"}

StageInv == Pooled \/ Serves \/ Ends \/ Ended

\* The message in hand and those in the queue are of the id served; a NewProposal
\* is the first one, and comes before every round.
MessageInv ==
    /\ thread = "handle" <=> current # NoMessage
    /\ current # NoMessage =>
         /\ current.id = mapped
         /\ current.type = "NewProposal" => ctx = mapped /\ NoPhase(rounds)
    /\ \A k \in 1 .. Len(queue) :
         /\ queue[k].id = mapped
         /\ queue[k].type = "NewProposal" =>
              k = 1 /\ ctx = mapped /\ NoPhase(rounds) /\ thread \in {"loop", "log"}

RoundInv == Phases(rounds) /\ (thread # "reset" => Armed(rounds))

LoopInv == StageInv /\ MessageInv /\ RoundInv

\* Every way to start, restart or leave a round keeps one armed timer at most.
LEMMA StartArmed ==
  ASSUME NEW r \in Rounds, r.next <= MaxTimer, Phases(r), Armed(r)
  PROVE  /\ Phases(Prepare(r)) /\ Armed(Prepare(r))
         /\ Phases(Accept(r)) /\ Armed(Accept(r))
<1>1. r.next # 0
  BY BoundAssumption DEF Rounds
<1> DEFINE p == Prepare(r)
           a == Accept(r)
<1>2. /\ p.active = ((r.active \ Left(r.accepting, r.acceptTimer)) \ {r.prepareTimer}) \cup {r.next}
      /\ p.heap = r.heap \cup {[id |-> r.next, type |-> "Prepare"]}
      /\ p.preparing = TRUE /\ p.accepting = FALSE /\ p.prepareTimer = r.next
      /\ p.acceptTimer = IF r.accepting THEN 0 ELSE r.acceptTimer
  BY PrepareRecord
<1>3. /\ a.active = ((r.active \ Left(r.preparing, r.prepareTimer)) \ {r.acceptTimer}) \cup {r.next}
      /\ a.heap = r.heap \cup {[id |-> r.next, type |-> "Accept"]}
      /\ a.accepting = TRUE /\ a.preparing = FALSE /\ a.acceptTimer = r.next
      /\ a.prepareTimer = IF r.preparing THEN 0 ELSE r.prepareTimer
  BY AcceptRecord
<1>4. r.preparing \in BOOLEAN /\ r.accepting \in BOOLEAN
  BY DEF Rounds
<1> HIDE DEF p, a
<1>5. /\ (r.active \ Left(r.accepting, r.acceptTimer)) \ {r.prepareTimer} = {}
      /\ (r.active \ Left(r.preparing, r.prepareTimer)) \ {r.acceptTimer} = {}
  BY <1>4 DEF Phases, Armed, RoundOf, Left
<1>6. p.active = {r.next} /\ a.active = {r.next}
  BY <1>2, <1>3, <1>5
<1>7. Phases(p) /\ Phases(a)
  BY <1>2, <1>3, <1>4 DEF Phases
<1>8. RoundOf(p) = r.next /\ RoundOf(a) = r.next
  BY <1>2, <1>3 DEF RoundOf
<1>9. Armed(p) /\ Armed(a)
  BY <1>1, <1>2, <1>3, <1>6, <1>8 DEF Armed
<1> QED BY <1>7, <1>9 DEF p, a

LEMMA LeaveArmed ==
  ASSUME NEW r \in Rounds, Phases(r), Armed(r)
  PROVE  /\ LET q == ExitAccept(ExitPrepare(r))
            IN  Phases(q) /\ Armed(q) /\ NoPhase(q)
         /\ r.accepting = TRUE =>
              Phases(ExitAccept(r)) /\ Armed(ExitAccept(r))
<1> DEFINE q == ExitAccept(ExitPrepare(r))
           a == ExitAccept(r)
<1>1. /\ q.active = (r.active \ Left(r.preparing, r.prepareTimer)) \ Left(r.accepting, r.acceptTimer)
      /\ NoPhase(q)
      /\ q.prepareTimer = IF r.preparing THEN 0 ELSE r.prepareTimer
      /\ q.acceptTimer = IF r.accepting THEN 0 ELSE r.acceptTimer
  BY BothLeftRecord DEF NoPhase
<1>2. /\ a.active = r.active \ Left(r.accepting, r.acceptTimer)
      /\ a.accepting = FALSE /\ a.preparing = r.preparing
      /\ a.acceptTimer = IF r.accepting THEN 0 ELSE r.acceptTimer
      /\ a.prepareTimer = r.prepareTimer
  BY ExitAcceptRecord
<1>3. r.preparing \in BOOLEAN /\ r.accepting \in BOOLEAN
  BY DEF Rounds
<1> HIDE DEF q, a
<1>4. q.active = {}
  BY <1>1, <1>3 DEF Phases, Armed, RoundOf, Left
<1>5. Phases(q) /\ RoundOf(q) = 0
  BY <1>1, <1>3 DEF Phases, RoundOf, NoPhase
<1>6. Armed(q)
  BY <1>1, <1>4, <1>5 DEF Armed, NoPhase
<1>7. ASSUME r.accepting = TRUE
      PROVE  Phases(a) /\ Armed(a)
  <2>1. r.preparing = FALSE /\ r.prepareTimer = 0
    BY <1>7 DEF Phases
  <2>2. a.active = {} /\ RoundOf(a) = 0
    BY <1>2, <1>7, <2>1 DEF Armed, RoundOf, Left
  <2>3. Phases(a)
    BY <1>2, <1>7, <2>1 DEF Phases
  <2> QED BY <1>2, <2>1, <2>2, <2>3 DEF Armed
<1> QED BY <1>1, <1>5, <1>6, <1>7 DEF q, a

LEMMA TimeoutArmed ==
  ASSUME NEW r \in Rounds, Phases(r), Armed(r), NEW t
  PROVE  /\ t.id \notin r.active => Phases(Popped(r, t)) /\ Armed(Popped(r, t))
         /\ t.id \in r.active /\ r.next <= MaxTimer =>
              Phases(Restarted(r, t)) /\ Armed(Restarted(r, t))
<1>1. ASSUME t.id \notin r.active
      PROVE  Phases(Popped(r, t)) /\ Armed(Popped(r, t))
  <2> DEFINE q == Popped(r, t)
  <2>1. /\ q.heap = r.heap \ {t} /\ q.active = r.active
        /\ q.preparing = r.preparing /\ q.accepting = r.accepting
        /\ q.prepareTimer = r.prepareTimer /\ q.acceptTimer = r.acceptTimer
    BY PoppedRecord
  <2> HIDE DEF q
  <2>2. Phases(q) /\ RoundOf(q) = RoundOf(r)
    BY <2>1 DEF Phases, RoundOf
  <2>3. ASSUME r.preparing = TRUE
        PROVE  [id |-> r.prepareTimer, type |-> "Prepare"] \in q.heap
    <3>1. [id |-> r.prepareTimer, type |-> "Prepare"] \in r.heap
      BY <2>3 DEF Armed
    <3>2. r.prepareTimer # 0
      BY <3>1 DEF Rounds, Timer
    <3>3. r.prepareTimer \in r.active
      BY <2>3, <3>2 DEF Armed, RoundOf
    <3> QED BY <1>1, <2>1, <3>1, <3>3
  <2>4. ASSUME r.accepting = TRUE
        PROVE  [id |-> r.acceptTimer, type |-> "Accept"] \in q.heap
    <3>1. [id |-> r.acceptTimer, type |-> "Accept"] \in r.heap
      BY <2>4 DEF Armed
    <3>2. r.acceptTimer # 0
      BY <3>1 DEF Rounds, Timer
    <3>3. r.acceptTimer \in r.active
      BY <2>4, <3>2 DEF Armed, RoundOf, Phases
    <3> QED BY <1>1, <2>1, <3>1, <3>3
  <2>5. Armed(q)
    BY <2>1, <2>2, <2>3, <2>4 DEF Armed
  <2> QED BY <2>2, <2>5 DEF q
<1>2. ASSUME t.id \in r.active, r.next <= MaxTimer
      PROVE  Phases(Restarted(r, t)) /\ Armed(Restarted(r, t))
  <2> DEFINE q == Restarted(r, t)
  <2>1. /\ q.active = (((r.active \ {t.id}) \ Left(r.accepting, r.acceptTimer)) \ {r.prepareTimer})
                        \cup {r.next}
        /\ q.heap = (r.heap \ {t}) \cup {[id |-> r.next, type |-> "Prepare"]}
        /\ q.preparing = TRUE /\ q.accepting = FALSE
        /\ q.prepareTimer = r.next
        /\ q.acceptTimer = IF r.accepting THEN 0 ELSE r.acceptTimer
    BY <1>2, RestartedRecord
  <2>2. r.next # 0 /\ r.accepting \in BOOLEAN
    BY BoundAssumption DEF Rounds
  <2> HIDE DEF q
  <2>3. r.active \ {t.id} = {}
    BY <1>2 DEF Armed
  <2>4. q.active = {r.next} /\ RoundOf(q) = r.next
    BY <2>1, <2>3 DEF RoundOf
  <2>5. Phases(q)
    BY <2>1, <2>2 DEF Phases
  <2>6. Armed(q)
    BY <2>1, <2>2, <2>4 DEF Armed
  <2> QED BY <2>5, <2>6 DEF q
<1> QED BY <1>1, <1>2

LEMMA IdleArmed ==
  ASSUME NEW r, IsIdle(r)
  PROVE  Phases(r) /\ Armed(r) /\ NoPhase(r)
BY DEF IsIdle, Phases, Armed, RoundOf, NoPhase

\* ClearTimers, then ResetProposer: nothing is left.
LEMMA ClearedIdle ==
  ASSUME NEW r \in Rounds, Phases(r)
  PROVE  /\ Phases(ClearTimers(r))
         /\ r.heap = {} /\ r.active = {} => IsIdle(ResetProposer(r))
<1>1. Phases(ClearTimers(r))
  BY ClearTimersRecord DEF Phases
<1>2. ASSUME r.heap = {}, r.active = {}
      PROVE  IsIdle(ResetProposer(r))
  <2> DEFINE q == ExitAccept(ExitPrepare(r))
  <2>1. /\ q.heap = r.heap
        /\ q.active = (r.active \ Left(r.preparing, r.prepareTimer)) \ Left(r.accepting, r.acceptTimer)
        /\ q.preparing = FALSE /\ q.accepting = FALSE
        /\ q.prepareTimer = IF r.preparing THEN 0 ELSE r.prepareTimer
        /\ q.acceptTimer = IF r.accepting THEN 0 ELSE r.acceptTimer
    BY BothLeftRecord
  <2>2. r.preparing \in BOOLEAN /\ r.accepting \in BOOLEAN
    BY DEF Rounds
  <2> HIDE DEF q
  <2>3. IsIdle(q)
    BY <1>2, <2>1, <2>2 DEF IsIdle, Phases
  <2> QED BY <2>3 DEF q, ResetProposer
<1> QED BY <1>1, <1>2

\* The inductive invariant at the start.
LEMMA InitInv == Init => LoopInv
<1> SUFFICES ASSUME Init PROVE LoopInv
  OBVIOUS
<1>1. IsIdle(rounds)
  BY DEF Init, NoTimers, IsIdle
<1>2. StageInv
  BY <1>1 DEF Init, StageInv, Pooled
<1>3. Len(queue) = 0
  BY DEF Init
<1>4. MessageInv
  BY <1>3 DEF Init, MessageInv
<1>5. RoundInv
  BY <1>1, IdleArmed DEF RoundInv
<1> QED BY <1>2, <1>4, <1>5 DEF LoopInv

\* The first message of an id finds an object of the pool.
LEMMA BeginInv ==
  ASSUME Types, LoopInv, NEW id \in Ids, NEW m \in Message, NEW back \in BOOLEAN,
         InitForNewInstance(id), m.id = id, AddMessage(m, back),
         m.type = "NewProposal" => ctx' = id, ctx' \in {0, id},
         UNCHANGED <<internal, thread, current, rounds>>
  PROVE  LoopInv'
<1>1. Pooled /\ id # 0
  BY IdsAssumption DEF InitForNewInstance, LoopInv, StageInv, Pooled, Serves, Ends, Ended
<1>2. mapped' = id /\ accept' = id /\ config' = id
  BY DEF InitForNewInstance
<1>3. queue' = <<m>>
  <2>1. queue' = Added(<<>>, m, back)
    BY <1>1, <1>2 DEF AddMessage, Pooled
  <2>2. Append(<<>>, m) = <<m>> /\ <<m>> \o <<>> = <<m>>
    OBVIOUS
  <2> QED BY <2>1, <2>2 DEF Added
<1>4. Serves'
  BY <1>1, <1>2 DEF Pooled, Serves
<1>5. NoPhase(rounds) /\ Phases(rounds) /\ Armed(rounds)
  BY <1>1, IdleArmed DEF Pooled
<1>6. Len(queue') = 1 /\ queue'[1] = m
  BY <1>3
<1>7. current' = NoMessage /\ thread' \in {"loop", "log"}
  BY <1>1 DEF Pooled, LoopInv, MessageInv
<1>8. \A k \in 1 .. Len(queue') :
        /\ queue'[k].id = mapped'
        /\ queue'[k].type = "NewProposal" =>
             k = 1 /\ ctx' = mapped' /\ NoPhase(rounds') /\ thread' \in {"loop", "log"}
  BY <1>2, <1>5, <1>6, <1>7
<1>9. MessageInv'
  BY <1>7, <1>8 DEF MessageInv
<1>10. RoundInv'
  BY <1>5 DEF RoundInv
<1> QED BY <1>4, <1>9, <1>10 DEF LoopInv, StageInv

LEMMA GroupStepInv ==
  ASSUME Types, LoopInv, GroupStep
  PROVE  LoopInv'
<1>1. ASSUME NEW id \in unserved, AllocateForClient(id)
      PROVE  LoopInv'
  <2> DEFINE m == [id |-> id, type |-> "NewProposal"]
  <2>1. id \in Ids /\ m \in Message /\ m.id = id
    BY DEF Types, Message
  <2>2. ctx' = id /\ InitForNewInstance(id) /\ AddMessage(m, FALSE)
    BY <1>1 DEF AllocateForClient
  <2>3. UNCHANGED <<internal, thread, current, rounds>>
    BY <1>1 DEF AllocateForClient
  <2> HIDE DEF m
  <2> QED BY <2>1, <2>2, <2>3, BeginInv
<1>2. ASSUME NEW id \in unserved, NEW type \in PeerTypes, AllocateForMessage(id, type)
      PROVE  LoopInv'
  <2> DEFINE m == [id |-> id, type |-> type]
  <2>1. id \in Ids /\ m \in Message /\ m.id = id /\ m.type # "NewProposal"
    BY TypesAssumption DEF Types, Message, AllTypes
  <2>2. ctx' = ctx /\ InitForNewInstance(id) /\ AddMessage(m, TRUE)
    BY <1>2 DEF AllocateForMessage
  <2>3. UNCHANGED <<internal, thread, current, rounds>>
    BY <1>2 DEF AllocateForMessage
  <2>4. ctx = 0
    BY <2>2, IdsAssumption
       DEF InitForNewInstance, LoopInv, StageInv, Pooled, Serves, Ends, Ended
  <2> HIDE DEF m
  <2> QED BY <2>1, <2>2, <2>3, <2>4, BeginInv
<1>3. ASSUME NEW type \in PeerTypes, OnReceiveNewMessage(type)
      PROVE  LoopInv'
  <2> DEFINE m == [id |-> mapped, type |-> type]
  <2>1. m.id = mapped /\ m.type # "NewProposal" /\ m \in Message /\ queue \in Seq(Message)
    BY <1>3, TypesAssumption DEF AllTypes, Types, Message, OnReceiveNewMessage
  <2>2. /\ mapped # 0
        /\ UNCHANGED <<mapped, internal, accept, config, ctx, thread, current, rounds>>
    BY <1>3 DEF OnReceiveNewMessage, groupVars, instanceVars
  <2>3. queue' = IF m.id = accept THEN Append(queue, m) ELSE queue
    BY <1>3, <2>2 DEF OnReceiveNewMessage, AddMessage, Added
  <2> HIDE DEF m
  <2>4. CASE Serves
    <3>1. Serves'
      BY <2>2, <2>4 DEF Serves
    <3>2. queue' = Append(queue, m)
      BY <2>1, <2>3, <2>4 DEF Serves
    <3>3. /\ Len(queue') = Len(queue) + 1 /\ queue'[Len(queue) + 1] = m
          /\ \A k \in 1 .. Len(queue) : queue'[k] = queue[k]
      BY <2>1, <3>2
    <3>4. \A k \in 1 .. Len(queue') : k \in 1 .. Len(queue) \/ k = Len(queue) + 1
      BY <2>1, <3>3
    <3>5. \A k \in 1 .. Len(queue') :
            /\ queue'[k].id = mapped'
            /\ queue'[k].type = "NewProposal" =>
                 k = 1 /\ ctx' = mapped' /\ NoPhase(rounds') /\ thread' \in {"loop", "log"}
      BY <2>1, <2>2, <3>3, <3>4 DEF LoopInv, MessageInv
    <3>6. MessageInv' /\ RoundInv'
      BY <2>2, <3>5 DEF LoopInv, MessageInv, RoundInv
    <3> QED BY <3>1, <3>6 DEF LoopInv, StageInv
  <2>5. CASE ~Serves
    <3>1. Ends \/ Ended
      BY <2>2, <2>5 DEF LoopInv, StageInv, Pooled
    <3>2. queue' = queue
      BY <2>1, <2>2, <2>3, <3>1 DEF Ends, Ended
    <3>3. StageInv' /\ MessageInv' /\ RoundInv'
      BY <2>2, <3>1, <3>2 DEF LoopInv, StageInv, MessageInv, RoundInv, Ends, Ended
    <3> QED BY <3>3 DEF LoopInv
  <2> QED BY <2>4, <2>5
<1>4. ASSUME OnInternalMessage
      PROVE  LoopInv'
  <2>1. /\ internal /\ internal' = FALSE /\ mapped' = 0
        /\ UNCHANGED <<accept, queue, config, ctx, thread, current, rounds>>
    BY <1>4 DEF OnInternalMessage, loopVars, instanceVars
  <2>2. Ended /\ thread \in {"log", "loop"}
    BY <2>1 DEF LoopInv, StageInv, Pooled, Serves, Ends, Ended
  <2>3. Pooled'
    BY <2>1, <2>2 DEF Ended, Pooled
  <2>4. Len(queue') = 0 /\ current' = NoMessage
    BY <2>1, <2>2 DEF Ended, LoopInv, MessageInv
  <2>5. MessageInv' /\ RoundInv'
    BY <2>1, <2>2, <2>4 DEF LoopInv, MessageInv, RoundInv
  <2> QED BY <2>3, <2>5 DEF LoopInv, StageInv
<1> QED BY <1>1, <1>2, <1>3, <1>4 DEF GroupStep

LEMMA TimeoutInv ==
  ASSUME Types, LoopInv, NEW t \in rounds.heap, DealWithTimeout(t)
  PROVE  LoopInv'
<1>1. /\ thread = "loop"
      /\ \/ t.id \notin rounds.active /\ rounds' = Popped(rounds, t)
         \/ t.id \in rounds.active /\ rounds.next <= MaxTimer /\ rounds' = Restarted(rounds, t)
      /\ UNCHANGED <<mapped, internal, accept, queue, config, ctx, thread, current>>
  BY DEF DealWithTimeout, Restarted, groupVars, loopVars, instanceVars
<1>2. Phases(rounds) /\ Armed(rounds) /\ rounds \in Rounds
  BY <1>1 DEF LoopInv, RoundInv, Types
<1>3. Phases(rounds') /\ Armed(rounds')
  BY <1>1, <1>2, TimeoutArmed
<1>4. Serves
  BY <1>1 DEF LoopInv, StageInv, Pooled, Ends, Ended, IsIdle
<1>5. Serves'
  BY <1>1, <1>4 DEF Serves
<1>6. NoPhase(rounds) => NoPhase(rounds')
  <2>1. ASSUME NoPhase(rounds)
        PROVE  t.id \notin rounds.active
    <3>1. rounds.active = {}
      BY <1>2, <2>1 DEF Armed, RoundOf, NoPhase
    <3> QED BY <3>1
  <2>2. ASSUME NoPhase(rounds)
        PROVE  NoPhase(rounds')
    <3>1. rounds' = Popped(rounds, t)
      BY <1>1, <2>1, <2>2
    <3>2. Popped(rounds, t).preparing = rounds.preparing /\ Popped(rounds, t).accepting = rounds.accepting
      BY <1>2, PoppedRecord
    <3> QED BY <2>2, <3>1, <3>2 DEF NoPhase
  <2> QED BY <2>2
<1>7. MessageInv'
  BY <1>1, <1>6 DEF LoopInv, MessageInv
<1> QED BY <1>3, <1>5, <1>7 DEF LoopInv, StageInv, RoundInv

LEMMA TakeInv ==
  ASSUME Types, LoopInv, DealWithMessage
  PROVE  LoopInv'
<1>1. /\ thread = "loop" /\ queue # <<>> /\ thread' = "handle"
      /\ current' = Head(queue) /\ queue' = Tail(queue)
      /\ UNCHANGED <<mapped, internal, accept, config, ctx, rounds>>
  BY DEF DealWithMessage, groupVars, instanceVars
<1>2. Serves
  BY <1>1 DEF LoopInv, StageInv, Pooled, Ends, Ended
<1>3. Serves'
  BY <1>1, <1>2 DEF Serves
<1>4. queue \in Seq(Message)
  BY DEF Types
<1>5. /\ 1 \in 1 .. Len(queue) /\ Head(queue) = queue[1]
      /\ \A k \in 1 .. Len(Tail(queue)) : k + 1 \in 1 .. Len(queue) /\ Tail(queue)[k] = queue[k + 1] /\ k + 1 # 1
  BY <1>1, <1>4
<1>6. current' # NoMessage
  <2>1. Head(queue) \in Message
    BY <1>1, <1>4
  <2>2. current'.type \in PeerTypes \cup {"NewProposal"}
    BY <1>1, <2>1 DEF Message
  <2>3. "none" \notin PeerTypes \cup {"NewProposal"}
    BY TypesAssumption DEF AllTypes
  <2> QED BY <2>2, <2>3 DEF NoMessage
<1>7. \A k \in 1 .. Len(queue) :
         /\ queue[k].id = mapped
         /\ queue[k].type = "NewProposal" => k = 1 /\ ctx = mapped /\ NoPhase(rounds)
  BY DEF LoopInv, MessageInv
<1>8. \A k \in 1 .. Len(queue') : queue'[k].id = mapped' /\ queue'[k].type # "NewProposal"
  BY <1>1, <1>5, <1>7
<1>9. current'.id = mapped' /\ (current'.type = "NewProposal" => ctx' = mapped' /\ NoPhase(rounds'))
  BY <1>1, <1>5, <1>7
<1>10. MessageInv'
  BY <1>1, <1>6, <1>8, <1>9 DEF MessageInv
<1>11. RoundInv'
  BY <1>1 DEF LoopInv, RoundInv
<1> QED BY <1>3, <1>10, <1>11 DEF LoopInv, StageInv

LEMMA HandleInv ==
  ASSUME Types, LoopInv, IOLoopOnMessage
  PROVE  LoopInv'
<1>1. /\ thread = "handle" /\ current' = NoMessage /\ thread' \in {"loop", "stop"}
      /\ UNCHANGED <<mapped, internal, accept, queue, config, ctx>>
  BY DEF IOLoopOnMessage, groupVars, loopVars, instanceVars
<1>2. Phases(rounds) /\ Armed(rounds) /\ rounds \in Rounds
  BY <1>1 DEF LoopInv, RoundInv, Types
<1>3. Phases(rounds') /\ Armed(rounds')
  <2> DEFINE r == ExitAccept(ExitPrepare(rounds))
  <2>1. \/ rounds.next <= MaxTimer /\ rounds' \in {Prepare(r), Accept(r)}
        \/ rounds.next <= MaxTimer /\ rounds' = Accept(rounds)
        \/ rounds.accepting = TRUE /\ rounds' = ExitAccept(rounds)
        \/ rounds' = rounds
    <3>1. rounds.accepting \in BOOLEAN
      BY <1>2 DEF Rounds
    <3> QED BY <3>1 DEF IOLoopOnMessage
  <2>2. r \in Rounds /\ r.next = rounds.next /\ Phases(r) /\ Armed(r)
    BY <1>2, BothLeftRecord, LeaveArmed
  <2> HIDE DEF r
  <2> QED BY <1>2, <2>1, <2>2, LeaveArmed, StartArmed
<1>4. Serves
  BY <1>1 DEF LoopInv, StageInv, Pooled, Ends, Ended
<1>5. Serves'
  BY <1>1, <1>4 DEF Serves
<1>6. MessageInv'
  BY <1>1 DEF LoopInv, MessageInv
<1> QED BY <1>3, <1>5, <1>6 DEF LoopInv, StageInv, RoundInv

LEMMA EndInv ==
  ASSUME Types, LoopInv, EndStep
  PROVE  LoopInv'
<1>1. ASSUME StopAccepting
      PROVE  LoopInv'
  <2>1. /\ thread = "stop" /\ thread' = "clear" /\ ctx' = 0 /\ accept' = 0
        /\ UNCHANGED <<mapped, internal, queue, config, current, rounds>>
    BY <1>1 DEF StopAccepting, groupVars
  <2>2. Serves
    BY <2>1 DEF LoopInv, StageInv, Pooled, Ends, Ended
  <2>3. Ends'
    BY <2>1, <2>2 DEF Serves, Ends
  <2>4. MessageInv' /\ RoundInv'
    BY <2>1 DEF LoopInv, MessageInv, RoundInv
  <2> QED BY <2>3, <2>4 DEF LoopInv, StageInv
<1>2. ASSUME Clear
      PROVE  LoopInv'
  <2>1. /\ thread = "clear" /\ thread' = "reset" /\ queue' = <<>> /\ rounds' = ClearTimers(rounds)
        /\ UNCHANGED <<mapped, internal, accept, config, ctx, current>>
    BY <1>2 DEF Clear, groupVars, instanceVars
  <2>2. Ends
    BY <2>1 DEF LoopInv, StageInv, Pooled, Serves, Ended
  <2>3. rounds \in Rounds /\ Phases(rounds)
    BY DEF Types, LoopInv, RoundInv
  <2>4. rounds'.heap = {} /\ rounds'.active = {} /\ Phases(rounds')
    BY <2>1, <2>3, ClearTimersRecord, ClearedIdle
  <2>5. Ends'
    BY <2>1, <2>2, <2>4 DEF Ends
  <2>6. Len(queue') = 0 /\ current' = NoMessage
    BY <2>1 DEF LoopInv, MessageInv
  <2>7. MessageInv' /\ RoundInv'
    BY <2>1, <2>4, <2>6 DEF MessageInv, RoundInv
  <2> QED BY <2>5, <2>7 DEF LoopInv, StageInv
<1>3. ASSUME ResetMembers
      PROVE  LoopInv'
  <2>1. /\ thread = "reset" /\ thread' = "internal" /\ config' = 0
        /\ rounds' = ResetProposer(rounds)
        /\ UNCHANGED <<mapped, internal, accept, queue, ctx, current>>
    BY <1>3 DEF ResetMembers, groupVars, loopVars
  <2>2. Ends
    BY <2>1 DEF LoopInv, StageInv, Pooled, Serves, Ended
  <2>3. rounds \in Rounds /\ Phases(rounds) /\ rounds.heap = {} /\ rounds.active = {}
    BY <2>1, <2>2 DEF Types, LoopInv, RoundInv, Ends
  <2>4. IsIdle(rounds')
    BY <2>1, <2>3, ClearedIdle
  <2>5. Ended'
    BY <2>1, <2>2, <2>4 DEF Ends, Ended
  <2>6. Len(queue') = 0 /\ current' = NoMessage
    BY <2>1, <2>2 DEF Ends, LoopInv, MessageInv
  <2>7. MessageInv' /\ RoundInv'
    BY <2>1, <2>4, <2>6, IdleArmed DEF MessageInv, RoundInv
  <2> QED BY <2>5, <2>7 DEF LoopInv, StageInv
<1>4. ASSUME QueueInternal
      PROVE  LoopInv'
  <2>1. /\ thread = "internal" /\ thread' = "log" /\ internal' = TRUE
        /\ UNCHANGED <<mapped, accept, queue, config, ctx, current, rounds>>
    BY <1>4 DEF QueueInternal, loopVars, instanceVars
  <2>2. Ended
    BY <2>1 DEF LoopInv, StageInv, Pooled, Serves, Ends
  <2>3. Ended'
    BY <2>1, <2>2 DEF Ended
  <2>4. MessageInv' /\ RoundInv'
    BY <2>1 DEF LoopInv, MessageInv, RoundInv
  <2> QED BY <2>3, <2>4 DEF LoopInv, StageInv
<1>5. ASSUME LogAndNotify
      PROVE  LoopInv'
  <2>1. /\ thread = "log" /\ thread' = "loop"
        /\ UNCHANGED <<mapped, internal, accept, queue, config, ctx, current, rounds>>
    BY <1>5 DEF LogAndNotify, groupVars, loopVars, instanceVars
  <2>2. StageInv'
    BY <2>1 DEF LoopInv, StageInv, Pooled, Serves, Ends, Ended
  <2>3. MessageInv' /\ RoundInv'
    BY <2>1 DEF LoopInv, MessageInv, RoundInv
  <2> QED BY <2>2, <2>3 DEF LoopInv
<1> QED BY <1>1, <1>2, <1>3, <1>4, <1>5 DEF EndStep

LEMMA StepInv ==
  ASSUME Types, LoopInv, [Next]_vars
  PROVE  LoopInv'
<1>1. CASE UNCHANGED vars
  BY <1>1 DEF vars, groupVars, loopVars, instanceVars, LoopInv, StageInv, Pooled, Serves,
              Ends, Ended, MessageInv, RoundInv
<1>2. ASSUME InstanceStep
      PROVE  LoopInv'
  BY <1>2, TimeoutInv, TakeInv, HandleInv, EndInv DEF InstanceStep
<1> QED BY <1>1, <1>2, GroupStepInv DEF Next

\* Everything the object holds belongs to the id it serves: the two threads agree on
\* the stage of the id, whatever they interleave.
THEOREM LoopInvariant == Spec => [](Types /\ LoopInv)
<1>1. Types /\ LoopInv /\ [Next]_vars => (Types /\ LoopInv)'
  BY StepInv, TypeStep
<1> QED BY <1>1, TypeInit, InitInv, PTL DEF Spec

\* A message is handled under the id it was sent for, and a NewProposal finds its
\* client and no round (the assertion of Instance::IOLoopOnMessage).
THEOREM OwnMessages == Spec => []HandlesOwnMessages
<1>1. ASSUME Types, LoopInv
      PROVE  HandlesOwnMessages
  <2>1. SUFFICES ASSUME current # NoMessage
                 PROVE  /\ current.id = config
                        /\ current.type = "NewProposal" => ctx = config /\ RoundTimer = 0
    BY DEF HandlesOwnMessages
  <2>2. /\ thread = "handle" /\ current.id = mapped
        /\ current.type = "NewProposal" => ctx = mapped /\ NoPhase(rounds)
    BY <1>1, <2>1 DEF LoopInv, MessageInv
  <2>3. config = mapped
    BY <1>1, <2>2 DEF LoopInv, StageInv, Pooled, Serves, Ends, Ended
  <2>4. NoPhase(rounds) => RoundTimer = 0
    BY DEF NoPhase, RoundTimer
  <2> QED BY <2>2, <2>3, <2>4
<1> QED BY <1>1, LoopInvariant, PTL

\* An object that waits in the pool has nothing left of an earlier id, though its
\* thread may still write the log for that id (Instance::InitForNewInstance).
THEOREM CleanWhenPooled == Spec => []ResetBeforeReuse
<1>1. ASSUME Types, LoopInv
      PROVE  ResetBeforeReuse
  <2>1. SUFFICES ASSUME mapped = 0
                 PROVE  /\ accept = 0 /\ config = 0 /\ ctx = 0
                        /\ queue = <<>> /\ current = NoMessage
                        /\ rounds = [NoTimers EXCEPT !.next = rounds.next]
    BY DEF ResetBeforeReuse
  <2>2. Pooled
    BY <1>1, <2>1 DEF LoopInv, StageInv, Serves, Ends, Ended
  <2>3. current = NoMessage
    BY <1>1, <2>2 DEF Pooled, LoopInv, MessageInv
  <2>4. rounds = [NoTimers EXCEPT !.next = rounds.next]
    BY <1>1, <2>2, IdleRecord DEF Pooled, Types
  <2> QED BY <2>2, <2>3, <2>4 DEF Pooled
<1> QED BY <1>1, LoopInvariant, PTL

\* As long as there is a round there is one active timer, its own, and the heap holds it.
THEOREM OneTimerArmed == Spec => []TimerArmed
<1>1. ASSUME Types, LoopInv
      PROVE  TimerArmed
  <2>1. SUFFICES ASSUME thread \in {"loop", "handle"}
                 PROVE  /\ rounds.active = {RoundTimer} \ {0}
                        /\ rounds.preparing =>
                             [id |-> rounds.prepareTimer, type |-> "Prepare"] \in rounds.heap
                             /\ ~rounds.accepting
                        /\ rounds.accepting =>
                             [id |-> rounds.acceptTimer, type |-> "Accept"] \in rounds.heap
    BY DEF TimerArmed
  <2>2. Phases(rounds) /\ Armed(rounds)
    BY <1>1, <2>1 DEF LoopInv, RoundInv
  <2>3. RoundTimer = RoundOf(rounds)
    BY DEF RoundTimer, RoundOf
  <2>4. rounds.preparing \in BOOLEAN /\ rounds.accepting \in BOOLEAN
    BY <1>1 DEF Types, Rounds
  <2> QED BY <2>2, <2>3, <2>4 DEF Armed, Phases
<1> QED BY <1>1, LoopInvariant, PTL

\* A timer that is popped after its round has ended does nothing else.
THEOREM StaleTimers == Spec => StaleTimersIgnored
<1>1. ASSUME Types, LoopInv, [Next]_vars,
             NEW t \in rounds.heap, thread = "loop", t \notin rounds'.heap, t.id # RoundTimer
      PROVE  rounds' = Popped(rounds, t)
  <2>1. rounds \in Rounds /\ Armed(rounds)
    BY <1>1 DEF Types, LoopInv, RoundInv
  <2>2. t.id \notin rounds.active
    BY <1>1, <2>1 DEF Armed, RoundOf, RoundTimer
  <2>3. rounds' # rounds
    BY <1>1
  <2>4. PICK s \in rounds.heap : DealWithTimeout(s)
    BY <1>1, <2>3
       DEF Next, GroupStep, InstanceStep, EndStep, AllocateForClient, AllocateForMessage,
           OnReceiveNewMessage, OnInternalMessage, DealWithMessage, IOLoopOnMessage,
           StopAccepting, Clear, ResetMembers, QueueInternal, LogAndNotify,
           vars, groupVars, loopVars, instanceVars
  <2>5. \/ rounds' = Popped(rounds, s)
        \/ /\ s.id \in rounds.active /\ rounds.next <= MaxTimer
           /\ rounds' = Restarted(rounds, s)
    BY <2>4 DEF DealWithTimeout, Restarted
  <2>6. rounds.heap \ {s} \subseteq rounds'.heap
    <3>1. CASE rounds' = Popped(rounds, s)
      BY <2>1, <3>1, PoppedRecord
    <3>2. CASE rounds.next <= MaxTimer /\ rounds' = Restarted(rounds, s)
      <4>1. Restarted(rounds, s).heap
              = (rounds.heap \ {s}) \cup {[id |-> rounds.next, type |-> "Prepare"]}
        BY <2>1, <3>2, RestartedRecord
      <4> QED BY <3>2, <4>1
    <3> QED BY <2>5, <3>1, <3>2
  <2>7. s = t
    BY <1>1, <2>6
  <2> QED BY <2>2, <2>5, <2>7
<1>2. Types /\ LoopInv /\ [Next]_vars =>
        [\A t \in rounds.heap :
           thread = "loop" /\ t \notin rounds'.heap /\ t.id # RoundTimer
             => rounds' = Popped(rounds, t)]_vars
  BY <1>1
<1> QED BY <1>2, LoopInvariant, PTL DEF Spec, StaleTimersIgnored
================================================================================
