------------------------- MODULE InboxRefinementProofs -------------------------
(****************************************************************************)
(* The object of InstanceLoop implements Inbox, for every value of the      *)
(* constants.                                                               *)
(****************************************************************************)
EXTENDS InstanceLoopProofs

(****************************************************************************)
(* The object implements Inbox.                                             *)
(****************************************************************************)
Kinds == PeerTypes \cup {"NewProposal"}

LEMMA TypesOfSeq ==
  ASSUME NEW q \in Seq(Message)
  PROVE  /\ TypesOf(q) \in Seq(Kinds) /\ Len(TypesOf(q)) = Len(q)
         /\ \A k \in 1 .. Len(q) : TypesOf(q)[k] = q[k].type
<1>1. Len(q) \in Nat /\ \A k \in 1 .. Len(q) : q[k].type \in Kinds
  <2>1. Len(q) \in Nat /\ \A k \in 1 .. Len(q) : q[k] \in Message
    BY ElementOfSeq, LenProperties
  <2> QED BY <2>1 DEF Message, Kinds
<1>2. TypesOf(q) \in [1 .. Len(q) -> Kinds]
  BY <1>1 DEF TypesOf
<1>3. TypesOf(q) \in Seq(Kinds)
  BY <1>1, <1>2, SeqDef
<1> QED BY <1>1, <1>2, <1>3 DEF TypesOf

LEMMA TypesOfEmpty == TypesOf(<<>>) = <<>>
<1>1. <<>> \in Seq(Message) /\ Len(<<>>) = 0
  BY EmptySeq
<1>2. TypesOf(<<>>) \in Seq(Kinds) /\ Len(TypesOf(<<>>)) = 0
  BY <1>1, TypesOfSeq
<1> QED BY <1>2, EmptySeq

LEMMA TypesOfAppend ==
  ASSUME NEW q \in Seq(Message), NEW m \in Message
  PROVE  TypesOf(Append(q, m)) = Append(TypesOf(q), m.type)
<1> DEFINE a == Append(q, m)
           s == TypesOf(a)
           t == Append(TypesOf(q), m.type)
<1>1. /\ a \in Seq(Message) /\ Len(a) = Len(q) + 1 /\ a[Len(q) + 1] = m
      /\ \A k \in 1 .. Len(q) : a[k] = q[k]
  BY AppendProperties
<1>2. TypesOf(q) \in Seq(Kinds) /\ Len(TypesOf(q)) = Len(q) /\ m.type \in Kinds
  BY TypesOfSeq DEF Message, Kinds
<1>3. \A k \in 1 .. Len(q) : TypesOf(q)[k] = q[k].type
  BY TypesOfSeq
<1> HIDE DEF a
<1>4. s \in Seq(Kinds) /\ Len(s) = Len(q) + 1 /\ \A k \in 1 .. Len(q) + 1 : s[k] = a[k].type
  BY <1>1, TypesOfSeq
<1>5. /\ t \in Seq(Kinds) /\ Len(t) = Len(q) + 1 /\ t[Len(q) + 1] = m.type
      /\ \A k \in 1 .. Len(q) : t[k] = q[k].type
  BY <1>2, <1>3, AppendProperties
<1> HIDE DEF s, t
<1>6. Len(q) \in Nat
  BY LenProperties
<1>7. \A k \in 1 .. Len(s) : s[k] = t[k]
  BY <1>1, <1>4, <1>5, <1>6
<1> QED BY <1>4, <1>5, <1>7, SeqEqual DEF s, t, a

LEMMA TypesOfTail ==
  ASSUME NEW q \in Seq(Message), q # <<>>
  PROVE  TypesOf(q) = <<Head(q).type>> \o TypesOf(Tail(q))
<1> DEFINE h == <<Head(q).type>>
           u == TypesOf(Tail(q))
           s == TypesOf(q)
           t == h \o u
<1>1. /\ Head(q) \in Message /\ Tail(q) \in Seq(Message) /\ Len(Tail(q)) = Len(q) - 1
      /\ \A k \in 1 .. Len(Tail(q)) : Tail(q)[k] = q[k + 1]
  BY HeadTailProperties
<1>2. Len(q) \in Nat \ {0} /\ Head(q) = q[1]
  BY EmptySeq
<1>3. /\ u \in Seq(Kinds) /\ Len(u) = Len(q) - 1
      /\ \A k \in 1 .. Len(q) - 1 : u[k] = q[k + 1].type
  BY <1>1, TypesOfSeq
<1>4. h \in Seq(Kinds) /\ Len(h) = 1 /\ h[1] = q[1].type
  BY <1>1, <1>2 DEF Message, Kinds
<1>5. s \in Seq(Kinds) /\ Len(s) = Len(q) /\ \A k \in 1 .. Len(q) : s[k] = q[k].type
  BY TypesOfSeq
<1> HIDE DEF s, h, u
<1>6. t \in Seq(Kinds) /\ Len(t) = Len(q)
      /\ \A k \in 1 .. Len(q) : t[k] = IF k <= 1 THEN h[k] ELSE u[k - 1]
  <2>1. Len(h) + Len(u) = Len(q)
    BY <1>2, <1>3, <1>4
  <2>2. /\ t \in Seq(Kinds) /\ Len(t) = Len(h) + Len(u)
        /\ \A k \in 1 .. Len(h) + Len(u) :
             t[k] = IF k <= Len(h) THEN h[k] ELSE u[k - Len(h)]
    BY <1>3, <1>4, ConcatProperties
  <2> QED BY <1>4, <2>1, <2>2
<1> HIDE DEF t
<1>7. \A k \in 1 .. Len(s) : s[k] = t[k]
  <2>1. SUFFICES ASSUME NEW k \in 1 .. Len(q)
                 PROVE  s[k] = t[k]
    BY <1>5
  <2>2. CASE k = 1
    BY <1>2, <1>4, <1>5, <1>6, <2>2
  <2>3. CASE k # 1
    <3>1. k - 1 \in 1 .. Len(q) - 1 /\ (k - 1) + 1 = k
      BY <1>2, <2>3
    <3>2. t[k] = u[k - 1] /\ s[k] = q[k].type
      BY <1>2, <1>5, <1>6, <2>3
    <3> QED BY <1>3, <3>1, <3>2
  <2> QED BY <2>2, <2>3
<1>8. s = t
  BY <1>5, <1>6, <1>7, SeqEqual
<1> QED BY <1>8 DEF s, t, h, u

\* What the queue and the message in hand are together.
LEMMA InboxQueue ==
  ASSUME NEW q \in Seq(Message)
  PROVE  /\ InHand(NoMessage) \o TypesOf(q) = TypesOf(q)
         /\ \A m \in Message : InHand(m) \o TypesOf(q) = <<m.type>> \o TypesOf(q)
         /\ \A m \in Message : m # NoMessage
<1>1. TypesOf(q) \in Seq(Kinds)
  BY TypesOfSeq
<1>2. InHand(NoMessage) \o TypesOf(q) = TypesOf(q)
  BY <1>1, ConcatEmptySeq DEF InHand
<1>3. \A m \in Message : m.type # "none"
  BY TypesAssumption DEF Message, AllTypes
<1>4. NoMessage.type = "none"
  BY DEF NoMessage
<1> QED BY <1>2, <1>3, <1>4 DEF InHand

LEMMA HandProperties ==
  ASSUME NEW x \in Kinds, NEW s \in Seq(Kinds)
  PROVE  LET t == <<x>> \o s
         IN  t \in Seq(Kinds) /\ t # <<>> /\ Head(t) = x /\ Tail(t) = s
<1> DEFINE h == <<x>>
           t == h \o s
<1>1. h \in Seq(Kinds) /\ Len(h) = 1 /\ h[1] = x
  OBVIOUS
<1> HIDE DEF h
<1>2. /\ t \in Seq(Kinds) /\ Len(t) = 1 + Len(s)
      /\ \A k \in 1 .. 1 + Len(s) : t[k] = IF k <= 1 THEN h[k] ELSE s[k - 1]
  BY <1>1, ConcatProperties
<1>3. Len(s) \in Nat
  BY LenProperties
<1> HIDE DEF t
<1>4. t # <<>> /\ Head(t) = x
  BY <1>1, <1>2, <1>3
<1>5. Tail(t) = s
  <2>1. /\ Tail(t) \in Seq(Kinds) /\ Len(Tail(t)) = Len(s)
        /\ \A k \in 1 .. Len(s) : Tail(t)[k] = t[k + 1]
    BY <1>2, <1>3, <1>4, HeadTailProperties
  <2>2. \A k \in 1 .. Len(s) : t[k + 1] = s[k]
    BY <1>2, <1>3
  <2> QED BY <2>1, <2>2, SeqEqual
<1> QED BY <1>2, <1>4, <1>5 DEF t, h

LEMMA InboxAppend ==
  ASSUME NEW q \in Seq(Message), NEW m \in Message,
         NEW c \in Message \cup {NoMessage}
  PROVE  InHand(c) \o TypesOf(Append(q, m)) = Append(InHand(c) \o TypesOf(q), m.type)
<1> DEFINE h == InHand(c)
           s == TypesOf(q)
           e == <<m.type>>
<1>1. h \in Seq(Kinds) /\ s \in Seq(Kinds) /\ e \in Seq(Kinds) /\ m.type \in Kinds
  <2>1. s \in Seq(Kinds)
    BY TypesOfSeq
  <2>2. m.type \in Kinds /\ (c \in Message => c.type \in Kinds)
    BY DEF Message, Kinds
  <2> QED BY <2>1, <2>2 DEF InHand
<1>2. TypesOf(Append(q, m)) = Append(s, m.type)
  BY TypesOfAppend
<1> HIDE DEF h, s
<1>3. Append(s, m.type) = s \o e /\ Append(h \o s, m.type) = (h \o s) \o e
  BY <1>1, AppendIsConcat, ConcatProperties
<1> HIDE DEF e
<1>4. (h \o s) \o e = h \o (s \o e)
  BY <1>1, ConcatAssociative
<1> QED BY <1>2, <1>3, <1>4 DEF h, s

\* The timer that Inbox shows is the one of the current phase.
Kind(r) == IF r.preparing THEN "Prepare" ELSE IF r.accepting THEN "Accept" ELSE "none"

LEMMA ActiveKind ==
  ASSUME NEW r \in Rounds, Fresh(r), Phases(r), Armed(r)
  PROVE  ActiveTimer(r) = Kind(r)
<1>1. r.preparing \in BOOLEAN /\ r.accepting \in BOOLEAN
  BY DEF Rounds
<1>2. ASSUME NEW n, NEW type, [id |-> n, type |-> type] \in r.heap, r.active = {n}
      PROVE  ActiveTimer(r) = type
  <2> DEFINE h == [id |-> n, type |-> type]
  <2>1. h.id = n /\ h.type = type /\ h \in r.heap
    BY <1>2
  <2> HIDE DEF h
  <2>2. \A x \in r.heap : x.id = n => x = h
    BY <2>1 DEF Fresh
  <2>3. \A x : x \in ActiveTypes(r) <=> x = type
    BY <1>2, <2>1, <2>2 DEF ActiveTypes
  <2>4. ActiveTypes(r) # {} /\ ActiveTypes(r) = {type}
    BY <2>3
  <2>5. (CHOOSE x \in {type} : TRUE) = type
    OBVIOUS
  <2> QED BY <2>4, <2>5 DEF ActiveTimer
<1>3. CASE r.preparing = TRUE
  <2>1. [id |-> r.prepareTimer, type |-> "Prepare"] \in r.heap
    BY <1>3 DEF Armed
  <2>2. r.prepareTimer # 0
    BY <2>1 DEF Rounds, Timer
  <2>3. r.active = {r.prepareTimer}
    BY <1>3, <2>2 DEF Armed, RoundOf
  <2> QED BY <1>2, <1>3, <2>1, <2>3 DEF Kind
<1>4. CASE r.preparing = FALSE /\ r.accepting = TRUE
  <2>1. [id |-> r.acceptTimer, type |-> "Accept"] \in r.heap
    BY <1>4 DEF Armed
  <2>2. r.acceptTimer # 0
    BY <2>1 DEF Rounds, Timer
  <2>3. r.active = {r.acceptTimer}
    BY <1>4, <2>2 DEF Armed, RoundOf
  <2> QED BY <1>2, <1>4, <2>1, <2>3 DEF Kind
<1>5. CASE r.preparing = FALSE /\ r.accepting = FALSE
  <2>1. r.active = {}
    BY <1>5 DEF Armed, RoundOf
  <2>2. ActiveTypes(r) = {}
    BY <2>1 DEF ActiveTypes
  <2> QED BY <1>5, <2>2 DEF ActiveTimer, Kind
<1> QED BY <1>1, <1>3, <1>4, <1>5

\* What Inbox sees of the object.
Shown == <<accept, unserved, ServedInbox, ServedTimer, ctx # 0 /\ thread # "stop", thread = "stop">>

Allowed == Serving!Next \/ UNCHANGED Shown

LEMMA ShownInit == Init => Serving!Init
BY DEF Init, Serving!Init, Serving!Idle, ServedInbox, ServedTimer

LEMMA ShownBegin ==
  ASSUME Types, LoopInv, NEW id \in unserved, NEW m \in Message, NEW back \in BOOLEAN,
         InitForNewInstance(id), m.id = id, AddMessage(m, back),
         \/ m.type = "NewProposal" /\ ctx' = id
         \/ m.type \in PeerTypes /\ ctx' = ctx,
         UNCHANGED <<thread, current, rounds>>
  PROVE  Serving!Begin
<1>1. Pooled /\ id \in Ids /\ id # 0
  BY IdsAssumption DEF Types, InitForNewInstance, LoopInv, StageInv, Pooled, Serves, Ends, Ended
<1>2. accept' = id /\ unserved' = unserved \ {id}
  BY DEF InitForNewInstance
<1>3. queue' = <<m>>
  <2>1. queue' = Added(<<>>, m, back)
    BY <1>1, <1>2 DEF AddMessage, Pooled
  <2>2. Append(<<>>, m) = <<m>> /\ <<m>> \o <<>> = <<m>>
    OBVIOUS
  <2> QED BY <2>1, <2>2 DEF Added
<1>4. accept = 0 /\ ctx = 0 /\ thread # "stop" /\ thread' # "stop" /\ current' = NoMessage
  BY <1>1 DEF Pooled, LoopInv, MessageInv
<1>5. ServedInbox = <<>> /\ ServedTimer = "none"
  BY <1>4 DEF ServedInbox, ServedTimer
<1>6. ServedInbox' = <<m.type>>
  <2>1. <<m>> \in Seq(Message) /\ <<>> \in Seq(Message) /\ Append(<<>>, m) = <<m>>
    OBVIOUS
  <2>2. TypesOf(<<m>>) = Append(<<>>, m.type)
    BY <2>1, TypesOfAppend, TypesOfEmpty
  <2>3. InHand(NoMessage) \o TypesOf(<<m>>) = TypesOf(<<m>>)
    BY <2>1, InboxQueue
  <2>4. Append(<<>>, m.type) = <<m.type>>
    OBVIOUS
  <2> QED BY <1>1, <1>2, <1>3, <1>4, <2>2, <2>3, <2>4 DEF ServedInbox
<1>7. ServedTimer' = "none"
  <2>1. rounds \in Rounds /\ Fresh(rounds) /\ IsIdle(rounds)
    BY <1>1 DEF Types, Pooled
  <2>2. ActiveTimer(rounds) = "none"
    BY <2>1, ActiveKind, IdleArmed DEF Kind, IsIdle
  <2> QED BY <2>2 DEF ServedTimer
<1>8. \/ m.type = "NewProposal" /\ ctx' # 0
      \/ m.type \in PeerTypes /\ ctx' = 0
  BY <1>1, <1>4
<1> QED BY <1>1, <1>2, <1>4, <1>5, <1>6, <1>7, <1>8 DEF Serving!Begin, Serving!Idle

LEMMA ShownGroupStep ==
  ASSUME Types, LoopInv, GroupStep
  PROVE  Allowed
<1>1. ASSUME NEW id \in unserved, AllocateForClient(id)
      PROVE  Allowed
  <2> DEFINE m == [id |-> id, type |-> "NewProposal"]
  <2>1. m \in Message /\ m.id = id /\ m.type = "NewProposal" /\ FALSE \in BOOLEAN
    BY DEF Types, Message
  <2>2. /\ ctx' = id /\ InitForNewInstance(id) /\ AddMessage(m, FALSE)
        /\ UNCHANGED <<thread, current, rounds>>
    BY <1>1 DEF AllocateForClient
  <2> HIDE DEF m
  <2>3. Serving!Begin
    BY <2>1, <2>2, ShownBegin
  <2> QED BY <2>3 DEF Allowed, Serving!Next
<1>2. ASSUME NEW id \in unserved, NEW type \in PeerTypes, AllocateForMessage(id, type)
      PROVE  Allowed
  <2> DEFINE m == [id |-> id, type |-> type]
  <2>1. m \in Message /\ m.id = id /\ m.type \in PeerTypes /\ TRUE \in BOOLEAN
    BY DEF Types, Message
  <2>2. /\ ctx' = ctx /\ InitForNewInstance(id) /\ AddMessage(m, TRUE)
        /\ UNCHANGED <<thread, current, rounds>>
    BY <1>2 DEF AllocateForMessage
  <2> HIDE DEF m
  <2>3. Serving!Begin
    BY <2>1, <2>2, ShownBegin
  <2> QED BY <2>3 DEF Allowed, Serving!Next
<1>3. ASSUME NEW type \in PeerTypes, OnReceiveNewMessage(type)
      PROVE  Allowed
  <2> DEFINE m == [id |-> mapped, type |-> type]
  <2>1. /\ mapped # 0 /\ m \in Message /\ m.type = type /\ m.id = mapped
        /\ queue \in Seq(Message) /\ current \in Message \cup {NoMessage}
    BY <1>3 DEF Types, Message, OnReceiveNewMessage
  <2>2. UNCHANGED <<unserved, accept, ctx, thread, current, rounds>>
    BY <1>3 DEF OnReceiveNewMessage, groupVars, instanceVars
  <2>3. queue' = IF m.id = accept THEN Append(queue, m) ELSE queue
    BY <1>3, <2>2 DEF OnReceiveNewMessage, AddMessage, Added
  <2>4. ServedTimer' = ServedTimer
    BY <2>2 DEF ServedTimer
  <2> HIDE DEF m
  <2>5. CASE mapped = accept
    <3>1. ServedInbox' = Append(ServedInbox, type)
      <4>1. InHand(current) \o TypesOf(Append(queue, m))
              = Append(InHand(current) \o TypesOf(queue), m.type)
        BY <2>1, InboxAppend
      <4> QED BY <2>1, <2>2, <2>3, <2>5, <4>1 DEF ServedInbox
    <3>2. Serving!Arrive
      BY <2>1, <2>2, <2>4, <2>5, <3>1 DEF Serving!Arrive
    <3> QED BY <3>2 DEF Allowed, Serving!Next
  <2>6. CASE mapped # accept
    <3>1. queue' = queue
      BY <2>1, <2>3, <2>6
    <3>2. ServedInbox' = ServedInbox
      BY <2>2, <3>1 DEF ServedInbox
    <3> QED BY <2>2, <2>4, <3>2 DEF Allowed, Shown
  <2> QED BY <2>5, <2>6
<1>4. ASSUME OnInternalMessage
      PROVE  Allowed
  BY <1>4 DEF OnInternalMessage, loopVars, instanceVars, Allowed, Shown, ServedInbox, ServedTimer
<1> QED BY <1>1, <1>2, <1>3, <1>4 DEF GroupStep

LEMMA ShownTimeout ==
  ASSUME Types, LoopInv, NEW t \in rounds.heap, DealWithTimeout(t)
  PROVE  Allowed
<1>1. /\ thread = "loop" /\ UNCHANGED <<unserved, accept, queue, ctx, thread, current>>
      /\ \/ t.id \notin rounds.active /\ rounds' = Popped(rounds, t)
         \/ t.id \in rounds.active /\ rounds.next <= MaxTimer /\ rounds' = Restarted(rounds, t)
  BY DEF DealWithTimeout, Restarted, groupVars, loopVars, instanceVars
<1>2. /\ rounds \in Rounds /\ Fresh(rounds) /\ Phases(rounds) /\ Armed(rounds)
      /\ rounds.heap # {}
  BY <1>1 DEF Types, LoopInv, RoundInv
<1>3. Serves
  BY <1>1, <1>2 DEF LoopInv, StageInv, Pooled, Ends, Ended, IsIdle
<1>4. accept # 0 /\ accept' # 0 /\ ServedInbox' = ServedInbox
  BY <1>1, <1>3 DEF Serves, ServedInbox
<1>5. rounds' \in Rounds /\ Fresh(rounds') /\ Phases(rounds') /\ Armed(rounds')
  BY <1>1, <1>2, FreshTimer, TimeoutArmed
<1>6. ServedTimer = Kind(rounds) /\ ServedTimer' = Kind(rounds')
  BY <1>1, <1>2, <1>4, <1>5, ActiveKind DEF ServedTimer
<1>7. CASE t.id \notin rounds.active
  <2>1. rounds'.preparing = rounds.preparing /\ rounds'.accepting = rounds.accepting
    BY <1>1, <1>2, <1>7, PoppedRecord
  <2>2. Kind(rounds') = Kind(rounds)
    BY <2>1 DEF Kind
  <2> QED BY <1>1, <1>4, <1>6, <2>2 DEF Allowed, Shown
<1>8. CASE t.id \in rounds.active
  <2>1. rounds'.preparing = TRUE
    <3>1. Restarted(rounds, t).preparing = TRUE
      BY <1>1, <1>2, <1>8, RestartedRecord
    <3> QED BY <1>1, <1>8, <3>1
  <2>2. rounds.preparing \in BOOLEAN /\ rounds.accepting \in BOOLEAN
    BY <1>2 DEF Rounds
  <2>3. ~NoPhase(rounds)
    BY <1>2, <1>8 DEF Armed, RoundOf, NoPhase
  <2>4. Kind(rounds) # "none" /\ Kind(rounds') = "Prepare"
    BY <2>1, <2>2, <2>3 DEF Kind, NoPhase
  <2>5. Serving!Timeout
    BY <1>1, <1>4, <1>6, <2>4 DEF Serving!Timeout
  <2> QED BY <2>5 DEF Allowed, Serving!Next
<1> QED BY <1>7, <1>8

LEMMA ShownTake ==
  ASSUME Types, LoopInv, DealWithMessage
  PROVE  Allowed
<1>1. /\ thread = "loop" /\ queue # <<>> /\ thread' = "handle"
      /\ current' = Head(queue) /\ queue' = Tail(queue)
      /\ UNCHANGED <<unserved, accept, ctx, rounds>>
  BY DEF DealWithMessage, groupVars, instanceVars
<1>2. current = NoMessage /\ queue \in Seq(Message)
  BY <1>1 DEF LoopInv, MessageInv, Types
<1>3. Head(queue) \in Message /\ Tail(queue) \in Seq(Message)
  BY <1>1, <1>2, HeadTailProperties
<1>4. InHand(current') \o TypesOf(queue') = <<Head(queue).type>> \o TypesOf(Tail(queue))
  BY <1>1, <1>3, InboxQueue
<1>5. InHand(current) \o TypesOf(queue) = TypesOf(queue)
  BY <1>2, InboxQueue
<1>6. TypesOf(queue) = <<Head(queue).type>> \o TypesOf(Tail(queue))
  BY <1>1, <1>2, TypesOfTail
<1>7. ServedInbox' = ServedInbox
  BY <1>1, <1>4, <1>5, <1>6 DEF ServedInbox
<1>8. ServedTimer' = ServedTimer
  BY <1>1 DEF ServedTimer
<1> QED BY <1>1, <1>7, <1>8 DEF Allowed, Shown

LEMMA ShownHandle ==
  ASSUME Types, LoopInv, Types', LoopInv', IOLoopOnMessage
  PROVE  Serving!Handle
<1>1. /\ thread = "handle" /\ current' = NoMessage /\ thread' \in {"loop", "stop"}
      /\ UNCHANGED <<unserved, accept, queue, ctx>>
  BY DEF IOLoopOnMessage, groupVars, loopVars, instanceVars
<1>2. Serves /\ accept # 0
  BY <1>1 DEF LoopInv, StageInv, Pooled, Serves, Ends, Ended
<1>3. current \in Message /\ queue \in Seq(Message) /\ current # NoMessage
  BY <1>1 DEF LoopInv, MessageInv, Types
<1>4. /\ current.type \in Kinds /\ TypesOf(queue) \in Seq(Kinds)
      /\ ServedInbox = <<current.type>> \o TypesOf(queue)
      /\ ServedInbox' = TypesOf(queue)
  BY <1>1, <1>2, <1>3, TypesOfSeq, InboxQueue DEF ServedInbox, Message, Kinds
<1>5. ServedInbox # <<>> /\ Head(ServedInbox) = current.type /\ ServedInbox' = Tail(ServedInbox)
  BY <1>4, HandProperties
<1>6. /\ rounds \in Rounds /\ Fresh(rounds) /\ Phases(rounds) /\ Armed(rounds)
      /\ rounds' \in Rounds /\ Fresh(rounds') /\ Phases(rounds') /\ Armed(rounds')
  BY <1>1 DEF Types, LoopInv, RoundInv
<1>7. /\ ServedTimer = Kind(rounds)
      /\ ServedTimer' = IF thread' = "stop" THEN "none" ELSE Kind(rounds')
  BY <1>1, <1>2, <1>6, ActiveKind DEF ServedTimer
<1>8. rounds.preparing \in BOOLEAN /\ rounds.accepting \in BOOLEAN
  BY <1>6 DEF Rounds
<1>9. CASE current.type = "NewProposal" /\ thread' = "loop" /\ rounds.next <= MaxTimer
           /\ rounds' \in {Prepare(ExitAccept(ExitPrepare(rounds))),
                           Accept(ExitAccept(ExitPrepare(rounds)))}
  <2> DEFINE r == ExitAccept(ExitPrepare(rounds))
  <2>1. r \in Rounds /\ r.next <= MaxTimer
    BY <1>6, <1>9, BothLeftRecord
  <2> HIDE DEF r
  <2>2. Kind(Prepare(r)) = "Prepare" /\ Kind(Accept(r)) = "Accept"
    BY <2>1, PrepareRecord, AcceptRecord DEF Kind
  <2>3. ServedTimer' \in {"Prepare", "Accept"}
    BY <1>7, <1>9, <2>2 DEF r
  <2>4. ctx = mapped /\ mapped # 0 /\ NoPhase(rounds)
    BY <1>2, <1>3, <1>9 DEF LoopInv, MessageInv, Serves
  <2>5. ServedTimer = "none" /\ ctx # 0 /\ ctx' # 0
    BY <1>1, <1>7, <2>4 DEF Kind, NoPhase
  <2> QED BY <1>1, <1>5, <1>9, <2>3, <2>5 DEF Serving!Handle
<1>10. CASE current.type = "PrepareReply" /\ rounds.preparing = TRUE /\ thread' = "loop"
            /\ rounds.next <= MaxTimer /\ rounds' = Accept(rounds)
  <2>1. Kind(rounds) = "Prepare" /\ Kind(rounds') = "Accept"
    BY <1>6, <1>10, AcceptRecord DEF Kind
  <2> QED BY <1>1, <1>5, <1>7, <1>10, <2>1 DEF Serving!Handle
<1>11. CASE current.type = "AcceptReply" /\ rounds.accepting = TRUE /\ thread' = "stop"
  <2>1. Kind(rounds) = "Accept"
    BY <1>6, <1>8, <1>11 DEF Kind, Phases
  <2> QED BY <1>1, <1>5, <1>7, <1>11, <2>1 DEF Serving!Handle
<1>12. CASE current.type = "LearnValue" /\ thread' = "stop"
  BY <1>1, <1>5, <1>7, <1>12 DEF Serving!Handle
<1>13. CASE current.type \notin {"NewProposal", "LearnValue"} /\ thread' = "loop" /\ rounds' = rounds
  BY <1>1, <1>5, <1>7, <1>13 DEF Serving!Handle
<1> QED BY <1>8, <1>9, <1>10, <1>11, <1>12, <1>13 DEF IOLoopOnMessage

LEMMA ShownEnd ==
  ASSUME Types, LoopInv, EndStep
  PROVE  Allowed
<1>1. ASSUME StopAccepting
      PROVE  Allowed
  <2>1. thread = "stop" /\ thread' = "clear" /\ accept' = 0 /\ ctx' = 0 /\ unserved' = unserved
    BY <1>1 DEF StopAccepting, groupVars
  <2>2. ServedTimer = "none" /\ ServedTimer' = "none" /\ ServedInbox' = <<>>
    BY <2>1 DEF ServedTimer, ServedInbox
  <2>3. Serving!End
    BY <2>1, <2>2 DEF Serving!End
  <2> QED BY <2>3 DEF Allowed, Serving!Next
<1>2. ASSUME Clear \/ ResetMembers
      PROVE  Allowed
  <2>1. /\ thread \in {"clear", "reset"} /\ thread' \in {"reset", "internal"}
        /\ UNCHANGED <<unserved, accept, ctx>>
    BY <1>2 DEF Clear, ResetMembers, groupVars, loopVars, instanceVars
  <2>2. accept = 0
    BY <2>1 DEF LoopInv, StageInv, Pooled, Serves, Ends, Ended
  <2>3. ServedTimer' = ServedTimer /\ ServedInbox' = ServedInbox
    BY <2>1, <2>2 DEF ServedTimer, ServedInbox
  <2> QED BY <2>1, <2>3 DEF Allowed, Shown
<1>3. ASSUME QueueInternal \/ LogAndNotify
      PROVE  Allowed
  <2>1. /\ thread \in {"internal", "log"} /\ thread' \in {"log", "loop"}
        /\ UNCHANGED <<unserved, accept, ctx, queue, current, rounds>>
    BY <1>3 DEF QueueInternal, LogAndNotify, groupVars, loopVars, instanceVars
  <2>2. ServedTimer' = ServedTimer /\ ServedInbox' = ServedInbox
    BY <2>1 DEF ServedTimer, ServedInbox
  <2> QED BY <2>1, <2>2 DEF Allowed, Shown
<1> QED BY <1>1, <1>2, <1>3 DEF EndStep

LEMMA ShownStep ==
  ASSUME Types, LoopInv, Types', LoopInv', [Next]_vars
  PROVE  Allowed
<1>1. CASE UNCHANGED vars
  BY <1>1 DEF vars, groupVars, loopVars, instanceVars, Allowed, Shown, ServedInbox, ServedTimer
<1>2. ASSUME IOLoopOnMessage
      PROVE  Allowed
  <2>1. Serving!Handle
    BY <1>2, ShownHandle
  <2> QED BY <2>1 DEF Allowed, Serving!Next
<1>3. ASSUME InstanceStep
      PROVE  Allowed
  BY <1>2, <1>3, ShownTimeout, ShownTake, ShownEnd DEF InstanceStep
<1> QED BY <1>1, <1>3, ShownGroupStep DEF Next

\* With ids that are reused objects, timers that stay in the heap and a Reset in
\* several steps of two threads, the object behaves as if each id had an inbox and a
\* timer of its own (Instance::InitForNewInstance, Instance::Reset).
THEOREM ObjectImplementsInbox == Spec => ImplementsInbox
<1>1. Types /\ LoopInv /\ (Types /\ LoopInv)' /\ [Next]_vars
        => [Serving!Next]_<<accept, unserved, ServedInbox, ServedTimer,
                            ctx # 0 /\ thread # "stop", thread = "stop">>
  BY ShownStep DEF Allowed, Shown
<1> QED BY <1>1, ShownInit, LoopInvariant, PTL DEF Spec, ImplementsInbox, Serving!Spec
================================================================================
