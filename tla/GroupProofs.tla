------------------------------ MODULE GroupProofs ------------------------------
(****************************************************************************)
(* Theorems about Group, for every value of its constants: no assertion     *)
(* fails, the window is right, and a client reads its result in the log.    *)
(****************************************************************************)
EXTENDS Group, FiniteSetTheorems, SequenceTheorems, WellFoundedInduction, TLAPS

(****************************************************************************)
(* The inductive invariant.                                                 *)
(****************************************************************************)
Internal(i) == [type |-> "Internal", id |-> i]

\* The queue q holds the internal message of id i ...
Queued(q, i) == \E k \in 1 .. Len(q) : q[k] = Internal(i)

\* ... and no internal message twice.
InternalsOnce(q) == \A j, k \in 1 .. Len(q) : q[j].type = "Internal" /\ q[j] = q[k] => j = k

\* UpdateMinMaxInstanceID has passed id i or set its flag.
Ended(m, f, i) == i < m \/ (i < m + Window /\ f[i - m])

\* The thread of an object works on id i.
Logging(i) == \E x \in Pool : thread[x].step = "log" /\ thread[x].id = i

\* Flags are for ids that were allocated, which all lie in the window or below.
WindowInv ==
    /\ min <= max /\ max <= min + Window
    /\ flags[0] = FALSE
    /\ \A k \in 0 .. Window - 1 : flags[k] => min + k < max

\* The map and the pool share the objects.
MapInv ==
    /\ \A x \in Pool : x \notin idle <=> \E i \in DOMAIN map : map[i] = x
    /\ \A i, j \in DOMAIN map : map[i] = map[j] => i = j
    /\ \A i \in DOMAIN map : InWindow(i) /\ i < max /\ ~Ended(min, flags, i)

\* Where an object is with its id: serving it, past Reset, or announced.
ObjectInv ==
    /\ \A x \in Pool :
         /\ object[x].id = 0 => object[x].ctx = NoClient
         /\ object[x].id # 0 => /\ object[x].id \in DOMAIN map /\ map[object[x].id] = x
                                /\ thread[x].step # "internal"
         /\ thread[x].step = "internal" => /\ thread[x].id \in DOMAIN map
                                           /\ map[thread[x].id] = x
                                           /\ object[x].id = 0
    /\ \A i \in DOMAIN map :
         /\ Queued(queue, i) => /\ object[map[i]].id = 0
                                /\ thread[map[i]].step # "internal"
         /\ ~Queued(queue, i) => \/ object[map[i]].id = i
                                 \/ thread[map[i]].step = "internal" /\ thread[map[i]].id = i

\* The internal messages, and what the group's thread has made of them.
AnnouncedInv ==
    /\ InternalsOnce(queue)
    /\ \A i \in Ids : Queued(queue, i) => i \in DOMAIN map
    /\ \A i \in Ids : (i \in DOMAIN log \/ Logging(i)) <=> (Ended(min, flags, i) \/ Queued(queue, i))

\* The threads that are at the end of an id, and the log.
ThreadInv ==
    /\ \A x \in Pool : thread[x].step = "ready" => thread[x] = Ready
    /\ \A x \in Pool : thread[x].step # "ready" => thread[x].id \in Ids
    /\ \A x \in Pool : thread[x].step \in {"internal", "log"} => thread[x].id \notin DOMAIN log
    /\ \A x \in Pool : thread[x].step = "notify" =>
         /\ thread[x].id \in DOMAIN log /\ log[thread[x].id] = thread[x].value
         /\ thread[x].ctx # NoClient
    /\ \A x, y \in Pool :
         thread[x].step # "ready" /\ thread[y].step # "ready" /\ thread[x].id = thread[y].id => x = y

Structure == WindowInv /\ MapInv /\ ObjectInv /\ AnnouncedInv /\ ThreadInv

\* The queue q of contexts holds the client c; it holds nobody twice.
Waits(q, c) == \E k \in 1 .. Len(q) : q[k] = c
Distinct(q) == \A j, k \in 1 .. Len(q) : q[j] = q[k] => j = k

\* Whose context is where.
ContextInv ==
    /\ \A c \in Clients : client[c] = "queued" <=> Waits(ctxs, c)
    /\ Distinct(ctxs)
    /\ \A c \in Clients : client[c] = "queued" => commit[c].status = "UnDone"
    /\ \A x \in Pool : object[x].ctx # NoClient =>
         /\ client[object[x].ctx] = "dispatched"
         /\ commit[object[x].ctx].id = object[x].id
         /\ commit[object[x].ctx].status = "UnDone"
    /\ \A x \in Pool : thread[x].ctx # NoClient =>
         /\ client[thread[x].ctx] = "dispatched"
         /\ commit[thread[x].ctx].id = thread[x].id
         /\ commit[thread[x].ctx].status = IF thread[x].value = thread[x].ctx THEN "Success" ELSE "Fail"
    /\ \A x \in Pool : thread[x].value \in {thread[x].ctx, NoClient}
    /\ \A c \in Clients : client[c] = "new" => tries[c] < Tries

\* Who reads what in the log.
ResultInv ==
    /\ NotifiedMeansLogged
    /\ \A i \in DOMAIN log : log[i] # NoClient =>
         /\ client[log[i]] \in {"dispatched", "notified", "returned"}
         /\ commit[log[i]].id = i /\ commit[log[i]].status = "Success"

(****************************************************************************)
(* The window: UpdateMinMaxInstanceID.                                      *)
(****************************************************************************)
LEMMA SmallestOf ==
  ASSUME NEW S \in SUBSET Nat, S # {}
  PROVE  \E x \in S : \A y \in S : x <= y
<1>1. PICK x \in S : \A y \in S : ~(<<y, x>> \in OpToRel(<, Nat))
  BY NatLessThanWellFounded, WFMin
<1>2. \A y \in S : ~(y < x)
  BY <1>1 DEF OpToRel
<1> QED BY <1>2

\* What has ended afterwards is what had ended, and the id of the message.
LEMMA WindowUpdate ==
  ASSUME min \in Nat, flags \in [0 .. Window - 1 -> BOOLEAN], flags[0] = FALSE,
         NEW id \in Int, InWindow(id), UpdateMinMaxInstanceID(id)
  PROVE  /\ min' \in Nat /\ min <= min' /\ min' <= min + Window
         /\ flags' \in [0 .. Window - 1 -> BOOLEAN] /\ flags'[0] = FALSE
         /\ \A i \in Int : Ended(min', flags', i) <=> (Ended(min, flags, i) \/ i = id)
<1> DEFINE done == [flags EXCEPT ![id - min] = TRUE]
           undone == {i \in 0 .. Window : i = Window \/ ~done[i]}
           first == CHOOSE i \in undone : \A j \in undone : i <= j
<1>0. Window \in Nat \ {0} /\ id - min \in 0 .. Window - 1
  BY PoolAssumption DEF InWindow
<1>1. done \in [0 .. Window - 1 -> BOOLEAN]
  BY <1>0
<1>2. /\ done[id - min] = TRUE
      /\ \A i \in 0 .. Window - 1 : i # id - min => done[i] = flags[i]
  BY <1>0
<1>3. \A i \in Int : (i < min \/ (i < min + Window /\ done[i - min]))
                       <=> (Ended(min, flags, i) \/ i = id)
  <2>1. ASSUME NEW i \in Int, i >= min, i < min + Window
        PROVE  done[i - min] <=> (flags[i - min] \/ i = id)
    <3>1. i - min \in 0 .. Window - 1 /\ (i - min = id - min <=> i = id)
      BY <2>1, <1>0
    <3> QED BY <1>2, <3>1
  <2>2. ASSUME NEW i \in Int, ~(i >= min /\ i < min + Window)
        PROVE  (i < min \/ (i < min + Window /\ done[i - min])) <=> (Ended(min, flags, i) \/ i = id)
    BY <2>2 DEF Ended, InWindow
  <2> QED BY <2>1, <2>2 DEF Ended
<1>4. Window \in undone /\ undone \in SUBSET Nat
  BY <1>0
<1>5. \E i \in undone : \A j \in undone : i <= j
  <2> HIDE DEF undone
  <2> QED BY <1>4, SmallestOf
<1>6. first \in undone /\ \A j \in undone : first <= j
  <2> HIDE DEF undone
  <2> QED BY <1>5
<1>7. UpdateMinMaxInstanceID(id) <=>
        IF ~done[0] THEN flags' = done /\ UNCHANGED min
        ELSE /\ min' = min + first
             /\ flags' = [i \in 0 .. Window - 1 |-> i + first < Window /\ done[i + first]]
  BY DEF UpdateMinMaxInstanceID
<1> HIDE DEF first, done
<1>8. /\ first \in 0 .. Window
      /\ \A k \in 0 .. first - 1 : done[k] = TRUE
      /\ first < Window => done[first] = FALSE
  <2>1. \A k \in 0 .. Window - 1 : k \notin undone => done[k] = TRUE
    <3>1. \A k \in 0 .. Window - 1 : done[k] \in BOOLEAN
      BY <1>1
    <3>2. \A k \in 0 .. Window - 1 : k \in 0 .. Window /\ k # Window
      BY <1>0
    <3> QED BY <3>1, <3>2
  <2>2. \A k \in undone : k \in 0 .. Window /\ (k = Window \/ ~done[k])
    OBVIOUS
  <2> HIDE DEF undone
  <2>3. first \in 0 .. Window
    BY <1>6, <2>2
  <2>4. ASSUME NEW k \in 0 .. first - 1
        PROVE  done[k] = TRUE
    <3>1. k \in 0 .. Window - 1 /\ ~(first <= k)
      BY <1>0, <2>3
    <3> QED BY <1>6, <2>1, <3>1
  <2>5. ASSUME first < Window
        PROVE  done[first] = FALSE
    <3>1. first \in 0 .. Window - 1 /\ first # Window
      BY <1>0, <2>3, <2>5
    <3>2. done[first] \in BOOLEAN /\ ~done[first]
      BY <1>1, <1>6, <2>2, <3>1
    <3> QED BY <3>2
  <2> QED BY <2>3, <2>4, <2>5
<1> HIDE DEF undone
<1>9. CASE ~done[0]
  <2>1. flags' = done /\ min' = min
    BY <1>7, <1>9
  <2>2. done[0] = FALSE
    BY <1>0, <1>1, <1>9
  <2> QED BY <1>0, <1>1, <1>3, <2>1, <2>2 DEF Ended
<1>10. CASE done[0]
  <2>1. /\ min' = min + first
        /\ flags' = [i \in 0 .. Window - 1 |-> i + first < Window /\ done[i + first]]
    BY <1>7, <1>10
  <2>2. flags' \in [0 .. Window - 1 -> BOOLEAN]
    <3>1. \A i \in 0 .. Window - 1 : (i + first < Window /\ done[i + first]) \in BOOLEAN
      OBVIOUS
    <3> QED BY <2>1, <3>1
  <2>3. flags'[0] = FALSE
    <3>1. 0 \in 0 .. Window - 1 /\ 0 + first = first
      BY <1>0, <1>8
    <3>2. flags'[0] = (first < Window /\ done[first])
      BY <2>1, <3>1
    <3> QED BY <1>8, <3>2
  <2>4. ASSUME NEW i \in Int
        PROVE  Ended(min', flags', i) <=> (i < min \/ (i < min + Window /\ done[i - min]))
    <3>1. CASE i < min'
      <4>1. i < min \/ (i - min \in 0 .. first - 1 /\ i < min + Window)
        BY <2>1, <3>1, <1>8, <1>0
      <4> QED BY <4>1, <1>8, <3>1 DEF Ended
    <3>2. CASE i >= min' /\ i < min' + Window
      <4>1. i - min' \in 0 .. Window - 1 /\ (i - min') + first = i - min
        BY <1>0, <1>8, <2>1, <3>2
      <4>2. flags'[i - min'] = (i - min < Window /\ done[i - min])
        BY <2>1, <4>1
      <4>3. ~(i < min) /\ ~(i < min') /\ (i - min < Window <=> i < min + Window)
        BY <1>0, <1>8, <2>1, <3>2
      <4> QED BY <3>2, <4>2, <4>3 DEF Ended
    <3>3. CASE i >= min' + Window
      <4>1. ~(i < min) /\ ~(i < min') /\ ~(i < min + Window) /\ ~(i < min' + Window)
        BY <1>0, <1>8, <2>1, <3>3
      <4> QED BY <4>1 DEF Ended
    <3>4. i < min' \/ (i >= min' /\ i < min' + Window) \/ i >= min' + Window
      BY <1>0, <1>8, <2>1
    <3> QED BY <3>1, <3>2, <3>3, <3>4
  <2> QED BY <1>0, <1>3, <1>8, <2>1, <2>2, <2>3, <2>4
<1> QED BY <1>9, <1>10

(****************************************************************************)
(* What the operations of the two queues do to their contents.              *)
(****************************************************************************)
LEMMA TailFacts ==
  ASSUME NEW S, NEW q \in Seq(S), q # <<>>
  PROVE  /\ Tail(q) \in Seq(S) /\ Head(q) \in S /\ Head(q) = q[1]
         /\ Len(q) \in Nat \ {0} /\ Len(Tail(q)) = Len(q) - 1
         /\ \A k \in 1 .. Len(Tail(q)) : Tail(q)[k] = q[k + 1]
<1>1. Len(q) \in Nat /\ Len(q) # 0
  BY LenProperties, EmptySeq
<1>2. Head(q) = q[1] /\ q[1] \in S
  BY <1>1, ElementOfSeq
<1> QED BY <1>1, <1>2, HeadTailProperties

LEMMA AppendFacts ==
  ASSUME NEW S, NEW q \in Seq(S), NEW e \in S
  PROVE  /\ Append(q, e) \in Seq(S) /\ Len(q) \in Nat /\ Len(Append(q, e)) = Len(q) + 1
         /\ Append(q, e)[Len(q) + 1] = e
         /\ \A k \in 1 .. Len(q) : Append(q, e)[k] = q[k]
BY AppendProperties, LenProperties

LEMMA FrontFacts ==
  ASSUME NEW S, NEW q \in Seq(S), NEW e \in S
  PROVE  /\ <<e>> \o q \in Seq(S) /\ Len(q) \in Nat /\ Len(<<e>> \o q) = Len(q) + 1
         /\ (<<e>> \o q)[1] = e
         /\ \A k \in 1 .. Len(q) : (<<e>> \o q)[k + 1] = q[k]
<1>1. <<e>> \in Seq(S) /\ Len(<<e>>) = 1 /\ <<e>>[1] = e
  OBVIOUS
<1> DEFINE p == <<e>>
<1>2. p \in Seq(S) /\ Len(p) = 1 /\ p[1] = e
  BY <1>1
<1> HIDE DEF p
<1>3. /\ p \o q \in Seq(S) /\ Len(p \o q) = Len(p) + Len(q)
      /\ \A k \in 1 .. Len(p) + Len(q) : (p \o q)[k] = IF k <= Len(p) THEN p[k] ELSE q[k - Len(p)]
  BY <1>2, ConcatProperties
<1>4. Len(q) \in Nat
  BY LenProperties
<1>5. /\ p \o q \in Seq(S) /\ Len(q) \in Nat /\ Len(p \o q) = Len(q) + 1
      /\ (p \o q)[1] = e
      /\ \A k \in 1 .. Len(q) : (p \o q)[k + 1] = q[k]
  BY <1>2, <1>3, <1>4
<1> QED BY <1>5 DEF p

LEMMA InternalIds ==
  ASSUME NEW i \in Ids
  PROVE  /\ Internal(i) \in GroupMessage /\ Internal(i).type = "Internal" /\ Internal(i).id = i
         /\ \A j \in Ids : Internal(i) = Internal(j) => i = j
         /\ \A m \in GroupMessage : m = Internal(i) <=> (m.type = "Internal" /\ m.id = i)
<1>1. \A j \in Ids : /\ Internal(j) \in GroupMessage
                     /\ Internal(j).type = "Internal" /\ Internal(j).id = j
  BY DEF Internal, GroupMessage
<1>2. \A m \in GroupMessage : m.type = "Internal" /\ m.id = i => m = Internal(i)
  BY DEF Internal, GroupMessage
<1>3. \A j \in Ids : Internal(i) = Internal(j) => i = j
  <2>1. SUFFICES ASSUME NEW j \in Ids, Internal(i) = Internal(j) PROVE i = j
    OBVIOUS
  <2>2. Internal(i).id = Internal(j).id
    BY <2>1
  <2> QED BY <1>1, <2>2
<1>4. \A m \in GroupMessage : m = Internal(i) => m.type = "Internal" /\ m.id = i
  BY <1>1
<1> QED BY <1>1, <1>2, <1>3, <1>4

\* Taking the first message ...
LEMMA QueueTail ==
  ASSUME NEW q \in Seq(GroupMessage), q # <<>>, InternalsOnce(q)
  PROVE  /\ Tail(q) \in Seq(GroupMessage) /\ Head(q) \in GroupMessage
         /\ InternalsOnce(Tail(q))
         /\ \A i \in Ids : Queued(Tail(q), i) <=> (Queued(q, i) /\ Head(q) # Internal(i))
         /\ \A i \in Ids : Head(q) = Internal(i) => Queued(q, i)
<1> DEFINE t == Tail(q)
<1>1. /\ t \in Seq(GroupMessage) /\ Head(q) \in GroupMessage /\ Head(q) = q[1]
      /\ Len(q) \in Nat \ {0} /\ Len(t) = Len(q) - 1
      /\ \A k \in 1 .. Len(t) : t[k] = q[k + 1]
  BY TailFacts
<1> HIDE DEF t
<1>2. InternalsOnce(t)
  <2>1. SUFFICES ASSUME NEW j \in 1 .. Len(t), NEW k \in 1 .. Len(t),
                        t[j].type = "Internal", t[j] = t[k]
                 PROVE  j = k
    BY DEF InternalsOnce
  <2>2. j + 1 \in 1 .. Len(q) /\ k + 1 \in 1 .. Len(q)
    BY <1>1
  <2>3. q[j + 1].type = "Internal" /\ q[j + 1] = q[k + 1]
    BY <1>1, <2>1
  <2>4. j + 1 = k + 1
    BY <2>2, <2>3 DEF InternalsOnce
  <2> QED BY <2>4
<1>3. ASSUME NEW i \in Ids
      PROVE  Queued(t, i) <=> (Queued(q, i) /\ Head(q) # Internal(i))
  <2>1. ASSUME Queued(t, i)
        PROVE  Queued(q, i) /\ Head(q) # Internal(i)
    <3>1. PICK k \in 1 .. Len(t) : t[k] = Internal(i)
      BY <2>1 DEF Queued
    <3>2. k + 1 \in 1 .. Len(q) /\ 1 \in 1 .. Len(q) /\ k + 1 # 1 /\ q[k + 1] = Internal(i)
      BY <1>1, <3>1
    <3>3. Queued(q, i)
      BY <3>2 DEF Queued
    <3>4. ASSUME q[1] = Internal(i) PROVE FALSE
      <4>1. q[k + 1].type = "Internal" /\ q[k + 1] = q[1]
        BY <3>2, <3>4, InternalIds
      <4> QED BY <3>2, <4>1 DEF InternalsOnce
    <3> QED BY <1>1, <3>3, <3>4
  <2>2. ASSUME Queued(q, i), Head(q) # Internal(i)
        PROVE  Queued(t, i)
    <3>1. PICK k \in 1 .. Len(q) : q[k] = Internal(i)
      BY <2>2 DEF Queued
    <3>2. k # 1
      BY <1>1, <2>2, <3>1
    <3>3. k - 1 \in 1 .. Len(t) /\ (k - 1) + 1 = k
      BY <1>1, <3>2
    <3>4. t[k - 1] = Internal(i)
      BY <1>1, <3>1, <3>3
    <3> QED BY <3>3, <3>4 DEF Queued
  <2> QED BY <2>1, <2>2
<1>4. ASSUME NEW i \in Ids, Head(q) = Internal(i)
      PROVE  Queued(q, i)
  <2>1. 1 \in 1 .. Len(q) /\ q[1] = Internal(i)
    BY <1>1, <1>4
  <2> QED BY <2>1 DEF Queued
<1> QED BY <1>1, <1>2, <1>3, <1>4 DEF t

\* ... adding one of another node at the end ...
LEMMA QueueAppend ==
  ASSUME NEW q \in Seq(GroupMessage), InternalsOnce(q),
         NEW m \in GroupMessage, m.type = "Paxos"
  PROVE  /\ Append(q, m) \in Seq(GroupMessage)
         /\ InternalsOnce(Append(q, m))
         /\ \A i \in Ids : Queued(Append(q, m), i) <=> Queued(q, i)
<1> DEFINE t == Append(q, m)
<1>1. /\ t \in Seq(GroupMessage) /\ Len(q) \in Nat /\ Len(t) = Len(q) + 1
      /\ t[Len(q) + 1] = m
      /\ \A k \in 1 .. Len(q) : t[k] = q[k]
  BY AppendFacts
<1> HIDE DEF t
<1>2. \A k \in 1 .. Len(t) : k # Len(q) + 1 => k \in 1 .. Len(q)
  BY <1>1
<1>3. InternalsOnce(t)
  <2>1. SUFFICES ASSUME NEW j \in 1 .. Len(t), NEW k \in 1 .. Len(t),
                        t[j].type = "Internal", t[j] = t[k]
                 PROVE  j = k
    BY DEF InternalsOnce
  <2>2. j # Len(q) + 1 /\ k # Len(q) + 1
    BY <1>1, <2>1
  <2>3. j \in 1 .. Len(q) /\ k \in 1 .. Len(q) /\ q[j] = q[k] /\ q[j].type = "Internal"
    BY <1>1, <1>2, <2>1, <2>2
  <2> QED BY <2>3 DEF InternalsOnce
<1>4. ASSUME NEW i \in Ids
      PROVE  Queued(t, i) <=> Queued(q, i)
  <2>1. ASSUME Queued(t, i) PROVE Queued(q, i)
    <3>1. PICK k \in 1 .. Len(t) : t[k] = Internal(i)
      BY <2>1 DEF Queued
    <3>2. k # Len(q) + 1
      BY <1>1, <3>1, InternalIds
    <3>3. k \in 1 .. Len(q) /\ q[k] = Internal(i)
      BY <1>1, <1>2, <3>1, <3>2
    <3> QED BY <3>3 DEF Queued
  <2>2. ASSUME Queued(q, i) PROVE Queued(t, i)
    <3>1. PICK k \in 1 .. Len(q) : q[k] = Internal(i)
      BY <2>2 DEF Queued
    <3>2. k \in 1 .. Len(t) /\ t[k] = Internal(i)
      BY <1>1, <3>1
    <3> QED BY <3>2 DEF Queued
  <2> QED BY <2>1, <2>2
<1> QED BY <1>1, <1>3, <1>4 DEF t

\* ... and putting the internal message of an id in front.
LEMMA QueueFront ==
  ASSUME NEW q \in Seq(GroupMessage), InternalsOnce(q), NEW i \in Ids, ~Queued(q, i)
  PROVE  /\ <<Internal(i)>> \o q \in Seq(GroupMessage)
         /\ InternalsOnce(<<Internal(i)>> \o q)
         /\ \A j \in Ids : Queued(<<Internal(i)>> \o q, j) <=> (Queued(q, j) \/ j = i)
<1> DEFINE t == <<Internal(i)>> \o q
<1>0. Internal(i) \in GroupMessage
  BY InternalIds
<1>1. /\ t \in Seq(GroupMessage) /\ Len(q) \in Nat /\ Len(t) = Len(q) + 1
      /\ t[1] = Internal(i)
      /\ \A k \in 1 .. Len(q) : t[k + 1] = q[k]
  BY <1>0, FrontFacts
<1> HIDE DEF t
<1>2. \A k \in 1 .. Len(t) : k # 1 => k - 1 \in 1 .. Len(q) /\ t[k] = q[k - 1]
  <2>1. SUFFICES ASSUME NEW k \in 1 .. Len(t), k # 1
                 PROVE  k - 1 \in 1 .. Len(q) /\ t[k] = q[k - 1]
    OBVIOUS
  <2>2. k - 1 \in 1 .. Len(q) /\ (k - 1) + 1 = k
    BY <1>1, <2>1
  <2> QED BY <1>1, <2>2
<1>3. \A k \in 1 .. Len(q) : q[k] # Internal(i)
  BY DEF Queued
<1>4. InternalsOnce(t)
  <2>1. SUFFICES ASSUME NEW j \in 1 .. Len(t), NEW k \in 1 .. Len(t),
                        t[j].type = "Internal", t[j] = t[k]
                 PROVE  j = k
    BY DEF InternalsOnce
  <2>2. CASE j = 1 \/ k = 1
    BY <1>1, <1>2, <1>3, <2>1, <2>2
  <2>3. CASE j # 1 /\ k # 1
    <3>1. /\ j - 1 \in 1 .. Len(q) /\ k - 1 \in 1 .. Len(q)
          /\ q[j - 1] = q[k - 1] /\ q[j - 1].type = "Internal"
      BY <1>2, <2>1, <2>3
    <3>2. j - 1 = k - 1
      BY <3>1 DEF InternalsOnce
    <3> QED BY <3>2
  <2> QED BY <2>2, <2>3
<1>5. ASSUME NEW j \in Ids
      PROVE  Queued(t, j) <=> (Queued(q, j) \/ j = i)
  <2>1. ASSUME Queued(t, j) PROVE Queued(q, j) \/ j = i
    <3>1. PICK k \in 1 .. Len(t) : t[k] = Internal(j)
      BY <2>1 DEF Queued
    <3>2. CASE k = 1
      BY <1>1, <3>1, <3>2, InternalIds
    <3>3. CASE k # 1
      <4>1. k - 1 \in 1 .. Len(q) /\ q[k - 1] = Internal(j)
        BY <1>2, <3>1, <3>3
      <4> QED BY <4>1 DEF Queued
    <3> QED BY <3>2, <3>3
  <2>2. ASSUME Queued(q, j) PROVE Queued(t, j)
    <3>1. PICK k \in 1 .. Len(q) : q[k] = Internal(j)
      BY <2>2 DEF Queued
    <3>2. k + 1 \in 1 .. Len(t) /\ t[k + 1] = Internal(j)
      BY <1>1, <3>1
    <3> QED BY <3>2 DEF Queued
  <2>3. Queued(t, i)
    <3>1. 1 \in 1 .. Len(t)
      BY <1>1
    <3> QED BY <1>1, <3>1 DEF Queued
  <2> QED BY <2>1, <2>2, <2>3
<1> QED BY <1>1, <1>4, <1>5 DEF t

\* The queue of contexts.
LEMMA ContextTail ==
  ASSUME NEW q \in Seq(Clients), q # <<>>, Distinct(q)
  PROVE  /\ Tail(q) \in Seq(Clients) /\ Head(q) \in Clients /\ Waits(q, Head(q))
         /\ Distinct(Tail(q))
         /\ \A c \in Clients : Waits(Tail(q), c) <=> (Waits(q, c) /\ c # Head(q))
<1> DEFINE t == Tail(q)
<1>1. /\ t \in Seq(Clients) /\ Head(q) \in Clients /\ Head(q) = q[1]
      /\ Len(q) \in Nat \ {0} /\ Len(t) = Len(q) - 1
      /\ \A k \in 1 .. Len(t) : t[k] = q[k + 1]
  BY TailFacts
<1> HIDE DEF t
<1>2. 1 \in 1 .. Len(q) /\ \A k \in 1 .. Len(t) : k + 1 \in 1 .. Len(q) /\ k + 1 # 1
  BY <1>1
<1>3. Distinct(t)
  <2>1. SUFFICES ASSUME NEW j \in 1 .. Len(t), NEW k \in 1 .. Len(t), t[j] = t[k]
                 PROVE  j = k
    BY DEF Distinct
  <2>2. j + 1 = k + 1
    BY <1>1, <1>2, <2>1 DEF Distinct
  <2> QED BY <2>2
<1>4. ASSUME NEW c \in Clients
      PROVE  Waits(t, c) <=> (Waits(q, c) /\ c # q[1])
  <2>1. ASSUME Waits(t, c) PROVE Waits(q, c) /\ c # q[1]
    <3>1. PICK k \in 1 .. Len(t) : t[k] = c
      BY <2>1 DEF Waits
    <3>2. q[k + 1] = c /\ k + 1 \in 1 .. Len(q) /\ k + 1 # 1
      BY <1>1, <1>2, <3>1
    <3> QED BY <1>2, <3>2 DEF Waits, Distinct
  <2>2. ASSUME Waits(q, c), c # q[1] PROVE Waits(t, c)
    <3>1. PICK k \in 1 .. Len(q) : q[k] = c
      BY <2>2 DEF Waits
    <3>2. k # 1
      BY <2>2, <3>1
    <3>3. k - 1 \in 1 .. Len(t) /\ (k - 1) + 1 = k
      BY <1>1, <3>2
    <3>4. t[k - 1] = c
      BY <1>1, <3>1, <3>3
    <3> QED BY <3>3, <3>4 DEF Waits
  <2> QED BY <2>1, <2>2
<1>5. Waits(q, q[1])
  BY <1>2 DEF Waits
<1> QED BY <1>1, <1>3, <1>4, <1>5 DEF t

LEMMA ContextAppend ==
  ASSUME NEW q \in Seq(Clients), Distinct(q), NEW c \in Clients, ~Waits(q, c)
  PROVE  /\ Append(q, c) \in Seq(Clients)
         /\ Distinct(Append(q, c))
         /\ \A d \in Clients : Waits(Append(q, c), d) <=> (Waits(q, d) \/ d = c)
<1> DEFINE t == Append(q, c)
<1>1. /\ t \in Seq(Clients) /\ Len(q) \in Nat /\ Len(t) = Len(q) + 1
      /\ t[Len(q) + 1] = c
      /\ \A k \in 1 .. Len(q) : t[k] = q[k]
  BY AppendFacts
<1> HIDE DEF t
<1>2. /\ \A k \in 1 .. Len(t) : k # Len(q) + 1 => k \in 1 .. Len(q)
      /\ \A k \in 1 .. Len(q) : k \in 1 .. Len(t)
      /\ Len(q) + 1 \in 1 .. Len(t)
  BY <1>1
<1>3. \A k \in 1 .. Len(q) : q[k] # c
  BY DEF Waits
<1>4. Distinct(t)
  <2>1. SUFFICES ASSUME NEW j \in 1 .. Len(t), NEW k \in 1 .. Len(t), t[j] = t[k]
                 PROVE  j = k
    BY DEF Distinct
  <2>2. CASE j = Len(q) + 1 \/ k = Len(q) + 1
    BY <1>1, <1>2, <1>3, <2>1, <2>2
  <2>3. CASE j # Len(q) + 1 /\ k # Len(q) + 1
    BY <1>1, <1>2, <2>1, <2>3 DEF Distinct
  <2> QED BY <2>2, <2>3
<1>5. ASSUME NEW d \in Clients
      PROVE  Waits(t, d) <=> (Waits(q, d) \/ d = c)
  BY <1>1, <1>2 DEF Waits
<1> QED BY <1>1, <1>4, <1>5 DEF t

(****************************************************************************)
(* One lemma per operation: the ids, the map, the objects and the queue.    *)
(****************************************************************************)
\* What a state with TypeOK and Structure says of the ids.
LEMMA IdFacts ==
  ASSUME TypeOK, Structure
  PROVE  /\ Window \in Nat \ {0} /\ min \in Int /\ max \in Int
         /\ \A i \in DOMAIN map : i \in Ids /\ i \in Int /\ map[i] \in Pool
         /\ \A i \in Int : Ended(min, flags, i) => i < max
         /\ \A x \in Pool : object[x].id # 0 => object[x].id \in Ids
<1>1. /\ Window \in Nat \ {0} /\ min \in Int /\ max \in Int
      /\ \A i \in DOMAIN map : i \in Ids /\ i \in Int /\ map[i] \in Pool
  BY PoolAssumption DEF TypeOK, Ids
<1>2. ASSUME NEW i \in Int, Ended(min, flags, i)
      PROVE  i < max
  <2>1. CASE i < min
    BY <1>1, <2>1 DEF Structure, WindowInv
  <2>2. CASE i >= min
    <3>1. i - min \in 0 .. Window - 1 /\ flags[i - min] /\ min + (i - min) = i
      BY <1>1, <1>2, <2>2 DEF Ended
    <3> QED BY <3>1 DEF Structure, WindowInv
  <2> QED BY <1>1, <2>1, <2>2
<1>3. \A x \in Pool : object[x].id # 0 => object[x].id \in Ids
  BY DEF TypeOK, Ids
<1> QED BY <1>1, <1>2, <1>3

\* AllocateNewInstance, perhaps after a message of another node was taken.
LEMMA AllocationStructure ==
  ASSUME TypeOK, Structure,
         NEW id \in Ids, id >= min, id < min + Window, ~flags[id - min], id \notin DOMAIN map,
         NEW c \in Clients \cup {NoClient}, AllocateNewInstance(id, c),
         UNCHANGED <<thread, log>>,
         InternalsOnce(queue'), \A i \in Ids : Queued(queue', i) <=> Queued(queue, i)
  PROVE  /\ Structure'
         /\ \A x \in Pool : object'[x] = object[x] \/ object'[x] = [id |-> id, ctx |-> c]
         /\ \A i \in DOMAIN map : i # id
<1>1. PICK x \in idle :
        /\ idle' = idle \ {x}
        /\ map' = [i \in DOMAIN map \cup {id} |-> IF i = id THEN x ELSE map[i]]
        /\ max' = IF max > id THEN max ELSE id + 1
        /\ object' = [object EXCEPT ![x] = [id |-> id, ctx |-> c]]
        /\ UNCHANGED <<min, flags>>
  BY DEF AllocateNewInstance
<1>2. /\ Window \in Nat \ {0} /\ min \in Int /\ max \in Int /\ id \in Int /\ id # 0
      /\ \A i \in DOMAIN map : i \in Ids /\ i \in Int /\ map[i] \in Pool
      /\ x \in Pool /\ idle \subseteq Pool
  <2>1. idle \subseteq Pool /\ id \in Int /\ id # 0
    BY DEF TypeOK, Ids
  <2> QED BY <2>1, IdFacts
<1>3. /\ object'[x].id = id /\ object'[x].ctx = c
      /\ \A y \in Pool : y # x => object'[y] = object[y]
  BY <1>1, <1>2 DEF TypeOK
<1>4. /\ DOMAIN map' = DOMAIN map \cup {id} /\ map'[id] = x
      /\ \A i \in DOMAIN map : map'[i] = map[i] /\ i # id /\ map[i] # x
  BY <1>1, <1>2 DEF Structure, MapInv
<1>5. thread[x].step # "internal" /\ object[x].id = 0
  BY <1>1, <1>2 DEF Structure, MapInv, ObjectInv
<1>6. ~Queued(queue, id) /\ ~Ended(min, flags, id)
  BY <1>2 DEF Structure, AnnouncedInv, Ended
<1>7. WindowInv'
  <2>1. min <= max' /\ max' <= min + Window /\ max <= max' /\ max' \in Int
    BY <1>1, <1>2 DEF Structure, WindowInv
  <2>2. \A k \in 0 .. Window - 1 : flags[k] => min + k < max'
    BY <1>2, <2>1 DEF Structure, WindowInv
  <2> QED BY <1>1, <2>1, <2>2 DEF Structure, WindowInv
<1>8. MapInv'
  <2>1. \A y \in Pool : y \notin idle' <=> \E i \in DOMAIN map' : map'[i] = y
    BY <1>1, <1>2, <1>4 DEF Structure, MapInv
  <2>2. \A i, j \in DOMAIN map' : map'[i] = map'[j] => i = j
    BY <1>4 DEF Structure, MapInv
  <2>3. \A i \in DOMAIN map' : InWindow(i)' /\ i < max' /\ ~Ended(min', flags', i)
    <3>1. InWindow(id)' /\ id < max' /\ ~Ended(min', flags', id)
      BY <1>1, <1>2, <1>6 DEF InWindow
    <3>2. \A i \in DOMAIN map : InWindow(i)' /\ i < max' /\ ~Ended(min', flags', i)
      BY <1>1, <1>2 DEF InWindow, Structure, MapInv
    <3> QED BY <1>4, <3>1, <3>2
  <2> QED BY <2>1, <2>2, <2>3 DEF MapInv
<1>9. ObjectInv'
  <2>1. ASSUME NEW y \in Pool
        PROVE  /\ object'[y].id = 0 => object'[y].ctx = NoClient
               /\ object'[y].id # 0 => /\ object'[y].id \in DOMAIN map' /\ map'[object'[y].id] = y
                                       /\ thread'[y].step # "internal"
               /\ thread'[y].step = "internal" => /\ thread'[y].id \in DOMAIN map'
                                                  /\ map'[thread'[y].id] = y
                                                  /\ object'[y].id = 0
    <3>1. CASE y = x
      BY <1>2, <1>3, <1>4, <1>5, <3>1
    <3>2. CASE y # x
      BY <1>3, <1>4, <3>2 DEF Structure, ObjectInv
    <3> QED BY <3>1, <3>2
  <2>2. ASSUME NEW i \in DOMAIN map'
        PROVE  /\ Queued(queue', i) => /\ object'[map'[i]].id = 0
                                       /\ thread'[map'[i]].step # "internal"
               /\ ~Queued(queue', i) =>
                    \/ object'[map'[i]].id = i
                    \/ thread'[map'[i]].step = "internal" /\ thread'[map'[i]].id = i
    <3>1. CASE i = id
      BY <1>3, <1>4, <1>6, <3>1
    <3>2. CASE i # id
      <4>1. i \in DOMAIN map /\ map'[i] = map[i] /\ map[i] \in Pool /\ map[i] # x /\ i \in Ids
        BY <1>2, <1>4, <3>2
      <4> QED BY <1>3, <4>1 DEF Structure, ObjectInv
    <3> QED BY <3>1, <3>2
  <2> QED BY <2>1, <2>2 DEF ObjectInv
<1>10. AnnouncedInv'
  <2>1. \A i \in Ids : Queued(queue', i) => i \in DOMAIN map'
    BY <1>4 DEF Structure, AnnouncedInv
  <2>2. \A i \in Ids : (i \in DOMAIN log' \/ Logging(i)') <=> (i \in DOMAIN log \/ Logging(i))
    BY DEF Logging
  <2>3. \A i \in Ids : (i \in DOMAIN log' \/ Logging(i)')
                         <=> (Ended(min', flags', i) \/ Queued(queue', i))
    BY <1>1, <2>2 DEF Structure, AnnouncedInv
  <2> QED BY <2>1, <2>3 DEF AnnouncedInv
<1>11. ThreadInv'
  BY DEF Structure, ThreadInv
<1>12. \A y \in Pool : object'[y] = object[y] \/ object'[y] = [id |-> id, ctx |-> c]
  BY <1>1, <1>2 DEF TypeOK
<1> QED BY <1>4, <1>7, <1>8, <1>9, <1>10, <1>11, <1>12 DEF Structure

\* OnInternalMessage, for the first message of the queue.
LEMMA InternalStructure ==
  ASSUME TypeOK, Structure, NEW id \in Ids,
         Queued(queue, id), InternalsOnce(queue'),
         \A i \in Ids : Queued(queue', i) <=> (Queued(queue, i) /\ i # id),
         OnInternalMessage(id), UNCHANGED <<thread, log>>
  PROVE  Structure' /\ min <= min' /\ flags' \in [0 .. Window - 1 -> BOOLEAN] /\ min' \in Nat
<1> DEFINE x == map[id]
<1>1. /\ Window \in Nat \ {0} /\ min \in Int /\ max \in Int /\ id \in Int
      /\ \A i \in DOMAIN map : i \in Ids /\ i \in Int /\ map[i] \in Pool
      /\ \A i \in Int : Ended(min, flags, i) => i < max
      /\ idle \subseteq Pool
  BY IdFacts DEF TypeOK, Ids
<1>2. Queued(queue, id) /\ \A i \in Ids : Queued(queue', i) <=> (Queued(queue, i) /\ i # id)
  OBVIOUS
<1>3. id \in DOMAIN map /\ InWindow(id) /\ id < max
  BY <1>2 DEF Structure, AnnouncedInv, MapInv
<1>4. x \in Pool /\ object[x].id = 0 /\ thread[x].step # "internal"
  BY <1>1, <1>2, <1>3 DEF Structure, ObjectInv
<1>5. /\ idle' = idle \cup {x} /\ map' = [i \in DOMAIN map \ {id} |-> map[i]]
      /\ UpdateMinMaxInstanceID(id) /\ UNCHANGED <<max, object>>
  BY DEF OnInternalMessage
<1>6. /\ DOMAIN map' = DOMAIN map \ {id}
      /\ \A i \in DOMAIN map' : map'[i] = map[i] /\ map[i] # x
  BY <1>3, <1>5 DEF Structure, MapInv
<1>7. /\ min' \in Nat /\ min <= min' /\ min' <= min + Window
      /\ flags' \in [0 .. Window - 1 -> BOOLEAN] /\ flags'[0] = FALSE
      /\ \A i \in Int : Ended(min', flags', i) <=> (Ended(min, flags, i) \/ i = id)
  <2>1. min \in Nat /\ flags \in [0 .. Window - 1 -> BOOLEAN] /\ flags[0] = FALSE
    BY DEF TypeOK, Structure, WindowInv
  <2> QED BY <1>1, <1>3, <1>5, <2>1, WindowUpdate
<1> HIDE DEF x
<1>8. \A i \in Int : Ended(min', flags', i) => i < max
  BY <1>1, <1>3, <1>7
<1>a. min \in Int /\ max \in Int /\ Window \in Int
  BY <1>1
<1>b. PICK m \in Int : min' = m
  BY <1>7
<1>c. min <= min' /\ min' <= min + Window
  BY <1>7
<1>9. min' <= max
  <2>1. min' - 1 \in Int /\ min' - 1 < min'
    BY <1>b
  <2>2. Ended(min', flags', min' - 1)
    BY <2>1 DEF Ended
  <2>3. min' - 1 < max
    BY <1>8, <2>1, <2>2
  <2> QED BY <1>a, <1>b, <2>3
<1>10. WindowInv'
  <2>1. ASSUME NEW k \in 0 .. Window - 1, flags'[k]
        PROVE  min' + k < max
    <3>1. min' + k \in Int /\ min' + k < min' + Window /\ (min' + k) - min' = k
      BY <1>a, <1>b
    <3>2. Ended(min', flags', min' + k)
      BY <2>1, <3>1 DEF Ended
    <3> QED BY <1>8, <3>1, <3>2
  <2>2. max <= min' + Window
    <3>1. max <= min + Window
      BY DEF Structure, WindowInv
    <3> QED BY <1>a, <1>b, <1>c, <3>1
  <2> QED BY <1>5, <1>7, <1>9, <2>1, <2>2 DEF WindowInv
<1>11. MapInv'
  <2>1. \A y \in Pool : y \notin idle' <=> \E i \in DOMAIN map' : map'[i] = y
    <3>1. \A y \in Pool : y \notin idle <=> \E i \in DOMAIN map : map[i] = y
      BY DEF Structure, MapInv
    <3>2. \A i \in DOMAIN map : i \in DOMAIN map' \/ map[i] = x
      BY <1>6 DEF x
    <3> QED BY <1>4, <1>5, <1>6, <3>1, <3>2
  <2>2. \A i, j \in DOMAIN map' : map'[i] = map'[j] => i = j
    BY <1>6 DEF Structure, MapInv
  <2>3. ASSUME NEW i \in DOMAIN map'
        PROVE  InWindow(i)' /\ i < max' /\ ~Ended(min', flags', i)
    <3>1. i \in DOMAIN map /\ i # id /\ i \in Int
      BY <1>1, <1>6
    <3>2. InWindow(i) /\ i < max /\ ~Ended(min, flags, i)
      BY <3>1 DEF Structure, MapInv
    <3>3. ~Ended(min', flags', i)
      BY <1>7, <3>1, <3>2
    <3>4. i >= min'
      BY <1>7, <3>1, <3>3 DEF Ended
    <3>5. i < min' + Window
      BY <1>1, <1>7, <3>1, <3>2 DEF InWindow
    <3> QED BY <1>5, <3>2, <3>3, <3>4, <3>5 DEF InWindow
  <2> QED BY <2>1, <2>2, <2>3 DEF MapInv
<1>12. ObjectInv'
  <2>1. ASSUME NEW y \in Pool
        PROVE  /\ object'[y].id = 0 => object'[y].ctx = NoClient
               /\ object'[y].id # 0 => /\ object'[y].id \in DOMAIN map' /\ map'[object'[y].id] = y
                                       /\ thread'[y].step # "internal"
               /\ thread'[y].step = "internal" => /\ thread'[y].id \in DOMAIN map'
                                                  /\ map'[thread'[y].id] = y
                                                  /\ object'[y].id = 0
    <3>1. object[y].id # 0 => object[y].id # id
      BY <1>4 DEF Structure, ObjectInv, x
    <3>2. thread[y].step = "internal" => thread[y].id # id
      BY <1>4 DEF Structure, ObjectInv, x
    <3> QED BY <1>5, <1>6, <3>1, <3>2 DEF Structure, ObjectInv
  <2>2. ASSUME NEW i \in DOMAIN map'
        PROVE  /\ Queued(queue', i) => /\ object'[map'[i]].id = 0
                                       /\ thread'[map'[i]].step # "internal"
               /\ ~Queued(queue', i) =>
                    \/ object'[map'[i]].id = i
                    \/ thread'[map'[i]].step = "internal" /\ thread'[map'[i]].id = i
    <3>1. i \in DOMAIN map /\ i \in Ids /\ i # id /\ map'[i] = map[i]
      BY <1>1, <1>6
    <3>2. Queued(queue', i) <=> Queued(queue, i)
      BY <1>2, <3>1
    <3> QED BY <1>5, <3>1, <3>2 DEF Structure, ObjectInv
  <2> QED BY <2>1, <2>2 DEF ObjectInv
<1>13. AnnouncedInv'
  <2>1. \A i \in Ids : Queued(queue', i) => i \in DOMAIN map'
    BY <1>2, <1>6 DEF Structure, AnnouncedInv
  <2>2. \A i \in Ids : (i \in DOMAIN log' \/ Logging(i)') <=> (i \in DOMAIN log \/ Logging(i))
    BY DEF Logging
  <2>3. \A i \in Ids : (i \in DOMAIN log' \/ Logging(i)')
                         <=> (Ended(min', flags', i) \/ Queued(queue', i))
    <3>1. \A i \in Ids : i \in Int
      BY DEF Ids
    <3>2. \A i \in Ids : (i \in DOMAIN log \/ Logging(i))
                           <=> (Ended(min, flags, i) \/ Queued(queue, i))
      BY DEF Structure, AnnouncedInv
    <3> QED BY <1>2, <1>7, <2>2, <3>1, <3>2
  <2> QED BY <1>2, <2>1, <2>3 DEF AnnouncedInv
<1>14. ThreadInv'
  BY DEF Structure, ThreadInv
<1> QED BY <1>7, <1>10, <1>11, <1>12, <1>13, <1>14 DEF Structure

\* The steps of an object's thread.  Each leaves the other objects alone.
LEMMA ReachStructure ==
  ASSUME TypeOK, Structure, NEW x \in Pool, ReachConsensus(x)
  PROVE  Structure'
<1> DEFINE id == object[x].id
<1>1. /\ thread[x] = Ready /\ id # 0 /\ object' = [object EXCEPT ![x] = Free]
      /\ UNCHANGED <<groupVars, queue, log>>
  BY DEF ReachConsensus
<1>2. PICK v \in {object[x].ctx, NoClient} :
        thread' = [thread EXCEPT ![x] = [step |-> "internal", id |-> id,
                                         ctx |-> object[x].ctx, value |-> v]]
  BY DEF ReachConsensus
<1>3. /\ object'[x].id = 0 /\ object'[x].ctx = NoClient
      /\ \A y \in Pool : y # x => object'[y] = object[y]
  BY <1>1 DEF TypeOK, Free
<1>4. /\ thread'[x].step = "internal" /\ thread'[x].id = id
      /\ \A y \in Pool : y # x => thread'[y] = thread[y]
  BY <1>2 DEF TypeOK
<1>5. thread[x].step = "ready"
  BY <1>1 DEF Ready
<1>6. id \in DOMAIN map /\ map[id] = x /\ id \in Ids
  BY <1>1, IdFacts DEF Structure, ObjectInv
<1>7. ~Queued(queue, id) /\ ~Ended(min, flags, id)
  BY <1>1, <1>6 DEF Structure, ObjectInv, MapInv
<1>8. id \notin DOMAIN log /\ ~Logging(id)
  BY <1>6, <1>7 DEF Structure, AnnouncedInv
<1>9. \A y \in Pool : thread[y].step # "ready" => thread[y].id # id
  <2>1. SUFFICES ASSUME NEW y \in Pool, thread[y].step # "ready", thread[y].id = id
                 PROVE  FALSE
    OBVIOUS
  <2>2. CASE thread[y].step = "internal"
    BY <1>5, <1>6, <2>1, <2>2 DEF Structure, ObjectInv
  <2>3. CASE thread[y].step = "log"
    BY <1>8, <2>1, <2>3 DEF Logging
  <2>4. CASE thread[y].step = "notify"
    BY <1>8, <2>1, <2>4 DEF Structure, ThreadInv
  <2> QED BY <2>1, <2>2, <2>3, <2>4 DEF TypeOK
<1> HIDE DEF id
<1>10. WindowInv' /\ MapInv'
  BY <1>1 DEF Structure, WindowInv, MapInv, InWindow, Ended, groupVars
<1>11. ObjectInv'
  <2>0. map' = map /\ queue' = queue
    BY <1>1 DEF groupVars
  <2>1. ASSUME NEW y \in Pool
        PROVE  /\ object'[y].id = 0 => object'[y].ctx = NoClient
               /\ object'[y].id # 0 => /\ object'[y].id \in DOMAIN map' /\ map'[object'[y].id] = y
                                       /\ thread'[y].step # "internal"
               /\ thread'[y].step = "internal" => /\ thread'[y].id \in DOMAIN map'
                                                  /\ map'[thread'[y].id] = y
                                                  /\ object'[y].id = 0
    <3>1. CASE y = x
      BY <1>3, <1>4, <1>6, <2>0, <3>1
    <3>2. CASE y # x
      BY <1>3, <1>4, <2>0, <3>2 DEF Structure, ObjectInv
    <3> QED BY <3>1, <3>2
  <2>2. ASSUME NEW i \in DOMAIN map
        PROVE  /\ Queued(queue, i) => /\ object'[map[i]].id = 0
                                      /\ thread'[map[i]].step # "internal"
               /\ ~Queued(queue, i) =>
                    \/ object'[map[i]].id = i
                    \/ thread'[map[i]].step = "internal" /\ thread'[map[i]].id = i
    <3>1. CASE i = id
      BY <1>4, <1>6, <1>7, <3>1
    <3>2. CASE i # id
      <4>1. map[i] \in Pool /\ map[i] # x
        BY <1>6, <3>2, IdFacts DEF Structure, MapInv
      <4> QED BY <1>3, <1>4, <4>1 DEF Structure, ObjectInv
    <3> QED BY <3>1, <3>2
  <2> QED BY <2>0, <2>1, <2>2 DEF ObjectInv
<1>12. AnnouncedInv'
  <2>1. \A i \in Ids : Logging(i)' <=> Logging(i)
    BY <1>4, <1>5 DEF Logging
  <2> QED BY <1>1, <2>1 DEF Structure, AnnouncedInv, groupVars, Ended
<1>13. ThreadInv'
  <2>1. log' = log
    BY <1>1
  <2>2. \A y \in Pool : thread'[y].step = "ready" => thread'[y] = Ready
    BY <1>4 DEF Structure, ThreadInv
  <2>3. \A y \in Pool : thread'[y].step # "ready" => thread'[y].id \in Ids
    BY <1>4, <1>6 DEF Structure, ThreadInv
  <2>4. \A y \in Pool : thread'[y].step \in {"internal", "log"} => thread'[y].id \notin DOMAIN log'
    BY <1>4, <1>8, <2>1 DEF Structure, ThreadInv
  <2>5. \A y \in Pool : thread'[y].step = "notify" =>
          /\ thread'[y].id \in DOMAIN log' /\ log'[thread'[y].id] = thread'[y].value
          /\ thread'[y].ctx # NoClient
    BY <1>4, <2>1 DEF Structure, ThreadInv
  <2>6. \A y, z \in Pool : thread'[y].step # "ready" /\ thread'[z].step # "ready"
                           /\ thread'[y].id = thread'[z].id => y = z
    BY <1>4, <1>9 DEF Structure, ThreadInv
  <2> QED BY <2>2, <2>3, <2>4, <2>5, <2>6 DEF ThreadInv
<1> QED BY <1>10, <1>11, <1>12, <1>13 DEF Structure

LEMMA QueueInternalStructure ==
  ASSUME TypeOK, Structure, NEW x \in Pool, QueueInternal(x)
  PROVE  Structure' /\ queue' \in Seq(GroupMessage)
<1> DEFINE id == thread[x].id
<1>1. /\ thread[x].step = "internal"
      /\ queue' = <<Internal(id)>> \o queue
      /\ thread' = [thread EXCEPT ![x].step = "log"]
      /\ UNCHANGED <<groupVars, log, object>>
  BY DEF QueueInternal, Internal
<1>2. /\ thread'[x].step = "log" /\ thread'[x].id = id
      /\ \A y \in Pool : y # x => thread'[y] = thread[y]
  BY <1>1 DEF TypeOK
<1>3. id \in DOMAIN map /\ map[id] = x /\ object[x].id = 0 /\ id \in Ids
  BY <1>1, IdFacts DEF Structure, ObjectInv
<1>4. ~Queued(queue, id) /\ id \notin DOMAIN log
  BY <1>1, <1>3 DEF Structure, ObjectInv, ThreadInv
<1>5. queue \in Seq(GroupMessage) /\ InternalsOnce(queue)
  BY DEF TypeOK, Structure, AnnouncedInv
<1> HIDE DEF id
<1>6. /\ queue' \in Seq(GroupMessage) /\ InternalsOnce(queue')
      /\ \A i \in Ids : Queued(queue', i) <=> (Queued(queue, i) \/ i = id)
  BY <1>1, <1>3, <1>4, <1>5, QueueFront
<1>7. UNCHANGED <<groupVars, map, log, object>>
  BY <1>1 DEF groupVars
<1>8. WindowInv' /\ MapInv'
  BY <1>7 DEF Structure, WindowInv, MapInv, InWindow, Ended, groupVars
<1>9. ObjectInv'
  <2>1. ASSUME NEW y \in Pool
        PROVE  /\ object[y].id = 0 => object[y].ctx = NoClient
               /\ object[y].id # 0 => /\ object[y].id \in DOMAIN map /\ map[object[y].id] = y
                                      /\ thread'[y].step # "internal"
               /\ thread'[y].step = "internal" => /\ thread'[y].id \in DOMAIN map
                                                  /\ map[thread'[y].id] = y
                                                  /\ object[y].id = 0
    <3>1. CASE y = x
      BY <1>2, <1>3, <3>1 DEF Structure, ObjectInv
    <3>2. CASE y # x
      BY <1>2, <3>2 DEF Structure, ObjectInv
    <3> QED BY <3>1, <3>2
  <2>2. ASSUME NEW i \in DOMAIN map
        PROVE  /\ Queued(queue', i) => /\ object[map[i]].id = 0
                                       /\ thread'[map[i]].step # "internal"
               /\ ~Queued(queue', i) =>
                    \/ object[map[i]].id = i
                    \/ thread'[map[i]].step = "internal" /\ thread'[map[i]].id = i
    <3>1. CASE i = id
      BY <1>2, <1>3, <1>6, <3>1
    <3>2. CASE i # id
      <4>1. map[i] \in Pool /\ map[i] # x /\ i \in Ids
        BY <1>3, <3>2, IdFacts DEF Structure, MapInv
      <4>2. Queued(queue', i) <=> Queued(queue, i)
        BY <1>6, <3>2, <4>1
      <4> QED BY <1>2, <4>1, <4>2 DEF Structure, ObjectInv
    <3> QED BY <3>1, <3>2
  <2> QED BY <1>7, <2>1, <2>2 DEF ObjectInv
<1>10. AnnouncedInv'
  <2>1. \A i \in Ids : Logging(i)' <=> (Logging(i) \/ i = id)
    <3>1. \A i \in Ids : i = id => Logging(i)'
      BY <1>2 DEF Logging
    <3>2. \A i \in Ids : Logging(i) => Logging(i)'
      BY <1>1, <1>2 DEF Logging
    <3>3. \A i \in Ids : Logging(i)' => (Logging(i) \/ i = id)
      <4>1. SUFFICES ASSUME NEW i \in Ids, Logging(i)', i # id PROVE Logging(i)
        OBVIOUS
      <4>2. PICK y \in Pool : thread'[y].step = "log" /\ thread'[y].id = i
        BY <4>1 DEF Logging
      <4>3. y # x
        BY <1>2, <4>1, <4>2
      <4> QED BY <1>2, <4>2, <4>3 DEF Logging
    <3> QED BY <3>1, <3>2, <3>3
  <2>2. \A i \in Ids : Queued(queue', i) => i \in DOMAIN map'
    BY <1>3, <1>6, <1>7 DEF Structure, AnnouncedInv
  <2>3. \A i \in Ids : (i \in DOMAIN log' \/ Logging(i)')
                         <=> (Ended(min', flags', i) \/ Queued(queue', i))
    <3>1. min' = min /\ flags' = flags /\ log' = log
      BY <1>7 DEF groupVars
    <3> QED BY <1>6, <2>1, <3>1 DEF Structure, AnnouncedInv
  <2> QED BY <1>6, <2>2, <2>3 DEF AnnouncedInv
<1>11. ThreadInv'
  <2>1. log' = log
    BY <1>7
  <2>2. \A y \in Pool : thread'[y].id = thread[y].id
                        /\ (thread'[y].step = "ready" <=> thread[y].step = "ready")
    BY <1>1, <1>2 DEF id
  <2>3. \A y \in Pool : thread'[y].step = "ready" => thread'[y] = Ready
    BY <1>2 DEF Structure, ThreadInv
  <2>4. \A y \in Pool : thread'[y].step # "ready" => thread'[y].id \in Ids
    BY <2>2 DEF Structure, ThreadInv
  <2>5. \A y \in Pool : thread'[y].step \in {"internal", "log"} => thread'[y].id \notin DOMAIN log'
    BY <1>2, <1>4, <2>1 DEF Structure, ThreadInv
  <2>6. \A y \in Pool : thread'[y].step = "notify" =>
          /\ thread'[y].id \in DOMAIN log' /\ log'[thread'[y].id] = thread'[y].value
          /\ thread'[y].ctx # NoClient
    BY <1>2, <2>1 DEF Structure, ThreadInv
  <2>7. \A y, z \in Pool : thread'[y].step # "ready" /\ thread'[z].step # "ready"
                           /\ thread'[y].id = thread'[z].id => y = z
    BY <2>2 DEF Structure, ThreadInv
  <2> QED BY <2>3, <2>4, <2>5, <2>6, <2>7 DEF ThreadInv
<1> QED BY <1>6, <1>8, <1>9, <1>10, <1>11 DEF Structure

LEMMA LogStructure ==
  ASSUME TypeOK, Structure, NEW x \in Pool, SetConsensusResult(x)
  PROVE  Structure'
<1> DEFINE id == thread[x].id
<1>1. /\ thread[x].step = "log"
      /\ log' = [i \in DOMAIN log \cup {id} |-> IF i = id THEN thread[x].value ELSE log[i]]
      /\ thread' = [thread EXCEPT ![x] = IF thread[x].ctx = NoClient THEN Ready
                                         ELSE [thread[x] EXCEPT !.step = "notify"]]
      /\ UNCHANGED <<groupVars, queue, object>>
  BY DEF SetConsensusResult
<1>2. \A y \in Pool : y # x => thread'[y] = thread[y]
  BY <1>1 DEF TypeOK
<1>3. \/ thread'[x] = Ready /\ thread'[x].step = "ready"
      \/ /\ thread'[x].step = "notify" /\ thread'[x].id = id
         /\ thread'[x].value = thread[x].value
         /\ thread'[x].ctx = thread[x].ctx /\ thread[x].ctx # NoClient
  BY <1>1 DEF TypeOK, Ready
<1>4. /\ DOMAIN log' = DOMAIN log \cup {id} /\ log'[id] = thread[x].value
      /\ \A i \in DOMAIN log : i # id => log'[i] = log[i]
  BY <1>1
<1>5. id \in Ids /\ id \notin DOMAIN log
  BY <1>1 DEF Structure, ThreadInv
<1>6. \A y \in Pool : y # x /\ thread[y].step # "ready" => thread[y].id # id
  BY <1>1 DEF Structure, ThreadInv
<1> HIDE DEF id
<1>7. map' = map /\ queue' = queue /\ object' = object
  BY <1>1 DEF groupVars
<1>8. WindowInv' /\ MapInv'
  BY <1>1 DEF Structure, WindowInv, MapInv, InWindow, Ended, groupVars
<1>9. ObjectInv'
  <2>1. \A y \in Pool : thread'[y].step = "internal" <=> thread[y].step = "internal"
    BY <1>1, <1>2, <1>3
  <2>2. \A y \in Pool : thread'[y].step = "internal" => thread'[y] = thread[y]
    BY <1>2, <1>3
  <2>3. \A i \in DOMAIN map : map[i] \in Pool
    BY IdFacts
  <2> QED BY <1>7, <2>1, <2>2, <2>3 DEF Structure, ObjectInv
<1>10. AnnouncedInv'
  <2>1. \A i \in Ids : (i \in DOMAIN log' \/ Logging(i)') <=> (i \in DOMAIN log \/ Logging(i))
    <3>1. \A i \in Ids : Logging(i)' => Logging(i)
      BY <1>2, <1>3 DEF Logging
    <3>2. \A i \in Ids : Logging(i) => (Logging(i)' \/ i = id)
      BY <1>2 DEF Logging, id
    <3>3. Logging(id)
      BY <1>1 DEF Logging, id
    <3> QED BY <1>4, <3>1, <3>2, <3>3
  <2> QED BY <1>1, <2>1 DEF Structure, AnnouncedInv, groupVars, Ended
<1>11. ThreadInv'
  <2>2. \A y \in Pool : thread'[y].step = "ready" => thread'[y] = Ready
    BY <1>2, <1>3 DEF Structure, ThreadInv
  <2>3. \A y \in Pool : thread'[y].step # "ready" => thread'[y].id \in Ids
    BY <1>2, <1>3, <1>5 DEF Structure, ThreadInv
  <2>4. \A y \in Pool : thread'[y].step \in {"internal", "log"} => thread'[y].id \notin DOMAIN log'
    BY <1>2, <1>3, <1>4, <1>6 DEF Structure, ThreadInv
  <2>5. \A y \in Pool : thread'[y].step = "notify" =>
          /\ thread'[y].id \in DOMAIN log' /\ log'[thread'[y].id] = thread'[y].value
          /\ thread'[y].ctx # NoClient
    BY <1>2, <1>3, <1>4, <1>6 DEF Structure, ThreadInv
  <2>6. \A y, z \in Pool : thread'[y].step # "ready" /\ thread'[z].step # "ready"
                           /\ thread'[y].id = thread'[z].id => y = z
    BY <1>2, <1>3, <1>6 DEF Structure, ThreadInv
  <2> QED BY <2>2, <2>3, <2>4, <2>5, <2>6 DEF ThreadInv
<1> QED BY <1>8, <1>9, <1>10, <1>11 DEF Structure

LEMMA NotifyStructure ==
  ASSUME TypeOK, Structure, NEW x \in Pool, Notify(x)
  PROVE  Structure'
<1>1. /\ thread[x].step = "notify" /\ thread' = [thread EXCEPT ![x] = Ready]
      /\ UNCHANGED <<groupVars, queue, log, object>>
  BY DEF Notify
<1>2. /\ thread'[x] = Ready /\ thread'[x].step = "ready"
      /\ \A y \in Pool : y # x => thread'[y] = thread[y]
  BY <1>1 DEF TypeOK, Ready
<1>3. \A y \in Pool : thread'[y].step # "ready" => thread'[y] = thread[y]
  BY <1>2
<1>4. \A y \in Pool : thread'[y].step = "ready" => thread'[y] = Ready
  BY <1>2 DEF Structure, ThreadInv
<1>5. \A y \in Pool : thread[y].step \in {"internal", "log"} => thread'[y] = thread[y]
  BY <1>1, <1>2
<1>6. WindowInv' /\ MapInv'
  BY <1>1 DEF Structure, WindowInv, MapInv, InWindow, Ended, groupVars
<1>7. ObjectInv'
  <2>1. \A i \in DOMAIN map : map[i] \in Pool
    BY IdFacts
  <2>2. map' = map /\ queue' = queue /\ object' = object
    BY <1>1 DEF groupVars
  <2> QED BY <1>3, <1>5, <2>1, <2>2 DEF Structure, ObjectInv
<1>8. AnnouncedInv'
  <2>1. \A i \in Ids : Logging(i)' <=> Logging(i)
    BY <1>3, <1>5 DEF Logging
  <2> QED BY <1>1, <2>1 DEF Structure, AnnouncedInv, groupVars, Ended
<1>9. ThreadInv'
  BY <1>1, <1>3, <1>4 DEF Structure, ThreadInv
<1> QED BY <1>6, <1>7, <1>8, <1>9 DEF Structure

\* A queue with the same internal messages, and everything else unchanged.
LEMMA SameStructure ==
  ASSUME TypeOK, Structure, UNCHANGED <<groupVars, log, objectVars>>,
         InternalsOnce(queue'), \A i \in Ids : Queued(queue', i) <=> Queued(queue, i)
  PROVE  Structure'
<1>1. UNCHANGED <<min, max, idle, map, flags, log, object, thread>>
  BY DEF groupVars, objectVars
<1>2. WindowInv' /\ MapInv' /\ ThreadInv'
  BY <1>1 DEF Structure, WindowInv, MapInv, InWindow, Ended, ThreadInv
<1>3. ObjectInv'
  <2>1. \A i \in DOMAIN map : i \in Ids
    BY IdFacts
  <2> QED BY <1>1, <2>1 DEF Structure, ObjectInv
<1>4. AnnouncedInv'
  <2>1. \A i \in Ids : Logging(i)' <=> Logging(i)
    BY <1>1 DEF Logging
  <2> QED BY <1>1, <2>1 DEF Structure, AnnouncedInv
<1> QED BY <1>2, <1>3, <1>4 DEF Structure

(****************************************************************************)
(* One lemma per operation: types, contexts and results; then the whole     *)
(* invariant.                                                               *)
(****************************************************************************)
IInv == TypeOK /\ Structure /\ ContextInv /\ ResultInv

\* NoClient is no client, so a context that is not NoClient is one.
LEMMA ClientFacts ==
  ASSUME TypeOK
  PROVE  /\ NoClient \notin Clients
         /\ \A x \in Pool : object[x].ctx # NoClient => object[x].ctx \in Clients
         /\ \A x \in Pool : thread[x].ctx # NoClient => thread[x].ctx \in Clients
         /\ \A i \in DOMAIN log : log[i] # NoClient => log[i] \in Clients
BY ClientAssumption DEF TypeOK

\* Nothing of the clients changes, and no object or thread gets a context.
LEMMA SameContexts ==
  ASSUME TypeOK, ContextInv, ResultInv, UNCHANGED <<clientVars, ctxs, log>>,
         \A x \in Pool : object'[x] = object[x] \/ object'[x].ctx = NoClient,
         \A x \in Pool : /\ thread'[x].id = thread[x].id /\ thread'[x].ctx = thread[x].ctx
                         /\ thread'[x].value = thread[x].value
  PROVE  ContextInv' /\ ResultInv'
<1>1. UNCHANGED <<client, commit, tries, ctxs, log>>
  BY DEF clientVars
<1>2. ResultInv'
  BY <1>1 DEF ResultInv, NotifiedMeansLogged
<1>3. ContextInv'
  <2>1. /\ \A c \in Clients : client'[c] = "queued" <=> Waits(ctxs', c)
        /\ Distinct(ctxs')
        /\ \A c \in Clients : client'[c] = "queued" => commit'[c].status = "UnDone"
        /\ \A c \in Clients : client'[c] = "new" => tries'[c] < Tries
    BY <1>1 DEF ContextInv
  <2>2. \A x \in Pool : object'[x].ctx # NoClient =>
          /\ client'[object'[x].ctx] = "dispatched"
          /\ commit'[object'[x].ctx].id = object'[x].id
          /\ commit'[object'[x].ctx].status = "UnDone"
    BY <1>1 DEF ContextInv
  <2>3. \A x \in Pool : thread'[x].ctx # NoClient =>
          /\ client'[thread'[x].ctx] = "dispatched"
          /\ commit'[thread'[x].ctx].id = thread'[x].id
          /\ commit'[thread'[x].ctx].status =
               IF thread'[x].value = thread'[x].ctx THEN "Success" ELSE "Fail"
    BY <1>1 DEF ContextInv
  <2>4. \A x \in Pool : thread'[x].value \in {thread'[x].ctx, NoClient}
    BY DEF ContextInv
  <2> QED BY <2>1, <2>2, <2>3, <2>4 DEF ContextInv
<1> QED BY <1>2, <1>3

LEMMA NewProposeStep ==
  ASSUME IInv, NEW c \in Clients, NewPropose(c)
  PROVE  IInv'
<1>1. TypeOK /\ Structure /\ ContextInv /\ ResultInv
  BY DEF IInv
<1>2. /\ client[c] = "new" /\ client' = [client EXCEPT ![c] = "queued"]
      /\ commit' = [commit EXCEPT ![c] = [id |-> 0, status |-> "UnDone"]]
      /\ ctxs' = Append(ctxs, c)
      /\ tries' = [tries EXCEPT ![c] = tries[c] + 1]
      /\ UNCHANGED <<groupVars, retry, loop, queue, log, objectVars>>
  BY DEF NewPropose
<1>3. UNCHANGED <<min, max, idle, map, flags, retry, loop, queue, log, object, thread>>
  BY <1>2 DEF groupVars, objectVars
<1>4. /\ client'[c] = "queued" /\ commit'[c].status = "UnDone"
      /\ \A d \in Clients : d # c =>
           client'[d] = client[d] /\ commit'[d] = commit[d] /\ tries'[d] = tries[d]
  BY <1>1, <1>2 DEF TypeOK
<1>5. /\ ctxs' \in Seq(Clients) /\ Distinct(ctxs')
      /\ \A d \in Clients : Waits(ctxs', d) <=> (Waits(ctxs, d) \/ d = c)
  <2>1. ctxs \in Seq(Clients) /\ Distinct(ctxs) /\ ~Waits(ctxs, c)
    BY <1>1, <1>2 DEF TypeOK, ContextInv
  <2> QED BY <1>2, <2>1, ContextAppend
<1>6. TypeOK'
  <2>1. tries' \in [Clients -> 0 .. Tries]
    <3>1. tries \in [Clients -> 0 .. Tries] /\ Tries \in Nat /\ tries[c] < Tries
      BY <1>1, <1>2, ClientAssumption DEF TypeOK, ContextInv
    <3>2. tries[c] + 1 \in 0 .. Tries
      BY <3>1
    <3> QED BY <1>2, <3>1, <3>2
  <2>2. client' \in [Clients -> {"new", "queued", "dispatched", "notified", "returned"}]
    BY <1>1, <1>2 DEF TypeOK
  <2>3. commit' \in [Clients -> [id : 0 .. MaxInstance, status : {"UnDone", "Success", "Fail"}]]
    <3>1. 0 \in 0 .. MaxInstance
      BY IdAssumption
    <3> QED BY <1>1, <1>2, <3>1 DEF TypeOK
  <2> QED BY <1>1, <1>3, <1>5, <2>1, <2>2, <2>3 DEF TypeOK
<1>7. Structure'
  <2>1. InternalsOnce(queue') /\ \A i \in Ids : Queued(queue', i) <=> Queued(queue, i)
    BY <1>1, <1>3 DEF Structure, AnnouncedInv
  <2> QED BY <1>1, <1>2, <2>1, SameStructure
<1>8. \A d \in Clients : client[d] # "new" => d # c
  BY <1>2
<1>9. ContextInv'
  <2>1. \A d \in Clients : client'[d] = "queued" <=> Waits(ctxs', d)
    BY <1>1, <1>4, <1>5 DEF ContextInv
  <2>2. \A d \in Clients : client'[d] = "queued" => commit'[d].status = "UnDone"
    BY <1>1, <1>4 DEF ContextInv
  <2>3. \A d \in Clients : client'[d] = "new" => tries'[d] < Tries
    BY <1>1, <1>4 DEF ContextInv
  <2>4. ASSUME NEW x \in Pool, object[x].ctx # NoClient
        PROVE  /\ client'[object[x].ctx] = "dispatched"
               /\ commit'[object[x].ctx].id = object[x].id
               /\ commit'[object[x].ctx].status = "UnDone"
    <3>1. object[x].ctx \in Clients
      BY <1>1, <2>4, ClientFacts
    <3> QED BY <1>1, <1>4, <1>8, <2>4, <3>1 DEF ContextInv
  <2>5. ASSUME NEW x \in Pool, thread[x].ctx # NoClient
        PROVE  /\ client'[thread[x].ctx] = "dispatched"
               /\ commit'[thread[x].ctx].id = thread[x].id
               /\ commit'[thread[x].ctx].status =
                    IF thread[x].value = thread[x].ctx THEN "Success" ELSE "Fail"
    <3>1. thread[x].ctx \in Clients
      BY <1>1, <2>5, ClientFacts
    <3>2. client[thread[x].ctx] = "dispatched"
      BY <1>1, <2>5 DEF ContextInv
    <3>3. thread[x].ctx # c
      BY <1>2, <3>2
    <3> QED BY <1>1, <1>4, <2>5, <3>1, <3>3 DEF ContextInv
  <2>6. \A x \in Pool : thread'[x].value \in {thread'[x].ctx, NoClient}
    BY <1>1, <1>3 DEF ContextInv
  <2> QED BY <1>3, <1>5, <2>1, <2>2, <2>3, <2>4, <2>5, <2>6 DEF ContextInv
<1>10. ResultInv'
  <2>1. NotifiedMeansLogged'
    <3>1. \A d \in Clients : client'[d] \in {"notified", "returned"} =>
            client[d] = client'[d] /\ commit'[d] = commit[d]
      BY <1>4
    <3> QED BY <1>1, <1>3, <3>1 DEF ResultInv, NotifiedMeansLogged
  <2>2. ASSUME NEW i \in DOMAIN log, log[i] # NoClient
        PROVE  /\ client'[log[i]] \in {"dispatched", "notified", "returned"}
               /\ commit'[log[i]].id = i /\ commit'[log[i]].status = "Success"
    <3>1. log[i] \in Clients /\ log[i] # c
      BY <1>1, <1>2, <2>2, ClientFacts DEF ResultInv
    <3> QED BY <1>1, <1>4, <2>2, <3>1 DEF ResultInv
  <2> QED BY <1>3, <2>1, <2>2 DEF ResultInv
<1> QED BY <1>6, <1>7, <1>9, <1>10 DEF IInv

LEMMA WakeUpStep ==
  ASSUME IInv, NEW c \in Clients, WakeUp(c)
  PROVE  IInv'
<1>1. TypeOK /\ Structure /\ ContextInv /\ ResultInv
  BY DEF IInv
<1>2. /\ client[c] = "notified"
      /\ client' = [client EXCEPT ![c] = IF commit[c].status = "Success" \/ tries[c] = Tries
                                         THEN "returned" ELSE "new"]
      /\ UNCHANGED <<groupVars, retry, loop, queue, ctxs, log, objectVars, commit, tries>>
  BY DEF WakeUp
<1>3. UNCHANGED <<min, max, idle, map, flags, retry, loop, queue, ctxs, log, object, thread,
                  commit, tries>>
  BY <1>2 DEF groupVars, objectVars
<1>4. /\ \A d \in Clients : d # c => client'[d] = client[d]
      /\ client'[c] \in {"returned", "new"}
      /\ client'[c] = "new" => commit[c].status # "Success" /\ tries[c] # Tries
  BY <1>1, <1>2 DEF TypeOK
<1>5. TypeOK'
  <2>1. client' \in [Clients -> {"new", "queued", "dispatched", "notified", "returned"}]
    BY <1>1, <1>2 DEF TypeOK
  <2> QED BY <1>1, <1>3, <2>1 DEF TypeOK
<1>6. Structure'
  <2>1. InternalsOnce(queue') /\ \A i \in Ids : Queued(queue', i) <=> Queued(queue, i)
    BY <1>1, <1>3 DEF Structure, AnnouncedInv
  <2> QED BY <1>1, <1>2, <2>1, SameStructure
<1>7. \A d \in Clients : client[d] # "notified" => d # c
  BY <1>2
<1>8. ContextInv'
  <2>1. \A d \in Clients : client'[d] = "queued" <=> client[d] = "queued"
    BY <1>2, <1>4
  <2>2. \A d \in Clients : client'[d] = "new" => tries'[d] < Tries
    <3>1. \A d \in Clients : tries[d] \in 0 .. Tries /\ Tries \in Nat
      BY <1>1, ClientAssumption DEF TypeOK
    <3> QED BY <1>1, <1>3, <1>4, <3>1 DEF ContextInv
  <2>3. ASSUME NEW x \in Pool, object[x].ctx # NoClient
        PROVE  client'[object[x].ctx] = "dispatched"
    <3>1. object[x].ctx \in Clients /\ client[object[x].ctx] = "dispatched"
      BY <1>1, <2>3, ClientFacts DEF ContextInv
    <3> QED BY <1>4, <1>7, <3>1
  <2>4. ASSUME NEW x \in Pool, thread[x].ctx # NoClient
        PROVE  client'[thread[x].ctx] = "dispatched"
    <3>1. thread[x].ctx \in Clients /\ client[thread[x].ctx] = "dispatched"
      BY <1>1, <2>4, ClientFacts DEF ContextInv
    <3> QED BY <1>4, <1>7, <3>1
  <2> QED BY <1>1, <1>3, <2>1, <2>2, <2>3, <2>4 DEF ContextInv
<1>9. ResultInv'
  <2>1. NotifiedMeansLogged'
    <3>1. \A d \in Clients : client'[d] \in {"notified", "returned"} =>
            client[d] \in {"notified", "returned"}
      BY <1>2, <1>4
    <3> QED BY <1>1, <1>3, <3>1 DEF ResultInv, NotifiedMeansLogged
  <2>2. ASSUME NEW i \in DOMAIN log, log[i] # NoClient
        PROVE  client'[log[i]] \in {"dispatched", "notified", "returned"}
    <3>1. log[i] \in Clients
      BY <1>1, <2>2, ClientFacts
    <3> QED BY <1>1, <1>4, <2>2, <3>1 DEF ResultInv
  <2> QED BY <1>1, <1>3, <2>1, <2>2 DEF ResultInv
<1> QED BY <1>5, <1>6, <1>8, <1>9 DEF IInv

LEMMA OnReceiveNewMessageStep ==
  ASSUME IInv, NEW id \in PeerIDs, OnReceiveNewMessage(id)
  PROVE  IInv'
<1>1. TypeOK /\ Structure /\ ContextInv /\ ResultInv
  BY DEF IInv
<1>2. /\ queue' = Append(queue, [type |-> "Paxos", id |-> id])
      /\ UNCHANGED <<groupVars, retry, loop, ctxs, log, objectVars, clientVars>>
  BY DEF OnReceiveNewMessage
<1>3. UNCHANGED <<min, max, idle, map, flags, retry, loop, ctxs, log, object, thread,
                  client, commit, tries>>
  BY <1>2 DEF groupVars, objectVars, clientVars
<1>4. queue \in Seq(GroupMessage) /\ InternalsOnce(queue)
  BY <1>1 DEF TypeOK, Structure, AnnouncedInv
<1>5. [type |-> "Paxos", id |-> id] \in GroupMessage
  BY IdAssumption DEF GroupMessage, Ids
<1>6. /\ queue' \in Seq(GroupMessage) /\ InternalsOnce(queue')
      /\ \A i \in Ids : Queued(queue', i) <=> Queued(queue, i)
  BY <1>2, <1>4, <1>5, QueueAppend
<1>7. TypeOK'
  BY <1>1, <1>3, <1>6 DEF TypeOK
<1>8. Structure'
  BY <1>1, <1>2, <1>6, SameStructure
<1>9. ContextInv' /\ ResultInv'
  <2>1. UNCHANGED <<clientVars, ctxs, log, object, thread>>
    BY <1>2, <1>3
  <2> QED BY <1>1, <2>1, SameContexts
<1> QED BY <1>7, <1>8, <1>9 DEF IInv

LEMMA AllocationTypes ==
  ASSUME TypeOK, NEW id \in Ids, NEW c \in Clients \cup {NoClient}, AllocateNewInstance(id, c)
  PROVE  /\ min' = min /\ flags' = flags
         /\ max' \in 1 .. MaxInstance + 1
         /\ idle' \subseteq Pool
         /\ DOMAIN map' \subseteq Ids /\ map' \in [DOMAIN map' -> Pool]
         /\ object' \in [Pool -> [id : 0 .. MaxInstance, ctx : Clients \cup {NoClient}]]
<1>1. PICK x \in idle :
        /\ idle' = idle \ {x}
        /\ map' = [i \in DOMAIN map \cup {id} |-> IF i = id THEN x ELSE map[i]]
        /\ max' = IF max > id THEN max ELSE id + 1
        /\ object' = [object EXCEPT ![x] = [id |-> id, ctx |-> c]]
        /\ UNCHANGED <<min, flags>>
  BY DEF AllocateNewInstance
<1>2. x \in Pool /\ idle \subseteq Pool
  BY DEF TypeOK
<1>3. max' \in 1 .. MaxInstance + 1
  <2>1. id \in 1 .. MaxInstance /\ max \in 1 .. MaxInstance + 1 /\ MaxInstance \in Nat
    BY IdAssumption DEF TypeOK, Ids
  <2> QED BY <1>1, <2>1
<1>4. DOMAIN map' \subseteq Ids /\ map' \in [DOMAIN map' -> Pool]
  <2>1. DOMAIN map \subseteq Ids /\ map \in [DOMAIN map -> Pool]
    BY DEF TypeOK
  <2>2. DOMAIN map' = DOMAIN map \cup {id}
    BY <1>1
  <2>3. \A i \in DOMAIN map \cup {id} : (IF i = id THEN x ELSE map[i]) \in Pool
    BY <1>2, <2>1
  <2>4. map' \in [DOMAIN map \cup {id} -> Pool]
    BY <1>1, <2>3
  <2> QED BY <2>1, <2>2, <2>4
<1>5. object' \in [Pool -> [id : 0 .. MaxInstance, ctx : Clients \cup {NoClient}]]
  <2>1. id \in 0 .. MaxInstance
    BY DEF Ids
  <2> QED BY <1>1, <2>1 DEF TypeOK
<1> QED BY <1>1, <1>2, <1>3, <1>4, <1>5

\* OnPaxosMessage, after a message of another node or from the retry queue.
LEMMA OnPaxosMessageStep ==
  ASSUME IInv, NEW id \in Ids, id < min + Window, OnPaxosMessage(id),
         UNCHANGED <<ctxs, log, thread, clientVars>>,
         retry' \subseteq Ids, loop' \in {"message", "retry", "propose"},
         queue' \in Seq(GroupMessage), InternalsOnce(queue'),
         \A i \in Ids : Queued(queue', i) <=> Queued(queue, i)
  PROVE  IInv'
<1>1. TypeOK /\ Structure /\ ContextInv /\ ResultInv
  BY DEF IInv
<1>2. UNCHANGED <<client, commit, tries>>
  BY DEF clientVars
<1>3. CASE UNCHANGED <<groupVars, object>>
  <2>1. UNCHANGED <<min, max, idle, map, flags>> /\ object' = object
    BY <1>3 DEF groupVars
  <2>2. TypeOK'
    BY <1>1, <1>2, <2>1 DEF TypeOK
  <2>3. Structure'
    <3>1. UNCHANGED <<groupVars, log, objectVars>>
      BY <1>3 DEF objectVars
    <3> QED BY <1>1, <3>1, SameStructure
  <2>4. ContextInv' /\ ResultInv'
    BY <1>1, <2>1, SameContexts
  <2> QED BY <2>2, <2>3, <2>4 DEF IInv
<1>4. CASE /\ ~(id < min \/ flags[id - min] \/ id \in DOMAIN map)
           /\ AllocateNewInstance(id, NoClient)
  <2>1. id >= min
    <3>1. id \in Int /\ min \in Int
      BY <1>1, IdFacts DEF Ids
    <3> QED BY <1>4, <3>1
  <2>2. /\ Structure'
        /\ \A x \in Pool : object'[x] = object[x] \/ object'[x] = [id |-> id, ctx |-> NoClient]
    BY <1>1, <1>4, <2>1, AllocationStructure
  <2>3. TypeOK'
    <3>1. /\ min' = min /\ flags' = flags
          /\ max' \in 1 .. MaxInstance + 1
          /\ idle' \subseteq Pool
          /\ DOMAIN map' \subseteq Ids /\ map' \in [DOMAIN map' -> Pool]
          /\ object' \in [Pool -> [id : 0 .. MaxInstance, ctx : Clients \cup {NoClient}]]
      BY <1>1, <1>4, AllocationTypes
    <3> QED BY <1>1, <1>2, <3>1 DEF TypeOK
  <2>4. ContextInv' /\ ResultInv'
    <3>1. \A x \in Pool : object'[x] = object[x] \/ object'[x].ctx = NoClient
      BY <2>2
    <3> QED BY <1>1, <3>1, SameContexts
  <2> QED BY <2>2, <2>3, <2>4 DEF IInv
<1> QED BY <1>3, <1>4 DEF OnPaxosMessage

LEMMA OnInternalMessageStep ==
  ASSUME IInv, NEW id \in Ids, OnInternalMessage(id),
         UNCHANGED <<retry, ctxs, log, thread, clientVars>>,
         loop' \in {"message", "retry", "propose"},
         queue' \in Seq(GroupMessage), InternalsOnce(queue'), Queued(queue, id),
         \A i \in Ids : Queued(queue', i) <=> (Queued(queue, i) /\ i # id)
  PROVE  IInv'
<1>1. TypeOK /\ Structure /\ ContextInv /\ ResultInv
  BY DEF IInv
<1>2. UNCHANGED <<client, commit, tries>>
  BY DEF clientVars
<1>3. Structure' /\ min <= min' /\ flags' \in [0 .. Window - 1 -> BOOLEAN] /\ min' \in Nat
  BY <1>1, InternalStructure
<1>4. /\ idle' = idle \cup {map[id]} /\ map' = [i \in DOMAIN map \ {id} |-> map[i]]
      /\ UNCHANGED <<max, object>>
  BY DEF OnInternalMessage
<1>5. TypeOK'
  <2>1. min' \in 1 .. MaxInstance + 1
    <3>1. PICK m \in Int : min' = m
      BY <1>3
    <3>2. min \in 1 .. MaxInstance + 1 /\ max \in 1 .. MaxInstance + 1 /\ MaxInstance \in Int
      BY <1>1, IdAssumption DEF TypeOK
    <3>3. min <= m /\ m <= max
      BY <1>3, <1>4, <3>1 DEF Structure, WindowInv
    <3>4. m \in 1 .. MaxInstance + 1
      BY <3>2, <3>3
    <3> QED BY <3>1, <3>4
  <2>2. idle' \subseteq Pool
    <3>1. id \in DOMAIN map
      BY <1>1 DEF Structure, AnnouncedInv
    <3> QED BY <1>1, <1>4, <3>1 DEF TypeOK
  <2>3. DOMAIN map' \subseteq Ids /\ map' \in [DOMAIN map' -> Pool]
    BY <1>1, <1>4 DEF TypeOK
  <2> QED BY <1>1, <1>2, <1>3, <1>4, <2>1, <2>2, <2>3 DEF TypeOK
<1>6. ContextInv' /\ ResultInv'
  BY <1>1, <1>4, SameContexts
<1> QED BY <1>3, <1>5, <1>6 DEF IInv

LEMMA DealWithMessageStep ==
  ASSUME IInv, DealWithMessage
  PROVE  IInv'
<1>1. TypeOK /\ Structure /\ ContextInv /\ ResultInv
  BY DEF IInv
<1>2. /\ loop' = "retry" /\ UNCHANGED <<ctxs, log, thread, clientVars>>
      /\ loop' \in {"message", "retry", "propose"}
  BY DEF DealWithMessage
<1>3. UNCHANGED <<client, commit, tries, ctxs, log, thread>>
  BY <1>2 DEF clientVars
<1>4. queue \in Seq(GroupMessage) /\ InternalsOnce(queue) /\ retry \subseteq Ids
  BY <1>1 DEF TypeOK, Structure, AnnouncedInv
<1>5. ASSUME InternalsOnce(queue'), \A i \in Ids : Queued(queue', i) <=> Queued(queue, i),
             queue' \in Seq(GroupMessage), UNCHANGED <<groupVars, object>>, retry' \subseteq Ids
      PROVE  IInv'
  <2>1. UNCHANGED <<min, max, idle, map, flags>> /\ object' = object
    BY <1>5 DEF groupVars
  <2>2. TypeOK'
    BY <1>1, <1>2, <1>3, <1>5, <2>1 DEF TypeOK
  <2>3. Structure'
    <3>1. UNCHANGED <<groupVars, log, objectVars>>
      BY <1>3, <1>5 DEF objectVars
    <3> QED BY <1>1, <1>5, <3>1, SameStructure
  <2>4. ContextInv' /\ ResultInv'
    BY <1>1, <1>2, <1>3, <2>1, SameContexts
  <2> QED BY <2>2, <2>3, <2>4 DEF IInv
<1>6. CASE queue = <<>> /\ UNCHANGED <<queue, groupVars, object, retry>>
  <2>1. InternalsOnce(queue') /\ \A i \in Ids : Queued(queue', i) <=> Queued(queue, i)
    BY <1>4, <1>6
  <2> QED BY <1>4, <1>5, <1>6, <2>1
<1>7. ASSUME NEW m \in GroupMessage, m = Head(queue), queue # <<>>, queue' = Tail(queue),
             \/ m.type = "Internal" /\ OnInternalMessage(m.id) /\ UNCHANGED retry
             \/ /\ m.type = "Paxos" /\ m.id >= min + Window
                /\ retry' = retry \cup {m.id} /\ UNCHANGED <<groupVars, object>>
             \/ m.type = "Paxos" /\ m.id < min + Window /\ OnPaxosMessage(m.id) /\ UNCHANGED retry
      PROVE  IInv'
  <2>1. /\ queue' \in Seq(GroupMessage) /\ InternalsOnce(queue')
        /\ \A i \in Ids : Queued(queue', i) <=> (Queued(queue, i) /\ m # Internal(i))
        /\ \A i \in Ids : m = Internal(i) => Queued(queue, i)
    BY <1>4, <1>7, QueueTail
  <2>2. m.id \in Ids /\ m.type \in {"Paxos", "Internal"}
    BY <1>7 DEF GroupMessage
  <2>3. \A i \in Ids : m = Internal(i) <=> (m.type = "Internal" /\ m.id = i)
    BY <1>7, InternalIds
  <2>4. m.type = "Paxos" => \A i \in Ids : Queued(queue', i) <=> Queued(queue, i)
    BY <2>1, <2>3
  <2>5. CASE m.type = "Internal" /\ OnInternalMessage(m.id) /\ UNCHANGED retry
    <3>1. Queued(queue, m.id)
      BY <2>1, <2>2, <2>3, <2>5
    <3>2. \A i \in Ids : Queued(queue', i) <=> (Queued(queue, i) /\ i # m.id)
      BY <2>1, <2>3, <2>5
    <3>3. UNCHANGED <<retry, ctxs, log, thread, clientVars>>
      BY <1>2, <2>5
    <3>4. OnInternalMessage(m.id)
      BY <2>5
    <3> QED BY <1>2, <2>1, <2>2, <3>1, <3>2, <3>3, <3>4, OnInternalMessageStep
  <2>6. CASE /\ m.type = "Paxos" /\ m.id >= min + Window
             /\ retry' = retry \cup {m.id} /\ UNCHANGED <<groupVars, object>>
    <3>1. retry' \subseteq Ids
      BY <1>4, <2>2, <2>6
    <3> QED BY <1>5, <2>1, <2>4, <2>6, <3>1
  <2>7. CASE m.type = "Paxos" /\ m.id < min + Window /\ OnPaxosMessage(m.id) /\ UNCHANGED retry
    <3>1. retry' \subseteq Ids
      BY <1>4, <2>7
    <3>2. m.id < min + Window /\ OnPaxosMessage(m.id)
      BY <2>7
    <3> QED BY <1>2, <2>1, <2>2, <2>4, <2>7, <3>1, <3>2, OnPaxosMessageStep
  <2> QED BY <1>7, <2>5, <2>6, <2>7
<1>8. queue # <<>> => Head(queue) \in GroupMessage
  BY <1>4, QueueTail
<1> QED BY <1>6, <1>7, <1>8 DEF DealWithMessage

LEMMA DealWithRetryStep ==
  ASSUME IInv, DealWithRetry
  PROVE  IInv'
<1>1. TypeOK /\ Structure /\ ContextInv /\ ResultInv
  BY DEF IInv
<1>2. UNCHANGED <<queue, ctxs, log, thread, clientVars>>
  BY DEF DealWithRetry
<1>3. UNCHANGED <<client, commit, tries, queue, ctxs, log, thread>>
  BY <1>2 DEF clientVars
<1>4. /\ queue' \in Seq(GroupMessage) /\ InternalsOnce(queue') /\ retry \subseteq Ids
      /\ \A i \in Ids : Queued(queue', i) <=> Queued(queue, i)
  BY <1>1, <1>2 DEF TypeOK, Structure, AnnouncedInv
<1>5. CASE loop' = "propose" /\ UNCHANGED <<retry, groupVars, object>>
  <2>1. UNCHANGED <<min, max, idle, map, flags>> /\ object' = object
    BY <1>5 DEF groupVars
  <2>2. TypeOK'
    BY <1>1, <1>3, <1>5, <2>1 DEF TypeOK
  <2>3. Structure'
    <3>1. UNCHANGED <<groupVars, log, objectVars>>
      BY <1>3, <1>5 DEF objectVars
    <3> QED BY <1>1, <1>4, <3>1, SameStructure
  <2>4. ContextInv' /\ ResultInv'
    BY <1>1, <1>2, <1>3, <2>1, SameContexts
  <2> QED BY <2>2, <2>3, <2>4 DEF IInv
<1>6. ASSUME NEW id \in retry, id < min + Window, OnPaxosMessage(id), retry' = retry \ {id},
             UNCHANGED loop
      PROVE  IInv'
  <2>1. id \in Ids /\ retry' \subseteq Ids /\ loop' \in {"message", "retry", "propose"}
    BY <1>1, <1>4, <1>6 DEF TypeOK
  <2>2. UNCHANGED <<ctxs, log, thread, clientVars>>
    BY <1>2
  <2> QED BY <1>4, <1>6, <2>1, <2>2, OnPaxosMessageStep
<1> QED BY <1>5, <1>6 DEF DealWithRetry

LEMMA IOLoopNewProposeStep ==
  ASSUME IInv, IOLoopNewPropose
  PROVE  IInv'
<1>1. TypeOK /\ Structure /\ ContextInv /\ ResultInv
  BY DEF IInv
<1>2. UNCHANGED <<retry, queue, log, thread, tries>>
  BY DEF IOLoopNewPropose
<1>3. /\ InternalsOnce(queue')
      /\ \A i \in Ids : Queued(queue', i) <=> Queued(queue, i)
  BY <1>1, <1>2 DEF Structure, AnnouncedInv
<1>4. CASE loop' = "message" /\ UNCHANGED <<groupVars, object, ctxs, client, commit>>
  <2>1. UNCHANGED <<min, max, idle, map, flags>>
    BY <1>4 DEF groupVars
  <2>2. TypeOK'
    BY <1>1, <1>2, <1>4, <2>1 DEF TypeOK
  <2>3. Structure'
    <3>1. UNCHANGED <<groupVars, log, objectVars>>
      BY <1>2, <1>4 DEF objectVars
    <3> QED BY <1>1, <1>3, <3>1, SameStructure
  <2>4. ContextInv' /\ ResultInv'
    <3>1. UNCHANGED <<clientVars, ctxs, log, object, thread>>
      BY <1>2, <1>4 DEF clientVars
    <3> QED BY <1>1, <3>1, SameContexts
  <2> QED BY <2>2, <2>3, <2>4 DEF IInv
<1>5. ASSUME ctxs # <<>>, max < min + Window, max <= MaxInstance,
             NEW c \in Clients, c = Head(ctxs), AllocateNewInstance(max, c),
             commit' = [commit EXCEPT ![c].id = max],
             client' = [client EXCEPT ![c] = "dispatched"],
             ctxs' = Tail(ctxs), UNCHANGED loop
      PROVE  IInv'
  <2> DEFINE id == max
  <2>1. id \in Ids /\ id # 0
    BY <1>1, <1>5, IdAssumption DEF TypeOK, Ids
  <2>2. id >= min /\ id < min + Window /\ ~flags[id - min] /\ id \notin DOMAIN map
    <3>1. id \in Int /\ min \in Int /\ min <= max /\ max <= min + Window
      BY <1>1, IdFacts DEF Structure, WindowInv
    <3>2. ~Ended(min, flags, id) /\ id \notin DOMAIN map
      <4>1. ~(max < max)
        BY <3>1
      <4>2. \A i \in Int : Ended(min, flags, i) => i < max
        BY <1>1, IdFacts
      <4> QED BY <1>1, <3>1, <4>1, <4>2 DEF Structure, MapInv
    <3> QED BY <1>5, <3>1, <3>2 DEF Ended
  <2>3. /\ ctxs' \in Seq(Clients) /\ Waits(ctxs, c) /\ Distinct(ctxs')
        /\ \A d \in Clients : Waits(ctxs', d) <=> (Waits(ctxs, d) /\ d # c)
    <3>1. ctxs \in Seq(Clients) /\ Distinct(ctxs)
      BY <1>1 DEF TypeOK, ContextInv
    <3> QED BY <1>5, <3>1, ContextTail
  <2>4. /\ Structure'
        /\ \A x \in Pool : object'[x] = object[x] \/ object'[x] = [id |-> id, ctx |-> c]
    <3>1. AllocateNewInstance(id, c) /\ UNCHANGED <<thread, log>>
      BY <1>2, <1>5
    <3> HIDE DEF id
    <3> QED BY <1>1, <1>3, <2>1, <2>2, <3>1, AllocationStructure
  <2>5. TypeOK'
    <3>1. /\ min' = min /\ flags' = flags
          /\ max' \in 1 .. MaxInstance + 1
          /\ idle' \subseteq Pool
          /\ DOMAIN map' \subseteq Ids /\ map' \in [DOMAIN map' -> Pool]
          /\ object' \in [Pool -> [id : 0 .. MaxInstance, ctx : Clients \cup {NoClient}]]
      BY <1>1, <1>5, <2>1, AllocationTypes
    <3>2. client' \in [Clients -> {"new", "queued", "dispatched", "notified", "returned"}]
      BY <1>1, <1>5 DEF TypeOK
    <3>3. commit' \in [Clients -> [id : 0 .. MaxInstance, status : {"UnDone", "Success", "Fail"}]]
      <4>1. id \in 0 .. MaxInstance
        BY <2>1 DEF Ids
      <4> QED BY <1>1, <1>5, <4>1 DEF TypeOK
    <3> QED BY <1>1, <1>2, <1>5, <2>3, <3>1, <3>2, <3>3 DEF TypeOK
  <2>6. /\ client'[c] = "dispatched" /\ commit'[c].id = id /\ commit'[c].status = commit[c].status
        /\ \A d \in Clients : d # c => client'[d] = client[d] /\ commit'[d] = commit[d]
    BY <1>1, <1>5 DEF TypeOK
  <2>7. client[c] = "queued" /\ commit[c].status = "UnDone"
    BY <1>1, <2>3 DEF ContextInv
  <2> HIDE DEF id
  <2>8. ContextInv'
    <3>1. \A d \in Clients : client'[d] = "queued" <=> Waits(ctxs', d)
      BY <1>1, <2>3, <2>6 DEF ContextInv
    <3>2. \A d \in Clients : client'[d] = "queued" => commit'[d].status = "UnDone"
      BY <1>1, <2>6 DEF ContextInv
    <3>3. \A d \in Clients : client'[d] = "new" => tries'[d] < Tries
      BY <1>1, <1>2, <2>6 DEF ContextInv
    <3>4. ASSUME NEW x \in Pool, object'[x].ctx # NoClient
          PROVE  /\ client'[object'[x].ctx] = "dispatched"
                 /\ commit'[object'[x].ctx].id = object'[x].id
                 /\ commit'[object'[x].ctx].status = "UnDone"
      <4>1. CASE object'[x] = [id |-> id, ctx |-> c]
        <5>1. object'[x].id = id /\ object'[x].ctx = c
          BY <4>1
        <5> QED BY <2>6, <2>7, <5>1
      <4>2. CASE object'[x] = object[x]
        <5>1. object[x].ctx \in Clients /\ client[object[x].ctx] = "dispatched"
          BY <1>1, <3>4, <4>2, ClientFacts DEF ContextInv
        <5>2. object[x].ctx # c
          BY <2>7, <5>1
        <5> QED BY <1>1, <2>6, <3>4, <4>2, <5>1, <5>2 DEF ContextInv
      <4> QED BY <2>4, <4>1, <4>2
    <3>5. ASSUME NEW x \in Pool, thread[x].ctx # NoClient
          PROVE  /\ client'[thread[x].ctx] = "dispatched"
                 /\ commit'[thread[x].ctx].id = thread[x].id
                 /\ commit'[thread[x].ctx].status =
                      IF thread[x].value = thread[x].ctx THEN "Success" ELSE "Fail"
      <4>1. thread[x].ctx \in Clients /\ client[thread[x].ctx] = "dispatched"
        BY <1>1, <3>5, ClientFacts DEF ContextInv
      <4>2. thread[x].ctx # c
        BY <2>7, <4>1
      <4> QED BY <1>1, <2>6, <3>5, <4>1, <4>2 DEF ContextInv
    <3>6. \A x \in Pool : thread'[x].value \in {thread'[x].ctx, NoClient}
      BY <1>1, <1>2 DEF ContextInv
    <3> QED BY <1>2, <2>3, <3>1, <3>2, <3>3, <3>4, <3>5, <3>6 DEF ContextInv
  <2>9. ResultInv'
    <3>1. NotifiedMeansLogged'
      <4>1. \A d \in Clients : client'[d] \in {"notified", "returned"} =>
              client[d] = client'[d] /\ commit'[d] = commit[d]
        BY <2>6
      <4> QED BY <1>1, <1>2, <4>1 DEF ResultInv, NotifiedMeansLogged
    <3>2. ASSUME NEW i \in DOMAIN log, log[i] # NoClient
          PROVE  /\ client'[log[i]] \in {"dispatched", "notified", "returned"}
                 /\ commit'[log[i]].id = i /\ commit'[log[i]].status = "Success"
      <4>1. log[i] \in Clients /\ log[i] # c
        BY <1>1, <2>7, <3>2, ClientFacts DEF ResultInv
      <4> QED BY <1>1, <2>6, <3>2, <4>1 DEF ResultInv
    <3> QED BY <1>2, <3>1, <3>2 DEF ResultInv
  <2> QED BY <2>4, <2>5, <2>8, <2>9 DEF IInv
<1>6. ctxs # <<>> => Head(ctxs) \in Clients
  BY <1>1, ContextTail DEF TypeOK, ContextInv
<1> QED BY <1>4, <1>5, <1>6 DEF IOLoopNewPropose

LEMMA ReachConsensusStep ==
  ASSUME IInv, NEW x \in Pool, ReachConsensus(x)
  PROVE  IInv'
<1>1. TypeOK /\ Structure /\ ContextInv /\ ResultInv
  BY DEF IInv
<1> DEFINE id == object[x].id
           c == object[x].ctx
<1>2. /\ thread[x] = Ready /\ id # 0 /\ object' = [object EXCEPT ![x] = Free]
      /\ UNCHANGED <<groupVars, retry, loop, queue, ctxs, log, client, tries>>
  BY DEF ReachConsensus
<1>3. PICK v \in {c, NoClient} :
        /\ thread' = [thread EXCEPT ![x] = [step |-> "internal", id |-> id, ctx |-> c, value |-> v]]
        /\ IF c = NoClient THEN UNCHANGED commit
           ELSE commit' = [commit EXCEPT ![c].status = IF v = NoClient THEN "Fail" ELSE "Success"]
  BY DEF ReachConsensus
<1>4. UNCHANGED <<min, max, idle, map, flags>>
  BY <1>2 DEF groupVars
<1>5. Structure'
  BY <1>1, ReachStructure
<1>6. id \in Ids /\ id \in 0 .. MaxInstance /\ c \in Clients \cup {NoClient} /\ v \in Clients \cup {NoClient}
  BY <1>1, <1>2, <1>3, IdFacts DEF TypeOK
<1>7. TypeOK'
  <2>1. object' \in [Pool -> [id : 0 .. MaxInstance, ctx : Clients \cup {NoClient}]]
    <3>1. 0 \in 0 .. MaxInstance
      BY IdAssumption
    <3> QED BY <1>1, <1>2, <3>1 DEF TypeOK, Free
  <2>2. thread' \in [Pool -> [step : {"ready", "internal", "log", "notify"},
                              id : 0 .. MaxInstance, ctx : Clients \cup {NoClient},
                              value : Clients \cup {NoClient}]]
    BY <1>1, <1>3, <1>6 DEF TypeOK
  <2>3. commit' \in [Clients -> [id : 0 .. MaxInstance, status : {"UnDone", "Success", "Fail"}]]
    <3> HIDE DEF c, id
    <3>1. commit \in [Clients -> [id : 0 .. MaxInstance, status : {"UnDone", "Success", "Fail"}]]
      BY <1>1 DEF TypeOK
    <3>2. CASE c = NoClient
      BY <1>3, <3>1, <3>2
    <3>3. CASE c # NoClient
      <4>1. c \in Clients
        BY <1>6, <3>3
      <4>2. commit' = [commit EXCEPT ![c].status = IF v = NoClient THEN "Fail" ELSE "Success"]
        BY <1>3, <3>3
      <4> QED BY <3>1, <4>1, <4>2
    <3> QED BY <3>2, <3>3
  <2> QED BY <1>1, <1>2, <1>4, <2>1, <2>2, <2>3 DEF TypeOK
<1>8. /\ object'[x].ctx = NoClient
      /\ \A y \in Pool : y # x => object'[y] = object[y]
      /\ thread'[x].id = id /\ thread'[x].ctx = c /\ thread'[x].value = v
      /\ \A y \in Pool : y # x => thread'[y] = thread[y]
  BY <1>1, <1>2, <1>3 DEF TypeOK, Free
<1>9. /\ c # NoClient => /\ c \in Clients /\ client[c] = "dispatched"
                         /\ commit[c].id = id /\ commit[c].status = "UnDone"
                         /\ commit'[c].id = id
                         /\ commit'[c].status = IF v = NoClient THEN "Fail" ELSE "Success"
      /\ \A d \in Clients : d # c => commit'[d] = commit[d]
  <2>1. CASE c = NoClient
    BY <1>3, <2>1
  <2>2. CASE c # NoClient
    <3>1. c \in Clients /\ client[c] = "dispatched" /\ commit[c].id = id /\ commit[c].status = "UnDone"
      BY <1>1, <2>2, ClientFacts DEF ContextInv
    <3>2. commit' = [commit EXCEPT ![c].status = IF v = NoClient THEN "Fail" ELSE "Success"]
      BY <1>3, <2>2
    <3> QED BY <1>1, <3>1, <3>2 DEF TypeOK
  <2> QED BY <2>1, <2>2
<1> HIDE DEF id, c
<1>10. ContextInv'
  <2>1. \A d \in Clients : client[d] = "queued" => d # c
    BY <1>1, <1>9, ClientFacts
  <2>2. \A d \in Clients : client[d] = "queued" => commit'[d].status = "UnDone"
    BY <1>1, <1>9, <2>1 DEF ContextInv
  <2>3. ASSUME NEW y \in Pool, object'[y].ctx # NoClient
        PROVE  /\ client'[object'[y].ctx] = "dispatched"
               /\ commit'[object'[y].ctx].id = object'[y].id
               /\ commit'[object'[y].ctx].status = "UnDone"
    <3>1. y # x /\ object'[y] = object[y] /\ object[y].ctx \in Clients
      BY <1>1, <1>8, <2>3, ClientFacts
    <3>2. /\ client[object[y].ctx] = "dispatched"
          /\ commit[object[y].ctx].id = object[y].id
          /\ commit[object[y].ctx].status = "UnDone"
      BY <1>1, <2>3, <3>1 DEF ContextInv
    <3>3. object[y].ctx # c
      <4>1. SUFFICES ASSUME object[y].ctx = c PROVE FALSE
        OBVIOUS
      <4>2. object[y].id = id
        BY <1>9, <3>1, <3>2, <4>1, ClientFacts, <1>1
      <4>3. object[y].id # 0 /\ object[x].id # 0
        BY <1>2, <4>2 DEF id
      <4>4. map[object[y].id] = y /\ map[object[x].id] = x
        BY <1>1, <4>3 DEF Structure, ObjectInv
      <4> QED BY <3>1, <4>2, <4>4 DEF id
    <3> QED BY <1>2, <1>9, <3>1, <3>2, <3>3
  <2>4. ASSUME NEW y \in Pool, thread'[y].ctx # NoClient
        PROVE  /\ client'[thread'[y].ctx] = "dispatched"
               /\ commit'[thread'[y].ctx].id = thread'[y].id
               /\ commit'[thread'[y].ctx].status =
                    IF thread'[y].value = thread'[y].ctx THEN "Success" ELSE "Fail"
    <3>1. CASE y = x
      <4>1. c # NoClient
        BY <1>8, <2>4, <3>1
      <4>2. v = NoClient <=> v # c
        BY <1>3, <4>1
      <4> QED BY <1>2, <1>8, <1>9, <3>1, <4>1, <4>2
    <3>2. CASE y # x
      <4>1. thread'[y] = thread[y] /\ thread[y].ctx \in Clients
        BY <1>1, <1>8, <2>4, <3>2, ClientFacts
      <4>2. /\ client[thread[y].ctx] = "dispatched"
            /\ commit[thread[y].ctx].id = thread[y].id
            /\ commit[thread[y].ctx].status =
                 IF thread[y].value = thread[y].ctx THEN "Success" ELSE "Fail"
        BY <1>1, <2>4, <4>1 DEF ContextInv
      <4>3. thread[y].ctx # c
        BY <1>1, <1>9, <4>1, <4>2, ClientFacts
      <4> QED BY <1>2, <1>9, <4>1, <4>2, <4>3
    <3> QED BY <3>1, <3>2
  <2>5. \A y \in Pool : thread'[y].value \in {thread'[y].ctx, NoClient}
    BY <1>1, <1>3, <1>8 DEF ContextInv
  <2> QED BY <1>1, <1>2, <2>2, <2>3, <2>4, <2>5 DEF ContextInv
<1>11. ResultInv'
  <2>1. NotifiedMeansLogged'
    <3>1. \A d \in Clients : client[d] \in {"notified", "returned"} => commit'[d] = commit[d]
      <4>1. SUFFICES ASSUME NEW d \in Clients, client[d] \in {"notified", "returned"}
                     PROVE  d # c
        BY <1>9
      <4> QED BY <1>1, <1>9, <4>1, ClientFacts
    <3> QED BY <1>1, <1>2, <3>1 DEF ResultInv, NotifiedMeansLogged
  <2>2. ASSUME NEW i \in DOMAIN log, log[i] # NoClient
        PROVE  /\ client[log[i]] \in {"dispatched", "notified", "returned"}
               /\ commit'[log[i]].id = i /\ commit'[log[i]].status = "Success"
    <3>1. log[i] \in Clients /\ commit[log[i]].status = "Success"
      BY <1>1, <2>2, ClientFacts DEF ResultInv
    <3>2. log[i] # c
      BY <1>9, <2>2, <3>1
    <3> QED BY <1>1, <1>9, <2>2, <3>1, <3>2 DEF ResultInv
  <2> QED BY <1>2, <2>1, <2>2 DEF ResultInv
<1> QED BY <1>5, <1>7, <1>10, <1>11 DEF IInv

LEMMA QueueInternalStep ==
  ASSUME IInv, NEW x \in Pool, QueueInternal(x)
  PROVE  IInv'
<1>1. TypeOK /\ Structure /\ ContextInv /\ ResultInv
  BY DEF IInv
<1>2. /\ thread' = [thread EXCEPT ![x].step = "log"]
      /\ UNCHANGED <<groupVars, retry, loop, ctxs, log, object, clientVars>>
  BY DEF QueueInternal
<1>3. UNCHANGED <<min, max, idle, map, flags, retry, loop, ctxs, log, object, client, commit, tries>>
  BY <1>2 DEF groupVars, clientVars
<1>4. Structure' /\ queue' \in Seq(GroupMessage)
  BY <1>1, QueueInternalStructure
<1>5. TypeOK'
  <2>1. thread' \in [Pool -> [step : {"ready", "internal", "log", "notify"},
                              id : 0 .. MaxInstance, ctx : Clients \cup {NoClient},
                              value : Clients \cup {NoClient}]]
    <3> DEFINE T == [step : {"ready", "internal", "log", "notify"},
                     id : 0 .. MaxInstance, ctx : Clients \cup {NoClient},
                     value : Clients \cup {NoClient}]
    <3>1. thread \in [Pool -> T]
      BY <1>1 DEF TypeOK
    <3>2. \A t \in T : [t EXCEPT !.step = "log"] \in T
      OBVIOUS
    <3> HIDE DEF T
    <3>3. thread' \in [Pool -> T]
      BY <1>2, <3>1, <3>2
    <3> QED BY <3>3 DEF T
  <2> QED BY <1>1, <1>3, <1>4, <2>1 DEF TypeOK
<1>6. ContextInv' /\ ResultInv'
  <2>1. \A y \in Pool : /\ thread'[y].id = thread[y].id /\ thread'[y].ctx = thread[y].ctx
                        /\ thread'[y].value = thread[y].value
    BY <1>1, <1>2 DEF TypeOK
  <2>2. UNCHANGED <<clientVars, ctxs, log>> /\ \A y \in Pool : object'[y] = object[y]
    BY <1>2
  <2> QED BY <1>1, <2>1, <2>2, SameContexts
<1> QED BY <1>4, <1>5, <1>6 DEF IInv

LEMMA SetConsensusResultStep ==
  ASSUME IInv, NEW x \in Pool, SetConsensusResult(x)
  PROVE  IInv'
<1>1. TypeOK /\ Structure /\ ContextInv /\ ResultInv
  BY DEF IInv
<1> DEFINE id == thread[x].id
           value == thread[x].value
<1>2. /\ thread[x].step = "log"
      /\ log' = [i \in DOMAIN log \cup {id} |-> IF i = id THEN value ELSE log[i]]
      /\ thread' = [thread EXCEPT ![x] = IF thread[x].ctx = NoClient THEN Ready
                                         ELSE [thread[x] EXCEPT !.step = "notify"]]
      /\ UNCHANGED <<groupVars, retry, loop, queue, ctxs, object, clientVars>>
  BY DEF SetConsensusResult
<1>3. UNCHANGED <<min, max, idle, map, flags, retry, loop, queue, ctxs, object, client, commit, tries>>
  BY <1>2 DEF groupVars, clientVars
<1>4. Structure'
  BY <1>1, LogStructure
<1>5. id \in Ids /\ id \notin DOMAIN log /\ value \in Clients \cup {NoClient}
  BY <1>1, <1>2 DEF Structure, ThreadInv, TypeOK
<1>6. \A y \in Pool : \/ thread'[y].ctx = NoClient /\ thread'[y].value = NoClient
                      \/ /\ thread'[y].id = thread[y].id /\ thread'[y].ctx = thread[y].ctx
                         /\ thread'[y].value = thread[y].value
  BY <1>1, <1>2 DEF TypeOK, Ready
<1>7. value # NoClient => /\ value = thread[x].ctx /\ client[value] = "dispatched"
                          /\ commit[value].id = id /\ commit[value].status = "Success"
  BY <1>1 DEF ContextInv
<1>8. TypeOK'
  <2>1. thread' \in [Pool -> [step : {"ready", "internal", "log", "notify"},
                              id : 0 .. MaxInstance, ctx : Clients \cup {NoClient},
                              value : Clients \cup {NoClient}]]
    <3> DEFINE T == [step : {"ready", "internal", "log", "notify"},
                     id : 0 .. MaxInstance, ctx : Clients \cup {NoClient},
                     value : Clients \cup {NoClient}]
    <3>1. thread \in [Pool -> T]
      BY <1>1 DEF TypeOK
    <3>2. \A t \in T : [t EXCEPT !.step = "notify"] \in T
      OBVIOUS
    <3>3. Ready \in T
      BY IdAssumption DEF Ready
    <3> HIDE DEF T
    <3>4. thread' \in [Pool -> T]
      BY <1>2, <3>1, <3>2, <3>3
    <3> QED BY <3>4 DEF T
  <2>2. DOMAIN log' \subseteq Ids /\ log' \in [DOMAIN log' -> Clients \cup {NoClient}]
    <3> HIDE DEF id, value
    <3>1. DOMAIN log \subseteq Ids /\ log \in [DOMAIN log -> Clients \cup {NoClient}]
      BY <1>1 DEF TypeOK
    <3>2. DOMAIN log' = DOMAIN log \cup {id}
      BY <1>2
    <3>3. log' \in [DOMAIN log \cup {id} -> Clients \cup {NoClient}]
      BY <1>2, <1>5, <3>1
    <3> QED BY <1>5, <3>1, <3>2, <3>3
  <2> QED BY <1>1, <1>3, <2>1, <2>2 DEF TypeOK
<1>9. ContextInv'
  BY <1>1, <1>3, <1>6 DEF ContextInv
<1>10. ResultInv'
  <2> HIDE DEF id, value
  <2>1. /\ DOMAIN log' = DOMAIN log \cup {id} /\ log'[id] = value
        /\ \A i \in DOMAIN log : log'[i] = log[i]
    BY <1>2, <1>5
  <2>2. NotifiedMeansLogged'
    BY <1>1, <1>3, <2>1 DEF ResultInv, NotifiedMeansLogged
  <2>3. \A i \in DOMAIN log' : log'[i] # NoClient =>
          /\ client[log'[i]] \in {"dispatched", "notified", "returned"}
          /\ commit[log'[i]].id = i /\ commit[log'[i]].status = "Success"
    <3>1. value # NoClient => /\ client[value] = "dispatched"
                              /\ commit[value].id = id /\ commit[value].status = "Success"
      BY <1>7
    <3> QED BY <1>1, <2>1, <3>1 DEF ResultInv
  <2> QED BY <1>3, <2>2, <2>3 DEF ResultInv
<1> QED BY <1>4, <1>8, <1>9, <1>10 DEF IInv

LEMMA NotifyStep ==
  ASSUME IInv, NEW x \in Pool, Notify(x)
  PROVE  IInv'
<1>1. TypeOK /\ Structure /\ ContextInv /\ ResultInv
  BY DEF IInv
<1> DEFINE c == thread[x].ctx
<1>2. /\ thread[x].step = "notify" /\ thread' = [thread EXCEPT ![x] = Ready]
      /\ client' = [client EXCEPT ![c] = "notified"]
      /\ UNCHANGED <<groupVars, retry, loop, queue, ctxs, log, object, commit, tries>>
  BY DEF Notify
<1>3. UNCHANGED <<min, max, idle, map, flags, retry, loop, queue, ctxs, log, object, commit, tries>>
  BY <1>2 DEF groupVars
<1>4. Structure'
  BY <1>1, NotifyStructure
<1>5. /\ c \in Clients /\ c # NoClient /\ client[c] = "dispatched"
      /\ commit[c].id = thread[x].id /\ thread[x].id \in DOMAIN log
      /\ log[thread[x].id] = thread[x].value
      /\ commit[c].status = IF thread[x].value = c THEN "Success" ELSE "Fail"
  <2>1. c # NoClient /\ thread[x].id \in DOMAIN log /\ log[thread[x].id] = thread[x].value
    BY <1>1, <1>2 DEF Structure, ThreadInv
  <2> QED BY <1>1, <2>1, ClientFacts DEF ContextInv
<1>6. TypeOK'
  <2>1. thread' \in [Pool -> [step : {"ready", "internal", "log", "notify"},
                              id : 0 .. MaxInstance, ctx : Clients \cup {NoClient},
                              value : Clients \cup {NoClient}]]
    <3>1. 0 \in 0 .. MaxInstance
      BY IdAssumption
    <3> QED BY <1>1, <1>2, <3>1 DEF TypeOK, Ready
  <2>2. client' \in [Clients -> {"new", "queued", "dispatched", "notified", "returned"}]
    BY <1>1, <1>2 DEF TypeOK
  <2> QED BY <1>1, <1>3, <2>1, <2>2 DEF TypeOK
<1>7. /\ thread'[x].ctx = NoClient /\ thread'[x].value = NoClient
      /\ \A y \in Pool : y # x => thread'[y] = thread[y]
  BY <1>1, <1>2 DEF TypeOK, Ready
<1>8. client'[c] = "notified" /\ \A d \in Clients : d # c => client'[d] = client[d]
  BY <1>1, <1>2, <1>5 DEF TypeOK
<1>9. ASSUME NEW y \in Pool, y # x PROVE thread[y].ctx # c
  <2>1. SUFFICES ASSUME thread[y].ctx = c PROVE FALSE
    OBVIOUS
  <2>2. thread[y].id = thread[x].id
    BY <1>1, <1>5, <2>1 DEF ContextInv
  <2>3. thread[y].step # "ready"
    BY <1>1, <1>5, <2>1 DEF Structure, ThreadInv, Ready
  <2> QED BY <1>1, <1>2, <1>9, <2>2, <2>3 DEF Structure, ThreadInv
<1> HIDE DEF c
<1>10. ContextInv'
  <2>1. \A d \in Clients : client'[d] = "queued" <=> client[d] = "queued"
    BY <1>5, <1>8
  <2>2. \A d \in Clients : client'[d] = "new" => client[d] = "new"
    BY <1>8
  <2>3. ASSUME NEW y \in Pool, object[y].ctx # NoClient
        PROVE  client'[object[y].ctx] = "dispatched"
    <3>1. /\ object[y].ctx \in Clients /\ client[object[y].ctx] = "dispatched"
          /\ commit[object[y].ctx].status = "UnDone"
      BY <1>1, <2>3, ClientFacts DEF ContextInv
    <3>2. object[y].ctx # c
      BY <1>5, <3>1
    <3> QED BY <1>8, <3>1, <3>2
  <2>4. ASSUME NEW y \in Pool, thread'[y].ctx # NoClient
        PROVE  thread'[y] = thread[y] /\ client'[thread[y].ctx] = "dispatched"
    <3>1. y # x
      BY <1>7, <2>4
    <3>2. thread'[y] = thread[y] /\ thread[y].ctx # NoClient /\ thread[y].ctx # c
      BY <1>7, <1>9, <2>4, <3>1
    <3>3. thread[y].ctx \in Clients /\ client[thread[y].ctx] = "dispatched"
      BY <1>1, <3>2, ClientFacts DEF ContextInv
    <3> QED BY <1>8, <3>2, <3>3
  <2>5. \A y \in Pool : thread'[y].value \in {thread'[y].ctx, NoClient}
    BY <1>1, <1>7 DEF ContextInv
  <2> QED BY <1>1, <1>3, <2>1, <2>2, <2>3, <2>4, <2>5 DEF ContextInv
<1>11. ResultInv'
  <2>1. NotifiedMeansLogged'
    <3>1. \A d \in Clients : client'[d] \in {"notified", "returned"} =>
            d = c \/ client[d] \in {"notified", "returned"}
      BY <1>8
    <3>2. /\ commit[c].id \in DOMAIN log
          /\ commit[c].status = IF log[commit[c].id] = c THEN "Success" ELSE "Fail"
      BY <1>5
    <3> QED BY <1>1, <1>3, <3>1, <3>2 DEF ResultInv, NotifiedMeansLogged
  <2>2. ASSUME NEW i \in DOMAIN log, log[i] # NoClient
        PROVE  client'[log[i]] \in {"dispatched", "notified", "returned"}
    <3>1. log[i] \in Clients
      BY <1>1, <2>2, ClientFacts
    <3> QED BY <1>1, <1>8, <2>2, <3>1 DEF ResultInv
  <2> QED BY <1>1, <1>3, <2>1, <2>2 DEF ResultInv
<1> QED BY <1>4, <1>6, <1>10, <1>11 DEF IInv

LEMMA InitIInv == Init => IInv
<1> SUFFICES ASSUME Init PROVE IInv
  OBVIOUS
<1>1. /\ min = 1 /\ max = 1 /\ idle = Pool /\ map = [i \in {} |-> 0]
      /\ flags = [i \in 0 .. Window - 1 |-> FALSE]
      /\ retry = {} /\ loop = "message" /\ queue = <<>> /\ ctxs = <<>>
      /\ log = [i \in {} |-> 0]
      /\ object = [x \in Pool |-> Free] /\ thread = [x \in Pool |-> Ready]
      /\ client = [c \in Clients |-> "new"]
      /\ commit = [c \in Clients |-> [id |-> 0, status |-> "UnDone"]]
      /\ tries = [c \in Clients |-> 0]
  BY DEF Init
<1>2. DOMAIN map = {} /\ DOMAIN log = {}
  BY <1>1
<1>3. Window \in Nat \ {0} /\ MaxInstance \in Nat /\ Tries \in Nat \ {0}
  BY PoolAssumption, IdAssumption, ClientAssumption
<1>4. /\ \A x \in Pool : object[x].id = 0 /\ object[x].ctx = NoClient
      /\ \A x \in Pool : /\ thread[x] = Ready /\ thread[x].step = "ready"
                         /\ thread[x].ctx = NoClient /\ thread[x].value = NoClient
      /\ \A i \in 0 .. Window - 1 : flags[i] = FALSE
      /\ \A c \in Clients : client[c] = "new" /\ tries[c] = 0
  BY <1>1 DEF Free, Ready
<1>5. Len(queue) = 0 /\ Len(ctxs) = 0
  BY <1>1
<1>6. TypeOK
  <2>1. min \in 1 .. MaxInstance + 1 /\ max \in 1 .. MaxInstance + 1
    BY <1>1, <1>3
  <2>2. map \in [DOMAIN map -> Pool] /\ log \in [DOMAIN log -> Clients \cup {NoClient}]
    BY <1>1, <1>2
  <2>3. flags \in [0 .. Window - 1 -> BOOLEAN]
    BY <1>1
  <2>4. queue \in Seq(GroupMessage) /\ ctxs \in Seq(Clients)
    BY <1>1
  <2>5. 0 \in 0 .. MaxInstance /\ 0 \in 0 .. Tries
    BY <1>3
  <2>6. object \in [Pool -> [id : 0 .. MaxInstance, ctx : Clients \cup {NoClient}]]
    BY <1>1, <2>5 DEF Free
  <2>7. thread \in [Pool -> [step : {"ready", "internal", "log", "notify"},
                             id : 0 .. MaxInstance, ctx : Clients \cup {NoClient},
                             value : Clients \cup {NoClient}]]
    BY <1>1, <2>5 DEF Ready
  <2>8. /\ client \in [Clients -> {"new", "queued", "dispatched", "notified", "returned"}]
        /\ commit \in [Clients -> [id : 0 .. MaxInstance, status : {"UnDone", "Success", "Fail"}]]
        /\ tries \in [Clients -> 0 .. Tries]
    BY <1>1, <2>5
  <2> QED BY <1>1, <1>2, <2>1, <2>2, <2>3, <2>4, <2>6, <2>7, <2>8 DEF TypeOK
<1>7. WindowInv
  BY <1>1, <1>3, <1>4 DEF WindowInv
<1>8. MapInv
  BY <1>1, <1>2 DEF MapInv
<1>9. ObjectInv
  BY <1>2, <1>4 DEF ObjectInv
<1>10. \A i : ~Queued(queue, i)
  BY <1>5 DEF Queued
<1>11. AnnouncedInv
  <2>1. InternalsOnce(queue)
    BY <1>5 DEF InternalsOnce
  <2>2. \A i \in Ids : ~Ended(min, flags, i)
    <3>1. SUFFICES ASSUME NEW i \in Ids PROVE ~Ended(min, flags, i)
      OBVIOUS
    <3>2. i \in Int /\ ~(i < min)
      BY <1>1, <1>3 DEF Ids
    <3>3. i < min + Window => i - min \in 0 .. Window - 1
      BY <1>1, <1>3, <3>2
    <3> QED BY <1>4, <3>2, <3>3 DEF Ended
  <2>3. \A i \in Ids : ~Logging(i)
    BY <1>4 DEF Logging
  <2> QED BY <1>2, <1>10, <2>1, <2>2, <2>3 DEF AnnouncedInv
<1>12. ThreadInv
  BY <1>4 DEF ThreadInv
<1>13. ContextInv
  <2>1. Distinct(ctxs) /\ \A c \in Clients : ~Waits(ctxs, c)
    BY <1>5 DEF Distinct, Waits
  <2> QED BY <1>3, <1>4, <2>1 DEF ContextInv
<1>14. ResultInv
  BY <1>2, <1>4 DEF ResultInv, NotifiedMeansLogged
<1> QED BY <1>6, <1>7, <1>8, <1>9, <1>11, <1>12, <1>13, <1>14 DEF IInv, Structure

LEMMA NextIInv == IInv /\ [Next]_vars => IInv'
<1> SUFFICES ASSUME IInv, [Next]_vars PROVE IInv'
  OBVIOUS
<1>1. ASSUME NEW x \in Pool, InstanceStep(x) PROVE IInv'
  BY <1>1, ReachConsensusStep, QueueInternalStep, SetConsensusResultStep, NotifyStep
     DEF InstanceStep
<1>2. CASE GroupLoop
  BY <1>2, DealWithMessageStep, DealWithRetryStep, IOLoopNewProposeStep DEF GroupLoop
<1>3. ASSUME NEW c \in Clients, NewPropose(c) \/ WakeUp(c) PROVE IInv'
  BY <1>3, NewProposeStep, WakeUpStep
<1>4. ASSUME NEW id \in PeerIDs, OnReceiveNewMessage(id) PROVE IInv'
  BY <1>4, OnReceiveNewMessageStep
<1>5. CASE UNCHANGED vars
  <2>1. TypeOK /\ Structure /\ ContextInv /\ ResultInv
    BY DEF IInv
  <2>2. UNCHANGED <<min, max, idle, map, flags, retry, loop, queue, ctxs, log, object, thread,
                    client, commit, tries>>
    BY <1>5 DEF vars, groupVars, objectVars, clientVars
  <2>3. TypeOK'
    BY <2>1, <2>2 DEF TypeOK
  <2>4. Structure'
    <3>1. UNCHANGED <<groupVars, log, objectVars>>
      BY <1>5 DEF vars
    <3>2. InternalsOnce(queue') /\ \A i \in Ids : Queued(queue', i) <=> Queued(queue, i)
      BY <2>1, <2>2 DEF Structure, AnnouncedInv
    <3> QED BY <2>1, <3>1, <3>2, SameStructure
  <2>5. ContextInv' /\ ResultInv'
    <3>1. UNCHANGED <<clientVars, ctxs, log, object, thread>>
      BY <1>5, <2>2 DEF vars
    <3> QED BY <2>1, <3>1, SameContexts
  <2> QED BY <2>3, <2>4, <2>5 DEF IInv
<1> QED BY <1>1, <1>2, <1>3, <1>4, <1>5 DEF Next

LEMMA Invariance == Spec => []IInv
BY InitIInv, NextIInv, PTL DEF Spec

(****************************************************************************)
(* What the invariant says of the properties that the runs check.           *)
(****************************************************************************)
\* If every object of the pool serves an id of the window, every id is served.
LEMMA PoolSuffices ==
  ASSUME TypeOK, Structure, NEW id \in min .. min + Window - 1,
         id \notin DOMAIN map, idle = {}
  PROVE  FALSE
<1> DEFINE ids == min .. min + Window - 1
<1>1. Window \in Nat \ {0} /\ min \in Int /\ IsFiniteSet(Pool) /\ Cardinality(Pool) = Window
  BY IdFacts, PoolAssumption
<1>2. IsFiniteSet(ids) /\ Cardinality(ids) = Window
  <2>1. min + Window - 1 \in Int /\ ~(min > min + Window - 1)
        /\ (min + Window - 1) - min + 1 = Window
    BY <1>1
  <2> QED BY <1>1, <2>1, FS_Interval
<1>3. DOMAIN map \subseteq ids \ {id}
  BY <1>1, IdFacts DEF Structure, MapInv, InWindow
<1> HIDE DEF ids
<1>4. IsFiniteSet(ids \ {id}) /\ Cardinality(ids \ {id}) = Window - 1
  BY <1>2, FS_RemoveElement DEF ids
<1>5. IsFiniteSet(DOMAIN map) /\ Cardinality(DOMAIN map) <= Window - 1
  BY <1>3, <1>4, FS_Subset
<1>6. map \in Surjection(DOMAIN map, Pool)
  <2>1. map \in [DOMAIN map -> Pool]
    BY DEF TypeOK
  <2>2. \A x \in Pool : \E i \in DOMAIN map : map[i] = x
    BY DEF Structure, MapInv
  <2> QED BY <2>1, <2>2 DEF Surjection
<1>7. Cardinality(Pool) <= Cardinality(DOMAIN map)
  BY <1>5, <1>6, FS_Surjection
<1>8. Cardinality(DOMAIN map) \in Nat
  BY <1>5, FS_CardinalityType
<1> QED BY <1>1, <1>5, <1>7, <1>8

\* The types of the variables hold in every reachable state.
THEOREM Typing == Spec => []TypeOK
<1>1. IInv => TypeOK
  BY DEF IInv
<1> QED BY <1>1, Invariance, PTL

\* The window is right, in whatever order the ids end: an id that lies below it
\* or has its flag has ended and given back its object, and the first has not.
THEOREM WindowCorrect == Spec => []WindowRight
<1>1. IInv => WindowRight
  <2> SUFFICES ASSUME IInv PROVE WindowRight
    OBVIOUS
  <2>1. TypeOK /\ Structure
    BY DEF IInv
  <2>2. ~flags[0]
    BY <2>1 DEF Structure, WindowInv
  <2>3. ASSUME NEW id \in Ids
        PROVE  (id < min \/ (InWindow(id) /\ flags[id - min]))
                 <=> (id \in Announced /\ id \notin DOMAIN map)
    <3>1. (id < min \/ (InWindow(id) /\ flags[id - min])) <=> Ended(min, flags, id)
      <4>1. id \in Int /\ min \in Int
        BY <2>1, IdFacts DEF Ids
      <4> QED BY <4>1 DEF Ended, InWindow
    <3>2. id \in Announced <=> (id \in DOMAIN log \/ Logging(id))
      BY DEF Announced, Logging
    <3>3. (id \in DOMAIN log \/ Logging(id)) <=> (Ended(min, flags, id) \/ Queued(queue, id))
      BY <2>1 DEF Structure, AnnouncedInv
    <3>4. /\ Queued(queue, id) => id \in DOMAIN map
          /\ id \in DOMAIN map => ~Ended(min, flags, id)
      BY <2>1 DEF Structure, AnnouncedInv, MapInv
    <3> QED BY <3>1, <3>2, <3>3, <3>4
  <2> QED BY <2>2, <2>3 DEF WindowRight
<1> QED BY <1>1, Invariance, PTL

\* No assertion fails in the group: an object is free, and reset, for every id
\* that gets one; an internal message finds its object; the log is written once.
THEOREM AssertionsHold == Spec => []NoAssertionFails
<1>1. IInv => NoAssertionFails
  <2> SUFFICES ASSUME IInv PROVE NoAssertionFails
    OBVIOUS
  <2>1. TypeOK /\ Structure
    BY DEF IInv
  <2>2. AllocationSucceeds
    <3>1. ASSUME NEW id \in min .. min + Window - 1, id \notin DOMAIN map PROVE idle # {}
      BY <2>1, <3>1, PoolSuffices
    <3>2. ASSUME NEW x \in idle PROVE object[x] = Free
      <4>1. x \in Pool
        BY <2>1 DEF TypeOK
      <4>2. object[x].id = 0
        BY <2>1, <3>2, <4>1 DEF Structure, ObjectInv, MapInv
      <4>3. object[x].ctx = NoClient
        BY <2>1, <4>1, <4>2 DEF Structure, ObjectInv
      <4>4. object[x] \in [id : 0 .. MaxInstance, ctx : Clients \cup {NoClient}]
        BY <2>1, <4>1 DEF TypeOK
      <4> QED BY <4>2, <4>3, <4>4 DEF Free
    <3> QED BY <3>1, <3>2 DEF AllocationSucceeds
  <2>3. InternalFound
    <3>1. SUFFICES ASSUME NEW k \in 1 .. Len(queue), queue[k].type = "Internal"
                   PROVE  /\ queue[k].id \in DOMAIN map /\ InWindow(queue[k].id)
                          /\ \A j \in 1 .. Len(queue) : queue[j] = queue[k] => j = k
      BY DEF InternalFound
    <3>2. queue[k] \in GroupMessage
      BY <2>1, <3>1, ElementOfSeq DEF TypeOK
    <3>3. queue[k].id \in Ids
      BY <3>2 DEF GroupMessage
    <3>4. queue[k] = Internal(queue[k].id)
      BY <3>1, <3>2, <3>3, InternalIds
    <3>5. Queued(queue, queue[k].id)
      BY <3>1, <3>4 DEF Queued
    <3>6. queue[k].id \in DOMAIN map /\ InWindow(queue[k].id)
      BY <2>1, <3>3, <3>5 DEF Structure, AnnouncedInv, MapInv
    <3>7. \A j \in 1 .. Len(queue) : queue[j] = queue[k] => j = k
      BY <2>1, <3>1 DEF Structure, AnnouncedInv, InternalsOnce
    <3> QED BY <3>6, <3>7
  <2>4. LogWrittenOnce
    BY <2>1 DEF Structure, ThreadInv, LogWrittenOnce
  <2> QED BY <2>2, <2>3, <2>4 DEF NoAssertionFails
<1> QED BY <1>1, Invariance, PTL

\* A client that NewPropose wakes up reads its result in the log: the order of
\* Commit, InstanceDoneConsensus and Notify.
THEOREM ResultsLogged == Spec => []NotifiedMeansLogged
<1>1. IInv => NotifiedMeansLogged
  BY DEF IInv, ResultInv
<1> QED BY <1>1, Invariance, PTL

\* A client's value is in the log at most once, however often it tries.
THEOREM ValuesLoggedOnce == Spec => []LoggedAtMostOnce
<1>1. IInv => LoggedAtMostOnce
  BY DEF IInv, ResultInv, LoggedAtMostOnce
<1> QED BY <1>1, Invariance, PTL
================================================================================
