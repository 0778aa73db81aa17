-------------------------------- MODULE Inbox --------------------------------
(****************************************************************************)
(* What an Instance object promises while the group gives it one instance   *)
(* id after the other: it serves one id at a time and no id twice, it has   *)
(* one inbox and at most one timer, and when an id ends, everything that    *)
(* belonged to it is gone at once.  There are no ids in messages or timers, *)
(* since nothing of another id can be there.                                *)
(****************************************************************************)
EXTENDS Sequences

CONSTANTS Ids, NoId, PeerTypes

VARIABLES
    serving,    \* the id served, or NoId
    unserved,   \* ids not served yet
    inbox,      \* types of the messages to handle
    timer,      \* "none", "Prepare" or "Accept": the phase that waits for replies
    client,     \* there is a client whose proposal is tried
    done        \* the value is known, the end is under way

Idle == inbox = <<>> /\ timer = "none" /\ ~client /\ ~done

Init == serving = NoId /\ unserved = Ids /\ Idle

\* The id begins with a message of another node, or with a client's proposal.
Begin == \E i \in unserved :
    /\ serving = NoId /\ Idle
    /\ serving' = i
    /\ unserved' = unserved \ {i}
    /\ \/ \E t \in PeerTypes : inbox' = <<t>> /\ UNCHANGED client
       \/ inbox' = <<"NewProposal">> /\ client' = TRUE
    /\ UNCHANGED <<timer, done>>

Arrive == \E t \in PeerTypes :
    /\ serving # NoId
    /\ inbox' = Append(inbox, t)
    /\ UNCHANGED <<serving, unserved, timer, client, done>>

\* Only a phase that waits can be restarted.
Timeout ==
    /\ timer # "none" /\ ~done
    /\ timer' = "Prepare"
    /\ UNCHANGED <<serving, unserved, inbox, client, done>>

Handle ==
    /\ inbox # <<>> /\ ~done
    /\ inbox' = Tail(inbox)
    /\ \/ /\ Head(inbox) = "NewProposal" /\ client /\ timer = "none"
          /\ timer' \in {"Prepare", "Accept"}
          /\ UNCHANGED <<client, done>>
       \/ \* a majority granted the prepare
          /\ Head(inbox) = "PrepareReply" /\ timer = "Prepare"
          /\ timer' = "Accept"
          /\ UNCHANGED <<client, done>>
       \/ \* a majority accepted, or the value was learnt
          /\ Head(inbox) = "LearnValue" \/ (Head(inbox) = "AcceptReply" /\ timer = "Accept")
          /\ timer' = "none" /\ client' = FALSE /\ done' = TRUE
       \/ \* nothing else starts or ends a phase
          /\ Head(inbox) \notin {"NewProposal", "LearnValue"}
          /\ UNCHANGED <<timer, client, done>>
    /\ UNCHANGED <<serving, unserved>>

End ==
    /\ done
    /\ serving' = NoId /\ inbox' = <<>> /\ done' = FALSE
    /\ UNCHANGED <<unserved, timer, client>>

Next == Begin \/ Arrive \/ Timeout \/ Handle \/ End

Spec == Init /\ [][Next]_<<serving, unserved, inbox, timer, client, done>>
==============================================================================
