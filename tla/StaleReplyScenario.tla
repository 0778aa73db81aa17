------------------------- MODULE StaleReplyScenario -------------------------
(****************************************************************************)
(* One behaviour of PaxosInstance, too deep to be found by search: node 1   *)
(* is the only leader, node 2 uses ballot <<1, 2>> for two values because   *)
(* its accept timer fires before any rejection, and a reply to the first is *)
(* counted for the second.  Every step is an action of PaxosInstance.       *)
(****************************************************************************)
EXTENDS MCPaxosInstance

VARIABLE step       \* how many steps of the script were taken

From(t, m, p) == {x \in Sent(t) : x.node = m /\ x.proposal = p}

At(i, A) == step = i /\ A /\ step' = i + 1

\* Node n handles the prepare <<p, m>>, or the accept that carries v, or m's
\* reply to its own proposal p.
GetsPrepare(n, m, p)      == \E x \in From("Prepare", m, p) : OnPrepare(n, x)
GetsAccept(n, m, p, v)    == \E x \in From("Accept", m, p) : x.value = v /\ OnAccept(n, x)
GetsPrepareReply(n, m, p) == \E x \in From("PrepareReply", m, p) : OnPrepareReply(n, x)
GetsAcceptReply(n, m, p)  == \E x \in From("AcceptReply", m, p) : OnAcceptReply(n, x)

Script ==
    \* The leader's accept reaches only itself.
    \/ At(0, NewProposal(1, v1))          \/ At(1, GetsAccept(1, 1, 0, v1))
    \* Node 2 runs ballot <<1, 2>> with nodes 0 and 2, and sends v2.
    \/ At(2, NewProposal(2, v2))
    \/ At(3, GetsPrepare(2, 2, 1))        \/ At(4, GetsPrepare(0, 2, 1))
    \/ At(5, GetsPrepareReply(2, 2, 1))   \/ At(6, GetsPrepareReply(2, 0, 1))
    \/ At(7, GetsAccept(0, 2, 1, v2))
    \* Timeout before the reply: ballot <<1, 2>> again, with nodes 1 and 2.
    \/ At(8, OnAcceptTimeout(2))          \/ At(9, GetsPrepare(1, 2, 1))
    \/ At(10, GetsPrepareReply(2, 1, 1))  \/ At(11, GetsPrepareReply(2, 2, 1))
    \* Node 1 accepts v1; node 0's old reply makes a majority.
    \/ At(12, GetsAccept(1, 2, 1, v1))
    \/ At(13, GetsAcceptReply(2, 1, 1))   \/ At(14, GetsAcceptReply(2, 0, 1))
    \* Node 0 refuses the leader's first accept; the leader times out.
    \/ At(15, GetsAccept(0, 1, 0, v1))    \/ At(16, GetsAcceptReply(1, 0, 0))
    \/ At(17, OnAcceptTimeout(1))
    \* Ballot <<2, 1>> with nodes 0 and 1, which hold v2 and v1 in <<1, 2>>.
    \/ At(18, GetsPrepare(0, 1, 2))       \/ At(19, GetsPrepare(1, 1, 2))
    \/ At(20, GetsPrepareReply(1, 0, 2))  \/ At(21, GetsPrepareReply(1, 1, 2))
    \/ At(22, GetsAccept(0, 1, 2, v2))    \/ At(23, GetsAccept(1, 1, 2, v2))
    \/ At(24, GetsAcceptReply(1, 0, 2))   \/ At(25, GetsAcceptReply(1, 1, 2))

ScriptSpec == Init /\ step = 0 /\ [][Script]_<<vars, step>>
=============================================================================
