------------------------------ MODULE Consensus ------------------------------
(****************************************************************************)
(* What one instance promises to the rest of the system: every node logs at *)
(* most one value, all nodes log the same one, it was proposed by a client, *)
(* and a client is told Success exactly when the value logged is the one it *)
(* proposed.  Nothing is said of ballots, messages or timers.               *)
(****************************************************************************)
CONSTANTS Nodes, Values, NoValue

VARIABLES proposal,     \* proposal[n]: what the client of node n proposed
          log,          \* log[n]: the entry of node n's log
          outcome       \* outcome[n]: what the client of node n was told

Init == /\ proposal = [n \in Nodes |-> NoValue]
        /\ log      = [n \in Nodes |-> NoValue]
        /\ outcome  = [n \in Nodes |-> "UnDone"]

Propose(n, v) == /\ proposal[n] = NoValue
                 /\ log[n] = NoValue
                 /\ proposal' = [proposal EXCEPT ![n] = v]
                 /\ UNCHANGED <<log, outcome>>

Learn(n, v) ==
    /\ log[n] = NoValue
    /\ v \in { proposal[m] : m \in Nodes }
    /\ \A m \in Nodes : log[m] \in {NoValue, v}
    /\ log' = [log EXCEPT ![n] = v]
    /\ outcome' = [outcome EXCEPT ![n] =
                     CASE proposal[n] = NoValue -> "UnDone"
                       [] proposal[n] = v       -> "Success"
                       [] OTHER                 -> "Fail"]
    /\ UNCHANGED proposal

Next == \E n \in Nodes, v \in Values : Propose(n, v) \/ Learn(n, v)

Spec == Init /\ [][Next]_<<proposal, log, outcome>>
==============================================================================
