------------------------------ MODULE FlowWalk ------------------------------
(***************************************************************************)
(* What running a flow promises.  A run walks from the start node along    *)
(* links; each node is given what its predecessor made of its own input,   *)
(* and the answer is what the last node made of it.  A run may fail at any *)
(* time, a failed or answered run never changes again.                     *)
(***************************************************************************)
EXTENDS Naturals, Sequences

CONSTANTS
    Requests,   \* runs
    Nodes,      \* nodes of the flow
    Kind,       \* the task type of each node
    MaxDepth    \* the most nodes a run may execute

VARIABLES
    links,      \* the links of the flow, pairs of nodes
    walk,       \* the nodes each run has come to
    value,      \* what the last of them is given, at the end the answer
    outcome     \* "running", "answered" or "failed"

vars == <<links, walk, value, outcome>>

\* A body is the sequence of the nodes that have worked on it; a route node
\* only chooses where it goes.
Effect(n, body) == IF Kind[n] = "ROUTE" THEN body ELSE Append(body, n)

Final(r) == walk[r][Len(walk[r])]

Init ==
    /\ walk = [r \in Requests |-> <<>>]
    /\ value = [r \in Requests |-> <<>>]
    /\ outcome = [r \in Requests |-> "running"]

Begin(r) ==
    /\ outcome[r] = "running"
    /\ walk[r] = <<>>
    /\ \E n \in Nodes :
          /\ Kind[n] = "CONTEXT"
          /\ \A l \in links : l[2] # n
          /\ walk' = [walk EXCEPT ![r] = <<n>>]
    /\ UNCHANGED <<links, value, outcome>>

Advance(r) ==
    /\ outcome[r] = "running"
    /\ Len(walk[r]) \in 1..MaxDepth
    /\ \E m \in Nodes :
          /\ <<Final(r), m>> \in links
          /\ walk' = [walk EXCEPT ![r] = Append(@, m)]
    /\ value' = [value EXCEPT ![r] = Effect(Final(r), @)]
    /\ UNCHANGED <<links, outcome>>

Answer(r) ==
    /\ outcome[r] = "running"
    /\ Len(walk[r]) \in 1..MaxDepth
    /\ \A l \in links : l[1] # Final(r)
    /\ value' = [value EXCEPT ![r] = Effect(Final(r), @)]
    /\ outcome' = [outcome EXCEPT ![r] = "answered"]
    /\ UNCHANGED <<links, walk>>

\* One run fails, or all that are under way when the process dies.
Fail(failing) ==
    /\ \A r \in failing : outcome[r] = "running"
    /\ outcome' = [r \in Requests |->
                     IF r \in failing THEN "failed" ELSE outcome[r]]
    /\ UNCHANGED <<links, walk, value>>

Next ==
    \/ \E r \in Requests : Begin(r) \/ Advance(r) \/ Answer(r)
    \/ \E failing \in SUBSET Requests : Fail(failing)

Spec == Init /\ [][Next]_vars
=============================================================================
