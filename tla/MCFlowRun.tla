----------------------------- MODULE MCFlowRun -----------------------------
(* A flow of a start node, a route, a worker and an end node for TLC. *)
EXTENDS FlowRun, TLC

CONSTANTS start, route, work, end

MCKind == start :> "CONTEXT" @@ route :> "ROUTE" @@ work :> "OTHER"
          @@ end :> "END"

\* With the links start -> route and work -> end or without them, and any of:
\* a way past the worker, a way back to the route, a second way out of start.
MCLinkChoices ==
    {{<<start, route>>, <<route, work>>} \cup extra :
        extra \in SUBSET {<<work, end>>, <<route, end>>, <<work, route>>,
                          <<start, work>>}}

MCScriptChoices ==
    {[n \in Nodes |-> CASE n = route -> s [] n = work -> t [] n = end -> u
                        [] OTHER -> "plain"] :
        s \in {"plain", "throws"}, t \in Scripts, u \in {"plain", "awaits"}}

\* The worker asks an HTTP service, the other scripts await nothing.
MCAwaiting ==
    {[n \in Nodes |-> IF n = work THEN "awaits" ELSE "plain"]}

Symmetry == Permutations(Requests)
=============================================================================
