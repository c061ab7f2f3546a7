---------------------------- MODULE MCFlowBuild ----------------------------
(***************************************************************************)
(* A project small enough for TLC: a start s and an end e in the first     *)
(* layer, with composites c and d, which hold a route r and a converter v. *)
(* h and g are HTTP nodes that nobody has linked, each with an output      *)
(* port; that of g has empty properties.                                   *)
(***************************************************************************)
EXTENDS FlowBuild, Sequences, TLC

MCNode ==
    LET Row(task, view, up) == [task |-> task, view |-> view, up |-> up]
    IN  "s" :> Row("CONTEXT", "ATOMIC", Top) @@
        "e" :> Row("END", "ATOMIC", Top) @@
        "c" :> Row("COMPOSITE_NORMAL", "COMPOSITE", Top) @@
        "d" :> Row("COMPOSITE_NORMAL", "COMPOSITE", Top) @@
        "r" :> Row("ROUTE", "ATOMIC", "c") @@
        "v" :> Row("CONVERT", "ATOMIC", "d") @@
        "h" :> Row("HTTP", "ATOMIC", Top) @@
        "g" :> Row("HTTP", "ATOMIC", Top)

MCPort ==
    LET In(n) == [node |-> n, type |-> "INPUT_PORT", script |-> FALSE,
                  empty |-> FALSE]
        Out(n) == [node |-> n, type |-> "OUTPUT_PORT", script |-> TRUE,
                   empty |-> FALSE]
    IN  "so" :> Out("s") @@ "ei" :> In("e") @@
        "ci" :> In("c") @@ "co" :> Out("c") @@
        "di" :> In("d") @@ "do" :> Out("d") @@
        "ri" :> In("r") @@ "r1" :> Out("r") @@ "r2" :> Out("r") @@
        "vi" :> In("v") @@ "vo" :> Out("v") @@
        "ho" :> Out("h") @@ "go" :> [Out("g") EXCEPT !.empty = TRUE]

\* A request as the editor makes it, naming the owners of the ports.
Drawn(p, q) == [source |-> MCPort[p].node, sourcePort |-> p,
                target |-> MCPort[q].node, targetPort |-> q]

\* A request for the same ports that names other nodes.
Named(p, q, m, n) == [source |-> m, sourcePort |-> p,
                      target |-> n, targetPort |-> q]

MCLinkRequests ==
    {Drawn("so", "ci"), Drawn("so", "vi"), Drawn("ci", "ri"), Drawn("di", "vi"),
     Drawn("co", "di"), Drawn("co", "ei"), Drawn("do", "ei"),
     Drawn("r1", "co"), Drawn("r2", "co"), Drawn("vo", "do"),
     Drawn("vo", "ri"), Drawn("ci", "di"), Drawn("di", "ci"),
     Named("ci", "di", "s", "v"), Named("di", "ci", "s", "r")}

MCDeletable == {"r2", "ho", "vi"}
MCClassChoices == {{"s", "e", "r"}, {"s", "e", "r", "v"}}
=============================================================================
