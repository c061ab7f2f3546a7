---------------------------- MODULE MCGraphEdit ----------------------------
(***************************************************************************)
(* Three projects for TLC: "a", a start and two composites with a node in  *)
(* each; "b", a start node; and "z", which has none yet.                   *)
(***************************************************************************)
EXTENDS GraphEdit, Sequences, TLC

MCNodeRows ==
    LET Row(project, task, view, up, text) ==
            [project |-> project, task |-> task, view |-> view, up |-> up,
             text |-> text]
    IN  "s" :> Row("a", "CONTEXT", "ATOMIC", Top, FALSE) @@
        "c" :> Row("a", "COMPOSITE_NORMAL", "COMPOSITE", Top, FALSE) @@
        "d" :> Row("a", "COMPOSITE_NORMAL", "COMPOSITE", Top, FALSE) @@
        "h" :> Row("a", "HTTP", "ATOMIC", "c", FALSE) @@
        "v" :> Row("a", "CONVERT", "ATOMIC", "d", TRUE) @@
        "t" :> Row("b", "CONTEXT", "ATOMIC", Top, FALSE)

MCPortRows ==
    LET Row(n, type) == [node |-> n, type |-> type, text |-> TRUE, script |-> FALSE]
    IN  "so" :> Row("s", "OUTPUT_PORT") @@ "to" :> Row("t", "OUTPUT_PORT") @@
        "ci" :> Row("c", "INPUT_PORT") @@ "di" :> Row("d", "INPUT_PORT") @@
        "ho" :> Row("h", "OUTPUT_PORT") @@ "vi" :> Row("v", "INPUT_PORT")

NodeAdd(id, task, ports) ==
    [op |-> "node.add", id |-> id, project |-> "z", task |-> task,
     view |-> "ATOMIC", up |-> Top, ports |-> ports]

PortWrite(op, id, n, type, script, path_) ==
    [op |-> op, id |-> id, node |-> n, type |-> type, long |-> FALSE,
     script |-> script, fits |-> TRUE, path |-> path_]

LinkAdd(id, m, p, n, q) ==
    [op |-> "link.add", id |-> id, project |-> "a", source |-> m,
     sourcePort |-> p, target |-> n, targetPort |-> q]

MCDtos ==
    {NodeAdd("n1", "CONTEXT", "no" :> "OUTPUT_PORT"),
     NodeAdd("n2", "CONTEXT", "ni" :> "INPUT_PORT"),
     NodeAdd("n3", "CONTEXT", <<>>),
     [op |-> "node.update", id |-> "h"],
     PortWrite("port.modify", "so", "s", "OUTPUT_PORT", FALSE, "x"),
     PortWrite("port.modify", "to", "t", "OUTPUT_PORT", FALSE, "x"),
     PortWrite("port.add", "hp", "h", "OUTPUT_PORT", FALSE, None),
     PortWrite("port.add", "vo", "v", "OUTPUT_PORT", FALSE, None),
     PortWrite("port.add", "ci", "c", "OUTPUT_PORT", FALSE, None),
     PortWrite("port.add", "hi", "h", "INPUT_PORT", FALSE, None),
     [op |-> "port.delete", id |-> "ci"],
     LinkAdd("l1", "s", "so", "c", "ci"),
     LinkAdd("l2", "s", "so", "d", "di"),
     LinkAdd("l3", "h", "ho", "v", "vi"),
     LinkAdd("l4", "c", "ci", "d", "di"),
     LinkAdd("l5", "d", "di", "v", "vi"),
     [op |-> "link.delete", id |-> "l1"]}

Slots == Permutations(Requests)
=============================================================================
