----------------------------- MODULE GraphEdit -----------------------------
(***************************************************************************)
(* The editing services of vs-adapter: NodeService, PortService and        *)
(* LinkService over the tables of the graph.  No handler uses a            *)
(* transaction: each awaited statement is a step, and the steps of         *)
(* requests that overlap are interleaved.  The synchronous code between    *)
(* two awaits belongs to the step before it.                               *)
(*                                                                         *)
(* A table is a function from its ids to its rows.  The properties column  *)
(* comes down to what is asked of it: whether it is JSON text (some        *)
(* statements store text, others an object) and whether it has a script.   *)
(***************************************************************************)
EXTENDS FlowData

CONSTANTS
    Requests,       \* slots for requests that are served at one time
    Project,        \* ids of t_vs_project
    Paths,          \* values of contextPath
    NodeRows,       \* t_vs_node at the beginning
    PortRows,       \* t_vs_port at the beginning
    Dtos,           \* bodies of requests
    MaxRequests,    \* bound: requests in all
    None            \* no path, nothing read, no request

NodeAdds == {d \in Dtos : d.op = "node.add"}
PortAdds == {d \in Dtos : d.op = "port.add"}
PortModifies == {d \in Dtos : d.op = "port.modify"}
LinkAdds == {d \in Dtos : d.op = "link.add"}

PortWrites == PortAdds \cup PortModifies

Ops == {"node.add", "node.update", "port.add", "port.modify",
        "port.delete", "link.add", "link.delete"}

NodeRow == [project : Project, task : TaskTypes, view : ViewTypes,
            up : STRING, text : BOOLEAN]
PortRow == [node : STRING, type : PortTypes, text : BOOLEAN, script : BOOLEAN]
LinkRow == [project : Project, source : STRING, sourcePort : STRING,
            target : STRING, targetPort : STRING]

\* A project begins with one start node at most.
ASSUME TableAssumption ==
    /\ IsFiniteSet(DOMAIN NodeRows)
    /\ NodeRows \in [DOMAIN NodeRows -> NodeRow]
    /\ \A m, n \in DOMAIN NodeRows :
        /\ NodeRows[m].project = NodeRows[n].project
        /\ NodeRows[m].task = "CONTEXT"
        /\ NodeRows[n].task = "CONTEXT"
        => m = n
    /\ PortRows \in [DOMAIN PortRows -> PortRow]
    /\ \A p \in DOMAIN PortRows : PortRows[p].node \in DOMAIN NodeRows

ASSUME RequestAssumption ==
    /\ IsFiniteSet(Requests)
    /\ Requests # {}
    /\ MaxRequests \in Nat

\* ports: a function from ids to types, in node.add.  fits: the properties are
\* such that the script of the node's task can be made of them.
ASSUME DtoAssumption ==
    /\ \A d \in Dtos : d.op \in Ops
    /\ None \notin Dtos
    /\ None \notin Paths
    /\ \A d \in NodeAdds : /\ d.id \in STRING
                           /\ d.project \in Project
                           /\ d.task \in TaskTypes
                           /\ d.view \in ViewTypes
                           /\ d.up \in STRING
                           /\ \A p \in DOMAIN d.ports : d.ports[p] \in PortTypes
    /\ \A d \in PortAdds : d.node \in STRING /\ d.type \in PortTypes
    /\ \A d \in PortWrites : /\ {d.long, d.script, d.fits} \subseteq BOOLEAN
                             /\ d.path \in Paths \cup {None}
    /\ \A d \in LinkAdds : /\ d.project \in Project
                           /\ {d.source, d.sourcePort, d.target, d.targetPort}
                                \subseteq STRING

VARIABLES
    path,       \* contextPath of each project, or None
    node,       \* t_vs_node
    port,       \* t_vs_port
    link,       \* t_vs_link
    at,         \* the step that the request in each slot takes next
    dto,        \* the body of that request
    seen,       \* what it has read and will use
    begun,      \* how many requests there have been
    deleted     \* history: the ports that have been deleted

tables == <<path, node, port, link>>
vars == <<tables, at, dto, seen, begun, deleted>>

Init ==
    /\ path = [j \in Project |-> None]
    /\ node = NodeRows
    /\ port = PortRows
    /\ link = [l \in {} |-> None]
    /\ at = [q \in Requests |-> "idle"]
    /\ dto = [q \in Requests |-> None]
    /\ seen = [q \in Requests |-> None]
    /\ begun = 0
    /\ deleted = {}

-----------------------------------------------------------------------------
(* How a request goes on. *)

Calls(q, step) == at[q] = step

\* On to the next statement, with what has been read.
Await(q, step, read) ==
    /\ at' = [at EXCEPT ![q] = step]
    /\ seen' = [seen EXCEPT ![q] = read]
    /\ UNCHANGED <<dto, begun>>

\* The handler returns or throws.
Leave(q) ==
    /\ at' = [at EXCEPT ![q] = "idle"]
    /\ dto' = [dto EXCEPT ![q] = None]
    /\ seen' = [seen EXCEPT ![q] = None]
    /\ UNCHANGED begun

\* What PortService.add does first depends on the type of the port.
FirstStep(d) ==
    IF d.op # "port.add" THEN d.op
    ELSE IF d.type = "INPUT_PORT" THEN "port.inputs" ELSE "port.owner"

\* LinkController refuses a link of a node or a port with itself.
Begin(q, d) ==
    /\ Calls(q, "idle")
    /\ begun < MaxRequests
    /\ d.op = "link.add" => d.source # d.target /\ d.sourcePort # d.targetPort
    /\ at' = [at EXCEPT ![q] = FirstStep(d)]
    /\ dto' = [dto EXCEPT ![q] = d]
    /\ begun' = begun + 1
    /\ UNCHANGED <<tables, seen, deleted>>

-----------------------------------------------------------------------------
(* NodeService. *)

ContextNodes(j) ==
    {n \in DOMAIN node : node[n].project = j /\ node[n].task = "CONTEXT"}

\* Variant: one start node does not stop another.
MayAddAfterAll(d) ==
    /\ Cardinality(ContextNodes(d.project)) <= 1
    /\ d.view = "COMPOSITE" => d.task \in {"COMPOSITE_NORMAL", "COMPOSITE_END"}

\* Several start nodes stop every add, one stops the add of another.
MayAddNode(d) ==
    /\ Cardinality(ContextNodes(d.project)) <= 1
    /\ d.task = "CONTEXT" => ContextNodes(d.project) = {}
    /\ d.view = "COMPOSITE" => d.task \in {"COMPOSITE_NORMAL", "COMPOSITE_END"}

NodeFind(q) ==
    /\ Calls(q, "node.add")
    /\ IF MayAddNode(dto[q]) THEN Await(q, "node.create", None) ELSE Leave(q)
    /\ UNCHANGED <<tables, deleted>>

\* Some port of the request is not for a node of its task.  That is found when
\* the node is there already.
HasWrongPort(d) ==
    \E p \in DOMAIN d.ports :
        \/ d.ports[p] = "INPUT_PORT" /\ d.task = "CONTEXT"
        \/ d.ports[p] = "OUTPUT_PORT" /\ d.task = "COMPOSITE_END"

\* The properties of the node are stored as an object.
NodeOf(d) == [project |-> d.project, task |-> d.task, view |-> d.view,
              up |-> d.up, text |-> FALSE]

NodeCreate(q) ==
    /\ Calls(q, "node.create")
    /\ LET d == dto[q]
       IN  IF d.id \in DOMAIN node THEN Leave(q) /\ UNCHANGED node
           ELSE /\ node' = [n \in DOMAIN node \cup {d.id} |->
                              IF n = d.id THEN NodeOf(d) ELSE node[n]]
                /\ IF HasWrongPort(d) \/ DOMAIN d.ports = {} THEN Leave(q)
                   ELSE Await(q, "node.ports", None)
    /\ UNCHANGED <<path, port, link, deleted>>

\* The properties of these ports are stored as text; a script in them is never
\* read, as getScriptFromVsPort and getScriptFromPort want an object.
NodePorts(q) ==
    /\ Calls(q, "node.ports")
    /\ LET d == dto[q]
           Row(p) == [node |-> d.id, type |-> d.ports[p],
                      text |-> TRUE, script |-> FALSE]
       IN  IF DOMAIN d.ports \cap DOMAIN port # {} THEN UNCHANGED port
           ELSE port' = [p \in DOMAIN port \cup DOMAIN d.ports |->
                           IF p \in DOMAIN d.ports THEN Row(p) ELSE port[p]]
    /\ Leave(q)
    /\ UNCHANGED <<path, node, link, deleted>>

NodeUpdate(q) ==
    /\ Calls(q, "node.update")
    /\ LET n == dto[q].id
       IN  node' = IF n \in DOMAIN node THEN [node EXCEPT ![n].text = TRUE]
                   ELSE node
    /\ Leave(q)
    /\ UNCHANGED <<path, port, link, deleted>>

-----------------------------------------------------------------------------
(* PortService.add. *)

PortsOf(n, type) == {p \in DOMAIN port : port[p].node = n /\ port[p].type = type}

\* A node gets one input port.
PortInputs(q) ==
    /\ Calls(q, "port.inputs")
    /\ IF PortsOf(dto[q].node, "INPUT_PORT") = {}
       THEN Await(q, "port.owner", None) ELSE Leave(q)
    /\ UNCHANGED <<tables, deleted>>

\* Nodes of these tasks get one output port.
OneOutput == {"CONTEXT", "HTTP", "DATA_MAPPING"}

NameFits(d, task, type) ==
    task = "COMPOSITE_NORMAL" /\ type = "OUTPUT_PORT" => ~d.long

\* The test for COMPOSITE_END compares it with the view type: it never applies.
TypeFits(task, type) ==
    /\ task = "CONTEXT" => type = "OUTPUT_PORT"
    /\ task = "END" => type = "INPUT_PORT"

PortOwner(q) ==
    /\ Calls(q, "port.owner")
    /\ LET d == dto[q]
           task == node[d.node].task
       IN  IF /\ d.node \in DOMAIN node
              /\ NameFits(d, task, d.type)
              /\ TypeFits(task, d.type)
           THEN Await(q, IF task \in OneOutput THEN "port.outputs"
                         ELSE "port.create", None)
           ELSE Leave(q)
    /\ UNCHANGED <<tables, deleted>>

\* Whatever the type of the new port.
PortOutputs(q) ==
    /\ Calls(q, "port.outputs")
    /\ IF PortsOf(dto[q].node, "OUTPUT_PORT") = {}
       THEN Await(q, "port.create", None) ELSE Leave(q)
    /\ UNCHANGED <<tables, deleted>>

\* The row is there before modify says whether it is any good.
PortCreate(q) ==
    /\ Calls(q, "port.create")
    /\ LET d == dto[q]
           row == [node |-> d.node, type |-> d.type,
                   text |-> FALSE, script |-> d.script]
       IN  IF d.id \in DOMAIN port THEN Leave(q) /\ UNCHANGED port
           ELSE /\ port' = [p \in DOMAIN port \cup {d.id} |->
                              IF p = d.id THEN row ELSE port[p]]
                /\ Await(q, "port.modify", None)
    /\ UNCHANGED <<path, node, link, deleted>>

-----------------------------------------------------------------------------
(* PortService.modify, of its own and at the end of add. *)

ModifyFind(q) ==
    /\ Calls(q, "port.modify")
    /\ IF dto[q].id \in DOMAIN port
       THEN Await(q, "port.script", port[dto[q].id]) ELSE Leave(q)
    /\ UNCHANGED <<tables, deleted>>

\* What becomes of an update without a script of its own: "made" when one can be
\* generated, "path" for a start node, which registers its path instead.
Generates(d, task, type) ==
    IF type = "INPUT_PORT" THEN "fails"
    ELSE IF task \in {"COMPOSITE_NORMAL", "COMPOSITE_END"} THEN "made"
    ELSE IF task = "CONTEXT" /\ d.path # None THEN "path"
    ELSE IF task \in {"ROUTE", "DATA_MAPPING", "HTTP"} /\ d.fits THEN "made"
    ELSE "fails"

ModifyScript(q) ==
    /\ Calls(q, "port.script")
    /\ LET d == dto[q]
           row == seen[q]
           task == node[row.node].task
           script == IF d.script THEN "made" ELSE Generates(d, task, row.type)
       IN  IF NameFits(d, task, row.type) /\ script # "fails"
           THEN Await(q, IF script = "path" THEN "port.path" ELSE "port.update", row)
           ELSE Leave(q)
    /\ UNCHANGED <<tables, deleted>>

ProjectOf(row) == node[row.node].project

\* Other projects with this path.
Holders(x, j) == {i \in Project \ {j} : path[i] = x}

ModifyPath(q) ==
    /\ Calls(q, "port.path")
    /\ IF Holders(dto[q].path, ProjectOf(seen[q])) = {}
       THEN Await(q, "port.project", seen[q]) ELSE Leave(q)
    /\ UNCHANGED <<tables, deleted>>

\* contextPath is unique: the statement throws when another project has got it.
SetsPath(q) == Holders(dto[q].path, ProjectOf(seen[q])) = {}

ModifyProject(q) ==
    /\ Calls(q, "port.project")
    /\ IF SetsPath(q)
       THEN /\ path' = [path EXCEPT ![ProjectOf(seen[q])] = dto[q].path]
            /\ Await(q, "port.update", seen[q])
       ELSE Leave(q) /\ UNCHANGED path
    /\ UNCHANGED <<node, port, link, deleted>>

\* The type and the node of the row are those that add gave it, or, when it has
\* been deleted and added again, those of the new one.
ModifyUpdate(q) ==
    /\ Calls(q, "port.update")
    /\ LET p == dto[q].id
           task == node[seen[q].node].task
           script == dto[q].script \/ task \in {"ROUTE", "DATA_MAPPING", "HTTP"}
       IN  port' = IF p \notin DOMAIN port THEN port
                   ELSE [port EXCEPT ![p].text = FALSE, ![p].script = script]
    /\ Leave(q)
    /\ UNCHANGED <<path, node, link, deleted>>

\* The links of the port stay.
PortDelete(q) ==
    /\ Calls(q, "port.delete")
    /\ LET p == dto[q].id
       IN  /\ port' = [x \in DOMAIN port \ {p} |-> port[x]]
           /\ deleted' = deleted \cup (DOMAIN port \cap {p})
    /\ Leave(q)
    /\ UNCHANGED <<path, node, link>>

-----------------------------------------------------------------------------
(* LinkService.  The link and its nodes are looked up first; neither changes *)
(* while the handler goes on to the ports.                                   *)

LinkOf(d) == [project |-> d.project, source |-> d.source,
              sourcePort |-> d.sourcePort, target |-> d.target,
              targetPort |-> d.targetPort]

\* The same ports and nodes, in whatever project.
SameLinks(d) ==
    {l \in DOMAIN link : [link[l] EXCEPT !.project = d.project] = LinkOf(d)}

LinkFind(q) ==
    /\ Calls(q, "link.add")
    /\ IF SameLinks(dto[q]) = {} THEN Await(q, "link.nodes", None) ELSE Leave(q)
    /\ UNCHANGED <<tables, deleted>>

LinkNodes(q) ==
    /\ Calls(q, "link.nodes")
    /\ IF {dto[q].source, dto[q].target} \subseteq DOMAIN node
       THEN Await(q, "link.ports", None) ELSE Leave(q)
    /\ UNCHANGED <<tables, deleted>>

LinkPorts(q) ==
    /\ Calls(q, "link.ports")
    /\ IF {dto[q].sourcePort, dto[q].targetPort} \subseteq DOMAIN port
       THEN Await(q, "link.source", None) ELSE Leave(q)
    /\ UNCHANGED <<tables, deleted>>

\* The ports are read once more, one by one.  A port that is gone is noticed by
\* prismaToVsPort when both have been read.
Found(p) == IF p \in DOMAIN port THEN port[p] ELSE None

LinkSource(q) ==
    /\ Calls(q, "link.source")
    /\ Await(q, "link.target", Found(dto[q].sourcePort))
    /\ UNCHANGED <<tables, deleted>>

\* Variant: only the type of the target port is looked at.
IsValidTarget(d, source, target) ==
    /\ {source, target} \cap {None} = {}
    /\ target.type = "INPUT_PORT"

IsValid(d, source, target) ==
    /\ {source, target} \cap {None} = {}
    /\ ValidPort(node[d.source].up, node[d.target].up, source.type, target.type)

LinkTarget(q) ==
    /\ Calls(q, "link.target")
    /\ IF IsValid(dto[q], seen[q], Found(dto[q].targetPort))
       THEN Await(q, "link.create", None) ELSE Leave(q)
    /\ UNCHANGED <<tables, deleted>>

\* Variant: sourcePort is not unique.
LinkCreateById(q) ==
    /\ Calls(q, "link.create")
    /\ LET d == dto[q]
       IN  IF d.id \in DOMAIN link THEN UNCHANGED link
           ELSE link' = [l \in DOMAIN link \cup {d.id} |->
                           IF l = d.id THEN LinkOf(d) ELSE link[l]]
    /\ Leave(q)
    /\ UNCHANGED <<path, node, port, deleted>>

\* id and sourcePort are unique.
LinkCreate(q) ==
    /\ Calls(q, "link.create")
    /\ LET d == dto[q]
       IN  IF \/ d.id \in DOMAIN link
              \/ \E l \in DOMAIN link : link[l].sourcePort = d.sourcePort
           THEN UNCHANGED link
           ELSE link' = [l \in DOMAIN link \cup {d.id} |->
                           IF l = d.id THEN LinkOf(d) ELSE link[l]]
    /\ Leave(q)
    /\ UNCHANGED <<path, node, port, deleted>>

\* What goes wrong is logged; the answer is a success.
LinkDeleteFind(q) ==
    /\ Calls(q, "link.delete")
    /\ IF dto[q].id \in DOMAIN link THEN Await(q, "link.remove", None) ELSE Leave(q)
    /\ UNCHANGED <<tables, deleted>>

LinkRemove(q) ==
    /\ Calls(q, "link.remove")
    /\ link' = [l \in DOMAIN link \ {dto[q].id} |-> link[l]]
    /\ Leave(q)
    /\ UNCHANGED <<path, node, port, deleted>>

-----------------------------------------------------------------------------
NodeStep(q) == NodeFind(q) \/ NodeCreate(q) \/ NodePorts(q) \/ NodeUpdate(q)

PortStep(q) ==
    \/ PortInputs(q) \/ PortOwner(q) \/ PortOutputs(q) \/ PortCreate(q)
    \/ ModifyFind(q) \/ ModifyScript(q) \/ ModifyPath(q) \/ ModifyProject(q)
    \/ ModifyUpdate(q) \/ PortDelete(q)

LinkStep(q) ==
    \/ LinkFind(q) \/ LinkNodes(q) \/ LinkPorts(q) \/ LinkSource(q)
    \/ LinkTarget(q) \/ LinkCreate(q) \/ LinkDeleteFind(q) \/ LinkRemove(q)

Next ==
    \E q \in Requests :
        \/ \E d \in Dtos : Begin(q, d)
        \/ NodeStep(q)
        \/ PortStep(q)
        \/ LinkStep(q)

Spec == Init /\ [][Next]_vars

-----------------------------------------------------------------------------
(* NodeService.list, what it makes of the tables of project j.  A project it *)
(* fails for cannot be edited on: the editor loads its layers with it.       *)

NodesIn(j) == {n \in DOMAIN node : node[n].project = j}
LinksIn(j) == {l \in DOMAIN link : link[l].project = j}
NodesOf(j) == [n \in NodesIn(j) |-> node[n]]
LinksOf(j) == [l \in LinksIn(j) |-> link[l]]
PortsAt(n) == {p \in DOMAIN port : port[p].node = n}

\* JSON.parse takes the properties of the ports of a composite, of the nodes in
\* it and of their ports, and throws when they are not text.
IsParsed(c) ==
    /\ PortsAt(c) # {}
    /\ \A p \in PortsAt(c) : port[p].text
    /\ \A n \in NodesIn(node[c].project) :
        node[n].up = c => node[n].text /\ \A p \in PortsAt(n) : port[p].text

Listed(j) ==
    /\ \A l \in LinksIn(j) : {link[l].source, link[l].target} \subseteq NodesIn(j)
    /\ \A c \in UpLayerComposites(NodesOf(j)) : IsParsed(c)

-----------------------------------------------------------------------------
(* Properties. *)

Steps == {"idle", "node.create", "node.ports", "port.inputs", "port.owner",
          "port.outputs", "port.create", "port.script", "port.path",
          "port.project", "port.update", "link.nodes", "link.ports",
          "link.source", "link.target", "link.create", "link.remove"}
             \cup (Ops \ {"port.add"})

\* Rows are never broken: every port belongs to a node, and a link names two
\* nodes there are.  A request in a slot has a body, and only then.
TypeOK ==
    /\ path \in [Project -> Paths \cup {None}]
    /\ node \in [DOMAIN node -> NodeRow]
    /\ port \in [DOMAIN port -> PortRow]
    /\ \A p \in DOMAIN port : port[p].node \in DOMAIN node
    /\ link \in [DOMAIN link -> LinkRow]
    /\ \A l \in DOMAIN link :
        /\ {link[l].source, link[l].target} \subseteq DOMAIN node
        /\ \A k \in DOMAIN link : link[k].sourcePort = link[l].sourcePort => k = l
    /\ at \in [Requests -> Steps]
    /\ dto \in [Requests -> Dtos \cup {None}]
    /\ \A q \in Requests : dto[q] = None <=> at[q] = "idle"

\* A project gets no more start nodes than requests can overlap: the check and
\* the creation are two statements, so the "one start node" of the message does
\* not hold, but a start node that is there stops all that come later.
StartNodesBounded ==
    \A j \in Project : Cardinality(ContextNodes(j)) <= Cardinality(Requests)

\* The ports of a link are of the types that validPort wants between its nodes,
\* though they are read in four statements before the link is written; unless
\* a port has been deleted, and then it need not even be there.
LinksFit ==
    \A l \in DOMAIN link :
        LET p == link[l].sourcePort
            q == link[l].targetPort
        IN  {p, q} \cap deleted = {} =>
                /\ {p, q} \subseteq DOMAIN port
                /\ ValidPort(node[link[l].source].up, node[link[l].target].up,
                             port[p].type, port[q].type)

\* The nodes of the project are in the first layer or in a composite of it.
IsNested(j) ==
    \A n \in NodesIn(j) : node[n].up \in {Top} \cup UpLayerComposites(NodesOf(j))

Holds(c, n) == node[n].up = c /\ node[c].up = Top

\* The two nodes of link l are in one layer, or one of them is the composite
\* that the other is in.
IsNear(l) ==
    LET m == link[l].source
        n == link[l].target
    IN  node[m].up = node[n].up \/ Holds(m, n) \/ Holds(n, m)

\* When a project can be listed, each link is shown in one layer and no other,
\* except that validPort also lets through what joins two composites inside:
\* such a link is shown nowhere, and nobody can select it to delete it.
LinksShownOnce ==
    \A j \in Project :
        Listed(j) /\ IsNested(j) =>
            \A l \in LinksIn(j) :
                Cardinality(ShownIn(NodesOf(j), LinksOf(j), l)) =
                    IF IsNear(l) THEN 1 ELSE 0
=============================================================================
