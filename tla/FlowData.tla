------------------------------ MODULE FlowData ------------------------------
(***************************************************************************)
(* The rows of a project and what the program computes from them: tables   *)
(* t_vs_node, t_vs_port and t_vs_link of prisma/schema.prisma, the check   *)
(* of LinkService, the layers NodeService.list shows, and the parts of     *)
(* FlowNodeUtil that have no state.                                        *)
(*                                                                         *)
(* A table is a function from its keys to its rows.                        *)
(***************************************************************************)
EXTENDS Naturals, FiniteSets

TaskTypes == {"CONTEXT", "ROUTE", "END", "HTTP", "CONVERT", "DATA_MAPPING",
              "COMPOSITE_NORMAL", "COMPOSITE_END"}
ViewTypes == {"ATOMIC", "COMPOSITE"}
PortTypes == {"INPUT_PORT", "OUTPUT_PORT"}

\* upLevelNodeId of the nodes of the first layer.
Top == "-1"

-----------------------------------------------------------------------------
(* LinkService.validPort: u and v are upLevelNodeId of the two nodes, t and *)
(* w the types of the two ports.                                            *)

SameLayer(u, v) == (u = Top) = (v = Top)

\* Variant: the type of the source port is not looked at between nodes of one
\* layer.
AnySourcePort(u, v, t, w) ==
    \/ SameLayer(u, v) /\ w = "INPUT_PORT"
    \/ u = Top /\ v # Top /\ t = "INPUT_PORT" /\ w = "INPUT_PORT"
    \/ u # Top /\ v = Top /\ t = "OUTPUT_PORT" /\ w = "OUTPUT_PORT"

ValidPort(u, v, t, w) ==
    \/ SameLayer(u, v) /\ t = "OUTPUT_PORT" /\ w = "INPUT_PORT"
    \/ u = Top /\ v # Top /\ t = "INPUT_PORT" /\ w = "INPUT_PORT"
    \/ u # Top /\ v = Top /\ t = "OUTPUT_PORT" /\ w = "OUTPUT_PORT"

-----------------------------------------------------------------------------
(* NodeService.list: the links of the first layer, and those of the second *)
(* layer of composite c.                                                   *)

UpLayerLinks(node, link) ==
    {p \in DOMAIN link : /\ node[link[p].source].up = Top
                         /\ node[link[p].target].up = Top}

\* Variant: where the other node is does not matter to a link of the composite.
AnyDownLayerLinks(node, link, c) ==
    {p \in DOMAIN link :
        LET source == link[p].source
            target == link[p].target
        IN  \/ node[source].up = c /\ node[target].up = c
            \/ target = c
            \/ source = c}

DownLayerLinks(node, link, c) ==
    {p \in DOMAIN link :
        LET source == link[p].source
            target == link[p].target
        IN  \/ node[source].up = c /\ node[target].up = c
            \/ node[source].up = c /\ target = c
            \/ source = c /\ node[target].up = c}

\* The composites that get a routeDefinition.
UpLayerComposites(node) ==
    {n \in DOMAIN node : node[n].view = "COMPOSITE" /\ node[n].up = Top}

\* The layers link p is shown in.
ShownIn(node, link, p) ==
    {Top : q \in UpLayerLinks(node, link) \cap {p}}
        \cup {c \in UpLayerComposites(node) : p \in DownLayerLinks(node, link, c)}

-----------------------------------------------------------------------------
(* FlowNodeUtil, on the whole tables. *)

\* getActualNodes.
ActualNodes(node) == {n \in DOMAIN node : node[n].view = "ATOMIC"}

\* getActualOutputPorts: the input port of an END node counts as an output.
ActualOutputPorts(node, port) ==
    {p \in DOMAIN port :
        LET owner == node[port[p].node]
        IN  \/ port[p].type = "OUTPUT_PORT" /\ owner.view = "ATOMIC"
            \/ port[p].type = "INPUT_PORT" /\ owner.task = "END"}

\* getActualLinks skips a link that starts at a composite node.
StartsAtAtomic(node, link, p) == node[link[p].source].view # "COMPOSITE"

-----------------------------------------------------------------------------
(* FlowNodeUtil, on the actual links: a function from the source port of a *)
(* link to its source and target node.                                     *)

\* getNodeIdsMap, ALL_VALID_NODE_ID.
ValidNodes(actual) ==
    {actual[p].source : p \in DOMAIN actual} \cup
    {actual[p].target : p \in DOMAIN actual}

LinksFrom(actual, n) == {p \in DOMAIN actual : actual[p].source = n}
LinksTo(actual, n) == {p \in DOMAIN actual : actual[p].target = n}

Successors(actual, n) == {actual[p].target : p \in LinksFrom(actual, n)}

\* getStartNodeId.
StartNodes(node, actual) ==
    {n \in ValidNodes(actual) : /\ LinksTo(actual, n) = {}
                                /\ node[n].task = "CONTEXT"}

\* getEndNodeIds.
EndNodes(node, actual) ==
    {n \in ValidNodes(actual) : /\ LinksFrom(actual, n) = {}
                                /\ node[n].task = "END"}

\* getNodeIdsMap throws unless there is one start and some end.
HasNodeIds(node, actual) ==
    /\ \E n \in StartNodes(node, actual) : StartNodes(node, actual) = {n}
    /\ EndNodes(node, actual) # {}

OutputPortsOf(node, port, n) ==
    {p \in ActualOutputPorts(node, port) : port[p].node = n}

\* validateEndNodePorts, and the check makeNodeTaskScripWhenSingleOutput has
\* of its own.
HasOnePort(ports) == \E p \in ports : ports = {p}

\* Variant: a port need not be linked.
RouteIsScripted(port, actual, n, ports) == \A p \in ports : port[p].script

\* makeNodeTaskScriptWhenMultiOutput: each port has a script and a link of the
\* node.
RouteIsWired(port, actual, n, ports) ==
    \A p \in ports : port[p].script /\ p \in LinksFrom(actual, n)

\* One turn of the loop of makeNodeTaskScript; no template is empty, so
\* validateNodeTaskScript always passes.
HasTaskScript(node, port, actual, n) ==
    LET ports == OutputPortsOf(node, port, n)
    IN  /\ n \in ActualNodes(node)
        /\ \/ /\ LinksFrom(actual, n) = {}
              /\ node[n].task = "END"
              /\ HasOnePort(ports)
           \/ /\ LinksFrom(actual, n) # {}
              /\ node[n].task # "ROUTE"
              /\ HasOnePort(ports)
           \/ /\ LinksFrom(actual, n) # {}
              /\ node[n].task = "ROUTE"
              /\ ports # {}
              /\ RouteIsWired(port, actual, n, ports)

\* VsProjectService.getCircuitBreakerMap skips an HTTP node, linked or not, that
\* has no output port, or one whose properties are empty.  Several are an error,
\* and so is one with properties: they are read with a jacksonUtil that the
\* service does not have.
BreakersFit(node, port) ==
    \A p \in DOMAIN port :
        port[p].type = "OUTPUT_PORT" /\ node[port[p].node].task = "HTTP" =>
            /\ port[p].empty
            /\ \A q \in DOMAIN port :
                port[q].type = "OUTPUT_PORT" /\ port[q].node = port[p].node => q = p

\* makeRtFlow: the child nodes of each task; those of an end node are null,
\* which FlowNodeUtil.processFlow does not tell from none.
RtChildren(node, actual) ==
    [n \in ValidNodes(actual) |->
        IF n \in EndNodes(node, actual) THEN {} ELSE Successors(actual, n)]
=============================================================================
