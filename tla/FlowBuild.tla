----------------------------- MODULE FlowBuild -----------------------------
(***************************************************************************)
(* From the rows of a project to a flow that can run.  vs-adapter compiles *)
(* the rows, ProjectService.getUpdateRecord; vs-run builds the flow from   *)
(* them when a request comes, slowGetProjectAndUpdateCache.  Both first    *)
(* follow every link through the composite nodes to the atomic node it     *)
(* leads to, FlowNodeUtil.getActualLinks.                                  *)
(*                                                                         *)
(* Both read the rows and then work on what they have read, so no edit     *)
(* comes between the steps of a job here.  (vs-run reads them by three     *)
(* queries; what an edit between those does is a matter of                 *)
(* ProjectFlowCache.)  The nodes of the project are given; links are added *)
(* and ports deleted between the jobs.                                     *)
(***************************************************************************)
EXTENDS FlowData

CONSTANTS
    Node,           \* t_vs_node of the project
    Port,           \* t_vs_port before any edit
    LinkRequests,   \* requests to add a link
    Deletable,      \* ports that may be deleted
    ClassChoices,   \* the nodes that may have class bytes, each a set
    MaxHops,        \* 90000 in the code
    MaxDeletes,     \* bound: ports that are deleted
    None            \* no link is being followed

ASSUME RowAssumption ==
    /\ \A n \in DOMAIN Node : Node[n].view \in ViewTypes
    /\ \A p \in DOMAIN Port : /\ Port[p].node \in DOMAIN Node
                              /\ Port[p].type \in PortTypes
                              /\ Port[p].empty \in BOOLEAN
    /\ Top \notin DOMAIN Node
    /\ IsFiniteSet(DOMAIN Port)

ASSUME RequestAssumption ==
    \A r \in LinkRequests : DOMAIN r = {"source", "sourcePort", "target",
                                        "targetPort"}

ASSUME BoundAssumption ==
    /\ MaxHops \in Nat
    /\ MaxDeletes \in Nat
    /\ None \notin [link : DOMAIN Port, port : DOMAIN Port, hops : Nat]

VARIABLES
    port,       \* t_vs_port
    link,       \* t_vs_link, by source port
    classBytes, \* the nodes that have class bytes
    job,        \* what runs: "edit" (nothing), "compile" or "load"
    todo,       \* links that getActualLinks has still to follow
    at,         \* the link it follows, the port it has come to, after how many
                \* hops; None between two links
    actual,     \* actualLinks, by source port
    compiled,   \* outcome of the last compilation of these rows
    loaded      \* outcome of the last load of these rows since then

rows == <<port, link>>
trace == <<todo, at, actual>>
vars == <<port, link, classBytes, job, todo, at, actual, compiled, loaded>>

Outcomes == {"none", "ok", "failed"}

Init ==
    /\ port = Port
    /\ link = [p \in {} |-> None]
    /\ classBytes \in ClassChoices
    /\ job = "edit"
    /\ todo = {}
    /\ at = None
    /\ actual = [p \in {} |-> None]
    /\ compiled = "none"
    /\ loaded = "none"

-----------------------------------------------------------------------------
(* Editing. *)

\* The outcomes so far are those of other rows.
Forget ==
    /\ compiled' = "none"
    /\ loaded' = "none"
    /\ actual' = [p \in {} |-> None]
    /\ UNCHANGED <<classBytes, job, todo, at>>

\* The row of a request.  Nothing compares the nodes that a request names with
\* the nodes of its ports.
LinkOf(r) == [source |-> r.source, target |-> r.target,
              targetPort |-> r.targetPort]

\* LinkService.add, when it adds.
AddLink(r) ==
    /\ job = "edit"
    /\ r.source \in DOMAIN Node
    /\ r.target \in DOMAIN Node \ {r.source}
    /\ r.sourcePort \in DOMAIN port \ DOMAIN link
    /\ r.targetPort \in DOMAIN port
    /\ r.targetPort # r.sourcePort
    /\ ValidPort(Node[r.source].up, Node[r.target].up,
                 port[r.sourcePort].type, port[r.targetPort].type)
    /\ link' = [p \in DOMAIN link \cup {r.sourcePort} |->
                    IF p = r.sourcePort THEN LinkOf(r) ELSE link[p]]
    /\ UNCHANGED port
    /\ Forget

\* PortService.delete: the links of the port stay.
DeletePort(p) ==
    /\ job = "edit"
    /\ p \in Deletable \cap DOMAIN port
    /\ Cardinality(DOMAIN Port) - Cardinality(DOMAIN port) < MaxDeletes
    /\ port' = [q \in DOMAIN port \ {p} |-> port[q]]
    /\ UNCHANGED link
    /\ Forget

-----------------------------------------------------------------------------
(* getActualLinks. *)

\* Links that start at a composite node are not followed.
AtomicLinks == {p \in DOMAIN link : StartsAtAtomic(Node, link, p)}

\* A job begins.
Start(kind) ==
    /\ job = "edit"
    /\ job' = kind
    /\ todo' = AtomicLinks
    /\ at' = None
    /\ actual' = [p \in {} |-> None]
    /\ compiled' = IF kind = "compile" THEN "none" ELSE compiled
    /\ loaded' = "none"
    /\ UNCHANGED <<rows, classBytes>>

\* Variant: the loop is left after its first link.
FollowOnce ==
    /\ job # "edit"
    /\ at = None
    /\ todo # {}
    /\ LET p == CHOOSE p \in todo : TRUE
       IN  at' = [link |-> p, port |-> link[p].targetPort, hops |-> 0]
    /\ todo' = {}
    /\ UNCHANGED <<rows, classBytes, job, actual, compiled, loaded>>

\* The next link, whichever.
Follow ==
    /\ job # "edit"
    /\ at = None
    /\ todo # {}
    /\ LET p == CHOOSE p \in todo : TRUE
       IN  /\ at' = [link |-> p, port |-> link[p].targetPort, hops |-> 0]
           /\ todo' = todo \ {p}
    /\ UNCHANGED <<rows, classBytes, job, actual, compiled, loaded>>

AtPort == at # None /\ at.hops <= MaxHops /\ at.port \in DOMAIN port
AtAtomic == Node[port[at.port].node].view = "ATOMIC"

\* Variant: hops are not counted.
HopUncounted ==
    /\ AtPort
    /\ ~AtAtomic
    /\ at.port \in DOMAIN link
    /\ at' = [at EXCEPT !.port = link[at.port].targetPort]
    /\ UNCHANGED <<rows, classBytes, job, todo, actual, compiled, loaded>>

\* Through a composite node: on along the link that starts at the same port.
Hop ==
    /\ AtPort
    /\ ~AtAtomic
    /\ at.port \in DOMAIN link
    /\ at' = [at EXCEPT !.port = link[at.port].targetPort, !.hops = @ + 1]
    /\ UNCHANGED <<rows, classBytes, job, todo, actual, compiled, loaded>>

\* Variant: the actual link ends at the node of the row.
ReachedByRow == [source |-> link[at.link].source, target |-> link[at.link].target]

\* The actual link starts where the row says and ends at the owner of the port.
Reached == [source |-> link[at.link].source, target |-> port[at.port].node]

Reach ==
    /\ AtPort
    /\ AtAtomic
    /\ actual' = [p \in DOMAIN actual \cup {at.link} |->
                    IF p = at.link THEN Reached ELSE actual[p]]
    /\ at' = None
    /\ UNCHANGED <<rows, classBytes, job, todo, compiled, loaded>>

\* The port is gone, nothing is linked to it, or the path is too long.
IsLost ==
    /\ at # None
    /\ \/ at.hops > MaxHops
       \/ at.port \notin DOMAIN port
       \/ AtPort /\ ~AtAtomic /\ at.port \notin DOMAIN link

-----------------------------------------------------------------------------
(* The rest of the two jobs. *)

Traced == todo = {} /\ at = None

\* makeNodeTaskScript: a task script for every valid node.
IsScripted(flow) ==
    /\ HasNodeIds(Node, flow)
    /\ \A n \in ValidNodes(flow) : HasTaskScript(Node, port, flow, n)

\* Variant: every atomic node needs class bytes, linked or not.
IsLoadableWhole ==
    /\ HasNodeIds(Node, actual)
    /\ ActualNodes(Node) \subseteq classBytes
    /\ BreakersFit(Node, port)

\* The checks of slowGetProjectAndUpdateCache.
IsLoadable ==
    /\ HasNodeIds(Node, actual)
    /\ ValidNodes(actual) \subseteq ActualNodes(Node) \cap classBytes
    /\ BreakersFit(Node, port)

Conclude(outcome) ==
    /\ job' = "edit"
    /\ todo' = {}
    /\ at' = None
    /\ \/ job = "compile" /\ compiled' = outcome /\ UNCHANGED loaded
       \/ job = "load" /\ loaded' = outcome /\ UNCHANGED compiled
    /\ UNCHANGED <<rows, classBytes, actual>>

\* getUpdateRecord returns.  The promise of compileNodeTaskScript is not
\* awaited and has no entries, so the record is empty: whatever the scripts are,
\* executeCompileTask will write no class bytes.
Compile ==
    /\ job = "compile"
    /\ Traced
    /\ IsScripted(actual)
    /\ Conclude("ok")

\* The flow goes to the cache.
Load ==
    /\ job = "load"
    /\ Traced
    /\ IsLoadable
    /\ Conclude("ok")

Throw ==
    /\ \/ job = "compile" /\ Traced /\ ~IsScripted(actual)
       \/ job = "load" /\ Traced /\ ~IsLoadable
       \/ job # "edit" /\ IsLost
    /\ Conclude("failed")

Work == Follow \/ Hop \/ Reach \/ Compile \/ Load \/ Throw

Next ==
    \/ \E r \in LinkRequests : AddLink(r)
    \/ \E p \in Deletable : DeletePort(p)
    \/ Start("compile")
    \/ Start("load")
    \/ Work

Spec == Init /\ [][Next]_vars

\* A job is synchronous code: once started it goes on.
FairSpec == Spec /\ WF_vars(Work)

-----------------------------------------------------------------------------
(* Properties. *)

LinkRows == [source : DOMAIN Node, target : DOMAIN Node,
             targetPort : DOMAIN Port]

\* Ports only disappear; every link starts at a port of the project and joins
\* two of its nodes, as LinkService.validPort wants for the types of the ports.
TypeOK ==
    /\ DOMAIN port \subseteq DOMAIN Port
    /\ \A p \in DOMAIN port : port[p] = Port[p]
    /\ DOMAIN link \subseteq DOMAIN Port
    /\ \A p \in DOMAIN link :
        /\ link[p] \in LinkRows
        /\ ValidPort(Node[link[p].source].up, Node[link[p].target].up,
                     Port[p].type, Port[link[p].targetPort].type)
    /\ classBytes \in ClassChoices
    /\ job \in {"edit", "compile", "load"}
    /\ todo \subseteq DOMAIN link
    /\ \/ at = None
       \/ at \in [link : DOMAIN link, port : DOMAIN Port, hops : 0 .. MaxHops + 1]
    /\ job = "edit" => todo = {} /\ at = None
    /\ DOMAIN actual \subseteq DOMAIN link
    /\ actual \in [DOMAIN actual -> [source : DOMAIN Node,
                                    target : ActualNodes(Node)]]
    /\ {compiled, loaded} \subseteq Outcomes

\* The nodes a link names are those its ports belong to, as the editor draws it.
OwnPorts ==
    \A p \in DOMAIN link : /\ link[p].source = Port[p].node
                           /\ link[p].target = Port[link[p].targetPort].node

\* How many composite ports can still lie ahead of port p.
Ahead(p) ==
    IF Port[p].type = "OUTPUT_PORT" THEN 2
    ELSE IF Node[Port[p].node].up = Top THEN 1 ELSE 0

\* getActualLinks allows 90000 hops because links may form a cycle.  As long as
\* links name the owners of their ports, validPort alone makes every path
\* leave the composites after two hops at most: out of one, into the next.
HopsAreFew == OwnPorts /\ at # None => at.hops + Ahead(at.port) <= 2

\* The ports a link passes on its way, found without counting: the ports that
\* come up when composite ports are followed from targetPort for as long as
\* there are ports.
PassedBy(p) ==
    LET Onward(ports) ==
            {link[q].targetPort :
                q \in {x \in ports \cap DOMAIN link :
                        Node[Port[x].node].view = "COMPOSITE"}}
        passed[i \in 0 .. Cardinality(DOMAIN Port)] ==
            IF i = 0 THEN {link[p].targetPort}
            ELSE LET ports == passed[i - 1] IN ports \cup Onward(ports)
    IN  passed[Cardinality(DOMAIN Port)]

\* An actual link leads where the drawn links lead: its target owns the one
\* port on the way that belongs to an atomic node.  When all links are done,
\* no link from an atomic node is missing.
ActualLinksAreReachable ==
    /\ \A p \in DOMAIN actual :
        /\ actual[p].source = link[p].source
        /\ {Port[q].node : q \in PassedBy(p)} \cap ActualNodes(Node)
                = {actual[p].target}
    /\ job # "edit" =>
        AtomicLinks =
            DOMAIN actual \cup todo \cup (IF at = None THEN {} ELSE {at.link})

\* processFlow finds its way from n: an end node has no children at all, and
\* whatever port of a route holds, the node it activates is a child.
Walkable(n) ==
    LET children == RtChildren(Node, actual)[n]
    IN  \/ n \in EndNodes(Node, actual)
        \/ /\ children # {}
           /\ Node[n].task = "ROUTE" =>
                \A p \in OutputPortsOf(Node, port, n) :
                    p \in DOMAIN actual /\ actual[p].target \in children

\* What getUpdateRecord has let pass can be walked, if vs-run takes it: every
\* node with links is an atomic node that processFlow can leave or end at, and
\* there is one to begin.
CompiledFlowIsSound ==
    job = "edit" /\ compiled = "ok" /\ loaded # "failed" =>
        /\ Cardinality(StartNodes(Node, actual)) = 1
        /\ \A n \in ValidNodes(actual) : n \in ActualNodes(Node) /\ Walkable(n)

\* What vs-adapter has compiled, vs-run can load: the two checks of the same rows
\* agree.  Two things apart: a valid node without class bytes (a compilation
\* writes none), and an HTTP node with an output port that has properties.
CompiledFlowLoads ==
    job = "edit" /\ compiled = "ok" /\ loaded = "failed" =>
        \/ ~(ValidNodes(actual) \subseteq classBytes)
        \/ ~BreakersFit(Node, port)

\* Every job ends, cyclic links or not.
BuildEnds == job # "edit" ~> job = "edit"
=============================================================================
