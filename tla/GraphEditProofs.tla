-------------------------- MODULE GraphEditProofs --------------------------
(***************************************************************************)
(* Theorems about GraphEdit for all tables, requests and slots, with their *)
(* proofs.                                                                 *)
(***************************************************************************)
EXTENDS GraphEdit, FiniteSetTheorems, TLAPS

-----------------------------------------------------------------------------
(* The invariant.  What a handler has found out before its last await holds  *)
(* on, because nodes stay, a node keeps its layer and task, and a port keeps *)
(* its node and type until it is deleted.                                    *)

NodeSteps == {"node.add", "node.create", "node.ports"}
AddSteps == {"port.inputs", "port.owner", "port.outputs", "port.create"}
SeenSteps == {"port.script", "port.path", "port.project", "port.update"}
NodesFound == {"link.ports", "link.source", "link.target", "link.create"}

\* The body is one for the step.
BodyFits(step, d) ==
    /\ step \in NodeSteps => d \in NodeAdds
    /\ step \in AddSteps => d \in PortAdds
    /\ step \in SeenSteps \cup {"port.modify"} => d \in PortWrites
    /\ step \in NodesFound \cup {"link.add", "link.nodes"} => d \in LinkAdds

\* The nodes that are to be there are there.
NodesAreThere(step, d, row) ==
    /\ step = "node.ports" => d.id \in DOMAIN node
    /\ step \in {"port.outputs", "port.create"} => d.node \in DOMAIN node
    /\ step \in SeenSteps => row.node \in DOMAIN node
    /\ step \in NodesFound => {d.source, d.target} \subseteq DOMAIN node
    /\ step \in {"port.path", "port.project"} => d.path \in Paths

\* Port p has type type, if it has not been deleted.
StillIs(p, type) == p \in deleted \/ (p \in DOMAIN port /\ port[p].type = type)

\* What LinkService.add has read of the two ports.
PortsAreRead(step, d, row) ==
    /\ step = "link.target" => row = None \/ StillIs(d.sourcePort, row.type)
    /\ step = "link.create" =>
        \E t, w \in PortTypes :
            /\ StillIs(d.sourcePort, t)
            /\ StillIs(d.targetPort, w)
            /\ ValidPort(node[d.source].up, node[d.target].up, t, w)

CallOK(q) ==
    /\ BodyFits(at[q], dto[q])
    /\ NodesAreThere(at[q], dto[q], seen[q])
    /\ PortsAreRead(at[q], dto[q], seen[q])

CallsOK == DOMAIN seen = Requests /\ \A q \in Requests : CallOK(q)

IInv == TypeOK /\ CallsOK /\ LinksFit

\* The two halves of TypeOK.
TablesOK ==
    /\ path \in [Project -> Paths \cup {None}]
    /\ node \in [DOMAIN node -> NodeRow]
    /\ port \in [DOMAIN port -> PortRow]
    /\ \A p \in DOMAIN port : port[p].node \in DOMAIN node
    /\ link \in [DOMAIN link -> LinkRow]
    /\ \A l \in DOMAIN link :
        /\ {link[l].source, link[l].target} \subseteq DOMAIN node
        /\ \A k \in DOMAIN link : link[k].sourcePort = link[l].sourcePort => k = l

SlotsOK ==
    /\ at \in [Requests -> Steps]
    /\ dto \in [Requests -> Dtos \cup {None}]
    /\ \A q \in Requests : dto[q] = None <=> at[q] = "idle"

LEMMA TypeParts == TypeOK <=> TablesOK /\ SlotsOK
BY DEF TypeOK, TablesOK, SlotsOK

-----------------------------------------------------------------------------
(* What every step leaves as it is. *)

NodesKeep ==
    /\ DOMAIN node \subseteq DOMAIN node'
    /\ \A n \in DOMAIN node : /\ node'[n].up = node[n].up
                              /\ node'[n].task = node[n].task
                              /\ node'[n].project = node[n].project

PortsKeep ==
    /\ deleted \subseteq deleted'
    /\ \A p \in DOMAIN port :
        \/ p \in deleted'
        \/ p \in DOMAIN port' /\ port'[p].type = port[p].type

Others(q) == \A r \in Requests \ {q} : /\ at'[r] = at[r]
                                       /\ dto'[r] = dto[r]
                                       /\ seen'[r] = seen[r]

LEMMA StillIsKeep ==
    ASSUME PortsKeep, NEW p, NEW type, StillIs(p, type)
    PROVE  StillIs(p, type)'
BY DEF PortsKeep, StillIs

\* A request in another slot goes on as it could before.
LEMMA CallKeep ==
    ASSUME NodesKeep, PortsKeep, NEW r \in Requests, CallOK(r),
           at'[r] = at[r], dto'[r] = dto[r], seen'[r] = seen[r]
    PROVE  CallOK(r)'
<1>1. BodyFits(at[r], dto[r])'
  BY DEF CallOK, BodyFits
<1>2. NodesAreThere(at[r], dto[r], seen[r])'
  BY DEF CallOK, NodesAreThere, NodesKeep
<1>3. PortsAreRead(at[r], dto[r], seen[r])'
  <2>1. CASE at[r] = "link.target"
    BY <2>1, StillIsKeep DEF CallOK, PortsAreRead
  <2>2. CASE at[r] = "link.create"
    <3>1. PICK t, w \in PortTypes :
              /\ StillIs(dto[r].sourcePort, t)
              /\ StillIs(dto[r].targetPort, w)
              /\ ValidPort(node[dto[r].source].up, node[dto[r].target].up, t, w)
      BY <2>2 DEF CallOK, PortsAreRead
    <3>2. StillIs(dto[r].sourcePort, t)' /\ StillIs(dto[r].targetPort, w)'
      BY <3>1, StillIsKeep
    <3>3. {dto[r].source, dto[r].target} \subseteq DOMAIN node
      BY <2>2 DEF CallOK, NodesAreThere, NodesFound
    <3>4. ValidPort(node'[dto[r].source].up, node'[dto[r].target].up, t, w)
      BY <3>1, <3>3 DEF NodesKeep
    <3> QED
      BY <2>2, <3>2, <3>4 DEF PortsAreRead
  <2>3. CASE at[r] \notin {"link.target", "link.create"}
    BY <2>3 DEF PortsAreRead
  <2> QED
    BY <2>1, <2>2, <2>3
<1> QED
  BY <1>1, <1>2, <1>3 DEF CallOK

LEMMA LinksFitKeep ==
    ASSUME TypeOK, LinksFit, NodesKeep, PortsKeep, DOMAIN link' \subseteq DOMAIN link,
           \A l \in DOMAIN link' : link'[l] = link[l]
    PROVE  LinksFit'
<1> SUFFICES ASSUME NEW l \in DOMAIN link',
                    {link[l].sourcePort, link[l].targetPort} \cap deleted' = {}
             PROVE  /\ {link[l].sourcePort, link[l].targetPort} \subseteq DOMAIN port'
                    /\ ValidPort(node'[link[l].source].up, node'[link[l].target].up,
                                 port'[link[l].sourcePort].type,
                                 port'[link[l].targetPort].type)
  BY DEF LinksFit
<1> DEFINE p == link[l].sourcePort
           r == link[l].targetPort
<1>1. /\ {p, r} \subseteq DOMAIN port
      /\ ValidPort(node[link[l].source].up, node[link[l].target].up,
                   port[p].type, port[r].type)
  BY DEF LinksFit, PortsKeep
<1>2. /\ {p, r} \subseteq DOMAIN port'
      /\ port'[p].type = port[p].type /\ port'[r].type = port[r].type
  BY <1>1 DEF PortsKeep
<1>3. /\ node'[link[l].source].up = node[link[l].source].up
      /\ node'[link[l].target].up = node[link[l].target].up
  BY DEF NodesKeep, TypeOK
<1> QED
  BY <1>1, <1>2, <1>3

LEMMA LeaveStep ==
    ASSUME IInv, NEW q \in Requests, Leave(q),
           TablesOK', NodesKeep, PortsKeep, LinksFit'
    PROVE  IInv'
<1>1. /\ at' \in [Requests -> Steps] /\ at'[q] = "idle"
      /\ dto' \in [Requests -> Dtos \cup {None}] /\ dto'[q] = None
      /\ DOMAIN seen' = Requests
      /\ Others(q)
  BY DEF IInv, TypeOK, CallsOK, Leave, Others, Steps
<1>2. SlotsOK'
  <2>1. SlotsOK
    BY TypeParts DEF IInv
  <2>2. \A r \in Requests : dto'[r] = None <=> at'[r] = "idle"
    BY <1>1, <2>1 DEF SlotsOK, Others
  <2> QED
    BY <1>1, <2>2 DEF SlotsOK
<1>3. CallOK(q)'
  BY <1>1 DEF CallOK, BodyFits, NodesAreThere, PortsAreRead, NodeSteps, AddSteps,
              SeenSteps, NodesFound
<1>4. ASSUME NEW r \in Requests \ {q}
      PROVE  CallOK(r)'
  BY <1>1, <1>4, CallKeep DEF IInv, CallsOK, Others
<1>5. TypeOK'
  BY <1>2 DEF TypeOK, TablesOK, SlotsOK
<1> QED
  BY <1>1, <1>3, <1>4, <1>5 DEF IInv, CallsOK

LEMMA AwaitStep ==
    ASSUME IInv, NEW q \in Requests, at[q] # "idle",
           NEW step \in Steps \ {"idle"}, NEW read, Await(q, step, read),
           TablesOK', NodesKeep, PortsKeep, LinksFit',
           BodyFits(step, dto[q]),
           NodesAreThere(step, dto[q], read)',
           PortsAreRead(step, dto[q], read)'
    PROVE  IInv'
<1>1. /\ at' \in [Requests -> Steps] /\ at'[q] = step
      /\ dto' \in [Requests -> Dtos \cup {None}]
      /\ dto' = dto /\ seen'[q] = read /\ DOMAIN seen' = Requests
      /\ Others(q)
  BY DEF IInv, TypeOK, CallsOK, Await, Others
<1>2. SlotsOK'
  <2>1. SlotsOK
    BY TypeParts DEF IInv
  <2>2. \A r \in Requests : dto'[r] = None <=> at'[r] = "idle"
    BY <1>1, <2>1 DEF SlotsOK, Others
  <2> QED
    BY <1>1, <2>2 DEF SlotsOK
<1>3. CallOK(q)'
  BY <1>1 DEF CallOK, BodyFits, NodesAreThere, PortsAreRead
<1>4. ASSUME NEW r \in Requests \ {q}
      PROVE  CallOK(r)'
  BY <1>1, <1>4, CallKeep DEF IInv, CallsOK, Others
<1>5. TypeOK'
  BY <1>2 DEF TypeOK, TablesOK, SlotsOK
<1> QED
  BY <1>1, <1>3, <1>4, <1>5 DEF IInv, CallsOK

-----------------------------------------------------------------------------
(* Steps that only read. *)

LEMMA ReadFrame ==
    ASSUME IInv, UNCHANGED <<tables, deleted>>
    PROVE  /\ TablesOK' /\ NodesKeep /\ PortsKeep /\ LinksFit'
           /\ \A step, d, row :
                /\ NodesAreThere(step, d, row)' = NodesAreThere(step, d, row)
                /\ PortsAreRead(step, d, row)' = PortsAreRead(step, d, row)
<1>1. TablesOK
  BY TypeParts DEF IInv
<1>2. UNCHANGED <<path, node, port, link, deleted>>
  BY DEF tables
<1>3. TablesOK'
  BY <1>1, <1>2 DEF TablesOK
<1>4. NodesKeep /\ PortsKeep
  BY <1>2 DEF NodesKeep, PortsKeep
<1>5. LinksFit'
  BY <1>2 DEF IInv, LinksFit
<1> QED
  BY <1>2, <1>3, <1>4, <1>5 DEF NodesAreThere, PortsAreRead, StillIs

\* A step that only reads and goes on.
LEMMA ReadStep ==
    ASSUME IInv, NEW q \in Requests, at[q] # "idle", UNCHANGED <<tables, deleted>>,
           NEW step \in Steps \ {"idle"}, NEW read, Await(q, step, read),
           BodyFits(step, dto[q]), NodesAreThere(step, dto[q], read),
           PortsAreRead(step, dto[q], read)
    PROVE  IInv'
<1>1. dto'[q] = dto[q]
  BY DEF Await
<1>2. NodesAreThere(step, dto[q], read)' /\ PortsAreRead(step, dto[q], read)'
  BY <1>1, ReadFrame DEF NodesAreThere, PortsAreRead, tables, StillIs
<1> QED
  BY <1>2, ReadFrame, AwaitStep

\* A step that only reads and ends the request.
LEMMA ReadLeave ==
    ASSUME IInv, NEW q \in Requests, Leave(q), UNCHANGED <<tables, deleted>>
    PROVE  IInv'
BY ReadFrame, LeaveStep

LEMMA BeginStep ==
    ASSUME IInv, NEW q \in Requests, NEW d \in Dtos, Begin(q, d)
    PROVE  IInv'
<1>1. UNCHANGED <<tables, deleted, seen>> /\ at[q] = "idle"
  BY DEF Begin, Calls
<1>2. FirstStep(d) \in Steps \ {"idle"}
  BY DtoAssumption DEF FirstStep, Steps, Ops
<1>3. /\ at' \in [Requests -> Steps] /\ at'[q] = FirstStep(d)
      /\ dto' \in [Requests -> Dtos \cup {None}] /\ dto'[q] = d
      /\ Others(q)
  BY <1>1, <1>2 DEF Begin, IInv, TypeOK, Others
<1>4. SlotsOK'
  <2>1. SlotsOK /\ d # None
    BY TypeParts, DtoAssumption DEF IInv
  <2>2. \A r \in Requests : dto'[r] = None <=> at'[r] = "idle"
    BY <1>2, <1>3, <2>1 DEF SlotsOK, Others
  <2> QED
    BY <1>3, <2>2 DEF SlotsOK
<1>5. CallOK(q)'
  <2>1. BodyFits(FirstStep(d), d)
    BY DtoAssumption DEF FirstStep, BodyFits, NodeSteps, AddSteps, SeenSteps,
         NodesFound, NodeAdds, PortAdds, PortModifies, PortWrites, LinkAdds, Ops
  <2>2. FirstStep(d) \notin {"node.ports", "port.outputs", "port.create",
                            "link.create"} \cup SeenSteps \cup NodesFound
    BY DtoAssumption DEF FirstStep, SeenSteps, NodesFound, Ops
  <2> QED
    BY <1>3, <2>1, <2>2
       DEF CallOK, BodyFits, NodesAreThere, PortsAreRead, SeenSteps, NodesFound
<1>6. ASSUME NEW r \in Requests \ {q}
      PROVE  CallOK(r)'
  BY <1>1, <1>3, <1>6, ReadFrame, CallKeep DEF IInv, CallsOK, Others
<1>7. TablesOK' /\ LinksFit'
  BY <1>1, ReadFrame
<1>8. TypeOK'
  BY <1>4, <1>7 DEF TypeOK, TablesOK, SlotsOK
<1> QED
  BY <1>1, <1>5, <1>6, <1>7, <1>8 DEF IInv, CallsOK

\* What the invariant says of the request in slot q.
LEMMA AtCall ==
    ASSUME IInv, NEW q \in Requests
    PROVE  /\ TablesOK /\ LinksFit /\ DOMAIN seen = Requests
           /\ BodyFits(at[q], dto[q])
           /\ NodesAreThere(at[q], dto[q], seen[q])
           /\ PortsAreRead(at[q], dto[q], seen[q])
BY TypeParts DEF IInv, CallsOK, CallOK

LEMMA NodeFindStep ==
    ASSUME IInv, NEW q \in Requests, NodeFind(q)
    PROVE  IInv'
<1>1. at[q] = "node.add" /\ UNCHANGED <<tables, deleted>>
  BY DEF NodeFind, Calls
<1>2. CASE Await(q, "node.create", None)
  <2>1. /\ BodyFits("node.create", dto[q])
        /\ NodesAreThere("node.create", dto[q], None)
        /\ PortsAreRead("node.create", dto[q], None)
    BY <1>1, AtCall DEF BodyFits, NodesAreThere, PortsAreRead, NodeSteps, AddSteps,
                        SeenSteps, NodesFound
  <2> QED
    BY <1>1, <1>2, <2>1, ReadStep DEF Steps
<1>3. CASE Leave(q)
  BY <1>1, <1>3, ReadLeave
<1> QED
  BY <1>2, <1>3 DEF NodeFind

LEMMA PortInputsStep ==
    ASSUME IInv, NEW q \in Requests, PortInputs(q)
    PROVE  IInv'
<1>1. at[q] = "port.inputs" /\ UNCHANGED <<tables, deleted>>
  BY DEF PortInputs, Calls
<1>2. CASE Await(q, "port.owner", None)
  <2>1. /\ BodyFits("port.owner", dto[q])
        /\ NodesAreThere("port.owner", dto[q], None)
        /\ PortsAreRead("port.owner", dto[q], None)
    BY <1>1, <1>2, AtCall DEF BodyFits, NodesAreThere, PortsAreRead, NodeSteps, AddSteps,
                        SeenSteps, NodesFound
  <2> QED
    BY <1>1, <1>2, <2>1, ReadStep DEF Steps, Ops
<1>3. CASE Leave(q)
  BY <1>1, <1>3, ReadLeave
<1> QED
  BY <1>2, <1>3 DEF PortInputs

LEMMA PortOwnerStep ==
    ASSUME IInv, NEW q \in Requests, PortOwner(q)
    PROVE  IInv'
<1>1. at[q] = "port.owner" /\ UNCHANGED <<tables, deleted>>
  BY DEF PortOwner, Calls
<1>2. CASE Await(q, "port.outputs", None) /\ dto[q].node \in DOMAIN node
  <2>1. /\ BodyFits("port.outputs", dto[q])
        /\ NodesAreThere("port.outputs", dto[q], None)
        /\ PortsAreRead("port.outputs", dto[q], None)
    BY <1>1, <1>2, AtCall DEF BodyFits, NodesAreThere, PortsAreRead, NodeSteps, AddSteps,
                        SeenSteps, NodesFound
  <2> QED
    BY <1>1, <1>2, <2>1, ReadStep DEF Steps, Ops
<1>3. CASE Await(q, "port.create", None) /\ dto[q].node \in DOMAIN node
  <2>1. /\ BodyFits("port.create", dto[q])
        /\ NodesAreThere("port.create", dto[q], None)
        /\ PortsAreRead("port.create", dto[q], None)
    BY <1>1, <1>3, AtCall DEF BodyFits, NodesAreThere, PortsAreRead, NodeSteps, AddSteps,
                        SeenSteps, NodesFound
  <2> QED
    BY <1>1, <1>3, <2>1, ReadStep DEF Steps, Ops
<1>4. CASE Leave(q)
  BY <1>1, <1>4, ReadLeave
<1> QED
  BY <1>2, <1>3, <1>4 DEF PortOwner

LEMMA PortOutputsStep ==
    ASSUME IInv, NEW q \in Requests, PortOutputs(q)
    PROVE  IInv'
<1>1. at[q] = "port.outputs" /\ UNCHANGED <<tables, deleted>>
  BY DEF PortOutputs, Calls
<1>2. CASE Await(q, "port.create", None)
  <2>1. /\ BodyFits("port.create", dto[q])
        /\ NodesAreThere("port.create", dto[q], None)
        /\ PortsAreRead("port.create", dto[q], None)
    BY <1>1, <1>2, AtCall DEF BodyFits, NodesAreThere, PortsAreRead, NodeSteps, AddSteps,
                        SeenSteps, NodesFound
  <2> QED
    BY <1>1, <1>2, <2>1, ReadStep DEF Steps, Ops
<1>3. CASE Leave(q)
  BY <1>1, <1>3, ReadLeave
<1> QED
  BY <1>2, <1>3 DEF PortOutputs

LEMMA ModifyFindStep ==
    ASSUME IInv, NEW q \in Requests, ModifyFind(q)
    PROVE  IInv'
<1>1. at[q] = "port.modify" /\ UNCHANGED <<tables, deleted>>
  BY DEF ModifyFind, Calls
<1>2. CASE Await(q, "port.script", port[dto[q].id]) /\ dto[q].id \in DOMAIN port
  <2>1. /\ BodyFits("port.script", dto[q])
        /\ NodesAreThere("port.script", dto[q], port[dto[q].id])
        /\ PortsAreRead("port.script", dto[q], port[dto[q].id])
    BY <1>1, <1>2, AtCall DEF BodyFits, NodesAreThere, PortsAreRead, NodeSteps, AddSteps,
                        SeenSteps, NodesFound, TablesOK
  <2> QED
    BY <1>1, <1>2, <2>1, ReadStep DEF Steps, Ops
<1>3. CASE Leave(q)
  BY <1>1, <1>3, ReadLeave
<1> QED
  BY <1>2, <1>3 DEF ModifyFind

LEMMA ModifyScriptStep ==
    ASSUME IInv, NEW q \in Requests, ModifyScript(q)
    PROVE  IInv'
<1>1. at[q] = "port.script" /\ UNCHANGED <<tables, deleted>>
  BY DEF ModifyScript, Calls
<1>2. CASE Await(q, "port.path", seen[q]) /\ dto[q].path \in Paths
  <2>1. /\ BodyFits("port.path", dto[q])
        /\ NodesAreThere("port.path", dto[q], seen[q])
        /\ PortsAreRead("port.path", dto[q], seen[q])
    BY <1>1, <1>2, AtCall DEF BodyFits, NodesAreThere, PortsAreRead, NodeSteps, AddSteps,
                        SeenSteps, NodesFound
  <2> QED
    BY <1>1, <1>2, <2>1, ReadStep DEF Steps, Ops
<1>3. CASE Await(q, "port.update", seen[q])
  <2>1. /\ BodyFits("port.update", dto[q])
        /\ NodesAreThere("port.update", dto[q], seen[q])
        /\ PortsAreRead("port.update", dto[q], seen[q])
    BY <1>1, <1>3, AtCall DEF BodyFits, NodesAreThere, PortsAreRead, NodeSteps, AddSteps,
                        SeenSteps, NodesFound
  <2> QED
    BY <1>1, <1>3, <2>1, ReadStep DEF Steps, Ops
<1>4. CASE Leave(q)
  BY <1>1, <1>4, ReadLeave
<1>5. Generates(dto[q], node[seen[q].node].task, seen[q].type) = "path"
        => dto[q].path \in Paths
  BY <1>1, AtCall, DtoAssumption DEF Generates, BodyFits, SeenSteps
<1> QED
  BY <1>2, <1>3, <1>4, <1>5 DEF ModifyScript

LEMMA ModifyPathStep ==
    ASSUME IInv, NEW q \in Requests, ModifyPath(q)
    PROVE  IInv'
<1>1. at[q] = "port.path" /\ UNCHANGED <<tables, deleted>>
  BY DEF ModifyPath, Calls
<1>2. CASE Await(q, "port.project", seen[q])
  <2>1. /\ BodyFits("port.project", dto[q])
        /\ NodesAreThere("port.project", dto[q], seen[q])
        /\ PortsAreRead("port.project", dto[q], seen[q])
    BY <1>1, <1>2, AtCall DEF BodyFits, NodesAreThere, PortsAreRead, NodeSteps, AddSteps,
                        SeenSteps, NodesFound
  <2> QED
    BY <1>1, <1>2, <2>1, ReadStep DEF Steps, Ops
<1>3. CASE Leave(q)
  BY <1>1, <1>3, ReadLeave
<1> QED
  BY <1>2, <1>3 DEF ModifyPath

LEMMA LinkFindStep ==
    ASSUME IInv, NEW q \in Requests, LinkFind(q)
    PROVE  IInv'
<1>1. at[q] = "link.add" /\ UNCHANGED <<tables, deleted>>
  BY DEF LinkFind, Calls
<1>2. CASE Await(q, "link.nodes", None)
  <2>1. /\ BodyFits("link.nodes", dto[q])
        /\ NodesAreThere("link.nodes", dto[q], None)
        /\ PortsAreRead("link.nodes", dto[q], None)
    BY <1>1, <1>2, AtCall DEF BodyFits, NodesAreThere, PortsAreRead, NodeSteps, AddSteps,
                        SeenSteps, NodesFound
  <2> QED
    BY <1>1, <1>2, <2>1, ReadStep DEF Steps, Ops
<1>3. CASE Leave(q)
  BY <1>1, <1>3, ReadLeave
<1> QED
  BY <1>2, <1>3 DEF LinkFind

LEMMA LinkNodesStep ==
    ASSUME IInv, NEW q \in Requests, LinkNodes(q)
    PROVE  IInv'
<1>1. at[q] = "link.nodes" /\ UNCHANGED <<tables, deleted>>
  BY DEF LinkNodes, Calls
<1>2. CASE Await(q, "link.ports", None) /\ {dto[q].source, dto[q].target} \subseteq DOMAIN node
  <2>1. /\ BodyFits("link.ports", dto[q])
        /\ NodesAreThere("link.ports", dto[q], None)
        /\ PortsAreRead("link.ports", dto[q], None)
    BY <1>1, <1>2, AtCall DEF BodyFits, NodesAreThere, PortsAreRead, NodeSteps, AddSteps,
                        SeenSteps, NodesFound
  <2> QED
    BY <1>1, <1>2, <2>1, ReadStep DEF Steps, Ops
<1>3. CASE Leave(q)
  BY <1>1, <1>3, ReadLeave
<1> QED
  BY <1>2, <1>3 DEF LinkNodes

LEMMA LinkPortsStep ==
    ASSUME IInv, NEW q \in Requests, LinkPorts(q)
    PROVE  IInv'
<1>1. at[q] = "link.ports" /\ UNCHANGED <<tables, deleted>>
  BY DEF LinkPorts, Calls
<1>2. CASE Await(q, "link.source", None)
  <2>1. /\ BodyFits("link.source", dto[q])
        /\ NodesAreThere("link.source", dto[q], None)
        /\ PortsAreRead("link.source", dto[q], None)
    BY <1>1, <1>2, AtCall DEF BodyFits, NodesAreThere, PortsAreRead, NodeSteps, AddSteps,
                        SeenSteps, NodesFound
  <2> QED
    BY <1>1, <1>2, <2>1, ReadStep DEF Steps, Ops
<1>3. CASE Leave(q)
  BY <1>1, <1>3, ReadLeave
<1> QED
  BY <1>2, <1>3 DEF LinkPorts

LEMMA LinkDeleteFindStep ==
    ASSUME IInv, NEW q \in Requests, LinkDeleteFind(q)
    PROVE  IInv'
<1>1. at[q] = "link.delete" /\ UNCHANGED <<tables, deleted>>
  BY DEF LinkDeleteFind, Calls
<1>2. CASE Await(q, "link.remove", None)
  <2>1. /\ BodyFits("link.remove", dto[q])
        /\ NodesAreThere("link.remove", dto[q], None)
        /\ PortsAreRead("link.remove", dto[q], None)
    BY <1>1, <1>2, AtCall DEF BodyFits, NodesAreThere, PortsAreRead, NodeSteps, AddSteps,
                        SeenSteps, NodesFound
  <2> QED
    BY <1>1, <1>2, <2>1, ReadStep DEF Steps, Ops
<1>3. CASE Leave(q)
  BY <1>1, <1>3, ReadLeave
<1> QED
  BY <1>2, <1>3 DEF LinkDeleteFind

\* LinkService.add reads the source port again.
LEMMA LinkSourceStep ==
    ASSUME IInv, NEW q \in Requests, LinkSource(q)
    PROVE  IInv'
<1> DEFINE read == Found(dto[q].sourcePort)
<1>1. at[q] = "link.source" /\ UNCHANGED <<tables, deleted>>
      /\ Await(q, "link.target", read)
  BY DEF LinkSource, Calls
<1>2. read = None \/ StillIs(dto[q].sourcePort, read.type)
  BY DEF Found, StillIs
<1>3. /\ BodyFits("link.target", dto[q])
      /\ NodesAreThere("link.target", dto[q], read)
      /\ PortsAreRead("link.target", dto[q], read)
  BY <1>1, <1>2, AtCall
     DEF BodyFits, NodesAreThere, PortsAreRead, NodeSteps, AddSteps, SeenSteps,
         NodesFound
<1> HIDE DEF read
<1> QED
  BY <1>1, <1>3, ReadStep DEF Steps

\* It has both ports now, or stops.
LEMMA LinkTargetStep ==
    ASSUME IInv, NEW q \in Requests, LinkTarget(q)
    PROVE  IInv'
<1> DEFINE p == dto[q].sourcePort
           r == dto[q].targetPort
<1>1. at[q] = "link.target" /\ UNCHANGED <<tables, deleted>>
  BY DEF LinkTarget, Calls
<1>2. CASE Await(q, "link.create", None) /\ IsValid(dto[q], seen[q], Found(r))
  <2>1. /\ seen[q] # None /\ Found(r) # None
        /\ ValidPort(node[dto[q].source].up, node[dto[q].target].up,
                     seen[q].type, Found(r).type)
    BY <1>2 DEF IsValid
  <2>2. StillIs(p, seen[q].type)
    BY <1>1, <2>1, AtCall DEF PortsAreRead
  <2>3. StillIs(r, Found(r).type)
    BY <2>1 DEF Found, StillIs
  <2>4. seen[q].type \in PortTypes /\ Found(r).type \in PortTypes
    BY <2>1 DEF ValidPort, PortTypes
  <2>5. /\ BodyFits("link.create", dto[q])
        /\ NodesAreThere("link.create", dto[q], None)
        /\ PortsAreRead("link.create", dto[q], None)
    BY <1>1, <2>1, <2>2, <2>3, <2>4, AtCall
       DEF BodyFits, NodesAreThere, PortsAreRead, NodeSteps, AddSteps, SeenSteps,
           NodesFound
  <2> QED
    BY <1>1, <1>2, <2>5, ReadStep DEF Steps
<1>3. CASE Leave(q)
  BY <1>1, <1>3, ReadLeave
<1> QED
  BY <1>2, <1>3 DEF LinkTarget

-----------------------------------------------------------------------------
(* Steps that write. *)

LEMMA NodeCreateStep ==
    ASSUME IInv, NEW q \in Requests, NodeCreate(q)
    PROVE  IInv'
<1> DEFINE d == dto[q]
<1>1. at[q] = "node.create" /\ UNCHANGED <<path, port, link, deleted>> /\ d \in NodeAdds
  BY AtCall DEF NodeCreate, Calls, BodyFits, NodeSteps
<1>2. CASE Leave(q) /\ UNCHANGED node
  BY <1>1, <1>2, ReadLeave DEF tables
<1>3. CASE /\ d.id \notin DOMAIN node
           /\ node' = [n \in DOMAIN node \cup {d.id} |->
                         IF n = d.id THEN NodeOf(d) ELSE node[n]]
           /\ Leave(q) \/ Await(q, "node.ports", None)
  <2>1. NodesKeep /\ PortsKeep
    BY <1>1, <1>3 DEF NodesKeep, PortsKeep
  <2>2. NodeOf(d) \in NodeRow
    BY <1>1, DtoAssumption DEF NodeOf, NodeRow
  <2>3. TablesOK'
    BY <1>1, <1>3, <2>2, AtCall DEF TablesOK
  <2>4. LinksFit'
    BY <1>1, <2>1, LinksFitKeep DEF IInv
  <2>5. CASE Leave(q)
    BY <2>1, <2>3, <2>4, <2>5, LeaveStep
  <2>6. CASE Await(q, "node.ports", None)
    <3>1. dto'[q] = d /\ d.id \in DOMAIN node'
      BY <1>3, <2>6 DEF Await
    <3>2. /\ BodyFits("node.ports", dto[q])
          /\ NodesAreThere("node.ports", dto[q], None)'
          /\ PortsAreRead("node.ports", dto[q], None)'
      BY <1>1, <3>1 DEF BodyFits, NodesAreThere, PortsAreRead, NodeSteps, AddSteps,
                        SeenSteps, NodesFound
    <3> QED
      BY <1>1, <2>1, <2>3, <2>4, <2>6, <3>2, AwaitStep DEF Steps
  <2> QED
    BY <1>3, <2>5, <2>6
<1> QED
  BY <1>2, <1>3 DEF NodeCreate

LEMMA NodePortsStep ==
    ASSUME IInv, NEW q \in Requests, NodePorts(q)
    PROVE  IInv'
<1> DEFINE d == dto[q]
           Row(p) == [node |-> d.id, type |-> d.ports[p],
                      text |-> TRUE, script |-> FALSE]
<1>1. /\ UNCHANGED <<path, node, link, deleted>> /\ Leave(q)
      /\ d \in NodeAdds /\ d.id \in DOMAIN node
  BY AtCall DEF NodePorts, Calls, BodyFits, NodesAreThere, NodeSteps
<1>2. CASE UNCHANGED port
  BY <1>1, <1>2, ReadLeave DEF tables
<1>3. CASE /\ DOMAIN d.ports \cap DOMAIN port = {}
           /\ port' = [p \in DOMAIN port \cup DOMAIN d.ports |->
                         IF p \in DOMAIN d.ports THEN Row(p) ELSE port[p]]
  <2>1. NodesKeep /\ PortsKeep
    BY <1>1, <1>3 DEF NodesKeep, PortsKeep
  <2>2. \A p \in DOMAIN d.ports : Row(p) \in PortRow /\ Row(p).node = d.id
    BY <1>1, DtoAssumption DEF PortRow
  <2>3. \A p \in DOMAIN port' : port'[p] \in PortRow /\ port'[p].node \in DOMAIN node
    BY <1>1, <1>3, <2>2, AtCall DEF TablesOK
  <2>4. TablesOK'
    BY <1>1, <1>3, <2>3, AtCall DEF TablesOK
  <2>5. LinksFit'
    BY <1>1, <2>1, LinksFitKeep DEF IInv
  <2> QED
    BY <1>1, <2>1, <2>4, <2>5, LeaveStep
<1> QED
  BY <1>2, <1>3 DEF NodePorts

LEMMA NodeUpdateStep ==
    ASSUME IInv, NEW q \in Requests, NodeUpdate(q)
    PROVE  IInv'
<1>1. UNCHANGED <<path, port, link, deleted>> /\ Leave(q)
  BY DEF NodeUpdate
<1>2. CASE UNCHANGED node
  BY <1>1, <1>2, ReadLeave DEF tables
<1>3. CASE dto[q].id \in DOMAIN node /\ node' = [node EXCEPT ![dto[q].id].text = TRUE]
  <2>1. node \in [DOMAIN node -> NodeRow]
    BY AtCall DEF TablesOK
  <2>2. /\ DOMAIN node' = DOMAIN node
        /\ \A n \in DOMAIN node : /\ node'[n] \in NodeRow
                                  /\ node'[n].up = node[n].up
                                  /\ node'[n].task = node[n].task
                                  /\ node'[n].project = node[n].project
    BY <1>3, <2>1 DEF NodeRow
  <2>3. NodesKeep /\ PortsKeep
    BY <1>1, <2>2 DEF NodesKeep, PortsKeep
  <2>4. TablesOK'
    <3>1. node' \in [DOMAIN node' -> NodeRow]
      BY <1>3, <2>2
    <3> QED
      BY <1>1, <2>2, <3>1, AtCall DEF TablesOK
  <2>5. LinksFit'
    BY <1>1, <2>3, LinksFitKeep DEF IInv
  <2> QED
    BY <1>1, <2>3, <2>4, <2>5, LeaveStep
<1> QED
  BY <1>2, <1>3 DEF NodeUpdate

LEMMA PortCreateStep ==
    ASSUME IInv, NEW q \in Requests, PortCreate(q)
    PROVE  IInv'
<1> DEFINE d == dto[q]
           row == [node |-> d.node, type |-> d.type,
                   text |-> FALSE, script |-> d.script]
<1>1. /\ at[q] = "port.create" /\ UNCHANGED <<path, node, link, deleted>>
      /\ d \in PortAdds /\ d.node \in DOMAIN node
  BY AtCall DEF PortCreate, Calls, BodyFits, NodesAreThere, AddSteps
<1>2. CASE Leave(q) /\ UNCHANGED port
  BY <1>1, <1>2, ReadLeave DEF tables
<1>3. CASE /\ d.id \notin DOMAIN port
           /\ port' = [p \in DOMAIN port \cup {d.id} |->
                         IF p = d.id THEN row ELSE port[p]]
           /\ Await(q, "port.modify", None)
  <2>1. NodesKeep /\ PortsKeep
    BY <1>1, <1>3 DEF NodesKeep, PortsKeep
  <2>2. row \in PortRow /\ row.node \in DOMAIN node
    BY <1>1, DtoAssumption DEF PortRow, PortWrites
  <2>3. TablesOK'
    BY <1>1, <1>3, <2>2, AtCall DEF TablesOK
  <2>4. LinksFit'
    BY <1>1, <2>1, LinksFitKeep DEF IInv
  <2>5. /\ BodyFits("port.modify", dto[q])
        /\ NodesAreThere("port.modify", dto[q], None)'
        /\ PortsAreRead("port.modify", dto[q], None)'
    BY <1>1 DEF BodyFits, NodesAreThere, PortsAreRead, NodeSteps, AddSteps,
                SeenSteps, NodesFound, PortWrites
  <2> QED
    BY <1>1, <1>3, <2>1, <2>3, <2>4, <2>5, AwaitStep DEF Steps, Ops
<1> QED
  BY <1>2, <1>3 DEF PortCreate

LEMMA ModifyProjectStep ==
    ASSUME IInv, NEW q \in Requests, ModifyProject(q)
    PROVE  IInv'
<1>1. /\ at[q] = "port.project" /\ UNCHANGED <<node, port, link, deleted>>
      /\ dto[q] \in PortWrites /\ seen[q].node \in DOMAIN node /\ dto[q].path \in Paths
  BY AtCall DEF ModifyProject, Calls, BodyFits, NodesAreThere, SeenSteps
<1>2. CASE Leave(q) /\ UNCHANGED path
  BY <1>1, <1>2, ReadLeave DEF tables
<1>3. CASE /\ path' = [path EXCEPT ![ProjectOf(seen[q])] = dto[q].path]
           /\ Await(q, "port.update", seen[q])
  <2>1. NodesKeep /\ PortsKeep
    BY <1>1 DEF NodesKeep, PortsKeep
  <2>2. TablesOK'
    BY <1>1, <1>3, AtCall DEF TablesOK
  <2>3. LinksFit'
    BY <1>1, <2>1, LinksFitKeep DEF IInv
  <2>4. /\ BodyFits("port.update", dto[q])
        /\ NodesAreThere("port.update", dto[q], seen[q])'
        /\ PortsAreRead("port.update", dto[q], seen[q])'
        /\ dto'[q] = dto[q]
    BY <1>1, <1>3 DEF BodyFits, NodesAreThere, PortsAreRead, NodeSteps, AddSteps,
                SeenSteps, NodesFound, Await
  <2>5. PICK row : row = seen[q]
    OBVIOUS
  <2>6. NodesAreThere("port.update", dto[q], row)'
    BY <1>1, <2>5 DEF NodesAreThere, SeenSteps, NodesFound
  <2>7. PortsAreRead("port.update", dto[q], row)'
    BY DEF PortsAreRead
  <2> QED
    BY <1>1, <1>3, <2>1, <2>2, <2>3, <2>4, <2>5, <2>6, <2>7, AwaitStep DEF Steps
<1> QED
  BY <1>2, <1>3 DEF ModifyProject

LEMMA ModifyUpdateStep ==
    ASSUME IInv, NEW q \in Requests, ModifyUpdate(q)
    PROVE  IInv'
<1> DEFINE p == dto[q].id
           script == dto[q].script \/ node[seen[q].node].task
                                        \in {"ROUTE", "DATA_MAPPING", "HTTP"}
<1>1. UNCHANGED <<path, node, link, deleted>> /\ Leave(q)
  BY DEF ModifyUpdate
<1>2. CASE UNCHANGED port
  BY <1>1, <1>2, ReadLeave DEF tables
<1>3. CASE /\ p \in DOMAIN port
           /\ port' = [port EXCEPT ![p].text = FALSE, ![p].script = script]
  <2>1. port \in [DOMAIN port -> PortRow] /\ script \in BOOLEAN
    BY AtCall DEF TablesOK
  <2> HIDE DEF script
  <2>2. /\ DOMAIN port' = DOMAIN port
        /\ \A x \in DOMAIN port : /\ port'[x] \in PortRow
                                  /\ port'[x].type = port[x].type
                                  /\ port'[x].node = port[x].node
    BY <1>3, <2>1 DEF PortRow
  <2>3. NodesKeep /\ PortsKeep
    BY <1>1, <2>2 DEF NodesKeep, PortsKeep
  <2>4. TablesOK'
    <3>1. port' \in [DOMAIN port' -> PortRow]
      BY <1>3, <2>2
    <3> QED
      BY <1>1, <2>2, <3>1, AtCall DEF TablesOK
  <2>5. LinksFit'
    BY <1>1, <2>3, LinksFitKeep DEF IInv
  <2> QED
    BY <1>1, <2>3, <2>4, <2>5, LeaveStep
<1> QED
  BY <1>2, <1>3 DEF ModifyUpdate

LEMMA PortDeleteStep ==
    ASSUME IInv, NEW q \in Requests, PortDelete(q)
    PROVE  IInv'
<1> DEFINE p == dto[q].id
<1>1. /\ UNCHANGED <<path, node, link>> /\ Leave(q)
      /\ port' = [x \in DOMAIN port \ {p} |-> port[x]]
      /\ deleted' = deleted \cup (DOMAIN port \cap {p})
  BY DEF PortDelete
<1>2. NodesKeep /\ PortsKeep
  BY <1>1 DEF NodesKeep, PortsKeep
<1>3. TablesOK'
  BY <1>1, AtCall DEF TablesOK
<1>4. LinksFit'
  BY <1>1, <1>2, LinksFitKeep DEF IInv
<1> QED
  BY <1>1, <1>2, <1>3, <1>4, LeaveStep

LEMMA LinkCreateStep ==
    ASSUME IInv, NEW q \in Requests, LinkCreate(q)
    PROVE  IInv'
<1> DEFINE d == dto[q]
<1>1. /\ at[q] = "link.create" /\ UNCHANGED <<path, node, port, deleted>> /\ Leave(q)
      /\ d \in LinkAdds /\ {d.source, d.target} \subseteq DOMAIN node
  BY AtCall DEF LinkCreate, Calls, BodyFits, NodesAreThere, NodesFound
<1>2. NodesKeep /\ PortsKeep
  BY <1>1 DEF NodesKeep, PortsKeep
<1>3. CASE UNCHANGED link
  BY <1>1, <1>3, ReadLeave DEF tables
<1>4. CASE /\ d.id \notin DOMAIN link
           /\ \A l \in DOMAIN link : link[l].sourcePort # d.sourcePort
           /\ link' = [l \in DOMAIN link \cup {d.id} |->
                         IF l = d.id THEN LinkOf(d) ELSE link[l]]
  <2>1. LinkOf(d) \in LinkRow
    BY <1>1, DtoAssumption DEF LinkOf, LinkRow
  <2>2. TablesOK'
    <3>1. link' \in [DOMAIN link' -> LinkRow]
      BY <1>4, <2>1, AtCall DEF TablesOK
    <3>2. \A l \in DOMAIN link' :
            {link'[l].source, link'[l].target} \subseteq DOMAIN node
      BY <1>1, <1>4, AtCall DEF TablesOK, LinkOf
    <3>3. \A k, l \in DOMAIN link' :
            link'[k].sourcePort = link'[l].sourcePort => k = l
      BY <1>4, AtCall DEF TablesOK, LinkOf
    <3> QED
      BY <1>1, <3>1, <3>2, <3>3, AtCall DEF TablesOK
  <2>3. LinksFit'
    <3>1. PICK t, w \in PortTypes :
            /\ StillIs(d.sourcePort, t)
            /\ StillIs(d.targetPort, w)
            /\ ValidPort(node[d.source].up, node[d.target].up, t, w)
      BY <1>1, AtCall DEF PortsAreRead
    <3>2. ASSUME {d.sourcePort, d.targetPort} \cap deleted = {}
          PROVE  /\ {d.sourcePort, d.targetPort} \subseteq DOMAIN port
                 /\ ValidPort(node[d.source].up, node[d.target].up,
                              port[d.sourcePort].type, port[d.targetPort].type)
      BY <3>1, <3>2 DEF StillIs
    <3>3. link'[d.id] = LinkOf(d)
      BY <1>4
    <3>4. \A l \in DOMAIN link' \ {d.id} : l \in DOMAIN link /\ link'[l] = link[l]
      BY <1>4
    <3>5. ASSUME NEW l \in DOMAIN link',
                 {link'[l].sourcePort, link'[l].targetPort} \cap deleted = {}
          PROVE  /\ {link'[l].sourcePort, link'[l].targetPort} \subseteq DOMAIN port
                 /\ ValidPort(node[link'[l].source].up, node[link'[l].target].up,
                              port[link'[l].sourcePort].type,
                              port[link'[l].targetPort].type)
      <4>1. CASE l = d.id
        BY <3>2, <3>3, <3>5, <4>1 DEF LinkOf
      <4>2. CASE l # d.id
        BY <3>4, <3>5, <4>2, AtCall DEF LinksFit
      <4> QED
        BY <4>1, <4>2
    <3> QED
      BY <1>1, <3>5 DEF LinksFit
  <2> QED
    BY <1>1, <1>2, <2>2, <2>3, LeaveStep
<1> QED
  BY <1>3, <1>4 DEF LinkCreate

LEMMA LinkRemoveStep ==
    ASSUME IInv, NEW q \in Requests, LinkRemove(q)
    PROVE  IInv'
<1>1. /\ UNCHANGED <<path, node, port, deleted>> /\ Leave(q)
      /\ link' = [l \in DOMAIN link \ {dto[q].id} |-> link[l]]
  BY DEF LinkRemove
<1>2. NodesKeep /\ PortsKeep
  BY <1>1 DEF NodesKeep, PortsKeep
<1>3. TablesOK'
  BY <1>1, AtCall DEF TablesOK
<1>4. LinksFit'
  BY <1>1, <1>2, LinksFitKeep DEF IInv
<1> QED
  BY <1>1, <1>2, <1>3, <1>4, LeaveStep

-----------------------------------------------------------------------------
LEMMA InitIInv == Init => IInv
<1> SUFFICES ASSUME Init
             PROVE  IInv
  OBVIOUS
<1>1. TypeOK
  BY TableAssumption DEF Init, TypeOK, Steps
<1>2. CallsOK
  BY DEF Init, CallsOK, CallOK, BodyFits, NodesAreThere, PortsAreRead, NodeSteps,
         AddSteps, SeenSteps, NodesFound
<1>3. LinksFit
  BY DEF Init, LinksFit
<1> QED
  BY <1>1, <1>2, <1>3 DEF IInv

LEMMA StepIInv == IInv /\ [Next]_vars => IInv'
<1> SUFFICES ASSUME IInv, [Next]_vars
             PROVE  IInv'
  OBVIOUS
<1>1. ASSUME NEW q \in Requests, NEW d \in Dtos, Begin(q, d)
      PROVE  IInv'
  BY <1>1, BeginStep
<1>2. ASSUME NEW q \in Requests, NodeStep(q)
      PROVE  IInv'
  BY <1>2, NodeFindStep, NodeCreateStep, NodePortsStep, NodeUpdateStep DEF NodeStep
<1>3. ASSUME NEW q \in Requests, PortStep(q)
      PROVE  IInv'
  BY <1>3, PortInputsStep, PortOwnerStep, PortOutputsStep, PortCreateStep,
     ModifyFindStep, ModifyScriptStep, ModifyPathStep, ModifyProjectStep,
     ModifyUpdateStep, PortDeleteStep DEF PortStep
<1>4. ASSUME NEW q \in Requests, LinkStep(q)
      PROVE  IInv'
  BY <1>4, LinkFindStep, LinkNodesStep, LinkPortsStep, LinkSourceStep,
     LinkTargetStep, LinkCreateStep, LinkDeleteFindStep, LinkRemoveStep DEF LinkStep
<1>5. CASE UNCHANGED vars
  <2>1. UNCHANGED <<path, node, port, link, at, dto, seen, deleted>>
    BY <1>5 DEF vars, tables
  <2> QED
    BY <2>1 DEF IInv, TypeOK, CallsOK, CallOK, LinksFit, BodyFits, NodesAreThere,
                PortsAreRead, StillIs
<1> QED
  BY <1>1, <1>2, <1>3, <1>4, <1>5 DEF Next

\* The tables are never broken, whatever requests overlap: ports belong to
\* nodes, links join nodes, and no two start at one port.
THEOREM TypeCorrect == Spec => []TypeOK
<1>1. IInv => TypeOK
  BY DEF IInv
<1> QED
  BY <1>1, InitIInv, StepIInv, PTL DEF Spec

\* Links fit the ports they join until a port is deleted, for any number of
\* overlapping requests.
THEOREM LinksAlwaysFit == Spec => []LinksFit
<1>1. IInv => LinksFit
  BY DEF IInv
<1> QED
  BY <1>1, InitIInv, StepIInv, PTL DEF Spec

-----------------------------------------------------------------------------
(* Start nodes. *)

\* The requests that have been told that they may add a start node.
Adding(j) ==
    {q \in Requests : /\ at[q] = "node.create"
                      /\ dto[q].task = "CONTEXT"
                      /\ dto[q].project = j}

StartsInv ==
    \A j \in Project :
        /\ IsFiniteSet(ContextNodes(j))
        /\ Cardinality(ContextNodes(j)) + Cardinality(Adding(j))
                <= Cardinality(Requests)

LEMMA AddingFinite ==
    ASSUME NEW S \in SUBSET Requests
    PROVE  /\ IsFiniteSet(S) /\ Cardinality(S) \in Nat
           /\ Cardinality(Requests) \in Nat
           /\ Cardinality(S) <= Cardinality(Requests)
BY RequestAssumption, FS_Subset, FS_CardinalityType

LEMMA InitStarts == Init => StartsInv
<1> SUFFICES ASSUME Init, NEW j \in Project
             PROVE  /\ IsFiniteSet(ContextNodes(j))
                    /\ Cardinality(ContextNodes(j)) + Cardinality(Adding(j))
                            <= Cardinality(Requests)
  BY DEF StartsInv
<1>1. Adding(j) = {}
  BY DEF Init, Adding
<1>2. ContextNodes(j) \subseteq DOMAIN NodeRows
      /\ \A m, n \in ContextNodes(j) : m = n
  BY TableAssumption DEF Init, ContextNodes
<1>3. IsFiniteSet(ContextNodes(j))
  BY <1>2, TableAssumption, FS_Subset
<1>4. Cardinality(ContextNodes(j)) \in {0, 1}
  <2>1. CASE ContextNodes(j) = {}
    BY <2>1, FS_EmptySet
  <2>2. CASE ContextNodes(j) # {}
    <3>1. PICK n : ContextNodes(j) = {n}
      BY <1>2, <2>2
    <3> QED
      BY <3>1, FS_Singleton
  <2> QED
    BY <2>1, <2>2
<1>5. Cardinality(Adding(j)) = 0
  BY <1>1, FS_EmptySet
<1>6. Cardinality(Requests) \in Nat /\ Cardinality(Requests) # 0
  BY RequestAssumption, FS_EmptySet, FS_CardinalityType
<1> QED
  BY <1>3, <1>4, <1>5, <1>6

\* A step that neither adds a start node nor lets anybody do so.
LEMMA NoStart ==
    ASSUME StartsInv, NEW j \in Project,
           ContextNodes(j)' = ContextNodes(j), Adding(j)' \subseteq Adding(j)
    PROVE  /\ IsFiniteSet(ContextNodes(j)')
           /\ Cardinality(ContextNodes(j)') + Cardinality(Adding(j)')
                   <= Cardinality(Requests)
<1>1. /\ IsFiniteSet(ContextNodes(j))
      /\ Cardinality(ContextNodes(j)) + Cardinality(Adding(j)) <= Cardinality(Requests)
  BY DEF StartsInv
<1>2. Adding(j) \in SUBSET Requests
  BY DEF Adding
<1>3. Cardinality(Adding(j)') <= Cardinality(Adding(j)) /\ Cardinality(Adding(j)') \in Nat
  BY <1>2, AddingFinite, FS_Subset, FS_CardinalityType
<1>4. Cardinality(ContextNodes(j)) \in Nat /\ Cardinality(Adding(j)) \in Nat
  BY <1>1, <1>2, AddingFinite, FS_CardinalityType
<1>5. ASSUME NEW a \in Nat, NEW b \in Nat, NEW c \in Nat, NEW n \in Nat,
             a + b <= n, c <= b
      PROVE  a + c <= n
  BY <1>5
<1> QED
  BY <1>1, <1>3, <1>4, <1>5, AddingFinite, <1>2

LEMMA FindStarts ==
    ASSUME IInv, StartsInv, NEW q \in Requests, NodeFind(q), NEW j \in Project
    PROVE  /\ IsFiniteSet(ContextNodes(j)')
           /\ Cardinality(ContextNodes(j)') + Cardinality(Adding(j)')
                   <= Cardinality(Requests)
<1> DEFINE d == dto[q]
<1>1. node' = node /\ at[q] = "node.add"
  BY DEF NodeFind, Calls, tables
<1>2. ContextNodes(j)' = ContextNodes(j)
  BY <1>1 DEF ContextNodes
<1>3. CASE MayAddNode(d) /\ d.task = "CONTEXT" /\ d.project = j
  <2>1. ContextNodes(j) = {}
    BY <1>3 DEF MayAddNode
  <2>2. Cardinality(ContextNodes(j)') = 0 /\ IsFiniteSet(ContextNodes(j)')
    BY <1>2, <2>1, FS_EmptySet
  <2>3. Adding(j)' \in SUBSET Requests
    BY DEF Adding
  <2>4. /\ Cardinality(Adding(j)') \in Nat /\ Cardinality(Requests) \in Nat
        /\ Cardinality(Adding(j)') <= Cardinality(Requests)
    BY <2>3, AddingFinite
  <2> QED
    BY <2>2, <2>4
<1>4. CASE ~(MayAddNode(d) /\ d.task = "CONTEXT" /\ d.project = j)
  <2>1. Adding(j)' \subseteq Adding(j)
    BY <1>4 DEF Adding, NodeFind, Await, Leave, IInv, TypeOK
  <2> QED
    BY <1>2, <2>1, NoStart
<1> QED
  BY <1>3, <1>4

LEMMA CreateStarts ==
    ASSUME IInv, StartsInv, NEW q \in Requests, NodeCreate(q), NEW j \in Project
    PROVE  /\ IsFiniteSet(ContextNodes(j)')
           /\ Cardinality(ContextNodes(j)') + Cardinality(Adding(j)')
                   <= Cardinality(Requests)
<1> DEFINE d == dto[q]
<1>1. at[q] = "node.create" /\ at \in [Requests -> Steps] /\ dto \in [Requests -> Dtos \cup {None}]
  BY DEF NodeCreate, Calls, IInv, TypeOK
<1>2. Adding(j)' = Adding(j) \ {q}
  <2>1. /\ at'[q] # "node.create"
        /\ \A r \in Requests \ {q} : at'[r] = at[r] /\ dto'[r] = dto[r]
    BY <1>1 DEF NodeCreate, Await, Leave
  <2> QED
    BY <2>1 DEF Adding
<1>3. CASE /\ d.id \notin DOMAIN node /\ d.task = "CONTEXT" /\ d.project = j
           /\ node' = [n \in DOMAIN node \cup {d.id} |->
                         IF n = d.id THEN NodeOf(d) ELSE node[n]]
  <2>1. q \in Adding(j)
    BY <1>1, <1>3 DEF Adding
  <2>2. ContextNodes(j)' = ContextNodes(j) \cup {d.id} /\ d.id \notin ContextNodes(j)
    BY <1>3 DEF ContextNodes, NodeOf
  <2>3. /\ IsFiniteSet(ContextNodes(j))
        /\ Cardinality(ContextNodes(j)) + Cardinality(Adding(j)) <= Cardinality(Requests)
    BY DEF StartsInv
  <2>4. Adding(j) \in SUBSET Requests
    BY DEF Adding
  <2>5. /\ IsFiniteSet(ContextNodes(j)')
        /\ Cardinality(ContextNodes(j)') = Cardinality(ContextNodes(j)) + 1
    BY <2>2, <2>3, FS_AddElement
  <2>6. IsFiniteSet(Adding(j)) /\ Cardinality(Adding(j)') = Cardinality(Adding(j)) - 1
    BY <1>2, <2>1, <2>4, AddingFinite, FS_RemoveElement
  <2>7. Cardinality(ContextNodes(j)) \in Nat /\ Cardinality(Adding(j)) \in Nat
        /\ Cardinality(Requests) \in Nat
    BY <2>3, <2>4, AddingFinite, FS_CardinalityType
  <2> QED
    BY <2>3, <2>5, <2>6, <2>7
<1>4. CASE ContextNodes(j)' = ContextNodes(j)
  BY <1>2, <1>4, NoStart
<1>5. \/ ContextNodes(j)' = ContextNodes(j)
      \/ /\ d.id \notin DOMAIN node /\ d.task = "CONTEXT" /\ d.project = j
         /\ node' = [n \in DOMAIN node \cup {d.id} |->
                       IF n = d.id THEN NodeOf(d) ELSE node[n]]
  <2>1. CASE UNCHANGED node
    BY <2>1 DEF ContextNodes
  <2>2. CASE /\ d.id \notin DOMAIN node
             /\ node' = [n \in DOMAIN node \cup {d.id} |->
                           IF n = d.id THEN NodeOf(d) ELSE node[n]]
    BY <2>2 DEF ContextNodes, NodeOf
  <2> QED
    BY <2>1, <2>2 DEF NodeCreate
<1> QED
  BY <1>3, <1>4, <1>5

\* Every request but q is where it was, and q is not about to create a node.
LEMMA AddingShrinks ==
    ASSUME NEW q \in Requests, NEW j \in Project,
           at'[q] # "node.create",
           \A r \in Requests \ {q} : at'[r] = at[r] /\ dto'[r] = dto[r]
    PROVE  Adding(j)' \subseteq Adding(j)
BY DEF Adding

LEMMA UpdateStarts ==
    ASSUME IInv, StartsInv, NEW q \in Requests, NodeUpdate(q), NEW j \in Project
    PROVE  /\ IsFiniteSet(ContextNodes(j)')
           /\ Cardinality(ContextNodes(j)') + Cardinality(Adding(j)')
                   <= Cardinality(Requests)
<1>1. ContextNodes(j)' = ContextNodes(j)
  <2>1. node \in [DOMAIN node -> NodeRow]
    BY DEF IInv, TypeOK
  <2>2. /\ DOMAIN node' = DOMAIN node
        /\ \A n \in DOMAIN node : /\ node'[n].project = node[n].project
                                  /\ node'[n].task = node[n].task
    BY <2>1 DEF NodeUpdate, NodeRow
  <2> QED
    BY <2>2 DEF ContextNodes
<1>2. Adding(j)' \subseteq Adding(j)
  BY AddingShrinks DEF NodeUpdate, Leave, IInv, TypeOK
<1> QED
  BY <1>1, <1>2, NoStart

\* The steps that leave the nodes alone and are not the check of an add.
LEMMA OtherStarts ==
    ASSUME IInv, StartsInv, NEW q \in Requests, NEW j \in Project,
           \/ \E d \in Dtos : Begin(q, d)
           \/ NodePorts(q)
           \/ PortStep(q)
           \/ LinkStep(q)
    PROVE  /\ IsFiniteSet(ContextNodes(j)')
           /\ Cardinality(ContextNodes(j)') + Cardinality(Adding(j)')
                   <= Cardinality(Requests)
<1>1. node' = node
  BY DEF Begin, NodePorts, PortStep, LinkStep, PortInputs, PortOwner, PortOutputs,
         PortCreate, ModifyFind, ModifyScript, ModifyPath, ModifyProject,
         ModifyUpdate, PortDelete, LinkFind, LinkNodes, LinkPorts, LinkSource,
         LinkTarget, LinkCreate, LinkDeleteFind, LinkRemove, tables
<1>2. CASE \E d \in Dtos : Begin(q, d)
  <2>1. PICK d \in Dtos : Begin(q, d)
    BY <1>2
  <2>2. FirstStep(d) # "node.create"
    BY DtoAssumption DEF FirstStep, Ops
  <2>3. Adding(j)' \subseteq Adding(j)
    BY <2>1, <2>2, AddingShrinks DEF Begin, IInv, TypeOK
  <2> QED
    BY <1>1, <2>3, NoStart DEF ContextNodes
<1>3. CASE NodePorts(q) \/ PortStep(q) \/ LinkStep(q)
  <2> SUFFICES Adding(j)' \subseteq Adding(j)
    BY <1>1, NoStart DEF ContextNodes
  <2>1. CASE NodePorts(q) \/ ModifyUpdate(q) \/ PortDelete(q) \/ LinkCreate(q)
             \/ LinkRemove(q)
    <3>1. Leave(q)
      BY <2>1 DEF NodePorts, ModifyUpdate, PortDelete, LinkCreate, LinkRemove
    <3> QED
      BY <3>1, AddingShrinks DEF Leave, IInv, TypeOK
  <2>2. \A step \in Steps \ {"node.create"} : \A read :
            Await(q, step, read) => Adding(j)' \subseteq Adding(j)
    BY AddingShrinks DEF Await, IInv, TypeOK
  <2>3. Leave(q) => Adding(j)' \subseteq Adding(j)
    BY AddingShrinks DEF Leave, IInv, TypeOK
  <2>4. CASE PortInputs(q) \/ PortOwner(q) \/ PortOutputs(q) \/ PortCreate(q)
    BY <2>2, <2>3, <2>4 DEF PortInputs, PortOwner, PortOutputs, PortCreate, Steps, Ops
  <2>5. CASE ModifyFind(q) \/ ModifyScript(q) \/ ModifyPath(q) \/ ModifyProject(q)
    BY <2>2, <2>3, <2>5
       DEF ModifyFind, ModifyScript, ModifyPath, ModifyProject, Steps
  <2>6. CASE LinkFind(q) \/ LinkNodes(q) \/ LinkPorts(q) \/ LinkSource(q)
             \/ LinkTarget(q) \/ LinkDeleteFind(q)
    BY <2>2, <2>3, <2>6
       DEF LinkFind, LinkNodes, LinkPorts, LinkSource, LinkTarget, LinkDeleteFind, Steps
  <2> QED
    BY <1>3, <2>1, <2>4, <2>5, <2>6 DEF PortStep, LinkStep
<1> QED
  BY <1>2, <1>3

LEMMA StartsStep == IInv /\ StartsInv /\ [Next]_vars => StartsInv'
<1> SUFFICES ASSUME IInv, StartsInv, [Next]_vars, NEW j \in Project
             PROVE  /\ IsFiniteSet(ContextNodes(j)')
                    /\ Cardinality(ContextNodes(j)') + Cardinality(Adding(j)')
                            <= Cardinality(Requests)
  BY DEF StartsInv
<1>1. CASE UNCHANGED vars
  <2>1. UNCHANGED <<node, at, dto>>
    BY <1>1 DEF vars, tables
  <2> QED
    BY <2>1, NoStart DEF ContextNodes, Adding
<1>2. ASSUME NEW q \in Requests,
             (\E d \in Dtos : Begin(q, d)) \/ NodePorts(q) \/ PortStep(q) \/ LinkStep(q)
      PROVE  /\ IsFiniteSet(ContextNodes(j)')
             /\ Cardinality(ContextNodes(j)') + Cardinality(Adding(j)')
                     <= Cardinality(Requests)
  BY <1>2, OtherStarts
<1>3. ASSUME NEW q \in Requests, NodeFind(q) \/ NodeCreate(q) \/ NodeUpdate(q)
      PROVE  /\ IsFiniteSet(ContextNodes(j)')
             /\ Cardinality(ContextNodes(j)') + Cardinality(Adding(j)')
                     <= Cardinality(Requests)
  BY <1>3, FindStarts, CreateStarts, UpdateStarts
<1> QED
  BY <1>1, <1>2, <1>3 DEF Next, NodeStep

\* However many adds of start nodes there are, a project gets no more than one
\* for each request that is served at a time.
THEOREM StartNodesStayBounded == Spec => []StartNodesBounded
<1>1. StartsInv => StartNodesBounded
  <2> SUFFICES ASSUME StartsInv, NEW j \in Project
               PROVE  Cardinality(ContextNodes(j)) <= Cardinality(Requests)
    BY DEF StartNodesBounded
  <2>1. /\ Adding(j) \in SUBSET Requests
        /\ IsFiniteSet(ContextNodes(j))
        /\ Cardinality(ContextNodes(j)) + Cardinality(Adding(j))
                <= Cardinality(Requests)
    BY DEF StartsInv, Adding
  <2> QED
    BY <2>1, AddingFinite, FS_CardinalityType
<1> QED
  BY <1>1, InitIInv, StepIInv, InitStarts, StartsStep, PTL DEF Spec

-----------------------------------------------------------------------------
(* What the editor shows. *)

\* The layers of a link whose nodes are in the project, by the layers of these
\* nodes.
LEMMA ShownWhere ==
    ASSUME NEW j \in Project, Listed(j), NEW l \in LinksIn(j)
    PROVE  LET composites == UpLayerComposites(NodesOf(j))
               m == link[l].source
               n == link[l].target
           IN  /\ {m, n} \subseteq NodesIn(j)
               /\ ShownIn(NodesOf(j), LinksOf(j), l) =
                    {c \in composites \cup {Top} :
                        \/ node[m].up = c /\ node[n].up = c
                        \/ c \in composites /\ node[m].up = c /\ n = c
                        \/ c \in composites /\ node[n].up = c /\ m = c}
<1> DEFINE composites == UpLayerComposites(NodesOf(j))
           m == link[l].source
           n == link[l].target
<1>1. {m, n} \subseteq NodesIn(j)
  BY DEF Listed
<1>2. /\ LinksOf(j)[l] = link[l]
      /\ NodesOf(j)[m] = node[m]
      /\ NodesOf(j)[n] = node[n]
      /\ l \in DOMAIN LinksOf(j)
  BY <1>1 DEF LinksOf, NodesOf
<1>3. l \in UpLayerLinks(NodesOf(j), LinksOf(j)) <=> node[m].up = Top /\ node[n].up = Top
  BY <1>2 DEF UpLayerLinks
<1>4. \A c : l \in DownLayerLinks(NodesOf(j), LinksOf(j), c) <=>
                \/ node[m].up = c /\ node[n].up = c
                \/ node[m].up = c /\ n = c
                \/ m = c /\ node[n].up = c
  BY <1>2 DEF DownLayerLinks
<1>5. ShownIn(NodesOf(j), LinksOf(j), l) =
        {c \in composites \cup {Top} :
            \/ node[m].up = c /\ node[n].up = c
            \/ c \in composites /\ node[m].up = c /\ n = c
            \/ c \in composites /\ node[n].up = c /\ m = c}
  BY <1>3, <1>4 DEF ShownIn
<1> QED
  BY <1>1, <1>5

\* In every project that can be listed, a link is shown in one layer and no
\* other, or in none when it joins the insides of two composites.  This holds
\* whatever the tables are, so it holds of all that the services make of them.
THEOREM ShownOnce == Spec => []LinksShownOnce
<1>1. LinksShownOnce
  <2> SUFFICES ASSUME NEW j \in Project, Listed(j), IsNested(j), NEW l \in LinksIn(j)
               PROVE  Cardinality(ShownIn(NodesOf(j), LinksOf(j), l)) =
                        IF IsNear(l) THEN 1 ELSE 0
    BY DEF LinksShownOnce
  <2> DEFINE composites == UpLayerComposites(NodesOf(j))
             m == link[l].source
             n == link[l].target
             shown == ShownIn(NodesOf(j), LinksOf(j), l)
  <2>1. \A c \in composites : node[c].up = Top
    BY DEF UpLayerComposites, NodesOf
  <2>2. m \in NodesIn(j) /\ n \in NodesIn(j)
    BY ShownWhere
  <2>3. node[m].up \in composites \cup {Top} /\ node[n].up \in composites \cup {Top}
    BY <2>2 DEF IsNested
  <2>4. shown = {c \in composites \cup {Top} :
                    \/ node[m].up = c /\ node[n].up = c
                    \/ c \in composites /\ node[m].up = c /\ n = c
                    \/ c \in composites /\ node[n].up = c /\ m = c}
    BY ShownWhere
  <2> HIDE DEF composites, shown
  <2>5. CASE node[m].up = node[n].up
    <3>1. shown = {node[m].up}
      BY <2>3, <2>4, <2>5
    <3> QED
      BY <2>5, <3>1, FS_Singleton DEF IsNear, shown
  <2>6. CASE node[m].up # node[n].up /\ Holds(n, m)
    <3>1. shown = {n}
      BY <2>1, <2>3, <2>4, <2>6 DEF Holds
    <3> QED
      BY <2>6, <3>1, FS_Singleton DEF IsNear, shown
  <2>7. CASE node[m].up # node[n].up /\ Holds(m, n)
    <3>1. shown = {m}
      BY <2>1, <2>3, <2>4, <2>7 DEF Holds
    <3> QED
      BY <2>7, <3>1, FS_Singleton DEF IsNear, shown
  <2>8. CASE ~IsNear(l)
    <3>1. shown = {}
      BY <2>1, <2>4, <2>8 DEF IsNear, Holds
    <3> QED
      BY <2>8, <3>1, FS_EmptySet DEF shown
  <2> QED
    BY <2>5, <2>6, <2>7, <2>8 DEF IsNear
<1> QED
  BY <1>1, PTL
=============================================================================
