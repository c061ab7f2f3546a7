-------------------------- MODULE FlowBuildProofs --------------------------
(***************************************************************************)
(* Theorems about FlowBuild for all projects, with their proofs.           *)
(***************************************************************************)
EXTENDS FlowBuild, FiniteSetTheorems, WellFoundedInduction, TLAPS

Positions == [link : DOMAIN link, port : DOMAIN Port, hops : 0 .. MaxHops + 1]

-----------------------------------------------------------------------------
(* Types. *)

LEMMA InitType == Init => TypeOK
BY DEF Init, TypeOK, Outcomes

\* An edit forgets what the last jobs have found.
LEMMA ForgetType ==
    ASSUME TypeOK, Forget, job = "edit",
           DOMAIN port' \subseteq DOMAIN port,
           \A p \in DOMAIN port' : port'[p] = port[p],
           DOMAIN link' \subseteq DOMAIN Port,
           \A p \in DOMAIN link' :
             /\ link'[p] \in LinkRows
             /\ ValidPort(Node[link'[p].source].up, Node[link'[p].target].up,
                          Port[p].type, Port[link'[p].targetPort].type)
    PROVE  TypeOK'
<1>1. todo = {} /\ at = None
  BY DEF TypeOK
<1>2. /\ compiled' = "none" /\ loaded' = "none"
      /\ DOMAIN actual' = {}
      /\ classBytes' = classBytes /\ job' = job /\ todo' = todo /\ at' = at
  BY DEF Forget
<1> QED
  BY <1>1, <1>2 DEF TypeOK, Outcomes

LEMMA AddLinkType ==
    ASSUME TypeOK, NEW r \in LinkRequests, AddLink(r)
    PROVE  TypeOK'
<1>1. LinkOf(r) \in LinkRows
  BY DEF AddLink, LinkOf, LinkRows, TypeOK
<1>2. /\ Port[r.sourcePort] = port[r.sourcePort]
      /\ Port[r.targetPort] = port[r.targetPort]
  BY DEF AddLink, TypeOK
<1>3. ValidPort(Node[LinkOf(r).source].up, Node[LinkOf(r).target].up,
                Port[r.sourcePort].type, Port[LinkOf(r).targetPort].type)
  BY <1>2 DEF AddLink, LinkOf
<1>4. /\ DOMAIN link' = DOMAIN link \cup {r.sourcePort}
      /\ \A p \in DOMAIN link' :
           link'[p] = IF p = r.sourcePort THEN LinkOf(r) ELSE link[p]
  BY DEF AddLink
<1>5. ASSUME NEW p \in DOMAIN link'
      PROVE  /\ link'[p] \in LinkRows
             /\ ValidPort(Node[link'[p].source].up, Node[link'[p].target].up,
                          Port[p].type, Port[link'[p].targetPort].type)
  <2>1. CASE p = r.sourcePort
    BY <1>1, <1>3, <1>4, <2>1
  <2>2. CASE p # r.sourcePort
    BY <1>4, <2>2 DEF TypeOK
  <2> QED
    BY <2>1, <2>2
<1>6. DOMAIN link' \subseteq DOMAIN Port
  BY <1>4 DEF AddLink, TypeOK
<1>7. port' = port /\ Forget /\ job = "edit"
  BY DEF AddLink
<1> QED
  BY <1>5, <1>6, <1>7, ForgetType

LEMMA DeletePortType ==
    ASSUME TypeOK, NEW p \in Deletable, DeletePort(p)
    PROVE  TypeOK'
<1>1. /\ DOMAIN port' = DOMAIN port \ {p}
      /\ \A q \in DOMAIN port' : port'[q] = port[q]
      /\ link' = link /\ Forget /\ job = "edit"
  BY DEF DeletePort
<1> QED
  BY <1>1, ForgetType DEF TypeOK

LEMMA StartType ==
    ASSUME TypeOK, NEW kind \in {"compile", "load"}, Start(kind)
    PROVE  TypeOK'
<1>1. AtomicLinks \subseteq DOMAIN link
  BY DEF AtomicLinks
<1> QED
  BY <1>1 DEF Start, TypeOK, rows, Outcomes

LEMMA FollowType ==
    ASSUME TypeOK, Follow
    PROVE  TypeOK'
<1>1. PICK p \in todo : /\ at' = [link |-> p, port |-> link[p].targetPort,
                                  hops |-> 0]
                        /\ todo' = todo \ {p}
  BY DEF Follow
<1>2. p \in DOMAIN link /\ link[p].targetPort \in DOMAIN Port
  BY DEF TypeOK, LinkRows
<1>3. 0 \in 0 .. MaxHops + 1
  BY BoundAssumption
<1>4. at' \in Positions
  BY <1>1, <1>2, <1>3 DEF Positions
<1> QED
  BY <1>1, <1>4 DEF Follow, TypeOK, rows, Positions

LEMMA HopType ==
    ASSUME TypeOK, Hop
    PROVE  TypeOK'
<1>1. at \in Positions /\ at.hops <= MaxHops /\ at.port \in DOMAIN link
  BY DEF Hop, AtPort, TypeOK, Positions
<1>2. link[at.port].targetPort \in DOMAIN Port
  BY <1>1 DEF TypeOK, LinkRows
<1>3. at.hops + 1 \in 0 .. MaxHops + 1
  BY <1>1, BoundAssumption DEF Positions
<1>4. at' \in Positions
  BY <1>1, <1>2, <1>3 DEF Hop, Positions
<1>5. job # "edit"
  BY DEF Hop, AtPort, TypeOK
<1> QED
  BY <1>4, <1>5 DEF Hop, TypeOK, rows, Positions

LEMMA ReachType ==
    ASSUME TypeOK, Reach
    PROVE  TypeOK'
<1>1. at \in Positions /\ at.port \in DOMAIN port
  BY DEF Reach, AtPort, TypeOK, Positions
<1>2. Port[at.port] = port[at.port] /\ at.port \in DOMAIN Port
  BY <1>1 DEF TypeOK
<1>3. Reached \in [source : DOMAIN Node, target : ActualNodes(Node)]
  <2>1. link[at.link].source \in DOMAIN Node
    BY <1>1 DEF TypeOK, LinkRows, Positions
  <2>2. port[at.port].node \in ActualNodes(Node)
    BY <1>2, RowAssumption DEF Reach, AtAtomic, ActualNodes
  <2> QED
    BY <2>1, <2>2 DEF Reached
<1>4. /\ DOMAIN actual' = DOMAIN actual \cup {at.link}
      /\ \A p \in DOMAIN actual' :
           actual'[p] = IF p = at.link THEN Reached ELSE actual[p]
  BY DEF Reach
<1>5. actual' \in [DOMAIN actual' -> [source : DOMAIN Node,
                                     target : ActualNodes(Node)]]
  BY <1>3, <1>4 DEF Reach, TypeOK
<1>6. DOMAIN actual' \subseteq DOMAIN link
  BY <1>1, <1>4 DEF TypeOK, Positions
<1>7. at' = None /\ UNCHANGED <<port, link, classBytes, job, todo, compiled, loaded>>
  BY DEF Reach, rows
<1> QED
  BY <1>5, <1>6, <1>7 DEF TypeOK

LEMMA ConcludeType ==
    ASSUME TypeOK, NEW outcome \in Outcomes, Conclude(outcome)
    PROVE  TypeOK'
BY DEF TypeOK, Conclude, rows

LEMMA StepType == TypeOK /\ [Next]_vars => TypeOK'
<1> SUFFICES ASSUME TypeOK, [Next]_vars
             PROVE  TypeOK'
  OBVIOUS
<1>1. ASSUME NEW r \in LinkRequests, AddLink(r)
      PROVE  TypeOK'
  BY <1>1, AddLinkType
<1>2. ASSUME NEW p \in Deletable, DeletePort(p)
      PROVE  TypeOK'
  BY <1>2, DeletePortType
<1>3. CASE Start("compile") \/ Start("load")
  BY <1>3, StartType
<1>4. CASE Follow
  BY <1>4, FollowType
<1>5. CASE Hop
  BY <1>5, HopType
<1>6. CASE Reach
  BY <1>6, ReachType
<1>7. CASE Compile \/ Load \/ Throw
  BY <1>7, ConcludeType DEF Compile, Load, Throw, Outcomes
<1>8. CASE UNCHANGED vars
  BY <1>8 DEF vars, TypeOK
<1> QED
  BY <1>1, <1>2, <1>3, <1>4, <1>5, <1>6, <1>7, <1>8 DEF Next, Work

\* FlowBuild keeps its types: links are as validPort wants them, a link is
\* followed for MaxHops + 1 hops at most, and actual links end at atomic nodes.
THEOREM TypeCorrect == Spec => []TypeOK
<1> QED
  BY InitType, StepType, PTL DEF Spec

-----------------------------------------------------------------------------
(* Hops. *)

\* HopsAreFew with what it rests on: only a first-layer node is entered by its
\* output port.
HopsInv ==
    OwnPorts /\ at # None =>
        /\ Port[at.port].type = "OUTPUT_PORT" => Node[Port[at.port].node].up = Top
        /\ at.hops + Ahead(at.port) <= 2

\* The port a link leads to.
LEMMA TargetOut ==
    ASSUME TypeOK, OwnPorts, NEW p \in DOMAIN link
    PROVE  /\ link[p].targetPort \in DOMAIN Port
           /\ LET q == link[p].targetPort
              IN  Port[q].type = "OUTPUT_PORT" => Node[Port[q].node].up = Top
BY DEF TypeOK, OwnPorts, LinkRows, ValidPort, SameLayer

\* A link between composite ports leads on: out of a composite, then into one.
LEMMA AheadFalls ==
    ASSUME TypeOK, OwnPorts, NEW p \in DOMAIN link,
           Port[p].type = "OUTPUT_PORT" => Node[Port[p].node].up = Top
    PROVE  Ahead(link[p].targetPort) + 1 <= Ahead(p)
<1> DEFINE q == link[p].targetPort
<1>1. p \in DOMAIN Port /\ q \in DOMAIN Port
  BY TargetOut DEF TypeOK
<1>2. Port[p].type \in PortTypes /\ Port[q].type \in PortTypes
  BY <1>1, RowAssumption
<1>3. ValidPort(Node[Port[p].node].up, Node[Port[q].node].up,
                Port[p].type, Port[q].type)
  BY DEF TypeOK, OwnPorts
<1>4. CASE Port[p].type = "OUTPUT_PORT"
  BY <1>3, <1>4 DEF Ahead, ValidPort, SameLayer
<1>5. CASE Port[p].type = "INPUT_PORT"
  BY <1>3, <1>5 DEF Ahead, ValidPort, SameLayer
<1> QED
  BY <1>2, <1>4, <1>5 DEF PortTypes

LEMMA HopsStep == TypeOK /\ HopsInv /\ [Next]_vars => HopsInv'
<1> SUFFICES ASSUME TypeOK, HopsInv, [Next]_vars, OwnPorts', at' # None
             PROVE  HopsInv'
  BY DEF HopsInv
<1>1. CASE Follow
  <2>1. PICK p \in todo : at' = [link |-> p, port |-> link[p].targetPort,
                                 hops |-> 0]
    BY <1>1 DEF Follow
  <2>2. link' = link /\ OwnPorts /\ p \in DOMAIN link
    BY <1>1 DEF Follow, rows, OwnPorts, TypeOK
  <2>3. at'.port = link[p].targetPort /\ at'.hops = 0
    BY <2>1
  <2>4. Ahead(at'.port) \in 0 .. 2
    BY DEF Ahead
  <2> QED
    BY <2>2, <2>3, <2>4, TargetOut DEF HopsInv, Ahead
<1>2. CASE Hop
  <2>1. link' = link /\ OwnPorts /\ at # None /\ at.port \in DOMAIN link
    BY <1>2 DEF Hop, AtPort, rows, OwnPorts
  <2>2. at \in Positions
    BY <2>1 DEF TypeOK, Positions
  <2>3. at'.port = link[at.port].targetPort /\ at'.hops = at.hops + 1
    BY <1>2, <2>2 DEF Hop, Positions
  <2>4. Ahead(at'.port) + 1 <= Ahead(at.port)
    BY <2>1, <2>3, AheadFalls DEF HopsInv
  <2>5. at.hops \in Nat /\ Ahead(at.port) \in Nat /\ Ahead(at'.port) \in Nat
    BY <2>2, BoundAssumption DEF Positions, Ahead
  <2>6. at'.hops + Ahead(at'.port) <= 2
    BY <2>1, <2>3, <2>4, <2>5 DEF HopsInv
  <2> QED
    BY <2>1, <2>3, <2>6, TargetOut DEF HopsInv, Ahead
<1>3. CASE Reach \/ Compile \/ Load \/ Throw \/ Start("compile") \/ Start("load")
  BY <1>3 DEF Reach, Compile, Load, Throw, Conclude, Start
<1>4. CASE \/ \E r \in LinkRequests : AddLink(r)
           \/ \E p \in Deletable : DeletePort(p)
  BY <1>4 DEF AddLink, DeletePort, Forget, TypeOK
<1>5. CASE UNCHANGED vars
  BY <1>5 DEF vars, HopsInv, OwnPorts, Ahead
<1> QED
  BY <1>1, <1>2, <1>3, <1>4, <1>5 DEF Next, Work

\* With links that name the owners of their ports, the loop of getActualLinks
\* leaves the composites after two hops, in every project: the limit of 90000
\* matters only for links that name other nodes.
THEOREM FewHops == Spec => []HopsAreFew
<1>1. Init => HopsInv
  BY DEF Init, HopsInv
<1>2. HopsInv => HopsAreFew
  BY DEF HopsInv, HopsAreFew
<1> QED
  BY <1>1, <1>2, HopsStep, TypeCorrect, PTL DEF Spec

-----------------------------------------------------------------------------
(* What is compiled.  Where link p leads is defined without following it: a *)
(* follow set has its target port and, with each linked port of a composite *)
(* node, the port on the other side.                                        *)

IsAtomicPort(q) == Node[Port[q].node].view = "ATOMIC"

FollowSets(p) ==
    {S \in SUBSET DOMAIN Port :
        /\ link[p].targetPort \in S
        /\ \A q \in S : \/ q \notin DOMAIN link
                        \/ IsAtomicPort(q)
                        \/ link[q].targetPort \in S}

LeadsTo(p, n) ==
    /\ \A S \in FollowSets(p) : \E q \in S : IsAtomicPort(q) /\ Port[q].node = n
    /\ \E S \in FollowSets(p) : \A q \in S : IsAtomicPort(q) => Port[q].node = n

LEMMA LeadsToOne ==
    ASSUME NEW p, NEW m, NEW n, LeadsTo(p, m), LeadsTo(p, n)
    PROVE  m = n
BY DEF LeadsTo

\* The loop goes on from port x.
IsPassed(x, S) ==
    /\ ~IsAtomicPort(x)
    /\ x \in DOMAIN port \cap DOMAIN link
    /\ link[x].targetPort \in S

\* The ports that have been passed when link p has been followed to port q: all
\* of them cannot be avoided.
Trails(p, q) ==
    {S \in SUBSET DOMAIN Port :
        /\ link[p].targetPort \in S
        /\ q \in S
        /\ \A x \in S : x = q \/ IsPassed(x, S)
        /\ \A T \in FollowSets(p) : S \subseteq T}

\* The trail of a link that leads to an atomic node, in as many hops as the loop
\* allows.
Ways(p) ==
    {S \in SUBSET DOMAIN Port :
        /\ Cardinality(S) <= MaxHops + 1
        /\ \E r \in DOMAIN port : IsAtomicPort(r) /\ S \in Trails(p, r)}

Flows == [AtomicLinks -> [source : DOMAIN Node, target : ActualNodes(Node)]]

LeadsRight(flow, p) ==
    flow[p].source = link[p].source /\ LeadsTo(p, flow[p].target)

IsFlow(flow) == flow \in Flows /\ \A p \in AtomicLinks : LeadsRight(flow, p)

LEMMA OneFlow ==
    ASSUME NEW f, NEW g, IsFlow(f), IsFlow(g)
    PROVE  f = g
<1>1. ASSUME NEW p \in AtomicLinks
      PROVE  f[p] = g[p]
  <2>1. f[p].source = g[p].source
    BY DEF IsFlow, LeadsRight
  <2>2. f[p].target = g[p].target
    BY LeadsToOne DEF IsFlow, LeadsRight
  <2>3. /\ f[p] \in [source : DOMAIN Node, target : ActualNodes(Node)]
        /\ g[p] \in [source : DOMAIN Node, target : ActualNodes(Node)]
    BY DEF IsFlow, Flows
  <2> QED
    BY <2>1, <2>2, <2>3
<1>2. f \in Flows /\ g \in Flows
  BY DEF IsFlow
<1> QED
  BY <1>1, <1>2 DEF Flows

-----------------------------------------------------------------------------
\* The parts of the invariant: the finished links, the link at hand, that no
\* link is left out, what was compiled, and what is there now.
FoundInv == \A p \in DOMAIN actual : LeadsRight(actual, p) /\ Ways(p) # {}

\* Each hop adds a port to the trail, unless the trail is a cycle.
Counted(S, hops) ==
    \/ \A x \in S : IsPassed(x, S)
    \/ Cardinality(S) = hops + 1

TrailInv ==
    at # None =>
        /\ at.link \in AtomicLinks
        /\ \E S \in Trails(at.link, at.port) : Counted(S, at.hops)

WholeInv ==
    job # "edit" =>
        /\ todo \subseteq AtomicLinks
        /\ DOMAIN actual \subseteq AtomicLinks
        /\ \A p \in AtomicLinks : \/ p \in DOMAIN actual \cup todo
                                  \/ at # None /\ p = at.link

CompiledInv ==
    compiled = "ok" =>
        /\ \E f \in Flows : IsFlow(f) /\ IsScripted(f)
        /\ \A p \in AtomicLinks : Ways(p) # {}

CurrentInv ==
    IF job = "edit"
    THEN compiled = "ok" => IsFlow(actual) /\ (loaded = "failed" => ~IsLoadable)
    ELSE loaded = "none"

FlowInv == FoundInv /\ TrailInv /\ WholeInv /\ CompiledInv /\ CurrentInv

\* A job changes none of the rows, so nothing that is said of them.
LEMMA RowsKeep ==
    ASSUME UNCHANGED rows
    PROVE  /\ AtomicLinks' = AtomicLinks
           /\ Flows' = Flows
           /\ \A p : FollowSets(p)' = FollowSets(p)
           /\ \A p, q : Trails(p, q)' = Trails(p, q)
           /\ \A p : Ways(p)' = Ways(p)
           /\ \A x, S : IsPassed(x, S)' = IsPassed(x, S)
           /\ \A S, n : Counted(S, n)' = Counted(S, n)
           /\ \A p, n : LeadsTo(p, n)' = LeadsTo(p, n)
           /\ \A f, p : LeadsRight(f, p)' = LeadsRight(f, p)
           /\ \A f : IsFlow(f)' = IsFlow(f)
           /\ \A f : IsScripted(f)' = IsScripted(f)
<1> USE DEF rows
<1>1. AtomicLinks' = AtomicLinks /\ Flows' = Flows
  BY DEF AtomicLinks, Flows
<1>2. \A p : FollowSets(p)' = FollowSets(p)
  BY DEF FollowSets
<1>3. \A x, S : IsPassed(x, S)' = IsPassed(x, S)
  BY DEF IsPassed
<1>4. /\ \A p, q : Trails(p, q)' = Trails(p, q)
      /\ \A S, n : Counted(S, n)' = Counted(S, n)
  BY <1>2, <1>3 DEF Trails, Counted
<1>5. \A p : Ways(p)' = Ways(p)
  BY <1>4 DEF Ways
<1>6. \A p, n : LeadsTo(p, n)' = LeadsTo(p, n)
  BY <1>2 DEF LeadsTo
<1>7. \A f, p : LeadsRight(f, p)' = LeadsRight(f, p)
  BY <1>6 DEF LeadsRight
<1>8. /\ \A f : IsFlow(f)' = IsFlow(f)
      /\ \A f : IsScripted(f)' = IsScripted(f)
  BY <1>1, <1>7 DEF IsFlow, IsScripted
<1> QED
  BY <1>1, <1>2, <1>3, <1>4, <1>5, <1>6, <1>7, <1>8

\* The counted trail of the link at hand, too.
LEMMA TrailKeep ==
    ASSUME UNCHANGED rows, UNCHANGED at, TrailInv
    PROVE  TrailInv'
BY RowsKeep DEF TrailInv

LEMMA CompiledKeep ==
    ASSUME UNCHANGED rows, UNCHANGED compiled, CompiledInv
    PROVE  CompiledInv'
<1>1. CASE compiled = "ok"
  <2>1. PICK f \in Flows : IsFlow(f) /\ IsScripted(f)
    BY <1>1 DEF CompiledInv
  <2>2. f \in Flows' /\ IsFlow(f)' /\ IsScripted(f)'
    BY <2>1, RowsKeep
  <2>3. (\A p \in AtomicLinks : Ways(p) # {})'
    BY <1>1, RowsKeep DEF CompiledInv
  <2> QED
    BY <2>2, <2>3 DEF CompiledInv
<1>2. CASE compiled # "ok"
  BY <1>2 DEF CompiledInv
<1> QED
  BY <1>1, <1>2

LEMMA EditFlow ==
    ASSUME TypeOK, job = "edit", Forget
    PROVE  FlowInv'
<1>1. at' = None /\ job' = "edit" /\ compiled' = "none" /\ DOMAIN actual' = {}
  BY DEF Forget, TypeOK
<1> QED
  BY <1>1 DEF FlowInv, FoundInv, TrailInv, WholeInv, CompiledInv, CurrentInv

LEMMA StartFlow ==
    ASSUME FlowInv, NEW kind \in {"compile", "load"}, Start(kind)
    PROVE  FlowInv'
<1>1. UNCHANGED rows /\ job' # "edit" /\ at' = None /\ todo' = AtomicLinks
      /\ DOMAIN actual' = {} /\ (compiled' = compiled \/ compiled' = "none")
      /\ loaded' = "none"
  BY DEF Start
<1>2. CompiledInv'
  BY <1>1, CompiledKeep DEF FlowInv, CompiledInv
<1> QED
  BY <1>1, <1>2, RowsKeep
     DEF FlowInv, FoundInv, TrailInv, WholeInv, CurrentInv

LEMMA FollowFlow ==
    ASSUME TypeOK, FlowInv, Follow
    PROVE  FlowInv'
<1>1. PICK p \in todo : /\ at' = [link |-> p, port |-> link[p].targetPort,
                                  hops |-> 0]
                        /\ todo' = todo \ {p}
  BY DEF Follow
<1>2. UNCHANGED <<rows, job, actual, compiled, loaded>> /\ job # "edit" /\ at = None
  BY DEF Follow
<1>3. p \in AtomicLinks /\ p \in DOMAIN link
  BY <1>2 DEF FlowInv, WholeInv, TypeOK
<1>4. at'.link = p /\ at'.port = link[p].targetPort
  BY <1>1
<1>5. TrailInv'
  <2> DEFINE S == {link[p].targetPort}
  <2>1. S \in Trails(p, link[p].targetPort)
    BY <1>3 DEF Trails, FollowSets, TypeOK, LinkRows
  <2>2. Cardinality(S) = 1
    BY FS_Singleton
  <2>3. Counted(S, at'.hops)
    BY <1>1, <2>2 DEF Counted
  <2> QED
    BY <1>2, <1>3, <1>4, <2>1, <2>3, RowsKeep DEF TrailInv
<1>6. FoundInv'
  BY <1>2, RowsKeep DEF FlowInv, FoundInv
<1>7. WholeInv'
  <2>1. at' # None
    BY <1>1, <1>3, BoundAssumption DEF TypeOK, LinkRows
  <2> QED
    BY <1>1, <1>2, <1>4, <2>1, RowsKeep DEF FlowInv, WholeInv
<1>8. CompiledInv' /\ CurrentInv'
  BY <1>2, CompiledKeep DEF FlowInv, CurrentInv
<1> QED
  BY <1>5, <1>6, <1>7, <1>8 DEF FlowInv

LEMMA HopFlow ==
    ASSUME TypeOK, FlowInv, Hop
    PROVE  FlowInv'
<1> DEFINE next == link[at.port].targetPort
<1>1. /\ at # None /\ at \in Positions /\ at.port \in DOMAIN link
      /\ at.port \in DOMAIN port /\ ~IsAtomicPort(at.port)
  BY DEF Hop, AtPort, AtAtomic, IsAtomicPort, TypeOK, Positions
<1>2. UNCHANGED <<rows, job, todo, actual, compiled, loaded>>
  BY DEF Hop
<1>3. /\ at'.link = at.link /\ at'.port = next /\ at'.hops = at.hops + 1
      /\ job # "edit" /\ at.hops \in Nat
  BY <1>1, BoundAssumption DEF Hop, Positions, TypeOK
<1>4. at' # None
  <2>1. next \in DOMAIN Port /\ at.hops + 1 \in Nat
    BY <1>1, BoundAssumption DEF Positions, TypeOK, LinkRows
  <2>2. at' \in [link : DOMAIN Port, port : DOMAIN Port, hops : Nat]
    BY <1>1, <2>1 DEF Hop, Positions, TypeOK
  <2> QED
    BY <2>2, BoundAssumption
<1>5. PICK S \in Trails(at.link, at.port) : Counted(S, at.hops)
  BY <1>1 DEF FlowInv, TrailInv
<1> DEFINE R == S \cup {next}
<1>6. next \in DOMAIN Port
  BY <1>1 DEF TypeOK, LinkRows
<1>7. \A x \in S : IsPassed(x, R)
  <2>1. IsPassed(at.port, R)
    BY <1>1 DEF IsPassed
  <2>2. \A x \in S : x # at.port => IsPassed(x, S)
    BY <1>5 DEF Trails
  <2>3. \A x \in S : x # at.port => IsPassed(x, R)
    BY <2>2 DEF IsPassed
  <2> QED
    BY <2>1, <2>3
<1>8. \A T \in FollowSets(at.link) : next \in T
  BY <1>1, <1>5 DEF Trails, FollowSets
<1>9. R \in Trails(at.link, next)
  BY <1>5, <1>6, <1>7, <1>8 DEF Trails
<1>10. Counted(R, at'.hops)
  <2>1. CASE next \in S
    <3>1. \A x \in R : IsPassed(x, R)
      BY <1>7, <2>1
    <3> QED
      BY <3>1 DEF Counted
  <2>2. CASE next \notin S
    <3>1. ~ \A x \in S : IsPassed(x, S)
      BY <1>1, <1>5, <2>2 DEF Trails, IsPassed
    <3>2. Cardinality(S) = at.hops + 1
      BY <1>5, <3>1 DEF Counted
    <3>3. IsFiniteSet(S)
      BY <1>5, RowAssumption, FS_Subset DEF Trails
    <3>4. Cardinality(R) = Cardinality(S) + 1
      BY <2>2, <3>3, FS_AddElement
    <3>5. Cardinality(R) = at'.hops + 1
      BY <1>3, <3>2, <3>4
    <3> QED
      BY <3>5 DEF Counted
  <2> QED
    BY <2>1, <2>2
<1>11. TrailInv'
  BY <1>1, <1>2, <1>3, <1>9, <1>10, RowsKeep DEF TrailInv, FlowInv
<1>12. FoundInv' /\ WholeInv' /\ CompiledInv' /\ CurrentInv'
  BY <1>1, <1>2, <1>3, <1>4, RowsKeep, CompiledKeep
     DEF FlowInv, FoundInv, WholeInv, CurrentInv
<1> QED
  BY <1>11, <1>12 DEF FlowInv

LEMMA ReachFlow ==
    ASSUME TypeOK, FlowInv, Reach
    PROVE  FlowInv'
<1>1. /\ at # None /\ at \in Positions /\ IsAtomicPort(at.port)
      /\ at.port \in DOMAIN port /\ at.hops <= MaxHops
      /\ port[at.port].node = Port[at.port].node
  BY DEF Reach, AtPort, AtAtomic, IsAtomicPort, TypeOK, Positions
<1>2. UNCHANGED <<rows, job, todo, compiled, loaded>> /\ at' = None
  BY DEF Reach
<1>3. /\ DOMAIN actual' = DOMAIN actual \cup {at.link}
      /\ \A p \in DOMAIN actual' :
           actual'[p] = IF p = at.link THEN Reached ELSE actual[p]
  BY DEF Reach
<1>4. PICK S \in Trails(at.link, at.port) : Counted(S, at.hops)
  BY <1>1 DEF FlowInv, TrailInv
<1>5. LeadsTo(at.link, port[at.port].node)
  <2>1. S \in FollowSets(at.link)
    BY <1>1, <1>4 DEF Trails, FollowSets, IsPassed
  <2>2. \A q \in S : IsAtomicPort(q) => Port[q].node = port[at.port].node
    BY <1>1, <1>4 DEF Trails, IsPassed
  <2>3. \A T \in FollowSets(at.link) : at.port \in T
    BY <1>4 DEF Trails
  <2> QED
    BY <1>1, <2>1, <2>2, <2>3 DEF LeadsTo
<1>6. S \in Ways(at.link)
  <2>1. at.port \in S /\ ~IsPassed(at.port, S)
    BY <1>1, <1>4 DEF Trails, IsPassed
  <2>2. Cardinality(S) = at.hops + 1
    BY <1>4, <2>1 DEF Counted
  <2>3. at.hops + 1 <= MaxHops + 1
    BY <1>1, BoundAssumption DEF Positions
  <2> QED
    BY <1>1, <1>4, <2>2, <2>3 DEF Ways, Trails
<1>7. FoundInv'
  <2>1. ASSUME NEW p \in DOMAIN actual'
        PROVE  LeadsRight(actual', p) /\ Ways(p) # {}
    <3>1. CASE p = at.link
      BY <1>3, <1>5, <1>6, <3>1 DEF LeadsRight, Reached
    <3>2. CASE p # at.link
      BY <1>3, <3>2 DEF FlowInv, FoundInv, LeadsRight
    <3> QED
      BY <3>1, <3>2
  <2> QED
    BY <1>2, <2>1, RowsKeep DEF FoundInv
<1>8. job # "edit"
  BY <1>1 DEF TypeOK
<1>9. WholeInv'
  BY <1>1, <1>2, <1>3, <1>8, RowsKeep DEF FlowInv, WholeInv, TrailInv
<1>10. TrailInv' /\ CompiledInv' /\ CurrentInv'
  BY <1>2, <1>8, CompiledKeep DEF FlowInv, TrailInv, CurrentInv
<1> QED
  BY <1>7, <1>9, <1>10 DEF FlowInv

\* When all links are done the actual links are the flow.
LEMMA TracedFlow ==
    ASSUME TypeOK, FlowInv, job # "edit", Traced
    PROVE  IsFlow(actual) /\ actual \in Flows
<1>1. DOMAIN actual = AtomicLinks
  BY DEF FlowInv, WholeInv, Traced
<1>2. actual \in Flows
  BY <1>1 DEF TypeOK, Flows
<1> QED
  BY <1>1, <1>2 DEF IsFlow, FlowInv, FoundInv

\* A link that has once been followed to its end is not lost: no set of ports is
\* larger than its way, and a cycle would be one without an atomic port.
LEMMA NotLost ==
    ASSUME TypeOK, FlowInv, at # None, Ways(at.link) # {}
    PROVE  ~IsLost
<1>1. PICK W \in Ways(at.link) : TRUE
  OBVIOUS
<1>2. PICK r \in DOMAIN port : IsAtomicPort(r) /\ W \in Trails(at.link, r)
  BY <1>1 DEF Ways
<1>3. PICK S \in Trails(at.link, at.port) : Counted(S, at.hops)
  BY DEF FlowInv, TrailInv
<1>4. W \in FollowSets(at.link) /\ S \subseteq W
  BY <1>2, <1>3 DEF Trails, FollowSets, IsPassed
<1>5. at.port \in W /\ at \in Positions
  BY <1>3, <1>4 DEF Trails, TypeOK, Positions
<1>6. at.port = r \/ at.port \in DOMAIN port \cap DOMAIN link
  BY <1>2, <1>5 DEF Trails, IsPassed
<1>7. ~ \A x \in S : IsPassed(x, S)
  <2> SUFFICES ASSUME \A x \in S : IsPassed(x, S)
               PROVE  FALSE
    OBVIOUS
  <2>1. S \in FollowSets(at.link)
    BY <1>3 DEF Trails, FollowSets, IsPassed
  <2>2. r \in S
    BY <1>2, <2>1 DEF Trails
  <2> QED
    BY <1>2, <2>2 DEF IsPassed
<1>8. at.hops <= MaxHops
  <2>1. IsFiniteSet(W)
    BY <1>1, RowAssumption, FS_Subset DEF Ways
  <2>2. /\ Cardinality(S) <= Cardinality(W)
        /\ Cardinality(W) \in Nat /\ Cardinality(S) \in Nat
    BY <1>4, <2>1, FS_Subset, FS_CardinalityType
  <2>3. Cardinality(W) <= MaxHops + 1
    BY <1>1 DEF Ways
  <2>4. Cardinality(S) = at.hops + 1
    BY <1>3, <1>7 DEF Counted
  <2>5. at.hops \in Nat
    BY <1>5 DEF Positions
  <2> QED
    BY <2>2, <2>3, <2>4, <2>5, BoundAssumption
<1>9. r \in DOMAIN port /\ (AtPort /\ at.port = r => AtAtomic)
  BY <1>2 DEF AtAtomic, IsAtomicPort, TypeOK
<1> QED
  BY <1>5, <1>6, <1>8, <1>9, BoundAssumption DEF IsLost, Positions

LEMMA ConcludeFlow ==
    ASSUME TypeOK, FlowInv, Compile \/ Load \/ Throw
    PROVE  FlowInv'
<1>1. /\ UNCHANGED <<rows, classBytes, actual>>
      /\ job' = "edit" /\ at' = None /\ job # "edit"
      /\ \/ compiled' = compiled \/ compiled' # "ok" \/ Compile
  BY DEF Compile, Load, Throw, Conclude
<1>2. FoundInv' /\ TrailInv' /\ WholeInv'
  BY <1>1, RowsKeep DEF FlowInv, FoundInv, TrailInv, WholeInv
<1>3. CompiledInv'
  <2>1. CASE Compile
    <3>1. actual \in Flows /\ IsFlow(actual) /\ IsScripted(actual)
      BY <2>1, TracedFlow DEF Compile
    <3>2. \A p \in AtomicLinks : Ways(p) # {}
      BY <3>1 DEF FlowInv, FoundInv, Flows
    <3>3. PICK f \in Flows : IsFlow(f) /\ IsScripted(f)
      BY <3>1
    <3>4. (\A p \in AtomicLinks : Ways(p) # {})'
      BY <1>1, <3>2, RowsKeep
    <3>5. f \in Flows' /\ IsFlow(f)' /\ IsScripted(f)'
      BY <1>1, <3>3, RowsKeep
    <3> QED
      BY <3>4, <3>5 DEF CompiledInv
  <2>2. CASE ~Compile
    BY <1>1, <2>2, CompiledKeep DEF FlowInv, CompiledInv
  <2> QED
    BY <2>1, <2>2
<1>4. CurrentInv'
  <2> SUFFICES ASSUME compiled' = "ok"
               PROVE  (IsFlow(actual) /\ (loaded = "failed" => ~IsLoadable))'
    BY <1>1 DEF CurrentInv
  <2>1. loaded = "none"
    BY <1>1 DEF FlowInv, CurrentInv
  <2>2. ASSUME Throw, job = "load"
        PROVE  ~IsLost
    <3>1. compiled = "ok"
      BY <2>2 DEF Throw, Conclude
    <3>2. CASE at # None
      <4>1. Ways(at.link) # {}
        BY <3>1, <3>2 DEF FlowInv, TrailInv, CompiledInv
      <4> QED
        BY <3>2, <4>1, NotLost
    <3>3. CASE at = None
      BY <3>3 DEF IsLost
    <3> QED
      BY <3>2, <3>3
  <2>3. Traced
    BY <2>2 DEF Compile, Load, Throw, Conclude
  <2>4. IsFlow(actual)'
    BY <1>1, <2>3, TracedFlow, RowsKeep
  <2>5. loaded' = "failed" => ~IsLoadable
    BY <2>1, <2>2 DEF Compile, Load, Throw, Conclude
  <2>6. IsLoadable' = IsLoadable
    BY <1>1 DEF rows, IsLoadable
  <2> QED
    BY <2>4, <2>5, <2>6
<1> QED
  BY <1>2, <1>3, <1>4 DEF FlowInv

LEMMA FlowStep == TypeOK /\ FlowInv /\ [Next]_vars => FlowInv'
<1> SUFFICES ASSUME TypeOK, FlowInv, [Next]_vars
             PROVE  FlowInv'
  OBVIOUS
<1>1. CASE \/ \E r \in LinkRequests : AddLink(r)
           \/ \E p \in Deletable : DeletePort(p)
  BY <1>1, EditFlow DEF AddLink, DeletePort
<1>2. CASE Start("compile") \/ Start("load")
  BY <1>2, StartFlow
<1>3. CASE Work
  BY <1>3, FollowFlow, HopFlow, ReachFlow, ConcludeFlow DEF Work
<1>4. CASE UNCHANGED vars
  <2>1. UNCHANGED <<rows, job, todo, at, actual, compiled, loaded>>
    BY <1>4 DEF vars, rows
  <2>2. FoundInv' /\ TrailInv' /\ WholeInv'
    BY <2>1, RowsKeep, TrailKeep DEF FlowInv, FoundInv, WholeInv
  <2>3. CurrentInv'
    BY <1>4, <2>1, RowsKeep DEF FlowInv, CurrentInv, vars, IsLoadable, rows
  <2> QED
    BY <2>1, <2>2, <2>3, CompiledKeep DEF FlowInv
<1> QED
  BY <1>1, <1>2, <1>3, <1>4 DEF Next

LEMMA ScriptedIsWalkable ==
    ASSUME IsScripted(actual), NEW n \in ValidNodes(actual)
    PROVE  n \in ActualNodes(Node) /\ Walkable(n)
<1> DEFINE children == RtChildren(Node, actual)[n]
<1>1. HasTaskScript(Node, port, actual, n)
  BY DEF IsScripted
<1>2. n \in ActualNodes(Node)
  BY <1>1 DEF HasTaskScript
<1>3. CASE LinksFrom(actual, n) = {}
  BY <1>1, <1>2, <1>3 DEF HasTaskScript, Walkable, EndNodes
<1>4. CASE LinksFrom(actual, n) # {}
  <2>1. n \notin EndNodes(Node, actual)
    BY <1>4 DEF EndNodes
  <2>2. children = Successors(actual, n)
    BY <2>1 DEF RtChildren
  <2>3. children # {}
    BY <1>4, <2>2 DEF Successors
  <2>4. ASSUME Node[n].task = "ROUTE", NEW p \in OutputPortsOf(Node, port, n)
        PROVE  p \in DOMAIN actual /\ actual[p].target \in children
    <3>1. p \in LinksFrom(actual, n)
      BY <1>1, <1>4, <2>4 DEF HasTaskScript, RouteIsWired
    <3> QED
      BY <3>1, <2>2 DEF LinksFrom, Successors
  <2> QED
    BY <1>2, <2>3, <2>4 DEF Walkable
<1> QED
  BY <1>2, <1>3, <1>4

LEMMA FlowCorrect == Spec => []FlowInv
<1>1. Init => FlowInv
  BY DEF Init, FlowInv, FoundInv, TrailInv, WholeInv, CompiledInv, CurrentInv
<1> QED
  BY <1>1, FlowStep, TypeCorrect, PTL DEF Spec

\* In the editor, a flow that has been compiled is the actual flow.
LEMMA CompiledIsScripted ==
    ASSUME FlowInv, job = "edit", compiled = "ok"
    PROVE  IsScripted(actual)
<1>1. PICK f \in Flows : IsFlow(f) /\ IsScripted(f)
  BY DEF FlowInv, CompiledInv
<1> QED
  BY <1>1, OneFlow DEF FlowInv, CurrentInv

\* In every project, a flow that vs-adapter has compiled and vs-run has not
\* refused can be walked from its one start node.  The flow that vs-run has made
\* is the one that was compiled, for a link leads to one node only.
THEOREM SoundFlow == Spec => []CompiledFlowIsSound
<1>1. FlowInv => CompiledFlowIsSound
  <2> SUFFICES ASSUME FlowInv, job = "edit", compiled = "ok", loaded # "failed"
               PROVE  /\ Cardinality(StartNodes(Node, actual)) = 1
                      /\ \A n \in ValidNodes(actual) :
                           n \in ActualNodes(Node) /\ Walkable(n)
    BY DEF CompiledFlowIsSound
  <2>1. IsScripted(actual)
    BY CompiledIsScripted
  <2>2. \E n \in StartNodes(Node, actual) : StartNodes(Node, actual) = {n}
    BY <2>1 DEF IsScripted, HasNodeIds
  <2>3. Cardinality(StartNodes(Node, actual)) = 1
    BY <2>2, FS_Singleton
  <2> QED
    BY <2>1, <2>3, ScriptedIsWalkable
<1> QED
  BY <1>1, FlowCorrect, PTL

\* In every project, vs-run refuses a flow that vs-adapter has compiled for two
\* reasons only, class bytes and the ports of HTTP nodes.  In particular the loop of
\* getActualLinks never loses a link it has followed to its end before.
THEOREM CompiledLoads == Spec => []CompiledFlowLoads
<1>1. FlowInv => CompiledFlowLoads
  <2> SUFFICES ASSUME FlowInv, job = "edit", compiled = "ok", loaded = "failed",
                      ValidNodes(actual) \subseteq classBytes,
                      BreakersFit(Node, port)
               PROVE  FALSE
    BY DEF CompiledFlowLoads
  <2>1. IsScripted(actual)
    BY CompiledIsScripted
  <2>2. HasNodeIds(Node, actual) /\ ValidNodes(actual) \subseteq ActualNodes(Node)
    BY <2>1 DEF IsScripted, HasTaskScript
  <2>3. ~IsLoadable
    BY DEF FlowInv, CurrentInv
  <2> QED
    BY <2>2, <2>3 DEF IsLoadable
<1> QED
  BY <1>1, FlowCorrect, PTL

-----------------------------------------------------------------------------
(* The ports on the way, found without counting.  Induction over 0 .. N is   *)
(* stated of the set of the numbers for which something holds.             *)

LEMMA LeastNat ==
    ASSUME NEW T \in SUBSET Nat, T # {}
    PROVE  \E n \in T : \A m \in T : n <= m
<1> DEFINE less == {ss \in Nat \X Nat : ss[1] < ss[2]}
<1>1. IsWellFoundedOn(less, Nat)
  BY NatLessThanWellFounded DEF OpToRel
<1>2. PICK n \in T : \A m \in T : <<m, n>> \notin less
  <2> HIDE DEF less
  <2> QED
    BY <1>1, WFMin
<1>3. ASSUME NEW m \in T
      PROVE  n <= m
  <2>1. m \in Nat /\ n \in Nat /\ ~(m < n)
    BY <1>2
  <2> QED
    BY <2>1
<1> QED
  BY <1>3

LEMMA UpTo ==
    ASSUME NEW N \in Nat, NEW T, 0 \in T,
           \A i \in 0 .. N : i # N /\ i \in T => i + 1 \in T
    PROVE  0 .. N \subseteq T
<1> DEFINE bad == 0 .. N \ T
<1> SUFFICES ASSUME bad # {}
             PROVE  FALSE
  OBVIOUS
<1>1. PICK k \in bad : \A m \in bad : k <= m
  <2>1. bad \in SUBSET Nat
    OBVIOUS
  <2> HIDE DEF bad
  <2> QED
    BY <2>1, LeastNat
<1>2. k # 0 /\ k - 1 \in 0 .. N
  OBVIOUS
<1>3. k - 1 \in T
  BY <1>1, <1>2
<1> QED
  BY <1>2, <1>3

\* Where every step of a recursion stays in S, there is a function that obeys it.
Obeys(g, base, step, N) ==
    g[0] = base /\ \A i \in 1 .. N : g[i] = step[g[i - 1]]

LEMMA Recursion ==
    ASSUME NEW S, NEW base \in S, NEW step \in [S -> S], NEW N \in Nat
    PROVE  \E g \in [0 .. N -> S] : Obeys(g, base, step, N)
<1> USE DEF Obeys
<1> DEFINE good == {k \in 0 .. N : \E g \in [0 .. k -> S] : Obeys(g, base, step, k)}
<1>1. 0 \in good
  <2> DEFINE g == [i \in 0 .. 0 |-> base]
  <2>1. g \in [0 .. 0 -> S] /\ Obeys(g, base, step, 0)
    OBVIOUS
  <2> HIDE DEF g
  <2> QED
    BY <2>1
<1>2. ASSUME NEW k \in 0 .. N, k # N, k \in good
      PROVE  k + 1 \in good
  <2>1. PICK g \in [0 .. k -> S] : Obeys(g, base, step, k)
    BY <1>2
  <2> DEFINE h == [i \in 0 .. k + 1 |-> IF i = k + 1 THEN step[g[k]] ELSE g[i]]
  <2>2. h \in [0 .. k + 1 -> S]
    BY <2>1
  <2>3. Obeys(h, base, step, k + 1)
    BY <2>1
  <2>4. k + 1 \in 0 .. N
    BY <1>2
  <2> HIDE DEF h
  <2> QED
    BY <2>2, <2>3, <2>4
<1>3. 0 .. N \subseteq good
  <2> HIDE DEF good
  <2> QED
    BY <1>1, <1>2, UpTo
<1> QED
  BY <1>3

\* PassedBy is the least follow set: as long as it grows it grows by a port in
\* each round, so it has stopped growing after as many rounds as there are ports.
LEMMA PassedByIsLeast ==
    ASSUME TypeOK, NEW p \in DOMAIN link
    PROVE  /\ PassedBy(p) \in FollowSets(p)
           /\ \A S \in FollowSets(p) : PassedBy(p) \subseteq S
<1> DEFINE N == Cardinality(DOMAIN Port)
           target == link[p].targetPort
           Onward(ports) ==
               {link[q].targetPort :
                   q \in {x \in ports \cap DOMAIN link :
                           Node[Port[x].node].view = "COMPOSITE"}}
           passed[i \in 0 .. N] ==
               IF i = 0 THEN {target}
               ELSE LET ports == passed[i - 1] IN ports \cup Onward(ports)
           Grown(ports, i) ==
               /\ ports \in SUBSET DOMAIN Port
               /\ target \in ports
               /\ \A S \in FollowSets(p) : ports \subseteq S
               /\ Onward(ports) \subseteq ports \/ Cardinality(ports) >= i + 1
           good == {i \in 0 .. N : Grown(passed[i], i)}
<1>1. N \in Nat /\ target \in DOMAIN Port
  BY RowAssumption, FS_CardinalityType DEF TypeOK, LinkRows
<1>2. \A ports : ports \subseteq DOMAIN Port =>
                     ports \cup Onward(ports) \in SUBSET DOMAIN Port
  BY DEF TypeOK, LinkRows
<1>3. passed = [i \in 0 .. N |->
                   IF i = 0 THEN {target}
                   ELSE passed[i - 1] \cup Onward(passed[i - 1])]
  <2> DEFINE step == [ports \in SUBSET DOMAIN Port |-> ports \cup Onward(ports)]
  <2>1. step \in [SUBSET DOMAIN Port -> SUBSET DOMAIN Port]
    BY <1>2
  <2>2. PICK g \in [0 .. N -> SUBSET DOMAIN Port] :
            g[0] = {target} /\ \A i \in 1 .. N : g[i] = step[g[i - 1]]
    <3> DEFINE base == {target}
               S == SUBSET DOMAIN Port
    <3>1. base \in S /\ step \in [S -> S]
      BY <1>1, <2>1
    <3> HIDE DEF base, S, step, N
    <3>2. \E g \in [0 .. N -> S] : Obeys(g, base, step, N)
      BY <1>1, <3>1, Recursion
    <3> QED
      BY <3>2 DEF base, S, Obeys
  <2>3. g = [i \in 0 .. N |-> IF i = 0 THEN {target}
                              ELSE g[i - 1] \cup Onward(g[i - 1])]
    <3>1. ASSUME NEW i \in 1 .. N
          PROVE  g[i] = g[i - 1] \cup Onward(g[i - 1])
      <4>1. i - 1 \in 0 .. N
        BY <1>1
      <4>2. g[i - 1] \in SUBSET DOMAIN Port
        BY <2>2, <4>1
      <4> QED
        BY <2>2, <4>2
    <3> HIDE DEF step, Onward, N
    <3>2. \A i \in 0 .. N :
            g[i] = IF i = 0 THEN {target} ELSE g[i - 1] \cup Onward(g[i - 1])
      BY <2>2, <3>1
    <3> QED
      BY <3>2
  <2> HIDE DEF N, Onward
  <2> QED
    BY <2>3
<1> HIDE DEF passed
<1>4. 0 \in good
  <2>1. passed[0] = {target} /\ 0 \in 0 .. N
    BY <1>1, <1>3
  <2>2. \A S \in FollowSets(p) : {target} \subseteq S
    BY DEF FollowSets
  <2>3. Cardinality({target}) >= 0 + 1
    <3>1. Cardinality({target}) = 1
      BY FS_Singleton
    <3> QED
      BY <3>1
  <2> HIDE DEF Onward, N
  <2> QED
    BY <1>1, <2>1, <2>2, <2>3
<1>5. ASSUME NEW i \in 0 .. N, i # N, i \in good
      PROVE  i + 1 \in good
  <2> DEFINE now == passed[i]
             next == passed[i + 1]
  <2>1. i + 1 \in 0 .. N /\ i \in Nat
    BY <1>1, <1>5
  <2>2. next = now \cup Onward(now)
    <3>1. i + 1 # 0 /\ i + 1 - 1 = i
      BY <2>1
    <3>2. \A j \in 0 .. N : j # 0 => passed[j] = passed[j - 1] \cup Onward(passed[j - 1])
      <4> HIDE DEF Onward, N, target
      <4> QED
        BY <1>3
    <3>3. ASSUME NEW j, j = i + 1
          PROVE  passed[j] = passed[j - 1] \cup Onward(passed[j - 1])
      <4>1. j \in 0 .. N /\ j # 0
        BY <2>1, <3>1, <3>3
      <4> HIDE DEF Onward, N
      <4> QED
        BY <3>2, <4>1, Zenon
    <3> HIDE DEF Onward
    <3> QED
      BY <3>1, <3>3
  <2>3. Grown(now, i)
    BY <1>5
  <2>4. next \in SUBSET DOMAIN Port /\ target \in next
    BY <1>2, <2>2, <2>3
  <2>5. ASSUME NEW S \in FollowSets(p)
        PROVE  next \subseteq S
    <3>1. now \subseteq S /\ now \subseteq DOMAIN Port
      BY <2>3
    <3>2. Onward(now) \subseteq S
      BY <3>1 DEF FollowSets, IsAtomicPort
    <3> QED
      BY <2>2, <3>1, <3>2
  <2>6. Onward(next) \subseteq next \/ Cardinality(next) >= (i + 1) + 1
    <3>1. CASE Onward(now) \subseteq now
      <4>1. next = now
        BY <2>2, <3>1
      <4> QED
        BY <3>1, <4>1
    <3>2. CASE ~(Onward(now) \subseteq now)
      <4>1. IsFiniteSet(now) /\ IsFiniteSet(next)
        BY <2>3, <2>4, RowAssumption, FS_Subset
      <4>2. now \subseteq next /\ now # next
        BY <2>2, <3>2
      <4>3. /\ Cardinality(now) <= Cardinality(next)
            /\ Cardinality(now) # Cardinality(next)
            /\ Cardinality(now) \in Nat /\ Cardinality(next) \in Nat
        BY <4>1, <4>2, FS_Subset, FS_CardinalityType
      <4>4. Cardinality(now) >= i + 1
        BY <2>3, <3>2
      <4> QED
        BY <2>1, <4>3, <4>4
    <3> QED
      BY <3>1, <3>2
  <2>7. Grown(next, i + 1)
    BY <2>4, <2>5, <2>6
  <2> HIDE DEF Grown, N
  <2> QED
    BY <2>1, <2>7
<1>6. N \in good
  <2> HIDE DEF good, N
  <2> QED
    BY <1>1, <1>4, <1>5, UpTo
<1>7. PassedBy(p) = passed[N]
  BY DEF PassedBy, passed
<1>8. Grown(PassedBy(p), N)
  BY <1>6, <1>7
<1>9. Onward(PassedBy(p)) \subseteq PassedBy(p)
  <2>1. PassedBy(p) \in SUBSET DOMAIN Port
    BY <1>8
  <2>2. Cardinality(PassedBy(p)) <= N /\ Cardinality(PassedBy(p)) \in Nat
    BY <2>1, RowAssumption, FS_Subset, FS_CardinalityType
  <2> HIDE DEF Onward
  <2> QED
    BY <1>1, <1>8, <2>2
<1>10. ASSUME NEW q \in PassedBy(p), q \in DOMAIN link, ~IsAtomicPort(q)
       PROVE  link[q].targetPort \in PassedBy(p)
  <2>1. q \in DOMAIN Port /\ Node[Port[q].node].view = "COMPOSITE"
    BY <1>8, <1>10, RowAssumption DEF IsAtomicPort, ViewTypes
  <2> QED
    BY <1>9, <1>10, <2>1
<1> QED
  BY <1>8, <1>10 DEF FollowSets

\* In every project, what getActualLinks has found is what the drawn links say:
\* the target of an actual link owns the one atomic port there is on the way, as
\* the reference PassedBy defines it, and no link is dropped before a job ends.
THEOREM LinksAreReachable == Spec => []ActualLinksAreReachable
<1>1. TypeOK /\ FlowInv => ActualLinksAreReachable
  <2> SUFFICES ASSUME TypeOK, FlowInv
               PROVE  ActualLinksAreReachable
    OBVIOUS
  <2>1. ASSUME NEW p \in DOMAIN actual
        PROVE  /\ actual[p].source = link[p].source
               /\ {Port[q].node : q \in PassedBy(p)} \cap ActualNodes(Node)
                      = {actual[p].target}
    <3> DEFINE n == actual[p].target
    <3>1. p \in DOMAIN link /\ LeadsRight(actual, p)
      BY DEF TypeOK, FlowInv, FoundInv
    <3>2. PassedBy(p) \in FollowSets(p)
      BY <3>1, PassedByIsLeast
    <3>3. PassedBy(p) \subseteq DOMAIN Port
      BY <3>2 DEF FollowSets
    <3>4. \A q \in DOMAIN Port : IsAtomicPort(q) <=> Port[q].node \in ActualNodes(Node)
      BY RowAssumption DEF IsAtomicPort, ActualNodes
    <3>5. \E q \in PassedBy(p) : IsAtomicPort(q) /\ Port[q].node = n
      BY <3>1, <3>2 DEF LeadsRight, LeadsTo
    <3>6. \A q \in PassedBy(p) : IsAtomicPort(q) => Port[q].node = n
      <4>1. PICK S \in FollowSets(p) : \A q \in S : IsAtomicPort(q) => Port[q].node = n
        BY <3>1 DEF LeadsRight, LeadsTo
      <4> QED
        BY <3>1, <4>1, PassedByIsLeast
    <3> QED
      BY <3>1, <3>3, <3>4, <3>5, <3>6 DEF LeadsRight
  <2>2. job # "edit" =>
            AtomicLinks =
                DOMAIN actual \cup todo \cup (IF at = None THEN {} ELSE {at.link})
    BY DEF FlowInv, WholeInv, TrailInv
  <2> QED
    BY <2>1, <2>2 DEF ActualLinksAreReachable
<1> QED
  BY <1>1, FlowCorrect, TypeCorrect, PTL
-----------------------------------------------------------------------------
(* Jobs come to an end. *)

\* What the loop may still do with the link at hand.
HopsLeft == IF at = None THEN 0 ELSE MaxHops + 2 - at.hops

\* There are finitely many links to follow, and each has finitely many hops.
JobIsFinite == IsFiniteSet(todo) /\ HopsLeft \in Nat

\* Each step of a job ends it, takes up one more of its links or uses up a hop:
\* nothing puts a link back, and nobody edits or starts a job meanwhile.
JobsAdvance ==
    [][job # "edit" =>
        \/ job' = "edit"
        \/ job' = job /\ todo' \subseteq todo /\ todo' # todo
        \/ job' = job /\ todo' = todo /\ HopsLeft' < HopsLeft]_vars

LEMMA JobStep ==
    ASSUME TypeOK, [Next]_vars, job # "edit"
    PROVE  \/ job' = "edit"
           \/ job' = job /\ todo' \subseteq todo /\ todo' # todo
           \/ job' = job /\ todo' = todo /\ HopsLeft' < HopsLeft
           \/ UNCHANGED vars
<1>1. at # None =>
        at \in [link : DOMAIN link, port : DOMAIN Port, hops : 0 .. MaxHops + 1]
  BY DEF TypeOK
<1>2. CASE Follow
  <2>1. PICK p \in todo : todo' = todo \ {p}
    <3>1. todo # {} /\ todo' = todo \ {CHOOSE p \in todo : TRUE}
      BY <1>2 DEF Follow
    <3> QED
      BY <3>1
  <2> QED
    BY <1>2, <2>1 DEF Follow
<1>3. CASE Hop
  <2>1. /\ at # None /\ at' = [at EXCEPT !.port = link[at.port].targetPort, !.hops = @ + 1]
        /\ UNCHANGED <<job, todo>>
    BY <1>3 DEF Hop, AtPort
  <2>2. /\ at.hops \in 0 .. MaxHops + 1 /\ at'.hops = at.hops + 1
        /\ at' \in [link : DOMAIN link, port : {link[at.port].targetPort}, hops : Nat]
    <3> DEFINE q == link[at.port].targetPort
    <3>1. at \in [link : DOMAIN link, port : DOMAIN Port, hops : 0 .. MaxHops + 1]
      BY <1>1, <2>1
    <3>2. at' = [at EXCEPT !.port = q, !.hops = @ + 1]
      BY <2>1
    <3> HIDE DEF q
    <3>3. at' = [link |-> at.link, port |-> q, hops |-> at.hops + 1]
      BY <3>1, <3>2
    <3> QED
      BY <3>1, <3>3, BoundAssumption DEF q
  <2>3. at' # None
    <3>1. link[at.port].targetPort \in DOMAIN Port /\ DOMAIN link \subseteq DOMAIN Port
      BY <1>3 DEF Hop, TypeOK, LinkRows
    <3> QED
      BY <2>2, <3>1, BoundAssumption
  <2>4. HopsLeft' < HopsLeft
    BY <2>1, <2>2, <2>3, BoundAssumption DEF HopsLeft
  <2> QED
    BY <2>1, <2>4
<1>4. CASE Reach
  <2>1. at # None /\ at' = None /\ UNCHANGED <<job, todo>>
    BY <1>4 DEF Reach, AtPort
  <2>2. HopsLeft' < HopsLeft
    BY <1>1, <2>1, BoundAssumption DEF HopsLeft
  <2> QED
    BY <2>1, <2>2
<1>5. CASE Compile \/ Load \/ Throw
  BY <1>5 DEF Compile, Load, Throw, Conclude
<1> QED
  BY <1>2, <1>3, <1>4, <1>5 DEF Next, Work, AddLink, DeletePort, Start

LEMMA AlwaysFinite ==
    ASSUME TypeOK
    PROVE  JobIsFinite
<1>1. todo \subseteq DOMAIN Port
  BY DEF TypeOK
<1>2. IsFiniteSet(todo)
  BY <1>1, RowAssumption, FS_Subset
<1>3. HopsLeft \in Nat
  BY BoundAssumption DEF HopsLeft, TypeOK
<1> QED
  BY <1>2, <1>3 DEF JobIsFinite

\* For any graph, cyclic or not, a job has finitely many steps: what BuildEnds
\* rests on, besides that a job that has been started goes on.
THEOREM JobsAreFinite == Spec => []JobIsFinite /\ JobsAdvance
<1>1. TypeOK => JobIsFinite
  BY AlwaysFinite
<1>2. TypeOK /\ [Next]_vars =>
        [job # "edit" =>
            \/ job' = "edit"
            \/ job' = job /\ todo' \subseteq todo /\ todo' # todo
            \/ job' = job /\ todo' = todo /\ HopsLeft' < HopsLeft]_vars
  BY JobStep
<1> QED
  BY <1>1, <1>2, TypeCorrect, PTL DEF Spec, JobsAdvance

=============================================================================
