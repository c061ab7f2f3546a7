---------------------------- MODULE FlowRunProofs ----------------------------
(***************************************************************************)
(* Theorems about FlowRun for every flow, any scripts and any number of    *)
(* runs.                                                                   *)
(***************************************************************************)
EXTENDS FlowRun, FiniteSetTheorems, SequenceTheorems, TLAPS

LEMMA EffectType ==
    ASSUME NEW n \in Nodes, NEW body \in Seq(Nodes)
    PROVE  Effect(n, body) \in Seq(Nodes)
  BY DEF Effect

\* A request that has begun is at a visit.
LEMMA AtVisit ==
    ASSUME TypeOK, NEW r \in Requests, pc[r] # "idle"
    PROVE  /\ path[r] \in Seq(VisitType)
           /\ At(r) \in 1..Len(path[r])
           /\ At(r) \in 1..MaxDepth + 1
           /\ path[r][At(r)] \in VisitType
           /\ Node(r) \in Nodes
           /\ Input(r) \in Seq(Nodes)
           /\ Output(r) \in Seq(Nodes)
<1>1. path[r] \in Seq(VisitType) /\ path[r] # <<>> /\ Len(path[r]) <= MaxDepth + 1
  BY DEF TypeOK, FlowOK, ControlOK, CallsOK, PathsFit
<1>2. Len(path[r]) \in Nat /\ Len(path[r]) # 0
  BY <1>1, EmptySeq
<1>3. At(r) \in 1..Len(path[r]) /\ At(r) \in 1..MaxDepth + 1
  BY <1>1, <1>2, FlowAssumption DEF At
<1>4. path[r][At(r)] \in VisitType
  BY <1>1, <1>3, ElementOfSeq
<1>5. Node(r) \in Nodes /\ Input(r) \in Seq(Nodes)
  BY <1>4 DEF Node, Input, VisitType
<1>6. Output(r) \in Seq(Nodes)
  BY <1>5 DEF Output, TypeOK, FlowOK, ControlOK, CallsOK, PathsFit, TaskType
<1> QED
  BY <1>1, <1>3, <1>4, <1>5, <1>6

\* Only a node within the depth limit is called.
CalledWithinDepth == \A r \in Requests : pc[r] = "called" => At(r) <= MaxDepth

\* The tasks of a run that has begun are linked as makeRtFlow left them.
TasksAreLinked == \A r \in Requests : pc[r] # "idle" => childNodes[r] = RtFlow

TypeInv == TypeOK /\ CalledWithinDepth /\ TasksAreLinked

\* Several() of a node that need not be the current one.
ManyChildren(n) == Children(n) # {} /\ ~\E m \in Nodes : Children(n) = {m}

\* The map of the current node has its children, and is null at an end node.
LEMMA ChildrenOfTask ==
    ASSUME TypeInv, NEW r \in Requests, pc[r] # "idle"
    PROVE  /\ UNION ChildNodes(r) = Children(Node(r))
           /\ ChildNodes(r) = {} <=> Node(r) \in EndNodes
           /\ Several(r) <=> ManyChildren(Node(r))
<1>1. Node(r) \in Nodes
  BY AtVisit DEF TypeInv
<1>2. ChildNodes(r) = IF Node(r) \in EndNodes THEN {} ELSE {Children(Node(r))}
  BY <1>1 DEF ChildNodes, TypeInv, TasksAreLinked, RtFlow
<1>3. Node(r) \in EndNodes => Children(Node(r)) = {}
  BY DEF EndNodes, Children
<1>4. UNION ChildNodes(r) = Children(Node(r))
  BY <1>2, <1>3
<1> QED
  BY <1>2, <1>4 DEF Several, ManyChildren

\* No step but the first links tasks.
LinkedOK ==
    /\ childNodes \in [Requests -> [Nodes -> SUBSET SUBSET Nodes]]
    /\ TasksAreLinked

LEMMA LinkedStep ==
    ASSUME TypeInv, [Next]_vars
    PROVE  LinkedOK'
<1>1. RtFlow' = RtFlow
  <2>1. UNCHANGED links
    BY DEF Next, Step, Begin, Overflow, Throw, CallNode, Rethrow, Return, NoChild,
           HandOver, Continue, Resume, ResumeThrows, Crash, vars, flow
  <2> QED
    BY <2>1 DEF RtFlow, EndNodes, Children
<1>2. ASSUME NEW r \in Requests, Begin(r)
      PROVE  LinkedOK'
  <2>1. /\ \A s \in Requests :
              childNodes'[s] = IF s = r THEN RtFlow ELSE childNodes[s]
        /\ \A s \in Requests \ {r} : pc'[s] = pc[s]
    BY <1>2 DEF Begin, TypeInv, TypeOK, ControlOK, CallsOK
  <2>2. RtFlow \in [Nodes -> SUBSET SUBSET Nodes]
    BY DEF RtFlow, Children
  <2>3. childNodes' \in [Requests -> [Nodes -> SUBSET SUBSET Nodes]]
    BY <1>2, <2>2 DEF Begin, TypeInv, TypeOK, CallsOK
  <2> QED
    BY <1>1, <2>1, <2>3 DEF TypeInv, TasksAreLinked, LinkedOK
<1>3. ASSUME UNCHANGED childNodes,
             \A s \in Requests : pc'[s] # "idle" => pc[s] # "idle"
      PROVE  LinkedOK'
  BY <1>1, <1>3 DEF TypeInv, TypeOK, CallsOK, TasksAreLinked, LinkedOK
<1>4. ASSUME NEW r \in Requests, Step(r)
      PROVE  /\ UNCHANGED childNodes
             /\ \A s \in Requests : pc'[s] # "idle" => pc[s] # "idle"
  <2>1. UNCHANGED childNodes /\ pc[r] # "idle"
    BY <1>4 DEF Step, Overflow, Throw, CallNode, Rethrow, Return, NoChild, HandOver,
                MayProceed
  <2>2. \A s \in Requests \ {r} : pc'[s] = pc[s]
    BY <1>4 DEF Step, Overflow, Throw, CallNode, Rethrow, Return, NoChild, HandOver,
                TypeInv, TypeOK, ControlOK
  <2> QED
    BY <2>1, <2>2
<1>5. ASSUME NEW r \in Requests, NEW i \in 1..MaxDepth, Continue(r, i)
      PROVE  UNCHANGED <<childNodes, pc>>
  BY <1>5 DEF Continue, Resume, ResumeThrows
<1>6. Crash \/ UNCHANGED vars => UNCHANGED <<childNodes, pc>>
  BY DEF Crash, vars
<1> QED
  BY <1>2, <1>3, <1>4, <1>5, <1>6 DEF Next

-----------------------------------------------------------------------------
(* What call() does. *)

\* The outcomes of call() at the current visit.
CallOutcome(r, child, body) ==
    /\ child \in Nodes \cup {None}
    /\ body \in Seq(Nodes)
    /\ Kind[Node(r)] # "ROUTE" /\ ManyChildren(Node(r)) => child = None
    /\ Called(r, child, body)
    /\ \/ Settles(r) /\ body = Effect(Node(r), Input(r))
       \/ Suspends(r) /\ script[Node(r)] = "awaits"
       \/ /\ Rejects(r)
          /\ \/ script[Node(r)] = "throws"
             \/ Kind[Node(r)] # "ROUTE" /\ ManyChildren(Node(r))

LEMMA CallShape ==
    ASSUME TypeInv, NEW r \in Requests, CallNode(r)
    PROVE  \E child \in Nodes \cup {None}, body \in Seq(Nodes) :
              CallOutcome(r, child, body)
<1>1. Node(r) \in Nodes /\ Input(r) \in Seq(Nodes)
  BY AtVisit DEF CallNode, TypeInv
<1>2. Effect(Node(r), Input(r)) \in Seq(Nodes)
  BY <1>1, EffectType
<1>3. /\ Children(Node(r)) \subseteq Nodes
      /\ UNION ChildNodes(r) = Children(Node(r))
      /\ Several(r) <=> ManyChildren(Node(r))
  BY ChildrenOfTask DEF Children, CallNode
<1>4. script[Node(r)] \in Scripts
  BY <1>1 DEF TypeInv, TypeOK, FlowOK, ControlOK, CallsOK, PathsFit
<1>5. CASE Kind[Node(r)] = "ROUTE"
  <2>1. CallRoute(r)
    BY <1>5 DEF CallNode
  <2>2. CASE script[Node(r)] = "throws"
    <3>1. Called(r, None, Input(r)) /\ Rejects(r)
      BY <2>1, <2>2 DEF CallRoute
    <3>2. CallOutcome(r, None, Input(r))
      BY <1>1, <2>2, <3>1 DEF CallOutcome
    <3> QED
      BY <1>1, <3>2
  <2>3. CASE script[Node(r)] # "throws"
    <3>1. PICK child \in Nodes \cup {None} :
             Called(r, child, Input(r)) /\ Settles(r)
      BY <2>1, <2>3 DEF CallRoute
    <3>2. Input(r) = Effect(Node(r), Input(r))
      BY <1>5 DEF Effect
    <3>3. CallOutcome(r, child, Input(r))
      BY <1>1, <1>5, <3>1, <3>2 DEF CallOutcome
    <3> QED
      BY <1>1, <1>3, <3>3
  <2> QED
    BY <2>2, <2>3
<1>6. CASE Kind[Node(r)] # "ROUTE"
  <2>1. CallSingle(r)
    BY <1>6 DEF CallNode
  <2>2. CASE ManyChildren(Node(r))
    <3>1. Called(r, None, Input(r)) /\ Rejects(r)
      BY <1>3, <2>1, <2>2 DEF CallSingle
    <3>2. CallOutcome(r, None, Input(r))
      BY <1>1, <1>6, <2>2, <3>1 DEF CallOutcome
    <3> QED
      BY <1>1, <3>2
  <2>3. CASE ~ManyChildren(Node(r))
    <3>1. PICK child \in Nodes \cup {None} :
             /\ Children(Node(r)) = {child} \ {None}
             /\ \/ /\ script[Node(r)] = "plain"
                   /\ Called(r, child, Effect(Node(r), Input(r)))
                   /\ Settles(r)
                \/ /\ script[Node(r)] = "awaits"
                   /\ Called(r, child, Input(r))
                   /\ Suspends(r)
                \/ /\ script[Node(r)] = "throws"
                   /\ Called(r, child, Input(r))
                   /\ Rejects(r)
      BY <1>3, <2>1, <2>3 DEF CallSingle
    <3>2. \/ CallOutcome(r, child, Effect(Node(r), Input(r)))
          \/ CallOutcome(r, child, Input(r))
      BY <1>1, <1>2, <2>3, <3>1 DEF CallOutcome
    <3> QED
      BY <1>1, <1>2, <3>2
  <2> QED
    BY <2>2, <2>3
<1> QED
  BY <1>5, <1>6

\* The path and the tasks after a call, visit by visit and node by node.
LEMMA CalledPointwise ==
    ASSUME TypeOK, NEW r \in Requests, pc[r] # "idle",
           NEW child \in Nodes \cup {None}, NEW body \in Seq(Nodes),
           Called(r, child, body)
    PROVE  /\ path' \in [Requests -> Seq(VisitType)]
           /\ \A s \in Requests : Len(path'[s]) = Len(path[s])
           /\ \A s \in Requests \ {r} : path'[s] = path[s] /\ task'[s] = task[s]
           /\ \A i \in 1..Len(path[r]) :
                 /\ path'[r][i].node = path[r][i].node
                 /\ path'[r][i].input = path[r][i].input
                 /\ i # At(r) => path'[r][i].chosen = path[r][i].chosen
           /\ path'[r][At(r)].chosen = child
           /\ task' \in [Requests -> [Nodes -> TaskType]]
           /\ \A n \in Nodes \ {Node(r)} : task'[r][n] = task[r][n]
           /\ task'[r][Node(r)].output = body
           /\ task'[r][Node(r)].activated =
                 IF child = None THEN task[r][Node(r)].activated ELSE child
<1> DEFINE v == [path[r][At(r)] EXCEPT !.chosen = child]
           t == [output |-> body,
                 activated |-> IF child = None THEN task[r][Node(r)].activated
                               ELSE child]
<1>1. /\ path[r] \in Seq(VisitType) /\ At(r) \in 1..Len(path[r])
      /\ path[r][At(r)] \in VisitType /\ Node(r) \in Nodes
  BY AtVisit
<1>2. v \in VisitType /\ v.node = path[r][At(r)].node
      /\ v.input = path[r][At(r)].input /\ v.chosen = child
  BY <1>1 DEF VisitType
<1>3. path' = [path EXCEPT ![r] = [path[r] EXCEPT ![At(r)] = v]]
  BY DEF Called
<1>4. task' = [task EXCEPT ![r] = [task[r] EXCEPT ![Node(r)] = t]]
  BY DEF Called
<1>5. t \in TaskType
  BY <1>1 DEF TypeOK, FlowOK, ControlOK, CallsOK, PathsFit, TaskType
<1>6. path \in [Requests -> Seq(VisitType)] /\ task \in [Requests -> [Nodes -> TaskType]]
  BY DEF TypeOK, FlowOK, ControlOK, CallsOK, PathsFit
<1> HIDE DEF v, t
<1>7. /\ [path[r] EXCEPT ![At(r)] = v] \in Seq(VisitType)
      /\ Len([path[r] EXCEPT ![At(r)] = v]) = Len(path[r])
  BY <1>1, <1>2, ExceptSeq
<1>8. /\ path' \in [Requests -> Seq(VisitType)]
      /\ \A s \in Requests : Len(path'[s]) = Len(path[s])
      /\ \A s \in Requests \ {r} : path'[s] = path[s]
      /\ path'[r] = [path[r] EXCEPT ![At(r)] = v]
  BY <1>3, <1>6, <1>7
<1>9. \A i \in 1..Len(path[r]) :
         path'[r][i] = IF i = At(r) THEN v ELSE path[r][i]
  BY <1>1, <1>8
<1>10. /\ \A i \in 1..Len(path[r]) :
             /\ path'[r][i].node = path[r][i].node
             /\ path'[r][i].input = path[r][i].input
             /\ i # At(r) => path'[r][i].chosen = path[r][i].chosen
       /\ path'[r][At(r)].chosen = child
  BY <1>1, <1>2, <1>9
<1>11. /\ task' \in [Requests -> [Nodes -> TaskType]]
       /\ \A s \in Requests \ {r} : task'[s] = task[s]
       /\ \A n \in Nodes \ {Node(r)} : task'[r][n] = task[r][n]
       /\ task'[r][Node(r)] = t
  BY <1>1, <1>4, <1>5, <1>6
<1> QED
  BY <1>8, <1>10, <1>11 DEF t

\* The path after a hand-over.
LEMMA ExtendedPointwise ==
    ASSUME TypeOK, NEW r \in Requests, NEW m \in Nodes, NEW body \in Seq(Nodes),
           path' = [path EXCEPT ![r] = Append(path[r], Visit(m, body))]
    PROVE  /\ path' \in [Requests -> Seq(VisitType)]
           /\ \A s \in Requests \ {r} : path'[s] = path[s]
           /\ Len(path'[r]) = Len(path[r]) + 1
           /\ \A i \in 1..Len(path[r]) : path'[r][i] = path[r][i]
           /\ path'[r][Len(path[r]) + 1] = Visit(m, body)
<1>1. path \in [Requests -> Seq(VisitType)]
  BY DEF TypeOK, FlowOK, ControlOK, CallsOK, PathsFit
<1>2. Visit(m, body) \in VisitType
  BY DEF Visit, VisitType
<1>3. path[r] \in Seq(VisitType)
  BY <1>1
<1>4. /\ Append(path[r], Visit(m, body)) \in Seq(VisitType)
      /\ Len(Append(path[r], Visit(m, body))) = Len(path[r]) + 1
      /\ \A i \in 1..Len(path[r]) : Append(path[r], Visit(m, body))[i] = path[r][i]
      /\ Append(path[r], Visit(m, body))[Len(path[r]) + 1] = Visit(m, body)
  BY <1>2, <1>3, AppendProperties
<1> QED
  BY <1>1, <1>4

-----------------------------------------------------------------------------
(* Types. *)

LEMMA TypeInit == Init => TypeInv
<1> SUFFICES ASSUME Init
             PROVE  TypeInv
  OBVIOUS
<1>1. links \in SUBSET (Nodes \X Nodes) /\ script \in [Nodes -> Scripts]
      /\ variant \in {"controller", "util"}
  BY FlowAssumption DEF Init
<1>2. [output |-> <<>>, activated |-> None] \in TaskType
  BY DEF TaskType
<1>3. task \in [Requests -> [Nodes -> TaskType]]
  BY <1>2 DEF Init
<1>0. /\ childNodes \in [Requests -> [Nodes -> SUBSET SUBSET Nodes]]
      /\ TasksAreLinked
  BY DEF Init, TasksAreLinked
<1>4. path \in [Requests -> Seq(VisitType)] /\ answer \in [Requests -> Seq(Nodes)]
  BY DEF Init
<1>5. \A r \in Requests : /\ Len(path[r]) <= MaxDepth + 1
                          /\ pc[r] = "idle" <=> path[r] = <<>>
  <2>1. Len(<<>>) <= MaxDepth + 1
    BY FlowAssumption
  <2>2. \A r \in Requests : path[r] = <<>> /\ pc[r] = "idle"
    BY DEF Init
  <2> QED
    BY <2>1, <2>2
<1>6. TypeOK
  BY <1>0, <1>1, <1>3, <1>4, <1>5 DEF Init, TypeOK, FlowOK, ControlOK, CallsOK, PathsFit
<1> QED
  BY <1>0, <1>6 DEF Init, TypeInv, CalledWithinDepth

\* A run ends; nothing else changes but the answer and the event loop.
Ends(r, place) ==
    /\ pc[r] \in {"enter", "called"}
    /\ pc' = [pc EXCEPT ![r] = place]
    /\ loop' = None
    /\ UNCHANGED <<flow, path, task, pending, rejected, crashed>>

LEMMA EndingSteps ==
    ASSUME TypeOK, NEW r \in Requests
    PROVE  /\ Overflow(r) \/ Rethrow(r) \/ NoChild(r) =>
                Ends(r, "failed") /\ UNCHANGED answer
           /\ Return(r) => /\ Ends(r, "answered")
                           /\ answer' = [answer EXCEPT ![r] = Output(r)]
  BY DEF Overflow, Rethrow, NoChild, Return, Throw, Ends, MayProceed

LEMMA EndingKeepsTypes ==
    ASSUME TypeInv, LinkedOK', NEW r \in Requests, NEW place \in {"answered", "failed"},
           Ends(r, place),
           \/ UNCHANGED answer
           \/ answer' = [answer EXCEPT ![r] = Output(r)]
    PROVE  TypeInv'
<1> USE DEF LinkedOK
<1>1. Output(r) \in Seq(Nodes)
  BY AtVisit DEF TypeInv, Ends
<1>2. answer' \in [Requests -> Seq(Nodes)]
  BY <1>1 DEF TypeInv, TypeOK, FlowOK, ControlOK, CallsOK, PathsFit
<1>3. \A s \in Requests : pc'[s] = IF s = r THEN place ELSE pc[s]
  BY DEF TypeInv, TypeOK, FlowOK, ControlOK, CallsOK, PathsFit, Ends
<1>4. TypeOK'
  BY <1>2, <1>3 DEF TypeInv, TypeOK, FlowOK, ControlOK, CallsOK, PathsFit, Ends, flow
<1>5. CalledWithinDepth'
  BY <1>3 DEF TypeInv, CalledWithinDepth, Ends, At
<1> QED
  BY <1>4, <1>5 DEF TypeInv

\* A run comes to a node, the start node or a child.
Comes(r, m, body) ==
    /\ path' = [path EXCEPT ![r] = Append(path[r], Visit(m, body))]
    /\ pc' = [pc EXCEPT ![r] = "enter"]
    /\ loop' = r
    /\ UNCHANGED <<flow, task, pending, rejected, answer, crashed>>

LEMMA ComingSteps ==
    ASSUME TypeInv, NEW r \in Requests
    PROVE  /\ Begin(r) => \E m \in StartNodes : Comes(r, m, <<>>)
           /\ HandOver(r) => \E m \in Activated(r) : Comes(r, m, Output(r))
<1>1. ASSUME Begin(r)
      PROVE  \E m \in StartNodes : Comes(r, m, <<>>)
  <2>1. PICK m \in StartNodes : path' = [path EXCEPT ![r] = <<Visit(m, <<>>)>>]
    BY <1>1 DEF Begin
  <2>2. path[r] = <<>>
    BY <1>1 DEF Begin, TypeInv, TypeOK, FlowOK, ControlOK, CallsOK, PathsFit
  <2>3. <<Visit(m, <<>>)>> = Append(path[r], Visit(m, <<>>))
    BY <2>2
  <2> QED
    BY <1>1, <2>1, <2>3 DEF Begin, Comes
<1>2. ASSUME HandOver(r)
      PROVE  \E m \in Activated(r) : Comes(r, m, Output(r))
  BY <1>2 DEF HandOver, Comes
<1> QED
  BY <1>1, <1>2

LEMMA ComingKeepsTypes ==
    ASSUME TypeInv, LinkedOK', NEW r \in Requests, NEW m \in Nodes, NEW body \in Seq(Nodes),
           Comes(r, m, body), At(r) <= MaxDepth
    PROVE  TypeInv'
<1> USE DEF LinkedOK
<1>1. /\ path' \in [Requests -> Seq(VisitType)]
      /\ \A s \in Requests \ {r} : path'[s] = path[s]
      /\ Len(path'[r]) = Len(path[r]) + 1
  BY ExtendedPointwise DEF Comes, TypeInv
<1>2. \A s \in Requests : pc'[s] = IF s = r THEN "enter" ELSE pc[s]
  BY DEF TypeInv, TypeOK, FlowOK, ControlOK, CallsOK, PathsFit, Comes
<1>3. path[r] \in Seq(VisitType)
  BY DEF TypeInv, TypeOK, FlowOK, ControlOK, CallsOK, PathsFit
<1>4. Len(path'[r]) <= MaxDepth + 1 /\ path'[r] # <<>>
  BY <1>1, <1>3, FlowAssumption DEF At
<1>5. \A s \in Requests : /\ Len(path'[s]) <= MaxDepth + 1
                          /\ pc'[s] = "idle" <=> path'[s] = <<>>
  BY <1>1, <1>2, <1>4 DEF TypeInv, TypeOK, FlowOK, ControlOK, CallsOK, PathsFit
<1>6. TypeOK'
  <2>1. FlowOK' /\ CallsOK'
    BY DEF TypeInv, TypeOK, FlowOK, ControlOK, CallsOK, PathsFit, Comes, flow
  <2>2. ControlOK'
    BY <1>1 DEF TypeInv, TypeOK, ControlOK, Comes
  <2>3. PathsFit'
    BY <1>5 DEF PathsFit
  <2> QED
    BY <2>1, <2>2, <2>3 DEF TypeOK
<1>7. CalledWithinDepth'
  BY <1>1, <1>2 DEF TypeInv, CalledWithinDepth, At
<1> QED
  BY <1>6, <1>7 DEF TypeInv

LEMMA CallKeepsTypes ==
    ASSUME TypeInv, LinkedOK', NEW r \in Requests, CallNode(r)
    PROVE  TypeInv'
<1> USE DEF LinkedOK
<1>1. PICK child \in Nodes \cup {None}, body \in Seq(Nodes) :
         CallOutcome(r, child, body)
  BY CallShape DEF TypeInv
<1>2. pc[r] # "idle" /\ Called(r, child, body)
  BY <1>1 DEF CallNode, CallOutcome
<1>3. /\ path' \in [Requests -> Seq(VisitType)]
      /\ \A s \in Requests : Len(path'[s]) = Len(path[s])
      /\ task' \in [Requests -> [Nodes -> TaskType]]
  BY <1>2, CalledPointwise DEF TypeInv
<1>4. At(r) \in 1..MaxDepth
  BY <1>2, AtVisit, FlowAssumption DEF TypeInv, CallNode, TooDeep
<1>5. /\ pending' \in [Requests -> SUBSET (1..MaxDepth)]
      /\ rejected' \in [Requests -> SUBSET (1..MaxDepth)]
  <2>1. /\ pending \in [Requests -> SUBSET (1..MaxDepth)]
        /\ rejected \in [Requests -> SUBSET (1..MaxDepth)]
    BY DEF TypeInv, TypeOK, CallsOK
  <2>2. Settles(r) \/ Rejects(r) \/ Suspends(r)
    BY <1>1 DEF CallOutcome
  <2>3. CASE Settles(r)
    BY <2>1, <2>3 DEF Settles
  <2>4. CASE Rejects(r)
    BY <1>4, <2>1, <2>4 DEF Rejects
  <2>5. CASE Suspends(r)
    BY <1>4, <2>1, <2>5 DEF Suspends
  <2> QED
    BY <2>2, <2>3, <2>4, <2>5
<1>6. \A s \in Requests : pc'[s] = IF s = r THEN "called" ELSE pc[s]
  BY DEF TypeInv, TypeOK, FlowOK, ControlOK, CallsOK, PathsFit, CallNode
<1>7. \A s \in Requests : (path'[s] = <<>>) <=> (path[s] = <<>>)
  BY <1>3, EmptySeq DEF TypeInv, TypeOK, FlowOK, ControlOK, CallsOK, PathsFit
<1>8. \A s \in Requests : /\ Len(path'[s]) <= MaxDepth + 1
                          /\ pc'[s] = "idle" <=> path'[s] = <<>>
  BY <1>2, <1>3, <1>6, <1>7 DEF TypeInv, TypeOK, FlowOK, ControlOK, CallsOK, PathsFit
<1>9. TypeOK'
  <2>1. FlowOK'
    BY DEF TypeInv, TypeOK, FlowOK, ControlOK, CallsOK, PathsFit, CallNode, flow
  <2>2. ControlOK'
    BY <1>3 DEF TypeInv, TypeOK, ControlOK, CallNode
  <2>3. CallsOK'
    BY <1>3, <1>5 DEF CallsOK
  <2>4. PathsFit'
    BY <1>8 DEF PathsFit
  <2> QED
    BY <2>1, <2>2, <2>3, <2>4 DEF TypeOK
<1>10. CalledWithinDepth'
  <2>1. Len(path[r]) <= MaxDepth
    BY <1>4, FlowAssumption DEF At
  <2> QED
    BY <1>3, <1>6, <2>1 DEF TypeInv, CalledWithinDepth, At
<1> QED
  BY <1>9, <1>10 DEF TypeInv

\* What a script that goes on after an await changes.
LEMMA ContinuePointwise ==
    ASSUME TypeOK, NEW r \in Requests, NEW i \in 1..MaxDepth,
           i \in 1..Len(path[r]), Continue(r, i)
    PROVE  /\ task' \in [Requests -> [Nodes -> TaskType]]
           /\ \A s \in Requests \ {r} : /\ task'[s] = task[s]
                                        /\ pending'[s] = pending[s]
                                        /\ rejected'[s] = rejected[s]
           /\ \A n \in Nodes : task'[r][n].activated = task[r][n].activated
           /\ pending'[r] = pending[r] \ {i}
           /\ \/ /\ rejected'[r] = rejected[r]
                 /\ task'[r][path[r][i].node].output =
                      Effect(path[r][i].node, path[r][i].input)
              \/ rejected'[r] = rejected[r] \cup {i}
           /\ pending' \in [Requests -> SUBSET (1..MaxDepth)]
           /\ rejected' \in [Requests -> SUBSET (1..MaxDepth)]
<1>1. path[r][i] \in VisitType
  BY ElementOfSeq DEF TypeOK, FlowOK, ControlOK, CallsOK, PathsFit
<1>2. path[r][i].node \in Nodes /\ path[r][i].input \in Seq(Nodes)
  BY <1>1 DEF VisitType
<1>3. Effect(path[r][i].node, path[r][i].input) \in Seq(Nodes)
  BY <1>2, EffectType
<1>4. CASE Resume(r, i)
  <2> DEFINE n == path[r][i].node
             body == Effect(path[r][i].node, path[r][i].input)
             t == [task[r][n] EXCEPT !.output = body]
  <2>1. task' = [task EXCEPT ![r] = [task[r] EXCEPT ![n] = t]]
    BY <1>4 DEF Resume
  <2>2. /\ t \in TaskType /\ t.output = body
        /\ t.activated = task[r][n].activated
    <3>1. task[r][n] \in TaskType
      BY <1>2 DEF TypeOK, FlowOK, ControlOK, CallsOK, PathsFit
    <3> QED
      BY <1>3, <3>1 DEF TaskType
  <2> HIDE DEF t, body
  <2>3. task \in [Requests -> [Nodes -> TaskType]]
    BY DEF TypeOK, FlowOK, ControlOK, CallsOK, PathsFit
  <2>4. /\ task' \in [Requests -> [Nodes -> TaskType]]
        /\ \A s \in Requests \ {r} : task'[s] = task[s]
        /\ \A m \in Nodes : task'[r][m] = IF m = n THEN t ELSE task[r][m]
    BY <1>2, <2>1, <2>2, <2>3
  <2>5. /\ \A m \in Nodes : task'[r][m].activated = task[r][m].activated
        /\ task'[r][n].output = body
    BY <1>2, <2>2, <2>4
  <2>6. /\ pending' = [pending EXCEPT ![r] = pending[r] \ {i}]
        /\ rejected' = rejected
    BY <1>4 DEF Resume
  <2> QED
    BY <2>4, <2>5, <2>6 DEF TypeOK, FlowOK, ControlOK, CallsOK, PathsFit, body
<1>5. CASE ResumeThrows(r, i)
  BY <1>5 DEF ResumeThrows, TypeOK, FlowOK, ControlOK, CallsOK, PathsFit, TaskType
<1> QED
  BY <1>4, <1>5 DEF Continue

\* A run that goes on comes from the start or hands over to a child.
LEMMA ComingShape ==
    ASSUME TypeInv, NEW r \in Requests, Begin(r) \/ HandOver(r)
    PROVE  \E m \in Nodes, body \in Seq(Nodes) :
              /\ Comes(r, m, body)
              /\ At(r) <= MaxDepth
              /\ \/ Begin(r) /\ path[r] = <<>> /\ m \in StartNodes /\ body = <<>>
                 \/ HandOver(r) /\ m \in Activated(r) /\ body = Output(r)
<1>1. CASE Begin(r)
  <2>1. PICK m \in StartNodes : Comes(r, m, <<>>)
    BY <1>1, ComingSteps
  <2>2. m \in Nodes /\ <<>> \in Seq(Nodes)
    BY DEF StartNodes
  <2>3. path[r] = <<>>
    BY <1>1 DEF Begin, TypeInv, TypeOK, PathsFit
  <2>4. At(r) <= MaxDepth
    BY <2>3, FlowAssumption DEF At
  <2> QED
    BY <1>1, <2>1, <2>2, <2>3, <2>4
<1>2. CASE HandOver(r)
  <2>1. PICK m \in Activated(r) : Comes(r, m, Output(r))
    BY <1>2, ComingSteps
  <2>2. pc[r] = "called"
    BY <1>2 DEF HandOver, MayProceed
  <2>3. m \in Nodes
    BY <2>2, ChildrenOfTask DEF Activated, Children
  <2>4. Output(r) \in Seq(Nodes)
    BY <2>2, AtVisit DEF TypeInv
  <2>5. At(r) <= MaxDepth
    BY <2>2 DEF TypeInv, CalledWithinDepth
  <2> QED
    BY <1>2, <2>1, <2>3, <2>4, <2>5
<1> QED
  BY <1>1, <1>2

\* Calls that are at work or have failed belong to visits of the run, and a
\* visit is fresh until its node is called.
MarksInPath ==
    \A r \in Requests :
        /\ pending[r] \subseteq 1..At(r)
        /\ rejected[r] \subseteq 1..At(r)
        /\ pc[r] = "enter" => /\ At(r) \notin pending[r] \cup rejected[r]
                             /\ path[r][At(r)].chosen = None

LEMMA ContinueKeepsTypes ==
    ASSUME TypeInv, LinkedOK', MarksInPath, NEW r \in Requests, NEW i \in 1..MaxDepth,
           Continue(r, i)
    PROVE  TypeInv' /\ i \in 1..Len(path[r])
<1> USE DEF LinkedOK
<1>1. i \in 1..Len(path[r])
  BY DEF Continue, Resume, ResumeThrows, MayResume, MarksInPath, At
<1>2. CallsOK'
  BY <1>1, ContinuePointwise DEF TypeInv, CallsOK
<1>3. UNCHANGED <<flow, loop, pc, path, answer, crashed>>
  BY DEF Continue, Resume, ResumeThrows
<1>4. TypeOK'
  BY <1>2, <1>3 DEF TypeInv, TypeOK, FlowOK, ControlOK, PathsFit, flow
<1> QED
  BY <1>1, <1>3, <1>4 DEF TypeInv, CalledWithinDepth, At

\* The five shapes of a step.
LEMMA StepShapes ==
    ASSUME [Next]_vars
    PROVE  \/ \E r \in Requests : Begin(r) \/ HandOver(r)
           \/ \E r \in Requests : CallNode(r)
           \/ \E r \in Requests : Overflow(r) \/ Rethrow(r) \/ NoChild(r) \/ Return(r)
           \/ \E r \in Requests, i \in 1..MaxDepth : Continue(r, i)
           \/ Crash \/ UNCHANGED vars
  BY DEF Next, Step

LEMMA TypeStep ==
    ASSUME TypeInv, MarksInPath, [Next]_vars
    PROVE  TypeInv'
<1>0. LinkedOK'
  BY LinkedStep
<1>1. ASSUME NEW r \in Requests, Begin(r) \/ HandOver(r)
      PROVE  TypeInv'
  BY <1>0, <1>1, ComingShape, ComingKeepsTypes
<1>2. ASSUME NEW r \in Requests, CallNode(r)
      PROVE  TypeInv'
  BY <1>0, <1>2, CallKeepsTypes
<1>3. ASSUME NEW r \in Requests,
             Overflow(r) \/ Rethrow(r) \/ NoChild(r) \/ Return(r)
      PROVE  TypeInv'
  BY <1>0, <1>3, EndingSteps, EndingKeepsTypes DEF TypeInv
<1>4. ASSUME NEW r \in Requests, NEW i \in 1..MaxDepth, Continue(r, i)
      PROVE  TypeInv'
  BY <1>0, <1>4, ContinueKeepsTypes
<1>5. CASE Crash \/ UNCHANGED vars
  BY <1>0, <1>5 DEF Crash, vars, flow, TypeInv, TypeOK, FlowOK, ControlOK, CallsOK,
              PathsFit, CalledWithinDepth, At, LinkedOK
<1> QED
  BY <1>1, <1>2, <1>3, <1>4, <1>5, StepShapes

\* The state after a run has come to a node, run by run.
LEMMA ComingPointwise ==
    ASSUME TypeInv, NEW r \in Requests, NEW m \in Nodes, NEW body \in Seq(Nodes),
           Comes(r, m, body)
    PROVE  /\ \A s \in Requests : pc'[s] = IF s = r THEN "enter" ELSE pc[s]
           /\ path' \in [Requests -> Seq(VisitType)]
           /\ \A s \in Requests \ {r} : path'[s] = path[s]
           /\ Len(path[r]) \in Nat
           /\ Len(path'[r]) = Len(path[r]) + 1
           /\ \A i \in 1..Len(path[r]) : path'[r][i] = path[r][i]
           /\ path'[r][Len(path[r]) + 1] = Visit(m, body)
<1>1. \A s \in Requests : pc'[s] = IF s = r THEN "enter" ELSE pc[s]
  BY DEF TypeInv, TypeOK, ControlOK, Comes
<1>2. path[r] \in Seq(VisitType)
  BY DEF TypeInv, TypeOK, ControlOK
<1>3. Len(path[r]) \in Nat
  BY <1>2
<1>4. TypeOK /\ path' = [path EXCEPT ![r] = Append(path[r], Visit(m, body))]
  BY DEF TypeInv, Comes
<1> QED
  BY <1>1, <1>3, <1>4, ExtendedPointwise

\* The state after a call, run by run.
LEMMA CallPointwise ==
    ASSUME TypeInv, NEW r \in Requests, CallNode(r)
    PROVE  \E child \in Nodes \cup {None}, body \in Seq(Nodes) :
              /\ CallOutcome(r, child, body)
              /\ pc[r] = "enter"
              /\ At(r) \in 1..Len(path[r])
              /\ \A s \in Requests : pc'[s] = IF s = r THEN "called" ELSE pc[s]
              /\ \A s \in Requests : Len(path'[s]) = Len(path[s])
              /\ \A s \in Requests \ {r} : path'[s] = path[s] /\ task'[s] = task[s]
              /\ \A i \in 1..Len(path[r]) :
                    /\ path'[r][i].node = path[r][i].node
                    /\ path'[r][i].input = path[r][i].input
                    /\ i # At(r) => path'[r][i].chosen = path[r][i].chosen
              /\ path'[r][At(r)].chosen = child
              /\ \A n \in Nodes \ {Node(r)} : task'[r][n] = task[r][n]
              /\ task'[r][Node(r)].output = body
              /\ task'[r][Node(r)].activated =
                    IF child = None THEN task[r][Node(r)].activated ELSE child
<1>1. PICK child \in Nodes \cup {None}, body \in Seq(Nodes) :
         CallOutcome(r, child, body)
  BY CallShape DEF TypeInv
<1>2. pc[r] = "enter" /\ Called(r, child, body)
  BY <1>1 DEF CallNode, CallOutcome
<1>3. \A s \in Requests : pc'[s] = IF s = r THEN "called" ELSE pc[s]
  BY DEF TypeInv, TypeOK, ControlOK, CallNode
<1>4. At(r) \in 1..Len(path[r])
  BY <1>2, AtVisit DEF TypeInv
<1> QED
  BY <1>1, <1>2, <1>3, <1>4, CalledPointwise DEF TypeInv

\* The marks after a call.
LEMMA CallMarks ==
    ASSUME TypeInv, NEW r \in Requests, NEW child, NEW body,
           CallOutcome(r, child, body)
    PROVE  /\ \A s \in Requests \ {r} : /\ pending'[s] = pending[s]
                                        /\ rejected'[s] = rejected[s]
           /\ \/ /\ pending'[r] = pending[r] /\ rejected'[r] = rejected[r]
                 /\ body = Effect(Node(r), Input(r))
              \/ /\ pending'[r] = pending[r] \cup {At(r)}
                 /\ rejected'[r] = rejected[r]
                 /\ script[Node(r)] = "awaits"
              \/ /\ pending'[r] = pending[r]
                 /\ rejected'[r] = rejected[r] \cup {At(r)}
                 /\ \/ script[Node(r)] = "throws"
                    \/ Kind[Node(r)] # "ROUTE" /\ ManyChildren(Node(r))
  BY DEF CallOutcome, Settles, Suspends, Rejects, TypeInv, TypeOK, CallsOK

\* The state after a run has ended, run by run.
LEMMA EndingPointwise ==
    ASSUME TypeInv, NEW r \in Requests,
           Overflow(r) \/ Rethrow(r) \/ NoChild(r) \/ Return(r)
    PROVE  /\ UNCHANGED <<flow, path, task, pending, rejected, crashed>>
           /\ pc[r] \in {"enter", "called"}
           /\ \/ /\ \A s \in Requests : pc'[s] = IF s = r THEN "failed" ELSE pc[s]
                 /\ UNCHANGED answer
              \/ /\ Return(r)
                 /\ \A s \in Requests : pc'[s] = IF s = r THEN "answered" ELSE pc[s]
                 /\ answer' = [answer EXCEPT ![r] = Output(r)]
<1>1. pc \in [Requests -> {"idle", "enter", "called", "answered", "failed"}]
  BY DEF TypeInv, TypeOK, ControlOK
<1>2. CASE Return(r)
  BY <1>1, <1>2, EndingSteps DEF Ends, TypeInv
<1>3. CASE Overflow(r) \/ Rethrow(r) \/ NoChild(r)
  BY <1>1, <1>3, EndingSteps DEF Ends, TypeInv
<1> QED
  BY <1>2, <1>3

LEMMA MarksStep ==
    ASSUME TypeInv, MarksInPath, [Next]_vars
    PROVE  MarksInPath'
<1>1. ASSUME NEW r \in Requests, Begin(r) \/ HandOver(r)
      PROVE  MarksInPath'
  <2>1. PICK m \in Nodes, body \in Seq(Nodes) : Comes(r, m, body)
    BY <1>1, ComingShape
  <2>2. UNCHANGED <<pending, rejected>>
    BY <2>1 DEF Comes
  <2>3. path'[r][Len(path[r]) + 1].chosen = None
    <3>1. path'[r][Len(path[r]) + 1] = Visit(m, body)
      BY <2>1, ComingPointwise
    <3> QED
      BY <3>1 DEF Visit
  <2>4. /\ pending[r] \subseteq 1..Len(path'[r]) /\ rejected[r] \subseteq 1..Len(path'[r])
        /\ Len(path'[r]) \notin pending[r] \cup rejected[r]
    BY <2>1, ComingPointwise DEF MarksInPath, At
  <2>5. ASSUME NEW s \in Requests \ {r}
        PROVE  /\ pc'[s] = pc[s] /\ path'[s] = path[s]
    BY <2>1, ComingPointwise
  <2> QED
    BY <2>1, <2>2, <2>3, <2>4, <2>5, ComingPointwise DEF MarksInPath, At
<1>2. ASSUME NEW r \in Requests, CallNode(r)
      PROVE  MarksInPath'
  <2>1. PICK child \in Nodes \cup {None}, body \in Seq(Nodes) :
           /\ CallOutcome(r, child, body)
           /\ At(r) \in 1..Len(path[r])
           /\ \A s \in Requests : pc'[s] = IF s = r THEN "called" ELSE pc[s]
           /\ \A s \in Requests : Len(path'[s]) = Len(path[s])
           /\ \A s \in Requests \ {r} : path'[s] = path[s]
    BY <1>2, CallPointwise
  <2>2. pending'[r] \subseteq 1..At(r) /\ rejected'[r] \subseteq 1..At(r)
    BY <2>1, CallMarks DEF MarksInPath, At
  <2>3. \A s \in Requests \ {r} : pending'[s] = pending[s] /\ rejected'[s] = rejected[s]
    BY <2>1, CallMarks
  <2> QED
    BY <2>1, <2>2, <2>3 DEF MarksInPath, At
<1>3. ASSUME NEW r \in Requests,
             Overflow(r) \/ Rethrow(r) \/ NoChild(r) \/ Return(r)
      PROVE  MarksInPath'
  <2>1. \A s \in Requests : pc'[s] = "enter" => pc[s] = "enter"
    BY <1>3, EndingPointwise
  <2> QED
    BY <1>3, <2>1, EndingPointwise DEF MarksInPath, At
<1>4. ASSUME NEW r \in Requests, NEW i \in 1..MaxDepth, Continue(r, i)
      PROVE  MarksInPath'
  <2>1. i \in pending[r] /\ UNCHANGED <<pc, path>>
    BY <1>4 DEF Continue, Resume, ResumeThrows, MayResume
  <2>2. /\ \A s \in Requests \ {r} : pending'[s] = pending[s] /\ rejected'[s] = rejected[s]
        /\ pending'[r] = pending[r] \ {i}
        /\ rejected'[r] \subseteq rejected[r] \cup {i}
    BY <1>4, LinkedStep, ContinueKeepsTypes, ContinuePointwise DEF TypeInv
  <2> QED
    BY <2>1, <2>2 DEF MarksInPath, At
<1>5. CASE Crash \/ UNCHANGED vars
  BY <1>5 DEF Crash, vars, flow, MarksInPath, At
<1> QED
  BY <1>1, <1>2, <1>3, <1>4, <1>5, StepShapes

LEMMA MarksInit == Init => MarksInPath
  BY DEF Init, MarksInPath

LEMMA TypesAndMarks == Spec => [](TypeInv /\ MarksInPath)
<1>1. Init => TypeInv /\ MarksInPath
  BY TypeInit, MarksInit
<1>2. (TypeInv /\ MarksInPath) /\ [Next]_vars => (TypeInv /\ MarksInPath)'
  BY TypeStep, MarksStep
<1> QED
  BY <1>1, <1>2, PTL DEF Spec

\* Every variable of a flow's execution keeps its type: no run goes deeper than
\* one node beyond MAX_DEPTH, and no call deeper than MAX_DEPTH is ever at work.
THEOREM TypeCorrect == Spec => []TypeOK
<1>1. TypeInv => TypeOK
  BY DEF TypeInv
<1> QED
  BY <1>1, TypesAndMarks, PTL

-----------------------------------------------------------------------------
(* Hops. *)

\* What a task has activated, a visit of its node has chosen.
ActivationWasChosen ==
    \A r \in Requests : \A n \in Nodes :
        task[r][n].activated # None =>
            \E j \in 1..At(r) : /\ path[r][j].node = n
                                /\ path[r][j].chosen = task[r][n].activated

\* HopWasChosen of one hop of one run, and ActivationWasChosen of one task.
HopOK(r, i) ==
    \/ path[r][i].chosen = path[r][i + 1].node
    \/ \E j \in 1..i - 1 : /\ path[r][j].node = path[r][i].node
                           /\ path[r][j].chosen = path[r][i + 1].node

ActivationOK(r, n) ==
    task[r][n].activated # None =>
        \E j \in 1..Len(path[r]) : /\ path[r][j].node = n
                                   /\ path[r][j].chosen = task[r][n].activated

HopInv == \A r \in Requests : /\ \A i \in 1..Len(path[r]) - 1 : HopOK(r, i)
                              /\ \A n \in Nodes : ActivationOK(r, n)

LEMMA HopInvSays == HopInv => HopWasChosen /\ ActivationWasChosen
  BY DEF HopInv, HopOK, ActivationOK, HopWasChosen, ActivationWasChosen, At

\* A run whose path and activations stay as they are.
LEMMA HopFrame ==
    ASSUME HopInv, NEW s \in Requests, path'[s] = path[s],
           \A n \in Nodes : task'[s][n].activated = task[s][n].activated
    PROVE  /\ \A i \in 1..Len(path'[s]) - 1 : HopOK(s, i)'
           /\ \A n \in Nodes : ActivationOK(s, n)'
<1>1. ASSUME NEW i \in 1..Len(path'[s]) - 1
      PROVE  HopOK(s, i)'
  <2>1. HopOK(s, i)
    BY DEF HopInv
  <2> QED
    BY <2>1 DEF HopOK
<1>2. ASSUME NEW n \in Nodes
      PROVE  ActivationOK(s, n)'
  <2>1. ActivationOK(s, n)
    BY DEF HopInv
  <2> QED
    BY <2>1 DEF ActivationOK
<1> QED
  BY <1>1, <1>2

LEMMA HopInit == Init => HopInv
<1> SUFFICES ASSUME Init, NEW r \in Requests
             PROVE  /\ \A i \in 1..Len(path[r]) - 1 : HopOK(r, i)
                    /\ \A n \in Nodes : ActivationOK(r, n)
  BY DEF HopInv
<1>1. path[r] = <<>> /\ \A n \in Nodes : task[r][n].activated = None
  BY DEF Init
<1> QED
  BY <1>1 DEF ActivationOK

LEMMA HopStep ==
    ASSUME TypeInv, MarksInPath, HopInv, [Next]_vars
    PROVE  HopInv'
<1>1. ASSUME NEW r \in Requests, Begin(r) \/ HandOver(r)
      PROVE  HopInv'
  <2>1. PICK m \in Nodes, body \in Seq(Nodes) :
           /\ Comes(r, m, body)
           /\ \/ Begin(r) /\ path[r] = <<>> /\ m \in StartNodes /\ body = <<>>
              \/ HandOver(r) /\ m \in Activated(r) /\ body = Output(r)
    BY <1>1, ComingShape
  <2>2. /\ Len(path[r]) \in Nat
        /\ Len(path'[r]) = Len(path[r]) + 1
        /\ \A i \in 1..Len(path[r]) : path'[r][i] = path[r][i]
        /\ path'[r][Len(path[r]) + 1] = Visit(m, body)
        /\ \A s \in Requests \ {r} : path'[s] = path[s]
        /\ UNCHANGED task
    BY <2>1, ComingPointwise DEF Comes
  <2>3. ASSUME NEW i \in 1..Len(path'[r]) - 1
        PROVE  HopOK(r, i)'
    <3>1. CASE i < Len(path[r])
      <4>1. i \in 1..Len(path[r]) - 1 /\ i + 1 \in 1..Len(path[r])
        BY <2>2, <3>1
      <4>2. HopOK(r, i)
        BY <4>1 DEF HopInv
      <4>3. /\ path'[r][i] = path[r][i] /\ path'[r][i + 1] = path[r][i + 1]
            /\ \A j \in 1..i - 1 : path'[r][j] = path[r][j]
        <5>1. \A j \in 1..i - 1 : j \in 1..Len(path[r])
          BY <2>2, <4>1
        <5> QED
          BY <2>2, <4>1, <5>1
      <4> QED
        BY <4>2, <4>3 DEF HopOK
    <3>2. CASE i = Len(path[r])
      <4>1. path'[r][i + 1].node = m
        BY <2>2, <3>2 DEF Visit
      <4>2. m \in Activated(r) /\ pc[r] = "called"
        BY <2>1, <2>2, <3>2 DEF HandOver, MayProceed
      <4>3. m = task[r][Node(r)].activated /\ m # None /\ Node(r) \in Nodes
        BY <4>2, AtVisit, FlowAssumption DEF Activated, TypeInv
      <4>4. PICK j \in 1..Len(path[r]) : /\ path[r][j].node = Node(r)
                                         /\ path[r][j].chosen = m
        BY <4>3 DEF HopInv, ActivationOK
      <4>5. path'[r][j] = path[r][j] /\ path'[r][i] = path[r][i]
        BY <2>2, <3>2, <4>4
      <4>6. Node(r) = path'[r][i].node
        BY <3>2, <4>5 DEF Node, At
      <4>7. j = i \/ j \in 1..i - 1
        BY <2>2, <3>2
      <4> QED
        BY <4>1, <4>4, <4>5, <4>6, <4>7 DEF HopOK
    <3> QED
      BY <2>2, <3>1, <3>2
  <2>4. ASSUME NEW n \in Nodes
        PROVE  ActivationOK(r, n)'
    <3>1. ActivationOK(r, n)
      BY DEF HopInv
    <3> QED
      BY <2>2, <3>1 DEF ActivationOK
  <2>5. ASSUME NEW s \in Requests \ {r}
        PROVE  /\ \A i \in 1..Len(path'[s]) - 1 : HopOK(s, i)'
               /\ \A n \in Nodes : ActivationOK(s, n)'
    BY <2>2, HopFrame
  <2> QED
    BY <2>3, <2>4, <2>5 DEF HopInv
<1>2. ASSUME NEW r \in Requests, CallNode(r)
      PROVE  HopInv'
  <2>1. PICK child \in Nodes \cup {None}, body \in Seq(Nodes) :
              /\ CallOutcome(r, child, body)
              /\ pc[r] = "enter"
              /\ At(r) \in 1..Len(path[r])
              /\ \A s \in Requests : Len(path'[s]) = Len(path[s])
              /\ \A s \in Requests \ {r} : path'[s] = path[s] /\ task'[s] = task[s]
              /\ \A i \in 1..Len(path[r]) :
                    /\ path'[r][i].node = path[r][i].node
                    /\ i # At(r) => path'[r][i].chosen = path[r][i].chosen
              /\ path'[r][At(r)].chosen = child
              /\ \A n \in Nodes \ {Node(r)} : task'[r][n] = task[r][n]
              /\ task'[r][Node(r)].activated =
                    IF child = None THEN task[r][Node(r)].activated ELSE child
    BY <1>2, CallPointwise
  <2>2. At(r) = Len(path[r]) /\ path[r][At(r)].chosen = None /\ Len(path[r]) \in Nat
    BY <2>1 DEF At, MarksInPath, TypeInv, TypeOK, ControlOK
  <2>3. ASSUME NEW i \in 1..Len(path'[r]) - 1
        PROVE  HopOK(r, i)'
    <3>1. i \in 1..Len(path[r]) - 1 /\ i + 1 \in 1..Len(path[r])
      BY <2>1, <2>2
    <3>2. HopOK(r, i)
      BY <3>1 DEF HopInv
    <3>3. path'[r][i + 1].node = path[r][i + 1].node
      BY <2>1, <3>1
    <3>4. \A j \in 1..i : /\ path'[r][j].node = path[r][j].node
                          /\ path'[r][j].chosen = path[r][j].chosen
      BY <2>1, <2>2, <3>1
    <3>5. \A j \in 1..i - 1 : j \in 1..i
      BY <3>1
    <3>6. i \in 1..i
      BY <3>1
    <3> QED
      BY <3>2, <3>3, <3>4, <3>5, <3>6 DEF HopOK
  <2>4. ASSUME NEW n \in Nodes, task'[r][n].activated # None
        PROVE  \E j \in 1..Len(path'[r]) :
                  /\ path'[r][j].node = n
                  /\ path'[r][j].chosen = task'[r][n].activated
    <3>1. CASE n = Node(r) /\ child # None
      BY <2>1, <3>1 DEF Node
    <3>2. CASE ~(n = Node(r) /\ child # None)
      <4>1. task'[r][n].activated = task[r][n].activated
        BY <2>1, <3>2
      <4>2. PICK j \in 1..Len(path[r]) : /\ path[r][j].node = n
                                         /\ path[r][j].chosen = task[r][n].activated
        BY <2>4, <4>1 DEF HopInv, ActivationOK
      <4>3. j # At(r)
        BY <2>2, <2>4, <4>1, <4>2
      <4> QED
        BY <2>1, <4>1, <4>2, <4>3
    <3> QED
      BY <3>1, <3>2
  <2>5. \A n \in Nodes : ActivationOK(r, n)'
    BY <2>4 DEF ActivationOK
  <2>6. ASSUME NEW s \in Requests \ {r}
        PROVE  /\ \A i \in 1..Len(path'[s]) - 1 : HopOK(s, i)'
               /\ \A n \in Nodes : ActivationOK(s, n)'
    BY <2>1, HopFrame
  <2> QED
    BY <2>3, <2>5, <2>6 DEF HopInv
<1>3. ASSUME NEW r \in Requests,
             Overflow(r) \/ Rethrow(r) \/ NoChild(r) \/ Return(r)
      PROVE  HopInv'
  BY <1>3, EndingPointwise, HopFrame DEF HopInv
<1>4. ASSUME NEW r \in Requests, NEW i \in 1..MaxDepth, Continue(r, i)
      PROVE  HopInv'
  <2>1. UNCHANGED path
    BY <1>4 DEF Continue, Resume, ResumeThrows
  <2>2. \A s \in Requests : \A n \in Nodes :
           task'[s][n].activated = task[s][n].activated
    BY <1>4, LinkedStep, ContinueKeepsTypes, ContinuePointwise DEF TypeInv
  <2> QED
    BY <2>1, <2>2, HopFrame DEF HopInv
<1>5. CASE Crash \/ UNCHANGED vars
  BY <1>5, HopFrame DEF Crash, vars, HopInv
<1> QED
  BY <1>1, <1>2, <1>3, <1>4, <1>5, StepShapes

\* A run goes only where a call of its own has pointed, for any flow and any
\* number of runs in any order: the call of this visit, or that of an earlier
\* visit to the same node.
THEOREM HopAlwaysChosen == Spec => []HopWasChosen
<1>1. Init => HopInv
  BY HopInit
<1>2. TypeInv /\ MarksInPath /\ HopInv /\ [Next]_vars => HopInv'
  BY HopStep
<1>3. HopInv => HopWasChosen
  BY HopInvSays
<1> QED
  BY <1>1, <1>2, <1>3, TypesAndMarks, PTL DEF Spec

-----------------------------------------------------------------------------
(* Finished work. *)

\* The awaiting variant never leaves a node behind whose call is at work or has
\* failed.
QuietUtil ==
    variant = "util" =>
        \A r \in Requests :
            /\ pending[r] \subseteq {At(r)}
            /\ rejected[r] \subseteq {At(r)}
            /\ pending[r] # {} => pc[r] = "called"
            /\ rejected[r] # {} => pc[r] \in {"called", "failed"}

LEMMA QuietStep ==
    ASSUME TypeInv, MarksInPath, QuietUtil, [Next]_vars
    PROVE  QuietUtil'
<1>1. ASSUME NEW r \in Requests, Begin(r) \/ HandOver(r)
      PROVE  QuietUtil'
  <2>1. PICK m \in Nodes, body \in Seq(Nodes) :
           /\ Comes(r, m, body)
           /\ \/ Begin(r) /\ path[r] = <<>> /\ m \in StartNodes /\ body = <<>>
              \/ HandOver(r) /\ m \in Activated(r) /\ body = Output(r)
    BY <1>1, ComingShape
  <2>2. UNCHANGED <<variant, pending, rejected>>
    BY <2>1 DEF Comes, flow
  <2>3. variant = "util" => pending[r] = {} /\ rejected[r] = {}
    BY <1>1 DEF Begin, HandOver, MayProceed, SeesRejection, QuietUtil
  <2>4. \A s \in Requests \ {r} : pc'[s] = pc[s] /\ path'[s] = path[s]
    BY <2>1, ComingPointwise
  <2> QED
    BY <2>2, <2>3, <2>4 DEF QuietUtil, At
<1>2. ASSUME NEW r \in Requests, CallNode(r)
      PROVE  QuietUtil'
  <2>1. PICK child \in Nodes \cup {None}, body \in Seq(Nodes) :
           /\ CallOutcome(r, child, body)
           /\ pc[r] = "enter"
           /\ \A s \in Requests : pc'[s] = IF s = r THEN "called" ELSE pc[s]
           /\ \A s \in Requests : Len(path'[s]) = Len(path[s])
    BY <1>2, CallPointwise
  <2>2. UNCHANGED variant
    BY <1>2 DEF CallNode, flow
  <2>3. /\ pending'[r] \subseteq pending[r] \cup {At(r)}
        /\ rejected'[r] \subseteq rejected[r] \cup {At(r)}
        /\ \A s \in Requests \ {r} : pending'[s] = pending[s] /\ rejected'[s] = rejected[s]
    BY <2>1, CallMarks
  <2> QED
    BY <2>1, <2>2, <2>3 DEF QuietUtil, At
<1>3. ASSUME NEW r \in Requests,
             Overflow(r) \/ Rethrow(r) \/ NoChild(r) \/ Return(r)
      PROVE  QuietUtil'
  <2>1. variant = "util" => /\ pending[r] = {}
                            /\ Return(r) => rejected[r] = {}
    BY <1>3 DEF Overflow, Rethrow, NoChild, Return, MayProceed, SeesRejection, QuietUtil
  <2>2. UNCHANGED <<flow, path, pending, rejected>>
    BY <1>3, EndingPointwise
  <2>3. \/ \A s \in Requests : pc'[s] = IF s = r THEN "failed" ELSE pc[s]
        \/ /\ Return(r)
           /\ \A s \in Requests : pc'[s] = IF s = r THEN "answered" ELSE pc[s]
    BY <1>3, EndingPointwise
  <2> QED
    BY <2>1, <2>2, <2>3 DEF QuietUtil, At, flow
<1>4. ASSUME NEW r \in Requests, NEW i \in 1..MaxDepth, Continue(r, i)
      PROVE  QuietUtil'
  <2>1. i \in pending[r] /\ UNCHANGED <<variant, pc, path>>
    BY <1>4 DEF Continue, Resume, ResumeThrows, MayResume, flow
  <2>2. /\ \A s \in Requests \ {r} : pending'[s] = pending[s] /\ rejected'[s] = rejected[s]
        /\ pending'[r] = pending[r] \ {i}
        /\ rejected'[r] \subseteq rejected[r] \cup {i}
    BY <1>4, LinkedStep, ContinueKeepsTypes, ContinuePointwise DEF TypeInv
  <2> QED
    BY <2>1, <2>2 DEF QuietUtil, At
<1>5. CASE Crash \/ UNCHANGED vars
  BY <1>5 DEF Crash, vars, flow, QuietUtil, At
<1> QED
  BY <1>1, <1>2, <1>3, <1>4, <1>5, StepShapes

LEMMA AlwaysQuiet == Spec => []QuietUtil
<1>1. Init => QuietUtil
  BY DEF Init, QuietUtil
<1>2. TypeInv /\ MarksInPath /\ QuietUtil /\ [Next]_vars => QuietUtil'
  BY QuietStep
<1> QED
  BY <1>1, <1>2, TypesAndMarks, PTL DEF Spec

\* The awaiting processFlow answers only when every script of its run is done
\* and none has failed, whatever the scripts await and whatever other runs do.
THEOREM NothingEverRunsAfterAnswer == Spec => []NothingRunsAfterAnswer
<1>1. QuietUtil => NothingRunsAfterAnswer
  BY DEF QuietUtil, NothingRunsAfterAnswer
<1> QED
  BY <1>1, AlwaysQuiet, PTL

-----------------------------------------------------------------------------
(* Answers. *)

\* One run's part of AnswerIsOfWholePath, with the path of a run that goes on.
WholePath(r) ==
    /\ \A i \in 1..Len(path[r]) - 1 : <<path[r][i].node, path[r][i + 1].node>> \in links
    /\ path[r] # <<>> => Kind[path[r][1].node] = "CONTEXT"
    /\ pc[r] = "answered" => /\ Children(Node(r)) = {}
                             /\ variant = "controller" => Kind[Node(r)] = "END"

LEMMA WholePathFrame ==
    ASSUME NEW s \in Requests, WholePath(s), UNCHANGED <<links, variant>>,
           path'[s] = path[s], pc'[s] = pc[s] \/ pc'[s] # "answered"
    PROVE  WholePath(s)'
  BY DEF WholePath, Children, Node, At

LEMMA WholePathStep ==
    ASSUME TypeInv, MarksInPath, \A r \in Requests : WholePath(r), [Next]_vars,
           NEW s \in Requests
    PROVE  WholePath(s)'
<1>0. UNCHANGED <<links, variant>>
  BY DEF Next, Step, Begin, Overflow, Throw, CallNode, Rethrow, Return, NoChild,
         HandOver, Continue, Resume, ResumeThrows, Crash, vars, flow
<1>1. ASSUME NEW r \in Requests, Begin(r) \/ HandOver(r)
      PROVE  WholePath(s)'
  <2>1. PICK m \in Nodes, body \in Seq(Nodes) :
           /\ Comes(r, m, body)
           /\ \/ Begin(r) /\ path[r] = <<>> /\ m \in StartNodes /\ body = <<>>
              \/ HandOver(r) /\ m \in Activated(r) /\ body = Output(r)
    BY <1>1, ComingShape
  <2>2. /\ \A z \in Requests : pc'[z] = IF z = r THEN "enter" ELSE pc[z]
        /\ \A z \in Requests \ {r} : path'[z] = path[z]
        /\ Len(path[r]) \in Nat
        /\ Len(path'[r]) = Len(path[r]) + 1
        /\ \A i \in 1..Len(path[r]) : path'[r][i] = path[r][i]
        /\ path'[r][Len(path[r]) + 1] = Visit(m, body)
    BY <2>1, ComingPointwise
  <2>3. CASE s # r
    BY <1>0, <2>2, <2>3, WholePathFrame
  <2>4. CASE s = r
    <3>1. path'[r][Len(path[r]) + 1].node = m
      BY <2>2 DEF Visit
    <3>2. CASE HandOver(r) /\ m \in Activated(r)
      <4>1. pc[r] # "idle" /\ path[r] # <<>>
        BY <3>2 DEF HandOver, MayProceed, TypeInv, TypeOK, PathsFit
      <4>2. <<Node(r), m>> \in links
        BY <3>2, <4>1, ChildrenOfTask DEF Activated, Children
      <4>3. Len(path[r]) > 0
        BY <2>2, <4>1, AtVisit DEF TypeInv, At
      <4>4. \A i \in 1..Len(path'[r]) - 1 :
               <<path'[r][i].node, path'[r][i + 1].node>> \in links
        <5> TAKE i \in 1..Len(path'[r]) - 1
        <5>1. CASE i = Len(path[r])
          BY <2>2, <3>1, <4>2, <4>3, <5>1 DEF Node, At
        <5>2. CASE i < Len(path[r])
          <6>1. i \in 1..Len(path[r]) - 1 /\ i \in 1..Len(path[r])
                /\ i + 1 \in 1..Len(path[r])
            BY <2>2, <5>2
          <6> QED
            BY <2>2, <6>1 DEF WholePath
        <5> QED
          BY <2>2, <5>1, <5>2
      <4>5. Kind[path'[r][1].node] = "CONTEXT"
        BY <2>2, <4>1, <4>3 DEF WholePath
      <4> QED
        BY <1>0, <2>2, <2>4, <4>4, <4>5 DEF WholePath
    <3>3. CASE path[r] = <<>> /\ m \in StartNodes
      <4>1. Len(path[r]) = 0 /\ Kind[m] = "CONTEXT"
        BY <3>3 DEF StartNodes
      <4> QED
        BY <2>2, <2>4, <3>1, <4>1 DEF WholePath
    <3> QED
      BY <2>1, <3>2, <3>3
  <2> QED
    BY <2>3, <2>4
<1>2. ASSUME NEW r \in Requests, CallNode(r)
      PROVE  WholePath(s)'
  <2>1. /\ pc'[r] = "called"
        /\ \A z \in Requests \ {r} : pc'[z] = pc[z] /\ path'[z] = path[z]
        /\ At(r) \in 1..Len(path[r]) /\ Len(path'[r]) = Len(path[r])
        /\ \A i \in 1..Len(path[r]) : path'[r][i].node = path[r][i].node
    BY <1>2, CallPointwise
  <2>2. CASE s # r
    BY <1>0, <2>1, <2>2, WholePathFrame
  <2>3. CASE s = r
    <3>1. /\ \A i \in 1..Len(path[r]) - 1 : /\ i \in 1..Len(path[r])
                                             /\ i + 1 \in 1..Len(path[r])
          /\ 1 \in 1..Len(path[r])
          /\ path[r] # <<>>
      BY <2>1 DEF At
    <3> QED
      BY <1>0, <2>1, <2>3, <3>1 DEF WholePath
  <2> QED
    BY <2>2, <2>3
<1>3. ASSUME NEW r \in Requests,
             Overflow(r) \/ Rethrow(r) \/ NoChild(r) \/ Return(r)
      PROVE  WholePath(s)'
  <2>1. /\ UNCHANGED path
        /\ \/ \A z \in Requests : pc'[z] = IF z = r THEN "failed" ELSE pc[z]
           \/ /\ Return(r)
              /\ \A z \in Requests : pc'[z] = IF z = r THEN "answered" ELSE pc[z]
    BY <1>3, EndingPointwise
  <2>2. CASE s = r /\ Return(r)
    <3>1. pc[r] # "idle"
      BY <2>2 DEF Return, MayProceed
    <3>2. Children(Node(r)) = {} /\ (variant = "controller" => Node(r) \in EndNodes)
      BY <2>2, <3>1, ChildrenOfTask DEF Return, IsLast, EndNodes, Children
    <3> QED
      BY <1>0, <2>1, <2>2, <3>2 DEF WholePath, EndNodes, Children, Node, At
  <2>3. CASE ~(s = r /\ Return(r))
    BY <1>0, <2>1, <2>3, WholePathFrame
  <2> QED
    BY <2>2, <2>3
<1>4. ASSUME NEW r \in Requests, NEW i \in 1..MaxDepth, Continue(r, i)
      PROVE  UNCHANGED <<pc, path>>
  BY <1>4 DEF Continue, Resume, ResumeThrows
<1>5. Crash \/ UNCHANGED vars => UNCHANGED <<pc, path>>
  BY DEF Crash, vars
<1>6. CASE UNCHANGED <<pc, path>>
  BY <1>0, <1>6, WholePathFrame
<1> QED
  BY <1>1, <1>2, <1>3, <1>4, <1>5, <1>6, StepShapes

\* Whatever was edited since the compilation and however the runs interleave,
\* an answer has gone all the way from a context node along stored links; the
\* controller never answers at a node that has only lost its links.
THEOREM AnswerAlwaysOfWholePath == Spec => []AnswerIsOfWholePath
<1> DEFINE Whole == \A r \in Requests : WholePath(r)
<1>1. Init => Whole
  <2> SUFFICES ASSUME Init, NEW r \in Requests
               PROVE  WholePath(r)
    OBVIOUS
  <2>1. path[r] = <<>> /\ pc[r] = "idle"
    BY DEF Init
  <2>2. Len(path[r]) - 1 = 0 - 1
    BY <2>1
  <2>3. 1..Len(path[r]) - 1 = {}
    BY <2>2
  <2> QED
    BY <2>1, <2>3 DEF WholePath
<1>2. (TypeInv /\ MarksInPath) /\ Whole /\ [Next]_vars => Whole'
  BY WholePathStep
<1>3. TypeInv /\ Whole => AnswerIsOfWholePath
  BY DEF TypeInv, TypeOK, PathsFit, WholePath, AnswerIsOfWholePath, At
<1> HIDE DEF Whole
<1> QED
  BY <1>1, <1>2, <1>3, TypesAndMarks, PTL DEF Spec

-----------------------------------------------------------------------------
(* Refinement.  A run that hands on finished work is a walk. *)

\* A node with several ways out that is no route never activates one; when all
\* scripts are plain nothing is ever at work, and only such a node fails; the
\* output of a node whose call has settled is what its script made.
SeveralInv ==
    \A r \in Requests : \A n \in Nodes :
        Kind[n] # "ROUTE" /\ ManyChildren(n) => task[r][n].activated = None

PlainInv ==
    (\A n \in Nodes : script[n] = "plain") =>
        \A r \in Requests :
            /\ pending[r] = {}
            /\ pc[r] = "called" /\ At(r) \in rejected[r] =>
                  Kind[Node(r)] # "ROUTE" /\ ManyChildren(Node(r))

Settled(r) == pc[r] = "called" /\ At(r) \notin pending[r] /\ At(r) \notin rejected[r]

OutputInv ==
    HandsOnFinishedWork =>
        \A r \in Requests : Settled(r) => Output(r) = Effect(Node(r), Input(r))

ReadyInv == SeveralInv /\ PlainInv /\ OutputInv

LEMMA SeveralStep ==
    ASSUME TypeInv, MarksInPath, SeveralInv, [Next]_vars
    PROVE  SeveralInv'
<1>1. UNCHANGED links => \A n \in Nodes : ManyChildren(n)' <=> ManyChildren(n)
  BY DEF ManyChildren, Children
<1>2. ASSUME NEW r \in Requests, CallNode(r)
      PROVE  SeveralInv'
  <2>1. PICK child \in Nodes \cup {None}, body \in Seq(Nodes) :
           /\ CallOutcome(r, child, body)
           /\ \A s \in Requests \ {r} : task'[s] = task[s]
           /\ \A n \in Nodes \ {Node(r)} : task'[r][n] = task[r][n]
           /\ task'[r][Node(r)].activated =
                 IF child = None THEN task[r][Node(r)].activated ELSE child
    BY <1>2, CallPointwise
  <2>2. Kind[Node(r)] # "ROUTE" /\ ManyChildren(Node(r)) => child = None
    BY <2>1 DEF CallOutcome
  <2>3. UNCHANGED links
    BY <1>2 DEF CallNode, flow
  <2>4. ASSUME NEW n \in Nodes, Kind[n] # "ROUTE", ManyChildren(n)
        PROVE  task'[r][n].activated = None
    <3>1. task[r][n].activated = None
      BY <2>4 DEF SeveralInv
    <3> QED
      BY <2>1, <2>2, <2>4, <3>1
  <2> QED
    BY <1>1, <2>1, <2>3, <2>4 DEF SeveralInv
<1>3. ASSUME NEW r \in Requests, NEW i \in 1..MaxDepth, Continue(r, i)
      PROVE  SeveralInv'
  <2>1. UNCHANGED links
    BY <1>3 DEF Continue, Resume, ResumeThrows, flow
  <2>2. \A s \in Requests : \A n \in Nodes :
           task'[s][n].activated = task[s][n].activated
    BY <1>3, LinkedStep, ContinueKeepsTypes, ContinuePointwise DEF TypeInv
  <2> QED
    BY <1>1, <2>1, <2>2 DEF SeveralInv
<1>4. CASE UNCHANGED <<links, task>>
  BY <1>1, <1>4 DEF SeveralInv
<1>5. ASSUME NEW r \in Requests, Begin(r) \/ HandOver(r)
      PROVE  UNCHANGED <<links, task>>
  BY <1>5 DEF Begin, HandOver, flow
<1>6. ASSUME NEW r \in Requests,
             Overflow(r) \/ Rethrow(r) \/ NoChild(r) \/ Return(r)
      PROVE  UNCHANGED <<links, task>>
  BY <1>6, EndingPointwise DEF flow
<1>7. Crash \/ UNCHANGED vars => UNCHANGED <<links, task>>
  BY DEF Crash, vars, flow
<1> QED
  BY <1>2, <1>3, <1>4, <1>5, <1>6, <1>7, StepShapes

LEMMA PlainStep ==
    ASSUME TypeInv, MarksInPath, PlainInv, [Next]_vars
    PROVE  PlainInv'
<1> SUFFICES ASSUME \A n \in Nodes : script'[n] = "plain"
             PROVE  \A r \in Requests :
                       /\ pending'[r] = {}
                       /\ pc'[r] = "called" /\ At(r)' \in rejected'[r] =>
                             Kind[Node(r)'] # "ROUTE" /\ ManyChildren(Node(r))'
  BY DEF PlainInv
<1>1. UNCHANGED <<links, script>>
  BY DEF Next, Step, Begin, Overflow, Throw, CallNode, Rethrow, Return, NoChild,
         HandOver, Continue, Resume, ResumeThrows, Crash, vars, flow
<1>2. \A n \in Nodes : script[n] = "plain"
  BY <1>1
<1>3. \A r \in Requests :
         /\ pending[r] = {}
         /\ pc[r] = "called" /\ At(r) \in rejected[r] =>
               Kind[Node(r)] # "ROUTE" /\ ManyChildren(Node(r))
  BY <1>2 DEF PlainInv
<1>4. ASSUME NEW s \in Requests, pending'[s] = pending[s], rejected'[s] = rejected[s],
             pc'[s] # "called" \/ (pc'[s] = pc[s] /\ path'[s] = path[s])
      PROVE  /\ pending'[s] = {}
             /\ pc'[s] = "called" /\ At(s)' \in rejected'[s] =>
                   Kind[Node(s)'] # "ROUTE" /\ ManyChildren(Node(s))'
  BY <1>1, <1>3, <1>4 DEF At, Node, ManyChildren, Children
<1>5. ASSUME NEW r \in Requests, Begin(r) \/ HandOver(r), NEW s \in Requests
      PROVE  /\ pending'[s] = pending[s] /\ rejected'[s] = rejected[s]
             /\ pc'[s] # "called" \/ (pc'[s] = pc[s] /\ path'[s] = path[s])
  BY <1>5, ComingShape, ComingPointwise DEF Comes
<1>6. ASSUME NEW r \in Requests, CallNode(r), NEW s \in Requests
      PROVE  /\ pending'[s] = {}
             /\ pc'[s] = "called" /\ At(s)' \in rejected'[s] =>
                   Kind[Node(s)'] # "ROUTE" /\ ManyChildren(Node(s))'
  <2>1. PICK child \in Nodes \cup {None}, body \in Seq(Nodes) :
           /\ CallOutcome(r, child, body)
           /\ pc[r] = "enter"
           /\ At(r) \in 1..Len(path[r])
           /\ \A z \in Requests : pc'[z] = IF z = r THEN "called" ELSE pc[z]
           /\ \A z \in Requests : Len(path'[z]) = Len(path[z])
           /\ \A z \in Requests \ {r} : path'[z] = path[z]
           /\ \A i \in 1..Len(path[r]) : path'[r][i].node = path[r][i].node
    BY <1>6, CallPointwise
  <2>2. /\ \A z \in Requests \ {r} : pending'[z] = pending[z] /\ rejected'[z] = rejected[z]
        /\ script[Node(r)] = "plain" =>
              /\ pending'[r] = pending[r]
              /\ \/ rejected'[r] = rejected[r]
                 \/ Kind[Node(r)] # "ROUTE" /\ ManyChildren(Node(r))
    BY <2>1, CallMarks
  <2>3. CASE s # r
    BY <1>4, <2>1, <2>2, <2>3
  <2>4. CASE s = r
    <3>1. Node(r) \in Nodes /\ At(r) \notin rejected[r]
      BY <2>1, AtVisit DEF TypeInv, MarksInPath
    <3>2. At(r)' = At(r) /\ Node(r)' = Node(r)
      BY <2>1 DEF At, Node
    <3>3. ManyChildren(Node(r)) => ManyChildren(Node(r))'
      BY <1>1, <3>2 DEF ManyChildren, Children
    <3> QED
      BY <1>2, <1>3, <2>2, <2>4, <3>1, <3>2, <3>3
  <2> QED
    BY <2>3, <2>4
<1>7. ASSUME NEW r \in Requests,
             Overflow(r) \/ Rethrow(r) \/ NoChild(r) \/ Return(r), NEW s \in Requests
      PROVE  /\ pending'[s] = pending[s] /\ rejected'[s] = rejected[s]
             /\ pc'[s] # "called" \/ (pc'[s] = pc[s] /\ path'[s] = path[s])
  BY <1>7, EndingPointwise
<1>8. ~ \E r \in Requests, i \in 1..MaxDepth : Continue(r, i)
  BY <1>3 DEF Continue, Resume, ResumeThrows, MayResume
<1>9. Crash \/ UNCHANGED vars => UNCHANGED <<pc, path, pending, rejected>>
  BY DEF Crash, vars
<1> QED
  BY <1>4, <1>5, <1>6, <1>7, <1>8, <1>9, StepShapes

LEMMA OutputStep ==
    ASSUME TypeInv, MarksInPath, QuietUtil, PlainInv, OutputInv, [Next]_vars
    PROVE  OutputInv'
<1>1. UNCHANGED <<script, variant>>
  BY DEF Next, Step, Begin, Overflow, Throw, CallNode, Rethrow, Return, NoChild,
         HandOver, Continue, Resume, ResumeThrows, Crash, vars, flow
<1> SUFFICES ASSUME HandsOnFinishedWork, NEW s \in Requests, Settled(s)'
             PROVE  Output(s)' = Effect(Node(s)', Input(s)')
  BY <1>1 DEF OutputInv, HandsOnFinishedWork, Output, Node, Input, At, Effect
<1>2. CASE /\ pc'[s] = pc[s] /\ path'[s] = path[s] /\ task'[s] = task[s]
           /\ pending'[s] = pending[s] /\ rejected'[s] = rejected[s]
  BY <1>2 DEF OutputInv, Settled, Output, Node, Input, At
<1>3. pc'[s] = "called"
  BY DEF Settled
<1>4. ASSUME NEW r \in Requests, Begin(r) \/ HandOver(r)
      PROVE  /\ pc'[s] = pc[s] /\ path'[s] = path[s] /\ task'[s] = task[s]
             /\ pending'[s] = pending[s] /\ rejected'[s] = rejected[s]
  BY <1>3, <1>4, ComingShape, ComingPointwise DEF Comes
<1>5. ASSUME NEW r \in Requests, CallNode(r)
      PROVE  Output(s)' = Effect(Node(s)', Input(s)')
  <2>1. PICK child \in Nodes \cup {None}, body \in Seq(Nodes) :
           /\ CallOutcome(r, child, body)
           /\ At(r) \in 1..Len(path[r])
           /\ \A z \in Requests : pc'[z] = IF z = r THEN "called" ELSE pc[z]
           /\ \A z \in Requests : Len(path'[z]) = Len(path[z])
           /\ \A z \in Requests \ {r} : path'[z] = path[z] /\ task'[z] = task[z]
           /\ \A i \in 1..Len(path[r]) : /\ path'[r][i].node = path[r][i].node
                                         /\ path'[r][i].input = path[r][i].input
           /\ task'[r][Node(r)].output = body
    BY <1>5, CallPointwise
  <2>2. /\ \A z \in Requests \ {r} : pending'[z] = pending[z] /\ rejected'[z] = rejected[z]
        /\ At(r) \in pending'[r] \/ At(r) \in rejected'[r] \/ body = Effect(Node(r), Input(r))
    BY <2>1, CallMarks
  <2>3. CASE s # r
    BY <1>2, <2>1, <2>2, <2>3
  <2>4. CASE s = r
    <3>1. At(r)' = At(r) /\ Node(r)' = Node(r) /\ Input(r)' = Input(r)
      BY <2>1 DEF At, Node, Input
    <3>2. body = Effect(Node(r), Input(r))
      BY <2>2, <2>4, <3>1 DEF Settled
    <3>3. Output(r)' = body
      BY <2>1, <3>1 DEF Output
    <3> QED
      BY <2>4, <3>1, <3>2, <3>3
  <2> QED
    BY <2>3, <2>4
<1>6. ASSUME NEW r \in Requests,
             Overflow(r) \/ Rethrow(r) \/ NoChild(r) \/ Return(r)
      PROVE  /\ pc'[s] = pc[s] /\ path'[s] = path[s] /\ task'[s] = task[s]
             /\ pending'[s] = pending[s] /\ rejected'[s] = rejected[s]
  BY <1>3, <1>6, EndingPointwise
<1>7. ASSUME NEW r \in Requests, NEW i \in 1..MaxDepth, Continue(r, i)
      PROVE  Output(s)' = Effect(Node(s)', Input(s)')
  <2>1. i \in pending[r] /\ UNCHANGED <<pc, path>>
    BY <1>7 DEF Continue, Resume, ResumeThrows, MayResume
  <2>2. /\ \A z \in Requests \ {r} : /\ task'[z] = task[z]
                                     /\ pending'[z] = pending[z]
                                     /\ rejected'[z] = rejected[z]
        /\ \/ task'[r][path[r][i].node].output =
                Effect(path[r][i].node, path[r][i].input)
           \/ i \in rejected'[r]
    BY <1>7, LinkedStep, ContinueKeepsTypes, ContinuePointwise DEF TypeInv
  <2>3. i = At(r)
    BY <2>1 DEF HandsOnFinishedWork, PlainInv, QuietUtil
  <2>4. CASE s # r
    BY <1>2, <2>1, <2>2, <2>4
  <2>5. CASE s = r
    BY <2>1, <2>2, <2>3, <2>5 DEF Settled, Output, Node, Input, At
  <2> QED
    BY <2>4, <2>5
<1>8. Crash \/ UNCHANGED vars => UNCHANGED <<pc, path, task, pending, rejected>>
  BY DEF Crash, vars
<1> QED
  BY <1>2, <1>4, <1>5, <1>6, <1>7, <1>8, StepShapes

LEMMA AlwaysReady == Spec => []ReadyInv
<1>1. Init => ReadyInv
  BY DEF Init, ReadyInv, SeveralInv, PlainInv, OutputInv, Settled
<1>2. TypeInv /\ MarksInPath /\ QuietUtil /\ ReadyInv /\ [Next]_vars => ReadyInv'
  BY SeveralStep, PlainStep, OutputStep DEF ReadyInv
<1> QED
  BY <1>1, <1>2, TypesAndMarks, AlwaysQuiet, PTL DEF Spec

-----------------------------------------------------------------------------
(* The steps of FlowWalk, from what they do run by run. *)

LEMMA WalkStays ==
    ASSUME UNCHANGED links,
           \A s \in Requests : /\ WalkOf(s)' = WalkOf(s)
                               /\ ValueOf(s)' = ValueOf(s)
                               /\ OutcomeOf(s)' = OutcomeOf(s)
    PROVE  UNCHANGED Walk!vars
  BY DEF Walk!vars

LEMMA WalkBegins ==
    ASSUME UNCHANGED links, NEW r \in Requests, NEW m \in Nodes,
           Kind[m] = "CONTEXT", \A l \in links : l[2] # m,
           OutcomeOf(r) = "running", WalkOf(r) = <<>>,
           \A s \in Requests : /\ WalkOf(s)' = IF s = r THEN <<m>> ELSE WalkOf(s)
                               /\ ValueOf(s)' = ValueOf(s)
                               /\ OutcomeOf(s)' = OutcomeOf(s)
    PROVE  Walk!Begin(r)
  BY DEF Walk!Begin

LEMMA WalkAdvances ==
    ASSUME UNCHANGED links, NEW r \in Requests, NEW m \in Nodes,
           OutcomeOf(r) = "running", Len(WalkOf(r)) \in 1..MaxDepth,
           <<WalkOf(r)[Len(WalkOf(r))], m>> \in links,
           ValueOf(r)' = Effect(WalkOf(r)[Len(WalkOf(r))], ValueOf(r)),
           \A s \in Requests :
              /\ WalkOf(s)' = IF s = r THEN Append(WalkOf(s), m) ELSE WalkOf(s)
              /\ s # r => ValueOf(s)' = ValueOf(s)
              /\ OutcomeOf(s)' = OutcomeOf(s)
    PROVE  Walk!Advance(r)
  BY DEF Walk!Advance, Walk!Final, Walk!Effect, Effect

LEMMA WalkAnswers ==
    ASSUME UNCHANGED links, NEW r \in Requests,
           OutcomeOf(r) = "running", Len(WalkOf(r)) \in 1..MaxDepth,
           \A l \in links : l[1] # WalkOf(r)[Len(WalkOf(r))],
           ValueOf(r)' = Effect(WalkOf(r)[Len(WalkOf(r))], ValueOf(r)),
           \A s \in Requests :
              /\ WalkOf(s)' = WalkOf(s)
              /\ s # r => ValueOf(s)' = ValueOf(s)
              /\ OutcomeOf(s)' = IF s = r THEN "answered" ELSE OutcomeOf(s)
    PROVE  Walk!Answer(r)
  BY DEF Walk!Answer, Walk!Final, Walk!Effect, Effect

LEMMA WalkFails ==
    ASSUME UNCHANGED links, NEW failing \in SUBSET Requests,
           \A s \in failing : OutcomeOf(s) = "running",
           \A s \in Requests :
              /\ WalkOf(s)' = WalkOf(s)
              /\ ValueOf(s)' = ValueOf(s)
              /\ OutcomeOf(s)' = IF s \in failing THEN "failed" ELSE OutcomeOf(s)
    PROVE  Walk!Fail(failing)
  BY DEF Walk!Fail

-----------------------------------------------------------------------------
(* The steps of FlowRun as steps of FlowWalk. *)

LEMMA NodesOfVisits ==
    ASSUME NEW p \in Seq(VisitType)
    PROVE  /\ [i \in 1..Len(p) |-> p[i].node] \in Seq(Nodes)
           /\ Len([i \in 1..Len(p) |-> p[i].node]) = Len(p)
<1>1. ASSUME NEW i \in 1..Len(p)
      PROVE  p[i].node \in Nodes
  <2>1. p[i] \in VisitType
    BY ElementOfSeq
  <2> QED
    BY <2>1 DEF VisitType
<1>2. Len(p) \in Nat
  BY LenProperties
<1> QED
  BY <1>1, <1>2

\* The walk is a sequence of nodes, its last one that of the current visit.
LEMMA WalkShape ==
    ASSUME TypeInv, NEW r \in Requests
    PROVE  /\ WalkOf(r) \in Seq(Nodes)
           /\ Len(WalkOf(r)) = Len(path[r])
           /\ path[r] = <<>> => WalkOf(r) = <<>>
           /\ pc[r] # "idle" => WalkOf(r)[Len(WalkOf(r))] = Node(r)
<1>1. path[r] \in Seq(VisitType)
  BY DEF TypeInv, TypeOK, ControlOK
<1>2. WalkOf(r) \in Seq(Nodes) /\ Len(WalkOf(r)) = Len(path[r])
  BY <1>1, NodesOfVisits DEF WalkOf
<1>3. path[r] = <<>> => WalkOf(r) = <<>>
  BY <1>2, EmptySeq
<1>4. pc[r] # "idle" => WalkOf(r)[Len(path[r])] = Node(r)
  BY AtVisit DEF TypeInv, WalkOf, Node, At
<1> QED
  BY <1>2, <1>3, <1>4

\* The walk after a run has come to a node.
LEMMA WalkComing ==
    ASSUME TypeInv, NEW r \in Requests, NEW m \in Nodes,
           NEW body \in Seq(Nodes), Comes(r, m, body),
           pc[r] # "answered", pc[r] # "failed"
    PROVE  /\ UNCHANGED links
           /\ WalkOf(r)' = Append(WalkOf(r), m)
           /\ ValueOf(r)' = body
           /\ OutcomeOf(r)' = OutcomeOf(r)
           /\ \A s \in Requests \ {r} : /\ WalkOf(s)' = WalkOf(s)
                                        /\ ValueOf(s)' = ValueOf(s)
                                        /\ OutcomeOf(s)' = OutcomeOf(s)
<1>1. /\ pc'[r] = "enter"
      /\ \A s \in Requests \ {r} : pc'[s] = pc[s] /\ path'[s] = path[s]
      /\ path'[r] \in Seq(VisitType)
      /\ Len(path[r]) \in Nat
      /\ Len(path'[r]) = Len(path[r]) + 1
      /\ \A i \in 1..Len(path[r]) : path'[r][i] = path[r][i]
      /\ path'[r][Len(path[r]) + 1] = Visit(m, body)
  BY ComingPointwise
<1>2. UNCHANGED <<links, answer, crashed>>
  BY DEF Comes, flow
<1>3. \A s \in Requests \ {r} : /\ WalkOf(s)' = WalkOf(s)
                                /\ ValueOf(s)' = ValueOf(s)
                                /\ OutcomeOf(s)' = OutcomeOf(s)
  BY <1>1, <1>2 DEF WalkOf, ValueOf, OutcomeOf, Input, At
<1>4. Visit(m, body).node = m /\ Visit(m, body).input = body
  BY DEF Visit
<1>5. ValueOf(r)' = body
  BY <1>1, <1>4 DEF ValueOf, Input, At
<1>6. OutcomeOf(r)' = OutcomeOf(r)
  BY <1>1, <1>2 DEF OutcomeOf
<1>7. /\ WalkOf(r) \in Seq(Nodes) /\ Len(WalkOf(r)) = Len(path[r])
      /\ WalkOf(r)' \in Seq(Nodes) /\ Len(WalkOf(r)') = Len(path'[r])
  BY <1>1, WalkShape, NodesOfVisits DEF WalkOf
<1>8. /\ \A i \in 1..Len(path[r]) : WalkOf(r)[i] = path[r][i].node
      /\ \A i \in 1..Len(path'[r]) : WalkOf(r)'[i] = path'[r][i].node
  BY DEF WalkOf
<1>9. WalkOf(r)' = Append(WalkOf(r), m)
  <2> DEFINE old == WalkOf(r)
             new == WalkOf(r)'
  <2>1. /\ Append(old, m) \in Seq(Nodes)
        /\ Len(Append(old, m)) = Len(old) + 1
        /\ \A i \in 1..Len(old) : Append(old, m)[i] = old[i]
        /\ Append(old, m)[Len(old) + 1] = m
    BY <1>7, AppendProperties
  <2>2. Len(new) = Len(Append(old, m))
    BY <1>1, <1>7, <2>1
  <2>3. ASSUME NEW i \in 1..Len(new)
        PROVE  new[i] = Append(old, m)[i]
    <3>1. CASE i \in 1..Len(path[r])
      BY <1>1, <1>7, <1>8, <2>1, <3>1
    <3>2. CASE i = Len(path[r]) + 1
      BY <1>1, <1>4, <1>7, <1>8, <2>1, <3>2
    <3> QED
      BY <1>1, <1>7, <3>1, <3>2
  <2> HIDE DEF old, new
  <2>4. new \in Seq(Nodes)
    BY <1>7 DEF new
  <2>5. new = Append(old, m)
    BY <2>1, <2>2, <2>3, <2>4, SeqEqual
  <2> QED
    BY <2>5 DEF old, new
<1> QED
  BY <1>2, <1>3, <1>5, <1>6, <1>9

\* What has run is finished: the output that is handed on or answered.
LEMMA FinishedWork ==
    ASSUME TypeInv, QuietUtil, ReadyInv, HandsOnFinishedWork, NEW r \in Requests,
           HandOver(r) \/ Return(r)
    PROVE  /\ Output(r) = Effect(Node(r), Input(r))
           /\ ~crashed /\ pc[r] = "called"
<1>1. MayProceed(r) /\ ~SeesRejection(r) /\ ~crashed /\ pc[r] = "called"
  BY DEF HandOver, Return, MayProceed
<1>2. Node(r) \in Nodes
  BY <1>1, AtVisit DEF TypeInv
<1>3. At(r) \notin pending[r]
  BY <1>1 DEF MayProceed, HandsOnFinishedWork, ReadyInv, PlainInv
<1>4. CASE At(r) \in rejected[r]
  <2>1. variant # "util"
    BY <1>1, <1>4 DEF SeesRejection
  <2>2. variant = "controller"
    BY <2>1 DEF TypeInv, TypeOK, FlowOK
  <2>3. Kind[Node(r)] # "ROUTE" /\ ManyChildren(Node(r))
    BY <1>1, <1>4, <2>1 DEF HandsOnFinishedWork, ReadyInv, PlainInv
  <2>4. task[r][Node(r)].activated = None /\ Children(Node(r)) # {}
    BY <1>2, <2>3 DEF ReadyInv, SeveralInv, ManyChildren
  <2>5. ~HandOver(r)
    <3>1. UNION ChildNodes(r) = Children(Node(r))
      BY <1>1, ChildrenOfTask
    <3>2. None \notin Children(Node(r))
      BY FlowAssumption DEF Children
    <3>3. Activated(r) = {}
      BY <2>4, <3>1, <3>2 DEF Activated
    <3> QED
      BY <3>3 DEF HandOver
  <2>6. ~Return(r)
    <3>1. ChildNodes(r) = {} <=> Node(r) \in EndNodes
      BY <1>1, ChildrenOfTask
    <3>2. Node(r) \notin EndNodes
      BY <2>4 DEF EndNodes, Children
    <3> QED
      BY <2>2, <3>1, <3>2 DEF Return, IsLast
  <2> QED
    BY <2>5, <2>6
<1>5. CASE At(r) \notin rejected[r]
  BY <1>1, <1>3, <1>5 DEF ReadyInv, OutputInv, Settled
<1> QED
  BY <1>1, <1>4, <1>5

LEMMA BeginIsWalkBegin ==
    ASSUME TypeInv, NEW r \in Requests, Begin(r)
    PROVE  Walk!Begin(r)
<1>1. PICK m \in Nodes, body \in Seq(Nodes) :
         /\ Comes(r, m, body)
         /\ \/ Begin(r) /\ path[r] = <<>> /\ m \in StartNodes /\ body = <<>>
            \/ HandOver(r) /\ m \in Activated(r) /\ body = Output(r)
  BY ComingShape
<1>2. pc[r] = "idle" /\ ~crashed
  BY DEF Begin
<1>3. path[r] = <<>> /\ m \in StartNodes /\ body = <<>>
  BY <1>1, <1>2 DEF HandOver, MayProceed
<1>4. OutcomeOf(r) = "running" /\ WalkOf(r) = <<>> /\ ValueOf(r) = <<>>
  BY <1>2, <1>3, WalkShape DEF OutcomeOf, ValueOf
<1>5. Kind[m] = "CONTEXT" /\ \A l \in links : l[2] # m
  BY <1>3 DEF StartNodes
<1>6. Append(WalkOf(r), m) = <<m>>
  BY <1>4
<1>7. /\ UNCHANGED links
      /\ \A s \in Requests : /\ WalkOf(s)' = IF s = r THEN <<m>> ELSE WalkOf(s)
                             /\ ValueOf(s)' = ValueOf(s)
                             /\ OutcomeOf(s)' = OutcomeOf(s)
  BY <1>1, <1>2, <1>3, <1>4, <1>6, WalkComing
<1> QED
  BY <1>4, <1>5, <1>7, WalkBegins

LEMMA HandOverIsWalkAdvance ==
    ASSUME TypeInv, QuietUtil, ReadyInv, HandsOnFinishedWork,
           NEW r \in Requests, HandOver(r)
    PROVE  Walk!Advance(r)
<1>1. Output(r) = Effect(Node(r), Input(r)) /\ ~crashed /\ pc[r] = "called"
  BY FinishedWork
<1>2. PICK m \in Nodes, body \in Seq(Nodes) :
         /\ Comes(r, m, body)
         /\ \/ Begin(r) /\ path[r] = <<>> /\ m \in StartNodes /\ body = <<>>
            \/ HandOver(r) /\ m \in Activated(r) /\ body = Output(r)
  BY ComingShape
<1>3. m \in Activated(r) /\ body = Output(r)
  BY <1>1, <1>2 DEF Begin
<1>4. <<Node(r), m>> \in links
  <2>1. UNION ChildNodes(r) = Children(Node(r))
    BY <1>1, ChildrenOfTask
  <2> QED
    BY <1>3, <2>1 DEF Activated, Children
<1>5. OutcomeOf(r) = "running" /\ ValueOf(r) = Input(r)
  BY <1>1 DEF OutcomeOf, ValueOf
<1>6. Len(WalkOf(r)) \in 1..MaxDepth /\ WalkOf(r)[Len(WalkOf(r))] = Node(r)
  <2>1. Len(WalkOf(r)) = At(r) /\ WalkOf(r)[Len(WalkOf(r))] = Node(r)
    BY <1>1, WalkShape DEF At
  <2>2. At(r) \in 1..MaxDepth + 1 /\ At(r) <= MaxDepth
    BY <1>1, AtVisit DEF TypeInv, CalledWithinDepth
  <2> QED
    BY <2>1, <2>2, FlowAssumption
<1>7. /\ UNCHANGED links
      /\ ValueOf(r)' = Effect(Node(r), Input(r))
      /\ \A s \in Requests :
            /\ WalkOf(s)' = IF s = r THEN Append(WalkOf(s), m) ELSE WalkOf(s)
            /\ s # r => ValueOf(s)' = ValueOf(s)
            /\ OutcomeOf(s)' = OutcomeOf(s)
  BY <1>1, <1>2, <1>3, WalkComing
<1> QED
  BY <1>4, <1>5, <1>6, <1>7, WalkAdvances

LEMMA ReturnIsWalkAnswer ==
    ASSUME TypeInv, QuietUtil, ReadyInv, HandsOnFinishedWork,
           NEW r \in Requests, Return(r)
    PROVE  Walk!Answer(r)
<1>1. Output(r) = Effect(Node(r), Input(r)) /\ ~crashed /\ pc[r] = "called"
  BY FinishedWork
<1>2. OutcomeOf(r) = "running" /\ ValueOf(r) = Input(r)
  BY <1>1 DEF OutcomeOf, ValueOf
<1>3. Len(WalkOf(r)) \in 1..MaxDepth /\ WalkOf(r)[Len(WalkOf(r))] = Node(r)
  <2>1. Len(WalkOf(r)) = At(r) /\ WalkOf(r)[Len(WalkOf(r))] = Node(r)
    BY <1>1, WalkShape DEF At
  <2>2. At(r) \in 1..MaxDepth + 1 /\ At(r) <= MaxDepth
    BY <1>1, AtVisit DEF TypeInv, CalledWithinDepth
  <2> QED
    BY <2>1, <2>2, FlowAssumption
<1>4. \A l \in links : l[1] # Node(r)
  <2>1. Node(r) \in EndNodes \/ Children(Node(r)) = {}
    <3>1. /\ UNION ChildNodes(r) = Children(Node(r))
          /\ ChildNodes(r) = {} <=> Node(r) \in EndNodes
      BY <1>1, ChildrenOfTask
    <3> QED
      BY <3>1 DEF Return, IsLast
  <2>2. links \subseteq Nodes \X Nodes
    BY DEF TypeInv, TypeOK, FlowOK
  <2> QED
    BY <2>1, <2>2 DEF EndNodes, Children
<1>5. /\ \A s \in Requests : pc'[s] = IF s = r THEN "answered" ELSE pc[s]
      /\ \A s \in Requests : answer'[s] = IF s = r THEN Output(r) ELSE answer[s]
      /\ UNCHANGED <<links, path, crashed>>
  BY DEF Return, flow, TypeInv, TypeOK, ControlOK
<1>6. /\ ValueOf(r)' = Effect(Node(r), Input(r))
      /\ \A s \in Requests :
            /\ WalkOf(s)' = WalkOf(s)
            /\ s # r => ValueOf(s)' = ValueOf(s)
            /\ OutcomeOf(s)' = IF s = r THEN "answered" ELSE OutcomeOf(s)
  BY <1>1, <1>5 DEF WalkOf, ValueOf, OutcomeOf, Input, At
<1> QED
  BY <1>2, <1>3, <1>4, <1>5, <1>6, WalkAnswers

\* A run that fails; nothing happens to the walk if the process is dead.
LEMMA FailureIsWalkFail ==
    ASSUME TypeInv, NEW r \in Requests, Overflow(r) \/ Rethrow(r) \/ NoChild(r)
    PROVE  Walk!Fail({r}) \/ UNCHANGED Walk!vars
<1>1. /\ pc[r] \in {"enter", "called"}
      /\ \A s \in Requests : pc'[s] = IF s = r THEN "failed" ELSE pc[s]
      /\ UNCHANGED <<links, path, answer, crashed>>
  BY EndingSteps DEF Ends, flow, TypeInv, TypeOK, ControlOK
<1>2. \A s \in Requests : /\ WalkOf(s)' = WalkOf(s)
                          /\ ValueOf(s)' = ValueOf(s)
  BY <1>1 DEF WalkOf, ValueOf, Input, At
<1>3. CASE crashed
  <2>1. \A s \in Requests : OutcomeOf(s)' = OutcomeOf(s)
    BY <1>1, <1>3 DEF OutcomeOf
  <2> QED
    BY <1>1, <1>2, <2>1, WalkStays
<1>4. CASE ~crashed
  <2>1. /\ OutcomeOf(r) = "running"
        /\ \A s \in Requests :
              OutcomeOf(s)' = IF s \in {r} THEN "failed" ELSE OutcomeOf(s)
    BY <1>1, <1>4 DEF OutcomeOf
  <2> QED
    BY <1>1, <1>2, <2>1, WalkFails
<1> QED
  BY <1>3, <1>4

LEMMA CrashIsWalkFail ==
    ASSUME Crash
    PROVE  Walk!Fail({r \in Requests : OutcomeOf(r) = "running"})
<1>1. ~crashed /\ crashed' /\ UNCHANGED <<links, pc, path, answer>>
  BY DEF Crash, flow
<1>2. \A s \in Requests :
         /\ WalkOf(s)' = WalkOf(s)
         /\ ValueOf(s)' = ValueOf(s)
         /\ OutcomeOf(s)' = IF OutcomeOf(s) = "running" THEN "failed" ELSE OutcomeOf(s)
  BY <1>1 DEF WalkOf, ValueOf, OutcomeOf, Input, At
<1> QED
  BY <1>1, <1>2, WalkFails

\* Calls, and scripts that go on, are no steps of the walk.
LEMMA CallIsNoWalkStep ==
    ASSUME TypeInv, NEW r \in Requests, CallNode(r)
    PROVE  UNCHANGED Walk!vars
<1>1. PICK child \in Nodes \cup {None}, body \in Seq(Nodes) :
         /\ pc[r] = "enter"
         /\ At(r) \in 1..Len(path[r])
         /\ \A s \in Requests : pc'[s] = IF s = r THEN "called" ELSE pc[s]
         /\ \A s \in Requests : Len(path'[s]) = Len(path[s])
         /\ \A s \in Requests \ {r} : path'[s] = path[s]
         /\ \A i \in 1..Len(path[r]) : /\ path'[r][i].node = path[r][i].node
                                       /\ path'[r][i].input = path[r][i].input
  BY CallPointwise
<1>2. UNCHANGED <<links, answer, crashed>>
  BY DEF CallNode, flow
<1>3. \A s \in Requests : WalkOf(s)' = WalkOf(s)
  BY <1>1 DEF WalkOf
<1>4. Input(r)' = Input(r)
  BY <1>1 DEF Input, At
<1>5. \A s \in Requests : ValueOf(s)' = ValueOf(s) /\ OutcomeOf(s)' = OutcomeOf(s)
  BY <1>1, <1>2, <1>4 DEF ValueOf, OutcomeOf, Input, At
<1> QED
  BY <1>2, <1>3, <1>5, WalkStays

LEMMA WalkSimulation ==
    ASSUME TypeInv, QuietUtil, ReadyInv, [Next]_vars
    PROVE  [HandsOnFinishedWork => Walk!Next]_(Walk!vars)
<1> SUFFICES ASSUME HandsOnFinishedWork
             PROVE  Walk!Next \/ UNCHANGED Walk!vars
  OBVIOUS
<1>1. ASSUME NEW r \in Requests, Begin(r) \/ HandOver(r)
      PROVE  Walk!Next
  BY <1>1, BeginIsWalkBegin, HandOverIsWalkAdvance DEF Walk!Next
<1>2. ASSUME NEW r \in Requests, CallNode(r)
      PROVE  UNCHANGED Walk!vars
  BY <1>2, CallIsNoWalkStep
<1>3. ASSUME NEW r \in Requests,
             Overflow(r) \/ Rethrow(r) \/ NoChild(r) \/ Return(r)
      PROVE  Walk!Next \/ UNCHANGED Walk!vars
  <2>1. {r} \in SUBSET Requests
    OBVIOUS
  <2> QED
    BY <1>3, <2>1, ReturnIsWalkAnswer, FailureIsWalkFail DEF Walk!Next
<1>4. ASSUME UNCHANGED <<links, pc, path, answer, crashed>>
      PROVE  UNCHANGED Walk!vars
  <2>1. \A s \in Requests : /\ WalkOf(s)' = WalkOf(s)
                            /\ ValueOf(s)' = ValueOf(s)
                            /\ OutcomeOf(s)' = OutcomeOf(s)
    BY <1>4 DEF WalkOf, ValueOf, OutcomeOf, Input, At
  <2> QED
    BY <1>4, <2>1, WalkStays
<1>5. ASSUME NEW r \in Requests, NEW i \in 1..MaxDepth, Continue(r, i)
      PROVE  UNCHANGED Walk!vars
  BY <1>4, <1>5 DEF Continue, Resume, ResumeThrows, flow
<1>6. CASE Crash
  <2>1. {r \in Requests : OutcomeOf(r) = "running"} \in SUBSET Requests
    OBVIOUS
  <2> QED
    BY <1>6, <2>1, CrashIsWalkFail DEF Walk!Next
<1>7. UNCHANGED vars => UNCHANGED Walk!vars
  BY <1>4 DEF vars, flow
<1> QED
  BY <1>1, <1>2, <1>3, <1>5, <1>6, <1>7, StepShapes

\* A run whose processFlow awaits its nodes, or whose scripts need no awaiting,
\* hands each node what its predecessor made and answers with the result of the
\* whole walk: for every flow, any scripts and any number of concurrent runs,
\* it implements FlowWalk.
THEOREM FlowRunImplementsFlowWalk == Spec => ImplementsFlowWalk
<1>1. Init => (HandsOnFinishedWork => Walk!Init)
  <2> SUFFICES ASSUME Init
               PROVE  Walk!Init
    OBVIOUS
  <2>1. TypeInv
    BY TypeInit
  <2>2. \A r \in Requests : /\ WalkOf(r) = <<>>
                            /\ ValueOf(r) = <<>>
                            /\ OutcomeOf(r) = "running"
    BY <2>1, WalkShape DEF Init, ValueOf, OutcomeOf
  <2> QED
    BY <2>2 DEF Walk!Init
<1>2. (TypeInv /\ MarksInPath) /\ QuietUtil /\ ReadyInv /\ [Next]_vars
         => [HandsOnFinishedWork => Walk!Next]_(Walk!vars)
  BY WalkSimulation
<1> QED
  BY <1>1, <1>2, TypesAndMarks, AlwaysQuiet, AlwaysReady, PTL
     DEF Spec, ImplementsFlowWalk
-----------------------------------------------------------------------------
(* Runs come to an end. *)

\* What a place in processFlow still costs: a call is more than a hand-over.
Cost(place) == CASE place = "idle" -> 1
                 [] place = "enter" -> 3
                 [] place = "called" -> 1
                 [] OTHER -> 0

\* What a run has before it at most: the nodes that MAX_DEPTH leaves it, the node
\* at hand and the scripts that are still at work.
Rank(r) == 3 * (MaxDepth + 1 - Len(path[r])) + Cost(pc[r]) + Cardinality(pending[r])

RanksAreFinite == \A r \in Requests : IsFiniteSet(pending[r]) /\ Rank(r) \in Nat

\* Whatever runs, some run comes nearer to its end and none goes back: no node
\* is called again without a step down, and no script that is done wakes up.
RunsAdvance ==
    [][UNCHANGED crashed =>
        /\ \A r \in Requests : Rank(r)' <= Rank(r)
        /\ \E r \in Requests : Rank(r)' < Rank(r)]_vars

LEMMA CostValues ==
    /\ Cost("idle") = 1 /\ Cost("enter") = 3 /\ Cost("called") = 1
    /\ Cost("answered") = 0 /\ Cost("failed") = 0
BY DEF Cost

LEMMA PartsOfRank ==
    ASSUME TypeInv, NEW r \in Requests
    PROVE  /\ Len(path[r]) \in 0 .. MaxDepth + 1
           /\ Cost(pc[r]) \in 0 .. 3
           /\ IsFiniteSet(pending[r])
           /\ Cardinality(pending[r]) \in Nat
<1>1. path[r] \in Seq(VisitType) /\ Len(path[r]) <= MaxDepth + 1
  BY DEF TypeInv, TypeOK, ControlOK, PathsFit
<1>2. pc[r] \in {"idle", "enter", "called", "answered", "failed"}
  BY DEF TypeInv, TypeOK, ControlOK
<1>3. pending[r] \subseteq 1 .. MaxDepth
  BY DEF TypeInv, TypeOK, CallsOK
<1>4. IsFiniteSet(1 .. MaxDepth)
  BY FlowAssumption, FS_Interval
<1>5. IsFiniteSet(pending[r]) /\ Cardinality(pending[r]) \in Nat
  BY <1>3, <1>4, FS_Subset, FS_CardinalityType
<1>6. Len(path[r]) \in Nat
  BY <1>1
<1> QED
  BY <1>1, <1>2, <1>5, <1>6, CostValues, FlowAssumption

LEMMA RankType ==
    ASSUME TypeInv
    PROVE  RanksAreFinite
<1> SUFFICES ASSUME NEW r \in Requests
             PROVE  IsFiniteSet(pending[r]) /\ Rank(r) \in Nat
  BY DEF RanksAreFinite
<1> DEFINE depth == Len(path[r])
           cost == Cost(pc[r])
           size == Cardinality(pending[r])
<1>1. depth \in 0 .. MaxDepth + 1 /\ cost \in 0 .. 3 /\ size \in Nat
  BY PartsOfRank
<1>2. Rank(r) = 3 * (MaxDepth + 1 - depth) + cost + size
  BY DEF Rank
<1> HIDE DEF depth, cost, size
<1>3. Rank(r) \in Nat
  BY <1>1, <1>2, FlowAssumption
<1> QED
  BY <1>3, PartsOfRank

\* It is enough that one run comes nearer to its end and the others stay.
LEMMA OneAdvances ==
    ASSUME TypeInv, NEW r \in Requests, Rank(r)' < Rank(r), Rank(r)' \in Int,
           \A s \in Requests \ {r} : /\ Len(path'[s]) = Len(path[s])
                                     /\ pc'[s] = pc[s]
                                     /\ pending'[s] = pending[s]
    PROVE  /\ \A s \in Requests : Rank(s)' <= Rank(s)
           /\ \E s \in Requests : Rank(s)' < Rank(s)
<1>1. \A s \in Requests : Rank(s) \in Int
  BY RankType DEF RanksAreFinite
<1>2. \A s \in Requests \ {r} : Rank(s)' = Rank(s)
  BY DEF Rank
<1> QED
  BY <1>1, <1>2

LEMMA ComingAdvances ==
    ASSUME TypeInv, NEW r \in Requests, Begin(r) \/ HandOver(r)
    PROVE  /\ \A s \in Requests : Rank(s)' <= Rank(s)
           /\ \E s \in Requests : Rank(s)' < Rank(s)
<1>1. PICK m \in Nodes, body \in Seq(Nodes) : Comes(r, m, body)
  BY ComingShape
<1>2. /\ \A s \in Requests : pc'[s] = IF s = r THEN "enter" ELSE pc[s]
      /\ \A s \in Requests \ {r} : path'[s] = path[s]
      /\ Len(path'[r]) = Len(path[r]) + 1
  BY <1>1, ComingPointwise
<1>3. pending' = pending
  BY <1>1 DEF Comes
<1>4. Cost(pc[r]) = 1 /\ Cost(pc'[r]) = 3
  BY <1>2, CostValues DEF Begin, HandOver, MayProceed
<1>5. Rank(r)' < Rank(r) /\ Rank(r)' \in Int
  <2> DEFINE depth == Len(path[r])
             size == Cardinality(pending[r])
  <2>1. depth \in Int /\ size \in Int
    BY PartsOfRank
  <2>2. /\ Rank(r) = 3 * (MaxDepth + 1 - depth) + 1 + size
        /\ Rank(r)' = 3 * (MaxDepth + 1 - (depth + 1)) + 3 + size
    BY <1>2, <1>3, <1>4 DEF Rank
  <2> HIDE DEF depth, size
  <2> QED
    BY <2>1, <2>2, FlowAssumption
<1> QED
  BY <1>2, <1>3, <1>5, OneAdvances

LEMMA CallAdvances ==
    ASSUME TypeInv, NEW r \in Requests, CallNode(r)
    PROVE  /\ \A s \in Requests : Rank(s)' <= Rank(s)
           /\ \E s \in Requests : Rank(s)' < Rank(s)
<1>1. PICK child \in Nodes \cup {None}, body \in Seq(Nodes) :
         /\ CallOutcome(r, child, body)
         /\ pc[r] = "enter"
         /\ \A s \in Requests : pc'[s] = IF s = r THEN "called" ELSE pc[s]
         /\ \A s \in Requests : Len(path'[s]) = Len(path[s])
  BY CallPointwise
<1>2. /\ \A s \in Requests \ {r} : pending'[s] = pending[s]
      /\ pending'[r] \in {pending[r], pending[r] \cup {At(r)}}
  BY <1>1, CallMarks
<1>3. Cost(pc[r]) = 3 /\ Cost(pc'[r]) = 1
  BY <1>1, CostValues
<1>4. Rank(r)' < Rank(r) /\ Rank(r)' \in Int
  <2> DEFINE depth == Len(path[r])
             size == Cardinality(pending[r])
             next == Cardinality(pending'[r])
  <2>1. depth \in Int /\ size \in Int
    BY PartsOfRank
  <2>2. next \in {size, size + 1}
    <3>1. IsFiniteSet(pending[r])
      BY PartsOfRank
    <3>2. Cardinality(pending[r] \cup {At(r)}) \in {size, size + 1}
      BY <3>1, FS_AddElement
    <3> QED
      BY <1>2, <3>2
  <2>3. /\ Rank(r) = 3 * (MaxDepth + 1 - depth) + 3 + size
        /\ Rank(r)' = 3 * (MaxDepth + 1 - depth) + 1 + next
    BY <1>1, <1>3 DEF Rank
  <2> HIDE DEF depth, size, next
  <2> QED
    BY <2>1, <2>2, <2>3, FlowAssumption
<1> QED
  BY <1>1, <1>2, <1>4, OneAdvances

LEMMA EndingAdvances ==
    ASSUME TypeInv, NEW r \in Requests,
           Overflow(r) \/ Rethrow(r) \/ NoChild(r) \/ Return(r)
    PROVE  /\ \A s \in Requests : Rank(s)' <= Rank(s)
           /\ \E s \in Requests : Rank(s)' < Rank(s)
<1>1. /\ path' = path /\ pending' = pending
      /\ pc[r] \in {"enter", "called"}
      /\ \A s \in Requests \ {r} : pc'[s] = pc[s]
      /\ pc'[r] \in {"failed", "answered"}
  BY EndingPointwise
<1>2. Cost(pc[r]) >= 1 /\ Cost(pc[r]) \in Int /\ Cost(pc'[r]) = 0
  BY <1>1, CostValues
<1>3. Rank(r)' < Rank(r) /\ Rank(r)' \in Int
  <2> DEFINE depth == Len(path[r])
             size == Cardinality(pending[r])
             cost == Cost(pc[r])
  <2>1. depth \in Int /\ size \in Int
    BY PartsOfRank
  <2>2. /\ Rank(r) = 3 * (MaxDepth + 1 - depth) + cost + size
        /\ Rank(r)' = 3 * (MaxDepth + 1 - depth) + 0 + size
    BY <1>1, <1>2 DEF Rank
  <2>3. cost >= 1 /\ cost \in Int
    BY <1>2
  <2> HIDE DEF depth, size, cost
  <2> QED
    BY <2>1, <2>2, <2>3, FlowAssumption
<1> QED
  BY <1>1, <1>3, OneAdvances

LEMMA ContinueAdvances ==
    ASSUME TypeInv, NEW r \in Requests, NEW i \in 1..MaxDepth, Continue(r, i)
    PROVE  /\ \A s \in Requests : Rank(s)' <= Rank(s)
           /\ \E s \in Requests : Rank(s)' < Rank(s)
<1>1. /\ path' = path /\ pc' = pc /\ i \in pending[r]
      /\ pending' = [pending EXCEPT ![r] = @ \ {i}]
  BY DEF Continue, Resume, ResumeThrows, MayResume
<1>2. pending'[r] = pending[r] \ {i} /\ \A s \in Requests \ {r} : pending'[s] = pending[s]
  BY <1>1 DEF TypeInv, TypeOK, CallsOK
<1>3. Rank(r)' < Rank(r) /\ Rank(r)' \in Int
  <2> DEFINE depth == Len(path[r])
             size == Cardinality(pending[r])
             cost == Cost(pc[r])
             next == Cardinality(pending'[r])
  <2>1. depth \in Int /\ size \in Int /\ cost \in Int
    BY PartsOfRank
  <2>2. next = size - 1
    BY <1>1, <1>2, PartsOfRank, FS_RemoveElement
  <2>3. /\ Rank(r) = 3 * (MaxDepth + 1 - depth) + cost + size
        /\ Rank(r)' = 3 * (MaxDepth + 1 - depth) + cost + next
    BY <1>1 DEF Rank
  <2> HIDE DEF depth, size, cost, next
  <2> QED
    BY <2>1, <2>2, <2>3, FlowAssumption
<1> QED
  BY <1>1, <1>2, <1>3, OneAdvances

LEMMA AdvanceStep ==
    ASSUME TypeInv, Next, UNCHANGED crashed
    PROVE  \/ /\ \A r \in Requests : Rank(r)' <= Rank(r)
              /\ \E r \in Requests : Rank(r)' < Rank(r)
           \/ UNCHANGED vars
<1>1. ~Crash
  BY DEF Crash
<1> QED
  BY <1>1, StepShapes, ComingAdvances, CallAdvances, EndingAdvances, ContinueAdvances

\* For any flow, cyclic or not, any scripts and any number of runs, everything
\* comes to rest after finitely many steps, in either loop: what EveryRunEnds
\* rests on, besides that a script that is awaited is answered.
THEOREM RunsAreFinite == Spec => []RanksAreFinite /\ RunsAdvance
<1>1. TypeInv => RanksAreFinite
  BY RankType
<1>2. TypeInv /\ [Next]_vars =>
        [UNCHANGED crashed =>
            /\ \A r \in Requests : Rank(r)' <= Rank(r)
            /\ \E r \in Requests : Rank(r)' < Rank(r)]_vars
  BY AdvanceStep
<1> QED
  BY <1>1, <1>2, TypesAndMarks, PTL DEF Spec, RunsAdvance

=============================================================================
