------------------------------ MODULE FlowRun ------------------------------
(***************************************************************************)
(* The execution of a flow: VsRunController.processFlow in                 *)
(* apps/vs-run/src/vs-run.controller.ts and its awaiting counterpart       *)
(* FlowNodeUtil.processFlow in libs/utils/vs/flow-node.util.ts, which no   *)
(* caller uses.  FlowNodeUtil.makeRtFlow makes one FlowNodeTask of each    *)
(* node for each request; the generated class has an async call() that     *)
(* sets the default output, activates a child and runs the script of the   *)
(* node.                                                                   *)
(*                                                                         *)
(* "loop" is the request whose code has the event loop.  The controller's  *)
(* processFlow keeps it from the first node to the last, since it calls    *)
(* call() and does not await it; what a script does after its first await  *)
(* runs when the loop is free again, and if it throws then, or threw       *)
(* before, nobody handles the rejected promise and Node ends the process.  *)
(***************************************************************************)
EXTENDS Naturals, Sequences

CONSTANTS
    Requests,       \* runs of the same flow
    Nodes,          \* atomic nodes
    Kind,           \* taskType of each node: CONTEXT, ROUTE, END, OTHER
    None,           \* no node, no request
    MaxDepth,       \* MAX_DEPTH
    LinkChoices,    \* the sets of links a flow is taken from
    ScriptChoices,  \* the scripts of the nodes are taken from
    Variants        \* "controller", "util": which processFlow runs

Scripts == {"plain", "awaits", "throws"}

ASSUME FlowAssumption ==
    /\ Kind \in [Nodes -> {"CONTEXT", "ROUTE", "END", "OTHER"}]
    /\ LinkChoices \subseteq SUBSET (Nodes \X Nodes)
    /\ ScriptChoices \subseteq [Nodes -> Scripts]
    /\ Variants \subseteq {"controller", "util"}
    /\ MaxDepth \in Nat \ {0}
    /\ None \notin Nodes
    /\ None \notin Requests

VARIABLES
    links,      \* flow.links, after compilation and edits
    script,     \* what the script of each node does
    variant,    \* the processFlow that runs
    loop,       \* the request whose code is running, or None
    pc,         \* where each request is in processFlow
    path,       \* the visits of each request: node, input, activated child
    childNodes, \* childNodes of the FlowNodeTask instances: at most one map,
                \* of which only the keys are kept, and no map for null
    task,       \* the FlowNodeTask instances: output and activatedNodeId
    pending,    \* visits whose call() has not settled
    rejected,   \* visits whose call() has rejected
    answer,     \* outputResponseBody of the node processFlow returned
    crashed     \* the process has ended on an unhandled rejection

flow == <<links, script, variant>>
vars == <<links, script, variant, loop, pc, path, childNodes, task, pending,
          rejected, answer, crashed>>

Children(n) == {m \in Nodes : <<n, m>> \in links}

\* getNodeIdsMap: links decide which nodes are valid.
StartNodes == {n \in Nodes : /\ Kind[n] = "CONTEXT"
                             /\ \E l \in links : l[1] = n
                             /\ \A l \in links : l[2] # n}

EndNodes == {n \in Nodes : /\ Kind[n] = "END"
                           /\ \E l \in links : l[2] = n
                           /\ \A l \in links : l[1] # n}

Runnable == (\E n \in Nodes : StartNodes = {n}) /\ EndNodes # {}

\* Variant: every task without a child loses its map.
RtFlowSinks == [n \in Nodes |-> IF Children(n) = {} THEN {} ELSE {Children(n)}]

\* makeRtFlow: the links fill the maps of the tasks, then the end nodes, and
\* only they, have their map replaced by null.
RtFlow == [n \in Nodes |-> IF n \in EndNodes THEN {} ELSE {Children(n)}]

\* A body is the sequence of the nodes whose scripts have worked on it.  The
\* request and the response body are handed on alike and are one here.
Effect(n, body) == IF Kind[n] = "ROUTE" THEN body ELSE Append(body, n)

Visit(n, body) == [node |-> n, input |-> body, chosen |-> None]

At(r) == Len(path[r])
Node(r) == path[r][At(r)].node
Input(r) == path[r][At(r)].input
Output(r) == task[r][Node(r)].output
ChildNodes(r) == childNodes[r][Node(r)]

Init ==
    /\ links \in LinkChoices
    /\ script \in ScriptChoices
    /\ variant \in Variants
    /\ Runnable
    /\ loop = None
    /\ pc = [r \in Requests |-> "idle"]
    /\ path = [r \in Requests |-> <<>>]
    /\ childNodes = [r \in Requests |-> [n \in Nodes |-> {{}}]]
    /\ task = [r \in Requests |->
                 [n \in Nodes |-> [output |-> <<>>, activated |-> None]]]
    /\ pending = [r \in Requests |-> {}]
    /\ rejected = [r \in Requests |-> {}]
    /\ answer = [r \in Requests |-> <<>>]
    /\ crashed = FALSE

-----------------------------------------------------------------------------
(* One node.  Each operator is what call() does to the task of the current *)
(* visit; the script of a ROUTE node is the conditions of its ports.       *)

\* The visit, with the child this call activated; activatedNodeId of the task
\* keeps its value when the call activates none.
Called(r, child, body) ==
    /\ path' = [path EXCEPT ![r][At(r)].chosen = child]
    /\ task' = [task EXCEPT ![r][Node(r)] =
                  [output |-> body,
                   activated |-> IF child = None THEN @.activated ELSE child]]

Settles(r) == UNCHANGED <<pending, rejected>>

Rejects(r) ==
    /\ rejected' = [rejected EXCEPT ![r] = @ \cup {At(r)}]
    /\ UNCHANGED pending

Suspends(r) ==
    /\ pending' = [pending EXCEPT ![r] = @ \cup {At(r)}]
    /\ UNCHANGED rejected

\* The first port whose condition holds activates the node that was linked to
\* it at the compilation, which need not be a child any more.
CallRoute(r) ==
    IF script[Node(r)] = "throws"
    THEN Called(r, None, Input(r)) /\ Rejects(r)
    ELSE /\ \E child \in Nodes \cup {None} :
              Called(r, child, Input(r))
         /\ Settles(r)

\* More than one child: super.call() throws unless call() is overridden.
Several(r) ==
    UNION ChildNodes(r) # {} /\ ~\E m \in Nodes : UNION ChildNodes(r) = {m}

\* super.call() passes the body on and activates the only child, if there is
\* one.  Then the script runs.
CallSingle(r) ==
    \/ /\ Several(r)
       /\ Called(r, None, Input(r))
       /\ Rejects(r)
    \/ /\ ~Several(r)
       /\ \E child \in Nodes \cup {None} :
             /\ UNION ChildNodes(r) = {child} \ {None}
             /\ \/ /\ script[Node(r)] = "plain"
                   /\ Called(r, child, Effect(Node(r), Input(r)))
                   /\ Settles(r)
                \/ /\ script[Node(r)] = "awaits"
                   /\ Called(r, child, Input(r))
                   /\ Suspends(r)
                \/ /\ script[Node(r)] = "throws"
                   /\ Called(r, child, Input(r))
                   /\ Rejects(r)

-----------------------------------------------------------------------------
(* processFlow. *)

\* Variant: one node too many.
TooDeepLate(r) == At(r) > MaxDepth + 1

TooDeep(r) == At(r) > MaxDepth

\* makeRtFlow has made the tasks, processFlow starts with the start node.
Begin(r) ==
    /\ ~crashed
    /\ loop = None
    /\ pc[r] = "idle"
    /\ childNodes' = [childNodes EXCEPT ![r] = RtFlow]
    /\ \E n \in StartNodes : path' = [path EXCEPT ![r] = <<Visit(n, <<>>)>>]
    /\ pc' = [pc EXCEPT ![r] = "enter"]
    /\ loop' = r
    /\ UNCHANGED <<flow, task, pending, rejected, answer, crashed>>

Throw(r) ==
    /\ pc' = [pc EXCEPT ![r] = "failed"]
    /\ loop' = None
    /\ UNCHANGED <<flow, path, childNodes, task, pending, rejected, answer, crashed>>

Overflow(r) ==
    /\ loop = r
    /\ pc[r] = "enter"
    /\ TooDeep(r)
    /\ Throw(r)

\* The controller goes on, the other variant awaits the promise.
CallNode(r) ==
    /\ loop = r
    /\ pc[r] = "enter"
    /\ ~TooDeep(r)
    /\ IF Kind[Node(r)] = "ROUTE" THEN CallRoute(r) ELSE CallSingle(r)
    /\ pc' = [pc EXCEPT ![r] = "called"]
    /\ loop' = IF variant = "util" THEN None ELSE r
    /\ UNCHANGED <<flow, childNodes, answer, crashed>>

\* The code after call() may run.
MayProceed(r) ==
    /\ ~crashed
    /\ pc[r] = "called"
    /\ IF variant = "util"
       THEN loop = None /\ At(r) \notin pending[r]
       ELSE loop = r

\* Variant: the rejection is caught and logged.
SeesNothing(r) == FALSE

\* await rethrows; without it the rejection goes unnoticed here.
SeesRejection(r) == variant = "util" /\ At(r) \in rejected[r]

\* childNodes is null; FlowNodeUtil.processFlow stops at an empty map, too.
IsLast(r) ==
    IF variant = "util"
    THEN UNION ChildNodes(r) = {}
    ELSE ChildNodes(r) = {}

\* Variant: any child will do.
ActivatedAny(r) == UNION ChildNodes(r)

\* childNodes.get(activatedNodeId)
Activated(r) == (UNION ChildNodes(r)) \cap {task[r][Node(r)].activated}

Rethrow(r) ==
    /\ MayProceed(r)
    /\ SeesRejection(r)
    /\ Throw(r)

Return(r) ==
    /\ MayProceed(r)
    /\ ~SeesRejection(r)
    /\ IsLast(r)
    /\ answer' = [answer EXCEPT ![r] = Output(r)]
    /\ pc' = [pc EXCEPT ![r] = "answered"]
    /\ loop' = None
    /\ UNCHANGED <<flow, path, childNodes, task, pending, rejected, crashed>>

\* Variant: the missing child is only logged.
NoChildLogged(r) ==
    /\ MayProceed(r)
    /\ ~SeesRejection(r)
    /\ ~IsLast(r)
    /\ Activated(r) = {}
    /\ UNCHANGED vars

NoChild(r) ==
    /\ MayProceed(r)
    /\ ~SeesRejection(r)
    /\ ~IsLast(r)
    /\ Activated(r) = {}
    /\ Throw(r)

\* Variant: the child is given the input of the node.
HandOverInput(r) ==
    /\ MayProceed(r)
    /\ ~SeesRejection(r)
    /\ ~IsLast(r)
    /\ \E m \in Activated(r) :
          path' = [path EXCEPT ![r] = Append(@, Visit(m, Input(r)))]
    /\ pc' = [pc EXCEPT ![r] = "enter"]
    /\ loop' = r
    /\ UNCHANGED <<flow, childNodes, task, pending, rejected, answer, crashed>>

\* The child is given the output the node has now.
HandOver(r) ==
    /\ MayProceed(r)
    /\ ~SeesRejection(r)
    /\ ~IsLast(r)
    /\ \E m \in Activated(r) :
          path' = [path EXCEPT ![r] = Append(@, Visit(m, Output(r)))]
    /\ pc' = [pc EXCEPT ![r] = "enter"]
    /\ loop' = r
    /\ UNCHANGED <<flow, childNodes, task, pending, rejected, answer, crashed>>

-----------------------------------------------------------------------------
(* What scripts do after an await, and the process. *)

MayResume(r, i) == ~crashed /\ loop = None /\ i \in pending[r]

\* The HTTP response is there: the script sets the output of its task.
Resume(r, i) ==
    /\ MayResume(r, i)
    /\ pending' = [pending EXCEPT ![r] = @ \ {i}]
    /\ task' = [task EXCEPT ![r][path[r][i].node].output =
                  Effect(path[r][i].node, path[r][i].input)]
    /\ UNCHANGED <<flow, loop, pc, path, childNodes, rejected, answer, crashed>>

\* The HTTP request failed, timed out or was refused by the circuit breaker.
ResumeThrows(r, i) ==
    /\ MayResume(r, i)
    /\ pending' = [pending EXCEPT ![r] = @ \ {i}]
    /\ rejected' = [rejected EXCEPT ![r] = @ \cup {i}]
    /\ UNCHANGED <<flow, loop, pc, path, childNodes, task, answer, crashed>>

\* No handler of unhandledRejection is installed.
Crash ==
    /\ ~crashed
    /\ variant = "controller"
    /\ loop = None
    /\ \E r \in Requests : rejected[r] # {}
    /\ crashed' = TRUE
    /\ UNCHANGED <<flow, loop, pc, path, childNodes, task, pending, rejected, answer>>

Step(r) ==
    \/ Overflow(r)
    \/ CallNode(r)
    \/ Rethrow(r)
    \/ Return(r)
    \/ NoChild(r)
    \/ HandOver(r)

Continue(r, i) == Resume(r, i) \/ ResumeThrows(r, i)

Next ==
    \/ \E r \in Requests : Begin(r) \/ Step(r)
    \/ \E r \in Requests, i \in 1..MaxDepth : Continue(r, i)
    \/ Crash

Fairness ==
    /\ \A r \in Requests : WF_vars(Step(r))
    /\ \A r \in Requests, i \in 1..MaxDepth : WF_vars(Continue(r, i))

Spec == Init /\ [][Next]_vars

FairSpec == Spec /\ Fairness

-----------------------------------------------------------------------------
(* Properties. *)

VisitType == [node : Nodes, input : Seq(Nodes), chosen : Nodes \cup {None}]
TaskType == [output : Seq(Nodes), activated : Nodes \cup {None}]

FlowOK ==
    /\ links \in SUBSET (Nodes \X Nodes)
    /\ script \in [Nodes -> Scripts]
    /\ variant \in {"controller", "util"}

ControlOK ==
    /\ loop \in Requests \cup {None}
    /\ pc \in [Requests -> {"idle", "enter", "called", "answered", "failed"}]
    /\ path \in [Requests -> Seq(VisitType)]
    /\ answer \in [Requests -> Seq(Nodes)]
    /\ crashed \in BOOLEAN

CallsOK ==
    /\ childNodes \in [Requests -> [Nodes -> SUBSET SUBSET Nodes]]
    /\ task \in [Requests -> [Nodes -> TaskType]]
    /\ pending \in [Requests -> SUBSET (1..MaxDepth)]
    /\ rejected \in [Requests -> SUBSET (1..MaxDepth)]

PathsFit ==
    \A r \in Requests : /\ Len(path[r]) <= MaxDepth + 1
                        /\ pc[r] = "idle" <=> path[r] = <<>>

TypeOK == FlowOK /\ ControlOK /\ CallsOK /\ PathsFit

\* A run hands on only finished work: its processFlow awaits, or no script
\* needs awaiting.
HandsOnFinishedWork ==
    variant = "util" \/ \A n \in Nodes : script[n] = "plain"

\* What a run is to FlowWalk.
WalkOf(r) == [i \in 1..Len(path[r]) |-> path[r][i].node]

ValueOf(r) == IF pc[r] = "idle" THEN <<>>
              ELSE IF pc[r] = "answered" THEN answer[r] ELSE Input(r)

OutcomeOf(r) == IF pc[r] = "answered" THEN "answered"
                ELSE IF crashed \/ pc[r] = "failed" THEN "failed"
                ELSE "running"

Walk == INSTANCE FlowWalk WITH
    walk <- [r \in Requests |-> WalkOf(r)],
    value <- [r \in Requests |-> ValueOf(r)],
    outcome <- [r \in Requests |-> OutcomeOf(r)]

\* FlowNodeUtil.processFlow, and the controller's on a flow whose scripts
\* neither await nor throw, implement FlowWalk: whatever other runs do, each
\* node is given what its predecessor made, and the answer is the result of
\* the whole walk.
ImplementsFlowWalk ==
    /\ HandsOnFinishedWork => Walk!Init
    /\ [][HandsOnFinishedWork => Walk!Next]_(Walk!vars)

\* An answer is that of a complete way through the stored flow: from a context
\* node along links that are still there, to an END node in the controller,
\* whose null check tells it from a node that has lost its link since the
\* compilation (flow-node.util.ts 1661, lines 402-405), and to a node that no
\* link leaves in FlowNodeUtil.processFlow, for which they are the same.
AnswerIsOfWholePath ==
    \A r \in Requests : pc[r] = "answered" =>
        /\ Kind[path[r][1].node] = "CONTEXT"
        /\ \A i \in 1..At(r) - 1 : <<path[r][i].node, path[r][i + 1].node>> \in links
        /\ Children(Node(r)) = {}
        /\ variant = "controller" => Kind[Node(r)] = "END"

\* A run follows only a child that the call of this very visit activated; a
\* node that is visited again may instead follow what it activated before, as
\* a task keeps its activatedNodeId (flow-node.util.ts 214-221).
HopWasChosen ==
    \A r \in Requests : \A i \in 1..Len(path[r]) - 1 :
        \/ path[r][i].chosen = path[r][i + 1].node
        \/ \E j \in 1..i - 1 : /\ path[r][j].node = path[r][i].node
                               /\ path[r][j].chosen = path[r][i + 1].node

\* When the awaiting variant answers, no script of the run is still at work and
\* none has failed.
NothingRunsAfterAnswer ==
    \A r \in Requests :
        variant = "util" /\ pc[r] = "answered" =>
            pending[r] = {} /\ rejected[r] = {}

\* A run that has begun ends, on cyclic flows too, unless the process dies.
EveryRunEnds ==
    \A r \in Requests :
        pc[r] # "idle" ~> (pc[r] \in {"answered", "failed"} \/ crashed)

\* "Previous node output as current node input" (flow-node-task.ts:55): what a
\* node is given is what the script of the node before it made.
PreviousOutputIsInput ==
    \A r \in Requests : \A i \in 1..Len(path[r]) - 1 :
        path[r][i + 1].input = Effect(path[r][i].node, path[r][i].input)
=============================================================================
