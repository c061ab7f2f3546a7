# Verification of graph-sys

graph-sys is a NestJS port of a visual service-orchestration system. Users draw
a flow (nodes, ports, links) in **vs-adapter**, which compiles it and stores it
in MySQL through Prisma; **vs-run** answers HTTP requests by executing the
compiled flow that is bound to the request's context path. This directory holds
TLA+ models of the parts that keep state, the TLC runs that check them on small
instances and TLAPS proofs for all values of their constants.

All paths below are relative to `src/`.

## The system

| Component | State | Operations | Interacts with |
|---|---|---|---|
| Flow cache of vs-run (`apps/vs-run/src/vs-project/vs-project.service.ts`) | two static maps, path to flow and path to timestamp | `getProjectFlow`, `getCachedProject`, `setCachedProject`, `slowGetProjectAndUpdateCache` | reads the project row, links, ports and nodes that vs-adapter writes |
| Expiring context store (`libs/utils/vs/VsExecContext.ts`) | per instance: values and clean-up tasks; static: registry of all tasks | `set`, timer callback, `clear` | event-loop timers |
| User log queue (`apps/vs-run/src/vs-node-user-log/`, `FlowNodeTask.LOG`) | bounded array | `persistVsNodeUserLog`, `LOG`, `saveLog` (a `@Cron` method that no module schedules) | nodes write, `LogServiceFacade` stores |
| Project compilation (`apps/vs-adapter/src/project/project.service.ts`) | project row (version, result), map of running tasks | `compile`, `executeCompileTask`, `updateCompileResult` | MySQL row locks, Prisma transactions; its result is what the flow cache reads |
| Flow execution (`apps/vs-run/src/vs-run.controller.ts`, `libs/utils/vs/flow-node-task.ts`) | per request: the node at hand, one task per node with its input, output and activated child | `makeRtFlow`, `processFlow`, `call`, scripts after an `await` | flow cache, log queue, node classes |
| Flow graph algorithms (`libs/utils/vs/flow-node.util.ts`, `project.service.ts`, `vs-project.service.ts`) | none beyond the links being followed | `getActualLinks`, `makeStFlow`, `getNodeIdsMap`, the checks of `makeNodeTaskScript` and `slowGetProjectAndUpdateCache` | called by compilation, cache and execution |
| Graph editing (`apps/vs-adapter/src/{node,port,link}`) | tables of nodes, ports, links, context paths of projects | add, modify, list, delete | its tables are what compilation and cache read; moves context paths |
| Port scripts and node classes (`port.service.ts`, `flow-node.util.ts`, `libs/enum/src/port.route.enum.ts`) | properties of ports | `modify` and its generators, `makeNodeTaskScript` | the editor reads the properties back; compilation puts them into classes |
| HTTP nodes, server-sent events, Redis, helpers | small | see `PROJECT.json` | external services |

What is hard here: several HTTP requests interleave at every `await`; the two
applications share a database without transactions around what belongs
together; background tasks are started and not awaited; caches are compared by
version only; runs of `saveLog` may overlap; errors are caught and logged in the
middle of a sequence; editing handlers check a row in one statement and
write in another; text is put together by position. The list of places is
`hazards` in `PROJECT.json`.

## Modules

### FlowLookup and ProjectFlowCache

`FlowLookup` is what `getProjectFlow` promises, without cache, clock and separate
queries: a call asks and is told the row of the path at that moment (`Ask`), and
may then be answered (`Answer`) with a flow of exactly that version which is
complete, compiled and holds nothing that is not in the tables yet; unless paths
move it is of the project the row names. `ProjectFlowCache` implements it
(`ImplementsFlowLookup`): `FindProject` is `Ask`, `CacheHit` and `Build` are
`Answer`, `Reject` and `BuildFails` are `Fail`, and a miss, the three queries and
the clock are stutters. The run `cache` has one project whose path moves, so that
three paths compete for the cache; that flows of several projects are not mixed up
as long as paths stay is left to the proof.

A call of `getProjectFlow` is a record in `request`; its `pc` says which await
it is at. `FindProject` is the query for the row, `Reject`, `CacheHit` and
`CacheMiss` what follows it up to the next await, `ReadLinks`, `ReadPorts`,
`ReadNodes` the three later queries, and `Build`/`BuildFails` the synchronous
rest with `setCachedProject`. `flows` and `stamps` are the two static maps,
`order` is the iteration order of the second, from which the code takes the
entry to evict. The database is the environment: `Edit`, `Compile`, `BindPath`
and `SwitchState` may happen between any two steps. What the tables hold is a
revision number; `committed` remembers the revision of each compile version.
`Compile` is a committed compilation by whatever process shares the database:
class bytes and the next version become visible together, which is what the
transaction in vs-adapter is written to do. That this transaction does not
commit at present is the subject of `ProjectCompile`, so the cache is checked
against a database that does more than the present vs-adapter makes it do.
`Compile` has no guard on the state: `compile()` refuses an online project, but
long before its transaction. `Build` needs nodes with class bytes, that is, a
compilation committed before the nodes were read; `BuildFails` stands for every
other content that makes no flow.

### ExecContext

`Set`, `Expire` and `Clear` are `set()`, the timer callback and `clear()`; each
runs to its end on the event loop. `SetThrows` is `set()` with a unit that
`convertToMilliseconds` does not know: it throws after the old timer was cancelled
and the value stored, which then stays without a timer (`Unscheduled`). `Tick`
lets time pass; a due timer may be late. `EffectiveDelay` is what `setTimeout`
makes of a delay: 1 ms if it is longer than `MaxDelay`. `promised` is a history
variable, the time left until the value may go; `Promise` says what a caller may
rely on, which is the delay itself, or nothing if `setTimeout` does not take it.

### UserLogQueue

`Persist` is `persistVsNodeUserLog` with `addLog`, `LOG` is the method of a
node, `SaveLog` a run of `saveLog` up to its await, `Saved` and `SaveFails` the
answers. `saving` holds the batches of all runs that still wait. `saveLog` is
decorated with `@Cron`, but nothing starts it at present: no module imports a
`ScheduleModule` or provides `VsNodeUserLogService`, and `package.json` does not
list `@nestjs/schedule`. `SaveLog` is therefore possible and never certain, and the
module says what each run does, not that a record is ever taken.
`stored`, `failed`, `dropped` and `unqueued` are history: where each record
went. The application calls only `LOG` at present; `Persist` is the service's
public method.

### ProjectCompile

A call goes from `compile()` (`Submit`, `Refuse`, `Mark`) through the background
task (`Query`, `Generate`, `Begin`, `Bump`, `Succeed`, or a failure and
`Report`). `compileResult` is the JSON in the project row; `lock` and `pending`
are the row lock and the uncommitted version of an open transaction; `executor`
is the map of running tasks. Three things come from outside the repository and
are marked external in the map: an update of a locked row waits; a transaction
open too long is rolled back (`RollBack`); an unhandled rejection ends the
process (`Crash`), which kills all running calls. After `Bump`, the success path
writes the result on another connection and so waits for its own lock; there is
no commit action because that wait ends with the rollback only. One process,
no restart of its calls: the code has no recovery.

### FlowWalk and FlowRun

`FlowWalk` is what running a flow promises: a run walks along links from the
start node, each node is given what its predecessor made of its own input, and
the answer is what the last node made of it. `FlowRun` is the code. `variant`
chooses between the two loops of the repository, `VsRunController.processFlow`
("controller"), which does not await `call()`, and `FlowNodeUtil.processFlow`
("util"), which does and which nobody calls.

`Begin` is `makeRtFlow` with the entry into the loop: it fills `childNodes`, the
child map of each task (`RtFlow`; no map stands for `null`). `Overflow` is the
check of `MAX_DEPTH`, `CallNode` a `call()` up to its first `await`, and
`Rethrow`, `Return`, `NoChild` and `HandOver` what follows it. `Resume` and
`ResumeThrows` are the rest of a script after its `await`. `loop` is the request whose code has
the event loop: the controller keeps it from the first node to the last, the
awaiting loop gives it up at every node. A visit in `path` remembers a node, its
input and the child that its call activated; `task` holds the `FlowNodeTask` of
each node, which a cyclic flow visits again with the `activatedNodeId` of the
visit before. `Crash` is the end of the process on a rejected promise that
nobody handles; no handler is installed anywhere in `src/`.

The data is abstract. A body is the sequence of the nodes whose scripts have
worked on it; the request and the response body are handed on by the same lines
and are one here. A script is "plain" (sets its output at once), "awaits" (an
HTTP node) or "throws". A port of a route names the node it was linked to at the
compilation, which need not be linked any more: `CallRoute` may activate any
node or none. `EndNodes` are the END nodes that links lead to but do not
leave, and they alone have no child map. A node that has lost its link has an empty one, which the two
loops tell apart differently: the awaiting loop asks for the number of children
and answers there, the controller asks for the map and fails with `NoChild`.
`AnswerIsOfWholePath` is what comes of it: an answer ends a way along links from
a context node to a node without links, in the controller to an END node.

`ImplementsFlowWalk` says, step by step, that a run implements `FlowWalk` as long
as it hands on finished work: in the awaiting loop always, in the controller on
flows whose scripts are all plain. `PreviousOutputIsInput` says it of the
controller without that condition and is violated.

### FlowData

The rows of nodes, ports and links as functions, and the parts of the code that
compute from them without state: `ValidPort` (`LinkService.validPort`), the layers
of `NodeService.list`, `ActualNodes`, `ActualOutputPorts`, `StartNodes`,
`EndNodes`, the checks of `makeNodeTaskScript` (`HasTaskScript`), those of
`getCircuitBreakerMap` (`BreakersFit`: a port with empty properties is skipped) and
`RtChildren`, what `makeRtFlow` makes of the links. The next three modules extend it.

### FlowBuild

From the rows to a flow that can run. A job is a compilation
(`getUpdateRecord`) or a load (`slowGetProjectAndUpdateCache`). Both follow every
link that starts at an atomic node through the composite nodes to the atomic
node it leads to: `Follow` takes up a link, `Hop` passes a composite port,
`Reach` ends at an atomic node, and `IsLost` is where `getActualLinks` throws.
`Compile`, `Load` and `Throw` are the checks after that. A job is synchronous, so
no edit comes between its steps; between jobs links are added and ports deleted.
`t_vs_link` is a function of the source port, which is unique in the table.
A link names its two nodes and its two ports, and nothing compares them:
`OwnPorts` says where they agree.

### GraphEdit

`NodeService`, `PortService` and `LinkService`, one action per awaited statement
with the synchronous code that follows it. `at` is the statement that a request
takes next, `seen` what it has read and will use; `Leave` is a return or an
exception. The properties of a row come down to `text` (JSON text or an object,
for `list` parses text only) and `script`. Uniqueness of ids, `sourcePort` and
`contextPath` is the database's, from `prisma/schema.prisma`. `Listed` and
`FlowData!ShownIn` are what `list` makes of the tables; its four queries are one
state here. Nodes are never deleted: no handler does.

### PortScript

How the settings of a port become code. A text is a sequence of pieces, each a
stretch of code that is moved as a whole (`Stretches`), with the number of times
it was escaped; a slot is a piece, and `Fill` is `replace('%s', ...)`: the first slot,
whichever text brought it in. What is filled in may hold the replacement patterns
of JavaScript. `Expand` turns a dollar followed by a dollar, an ampersand, a quote or
a backquote into a dollar, a slot, or what the text being filled has behind or
before its slot; for this the dollar and these characters are pieces of their own
where they can meet. `modify` escapes the backquote, but none of the other three.
`Open` and `FillIn` are the editor, where a user may write a script
(`Scripts`), other definitions (`Additions`) or choose the settings of the node; `Modify` and
`Refuse` are `PortService.modify`, with the generated code of each kind of node
and the escapes of every save; `Compile` is what `makeNodeTaskScript` makes of the
ports one transaction has read. `IsMade` is what it takes for that, here for nodes
whose links are given (`Target`); the graph side is `FlowBuild`'s. Port ids,
which are also method names, are taken as they are. Both properties are about
texts that leave the templates alone: `SourceIsLaidOut` says so of the ports of a
node, whose scripts and definitions must be `Inert` (neither slot nor dollar), and
`RouteCodeIsChecked` of the types whose conditions have an inert key and an inert
value (`InertTypes`). It demands nothing of the other texts that stand in the same
class, whatever slots and patterns they have. `Opening` is how each of the four comparisons
begins, by which a comparison is recognised in a class; `NameAssumption` says that
no id, script, key or value is such a beginning itself.

Some modules define variants (`\* Variant: ...`) beside the definitions they
change: the mistakes that each property must reveal. They are used in no
specification.

## Runs

Bounds are constants of the modules and named there.

| Run | Instance | Shows |
|---|---|---|
| `cache` | one project, 3 paths, 2 calls, cache of 2, TTL 1, 2 ticks, one compilation or edit; symmetric | type, `MapsAgree`, `CacheBounded`, `StampIsOfFlow`, `TaggedFlowIsComplete`, and that it implements `FlowLookup` |
| `cache_rebind` | two projects, a path that moves | **violated** `ServedFlowIsOfBoundProject`: the other project's flow is served |
| `exec_context` | 2 contexts, 2 keys, delays 1, 3 and 4, of which `setTimeout` takes 3 at most, 3 calls of `set` that return and any number that throw | `OneTimerPerValue`, `RegistryIsExact`, `NoEarlyExpiry`, and with fairness `EveryValueExpires` |
| `user_log` | queue of 3, batches of 2, 6 records | `NoLogVanishes`, `NoLogTwice`, `FirstInFirstOut`, `RecordsAdvance` |
| `compile` | 3 calls, failing database | `ExecutorHasRunningTask`, `ResultAtTheEnd`, and with fairness `EveryCallEnds` |
| `compile_result` | two calls, no failure | **violated** `ResultIsShownEventually` |
| `flow_run` | 4 nodes (start, route, worker, end), 16 sets of links, 12 choices of scripts, both loops, 2 runs, `MaxDepth` 6 | `ImplementsFlowWalk`, `AnswerIsOfWholePath`, `HopWasChosen`, `NothingRunsAfterAnswer`, and with fairness `EveryRunEnds` |
| `flow_run_handover` | the same flows, the worker awaits, controller only | **violated** `PreviousOutputIsInput` |
| `flow_build` | 8 nodes in 2 layers with 2 composites, 13 ports, 15 link requests (two of them with nodes that are not the owners of the ports), one of 3 ports deleted, 2 sets of class bytes, `MaxHops` 2 | `HopsAreFew`, `ActualLinksAreReachable`, `CompiledFlowIsSound`, `CompiledFlowLoads`, and with fairness `BuildEnds` |
| `graph_edit` | 3 projects, 5 requests out of 17, two at a time | `StartNodesBounded`, `LinksFit`, `LinksShownOnce` |
| `port_script` | a route with 2 ports and an HTTP node with one, 3 saves, one editor; a script with `%s` and `$&`, a definition with `$'`, a key that ends in a dollar | `RouteCodeIsChecked`, `SourceIsLaidOut` |
| `port_methods` | the same | **violated** `ConditionsAreMethods`: the methods of a route's ports stand inside `call()` |

Every passing run checks the type invariant of its module too.

Why the bounds are enough. Cache: two calls are needed for a slow fill to
overwrite a newer one, three paths for an eviction of a third; one project may
own all of them in turn because paths move, and a single compilation or edit
separates "before" from "after" for each of the four queries. Context store:
with three calls a value is replaced twice, or once beside a value of the
other context or key that expires or is cleared, and the longest delay is one that
`setTimeout` does not take. Log queue: six records fill the queue, overflow it and leave a
batch shorter than the limit, with three batches under way. Compilation: three
calls let one hold the lock, one wait for it and one write the result. Execution:
the links give straight flows, a way past the worker, a cycle, a start node with
two ways out and a worker without its link; a depth of six lets the cycle turn
twice and then overflow (256 in the code), and two runs interleave. Build: two
composites are what a link can pass through at most when it is drawn by the
editor, and two links that name other nodes close a cycle through them; a
deleted port, a node without class bytes and an HTTP node whose port has properties
are one each because one is enough to fail a job; a second HTTP node, whose port
has none, does not fail it. Editing: five requests let two overlapping writers
meet a third request's outcome; every handler, every check that can fail and
every pair of handlers that touch the same row occur. Port scripts: three saves
allow one save per port of the route, or one port to be generated, read back,
changed and saved again; the right value `12abc` is a number to `parseFloat` and
none to `BigInt`; the script has a slot and a pattern that brings one in, the
definition a pattern that brings in the rest of the class, and the key that ends in
a dollar the rest of the comparison, so that the other texts of a class are
checked beside them. For the
invariants with a theorem, the proofs below do not depend on these bounds.

`CHECK_DEADLOCK FALSE` stands in the configurations of the log queue, of the
execution and of editing: nothing is left to happen once all records of the
bound are made and settled, all runs are over, or all requests are answered.

## Fairness

- ExecContext: weak fairness of `Tick` and of each task's callback. The event
  loop runs a due timer sooner or later.
- ProjectCompile: weak fairness of each call's progress (a statement that can be
  answered is) and of `RollBack` (the time limit passes). No failure is
  assumed to happen.
- FlowRun: weak fairness of each run's own code (`Step`) and of what its scripts
  do after an `await` (`Continue`); HTTP requests have a time limit of five
  seconds, so they are answered or fail. Runs need not begin, and the process
  may die or not.
- FlowBuild: weak fairness of the work of a job; it is synchronous code, which
  goes on once started. Jobs need not start.
- ProjectFlowCache has no liveness property: whether a query is answered is up
  to the database, and a call waits for nothing else. UserLogQueue has none
  either, since nothing starts `saveLog`; `RecordsAdvance` is what its runs do for
  a record if something does.

## Proofs

`*Proofs.tla` extend the modules; every theorem says of `Spec` that an invariant
always holds, that each step obeys an action property (`[][A]_vars`) or, for the
refinements, that it implements the abstract module. It holds for all constants
that satisfy the named assumptions, which TLC evaluates in the runs.

- `ProjectFlowCacheProofs`: `TypeInv` joins `TypeOK`, `MapsAgree` and
  `CallsWellFormed` (what a call holds at each `pc`; without it the type of a
  flow that is being built cannot be shown). `SizeInv` adds that the cache is
  finite and bounded; eviction needs `MapsAgree`, for the key it takes from the
  timestamps must be a key of the flows. `FreshInv` adds what links the tag to
  the tables: a commit lies in the past (`committed <= content`) and every query
  a call has done after it read its row returned at least what its version
  committed. For `CacheImplementsFlowLookup`, `PastInv` adds the other bound
  (nothing a call has read or the cache holds is ahead of the tables, and what
  is cached has been compiled, which stays true because versions that are yet
  to come have no revision), `CallsAdmitted` that only calls for an online project get
  past the row, and `PathInv`, which holds unless paths move, that a path means
  the same project to the cache, to a call and to the table. From `PathInv` also
  follows `FixedPathsKeepProjects`: without `PathsMove` the finding of
  `cache_rebind` cannot occur.
- `ExecContextProofs`: `Inv` adds `TasksAreUnique` to the checked invariants (no task
  number is given twice, and a value that `SetThrows` has left behind keeps no task
  that is still pending). `NeverExpiresEarly` needs `TimersKeepPromises` (a timer
  has at least as much time left as was promised). Nothing is assumed of the
  delays: one that `setTimeout` does not take is promised nothing, and the theorem
  says that it shortens the life of no other value.
- `UserLogQueueProofs`: the conjunction of the checked invariants and
  `SizesBounded` (queue and batches keep their limits) is inductive.
  The lemmas on `Batch` and `Rest` say that they split the queue.
- `ProjectCompileProofs`: `MarkedCallRuns` (a row that shows COMPILING names a
  call that still runs or was killed) makes `ResultAtTheEnd` inductive.
- `FlowRunProofs`: a step has one of five shapes (`StepShapes`), and lemmas say
  visit by visit what each changes. `TypeInv` and `MarksInPath` (calls at work or
  failed belong to visits of the run, a visit is fresh until its node is called)
  hold first. `AnswerAlwaysOfWholePath` needs `WholePath`, the same
  of runs that go on, and that the child maps of a run are those of the stored links
  (`TasksAreLinked`), so that only an END node answers in the controller.
  `HopAlwaysChosen` needs that whatever a task has activated some
  visit of its node has chosen; `NothingEverRunsAfterAnswer` needs `QuietUtil`
  (only the current visit of an awaiting run is ever at work). For
  `FlowRunImplementsFlowWalk`, `ReadyInv` says that the output of a settled call
  is what its script made, and that with plain scripts only a node with several
  ways out fails, which then neither answers nor hands over; each action is then
  a step of `FlowWalk` or none.

- `FlowBuildProofs`: `FewHops` is one step of arithmetic per hop: what a port has
  ahead of it (`Ahead`) falls with every composite port that `ValidPort` lets a
  link pass. `SoundFlow` needs that two jobs over the same rows find the same
  links, so that the checks of the compilation hold for what was loaded:
  `LeadsTo` says where a link leads without following it (every set of ports that
  is closed under following holds an atomic port of the target, and some such set
  holds no other), which needs no induction over the path, and `OneFlow` that
  there is one flow of this kind. `FlowInv` keeps this for the links found so far,
  for the one being followed and for the flow as a whole; `ScriptedIsWalkable` then
  turns the checks into what `processFlow` needs. For `CompiledLoads` the
  second job must not lose a link that the first one could follow, nor give up on
  it (`MaxHops`): `Trails` are the ports passed so far, which no set of ports that
  is closed under following can avoid, `Counted` relates their number to the hops,
  and `CompiledInv` remembers that each link has a trail to an atomic node
  within the limit (`Ways`). `LinksAreReachable` compares the loop with the reference
  definition, which takes as many rounds as there are ports: the set it arrives
  at is the least closed one (`PassedByIsLeast`), since a set that still grew in every
  round would outgrow the table (`IsFiniteSet(DOMAIN Port)` in `RowAssumption`).
- `GraphEditProofs`: `CallsOK` says, for each statement a handler may be at, what
  it has found out and what of that still holds: nodes stay and keep layer and
  task, ports keep node and type until they are deleted. With it `LinksFit`
  survives any overlap. `StartNodesStayBounded` needs `StartsInv`: with the
  requests that are past the check, a project has no more start nodes than
  slots; the check fails as soon as there is one, and each creation uses a
  request up. `ShownOnce` is about what `list` makes of the tables and needs no history: the
  layer a link is shown in is computed, and there is one exactly if its nodes are
  near each other.
- `PortScriptProofs` has three parts. The lemmas on texts say what filling does:
  `FillAt` and `FillNone` where it happens, `SlotsFilled` that as many fillings
  as there are slots, with texts that have neither a slot nor a dollar, put each text
  into its place, and `FlattenSteps` what the concatenation of a sequence of texts
  is. From them `ClassLaidOut` follows for routes with any number of ports and for
  other nodes.
  The second part shows that comparisons stay whole. `Intact` says that whatever
  begins a comparison of one of the `InertTypes` is followed by all the rest of the
  comparison of one condition. Such a comparison has neither slot nor dollar, so
  that no filling can tear it apart, whatever is filled in around it, and no
  replacement pattern copies a part of it: a pattern copies the text before or
  behind a slot, which is cut at a slot and therefore between comparisons
  (`IntactBefore`, `IntactAfter`, `ExpandIntact`). Filling, escaping and concatenation
  keep this (`CheckedFill`, `CheckedEscape`, `CheckedConcat`), and what the generators
  make has it (`RouteCodeChecked`) or has no comparison. The third part is `Inv`: all
  texts in the table, in forms and in classes are `Checked`, where
  `RouteCodeIsChecked` speaks of classes only and is not inductive.
  `ClassesLaidOut` is about nodes for which neither an id nor a stored text has a
  slot or a dollar; such a text would take what is filled in next, or bring in a part
  of the template.
  `TemplateAssumption` lists the literals of the templates as members of
  `Stretches`; TLC has the set of all strings for it.

Three proofs follow a recursion to its end (`FillAll`, the concatenation and
`PassedBy`). They are written as recursive functions on `0 .. n`, and induction is
replaced by the least number for which a set of numbers has a gap (`LeastNat`,
`UpTo`), which exists because `<` is well-founded.

Four theorems take the liveness properties as far as proofs can take them here. A
liveness property needs, besides fairness, that what it waits for comes nearer
with each step and is never put off. That part is a step property and holds for
all constants:

| Liveness | Theorem | What runs down |
|---|---|---|
| `EveryValueExpires` | `TimersAlwaysRunDown` | the time left of a timer: with each tick and by nothing else, until the value goes |
| `EveryCallEnds` | `CallsAlwaysAdvance` | `Rank`: what the program counters of the calls have before them, and the lock to be given back. One call's falls with each step, no call's rises, as long as `online` stays |
| `EveryRunEnds` | `RunsAreFinite` | `Rank`: the nodes that `MAX_DEPTH` leaves a run, the node at hand and the scripts at work. One run's falls with each step, no run's rises, as long as the process does not die |
| `BuildEnds` | `JobsAreFinite` | the links a job still has to follow and, for one link, its hops: one of the two falls with each step, in cyclic graphs too |

That nothing runs down for ever is the reader's step; that a step is taken at all
while one is possible is fairness with `ENABLED`, which only TLC handles.

Only model-checked: the liveness properties themselves. The violations are TLC's
too. Every other property of a passing run has a theorem.

## Remarks

What reading the code for the models has shown, beyond the findings in
`PROJECT.json`. A name in brackets is the definition that takes it over.

Cache and context store: a full cache evicts the path that was inserted first,
even if it was renewed since (`PutKey`), although the comment above says the
oldest; it evicts even if the path to be stored is cached already. A delay of
25 DAYS exceeds what `setTimeout` takes and fires at once (`EffectiveDelay`). `set()`
with a unit it does not know throws too late: the value is stored and has no timer
(`SetThrows`).

Log queue: `LOG` calls `add()` on a plain array, so what a node logs is lost, in a
`catch` (`unqueued`). A batch that the facade does not store is lost, too
(`failed`). Nothing schedules `saveLog`, so even records that are queued would stay
there.

Compilation: inside its transaction `updateCompileResult` waits for the lock of
that transaction; after the rollback the row shows COMPILE_SUCCESS with the
version it had. `compileNodeTaskScript` is not awaited, so no class bytes are
written. The count of `updateMany` is ignored.

Graph: `getActualLinks` leaves stray links in and promises that later steps deal
with them, but a node that no path from the start leads to is compiled and
loaded like the others. `validateAtomicEndNodes` is empty. An HTTP node with an
output port whose properties are not empty cannot be loaded, for `jacksonUtil` does
not exist in `VsProjectService` (`BreakersFit`).

Editing: two start nodes that were added at the same time lock a project, since
every further add is refused and nodes cannot be deleted. The test for
COMPOSITE_END compares it with the view type and never applies. The limit of one
output port for CONTEXT, HTTP and DATA_MAPPING nodes applies to a new input port
as well. A start port that comes with a script does not register its path.
`link.delete` logs its errors and reports success. A link between the insides of
two composites is shown in no layer. `detailQuery` of ports answers 'success' and
not the port. `list` fails for a project as soon as a port in a composite was
modified, for it parses text where an object is stored.

Port scripts: every save escapes the script again, though Prisma serialises the
properties itself, and a script that was read back keeps the settings from being
checked or generated anew. `modify` drops the data mapping from the stored
properties, and an order of 0 becomes -1 when read. The HTTP templates have no
slots, so address and time limit are dropped, and their text begins in the
middle of a block; the POST template passes 5000 as the body. A right value is
inserted without quotes. Texts are inserted with `String.replace`, which expands
`$&` and the like, and `modify` escapes a dollar only before a brace: a key that
ends in a dollar takes in the rest of the comparison, and a script that escapes
regular expressions with `$&` takes in a slot (`Expand`). `requestParam` is a `Map`, so the index expression
yields nothing. An HTTP port without `pathParams`, which are optional, fails
with a TypeError (forms in `PortScript` always have them).

## What could come next

`FlowRun` over the links that `FlowBuild` finds instead of given ones; the headers
and content types of `VsRunController`.

## Not modelled

- HTTP component nodes: `AsyncHttpConnPoolUtil` wraps axios and keeps no state;
  `FlowService` is a demonstration with fields of its own, and the circuit breaker
  is a library. What matters to a run, that an answer comes late or not at all,
  is in `FlowRun`.
- Server-sent events and Redis: small services that nothing else uses.
- Trees, date parsing and data conversion: helpers without state, called from user
  scripts.
- The compiler of node classes and the conversion of request and response
  headers: text only.
- DTOs, enumerations, database declarations and the two skeleton applications
  have no behaviour of their own; what bounds the models' data is in the map.

`PROJECT.json` lists every component with the reason.
