-------------------------- MODULE ProjectFlowCache --------------------------
(***************************************************************************)
(* The compiled-flow cache of vs-run, VsProjectService.getProjectFlow in   *)
(* apps/vs-run/src/vs-project/vs-project.service.ts.                       *)
(*                                                                         *)
(* Several HTTP requests run getProjectFlow at the same time on one Node   *)
(* event loop.  The code between two awaits is one step; the database      *)
(* moves while a request awaits a query.  A request reads the project row  *)
(* of its context path, then looks in two static maps, and on a miss or on *)
(* a version mismatch reads links, ports and nodes with three separate     *)
(* queries, builds the executable flow and stores it.                      *)
(*                                                                         *)
(* The database is shared with vs-adapter and is the environment here.     *)
(* What a table holds is abstracted to a revision number: content[p]       *)
(* counts the changes made to links, ports and nodes of project p, and a   *)
(* query returns the number that is current when the database answers.     *)
(***************************************************************************)
EXTENDS Integers, Sequences, FiniteSets

CONSTANTS
    Projects,       \* rows of t_vs_project
    Paths,          \* context paths
    Requests,       \* concurrent calls of getProjectFlow
    None,           \* no row, no context path, no flow
    MaxCacheSize,   \* MAX_CACHE_SIZE
    Ttl,            \* CACHE_TTL_DAYS
    MaxVersion,     \* bound: compilations of one project
    MaxContent,     \* bound: changes of one project's tables
    MaxTime,        \* bound: ticks of Date.now()
    PathsMove       \* whether a project may change its context path

ASSUME ConstantsAssumption ==
    /\ MaxCacheSize \in Nat \ {0}
    /\ Ttl \in Nat \ {0}
    /\ MaxVersion \in Nat
    /\ MaxContent \in Nat
    /\ MaxTime \in Nat \ {0}
    /\ PathsMove \in BOOLEAN
    /\ None \notin Projects
    /\ None \notin Paths

VARIABLES
    project,    \* t_vs_project: contextPath, state and compileVersion
    content,    \* revision of the project's links, ports and nodes
    committed,  \* history: the revision each compileVersion was committed with
    flows,      \* contextPathProjectFlowCache
    stamps,     \* cacheTimestamps
    order,      \* the keys of cacheTimestamps in the iteration order of the Map
    now,        \* Date.now()
    request     \* the local state of each call of getProjectFlow

database == <<project, content, committed>>
cache == <<flows, stamps, order>>
vars == <<project, content, committed, flows, stamps, order, now, request>>

Versions == 0..MaxVersion
Contents == 0..MaxContent
States == {"ONLINE", "OFFLINE"}

\* A VsExecFlow: the project it was built from, the compileVersion it is
\* tagged with, the revisions its three queries returned and, as history,
\* the time it was stored.
Flow == [id : Projects, compileVersion : Versions, links : Contents,
         ports : Contents, nodes : Contents, storedAt : 0..MaxTime]

\* The part of the project row getProjectFlow selects.
Row == [id : Projects, state : States, compileVersion : Versions]

Request == [pc : {"idle", "found", "links", "ports", "nodes", "build",
                  "served", "failed"},
            path : Paths \cup {None}, row : Row \cup {None},
            links : Contents, ports : Contents, nodes : Contents,
            flow : Flow \cup {None}]

Idle == [pc |-> "idle", path |-> None, row |-> None,
         links |-> 0, ports |-> 0, nodes |-> 0, flow |-> None]

\* The promise is settled: it threw, or it returned a flow.
Failed == [Idle EXCEPT !.pc = "failed"]
Served(r, flow) ==
    [Idle EXCEPT !.pc = "served", !.path = request[r].path,
                 !.row = request[r].row, !.flow = flow]

Init ==
    /\ project = [p \in Projects |->
                    [path |-> None, state |-> "OFFLINE", compileVersion |-> 0]]
    /\ content = [p \in Projects |-> 0]
    /\ committed = [p \in Projects |-> [v \in Versions |-> 0]]
    /\ flows = [k \in {} |-> None]
    /\ stamps = [k \in {} |-> 0]
    /\ order = <<>>
    /\ now = 1
    /\ request = [r \in Requests |-> Idle]

-----------------------------------------------------------------------------
(* The database, written by vs-adapter. *)

\* A node, port or link of p is saved; compileVersion stays what it was.
Edit(p) ==
    /\ content[p] < MaxContent
    /\ content' = [content EXCEPT ![p] = @ + 1]
    /\ UNCHANGED <<project, committed, cache, now, request>>

\* The transaction of executeCompileTask commits class bytes and the next version
\* together, online or not: the state is looked at long before the commit.  What
\* it would take for it to commit is the matter of ProjectCompile.
Compile(p) ==
    /\ content[p] < MaxContent
    /\ project[p].compileVersion < MaxVersion
    /\ content' = [content EXCEPT ![p] = @ + 1]
    /\ project' = [project EXCEPT ![p].compileVersion = @ + 1]
    /\ committed' = [committed EXCEPT
                       ![p][project[p].compileVersion + 1] = content[p] + 1]
    /\ UNCHANGED <<cache, now, request>>

\* PortService.modify of a CONTEXT port binds p to a path no project has.
BindPath(p, path) ==
    /\ \A q \in Projects : project[q].path # path
    /\ project[p].path = None \/ PathsMove
    /\ project' = [project EXCEPT ![p].path = path]
    /\ UNCHANGED <<content, committed, cache, now, request>>

SwitchState(p, state) ==
    /\ project[p].state # state
    /\ project' = [project EXCEPT ![p].state = state]
    /\ UNCHANGED <<content, committed, cache, now, request>>

Tick ==
    /\ now < MaxTime
    /\ now' = now + 1
    /\ UNCHANGED <<database, cache, request>>

-----------------------------------------------------------------------------
(* The cache. *)

\* getCachedProject finds both entries and they are younger than the TTL.
IsFresh(path) ==
    /\ path \in DOMAIN flows
    /\ path \in DOMAIN stamps
    /\ now - stamps[path] < Ttl

\* getCachedProject finds both entries and they are too old.
IsExpired(path) ==
    /\ path \in DOMAIN flows
    /\ path \in DOMAIN stamps
    /\ now - stamps[path] >= Ttl

\* Map.delete
Delete(map, key) == [k \in DOMAIN map \ {key} |-> map[k]]

\* Map.set
Put(map, key, value) ==
    [k \in DOMAIN map \cup {key} |-> IF k = key THEN value ELSE map[k]]

\* Map.delete and Map.set as the iteration order of the keys sees them: a key
\* that is set again keeps its place.
DeleteKey(keys, key) ==
    LET at == CHOOSE i \in 1..Len(keys) : keys[i] = key
    IN  [i \in 1..Len(keys) - 1 |-> IF i < at THEN keys[i] ELSE keys[i + 1]]

PutKey(keys, key) ==
    IF \E i \in 1..Len(keys) : keys[i] = key THEN keys ELSE Append(keys, key)

\* Variant: the timestamp of an expired entry is forgotten.
ExpireFlowOnly(path) ==
    /\ flows' = Delete(flows, path)
    /\ UNCHANGED <<stamps, order>>

\* getCachedProject deletes an expired entry from both maps.
Expire(path) ==
    /\ flows' = Delete(flows, path)
    /\ stamps' = Delete(stamps, path)
    /\ order' = DeleteKey(order, path)

\* Variant: the size is compared with > instead of >=.
MustEvictLate == Cardinality(DOMAIN flows) > MaxCacheSize /\ order # <<>>

\* setCachedProject: the first key of cacheTimestamps leaves a full cache.
MustEvict == Cardinality(DOMAIN flows) >= MaxCacheSize /\ order # <<>>

\* Variant: the timestamp is written only with the first flow of a path.
SetCachedProjectKeepStamp(path, flow) ==
    LET kept == IF MustEvict THEN Delete(flows, Head(order)) ELSE flows
        keptStamps == IF MustEvict THEN Delete(stamps, Head(order)) ELSE stamps
        keptOrder == IF MustEvict THEN Tail(order) ELSE order
    IN  /\ flows' = Put(kept, path, flow)
        /\ stamps' = IF path \in DOMAIN keptStamps
                     THEN keptStamps ELSE Put(keptStamps, path, now)
        /\ order' = PutKey(keptOrder, path)

SetCachedProject(path, flow) ==
    LET kept == IF MustEvict THEN Delete(flows, Head(order)) ELSE flows
        keptStamps == IF MustEvict THEN Delete(stamps, Head(order)) ELSE stamps
        keptOrder == IF MustEvict THEN Tail(order) ELSE order
    IN  /\ flows' = Put(kept, path, flow)
        /\ stamps' = Put(keptStamps, path, now)
        /\ order' = PutKey(keptOrder, path)

-----------------------------------------------------------------------------
(* getProjectFlow, one action for each stretch between two awaits. *)

\* Variant: the select list of the findOne leaves compileVersion out.
RowWithoutVersion(path) ==
    IF \E p \in Projects : project[p].path = path
    THEN LET p == CHOOSE q \in Projects : project[q].path = path
         IN  [id |-> p, state |-> project[p].state, compileVersion |-> None]
    ELSE None

RowOf(path) ==
    IF \E p \in Projects : project[p].path = path
    THEN LET p == CHOOSE q \in Projects : project[q].path = path
         IN  [id |-> p, state |-> project[p].state,
              compileVersion |-> project[p].compileVersion]
    ELSE None

\* A call arrives and the database answers its findOne.
FindProject(r, path) ==
    /\ request[r].pc \in {"idle", "served", "failed"}
    /\ request' = [request EXCEPT ![r] =
                     [Idle EXCEPT !.pc = "found", !.path = path,
                                  !.row = RowOf(path)]]
    /\ UNCHANGED <<database, cache, now>>

\* No project has this path, or it is offline: the call throws.
Reject(r) ==
    /\ request[r].pc = "found"
    /\ \/ request[r].row = None
       \/ request[r].row # None /\ request[r].row.state = "OFFLINE"
    /\ request' = [request EXCEPT ![r] = Failed]
    /\ UNCHANGED <<database, cache, now>>

Admitted(r) ==
    /\ request[r].pc = "found"
    /\ request[r].row # None
    /\ request[r].row.state # "OFFLINE"

\* Variant: any cached version that is not older will do.
VersionNotOlder(r) ==
    flows[request[r].path].compileVersion >= request[r].row.compileVersion

SameVersion(r) ==
    flows[request[r].path].compileVersion = request[r].row.compileVersion

\* The cached flow is young enough and has the version of the row.
CacheHit(r) ==
    /\ Admitted(r)
    /\ IsFresh(request[r].path)
    /\ SameVersion(r)
    /\ request' = [request EXCEPT ![r] = Served(r, flows[request[r].path])]
    /\ UNCHANGED <<database, cache, now>>

\* Nothing usable is cached; an expired entry is deleted from both maps.
CacheMiss(r) ==
    /\ Admitted(r)
    /\ ~(IsFresh(request[r].path) /\ SameVersion(r))
    /\ IF IsExpired(request[r].path)
       THEN Expire(request[r].path)
       ELSE UNCHANGED cache
    /\ request' = [request EXCEPT ![r].pc = "links"]
    /\ UNCHANGED <<database, now>>

\* slowGetProjectAndUpdateCache awaits three queries, in no transaction.
ReadLinks(r) ==
    /\ request[r].pc = "links"
    /\ request' = [request EXCEPT ![r].pc = "ports",
                                  ![r].links = content[request[r].row.id]]
    /\ UNCHANGED <<database, cache, now>>

ReadPorts(r) ==
    /\ request[r].pc = "ports"
    /\ request' = [request EXCEPT ![r].pc = "nodes",
                                  ![r].ports = content[request[r].row.id]]
    /\ UNCHANGED <<database, cache, now>>

ReadNodes(r) ==
    /\ request[r].pc = "nodes"
    /\ request' = [request EXCEPT ![r].pc = "build",
                                  ![r].nodes = content[request[r].row.id]]
    /\ UNCHANGED <<database, cache, now>>

\* Variant: the tag is the version current when the tables have been read.
BuiltFlowTaggedLate(r) ==
    [id |-> request[r].row.id,
     compileVersion |-> project[request[r].row.id].compileVersion,
     links |-> request[r].links, ports |-> request[r].ports,
     nodes |-> request[r].nodes, storedAt |-> now]

\* The flow is tagged with the version of the row that was read first.
BuiltFlow(r) ==
    [id |-> request[r].row.id,
     compileVersion |-> request[r].row.compileVersion,
     links |-> request[r].links, ports |-> request[r].ports,
     nodes |-> request[r].nodes, storedAt |-> now]

\* The nodes that were read have class bytes, that is, a compilation had been
\* committed when they were read.
HasClassBytes(r) ==
    \E v \in Versions : committed[request[r].row.id][v] \in 1..request[r].nodes

Build(r) ==
    /\ request[r].pc = "build"
    /\ HasClassBytes(r)
    /\ SetCachedProject(request[r].path, BuiltFlow(r))
    /\ request' = [request EXCEPT ![r] = Served(r, BuiltFlow(r))]
    /\ UNCHANGED <<database, now>>

\* The three tables do not make a flow (a link without its port, not exactly
\* one start node, a node without class bytes): the call throws, nothing is
\* stored.  Beyond HasClassBytes, which contents those are is not modelled.
BuildFails(r) ==
    /\ request[r].pc = "build"
    /\ request' = [request EXCEPT ![r] = Failed]
    /\ UNCHANGED <<database, cache, now>>

Database ==
    \/ \E p \in Projects : Edit(p) \/ Compile(p)
    \/ \E p \in Projects, path \in Paths : BindPath(p, path)
    \/ \E p \in Projects, state \in States : SwitchState(p, state)

Call(r) ==
    \/ \E path \in Paths : FindProject(r, path)
    \/ Reject(r)
    \/ CacheHit(r)
    \/ CacheMiss(r)
    \/ ReadLinks(r)
    \/ ReadPorts(r)
    \/ ReadNodes(r)
    \/ Build(r)
    \/ BuildFails(r)

Next == Database \/ Tick \/ \E r \in Requests : Call(r)

Spec == Init /\ [][Next]_vars

-----------------------------------------------------------------------------
(* Properties. *)

TypeOK ==
    /\ project \in [Projects -> [path : Paths \cup {None}, state : States,
                                 compileVersion : Versions]]
    /\ content \in [Projects -> Contents]
    /\ committed \in [Projects -> [Versions -> Contents]]
    /\ DOMAIN flows \subseteq Paths
    /\ flows \in [DOMAIN flows -> Flow]
    /\ DOMAIN stamps \subseteq Paths
    /\ stamps \in [DOMAIN stamps -> 1..MaxTime]
    /\ order \in Seq(Paths)
    /\ now \in 1..MaxTime
    /\ request \in [Requests -> Request]

KeySet(keys) == {keys[i] : i \in 1..Len(keys)}

NoRepeat(keys) == \A i, j \in 1..Len(keys) : keys[i] = keys[j] => i = j

\* The two static maps and the iteration order of the second hold the same
\* keys, each once, whatever the interleaving of expiry (lines 191-194),
\* eviction (204-210) and insertion (213-214) by concurrent calls.
MapsAgree ==
    /\ DOMAIN flows = DOMAIN stamps
    /\ KeySet(order) = DOMAIN stamps
    /\ NoRepeat(order)

\* Concurrent misses never grow the cache beyond MAX_CACHE_SIZE.
CacheBounded == Cardinality(DOMAIN flows) <= MaxCacheSize

\* The timestamp next to a flow is that of this flow and not of an earlier or
\* later one, so the TTL runs from the time the flow was built.
StampIsOfFlow ==
    \A path \in DOMAIN flows \cap DOMAIN stamps :
        stamps[path] = flows[path].storedAt

\* Everything a compilation committed with version v, or before it, is in the
\* flow: no query behind the flow was answered before that commit.
Covers(flow) ==
    /\ flow.links >= committed[flow.id][flow.compileVersion]
    /\ flow.ports >= committed[flow.id][flow.compileVersion]
    /\ flow.nodes >= committed[flow.id][flow.compileVersion]

\* A flow tagged with version v, cached or handed to a request, holds all that
\* was committed with v, although its tag and its three tables are read by
\* four separate queries while compilations go on (lines 143-379).
TaggedFlowIsComplete ==
    /\ \A path \in DOMAIN flows : Covers(flows[path])
    /\ \A r \in Requests :
          request[r].pc = "served" => Covers(request[r].flow)

\* What a call of getProjectFlow is to FlowLookup: neither the maps nor the
\* clock are to be seen, nor which of its queries a call awaits.
StageOf(pc) == CASE pc = "idle" -> "idle"
                 [] pc = "served" -> "answered"
                 [] pc = "failed" -> "failed"
                 [] OTHER -> "asked"

FlowOf(flow) ==
    [id |-> flow.id, compileVersion |-> flow.compileVersion,
     links |-> flow.links, ports |-> flow.ports, nodes |-> flow.nodes]

LookupOf(call) ==
    [stage |-> StageOf(call.pc), path |-> call.path, row |-> call.row,
     flow |-> IF call.pc = "served" THEN FlowOf(call.flow) ELSE None]

Lookups == INSTANCE FlowLookup WITH
    lookup <- [r \in Requests |-> LookupOf(request[r])]

\* getProjectFlow implements FlowLookup: however calls, expiry, eviction and
\* slower calls that put an older flow back interleave, a call is answered with
\* a compiled flow of exactly the version its row named, complete and with
\* nothing in it that is not in the tables yet, and, unless paths move, of the
\* project its row named (lines 143-381).
ImplementsFlowLookup == Lookups!Spec

\* "Get the project for a context path" (the comment above getProjectFlow):
\* the flow a call returns is that of the project its row names.
ServedFlowIsOfBoundProject ==
    \A r \in Requests : request[r].pc = "served" =>
        request[r].flow.id = request[r].row.id
=============================================================================
