----------------------------- MODULE FlowLookup -----------------------------
(***************************************************************************)
(* What getProjectFlow promises its callers, as if there were no cache and *)
(* the tables were read at once: a call asks for a path, is told which     *)
(* project is bound to it at that moment, and may then be answered with a  *)
(* flow of the very version it was told.  Calls do not disturb each other. *)
(***************************************************************************)
EXTENDS Integers

CONSTANTS
    Projects,   \* rows of the project table
    Paths,      \* context paths
    Versions,   \* compile versions
    Contents,   \* revisions of a project's tables
    Requests,   \* callers
    None,       \* no project, no flow
    PathsMove   \* whether a path may pass from one project to another

VARIABLES
    project,    \* per project: path, state and compileVersion
    content,    \* per project: the revision of its tables
    committed,  \* per project and version: the revision it was committed with
    lookup      \* per caller: the stage, what it was told and the answer

vars == <<project, content, committed, lookup>>

Flow == [id : Projects, compileVersion : Versions,
         links : Contents, ports : Contents, nodes : Contents]

Lookup(stage, path, row, flow) ==
    [stage |-> stage, path |-> path, row |-> row, flow |-> flow]

\* What came into being is never taken back.
Change ==
    /\ \A p \in Projects :
          /\ content'[p] >= content[p]
          /\ project'[p].compileVersion >= project[p].compileVersion
          /\ \A v \in Versions : v <= project[p].compileVersion =>
                committed'[p][v] = committed[p][v]
    /\ UNCHANGED lookup

\* The row of p as a caller sees it; None is told if no project has the path.
RowOf(p) ==
    IF p = None THEN None
    ELSE [id |-> p, state |-> project[p].state,
          compileVersion |-> project[p].compileVersion]

IsBound(p, path) ==
    IF p = None THEN \A q \in Projects : project[q].path # path
                ELSE project[p].path = path

Ask(r, path, p) ==
    /\ lookup[r].stage # "asked"
    /\ IsBound(p, path)
    /\ lookup' = [lookup EXCEPT ![r] = Lookup("asked", path, RowOf(p), None)]
    /\ UNCHANGED <<project, content, committed>>

\* The flow holds what was committed with its version or came later, nothing
\* that has not happened yet, and class bytes of a compilation.
IsFlowOf(flow, version) ==
    LET commits == committed[flow.id]
    IN  /\ flow.compileVersion = version
        /\ version <= project[flow.id].compileVersion
        /\ \A x \in {flow.links, flow.ports, flow.nodes} :
              x \in commits[version]..content[flow.id]
        /\ \E v \in Versions : commits[v] \in 1..flow.nodes

Answer(r, flow) ==
    LET asked == lookup[r]
    IN  /\ asked.stage = "asked"
        /\ asked.row # None
        /\ asked.row.state = "ONLINE"
        /\ IsFlowOf(flow, asked.row.compileVersion)
        /\ PathsMove \/ flow.id = asked.row.id
        /\ lookup' = [lookup EXCEPT
                        ![r] = Lookup("answered", asked.path, asked.row, flow)]
        /\ UNCHANGED <<project, content, committed>>

Fail(r) ==
    /\ lookup[r].stage = "asked"
    /\ lookup' = [lookup EXCEPT ![r] = Lookup("failed", None, None, None)]
    /\ UNCHANGED <<project, content, committed>>

Init == lookup = [r \in Requests |-> Lookup("idle", None, None, None)]

Next ==
    \/ Change
    \/ \E r \in Requests :
          \/ \E path \in Paths, p \in Projects \cup {None} : Ask(r, path, p)
          \/ \E flow \in Flow : Answer(r, flow)
          \/ Fail(r)

Spec == Init /\ [][Next]_vars
=============================================================================
