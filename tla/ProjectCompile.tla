--------------------------- MODULE ProjectCompile ---------------------------
(***************************************************************************)
(* Compilation of one project in vs-adapter: ProjectService.compile and    *)
(* the background task it starts, executeCompileTask, of                   *)
(* apps/vs-adapter/src/project/project.service.ts.                         *)
(*                                                                         *)
(* compile() reads the project row, marks it COMPILING and starts the task *)
(* without waiting for it, so the tasks of several calls run side by side. *)
(* What they share is the project row with its lock, and the map of        *)
(* running tasks.  One action is what happens between two awaits together  *)
(* with the database statement that ends it.                               *)
(*                                                                         *)
(* From outside src/: a statement that changes the row waits for the lock  *)
(* that a transaction on another connection holds (InnoDB); an interactive *)
(* transaction that is open too long is rolled back (Prisma); a rejected   *)
(* promise that nobody handles ends the process (Node).                    *)
(***************************************************************************)
EXTENDS Integers, FiniteSets

CONSTANTS
    Calls,          \* calls of compile() for the project
    None,           \* no call
    DatabaseFails   \* whether a query or an update may throw

ASSUME CallAssumption ==
    /\ None \notin Calls
    /\ DatabaseFails \in BOOLEAN

VARIABLES
    online,             \* t_vs_project.state = ONLINE
    compileVersion,     \* t_vs_project.compileVersion, committed
    compileResult,      \* t_vs_project.properties.compileResult
    lock,               \* the call whose transaction holds the row lock
    pending,            \* compileVersion as that transaction has written it
    executor,           \* vsCompileTaskSubmitExecutor: the project's task
    pc                  \* where each call is

row == <<online, compileVersion, compileResult>>
transaction == <<lock, pending>>
vars == <<online, compileVersion, compileResult, lock, pending, executor, pc>>

Failures == {"QUERY_FAILED", "COMPILE_FAILED"}
Statuses == {"null", "COMPILING", "COMPILE_SUCCESS"} \cup Failures

\* Between which awaits a call can be; a failure names what is to be reported.
Places == {"idle", "mark", "query", "generate", "begin", "bump", "succeed",
           "ended", "refused", "killed"} \cup Failures

\* executeCompileTask has been started and has not settled.
InTask == {"query", "generate", "begin", "bump", "succeed"} \cup Failures
Running == InTask \cup {"mark"}

Init ==
    /\ online = FALSE
    /\ compileVersion = 0
    /\ compileResult = [status |-> "null", call |-> None]
    /\ lock = None
    /\ pending = 0
    /\ executor = None
    /\ pc = [c \in Calls |-> "idle"]

\* The project goes online or offline; no code under src/ does so yet.
SwitchState ==
    /\ online' = ~online
    /\ UNCHANGED <<compileVersion, compileResult, transaction, executor, pc>>

\* compile() finds the project and it is offline; the row may change before
\* the call goes on.
Submit(c) ==
    /\ pc[c] = "idle"
    /\ ~online
    /\ pc' = [pc EXCEPT ![c] = "mark"]
    /\ UNCHANGED <<row, transaction, executor>>

\* The project does not exist or is online: a BadRequestException.
Refuse(c) ==
    /\ pc[c] = "idle"
    /\ online
    /\ pc' = [pc EXCEPT ![c] = "refused"]
    /\ UNCHANGED <<row, transaction, executor>>

\* Variant: the two parts of the result are swapped.
UpdateSwapped(c, status) ==
    /\ lock = None
    /\ compileResult' = [status |-> c, call |-> status]
    /\ UNCHANGED <<online, compileVersion, transaction>>

\* updateCompileResult.  It reads the JSON of properties and writes it back;
\* compileResult is all that properties ever holds, so the read loses nothing.
UpdateCompileResult(c, status) ==
    /\ lock = None
    /\ compileResult' = [status |-> status, call |-> c]
    /\ UNCHANGED <<online, compileVersion, transaction>>

\* COMPILING is written, then the task starts and its promise is kept.
Mark(c) ==
    /\ pc[c] = "mark"
    /\ UpdateCompileResult(c, "COMPILING")
    /\ executor' = c
    /\ pc' = [pc EXCEPT ![c] = "query"]

\* compile() itself throws: the request fails, no task is started.
MarkFails(c) ==
    /\ DatabaseFails
    /\ pc[c] = "mark"
    /\ pc' = [pc EXCEPT ![c] = "refused"]
    /\ UNCHANGED <<row, transaction, executor>>

\* Links, ports and nodes are read in a transaction.
Query(c) ==
    /\ pc[c] = "query"
    /\ pc' = [pc EXCEPT ![c] = "generate"]
    /\ UNCHANGED <<row, transaction, executor>>

\* Variant: the failed query is logged and the task ends at once.
QueryFailsSilently(c) ==
    /\ DatabaseFails
    /\ pc[c] = "query"
    /\ pc' = [pc EXCEPT ![c] = "ended"]
    /\ executor' = None
    /\ UNCHANGED <<row, transaction>>

QueryFails(c) ==
    /\ DatabaseFails
    /\ pc[c] = "query"
    /\ pc' = [pc EXCEPT ![c] = "QUERY_FAILED"]
    /\ UNCHANGED <<row, transaction, executor>>

\* getUpdateRecord.  The promise of compileNodeTaskScript is not awaited, and
\* Object.entries of a promise is empty: the record never names a node, so the
\* transaction will write no script and no class bytes.
Generate(c) ==
    /\ pc[c] = "generate"
    /\ pc' = [pc EXCEPT ![c] = "begin"]
    /\ UNCHANGED <<row, transaction, executor>>

\* The graph is not a flow (which graphs those are is not modelled).
GenerateFails(c) ==
    /\ pc[c] = "generate"
    /\ pc' = [pc EXCEPT ![c] = "COMPILE_FAILED"]
    /\ UNCHANGED <<row, transaction, executor>>

\* Variant: the record of the task is left in the map.
ForgetNothing(c) == executor

\* The finally block deletes the project's entry, whichever task's it is.
Forget(c) == None

\* Variant: a failure is reported only by the task the map holds.
ReportIfLatest(c) ==
    /\ pc[c] \in Failures
    /\ executor = c
    /\ UpdateCompileResult(c, pc[c])
    /\ executor' = Forget(c)
    /\ pc' = [pc EXCEPT ![c] = "ended"]

\* A failure is written to the row and the task is over.
Report(c) ==
    /\ pc[c] \in Failures
    /\ UpdateCompileResult(c, pc[c])
    /\ executor' = Forget(c)
    /\ pc' = [pc EXCEPT ![c] = "ended"]

\* The second transaction begins and reads compileVersion.
Begin(c) ==
    /\ pc[c] = "begin"
    /\ pc' = [pc EXCEPT ![c] = "bump"]
    /\ UNCHANGED <<row, transaction, executor>>

\* updateMany of compileVersion, which locks the row until the transaction
\* ends.  It does not throw, so the retry loop ends with its first round.
Bump(c) ==
    /\ pc[c] = "bump"
    /\ lock = None
    /\ lock' = c
    /\ pending' = compileVersion + 1
    /\ pc' = [pc EXCEPT ![c] = "succeed"]
    /\ UNCHANGED <<row, executor>>

\* The open transaction reaches its time limit: the engine undoes its writes
\* and releases the lock, while the call still awaits updateCompileResult.
RollBack(c) ==
    /\ lock = c
    /\ lock' = None
    /\ pending' = 0
    /\ UNCHANGED <<row, executor, pc>>

\* A rejected task: nobody awaits its promise, so the process ends, and with
\* it every running call, its transaction and the map.
Crash ==
    /\ executor' = None
    /\ lock' = None
    /\ pending' = 0

PcAfterCrash(c, place) ==
    [d \in Calls |-> IF d = c THEN place
                     ELSE IF pc[d] \in Running THEN "killed" ELSE pc[d]]

\* updateCompileResult of the success path runs on a connection of its own, so
\* it waits for the lock of its own transaction.  When that is rolled back the
\* result is written after all; then the commit throws, and so does the task.
Succeed(c) ==
    /\ pc[c] = "succeed"
    /\ lock = None
    /\ compileResult' = [status |-> "COMPILE_SUCCESS", call |-> c]
    /\ Crash
    /\ pc' = PcAfterCrash(c, "ended")
    /\ UNCHANGED <<online, compileVersion>>

\* The transaction reaches its time limit while updateMany waits for the lock:
\* updateMany throws, the next round of the loop finds the transaction closed
\* and throws, too, and the task is rejected.
WaitExpires(c) ==
    /\ pc[c] = "bump"
    /\ lock # None
    /\ Crash
    /\ pc' = PcAfterCrash(c, "killed")
    /\ UNCHANGED row

\* A statement of the task after its query throws: the task is rejected.
TaskFails(c) ==
    /\ DatabaseFails
    /\ pc[c] \in {"begin", "bump", "succeed"} \cup Failures
    /\ Crash
    /\ pc' = PcAfterCrash(c, "killed")
    /\ UNCHANGED row

\* What a call does when the database does its part.
Progress(c) ==
    \/ Mark(c)
    \/ Query(c)
    \/ Generate(c) \/ GenerateFails(c)
    \/ Report(c)
    \/ Begin(c)
    \/ Bump(c)
    \/ Succeed(c)

Trouble(c) == MarkFails(c) \/ QueryFails(c) \/ WaitExpires(c) \/ TaskFails(c)

Call(c) == Submit(c) \/ Refuse(c) \/ Progress(c) \/ Trouble(c)

Next == SwitchState \/ \E c \in Calls : Call(c) \/ RollBack(c)

Spec == Init /\ [][Next]_vars

\* A statement that can be answered is, and the time limit of a transaction
\* passes.  Nothing fails for certain.
Fairness ==
    \A c \in Calls : WF_vars(Progress(c)) /\ WF_vars(RollBack(c))

FairSpec == Spec /\ Fairness

-----------------------------------------------------------------------------
(* Properties. *)

TypeOK ==
    /\ online \in BOOLEAN
    /\ compileVersion \in Nat
    /\ compileResult \in [status : Statuses, call : Calls \cup {None}]
    /\ lock \in Calls \cup {None}
    /\ pending \in Nat
    /\ executor \in Calls \cup {None}
    /\ pc \in [Calls -> Places]

\* The map of tasks never keeps a task that is over, whichever way it ended
\* and whichever other task deleted or replaced the entry (lines 191, 353).
ExecutorHasRunningTask == executor # None => pc[executor] \in InTask

\* Once every call is over and none was killed, the row shows a result and not
\* COMPILING, in whatever order the tasks wrote to it (lines 181, 261, 284).
ResultAtTheEnd ==
    /\ \A c \in Calls : pc[c] \in {"idle", "refused", "ended"}
    /\ \E c \in Calls : pc[c] = "ended"
    => compileResult.status # "COMPILING"

\* Every call that is under way comes to an end: the wait of a task for the
\* lock its own transaction holds (lines 317, 338) is not forever, nor does it
\* block the other calls forever.
EveryCallEnds ==
    \A c \in Calls : pc[c] \in Running ~> pc[c] \notin Running

\* "Wait and refresh the page later to see the compilation's result" (the
\* answer of the controller): COMPILING is replaced by a result in the end.
ResultIsShownEventually ==
    compileResult.status = "COMPILING" ~> compileResult.status # "COMPILING"
=============================================================================
