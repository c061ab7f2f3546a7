---------------------------- MODULE ExecContext -----------------------------
(***************************************************************************)
(* VsExecContext of libs/utils/vs/VsExecContext.ts: key-value stores whose *)
(* entries are deleted by a timer, and the static registry of all pending  *)
(* clean-up tasks that the stores share.                                   *)
(*                                                                         *)
(* Every method and every timer callback runs to its end on the event      *)
(* loop, so each is one step.  What interleaves are the stores, the calls  *)
(* that replace or clear a value, and timers that are due but have not run *)
(* yet.  Time is kept as the time left, so that it needs no bound.         *)
(***************************************************************************)
EXTENDS Integers, FiniteSets

CONSTANTS
    Contexts,   \* instances of VsExecContext
    Keys,       \* keys of a context
    Delays,     \* the delays that set() converts durations to, in milliseconds
    MaxDelay,   \* the longest delay of setTimeout, 2^31 - 1 ms
    MaxTasks    \* bound: calls of set()

ASSUME DelayAssumption ==
    /\ Delays \subseteq Nat \ {0}
    /\ MaxDelay \in Nat \ {0}
    /\ MaxTasks \in Nat

VARIABLES
    contextMap,     \* per context and key: the value, None if there is none
    expiredTaskMap, \* per context and key: the clean-up task, 0 if none
    scheduledTasks, \* static: the pending clean-up tasks
    taskCounter,    \* static: the number of tasks so far
    timers,         \* the timers of the event loop
    promised        \* history: per context and key, the time left until the
                    \* value may go, as the last set() asked of setTimeout

vars == <<contextMap, expiredTaskMap, scheduledTasks, taskCounter, timers,
          promised>>

\* A task is named by its number, which the code makes part of its key; the
\* values are told apart by the set() that stored them.
Tasks == 1..MaxTasks
NoTask == 0
TaskOrNone == Tasks \cup {NoTask}

\* The value of a set() that threw before it made a task.
Unscheduled == MaxTasks + 1

\* A timer: its callback deletes key from context; left is the time until due.
Timer == [task : Tasks, context : Contexts, key : Keys, left : Nat]

Init ==
    /\ contextMap = [c \in Contexts |-> [k \in Keys |-> NoTask]]
    /\ expiredTaskMap = [c \in Contexts |-> [k \in Keys |-> NoTask]]
    /\ scheduledTasks = {}
    /\ taskCounter = 0
    /\ timers = {}
    /\ promised = [c \in Contexts |-> [k \in Keys |-> 0]]

\* setTimeout of Node: a delay that is too long becomes 1 ms.
EffectiveDelay(delay) == IF delay \in 1..MaxDelay THEN delay ELSE 1

\* Variant: the callback of the replaced task stays scheduled.
KeepOldTimer(c, key) == timers

\* clearTimeout of the task that expiredTaskMap has for this key, if any.
CancelTimer(c, key) ==
    {t \in timers : t.task # expiredTaskMap[c][key]}

\* Variant: the replaced task is left in the registry.
KeepRegistered(c, key) == scheduledTasks

Unregister(c, key) == scheduledTasks \ {expiredTaskMap[c][key]}

\* Variant: the counter is read before it is incremented.
NextTaskLate == taskCounter

NextTask == taskCounter + 1

\* What a caller may rely on: a delay that setTimeout does not take is no
\* promise at all, as the value then goes after 1 ms.
Promise(delay) == IF delay <= MaxDelay THEN delay ELSE 0

\* set() with a unit of the enum.
Set(c, key, delay) ==
    LET task == NextTask
        timer == [task |-> task, context |-> c, key |-> key,
                  left |-> EffectiveDelay(delay)]
    IN  /\ taskCounter < MaxTasks
        /\ taskCounter' = taskCounter + 1
        /\ contextMap' = [contextMap EXCEPT ![c][key] = task]
        /\ expiredTaskMap' = [expiredTaskMap EXCEPT ![c][key] = task]
        /\ scheduledTasks' = Unregister(c, key) \cup {task}
        /\ timers' = CancelTimer(c, key) \cup {timer}
        /\ promised' = [promised EXCEPT ![c][key] = Promise(delay)]

\* set() with any other unit: convertToMilliseconds throws when the old task is
\* cancelled and the value is stored.  expiredTaskMap keeps the cancelled task.
SetThrows(c, key) ==
    /\ contextMap' = [contextMap EXCEPT ![c][key] = Unscheduled]
    /\ scheduledTasks' = Unregister(c, key)
    /\ timers' = CancelTimer(c, key)
    /\ UNCHANGED <<expiredTaskMap, taskCounter, promised>>

\* Variant: the callback leaves the entry of expiredTaskMap behind.
ExpireValueOnly(t) ==
    /\ t.left = 0
    /\ timers' = timers \ {t}
    /\ contextMap' = [contextMap EXCEPT ![t.context][t.key] = NoTask]
    /\ scheduledTasks' = scheduledTasks \ {t.task}
    /\ UNCHANGED <<expiredTaskMap, taskCounter, promised>>

\* Variant: the callback leaves the value behind.
ExpireTaskOnly(t) ==
    /\ t.left = 0
    /\ timers' = timers \ {t}
    /\ expiredTaskMap' = [expiredTaskMap EXCEPT ![t.context][t.key] = NoTask]
    /\ scheduledTasks' = scheduledTasks \ {t.task}
    /\ UNCHANGED <<contextMap, taskCounter, promised>>

\* The callback of a timer that is due.
Expire(t) ==
    /\ t.left = 0
    /\ timers' = timers \ {t}
    /\ contextMap' = [contextMap EXCEPT ![t.context][t.key] = NoTask]
    /\ expiredTaskMap' = [expiredTaskMap EXCEPT ![t.context][t.key] = NoTask]
    /\ scheduledTasks' = scheduledTasks \ {t.task}
    /\ UNCHANGED <<taskCounter, promised>>

\* The tasks of one context.
TasksOf(c) == {expiredTaskMap[c][k] : k \in Keys} \ {NoTask}

\* Variant: clear() drops the tasks of every context from the registry.
ClearRegistry(c) ==
    /\ timers' = {t \in timers : t.task \notin TasksOf(c)}
    /\ scheduledTasks' = {}
    /\ contextMap' = [contextMap EXCEPT ![c] = [k \in Keys |-> NoTask]]
    /\ expiredTaskMap' = [expiredTaskMap EXCEPT ![c] = [k \in Keys |-> NoTask]]
    /\ UNCHANGED <<taskCounter, promised>>

Clear(c) ==
    /\ timers' = {t \in timers : t.task \notin TasksOf(c)}
    /\ scheduledTasks' = scheduledTasks \ TasksOf(c)
    /\ contextMap' = [contextMap EXCEPT ![c] = [k \in Keys |-> NoTask]]
    /\ expiredTaskMap' = [expiredTaskMap EXCEPT ![c] = [k \in Keys |-> NoTask]]
    /\ UNCHANGED <<taskCounter, promised>>

\* One millisecond passes; a timer that is due may be late.
Less(n) == IF n > 0 THEN n - 1 ELSE 0

Tick ==
    /\ timers' = {[t EXCEPT !.left = Less(@)] : t \in timers}
    /\ promised' = [c \in Contexts |-> [k \in Keys |-> Less(promised[c][k])]]
    /\ UNCHANGED <<contextMap, expiredTaskMap, scheduledTasks, taskCounter>>

Next ==
    \/ \E c \in Contexts, key \in Keys, delay \in Delays : Set(c, key, delay)
    \/ \E c \in Contexts, key \in Keys : SetThrows(c, key)
    \/ \E t \in timers : Expire(t)
    \/ \E c \in Contexts : Clear(c)
    \/ Tick

Spec == Init /\ [][Next]_vars

\* The event loop goes on: time passes and a due timer gets its turn.
Fairness ==
    /\ WF_vars(Tick)
    /\ \A task \in Tasks :
          WF_vars(\E t \in timers : t.task = task /\ Expire(t))

FairSpec == Spec /\ Fairness

-----------------------------------------------------------------------------
(* Properties. *)

TypeOK ==
    /\ contextMap \in [Contexts -> [Keys -> TaskOrNone \cup {Unscheduled}]]
    /\ expiredTaskMap \in [Contexts -> [Keys -> TaskOrNone]]
    /\ scheduledTasks \subseteq Tasks
    /\ taskCounter \in 0..MaxTasks
    /\ timers \subseteq Timer
    /\ promised \in [Contexts -> [Keys -> Nat]]

\* Every value whose set() returned has exactly one pending timer, that of this
\* set(), and no timer is left over from a value that was replaced or cleared:
\* lines 70-77 cancel, 128-131 cancel all.
OneTimerPerValue ==
    /\ \A c \in Contexts, k \in Keys : contextMap[c][k] # Unscheduled =>
          expiredTaskMap[c][k] = contextMap[c][k]
    /\ \A c \in Contexts, k \in Keys : contextMap[c][k] \in Tasks =>
          \E t \in timers : /\ t.task = contextMap[c][k]
                            /\ t.context = c /\ t.key = k
    /\ \A t \in timers : contextMap[t.context][t.key] = t.task

\* The static registry that getActiveTaskCount reports holds the tasks of all
\* contexts and nothing else, whichever context sets, expires or clears.
RegistryIsExact == scheduledTasks = {t.task : t \in timers}

\* "Schedules the clean-up after the given time" (the comment of set()): a
\* value that was not cleared or replaced goes only when its time is over,
\* however the timers of earlier values for the key were cancelled.  Only a
\* value whose own delay is longer than MaxDelay is promised nothing.
NoEarlyExpiry ==
    [][\A c \in Contexts, k \in Keys :
          \/ contextMap[c][k] = NoTask
          \/ contextMap'[c][k] # NoTask
          \/ promised[c][k] = 0
          \/ Clear(c)]_vars

\* Every value whose set() returned goes in the end, unless set() stores
\* another one for the key.
EveryValueExpires ==
    \A c \in Contexts, k \in Keys, task \in Tasks :
        contextMap[c][k] = task ~> contextMap[c][k] # task
=============================================================================
