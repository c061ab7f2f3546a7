---------------------------- MODULE UserLogQueue ----------------------------
(***************************************************************************)
(* VsNodeUserLogService of                                                 *)
(* apps/vs-run/src/vs-node-user-log/vs-node-user-log.service.ts: the queue *)
(* of log records that nodes write, and saveLog, which takes batches from  *)
(* it and awaits their storage.                                            *)
(*                                                                         *)
(* saveLog is decorated as a job of every three seconds, which would start *)
(* whether or not an earlier run still awaits LogServiceFacade: any number *)
(* of batches can be under way, answered in any order or never.  Nothing   *)
(* in the present build schedules the job, so no fairness of it is assumed *)
(* and no property says that a record is ever taken.                       *)
(***************************************************************************)
EXTENDS Integers, Sequences, FiniteSets

CONSTANTS
    MaxQueueSize,   \* maxQueueSize
    BatchSize,      \* MAX_SAVE_LOG_BATCH_SIZE
    MaxLogs         \* bound: records ever logged

ASSUME SizeAssumption ==
    /\ MaxQueueSize \in Nat \ {0}
    /\ BatchSize \in Nat \ {0}
    /\ MaxLogs \in Nat

VARIABLES
    blockingQueue,  \* the queue
    saving,         \* the curData of every run of saveLog that awaits
    stored,         \* history: records the facade has stored
    failed,         \* history: records of batches that were not stored
    dropped,        \* history: records refused because the queue was full
    unqueued,       \* history: records of LOG whose insertion threw
    logged          \* the number of records made so far

vars == <<blockingQueue, saving, stored, failed, dropped, unqueued, logged>>

\* A record is named by its number.
Logs == 1..MaxLogs

Elements(s) == {s[i] : i \in 1..Len(s)}

Init ==
    /\ blockingQueue = <<>>
    /\ saving = {}
    /\ stored = {}
    /\ failed = {}
    /\ dropped = {}
    /\ unqueued = {}
    /\ logged = 0

\* Variant: a full queue makes room by dropping its oldest record unseen.
AddLogShifting(log) ==
    /\ blockingQueue' = IF Len(blockingQueue) < MaxQueueSize
                        THEN Append(blockingQueue, log)
                        ELSE Append(Tail(blockingQueue), log)
    /\ UNCHANGED dropped

AddLog(log) ==
    IF Len(blockingQueue) < MaxQueueSize
    THEN /\ blockingQueue' = Append(blockingQueue, log)
         /\ UNCHANGED dropped
    ELSE /\ dropped' = dropped \cup {log}
         /\ UNCHANGED blockingQueue

\* persistVsNodeUserLog: the record goes to the queue even if filling it threw.
Persist ==
    /\ logged < MaxLogs
    /\ logged' = logged + 1
    /\ AddLog(logged + 1)
    /\ UNCHANGED <<saving, stored, failed, unqueued>>

\* FlowNodeTask.LOG: the queue a node was given is the array itself, which has
\* no add(); the TypeError is caught and the record is gone.
LOG ==
    /\ logged < MaxLogs
    /\ logged' = logged + 1
    /\ unqueued' = unqueued \cup {logged + 1}
    /\ UNCHANGED <<blockingQueue, saving, stored, failed, dropped>>

Smaller(m, n) == IF m < n THEN m ELSE n

\* Variant: the loop runs to the batch size on a shorter queue, too.
BatchPadded ==
    [i \in 1..BatchSize |->
        IF i <= Len(blockingQueue) THEN blockingQueue[i] ELSE 0]

\* What the loop of saveLog shifts from the queue, and what it leaves.
Batch == SubSeq(blockingQueue, 1, Smaller(BatchSize, Len(blockingQueue)))

\* Variant: the loop looks at one record more than it keeps.
RestSkipping == SubSeq(blockingQueue, BatchSize + 2, Len(blockingQueue))

\* Variant: the loop copies the batch and removes one record less.
RestOverlapping == SubSeq(blockingQueue, BatchSize, Len(blockingQueue))

Rest == SubSeq(blockingQueue, BatchSize + 1, Len(blockingQueue))

\* saveLog, up to its await.  On an empty queue it returns at once.
SaveLog ==
    /\ blockingQueue # <<>>
    /\ saving' = saving \cup {Batch}
    /\ blockingQueue' = Rest
    /\ UNCHANGED <<stored, failed, dropped, unqueued, logged>>

\* saveVsNodeUserLog resolves to true.
Saved(batch) ==
    /\ saving' = saving \ {batch}
    /\ stored' = stored \cup Elements(batch)
    /\ UNCHANGED <<blockingQueue, failed, dropped, unqueued, logged>>

\* Variant: the records of a failed batch are queued again at the end.
SaveFailsRequeue(batch) ==
    /\ saving' = saving \ {batch}
    /\ blockingQueue' = blockingQueue \o batch
    /\ UNCHANGED <<stored, failed, dropped, unqueued, logged>>

\* It resolves to false or throws; the error is logged and the batch is gone.
SaveFails(batch) ==
    /\ saving' = saving \ {batch}
    /\ failed' = failed \cup Elements(batch)
    /\ UNCHANGED <<blockingQueue, stored, dropped, unqueued, logged>>

Next ==
    \/ Persist
    \/ LOG
    \/ SaveLog
    \/ \E batch \in saving : Saved(batch) \/ SaveFails(batch)

Spec == Init /\ [][Next]_vars

-----------------------------------------------------------------------------
(* Properties. *)

TypeOK ==
    /\ blockingQueue \in Seq(Logs)
    /\ saving \subseteq Seq(Logs)
    /\ stored \subseteq Logs
    /\ failed \subseteq Logs
    /\ dropped \subseteq Logs
    /\ unqueued \subseteq Logs
    /\ logged \in 0..MaxLogs

\* The records of the batches that are being saved.
InFlight == UNION {Elements(batch) : batch \in saving}

\* No record vanishes between push, shift and the answer of the facade: each
\* one that was made is queued, being saved or accounted for (lines 105-154).
NoLogVanishes ==
    1..logged = Elements(blockingQueue) \cup InFlight \cup stored
                  \cup failed \cup dropped \cup unqueued

\* A record waits at most once in the queue and is part of at most one save:
\* overlapping runs of saveLog never take the same record (lines 131-138).
\* Nor is one queued or saved that is settled already.
NoLogTwice ==
    /\ \A i, j \in 1..Len(blockingQueue) :
          blockingQueue[i] = blockingQueue[j] => i = j
    /\ \A batch, other \in saving :
          Elements(batch) \cap Elements(other) # {} => batch = other
    /\ Elements(blockingQueue) \cap InFlight = {}
    /\ (Elements(blockingQueue) \cup InFlight)
          \cap (stored \cup failed \cup dropped \cup unqueued) = {}

Ascending(s) == \A i, j \in 1..Len(s) : i < j => s[i] < s[j]

\* Records are taken in the order they were queued: a batch is in order, and
\* whatever is still queued is younger than all that has been taken.
FirstInFirstOut ==
    /\ Ascending(blockingQueue)
    /\ \A batch \in saving : Ascending(batch)
    /\ \A i \in 1..Len(blockingQueue) :
          \A log \in InFlight \cup stored \cup failed : log < blockingQueue[i]

\* Neither the queue nor a batch outgrows its limit, and no save is started
\* for nothing (lines 107, 124 and 131).
SizesBounded ==
    /\ Len(blockingQueue) <= MaxQueueSize
    /\ \A batch \in saving : Len(batch) <= BatchSize /\ batch # <<>>

Stays(i) == i \in 1..Len(blockingQueue') /\ blockingQueue'[i] = blockingQueue[i]

\* The record is part of a save, or a whole batch nearer to one.
Advances(i) ==
    IF i <= BatchSize
    THEN blockingQueue[i] \in InFlight'
    ELSE /\ i - BatchSize \in 1..Len(blockingQueue')
         /\ blockingQueue'[i - BatchSize] = blockingQueue[i]

\* No record is overtaken or left behind in the queue: whatever is logged,
\* answered or refused, a record keeps its place until a run of saveLog takes it
\* or brings it a whole batch nearer to the head, so that the n-th record is
\* part of a save after at most n / BatchSize runs, even if the facade never
\* answers the earlier ones (lines 105-112 and 124-138).
RecordsAdvance ==
    [][\A i \in 1..Len(blockingQueue) :
          IF saving' \subseteq saving THEN Stays(i) ELSE Advances(i)]_vars
=============================================================================
