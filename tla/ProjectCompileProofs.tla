------------------------ MODULE ProjectCompileProofs ------------------------
(***************************************************************************)
(* Theorems about ProjectCompile for any number of concurrent calls.       *)
(***************************************************************************)
EXTENDS ProjectCompile, TLAPS

\* A row that shows COMPILING names a call whose task has not reported: it is
\* still running, or the process ended under it.
MarkedCallRuns ==
    compileResult.status = "COMPILING" =>
        /\ compileResult.call \in Calls
        /\ pc[compileResult.call] \in InTask \cup {"killed"}

Inv == TypeOK /\ ExecutorHasRunningTask /\ MarkedCallRuns

LEMMA InvInit == Init => Inv
<1> SUFFICES ASSUME Init
             PROVE  Inv
  OBVIOUS
<1>1. TypeOK
  BY DEF Init, TypeOK, Statuses, Places, Failures
<1>2. ExecutorHasRunningTask /\ MarkedCallRuns
  BY DEF Init, ExecutorHasRunningTask, MarkedCallRuns
<1> QED
  BY <1>1, <1>2 DEF Inv

\* A call moves on within its task, and the row and the map stay as they are.
LEMMA StayingInTask ==
    ASSUME Inv, NEW c \in Calls, NEW place \in InTask, pc[c] \in InTask,
           pc' = [pc EXCEPT ![c] = place],
           UNCHANGED <<row, executor>>, lock' \in Calls \cup {None}, pending' \in Nat
    PROVE  Inv'
<1>1. \A d \in Calls : pc'[d] = IF d = c THEN place ELSE pc[d]
  BY DEF Inv, TypeOK
<1>2. TypeOK'
  BY DEF Inv, TypeOK, row, InTask, Places, Failures
<1>3. ExecutorHasRunningTask' /\ MarkedCallRuns'
  BY <1>1, CallAssumption DEF Inv, TypeOK, row, ExecutorHasRunningTask, MarkedCallRuns
<1> QED
  BY <1>2, <1>3 DEF Inv

\* A call that has no task moves to a place outside a task.
LEMMA StayingOutside ==
    ASSUME Inv, NEW c \in Calls, NEW place \in {"mark", "refused"},
           pc[c] \in {"idle", "mark"}, pc' = [pc EXCEPT ![c] = place],
           UNCHANGED <<row, transaction, executor>>
    PROVE  Inv'
<1>1. \A d \in Calls : pc'[d] = IF d = c THEN place ELSE pc[d]
  BY DEF Inv, TypeOK
<1>2. TypeOK'
  BY DEF Inv, TypeOK, row, transaction, Places
<1>3. pc[c] \notin InTask \cup {"killed"}
  BY DEF InTask, Failures
<1>4. ExecutorHasRunningTask' /\ MarkedCallRuns'
  BY <1>1, <1>3, CallAssumption
  DEF Inv, TypeOK, row, ExecutorHasRunningTask, MarkedCallRuns
<1> QED
  BY <1>2, <1>4 DEF Inv

\* The process ends; the call that ended it has either reported or not.
LEMMA CrashKeepsInv ==
    ASSUME Inv, NEW c \in Calls, NEW place \in {"ended", "killed"},
           pc[c] \in InTask, Crash, pc' = PcAfterCrash(c, place),
           UNCHANGED <<online, compileVersion>>,
           \/ UNCHANGED compileResult /\ place = "killed"
           \/ compileResult' = [status |-> "COMPILE_SUCCESS", call |-> c]
    PROVE  Inv'
<1>1. \A d \in Calls : pc'[d] = IF d = c THEN place
                                ELSE IF pc[d] \in Running THEN "killed" ELSE pc[d]
  BY DEF PcAfterCrash
<1>2. TypeOK'
  <2>1. pc' \in [Calls -> Places]
    BY DEF Inv, TypeOK, PcAfterCrash, Places
  <2>2. compileResult' \in [status : Statuses, call : Calls \cup {None}]
    BY DEF Inv, TypeOK, Statuses
  <2> QED
    BY <2>1, <2>2 DEF Inv, TypeOK, Crash
<1>3. ExecutorHasRunningTask'
  BY DEF Crash, ExecutorHasRunningTask
<1>4. MarkedCallRuns'
  BY <1>1 DEF Inv, MarkedCallRuns, Running
<1> QED
  BY <1>2, <1>3, <1>4 DEF Inv

LEMMA MarkKeepsInv ==
    ASSUME Inv, NEW c \in Calls, Mark(c)
    PROVE  Inv'
<1>1. /\ compileResult' = [status |-> "COMPILING", call |-> c]
      /\ executor' = c /\ pc' = [pc EXCEPT ![c] = "query"]
      /\ UNCHANGED <<online, compileVersion, lock, pending>>
  BY DEF Mark, UpdateCompileResult, transaction
<1>2. pc'[c] = "query" /\ "query" \in InTask
  BY <1>1 DEF Inv, TypeOK, InTask
<1>3. TypeOK'
  BY <1>1 DEF Inv, TypeOK, Statuses, Places
<1>4. ExecutorHasRunningTask' /\ MarkedCallRuns'
  BY <1>1, <1>2 DEF ExecutorHasRunningTask, MarkedCallRuns
<1> QED
  BY <1>3, <1>4 DEF Inv

LEMMA ReportKeepsInv ==
    ASSUME Inv, NEW c \in Calls, Report(c)
    PROVE  Inv'
<1>1. /\ compileResult' = [status |-> pc[c], call |-> c] /\ pc[c] \in Failures
      /\ executor' = None /\ pc' = [pc EXCEPT ![c] = "ended"]
      /\ UNCHANGED <<online, compileVersion, lock, pending>>
  BY DEF Report, UpdateCompileResult, Forget, transaction
<1>2. TypeOK'
  BY <1>1 DEF Inv, TypeOK, Statuses, Places
<1>3. ExecutorHasRunningTask' /\ MarkedCallRuns'
  BY <1>1 DEF ExecutorHasRunningTask, MarkedCallRuns, Failures
<1> QED
  BY <1>2, <1>3 DEF Inv

LEMMA CallKeepsInv ==
    ASSUME Inv, NEW c \in Calls, Call(c)
    PROVE  Inv'
<1>1. CASE Submit(c)
  BY <1>1, StayingOutside DEF Submit
<1>2. CASE Refuse(c)
  BY <1>2, StayingOutside DEF Refuse
<1>3. CASE MarkFails(c)
  BY <1>3, StayingOutside DEF MarkFails
<1>4. CASE Query(c) \/ QueryFails(c) \/ Generate(c) \/ GenerateFails(c) \/ Begin(c)
  <2> USE <1>4 DEF Query, QueryFails, Generate, GenerateFails, Begin
  <2>1. PICK place \in InTask : pc' = [pc EXCEPT ![c] = place]
    BY DEF InTask, Failures
  <2>2. /\ pc[c] \in InTask /\ UNCHANGED <<row, executor>>
        /\ UNCHANGED <<lock, pending>>
    BY DEF InTask, transaction
  <2>3. lock' \in Calls \cup {None} /\ pending' \in Nat
    BY <2>2 DEF Inv, TypeOK
  <2> QED
    BY <2>1, <2>2, <2>3, StayingInTask
<1>5. CASE Bump(c)
  <2>1. /\ pc[c] \in InTask /\ "succeed" \in InTask
        /\ pc' = [pc EXCEPT ![c] = "succeed"]
        /\ lock' \in Calls \cup {None} /\ pending' \in Nat
    BY <1>5 DEF Bump, InTask, Inv, TypeOK
  <2> QED
    BY <1>5, <2>1, StayingInTask DEF Bump
<1>6. CASE Succeed(c)
  <2>1. pc[c] \in InTask
    BY <1>6 DEF Succeed, InTask
  <2> QED
    BY <1>6, <2>1, CrashKeepsInv DEF Succeed
<1>7. CASE WaitExpires(c) \/ TaskFails(c)
  <2>1. pc[c] \in InTask
    BY <1>7 DEF WaitExpires, TaskFails, InTask
  <2>2. Crash /\ pc' = PcAfterCrash(c, "killed") /\ UNCHANGED row
    BY <1>7 DEF WaitExpires, TaskFails
  <2> QED
    BY <2>1, <2>2, CrashKeepsInv DEF row
<1> QED
  BY <1>1, <1>2, <1>3, <1>4, <1>5, <1>6, <1>7, MarkKeepsInv, ReportKeepsInv
  DEF Call, Progress, Trouble

LEMMA InvStep == Inv /\ [Next]_vars => Inv'
<1> SUFFICES ASSUME Inv, [Next]_vars
             PROVE  Inv'
  OBVIOUS
<1>1. CASE SwitchState
  BY <1>1 DEF SwitchState, transaction, Inv, TypeOK, ExecutorHasRunningTask, MarkedCallRuns
<1>2. ASSUME NEW c \in Calls, RollBack(c)
      PROVE  Inv'
  BY <1>2 DEF RollBack, row, Inv, TypeOK, ExecutorHasRunningTask, MarkedCallRuns
<1>3. CASE UNCHANGED vars
  BY <1>3 DEF vars, Inv, TypeOK, ExecutorHasRunningTask, MarkedCallRuns
<1> QED
  BY <1>1, <1>2, <1>3, CallKeepsInv DEF Next

LEMMA InvCorrect == Spec => []Inv
<1> QED
  BY InvInit, InvStep, PTL DEF Spec

\* Every variable keeps its type.
THEOREM TypeCorrect == Spec => []TypeOK
<1>1. Inv => TypeOK
  BY DEF Inv
<1> QED
  BY <1>1, InvCorrect, PTL

\* The map of running tasks never keeps one that is over.
THEOREM ExecutorAlwaysHasRunningTask == Spec => []ExecutorHasRunningTask
<1>1. Inv => ExecutorHasRunningTask
  BY DEF Inv
<1> QED
  BY <1>1, InvCorrect, PTL

\* When all calls are over and the process did not end under one, the row
\* shows a result.
THEOREM AlwaysResultAtTheEnd == Spec => []ResultAtTheEnd
<1>1. ASSUME Inv
      PROVE  ResultAtTheEnd
  BY <1>1 DEF Inv, MarkedCallRuns, ResultAtTheEnd, InTask, Failures
<1> QED
  BY <1>1, InvCorrect, PTL
-----------------------------------------------------------------------------
(* Calls come to an end. *)

\* How many steps a call has before it at most.
StepsLeft(place) ==
    CASE place = "idle" -> 7
      [] place = "mark" -> 6
      [] place = "query" -> 5
      [] place = "generate" -> 4
      [] place = "begin" -> 3
      [] place = "bump" -> 2
      [] place \in {"succeed"} \cup Failures -> 1
      [] OTHER -> 0

\* A transaction that holds the lock is one more thing to be over.
Rank(c) == 2 * StepsLeft(pc[c]) + IF lock = c THEN 1 ELSE 0

\* Whatever happens to a call or its transaction, it or another call comes nearer
\* to its end, and none goes back: no lock is taken twice, nothing is tried again.
CallsAdvance ==
    [][UNCHANGED online =>
        /\ \A c \in Calls : Rank(c)' <= Rank(c)
        /\ \E c \in Calls : Rank(c)' < Rank(c)]_vars

LEMMA StepsLeftValues ==
    /\ StepsLeft("idle") = 7 /\ StepsLeft("mark") = 6 /\ StepsLeft("query") = 5
    /\ StepsLeft("generate") = 4 /\ StepsLeft("begin") = 3 /\ StepsLeft("bump") = 2
    /\ StepsLeft("succeed") = 1
    /\ StepsLeft("QUERY_FAILED") = 1 /\ StepsLeft("COMPILE_FAILED") = 1
    /\ StepsLeft("ended") = 0 /\ StepsLeft("refused") = 0 /\ StepsLeft("killed") = 0
BY DEF StepsLeft, Failures

LEMMA StepsLeftType ==
    ASSUME NEW place \in Places
    PROVE  StepsLeft(place) \in 0 .. 7
BY StepsLeftValues DEF Places, Failures

\* One call moves on and the lock stays, is taken by it or is let go.
LEMMA MovingOn ==
    ASSUME TypeOK, NEW c \in Calls, NEW place \in Places,
           pc' = [pc EXCEPT ![c] = place], StepsLeft(place) < StepsLeft(pc[c]),
           lock' \in {lock, None, c}
    PROVE  /\ \A d \in Calls : Rank(d)' <= Rank(d)
           /\ \E d \in Calls : Rank(d)' < Rank(d)
<1>1. pc' \in [Calls -> Places] /\ pc'[c] = place /\ \A d \in Calls \ {c} : pc'[d] = pc[d]
  BY DEF TypeOK
<1>2. \A d \in Calls : /\ StepsLeft(pc[d]) \in 0 .. 7
                       /\ Rank(d) = 2 * StepsLeft(pc[d]) + IF lock = d THEN 1 ELSE 0
                       /\ StepsLeft(pc'[d]) \in 0 .. 7
                       /\ Rank(d)' = 2 * StepsLeft(pc'[d]) + IF lock' = d THEN 1 ELSE 0
  BY <1>1, StepsLeftType DEF TypeOK, Rank
<1>3. Rank(c)' < Rank(c)
  BY <1>1, <1>2
<1>4. ASSUME NEW d \in Calls \ {c}
      PROVE  Rank(d)' <= Rank(d)
  <2>1. lock' = d => lock = d
    BY CallAssumption
  <2> QED
    BY <1>1, <1>2, <2>1
<1>5. Rank(c) \in Int /\ Rank(c)' \in Int
  BY <1>2
<1> QED
  BY <1>3, <1>4, <1>5

\* The process ends and kills whatever runs.
LEMMA Dying ==
    ASSUME TypeOK, NEW c \in Calls, NEW place \in {"ended", "killed"},
           pc[c] \in Running, Crash, pc' = PcAfterCrash(c, place)
    PROVE  /\ \A d \in Calls : Rank(d)' <= Rank(d)
           /\ \E d \in Calls : Rank(d)' < Rank(d)
<1>1. \A d \in Calls : pc'[d] = IF d = c THEN place
                                ELSE IF pc[d] \in Running THEN "killed" ELSE pc[d]
  BY DEF PcAfterCrash
<1>2. \A d \in Calls : /\ StepsLeft(pc[d]) \in 0 .. 7
                       /\ Rank(d) = 2 * StepsLeft(pc[d]) + IF lock = d THEN 1 ELSE 0
                       /\ Rank(d)' = 2 * StepsLeft(pc'[d])
  <2>1. lock' = None
    BY DEF Crash
  <2>2. \A d \in Calls : pc'[d] \in Places
    BY <1>1 DEF TypeOK, Places
  <2>3. \A d \in Calls : StepsLeft(pc[d]) \in 0 .. 7 /\ StepsLeft(pc'[d]) \in 0 .. 7
    BY <2>2, StepsLeftType DEF TypeOK
  <2> QED
    BY <2>1, <2>3, CallAssumption DEF Rank
<1>3. \A d \in Calls : StepsLeft(pc'[d]) \in {0, StepsLeft(pc[d])}
  BY <1>1, StepsLeftValues
<1>4. StepsLeft(pc'[c]) = 0 /\ StepsLeft(pc[c]) >= 1
  BY <1>1, StepsLeftValues DEF Running, InTask, Failures
<1>5. \A d \in Calls : Rank(d)' <= Rank(d)
  BY <1>2, <1>3
<1>6. Rank(c)' < Rank(c)
  BY <1>2, <1>4
<1> QED
  BY <1>5, <1>6

LEMMA AdvanceStep ==
    ASSUME TypeOK, Next, UNCHANGED online
    PROVE  /\ \A d \in Calls : Rank(d)' <= Rank(d)
           /\ \E d \in Calls : Rank(d)' < Rank(d)
<1>1. ~SwitchState
  BY DEF SwitchState, TypeOK
<1>2. PICK c \in Calls : Call(c) \/ RollBack(c)
  BY <1>1 DEF Next
<1> USE StepsLeftValues
<1>3. CASE Submit(c) \/ Refuse(c)
  BY <1>3, MovingOn DEF Submit, Refuse, transaction, Places
<1>4. CASE Mark(c) \/ MarkFails(c)
  BY <1>4, MovingOn DEF Mark, MarkFails, UpdateCompileResult, transaction, Places
<1>5. CASE Query(c) \/ QueryFails(c)
  BY <1>5, MovingOn DEF Query, QueryFails, transaction, Places, Failures
<1>6. CASE Generate(c) \/ GenerateFails(c)
  BY <1>6, MovingOn DEF Generate, GenerateFails, transaction, Places, Failures
<1>7. CASE Report(c)
  <2>1. /\ pc' = [pc EXCEPT ![c] = "ended"] /\ "ended" \in Places
        /\ lock' = lock
    BY <1>7 DEF Report, UpdateCompileResult, transaction, Places
  <2>2. StepsLeft("ended") < StepsLeft(pc[c])
    BY <1>7 DEF Report, Failures
  <2> QED
    BY <2>1, <2>2, MovingOn
<1>8. CASE Begin(c)
  <2>1. /\ pc' = [pc EXCEPT ![c] = "bump"] /\ "bump" \in Places
        /\ lock' = lock
    BY <1>8 DEF Begin, transaction, Places
  <2>2. StepsLeft("bump") < StepsLeft(pc[c])
    BY <1>8 DEF Begin
  <2> QED
    BY <2>1, <2>2, MovingOn
<1>9. CASE Bump(c)
  <2>1. /\ pc' = [pc EXCEPT ![c] = "succeed"] /\ "succeed" \in Places
        /\ lock' = c
    BY <1>9 DEF Bump, Places
  <2>2. StepsLeft("succeed") < StepsLeft(pc[c])
    BY <1>9 DEF Bump
  <2> QED
    BY <2>1, <2>2, MovingOn
<1>10. CASE Succeed(c)
  BY <1>10, Dying DEF Succeed, Running, InTask
<1>11. CASE WaitExpires(c)
  BY <1>11, Dying DEF WaitExpires, Running, InTask
<1>12. CASE TaskFails(c)
  BY <1>12, Dying DEF TaskFails, Running, InTask
<1>13. CASE RollBack(c)
  <2>1. \A d \in Calls : /\ StepsLeft(pc[d]) \in 0 .. 7
                         /\ Rank(d) = 2 * StepsLeft(pc[d]) + IF d = c THEN 1 ELSE 0
                         /\ Rank(d)' = 2 * StepsLeft(pc[d])
    BY <1>13, StepsLeftType, CallAssumption DEF RollBack, TypeOK, Rank
  <2> QED
    BY <2>1
<1> QED
  BY <1>2, <1>3, <1>4, <1>5, <1>6, <1>7, <1>8, <1>9, <1>10, <1>11, <1>12, <1>13
  DEF Call, Progress, Trouble

\* As long as the project stays as online or offline as it is, any number of
\* concurrent calls has finitely many steps before it, waiting for locks and
\* dying included: what EveryCallEnds rests on, besides that what can go on does.
THEOREM CallsAlwaysAdvance == Spec => CallsAdvance
<1>1. TypeOK /\ [Next]_vars =>
        [UNCHANGED online =>
            /\ \A c \in Calls : Rank(c)' <= Rank(c)
            /\ \E c \in Calls : Rank(c)' < Rank(c)]_vars
  BY AdvanceStep
<1> QED
  BY <1>1, TypeCorrect, PTL DEF Spec, CallsAdvance

=============================================================================
