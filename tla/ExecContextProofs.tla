------------------------- MODULE ExecContextProofs --------------------------
(***************************************************************************)
(* Theorems about ExecContext for any contexts, keys, delays and number of *)
(* set() calls, with their proofs.                                         *)
(***************************************************************************)
EXTENDS ExecContext, TLAPS

\* No two pending timers belong to one task, task numbers were given out, and
\* the entry that a set() left in expiredTaskMap when it threw has no timer.
TasksAreUnique ==
    /\ \A t, u \in timers : t.task = u.task => t = u
    /\ \A c \in Contexts, k \in Keys : expiredTaskMap[c][k] <= taskCounter
    /\ \A c \in Contexts, k \in Keys : contextMap[c][k] = Unscheduled =>
          \A t \in timers : t.task # expiredTaskMap[c][k]

Inv == TypeOK /\ OneTimerPerValue /\ RegistryIsExact /\ TasksAreUnique

LEMMA InvInit == Init => Inv
<1> SUFFICES ASSUME Init
             PROVE  Inv
  OBVIOUS
<1>1. TypeOK
  BY DelayAssumption DEF Init, TypeOK, TaskOrNone, NoTask, Tasks
<1>2. OneTimerPerValue /\ RegistryIsExact /\ TasksAreUnique
  BY DelayAssumption DEF Init, OneTimerPerValue, RegistryIsExact, TasksAreUnique,
                         NoTask, Tasks, Unscheduled
<1> QED
  BY <1>1, <1>2 DEF Inv

\* A timer is that of a key exactly if its task is the key's task.
LEMMA TimerOfKey ==
    ASSUME Inv, NEW t \in timers, NEW c \in Contexts, NEW k \in Keys
    PROVE  t.task = expiredTaskMap[c][k] <=> t.context = c /\ t.key = k
<1>1. t \in Timer /\ t.task \in Tasks /\ t.task # NoTask /\ t.task # Unscheduled
  BY DelayAssumption DEF Inv, TypeOK, Timer, Tasks, NoTask, Unscheduled
<1>2. ASSUME t.task = expiredTaskMap[c][k]
      PROVE  t.context = c /\ t.key = k
  <2> USE <1>1, <1>2 DEF Inv, OneTimerPerValue, TasksAreUnique
  <2>0. expiredTaskMap[c][k] = contextMap[c][k]
    OBVIOUS
  <2>1. PICK u \in timers : u.task = contextMap[c][k] /\ u.context = c /\ u.key = k
    BY <2>0
  <2>2. t = u
    BY <2>0, <2>1
  <2> QED
    BY <2>1, <2>2
<1>3. expiredTaskMap[t.context][t.key] = t.task
  BY <1>1 DEF Inv, OneTimerPerValue, Timer
<1> QED
  BY <1>2, <1>3

\* After set() the key has the new task's timer, the others keep theirs.
LEMMA SetKeepsInv ==
    ASSUME Inv, NEW c \in Contexts, NEW key \in Keys, NEW delay \in Delays,
           Set(c, key, delay)
    PROVE  Inv'
<1> DEFINE task == taskCounter + 1
           timer == [task |-> task, context |-> c, key |-> key,
                     left |-> EffectiveDelay(delay)]
           kept == {t \in timers : ~(t.context = c /\ t.key = key)}
<1> USE DelayAssumption
<1>1. /\ task \in Tasks /\ taskCounter \in Nat /\ taskCounter' = task
      /\ task # Unscheduled /\ task # NoTask
      /\ EffectiveDelay(delay) \in Nat /\ Promise(delay) \in Nat
  BY DEF Set, NextTask, Inv, TypeOK, Tasks, EffectiveDelay, Promise, Unscheduled, NoTask
<1>2. timer \in Timer
  BY <1>1 DEF Timer
<1>3. /\ timer.task = task /\ timer.context = c /\ timer.key = key
  OBVIOUS
<1>4. timers' = kept \cup {timer}
  <2>1. timers' = {t \in timers : t.task # expiredTaskMap[c][key]} \cup {timer}
    BY DEF Set, NextTask, CancelTimer
  <2> QED
    BY <2>1, TimerOfKey
<1>5. \A d \in Contexts, k \in Keys :
         contextMap'[d][k] = IF d = c /\ k = key THEN task ELSE contextMap[d][k]
  BY DEF Set, NextTask, Inv, TypeOK
<1>6. \A d \in Contexts, k \in Keys :
         expiredTaskMap'[d][k] =
            IF d = c /\ k = key THEN task ELSE expiredTaskMap[d][k]
  BY DEF Set, NextTask, Inv, TypeOK
<1> HIDE DEF timer
<1>7. TypeOK'
  <2>1. scheduledTasks' \subseteq Tasks
    BY <1>1 DEF Set, NextTask, Inv, TypeOK, Unregister
  <2>2. timers' \subseteq Timer
    BY <1>2, <1>4 DEF Inv, TypeOK
  <2>3. promised' \in [Contexts -> [Keys -> Nat]]
    BY <1>1 DEF Set, Inv, TypeOK
  <2>4. taskCounter' \in 0..MaxTasks
    BY <1>1 DEF Set, NextTask, Tasks
  <2>5. contextMap' \in [Contexts -> [Keys -> TaskOrNone \cup {Unscheduled}]]
    BY <1>1 DEF Set, NextTask, Inv, TypeOK, TaskOrNone
  <2>6. expiredTaskMap' \in [Contexts -> [Keys -> TaskOrNone]]
    BY <1>1 DEF Set, NextTask, Inv, TypeOK, TaskOrNone
  <2> QED
    BY <2>1, <2>2, <2>3, <2>4, <2>5, <2>6 DEF TypeOK
<1>8. \A t \in timers : t.task \in Nat /\ t.task <= taskCounter
  <2> TAKE t \in timers
  <2>1. t.context \in Contexts /\ t.key \in Keys /\ t.task \in Nat
    BY DEF Inv, TypeOK, Timer, Tasks
  <2>2. expiredTaskMap[t.context][t.key] = t.task
    BY <2>1, TimerOfKey
  <2> QED
    BY <2>1, <2>2 DEF Inv, TasksAreUnique
<1>9. TasksAreUnique'
  <2>1. \A t, u \in timers' : t.task = u.task => t = u
    BY <1>1, <1>3, <1>4, <1>8 DEF Inv, TasksAreUnique
  <2>2. \A d \in Contexts, k \in Keys : expiredTaskMap'[d][k] <= taskCounter'
    <3>1. \A d \in Contexts, k \in Keys : expiredTaskMap[d][k] \in Int
      BY DEF Inv, TypeOK, TaskOrNone, Tasks, NoTask
    <3> QED
      BY <1>1, <1>6, <3>1 DEF Inv, TasksAreUnique
  <2>3. ASSUME NEW d \in Contexts, NEW k \in Keys, NEW t \in timers',
               contextMap'[d][k] = Unscheduled
        PROVE  t.task # expiredTaskMap'[d][k]
    <3>1. /\ contextMap[d][k] = Unscheduled
          /\ expiredTaskMap'[d][k] = expiredTaskMap[d][k]
      BY <1>1, <1>5, <1>6, <2>3
    <3>2. CASE t = timer
      <4>1. expiredTaskMap[d][k] \in Int /\ expiredTaskMap[d][k] <= taskCounter
        BY DEF Inv, TypeOK, TasksAreUnique, TaskOrNone, Tasks, NoTask
      <4> QED
        BY <1>1, <1>3, <3>1, <3>2, <4>1
    <3>3. CASE t \in kept
      BY <3>1, <3>3 DEF Inv, TasksAreUnique
    <3> QED
      BY <1>4, <3>2, <3>3
  <2> QED
    BY <2>1, <2>2, <2>3 DEF TasksAreUnique
<1>10. OneTimerPerValue'
  <2>1. ASSUME NEW d \in Contexts, NEW k \in Keys, contextMap'[d][k] \in Tasks
        PROVE  \E t \in timers' : /\ t.task = contextMap'[d][k]
                                  /\ t.context = d /\ t.key = k
    <3>1. CASE d = c /\ k = key
      BY <1>3, <1>4, <1>5, <3>1
    <3>2. CASE ~(d = c /\ k = key)
      <4>1. contextMap'[d][k] = contextMap[d][k]
        BY <1>5, <3>2
      <4>2. PICK t \in timers : t.task = contextMap[d][k] /\ t.context = d /\ t.key = k
        BY <2>1, <4>1 DEF Inv, OneTimerPerValue
      <4> QED
        BY <1>4, <3>2, <4>1, <4>2
    <3> QED
      BY <3>1, <3>2
  <2>2. ASSUME NEW t \in timers'
        PROVE  contextMap'[t.context][t.key] = t.task
    <3>1. CASE t = timer
      BY <1>3, <1>5, <3>1
    <3>2. CASE t \in kept
      <4>1. t \in timers /\ t.context \in Contexts /\ t.key \in Keys
        BY <3>2 DEF Inv, TypeOK, Timer
      <4> QED
        BY <1>5, <3>2, <4>1 DEF Inv, OneTimerPerValue
    <3> QED
      BY <1>4, <3>1, <3>2
  <2>3. \A d \in Contexts, k \in Keys : contextMap'[d][k] # Unscheduled =>
           expiredTaskMap'[d][k] = contextMap'[d][k]
    BY <1>5, <1>6 DEF Inv, OneTimerPerValue
  <2> QED
    BY <2>1, <2>2, <2>3 DEF OneTimerPerValue
<1>11. RegistryIsExact'
  <2>1. scheduledTasks' = (scheduledTasks \ {expiredTaskMap[c][key]}) \cup {task}
    BY DEF Set, NextTask, Unregister
  <2>2. scheduledTasks = {t.task : t \in timers}
    BY DEF Inv, RegistryIsExact
  <2>3. {t.task : t \in timers} \ {expiredTaskMap[c][key]} = {t.task : t \in kept}
    BY TimerOfKey
  <2> QED
    BY <1>3, <1>4, <2>1, <2>2, <2>3 DEF RegistryIsExact
<1> QED
  BY <1>7, <1>9, <1>10, <1>11 DEF Inv

\* A set() that throws leaves the key without a timer, the others keep theirs.
LEMMA SetThrowsKeepsInv ==
    ASSUME Inv, NEW c \in Contexts, NEW key \in Keys, SetThrows(c, key)
    PROVE  Inv'
<1> DEFINE kept == {t \in timers : ~(t.context = c /\ t.key = key)}
<1>1. Unscheduled \notin Tasks /\ Unscheduled # NoTask
  BY DelayAssumption DEF Unscheduled, Tasks, NoTask
<1>2. timers' = kept
  BY TimerOfKey DEF SetThrows, CancelTimer
<1>3. /\ \A d \in Contexts, k \in Keys :
            contextMap'[d][k] =
               IF d = c /\ k = key THEN Unscheduled ELSE contextMap[d][k]
      /\ contextMap' \in [Contexts -> [Keys -> TaskOrNone \cup {Unscheduled}]]
      /\ UNCHANGED <<expiredTaskMap, taskCounter, promised>>
  BY DEF SetThrows, Inv, TypeOK
<1>4. TypeOK'
  BY <1>2, <1>3 DEF SetThrows, Unregister, Inv, TypeOK
<1>5. TasksAreUnique'
  <2>1. ASSUME NEW t \in timers' PROVE t.task # expiredTaskMap[c][key]
    BY <1>2, <2>1, TimerOfKey
  <2>2. \A d \in Contexts, k \in Keys : contextMap'[d][k] = Unscheduled =>
           \A t \in timers' : t.task # expiredTaskMap[d][k]
    BY <1>2, <1>3, <2>1 DEF Inv, TasksAreUnique
  <2> QED
    BY <1>2, <1>3, <2>2 DEF Inv, TasksAreUnique
<1>6. OneTimerPerValue'
  <2>1. ASSUME NEW d \in Contexts, NEW k \in Keys, contextMap'[d][k] \in Tasks
        PROVE  \E t \in timers' : /\ t.task = contextMap'[d][k]
                                  /\ t.context = d /\ t.key = k
    <3>1. ~(d = c /\ k = key) /\ contextMap'[d][k] = contextMap[d][k]
      BY <1>1, <1>3, <2>1
    <3> QED
      BY <1>2, <2>1, <3>1 DEF Inv, OneTimerPerValue
  <2>2. \A t \in timers' : contextMap'[t.context][t.key] = t.task
    BY <1>2, <1>3 DEF Inv, OneTimerPerValue, TypeOK, Timer
  <2>3. \A d \in Contexts, k \in Keys : contextMap'[d][k] # Unscheduled =>
           expiredTaskMap'[d][k] = contextMap'[d][k]
    BY <1>3 DEF Inv, OneTimerPerValue
  <2> QED
    BY <2>1, <2>2, <2>3 DEF OneTimerPerValue
<1>7. RegistryIsExact'
  <2>1. {t.task : t \in timers} \ {expiredTaskMap[c][key]} = {t.task : t \in kept}
    BY TimerOfKey
  <2> QED
    BY <1>2, <2>1 DEF SetThrows, Unregister, Inv, RegistryIsExact
<1> QED
  BY <1>4, <1>5, <1>6, <1>7 DEF Inv

\* Deleting a set of (context, key) pairs together with their timers and
\* registrations, as a callback and clear() do, keeps the invariant.
LEMMA RemovalKeepsInv ==
    ASSUME Inv, NEW gone \in SUBSET (Contexts \X Keys),
           timers' = {t \in timers : <<t.context, t.key>> \notin gone},
           scheduledTasks' = {t.task : t \in timers'},
           contextMap' = [c \in Contexts |-> [k \in Keys |->
                             IF <<c, k>> \in gone THEN NoTask ELSE contextMap[c][k]]],
           expiredTaskMap' = [c \in Contexts |-> [k \in Keys |->
                       IF <<c, k>> \in gone THEN NoTask ELSE expiredTaskMap[c][k]]],
           UNCHANGED <<taskCounter, promised>>
    PROVE  Inv'
<1>1. \A c \in Contexts, k \in Keys :
         /\ contextMap'[c][k] = IF <<c, k>> \in gone THEN NoTask ELSE contextMap[c][k]
         /\ expiredTaskMap'[c][k] =
               IF <<c, k>> \in gone THEN NoTask ELSE expiredTaskMap[c][k]
  OBVIOUS
<1>2. NoTask \notin Tasks /\ NoTask # Unscheduled
  BY DelayAssumption DEF NoTask, Unscheduled, Tasks
<1>3. TypeOK'
  <2>1. contextMap' \in [Contexts -> [Keys -> TaskOrNone \cup {Unscheduled}]]
    BY DEF Inv, TypeOK, TaskOrNone
  <2>2. expiredTaskMap' \in [Contexts -> [Keys -> TaskOrNone]]
    BY DEF Inv, TypeOK, TaskOrNone
  <2>3. scheduledTasks' \subseteq Tasks /\ timers' \subseteq Timer
    BY DEF Inv, TypeOK, Timer
  <2> QED
    BY <2>1, <2>2, <2>3 DEF Inv, TypeOK
<1>4. OneTimerPerValue'
  <2>1. ASSUME NEW c \in Contexts, NEW k \in Keys, contextMap'[c][k] \in Tasks
        PROVE  \E t \in timers' : /\ t.task = contextMap'[c][k]
                                  /\ t.context = c /\ t.key = k
    <3>1. <<c, k>> \notin gone /\ contextMap'[c][k] = contextMap[c][k]
      BY <1>1, <1>2, <2>1
    <3>2. PICK t \in timers : /\ t.task = contextMap[c][k]
                              /\ t.context = c /\ t.key = k
      BY <2>1, <3>1 DEF Inv, OneTimerPerValue
    <3>3. t \in timers'
      BY <3>1, <3>2
    <3> QED
      BY <3>1, <3>2, <3>3
  <2>2. ASSUME NEW t \in timers'
        PROVE  contextMap'[t.context][t.key] = t.task
    BY <1>1 DEF Inv, OneTimerPerValue, TypeOK, Timer
  <2>3. \A c \in Contexts, k \in Keys : contextMap'[c][k] # Unscheduled =>
           expiredTaskMap'[c][k] = contextMap'[c][k]
    BY <1>1 DEF Inv, OneTimerPerValue
  <2> QED
    BY <2>1, <2>2, <2>3 DEF OneTimerPerValue
<1>5. TasksAreUnique'
  <2>1. NoTask <= taskCounter
    BY DEF Inv, TypeOK, NoTask
  <2>2. \A c \in Contexts, k \in Keys : expiredTaskMap'[c][k] <= taskCounter'
    BY <1>1, <2>1 DEF Inv, TasksAreUnique
  <2>3. \A c \in Contexts, k \in Keys : contextMap'[c][k] = Unscheduled =>
           \A t \in timers' : t.task # expiredTaskMap'[c][k]
    BY <1>1, <1>2 DEF Inv, TasksAreUnique
  <2> QED
    BY <2>2, <2>3 DEF Inv, TasksAreUnique
<1> QED
  BY <1>3, <1>4, <1>5 DEF Inv, RegistryIsExact

LEMMA ExpireKeepsInv ==
    ASSUME Inv, NEW t \in timers, Expire(t)
    PROVE  Inv'
<1> DEFINE gone == {<<t.context, t.key>>}
<1>1. t.context \in Contexts /\ t.key \in Keys /\ t.task \in Tasks
  BY DEF Inv, TypeOK, Timer
<1>2. \A u \in timers : u = t <=> <<u.context, u.key>> \in gone
  BY DEF Inv, OneTimerPerValue, TasksAreUnique
<1>3. timers' = {u \in timers : <<u.context, u.key>> \notin gone}
  BY <1>2 DEF Expire
<1>4. scheduledTasks' = {u.task : u \in timers'}
  <2>1. \A u \in timers : u.task = t.task <=> u = t
    BY DEF Inv, TasksAreUnique
  <2> QED
    BY <2>1 DEF Expire, Inv, RegistryIsExact
<1>5. contextMap' = [c \in Contexts |-> [k \in Keys |->
                        IF <<c, k>> \in gone THEN NoTask ELSE contextMap[c][k]]]
  BY <1>1 DEF Expire, Inv, TypeOK
<1>6. /\ expiredTaskMap' = [c \in Contexts |-> [k \in Keys |->
                        IF <<c, k>> \in gone THEN NoTask ELSE expiredTaskMap[c][k]]]
      /\ UNCHANGED <<taskCounter, promised>>
  BY <1>1 DEF Expire, Inv, TypeOK
<1>7. gone \in SUBSET (Contexts \X Keys)
  BY <1>1
<1> HIDE DEF gone
<1> QED
  BY <1>3, <1>4, <1>5, <1>6, <1>7, RemovalKeepsInv

LEMMA ClearKeepsInv ==
    ASSUME Inv, NEW c \in Contexts, Clear(c)
    PROVE  Inv'
<1> DEFINE gone == {c} \X Keys
<1>1. \A t \in timers : t.task \in TasksOf(c) <=> t.context = c
  <2> TAKE t \in timers
  <2>1. t.context \in Contexts /\ t.key \in Keys /\ t.task # NoTask
    BY DEF Inv, TypeOK, Timer, Tasks, NoTask
  <2>2. \A k \in Keys : t.task = expiredTaskMap[c][k]
                           <=> t.context = c /\ t.key = k
    BY TimerOfKey DEF Inv, OneTimerPerValue
  <2> QED
    BY <2>1, <2>2 DEF TasksOf
<1>2. timers' = {t \in timers : <<t.context, t.key>> \notin gone}
  <2>1. \A t \in timers : <<t.context, t.key>> \in gone <=> t.context = c
    BY DEF Inv, TypeOK, Timer
  <2> QED
    BY <1>1, <2>1 DEF Clear
<1>3. scheduledTasks' = {t.task : t \in timers'}
  BY <1>1, <1>2 DEF Clear, Inv, RegistryIsExact
<1>4. contextMap' = [d \in Contexts |-> [k \in Keys |->
                        IF <<d, k>> \in gone THEN NoTask ELSE contextMap[d][k]]]
  BY DEF Clear, Inv, TypeOK
<1>5. /\ expiredTaskMap' = [d \in Contexts |-> [k \in Keys |->
                        IF <<d, k>> \in gone THEN NoTask ELSE expiredTaskMap[d][k]]]
      /\ UNCHANGED <<taskCounter, promised>>
  BY DEF Clear, Inv, TypeOK
<1>6. gone \in SUBSET (Contexts \X Keys)
  OBVIOUS
<1> HIDE DEF gone
<1> QED
  BY <1>2, <1>3, <1>4, <1>5, <1>6, RemovalKeepsInv

LEMMA TickKeepsInv ==
    ASSUME Inv, Tick
    PROVE  Inv'
<1> DEFINE Later(t) == [t EXCEPT !.left = Less(@)]
<1>1. \A n \in Nat : Less(n) \in Nat
  BY DEF Less
<1>2. timers' = {Later(t) : t \in timers}
  BY DEF Tick
<1>3. \A t \in timers :
         /\ Later(t) \in Timer /\ Later(t).task = t.task
         /\ Later(t).context = t.context /\ Later(t).key = t.key
  BY <1>1 DEF Inv, TypeOK, Timer
<1> HIDE DEF Later
<1>4. UNCHANGED <<contextMap, expiredTaskMap, scheduledTasks, taskCounter>>
  BY DEF Tick
<1>5. TypeOK'
  <2>1. promised' \in [Contexts -> [Keys -> Nat]]
    BY <1>1 DEF Tick, Inv, TypeOK
  <2> QED
    BY <1>2, <1>3, <1>4, <2>1 DEF Inv, TypeOK
<1>6. OneTimerPerValue'
  BY <1>2, <1>3, <1>4 DEF Inv, OneTimerPerValue
<1>7. RegistryIsExact'
  BY <1>2, <1>3, <1>4 DEF Inv, RegistryIsExact
<1>8. TasksAreUnique'
  BY <1>2, <1>3, <1>4 DEF Inv, TasksAreUnique
<1> QED
  BY <1>5, <1>6, <1>7, <1>8 DEF Inv

LEMMA InvStep == Inv /\ [Next]_vars => Inv'
<1> SUFFICES ASSUME Inv, [Next]_vars
             PROVE  Inv'
  OBVIOUS
<1>1. CASE UNCHANGED vars
  BY <1>1 DEF vars, Inv, TypeOK, OneTimerPerValue, RegistryIsExact, TasksAreUnique
<1> QED
  BY <1>1, SetKeepsInv, SetThrowsKeepsInv, ExpireKeepsInv, ClearKeepsInv, TickKeepsInv DEF Next

LEMMA InvCorrect == Spec => []Inv
<1> QED
  BY InvInit, InvStep, PTL DEF Spec

\* Every variable keeps its type.
THEOREM TypeCorrect == Spec => []TypeOK
<1>1. Inv => TypeOK
  BY DEF Inv
<1> QED
  BY <1>1, InvCorrect, PTL

\* Every value has exactly one pending timer, its own.
THEOREM AlwaysOneTimerPerValue == Spec => []OneTimerPerValue
<1>1. Inv => OneTimerPerValue
  BY DEF Inv
<1> QED
  BY <1>1, InvCorrect, PTL

\* The static registry holds the pending tasks of all contexts, no others.
THEOREM RegistryAlwaysExact == Spec => []RegistryIsExact
<1>1. Inv => RegistryIsExact
  BY DEF Inv
<1> QED
  BY <1>1, InvCorrect, PTL

-----------------------------------------------------------------------------
(* No value goes early.                                                     *)

\* Each timer has at least as much time left as its value was promised.
TimersKeepPromises == \A t \in timers : promised[t.context][t.key] <= t.left

\* Every step keeps the promises.
LEMMA PromiseStep ==
    ASSUME Inv, TimersKeepPromises, [Next]_vars
    PROVE  TimersKeepPromises'
<1>1. \A t \in timers : t.context \in Contexts /\ t.key \in Keys
  BY DEF Inv, TypeOK, Timer
<1>2. ASSUME NEW c \in Contexts, NEW key \in Keys, NEW delay \in Delays,
             Set(c, key, delay)
      PROVE  TimersKeepPromises'
  <2> DEFINE timer == [task |-> taskCounter + 1, context |-> c, key |-> key,
                       left |-> EffectiveDelay(delay)]
  <2>1. /\ timer.left = EffectiveDelay(delay)
        /\ timer.context = c /\ timer.key = key
    OBVIOUS
  <2>2. Promise(delay) <= EffectiveDelay(delay)
    BY DelayAssumption DEF Promise, EffectiveDelay
  <2>3. \A d \in Contexts, k \in Keys :
           promised'[d][k] =
              IF d = c /\ k = key THEN Promise(delay) ELSE promised[d][k]
    BY <1>2 DEF Set, NextTask, Inv, TypeOK
  <2>4. \A t \in CancelTimer(c, key) :
           t \in timers /\ ~(t.context = c /\ t.key = key)
    BY TimerOfKey DEF CancelTimer
  <2>5. timers' = CancelTimer(c, key) \cup {timer}
    BY <1>2 DEF Set, NextTask
  <2> HIDE DEF timer
  <2>6. ASSUME NEW t \in timers'
        PROVE  promised'[t.context][t.key] <= t.left
    <3>1. CASE t = timer
      BY <2>1, <2>2, <2>3, <3>1
    <3>2. CASE t \in CancelTimer(c, key)
      BY <1>1, <2>3, <2>4, <3>2 DEF TimersKeepPromises
    <3> QED
      BY <2>5, <3>1, <3>2
  <2> QED
    BY <2>6 DEF TimersKeepPromises
<1>3. ASSUME NEW c \in Contexts, NEW key \in Keys, SetThrows(c, key)
      PROVE  TimersKeepPromises'
  BY <1>3 DEF SetThrows, CancelTimer, TimersKeepPromises
<1>4. ASSUME NEW t \in timers, Expire(t)
      PROVE  TimersKeepPromises'
  BY <1>4 DEF Expire, TimersKeepPromises
<1>5. ASSUME NEW c \in Contexts, Clear(c)
      PROVE  TimersKeepPromises'
  BY <1>5 DEF Clear, TimersKeepPromises
<1>6. CASE Tick
  <2> DEFINE Later(t) == [t EXCEPT !.left = Less(@)]
  <2>1. \A t \in timers : /\ Later(t).left = Less(t.left)
                          /\ Later(t).context = t.context
                          /\ Later(t).key = t.key
                          /\ t.left \in Nat
    BY DEF Inv, TypeOK, Timer
  <2>2. timers' = {Later(t) : t \in timers}
    BY <1>6 DEF Tick
  <2>3. \A c \in Contexts, k \in Keys :
           promised'[c][k] = Less(promised[c][k]) /\ promised[c][k] \in Nat
    BY <1>6 DEF Tick, Inv, TypeOK
  <2>4. \A m, n \in Nat : m <= n => Less(m) <= Less(n)
    BY DEF Less
  <2> HIDE DEF Later
  <2>5. ASSUME NEW t \in timers
        PROVE  promised'[Later(t).context][Later(t).key] <= Later(t).left
    BY <1>1, <2>1, <2>3, <2>4 DEF TimersKeepPromises
  <2> QED
    BY <2>2, <2>5 DEF TimersKeepPromises
<1>7. CASE UNCHANGED vars
  BY <1>7 DEF vars, TimersKeepPromises
<1> QED
  BY <1>2, <1>3, <1>4, <1>5, <1>6, <1>7 DEF Next

\* A value that goes without clear() goes by its own timer, which is due.
LEMMA NoEarlyStep ==
    ASSUME Inv, TimersKeepPromises, [Next]_vars,
           NEW c \in Contexts, NEW k \in Keys,
           contextMap[c][k] # NoTask, contextMap'[c][k] = NoTask
    PROVE  promised[c][k] = 0 \/ Clear(c)
<1>1. ASSUME NEW d \in Contexts, NEW key \in Keys, NEW delay \in Delays,
             Set(d, key, delay)
      PROVE  FALSE
  <2>1. taskCounter + 1 # NoTask
    BY DEF Inv, TypeOK, NoTask
  <2>2. contextMap'[c][k] =
           IF c = d /\ k = key THEN taskCounter + 1 ELSE contextMap[c][k]
    BY <1>1 DEF Set, NextTask, Inv, TypeOK
  <2> QED
    BY <2>1, <2>2
<1>2. ASSUME NEW t \in timers, Expire(t)
      PROVE  promised[c][k] = 0
  <2>1. t.context \in Contexts /\ t.key \in Keys /\ promised[c][k] \in Nat
    BY DEF Inv, TypeOK, Timer
  <2>2. t.context = c /\ t.key = k
    BY <1>2, <2>1 DEF Expire, Inv, TypeOK
  <2>3. promised[c][k] <= t.left
    BY <2>2 DEF TimersKeepPromises
  <2>4. t.left = 0
    BY <1>2 DEF Expire
  <2> QED
    BY <2>1, <2>3, <2>4
<1>3. ASSUME NEW d \in Contexts, Clear(d)
      PROVE  d = c
  BY <1>3 DEF Clear, Inv, TypeOK
<1>4. CASE Tick \/ UNCHANGED vars
  BY <1>4 DEF Tick, vars
<1>5. ASSUME NEW d \in Contexts, NEW key \in Keys, SetThrows(d, key)
      PROVE  FALSE
  <2>1. Unscheduled # NoTask
    BY DelayAssumption DEF Unscheduled, NoTask
  <2>2. contextMap'[c][k] =
           IF c = d /\ k = key THEN Unscheduled ELSE contextMap[c][k]
    BY <1>5 DEF SetThrows, Inv, TypeOK
  <2> QED
    BY <2>1, <2>2
<1> QED
  BY <1>1, <1>2, <1>3, <1>4, <1>5 DEF Next

\* A value that is neither replaced nor cleared stays for the whole time its
\* set() was asked for, unless this very time is longer than setTimeout takes,
\* whatever the delays of other values are and whichever set() throws.
THEOREM NeverExpiresEarly == Spec => NoEarlyExpiry
<1>1. Init => TimersKeepPromises
  BY DEF Init, TimersKeepPromises
<1>2. Inv /\ TimersKeepPromises /\ [Next]_vars => TimersKeepPromises'
  BY PromiseStep
<1>3. Inv /\ TimersKeepPromises /\ [Next]_vars
         => [\A c \in Contexts, k \in Keys :
                \/ contextMap[c][k] = NoTask
                \/ contextMap'[c][k] # NoTask
                \/ promised[c][k] = 0
                \/ Clear(c)]_vars
  BY NoEarlyStep
<1> QED
  BY <1>1, <1>2, <1>3, InvCorrect, PTL DEF Spec, NoEarlyExpiry

-----------------------------------------------------------------------------
(* What EveryValueExpires rests on: as long as a value stays, nothing but    *)
(* time touches its timer.                                                  *)

SameTimer(t, u) == u.task = t.task /\ u.context = t.context /\ u.key = t.key

TimersRunDown ==
    [][\A t \in timers :
          contextMap'[t.context][t.key] = t.task =>
             \E u \in timers' :
                /\ SameTimer(t, u)
                /\ u.left = IF Tick THEN Less(t.left) ELSE t.left]_vars

LEMMA TickRunsDown ==
    ASSUME Inv, Tick, NEW t \in timers
    PROVE  \E u \in timers' : SameTimer(t, u) /\ u.left = Less(t.left)
<1> DEFINE u == [t EXCEPT !.left = Less(@)]
<1>1. u \in timers'
  BY DEF Tick
<1>2. t \in Timer
  BY DEF Inv, TypeOK
<1>3. SameTimer(t, u) /\ u.left = Less(t.left)
  BY <1>2 DEF Timer, SameTimer
<1> QED
  BY <1>1, <1>3

\* The timer of a value that outlasts a step other than Tick is left alone.
LEMMA TimerStays ==
    ASSUME Inv, [Next]_vars, ~Tick, NEW t \in timers,
           contextMap'[t.context][t.key] = t.task
    PROVE  t \in timers'
<1>1. /\ t.context \in Contexts /\ t.key \in Keys
      /\ t.task \in Nat /\ t.task # NoTask
      /\ t.task # Unscheduled
      /\ contextMap[t.context][t.key] = t.task
  BY DelayAssumption DEF Inv, TypeOK, Timer, Tasks, NoTask, Unscheduled, OneTimerPerValue
<1>2. t.task <= taskCounter /\ taskCounter \in Nat
  BY <1>1, TimerOfKey DEF Inv, TypeOK, TasksAreUnique
<1>3. ASSUME NEW c \in Contexts, NEW key \in Keys, NEW delay \in Delays,
             Set(c, key, delay)
      PROVE  t \in timers'
  <2>1. contextMap'[t.context][t.key] =
           IF t.context = c /\ t.key = key THEN taskCounter + 1 ELSE t.task
    BY <1>1, <1>3 DEF Set, NextTask, Inv, TypeOK
  <2>2. ~(t.context = c /\ t.key = key)
    BY <1>2, <2>1
  <2>3. t.task # expiredTaskMap[c][key]
    BY <2>2, TimerOfKey
  <2> QED
    BY <1>3, <2>3 DEF Set, CancelTimer
<1>4. ASSUME NEW v \in timers, Expire(v)
      PROVE  t \in timers'
  <2>1. v = t => contextMap'[t.context][t.key] = NoTask
    BY <1>1, <1>4 DEF Expire, Inv, TypeOK
  <2> QED
    BY <1>1, <1>4, <2>1 DEF Expire
<1>5. ASSUME NEW c \in Contexts, Clear(c)
      PROVE  t \in timers'
  <2>1. t.context = c => contextMap'[t.context][t.key] = NoTask
    BY <1>1, <1>5 DEF Clear, Inv, TypeOK
  <2>2. t.context # c
    BY <1>1, <2>1
  <2>3. \A k \in Keys : t.task # expiredTaskMap[c][k]
    BY <2>2, TimerOfKey
  <2> QED
    BY <1>5, <2>3 DEF Clear, TasksOf
<1>6. ASSUME NEW c \in Contexts, NEW key \in Keys, SetThrows(c, key)
      PROVE  t \in timers'
  <2>1. contextMap'[t.context][t.key] =
           IF t.context = c /\ t.key = key THEN Unscheduled ELSE t.task
    BY <1>1, <1>6 DEF SetThrows, Inv, TypeOK
  <2>2. ~(t.context = c /\ t.key = key)
    BY <1>1, <2>1
  <2>3. t.task # expiredTaskMap[c][key]
    BY <2>2, TimerOfKey
  <2> QED
    BY <1>6, <2>3 DEF SetThrows, CancelTimer
<1>7. CASE UNCHANGED vars
  BY <1>7 DEF vars
<1> QED
  BY <1>3, <1>4, <1>5, <1>6, <1>7 DEF Next

\* The time of a value that is neither replaced nor cleared runs down by every
\* tick and by nothing else, whatever is set, cleared or expires for other keys
\* and other contexts, until its own callback deletes it (lines 70-93, 124-132).
THEOREM TimersAlwaysRunDown == Spec => TimersRunDown
<1>1. ASSUME Inv, [Next]_vars, NEW t \in timers,
             contextMap'[t.context][t.key] = t.task
      PROVE  \E u \in timers' :
                /\ SameTimer(t, u)
                /\ u.left = IF Tick THEN Less(t.left) ELSE t.left
  <2>1. CASE Tick
    BY <1>1, <2>1, TickRunsDown
  <2>2. CASE ~Tick
    BY <1>1, <2>2, TimerStays DEF SameTimer
  <2> QED
    BY <2>1, <2>2
<1>2. Inv /\ [Next]_vars =>
         [\A t \in timers :
             contextMap'[t.context][t.key] = t.task =>
                \E u \in timers' :
                   /\ SameTimer(t, u)
                   /\ u.left = IF Tick THEN Less(t.left) ELSE t.left]_vars
  BY <1>1
<1> QED
  BY <1>2, InvCorrect, PTL DEF Spec, TimersRunDown
=============================================================================
