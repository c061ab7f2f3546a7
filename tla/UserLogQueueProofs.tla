------------------------- MODULE UserLogQueueProofs -------------------------
(***************************************************************************)
(* Theorems about UserLogQueue for any limits and any number of records.   *)
(***************************************************************************)
EXTENDS UserLogQueue, TLAPS

\* Every record that was made has been given its number.
Inv ==
    /\ TypeOK
    /\ NoLogVanishes
    /\ NoLogTwice
    /\ FirstInFirstOut
    /\ SizesBounded

LEMMA InvInit == Init => Inv
<1> SUFFICES ASSUME Init
             PROVE  Inv
  OBVIOUS
<1>1. Elements(blockingQueue) = {} /\ InFlight = {} /\ 1..logged = {}
  BY DEF Init, Elements, InFlight
<1>2. TypeOK
  BY SizeAssumption DEF Init, TypeOK, Logs
<1>3. NoLogVanishes /\ NoLogTwice
  BY <1>1 DEF Init, NoLogVanishes, NoLogTwice
<1>4. FirstInFirstOut /\ SizesBounded
  BY SizeAssumption DEF Init, FirstInFirstOut, SizesBounded, Ascending
<1> QED
  BY <1>2, <1>3, <1>4 DEF Inv

\* Appending adds one element, at the end.
LEMMA AppendElement ==
    ASSUME NEW S, NEW s \in Seq(S), NEW x \in S
    PROVE  /\ Append(s, x) \in Seq(S)
           /\ Len(Append(s, x)) = Len(s) + 1
           /\ Append(s, x)[Len(s) + 1] = x
           /\ \A i \in 1..Len(s) : Append(s, x)[i] = s[i]
           /\ Elements(Append(s, x)) = Elements(s) \cup {x}
<1>1. /\ Append(s, x) \in Seq(S)
      /\ Len(Append(s, x)) = Len(s) + 1
      /\ Append(s, x)[Len(s) + 1] = x
      /\ \A i \in 1..Len(s) : Append(s, x)[i] = s[i]
  OBVIOUS
<1>2. \A i \in 1..Len(s) + 1 : i \in 1..Len(s) \/ i = Len(s) + 1
  OBVIOUS
<1>3. Len(s) + 1 \in 1..Len(s) + 1 /\ 1..Len(s) \subseteq 1..Len(s) + 1
  OBVIOUS
<1>4. Elements(Append(s, x)) = Elements(s) \cup {x}
  BY <1>1, <1>2, <1>3 DEF Elements
<1> QED
  BY <1>1, <1>4

\* The batch and the rest split the queue: the batch holds its first records.
LEMMA BatchAndRest ==
    ASSUME TypeOK, blockingQueue # <<>>
    PROVE  /\ Batch \in Seq(Logs) /\ Rest \in Seq(Logs)
           /\ Len(Batch) \in 1..BatchSize
           /\ Len(Batch) + Len(Rest) = Len(blockingQueue)
           /\ \A i \in 1..Len(Batch) : Batch[i] = blockingQueue[i]
           /\ \A i \in 1..Len(Rest) : Rest[i] = blockingQueue[Len(Batch) + i]
<1> DEFINE q == blockingQueue
           n == Smaller(BatchSize, Len(q))
<1>1. q \in Seq(Logs) /\ Len(q) \in Nat \ {0}
  BY DEF TypeOK
<1>2. n \in 1..Len(q) /\ n <= BatchSize /\ (n = BatchSize \/ n = Len(q))
  BY <1>1, SizeAssumption DEF Smaller
<1>3. /\ SubSeq(q, 1, n) \in Seq(Logs)
      /\ Len(SubSeq(q, 1, n)) = n
      /\ \A i \in 1..n : SubSeq(q, 1, n)[i] = q[i]
  BY <1>1, <1>2
<1>4. CASE BatchSize < Len(q)
  <2>1. n = BatchSize
    BY <1>1, <1>4, SizeAssumption DEF Smaller
  <2>2. /\ Rest \in Seq(Logs)
        /\ Len(Rest) = Len(q) - BatchSize
        /\ \A i \in 1..Len(q) - BatchSize : Rest[i] = q[BatchSize + i]
    BY <1>1, <1>4, SizeAssumption DEF Rest
  <2> QED
    BY <1>1, <1>2, <1>3, <2>1, <2>2 DEF Batch
<1>5. CASE BatchSize >= Len(q)
  <2>1. n = Len(q)
    BY <1>1, <1>5, SizeAssumption DEF Smaller
  <2>2. Rest = <<>>
    BY <1>1, <1>5, SizeAssumption DEF Rest
  <2> QED
    BY <1>1, <1>2, <1>3, <2>1, <2>2 DEF Batch
<1> QED
  BY <1>1, <1>4, <1>5, SizeAssumption

LEMMA BatchAndRestElements ==
    ASSUME TypeOK, blockingQueue # <<>>
    PROVE  Elements(blockingQueue) = Elements(Batch) \cup Elements(Rest)
<1> DEFINE q == blockingQueue
<1>1. /\ Len(Batch) \in Nat /\ Len(Rest) \in Nat
      /\ Len(Batch) + Len(Rest) = Len(q)
      /\ \A i \in 1..Len(Batch) : Batch[i] = q[i]
      /\ \A i \in 1..Len(Rest) : Rest[i] = q[Len(Batch) + i]
  BY BatchAndRest, SizeAssumption
<1>2. ASSUME NEW i \in 1..Len(q)
      PROVE  q[i] \in Elements(Batch) \cup Elements(Rest)
  <2>1. CASE i <= Len(Batch)
    <3>1. i \in 1..Len(Batch) /\ q[i] = Batch[i]
      BY <1>1, <2>1
    <3> QED
      BY <3>1 DEF Elements
  <2>2. CASE i > Len(Batch)
    <3> DEFINE j == i - Len(Batch)
    <3>1. j \in 1..Len(Rest) /\ Len(Batch) + j = i
      BY <1>1, <2>2
    <3>2. q[i] = Rest[j]
      BY <1>1, <3>1
    <3> QED
      BY <3>1, <3>2 DEF Elements
  <2> QED
    BY <1>1, <2>1, <2>2
<1>3. \A i \in 1..Len(Batch) : i \in 1..Len(q) /\ Batch[i] = q[i]
  BY <1>1
<1>4. \A i \in 1..Len(Rest) : Len(Batch) + i \in 1..Len(q) /\ Rest[i] = q[Len(Batch) + i]
  BY <1>1
<1> QED
  BY <1>2, <1>3, <1>4 DEF Elements

\* Records that are no longer waiting: nothing removes one from these sets.
Settled == stored \cup failed \cup dropped \cup unqueued

\* The number of the next record is new.
LEMMA NextLogIsNew ==
    ASSUME Inv
    PROVE  /\ Elements(blockingQueue) \subseteq 1..logged
           /\ InFlight \subseteq 1..logged
           /\ Settled \subseteq 1..logged
           /\ logged \in Nat
           /\ logged < MaxLogs => logged + 1 \in Logs /\ logged + 1 \in 0..MaxLogs
           /\ logged + 1 \notin 1..logged
           /\ 1..logged + 1 = (1..logged) \cup {logged + 1}
<1>1. logged \in Nat
  BY DEF Inv, TypeOK
<1>2. logged + 1 \notin 1..logged /\ 1..logged + 1 = (1..logged) \cup {logged + 1}
  BY <1>1
<1>3. logged < MaxLogs => logged + 1 \in 1..MaxLogs /\ logged + 1 \in 0..MaxLogs
  BY <1>1, SizeAssumption
<1> QED
  BY <1>1, <1>2, <1>3 DEF Inv, NoLogVanishes, Settled, Logs

LEMMA PersistKeepsInv == ASSUME Inv, Persist PROVE Inv'
<1> DEFINE new == logged + 1
           q == blockingQueue
<1>1. /\ new \in Logs /\ new \in 0..MaxLogs /\ logged' = new
      /\ q \in Seq(Logs) /\ Len(q) \in Nat
      /\ UNCHANGED <<saving, stored, failed, unqueued>>
  BY NextLogIsNew DEF Persist, Inv, TypeOK
<1>2. InFlight' = InFlight
  BY <1>1 DEF InFlight
<1>3. CASE Len(q) < MaxQueueSize
  <2>1. q' = Append(q, new) /\ UNCHANGED dropped
    BY <1>3 DEF Persist, AddLog
  <2>2. /\ q' \in Seq(Logs) /\ Len(q') = Len(q) + 1 /\ q'[Len(q) + 1] = new
        /\ \A i \in 1..Len(q) : q'[i] = q[i]
    BY <1>1, <2>1, AppendElement
  <2>3. Elements(q') = Elements(q) \cup {new}
    BY <1>1, <2>1, AppendElement
  <2>4. \A i \in 1..Len(q') : i \in 1..Len(q) \/ i = Len(q) + 1
    BY <1>1, <2>2
  <2>5. \A i \in 1..Len(q) : q[i] \in 1..logged /\ q[i] \in Elements(q)
    BY NextLogIsNew DEF Elements
  <2>6. TypeOK'
    BY <1>1, <2>1, <2>2 DEF Inv, TypeOK
  <2>7. NoLogVanishes'
    <3>1. Elements(blockingQueue)' = Elements(q')
      BY DEF Elements
    <3> QED
      BY <1>1, <1>2, <2>1, <2>3, <3>1, NextLogIsNew DEF Inv, NoLogVanishes
  <2>8. NoLogTwice'
    <3>1. \A i, j \in 1..Len(q') : q'[i] = q'[j] => i = j
      BY <2>2, <2>4, <2>5, NextLogIsNew DEF Inv, NoLogTwice
    <3>2. Elements(blockingQueue)' = Elements(q) \cup {new}
      BY <2>3 DEF Elements
    <3> QED
      BY <1>1, <1>2, <2>1, <3>1, <3>2, NextLogIsNew DEF Inv, NoLogTwice, Settled
  <2>9. FirstInFirstOut'
    <3>1. Ascending(q')
      <4> SUFFICES ASSUME NEW i \in 1..Len(q'), NEW j \in 1..Len(q'), i < j
                   PROVE  q'[i] < q'[j]
        BY DEF Ascending
      <4>1. i \in 1..Len(q)
        BY <1>1, <2>2
      <4>2. \A k, l \in 1..Len(q) : k < l => q[k] < q[l]
        BY DEF Inv, FirstInFirstOut, Ascending
      <4> QED
        BY <2>2, <2>4, <2>5, <4>1, <4>2, NextLogIsNew
    <3>2. \A i \in 1..Len(q') : \A log \in InFlight \cup stored \cup failed : log < q'[i]
      BY <2>2, <2>4, NextLogIsNew DEF Inv, FirstInFirstOut, Settled
    <3>3. Ascending(blockingQueue)'
      BY <3>1 DEF Ascending
    <3>4. (\A batch \in saving : Ascending(batch))'
      BY <1>1 DEF Inv, FirstInFirstOut, Ascending
    <3> QED
      BY <1>1, <1>2, <3>2, <3>3, <3>4 DEF FirstInFirstOut
  <2>10. SizesBounded'
    BY <1>1, <1>3, <2>2, SizeAssumption DEF Inv, SizesBounded
  <2> QED
    BY <2>6, <2>7, <2>8, <2>9, <2>10 DEF Inv
<1>4. CASE ~(Len(q) < MaxQueueSize)
  <2>1. dropped' = dropped \cup {new} /\ UNCHANGED q
    BY <1>4 DEF Persist, AddLog
  <2>2. Elements(blockingQueue)' = Elements(q)
    BY <2>1 DEF Elements
  <2>3. TypeOK'
    BY <1>1, <2>1 DEF Inv, TypeOK
  <2>4. NoLogVanishes'
    BY <1>1, <1>2, <2>1, <2>2, NextLogIsNew DEF Inv, NoLogVanishes
  <2>5. NoLogTwice'
    BY <1>1, <1>2, <2>1, <2>2, NextLogIsNew DEF Inv, NoLogTwice
  <2>6. FirstInFirstOut' /\ SizesBounded'
    BY <1>1, <1>2, <2>1 DEF Inv, FirstInFirstOut, SizesBounded, Ascending
  <2> QED
    BY <2>3, <2>4, <2>5, <2>6 DEF Inv
<1> QED
  BY <1>3, <1>4

LEMMA LogKeepsInv == ASSUME Inv, LOG PROVE Inv'
<1> DEFINE new == logged + 1
<1>1. /\ new \in Logs /\ new \in 0..MaxLogs /\ logged' = new
      /\ unqueued' = unqueued \cup {new}
      /\ UNCHANGED <<blockingQueue, saving, stored, failed, dropped>>
  BY NextLogIsNew DEF LOG
<1>2. InFlight' = InFlight /\ Elements(blockingQueue)' = Elements(blockingQueue)
  BY <1>1 DEF InFlight, Elements
<1>3. TypeOK'
  BY <1>1 DEF Inv, TypeOK
<1>4. NoLogVanishes'
  BY <1>1, <1>2, NextLogIsNew DEF Inv, NoLogVanishes
<1>5. NoLogTwice'
  BY <1>1, <1>2, NextLogIsNew DEF Inv, NoLogTwice
<1>6. FirstInFirstOut' /\ SizesBounded'
  BY <1>1, <1>2 DEF Inv, FirstInFirstOut, SizesBounded, Ascending
<1> QED
  BY <1>3, <1>4, <1>5, <1>6 DEF Inv

LEMMA SaveLogKeepsInv == ASSUME Inv, SaveLog PROVE Inv'
<1> DEFINE q == blockingQueue
<1>1. /\ TypeOK /\ q # <<>> /\ q' = Rest /\ saving' = saving \cup {Batch}
      /\ UNCHANGED <<stored, failed, dropped, unqueued, logged>>
  BY DEF SaveLog, Inv
<1>2. /\ Batch \in Seq(Logs) /\ Rest \in Seq(Logs)
      /\ Len(Batch) \in Nat \ {0} /\ Len(Batch) <= BatchSize /\ Len(Rest) \in Nat
      /\ Len(Batch) + Len(Rest) = Len(q)
      /\ \A i \in 1..Len(Batch) : i \in 1..Len(q) /\ Batch[i] = q[i]
      /\ \A i \in 1..Len(Rest) : Len(Batch) + i \in 1..Len(q)
                                  /\ Rest[i] = q[Len(Batch) + i]
  BY <1>1, BatchAndRest, SizeAssumption
<1>3. /\ Elements(q) = Elements(Batch) \cup Elements(Rest)
      /\ Elements(blockingQueue)' = Elements(Rest)
  BY <1>1, BatchAndRestElements DEF Elements
<1>4. InFlight' = InFlight \cup Elements(Batch)
  BY <1>1 DEF InFlight
<1>5. \A i, j \in 1..Len(q) : q[i] = q[j] => i = j
  BY DEF Inv, NoLogTwice
<1>6. Elements(Batch) \cap Elements(Rest) = {}
  <2> SUFFICES ASSUME NEW i \in 1..Len(Batch), NEW j \in 1..Len(Rest),
                      Batch[i] = Rest[j]
               PROVE  FALSE
    BY DEF Elements
  <2>1. i = Len(Batch) + j
    BY <1>2, <1>5
  <2> QED
    BY <1>2, <2>1
<1>7. \A i, j \in 1..Len(q) : i < j => q[i] < q[j]
  BY DEF Inv, FirstInFirstOut, Ascending
<1>8. TypeOK'
  BY <1>1, <1>2 DEF TypeOK
<1>9. NoLogVanishes'
  BY <1>1, <1>3, <1>4 DEF Inv, NoLogVanishes
<1>10. NoLogTwice'
  <2>1. \A i, j \in 1..Len(Rest) : Rest[i] = Rest[j] => i = j
    <3> TAKE i, j \in 1..Len(Rest)
    <3>1. Rest[i] = Rest[j] => Len(Batch) + i = Len(Batch) + j
      BY <1>2, <1>5
    <3> QED
      BY <1>2, <3>1
  <2>2. \A b \in saving : Elements(b) \cap Elements(Batch) = {}
    BY <1>3 DEF Inv, NoLogTwice, InFlight
  <2>3. \A b, o \in saving' : Elements(b) \cap Elements(o) # {} => b = o
    BY <1>1, <2>2 DEF Inv, NoLogTwice
  <2>4. Elements(Rest) \cap InFlight' = {}
    BY <1>3, <1>4, <1>6 DEF Inv, NoLogTwice
  <2>5. (Elements(Rest) \cup InFlight')
           \cap (stored \cup failed \cup dropped \cup unqueued) = {}
    BY <1>3, <1>4 DEF Inv, NoLogTwice
  <2>6. (\A b, o \in saving : Elements(b) \cap Elements(o) # {} => b = o)'
    BY <2>3 DEF Elements
  <2> QED
    BY <1>1, <1>3, <2>1, <2>4, <2>5, <2>6 DEF NoLogTwice
<1>11. FirstInFirstOut'
  <2>1. Ascending(Rest)
    <3> SUFFICES ASSUME NEW i \in 1..Len(Rest), NEW j \in 1..Len(Rest), i < j
                 PROVE  Rest[i] < Rest[j]
      BY DEF Ascending
    <3>1. Len(Batch) + i < Len(Batch) + j
      BY <1>2
    <3> QED
      BY <1>2, <1>7, <3>1
  <2>2. Ascending(Batch)
    BY <1>2, <1>7 DEF Ascending
  <2>3. \A i \in 1..Len(Rest) : \A log \in Elements(Batch) : log < Rest[i]
    <3> SUFFICES ASSUME NEW i \in 1..Len(Rest), NEW j \in 1..Len(Batch)
                 PROVE  Batch[j] < Rest[i]
      BY DEF Elements
    <3>1. j < Len(Batch) + i
      BY <1>2
    <3> QED
      BY <1>2, <1>7, <3>1
  <2>4. \A i \in 1..Len(Rest) : \A log \in InFlight \cup stored \cup failed :
           log < Rest[i]
    BY <1>2 DEF Inv, FirstInFirstOut
  <2>5. Ascending(blockingQueue)' /\ (\A b \in saving : Ascending(b))'
    BY <1>1, <2>1, <2>2 DEF Inv, FirstInFirstOut, Ascending
  <2> QED
    BY <1>1, <1>4, <2>3, <2>4, <2>5 DEF FirstInFirstOut
<1>12. SizesBounded'
  <2>1. Len(q) <= MaxQueueSize /\ Len(q') <= MaxQueueSize
    BY <1>1, <1>2, SizeAssumption DEF Inv, SizesBounded
  <2>2. Batch # <<>>
    BY <1>2
  <2> QED
    BY <1>1, <1>2, <2>1, <2>2 DEF Inv, SizesBounded
<1> QED
  BY <1>8, <1>9, <1>10, <1>11, <1>12 DEF Inv

\* An answer of the facade moves the records of one batch to a settled set.
LEMMA AnswerKeepsInv ==
    ASSUME Inv, NEW batch \in saving, Saved(batch) \/ SaveFails(batch)
    PROVE  Inv'
<1>1. /\ saving' = saving \ {batch}
      /\ UNCHANGED <<blockingQueue, dropped, unqueued, logged>>
      /\ stored' \cup failed' = stored \cup failed \cup Elements(batch)
  BY DEF Saved, SaveFails
<1>2. /\ InFlight = InFlight' \cup Elements(batch)
      /\ InFlight' \cap Elements(batch) = {}
  BY <1>1 DEF Inv, NoLogTwice, InFlight
<1>3. Elements(blockingQueue)' = Elements(blockingQueue)
  BY <1>1 DEF Elements
<1>4. TypeOK'
  <2>1. Elements(batch) \subseteq Logs
    BY DEF Inv, TypeOK, Elements
  <2> QED
    BY <1>1, <2>1 DEF Inv, TypeOK
<1>5. NoLogVanishes'
  BY <1>1, <1>2, <1>3 DEF Inv, NoLogVanishes
<1>6. NoLogTwice'
  <2>1. (Elements(blockingQueue) \cup InFlight')
           \cap (stored' \cup failed' \cup dropped \cup unqueued) = {}
    BY <1>1, <1>2 DEF Inv, NoLogTwice
  <2>2. (\A b, o \in saving : Elements(b) \cap Elements(o) # {} => b = o)'
    BY <1>1 DEF Inv, NoLogTwice, Elements
  <2> QED
    BY <1>1, <1>2, <1>3, <2>1, <2>2 DEF Inv, NoLogTwice
<1>7. FirstInFirstOut'
  <2>1. InFlight' \cup stored' \cup failed' = InFlight \cup stored \cup failed
    BY <1>1, <1>2
  <2> QED
    BY <1>1, <2>1 DEF Inv, FirstInFirstOut, Ascending
<1>8. SizesBounded'
  BY <1>1 DEF Inv, SizesBounded
<1> QED
  BY <1>4, <1>5, <1>6, <1>7, <1>8 DEF Inv

LEMMA InvStep == Inv /\ [Next]_vars => Inv'
<1> SUFFICES ASSUME Inv, [Next]_vars
             PROVE  Inv'
  OBVIOUS
<1>1. CASE UNCHANGED vars
  <2>1. InFlight' = InFlight /\ Elements(blockingQueue)' = Elements(blockingQueue)
    BY <1>1 DEF vars, InFlight, Elements
  <2>2. TypeOK' /\ NoLogVanishes' /\ NoLogTwice'
    BY <1>1, <2>1 DEF vars, Inv, TypeOK, NoLogVanishes, NoLogTwice, Elements
  <2>3. FirstInFirstOut' /\ SizesBounded'
    BY <1>1, <2>1 DEF vars, Inv, FirstInFirstOut, SizesBounded, Ascending
  <2> QED
    BY <2>2, <2>3 DEF Inv
<1> QED
  BY <1>1, PersistKeepsInv, LogKeepsInv, SaveLogKeepsInv, AnswerKeepsInv DEF Next

LEMMA InvCorrect == Spec => []Inv
<1> QED
  BY InvInit, InvStep, PTL DEF Spec

\* Every variable keeps its type.
THEOREM TypeCorrect == Spec => []TypeOK
<1>1. Inv => TypeOK
  BY DEF Inv
<1> QED
  BY <1>1, InvCorrect, PTL

\* No record gets lost between the queue, the running saves and their answers.
THEOREM NoLogEverVanishes == Spec => []NoLogVanishes
<1>1. Inv => NoLogVanishes
  BY DEF Inv
<1> QED
  BY <1>1, InvCorrect, PTL

\* No record is taken by two runs of saveLog or queued after it was taken.
THEOREM NoLogEverTwice == Spec => []NoLogTwice
<1>1. Inv => NoLogTwice
  BY DEF Inv
<1> QED
  BY <1>1, InvCorrect, PTL

\* Records leave the queue in the order they entered it.
THEOREM AlwaysFirstInFirstOut == Spec => []FirstInFirstOut
<1>1. Inv => FirstInFirstOut
  BY DEF Inv
<1> QED
  BY <1>1, InvCorrect, PTL

\* The queue and the batches keep their limits.
THEOREM SizesAlwaysBounded == Spec => []SizesBounded
<1>1. Inv => SizesBounded
  BY DEF Inv
<1> QED
  BY <1>1, InvCorrect, PTL

-----------------------------------------------------------------------------
(* A save brings every waiting record nearer, and nothing else moves one.    *)

\* A save is a new one: nothing that is being saved holds a queued record.
LEMMA BatchIsNew ==
    ASSUME Inv, blockingQueue # <<>>
    PROVE  Batch \notin saving
<1>1. /\ Len(Batch) \in 1..BatchSize
      /\ Elements(blockingQueue) = Elements(Batch) \cup Elements(Rest)
  BY BatchAndRest, BatchAndRestElements DEF Inv
<1>2. 1 \in 1..Len(Batch)
  BY <1>1, SizeAssumption
<1>3. Batch[1] \in Elements(Batch)
  BY <1>2 DEF Elements
<1> QED
  BY <1>1, <1>3 DEF Inv, NoLogTwice, InFlight

LEMMA SaveAdvances ==
    ASSUME Inv, SaveLog, NEW i \in 1..Len(blockingQueue)
    PROVE  Advances(i)
<1> DEFINE q == blockingQueue
<1>1. /\ q # <<>> /\ q' = Rest /\ saving' = saving \cup {Batch}
      /\ q \in Seq(Logs) /\ i \in Nat
  BY DEF SaveLog, Inv, TypeOK
<1>2. /\ Len(Batch) \in 1..BatchSize /\ Len(Rest) \in Nat
      /\ Len(Batch) + Len(Rest) = Len(q)
      /\ \A k \in 1..Len(Batch) : Batch[k] = q[k]
      /\ \A k \in 1..Len(Rest) : Rest[k] = q[Len(Batch) + k]
  BY <1>1, BatchAndRest DEF Inv
<1>3. Len(Batch) < Len(q) => Len(Batch) = BatchSize
  BY <1>1, SizeAssumption DEF Batch, Smaller
<1>4. CASE i <= BatchSize
  <2>1. i \in 1..Len(Batch)
    BY <1>1, <1>2, <1>3, <1>4, SizeAssumption
  <2>2. q[i] \in Elements(Batch)
    BY <1>2, <2>1 DEF Elements
  <2>3. Elements(Batch) \subseteq InFlight'
    BY <1>1 DEF InFlight
  <2> QED
    BY <1>4, <2>2, <2>3 DEF Advances
<1>5. CASE ~(i <= BatchSize)
  <2>1. Len(Batch) = BatchSize
    BY <1>1, <1>2, <1>3, <1>5, SizeAssumption
  <2>2. i - BatchSize \in 1..Len(Rest) /\ BatchSize + (i - BatchSize) = i
    BY <1>1, <1>2, <1>5, <2>1, SizeAssumption
  <2>3. Rest[i - BatchSize] = q[i]
    BY <1>2, <2>1, <2>2
  <2> QED
    BY <1>1, <1>5, <2>2, <2>3 DEF Advances
<1> QED
  BY <1>4, <1>5

LEMMA RecordStep ==
    ASSUME Inv, [Next]_vars, NEW i \in 1..Len(blockingQueue)
    PROVE  IF saving' \subseteq saving THEN Stays(i) ELSE Advances(i)
<1> DEFINE q == blockingQueue
<1>1. CASE UNCHANGED vars
  BY <1>1 DEF vars, Stays
<1>2. CASE Persist
  <2>1. /\ q \in Seq(Logs) /\ saving' = saving
        /\ q' = q \/ q' = Append(q, logged + 1)
        /\ logged + 1 \in Logs
    BY <1>2, NextLogIsNew DEF Persist, AddLog, Inv, TypeOK
  <2>2. Len(q) \in Nat /\ 1..Len(q) \subseteq 1..Len(q) + 1
    BY <2>1
  <2> QED
    BY <2>1, <2>2, AppendElement DEF Stays
<1>3. CASE LOG
  BY <1>3 DEF LOG, Stays
<1>4. CASE SaveLog
  <2>1. ~(saving' \subseteq saving)
    BY <1>4, BatchIsNew DEF SaveLog
  <2> QED
    BY <1>4, <2>1, SaveAdvances
<1>5. CASE \E batch \in saving : Saved(batch) \/ SaveFails(batch)
  BY <1>5 DEF Saved, SaveFails, Stays
<1> QED
  BY <1>1, <1>2, <1>3, <1>4, <1>5 DEF Next

\* No record is overtaken in the queue: whatever happens, a record keeps its
\* place until a run of saveLog takes it or brings it a whole batch nearer
\* to the head, so that the n-th record is part of a save after at most
\* n / BatchSize of them, however many more are queued (lines 105-112, 124-138).
THEOREM NoLogIsOvertaken == Spec => RecordsAdvance
<1>1. Inv /\ [Next]_vars =>
         [\A i \in 1..Len(blockingQueue) :
             IF saving' \subseteq saving THEN Stays(i) ELSE Advances(i)]_vars
  BY RecordStep
<1> QED
  BY <1>1, InvCorrect, PTL DEF Spec, RecordsAdvance
=============================================================================
