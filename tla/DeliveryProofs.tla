---------------------------- MODULE DeliveryProofs ----------------------------
(***************************************************************************)
(* NotificationQueue implements MessageDelivery, for all values of its     *)
(* constants and one worker.  The step-by-step argument rests on           *)
(* DeliveryInv, the inductive invariant of NotificationQueueProofs.        *)
(***************************************************************************)
EXTENDS NotificationQueueProofs

\* The rows selected and not yet claimed are rows of the table that were not
\* delivered and have an attempt left, whatever was cancelled meanwhile.
LEMMA SelectedRows ==
    ASSUME TypeOK, DeliveryInv, NEW i \in Selected
    PROVE  /\ i \in DOMAIN queue
           /\ queue[i].status \in {"pending", "cancelled"}
           /\ delivered[i] = 0 /\ calls[i] < MaxAttempts
<1>1. PICK w \in Workers : worker[w].pc = "selected" /\ i \in worker[w].ids
  BY DEF Selected
<1>2. i \in DOMAIN queue
  BY <1>1 DEF TypeOK
<1>3. queue[i].status \in {"pending", "cancelled"}
  BY <1>1 DEF DeliveryInv, Batch
<1>4. Ledger(i)
  BY <1>2 DEF DeliveryInv
<1> QED
  BY <1>2, <1>3, <1>4 DEF Ledger

\* Where a message is, by the status of its row.
LEMMA StageOf ==
    ASSUME TypeOK, NEW i
    PROVE  /\ i \notin DOMAIN queue => Stage(i) = "none"
           /\ i \in DOMAIN queue /\ (i \in Selected \/ queue[i].status = "in_flight")
                 => Stage(i) = "taken"
           /\ i \in DOMAIN queue /\ i \notin Selected /\ queue[i].status = "pending"
                 => Stage(i) = "waiting"
           /\ i \in DOMAIN queue /\ i \notin Selected /\ queue[i].status = "cancelled"
                 => Stage(i) = "dropped"
           /\ i \in DOMAIN queue /\ i \notin Selected
              /\ queue[i].status \in {"sent", "failed"}
                 => Stage(i) = queue[i].status
BY DEF Stage

\* It only depends on the status and on whether the row is selected.
LEMMA StageStays ==
    ASSUME TypeOK, NEW i \in RowIds,
           i \in DOMAIN queue <=> i \in DOMAIN queue',
           i \in Selected <=> i \in Selected',
           i \in DOMAIN queue => queue'[i].status = queue[i].status
    PROVE  Stage(i)' = Stage(i)
BY DEF Stage

\* Nothing is selected while the worker is anywhere else in its tick.
LEMMA SelectedBy ==
    ASSUME SingleWorker, NEW w \in Workers
    PROVE  Selected = IF worker[w].pc = "selected" THEN worker[w].ids ELSE {}
BY DEF SingleWorker, Selected

\* A step in which no message moves, and none is attempted, is a stutter.
LEMMA Stutters ==
    ASSUME UNCHANGED <<calls, delivered>>, \A i \in RowIds : Stage(i)' = Stage(i)
    PROVE  UNCHANGED Delivery!vars
BY DEF Delivery!vars

\* The steps of the requests and of the clock.
LEMMA RequestsMap ==
    ASSUME TypeOK, TypeOK', DeliveryInv, Requests \/ Tick
    PROVE  [Delivery!Next]_(Delivery!vars)
<1>a. DOMAIN queue = 1..Len(queue) /\ Len(queue) \in Nat /\ DOMAIN queue \subseteq RowIds
  BY DomainIds DEF TypeOK
<1>b. \A i \in DOMAIN queue : queue[i] \in Row
  BY DEF TypeOK
<1>c. UNCHANGED <<worker, calls, delivered>> /\ Selected' = Selected
  BY DEF Requests, Enqueue, CancelPendingReminders, Tick, Selected
<1>d. Selected \subseteq DOMAIN queue
  BY SelectedRows
<1>1. ASSUME NEW kind \in Kinds, NEW res \in Reservations \cup {NoReservation},
             NEW body \in Bodies, NEW due \in Delays, Enqueue(kind, res, body, due)
      PROVE  [Delivery!Next]_(Delivery!vars)
  <2> DEFINE row == NewRow(kind, res, body, due)
  <2>0. PICK n \in Nat : n = Len(queue) + 1
    BY <1>a
  <2>1. CASE queue' = queue
    BY <2>1, <1>c, Stutters DEF Stage
  <2>2. CASE queue' = Append(queue, row)
    <3>1. row \in Row /\ queue \in Seq(Row)
      BY QueueAssumption DEF NewRow, Row, Statuses, TypeOK
    <3>2. /\ DOMAIN queue' = 1..n
          /\ \A i \in 1..Len(queue) : queue'[i] = queue[i]
          /\ queue'[n] = row
      BY <2>0, <2>2, <3>1, AppendProperties
    <3>3. n \in RowIds /\ n \notin DOMAIN queue /\ n \notin Selected
      BY <1>1, <1>a, <1>d, <2>0, QueueAssumption DEF Enqueue, RowIds
    <3>4. Stage(n) = "none"
      BY <3>3, StageOf
    <3>5. Stage(n)' = "waiting"
      BY <1>a, <1>c, <2>0, <3>2, <3>3 DEF Stage, NewRow
    <3>6. \A i \in RowIds \ {n} : Stage(i)' = Stage(i)
      BY <1>a, <1>c, <2>0, <3>2, StageStays
    <3>7. Delivery!Accept(n)
      BY <1>c, <3>3, <3>4, <3>5, <3>6 DEF Delivery!Accept, Delivery!At, Delivery!Moved
    <3> QED
      BY <3>3, <3>7 DEF Delivery!Next
  <2> QED
    BY <1>1, <2>1, <2>2 DEF Enqueue, Enqueued
<1>2. ASSUME NEW res \in Reservations, CancelPendingReminders(res)
      PROVE  [Delivery!Next]_(Delivery!vars)
  <2> DEFINE Hit(i) == /\ queue[i].res = res /\ queue[i].kind = "reminder"
                       /\ queue[i].status = "pending"
             M == {i \in DOMAIN queue \ Selected : Hit(i)}
  <2>1. /\ DOMAIN queue' = DOMAIN queue
        /\ \A i \in DOMAIN queue :
              queue'[i].status = IF Hit(i) THEN "cancelled" ELSE queue[i].status
    BY <1>2, <1>b DEF CancelPendingReminders, RemindersCancelled, Row
  <2>2. \A i \in M : Stage(i) = "waiting" /\ Stage(i)' = "dropped"
    BY <1>c, <2>1 DEF Stage
  <2>3. \A i \in RowIds \ M : Stage(i)' = Stage(i)
    BY <1>c, <2>1 DEF Stage
  <2>4. M \in SUBSET RowIds
    BY <1>a
  <2>5. Delivery!Drop(M)
    BY <1>c, <2>2, <2>3, <2>4 DEF Delivery!Drop, Delivery!At, Delivery!Moved
  <2> QED
    BY <2>4, <2>5 DEF Delivery!Next
<1>3. ASSUME Tick
      PROVE  [Delivery!Next]_(Delivery!vars)
  <2>1. /\ DOMAIN queue' = DOMAIN queue
        /\ \A i \in DOMAIN queue : queue'[i].status = queue[i].status
    BY <1>3, <1>b DEF Tick, Aged, Row
  <2> QED
    BY <1>c, <2>1, StageStays, Stutters
<1> QED
  BY <1>1, <1>2, <1>3 DEF Requests

\* The steps of the worker.
LEMMA WorkerMaps ==
    ASSUME SingleWorker, TypeOK, TypeOK', DeliveryInv, NEW w \in Workers, WorkerStep(w)
    PROVE  [Delivery!Next]_(Delivery!vars)
<1>a. DOMAIN queue \subseteq RowIds /\ worker[w].ids \subseteq DOMAIN queue
  BY DomainIds DEF TypeOK
<1>b. \A i \in DOMAIN queue : queue[i] \in Row
  BY DEF TypeOK
<1>c. /\ Selected = IF worker[w].pc = "selected" THEN worker[w].ids ELSE {}
      /\ Selected' = IF worker'[w].pc = "selected" THEN worker'[w].ids ELSE {}
  BY SelectedBy DEF SingleWorker, Selected
<1>d. Batch(w) /\ Claims(w)
  BY DEF DeliveryInv
<1>1. CASE Select(w)
  <2>1. PickDue \in SUBSET RowIds /\ PickDue \subseteq DOMAIN queue
    BY <1>a DEF PickDue, DueRows
  <2>2. /\ Selected = {} /\ Selected' = PickDue
        /\ UNCHANGED <<queue, calls, delivered>>
    BY <1>1, <1>c DEF Select, TypeOK, WorkerState
  <2>3. \A i \in PickDue : Stage(i) = "waiting" /\ Stage(i)' = "taken"
    BY <2>1, <2>2 DEF PickDue, DueRows, Due, Stage
  <2>4. \A i \in RowIds \ PickDue : Stage(i)' = Stage(i)
    BY <2>2 DEF Stage
  <2>5. Delivery!Take(PickDue)
    BY <2>1, <2>2, <2>3, <2>4 DEF Delivery!Take, Delivery!At, Delivery!Moved
  <2> QED
    BY <2>1, <2>5 DEF Delivery!Next
<1>2. CASE Claim(w)
  <2>1. /\ Selected = worker[w].ids /\ Selected' = {}
        /\ UNCHANGED <<calls, delivered>>
    BY <1>2, <1>c DEF Claim, TypeOK, WorkerState
  <2>2. /\ DOMAIN queue' = DOMAIN queue
        /\ \A i \in DOMAIN queue :
              queue'[i].status = IF i \in Selected THEN "in_flight" ELSE queue[i].status
    BY <1>2, <1>b, <2>1 DEF Claim, Claimed, Row
  <2>3. \A i \in RowIds : Stage(i)' = Stage(i)
    BY <2>1, <2>2 DEF Stage
  <2> QED
    BY <2>1, <2>3, Stutters
<1>3. ASSUME NEW i \in RowIds, SendSucceeds(w, i) \/ SendRaises(w, i)
      PROVE  [Delivery!Next]_(Delivery!vars)
  <2>1. /\ worker[w].pc = "send" /\ worker[w].row # i /\ i \in worker[w].ids
        /\ i \in DOMAIN queue /\ UNCHANGED queue
        /\ calls' = [calls EXCEPT ![i] = @ + 1]
        /\ worker'[w].pc \in {"mark_sent", "mark_failed"}
    BY <1>3, <1>a DEF SendSucceeds, SendRaises, SendTo, IsNext, TypeOK, WorkerState, RowIds
  <2>2. queue[i].status = "in_flight" /\ delivered[i] = 0 /\ calls[i] + 1 = queue[i].attempts
    BY <1>d, <2>1 DEF Batch, Claims
  <2>3. calls[i] < MaxAttempts
    <3>1. queue[i].attempts \in Nat /\ calls[i] \in Nat
      BY <1>b, <2>1 DEF Row, TypeOK
    <3>2. queue[i].attempts <= MaxAttempts
      BY <2>1 DEF DeliveryInv, Ledger
    <3> QED
      BY <2>2, <3>1, <3>2, QueueAssumption
  <2>4. Selected = {} /\ Selected' = {}
    BY <1>c, <2>1
  <2>5. \A j \in RowIds : Stage(j)' = Stage(j)
    BY <2>1, <2>4 DEF Stage
  <2>6. Stage(i) = "taken"
    BY <2>1, <2>2 DEF Stage
  <2>7. delivered' = [delivered EXCEPT ![i] = 1] \/ UNCHANGED delivered
    BY <1>3, <2>2 DEF SendSucceeds, SendRaises
  <2>8. Delivery!Attempt(i)
    BY <2>1, <2>2, <2>3, <2>5, <2>6, <2>7 DEF Delivery!Attempt, Delivery!At
  <2> QED
    BY <2>8 DEF Delivery!Next
<1>4. CASE MarkSent(w) \/ MarkFailedOrRetry(w)
  <2>0. PICK k \in DOMAIN queue : k = worker[w].row /\ k \in worker[w].ids
    BY <1>4 DEF MarkSent, MarkFailedOrRetry, TypeOK
  <2>1. /\ Selected = {} /\ Selected' = {}
        /\ UNCHANGED <<calls, delivered>>
    <3>1. worker[w].pc # "selected" /\ worker'[w].pc \in {"idle", "send"}
      BY <1>4 DEF MarkSent, MarkFailedOrRetry, Advanced, TypeOK, WorkerState
    <3> QED
      BY <1>4, <1>c, <3>1 DEF MarkSent, MarkFailedOrRetry
  <2>2. /\ DOMAIN queue' = DOMAIN queue
        /\ \A i \in DOMAIN queue \ {k} : queue'[i] = queue[i]
    BY <1>4, <2>0 DEF MarkSent, MarkFailedOrRetry
  <2>3. \A i \in RowIds \ {k} : Stage(i)' = Stage(i)
    BY <2>1, <2>2 DEF Stage
  <2>4. Stage(k) = "taken" /\ k \in RowIds
    BY <1>4, <1>a, <1>d, <2>0 DEF MarkSent, MarkFailedOrRetry, Batch, Stage
  <2>5. CASE MarkSent(w)
    <3>1. queue'[k].status = "sent"
      BY <2>5, <2>0, <1>b DEF MarkSent, Row
    <3>2. Stage(k)' = "sent"
      BY <2>1, <2>2, <2>0, <3>1 DEF Stage
    <3>3. delivered[k] = 1
      BY <2>5, <2>0, <1>d DEF MarkSent, Claims
    <3>4. Delivery!Sent(k)
      BY <2>1, <2>3, <2>4, <3>2, <3>3 DEF Delivery!Sent, Delivery!At, Delivery!Moved
    <3> QED
      BY <2>4, <3>4 DEF Delivery!Next
  <2>6. CASE MarkFailedOrRetry(w)
    <3>1. queue'[k] = FailedOrRetried(queue[k])
      BY <2>6, <2>0 DEF MarkFailedOrRetry
    <3>2. delivered[k] = 0 /\ calls[k] = queue[k].attempts
      BY <2>6, <2>0, <1>d DEF MarkFailedOrRetry, Claims
    <3>3. /\ queue[k].attempts \in Nat /\ MaxAttempts \in Nat
          /\ queue[k].attempts <= MaxAttempts
      BY <2>0, <1>b, QueueAssumption DEF Row, DeliveryInv, Ledger
    <3>4. CASE queue[k].attempts >= MaxAttempts
      <4>1. queue'[k].status = "failed"
        BY <3>1, <3>4, <2>0, <1>b DEF FailedOrRetried, Row
      <4>2. Stage(k)' = "failed"
        BY <2>1, <2>2, <2>0, <4>1 DEF Stage
      <4>3. calls[k] = MaxAttempts
        BY <3>2, <3>3, <3>4
      <4>4. Delivery!GiveUp(k)
        BY <2>1, <2>3, <2>4, <3>2, <4>2, <4>3
        DEF Delivery!GiveUp, Delivery!At, Delivery!Moved
      <4> QED
        BY <2>4, <4>4 DEF Delivery!Next
    <3>5. CASE ~(queue[k].attempts >= MaxAttempts)
      <4>1. queue'[k].status = "pending"
        BY <3>1, <3>5, <2>0, <1>b DEF FailedOrRetried, Row
      <4>2. Stage(k)' = "waiting"
        BY <2>1, <2>2, <2>0, <4>1 DEF Stage
      <4>3. calls[k] < MaxAttempts
        BY <3>2, <3>3, <3>5
      <4>4. Delivery!GiveBack({k}, {})
        BY <2>1, <2>3, <2>4, <3>2, <4>2, <4>3 DEF Delivery!GiveBack, Delivery!At
      <4> QED
        BY <2>4, <4>4 DEF Delivery!Next
    <3> QED
      BY <3>4, <3>5
  <2> QED
    BY <1>4, <2>5, <2>6
<1> QED
  BY <1>1, <1>2, <1>3, <1>4 DEF WorkerStep

\* A tick that fails and a process that stops lose the selection.
LEMMA LossMaps ==
    ASSUME TypeOK, TypeOK', DeliveryInv, UNCHANGED <<queue, calls, delivered>>,
           Selected' \in {Selected, {}}
    PROVE  [Delivery!Next]_(Delivery!vars)
<1> DEFINE M == {i \in Selected : queue[i].status = "pending"}
           D == {i \in Selected : queue[i].status = "cancelled"}
<1>1. CASE Selected' = Selected
  BY <1>1, StageStays, Stutters
<1>2. CASE Selected' = {}
  <2>1. \A i \in M \cup D : /\ Stage(i) = "taken" /\ i \in RowIds
                            /\ delivered[i] = 0 /\ calls[i] < MaxAttempts
    BY SelectedRows, DomainIds DEF Stage
  <2>2. \A i \in M : Stage(i)' = "waiting"
    BY <1>2, SelectedRows DEF Stage
  <2>3. \A i \in D : Stage(i)' = "dropped" /\ i \notin M
    BY <1>2, SelectedRows DEF Stage
  <2>4. \A i \in RowIds \ (M \cup D) : Stage(i)' = Stage(i)
    BY <1>2, SelectedRows DEF Stage
  <2>5. Delivery!GiveBack(M, D)
    BY <2>1, <2>2, <2>3, <2>4 DEF Delivery!GiveBack, Delivery!At
  <2>6. M \in SUBSET RowIds /\ D \in SUBSET RowIds
    BY <2>1
  <2> QED
    BY <2>5, <2>6 DEF Delivery!Next
<1> QED
  BY <1>1, <1>2

\* With one worker the queue keeps the promise of MessageDelivery: whatever
\* ticks, failures, cancellations, kills and restarts do, every row goes through
\* the life of one message, and each of its steps is a step of that life or
\* invisible (queue.py, worker.py).
THEOREM QueueDelivers ==
    ASSUME SingleWorker
    PROVE  Spec => DeliverySpec
<1>1. Init => Delivery!Init
  BY DEF Init, Delivery!Init, Stage
<1>2. TypeOK /\ TypeOK' /\ DeliveryInv /\ [Next]_vars => [Delivery!Next]_(Delivery!vars)
  <2> SUFFICES ASSUME TypeOK, TypeOK', DeliveryInv, [Next]_vars
               PROVE  [Delivery!Next]_(Delivery!vars)
    OBVIOUS
  <2>1. CASE Requests \/ Tick
    BY <2>1, RequestsMap
  <2>2. ASSUME NEW w \in Workers, WorkerStep(w)
        PROVE  [Delivery!Next]_(Delivery!vars)
    BY <2>2, WorkerMaps
  <2>3. ASSUME NEW w \in Workers, TickFails(w)
        PROVE  [Delivery!Next]_(Delivery!vars)
    <3>1. Selected' = {}
      BY <2>3, SelectedBy DEF TickFails, TypeOK, Idle, SingleWorker, Selected
    <3> QED
      BY <2>3, <3>1, LossMaps DEF TickFails
  <2>4. CASE Started
    <3>1. Selected' = {}
      BY <2>4 DEF Started, Idle, Selected
    <3> QED
      BY <2>4, <3>1, LossMaps DEF Started
  <2>5. CASE UNCHANGED vars
    BY <2>5, LossMaps DEF vars, Selected
  <2> QED
    BY <2>1, <2>2, <2>3, <2>4, <2>5 DEF Next, CalmNext, Restart, Kill
<1> QED
  BY <1>1, <1>2, DeliveryInvariant, PTL DEF Spec, DeliverySpec, Delivery!Spec
=============================================================================
