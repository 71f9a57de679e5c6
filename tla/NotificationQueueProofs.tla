----------------------- MODULE NotificationQueueProofs -----------------------
(***************************************************************************)
(* Theorems about NotificationQueue for all values of its constants: types *)
(* for any number of workers, delivery for the one worker that runs, and   *)
(* what remains of it when there are several.                              *)
(***************************************************************************)
EXTENDS NotificationQueue, SequenceTheorems, FiniteSetTheorems, TLAPS

\* A table rewritten row by row keeps its length, and is a table of rows.
LEMMA RewrittenTable ==
    ASSUME NEW S, NEW q \in Seq(S), NEW f \in [DOMAIN q -> S]
    PROVE  f \in Seq(S) /\ Len(f) = Len(q) /\ DOMAIN f = DOMAIN q
<1>1. DOMAIN q = 1..Len(q) /\ Len(q) \in Nat
  OBVIOUS
<1>2. f \in Seq(S)
  BY <1>1, SeqDef
<1>3. Len(f) = Len(q)
  BY <1>1, <1>2
<1> QED
  BY <1>1, <1>2, <1>3

\* Backoff yields a whole number of minutes.
LEMMA BackoffType ==
    ASSUME NEW a \in Nat
    PROVE  Backoff(a) \in Int
<1>1. 2 ^ a \in Int
  OBVIOUS
<1> QED
  BY <1>1 DEF Backoff

\* An enqueue adds one row or none, and keeps the ids there were.
LEMMA EnqueuedType ==
    ASSUME NEW q \in Seq(Row), NEW row \in Row
    PROVE  /\ Enqueued(q, row) \in Seq(Row)
           /\ Len(Enqueued(q, row)) \in {Len(q), Len(q) + 1}
           /\ DOMAIN q \subseteq DOMAIN Enqueued(q, row)
<1>1. CASE Dropped(row.kind)
  BY <1>1 DEF Enqueued
<1>2. CASE ~Dropped(row.kind)
  <2>1. Enqueued(q, row) = Append(q, row)
    BY <1>2 DEF Enqueued
  <2>2. Append(q, row) \in Seq(Row) /\ Len(Append(q, row)) = Len(q) + 1
    BY AppendProperties
  <2>3. DOMAIN q = 1..Len(q) /\ DOMAIN Append(q, row) = 1..(Len(q) + 1) /\ Len(q) \in Nat
    BY <2>2
  <2> QED
    BY <2>1, <2>2, <2>3
<1> QED
  BY <1>1, <1>2

-----------------------------------------------------------------------------
(* Type correctness                                                        *)

\* The table keeps its rows' type, its bound, and every id it had.
QueueExtends ==
    /\ queue' \in Seq(Row)
    /\ Len(queue') <= MaxRows
    /\ DOMAIN queue \subseteq DOMAIN queue'

\* A step that rewrites rows in place keeps ids and bound.
LEMMA RewriteExtends ==
    ASSUME TypeOK, queue' \in [DOMAIN queue -> Row]
    PROVE  QueueExtends
<1>1. queue \in Seq(Row) /\ Len(queue) <= MaxRows
  BY DEF TypeOK
<1> QED
  BY <1>1, RewrittenTable DEF QueueExtends

\* A tick of the clock yields a row.
LEMMA ClockType ==
    ASSUME NEW row \in Row
    PROVE  Aged(row) \in Row
BY QueueAssumption DEF Aged, Row

\* So do a claim, a success, a cancellation and a failure.
LEMMA OutcomeType ==
    ASSUME NEW row \in Row
    PROVE  /\ FailedOrRetried(row) \in Row
           /\ \A s \in Statuses : [row EXCEPT !.status = s] \in Row
           /\ [row EXCEPT !.status = "in_flight", !.attempts = @ + 1] \in Row
<1>1. Backoff(row.attempts) \in Int
  BY BackoffType DEF Row
<1>2. /\ [row EXCEPT !.status = "failed"] \in Row
      /\ [row EXCEPT !.status = "pending", !.due = Backoff(row.attempts)] \in Row
  BY <1>1 DEF Row, Statuses
<1>3. ASSUME NEW s \in Statuses
      PROVE  [row EXCEPT !.status = s] \in Row
  BY DEF Row
<1>4. [row EXCEPT !.status = "in_flight", !.attempts = @ + 1] \in Row
  <2>1. row.attempts + 1 \in Nat
    BY DEF Row
  <2>2. ASSUME NEW n \in Nat
        PROVE  [row EXCEPT !.status = "in_flight", !.attempts = n] \in Row
    BY DEF Row, Statuses
  <2> QED
    BY <2>1, <2>2
<1>5. FailedOrRetried(row) \in Row
  BY <1>2 DEF FailedOrRetried
<1> QED
  BY <1>3, <1>4, <1>5, Zenon

\* What a step must show of the workers when the table only grows.
WorkersTyped ==
    /\ worker' \in [Workers -> WorkerState]
    /\ \A w \in Workers :
          /\ worker'[w].ids \subseteq DOMAIN queue'
          /\ worker'[w].row \in worker'[w].ids \cup {0}
          /\ worker'[w].row # 0 <=> worker'[w].pc \in {"mark_sent", "mark_failed"}

\* Workers that do nothing stay typed while the table keeps its ids.
LEMMA WorkersUntouched ==
    ASSUME TypeOK, QueueExtends, UNCHANGED worker
    PROVE  WorkersTyped
BY DEF TypeOK, QueueExtends, WorkersTyped

\* After an outcome a worker holds no current row, and no new ids.
LEMMA AdvancedType ==
    ASSUME NEW D \in SUBSET RowIds, NEW st \in WorkerState, st.ids \subseteq D,
           st.row # 0
    PROVE  /\ Advanced(st) \in WorkerState
           /\ Advanced(st).ids \subseteq D
           /\ Advanced(st).row = 0
           /\ Advanced(st).pc \in {"idle", "send"}
BY DEF Advanced, WorkerState

\* The ids of the table are within the bound.
LEMMA DomainIds ==
    ASSUME TypeOK
    PROVE  DOMAIN queue \subseteq RowIds
BY QueueAssumption DEF TypeOK, RowIds

\* Every step keeps the types.
LEMMA TypePreserved ==
    TypeOK /\ [Next]_vars => TypeOK'
<1> SUFFICES ASSUME TypeOK, [Next]_vars PROVE TypeOK'
  OBVIOUS
<1> DEFINE Counted == suppress' \in BOOLEAN /\ calls' \in [RowIds -> Nat]
                        /\ delivered' \in [RowIds -> Nat]
<1>0. QueueExtends /\ WorkersTyped /\ Counted => TypeOK'
  BY DEF TypeOK, QueueExtends, WorkersTyped
<1>a. UNCHANGED queue => QueueExtends
  BY DEF TypeOK, QueueExtends
<1>b. UNCHANGED <<suppress, calls, delivered>> => Counted
  BY DEF TypeOK
<1>c. \A i \in DOMAIN queue : queue[i] \in Row
  BY DEF TypeOK
<1>1. ASSUME NEW kind \in Kinds, NEW res \in Reservations \cup {NoReservation},
             NEW body \in Bodies, NEW due \in Delays, Enqueue(kind, res, body, due)
      PROVE  TypeOK'
  <2>1. NewRow(kind, res, body, due) \in Row
    BY QueueAssumption DEF NewRow, Row, Statuses
  <2>2. QueueExtends
    BY <1>1, <2>1, EnqueuedType, QueueAssumption DEF Enqueue, TypeOK, QueueExtends
  <2> QED
    BY <1>0, <1>1, <1>b, <2>2, WorkersUntouched DEF Enqueue
<1>2. ASSUME NEW res \in Reservations, CancelPendingReminders(res)
      PROVE  TypeOK'
  <2>1. queue' \in [DOMAIN queue -> Row]
    BY <1>2, <1>c, OutcomeType DEF CancelPendingReminders, RemindersCancelled, Statuses
  <2> QED
    BY <1>0, <1>2, <1>b, <2>1, RewriteExtends, WorkersUntouched DEF CancelPendingReminders
<1>3. ASSUME NEW w \in Workers, Select(w)
      PROVE  TypeOK'
  <2>1. PickDue \subseteq DOMAIN queue /\ PickDue \subseteq RowIds
    BY DomainIds DEF PickDue, DueRows
  <2>2. WorkersTyped
    BY <1>3, <2>1 DEF Select, TypeOK, WorkersTyped, WorkerState
  <2> QED
    BY <1>0, <1>3, <1>a, <1>b, <2>2 DEF Select
<1>4. ASSUME NEW w \in Workers, Claim(w)
      PROVE  TypeOK'
  <2>1. queue' \in [DOMAIN queue -> Row]
    BY <1>4, <1>c, OutcomeType DEF Claim, Claimed
  <2>2. QueueExtends
    BY <2>1, RewriteExtends
  <2>3. WorkersTyped
    BY <1>4, <2>2 DEF Claim, TypeOK, QueueExtends, WorkersTyped, WorkerState
  <2> QED
    BY <1>0, <1>4, <1>b, <2>2, <2>3 DEF Claim
<1>5. ASSUME NEW w \in Workers, NEW i \in RowIds, NEW pc \in {"mark_sent", "mark_failed"},
             SendTo(w, i, pc), delivered' \in [RowIds -> Nat]
      PROVE  TypeOK'
  <2>1. WorkersTyped
    BY <1>5 DEF SendTo, IsNext, TypeOK, WorkersTyped, WorkerState, RowIds
  <2>2. Counted
    BY <1>5 DEF SendTo, TypeOK
  <2> QED
    BY <1>0, <1>5, <1>a, <2>1, <2>2 DEF SendTo
<1>6. ASSUME NEW w \in Workers, NEW i \in RowIds, SendSucceeds(w, i) \/ SendRaises(w, i)
      PROVE  TypeOK'
  <2>1. delivered' \in [RowIds -> Nat]
    BY <1>6 DEF SendSucceeds, SendRaises, TypeOK
  <2> QED
    BY <1>5, <1>6, <2>1 DEF SendSucceeds, SendRaises
<1>7. ASSUME NEW w \in Workers, MarkSent(w) \/ MarkFailedOrRetry(w)
      PROVE  TypeOK'
  <2> DEFINE st == worker[w]
  <2>1. st \in WorkerState /\ st.ids \subseteq DOMAIN queue /\ st.row # 0
        /\ st.row \in DOMAIN queue
    BY <1>7 DEF MarkSent, MarkFailedOrRetry, TypeOK
  <2>2. queue[st.row] \in Row
    BY <2>1, <1>c
  <2>3. /\ FailedOrRetried(queue[st.row]) \in Row
        /\ [queue[st.row] EXCEPT !.status = "sent"] \in Row
    BY <2>2, OutcomeType DEF Statuses
  <2>4. queue' \in [DOMAIN queue -> Row]
    <3>1. CASE MarkSent(w)
      <4>1. queue' = [queue EXCEPT ![st.row] = [@ EXCEPT !.status = "sent"]]
        BY <3>1 DEF MarkSent
      <4> QED
        BY <4>1, <1>c, <2>1, <2>3 DEF TypeOK
    <3>2. CASE MarkFailedOrRetry(w)
      <4>1. queue' = [queue EXCEPT ![st.row] = FailedOrRetried(@)]
        BY <3>2 DEF MarkFailedOrRetry
      <4> QED
        BY <4>1, <1>c, <2>1, <2>3 DEF TypeOK
    <3> QED
      BY <1>7, <3>1, <3>2
  <2>5. QueueExtends
    BY <2>4, RewriteExtends
  <2>6. /\ Advanced(st) \in WorkerState
        /\ Advanced(st).ids \subseteq DOMAIN queue
        /\ Advanced(st).row = 0
        /\ Advanced(st).pc \in {"idle", "send"}
    BY <2>1, DomainIds, AdvancedType
  <2>7. worker' = [worker EXCEPT ![w] = Advanced(st)]
    BY <1>7 DEF MarkSent, MarkFailedOrRetry
  <2>8. WorkersTyped
    BY <2>5, <2>6, <2>7 DEF TypeOK, QueueExtends, WorkersTyped
  <2> QED
    BY <1>0, <1>7, <1>b, <2>5, <2>8 DEF MarkSent, MarkFailedOrRetry
<1>8. ASSUME NEW w \in Workers, TickFails(w)
      PROVE  TypeOK'
  <2>1. WorkersTyped
    BY <1>8 DEF TickFails, TypeOK, WorkersTyped, WorkerState, Idle
  <2> QED
    BY <1>0, <1>8, <1>a, <1>b, <2>1 DEF TickFails
<1>9. ASSUME Started
      PROVE  TypeOK'
  <2>1. WorkersTyped
    BY <1>9 DEF Started, WorkersTyped, WorkerState, Idle
  <2>2. Counted
    BY <1>9 DEF Started, TypeOK
  <2> QED
    BY <1>0, <1>9, <1>a, <2>1, <2>2 DEF Started
<1>10. ASSUME Tick
       PROVE  TypeOK'
  <2>1. queue' \in [DOMAIN queue -> Row]
    BY <1>10, ClockType DEF Tick, TypeOK
  <2> QED
    BY <1>0, <1>10, <1>b, <2>1, RewriteExtends, WorkersUntouched DEF Tick
<1>11. CASE UNCHANGED vars
  BY <1>11 DEF vars, TypeOK
<1> QED
  BY <1>1, <1>2, <1>3, <1>4, <1>6, <1>7, <1>8, <1>9, <1>10, <1>11
  DEF Next, CalmNext, Requests, WorkerStep, Restart, Kill

\* Every reachable state is typed: the rows, the counts, and the memory of a
\* worker, which only ever names rows of the table and, while an outcome has to
\* be recorded, the row it is about (queue.py, worker.py).
THEOREM TypeCorrect == Spec => []TypeOK
<1>1. Init => TypeOK
  BY QueueAssumption DEF Init, TypeOK, Idle, WorkerState
<1>2. TypeOK /\ [Next]_vars => TypeOK'
  BY TypePreserved
<1> QED
  BY <1>1, <1>2, PTL DEF Spec

-----------------------------------------------------------------------------
(* Delivery.  The application lifespan starts one worker (main.py); with    *)
(* two, both can claim a row between the other's SELECT and UPDATE.         *)

SingleWorker == \A v, w \in Workers : v = w

\* The rows a worker holds: still claimable until it claims them, and its own
\* from then on.
Batch(w) ==
    /\ worker[w].pc = "idle" => worker[w].ids = {}
    /\ worker[w].pc = "selected" =>
          \A i \in worker[w].ids : queue[i].status \in {"pending", "cancelled"}
    /\ worker[w].pc \in {"send", "mark_sent", "mark_failed"} =>
          \A i \in worker[w].ids : queue[i].status = "in_flight"

\* What happened to a row, by its status.
Ledger(i) ==
    /\ queue[i].attempts <= MaxAttempts
    /\ calls[i] <= queue[i].attempts
    /\ delivered[i] <= 1
    /\ queue[i].status \in {"pending", "cancelled"} =>
          /\ delivered[i] = 0
          /\ calls[i] = queue[i].attempts
          /\ queue[i].attempts < MaxAttempts
    /\ queue[i].status = "sent" => delivered[i] = 1
    /\ queue[i].status = "failed" => delivered[i] = 0 /\ calls[i] = MaxAttempts

\* What happened to a claimed row: its last attempt is not spent before it is
\* sent, and the outcome to record is the outcome there was.
Claims(w) ==
    worker[w].pc \in {"send", "mark_sent", "mark_failed"} =>
        \A i \in worker[w].ids :
            /\ i # worker[w].row =>
                  delivered[i] = 0 /\ calls[i] + 1 = queue[i].attempts
            /\ i = worker[w].row =>
                  delivered[i] = IF worker[w].pc = "mark_sent" THEN 1 ELSE 0
            /\ i = worker[w].row => calls[i] = queue[i].attempts

Untouched == \A i \in RowIds \ DOMAIN queue : calls[i] = 0 /\ delivered[i] = 0

DeliveryInv ==
    /\ \A w \in Workers : Batch(w) /\ Claims(w)
    /\ \A i \in DOMAIN queue : Ledger(i)
    /\ Untouched

\* Every step of a single worker and of the others keeps the ledger.
LEMMA DeliveryPreserved ==
    SingleWorker /\ TypeOK /\ TypeOK' /\ DeliveryInv /\ [Next]_vars => DeliveryInv'
<1> SUFFICES ASSUME SingleWorker, TypeOK, TypeOK', DeliveryInv, [Next]_vars
             PROVE  DeliveryInv'
  OBVIOUS
<1> DEFINE Workers1 == \A w \in Workers : Batch(w)' /\ Claims(w)'
           Ledgers1 == \A i \in DOMAIN queue' : Ledger(i)'
<1>0. Workers1 /\ Ledgers1 /\ Untouched' => DeliveryInv'
  BY DEF DeliveryInv
<1>c. \A i \in DOMAIN queue : queue[i] \in Row
  BY DEF TypeOK
<1>a. /\ DOMAIN queue = 1..Len(queue) /\ Len(queue) \in Nat
      /\ DOMAIN queue \subseteq RowIds
      /\ \A i \in DOMAIN queue :
            /\ queue[i].attempts \in Nat /\ queue[i].status \in Statuses
            /\ calls[i] \in Nat /\ delivered[i] \in Nat
  <2>1. DOMAIN queue = 1..Len(queue) /\ Len(queue) \in Nat
    BY DEF TypeOK
  <2>2. calls \in [RowIds -> Nat] /\ delivered \in [RowIds -> Nat]
    BY DEF TypeOK
  <2> QED
    BY <1>c, <2>1, <2>2, DomainIds DEF Row
<1>d. \A w \in Workers : worker[w].ids \subseteq DOMAIN queue
  BY DEF TypeOK
<1>1. ASSUME NEW kind \in Kinds, NEW res \in Reservations \cup {NoReservation},
             NEW body \in Bodies, NEW due \in Delays, Enqueue(kind, res, body, due)
      PROVE  DeliveryInv'
  <2> DEFINE row == NewRow(kind, res, body, due)
  <2>1. queue' = queue \/ queue' = Append(queue, row)
    BY <1>1 DEF Enqueue, Enqueued
  <2>2. /\ DOMAIN queue \subseteq DOMAIN queue'
        /\ \A i \in DOMAIN queue : queue'[i] = queue[i]
        /\ \A i \in DOMAIN queue' \ DOMAIN queue : i \in RowIds /\ queue'[i] = row
    <3>1. CASE queue' = queue
      BY <3>1
    <3>2. CASE queue' = Append(queue, row)
      <4>1. row \in Row /\ queue \in Seq(Row)
        BY QueueAssumption DEF NewRow, Row, Statuses, TypeOK
      <4>2. /\ DOMAIN queue' = 1..(Len(queue) + 1)
            /\ \A i \in 1..Len(queue) : queue'[i] = queue[i]
            /\ queue'[Len(queue) + 1] = row
        BY <3>2, <4>1, AppendProperties
      <4>3. Len(queue) + 1 \in RowIds
        BY <1>1, <1>a, QueueAssumption DEF Enqueue, RowIds
      <4> QED
        BY <1>a, <4>2, <4>3
    <3> QED
      BY <2>1, <3>1, <3>2
  <2>3. UNCHANGED <<worker, calls, delivered>>
    BY <1>1 DEF Enqueue
  <2>4. Workers1
    BY <2>2, <2>3, <1>d DEF DeliveryInv, Batch, Claims
  <2>5. row.status = "pending" /\ row.attempts = 0
    BY DEF NewRow
  <2>6. Ledgers1
    BY <2>2, <2>3, <2>5, QueueAssumption DEF DeliveryInv, Ledger, Untouched
  <2>7. Untouched'
    BY <2>2, <2>3 DEF DeliveryInv, Untouched
  <2> QED
    BY <1>0, <2>4, <2>6, <2>7
<1>2. ASSUME NEW res \in Reservations, CancelPendingReminders(res)
      PROVE  DeliveryInv'
  <2>1. /\ DOMAIN queue' = DOMAIN queue
        /\ \A i \in DOMAIN queue :
              /\ queue'[i].attempts = queue[i].attempts
              /\ \/ queue'[i].status = queue[i].status
                 \/ queue[i].status = "pending" /\ queue'[i].status = "cancelled"
    BY <1>2, <1>c DEF CancelPendingReminders, RemindersCancelled
  <2>2. UNCHANGED <<worker, calls, delivered>>
    BY <1>2 DEF CancelPendingReminders
  <2>3. Workers1
    BY <2>1, <2>2, <1>d DEF DeliveryInv, Batch, Claims
  <2>4. Ledgers1
    BY <2>1, <2>2 DEF DeliveryInv, Ledger
  <2>5. Untouched'
    BY <2>1, <2>2 DEF DeliveryInv, Untouched
  <2> QED
    BY <1>0, <2>3, <2>4, <2>5
<1>3. ASSUME NEW w \in Workers, Select(w)
      PROVE  DeliveryInv'
  <2>1. /\ worker'[w].pc = "selected" /\ worker'[w].ids = PickDue
        /\ \A v \in Workers : v = w
        /\ UNCHANGED <<queue, calls, delivered>>
    BY <1>3 DEF Select, SingleWorker, TypeOK, WorkerState
  <2>2. \A i \in PickDue : queue[i].status = "pending"
    BY DEF PickDue, DueRows, Due
  <2>3. Batch(w)' /\ Claims(w)'
    BY <2>1, <2>2 DEF Batch, Claims
  <2>4. Ledgers1 /\ Untouched'
    BY <2>1 DEF DeliveryInv, Ledger, Untouched
  <2> QED
    BY <1>0, <2>1, <2>3, <2>4
<1>4. ASSUME NEW w \in Workers, Claim(w)
      PROVE  DeliveryInv'
  <2> DEFINE ids == worker[w].ids
  <2>1. /\ worker'[w].pc = "send" /\ worker'[w].ids = ids
        /\ worker'[w].row = worker[w].row /\ worker[w].row = 0
        /\ \A v \in Workers : v = w
        /\ worker[w].pc = "selected"
        /\ ids \subseteq DOMAIN queue
        /\ UNCHANGED <<calls, delivered>>
    BY <1>4 DEF Claim, SingleWorker, TypeOK, WorkerState
  <2>2. queue' = [i \in DOMAIN queue |->
                    IF i \in ids
                    THEN [queue[i] EXCEPT !.status = "in_flight", !.attempts = @ + 1]
                    ELSE queue[i]]
    BY <1>4 DEF Claim, Claimed
  <2>3. /\ DOMAIN queue' = DOMAIN queue
        /\ \A i \in DOMAIN queue \ ids : queue'[i] = queue[i]
        /\ \A i \in ids : /\ queue'[i].status = "in_flight"
                          /\ queue'[i].attempts = queue[i].attempts + 1
    BY <2>1, <2>2, <1>c DEF Row
  <2>4. \A i \in ids : /\ delivered[i] = 0
                       /\ calls[i] = queue[i].attempts
                       /\ queue[i].attempts < MaxAttempts
    BY <2>1 DEF DeliveryInv, Batch, Ledger
  <2>5. Batch(w)' /\ Claims(w)'
    BY <2>1, <2>3, <2>4, <1>a, QueueAssumption DEF Batch, Claims, RowIds
  <2>6. Ledgers1
    BY <2>1, <2>3, <2>4, <1>a, QueueAssumption DEF DeliveryInv, Ledger
  <2>7. Untouched'
    BY <2>1, <2>3 DEF DeliveryInv, Untouched
  <2> QED
    BY <1>0, <2>1, <2>5, <2>6, <2>7
<1>5. ASSUME NEW w \in Workers, NEW i \in RowIds, SendSucceeds(w, i) \/ SendRaises(w, i)
      PROVE  DeliveryInv'
  <2>0. /\ \A v \in Workers : v = w
        /\ worker[w].pc = "send" /\ worker[w].row = 0 /\ worker[w].ids \subseteq DOMAIN queue
    BY <1>5 DEF SendSucceeds, SendRaises, SendTo, SingleWorker, TypeOK
  <2>1. /\ i # 0 /\ i \in worker[w].ids /\ i \in DOMAIN queue
        /\ worker'[w].ids = worker[w].ids /\ worker'[w].row = i
        /\ UNCHANGED queue
        /\ calls'[i] = calls[i] + 1
        /\ \A j \in RowIds \ {i} : calls'[j] = calls[j] /\ delivered'[j] = delivered[j]
    <3>1. i # 0 /\ i \in worker[w].ids /\ i \in DOMAIN queue /\ UNCHANGED queue
      BY <1>5, <2>0 DEF SendSucceeds, SendRaises, SendTo, IsNext, RowIds
    <3>2. worker'[w].ids = worker[w].ids /\ worker'[w].row = i
      BY <1>5 DEF SendSucceeds, SendRaises, SendTo, TypeOK, WorkerState
    <3>3. /\ calls'[i] = calls[i] + 1
          /\ \A j \in RowIds \ {i} : calls'[j] = calls[j] /\ delivered'[j] = delivered[j]
      BY <1>5 DEF SendSucceeds, SendRaises, SendTo, TypeOK
    <3> QED
      BY <3>1, <3>2, <3>3
  <2>2. \/ worker'[w].pc = "mark_sent" /\ delivered'[i] = delivered[i] + 1
        \/ worker'[w].pc = "mark_failed" /\ delivered'[i] = delivered[i]
    BY <1>5 DEF SendSucceeds, SendRaises, SendTo, TypeOK, WorkerState
  <2>3. delivered[i] = 0 /\ calls[i] + 1 = queue[i].attempts /\ queue[i].status = "in_flight"
    BY <2>0, <2>1 DEF DeliveryInv, Claims, Batch
  <2>5. Batch(w)'
    BY <2>0, <2>1, <2>2 DEF DeliveryInv, Batch
  <2>6. Claims(w)'
    BY <2>0, <2>1, <2>2, <2>3, <1>a DEF DeliveryInv, Claims
  <2>7. Ledgers1
    BY <2>1, <2>2, <2>3, <1>a DEF DeliveryInv, Ledger
  <2>8. Untouched'
    BY <2>1 DEF DeliveryInv, Untouched
  <2> QED
    BY <1>0, <2>0, <2>5, <2>6, <2>7, <2>8
<1>6. ASSUME NEW w \in Workers, MarkSent(w) \/ MarkFailedOrRetry(w)
      PROVE  DeliveryInv'
  <2>0. PICK k \in DOMAIN queue : k = worker[w].row
    BY <1>6 DEF MarkSent, MarkFailedOrRetry, TypeOK
  <2> DEFINE rest == worker[w].ids \ {k}
  <2>1. /\ worker'[w] = [pc |-> IF rest = {} THEN "idle" ELSE "send",
                         ids |-> rest, row |-> 0]
        /\ \A v \in Workers : v = w
        /\ UNCHANGED <<calls, delivered>>
    BY <1>6, <2>0 DEF MarkSent, MarkFailedOrRetry, Advanced, SingleWorker, TypeOK
  <2>2. k \in worker[w].ids /\ k \in DOMAIN queue /\ worker[w].ids \subseteq DOMAIN queue
    BY <1>6, <2>0 DEF MarkSent, MarkFailedOrRetry, TypeOK
  <2>3. /\ DOMAIN queue' = DOMAIN queue
        /\ \A i \in DOMAIN queue \ {k} : queue'[i] = queue[i]
    BY <1>6, <2>0, <2>2 DEF MarkSent, MarkFailedOrRetry
  <2>4. calls[k] = queue[k].attempts
    BY <1>6, <2>0, <2>2 DEF MarkSent, MarkFailedOrRetry, DeliveryInv, Claims
  <2>5. Ledger(k)'
    <3>1. CASE MarkSent(w)
      <4>1. queue'[k].status = "sent" /\ queue'[k].attempts = queue[k].attempts
        BY <3>1, <2>0, <2>2, <1>c DEF MarkSent, Row
      <4>2. delivered[k] = 1
        BY <3>1, <2>0, <2>2 DEF MarkSent, DeliveryInv, Claims
      <4> QED
        BY <4>1, <4>2, <2>1, <2>0, <2>2 DEF DeliveryInv, Ledger
    <3>2. CASE MarkFailedOrRetry(w)
      <4>1. queue'[k] = FailedOrRetried(queue[k])
        BY <3>2, <2>0, <2>2 DEF MarkFailedOrRetry
      <4>2. /\ queue'[k].attempts = queue[k].attempts
            /\ \/ queue'[k].status = "failed" /\ queue[k].attempts >= MaxAttempts
               \/ queue'[k].status = "pending" /\ ~(queue[k].attempts >= MaxAttempts)
        BY <4>1, <2>0, <2>2, <1>c DEF FailedOrRetried, Row
      <4>3. delivered[k] = 0
        BY <3>2, <2>0, <2>2 DEF MarkFailedOrRetry, DeliveryInv, Claims
      <4> QED
        BY <4>2, <4>3, <2>1, <2>0, <2>2, <2>4, <1>a, QueueAssumption DEF DeliveryInv, Ledger
    <3> QED
      BY <1>6, <3>1, <3>2
  <2>6. Ledgers1
    BY <2>1, <2>3, <2>5 DEF DeliveryInv, Ledger
  <2>7. Batch(w)'
    BY <1>6, <2>1, <2>0, <2>2, <2>3 DEF MarkSent, MarkFailedOrRetry, DeliveryInv, Batch
  <2>8. Claims(w)'
    BY <1>6, <2>1, <2>0, <2>2, <2>3, <1>a, QueueAssumption
    DEF MarkSent, MarkFailedOrRetry, DeliveryInv, Claims, RowIds
  <2>9. Untouched'
    BY <2>1, <2>3 DEF DeliveryInv, Untouched
  <2> QED
    BY <1>0, <2>1, <2>6, <2>7, <2>8, <2>9
<1>7. ASSUME UNCHANGED <<queue, calls, delivered>>,
             \A w \in Workers : worker'[w] = Idle \/ worker'[w] = worker[w]
      PROVE  DeliveryInv'
  <2>1. Workers1
    BY <1>7 DEF DeliveryInv, Batch, Claims, Idle
  <2>2. Ledgers1 /\ Untouched'
    BY <1>7 DEF DeliveryInv, Ledger, Untouched
  <2> QED
    BY <1>0, <2>1, <2>2
<1>8. ASSUME NEW w \in Workers, TickFails(w)
      PROVE  DeliveryInv'
  BY <1>7, <1>8 DEF TickFails, TypeOK
<1>9. ASSUME Started
      PROVE  DeliveryInv'
  BY <1>7, <1>9 DEF Started
<1>10. ASSUME Tick
       PROVE  DeliveryInv'
  <2>1. queue' = [i \in DOMAIN queue |-> Aged(queue[i])]
    BY <1>10 DEF Tick
  <2>2. /\ DOMAIN queue' = DOMAIN queue
        /\ \A i \in DOMAIN queue : /\ queue'[i].status = queue[i].status
                                   /\ queue'[i].attempts = queue[i].attempts
    BY <2>1, <1>c DEF Aged, Row
  <2>3. UNCHANGED <<worker, calls, delivered>>
    BY <1>10 DEF Tick
  <2>4. Workers1
    BY <2>2, <2>3, <1>d DEF DeliveryInv, Batch, Claims
  <2>5. Ledgers1
    BY <2>2, <2>3 DEF DeliveryInv, Ledger
  <2>6. Untouched'
    BY <2>2, <2>3 DEF DeliveryInv, Untouched
  <2> QED
    BY <1>0, <2>4, <2>5, <2>6
<1>11. CASE UNCHANGED vars
  BY <1>7, <1>11 DEF vars
<1> QED
  BY <1>1, <1>2, <1>3, <1>4, <1>5, <1>6, <1>8, <1>9, <1>10, <1>11
  DEF Next, CalmNext, Requests, WorkerStep, Restart, Kill

\* The inductive invariant holds in every reachable state.
LEMMA DeliveryInvariant ==
    ASSUME SingleWorker
    PROVE  Spec => [](TypeOK /\ DeliveryInv)
<1>1. Init => DeliveryInv
  BY DEF Init, DeliveryInv, Batch, Claims, Untouched, Idle
<1>2. TypeOK /\ TypeOK' /\ DeliveryInv /\ [Next]_vars => DeliveryInv'
  BY DeliveryPreserved
<1> QED
  BY <1>1, <1>2, TypeCorrect, PTL DEF Spec

\* With one worker no customer gets a message twice, however claims, sends,
\* failures, cancellations, crashes and restarts interleave: pick_due records
\* the claim before notifier.send is called, and nothing makes an in-flight row
\* claimable again once it was delivered.
THEOREM AtMostOnceDelivery ==
    ASSUME SingleWorker
    PROVE  Spec => []AtMostOnce
<1>1. TypeOK /\ DeliveryInv => AtMostOnce
  BY DomainIds DEF DeliveryInv, Ledger, Untouched, AtMostOnce
<1> QED
  BY <1>1, DeliveryInvariant, PTL

\* With one worker the provider is called at most MaxAttempts times for a row
\* and never without an attempt recorded before (pick_due, process_batch).
THEOREM RetryBudgetKept ==
    ASSUME SingleWorker
    PROVE  Spec => []RetryBudget
<1>1. TypeOK /\ DeliveryInv => RetryBudget
  BY DEF DeliveryInv, Ledger, RetryBudget
<1> QED
  BY <1>1, DeliveryInvariant, PTL

\* With one worker the status of a row tells what happened to its message
\* (mark_sent, mark_failed_or_retry, cancel_pending_reminders_for).
THEOREM StatusTellsTheTruth ==
    ASSUME SingleWorker
    PROVE  Spec => []StatusHonest
<1>1. TypeOK /\ DeliveryInv => StatusHonest
  <2> SUFFICES ASSUME TypeOK, DeliveryInv, NEW i \in DOMAIN queue
               PROVE  StatusHonest!(i)
    BY DEF StatusHonest
  <2>1. queue[i].status \in Statuses
    <3>1. queue[i] \in Row
      BY DEF TypeOK
    <3> QED
      BY <3>1 DEF Row
  <2>2. Ledger(i)
    BY DEF DeliveryInv
  <2> QED
    BY <2>1, <2>2 DEF Ledger, Statuses
<1> QED
  BY <1>1, DeliveryInvariant, PTL

\* With one worker a row that was sent or given up is never written again: no
\* worker holds it, and the other writers look at its status.
THEOREM FinalRowsStay ==
    ASSUME SingleWorker
    PROVE  Spec => Final
<1> DEFINE Stay == \A i \in DOMAIN queue :
                      queue[i].status \in {"sent", "failed"} => queue'[i] = queue[i]
<1>1. TypeOK /\ DeliveryInv /\ [Next]_vars => [Stay]_vars
  <2> SUFFICES ASSUME TypeOK, DeliveryInv, Next,
                      NEW i \in DOMAIN queue, queue[i].status \in {"sent", "failed"}
               PROVE  queue'[i] = queue[i]
    BY DEF vars
  <2>1. queue \in Seq(Row) /\ queue[i] \in Row
    BY DEF TypeOK
  <2>2. \A w \in Workers : i \in worker[w].ids => worker[w].pc = "idle"
    BY DEF DeliveryInv, Batch, TypeOK, WorkerState
  <2>3. ASSUME NEW kind \in Kinds, NEW res \in Reservations \cup {NoReservation},
               NEW body \in Bodies, NEW due \in Delays, Enqueue(kind, res, body, due)
        PROVE  queue'[i] = queue[i]
    <3>1. NewRow(kind, res, body, due) \in Row
      BY QueueAssumption DEF NewRow, Row, Statuses
    <3> QED
      BY <2>1, <2>3, <3>1, AppendProperties DEF Enqueue, Enqueued
  <2>4. ASSUME NEW res \in Reservations, CancelPendingReminders(res)
        PROVE  queue'[i] = queue[i]
    BY <2>4 DEF CancelPendingReminders, RemindersCancelled
  <2>5. ASSUME NEW w \in Workers, WorkerStep(w) \/ TickFails(w)
        PROVE  queue'[i] = queue[i]
    <3>1. ASSUME Claim(w) PROVE queue'[i] = queue[i]
      BY <2>2, <3>1 DEF Claim, Claimed
    <3>2. ASSUME MarkSent(w) \/ MarkFailedOrRetry(w) PROVE queue'[i] = queue[i]
      <4>1. worker[w].row # i
        BY <2>2, <3>2 DEF MarkSent, MarkFailedOrRetry, TypeOK
      <4> QED
        BY <3>2, <4>1 DEF MarkSent, MarkFailedOrRetry
    <3> QED
      BY <2>5, <3>1, <3>2
      DEF WorkerStep, Select, SendSucceeds, SendRaises, SendTo, TickFails
  <2>6. ASSUME Started PROVE queue'[i] = queue[i]
    BY <2>6 DEF Started
  <2>7. ASSUME Tick PROVE queue'[i] = queue[i]
    BY <2>7 DEF Tick, Aged
  <2> QED
    BY <2>3, <2>4, <2>5, <2>6, <2>7 DEF Next, CalmNext, Requests, Restart, Kill
<1>2. Spec => [][Stay]_vars
  BY <1>1, DeliveryInvariant, PTL DEF Spec
<1> QED
  BY <1>2 DEF Final

-----------------------------------------------------------------------------
(* The schedule and the kill switch                                        *)

\* What no step does to a row: change its kind, count an attempt other than by
\* a claim, or move its schedule back other than for a retry.
LEMMA RowsEvolve ==
    ASSUME TypeOK, Next, NEW i \in DOMAIN queue
    PROVE  /\ queue'[i].kind = queue[i].kind
           /\ \/ queue'[i].attempts = queue[i].attempts
              \/ \E w \in Workers : worker[w].pc = "selected" /\ i \in worker[w].ids
           /\ \/ queue'[i].due <= queue[i].due
              \/ \E w \in Workers : worker[w].pc = "mark_failed" /\ worker[w].row = i
<1> DEFINE Goal == /\ queue'[i].kind = queue[i].kind
                   /\ \/ queue'[i].attempts = queue[i].attempts
                      \/ \E w \in Workers : worker[w].pc = "selected" /\ i \in worker[w].ids
                   /\ \/ queue'[i].due <= queue[i].due
                      \/ \E w \in Workers : worker[w].pc = "mark_failed" /\ worker[w].row = i
<1>1. queue \in Seq(Row) /\ queue[i] \in Row /\ queue[i].due \in Int
  <2>1. queue \in Seq(Row) /\ queue[i] \in Row
    BY DEF TypeOK
  <2> QED
    BY <2>1 DEF Row
<1>2. queue'[i] = queue[i] => Goal
  BY <1>1
<1>3. ASSUME NEW kind \in Kinds, NEW res \in Reservations \cup {NoReservation},
             NEW body \in Bodies, NEW due \in Delays, Enqueue(kind, res, body, due)
      PROVE  Goal
  <2>1. NewRow(kind, res, body, due) \in Row
    BY QueueAssumption DEF NewRow, Row, Statuses
  <2> QED
    BY <1>1, <1>2, <1>3, <2>1, AppendProperties DEF Enqueue, Enqueued
<1>4. ASSUME NEW s \in Statuses, queue'[i] = [queue[i] EXCEPT !.status = s]
      PROVE  Goal
  BY <1>1, <1>4 DEF Row
<1>5. ASSUME NEW res \in Reservations, CancelPendingReminders(res)
      PROVE  Goal
  BY <1>2, <1>4, <1>5 DEF CancelPendingReminders, RemindersCancelled, Statuses
<1>6. ASSUME NEW w \in Workers, Claim(w)
      PROVE  Goal
  <2>1. CASE i \in worker[w].ids
    <3>1. queue'[i] = [queue[i] EXCEPT !.status = "in_flight", !.attempts = @ + 1]
      BY <1>6, <2>1 DEF Claim, Claimed
    <3>2. queue'[i].kind = queue[i].kind /\ queue'[i].due = queue[i].due
      BY <1>1, <3>1 DEF Row
    <3> QED
      BY <1>1, <1>6, <2>1, <3>2 DEF Claim
  <2>2. CASE i \notin worker[w].ids
    BY <1>2, <1>6, <2>2 DEF Claim, Claimed
  <2> QED
    BY <2>1, <2>2
<1>7. ASSUME NEW w \in Workers, MarkSent(w)
      PROVE  Goal
  BY <1>2, <1>4, <1>7 DEF MarkSent, Statuses
<1>8. ASSUME NEW w \in Workers, MarkFailedOrRetry(w)
      PROVE  Goal
  <2>1. CASE i = worker[w].row
    <3>1. queue'[i] = FailedOrRetried(queue[i])
      BY <1>8, <2>1 DEF MarkFailedOrRetry
    <3>2. queue'[i].kind = queue[i].kind /\ queue'[i].attempts = queue[i].attempts
      BY <1>1, <3>1 DEF FailedOrRetried, Row
    <3> QED
      BY <1>8, <2>1, <3>2 DEF MarkFailedOrRetry
  <2>2. CASE i # worker[w].row
    BY <1>2, <1>8, <2>2 DEF MarkFailedOrRetry
  <2> QED
    BY <2>1, <2>2
<1>9. ASSUME Tick
      PROVE  Goal
  <2>1. queue'[i] = Aged(queue[i])
    BY <1>9 DEF Tick
  <2>2. /\ queue'[i].kind = queue[i].kind /\ queue'[i].attempts = queue[i].attempts
        /\ queue'[i].due \in {queue[i].due, queue[i].due - 1}
    BY <1>1, <2>1 DEF Aged, Row
  <2> QED
    BY <1>1, <2>2
<1> QED
  BY <1>2, <1>3, <1>5, <1>6, <1>7, <1>8, <1>9
  DEF Next, CalmNext, Requests, WorkerStep, Restart, Kill, Started, TickFails, Select,
      SendSucceeds, SendRaises, SendTo

\* What a step does to the rows a worker holds: it takes them by a SELECT, or
\* goes on with some of those it had, under the settings it had.
LEMMA WorkersEvolve ==
    ASSUME TypeOK, Next, NEW w \in Workers
    PROVE  \/ worker'[w].ids = {}
           \/ /\ worker[w].pc = "idle" /\ worker'[w].pc = "selected"
              /\ worker'[w].ids = PickDue /\ UNCHANGED <<queue, suppress>>
           \/ /\ worker'[w].ids \subseteq worker[w].ids
              /\ worker'[w].pc = "selected" => worker[w].pc = "selected"
              /\ UNCHANGED suppress
<1> DEFINE Goal == \/ worker'[w].ids = {}
                   \/ /\ worker[w].pc = "idle" /\ worker'[w].pc = "selected"
                      /\ worker'[w].ids = PickDue /\ UNCHANGED <<queue, suppress>>
                   \/ /\ worker'[w].ids \subseteq worker[w].ids
                      /\ worker'[w].pc = "selected" => worker[w].pc = "selected"
                      /\ UNCHANGED suppress
<1>1. worker \in [Workers -> WorkerState] /\ worker[w] \in WorkerState
  BY DEF TypeOK
<1>2. CASE Requests \/ Tick
  BY <1>2 DEF Requests, Enqueue, CancelPendingReminders, Tick
<1>3. CASE Started
  BY <1>3 DEF Started, Idle
<1>4. ASSUME NEW v \in Workers, WorkerStep(v) \/ TickFails(v)
      PROVE  Goal
  <2>1. CASE v # w
    BY <1>1, <1>4, <2>1 DEF WorkerStep, Select, Claim, SendSucceeds, SendRaises, SendTo,
       MarkSent, MarkFailedOrRetry, TickFails
  <2>2. CASE v = w
    <3>1. CASE Select(w)
      BY <1>1, <3>1 DEF Select, WorkerState
    <3>2. CASE Claim(w) \/ TickFails(w) \/ \E i \in RowIds : SendSucceeds(w, i) \/ SendRaises(w, i)
      BY <1>1, <3>2 DEF Claim, TickFails, SendSucceeds, SendRaises, SendTo, WorkerState, Idle
    <3>3. CASE MarkSent(w) \/ MarkFailedOrRetry(w)
      BY <1>1, <3>3 DEF MarkSent, MarkFailedOrRetry, Advanced
    <3> QED
      BY <1>4, <2>2, <3>1, <3>2, <3>3 DEF WorkerStep
  <2> QED
    BY <2>1, <2>2
<1> QED
  BY <1>2, <1>3, <1>4 DEF Next, CalmNext, Restart, Kill

\* While the kill switch is on, a worker holds custom rows only.
Hushed ==
    \A w \in Workers : \A i \in worker[w].ids : suppress => queue[i].kind = "custom"

\* The kill switch keeps lifecycle messages from customers, for any number of
\* workers: a process only knows the value it started with, takes only custom
\* rows under it, and forgets its batch when it stops (process_batch).
THEOREM KillSwitchHolds == Spec => Silence
<1> DEFINE Quiet == \A i \in RowIds :
                       delivered'[i] # delivered[i] => (suppress => queue[i].kind = "custom")
<1>1. Init => Hushed
  BY DEF Init, Idle, Hushed
<1>2. TypeOK /\ Hushed /\ [Next]_vars => Hushed'
  <2> SUFFICES ASSUME TypeOK, Hushed, Next, NEW w \in Workers, NEW i \in worker'[w].ids,
                      suppress'
               PROVE  queue'[i].kind = "custom"
    BY DEF vars, Hushed
  <2>1. CASE worker'[w].ids = PickDue /\ UNCHANGED <<queue, suppress>>
    BY <2>1 DEF PickDue, DueRows, Due
  <2>2. CASE worker'[w].ids \subseteq worker[w].ids /\ UNCHANGED suppress
    <3>1. i \in DOMAIN queue /\ queue[i].kind = "custom"
      BY <2>2 DEF Hushed, TypeOK
    <3> QED
      BY <3>1, RowsEvolve
  <2> QED
    BY <2>1, <2>2, WorkersEvolve
<1>3. TypeOK /\ Hushed /\ [Next]_vars => [Quiet]_vars
  <2> SUFFICES ASSUME TypeOK, Hushed, Next, NEW i \in RowIds, delivered'[i] # delivered[i],
                      suppress
               PROVE  queue[i].kind = "custom"
    BY DEF vars
  <2>1. PICK w \in Workers, j \in RowIds : SendSucceeds(w, j)
    BY DEF Next, CalmNext, Requests, Enqueue, CancelPendingReminders, WorkerStep, Select,
       Claim, SendRaises, MarkSent, MarkFailedOrRetry, TickFails, Restart, Kill, Started, Tick
  <2>2. i = j
    BY <2>1 DEF SendSucceeds, TypeOK
  <2> QED
    BY <2>1, <2>2 DEF SendSucceeds, SendTo, IsNext, Hushed
<1>4. Spec => [][Quiet]_vars
  BY <1>1, <1>2, <1>3, TypeCorrect, PTL DEF Spec
<1> QED
  BY <1>4 DEF Silence

\* A row that was selected stays due until it is claimed.
Ripe ==
    \A w \in Workers :
        worker[w].pc = "selected" => \A i \in worker[w].ids : queue[i].due <= 0

\* With one worker no row is claimed before its schedule, the back-off of a
\* retry included: the one who could move it is the one who holds it (pick_due,
\* mark_failed_or_retry).
THEOREM NeverEarly ==
    ASSUME SingleWorker
    PROVE  Spec => NotEarly
<1> DEFINE OnTime == \A i \in DOMAIN queue :
                        queue'[i].attempts > queue[i].attempts => queue[i].due <= 0
<1>1. Init => Ripe
  BY DEF Init, Idle, Ripe
<1>2. TypeOK /\ TypeOK' /\ Ripe /\ [Next]_vars => Ripe'
  <2> SUFFICES ASSUME TypeOK, TypeOK', Ripe, Next, NEW w \in Workers, worker'[w].pc = "selected",
                      NEW i \in worker'[w].ids
               PROVE  queue'[i].due <= 0
    BY DEF vars, Ripe
  <2>1. CASE worker'[w].ids = PickDue /\ UNCHANGED <<queue, suppress>>
    BY <2>1 DEF PickDue, DueRows, Due
  <2>2. CASE worker'[w].ids \subseteq worker[w].ids /\ worker[w].pc = "selected"
    <3>1. i \in DOMAIN queue /\ queue[i].due <= 0 /\ queue[i].due \in Int
      <4>1. i \in DOMAIN queue /\ queue[i].due <= 0
        BY <2>2 DEF Ripe, TypeOK
      <4>2. queue[i] \in Row
        BY <4>1 DEF TypeOK
      <4> QED
        BY <4>1, <4>2 DEF Row
    <3>2. queue'[i].due <= queue[i].due
      BY <2>2, <3>1, RowsEvolve DEF SingleWorker
    <3>3. queue'[i].due \in Int
      <4>1. i \in DOMAIN queue' /\ queue' \in Seq(Row)
        BY DEF TypeOK
      <4>2. queue'[i] \in Row
        BY <4>1
      <4> QED
        BY <4>2 DEF Row
    <3> QED
      BY <3>1, <3>2, <3>3
  <2> QED
    BY <2>1, <2>2, WorkersEvolve
<1>3. TypeOK /\ Ripe /\ [Next]_vars => [OnTime]_vars
  <2> SUFFICES ASSUME TypeOK, Ripe, Next, NEW i \in DOMAIN queue,
                      queue'[i].attempts > queue[i].attempts
               PROVE  queue[i].due <= 0
    BY DEF vars
  <2>1. queue[i].attempts \in Nat
    <3>1. queue[i] \in Row
      BY DEF TypeOK
    <3> QED
      BY <3>1 DEF Row
  <2>2. PICK w \in Workers : worker[w].pc = "selected" /\ i \in worker[w].ids
    BY <2>1, RowsEvolve
  <2> QED
    BY <2>2 DEF Ripe
<1>4. Spec => [][OnTime]_vars
  BY <1>1, <1>2, <1>3, TypeCorrect, PTL DEF Spec
<1> QED
  BY <1>4 DEF NotEarly

-----------------------------------------------------------------------------
(* What is left in flight                                                  *)

\* A worker that is asleep holds nothing.
Rested == \A w \in Workers : worker[w].pc = "idle" => worker[w].ids = {}

LEMMA RestPreserved ==
    ASSUME TypeOK, Rested, Next
    PROVE  Rested'
<1>1. worker \in [Workers -> WorkerState]
  BY DEF TypeOK
<1>2. CASE Requests \/ Tick
  BY <1>2 DEF Requests, Enqueue, CancelPendingReminders, Tick, Rested
<1>3. CASE Started
  BY <1>3 DEF Started, Idle, Rested
<1>4. ASSUME NEW w \in Workers, WorkerStep(w) \/ TickFails(w)
      PROVE  Rested'
  <2>1. \A v \in Workers \ {w} : worker'[v] = worker[v]
    BY <1>1, <1>4 DEF WorkerStep, Select, Claim, SendSucceeds, SendRaises, SendTo,
       MarkSent, MarkFailedOrRetry, TickFails
  <2>2. worker'[w].pc = "idle" => worker'[w].ids = {}
    <3>1. worker[w] \in WorkerState
      BY <1>1
    <3>2. CASE Select(w) \/ Claim(w) \/ \E i \in RowIds : SendSucceeds(w, i) \/ SendRaises(w, i)
      BY <1>1, <3>1, <3>2 DEF Select, Claim, SendSucceeds, SendRaises, SendTo, WorkerState
    <3>3. CASE MarkSent(w) \/ MarkFailedOrRetry(w)
      BY <1>1, <3>3 DEF MarkSent, MarkFailedOrRetry, Advanced
    <3>4. CASE TickFails(w)
      BY <1>1, <3>4 DEF TickFails, Idle
    <3> QED
      BY <1>4, <3>2, <3>3, <3>4 DEF WorkerStep
  <2> QED
    BY <2>1, <2>2 DEF Rested
<1> QED
  BY <1>2, <1>3, <1>4 DEF Next, CalmNext, Restart, Kill

\* A row that a calm step puts in flight is in the batch of the one who put it
\* there, and a row in flight only leaves a batch with its outcome.
LEMMA CalmStepStrandsNothing ==
    ASSUME TypeOK, Rested, CalmNext, NEW i \in RowIds, Stranded(i)'
    PROVE  Stranded(i)
<1> DEFINE Flying == i \in DOMAIN queue /\ queue[i].status = "in_flight"
           Held == \E w \in Workers : i \in worker[w].ids
<1>1. /\ i \in DOMAIN queue' /\ queue'[i].status = "in_flight"
      /\ \A w \in Workers : i \notin worker'[w].ids
  BY DEF Stranded
<1>2. /\ queue \in Seq(Row) /\ worker \in [Workers -> WorkerState]
      /\ \A k \in DOMAIN queue : queue[k] \in Row
  BY DEF TypeOK
<1>3. ASSUME Flying, ~Held
      PROVE  Stranded(i)
  BY <1>3 DEF Stranded
<1>4. ASSUME UNCHANGED worker, i \in DOMAIN queue, queue[i].status = "in_flight"
      PROVE  Stranded(i)
  BY <1>1, <1>3, <1>4
<1>5. ASSUME NEW kind \in Kinds, NEW res \in Reservations \cup {NoReservation},
             NEW body \in Bodies, NEW due \in Delays, Enqueue(kind, res, body, due)
      PROVE  Stranded(i)
  <2> DEFINE row == NewRow(kind, res, body, due)
  <2>1. row \in Row /\ row.status = "pending"
    BY QueueAssumption DEF NewRow, Row, Statuses
  <2>2. UNCHANGED worker /\ (queue' = queue \/ queue' = Append(queue, row))
    BY <1>5 DEF Enqueue, Enqueued
  <2> HIDE DEF row
  <2>3. i \in DOMAIN queue /\ queue'[i] = queue[i]
    BY <1>1, <1>2, <2>1, <2>2, AppendProperties
  <2> QED
    BY <1>1, <1>4, <2>2, <2>3
<1>6. ASSUME NEW res \in Reservations, CancelPendingReminders(res)
      PROVE  Stranded(i)
  <2>1. /\ UNCHANGED worker /\ i \in DOMAIN queue
        /\ queue'[i] = queue[i] \/ queue'[i] = [queue[i] EXCEPT !.status = "cancelled"]
    BY <1>1, <1>6 DEF CancelPendingReminders, RemindersCancelled
  <2>2. queue'[i] = queue[i]
    BY <1>1, <1>2, <2>1 DEF Row
  <2> QED
    BY <1>1, <1>4, <2>1, <2>2
<1>7. CASE Tick
  <2>1. UNCHANGED worker /\ i \in DOMAIN queue /\ queue'[i] = Aged(queue[i])
    BY <1>1, <1>7 DEF Tick
  <2>2. queue'[i].status = queue[i].status
    BY <1>2, <2>1 DEF Aged, Row
  <2> QED
    BY <1>1, <1>4, <2>1, <2>2
<1>8. CASE Restart
  <2>1. UNCHANGED queue /\ \A w \in Workers : worker[w].ids = {}
    BY <1>8 DEF Restart, Started, Rested
  <2> QED
    BY <1>1, <1>3, <2>1
<1>9. ASSUME NEW w \in Workers, Select(w)
      PROVE  Stranded(i)
  <2>1. UNCHANGED queue /\ worker[w].ids = {}
    BY <1>9 DEF Select, Rested
  <2>2. \A v \in Workers \ {w} : worker'[v] = worker[v]
    BY <1>2, <1>9 DEF Select
  <2> QED
    BY <1>1, <1>3, <2>1, <2>2
<1>10. ASSUME NEW w \in Workers,
              Claim(w) \/ \E j \in RowIds : SendSucceeds(w, j) \/ SendRaises(w, j)
       PROVE  Stranded(i)
  <2>1. \A v \in Workers : worker'[v].ids = worker[v].ids
    <3>1. CASE Claim(w)
      BY <1>2, <3>1 DEF Claim, WorkerState
    <3>2. ASSUME NEW j \in RowIds, NEW pc, SendTo(w, j, pc)
          PROVE  \A v \in Workers : worker'[v].ids = worker[v].ids
      BY <1>2, <3>2 DEF SendTo, WorkerState
    <3> QED
      BY <1>10, <3>1, <3>2 DEF SendSucceeds, SendRaises
  <2>2. ~Held
    BY <1>1, <2>1
  <2>3. i \in DOMAIN queue /\ queue'[i] = queue[i]
    BY <1>1, <1>10, <2>2 DEF Claim, Claimed, SendSucceeds, SendRaises, SendTo
  <2> QED
    BY <1>1, <1>3, <2>2, <2>3
<1>11. ASSUME NEW w \in Workers, MarkSent(w) \/ MarkFailedOrRetry(w)
       PROVE  Stranded(i)
  <2> DEFINE r == worker[w].row
  <2>1. r \in DOMAIN queue /\ queue[r] \in Row
    <3>1. worker[w].pc \in {"mark_sent", "mark_failed"}
      BY <1>11 DEF MarkSent, MarkFailedOrRetry
    <3>2. r \in worker[w].ids /\ worker[w].ids \subseteq DOMAIN queue
      BY <3>1 DEF TypeOK
    <3> QED
      BY <1>2, <3>2
  <2>2. /\ queue' = [queue EXCEPT ![r] = [queue[r] EXCEPT !.status = "sent"]]
           \/ queue' = [queue EXCEPT ![r] = FailedOrRetried(queue[r])]
        /\ worker' = [worker EXCEPT ![w] = Advanced(worker[w])]
    BY <1>11 DEF MarkSent, MarkFailedOrRetry
  <2>3. queue'[r].status # "in_flight"
    <3>1. \A s \in Statuses : [queue[r] EXCEPT !.status = s].status = s
      BY <2>1 DEF Row
    <3>2. FailedOrRetried(queue[r]).status \in {"failed", "pending"}
      BY <2>1 DEF FailedOrRetried, Row
    <3> HIDE DEF r
    <3>3. \/ queue'[r] = [queue[r] EXCEPT !.status = "sent"]
          \/ queue'[r] = FailedOrRetried(queue[r])
      BY <2>1, <2>2
    <3> QED
      BY <3>1, <3>2, <3>3 DEF Statuses
  <2>4. i # r /\ i \in DOMAIN queue /\ queue'[i] = queue[i]
    BY <1>1, <2>2, <2>3
  <2>5. worker'[w].ids = worker[w].ids \ {r} /\ \A v \in Workers \ {w} : worker'[v] = worker[v]
    BY <1>2, <2>2 DEF Advanced
  <2> QED
    BY <1>1, <1>3, <2>4, <2>5
<1> QED
  BY <1>5, <1>6, <1>7, <1>8, <1>9, <1>10, <1>11 DEF CalmNext, Requests, WorkerStep

\* A tick that runs to its end, a clean restart and a request leave no row behind
\* in flight, for any number of workers, even if two of them hold the same row:
\* only a failed tick and a kill do (process_batch, run_forever).
THEOREM CalmStepsStrandNothing == Spec => CalmStrandsNothing
<1> DEFINE Calm == CalmNext => \A i \in RowIds : Stranded(i)' => Stranded(i)
<1>1. Init => Rested
  BY DEF Init, Idle, Rested
<1>2. TypeOK /\ Rested /\ [Next]_vars => Rested'
  BY RestPreserved DEF vars, Rested
<1>3. TypeOK /\ Rested /\ [Next]_vars => [Calm]_vars
  BY CalmStepStrandsNothing
<1>4. Spec => [][Calm]_vars
  BY <1>1, <1>2, <1>3, TypeCorrect, PTL DEF Spec
<1> QED
  BY <1>4 DEF CalmStrandsNothing

-----------------------------------------------------------------------------
(* Several workers                                                         *)

\* The workers that have claimed a row and not sent it yet, and those that have
\* selected it and not claimed it yet.
Owing(i) ==
    {w \in Workers : /\ worker[w].pc \in {"send", "mark_sent", "mark_failed"}
                     /\ i \in worker[w].ids \ {worker[w].row}}

Choosing(i) == {w \in Workers : worker[w].pc = "selected" /\ i \in worker[w].ids}

\* A claim pays for one call; a row whose attempts are used up is selected by
\* nobody any more, but all who have selected it before may still claim it.
Accounted(i) ==
    /\ delivered[i] <= calls[i]
    /\ calls[i] + Cardinality(Owing(i)) <= queue[i].attempts
    /\ queue[i].status = "pending" => queue[i].attempts < MaxAttempts
    /\ queue[i].attempts + Cardinality(Choosing(i)) < MaxAttempts + Cardinality(Workers)

ManyInv == Untouched /\ \A i \in DOMAIN queue : Accounted(i)

LEMMA CountWorkers ==
    ASSUME IsFiniteSet(Workers), NEW S \in SUBSET Workers, NEW T \in SUBSET Workers, NEW w
    PROVE  /\ Cardinality(S) \in Nat /\ Cardinality(Workers) \in Nat
           /\ Cardinality(S) <= Cardinality(Workers)
           /\ S \subseteq T => Cardinality(S) <= Cardinality(T)
           /\ S \subseteq T \cup {w} => Cardinality(S) <= Cardinality(T) + 1
           /\ w \in T /\ S \subseteq T \ {w} => Cardinality(S) + 1 <= Cardinality(T)
<1>1. IsFiniteSet(S) /\ IsFiniteSet(T) /\ Cardinality(S) <= Cardinality(Workers)
  BY FS_Subset
<1>2. /\ Cardinality(S) \in Nat /\ Cardinality(T) \in Nat /\ Cardinality(Workers) \in Nat
  BY <1>1, FS_CardinalityType
<1>3. S \subseteq T => Cardinality(S) <= Cardinality(T)
  BY <1>1, FS_Subset
<1>4. ASSUME S \subseteq T \cup {w}
      PROVE  Cardinality(S) <= Cardinality(T) + 1
  <2>1. /\ IsFiniteSet(T \cup {w})
        /\ Cardinality(T \cup {w}) = IF w \in T THEN Cardinality(T) ELSE Cardinality(T) + 1
    BY <1>1, FS_AddElement
  <2>2. Cardinality(S) <= Cardinality(T \cup {w})
    BY <1>4, <2>1, FS_Subset
  <2> QED
    BY <1>2, <2>1, <2>2
<1>5. ASSUME w \in T, S \subseteq T \ {w}
      PROVE  Cardinality(S) + 1 <= Cardinality(T)
  <2>1. IsFiniteSet(T \ {w}) /\ Cardinality(T \ {w}) = Cardinality(T) - 1
    BY <1>1, <1>5, FS_RemoveElement
  <2>2. Cardinality(S) <= Cardinality(T \ {w})
    BY <1>5, <2>1, FS_Subset
  <2> QED
    BY <1>2, <2>1, <2>2
<1> QED
  BY <1>1, <1>2, <1>3, <1>4, <1>5

\* The counts of a row as numbers.
LEMMA RowCounts ==
    ASSUME TypeOK, NEW i \in DOMAIN queue
    PROVE  /\ i \in RowIds /\ i # 0 /\ queue[i] \in Row /\ queue[i].attempts \in Nat
           /\ calls[i] \in Nat /\ delivered[i] \in Nat
           /\ Owing(i) \in SUBSET Workers /\ Choosing(i) \in SUBSET Workers
<1>1. i \in RowIds /\ i # 0
  BY DomainIds DEF RowIds
<1>2. queue[i] \in Row
  BY DEF TypeOK
<1> QED
  BY <1>1, <1>2 DEF TypeOK, Row, Owing, Choosing

\* A row with the same counts, and nobody new who is to send or claim it.
LEMMA StaysAccounted ==
    ASSUME TypeOK, IsFiniteSet(Workers), NEW i \in DOMAIN queue, Accounted(i),
           queue'[i].attempts = queue[i].attempts,
           calls'[i] = calls[i], delivered'[i] = delivered[i],
           queue'[i].status = "pending" =>
              queue[i].status = "pending" \/ queue[i].attempts < MaxAttempts,
           Owing(i)' \subseteq Owing(i), Choosing(i)' \subseteq Choosing(i)
    PROVE  Accounted(i)'
<1>1. /\ Owing(i) \in SUBSET Workers /\ Choosing(i) \in SUBSET Workers
      /\ queue[i].attempts \in Nat /\ calls[i] \in Nat
  BY RowCounts
<1>2. /\ Cardinality(Owing(i)') <= Cardinality(Owing(i))
      /\ Cardinality(Choosing(i)') <= Cardinality(Choosing(i))
      /\ Cardinality(Owing(i)) \in Nat /\ Cardinality(Owing(i)') \in Nat
      /\ Cardinality(Choosing(i)) \in Nat /\ Cardinality(Choosing(i)') \in Nat
      /\ Cardinality(Workers) \in Nat
  BY <1>1, CountWorkers
<1>3. /\ queue'[i].attempts \in Nat /\ calls'[i] \in Nat
  BY <1>1
<1> QED
  BY <1>1, <1>2, <1>3, QueueAssumption DEF Accounted

\* The steps of others than the workers: rows are added without history, and the
\* workers' memory stays or is lost.
LEMMA OthersKeepAccounts ==
    ASSUME TypeOK, TypeOK', IsFiniteSet(Workers), ManyInv,
           UNCHANGED <<calls, delivered>>, DOMAIN queue \subseteq DOMAIN queue',
           \A i \in DOMAIN queue :
              /\ queue'[i].attempts = queue[i].attempts
              /\ queue'[i].status = "pending" => queue[i].status = "pending",
           \A i \in DOMAIN queue' \ DOMAIN queue : queue'[i].attempts = 0,
           \A w \in Workers : worker'[w] = worker[w] \/ worker'[w].ids = {}
    PROVE  ManyInv'
<1>1. ASSUME NEW i \in DOMAIN queue
      PROVE  Accounted(i)'
  <2>1. Owing(i)' \subseteq Owing(i) /\ Choosing(i)' \subseteq Choosing(i)
    BY DEF Owing, Choosing
  <2> QED
    BY <2>1, StaysAccounted DEF ManyInv
<1>2. ASSUME NEW i \in DOMAIN queue', i \notin DOMAIN queue
      PROVE  Accounted(i)'
  <2>1. i \in RowIds
    BY DomainIds, QueueAssumption DEF TypeOK, RowIds
  <2>2. calls'[i] = 0 /\ delivered'[i] = 0 /\ queue'[i].attempts = 0
    BY <1>2, <2>1 DEF ManyInv, Untouched
  <2>3. Owing(i)' = {} /\ Choosing(i)' = {}
    BY <1>2 DEF Owing, Choosing, TypeOK
  <2>4. Cardinality({}) = 0 /\ Cardinality(Workers) \in Nat
    BY FS_EmptySet, FS_CardinalityType
  <2> QED
    BY <2>2, <2>3, <2>4, QueueAssumption DEF Accounted
<1>3. Untouched'
  BY DEF ManyInv, Untouched
<1> QED
  BY <1>1, <1>2, <1>3 DEF ManyInv

\* A SELECT takes only rows with an attempt left.
LEMMA SelectAccounted ==
    ASSUME TypeOK, IsFiniteSet(Workers), ManyInv, NEW w \in Workers, Select(w)
    PROVE  ManyInv'
<1>1. /\ worker'[w].pc = "selected" /\ worker'[w].ids = PickDue
      /\ \A v \in Workers \ {w} : worker'[v] = worker[v]
      /\ UNCHANGED <<queue, calls, delivered>>
  BY DEF Select, TypeOK, WorkerState
<1>2. ASSUME NEW i \in DOMAIN queue
      PROVE  Accounted(i)'
  <2>1. Owing(i)' \subseteq Owing(i)
    BY <1>1 DEF Owing
  <2>2. CASE i \notin PickDue
    <3>1. Choosing(i)' \subseteq Choosing(i)
      BY <1>1, <2>2 DEF Choosing
    <3> QED
      BY <1>1, <2>1, <3>1, StaysAccounted DEF ManyInv
  <2>3. CASE i \in PickDue
    <3>1. queue[i].attempts < MaxAttempts
      BY <2>3 DEF ManyInv, Accounted, PickDue, DueRows, Due
    <3>2. /\ Cardinality(Owing(i)') <= Cardinality(Owing(i))
          /\ Cardinality(Owing(i)) \in Nat /\ Cardinality(Owing(i)') \in Nat
      BY <2>1, RowCounts, CountWorkers
    <3>3. Choosing(i)' \in SUBSET Workers
      BY DEF Choosing
    <3>4. /\ Cardinality(Choosing(i)') \in Nat /\ Cardinality(Workers) \in Nat
          /\ Cardinality(Choosing(i)') <= Cardinality(Workers)
      BY <3>3, CountWorkers
    <3>5. queue[i].attempts \in Nat /\ calls[i] \in Nat
      BY RowCounts
    <3> QED
      BY <1>1, <3>1, <3>2, <3>4, <3>5, QueueAssumption DEF ManyInv, Accounted
  <2> QED
    BY <2>2, <2>3
<1> QED
  BY <1>1, <1>2 DEF ManyInv, Untouched

\* A claim pays for the call that its worker will make.
LEMMA ClaimAccounted ==
    ASSUME TypeOK, IsFiniteSet(Workers), ManyInv, NEW w \in Workers, Claim(w)
    PROVE  ManyInv'
<1> DEFINE ids == worker[w].ids
<1>1. /\ worker[w].pc = "selected" /\ worker[w].row = 0
      /\ worker'[w].pc = "send" /\ worker'[w].ids = ids /\ worker'[w].row = 0
      /\ \A v \in Workers \ {w} : worker'[v] = worker[v]
      /\ UNCHANGED <<calls, delivered>>
  BY DEF Claim, TypeOK, WorkerState
<1>2. /\ DOMAIN queue' = DOMAIN queue
      /\ \A i \in DOMAIN queue \ ids : queue'[i] = queue[i]
      /\ \A i \in DOMAIN queue \cap ids :
            queue'[i].status = "in_flight" /\ queue'[i].attempts = queue[i].attempts + 1
  BY RowCounts DEF Claim, Claimed, Row
<1>3. ASSUME NEW i \in DOMAIN queue
      PROVE  Accounted(i)'
  <2>1. CASE i \notin ids
    <3>1. Owing(i)' \subseteq Owing(i) /\ Choosing(i)' \subseteq Choosing(i)
      BY <1>1, <2>1 DEF Owing, Choosing
    <3> QED
      BY <1>1, <1>2, <2>1, <3>1, StaysAccounted DEF ManyInv
  <2>2. CASE i \in ids
    <3>1. /\ Owing(i)' \subseteq Owing(i) \cup {w}
          /\ w \in Choosing(i) /\ Choosing(i)' \subseteq Choosing(i) \ {w}
      BY <1>1, <2>2 DEF Owing, Choosing
    <3>2. /\ Owing(i) \in SUBSET Workers /\ Owing(i)' \in SUBSET Workers
          /\ Choosing(i) \in SUBSET Workers /\ Choosing(i)' \in SUBSET Workers
      BY DEF Owing, Choosing
    <3>3. /\ Cardinality(Owing(i)') <= Cardinality(Owing(i)) + 1
          /\ Cardinality(Choosing(i)') + 1 <= Cardinality(Choosing(i))
          /\ Cardinality(Owing(i)) \in Nat /\ Cardinality(Owing(i)') \in Nat
          /\ Cardinality(Choosing(i)) \in Nat /\ Cardinality(Choosing(i)') \in Nat
          /\ Cardinality(Workers) \in Nat
      BY <3>1, <3>2, CountWorkers
    <3>4. queue[i].attempts \in Nat /\ calls[i] \in Nat
      BY RowCounts
    <3>5. queue'[i].status = "in_flight" /\ queue'[i].attempts = queue[i].attempts + 1
      BY <1>2, <2>2
    <3> QED
      BY <1>1, <3>3, <3>4, <3>5, QueueAssumption DEF ManyInv, Accounted
  <2> QED
    BY <2>1, <2>2
<1> QED
  BY <1>1, <1>2, <1>3 DEF ManyInv, Untouched

\* A call is made by a worker that has paid for it.
LEMMA SendAccounted ==
    ASSUME TypeOK, IsFiniteSet(Workers), ManyInv, NEW w \in Workers, NEW i \in RowIds,
           SendSucceeds(w, i) \/ SendRaises(w, i)
    PROVE  ManyInv'
<1>1. PICK pc \in {"mark_sent", "mark_failed"} : SendTo(w, i, pc)
  BY DEF SendSucceeds, SendRaises
<1>2. /\ worker[w].pc = "send" /\ worker[w].row = 0
      /\ worker'[w].pc \in {"mark_sent", "mark_failed"}
      /\ worker'[w].ids = worker[w].ids /\ worker'[w].row = i
      /\ \A v \in Workers \ {w} : worker'[v] = worker[v]
      /\ i \in worker[w].ids /\ i \in DOMAIN queue /\ UNCHANGED queue
  BY <1>1 DEF SendTo, IsNext, TypeOK, WorkerState
<1>3. calls'[i] = calls[i] + 1 /\ \A j \in RowIds \ {i} : calls'[j] = calls[j]
  BY <1>1 DEF SendTo, TypeOK
<1>4. /\ delivered'[i] \in {delivered[i], delivered[i] + 1}
      /\ \A j \in RowIds \ {i} : delivered'[j] = delivered[j]
  BY DEF SendSucceeds, SendRaises, TypeOK
<1>5. ASSUME NEW j \in DOMAIN queue, j # i
      PROVE  Accounted(j)'
  <2>1. Owing(j)' \subseteq Owing(j) /\ Choosing(j)' \subseteq Choosing(j)
    BY <1>2, <1>5, RowCounts DEF Owing, Choosing
  <2> QED
    BY <1>2, <1>3, <1>4, <1>5, <2>1, RowCounts, StaysAccounted DEF ManyInv
<1>6. Accounted(i)'
  <2>1. /\ w \in Owing(i) /\ Owing(i)' \subseteq Owing(i) \ {w}
        /\ Choosing(i)' \subseteq Choosing(i)
    BY <1>2, RowCounts DEF Owing, Choosing
  <2>2. /\ Owing(i) \in SUBSET Workers /\ Owing(i)' \in SUBSET Workers
        /\ Choosing(i) \in SUBSET Workers /\ Choosing(i)' \in SUBSET Workers
    BY DEF Owing, Choosing
  <2>3. /\ Cardinality(Owing(i)') + 1 <= Cardinality(Owing(i))
        /\ Cardinality(Choosing(i)') <= Cardinality(Choosing(i))
        /\ Cardinality(Owing(i)) \in Nat /\ Cardinality(Owing(i)') \in Nat
        /\ Cardinality(Choosing(i)) \in Nat /\ Cardinality(Choosing(i)') \in Nat
        /\ Cardinality(Workers) \in Nat
    BY <2>1, <2>2, CountWorkers
  <2>4. queue[i].attempts \in Nat /\ calls[i] \in Nat /\ delivered[i] \in Nat
    BY <1>2, RowCounts
  <2> QED
    BY <1>2, <1>3, <1>4, <2>3, <2>4, QueueAssumption DEF ManyInv, Accounted
<1> QED
  BY <1>2, <1>3, <1>4, <1>5, <1>6 DEF ManyInv, Untouched

\* An outcome puts a row back only while it has an attempt left.
LEMMA OutcomeAccounted ==
    ASSUME TypeOK, IsFiniteSet(Workers), ManyInv, NEW w \in Workers,
           MarkSent(w) \/ MarkFailedOrRetry(w)
    PROVE  ManyInv'
<1> DEFINE r == worker[w].row
<1>1. /\ r # 0 /\ r \in DOMAIN queue
      /\ worker[w].pc \in {"mark_sent", "mark_failed"}
  BY DEF MarkSent, MarkFailedOrRetry, TypeOK
<1>2. /\ worker'[w].pc \in {"idle", "send"} /\ worker'[w].ids = worker[w].ids \ {r}
      /\ worker'[w].row = 0
      /\ \A v \in Workers \ {w} : worker'[v] = worker[v]
      /\ UNCHANGED <<calls, delivered>>
  BY DEF MarkSent, MarkFailedOrRetry, Advanced, TypeOK
<1>3. /\ DOMAIN queue' = DOMAIN queue
      /\ \A i \in DOMAIN queue : i # r => queue'[i] = queue[i]
  BY DEF MarkSent, MarkFailedOrRetry
<1>4. /\ queue'[r].attempts = queue[r].attempts
      /\ queue'[r].status = "pending" => queue[r].attempts < MaxAttempts
  <2>1. queue[r] \in Row /\ queue[r].attempts \in Nat
    BY <1>1, RowCounts
  <2>2. CASE MarkSent(w)
    <3>1. queue'[r] = [queue[r] EXCEPT !.status = "sent"]
      BY <1>1, <2>2 DEF MarkSent
    <3> QED
      BY <2>1, <3>1 DEF Row
  <2>3. CASE MarkFailedOrRetry(w)
    <3>1. queue'[r] = FailedOrRetried(queue[r])
      BY <1>1, <2>3 DEF MarkFailedOrRetry
    <3> HIDE DEF r
    <3> QED
      BY <2>1, <3>1, QueueAssumption DEF FailedOrRetried, Row
  <2> QED
    BY <2>2, <2>3
<1>5. ASSUME NEW i \in DOMAIN queue
      PROVE  Accounted(i)'
  <2>1. Owing(i)' \subseteq Owing(i) /\ Choosing(i)' \subseteq Choosing(i)
    BY <1>1, <1>2 DEF Owing, Choosing
  <2> QED
    BY <1>2, <1>3, <1>4, <2>1, StaysAccounted DEF ManyInv
<1> QED
  BY <1>2, <1>3, <1>5 DEF ManyInv, Untouched

LEMMA ManyPreserved ==
    ASSUME TypeOK, TypeOK', IsFiniteSet(Workers), ManyInv, [Next]_vars
    PROVE  ManyInv'
<1>1. ASSUME NEW kind \in Kinds, NEW res \in Reservations \cup {NoReservation},
             NEW body \in Bodies, NEW due \in Delays, Enqueue(kind, res, body, due)
      PROVE  ManyInv'
  <2> DEFINE row == NewRow(kind, res, body, due)
  <2>1. row \in Row /\ row.attempts = 0 /\ queue \in Seq(Row)
    BY QueueAssumption DEF NewRow, Row, Statuses, TypeOK
  <2>2. queue' = queue \/ queue' = Append(queue, row)
    BY <1>1 DEF Enqueue, Enqueued
  <2>3. UNCHANGED <<worker, calls, delivered>>
    BY <1>1 DEF Enqueue
  <2> HIDE DEF row
  <2>4. /\ DOMAIN queue \subseteq DOMAIN queue'
        /\ \A i \in DOMAIN queue : queue'[i] = queue[i]
        /\ \A i \in DOMAIN queue' \ DOMAIN queue : queue'[i] = row
    BY <2>1, <2>2, AppendProperties
  <2> QED
    BY <2>1, <2>3, <2>4, OthersKeepAccounts
<1>2. ASSUME NEW res \in Reservations, CancelPendingReminders(res)
      PROVE  ManyInv'
  <2>1. /\ DOMAIN queue' = DOMAIN queue
        /\ \A i \in DOMAIN queue :
              /\ queue'[i].attempts = queue[i].attempts
              /\ queue'[i].status = "pending" => queue[i].status = "pending"
    BY <1>2, RowCounts DEF CancelPendingReminders, RemindersCancelled, Row
  <2>2. UNCHANGED <<worker, calls, delivered>>
    BY <1>2 DEF CancelPendingReminders
  <2> QED
    BY <2>1, <2>2, OthersKeepAccounts
<1>3. CASE Tick
  <2>1. /\ DOMAIN queue' = DOMAIN queue
        /\ \A i \in DOMAIN queue : queue'[i] = Aged(queue[i])
        /\ UNCHANGED <<worker, calls, delivered>>
    BY <1>3 DEF Tick
  <2>2. \A i \in DOMAIN queue : /\ queue'[i].attempts = queue[i].attempts
                                /\ queue'[i].status = queue[i].status
    BY <2>1, RowCounts DEF Aged, Row
  <2> QED
    BY <2>1, <2>2, OthersKeepAccounts
<1>4. CASE Started \/ UNCHANGED vars \/ \E w \in Workers : TickFails(w)
  <2>1. /\ UNCHANGED <<queue, calls, delivered>>
        /\ \A w \in Workers : worker'[w] = worker[w] \/ worker'[w].ids = {}
    BY <1>4 DEF Started, vars, TickFails, Idle, TypeOK
  <2> QED
    BY <2>1, OthersKeepAccounts
<1>5. ASSUME NEW w \in Workers, WorkerStep(w)
      PROVE  ManyInv'
  BY <1>5, SelectAccounted, ClaimAccounted, SendAccounted, OutcomeAccounted DEF WorkerStep
<1> QED
  BY <1>1, <1>2, <1>3, <1>4, <1>5 DEF Next, CalmNext, Requests, Restart, Kill

\* What is left of the retry budget when several workers run side by side, which
\* worker.py says is safe (its SELECT and its UPDATE are separate, so that two can
\* take one row): no call without a claim that paid for it, and no more of either
\* than the cap and one for each worker but one.  A customer may get a message
\* twice, but never more often than that.
THEOREM BudgetOfMany ==
    ASSUME IsFiniteSet(Workers)
    PROVE  Spec => [](\A i \in DOMAIN queue :
                        /\ delivered[i] <= calls[i]
                        /\ calls[i] <= queue[i].attempts
                        /\ queue[i].attempts < MaxAttempts + Cardinality(Workers))
<1>1. Init => ManyInv
  BY DEF Init, ManyInv, Untouched
<1>2. TypeOK /\ TypeOK' /\ ManyInv /\ [Next]_vars => ManyInv'
  BY ManyPreserved
<1>3. TypeOK /\ ManyInv => \A i \in DOMAIN queue :
                             /\ delivered[i] <= calls[i]
                             /\ calls[i] <= queue[i].attempts
                             /\ queue[i].attempts < MaxAttempts + Cardinality(Workers)
  <2> SUFFICES ASSUME TypeOK, ManyInv, NEW i \in DOMAIN queue
               PROVE  /\ delivered[i] <= calls[i]
                      /\ calls[i] <= queue[i].attempts
                      /\ queue[i].attempts < MaxAttempts + Cardinality(Workers)
    OBVIOUS
  <2>1. /\ Accounted(i) /\ queue[i].attempts \in Nat /\ calls[i] \in Nat
        /\ Owing(i) \in SUBSET Workers /\ Choosing(i) \in SUBSET Workers
    BY RowCounts DEF ManyInv
  <2>2. /\ Cardinality(Owing(i)) \in Nat /\ Cardinality(Choosing(i)) \in Nat
        /\ Cardinality(Workers) \in Nat
    BY <2>1, CountWorkers
  <2> QED
    BY <2>1, <2>2, QueueAssumption DEF Accounted
<1> QED
  BY <1>1, <1>2, <1>3, TypeCorrect, PTL DEF Spec
=============================================================================
