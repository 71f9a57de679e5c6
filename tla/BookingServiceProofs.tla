------------------------- MODULE BookingServiceProofs -------------------------
(***************************************************************************)
(* Theorems about BookingService for all values of its constants: any      *)
(* number of workers, tables and reservations, any lead and any times.     *)
(* Those of Bookings hold of it as they are (ServiceKeepsBookings), and    *)
(* those of the queue are used through QP.                                 *)
(***************************************************************************)
EXTENDS BookingService, BookingsProofs

QP == INSTANCE NotificationQueueProofs WITH
        Reservations <- 1..MaxReservations, Bodies <- Times, Delays <- {0},
        Kinds <- {"custom"}

-----------------------------------------------------------------------------
(* The invariant                                                           *)

\* The reminders of a reservation that no worker has claimed yet.
Waiting(q, i) ==
    {k \in DOMAIN q : /\ q[k].res = i /\ q[k].kind = "reminder"
                      /\ q[k].status = "pending" /\ q[k].attempts = 0}

\* There is at most one of them, and it states the given time.
Fresh(q, i, at) == \A k \in Waiting(q, i) : q[k].body = at /\ Waiting(q, i) = {k}

\* A reservation that was ever to be reminded of still is, of the given time.
Reminded(q, i, at) ==
    (\E k \in DOMAIN q : q[k].res = i /\ q[k].kind = "reminder") =>
        \E k \in DOMAIN q : /\ q[k].res = i /\ q[k].kind = "reminder"
                            /\ q[k].body = at /\ q[k].status # "cancelled"

\* The schedule of a row never undercuts the lead; once it has been claimed, its
\* time has come.
Timely(row) ==
    row.kind = "reminder" =>
        IF row.attempts = 0 THEN row.body - Lead - now <= row.due
                            ELSE row.body - Lead <= now

RowsInv == \A k \in DOMAIN queue : queue[k].res \in DOMAIN reservations /\ Timely(queue[k])

\* What a worker holds is ripe, and from the claim on it counts as tried, so
\* that a retry is not a fresh reminder.
BatchInv ==
    \A w \in Workers : \A k \in worker[w].ids :
        /\ queue[k].kind = "reminder" => queue[k].body - Lead <= now
        /\ worker[w].pc # "selected" => queue[k].attempts > 0

ReminderInv ==
    \A i \in DOMAIN reservations :
        /\ Fresh(queue, i, reservations[i].at)
        /\ Confirmed(i) => Reminded(queue, i, reservations[i].at)

ServiceInv == ServiceTypeOK /\ ~suppress /\ RowsInv /\ BatchInv /\ ReminderInv

-----------------------------------------------------------------------------
(* The queue's own lemmas, instantiated                                    *)

LEMMA QueueAssumptionHolds == QP!QueueAssumption
BY ServiceAssumption DEF QP!QueueAssumption, QP!NotificationKinds, ReservationIds

LEMMA SameTypes ==
    /\ Q!Row = QP!Row /\ Q!RowIds = QP!RowIds /\ Q!WorkerState = QP!WorkerState
    /\ Q!TypeOK <=> QP!TypeOK
BY DEF Q!Row, QP!Row, Q!NotificationKinds, QP!NotificationKinds, Q!Statuses, QP!Statuses, Q!RowIds, QP!RowIds, Q!WorkerState, QP!WorkerState, Q!TypeOK, QP!TypeOK

LEMMA SameTypesAfter == Q!TypeOK' <=> QP!TypeOK'
BY DEF Q!Row, QP!Row, Q!NotificationKinds, QP!NotificationKinds, Q!Statuses, QP!Statuses, Q!RowIds, QP!RowIds, Q!WorkerState, QP!WorkerState, Q!TypeOK, QP!TypeOK

LEMMA SameOperators ==
    /\ \A q, row : Q!Enqueued(q, row) = QP!Enqueued(q, row)
    /\ \A q, i : Q!RemindersCancelled(q, i) = QP!RemindersCancelled(q, i)
    /\ \A row : Q!Aged(row) = QP!Aged(row)
    /\ \A row : Q!FailedOrRetried(row) = QP!FailedOrRetried(row)
    /\ \A st : Q!Advanced(st) = QP!Advanced(st)
<1>1. \A q, row : Q!Enqueued(q, row) = QP!Enqueued(q, row)
  BY DEF Q!Enqueued, QP!Enqueued, Q!Dropped, QP!Dropped
<1>2. \A q, i : Q!RemindersCancelled(q, i) = QP!RemindersCancelled(q, i)
  BY DEF Q!RemindersCancelled, QP!RemindersCancelled
<1>3. \A row : Q!Aged(row) = QP!Aged(row)
  BY DEF Q!Aged, QP!Aged
<1>4. \A row : Q!FailedOrRetried(row) = QP!FailedOrRetried(row)
  BY DEF Q!FailedOrRetried, QP!FailedOrRetried, Q!Backoff, QP!Backoff
<1>5. \A st : Q!Advanced(st) = QP!Advanced(st)
  BY DEF Q!Advanced, QP!Advanced
<1> QED
  BY <1>1, <1>2, <1>3, <1>4, <1>5

LEMMA SameSteps ==
    /\ \A w : Q!WorkerStep(w) => Q!Select(w) \/ QP!WorkerStep(w)
    /\ \A w : Q!TickFails(w) => QP!TickFails(w)
    /\ Q!Restart => QP!Restart
    /\ Q!Kill => QP!Kill
<1>1. ASSUME NEW w, Q!WorkerStep(w)
      PROVE  Q!Select(w) \/ QP!WorkerStep(w)
  <2>1. Q!Claim(w) => QP!Claim(w)
    BY DEF Q!Claim, QP!Claim, Q!Claimed, QP!Claimed
  <2>2. \A i : Q!SendSucceeds(w, i) => QP!SendSucceeds(w, i)
    BY DEF Q!SendSucceeds, QP!SendSucceeds, Q!SendTo, QP!SendTo, Q!IsNext, QP!IsNext
  <2>3. \A i : Q!SendRaises(w, i) => QP!SendRaises(w, i)
    BY DEF Q!SendRaises, QP!SendRaises, Q!SendTo, QP!SendTo, Q!IsNext, QP!IsNext
  <2>4. Q!MarkSent(w) => QP!MarkSent(w)
    BY SameOperators DEF Q!MarkSent, QP!MarkSent
  <2>5. Q!MarkFailedOrRetry(w) => QP!MarkFailedOrRetry(w)
    BY SameOperators DEF Q!MarkFailedOrRetry, QP!MarkFailedOrRetry
  <2> QED
    BY <1>1, <2>1, <2>2, <2>3, <2>4, <2>5, SameTypes DEF Q!WorkerStep, QP!WorkerStep
<1>2. \A w : Q!TickFails(w) => QP!TickFails(w)
  BY DEF Q!TickFails, QP!TickFails, Q!Idle, QP!Idle
<1>3. (Q!Restart => QP!Restart) /\ (Q!Kill => QP!Kill)
  BY DEF Q!Restart, QP!Restart, Q!Kill, QP!Kill, Q!Started, QP!Started, Q!Idle, QP!Idle
<1> QED
  BY <1>1, <1>2, <1>3

\* The count in PickDue is of no consequence here: it selects due rows.
LEMMA SelectTyped ==
    ASSUME Q!TypeOK, NEW w \in Workers, Q!Select(w)
    PROVE  /\ Q!TypeOK'
           /\ worker' = [worker EXCEPT ![w] = [@ EXCEPT !.pc = "selected", !.ids = Q!PickDue]]
           /\ worker'[w].ids \subseteq Q!DueRows
           /\ UNCHANGED queue
<1> DEFINE st == [worker[w] EXCEPT !.pc = "selected", !.ids = Q!PickDue]
<1>1. Q!PickDue \subseteq Q!DueRows /\ Q!DueRows \subseteq DOMAIN queue
  BY DEF Q!PickDue, Q!DueRows
<1>2. DOMAIN queue \subseteq Q!RowIds
  BY ServiceAssumption DEF Q!TypeOK, Q!RowIds
<1>3. worker[w] \in Q!WorkerState /\ worker[w].row = 0
  BY DEF Q!TypeOK, Q!Select
<1>4. Q!PickDue \in SUBSET Q!RowIds
  BY <1>1, <1>2
<1>5. st \in Q!WorkerState /\ st.ids = Q!PickDue /\ st.row = 0 /\ st.pc = "selected"
  BY <1>3, <1>4 DEF Q!WorkerState
<1>6. worker' = [worker EXCEPT ![w] = st] /\ UNCHANGED <<queue, suppress, calls, delivered>>
  BY DEF Q!Select
<1> HIDE DEF st
<1>7. worker' \in [Workers -> Q!WorkerState] /\ worker'[w] = st
  BY <1>5, <1>6 DEF Q!TypeOK
<1>8. \A v \in Workers \ {w} : worker'[v] = worker[v]
  BY <1>6 DEF Q!TypeOK
<1>9. Q!TypeOK'
  BY <1>1, <1>5, <1>6, <1>7, <1>8 DEF Q!TypeOK, Q!RowIds, Q!Row, Q!WorkerState
<1> QED
  BY <1>1, <1>5, <1>6, <1>7, <1>9 DEF st

\* A step of the worker, and what befalls its process, keeps the queue typed.
LEMMA WorkerTyped ==
    ASSUME Q!TypeOK, (\E w \in Workers : Q!WorkerStep(w) \/ Q!TickFails(w)) \/ Q!Restart \/ Q!Kill
    PROVE  Q!TypeOK'
<1>1. CASE \E w \in Workers : Q!Select(w)
  BY <1>1, SelectTyped
<1>2. CASE ~ \E w \in Workers : Q!Select(w)
  <2>1. QP!Next
    BY <1>2, SameSteps DEF QP!Next, QP!CalmNext
  <2>2. QP!TypeOK'
    BY <2>1, SameTypes, QueueAssumptionHolds, QP!TypePreserved
  <2> QED
    BY <2>2, SameTypesAfter
<1> QED
  BY <1>1, <1>2

-----------------------------------------------------------------------------
(* The worker between requests                                             *)

\* What a worker and the clock may do to a row: nothing that its reader sees, or
\* a transition that counts as an attempt and is no cancellation.
Evolved(k) ==
    /\ queue'[k].res = queue[k].res
    /\ queue'[k].kind = queue[k].kind
    /\ queue'[k].body = queue[k].body
    /\ \/ queue'[k].attempts = queue[k].attempts /\ queue'[k].status = queue[k].status
       \/ queue'[k].attempts > 0 /\ queue'[k].status # "cancelled"

\* The rows and workers that there are, with the types of their fields.
LEMMA FieldsTyped ==
    ASSUME Q!TypeOK
    PROVE  /\ \A k \in DOMAIN queue :
                 /\ queue[k] \in Q!Row /\ queue[k].body \in Int
                 /\ queue[k].attempts \in Nat /\ queue[k].due \in Int
           /\ \A w \in Workers :
                 /\ worker[w].ids \subseteq DOMAIN queue
                 /\ worker[w].pc \in {"mark_sent", "mark_failed"} => worker[w].row \in worker[w].ids
           /\ 0 \notin DOMAIN queue
<1>1. \A k \in DOMAIN queue : queue[k] \in Q!Row
  BY DEF Q!TypeOK
<1>2. ASSUME NEW k \in DOMAIN queue
      PROVE  queue[k].body \in Int /\ queue[k].attempts \in Nat /\ queue[k].due \in Int
  BY <1>1, BookingsAssumption DEF Q!Row
<1> QED
  BY <1>1, <1>2 DEF Q!TypeOK

\* Reminders evolve without becoming stale or being lost.
LEMMA EvolvedKeepsReminders ==
    ASSUME ReminderInv, UNCHANGED reservations, DOMAIN queue' = DOMAIN queue,
           \A k \in DOMAIN queue : Evolved(k)
    PROVE  ReminderInv'
<1> SUFFICES ASSUME NEW i \in DOMAIN reservations
             PROVE  /\ Fresh(queue', i, reservations[i].at)
                    /\ Confirmed(i) => Reminded(queue', i, reservations[i].at)
  BY DEF ReminderInv, Confirmed
<1>1. Waiting(queue', i) \subseteq Waiting(queue, i)
  BY DEF Waiting, Evolved
<1>2. Fresh(queue, i, reservations[i].at) /\ (Confirmed(i) => Reminded(queue, i, reservations[i].at))
  BY DEF ReminderInv
<1>3. ASSUME NEW k \in Waiting(queue', i)
      PROVE  queue'[k].body = reservations[i].at /\ Waiting(queue', i) = {k}
  <2>1. k \in Waiting(queue, i) /\ queue'[k].body = queue[k].body
    BY <1>1 DEF Waiting, Evolved
  <2>2. queue[k].body = reservations[i].at /\ Waiting(queue, i) = {k}
    BY <1>2, <2>1 DEF Fresh
  <2> QED
    BY <1>1, <2>1, <2>2
<1>4. ASSUME Confirmed(i), NEW k \in DOMAIN queue', queue'[k].res = i, queue'[k].kind = "reminder"
      PROVE  \E l \in DOMAIN queue' :
                /\ queue'[l].res = i /\ queue'[l].kind = "reminder"
                /\ queue'[l].body = reservations[i].at /\ queue'[l].status # "cancelled"
  <2>1. k \in DOMAIN queue /\ queue[k].res = i /\ queue[k].kind = "reminder"
    BY <1>4 DEF Evolved
  <2>2. PICK l \in DOMAIN queue :
            /\ queue[l].res = i /\ queue[l].kind = "reminder"
            /\ queue[l].body = reservations[i].at /\ queue[l].status # "cancelled"
    BY <1>2, <1>4, <2>1 DEF Reminded
  <2> QED
    BY <2>2 DEF Evolved
<1> QED
  BY <1>3, <1>4 DEF Fresh, Reminded

\* A claim, row by row.
LEMMA ClaimedRow ==
    ASSUME Q!TypeOK, NEW ids, queue' = Q!Claimed(queue, ids), NEW k \in DOMAIN queue
    PROVE  /\ k \notin ids => queue'[k] = queue[k]
           /\ k \in ids => /\ Evolved(k)
                           /\ queue'[k].attempts > 0
<1>1. queue[k] \in Q!Row /\ queue[k].attempts \in Nat
  BY FieldsTyped
<1>2. k \notin ids => queue'[k] = queue[k]
  BY DEF Q!Claimed
<1>3. ASSUME k \in ids
      PROVE  Evolved(k) /\ queue'[k].attempts > 0
  <2>1. PICK n \in Nat : n = queue[k].attempts + 1
    BY <1>1
  <2>2. queue'[k] = [queue[k] EXCEPT !.status = "in_flight", !.attempts = n]
    BY <1>3, <2>1 DEF Q!Claimed
  <2>3. /\ queue'[k].res = queue[k].res /\ queue'[k].kind = queue[k].kind
        /\ queue'[k].body = queue[k].body /\ queue'[k].status = "in_flight"
        /\ queue'[k].attempts = n
    BY <1>1, <2>2 DEF Q!Row
  <2>4. n > 0
    BY <1>1, <2>1
  <2> QED
    BY <2>3, <2>4 DEF Evolved
<1> QED
  BY <1>2, <1>3

\* An outcome changes one row, which has been claimed.
LEMMA OutcomeRow ==
    ASSUME Q!TypeOK, BatchInv, NEW w \in Workers, Q!MarkSent(w) \/ Q!MarkFailedOrRetry(w)
    PROVE  /\ DOMAIN queue' = DOMAIN queue
           /\ \A k \in DOMAIN queue :
                 /\ Evolved(k)
                 /\ queue'[k].attempts = queue[k].attempts
                 /\ queue'[k] = queue[k] \/ queue[k].attempts > 0
<1> DEFINE r == worker[w].row
<1>1. /\ r \in worker[w].ids /\ worker[w].pc # "selected"
      /\ r \in DOMAIN queue
  BY FieldsTyped DEF Q!MarkSent, Q!MarkFailedOrRetry
<1>2. queue[r].attempts > 0 /\ queue[r] \in Q!Row
  BY <1>1, FieldsTyped DEF BatchInv
<1>3. ASSUME NEW row, queue' = [queue EXCEPT ![r] = row],
             row.res = queue[r].res, row.kind = queue[r].kind, row.body = queue[r].body,
             row.attempts = queue[r].attempts, row.status # "cancelled"
      PROVE  /\ DOMAIN queue' = DOMAIN queue
             /\ \A k \in DOMAIN queue :
                   /\ Evolved(k)
                   /\ queue'[k].attempts = queue[k].attempts
                   /\ queue'[k] = queue[k] \/ queue[k].attempts > 0
  <2> HIDE DEF r
  <2>1. queue'[r] = row /\ DOMAIN queue' = DOMAIN queue
    BY <1>1, <1>3
  <2>2. \A k \in DOMAIN queue \ {r} : queue'[k] = queue[k]
    BY <1>3
  <2> QED
    BY <1>2, <1>3, <2>1, <2>2 DEF Evolved
<1>4. CASE Q!MarkSent(w)
  <2> DEFINE row == [queue[r] EXCEPT !.status = "sent"]
  <2>1. /\ row.res = queue[r].res /\ row.kind = queue[r].kind /\ row.body = queue[r].body
        /\ row.attempts = queue[r].attempts /\ row.status = "sent"
    BY <1>2 DEF Q!Row
  <2>2. queue' = [queue EXCEPT ![r] = row]
    BY <1>4 DEF Q!MarkSent
  <2> HIDE DEF row, r
  <2> QED
    BY <1>3, <2>1, <2>2
<1>5. CASE Q!MarkFailedOrRetry(w)
  <2> DEFINE row == Q!FailedOrRetried(queue[r])
  <2>1. /\ row.res = queue[r].res /\ row.kind = queue[r].kind /\ row.body = queue[r].body
        /\ row.attempts = queue[r].attempts /\ row.status \in {"failed", "pending"}
    BY <1>2 DEF Q!Row, Q!FailedOrRetried
  <2>2. queue' = [queue EXCEPT ![r] = row]
    BY <1>5 DEF Q!MarkFailedOrRetry
  <2> HIDE DEF row, r
  <2> QED
    BY <1>3, <2>1, <2>2
<1> QED
  BY <1>4, <1>5

\* Rows that a worker changes have been tried, when their time had come.
LEMMA RowsKeep ==
    ASSUME RowsInv, UNCHANGED <<reservations, now>>, DOMAIN queue' = DOMAIN queue,
           \A k \in DOMAIN queue :
              /\ Evolved(k)
              /\ \/ queue'[k] = queue[k]
                 \/ /\ queue'[k].attempts > 0
                    /\ queue[k].kind = "reminder" => queue[k].body - Lead <= now
    PROVE  RowsInv'
<1> SUFFICES ASSUME NEW k \in DOMAIN queue
             PROVE  queue'[k].res \in DOMAIN reservations /\ Timely(queue[k])'
  BY DEF RowsInv
<1>1. queue[k].res \in DOMAIN reservations /\ Timely(queue[k]) /\ Evolved(k)
  BY DEF RowsInv
<1>2. /\ queue'[k].res = queue[k].res /\ queue'[k].kind = queue[k].kind
      /\ queue'[k].body = queue[k].body
  BY <1>1 DEF Evolved
<1> QED
  BY <1>1, <1>2 DEF Timely

\* Workers whose batch shrinks, or was claimed, know what they knew.
LEMMA BatchesKeep ==
    ASSUME Q!TypeOK, BatchInv, UNCHANGED now,
           \A k \in DOMAIN queue : Evolved(k),
           \A v \in Workers :
              \/ worker'[v].ids = {}
              \/ /\ worker'[v].ids \subseteq worker[v].ids
                 /\ \/ worker[v].pc # "selected"
                    \/ worker'[v].pc = "selected"
                    \/ \A k \in worker[v].ids : queue'[k].attempts > 0
    PROVE  BatchInv'
<1> SUFFICES ASSUME NEW v \in Workers, NEW k \in worker'[v].ids
             PROVE  /\ queue'[k].kind = "reminder" => queue'[k].body - Lead <= now
                    /\ worker'[v].pc # "selected" => queue'[k].attempts > 0
  BY DEF BatchInv
<1>1. k \in worker[v].ids /\ k \in DOMAIN queue
  BY FieldsTyped
<1>2. Evolved(k) /\ queue[k].attempts \in Nat
  BY <1>1, FieldsTyped
<1>3. queue[k].kind = "reminder" => queue[k].body - Lead <= now
  BY <1>1 DEF BatchInv
<1>4. worker[v].pc # "selected" => queue[k].attempts > 0
  BY <1>1 DEF BatchInv
<1> QED
  BY <1>1, <1>2, <1>3, <1>4 DEF Evolved

LEMMA WorkerKeeps ==
    ASSUME Q!TypeOK, now \in Int, RowsInv, BatchInv, ReminderInv,
           UNCHANGED <<reservations, now>>,
           (\E w \in Workers : Q!WorkerStep(w) \/ Q!TickFails(w)) \/ Q!Restart \/ Q!Kill
    PROVE  RowsInv' /\ BatchInv' /\ ReminderInv'
<1> DEFINE Row(k) == /\ Evolved(k)
                     /\ \/ queue'[k] = queue[k]
                        \/ /\ queue'[k].attempts > 0
                           /\ queue[k].kind = "reminder" => queue[k].body - Lead <= now
           Memory(v) == \/ worker'[v].ids = {}
                        \/ /\ worker'[v].ids \subseteq worker[v].ids
                           /\ \/ worker[v].pc # "selected"
                              \/ worker'[v].pc = "selected"
                              \/ \A k \in worker[v].ids : queue'[k].attempts > 0
<1>1. ASSUME DOMAIN queue' = DOMAIN queue, \A k \in DOMAIN queue : Row(k)
      PROVE  RowsInv' /\ ReminderInv'
  BY <1>1, RowsKeep, EvolvedKeepsReminders
<1>2. UNCHANGED queue => DOMAIN queue' = DOMAIN queue /\ \A k \in DOMAIN queue : Row(k)
  BY DEF Evolved
<1>3. ASSUME \A k \in DOMAIN queue : Row(k), \A v \in Workers : Memory(v)
      PROVE  BatchInv'
  BY <1>3, BatchesKeep
<1>4. ASSUME NEW w \in Workers, Q!Select(w)
      PROVE  RowsInv' /\ BatchInv' /\ ReminderInv'
  <2>1. /\ worker' = [worker EXCEPT ![w] = [@ EXCEPT !.pc = "selected", !.ids = Q!PickDue]]
        /\ worker'[w].ids \subseteq Q!DueRows
        /\ UNCHANGED queue
    BY <1>4, SelectTyped
  <2>2. \A v \in Workers \ {w} : worker'[v] = worker[v]
    BY <2>1 DEF Q!TypeOK
  <2>3. worker'[w].pc = "selected"
    BY <2>1 DEF Q!TypeOK, Q!WorkerState
  <2>4. ASSUME NEW k \in worker'[w].ids, queue[k].kind = "reminder"
        PROVE  queue[k].body - Lead <= now
    <3>1. k \in DOMAIN queue /\ queue[k].due <= 0
      BY <2>1 DEF Q!DueRows, Q!Due
    <3>2. Timely(queue[k]) /\ queue[k].body \in Int /\ queue[k].due \in Int
      BY <3>1, FieldsTyped DEF RowsInv
    <3> QED
      BY <2>4, <3>1, <3>2, ServiceAssumption DEF Timely
  <2>5. BatchInv'
    BY <2>1, <2>2, <2>3, <2>4 DEF BatchInv
  <2> QED
    BY <1>1, <1>2, <2>1, <2>5
<1>5. ASSUME NEW w \in Workers, Q!Claim(w)
      PROVE  RowsInv' /\ BatchInv' /\ ReminderInv'
  <2>1. queue' = Q!Claimed(queue, worker[w].ids) /\ worker' = [worker EXCEPT ![w].pc = "send"]
    BY <1>5 DEF Q!Claim
  <2>2. DOMAIN queue' = DOMAIN queue
    BY <2>1 DEF Q!Claimed
  <2>3. \A k \in DOMAIN queue : Row(k) /\ (k \in worker[w].ids => queue'[k].attempts > 0)
    BY <2>1, ClaimedRow DEF BatchInv, Evolved
  <2>4. \A v \in Workers : worker'[v].ids = worker[v].ids
    BY <2>1 DEF Q!TypeOK, Q!WorkerState
  <2>5. \A v \in Workers \ {w} : worker'[v] = worker[v]
    BY <2>1 DEF Q!TypeOK
  <2>6. \A v \in Workers : Memory(v)
    BY <2>3, <2>4, <2>5, FieldsTyped
  <2> QED
    BY <1>1, <1>3, <2>2, <2>3, <2>6
<1>6. ASSUME NEW w \in Workers, NEW i \in Q!RowIds, Q!SendSucceeds(w, i) \/ Q!SendRaises(w, i)
      PROVE  RowsInv' /\ BatchInv' /\ ReminderInv'
  <2>1. PICK pc : Q!SendTo(w, i, pc)
    BY <1>6 DEF Q!SendSucceeds, Q!SendRaises
  <2>2. /\ UNCHANGED queue /\ worker[w].pc = "send"
        /\ worker' = [worker EXCEPT ![w].pc = pc, ![w].row = i]
    BY <2>1 DEF Q!SendTo
  <2>3. \A v \in Workers : worker'[v].ids = worker[v].ids
    BY <2>2 DEF Q!TypeOK, Q!WorkerState
  <2>4. \A v \in Workers \ {w} : worker'[v] = worker[v]
    BY <2>2 DEF Q!TypeOK
  <2>5. \A v \in Workers : Memory(v)
    BY <2>2, <2>3, <2>4
  <2> QED
    BY <1>1, <1>2, <1>3, <2>2, <2>5
<1>7. ASSUME NEW w \in Workers, Q!MarkSent(w) \/ Q!MarkFailedOrRetry(w)
      PROVE  RowsInv' /\ BatchInv' /\ ReminderInv'
  <2>1. DOMAIN queue' = DOMAIN queue
    BY <1>7, OutcomeRow
  <2>2. ASSUME NEW k \in DOMAIN queue
        PROVE  Row(k)
    <3>1. /\ Evolved(k) /\ queue'[k].attempts = queue[k].attempts
          /\ queue'[k] = queue[k] \/ queue[k].attempts > 0
      BY <1>7, OutcomeRow
    <3>2. queue[k].attempts > 0 /\ queue[k].kind = "reminder" => queue[k].body - Lead <= now
      BY FieldsTyped DEF RowsInv, Timely
    <3> QED
      BY <3>1, <3>2
  <2>3. worker' = [worker EXCEPT ![w] = Q!Advanced(@)] /\ worker[w].pc # "selected"
    BY <1>7 DEF Q!MarkSent, Q!MarkFailedOrRetry
  <2>4. worker'[w].ids \subseteq worker[w].ids
    BY <2>3 DEF Q!Advanced, Q!TypeOK
  <2>5. \A v \in Workers \ {w} : worker'[v] = worker[v]
    BY <2>3 DEF Q!TypeOK
  <2>6. \A v \in Workers : Memory(v)
    BY <2>3, <2>4, <2>5
  <2> QED
    BY <1>1, <1>3, <2>1, <2>2, <2>6
<1>8. ASSUME (\E w \in Workers : Q!TickFails(w)) \/ Q!Restart \/ Q!Kill
      PROVE  RowsInv' /\ BatchInv' /\ ReminderInv'
  <2>1. /\ UNCHANGED queue
        /\ \A v \in Workers : worker'[v] = worker[v] \/ worker'[v].ids = {}
    BY <1>8 DEF Q!TickFails, Q!Restart, Q!Kill, Q!Started, Q!Idle, Q!TypeOK
  <2>2. \A v \in Workers : Memory(v)
    BY <2>1
  <2> QED
    BY <1>1, <1>2, <1>3, <2>1, <2>2
<1> QED
  BY <1>4, <1>5, <1>6, <1>7, <1>8 DEF Q!WorkerStep

-----------------------------------------------------------------------------
(* The messages of a request                                               *)

LEMMA MaxOf ==
    ASSUME NEW S \in SUBSET Nat, NEW m \in S, \A n \in S : n <= m
    PROVE  Max(S) = m
<1>1. \A x \in S : (\A y \in S : x >= y) <=> x = m
  OBVIOUS
<1> QED
  BY <1>1 DEF Max

AllExecuted(q, seq) == FoldLeft(Executed, q, seq)

\* What a request of at most three commands does to the table: the fold takes
\* the commands in their order.
LEMMA FoldUpToThree ==
    ASSUME NEW base, NEW n \in 0..3, NEW seq, DOMAIN seq = 1..n
    PROVE  LET one   == Executed(base, seq[1])
               two   == Executed(one, seq[2])
               three == Executed(two, seq[3])
           IN  /\ n = 0 => AllExecuted(base, seq) = base
               /\ n = 1 => AllExecuted(base, seq) = one
               /\ n = 2 => AllExecuted(base, seq) = two
               /\ n = 3 => AllExecuted(base, seq) = three
<1> DEFINE Iterates(f) == f = [s \in SUBSET (1..n) |->
                                  IF s = {} THEN base
                                  ELSE Executed(f[s \ {Max(s)}], seq[Max(s)])]
           A(s) == IF 1 \in s THEN Executed(base, seq[1]) ELSE base
           AB(s) == IF 2 \in s THEN Executed(A(s), seq[2]) ELSE A(s)
           ABC(s) == IF 3 \in s THEN Executed(AB(s), seq[3]) ELSE AB(s)
           g == [s \in SUBSET (1..n) |-> ABC(s)]
           iter == CHOOSE f : Iterates(f)
<1>1. Iterates(g)
  <2>1. ASSUME NEW s \in SUBSET (1..n)
        PROVE  g[s] = IF s = {} THEN base ELSE Executed(g[s \ {Max(s)}], seq[Max(s)])
    <3> s \in SUBSET Nat /\ \A x \in s : x \in {1, 2, 3}
      OBVIOUS
    <3>0. CASE s = {}
      BY <3>0
    <3>1. CASE 3 \in s
      <4>1. Max(s) = 3
        BY <3>1, MaxOf
      <4>2. ABC(s) = Executed(AB(s), seq[3]) /\ ABC(s \ {3}) = AB(s)
        BY <3>1
      <4> QED BY <3>1, <4>1, <4>2
    <3>2. CASE 3 \notin s /\ 2 \in s
      <4>1. Max(s) = 2
        BY <3>2, MaxOf
      <4>2. ABC(s) = Executed(A(s), seq[2]) /\ ABC(s \ {2}) = A(s)
        BY <3>2
      <4> QED BY <3>2, <4>1, <4>2
    <3>3. CASE s = {1}
      <4>1. Max(s) = 1
        BY <3>3, MaxOf
      <4> QED BY <3>3, <4>1
    <3> QED BY <3>0, <3>1, <3>2, <3>3
  <2> HIDE DEF ABC
  <2> QED BY <2>1
<1>2. Iterates(iter)
  <2> HIDE DEF g, Iterates
  <2> QED BY <1>1
<1>3. AllExecuted(base, seq) = iter[1..n]
  BY DEF AllExecuted, FoldLeft, MapThenFoldSet
<1> HIDE DEF iter
<1>4. ASSUME NEW k \in 1..n
      PROVE  iter[1..k] = Executed(iter[1..(k - 1)], seq[k])
  <2>1. 1..k \in SUBSET (1..n) /\ 1..k # {} /\ (1..k) \ {k} = 1..(k - 1)
    OBVIOUS
  <2>2. Max(1..k) = k
    BY MaxOf
  <2> QED BY <1>2, <2>1, <2>2
<1>5. iter[1..0] = base
  BY <1>2
<1>6. n = 0 => AllExecuted(base, seq) = base
  BY <1>3, <1>5
<1>7. n = 1 => AllExecuted(base, seq) = Executed(base, seq[1])
  BY <1>3, <1>4, <1>5
<1>8. n = 2 => AllExecuted(base, seq) = Executed(Executed(base, seq[1]), seq[2])
  BY <1>3, <1>4, <1>5
<1>9. n = 3 => AllExecuted(base, seq)
                  = Executed(Executed(Executed(base, seq[1]), seq[2]), seq[3])
  BY <1>3, <1>4, <1>5
<1> HIDE DEF g, Iterates, A, AB, ABC
<1> QED
  BY <1>6, <1>7, <1>8, <1>9

LEMMA FoldByLength ==
    ASSUME NEW base, NEW seq
    PROVE  /\ DOMAIN seq = 1..0 => AllExecuted(base, seq) = base
           /\ DOMAIN seq = 1..1 => AllExecuted(base, seq) = Executed(base, seq[1])
           /\ DOMAIN seq = 1..2 =>
                 AllExecuted(base, seq) = Executed(Executed(base, seq[1]), seq[2])
           /\ DOMAIN seq = 1..3 =>
                 AllExecuted(base, seq)
                    = Executed(Executed(Executed(base, seq[1]), seq[2]), seq[3])
<1>1. 0 \in 0..3 /\ 1 \in 0..3 /\ 2 \in 0..3 /\ 3 \in 0..3
  OBVIOUS
<1>2. ASSUME DOMAIN seq = 1..0 PROVE AllExecuted(base, seq) = base
  <2>1. PICK n \in 0..3 : n = 0
    BY <1>1
  <2> QED
    BY <1>2, <2>1, FoldUpToThree
<1>3. ASSUME DOMAIN seq = 1..1 PROVE AllExecuted(base, seq) = Executed(base, seq[1])
  <2>1. PICK n \in 0..3 : n = 1
    BY <1>1
  <2> QED
    BY <1>3, <2>1, FoldUpToThree
<1>4. ASSUME DOMAIN seq = 1..2
      PROVE  AllExecuted(base, seq) = Executed(Executed(base, seq[1]), seq[2])
  <2>1. PICK n \in 0..3 : n = 2
    BY <1>1
  <2>2. DOMAIN seq = 1..n
    BY <1>4, <2>1
  <2> QED
    BY <2>1, <2>2, FoldUpToThree
<1>5. ASSUME DOMAIN seq = 1..3
      PROVE  AllExecuted(base, seq)
                = Executed(Executed(Executed(base, seq[1]), seq[2]), seq[3])
  <2>1. PICK n \in 0..3 : n = 3
    BY <1>1
  <2>2. DOMAIN seq = 1..n
    BY <1>5, <2>1
  <2> QED
    BY <2>1, <2>2, FoldUpToThree
<1> QED
  BY <1>2, <1>3, <1>4, <1>5

\* A table whose rows belong to the given reservations, and are not early.
Sound(q, R) ==
    /\ q \in Seq(Q!Row)
    /\ \A k \in DOMAIN q : q[k].res \in R /\ Timely(q[k])

\* What a table keeps of another one, whatever is stored and cancelled, and what
\* the rows are that it has besides.
Extends(q, new) ==
    /\ DOMAIN q \subseteq DOMAIN new
    /\ \A k \in DOMAIN q :
          /\ new[k].kind = q[k].kind
          /\ new[k].body = q[k].body
          /\ new[k].attempts = q[k].attempts
          /\ \/ new[k] = q[k]
             \/ q[k].status = "pending" /\ new[k].status = "cancelled"
    /\ \A k \in DOMAIN new \ DOMAIN q :
          new[k].attempts = 0 /\ new[k].status \in {"pending", "cancelled"}

\* A command that stores a message appends its row.
LEMMA MessageStored ==
    ASSUME ~suppress, now \in Int, NEW q \in Seq(Q!Row), NEW cmd \in Command,
           cmd.op # "drop_reminders"
    PROVE  \E row \in Q!Row :
              /\ Executed(q, cmd) = Append(q, row)
              /\ row.res = cmd.res /\ row.kind = cmd.op /\ row.body = cmd.at
              /\ row.status = "pending" /\ row.attempts = 0
              /\ row.kind = "reminder" => row.body - Lead - now <= row.due
<1> DEFINE due == IF cmd.op = "reminder" THEN ReminderDue(cmd.at) ELSE 0
           row == Q!NewRow(cmd.op, cmd.res, cmd.at, due)
<1>1. /\ cmd.op \in {"created", "updated", "cancelled", "reminder"}
      /\ cmd.res \in 1..MaxReservations /\ cmd.at \in Times /\ cmd.at \in Int
  BY BookingsAssumption DEF Command, ReservationIds
<1>2. due \in Int /\ (cmd.op = "reminder" => cmd.at - Lead - now <= due)
  BY <1>1, ServiceAssumption DEF ReminderDue
<1> HIDE DEF due
<1>3. /\ row \in Q!Row
      /\ row.res = cmd.res /\ row.kind = cmd.op /\ row.body = cmd.at
      /\ row.status = "pending" /\ row.attempts = 0 /\ row.due = due
  BY <1>1, <1>2 DEF Q!NewRow, Q!Row, Q!NotificationKinds, Q!Statuses
<1>4. Executed(q, cmd) = Append(q, row)
  BY DEF Executed, Q!Enqueued, Q!Dropped, due, Q!NewRow
<1> HIDE DEF row
<1> QED
  BY <1>2, <1>3, <1>4

\* A row added at the end, one by one.
LEMMA OneMore ==
    ASSUME NEW q \in Seq(Q!Row), NEW row \in Q!Row, NEW new, new = Append(q, row)
    PROVE  /\ new \in Seq(Q!Row) /\ Len(new) = Len(q) + 1
           /\ Len(q) + 1 \notin DOMAIN q
           /\ DOMAIN new = DOMAIN q \cup {Len(q) + 1}
           /\ new[Len(q) + 1] = row
           /\ \A k \in DOMAIN q : new[k] = q[k]
<1>1. new \in Seq(Q!Row) /\ Len(new) = Len(q) + 1 /\ new[Len(q) + 1] = row
  BY AppendProperties
<1>2. \A k \in 1..Len(q) : new[k] = q[k]
  BY AppendProperties
<1>3. DOMAIN q = 1..Len(q) /\ DOMAIN new = 1..(Len(q) + 1) /\ Len(q) \in Nat
  BY <1>1
<1> QED
  BY <1>1, <1>2, <1>3

\* What storing a message does to reminders: it adds one of its own at most.
LEMMA StoringKeeps ==
    ASSUME NEW R, NEW q, Sound(q, R), NEW row \in Q!Row, NEW new, new = Append(q, row),
           row.res \in R, row.status = "pending", row.attempts = 0,
           row.kind = "reminder" => row.body - Lead - now <= row.due
    PROVE  /\ Sound(new, R) /\ Extends(q, new) /\ Len(new) = Len(q) + 1
           /\ \A i, at :
                 row.res # i \/ row.kind # "reminder" =>
                    /\ Waiting(new, i) = Waiting(q, i)
                    /\ Fresh(q, i, at) => Fresh(new, i, at)
                    /\ Reminded(q, i, at) => Reminded(new, i, at)
           /\ row.kind = "reminder" /\ Waiting(q, row.res) = {} =>
                 Fresh(new, row.res, row.body) /\ Reminded(new, row.res, row.body)
<1> DEFINE n == Len(q) + 1
<1>1. /\ new \in Seq(Q!Row) /\ Len(new) = n
      /\ n \notin DOMAIN q /\ DOMAIN new = DOMAIN q \cup {n} /\ new[n] = row
      /\ \A k \in DOMAIN q : new[k] = q[k]
  BY OneMore DEF Sound
<1> HIDE DEF n
<1>2. Sound(new, R) /\ Extends(q, new)
  BY <1>1 DEF Sound, Extends, Timely
<1>3. ASSUME NEW i, NEW at, row.res # i \/ row.kind # "reminder"
      PROVE  /\ Waiting(new, i) = Waiting(q, i)
             /\ Fresh(q, i, at) => Fresh(new, i, at)
             /\ Reminded(q, i, at) => Reminded(new, i, at)
  <2>1. Waiting(new, i) = Waiting(q, i)
    BY <1>1, <1>3 DEF Waiting
  <2>2. Fresh(q, i, at) => Fresh(new, i, at)
    BY <1>1, <2>1 DEF Fresh, Waiting
  <2>3. Reminded(q, i, at) => Reminded(new, i, at)
    BY <1>1, <1>3 DEF Reminded
  <2> QED
    BY <2>1, <2>2, <2>3
<1>4. ASSUME row.kind = "reminder", Waiting(q, row.res) = {}
      PROVE  Fresh(new, row.res, row.body) /\ Reminded(new, row.res, row.body)
  <2>1. Waiting(new, row.res) = {n}
    BY <1>1, <1>4 DEF Waiting
  <2>2. Fresh(new, row.res, row.body)
    BY <1>1, <2>1 DEF Fresh
  <2>3. Reminded(new, row.res, row.body)
    BY <1>1, <1>4 DEF Reminded
  <2> QED
    BY <2>2, <2>3
<1> QED
  BY <1>1, <1>2, <1>3, <1>4 DEF n

\* What dropping the reminders of a reservation does: those that wait are gone,
\* and no other reservation notices.
LEMMA DroppingKeeps ==
    ASSUME NEW R, NEW q, Sound(q, R), NEW r, NEW new, new = Q!RemindersCancelled(q, r)
    PROVE  /\ Sound(new, R) /\ Extends(q, new) /\ Len(new) = Len(q)
           /\ Waiting(new, r) = {}
           /\ \A i, at : i # r =>
                 /\ Fresh(q, i, at) => Fresh(new, i, at)
                 /\ Reminded(q, i, at) => Reminded(new, i, at)
<1> DEFINE Hit(k) == q[k].res = r /\ q[k].kind = "reminder" /\ q[k].status = "pending"
<1>0. /\ DOMAIN new = DOMAIN q
      /\ \A k \in DOMAIN q :
            new[k] = IF Hit(k) THEN [q[k] EXCEPT !.status = "cancelled"] ELSE q[k]
  BY DEF Q!RemindersCancelled
<1>1. ASSUME NEW k \in DOMAIN q
      PROVE  /\ new[k] \in Q!Row
             /\ new[k].res = q[k].res /\ new[k].kind = q[k].kind /\ new[k].body = q[k].body
             /\ new[k].attempts = q[k].attempts /\ new[k].due = q[k].due
             /\ new[k].status = IF Hit(k) THEN "cancelled" ELSE q[k].status
  <2>1. q[k] \in Q!Row
    BY DEF Sound
  <2> HIDE DEF Hit
  <2> QED
    BY <1>0, <2>1 DEF Q!Row, Q!Statuses
<1>2. new \in Seq(Q!Row) /\ Len(new) = Len(q)
  <2>1. new \in [DOMAIN q -> Q!Row]
    <3>1. new = [k \in DOMAIN q |-> new[k]]
      BY DEF Q!RemindersCancelled
    <3> QED
      BY <1>1, <3>1
  <2>2. q \in Seq(Q!Row)
    BY DEF Sound
  <2>3. DOMAIN q = 1..Len(q) /\ Len(q) \in Nat
    BY <2>2
  <2> QED
    BY <2>1, <2>3, RowByRow
<1>3. Sound(new, R) /\ Extends(q, new)
  BY <1>0, <1>1, <1>2 DEF Sound, Extends, Timely
<1>4. Waiting(new, r) = {}
  BY <1>0, <1>1 DEF Waiting
<1>5. ASSUME NEW i, NEW at, i # r
      PROVE  /\ Fresh(q, i, at) => Fresh(new, i, at)
             /\ Reminded(q, i, at) => Reminded(new, i, at)
  <2>1. Waiting(new, i) = Waiting(q, i)
    BY <1>0, <1>1, <1>5 DEF Waiting
  <2>2. Fresh(q, i, at) => Fresh(new, i, at)
    <3>1. \A k \in Waiting(q, i) : k \in DOMAIN q
      BY DEF Waiting
    <3> QED
      BY <1>1, <2>1, <3>1 DEF Fresh
  <2>3. Reminded(q, i, at) => Reminded(new, i, at)
    BY <1>0, <1>1, <1>5 DEF Reminded
  <2> QED
    BY <2>2, <2>3
<1> QED
  BY <1>2, <1>3, <1>4, <1>5

-----------------------------------------------------------------------------
(* What a request changes, by the commands that it issues                  *)

\* The time and the status of a reservation stay.
Same(j) ==
    /\ reservations'[j].at = reservations[j].at
    /\ reservations'[j].status = reservations[j].status

\* Floor requests and scripts: no promise to a customer changes.
Silent ==
    /\ issued' = <<>>
    /\ DOMAIN reservations \subseteq DOMAIN reservations'
    /\ \A j \in DOMAIN reservations : Same(j)

Booked(i) ==
    /\ issued' = <<Issue("created", i, reservations'[i].at),
                   Issue("reminder", i, reservations'[i].at)>>
    /\ i \notin DOMAIN reservations
    /\ DOMAIN reservations' = DOMAIN reservations \cup {i}
    /\ \A j \in DOMAIN reservations : Same(j)

Reworded(i) ==
    /\ issued' = <<Issue("updated", i, reservations'[i].at)>>
    /\ DOMAIN reservations' = DOMAIN reservations
    /\ \A j \in DOMAIN reservations : Same(j)

Moved(i) ==
    /\ issued' = <<Issue("updated", i, reservations'[i].at),
                   Issue("drop_reminders", i, reservations'[i].at),
                   Issue("reminder", i, reservations'[i].at)>>
    /\ DOMAIN reservations' = DOMAIN reservations
    /\ \A j \in DOMAIN reservations \ {i} : Same(j)

CalledOff(i) ==
    /\ issued' = <<Issue("cancelled", i, reservations'[i].at),
                   Issue("drop_reminders", i, reservations'[i].at)>>
    /\ reservations'[i].status = "cancelled"
    /\ DOMAIN reservations' = DOMAIN reservations
    /\ \A j \in DOMAIN reservations \ {i} : Same(j)

LEMMA InsertShape ==
    ASSUME TypeOK, NEW e \in Reservation, reservations' = Append(reservations, e)
    PROVE  /\ DOMAIN reservations' = DOMAIN reservations \cup {Len(reservations) + 1}
           /\ Len(reservations) + 1 \notin DOMAIN reservations
           /\ reservations'[Len(reservations) + 1] = e
           /\ \A j \in DOMAIN reservations : Same(j)
<1>1. /\ DOMAIN reservations' = DOMAIN reservations \cup {Len(reservations) + 1}
      /\ reservations'[Len(reservations) + 1] = e
      /\ \A j \in DOMAIN reservations : reservations'[j] = reservations[j]
  BY AppendedRow DEF TypeOK
<1>2. Len(reservations) + 1 \notin DOMAIN reservations
  BY RowsTyped
<1> QED
  BY <1>1, <1>2 DEF Same

LEMMA UpdateShape ==
    ASSUME TypeOK, NEW i \in DOMAIN reservations, NEW p, NEW at, NEW t,
           WriteReservation(i, p, at, t)
    PROVE  Reworded(i) \/ Moved(i)
<1> DEFINE e == [reservations[i] EXCEPT
                    !.party = Given(p, @), !.at = Given(at, @), !.table = t]
<1>1. reservations[i] \in Reservation
  BY RowsTyped
<1>2. e.at = Given(at, reservations[i].at) /\ e.status = reservations[i].status
  BY <1>1 DEF Reservation
<1>3. reservations' = [reservations EXCEPT ![i] = e] /\ issued' = UpdateMessages(i, at, e.at)
  BY DEF WriteReservation
<1> HIDE DEF e
<1>4. /\ reservations'[i] = e /\ DOMAIN reservations' = DOMAIN reservations
      /\ \A j \in DOMAIN reservations \ {i} : Same(j)
  BY <1>3 DEF TypeOK, Same
<1>5. at = Keep => Same(i)
  BY <1>2, <1>4 DEF Given, Same
<1> QED
  BY <1>3, <1>4, <1>5 DEF UpdateMessages, Reworded, Moved

LEMMA CancelShape ==
    ASSUME TypeOK, NEW i \in DOMAIN reservations, WriteCancelled(i)
    PROVE  CalledOff(i)
<1> DEFINE e == [reservations[i] EXCEPT !.status = "cancelled"]
<1>1. reservations[i] \in Reservation
  BY RowsTyped
<1>2. e.at = reservations[i].at /\ e.status = "cancelled"
  BY <1>1 DEF Reservation
<1>3. reservations' = [reservations EXCEPT ![i] = e] /\ issued' = CancelMessages(i)
  BY DEF WriteCancelled
<1> HIDE DEF e
<1>4. /\ reservations'[i] = e /\ DOMAIN reservations' = DOMAIN reservations
      /\ \A j \in DOMAIN reservations \ {i} : Same(j)
  BY <1>3 DEF TypeOK, Same
<1> QED
  BY <1>2, <1>3, <1>4 DEF CancelMessages, CalledOff

\* Every request and every script has one of the five shapes.
LEMMA RequestShape ==
    ASSUME TypeOK, Next
    PROVE  \/ Silent
           \/ \E i : Booked(i)
           \/ \E i \in DOMAIN reservations : Reworded(i) \/ Moved(i) \/ CalledOff(i)
<1>1. CASE UNCHANGED reservations /\ Quiet
  BY <1>1 DEF Silent, Same, Quiet
<1>2. CASE FloorRequest \/ SeedRooms
  <2>1. UNCHANGED reservations /\ Quiet
    BY <1>2 DEF FloorRequest, RoomRequest, TableRequest, CreateRoom, DeleteRoom,
                CreateTable, UpdateTable, WriteTable, DeleteTable, SeedRooms
  <2> QED
    BY <1>1, <2>1
<1>3. CASE SeedTables
  <2>1. PICK seats \in [Unassigned -> TableIds \cup {NoTable}] : reservations' = Assigned(seats)
    BY <1>3 DEF SeedTables
  <2>2. issued' = <<>>
    BY <1>3 DEF SeedTables, Quiet
  <2> QED
    BY <2>1, <2>2, AssignedRows DEF Silent, Same
<1>4. ASSUME NEW p \in Parties, NEW at \in Times, NEW requested \in TableIds \cup {NoTable},
             CreateReservation(p, at, requested)
      PROVE  \E i : Booked(i)
  <2>1. PICK t \in Resolve(requested, p, at, 0) : InsertReservation(p, at, t)
    BY <1>4 DEF CreateReservation
  <2> DEFINE e == [party |-> p, at |-> at, table |-> t, status |-> "confirmed"]
             n == Len(reservations) + 1
  <2>2. t \in TableIds
    BY RowsTyped, <2>1, ResolveFits DEF Fits, IsTable
  <2>3. /\ e \in Reservation /\ e.at = at /\ reservations' = Append(reservations, e)
        /\ issued' = <<Issue("created", n, at), Issue("reminder", n, at)>>
    BY <2>1, <2>2 DEF Reservation, InsertReservation
  <2> HIDE DEF e
  <2>4. Booked(n)
    BY <2>3, InsertShape DEF Booked
  <2> QED
    BY <2>4
<1>5. ASSUME NEW i \in DOMAIN reservations, NEW p, NEW at, NEW requested,
             UpdateReservation(i, p, at, requested)
      PROVE  Reworded(i) \/ Moved(i)
  BY <1>5, UpdateShape DEF UpdateReservation
<1>6. ASSUME NEW i \in DOMAIN reservations, CancelReservation(i)
      PROVE  CalledOff(i)
  BY <1>6, CancelShape DEF CancelReservation
<1>7. ASSUME NEW p \in Parties, NEW at \in Times, NEW status \in {"confirmed", "cancelled"},
             SeedReservation(p, at, status)
      PROVE  Silent
  <2> DEFINE e == [party |-> p, at |-> at, table |-> NoTable, status |-> status]
  <2>1. e \in Reservation /\ reservations' = Append(reservations, e) /\ issued' = <<>>
    BY <1>7 DEF Reservation, SeedReservation, Quiet
  <2> HIDE DEF e
  <2> QED
    BY <2>1, InsertShape DEF Silent
<1> QED
  BY <1>2, <1>3, <1>4, <1>5, <1>6, <1>7 DEF Next, ReservationRequest

-----------------------------------------------------------------------------
(* A request and its messages                                              *)

Message(cmd) == cmd.op \in {"created", "updated", "cancelled"}

\* One command: what it does to the reminders of its reservation and of others.
LEMMA CommandKeeps ==
    ASSUME ~suppress, now \in Int, NEW R, NEW q, Sound(q, R),
           NEW cmd \in Command, cmd.res \in R, NEW new, new = Executed(q, cmd)
    PROVE  /\ Sound(new, R) /\ Extends(q, new)
           /\ \A i, at : i # cmd.res \/ Message(cmd) =>
                 /\ Fresh(q, i, at) => Fresh(new, i, at)
                 /\ Reminded(q, i, at) => Reminded(new, i, at)
           /\ Message(cmd) => Waiting(new, cmd.res) = Waiting(q, cmd.res)
           /\ cmd.op = "drop_reminders" => Waiting(new, cmd.res) = {}
           /\ cmd.op = "reminder" /\ Waiting(q, cmd.res) = {} =>
                 Fresh(new, cmd.res, cmd.at) /\ Reminded(new, cmd.res, cmd.at)
<1>1. CASE cmd.op = "drop_reminders"
  <2>1. new = Q!RemindersCancelled(q, cmd.res)
    BY <1>1 DEF Executed
  <2> QED
    BY <1>1, <2>1, DroppingKeeps DEF Message
<1>2. CASE cmd.op # "drop_reminders"
  <2>1. q \in Seq(Q!Row)
    BY DEF Sound
  <2>2. PICK row \in Q!Row :
            /\ Executed(q, cmd) = Append(q, row)
            /\ row.res = cmd.res /\ row.kind = cmd.op /\ row.body = cmd.at
            /\ row.status = "pending" /\ row.attempts = 0
            /\ row.kind = "reminder" => row.body - Lead - now <= row.due
    BY <1>2, <2>1, MessageStored
  <2>3. /\ Sound(new, R) /\ Extends(q, new)
        /\ \A i, at :
              row.res # i \/ row.kind # "reminder" =>
                 /\ Waiting(new, i) = Waiting(q, i)
                 /\ Fresh(q, i, at) => Fresh(new, i, at)
                 /\ Reminded(q, i, at) => Reminded(new, i, at)
        /\ row.kind = "reminder" /\ Waiting(q, row.res) = {} =>
              Fresh(new, row.res, row.body) /\ Reminded(new, row.res, row.body)
    <3>1. /\ new = Append(q, row) /\ row.res \in R
          /\ row.status = "pending" /\ row.attempts = 0
          /\ row.kind = "reminder" => row.body - Lead - now <= row.due
      BY <2>2
    <3> QED
      BY <3>1, StoringKeeps, Zenon
  <2> QED
    BY <1>2, <2>2, <2>3 DEF Message
<1> QED
  BY <1>1, <1>2

LEMMA ExtendsFurther ==
    ASSUME NEW q, NEW r, NEW s, Extends(q, r), Extends(r, s)
    PROVE  Extends(q, s)
BY DEF Extends

\* Nothing is queued for a reservation before it is made.
LEMMA Newcomer ==
    ASSUME RowsInv, NEW i, i \notin DOMAIN reservations, NEW at
    PROVE  Waiting(queue, i) = {} /\ Fresh(queue, i, at) /\ Reminded(queue, i, at)
<1>1. \A k \in DOMAIN queue : queue[k].res # i
  BY DEF RowsInv
<1>2. Waiting(queue, i) = {}
  BY <1>1 DEF Waiting
<1> QED
  BY <1>1, <1>2 DEF Fresh, Reminded

\* A table that only grows leaves the workers' memory true.
LEMMA DeliveredKeeps ==
    ASSUME Q!TypeOK, BatchInv, Delivering,
           Sound(queue', DOMAIN reservations'), Extends(queue, queue')
    PROVE  Q!TypeOK' /\ RowsInv' /\ BatchInv' /\ Extends(queue, queue')
<1>1. UNCHANGED <<suppress, worker, calls, delivered, now>> /\ Len(queue') <= MaxRows
  BY DEF Delivering, workerVars
<1>2. queue' \in Seq(Q!Row) /\ DOMAIN queue \subseteq DOMAIN queue'
  BY DEF Sound, Extends
<1>3. Q!TypeOK'
  BY <1>1, <1>2 DEF Q!TypeOK, Q!Row, Q!RowIds, Q!WorkerState
<1>4. RowsInv'
  BY <1>1 DEF RowsInv, Sound, Timely
<1>5. BatchInv'
  BY <1>1, FieldsTyped DEF BatchInv, Extends
<1> QED
  BY <1>3, <1>4, <1>5

\* The reminder invariant after a request, reservation by reservation: those that
\* it leaves alone, and the one it is about.
LEMMA RemindersAfter ==
    ASSUME RowsInv, ReminderInv, NEW i,
           \A j \in DOMAIN reservations' \ {i} :
              j \in DOMAIN reservations => Same(j),
           \A j \in DOMAIN reservations' \ {i} : \A at :
              /\ Fresh(queue, j, at) => Fresh(queue', j, at)
              /\ Reminded(queue, j, at) => Reminded(queue', j, at),
           i \in DOMAIN reservations' =>
              /\ Fresh(queue', i, reservations'[i].at)
              /\ reservations'[i].status = "confirmed"
                    => Reminded(queue', i, reservations'[i].at)
    PROVE  ReminderInv'
<1>1. ASSUME NEW j \in DOMAIN reservations', j # i
      PROVE  /\ Fresh(queue', j, reservations'[j].at)
             /\ reservations'[j].status = "confirmed"
                   => Reminded(queue', j, reservations'[j].at)
  <2>1. CASE j \in DOMAIN reservations
    <3>1. /\ Fresh(queue, j, reservations[j].at)
          /\ reservations[j].status = "confirmed" => Reminded(queue, j, reservations[j].at)
      BY <2>1 DEF ReminderInv, Confirmed
    <3>2. Same(j)
      BY <1>1, <2>1
    <3> QED
      BY <1>1, <3>1, <3>2 DEF Same
  <2>2. CASE j \notin DOMAIN reservations
    BY <1>1, <2>2, Newcomer
  <2> QED
    BY <2>1, <2>2
<1> QED
  BY <1>1 DEF ReminderInv, Confirmed

LEMMA IssueFields ==
    ASSUME NEW op, NEW i, NEW at
    PROVE  Issue(op, i, at).op = op /\ Issue(op, i, at).res = i /\ Issue(op, i, at).at = at
BY DEF Issue

\* A request that is served keeps everything the invariant says of the queue.
LEMMA RequestKeeps ==
    ASSUME TypeOK, TypeOK', Q!TypeOK, now \in Int, ~suppress, RowsInv, BatchInv, ReminderInv,
           Next, Delivering
    PROVE  Q!TypeOK' /\ RowsInv' /\ BatchInv' /\ Extends(queue, queue') /\ ReminderInv'
<1> DEFINE R == DOMAIN reservations'
           Goal == Q!TypeOK' /\ RowsInv' /\ BatchInv' /\ Extends(queue, queue') /\ ReminderInv'
<1>1. queue' = AllExecuted(queue, issued') /\ issued' \in Seq(Command)
  BY DEF Delivering, TypeOK, AllExecuted
<1>2. DOMAIN reservations \subseteq R
  BY RequestShape DEF Silent, Booked, Reworded, Moved, CalledOff
<1>3. Sound(queue, R) /\ Extends(queue, queue)
  BY <1>2 DEF RowsInv, Sound, Extends, Q!TypeOK
<1> HIDE DEF R
<1>4. CASE Silent
  <2>1. DOMAIN issued' = 1..0
    BY <1>4 DEF Silent
  <2>2. queue' = queue
    BY <1>1, <2>1, FoldByLength
  <2>3. Q!TypeOK' /\ RowsInv' /\ BatchInv' /\ Extends(queue, queue')
    BY <1>3, <2>2, DeliveredKeeps DEF R
  <2>4. 0 \notin DOMAIN reservations'
    BY DEF TypeOK
  <2>5. ReminderInv'
    BY <1>4, <2>2, <2>4, RemindersAfter DEF Silent
  <2> QED
    BY <2>3, <2>5
<1>5. ASSUME NEW i \in R, NEW op, issued' = <<Issue(op, i, reservations'[i].at)>>,
             op = "updated", Reworded(i)
      PROVE  Goal
  <2>1. /\ DOMAIN issued' = 1..1 /\ issued'[1] \in Command
        /\ issued'[1].op = op /\ issued'[1].res = i /\ issued'[1].at = reservations'[i].at
    BY <1>1, <1>5, IssueFields
  <2>2. queue' = Executed(queue, issued'[1])
    BY <1>1, <2>1, FoldByLength
  <2>3. /\ Sound(queue', R) /\ Extends(queue, queue')
        /\ \A j, at : /\ Fresh(queue, j, at) => Fresh(queue', j, at)
                      /\ Reminded(queue, j, at) => Reminded(queue', j, at)
    BY <1>3, <1>5, <2>1, <2>2, CommandKeeps DEF Message
  <2>4. Q!TypeOK' /\ RowsInv' /\ BatchInv' /\ Extends(queue, queue')
    BY <2>3, DeliveredKeeps DEF R
  <2>5. i \in DOMAIN reservations /\ Same(i)
    BY <1>5 DEF Reworded, R
  <2>6. /\ Fresh(queue, i, reservations[i].at)
        /\ reservations[i].status = "confirmed" => Reminded(queue, i, reservations[i].at)
    BY <2>5 DEF ReminderInv, Confirmed
  <2>7. /\ Fresh(queue', i, reservations'[i].at)
        /\ reservations'[i].status = "confirmed" => Reminded(queue', i, reservations'[i].at)
    BY <2>3, <2>5, <2>6 DEF Same
  <2>8. ReminderInv'
    BY <1>5, <2>3, <2>7, RemindersAfter DEF Reworded
  <2> QED
    BY <2>4, <2>8
<1>6. ASSUME NEW i \in R, Booked(i)
      PROVE  Goal
  <2> DEFINE at == reservations'[i].at
             one == Executed(queue, issued'[1])
             two == Executed(one, issued'[2])
  <2>1. /\ DOMAIN issued' = 1..2 /\ issued'[1] \in Command /\ issued'[2] \in Command
        /\ issued'[1].op = "created" /\ issued'[1].res = i
        /\ issued'[2].op = "reminder" /\ issued'[2].res = i /\ issued'[2].at = at
    BY <1>1, <1>6, IssueFields DEF Booked
  <2>2. queue' = two
    BY <1>1, <2>1, FoldByLength
  <2> HIDE DEF two, at
  <2>3. /\ Sound(one, R) /\ Extends(queue, one)
        /\ \A j, t : /\ Fresh(queue, j, t) => Fresh(one, j, t)
                     /\ Reminded(queue, j, t) => Reminded(one, j, t)
        /\ Waiting(one, i) = Waiting(queue, i)
    BY <1>3, <1>6, <2>1, CommandKeeps DEF Message
  <2> HIDE DEF one
  <2>4. Waiting(one, i) = {}
    BY <1>6, <2>3, Newcomer DEF Booked
  <2>5. /\ Sound(two, R) /\ Extends(one, two)
        /\ \A j, t : j # i => /\ Fresh(one, j, t) => Fresh(two, j, t)
                              /\ Reminded(one, j, t) => Reminded(two, j, t)
        /\ Fresh(two, i, at) /\ Reminded(two, i, at)
    BY <1>6, <2>1, <2>3, <2>4, CommandKeeps DEF two
  <2>6. Q!TypeOK' /\ RowsInv' /\ BatchInv' /\ Extends(queue, queue')
    BY <2>2, <2>3, <2>5, ExtendsFurther, DeliveredKeeps DEF R
  <2>7. ReminderInv'
    BY <1>6, <2>2, <2>3, <2>5, RemindersAfter DEF Booked, at
  <2> QED
    BY <2>6, <2>7
<1>7. ASSUME NEW i \in R, Moved(i)
      PROVE  Goal
  <2> DEFINE at == reservations'[i].at
             one == Executed(queue, issued'[1])
             two == Executed(one, issued'[2])
             three == Executed(two, issued'[3])
  <2>1. /\ DOMAIN issued' = 1..3
        /\ issued'[1] \in Command /\ issued'[2] \in Command /\ issued'[3] \in Command
        /\ issued'[1].op = "updated" /\ issued'[1].res = i
        /\ issued'[2].op = "drop_reminders" /\ issued'[2].res = i
        /\ issued'[3].op = "reminder" /\ issued'[3].res = i /\ issued'[3].at = at
    BY <1>1, <1>7, IssueFields DEF Moved
  <2>2. queue' = three
    BY <1>1, <2>1, FoldByLength
  <2> HIDE DEF three, at
  <2>3. /\ Sound(one, R) /\ Extends(queue, one)
        /\ \A j, t : /\ Fresh(queue, j, t) => Fresh(one, j, t)
                     /\ Reminded(queue, j, t) => Reminded(one, j, t)
    BY <1>3, <1>7, <2>1, CommandKeeps DEF Message
  <2> HIDE DEF one
  <2>4. /\ Sound(two, R) /\ Extends(one, two)
        /\ \A j, t : j # i => /\ Fresh(one, j, t) => Fresh(two, j, t)
                              /\ Reminded(one, j, t) => Reminded(two, j, t)
        /\ Waiting(two, i) = {}
    <3>1. two = Executed(one, issued'[2]) /\ issued'[2].res \in R
      BY <2>1
    <3> HIDE DEF two
    <3>2. Sound(two, R) /\ Extends(one, two)
      BY <2>1, <2>3, <3>1, CommandKeeps
    <3>3. ASSUME NEW j, NEW t, j # issued'[2].res
          PROVE  /\ Fresh(one, j, t) => Fresh(two, j, t)
                 /\ Reminded(one, j, t) => Reminded(two, j, t)
      BY <2>1, <2>3, <3>1, <3>3, CommandKeeps
    <3>4. Waiting(two, issued'[2].res) = {}
      BY <2>1, <2>3, <3>1, CommandKeeps
    <3> QED
      BY <2>1, <3>2, <3>3, <3>4
  <2> HIDE DEF two
  <2>5. /\ Sound(three, R) /\ Extends(two, three)
        /\ \A j, t : j # i => /\ Fresh(two, j, t) => Fresh(three, j, t)
                              /\ Reminded(two, j, t) => Reminded(three, j, t)
        /\ Fresh(three, i, at) /\ Reminded(three, i, at)
    BY <1>7, <2>1, <2>4, CommandKeeps DEF three
  <2>6. Q!TypeOK' /\ RowsInv' /\ BatchInv' /\ Extends(queue, queue')
    BY <2>2, <2>3, <2>4, <2>5, ExtendsFurther, DeliveredKeeps DEF R
  <2>7. ReminderInv'
    BY <1>7, <2>2, <2>3, <2>4, <2>5, RemindersAfter DEF Moved, at
  <2> QED
    BY <2>6, <2>7
<1>8. ASSUME NEW i \in R, CalledOff(i)
      PROVE  Goal
  <2> DEFINE one == Executed(queue, issued'[1])
             two == Executed(one, issued'[2])
  <2>1. /\ DOMAIN issued' = 1..2 /\ issued'[1] \in Command /\ issued'[2] \in Command
        /\ issued'[1].op = "cancelled" /\ issued'[1].res = i
        /\ issued'[2].op = "drop_reminders" /\ issued'[2].res = i
    BY <1>1, <1>8, IssueFields DEF CalledOff
  <2>2. queue' = two
    BY <1>1, <2>1, FoldByLength
  <2> HIDE DEF two
  <2>3. /\ Sound(one, R) /\ Extends(queue, one)
        /\ \A j, t : /\ Fresh(queue, j, t) => Fresh(one, j, t)
                     /\ Reminded(queue, j, t) => Reminded(one, j, t)
    BY <1>3, <1>8, <2>1, CommandKeeps DEF Message
  <2> HIDE DEF one
  <2>4. /\ Sound(two, R) /\ Extends(one, two)
        /\ \A j, t : j # i => /\ Fresh(one, j, t) => Fresh(two, j, t)
                              /\ Reminded(one, j, t) => Reminded(two, j, t)
        /\ Waiting(two, i) = {}
    <3>1. two = Executed(one, issued'[2]) /\ issued'[2].res \in R
      BY <2>1 DEF two
    <3> HIDE DEF two
    <3>2. Sound(two, R) /\ Extends(one, two)
      BY <2>1, <2>3, <3>1, CommandKeeps
    <3>3. ASSUME NEW j, NEW t, j # issued'[2].res
          PROVE  /\ Fresh(one, j, t) => Fresh(two, j, t)
                 /\ Reminded(one, j, t) => Reminded(two, j, t)
      BY <2>1, <2>3, <3>1, <3>3, CommandKeeps
    <3>4. Waiting(two, issued'[2].res) = {}
      BY <2>1, <2>3, <3>1, CommandKeeps
    <3> QED
      BY <2>1, <3>2, <3>3, <3>4
  <2>5. Q!TypeOK' /\ RowsInv' /\ BatchInv' /\ Extends(queue, queue')
    BY <2>2, <2>3, <2>4, ExtendsFurther, DeliveredKeeps DEF R
  <2>6. \A t : Fresh(two, i, t)
    BY <2>4 DEF Fresh
  <2>7. ReminderInv'
    BY <1>8, <2>2, <2>3, <2>4, <2>6, RemindersAfter DEF CalledOff
  <2> QED
    BY <2>5, <2>7
<1>9. \A i : Booked(i) => i \in R
  BY DEF Booked, R
<1>10. \A i \in DOMAIN reservations : i \in R
  BY <1>2 DEF R
<1>11. ASSUME NEW i \in R, Reworded(i)
       PROVE  Goal
  BY <1>5, <1>11 DEF Reworded
<1> HIDE DEF Goal
<1>12. Goal
  BY <1>4, <1>6, <1>7, <1>8, <1>9, <1>10, <1>11, RequestShape DEF Goal
<1> QED
  BY <1>12 DEF Goal

-----------------------------------------------------------------------------
(* The clock                                                               *)

\* An hour brings every waiting row an hour nearer, and no row overtakes it.
LEMMA AgedRow ==
    ASSUME Q!TypeOK, now \in Int, now' = now + 1, NEW k \in DOMAIN queue,
           queue'[k] = Q!Aged(queue[k]), Timely(queue[k])
    PROVE  /\ Evolved(k)
           /\ queue'[k].attempts = queue[k].attempts
           /\ Timely(queue[k])'
<1> DEFINE row == queue[k]
           aged == queue'[k]
<1>1. /\ row \in Q!Row /\ row.body \in Int /\ row.attempts \in Nat /\ row.due \in Int
  BY FieldsTyped
<1>2. /\ aged.res = row.res /\ aged.kind = row.kind /\ aged.body = row.body
      /\ aged.status = row.status /\ aged.attempts = row.attempts
      /\ aged.due = row.due \/ aged.due = row.due - 1
  BY <1>1 DEF Q!Aged, Q!Row
<1>3. Evolved(k)
  BY <1>2 DEF Evolved
<1>4. Timely(queue[k])'
  BY <1>1, <1>2, ServiceAssumption DEF Timely
<1> QED
  BY <1>2, <1>3, <1>4

LEMMA ClockKeeps ==
    ASSUME Q!TypeOK, now \in 0..MaxNow, RowsInv, BatchInv, ReminderInv, Tick
    PROVE  Q!TypeOK' /\ now' \in 0..MaxNow /\ RowsInv' /\ BatchInv' /\ ReminderInv'
<1>1. /\ queue' = [k \in DOMAIN queue |-> Q!Aged(queue[k])]
      /\ UNCHANGED <<reservations, suppress, worker, calls, delivered>>
      /\ now < MaxNow /\ now' = now + 1
  BY DEF Tick, bookingVars, workerVars
<1>2. now \in Int /\ now' \in 0..MaxNow
  BY <1>1, ServiceAssumption
<1>3. queue \in Seq(Q!Row) /\ \A k \in DOMAIN queue : queue[k] \in Q!Row
  BY FieldsTyped DEF Q!TypeOK
<1>4. \A k \in DOMAIN queue : Q!Aged(queue[k]) \in Q!Row
  BY <1>3, QueueAssumptionHolds, QP!ClockType, SameOperators, SameTypes
<1>5. queue' \in [DOMAIN queue -> Q!Row]
  BY <1>1, <1>4
<1>6. queue' \in Seq(Q!Row) /\ Len(queue') = Len(queue) /\ DOMAIN queue' = DOMAIN queue
  BY <1>3, <1>5, QP!RewrittenTable
<1>7. Q!TypeOK'
  BY <1>1, <1>6 DEF Q!TypeOK, Q!Row, Q!RowIds, Q!WorkerState
<1>8. \A k \in DOMAIN queue : /\ Evolved(k)
                              /\ queue'[k].attempts = queue[k].attempts
                              /\ Timely(queue[k])'
  BY <1>1, <1>2, AgedRow DEF RowsInv
<1>9. RowsInv'
  BY <1>1, <1>6, <1>8 DEF RowsInv, Evolved
<1>10. BatchInv'
  <2> SUFFICES ASSUME NEW w \in Workers, NEW k \in worker[w].ids
               PROVE  /\ queue'[k].kind = "reminder" => queue'[k].body - Lead <= now'
                      /\ worker[w].pc # "selected" => queue'[k].attempts > 0
    BY <1>1 DEF BatchInv
  <2>1. k \in DOMAIN queue /\ queue[k].body \in Int
    BY FieldsTyped
  <2>2. /\ queue[k].kind = "reminder" => queue[k].body - Lead <= now
        /\ worker[w].pc # "selected" => queue[k].attempts > 0
    BY DEF BatchInv
  <2>3. /\ queue'[k].kind = queue[k].kind /\ queue'[k].body = queue[k].body
        /\ queue'[k].attempts = queue[k].attempts
    BY <1>8, <2>1 DEF Evolved
  <2> QED
    BY <1>1, <1>2, <2>1, <2>2, <2>3, ServiceAssumption
<1>11. ReminderInv'
  BY <1>1, <1>6, <1>8, EvolvedKeepsReminders
<1> QED
  BY <1>2, <1>7, <1>9, <1>10, <1>11

-----------------------------------------------------------------------------
(* The theorems                                                            *)

\* The composed program is one of Bookings with more going on around it: the
\* worker, its mishaps and the clock leave rooms, tables and reservations alone,
\* and a request does to them what it does there.
THEOREM ServiceKeepsBookings == ServiceSpec => Spec
<1>1. ServiceInit => Init
  BY DEF ServiceInit
<1>2. [ServiceNext]_serviceVars => [Next]_bookingVars
  <2>1. Request => Next
    BY DEF Request
  <2>2. (\E w \in Workers : WorkerStep(w)) \/ Mishap \/ Tick => UNCHANGED bookingVars
    BY DEF WorkerStep, Mishap, Tick
  <2>3. UNCHANGED serviceVars => UNCHANGED bookingVars
    BY DEF serviceVars
  <2> QED
    BY <2>1, <2>2, <2>3 DEF ServiceNext
<1> QED
  BY <1>1, <1>2, PTL DEF ServiceSpec, Spec

LEMMA StartsSound == ServiceInit => ServiceInv
<1> SUFFICES ASSUME ServiceInit
             PROVE  ServiceInv
  OBVIOUS
<1>1. /\ queue = <<>> /\ reservations = <<>> /\ ~suppress /\ now = 0
      /\ worker = [w \in Workers |-> Q!Idle]
  BY DEF ServiceInit, Init, Q!Init
<1>2. TypeOK
  BY BookingsAssumption DEF ServiceInit, Init, TypeOK
<1>3. Q!TypeOK
  <2>1. Q!Idle \in Q!WorkerState /\ Q!Idle.ids = {} /\ Q!Idle.row = 0 /\ Q!Idle.pc = "idle"
    BY DEF Q!Idle, Q!WorkerState
  <2> QED
    BY <1>1, <2>1, ServiceAssumption DEF ServiceInit, Q!Init, Q!TypeOK
<1>4. RowsInv /\ ReminderInv
  BY <1>1 DEF RowsInv, ReminderInv
<1>5. BatchInv
  BY <1>1 DEF BatchInv, Q!Idle
<1> QED
  BY <1>1, <1>2, <1>3, <1>4, <1>5, ServiceAssumption DEF ServiceInv, ServiceTypeOK

LEMMA StaysSound == TypeOK' /\ ServiceInv /\ [ServiceNext]_serviceVars => ServiceInv'
<1> SUFFICES ASSUME TypeOK', ServiceInv, [ServiceNext]_serviceVars
             PROVE  ServiceInv'
  OBVIOUS
<1>1. /\ TypeOK /\ Q!TypeOK /\ now \in 0..MaxNow /\ now \in Int /\ ~suppress
      /\ RowsInv /\ BatchInv /\ ReminderInv
  BY ServiceAssumption DEF ServiceInv, ServiceTypeOK
<1>2. ASSUME Q!TypeOK', now' \in 0..MaxNow, UNCHANGED suppress, RowsInv', BatchInv', ReminderInv'
      PROVE  ServiceInv'
  BY <1>1, <1>2 DEF ServiceInv, ServiceTypeOK
<1>3. CASE Request
  <2>1. Q!TypeOK' /\ RowsInv' /\ BatchInv' /\ ReminderInv'
    BY <1>1, <1>3, RequestKeeps DEF Request
  <2>2. UNCHANGED <<suppress, now>>
    BY <1>3 DEF Request, Delivering, workerVars
  <2> QED
    BY <1>1, <1>2, <2>1, <2>2
<1>4. CASE (\E w \in Workers : WorkerStep(w)) \/ Mishap
  <2>1. /\ (\E w \in Workers : Q!WorkerStep(w) \/ Q!TickFails(w)) \/ Q!Restart \/ Q!Kill
        /\ UNCHANGED <<reservations, now>>
    BY <1>4 DEF WorkerStep, Mishap, bookingVars
  <2>2. UNCHANGED suppress
    BY <1>4 DEF WorkerStep, Mishap, Q!WorkerStep, Q!Select, Q!Claim, Q!SendSucceeds,
                Q!SendRaises, Q!SendTo, Q!MarkSent, Q!MarkFailedOrRetry
  <2>3. Q!TypeOK'
    BY <1>1, <2>1, WorkerTyped
  <2>4. RowsInv' /\ BatchInv' /\ ReminderInv'
    BY <1>1, <2>1, WorkerKeeps
  <2> QED
    BY <1>1, <1>2, <2>1, <2>2, <2>3, <2>4
<1>5. CASE Tick
  <2>1. UNCHANGED suppress
    BY <1>5 DEF Tick, workerVars
  <2> QED
    BY <1>1, <1>2, <1>5, <2>1, ClockKeeps
<1>6. CASE UNCHANGED serviceVars
  <2>1. UNCHANGED <<reservations, queue, suppress, worker, calls, delivered, now>>
    BY <1>6 DEF serviceVars, bookingVars, workerVars
  <2>2. Q!TypeOK'
    BY <1>1, <2>1 DEF Q!TypeOK, Q!Row, Q!RowIds, Q!WorkerState
  <2>3. RowsInv' /\ BatchInv' /\ ReminderInv'
    BY <1>1, <2>1 DEF RowsInv, Timely, BatchInv, ReminderInv, Confirmed
  <2> QED
    BY <1>1, <1>2, <2>1, <2>2, <2>3
<1> QED
  BY <1>3, <1>4, <1>5, <1>6 DEF ServiceNext

\* What the queue, the workers' batches and the reservations know of each other.
LEMMA ServiceSound == ServiceSpec => []ServiceInv
<1>1. ServiceSpec => []TypeOK
  BY ServiceKeepsBookings, TypeCorrect, PTL
<1> QED
  BY <1>1, StartsSound, StaysSound, PTL DEF ServiceSpec

\* Type correctness of the composition: every message that a request enqueues is
\* a row of the queue, and a batch names rows that there are.
THEOREM ServiceTypesCorrect == ServiceSpec => []ServiceTypeOK
BY ServiceSound, PTL DEF ServiceInv

\* The reminder that is waiting for its first attempt is the only one and states
\* the reservation's present time (crud.py: the old ones are dropped when a
\* reservation moves), whatever the workers are doing meanwhile.
THEOREM RemindersStayFresh == ServiceSpec => []RemindersFresh
<1>1. ServiceInv => RemindersFresh
  <2> SUFFICES ASSUME ServiceInv, NEW i \in DOMAIN reservations,
                      NEW k \in Reminders(i), queue[k].status = "pending", queue[k].attempts = 0
               PROVE  /\ queue[k].body = reservations[i].at
                      /\ \A l \in Reminders(i) \ {k} :
                            ~(queue[l].status = "pending" /\ queue[l].attempts = 0)
    BY DEF RemindersFresh
  <2>1. Fresh(queue, i, reservations[i].at)
    BY DEF ServiceInv, ReminderInv
  <2>2. k \in Waiting(queue, i)
    BY DEF Waiting, Reminders
  <2> QED
    BY <2>1, <2>2 DEF Fresh, Waiting, Reminders
<1> QED
  BY <1>1, ServiceSound, PTL

\* A confirmed reservation that was ever given a reminder has one that states its
\* present time and is not cancelled: moving it drops and replaces (crud.py), and
\* neither a worker nor a crash cancels a row.
THEOREM RemindersAreKept == ServiceSpec => []ReminderKept
<1>1. ServiceInv => ReminderKept
  BY DEF ServiceInv, ReminderInv, ReminderKept, Confirmed, Reminded, Reminders
<1> QED
  BY <1>1, ServiceSound, PTL

\* No reminder is given to the provider sooner than the lead before the time it
\* states (_reminder_time_for), however it was selected, retried or interrupted.
THEOREM RemindersAreNotEarly == ServiceSpec => NoEarlyReminder
<1>1. ASSUME ServiceInv, ServiceNext,
             NEW k \in DOMAIN queue, calls'[k] > calls[k], queue[k].kind = "reminder"
      PROVE  queue[k].body - Lead <= now
  <2>1. Q!TypeOK /\ BatchInv
    BY <1>1 DEF ServiceInv, ServiceTypeOK
  <2>2. calls \in [Q!RowIds -> Nat] /\ k \in Q!RowIds
    BY <2>1, ServiceAssumption DEF Q!TypeOK, Q!RowIds
  <2>3. ~UNCHANGED calls
    BY <1>1, <2>2
  <2>4. PICK w \in Workers, i \in Q!RowIds, pc \in {"mark_sent", "mark_failed"} :
           Q!SendTo(w, i, pc)
    BY <1>1, <2>3 DEF ServiceNext, Request, Delivering, workerVars, WorkerStep, Mishap, Tick,
                      Q!WorkerStep, Q!Select, Q!Claim, Q!SendSucceeds, Q!SendRaises,
                      Q!MarkSent, Q!MarkFailedOrRetry, Q!TickFails, Q!Restart, Q!Kill, Q!Started
  <2>5. i \in worker[w].ids /\ calls' = [calls EXCEPT ![i] = @ + 1]
    BY <2>4 DEF Q!SendTo, Q!IsNext
  <2>6. k = i
    BY <1>1, <2>2, <2>5
  <2> QED
    BY <1>1, <2>1, <2>5, <2>6 DEF BatchInv
<1>2. ServiceInv /\ [ServiceNext]_serviceVars
         => [\A k \in DOMAIN queue :
               calls'[k] > calls[k] /\ queue[k].kind = "reminder"
                   => queue[k].body - Lead <= now]_serviceVars
  BY <1>1
<1> QED
  BY <1>2, ServiceSound, PTL DEF ServiceSpec, NoEarlyReminder

-----------------------------------------------------------------------------
(* Deliveries                                                              *)

\* With one worker the ledger of the queue (QP!DeliveryInv) is kept by requests
\* too, which store and cancel several messages in one step.
SingleWorker == \A v, w \in Workers : v = w

LEMMA SameLedger ==
    /\ QP!DeliveryInv /\ Q!TypeOK => Q!AtMostOnce /\ Q!RetryBudget
    /\ QP!SingleWorker <=> SingleWorker
<1>1. ASSUME QP!DeliveryInv, Q!TypeOK
      PROVE  Q!AtMostOnce /\ Q!RetryBudget
  <2>1. Q!AtMostOnce
    BY <1>1 DEF QP!DeliveryInv, QP!Ledger, QP!Untouched, Q!AtMostOnce, Q!RowIds, QP!RowIds
  <2>2. Q!RetryBudget
    BY <1>1 DEF QP!DeliveryInv, QP!Ledger, Q!RetryBudget
  <2> QED
    BY <2>1, <2>2
<1>2. QP!SingleWorker <=> SingleWorker
  BY DEF QP!SingleWorker, SingleWorker
<1> QED
  BY <1>1, <1>2

LEMMA LedgerIsHonest ==
    ASSUME Q!TypeOK, QP!DeliveryInv
    PROVE  Q!StatusHonest
<1> SUFFICES ASSUME NEW i \in DOMAIN queue
             PROVE  Q!StatusHonest!(i)
  BY DEF Q!StatusHonest
<1>1. queue[i].status \in Q!Statuses
  BY FieldsTyped DEF Q!Row
<1>2. QP!Ledger(i)
  BY DEF QP!DeliveryInv
<1> QED
  BY <1>1, <1>2 DEF QP!Ledger, Q!Statuses

\* The messages of a request: new rows have no history, and a row that is dropped
\* had none but what it still shows.
LEMMA RequestKeepsLedger ==
    ASSUME Q!TypeOK, Q!TypeOK', QP!DeliveryInv, Extends(queue, queue'),
           UNCHANGED <<worker, calls, delivered>>
    PROVE  QP!DeliveryInv'
<1>1. /\ DOMAIN queue' \subseteq QP!RowIds
      /\ \A w \in Workers : worker[w].ids \subseteq DOMAIN queue
  BY ServiceAssumption DEF Q!TypeOK, QP!RowIds
<1>2. ASSUME NEW k \in DOMAIN queue
      PROVE  /\ k \in DOMAIN queue' /\ queue'[k].attempts = queue[k].attempts
             /\ \/ queue'[k].status = queue[k].status
                \/ queue[k].status = "pending" /\ queue'[k].status = "cancelled"
  BY <1>2 DEF Extends
<1>3. ASSUME NEW w \in Workers
      PROVE  QP!Batch(w)' /\ QP!Claims(w)'
  <2>1. QP!Batch(w) /\ QP!Claims(w)
    BY DEF QP!DeliveryInv
  <2> QED
    BY <1>1, <1>2, <2>1 DEF QP!Batch, QP!Claims
<1>4. ASSUME NEW k \in DOMAIN queue'
      PROVE  QP!Ledger(k)'
  <2>1. CASE k \in DOMAIN queue
    BY <1>2, <2>1 DEF QP!DeliveryInv, QP!Ledger
  <2>2. CASE k \notin DOMAIN queue
    <3>1. calls[k] = 0 /\ delivered[k] = 0
      BY <1>1, <2>2 DEF QP!DeliveryInv, QP!Untouched
    <3>2. queue'[k].attempts = 0 /\ queue'[k].status \in {"pending", "cancelled"}
      BY <2>2 DEF Extends
    <3> QED
      BY <3>1, <3>2, ServiceAssumption DEF QP!Ledger
  <2> QED
    BY <2>1, <2>2
<1>5. QP!Untouched'
  BY <1>2 DEF QP!DeliveryInv, QP!Untouched, QP!RowIds
<1> QED
  BY <1>3, <1>4, <1>5 DEF QP!DeliveryInv

\* What a worker selects waits to be sent.
LEMMA SelectKeepsLedger ==
    ASSUME SingleWorker, Q!TypeOK, QP!DeliveryInv, NEW w \in Workers, Q!Select(w)
    PROVE  QP!DeliveryInv'
<1>1. /\ worker' = [worker EXCEPT ![w] = [@ EXCEPT !.pc = "selected", !.ids = Q!PickDue]]
      /\ worker'[w].ids \subseteq Q!DueRows
      /\ UNCHANGED <<queue, calls, delivered>>
  BY SelectTyped DEF Q!Select
<1>2. worker'[w].pc = "selected" /\ \A v \in Workers : v = w
  BY <1>1 DEF SingleWorker, Q!TypeOK, Q!WorkerState
<1>3. \A k \in worker'[w].ids : queue[k].status = "pending"
  BY <1>1 DEF Q!DueRows, Q!Due
<1>4. QP!Batch(w)' /\ QP!Claims(w)'
  BY <1>1, <1>2, <1>3 DEF QP!Batch, QP!Claims
<1>5. QP!Untouched' /\ \A k \in DOMAIN queue' : QP!Ledger(k)'
  BY <1>1 DEF QP!DeliveryInv, QP!Ledger, QP!Untouched, QP!RowIds
<1> QED
  BY <1>2, <1>4, <1>5 DEF QP!DeliveryInv

\* An hour of the shared clock is a tick of the queue's, or nothing waits.
LEMMA HourIsTick ==
    ASSUME Q!TypeOK, Tick
    PROVE  [QP!Next]_QP!vars
<1>1. /\ queue' = [k \in DOMAIN queue |-> QP!Aged(queue[k])]
      /\ UNCHANGED <<suppress, worker, calls, delivered>>
  BY SameOperators DEF Tick, workerVars
<1>2. CASE \E k \in DOMAIN queue : QP!Aged(queue[k]) # queue[k]
  BY <1>1, <1>2 DEF QP!Tick, QP!Next, QP!CalmNext
<1>3. CASE \A k \in DOMAIN queue : QP!Aged(queue[k]) = queue[k]
  <2>1. queue = [k \in DOMAIN queue |-> queue[k]]
    BY DEF Q!TypeOK
  <2>2. queue' = queue
    BY <1>1, <1>3, <2>1
  <2> QED
    BY <1>1, <2>2 DEF QP!vars
<1> QED
  BY <1>2, <1>3

LEMMA LedgerKept ==
    ASSUME SingleWorker, TypeOK, TypeOK', ServiceInv, ServiceInv', QP!DeliveryInv,
           [ServiceNext]_serviceVars
    PROVE  QP!DeliveryInv'
<1>1. Q!TypeOK /\ Q!TypeOK' /\ QP!TypeOK /\ QP!TypeOK'
  BY SameTypes, SameTypesAfter DEF ServiceInv, ServiceTypeOK
<1>2. [QP!Next]_QP!vars => QP!DeliveryInv'
  BY <1>1, SameLedger, QueueAssumptionHolds, QP!DeliveryPreserved
<1>3. CASE Request
  <2>1. Extends(queue, queue')
    BY <1>3, RequestKeeps, ServiceAssumption DEF ServiceInv, ServiceTypeOK, Request
  <2>2. UNCHANGED <<worker, calls, delivered>>
    BY <1>3 DEF Request, Delivering, workerVars
  <2> QED
    BY <1>1, <2>1, <2>2, RequestKeepsLedger
<1>4. ASSUME NEW w \in Workers, WorkerStep(w)
      PROVE  QP!DeliveryInv'
  <2>1. Q!Select(w) \/ QP!WorkerStep(w)
    BY <1>4, SameSteps DEF WorkerStep
  <2>2. QP!WorkerStep(w) => QP!Next
    BY DEF QP!Next, QP!CalmNext
  <2> QED
    BY <1>1, <1>2, <2>1, <2>2, SelectKeepsLedger
<1>5. CASE Mishap
  <2>1. QP!Next
    BY <1>5, SameSteps DEF Mishap, QP!Next, QP!CalmNext
  <2> QED
    BY <1>2, <2>1
<1>6. CASE Tick
  BY <1>1, <1>2, <1>6, HourIsTick
<1>7. CASE UNCHANGED serviceVars
  <2>1. UNCHANGED QP!vars
    BY <1>7 DEF serviceVars, workerVars, QP!vars
  <2> QED
    BY <1>2, <2>1
<1> QED
  BY <1>3, <1>4, <1>5, <1>6, <1>7 DEF ServiceNext

\* With one worker, what the queue promises of messages holds of those that
\* bookings, moves and cancellations enqueue, several in one transaction: each is
\* delivered at most once, within its attempts, and its status tells what happened.
THEOREM BookingMessagesGoOutOnce ==
    ASSUME SingleWorker
    PROVE  ServiceSpec => [](Q!AtMostOnce /\ Q!RetryBudget /\ Q!StatusHonest)
<1>1. ServiceInit => QP!DeliveryInv
  BY DEF ServiceInit, Q!Init, Q!Idle, Q!RowIds, QP!RowIds, QP!DeliveryInv, QP!Batch, QP!Claims,
         QP!Untouched
<1>2. TypeOK /\ TypeOK' /\ ServiceInv /\ ServiceInv' /\ QP!DeliveryInv /\ [ServiceNext]_serviceVars
         => QP!DeliveryInv'
  BY LedgerKept
<1>3. ServiceInv /\ QP!DeliveryInv => Q!AtMostOnce /\ Q!RetryBudget /\ Q!StatusHonest
  BY SameLedger, LedgerIsHonest DEF ServiceInv, ServiceTypeOK
<1>4. ServiceInv => TypeOK
  BY DEF ServiceInv, ServiceTypeOK
<1> QED
  BY <1>1, <1>2, <1>3, <1>4, ServiceSound, PTL DEF ServiceSpec
===============================================================================
