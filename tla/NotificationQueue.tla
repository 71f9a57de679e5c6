-------------------------- MODULE NotificationQueue --------------------------
(***************************************************************************)
(* The notifications table (app/notifications/queue.py) and the worker     *)
(* loop that drains it (app/notifications/worker.py).                      *)
(*                                                                         *)
(* `queue' is the persisted table: row i is the row with id i, since ids   *)
(* are AUTOINCREMENT and no row is ever deleted.  A worker tick is a       *)
(* sequence of separate transactions and provider calls, and everything    *)
(* it holds between two of them is process memory that a kill loses.       *)
(*                                                                         *)
(* SQLite opens a transaction at the first write only, so the SELECT of    *)
(* pick_due runs outside the transaction of its UPDATE: the two are        *)
(* separate actions here, and other connections commit between them.       *)
(*                                                                         *)
(* The field `due' of a row is scheduled_at - now in minutes: a row is due *)
(* when it is not positive.  Lateness is not counted beyond MaxLate.       *)
(***************************************************************************)
EXTENDS Integers, Sequences, FiniteSets

CONSTANTS
    Workers,        \* worker coroutines; the deployment runs one
    Reservations,   \* reservations a row can refer to
    NoReservation,  \* the reservation_id NULL of an untethered custom row
    Kinds,          \* the kinds enqueued, a subset of NotificationKinds
    Delays,         \* scheduled_at - now of the rows enqueued, in minutes
    Bodies,         \* what a rendered message can say
    MaxAttempts,    \* settings.notification_max_attempts
    BatchLimit,     \* the limit process_batch passes to pick_due
    MaxRows,        \* bound: rows ever enqueued
    MaxLate         \* bound: lateness that the order of due rows tells apart

NotificationKinds == {"created", "updated", "cancelled", "reminder", "custom"}

ASSUME QueueAssumption ==
    /\ Kinds \subseteq NotificationKinds
    /\ Delays \subseteq Nat
    /\ MaxAttempts \in Nat \ {0}
    /\ BatchLimit \in Nat \ {0}
    /\ MaxRows \in Nat
    /\ MaxLate \in Nat
    /\ NoReservation \notin Reservations

VARIABLES
    queue,      \* the notifications table
    suppress,   \* settings.suppress_notifications, read when a process starts
    worker,     \* the memory of each worker: where it is in its tick
    calls,      \* times notifier.send was called for a row
    delivered   \* times notifier.send returned normally for a row

vars == <<queue, suppress, worker, calls, delivered>>

RowIds == 1..MaxRows

Statuses == {"pending", "in_flight", "sent", "failed", "cancelled"}

Row == [res : Reservations \cup {NoReservation}, kind : NotificationKinds,
        body : Bodies, status : Statuses, attempts : Nat, due : Int]

\* A tick is idle (asleep), has selected ids, is about to send the next claimed
\* row, or must record the outcome of the row it has just sent.
WorkerState == [pc : {"idle", "selected", "send", "mark_sent", "mark_failed"},
                ids : SUBSET RowIds, row : RowIds \cup {0}]

Idle == [pc |-> "idle", ids |-> {}, row |-> 0]

TypeOK ==
    /\ queue \in Seq(Row)
    /\ Len(queue) <= MaxRows
    /\ suppress \in BOOLEAN
    /\ worker \in [Workers -> WorkerState]
    /\ \A w \in Workers :
          /\ worker[w].ids \subseteq DOMAIN queue
          /\ worker[w].row \in worker[w].ids \cup {0}
          /\ worker[w].row # 0 <=> worker[w].pc \in {"mark_sent", "mark_failed"}
    /\ calls \in [RowIds -> Nat]
    /\ delivered \in [RowIds -> Nat]

Init ==
    /\ queue = <<>>
    /\ suppress \in BOOLEAN
    /\ worker = [w \in Workers |-> Idle]
    /\ calls = [i \in RowIds |-> 0]
    /\ delivered = [i \in RowIds |-> 0]

-----------------------------------------------------------------------------
(* queue.py: what each helper does to the table                            *)

NewRow(kind, res, body, due) ==
    [res |-> res, kind |-> kind, body |-> body,
     status |-> "pending", attempts |-> 0, due |-> due]

\* enqueue: lifecycle kinds are dropped while the kill switch is on.
Dropped(kind) == suppress /\ kind # "custom"

Enqueued(q, row) == IF Dropped(row.kind) THEN q ELSE Append(q, row)

\* Fault: reminders are dropped whatever has become of them.
RemindersCancelledAnyStatus(q, res) ==
    [i \in DOMAIN q |->
        IF q[i].res = res /\ q[i].kind = "reminder"
        THEN [q[i] EXCEPT !.status = "cancelled"]
        ELSE q[i]]

\* cancel_pending_reminders_for: only rows that are still pending.
RemindersCancelled(q, res) ==
    [i \in DOMAIN q |->
        IF q[i].res = res /\ q[i].kind = "reminder" /\ q[i].status = "pending"
        THEN [q[i] EXCEPT !.status = "cancelled"]
        ELSE q[i]]

\* Fault: the schedule is ignored, so a retry does not wait for its back-off.
DueIgnoringSchedule(i) ==
    /\ queue[i].status = "pending"
    /\ suppress => queue[i].kind = "custom"

\* Fault: the worker does not restrict the claim while the kill switch is on.
DueIgnoringSwitch(i) ==
    /\ queue[i].status = "pending"
    /\ queue[i].due <= 0

\* Fault: rows left in flight are selected again.
DueAlsoInFlight(i) ==
    /\ queue[i].status \in {"pending", "in_flight"}
    /\ queue[i].due <= 0
    /\ suppress => queue[i].kind = "custom"

\* Fault: rows with one attempt left are not selected any more.
DueButForTheLastAttempt(i) ==
    /\ queue[i].status = "pending"
    /\ queue[i].due <= 0
    /\ queue[i].attempts + 1 < MaxAttempts
    /\ suppress => queue[i].kind = "custom"

\* The WHERE clause of pick_due; process_batch asks for custom rows only while
\* the kill switch is on.
Due(i) ==
    /\ queue[i].status = "pending"
    /\ queue[i].due <= 0
    /\ suppress => queue[i].kind = "custom"

DueRows == {i \in DOMAIN queue : Due(i)}

\* ORDER BY scheduled_at ASC, id ASC
Before(i, j) ==
    \/ queue[i].due < queue[j].due
    \/ queue[i].due = queue[j].due /\ i < j

PickDue == {i \in DueRows : Cardinality({j \in DueRows : Before(j, i)}) < BatchLimit}

\* Fault: claiming a row does not count as an attempt.
ClaimedUncounted(q, ids) ==
    [i \in DOMAIN q |->
        IF i \in ids THEN [q[i] EXCEPT !.status = "in_flight"] ELSE q[i]]

\* The UPDATE of pick_due: it names ids only, and does not look at the status.
Claimed(q, ids) ==
    [i \in DOMAIN q |->
        IF i \in ids
        THEN [q[i] EXCEPT !.status = "in_flight", !.attempts = @ + 1]
        ELSE q[i]]

Backoff(attempts) == IF 2 ^ attempts < 60 THEN 2 ^ attempts ELSE 60

\* Fault: a row is given up only after one attempt more than the cap.
FailedOrRetriedLate(row) ==
    IF row.attempts > MaxAttempts
    THEN [row EXCEPT !.status = "failed"]
    ELSE [row EXCEPT !.status = "pending", !.due = Backoff(row.attempts)]

\* Fault: a row that is to be tried again is not put back to pending.
FailedOrRetriedInFlight(row) ==
    IF row.attempts >= MaxAttempts
    THEN [row EXCEPT !.status = "failed"]
    ELSE [row EXCEPT !.due = Backoff(row.attempts)]

\* mark_failed_or_retry
FailedOrRetried(row) ==
    IF row.attempts >= MaxAttempts
    THEN [row EXCEPT !.status = "failed"]
    ELSE [row EXCEPT !.status = "pending", !.due = Backoff(row.attempts)]

-----------------------------------------------------------------------------
(* The other users of the queue: request handlers, each call a transaction *)

Enqueue(kind, res, body, due) ==
    /\ Len(queue) < MaxRows
    /\ kind # "custom" => res # NoReservation
    /\ queue' = Enqueued(queue, NewRow(kind, res, body, due))
    /\ UNCHANGED <<suppress, worker, calls, delivered>>

CancelPendingReminders(res) ==
    /\ queue' = RemindersCancelled(queue, res)
    /\ UNCHANGED <<suppress, worker, calls, delivered>>

-----------------------------------------------------------------------------
(* worker.py: one tick                                                     *)

\* The SELECT of pick_due; with nothing due the tick ends at once.
Select(w) ==
    /\ worker[w].pc = "idle"
    /\ PickDue # {}
    /\ worker' = [worker EXCEPT ![w].pc = "selected", ![w].ids = PickDue]
    /\ UNCHANGED <<queue, suppress, calls, delivered>>

\* The UPDATE of pick_due and its commit.
Claim(w) ==
    /\ worker[w].pc = "selected"
    /\ queue' = Claimed(queue, worker[w].ids)
    /\ worker' = [worker EXCEPT ![w].pc = "send"]
    /\ UNCHANGED <<suppress, calls, delivered>>

\* The final SELECT of pick_due returns the rows by id: the order of dispatch.
IsNext(i, ids) == i \in ids /\ \A j \in ids : i <= j

SendTo(w, i, pc) ==
    /\ worker[w].pc = "send"
    /\ IsNext(i, worker[w].ids)
    /\ worker' = [worker EXCEPT ![w].pc = pc, ![w].row = i]
    /\ calls' = [calls EXCEPT ![i] = @ + 1]
    /\ UNCHANGED <<queue, suppress>>

\* notifier.send returns: the message is with the customer.
SendSucceeds(w, i) ==
    /\ SendTo(w, i, "mark_sent")
    /\ delivered' = [delivered EXCEPT ![i] = @ + 1]

\* notifier.send raises: nothing was delivered.
SendRaises(w, i) ==
    /\ SendTo(w, i, "mark_failed")
    /\ UNCHANGED delivered

\* Fault: the outcome of a row is recorded again with the next one.
AdvancedKeepingRow(st) ==
    LET rest == st.ids \ {st.row}
    IN  [pc |-> IF rest = {} THEN "idle" ELSE "send", ids |-> rest, row |-> st.row]

\* The loop goes on with the rest of the batch, or the tick ends.
Advanced(st) ==
    LET rest == st.ids \ {st.row}
    IN  [pc |-> IF rest = {} THEN "idle" ELSE "send", ids |-> rest, row |-> 0]

MarkSent(w) ==
    /\ worker[w].pc = "mark_sent"
    /\ queue' = [queue EXCEPT ![worker[w].row].status = "sent"]
    /\ worker' = [worker EXCEPT ![w] = Advanced(@)]
    /\ UNCHANGED <<suppress, calls, delivered>>

MarkFailedOrRetry(w) ==
    /\ worker[w].pc = "mark_failed"
    /\ queue' = [queue EXCEPT ![worker[w].row] = FailedOrRetried(@)]
    /\ worker' = [worker EXCEPT ![w] = Advanced(@)]
    /\ UNCHANGED <<suppress, calls, delivered>>

\* A transaction of the tick raises ("database is locked"): run_forever logs
\* the exception and sleeps, and the rest of the batch is forgotten.
TickFails(w) ==
    /\ worker[w].pc \in {"selected", "mark_sent", "mark_failed"}
    /\ worker' = [worker EXCEPT ![w] = Idle]
    /\ UNCHANGED <<queue, suppress, calls, delivered>>

-----------------------------------------------------------------------------
(* The process and the clock                                               *)

\* A process starts with the settings of its environment and asleep workers.
Started ==
    /\ suppress' \in BOOLEAN
    /\ worker' = [w \in Workers |-> Idle]
    /\ UNCHANGED <<queue, calls, delivered>>

\* Shutdown cancels a worker only where it awaits: asleep between two ticks.
Restart == (\A w \in Workers : worker[w].pc = "idle") /\ Started

\* A crash, or the kill -9 of run.sh, stops the process anywhere in a tick.
Kill == (\E w \in Workers : worker[w].pc # "idle") /\ Started

\* Only a pending row has a schedule that is read again.
Aged(row) ==
    IF row.status = "pending" /\ row.due > -MaxLate
    THEN [row EXCEPT !.due = @ - 1]
    ELSE row

Tick ==
    /\ \E i \in DOMAIN queue : Aged(queue[i]) # queue[i]
    /\ queue' = [i \in DOMAIN queue |-> Aged(queue[i])]
    /\ UNCHANGED <<suppress, worker, calls, delivered>>

-----------------------------------------------------------------------------

Requests ==
    \/ \E kind \in Kinds, res \in Reservations \cup {NoReservation},
          body \in Bodies, due \in Delays : Enqueue(kind, res, body, due)
    \/ \E res \in Reservations : CancelPendingReminders(res)

WorkerStep(w) ==
    \/ Select(w)
    \/ Claim(w)
    \/ \E i \in RowIds : SendSucceeds(w, i)
    \/ \E i \in RowIds : SendRaises(w, i)
    \/ MarkSent(w)
    \/ MarkFailedOrRetry(w)

\* Nothing goes wrong but the provider.
CalmNext ==
    \/ Requests
    \/ \E w \in Workers : WorkerStep(w)
    \/ Restart
    \/ Tick

Next ==
    \/ CalmNext
    \/ \E w \in Workers : TickFails(w)
    \/ Kill

Spec == Init /\ [][Next]_vars

\* The event loop runs the worker again after every sleep, and time passes.
Fairness == WF_vars(Tick) /\ \A w \in Workers : WF_vars(WorkerStep(w))

FairSpec == Spec /\ Fairness

-----------------------------------------------------------------------------
(* Properties                                                              *)

\* No customer gets the same message twice, whatever the provider, the kill
\* switch and the restarts do: the claim is recorded before the send.
AtMostOnce == \A i \in RowIds : delivered[i] <= 1

\* The provider is called at most MaxAttempts times for a row, and every call
\* was paid for by an attempt recorded beforehand.
RetryBudget ==
    \A i \in DOMAIN queue :
        /\ calls[i] <= queue[i].attempts
        /\ queue[i].attempts <= MaxAttempts

\* The status agents read back is what happened: `sent' rows were delivered,
\* `failed' rows used the whole budget and never were, and a row that may still
\* be sent, or was dropped before its turn, was not delivered.
StatusHonest ==
    \A i \in DOMAIN queue :
        CASE queue[i].status = "sent"      -> delivered[i] = 1
          [] queue[i].status = "failed"    -> delivered[i] = 0 /\ calls[i] = MaxAttempts
          [] queue[i].status \in {"pending", "cancelled"} ->
                delivered[i] = 0 /\ calls[i] = queue[i].attempts
          [] queue[i].status = "in_flight" -> TRUE

\* A row that was sent or given up is never touched again.
Final ==
    [][\A i \in DOMAIN queue :
          queue[i].status \in {"sent", "failed"} => queue'[i] = queue[i]]_vars

\* A row is claimed only once its schedule, the back-off of a retry included,
\* has been reached.
NotEarly ==
    [][\A i \in DOMAIN queue :
          queue'[i].attempts > queue[i].attempts => queue[i].due <= 0]_vars

\* While the kill switch is on, customers get nothing but custom messages.
Silence ==
    [][\A i \in RowIds :
          delivered'[i] # delivered[i] => (suppress => queue[i].kind = "custom")]_vars

\* The state machine of queue.py: pending -> in_flight -> sent | failed |
\* pending, and pending -> cancelled.
Transitions ==
    {<<"pending", "in_flight">>, <<"pending", "cancelled">>, <<"in_flight", "sent">>,
     <<"in_flight", "failed">>, <<"in_flight", "pending">>}

StateMachine ==
    [][\A i \in DOMAIN queue :
          \/ queue'[i].status = queue[i].status
          \/ <<queue[i].status, queue'[i].status>> \in Transitions]_vars

\* Once the kill switch stays off, every message is eventually sent, given up
\* or cancelled: no row is left behind by a full batch or by endless retries.
Settled(i) == i \in DOMAIN queue => queue[i].status \in {"sent", "failed", "cancelled"}

EventuallySettled ==
    <>[]~suppress => \A i \in RowIds : []<>Settled(i)

\* A row in flight that no worker will ever look at again.
Stranded(i) ==
    /\ i \in DOMAIN queue
    /\ queue[i].status = "in_flight"
    /\ \A w \in Workers : i \notin worker[w].ids

\* Once ticks stop failing, the process is not killed any more and the kill
\* switch stays off, every message is settled in the end, but for those that
\* an earlier failure left in flight.
SettledOrStranded ==
    <>[]~suppress /\ <>[][CalmNext]_vars
        => \A i \in RowIds : []<>(Settled(i) \/ Stranded(i))

\* And a tick that runs to its end, a clean restart or a request never leaves a
\* row behind in flight.
CalmStrandsNothing ==
    [][CalmNext => \A i \in RowIds : Stranded(i)' => Stranded(i)]_vars

\* The queue implements MessageDelivery.  A message is taken from the SELECT of
\* its tick on: a cancellation that arrives later only shows when the tick
\* fails before its claim.
Selected == UNION {worker[w].ids : w \in {v \in Workers : worker[v].pc = "selected"}}

Stage(i) ==
    IF i \notin DOMAIN queue THEN "none"
    ELSE IF i \in Selected \/ queue[i].status = "in_flight" THEN "taken"
    ELSE IF queue[i].status = "pending" THEN "waiting"
    ELSE IF queue[i].status = "cancelled" THEN "dropped"
    ELSE queue[i].status

Delivery == INSTANCE MessageDelivery
                WITH Messages <- RowIds, stage <- [i \in RowIds |-> Stage(i)]

DeliverySpec == Delivery!Spec
=============================================================================
