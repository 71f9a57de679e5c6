---------------------------- MODULE BookingService ----------------------------
(***************************************************************************)
(* The composed program: the requests of Bookings, whose queue commands    *)
(* reach the notifications table in the transaction of the request, and    *)
(* the worker of NotificationQueue, which runs between and across them.    *)
(* Requests are one at a time (RequestThreads takes that apart); a worker  *)
(* tick is interleaved with them step by step.  The kill switch is off.    *)
(*                                                                         *)
(* The body of a lifecycle message is the reservation time that it states. *)
(* `now' counts the clock's units, those of Times and of a row's `due'.    *)
(***************************************************************************)
EXTENDS Bookings, SequencesExt

CONSTANTS
    Workers, NoReservation, MaxAttempts, BatchLimit, MaxRows, MaxLate,
    Lead,       \* settings.reminder_lead_hours
    MaxNow      \* bound: how far the clock goes

VARIABLES
    queue, suppress, worker, calls, delivered,
    now

Q == INSTANCE NotificationQueue WITH
        Reservations <- 1..MaxReservations, Bodies <- Times, Delays <- {0},
        Kinds <- {"custom"}

ASSUME ServiceAssumption ==
    /\ MaxAttempts \in Nat \ {0}
    /\ BatchLimit \in Nat \ {0}
    /\ MaxRows \in Nat
    /\ MaxLate \in Nat
    /\ NoReservation \notin ReservationIds
    /\ Lead \in Int
    /\ MaxNow \in Nat

workerVars == <<suppress, worker, calls, delivered>>
serviceVars == <<bookingVars, queue, workerVars, now>>

ServiceTypeOK == TypeOK /\ Q!TypeOK /\ now \in 0..MaxNow

ServiceInit == Init /\ Q!Init /\ ~suppress /\ now = 0

-----------------------------------------------------------------------------

\* Fault: the reminder is sent at the time of the reservation's creation.
ReminderDueAtOnce(at) == 0

\* _reminder_time_for: Lead ahead of the reservation, never in the past.
ReminderDue(at) == IF at - Lead > now THEN at - Lead - now ELSE 0

\* Fault: the old reminder stays beside the new one.
ExecutedWithoutDrop(q, cmd) ==
    IF cmd.op = "drop_reminders" THEN q
    ELSE Q!Enqueued(q, Q!NewRow(cmd.op, cmd.res, cmd.at,
                                IF cmd.op = "reminder" THEN ReminderDue(cmd.at) ELSE 0))

\* Fault: a command to drop reminders is stored as one more message.
ExecutedAsMessage(q, cmd) ==
    Q!Enqueued(q, Q!NewRow(cmd.op, cmd.res, cmd.at, 0))

\* _enqueue_notification and queue.cancel_pending_reminders_for.
Executed(q, cmd) ==
    IF cmd.op = "drop_reminders"
    THEN Q!RemindersCancelled(q, cmd.res)
    ELSE Q!Enqueued(q, Q!NewRow(cmd.op, cmd.res, cmd.at,
                                IF cmd.op = "reminder" THEN ReminderDue(cmd.at) ELSE 0))

\* The transaction of a request commits its rows and its messages together.
Delivering ==
    /\ queue' = FoldLeft(Executed, queue, issued')
    /\ Len(queue') <= MaxRows
    /\ UNCHANGED <<workerVars, now>>

Request == Next /\ Delivering

WorkerStep(w) ==
    /\ Q!WorkerStep(w)
    /\ UNCHANGED <<bookingVars, now>>

\* A tick that fails, a restart and a kill, with the same settings.
Mishap ==
    /\ UNCHANGED <<bookingVars, suppress, now>>
    /\ (\E w \in Workers : Q!TickFails(w)) \/ Q!Restart \/ Q!Kill

Tick ==
    /\ now < MaxNow
    /\ now' = now + 1
    /\ queue' = [i \in DOMAIN queue |-> Q!Aged(queue[i])]
    /\ UNCHANGED <<bookingVars, workerVars>>

ServiceNext ==
    \/ Request
    \/ \E w \in Workers : WorkerStep(w)
    \/ Mishap
    \/ Tick

ServiceSpec == ServiceInit /\ [][ServiceNext]_serviceVars

-----------------------------------------------------------------------------
(* Properties                                                              *)

Reminders(i) == {k \in DOMAIN queue : queue[k].res = i /\ queue[k].kind = "reminder"}

\* A reminder whose turn has not come states the reservation's present time,
\* and there is at most one of them: a change of time replaces it also while
\* the worker is between its SELECT and its UPDATE.
RemindersFresh ==
    \A i \in DOMAIN reservations :
        \A k \in {k \in Reminders(i) : queue[k].status = "pending" /\ queue[k].attempts = 0} :
            /\ queue[k].body = reservations[i].at
            /\ \A l \in Reminders(i) \ {k} :
                  ~(queue[l].status = "pending" /\ queue[l].attempts = 0)

\* A confirmed booking made through the API keeps a reminder for its present
\* time: waiting, on its way, sent or given up, but not cancelled.
ReminderKept ==
    \A i \in DOMAIN reservations :
        reservations[i].status = "confirmed" /\ Reminders(i) # {} =>
            \E k \in Reminders(i) :
                /\ queue[k].body = reservations[i].at
                /\ queue[k].status # "cancelled"

\* No reminder reaches the provider before its time has come.
NoEarlyReminder ==
    [][\A k \in DOMAIN queue :
          calls'[k] > calls[k] /\ queue[k].kind = "reminder"
              => queue[k].body - Lead <= now]_serviceVars

\* crud.py: a cancel sends its message and must "drop any pending reminders so
\* the customer doesn't get reminded about something we just cancelled": while
\* the reservation stays cancelled, no reminder of it is waiting to be sent.
NoReminderOnceCancelled ==
    \A i \in DOMAIN reservations :
        /\ reservations[i].status = "cancelled"
        /\ \E k \in DOMAIN queue : queue[k].res = i /\ queue[k].kind = "cancelled"
        => \A k \in Reminders(i) : queue[k].status # "pending"
=============================================================================
