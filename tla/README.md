# A TLA+ model of reservacIA

reservacIA is a restaurant reservation API: FastAPI handlers over one SQLite
file, and a coroutine in the same process that drains a notifications table.
This directory models the parts that keep and change state, checks them with
TLC on small instances, and proves theorems about every one of them with TLAPS:
all safety properties that the passing runs check hold for all values of the
constants, some of the queue's under the assumption that one worker runs.
`src/` below is the repository's root.

## 1. Inventory

| Component | State | Operations | Models |
|---|---|---|---|
| Notifications queue, `app/notifications/queue.py` | table `notifications` | enqueue, cancel_pending_reminders_for, pick_due, mark_sent, mark_failed_or_retry, lists | NotificationQueue, MessageDelivery |
| Worker, `app/notifications/worker.py` | the claimed batch (process memory) | run_forever, process_batch | NotificationQueue, BookingService |
| Notifier and templates | none (a log) | send, render | outcome of a send only |
| Reservations, `app/crud.py`, `app/routers/reservations.py` | table `reservations` | create, update, cancel, lookups, verify_phone | Bookings, RequestThreads |
| Tables and availability | table `tables` | create, update, delete, conflict detection, assignment, availability | Bookings, RequestThreads |
| Rooms | table `rooms` | create, update, delete | Bookings |
| Connections and start-up, `app/db.py` | the database file, the write lock | connection, init_db with its migrations | DatabaseInit, RequestThreads |
| Confirmation codes, `app/codes.py` | a column and its unique index | generate, backfill, normalise | DatabaseInit |
| Rate limit, `app/middleware.py` | times of accepted hits (process memory) | hit, dispatch | RateLimiter, RequestPath |
| Other middleware, `app/middleware.py`, `app/security.py`, `app/main.py` | none (a log) | headers, audit, allowlist, body size | RequestPath |
| Authentication, `app/security.py`, `app/routers/auth.py`, `debug.py` | none: the tokens are with the agent | issue, refresh, dev token, require_agent | RequestPath |
| Reviews and comments, `app/routers/reviews.py`, `app/crud.py` | tables `reviews`, `review_comments` | create, update, paged list | Reviews |
| Scripts, `run.sh` | the tables above | seeding, corrections, import; start and stop | Bookings, Reviews, DatabaseInit; partly |

How they interact. A request handler is a plain `def`, so FastAPI runs it on a
thread of a pool; each opens a connection, and the tables and the queue rows of
the request are committed together (`db.connection`). The worker is a coroutine
on the event loop and uses connections of its own, so its transactions fall
between, and in the middle of, those of the handlers. A request passes five layers of
middleware on the event loop before it reaches its handler, and its response
passes them on the way back; the limiter is one of them. Scripts are other processes on the same file, and every process
runs `init_db` first.

What is hard:

- **Reads before the transaction.** Python's `sqlite3` begins a transaction at
  the first INSERT, UPDATE or DELETE. Every check by SELECT before that runs
  outside of it, and other connections commit in between: conflict detection,
  `pick_due`, the guard on shrinking, the check that a code is free.
- **Crashes.** A claim is committed before the sends; a rebuild of the queue's
  table is half durable before its rows are; an import dies between two rows.
- **Retries.** Attempts are counted at the claim and compared at the failure.
- **Messages that outlive what they say.** A reminder is rendered when queued
  and must be replaced when the booking moves.
- **Sequences of legal requests.** Create, cancel, patch; book, shrink, enlarge.
- **Boundaries.** Two hours exactly, one window exactly, the last attempt, the
  hour in which a local clock is changed.
- **Order of layers.** Each `add_middleware` wraps those before it, so that the
  order of the calls is the reverse of that of the layers.
- **Lists that move while they are read.** A client pages by OFFSET while rows
  are added and edited.

What makes each correct: a message goes out at most once, not early, not
against the kill switch, and is settled in the end; its status is what
happened; one table has one party at a time and seats it; references never
dangle; the customer is told of every change; codes are unique and stay; no
queued message is lost in a migration; nobody exceeds the rate limit, and
Retry-After is true; forbidden requests cost nothing, tokens live as long as
stated, and responses are stamped and logged whichever layer gave them; a page
walk misses no review, and an import is all or nothing. `PROJECT.json` lists the hazards line by line with the
properties that watch them.

## 2. Modules

| Module | Extends, instances | What it is |
|---|---|---|
| `MessageDelivery` | | abstract: what becomes of one message |
| `NotificationQueue` | instances `MessageDelivery` | the table, the workers, the process, the clock |
| `Bookings` | | rooms, tables and reservations, one request at a time |
| `BookingService` | extends `Bookings`, instances `NotificationQueue` | a request's messages reach the queue in its transaction, the worker runs across requests |
| `RequestThreads` | extends `Bookings` | the same requests as a read phase and a write phase on several threads |
| `RateLimiter` | | the sliding window |
| `RequestPath` | extends `RateLimiter` | the chain of middleware, the tokens, the routes by kind |
| `Reviews` | | reviews, their comments, the paged list, the import script |
| `DatabaseInit` | | `init_db` of several processes, codes of request threads |
| `NotificationQueueProofs`, `BookingsProofs`, `RequestPathProofs`, `ReviewsProofs`, `DatabaseInitProofs` | extend their modules | theorems |
| `DeliveryProofs` | extends `NotificationQueueProofs` | the refinement of `MessageDelivery` |
| `RequestThreadsProofs` | extends `RequestThreads`, `BookingsProofs` | theorems: what the races leave standing |
| `BookingServiceProofs` | extends `BookingService`, `BookingsProofs`, instances `NotificationQueueProofs` | theorems, and the refinement of `Bookings` |
| `MC*` | extend their modules | small constants for TLC |

**NotificationQueue.** `queue[i]` is the row with id `i`. `due` stands for
`scheduled_at - now`, so that the clock is a decrement and only its sign and
order matter. A tick of the worker is `Select` (the SELECT of `pick_due`),
`Claim` (its UPDATE and commit), then for each row `SendSucceeds` or
`SendRaises` and `MarkSent` or `MarkFailedOrRetry`. `TickFails` is an exception
out of one of the transactions, which `run_forever` logs; `Restart` is a
shutdown, which can only cancel the coroutine where it awaits, between ticks;
`Kill` is a crash or the `kill -9` of `run.sh`. Both start a process with a
kill switch read anew. Other handlers appear as `Enqueue` and
`CancelPendingReminders`, each a transaction. `calls` and `delivered` count
what the notifier was asked to do and did; no code reads them. A send that
raises is taken to have delivered nothing.

**MessageDelivery.** The promise without tables, batches and transactions: a
message waits, is taken, and ends sent, given up or dropped; it is attempted at
most `MaxAttempts` times and delivered at most once. `Stage` in
NotificationQueue is the refinement mapping. A message counts as taken from the
SELECT of its tick on, because the UPDATE takes whatever was selected: a
cancellation that commits in between has no effect on the delivery, and only
shows (`GiveBack`, as dropped) when the tick fails before its claim. A row that
a failure leaves in flight is a message that stays taken; the safety half of the
specification allows that, and `SettledOrStranded` says when it can happen.

**Bookings.** A deleted row leaves `Gone` in its place, since ids are never
reused. `Keep` is a field that a PATCH does not set. `Resolve` and `TableFor`
return the set of tables that the code may take, empty for a refusal; a refused
request rolls back, so it is no step. `issued` is what the last request asked
of the queue, in order. `SeedReservation` is a row of `scripts/seed.py`;
`SeedTables` and `SeedRooms` are the scripts of those names, one transaction
each. `IsBackfill` says which assignment the loop over the unassigned
reservations ends with: each gets the best table that is free of the bookings
there were and of those the loop seated before. Names of rooms are not kept, so
`SeedRooms` takes any plan of tables to rooms; its error for a missing room is
a count. The script's order of stored timestamps is that of the times, which it
is when all have the same offset; no property depends on that order.
Two restrictions: an explicit `null` for a time, a party or a capacity in a
PATCH, which the code answers with an error, is not an input; and a PATCH of
names or notes only, which changes nothing kept here, is left out.

**BookingService.** The variables and requests are those of Bookings, to which the
module adds the queue, its workers and a clock. `Delivering` applies the commands
of a request to the queue in the same step. `now` is a clock shared by bookings and messages, so that
`ReminderDue` is the code's "lead ahead, never in the past". Agents' custom
messages are in NotificationQueue only.

**RequestThreads.** `plan[th]` is what a thread has decided, with the `slot`, the
time for which it found its table free. `seatedFor` is bookkeeping for a property:
the time for which each reservation's table was chosen, which is not the time of
the row when two PATCHes of one reservation have each written a half of it. The
pool of threads is finite (`ThreadsAssumption`). A write takes SQLite's write lock, so the write phase is one step;
the foreign keys are checked in it (`TableReferable`). A read phase of several
SELECTs is one step: the model has fewer interleavings than the code there.
A request whose check is repeated by a foreign key when it writes is one step
(`FloorStep`), and so is a row of `seed.py` (`SeedStep`).
The scripts `SeedTables` and `SeedRooms` are left out: the model takes them to
run while no request does.

**RateLimiter.** `store` is `_SlidingWindow._buckets`. `admitted` is what was let
through in the window that ends now and `refusal` the last 429: neither exists
in the code, both are what the properties compare `store` with. Time is in
fractions of a second because the hits are and Retry-After is not. `Restart`
loses the windows; the histories start anew with it, since the code promises
nothing across it.

**RequestPath.** A request is one step: the layers that would answer it
themselves are `Answerers`, the outermost of them does, the limiter counts what
reaches it, and the response takes its headers and its audit row from the layers
it passes on its way out. An uncaught exception passes them all by, because
Starlette makes the 500 outside of the middleware that `add_middleware` adds.
`slipped` is a history of the responses that miss one. Paths are their kinds:
log in, refresh, dev token, a read and a write. `session` is the last pair of
tokens handed out, with both expiries; older pairs stay valid by their own dates
and behave alike. `change` is the one change of the local clock in a behaviour,
`Local` and `Timestamp` what `datetime` does with it: `now + timedelta` moves the
wall clock, and `timestamp()` reads a local time that occurs twice as the first.
A token with a wrong signature or client id is answered like one of the wrong
type, and is not a case of its own.

**Reviews.** Requests are single steps, since a request is one transaction of one
statement that depends on a row that nothing deletes. The script is not: its
COUNT runs before its transaction, which begins with the first INSERT and keeps
other writers out until the commit. `draft` is what it has written so far. A
client that walks through the pages is a sequence of requests; `owed` is
bookkeeping, the reviews it should still be shown. `from` marks what an entry of
the file became. The clock may be set back, so `created_at` comes in any order.
A new review may be older than those a client has seen and shift none of them;
either way it pushes rows towards later pages only.

**DatabaseInit.** `disk` is what is committed, `txn` the uncommitted database of
the one connection that holds the write lock. `Durably` and `Uncommitted` are
SQLite's and Python's rules: DDL is durable at once unless a transaction is
open, and the first INSERT or UPDATE opens one. So `RenameOld` and `CreateNew`
survive a kill, while `CopyRows`, `DropOld` and `Backfill` vanish with it.

Operators whose comment starts with "Fault:" are not part of a specification.
Each is a definition above or below it with a plausible mistake, and shows that
a property would notice (`mutants` in `PROJECT.json`).

## 3. Runs

| Run | Instance | What it shows |
|---|---|---|
| NotificationQueue | 1 worker, 3 rows, 2 kinds, 1 delay, 2 attempts, batches of 2 | `AtMostOnce`, `RetryBudget`, `StatusHonest`, `NotEarly`, `Silence` through failures, kills and flips of the switch; the refinement `DeliverySpec`; liveness as `SettledOrStranded`, and `CalmStrandsNothing` |
| NotificationQueueStuck | 2 rows | `EventuallySettled` **violated**: rows stay in flight |
| NotificationQueueCancelRace | 1 row | `StateMachine` **violated**: cancelled, then in flight |
| Bookings | 1 room, 2 tables, 2 reservations, 2 capacities, 2 parties, 3 times, scripts with 2 tables and 1 room | `NoDoubleBooking`, `PartyFits`, `References`, `ResubmitKeepsTable`, `AvailabilityHonest`, `CustomerTold`, `SeedingComplete` |
| BookingService | 1 table, 1 reservation, 2 times, 4 rows, 2 attempts | `RemindersFresh`, `ReminderKept`, `NoEarlyReminder` |
| BookingServiceReminder | the same | `NoReminderOnceCancelled` **violated** by patching a cancelled booking |
| RequestThreads | 2 threads, 1 table, 2 reservations, 2 times | `References`, `OverbookingBounded`, `MessagesStatePresent`, `CancelledStays` |
| RequestThreadsDoubleBooking | 2 threads, 1 table, 3 reservations, 2 times | `NoDoubleBooking` **violated** by two threads |
| RequestPath | 6 callers, 3 addresses of which one is forbidden and one is loopback, 1 client id; limits 1 and 2, a window of 2 half-seconds, 5 instants; lifetimes of 2 and 4, a change by 2 in spring or autumn | `WindowRespected`, `RetryAfterExact`, `LifetimesKept`, `OnlyCrashesSlip`, `ForbiddenCostsNothing` |
| Reviews | 2 runs of the script, 2 entries of which one has a reply, 1 client with pages of 1, 4 reviews, 2 ratings, 2 readings of the clock | `PagingComplete`, `ImportFaithful` |
| DatabaseInit | 2 processes, 2 threads, 1 message, 2 codes, 2 reservations, symmetric | `MessagesKept`, `MessagesOnce`, `CodesUnique`, `MintedCodesStay`, and no deadlock |
| DatabaseInitOrphan | 1 process | `NothingLeftBehind` **violated** by a kill after the RENAME |

Why the bounds are enough for the cases that matter. Three rows and batches of
two make a batch whose rest can be lost and a row that waits for another batch.
Two attempts are one retry and one giving up. A window of one second in ticks of
half a second has a hit inside, on and outside of its edge, and a Retry-After
that is rounded. A change of the clock at 1 or 3 has tokens issued before it, in
the hour after it and later. Two entries and four reviews leave room for a
request between every two steps of a script, or for one script after another. Three times and a window of two give
pairs that conflict in both directions and a pair exactly a window apart. Two
capacities and two parties give shrinks that are allowed and refused. In the run
Bookings a room is only explored beside at most one reservation (`RoomsBesideOne`):
a reservation does not look at rooms, nor the reverse. Two
reservations are needed for a conflict, and one table for a race; two reservations and a third
request that is about to write would be one more than two threads allow. One
reservation and four rows suffice for a booking, a move and a cancellation with
their messages; a fifth row is refused by the bound, so two moves are not seen. Nor is a retry
that waits for its back-off, with a clock of one step, nor a booking that is both
moved and cancelled: these are left to the theorems of `BookingServiceProofs`,
which have no bound. The kill switch is off in that instance and in those theorems
(`ServiceInit`), so that requests under suppression, whose messages `enqueue` drops,
are outside of the composition; NotificationQueue has the switch.
Codes are as scarce as reservations, so that collisions happen, which 387
million codes would hide. One message does not make two ids collide when a rebuild
copies rows into a table that requests have already written to; `EachMessageOnce`
and `NoMessageLost` are proved for any number of messages and cover that branch.

Deadlock is checked for `DatabaseInit` only. In the other instances the bounds
on rows, reservations or time end a behaviour on purpose. Symmetry is used for
the processes of DatabaseInit and the script runs of Reviews, which check no
liveness.

**Fairness.** `FairSpec`, which NotificationQueue and NotificationQueueStuck use, is
weak fairness of the clock, because time passes, and of each worker's next
step, because `run_forever` loops with a sleep and the event loop runs it again.
Nothing is assumed of the provider: a send may fail every time, and the retries
still end. `SettledOrStranded` has its conditions in the property: the kill
switch finally stays off, since lifecycle rows do wait for as long as it is on,
and ticks finally stop failing and the process stops being killed. What it
grants to the past is exact: only rows that such a failure left in flight with
no worker to look at them may stay unsettled, and by `CalmStrandsNothing` no
orderly step adds one.

## 4. What the violations say

Each is a difference between the code and what it says of itself; quotes and
lines are in `PROJECT.json` under `findings`.

1. *Double booking* (`crud.py:409`). Both requests select before either inserts.
   `OverbookingBounded` says how bad it gets.
2. *A cancelled reminder is sent* (`queue.py:128`). The UPDATE of the claim does
   not repeat the condition on the status.
3. *Rows stuck in flight* (`worker.py:76`). Nothing reads `in_flight` again
   after a failed tick or a kill.
4. *A reminder for a cancelled booking* (`crud.py:569`). An update does not look
   at the status of the reservation.
5. *An orphaned queue* (`db.py:148`). A rebuild that is killed after its RENAME
   is not resumed.

## 5. Theorems

All hold for every value of the constants, under the assumptions named in the
modules (`QueueAssumption`, `BookingsAssumption`, `ServiceAssumption`,
`LimiterAssumption`, `PathAssumption`, `ReviewsAssumption`,
`InitAssumption`, `ThreadsAssumption`), which say that counts are natural numbers, that the marks `Keep`, `NoTable`, `NoRoom`,
`NoReservation` and `Gone` are different from the values they stand beside, that
addresses are no client ids, that limits and numbers of attempts are positive, and that windows and lifetimes are
whole seconds. `config.py` does not enforce that limits and attempts are positive: a
limit of 0 makes the limiter fail, as `hazards` says.

The bounds on rows and time are constants like the others, so that a theorem
holds for each of them. Where an argument needs a least or a longest element (the
best table of a search, the page a row stands on, the hits of a key), it takes it
from `WFMin` of WellFoundedInduction, applied to a concrete set.

`NotificationQueueProofs`:

- `TypeCorrect`: `Spec => []TypeOK`, for any number of workers.
- `AtMostOnceDelivery`, `RetryBudgetKept`, `StatusTellsTheTruth`,
  `FinalRowsStay`: `AtMostOnce`, `RetryBudget`, `StatusHonest` and
  `Final`, under
  `SingleWorker`. The assumption is needed: two workers can select the same row
  before either claims it. None of the four is inductive. The strengthening is
  `DeliveryInv`, which adds to the types what the worker's memory says of the
  table: the rows it has claimed and not sent are in flight with as many calls
  as earlier attempts, the row it has just sent has one call more and its
  delivery is known from where the worker is, rows selected and not yet claimed
  are pending or were cancelled meanwhile, and ids without a row have no history.
  No run checks `Final` (a row that is sent or failed is never written again) on its
  own: a worker that took such a row up again would break `DeliverySpec` first.
- `KillSwitchHolds`: `Silence`, for any number of workers. A lifecycle row is only
  selected while the switch is off, and the switch only changes with a start,
  which empties the workers' memory; the invariant says that what a worker holds
  under the switch is custom.
- `NeverEarly`: `NotEarly`, under `SingleWorker`. The UPDATE does not look at the
  schedule again, so the invariant says that selected rows are still due, which
  a retry by another worker would break.
- `CalmStepsStrandNothing`: `CalmStrandsNothing`, for any number of workers. A row
  that a claim puts in flight is in the batch of the one who claimed it, and
  leaves it with its outcome; the invariant says that a worker asleep holds
  nothing, so that neither a SELECT nor a clean restart forgets a row.
- `BudgetOfMany`: what is left of `RetryBudget` with any finite number of workers,
  since `worker.py` calls them safe: deliveries do not exceed calls, nor calls the
  claims that were counted, nor these the cap by as many as there are workers. The
  invariant `ManyInv` counts, for each row, the workers that owe it a call and
  those that have selected it and may still claim it. `AtMostOnce` does not survive.

`DeliveryProofs`:

- `QueueDelivers`: `Spec => DeliverySpec`, under `SingleWorker`: each action of
  the queue is mapped to a step of MessageDelivery or a stutter, with
  `DeliveryInv` to know that what is taken was neither delivered nor attempted
  too often. A claim is a stutter; a failed tick before the claim gives back.

`RequestPathProofs`:

- `TypeCorrect`: `PathSpec => []PathTypeOK`.
- `RetryAfterTellsTheTruth`: `RetryAfterExact`. The invariant, `LimiterInv`, relates
  the last refusal to the hits of its key as they are now: still as many as the
  limit, with the oldest that Retry-After was computed from. A hit is pruned only
  when the key is let through or refused again, which replaces the refusal.
- `TokensKeepTheirLifetimes`: `LifetimesKept`, from what `Expiry` returns on each
  side of the change of the clock (`ExpiryBounds`); the pair that is remembered
  was issued as a whole at one instant (`SessionInv`).
- `ResponsesAreStampedAndLogged`, `ForbiddenRequestsAreFree`: `OnlyCrashesSlip`
  and `ForbiddenCostsNothing`, from the places of the layers in `Chain`.
- `LimitsAreKept`: `WindowRespected`. The history of what was let through is kept by
  caller, the buckets of the limiter by key; `WindowInv` says that there is an
  injection of a key's admitted hits into its bucket that preserves their times, so
  that there are no more of them than the limit allows. Pruning may take from the
  bucket only what has left the window of the history too.

`BookingsProofs`:

- `TypeCorrect`: `Spec => []TypeOK`.
- `NeverDoubleBooked`, `PartiesFit`, `NothingDangles`: `NoDoubleBooking`,
  `PartyFits` and `References` for requests served one at a time. They are
  proved together as `SeatInv`: `PartyFits` and `NoDoubleBooking` speak of the
  table a reservation holds, which deletion could remove were it not for
  `References`, and all need the types. The floor requests are handled by
  `FloorKeepsHeldTables` and `FloorKeepsRooms`. The reservation requests all
  come down to `SeatTaken`: one row changes, and its table exists, is large
  enough and is free of the others; `ResolveFits` and `TableForFits` show that
  the code's choice has this form, and `SeatTakenKeeps` that it disturbs nobody.
  A run of `seed_tables.py` changes many rows at once: `SeedTablesKeepsSeats`
  compares any two of them by which the script seats, and the later of two that
  it seats was given a table free of the earlier (`BackfilledSeat`).
- `NobodyLeftStanding`: `SeedingComplete`. What keeps a reservation from a table
  at its turn is still there when the script ends (`UsageStays`).
- `AvailabilityIsHonest`, `ResubmittingKeepsTable`: `AvailabilityHonest` and
  `ResubmitKeepsTable`, from `SeatInv`: what the list offers is what pinning accepts,
  and the reservation's own row is left out of the search for a conflict.
- `CustomersAreTold`: `CustomerTold`. An action property of all requests and both
  scripts: `Told` compares a reservation before and after with what was queued.

`RequestThreadsProofs`, for any number of threads:

- `ThreadTypesCorrect`, `ReferencesHoldConcurrently`, `CancelledForGood`:
  `ThreadTypeOK`, `References` and `CancelledStays`. A foreign key is checked again
  at the write, so that `References` holds however old the decision is.
- `OverbookingIsBounded`: `OverbookingBounded`, with no condition on the behaviour.
  `NoDoubleBooking` is false of the threads, but the check outside of the transaction
  still does something: of the reservations that overlap on a table, and the requests
  that have chosen that table and are about to join them, there are never more than
  threads. A request that reads finds the table free, so at that moment the crowd it
  will join has no seated member, and the others in it are threads (`BoundDecided`); a
  write turns a request into a seated reservation and leaves the sum as it is
  (`BoundTaken`); everything else only takes away (`BoundKept`). `Holders` leaves out
  the reservations whose `seatedFor` is not their time. They come about when one PATCH
  moves a reservation while another, which has read the old time, gives it a table:
  the row ends with the time of one and the table of the other, which nobody checked
  together. That can be repeated, so that there is no bound with them: when
  the condition is dropped, TLC finds the bound exceeded by two threads with two tables
  and three reservations.
- `MessagesArePresent`: `MessagesStatePresent`. `update_reservation` builds its messages
  from the row it reads again after its UPDATE, inside the transaction.
- `CustomersAreToldConcurrently`: `CustomerTold` of Bookings for the threads. Which
  messages a PATCH queues depends on the fields it sets, not on the row it read, and
  the table is always one of them; `WriteOfPlan` shows that whatever others
  have committed since, the messages queued are those of the change that this commit
  makes, so that nobody is moved without a word by a race.

The invariant is `ThreadInv`: types, references, the bound, and `PlansNameRows`, that
decisions name rows there are.

`BookingServiceProofs`, for any number of workers:

- `ServiceKeepsBookings`: `ServiceSpec => Spec`. Every step is a request of Bookings
  or a stutter of it, so that the theorems of `BookingsProofs` hold of the composed
  program.
- `ServiceTypesCorrect`, `RemindersStayFresh`, `RemindersAreKept`,
  `RemindersAreNotEarly`: `ServiceTypeOK`, `RemindersFresh`, `ReminderKept` and
  `NoEarlyReminder`. The last is not inductive: a send looks at nothing but the
  worker's memory. `ServiceInv` adds `RowsInv`, that no row's schedule undercuts the
  lead and that a row that was tried is past it, and `BatchInv`, that what a worker
  holds has ripened and counts as tried once it is claimed. That makes a retry no
  fresh reminder, which `ReminderInv` needs. The requests come down to five shapes
  (`RequestShape`) and their commands to two lemmas (`StoringKeeps`,
  `DroppingKeeps`); steps of the worker to `Evolved`, what it may do to a row. Two
  workers that hold the same row do no harm here, unlike to `AtMostOnce`.
- `BookingMessagesGoOutOnce`: `AtMostOnce`, `RetryBudget` and `StatusHonest` of the
  queue in the composed program, with one worker. The steps of the worker and of
  the clock are steps of NotificationQueue, whose `DeliveryInv` is reused
  (`QP!DeliveryPreserved`); a request is none, since it enqueues and cancels several
  messages at once, and is shown to keep `DeliveryInv` by itself (`Extends`).

`DatabaseInitProofs`, for any number of processes, threads and codes:

- `InitTypeCorrect`, `EachMessageOnce`, `CodesNeverShared`: `TypeOK`, `MessagesOnce`
  and `CodesUnique`. `InitInv` is about what is committed (`DiskInv`), about the
  rows that a backfill has still to give a code (`TodoInv`), none of them given one
  by a request, and about the open transaction (`TxnInv`): a message is in one of the two tables until the
  copy, which is only durable together with the drop.
- `NoMessageLost`, `CodesStayGiven`: the action properties `MessagesKept` and
  `MintedCodesStay`, from the same invariant.

`ReviewsProofs`:

- `ReviewTypesCorrect`, `ImportsAreFaithful`: `TypeOK` and `ImportFaithful`. `CountInv`
  counts the copies of each entry in the tables and in the script's transaction.
- `PagesMissNothing`: `PagingComplete`. `PageInv` says that no review a client is still
  owed stands before the offset it has asked for; writes only push rows back, but
  for a rating that leaves the client's filter, after which that client is owed
  nothing.

Only model-checked: liveness, that is `SettledOrStranded`, which needs fairness and
`ENABLED`, beyond the prover. No other property of a passing run is without a
theorem. The five properties that the code violates have counterexamples
instead. What the prover could not be asked is induction with an operator as a
parameter, so that nothing is proved by the library's induction theorems.

## 6. Not modelled

- The verify_phone check and phone numbers; names, notes, texts, table numbers.
- The number of a list's rows, orderings and filters of the reads.
- Values of headers, the contents of an audit row and errors of writing it, which
  the code swallows; a malformed Content-Length, which the innermost layer
  answers; paths that are not limited; 404 and 422 answers, which change nothing.
- The Markdown parser of `import_resenas.py`: its result is a constant.
- `backfill_spanish.py`: edits of names and notes, and of time zone labels.
- Time zones and the parsing of timestamps of bookings and messages: a time is a
  number. Only tokens are modelled with a local clock.
- The loss of the queue's indexes by a rebuild, until the next start.
- Sends that raise after they have delivered: the notifiers of this repository
  do not.

Observed on the way, and not the subject of a run:

- The comment at `config.py:42-43` has the worker stop dispatching while the kill
  switch is on, and rows still be enqueued to wait for it. The code, the docstring
  of `enqueue`, `.env.example` and the tests have it otherwise: lifecycle rows are not
  enqueued at all, and custom rows are and go out. The comment asks for more than
  `Silence`, which follows the code.
- A response 500 for an uncaught exception has neither the headers nor an audit
  row, although the comment at `main.py:57-58` speaks of every response and every
  final status. `OnlyCrashesSlip` says that it is the only one.
- Around a change of the local clock a token lives up to an hour more or less
  than its `expires_in` says; in the hour that occurs twice, an access token of
  an hour or less may be issued already expired.
- `import_resenas.py` calls itself idempotent; two runs that overlap both count
  no reviews and both import (`twice` in Reviews, which `ImportFaithful` excuses).
- A table that is shrunk while a booking for it is being made (`crud.py:189`) can end up
  too small: the race of finding 1 with `PartyFits`.

## 7. Plan

Done: the queue, its refinement and their proofs, bookings with the seeding
scripts, the composition and its refinement of bookings, the threads, the way of a
request with the limiter and the tokens, reviews and their import, start-up, and
the proofs of all their safety properties.

Next, in this order:

1. verify_phone in `RequestThreads`, with the phone a PATCH may change.
2. Two workers: a run in which both send the same row, beside `BudgetOfMany`.
3. `NotEarly` of the queue for the composition, and the kill switch on in it.
4. Threads in the composition with the queue, whose rows are so far written by whole
   requests only.
