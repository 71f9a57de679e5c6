------------------------------- MODULE Bookings -------------------------------
(***************************************************************************)
(* Rooms, tables and reservations (app/crud.py) with one request at a      *)
(* time: each action is a whole request that commits; a request that is    *)
(* refused (404, 409) rolls back and changes nothing.                      *)
(*                                                                         *)
(* Row i of a table is the row with id i.  Ids are AUTOINCREMENT, so a     *)
(* deleted row leaves its place empty (Gone).  Names, notes, phones and    *)
(* timestamps are left out.  `issued' holds what the last request asked of *)
(* the notifications queue, in order; BookingService applies it.           *)
(*                                                                         *)
(* A time is a number of hours; CONFLICT_WINDOW is Window hours.           *)
(***************************************************************************)
EXTENDS Integers, Sequences, FiniteSets

CONSTANTS
    Capacities,        \* table capacities a request can ask for
    Parties,           \* party sizes
    Times,             \* values of reservation_at
    Window,            \* CONFLICT_WINDOW
    NoRoom, NoTable,   \* room_id and table_id NULL
    Gone,              \* the place of a deleted table
    Keep,              \* a field that a PATCH does not set
    SeedCapacities,    \* DISTRIBUTION of seed_tables.py, a capacity per table
    SeedRoomCount,     \* the number of ROOMS of seed_rooms.py
    PlannedTables,     \* the table ids that seed_rooms.py has a room for
    MaxRooms, MaxTables, MaxReservations  \* bounds: rows ever inserted

ASSUME BookingsAssumption ==
    /\ Capacities \subseteq Nat
    /\ Parties \subseteq Nat
    /\ Times \subseteq Int
    /\ Window \in Nat
    /\ MaxRooms \in Nat /\ MaxTables \in Nat /\ MaxReservations \in Nat
    /\ NoRoom \notin Nat /\ NoTable \notin Nat
    /\ Gone \notin [capacity : Nat, room : Nat \cup {NoRoom}]
    /\ SeedCapacities \in Seq(Capacities)
    /\ SeedRoomCount \in Nat
    /\ PlannedTables \subseteq Nat
    /\ Keep \notin Capacities \cup Parties \cup Times \cup Nat \cup {NoRoom, NoTable}

VARIABLES
    rooms,         \* rooms[m]: whether the room exists
    tables,        \* capacity and room of each table
    reservations,  \* party, time, table and status of each reservation
    issued         \* queue commands of the last request

bookingVars == <<rooms, tables, reservations, issued>>

RoomIds == 1..MaxRooms
TableIds == 1..MaxTables
ReservationIds == 1..MaxReservations

Table == [capacity : Capacities, room : RoomIds \cup {NoRoom}]

Reservation == [party : Parties, at : Times, table : TableIds \cup {NoTable},
                status : {"confirmed", "cancelled"}]

\* One call of queue.enqueue (at: the reservation time the message states) or
\* of queue.cancel_pending_reminders_for.
Command == [op : {"created", "updated", "cancelled", "reminder", "drop_reminders"},
            res : ReservationIds, at : Times]

TypeOK ==
    /\ rooms \in Seq(BOOLEAN) /\ Len(rooms) <= MaxRooms
    /\ tables \in Seq(Table \cup {Gone}) /\ Len(tables) <= MaxTables
    /\ reservations \in Seq(Reservation) /\ Len(reservations) <= MaxReservations
    /\ issued \in Seq(Command)

Init ==
    /\ rooms = <<>>
    /\ tables = <<>>
    /\ reservations = <<>>
    /\ issued = <<>>

-----------------------------------------------------------------------------
(* Conflict detection and availability                                     *)

\* Fault: a field missing from a PATCH overwrites the column with NULL.
GivenOrNull(change, current) == change

\* model_dump(exclude_unset=True): a PATCH leaves unset fields alone.
Given(change, current) == IF change = Keep THEN current ELSE change

IsRoom(m) == m \in DOMAIN rooms /\ rooms[m]
IsTable(t) == t \in DOMAIN tables /\ tables[t] # Gone
LiveTables == {t \in DOMAIN tables : tables[t] # Gone}

Confirmed(i) == reservations[i].status = "confirmed"

\* Fault: only later reservations conflict.
NearOneSided(a, b) == a - b < Window /\ a >= b

Near(a, b) == a - b < Window /\ b - a < Window

\* Fault: the reservation being moved conflicts with itself.
ConflictWithSelf(t, at, except) ==
    \E i \in DOMAIN reservations :
        /\ reservations[i].table = t
        /\ Confirmed(i)
        /\ Near(reservations[i].at, at)

\* table_has_conflict; `except' is the reservation being moved, 0 for none.
Conflict(t, at, except) ==
    \E i \in DOMAIN reservations \ {except} :
        /\ reservations[i].table = t
        /\ Confirmed(i)
        /\ Near(reservations[i].at, at)

\* Fault: the capacity of a pinned table is not compared.
FitsAnyParty(t, party, at, except) == IsTable(t) /\ ~Conflict(t, at, except)

Fits(t, party, at, except) ==
    /\ IsTable(t)
    /\ tables[t].capacity >= party
    /\ ~Conflict(t, at, except)

Load(t) == Cardinality({i \in DOMAIN reservations :
                           reservations[i].table = t /\ Confirmed(i)})

\* ORDER BY capacity ASC, load ASC, id ASC
Better(t, u) ==
    \/ tables[t].capacity < tables[u].capacity
    \/ /\ tables[t].capacity = tables[u].capacity
       /\ \/ Load(t) < Load(u)
          \/ Load(t) = Load(u) /\ t < u

\* find_available_table: the best of the free tables, or none.
AutoAssign(party, at, except) ==
    LET free == {t \in LiveTables : Fits(t, party, at, except)}
    IN  {t \in free : \A u \in free \ {t} : Better(t, u)}

\* _resolve_table_for: the table to use; {} is ReservationError.
Resolve(requested, party, at, except) ==
    IF requested = NoTable
    THEN AutoAssign(party, at, except)
    ELSE {t \in {requested} : Fits(t, party, at, except)}

\* find_all_available_tables, as GET /tables/available calls it.
AvailableTables(party, at) ==
    {t \in LiveTables : tables[t].capacity >= party /\ ~Conflict(t, at, 0)}

-----------------------------------------------------------------------------
(* Rooms and tables                                                        *)

Quiet == issued' = <<>>

CreateRoom ==
    /\ Len(rooms) < MaxRooms
    /\ rooms' = Append(rooms, TRUE)
    /\ Quiet
    /\ UNCHANGED <<tables, reservations>>

DeleteRoom(m) ==
    /\ IsRoom(m)
    /\ \A t \in LiveTables : tables[t].room # m
    /\ rooms' = [rooms EXCEPT ![m] = FALSE]
    /\ Quiet
    /\ UNCHANGED <<tables, reservations>>

CreateTable(capacity, room) ==
    /\ Len(tables) < MaxTables
    /\ room = NoRoom \/ IsRoom(room)
    /\ tables' = Append(tables, [capacity |-> capacity, room |-> room])
    /\ Quiet
    /\ UNCHANGED <<rooms, reservations>>

\* Fault: shrinking below a party is not refused.
CanShrinkAlways(t, capacity) == TRUE

\* update_table: a shrink must not strand a confirmed party.
CanShrink(t, capacity) ==
    capacity < tables[t].capacity =>
        \A i \in DOMAIN reservations :
            reservations[i].table = t /\ Confirmed(i)
                => reservations[i].party <= capacity

WriteTable(t, capacity, room) ==
    /\ tables' = [tables EXCEPT
                     ![t].capacity = Given(capacity, @), ![t].room = Given(room, @)]
    /\ Quiet
    /\ UNCHANGED <<rooms, reservations>>

\* PATCH /tables/{id}; a field not in the body is Keep.
UpdateTable(t, capacity, room) ==
    /\ IsTable(t)
    /\ <<capacity, room>> # <<Keep, Keep>>
    /\ capacity # Keep => CanShrink(t, capacity)
    /\ room \in {Keep, NoRoom} \/ IsRoom(room)
    /\ WriteTable(t, capacity, room)

\* Fault: only confirmed reservations keep their table from being deleted.
UnreferencedByConfirmed(t) ==
    \A i \in DOMAIN reservations : Confirmed(i) => reservations[i].table # t

Unreferenced(t) == \A i \in DOMAIN reservations : reservations[i].table # t

DeleteTable(t) ==
    /\ IsTable(t)
    /\ Unreferenced(t)
    /\ tables' = [tables EXCEPT ![t] = Gone]
    /\ Quiet
    /\ UNCHANGED <<rooms, reservations>>

-----------------------------------------------------------------------------
(* Reservations                                                            *)

Issue(op, i, at) == [op |-> op, res |-> i, at |-> at]

\* create_reservation after the table was chosen.
InsertReservation(party, at, t) ==
    LET i == Len(reservations) + 1 IN
    /\ i <= MaxReservations
    /\ reservations' = Append(reservations,
          [party |-> party, at |-> at, table |-> t, status |-> "confirmed"])
    /\ issued' = <<Issue("created", i, at), Issue("reminder", i, at)>>
    /\ UNCHANGED <<rooms, tables>>

CreateReservation(party, at, requested) ==
    \E t \in Resolve(requested, party, at, 0) : InsertReservation(party, at, t)

\* update_reservation: the table it has if that still fits, else the best free
\* one; a table_id in the request is taken or refused.
TableFor(i, party, at, requested) ==
    LET r == reservations[i]
        kept == Resolve(Given(requested, r.table), Given(party, r.party),
                        Given(at, r.at), i)
    IN  IF kept = {} /\ requested = Keep
        THEN Resolve(NoTable, Given(party, r.party), Given(at, r.at), i)
        ELSE kept

\* Fault: the pending reminder is dropped after the new one was queued.
UpdateMessagesDropLast(i, at, stated) ==
    IF at = Keep
    THEN <<Issue("updated", i, stated)>>
    ELSE <<Issue("updated", i, stated), Issue("reminder", i, stated),
           Issue("drop_reminders", i, stated)>>

\* The messages of an update; a new time replaces the pending reminder.
UpdateMessages(i, at, stated) ==
    IF at = Keep
    THEN <<Issue("updated", i, stated)>>
    ELSE <<Issue("updated", i, stated), Issue("drop_reminders", i, stated),
           Issue("reminder", i, stated)>>

\* Fault: the UPDATE restores the default of the status column.
WriteReservationReviving(i, party, at, t) ==
    LET updated == [party |-> Given(party, reservations[i].party),
                    at |-> Given(at, reservations[i].at), table |-> t,
                    status |-> "confirmed"]
    IN  /\ reservations' = [reservations EXCEPT ![i] = updated]
        /\ issued' = UpdateMessages(i, at, updated.at)
        /\ UNCHANGED <<rooms, tables>>

\* The UPDATE of update_reservation sets the columns of the request, and the
\* table that was chosen; the status is not among them.
WriteReservation(i, party, at, t) ==
    LET updated == [reservations[i] EXCEPT
                        !.party = Given(party, @), !.at = Given(at, @), !.table = t]
    IN  /\ reservations' = [reservations EXCEPT ![i] = updated]
        /\ issued' = UpdateMessages(i, at, updated.at)
        /\ UNCHANGED <<rooms, tables>>

\* PATCH /reservations/{id} that sets party_size, reservation_at or table_id;
\* one that sets none of them changes nothing that is kept here.
UpdateReservation(i, party, at, requested) ==
    /\ <<party, at, requested>> # <<Keep, Keep, Keep>>
    /\ \E t \in TableFor(i, party, at, requested) : WriteReservation(i, party, at, t)

\* Fault: the pending reminder of a cancelled reservation is forgotten.
CancelMessagesOnly(i) == <<Issue("cancelled", i, reservations[i].at)>>

CancelMessages(i) == <<Issue("cancelled", i, reservations[i].at),
                       Issue("drop_reminders", i, reservations[i].at)>>

WriteCancelled(i) ==
    /\ reservations' = [reservations EXCEPT ![i].status = "cancelled"]
    /\ issued' = CancelMessages(i)
    /\ UNCHANGED <<rooms, tables>>

\* POST /reservations/{id}/cancel; cancelling again changes nothing.
CancelReservation(i) == Confirmed(i) /\ WriteCancelled(i)

\* scripts/seed.py inserts rows without a table and without messages.
SeedReservation(party, at, status) ==
    /\ Len(reservations) < MaxReservations
    /\ reservations' = Append(reservations,
          [party |-> party, at |-> at, table |-> NoTable, status |-> status])
    /\ Quiet
    /\ UNCHANGED <<rooms, tables>>

-----------------------------------------------------------------------------
(* The seeding scripts: each is one transaction and queues no message      *)

\* ensure_tables: a floor without tables gets those of the distribution.
EnsuredTables ==
    IF LiveTables = {}
    THEN tables \o [k \in DOMAIN SeedCapacities |->
                        [capacity |-> SeedCapacities[k], room |-> NoRoom]]
    ELSE tables

Unassigned == {i \in DOMAIN reservations : Confirmed(i) /\ reservations[i].table = NoTable}

\* ORDER BY reservation_at ASC, id ASC
Earlier(i, j) ==
    \/ reservations[i].at < reservations[j].at
    \/ reservations[i].at = reservations[j].at /\ i < j

\* Fault: cancelled reservations keep their tables in use.
UsageWithCancelled(seats, i, t) ==
    {j \in DOMAIN reservations :
        IF j \in Unassigned THEN Earlier(j, i) /\ seats[j] = t
                            ELSE reservations[j].table = t}

\* usage[t] at the turn of reservation i: the reservations that had table t
\* before, and those that the script has given it, as `seats' says.
Usage(seats, i, t) ==
    {j \in DOMAIN reservations :
        /\ Confirmed(j)
        /\ IF j \in Unassigned THEN Earlier(j, i) /\ seats[j] = t
                               ELSE reservations[j].table = t}

FreeSeats(floor, seats, i) ==
    {t \in DOMAIN floor :
        /\ floor[t] # Gone
        /\ floor[t].capacity >= reservations[i].party
        /\ \A j \in Usage(seats, i, t) : ~Near(reservations[j].at, reservations[i].at)}

\* fitting.sort: smallest capacity, then least loaded, then lowest id.
Preferred(floor, seats, i, t, u) ==
    LET load(v) == Cardinality(Usage(seats, i, v)) IN
    \/ floor[t].capacity < floor[u].capacity
    \/ /\ floor[t].capacity = floor[u].capacity
       /\ load(t) < load(u) \/ (load(t) = load(u) /\ t < u)

\* backfill_assignments: reservation after reservation gets the best of the
\* tables that are free at its turn, or none.
IsBackfill(floor, seats) ==
    \A i \in Unassigned :
        LET free == FreeSeats(floor, seats, i) IN
        IF free = {}
        THEN seats[i] = NoTable
        ELSE /\ seats[i] \in free
             /\ \A u \in free \ {seats[i]} : Preferred(floor, seats, i, seats[i], u)

Assigned(seats) ==
    [i \in DOMAIN reservations |->
        IF i \in Unassigned THEN [reservations[i] EXCEPT !.table = seats[i]]
                            ELSE reservations[i]]

\* seed_tables.py
SeedTables ==
    /\ Quiet
    /\ UNCHANGED rooms
    /\ Len(EnsuredTables) <= MaxTables
    /\ tables' = EnsuredTables
    /\ \E seats \in [Unassigned -> TableIds \cup {NoTable}] :
          /\ IsBackfill(EnsuredTables, seats)
          /\ reservations' = Assigned(seats)

\* ensure_rooms: a house without rooms gets those of the script.
EnsuredRooms ==
    IF \A m \in DOMAIN rooms : ~rooms[m]
    THEN rooms \o [k \in 1..SeedRoomCount |-> TRUE]
    ELSE rooms

OpenRooms == {m \in DOMAIN EnsuredRooms : EnsuredRooms[m]}

\* assign_tables, for a plan by the rooms' names: only tables without a room.
Roomed(plan) ==
    [t \in DOMAIN tables |->
        IF t \in PlannedTables \cap LiveTables /\ tables[t].room = NoRoom
        THEN [tables[t] EXCEPT !.room = plan[t]]
        ELSE tables[t]]

\* seed_rooms.py raises when one of its rooms is missing.
SeedRooms ==
    /\ Len(EnsuredRooms) <= MaxRooms
    /\ Cardinality(OpenRooms) >= SeedRoomCount
    /\ \E plan \in [PlannedTables -> OpenRooms] : tables' = Roomed(plan)
    /\ rooms' = EnsuredRooms
    /\ Quiet
    /\ UNCHANGED reservations

-----------------------------------------------------------------------------

RoomRequest ==
    \/ CreateRoom
    \/ \E m \in RoomIds : DeleteRoom(m)

TableRequest ==
    \/ \E c \in Capacities, m \in RoomIds \cup {NoRoom} : CreateTable(c, m)
    \/ \E t \in TableIds, c \in Capacities \cup {Keep},
          m \in RoomIds \cup {NoRoom, Keep} : UpdateTable(t, c, m)
    \/ \E t \in TableIds : DeleteTable(t)

FloorRequest == RoomRequest \/ TableRequest

ReservationRequest ==
    \/ \E p \in Parties, at \in Times, t \in TableIds \cup {NoTable} :
          CreateReservation(p, at, t)
    \/ \E i \in DOMAIN reservations, p \in Parties \cup {Keep}, at \in Times \cup {Keep},
          t \in TableIds \cup {NoTable, Keep} : UpdateReservation(i, p, at, t)
    \/ \E i \in DOMAIN reservations : CancelReservation(i)
    \/ \E p \in Parties, at \in Times, status \in {"confirmed", "cancelled"} :
          SeedReservation(p, at, status)

Next == FloorRequest \/ ReservationRequest \/ SeedTables \/ SeedRooms

Spec == Init /\ [][Next]_bookingVars

-----------------------------------------------------------------------------
(* Properties                                                              *)

\* Two confirmed reservations of one table are at least Window apart, however
\* they were created, moved, pinned, cancelled and patched after cancellation.
NoDoubleBooking ==
    \A i, j \in DOMAIN reservations :
        /\ i # j /\ Confirmed(i) /\ Confirmed(j)
        /\ reservations[i].table = reservations[j].table
        /\ reservations[i].table # NoTable
        => ~Near(reservations[i].at, reservations[j].at)

\* A confirmed party fits the table it holds, also after the table was shrunk.
PartyFits ==
    \A i \in DOMAIN reservations :
        Confirmed(i) /\ reservations[i].table # NoTable
            => tables[reservations[i].table].capacity >= reservations[i].party

TablesExist ==
    \A i \in DOMAIN reservations :
        reservations[i].table # NoTable => IsTable(reservations[i].table)

RoomsExist ==
    \A t \in LiveTables : tables[t].room # NoRoom => IsRoom(tables[t].room)

\* Reservations, cancelled ones included, refer to tables that exist, and
\* tables to rooms that exist, so that the nested reads never find NULL.
References == TablesExist /\ RoomsExist

\* Sending a seated reservation its own party and time again is accepted and
\* keeps its table: it never conflicts with itself.
ResubmitKeepsTable ==
    \A i \in DOMAIN reservations :
        Confirmed(i) /\ reservations[i].table # NoTable
            => TableFor(i, reservations[i].party, reservations[i].at, Keep)
                 = {reservations[i].table}

\* GET /tables/available lists exactly the tables that POST /reservations
\* accepts, and an automatic choice is one of the smallest of them.
AvailabilityHonest ==
    \A p \in Parties, at \in Times :
        LET listed == AvailableTables(p, at)
            chosen == Resolve(NoTable, p, at, 0)
        IN  /\ \A t \in TableIds : t \in listed <=> Resolve(t, p, at, 0) # {}
            /\ listed = {} <=> chosen = {}
            /\ \A t \in chosen, u \in listed : tables[t].capacity <= tables[u].capacity

\* seed_tables.py leaves nobody standing while the API would find a seat, though
\* it seats one after the other with a list of its own of what is in use; a
\* second run therefore seats nobody either.
SeedingComplete ==
    [][SeedTables =>
          \A i \in Unassigned' :
             AutoAssign(reservations[i].party, reservations[i].at, i)' = {}]_bookingVars

\* Whatever changes about a reservation, its customer is told: the messages
\* state the new time, and a reminder of an old time is dropped before a new
\* one is made.  Only the first table that a script assigns is silent.
CustomerTold ==
    [][\A i \in DOMAIN reservations :
          LET old == reservations[i]  new == reservations'[i] IN
          /\ old.status # new.status =>
                issued' = <<Issue("cancelled", i, old.at), Issue("drop_reminders", i, old.at)>>
          /\ (\/ <<old.party, old.at>> # <<new.party, new.at>>
              \/ old.table \notin {NoTable, new.table}) =>
                issued' # <<>> /\ Head(issued') = Issue("updated", i, new.at)
          /\ old.at # new.at =>
                Tail(issued') = <<Issue("drop_reminders", i, new.at), Issue("reminder", i, new.at)>>
      ]_bookingVars
==============================================================================
