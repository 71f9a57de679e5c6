---------------------------- MODULE BookingsProofs ----------------------------
(***************************************************************************)
(* Theorems about Bookings for all values of its constants: any number of  *)
(* tables and reservations, any capacities, times and conflict window.     *)
(***************************************************************************)
EXTENDS Bookings, SequenceTheorems, FiniteSetTheorems, WellFoundedInduction, TLAPS

\* A field of a PATCH is the value sent, or the one there was.
LEMMA GivenType ==
    ASSUME NEW S, NEW change \in S \cup {Keep}, NEW current \in S
    PROVE  Given(change, current) \in S
BY DEF Given

\* Whatever table is resolved, requested or chosen, fits: it exists, seats the
\* party, and is free.
LEMMA ResolveFits ==
    ASSUME NEW requested, NEW party, NEW at, NEW except,
           NEW t \in Resolve(requested, party, at, except)
    PROVE  Fits(t, party, at, except)
<1>1. CASE requested = NoTable
  BY <1>1 DEF Resolve, AutoAssign
<1>2. CASE requested # NoTable
  BY <1>2 DEF Resolve
<1> QED
  BY <1>1, <1>2

\* And so does the table of an updated reservation, for its new party and time.
LEMMA TableForFits ==
    ASSUME NEW i, NEW party, NEW at, NEW requested,
           NEW t \in TableFor(i, party, at, requested)
    PROVE  Fits(t, Given(party, reservations[i].party), Given(at, reservations[i].at), i)
BY ResolveFits DEF TableFor

\* Rows rewritten one by one keep their number.
LEMMA RewrittenRow ==
    ASSUME NEW S, NEW q \in Seq(S), NEW i \in DOMAIN q, NEW e \in S
    PROVE  /\ [q EXCEPT ![i] = e] \in Seq(S)
           /\ Len([q EXCEPT ![i] = e]) = Len(q)
           /\ DOMAIN [q EXCEPT ![i] = e] = DOMAIN q
<1>1. DOMAIN q = 1..Len(q) /\ Len(q) \in Nat
  OBVIOUS
<1>2. [q EXCEPT ![i] = e] \in [1..Len(q) -> S]
  BY <1>1
<1>3. [q EXCEPT ![i] = e] \in Seq(S)
  BY <1>1, <1>2, SeqDef
<1> QED
  BY <1>1, <1>2, <1>3

\* The commands of a request are typed.
LEMMA IssueType ==
    ASSUME NEW op \in {"created", "updated", "cancelled", "reminder", "drop_reminders"},
           NEW i \in ReservationIds, NEW at \in Times
    PROVE  Issue(op, i, at) \in Command
BY DEF Issue, Command

-----------------------------------------------------------------------------
(* Type correctness                                                        *)

\* A table only grows by one row, or has a row rewritten.
LEMMA AppendedRow ==
    ASSUME NEW S, NEW q \in Seq(S), NEW e \in S
    PROVE  /\ Append(q, e) \in Seq(S)
           /\ Len(Append(q, e)) = Len(q) + 1
           /\ DOMAIN Append(q, e) = DOMAIN q \cup {Len(q) + 1}
           /\ \A i \in DOMAIN q : Append(q, e)[i] = q[i]
           /\ Append(q, e)[Len(q) + 1] = e
<1>1. DOMAIN q = 1..Len(q) /\ Len(q) \in Nat
  OBVIOUS
<1>2. DOMAIN Append(q, e) = 1..(Len(q) + 1)
  BY AppendProperties
<1> QED
  BY <1>1, <1>2, AppendProperties

Rooms1 == rooms' \in Seq(BOOLEAN) /\ Len(rooms') <= MaxRooms
Tables1 == tables' \in Seq(Table \cup {Gone}) /\ Len(tables') <= MaxTables
Reservations1 ==
    reservations' \in Seq(Reservation) /\ Len(reservations') <= MaxReservations
Issued1 == issued' \in Seq(Command)

\* The UPDATE of a table rewrites its row with the fields of the request.
LEMMA TableRewritten ==
    ASSUME TypeOK, NEW t, IsTable(t), NEW c \in Capacities \cup {Keep},
           NEW m \in RoomIds \cup {NoRoom, Keep}, WriteTable(t, c, m)
    PROVE  /\ TypeOK'
           /\ UNCHANGED <<rooms, reservations>>
           /\ DOMAIN tables' = DOMAIN tables
           /\ tables'[t] \in Table
           /\ tables[t].capacity \in Capacities
           /\ tables'[t].capacity = Given(c, tables[t].capacity)
           /\ tables'[t].room = Given(m, tables[t].room)
           /\ \A u \in DOMAIN tables \ {t} : tables'[u] = tables[u]
<1> DEFINE e == [tables[t] EXCEPT !.capacity = Given(c, @), !.room = Given(m, @)]
<1>1. t \in DOMAIN tables /\ tables[t] \in Table
  BY DEF IsTable, TypeOK
<1>2. Given(c, tables[t].capacity) \in Capacities
  BY <1>1, GivenType DEF Table
<1>3. Given(m, tables[t].room) \in RoomIds \cup {NoRoom}
  BY <1>1 DEF Table, Given
<1>4. /\ e \in Table /\ e.capacity = Given(c, tables[t].capacity)
      /\ e.room = Given(m, tables[t].room)
  BY <1>1, <1>2, <1>3 DEF Table
<1>5. tables' = [tables EXCEPT ![t] = e] /\ UNCHANGED <<rooms, reservations>> /\ Quiet
  BY DEF WriteTable
<1> HIDE DEF e
<1>6. Tables1
  BY <1>1, <1>4, <1>5, RewrittenRow DEF TypeOK, Tables1
<1>7. TypeOK'
  BY <1>5, <1>6 DEF TypeOK, Tables1, Quiet
<1>8. /\ DOMAIN tables' = DOMAIN tables /\ tables'[t] = e
      /\ \A u \in DOMAIN tables \ {t} : tables'[u] = tables[u]
  BY <1>1, <1>5 DEF TypeOK
<1> QED
  BY <1>1, <1>4, <1>5, <1>7, <1>8 DEF Table

\* The requests about rooms and tables keep the types.
LEMMA FloorTyped ==
    ASSUME TypeOK, FloorRequest
    PROVE  TypeOK'
<1> SUFFICES Rooms1 /\ Tables1 /\ Reservations1 /\ Issued1
  BY DEF TypeOK, Rooms1, Tables1, Reservations1, Issued1
<1>a. UNCHANGED rooms => Rooms1
  BY DEF TypeOK, Rooms1
<1>b. UNCHANGED tables => Tables1
  BY DEF TypeOK, Tables1
<1>c. UNCHANGED reservations => Reservations1
  BY DEF TypeOK, Reservations1
<1>d. Quiet => Issued1
  BY DEF Quiet, Issued1
<1>1. CASE CreateRoom
  <2>1. Rooms1
    BY <1>1, AppendedRow, BookingsAssumption DEF CreateRoom, TypeOK, Rooms1
  <2> QED
    BY <1>1, <1>b, <1>c, <1>d, <2>1 DEF CreateRoom
<1>2. ASSUME NEW m \in RoomIds, DeleteRoom(m)
      PROVE  Rooms1 /\ Tables1 /\ Reservations1 /\ Issued1
  <2>1. Rooms1
    BY <1>2, RewrittenRow DEF DeleteRoom, IsRoom, TypeOK, Rooms1
  <2> QED
    BY <1>2, <1>b, <1>c, <1>d, <2>1 DEF DeleteRoom
<1>3. ASSUME NEW c \in Capacities, NEW m \in RoomIds \cup {NoRoom}, CreateTable(c, m)
      PROVE  Rooms1 /\ Tables1 /\ Reservations1 /\ Issued1
  <2>1. [capacity |-> c, room |-> m] \in Table \cup {Gone}
    BY DEF Table
  <2>2. Tables1
    BY <1>3, <2>1, AppendedRow, BookingsAssumption DEF CreateTable, TypeOK, Tables1
  <2> QED
    BY <1>3, <1>a, <1>c, <1>d, <2>2 DEF CreateTable
<1>4. ASSUME NEW t \in TableIds, NEW c \in Capacities \cup {Keep},
             NEW m \in RoomIds \cup {NoRoom, Keep}, UpdateTable(t, c, m)
      PROVE  Rooms1 /\ Tables1 /\ Reservations1 /\ Issued1
  BY <1>4, TableRewritten DEF UpdateTable, TypeOK, Rooms1, Tables1, Reservations1, Issued1
<1>5. ASSUME NEW t \in TableIds, DeleteTable(t)
      PROVE  Rooms1 /\ Tables1 /\ Reservations1 /\ Issued1
  <2>1. Tables1
    BY <1>5, RewrittenRow DEF DeleteTable, IsTable, TypeOK, Tables1
  <2> QED
    BY <1>5, <1>a, <1>c, <1>d, <2>1 DEF DeleteTable
<1> QED
  BY <1>1, <1>2, <1>3, <1>4, <1>5 DEF FloorRequest, RoomRequest, TableRequest

\* The writes of the requests about reservations keep the types.
LEMMA RowsTyped ==
    ASSUME TypeOK
    PROVE  /\ DOMAIN reservations = 1..Len(reservations) /\ Len(reservations) \in Nat
           /\ DOMAIN reservations \subseteq ReservationIds
           /\ DOMAIN tables \subseteq TableIds
           /\ \A i \in DOMAIN reservations : reservations[i] \in Reservation
           /\ UNCHANGED <<rooms, tables>> => Rooms1 /\ Tables1
<1>1. /\ DOMAIN reservations = 1..Len(reservations) /\ Len(reservations) \in Nat
      /\ DOMAIN reservations \subseteq ReservationIds
  BY BookingsAssumption DEF TypeOK, ReservationIds
<1>2. DOMAIN tables \subseteq TableIds
  BY BookingsAssumption DEF TypeOK, TableIds
<1>3. \A i \in DOMAIN reservations : reservations[i] \in Reservation
  BY DEF TypeOK
<1>4. UNCHANGED <<rooms, tables>> => Rooms1 /\ Tables1
  BY DEF TypeOK, Rooms1, Tables1
<1> QED
  BY <1>1, <1>2, <1>3, <1>4

LEMMA InsertTyped ==
    ASSUME TypeOK, NEW p \in Parties, NEW at \in Times, NEW t \in TableIds,
           InsertReservation(p, at, t)
    PROVE  TypeOK'
<1> DEFINE e == [party |-> p, at |-> at, table |-> t, status |-> "confirmed"]
           i == Len(reservations) + 1
<1>1. e \in Reservation
  BY DEF Reservation
<1>2. reservations' = Append(reservations, e) /\ i <= MaxReservations
  BY DEF InsertReservation
<1>3. Reservations1
  <2> HIDE DEF e
  <2> QED
    BY <1>1, <1>2, AppendedRow DEF TypeOK, Reservations1
<1>4. i \in ReservationIds
  BY RowsTyped, <1>2, BookingsAssumption DEF ReservationIds
<1>5. Issue("created", i, at) \in Command /\ Issue("reminder", i, at) \in Command
  BY <1>4, IssueType
<1>6. issued' = <<Issue("created", i, at), Issue("reminder", i, at)>>
  BY DEF InsertReservation
<1>7. Issued1
  BY <1>5, <1>6 DEF Issued1
<1>8. Rooms1 /\ Tables1
  BY RowsTyped DEF InsertReservation
<1> QED
  BY <1>3, <1>7, <1>8 DEF TypeOK, Rooms1, Tables1, Reservations1, Issued1

LEMMA WriteTyped ==
    ASSUME TypeOK, NEW i \in DOMAIN reservations, NEW p \in Parties \cup {Keep},
           NEW at \in Times \cup {Keep}, NEW t \in TableIds,
           WriteReservation(i, p, at, t)
    PROVE  TypeOK'
<1> DEFINE e == [reservations[i] EXCEPT
                    !.party = Given(p, @), !.at = Given(at, @), !.table = t]
<1>1. /\ Given(p, reservations[i].party) \in Parties
      /\ Given(at, reservations[i].at) \in Times
  BY RowsTyped, GivenType DEF Reservation
<1>2. e \in Reservation /\ e.at \in Times
  BY RowsTyped, <1>1 DEF Reservation
<1>3. reservations' = [reservations EXCEPT ![i] = e] /\ issued' = UpdateMessages(i, at, e.at)
  BY DEF WriteReservation
<1>4. Reservations1
  <2> HIDE DEF e
  <2> QED
    BY <1>2, <1>3, RewrittenRow DEF TypeOK, Reservations1
<1>5. UpdateMessages(i, at, e.at) \in Seq(Command)
  <2> HIDE DEF e
  <2>1. \A op \in {"updated", "drop_reminders", "reminder"} : Issue(op, i, e.at) \in Command
    BY RowsTyped, <1>2, IssueType
  <2> QED
    BY <2>1 DEF UpdateMessages
<1>6. Rooms1 /\ Tables1
  BY RowsTyped DEF WriteReservation
<1>7. Issued1
  BY <1>3, <1>5 DEF Issued1
<1> QED
  BY <1>4, <1>6, <1>7 DEF TypeOK, Rooms1, Tables1, Reservations1, Issued1

LEMMA CancelTyped ==
    ASSUME TypeOK, NEW i \in DOMAIN reservations, WriteCancelled(i)
    PROVE  TypeOK'
<1> DEFINE e == [reservations[i] EXCEPT !.status = "cancelled"]
<1>1. e \in Reservation /\ reservations[i].at \in Times
  BY RowsTyped DEF Reservation
<1>2. reservations' = [reservations EXCEPT ![i] = e]
  BY DEF WriteCancelled
<1>3. Reservations1
  <2> HIDE DEF e
  <2> QED
    BY <1>1, <1>2, RewrittenRow DEF TypeOK, Reservations1
<1>4. \A op \in {"cancelled", "drop_reminders"} : Issue(op, i, reservations[i].at) \in Command
  BY RowsTyped, <1>1, IssueType
<1>5. Issued1
  BY <1>4 DEF WriteCancelled, CancelMessages, Issued1
<1>6. Rooms1 /\ Tables1
  BY RowsTyped DEF WriteCancelled
<1> QED
  BY <1>3, <1>5, <1>6 DEF TypeOK, Rooms1, Tables1, Reservations1, Issued1

LEMMA SeedTyped ==
    ASSUME TypeOK, NEW p \in Parties, NEW at \in Times, NEW status \in {"confirmed", "cancelled"},
           SeedReservation(p, at, status)
    PROVE  TypeOK'
<1> DEFINE e == [party |-> p, at |-> at, table |-> NoTable, status |-> status]
<1>1. e \in Reservation
  BY DEF Reservation
<1>2. reservations' = Append(reservations, e) /\ Len(reservations) < MaxReservations
  BY DEF SeedReservation
<1>3. Reservations1
  <2> HIDE DEF e
  <2> QED
    BY <1>1, <1>2, AppendedRow, BookingsAssumption DEF TypeOK, Reservations1
<1>4. Rooms1 /\ Tables1
  BY RowsTyped DEF SeedReservation
<1>5. Issued1
  BY DEF SeedReservation, Quiet, Issued1
<1> QED
  BY <1>3, <1>4, <1>5 DEF TypeOK, Rooms1, Tables1, Reservations1, Issued1

\* The requests about reservations keep the types.
LEMMA ReservationTyped ==
    ASSUME TypeOK, ReservationRequest
    PROVE  TypeOK'
<1>1. ASSUME NEW p \in Parties, NEW at \in Times, NEW requested \in TableIds \cup {NoTable},
             CreateReservation(p, at, requested)
      PROVE  TypeOK'
  <2>1. PICK t \in Resolve(requested, p, at, 0) : InsertReservation(p, at, t)
    BY <1>1 DEF CreateReservation
  <2>2. t \in TableIds
    BY RowsTyped, <2>1, ResolveFits DEF Fits, IsTable
  <2> QED
    BY <2>1, <2>2, InsertTyped
<1>2. ASSUME NEW i \in DOMAIN reservations, NEW p \in Parties \cup {Keep},
             NEW at \in Times \cup {Keep}, NEW requested \in TableIds \cup {NoTable, Keep},
             UpdateReservation(i, p, at, requested)
      PROVE  TypeOK'
  <2>1. PICK t \in TableFor(i, p, at, requested) : WriteReservation(i, p, at, t)
    BY <1>2 DEF UpdateReservation
  <2>2. t \in TableIds
    BY RowsTyped, <2>1, TableForFits DEF Fits, IsTable
  <2> QED
    BY <2>1, <2>2, WriteTyped
<1> QED
  BY <1>1, <1>2, CancelTyped, SeedTyped DEF ReservationRequest, CancelReservation

\* A function on 1..n is a sequence.
LEMMA RowByRow ==
    ASSUME NEW S, NEW n \in Nat, NEW f \in [1..n -> S]
    PROVE  f \in Seq(S) /\ Len(f) = n /\ DOMAIN f = 1..n
<1>1. f \in Seq(S)
  BY SeqDef
<1>2. DOMAIN f = 1..n
  OBVIOUS
<1>3. Len(f) \in Nat /\ DOMAIN f = 1..Len(f)
  BY <1>1
<1> QED
  BY <1>1, <1>2, <1>3

\* ensure_tables keeps the tables there are, and those it adds are in no room.
LEMMA EnsuredTablesKeep ==
    ASSUME TypeOK
    PROVE  /\ EnsuredTables \in Seq(Table \cup {Gone})
           /\ DOMAIN tables \subseteq DOMAIN EnsuredTables
           /\ \A t \in DOMAIN tables : EnsuredTables[t] = tables[t]
           /\ \A t \in DOMAIN EnsuredTables \ DOMAIN tables :
                 EnsuredTables[t] \in Table /\ EnsuredTables[t].room = NoRoom
<1> DEFINE added == [k \in DOMAIN SeedCapacities |->
                        [capacity |-> SeedCapacities[k], room |-> NoRoom]]
           Bare == {e \in Table : e.room = NoRoom}
<1>1. CASE LiveTables # {}
  BY <1>1 DEF EnsuredTables, TypeOK
<1>2. CASE LiveTables = {}
  <2>1. /\ DOMAIN SeedCapacities = 1..Len(SeedCapacities) /\ Len(SeedCapacities) \in Nat
        /\ \A k \in DOMAIN SeedCapacities : SeedCapacities[k] \in Capacities
    BY BookingsAssumption
  <2>2. \A k \in DOMAIN SeedCapacities : added[k] \in Bare
    BY <2>1 DEF Table
  <2>3. added \in [1..Len(SeedCapacities) -> Bare]
    BY <2>1, <2>2
  <2> HIDE DEF added, Bare
  <2>4. added \in Seq(Bare)
    BY <2>1, <2>3, RowByRow
  <2>5. EnsuredTables = tables \o added
    BY <1>2 DEF EnsuredTables, added
  <2>6. Bare \subseteq Table
    BY DEF Bare
  <2>7. tables \in Seq(Table \cup {Gone}) /\ added \in Seq(Table \cup {Gone})
    BY <2>4, <2>6 DEF TypeOK
  <2>8. /\ EnsuredTables \in Seq(Table \cup {Gone})
        /\ Len(EnsuredTables) = Len(tables) + Len(added)
        /\ \A t \in 1..(Len(tables) + Len(added)) :
              EnsuredTables[t] = IF t <= Len(tables) THEN tables[t] ELSE added[t - Len(tables)]
    BY <2>5, <2>7, ConcatProperties
  <2>9. /\ Len(tables) \in Nat /\ DOMAIN tables = 1..Len(tables)
        /\ Len(added) \in Nat /\ \A k \in 1..Len(added) : added[k] \in Bare
        /\ DOMAIN EnsuredTables = 1..(Len(tables) + Len(added))
    BY <2>4, <2>7, <2>8
  <2>10. \A t \in DOMAIN EnsuredTables \ DOMAIN tables :
            t > Len(tables) /\ t - Len(tables) \in 1..Len(added)
    BY <2>9
  <2>11. \A t \in DOMAIN EnsuredTables \ DOMAIN tables : EnsuredTables[t] \in Bare
    <3> TAKE t \in DOMAIN EnsuredTables \ DOMAIN tables
    <3>1. EnsuredTables[t] = added[t - Len(tables)]
      BY <2>8, <2>9, <2>10
    <3> QED
      BY <2>9, <2>10, <3>1
  <2>12. \A t \in DOMAIN tables : EnsuredTables[t] = tables[t]
    BY <2>8, <2>9
  <2> QED
    BY <2>8, <2>9, <2>11, <2>12 DEF Bare
<1> QED
  BY <1>1, <1>2

\* ensure_rooms keeps the rooms there are.
LEMMA EnsuredRoomsKeep ==
    ASSUME TypeOK
    PROVE  /\ EnsuredRooms \in Seq(BOOLEAN)
           /\ \A m : IsRoom(m) => m \in DOMAIN EnsuredRooms /\ EnsuredRooms[m]
<1> DEFINE added == [k \in 1..SeedRoomCount |-> TRUE]
<1>1. CASE \A m \in DOMAIN rooms : ~rooms[m]
  <2>1. added \in [1..SeedRoomCount -> BOOLEAN]
    OBVIOUS
  <2>2. EnsuredRooms = rooms \o added
    BY <1>1 DEF EnsuredRooms
  <2> HIDE DEF added
  <2>3. added \in Seq(BOOLEAN)
    BY <2>1, RowByRow, BookingsAssumption
  <2>4. rooms \o added \in Seq(BOOLEAN)
    BY <2>3, ConcatProperties DEF TypeOK
  <2> QED
    BY <1>1, <2>2, <2>4 DEF IsRoom
<1>2. CASE ~ \A m \in DOMAIN rooms : ~rooms[m]
  BY <1>2 DEF EnsuredRooms, IsRoom, TypeOK
<1> QED
  BY <1>1, <1>2

\* assign_tables changes nothing about a table but its room, from none to one
\* that is open.
LEMMA RoomedTables ==
    ASSUME TypeOK, OpenRooms \subseteq RoomIds, NEW plan \in [PlannedTables -> OpenRooms]
    PROVE  /\ Roomed(plan) \in Seq(Table \cup {Gone})
           /\ Len(Roomed(plan)) = Len(tables)
           /\ DOMAIN Roomed(plan) = DOMAIN tables
           /\ \A t \in DOMAIN tables :
                 \/ Roomed(plan)[t] = tables[t]
                 \/ /\ tables[t] # Gone
                    /\ Roomed(plan)[t] \in Table
                    /\ Roomed(plan)[t].capacity = tables[t].capacity
                    /\ Roomed(plan)[t].room \in OpenRooms
<1>1. /\ DOMAIN tables = 1..Len(tables) /\ Len(tables) \in Nat
      /\ \A t \in DOMAIN tables : tables[t] \in Table \cup {Gone}
  BY DEF TypeOK
<1>2. DOMAIN Roomed(plan) = DOMAIN tables
  BY DEF Roomed
<1>3. \A t \in DOMAIN tables :
         \/ Roomed(plan)[t] = tables[t]
         \/ /\ tables[t] # Gone
            /\ Roomed(plan)[t] \in Table
            /\ Roomed(plan)[t].capacity = tables[t].capacity
            /\ Roomed(plan)[t].room \in OpenRooms
  <2> TAKE t \in DOMAIN tables
  <2>1. CASE t \in PlannedTables \cap LiveTables /\ tables[t].room = NoRoom
    <3>1. tables[t] # Gone /\ tables[t] \in Table /\ plan[t] \in OpenRooms
      BY <1>1, <2>1 DEF LiveTables
    <3>2. Roomed(plan)[t] = [tables[t] EXCEPT !.room = plan[t]]
      BY <2>1 DEF Roomed
    <3> QED
      BY <3>1, <3>2 DEF Table
  <2>2. CASE ~(t \in PlannedTables \cap LiveTables /\ tables[t].room = NoRoom)
    BY <2>2 DEF Roomed
  <2> QED
    BY <2>1, <2>2
<1>4. \A t \in DOMAIN tables : Roomed(plan)[t] \in Table \cup {Gone}
  BY <1>1, <1>3
<1>5. Roomed(plan) \in [1..Len(tables) -> Table \cup {Gone}]
  BY <1>1, <1>2, <1>4 DEF Roomed
<1>6. Roomed(plan) \in Seq(Table \cup {Gone}) /\ Len(Roomed(plan)) = Len(tables)
  BY <1>1, <1>5, RowByRow
<1> QED
  BY <1>2, <1>3, <1>6

\* backfill_assignments changes nothing about a reservation but its table.
LEMMA AssignedRows ==
    ASSUME TypeOK, NEW seats \in [Unassigned -> TableIds \cup {NoTable}]
    PROVE  /\ Assigned(seats) \in Seq(Reservation)
           /\ Len(Assigned(seats)) = Len(reservations)
           /\ DOMAIN Assigned(seats) = DOMAIN reservations
           /\ \A i \in DOMAIN reservations :
                 /\ Assigned(seats)[i].party = reservations[i].party
                 /\ Assigned(seats)[i].at = reservations[i].at
                 /\ Assigned(seats)[i].status = reservations[i].status
                 /\ Assigned(seats)[i].table = IF i \in Unassigned THEN seats[i]
                                                                   ELSE reservations[i].table
<1>1. /\ DOMAIN reservations = 1..Len(reservations) /\ Len(reservations) \in Nat
      /\ \A i \in DOMAIN reservations : reservations[i] \in Reservation
  BY DEF TypeOK
<1>2. ASSUME NEW i \in DOMAIN reservations
      PROVE  /\ Assigned(seats)[i] \in Reservation
             /\ Assigned(seats)[i].party = reservations[i].party
             /\ Assigned(seats)[i].at = reservations[i].at
             /\ Assigned(seats)[i].status = reservations[i].status
             /\ Assigned(seats)[i].table = IF i \in Unassigned THEN seats[i]
                                                               ELSE reservations[i].table
  <2>1. CASE i \in Unassigned
    <3>1. Assigned(seats)[i] = [reservations[i] EXCEPT !.table = seats[i]]
      BY <2>1 DEF Assigned
    <3>2. seats[i] \in TableIds \cup {NoTable}
      BY <2>1
    <3> QED
      BY <1>1, <2>1, <3>1, <3>2 DEF Reservation
  <2>2. CASE i \notin Unassigned
    <3>1. Assigned(seats)[i] = reservations[i]
      BY <2>2 DEF Assigned
    <3> QED
      BY <1>1, <2>2, <3>1
  <2> QED
    BY <2>1, <2>2
<1>3. Assigned(seats) \in [1..Len(reservations) -> Reservation]
  BY <1>1, <1>2 DEF Assigned
<1>4. Assigned(seats) \in Seq(Reservation) /\ Len(Assigned(seats)) = Len(reservations)
  BY <1>1, <1>3, RowByRow
<1>5. DOMAIN Assigned(seats) = DOMAIN reservations
  BY DEF Assigned
<1> QED
  BY <1>2, <1>4, <1>5

\* The rooms that seed_rooms.py finds are within the bound.
LEMMA OpenRoomsTyped ==
    ASSUME TypeOK, Len(EnsuredRooms) <= MaxRooms
    PROVE  OpenRooms \subseteq RoomIds
<1>1. Len(EnsuredRooms) \in Nat /\ DOMAIN EnsuredRooms = 1..Len(EnsuredRooms)
  BY EnsuredRoomsKeep
<1> QED
  BY <1>1, BookingsAssumption DEF OpenRooms, RoomIds

\* The scripts keep the types.
LEMMA ScriptTyped ==
    ASSUME TypeOK, SeedTables \/ SeedRooms
    PROVE  TypeOK'
<1>1. Issued1
  <2>1. Quiet
    BY Zenon DEF SeedTables, SeedRooms
  <2> QED
    BY <2>1 DEF Quiet, Issued1
<1>2. CASE SeedTables
  <2>1. PICK seats \in [Unassigned -> TableIds \cup {NoTable}] : reservations' = Assigned(seats)
    BY <1>2 DEF SeedTables
  <2>2. Reservations1
    BY <2>1, AssignedRows DEF TypeOK, Reservations1
  <2>3. Tables1
    BY <1>2, EnsuredTablesKeep DEF SeedTables, Tables1
  <2>4. UNCHANGED rooms
    BY <1>2 DEF SeedTables
  <2> QED
    BY <1>1, <2>2, <2>3, <2>4 DEF TypeOK, Reservations1, Tables1, Issued1
<1>3. CASE SeedRooms
  <2>1. PICK plan \in [PlannedTables -> OpenRooms] : tables' = Roomed(plan)
    BY <1>3 DEF SeedRooms
  <2>2. Tables1
    BY <1>3, <2>1, OpenRoomsTyped, RoomedTables DEF SeedRooms, TypeOK, Tables1
  <2>3. Rooms1
    BY <1>3, EnsuredRoomsKeep DEF SeedRooms, Rooms1
  <2>4. UNCHANGED reservations
    BY <1>3 DEF SeedRooms
  <2> QED
    BY <1>1, <2>2, <2>3, <2>4 DEF TypeOK, Rooms1, Tables1, Issued1
<1> QED
  BY <1>2, <1>3

\* Whatever requests and scripts are run, rooms, tables, reservations and queue commands
\* stay typed: an update stores no missing field, and ids stay in range (crud.py).
THEOREM TypeCorrect == Spec => []TypeOK
<1>1. Init => TypeOK
  BY BookingsAssumption DEF Init, TypeOK
<1>2. TypeOK /\ [Next]_bookingVars => TypeOK'
  <2>1. ASSUME TypeOK, UNCHANGED bookingVars PROVE TypeOK'
    BY <2>1 DEF TypeOK, bookingVars
  <2> QED
    BY <2>1, FloorTyped, ReservationTyped, ScriptTyped DEF Next
<1> QED
  BY <1>1, <1>2, PTL DEF Spec

-----------------------------------------------------------------------------
(* The floor and the seats: references, capacities and bookings together.  *)
(* PartyFits and NoDoubleBooking are about the table a reservation has,    *)
(* so they need References; References needs the types.                    *)

SeatInv == TypeOK /\ References /\ PartyFits /\ NoDoubleBooking

\* A table of the store is not the mark of a deleted one.
LEMMA TableNotGone == Gone \notin Table
<1>1. Capacities \subseteq Nat /\ RoomIds \cup {NoRoom} \subseteq Nat \cup {NoRoom}
  BY BookingsAssumption DEF RoomIds
<1>2. Table \subseteq [capacity : Nat, room : Nat \cup {NoRoom}]
  BY <1>1 DEF Table
<1> QED
  BY <1>2, BookingsAssumption

\* Every request about the floor leaves the reservations alone.
LEMMA FloorSparesReservations ==
    ASSUME FloorRequest
    PROVE  UNCHANGED reservations
BY DEF FloorRequest, RoomRequest, TableRequest, CreateRoom, DeleteRoom, CreateTable,
       UpdateTable, WriteTable, DeleteTable

\* The tables held by reservations survive the requests about the floor, and
\* those held by confirmed parties that fit stay large enough.
LEMMA FloorKeepsTables ==
    ASSUME TypeOK, TablesExist, FloorRequest,
           NEW i \in DOMAIN reservations, NEW t, reservations[i].table = t, t # NoTable
    PROVE  /\ IsTable(t)'
           /\ Confirmed(i) /\ tables[t].capacity >= reservations[i].party
                 => tables'[t].capacity >= reservations[i].party
<1> DEFINE Stays == /\ IsTable(t)'
                    /\ Confirmed(i) /\ tables[t].capacity >= reservations[i].party
                          => tables'[t].capacity >= reservations[i].party
<1>a. IsTable(t)
  BY DEF TablesExist
<1>1. CASE UNCHANGED tables
  BY <1>1, <1>a DEF IsTable
<1>2. ASSUME NEW c \in Capacities, NEW m \in RoomIds \cup {NoRoom}, CreateTable(c, m)
      PROVE  Stays
  <2> DEFINE e == [capacity |-> c, room |-> m]
  <2>1. e \in Table \cup {Gone} /\ tables' = Append(tables, e)
    BY <1>2 DEF CreateTable, Table
  <2>2. DOMAIN tables \subseteq DOMAIN tables' /\ \A u \in DOMAIN tables : tables'[u] = tables[u]
    <3> HIDE DEF e
    <3> QED
      BY <2>1, AppendedRow DEF TypeOK
  <2> QED
    BY <2>2, <1>a DEF IsTable
<1>3. ASSUME NEW u \in TableIds, NEW c \in Capacities \cup {Keep},
             NEW m \in RoomIds \cup {NoRoom, Keep}, UpdateTable(u, c, m)
      PROVE  Stays
  <2>1. IsTable(u) /\ WriteTable(u, c, m)
    BY <1>3 DEF UpdateTable
  <2>2. /\ DOMAIN tables' = DOMAIN tables /\ tables'[u] \in Table
        /\ tables[u].capacity \in Capacities
        /\ tables'[u].capacity = Given(c, tables[u].capacity)
        /\ \A v \in DOMAIN tables \ {u} : tables'[v] = tables[v]
    BY <2>1, TableRewritten
  <2>3. IsTable(t)'
    BY <1>a, <2>2, TableNotGone DEF IsTable
  <2>4. ASSUME t = u, Confirmed(i), tables[t].capacity >= reservations[i].party
        PROVE  tables'[t].capacity >= reservations[i].party
    <3>1. tables[t].capacity \in Nat /\ tables'[t].capacity \in Nat
      BY <2>2, <2>4, BookingsAssumption DEF Table
    <3>2. reservations[i].party \in Nat
      <4>1. reservations[i] \in Reservation
        BY DEF TypeOK
      <4> QED
        BY <4>1, BookingsAssumption DEF Reservation
    <3>3. CASE c = Keep
      BY <2>2, <2>4, <3>3 DEF Given
    <3>4. CASE c # Keep
      <4>1. CanShrink(t, c) /\ tables'[t].capacity = c
        BY <1>3, <2>2, <2>4, <3>4 DEF UpdateTable, Given
      <4>2. c < tables[t].capacity => reservations[i].party <= c
        BY <2>4, <4>1 DEF CanShrink
      <4> QED
        BY <2>4, <3>1, <3>2, <4>1, <4>2
    <3> QED
      BY <3>3, <3>4
  <2> QED
    BY <1>a, <2>2, <2>3, <2>4 DEF IsTable
<1>4. ASSUME NEW u \in TableIds, DeleteTable(u)
      PROVE  Stays
  <2>1. u # t
    BY <1>4 DEF DeleteTable, Unreferenced
  <2>2. /\ DOMAIN tables' = DOMAIN tables
        /\ \A v \in DOMAIN tables \ {u} : tables'[v] = tables[v]
    BY <1>4 DEF DeleteTable, TypeOK
  <2> QED
    BY <2>1, <2>2, <1>a DEF IsTable
<1> QED
  BY <1>1, <1>2, <1>3, <1>4 DEF FloorRequest, RoomRequest, TableRequest, CreateRoom, DeleteRoom

LEMMA FloorKeepsHeldTables ==
    ASSUME SeatInv, FloorRequest
    PROVE  TablesExist' /\ PartyFits'
<1>1. UNCHANGED reservations
  BY FloorSparesReservations
<1>2. TypeOK /\ TablesExist /\ PartyFits
  BY DEF SeatInv, References
<1>3. ASSUME NEW i \in DOMAIN reservations, reservations[i].table # NoTable
      PROVE  /\ IsTable(reservations[i].table)'
             /\ Confirmed(i) => tables'[reservations[i].table].capacity >= reservations[i].party
  <2>1. PICK t : t = reservations[i].table
    OBVIOUS
  <2>2. /\ IsTable(t)'
        /\ Confirmed(i) /\ tables[t].capacity >= reservations[i].party
              => tables'[t].capacity >= reservations[i].party
    BY <1>2, <1>3, <2>1, FloorKeepsTables
  <2>3. Confirmed(i) => tables[t].capacity >= reservations[i].party
    BY <1>2, <1>3, <2>1 DEF PartyFits
  <2> QED
    BY <1>1, <2>1, <2>2, <2>3 DEF IsTable
<1> QED
  BY <1>1, <1>3 DEF TablesExist, PartyFits, Confirmed, IsTable

\* The room of a table that is rewritten exists.
LEMMA TableKeepsRooms ==
    ASSUME TypeOK, RoomsExist, NEW t, IsTable(t), NEW c \in Capacities \cup {Keep},
           NEW m \in RoomIds \cup {NoRoom, Keep}, m \in {Keep, NoRoom} \/ IsRoom(m),
           WriteTable(t, c, m)
    PROVE  RoomsExist'
<1>1. /\ UNCHANGED rooms
      /\ DOMAIN tables' = DOMAIN tables
      /\ tables'[t].room = Given(m, tables[t].room)
      /\ \A u \in DOMAIN tables \ {t} : tables'[u] = tables[u]
  BY TableRewritten
<1>2. tables'[t].room = NoRoom \/ IsRoom(tables'[t].room)
  BY <1>1 DEF Given, RoomsExist, LiveTables, IsTable
<1>3. \A u \in LiveTables' \ {t} : u \in LiveTables
  BY <1>1 DEF LiveTables
<1> QED
  BY <1>1, <1>2, <1>3 DEF RoomsExist, LiveTables, IsRoom

\* Rooms named by tables survive the requests about the floor.
LEMMA FloorKeepsRooms ==
    ASSUME TypeOK, RoomsExist, FloorRequest
    PROVE  RoomsExist'
<1> DEFINE In(t, m) == t \in DOMAIN tables /\ tables[t] # Gone /\ tables[t].room = m /\ m # NoRoom
<1>a. \A t, m : In(t, m) => IsRoom(m)
  BY DEF RoomsExist, LiveTables
<1>1. CASE CreateRoom
  <2>1. DOMAIN rooms \subseteq DOMAIN rooms' /\ \A m \in DOMAIN rooms : rooms'[m] = rooms[m]
    <3>1. rooms \in Seq(BOOLEAN) /\ rooms' = Append(rooms, TRUE)
      BY <1>1 DEF CreateRoom, TypeOK
    <3>2. ASSUME NEW e \in BOOLEAN
          PROVE  /\ DOMAIN Append(rooms, e) = DOMAIN rooms \cup {Len(rooms) + 1}
                 /\ \A m \in DOMAIN rooms : Append(rooms, e)[m] = rooms[m]
      BY <3>1, AppendedRow
    <3>3. /\ DOMAIN Append(rooms, TRUE) = DOMAIN rooms \cup {Len(rooms) + 1}
          /\ \A m \in DOMAIN rooms : Append(rooms, TRUE)[m] = rooms[m]
      BY <3>2, Zenon
    <3> QED
      BY <3>1, <3>3, Zenon
  <2>2. UNCHANGED tables
    BY <1>1 DEF CreateRoom
  <2> QED
    BY <1>a, <2>1, <2>2 DEF RoomsExist, LiveTables, IsRoom
<1>2. ASSUME NEW m \in RoomIds, DeleteRoom(m)
      PROVE  RoomsExist'
  <2>1. DOMAIN rooms' = DOMAIN rooms /\ \A n \in DOMAIN rooms \ {m} : rooms'[n] = rooms[n]
    BY <1>2 DEF DeleteRoom, TypeOK
  <2>2. UNCHANGED tables /\ \A t \in LiveTables : tables[t].room # m
    BY <1>2 DEF DeleteRoom
  <2> QED
    BY <1>a, <2>1, <2>2 DEF RoomsExist, LiveTables, IsRoom
<1>3. ASSUME NEW c \in Capacities, NEW m \in RoomIds \cup {NoRoom}, CreateTable(c, m)
      PROVE  RoomsExist'
  <2> DEFINE e == [capacity |-> c, room |-> m]
  <2>1. e \in Table \cup {Gone} /\ tables' = Append(tables, e) /\ e.room = m
    BY <1>3 DEF CreateTable, Table
  <2>2. /\ DOMAIN tables' = DOMAIN tables \cup {Len(tables) + 1}
        /\ \A t \in DOMAIN tables : tables'[t] = tables[t]
        /\ tables'[Len(tables) + 1] = e
    <3> HIDE DEF e
    <3> QED
      BY <2>1, AppendedRow DEF TypeOK
  <2>3. UNCHANGED rooms /\ (m = NoRoom \/ IsRoom(m))
    BY <1>3 DEF CreateTable
  <2> HIDE DEF e
  <2> QED
    BY <1>a, <2>1, <2>2, <2>3 DEF RoomsExist, LiveTables, IsRoom
<1>4. ASSUME NEW t \in TableIds, NEW c \in Capacities \cup {Keep},
             NEW m \in RoomIds \cup {NoRoom, Keep}, UpdateTable(t, c, m)
      PROVE  RoomsExist'
  BY <1>4, TableKeepsRooms DEF UpdateTable
<1>5. ASSUME NEW t \in TableIds, DeleteTable(t)
      PROVE  RoomsExist'
  <2>1. /\ DOMAIN tables' = DOMAIN tables /\ tables'[t] = Gone /\ UNCHANGED rooms
        /\ \A u \in DOMAIN tables \ {t} : tables'[u] = tables[u]
    BY <1>5 DEF DeleteTable, IsTable, TypeOK
  <2> QED
    BY <1>a, <2>1 DEF RoomsExist, LiveTables, IsRoom
<1> QED
  BY <1>1, <1>2, <1>3, <1>4, <1>5 DEF FloorRequest, RoomRequest, TableRequest

-----------------------------------------------------------------------------
(* The requests about reservations                                         *)

\* A conflict of two times is mutual.
LEMMA NearSymmetric ==
    ASSUME NEW a \in Times, NEW b \in Times
    PROVE  Near(a, b) <=> Near(b, a)
BY BookingsAssumption DEF Near

\* Row i becomes e, which has no table or sits, unless cancelled, at a large
\* enough table that is free of the others; every other row stays.
SeatTaken(i, e) ==
    /\ UNCHANGED <<rooms, tables>>
    /\ DOMAIN reservations' = DOMAIN reservations \cup {i}
    /\ reservations'[i] = e
    /\ \A j \in DOMAIN reservations \ {i} : reservations'[j] = reservations[j]
    /\ e.table # NoTable => IsTable(e.table)
    /\ e.status = "confirmed" /\ e.table # NoTable =>
          /\ tables[e.table].capacity >= e.party
          /\ \A j \in DOMAIN reservations \ {i} :
                Confirmed(j) /\ reservations[j].table = e.table
                    => ~Near(reservations[j].at, e.at)

\* A seat taken in this way disturbs nobody.
LEMMA SeatTakenKeeps ==
    ASSUME SeatInv, NEW i, NEW e \in Reservation, SeatTaken(i, e)
    PROVE  References' /\ PartyFits' /\ NoDoubleBooking'
<1>1. /\ UNCHANGED <<rooms, tables>>
      /\ DOMAIN reservations' = DOMAIN reservations \cup {i}
      /\ reservations'[i] = e
      /\ \A j \in DOMAIN reservations \ {i} : reservations'[j] = reservations[j]
  BY DEF SeatTaken
<1>2. TablesExist'
  <2>1. TablesExist /\ (e.table # NoTable => IsTable(e.table))
    BY DEF SeatInv, References, SeatTaken
  <2> QED
    BY <1>1, <2>1 DEF TablesExist, IsTable
<1>3. RoomsExist'
  BY <1>1 DEF SeatInv, References, RoomsExist, LiveTables, IsRoom
<1>4. PartyFits'
  <2>1. e.status = "confirmed" /\ e.table # NoTable => tables[e.table].capacity >= e.party
    BY DEF SeatTaken
  <2> QED
    BY <1>1, <2>1 DEF SeatInv, PartyFits, Confirmed
<1>5. ASSUME NEW j \in DOMAIN reservations \ {i},
             e.status = "confirmed", Confirmed(j),
             reservations[j].table = e.table, e.table # NoTable
      PROVE  ~Near(reservations[j].at, e.at) /\ ~Near(e.at, reservations[j].at)
  <2>1. ~Near(reservations[j].at, e.at)
    BY <1>5 DEF SeatTaken
  <2>2. reservations[j] \in Reservation
    BY DEF SeatInv, TypeOK
  <2>3. reservations[j].at \in Times /\ e.at \in Times
    BY <2>2 DEF Reservation
  <2> QED
    BY <2>1, <2>3, NearSymmetric
<1>6. NoDoubleBooking'
  <2> SUFFICES ASSUME NEW j \in DOMAIN reservations', NEW k \in DOMAIN reservations',
                      j # k, Confirmed(j)', Confirmed(k)',
                      reservations'[j].table = reservations'[k].table,
                      reservations'[j].table # NoTable
               PROVE  ~Near(reservations'[j].at, reservations'[k].at)
    BY DEF NoDoubleBooking, Near
  <2>1. CASE j = i
    BY <1>1, <1>5, <2>1 DEF Confirmed
  <2>2. CASE k = i
    BY <1>1, <1>5, <2>2 DEF Confirmed
  <2>3. CASE j # i /\ k # i
    BY <1>1, <2>3 DEF SeatInv, NoDoubleBooking, Confirmed
  <2> QED
    BY <2>1, <2>2, <2>3
<1> QED
  BY <1>2, <1>3, <1>4, <1>6 DEF References

\* The requests about reservations keep the seats.
LEMMA ReservationKeepsSeats ==
    ASSUME SeatInv, ReservationRequest
    PROVE  References' /\ PartyFits' /\ NoDoubleBooking'
<1>a. TypeOK
  BY DEF SeatInv
<1>b. DOMAIN tables \subseteq TableIds
  BY <1>a, BookingsAssumption DEF TypeOK, TableIds
<1>c. /\ \A i \in DOMAIN reservations : i # 0 /\ reservations[i] \in Reservation
      /\ DOMAIN reservations = 1..Len(reservations) /\ Len(reservations) \in Nat
      /\ Len(reservations) + 1 \notin DOMAIN reservations
  BY <1>a DEF TypeOK
<1>1. ASSUME NEW p \in Parties, NEW at \in Times, NEW requested \in TableIds \cup {NoTable},
             CreateReservation(p, at, requested)
      PROVE  References' /\ PartyFits' /\ NoDoubleBooking'
  <2>1. PICK t \in Resolve(requested, p, at, 0) : InsertReservation(p, at, t)
    BY <1>1 DEF CreateReservation
  <2>2. Fits(t, p, at, 0)
    BY <2>1, ResolveFits
  <2> DEFINE e == [party |-> p, at |-> at, table |-> t, status |-> "confirmed"]
             i == Len(reservations) + 1
  <2>3. e \in Reservation
    BY <1>b, <2>2 DEF Reservation, Fits, IsTable
  <2>4. reservations' = Append(reservations, e) /\ UNCHANGED <<rooms, tables>>
    BY <2>1 DEF InsertReservation
  <2>5. /\ DOMAIN reservations' = DOMAIN reservations \cup {i}
        /\ reservations'[i] = e
        /\ \A j \in DOMAIN reservations \ {i} : reservations'[j] = reservations[j]
    <3> HIDE DEF e
    <3> QED
      BY <1>a, <2>3, <2>4, AppendedRow DEF TypeOK
  <2>6. \A j \in DOMAIN reservations \ {i} :
           Confirmed(j) /\ reservations[j].table = t => ~Near(reservations[j].at, at)
    BY <1>c, <2>2 DEF Fits, Conflict
  <2>7. SeatTaken(i, e)
    BY <2>2, <2>4, <2>5, <2>6 DEF SeatTaken, Fits
  <2> QED
    BY <2>3, <2>7, SeatTakenKeeps
<1>2. ASSUME NEW i \in DOMAIN reservations, NEW p \in Parties \cup {Keep},
             NEW at \in Times \cup {Keep}, NEW requested \in TableIds \cup {NoTable, Keep},
             UpdateReservation(i, p, at, requested)
      PROVE  References' /\ PartyFits' /\ NoDoubleBooking'
  <2>1. PICK t \in TableFor(i, p, at, requested) : WriteReservation(i, p, at, t)
    BY <1>2 DEF UpdateReservation
  <2> DEFINE r == reservations[i]
             e == [r EXCEPT !.party = Given(p, @), !.at = Given(at, @), !.table = t]
  <2>2. Fits(t, Given(p, r.party), Given(at, r.at), i)
    BY <2>1, TableForFits
  <2>3. Given(p, r.party) \in Parties /\ Given(at, r.at) \in Times
    BY <1>c, GivenType DEF Reservation
  <2>4. t \in TableIds
    BY <1>b, <2>2 DEF Fits, IsTable
  <2>5. /\ e \in Reservation /\ e.table = t
        /\ e.party = Given(p, r.party) /\ e.at = Given(at, r.at)
    BY <1>c, <2>3, <2>4 DEF Reservation
  <2>6. reservations' = [reservations EXCEPT ![i] = e] /\ UNCHANGED <<rooms, tables>>
    BY <2>1 DEF WriteReservation
  <2>7. /\ DOMAIN reservations' = DOMAIN reservations \cup {i}
        /\ reservations'[i] = e
        /\ \A j \in DOMAIN reservations \ {i} : reservations'[j] = reservations[j]
    <3> HIDE DEF e
    <3> QED
      BY <1>a, <2>6 DEF TypeOK
  <2>8. SeatTaken(i, e)
    <3> HIDE DEF e
    <3> QED
      BY <2>2, <2>5, <2>6, <2>7 DEF SeatTaken, Fits, Conflict
  <2> QED
    BY <2>5, <2>8, SeatTakenKeeps
<1>3. ASSUME NEW i \in DOMAIN reservations, CancelReservation(i)
      PROVE  References' /\ PartyFits' /\ NoDoubleBooking'
  <2> DEFINE e == [reservations[i] EXCEPT !.status = "cancelled"]
  <2>1. /\ e \in Reservation /\ e.status = "cancelled"
        /\ e.table = reservations[i].table
    BY <1>c DEF Reservation
  <2>2. reservations' = [reservations EXCEPT ![i] = e] /\ UNCHANGED <<rooms, tables>>
    BY <1>3 DEF CancelReservation, WriteCancelled
  <2>3. e.table # NoTable => IsTable(e.table)
    BY <2>1 DEF SeatInv, References, TablesExist
  <2>4. SeatTaken(i, e)
    <3> HIDE DEF e
    <3> QED
      BY <1>a, <2>1, <2>2, <2>3 DEF SeatTaken, TypeOK
  <2> QED
    BY <2>1, <2>4, SeatTakenKeeps
<1>4. ASSUME NEW p \in Parties, NEW at \in Times, NEW status \in {"confirmed", "cancelled"},
             SeedReservation(p, at, status)
      PROVE  References' /\ PartyFits' /\ NoDoubleBooking'
  <2> DEFINE e == [party |-> p, at |-> at, table |-> NoTable, status |-> status]
             i == Len(reservations) + 1
  <2>1. e \in Reservation /\ e.table = NoTable
    BY DEF Reservation
  <2>2. reservations' = Append(reservations, e) /\ UNCHANGED <<rooms, tables>>
    BY <1>4 DEF SeedReservation
  <2>3. SeatTaken(i, e)
    <3> HIDE DEF e
    <3> QED
      BY <1>a, <1>c, <2>1, <2>2, AppendedRow DEF SeatTaken, TypeOK
  <2> QED
    BY <2>1, <2>3, SeatTakenKeeps
<1> QED
  BY <1>1, <1>2, <1>3, <1>4 DEF ReservationRequest

-----------------------------------------------------------------------------
(* The seeding scripts                                                     *)

\* A reservation that the script seats gets a table that is free at its turn.
LEMMA BackfilledSeat ==
    ASSUME NEW floor, NEW seats, IsBackfill(floor, seats),
           NEW i \in Unassigned, seats[i] # NoTable
    PROVE  seats[i] \in FreeSeats(floor, seats, i)
BY DEF IsBackfill

\* seed_tables.py gives no table twice, also not two reservations that it
\* seats in the same run, and none that does not exist or is too small.
LEMMA SeedTablesKeepsSeats ==
    ASSUME SeatInv, SeedTables
    PROVE  References' /\ PartyFits' /\ NoDoubleBooking'
<1>a. TypeOK /\ TablesExist /\ RoomsExist /\ PartyFits /\ NoDoubleBooking
  BY DEF SeatInv, References
<1>b. PICK seats \in [Unassigned -> TableIds \cup {NoTable}] :
         IsBackfill(EnsuredTables, seats) /\ reservations' = Assigned(seats)
  BY DEF SeedTables
<1>c. tables' = EnsuredTables /\ UNCHANGED rooms
  BY DEF SeedTables
<1>d. /\ DOMAIN reservations' = DOMAIN reservations
      /\ \A i \in DOMAIN reservations :
            /\ reservations'[i].party = reservations[i].party
            /\ reservations'[i].at = reservations[i].at
            /\ reservations'[i].status = reservations[i].status
            /\ reservations'[i].table = IF i \in Unassigned THEN seats[i]
                                                            ELSE reservations[i].table
  BY <1>a, <1>b, AssignedRows
<1>e. \A t : IsTable(t) => t \in DOMAIN tables' /\ tables'[t] = tables[t] /\ tables'[t] # Gone
  BY <1>a, <1>c, EnsuredTablesKeep DEF IsTable
<1>f. ASSUME NEW i \in Unassigned, seats[i] # NoTable
      PROVE  /\ seats[i] \in DOMAIN tables' /\ tables'[seats[i]] # Gone
             /\ tables'[seats[i]].capacity >= reservations[i].party
             /\ \A j \in Usage(seats, i, seats[i]) : ~Near(reservations[j].at, reservations[i].at)
  <2>1. seats[i] \in FreeSeats(tables', seats, i)
    BY <1>b, <1>c, <1>f, BackfilledSeat
  <2> QED
    BY <2>1 DEF FreeSeats
<1>1. TablesExist'
  <2> SUFFICES ASSUME NEW i \in DOMAIN reservations, reservations'[i].table # NoTable
               PROVE  IsTable(reservations[i].table)'
    BY <1>d DEF TablesExist
  <2>1. CASE i \in Unassigned
    BY <1>d, <1>f, <2>1 DEF IsTable
  <2>2. CASE i \notin Unassigned
    BY <1>a, <1>d, <1>e, <2>2 DEF TablesExist, IsTable
  <2> QED
    BY <2>1, <2>2
<1>2. RoomsExist'
  <2> SUFFICES ASSUME NEW t \in DOMAIN EnsuredTables, EnsuredTables[t] # Gone,
                      EnsuredTables[t].room # NoRoom
               PROVE  IsRoom(EnsuredTables[t].room)
    BY <1>c DEF RoomsExist, LiveTables, IsRoom
  <2>1. t \in DOMAIN tables /\ EnsuredTables[t] = tables[t]
    BY <1>a, EnsuredTablesKeep
  <2> QED
    BY <1>a, <2>1 DEF RoomsExist, LiveTables
<1>3. PartyFits'
  <2> SUFFICES ASSUME NEW i \in DOMAIN reservations, reservations[i].status = "confirmed",
                      reservations'[i].table # NoTable
               PROVE  tables'[reservations'[i].table].capacity >= reservations[i].party
    BY <1>d DEF PartyFits, Confirmed
  <2>1. CASE i \in Unassigned
    BY <1>d, <1>f, <2>1
  <2>2. CASE i \notin Unassigned
    BY <1>a, <1>d, <1>e, <2>2 DEF TablesExist, PartyFits, Confirmed
  <2> QED
    BY <2>1, <2>2
<1>4. ASSUME NEW i \in Unassigned, seats[i] # NoTable,
             NEW j \in DOMAIN reservations, Confirmed(j), reservations'[j].table = seats[i],
             j \in Unassigned => Earlier(j, i)
      PROVE  ~Near(reservations[j].at, reservations[i].at)
  <2>1. j \in Usage(seats, i, seats[i])
    BY <1>4, <1>d DEF Usage
  <2> QED
    BY <1>4, <1>f, <2>1
<1>5. \A i, j \in DOMAIN reservations :
         /\ reservations[i].at \in Times /\ i \in Nat
         /\ Near(reservations[i].at, reservations[j].at)
               <=> Near(reservations[j].at, reservations[i].at)
  <2>1. \A i \in DOMAIN reservations : reservations[i] \in Reservation /\ i \in Nat
    BY <1>a DEF TypeOK
  <2>2. \A i \in DOMAIN reservations : reservations[i].at \in Times /\ i \in Nat
    BY <2>1 DEF Reservation
  <2> QED
    BY <2>2, NearSymmetric
<1>6. ASSUME NEW i \in DOMAIN reservations, NEW j \in DOMAIN reservations, i # j
      PROVE  Earlier(i, j) \/ Earlier(j, i)
  <2>1. /\ i \in Nat /\ j \in Nat
        /\ reservations[i].at \in Int /\ reservations[j].at \in Int
    BY <1>5, BookingsAssumption
  <2> QED
    BY <1>6, <2>1 DEF Earlier
<1>7. NoDoubleBooking'
  <2> SUFFICES ASSUME NEW i \in DOMAIN reservations, NEW j \in DOMAIN reservations,
                      i # j, Confirmed(i), Confirmed(j),
                      reservations'[i].table = reservations'[j].table,
                      reservations'[i].table # NoTable
               PROVE  ~Near(reservations[i].at, reservations[j].at)
    BY <1>d DEF NoDoubleBooking, Confirmed, Near
  <2>1. CASE i \notin Unassigned /\ j \notin Unassigned
    BY <1>a, <1>d, <2>1 DEF NoDoubleBooking
  <2>2. CASE j \in Unassigned /\ (i \in Unassigned => Earlier(i, j))
    <3>1. seats[j] = reservations'[j].table
      BY <1>d, <2>2
    <3> QED
      BY <1>4, <2>2, <3>1
  <2>3. CASE i \in Unassigned /\ (j \in Unassigned => Earlier(j, i))
    <3>1. seats[i] = reservations'[i].table
      BY <1>d, <2>3
    <3> QED
      BY <1>4, <1>5, <2>3, <3>1
  <2> QED
    BY <1>6, <2>1, <2>2, <2>3
<1> QED
  BY <1>1, <1>2, <1>3, <1>7 DEF References

\* seed_rooms.py moves no table out of the house and changes no capacity.
LEMMA SeedRoomsKeepsSeats ==
    ASSUME SeatInv, SeedRooms
    PROVE  References' /\ PartyFits' /\ NoDoubleBooking'
<1>a. TypeOK /\ TablesExist /\ RoomsExist /\ PartyFits /\ NoDoubleBooking
  BY DEF SeatInv, References
<1>b. PICK plan \in [PlannedTables -> OpenRooms] : tables' = Roomed(plan)
  BY DEF SeedRooms
<1>c. rooms' = EnsuredRooms /\ UNCHANGED reservations /\ Len(EnsuredRooms) <= MaxRooms
  BY DEF SeedRooms
<1>d. /\ DOMAIN tables' = DOMAIN tables
      /\ \A t \in DOMAIN tables :
            \/ tables'[t] = tables[t]
            \/ /\ tables[t] # Gone /\ tables'[t] # Gone
               /\ tables'[t].capacity = tables[t].capacity
               /\ tables'[t].room \in OpenRooms
  BY <1>a, <1>b, <1>c, OpenRoomsTyped, RoomedTables, TableNotGone
<1>e. \A m : m \in OpenRooms => IsRoom(m)'
  BY <1>c, Zenon DEF OpenRooms, IsRoom
<1>1. TablesExist'
  BY <1>a, <1>c, <1>d DEF TablesExist, IsTable
<1>2. RoomsExist'
  <2> SUFFICES ASSUME NEW t \in DOMAIN tables', tables'[t] # Gone, tables'[t].room # NoRoom
               PROVE  IsRoom(tables[t].room)'
    BY DEF RoomsExist, LiveTables
  <2>1. CASE tables'[t] = tables[t]
    <3>1. IsRoom(tables[t].room)
      BY <1>a, <1>d, <2>1 DEF RoomsExist, LiveTables
    <3>2. tables[t].room \in OpenRooms
      BY <1>a, <3>1, EnsuredRoomsKeep DEF OpenRooms
    <3> QED
      BY <1>e, <2>1, <3>2, Zenon
  <2>2. CASE tables'[t] # tables[t]
    <3>1. tables'[t].room \in OpenRooms
      BY <1>d, <2>2
    <3> QED
      BY <1>e, <3>1, Zenon
  <2> QED
    BY <2>1, <2>2
<1>3. PartyFits'
  <2> SUFFICES ASSUME NEW i \in DOMAIN reservations, Confirmed(i),
                      reservations[i].table # NoTable
               PROVE  tables'[reservations[i].table].capacity >= reservations[i].party
    BY <1>c DEF PartyFits, Confirmed
  <2>1. /\ reservations[i].table \in DOMAIN tables
        /\ tables[reservations[i].table].capacity >= reservations[i].party
    BY <1>a DEF TablesExist, PartyFits, IsTable
  <2> QED
    BY <1>d, <2>1
<1>4. NoDoubleBooking'
  BY <1>a, <1>c DEF NoDoubleBooking, Confirmed, Near
<1> QED
  BY <1>1, <1>2, <1>3, <1>4 DEF References

-----------------------------------------------------------------------------
(* Theorems                                                                *)

\* SeatInv is inductive: the four parts hold together of every reachable floor.
LEMMA SeatInit == Init => SeatInv
<1>1. Init => TypeOK
  BY BookingsAssumption DEF Init, TypeOK
<1>2. Init => References /\ PartyFits /\ NoDoubleBooking
  BY DEF Init, References, TablesExist, RoomsExist, LiveTables, PartyFits, NoDoubleBooking
<1> QED
  BY <1>1, <1>2 DEF SeatInv

LEMMA SeatStep ==
    ASSUME SeatInv, [Next]_bookingVars
    PROVE  SeatInv'
<1>1. ASSUME UNCHANGED bookingVars
      PROVE  SeatInv'
  BY <1>1 DEF SeatInv, bookingVars, TypeOK, References, TablesExist, RoomsExist,
              LiveTables, IsTable, IsRoom, PartyFits, NoDoubleBooking, Confirmed, Near
<1>2. ASSUME FloorRequest
      PROVE  SeatInv'
  <2>1. TypeOK' /\ References' /\ PartyFits'
    BY <1>2, FloorTyped, FloorKeepsHeldTables, FloorKeepsRooms DEF SeatInv, References
  <2>2. NoDoubleBooking'
    BY <1>2, FloorSparesReservations DEF SeatInv, NoDoubleBooking, Confirmed, Near
  <2> QED
    BY <2>1, <2>2 DEF SeatInv
<1>3. ASSUME ReservationRequest
      PROVE  SeatInv'
  BY <1>3, ReservationTyped, ReservationKeepsSeats DEF SeatInv
<1>4. ASSUME SeedTables \/ SeedRooms
      PROVE  SeatInv'
  BY <1>4, ScriptTyped, SeedTablesKeepsSeats, SeedRoomsKeepsSeats DEF SeatInv
<1> QED
  BY <1>1, <1>2, <1>3, <1>4 DEF Next

LEMMA Seated == Spec => []SeatInv
BY SeatInit, SeatStep, PTL DEF Spec

\* Requests served one at a time never double-book a table, however bookings
\* are made, moved, pinned, cancelled, seeded and patched after cancellation
\* (crud.py: table_has_conflict, _resolve_table_for and their callers).
THEOREM NeverDoubleBooked == Spec => []NoDoubleBooking
BY Seated, PTL DEF SeatInv

\* A confirmed party always fits its table: bookings, moves to another table,
\* larger parties and shrunk tables are all checked (crud.py).
THEOREM PartiesFit == Spec => []PartyFits
BY Seated, PTL DEF SeatInv

\* A table that was in use at the turn of a reservation is in use after the run.
LEMMA UsageStays ==
    ASSUME TypeOK, NEW seats \in [Unassigned -> TableIds \cup {NoTable}],
           reservations' = Assigned(seats),
           NEW i \in Unassigned, NEW t, NEW j \in Usage(seats, i, t)
    PROVE  /\ j \in DOMAIN reservations' /\ j # i
           /\ Confirmed(j)'
           /\ reservations'[j].table = t
           /\ reservations'[j].at = reservations[j].at
<1>1. j \in DOMAIN reservations /\ Confirmed(j)
  BY DEF Usage
<1>2. j # i
  <2>1. ASSUME j = i
        PROVE  FALSE
    <3>1. Earlier(i, i)
      BY <2>1 DEF Usage
    <3>2. reservations[i] \in Reservation /\ i \in Nat
      BY DEF TypeOK, Unassigned
    <3>3. reservations[i].at \in Int
      BY <3>2, BookingsAssumption DEF Reservation
    <3> QED
      BY <3>1, <3>2, <3>3 DEF Earlier
  <2> QED
    BY <2>1
<1>3. /\ DOMAIN reservations' = DOMAIN reservations
      /\ reservations'[j].at = reservations[j].at
      /\ reservations'[j].status = reservations[j].status
      /\ reservations'[j].table = IF j \in Unassigned THEN seats[j] ELSE reservations[j].table
  BY <1>1, AssignedRows
<1>4. reservations'[j].table = t
  BY <1>3 DEF Usage
<1> QED
  BY <1>1, <1>2, <1>3, <1>4 DEF Confirmed

\* seed_tables.py leaves nobody standing: what was not free at a reservation's
\* turn is not free at the end, since later turns only take tables.
THEOREM NobodyLeftStanding == Spec => SeedingComplete
<1>1. ASSUME SeatInv, SeedTables, NEW i \in Unassigned'
      PROVE  AutoAssign(reservations[i].party, reservations[i].at, i)' = {}
  <2>1. TypeOK
    BY <1>1 DEF SeatInv
  <2>2. PICK seats \in [Unassigned -> TableIds \cup {NoTable}] :
           IsBackfill(EnsuredTables, seats) /\ reservations' = Assigned(seats)
    BY <1>1 DEF SeedTables
  <2>3. tables' = EnsuredTables
    BY <1>1 DEF SeedTables
  <2>4. /\ DOMAIN reservations' = DOMAIN reservations
        /\ \A j \in DOMAIN reservations :
              /\ reservations'[j].party = reservations[j].party
              /\ reservations'[j].at = reservations[j].at
              /\ reservations'[j].status = reservations[j].status
              /\ reservations'[j].table = IF j \in Unassigned THEN seats[j]
                                                              ELSE reservations[j].table
    BY <2>1, <2>2, AssignedRows
  <2>5. i \in Unassigned /\ seats[i] = NoTable
    BY <1>1, <2>4 DEF Unassigned, Confirmed
  <2>6. FreeSeats(tables', seats, i) = {}
    <3>1. NoTable \notin DOMAIN tables'
      <4>1. DOMAIN EnsuredTables \subseteq Nat
        BY <2>1, EnsuredTablesKeep
      <4> QED
        BY <2>3, <4>1, BookingsAssumption
    <3>2. NoTable \notin FreeSeats(tables', seats, i)
      BY <3>1 DEF FreeSeats
    <3> QED
      BY <2>2, <2>3, <2>5, <3>2 DEF IsBackfill
  <2>7. ASSUME NEW t, Fits(t, reservations[i].party, reservations[i].at, i)'
        PROVE  FALSE
    <3>1. t \in DOMAIN tables' /\ tables'[t] # Gone
      BY <2>7 DEF Fits, IsTable
    <3>2. tables'[t].capacity >= reservations[i].party
      BY <2>4, <2>5, <2>7 DEF Fits, Unassigned
    <3>3. ~ \A j \in Usage(seats, i, t) : ~Near(reservations[j].at, reservations[i].at)
      BY <2>6, <3>1, <3>2 DEF FreeSeats
    <3>4. PICK j \in Usage(seats, i, t) : Near(reservations[j].at, reservations[i].at)
      BY <3>3
    <3>5. /\ j \in DOMAIN reservations' /\ j # i /\ Confirmed(j)'
          /\ reservations'[j].table = t /\ reservations'[j].at = reservations[j].at
      BY <2>1, <2>2, <2>5, UsageStays
    <3>6. Near(reservations[j].at, reservations[i].at)'
      BY <2>4, <2>5, <3>4, <3>5 DEF Near, Unassigned
    <3>7. ~Conflict(t, reservations[i].at, i)'
      BY <2>7 DEF Fits
    <3> QED
      BY <3>5, <3>6, <3>7 DEF Conflict, Confirmed, Near
  <2> QED
    BY <2>7 DEF AutoAssign
<1>2. SeatInv /\ [Next]_bookingVars =>
         [SeedTables => \A i \in Unassigned' :
             AutoAssign(reservations[i].party, reservations[i].at, i)' = {}]_bookingVars
  BY <1>1
<1> QED
  BY <1>2, Seated, PTL DEF Spec, SeedingComplete

\* No reservation names a deleted table and no table a deleted room (crud.py:
\* the guards of delete_table and delete_room, and the checks on room_id).
THEOREM NothingDangles == Spec => []References
BY Seated, PTL DEF SeatInv

-----------------------------------------------------------------------------
(* The choice of a table                                                   *)

LessThan == {ss \in Nat \X Nat : ss[1] < ss[2]}

LEMMA LessThanWellFounded == IsWellFoundedOn(LessThan, Nat)
BY NatLessThanWellFounded DEF OpToRel, LessThan

\* A set of numbers that is not empty has a least one.
LEMMA Least ==
    ASSUME NEW S \in SUBSET Nat, S # {}
    PROVE  \E n \in S : \A k \in S : n <= k
<1>1. PICK n \in S : \A k \in S : ~(<<k, n>> \in LessThan)
  BY LessThanWellFounded, WFMin
<1>2. ASSUME NEW k \in S PROVE n <= k
  <2>1. ~(<<k, n>> \in LessThan)
    BY <1>1
  <2>2. n \in Nat /\ k \in Nat
    OBVIOUS
  <2>3. ~(k < n)
    BY <2>1, <2>2 DEF LessThan
  <2> QED BY <2>2, <2>3
<1> QED BY <1>2

LEMMA LoadIsNumber ==
    ASSUME TypeOK, NEW t
    PROVE  Load(t) \in Nat
<1> DEFINE held == {i \in DOMAIN reservations : reservations[i].table = t /\ Confirmed(i)}
<1>1. DOMAIN reservations = 1..Len(reservations) /\ Len(reservations) \in Nat
  BY RowsTyped
<1>2. IsFiniteSet(1..Len(reservations))
  BY <1>1, FS_Interval
<1>3. held \subseteq 1..Len(reservations)
  BY <1>1
<1>4. IsFiniteSet(held)
  BY <1>2, <1>3, FS_Subset
<1>5. Cardinality(held) \in Nat
  BY <1>4, FS_CardinalityType
<1> QED
  BY <1>5 DEF Load

\* ORDER BY capacity, load, id has a first row: among tables that are free there
\* is one that is better than all the others.
LEMMA BestTable ==
    ASSUME TypeOK, NEW free \in SUBSET LiveTables, free # {}
    PROVE  \E t \in free : \A u \in free \ {t} : Better(t, u)
<1>1. /\ \A t \in free : t \in Nat /\ tables[t].capacity \in Nat /\ Load(t) \in Nat
  <2> SUFFICES ASSUME NEW t \in free
               PROVE  t \in Nat /\ tables[t].capacity \in Nat /\ Load(t) \in Nat
    OBVIOUS
  <2>1. t \in DOMAIN tables /\ tables[t] # Gone
    BY DEF LiveTables
  <2>2. t \in Nat /\ tables[t] \in Table
    BY <2>1 DEF TypeOK
  <2>3. tables[t].capacity \in Nat
    BY <2>2, BookingsAssumption DEF Table
  <2> QED
    BY <2>2, <2>3, LoadIsNumber
<1> DEFINE caps == {tables[t].capacity : t \in free}
<1>2. PICK c \in caps : \A k \in caps : c <= k
  <2>1. caps \in SUBSET Nat /\ caps # {}
    BY <1>1
  <2> HIDE DEF caps
  <2> QED
    BY <2>1, Least
<1> DEFINE smallest == {t \in free : tables[t].capacity = c}
           loads == {Load(t) : t \in smallest}
<1>3. PICK l \in loads : \A k \in loads : l <= k
  <2>1. loads \in SUBSET Nat /\ loads # {}
    BY <1>1
  <2> HIDE DEF loads
  <2> QED
    BY <2>1, Least
<1> DEFINE idlest == {t \in smallest : Load(t) = l}
<1>4. PICK t \in idlest : \A k \in idlest : t <= k
  <2>1. idlest \in SUBSET Nat /\ idlest # {}
    BY <1>1
  <2> HIDE DEF idlest
  <2> QED
    BY <2>1, Least
<1>5. ASSUME NEW u \in free \ {t} PROVE Better(t, u)
  <2>1. t \in free /\ tables[t].capacity = c /\ Load(t) = l
    BY <1>4
  <2>2. c <= tables[u].capacity
    BY <1>2
  <2>3. tables[u].capacity = c => l <= Load(u)
    BY <1>3
  <2>4. tables[u].capacity = c /\ Load(u) = l => t <= u
    BY <1>4
  <2>5. /\ t \in Nat /\ u \in Nat /\ tables[u].capacity \in Nat /\ Load(u) \in Nat
        /\ tables[t].capacity \in Nat /\ Load(t) \in Nat
    BY <1>1, <2>1
  <2> HIDE DEF caps, loads, idlest, smallest
  <2> QED
    BY <2>1, <2>2, <2>3, <2>4, <2>5 DEF Better
<1> QED
  BY <1>4, <1>5

LEMMA AvailabilityOf ==
    ASSUME TypeOK
    PROVE  AvailabilityHonest
<1> SUFFICES ASSUME NEW p \in Parties, NEW at \in Times
             PROVE  LET listed == AvailableTables(p, at)
                        chosen == Resolve(NoTable, p, at, 0)
                    IN  /\ \A t \in TableIds : t \in listed <=> Resolve(t, p, at, 0) # {}
                        /\ listed = {} <=> chosen = {}
                        /\ \A t \in chosen, u \in listed :
                              tables[t].capacity <= tables[u].capacity
  BY DEF AvailabilityHonest
<1> DEFINE listed == AvailableTables(p, at)
           chosen == Resolve(NoTable, p, at, 0)
<1>1. listed = {t \in LiveTables : Fits(t, p, at, 0)}
  BY DEF AvailableTables, LiveTables, Fits, IsTable
<1>2. chosen = {t \in listed : \A u \in listed \ {t} : Better(t, u)}
  BY <1>1 DEF Resolve, AutoAssign
<1>3. ASSUME NEW t \in TableIds
      PROVE  t \in listed <=> Resolve(t, p, at, 0) # {}
  <2>1. t # NoTable
    BY BookingsAssumption DEF TableIds
  <2>2. Fits(t, p, at, 0) => t \in LiveTables
    BY DEF Fits, IsTable, LiveTables
  <2>3. Resolve(t, p, at, 0) # {} <=> Fits(t, p, at, 0)
    BY <2>1 DEF Resolve
  <2> QED
    BY <1>1, <2>2, <2>3
<1>4. listed = {} <=> chosen = {}
  <2>1. listed \in SUBSET LiveTables
    BY <1>1
  <2> HIDE DEF listed
  <2> QED
    BY <1>2, <2>1, BestTable
<1>5. ASSUME NEW t \in chosen, NEW u \in listed
      PROVE  tables[t].capacity <= tables[u].capacity
  <2>1. t \in LiveTables /\ u \in LiveTables
    BY <1>1, <1>2
  <2>2. tables[t].capacity \in Nat /\ tables[u].capacity \in Nat
    <3>1. tables[t] \in Table /\ tables[u] \in Table
      BY <2>1 DEF LiveTables, TypeOK
    <3> QED
      BY <3>1, BookingsAssumption DEF Table
  <2>3. t = u \/ Better(t, u)
    BY <1>2
  <2> HIDE DEF listed, chosen
  <2> QED
    BY <2>2, <2>3 DEF Better
<1> QED
  BY <1>3, <1>4, <1>5

\* GET /tables/available and the assignment of POST /reservations agree: what is
\* listed can be booked, the automatic choice is among the smallest, and there
\* is one whenever something is listed (find_all_available_tables and
\* find_available_table of crud.py).
THEOREM AvailabilityIsHonest == Spec => []AvailabilityHonest
<1>1. SeatInv => AvailabilityHonest
  BY AvailabilityOf DEF SeatInv
<1> QED
  BY <1>1, Seated, PTL

\* A reservation that is sent again as it is keeps its table: the row itself is
\* left out of the search for a conflict (crud.py: exclude_id).
THEOREM ResubmittingKeepsTable == Spec => []ResubmitKeepsTable
<1>1. ASSUME SeatInv, NEW i \in DOMAIN reservations, Confirmed(i),
             reservations[i].table # NoTable
      PROVE  TableFor(i, reservations[i].party, reservations[i].at, Keep)
                = {reservations[i].table}
  <2> DEFINE r == reservations[i]
  <2>1. r \in Reservation /\ \A j \in DOMAIN reservations : reservations[j] \in Reservation
    BY <1>1, RowsTyped DEF SeatInv
  <2>2. /\ Given(Keep, r.table) = r.table
        /\ Given(r.party, r.party) = r.party /\ Given(r.at, r.at) = r.at
    BY DEF Given
  <2>3. Fits(r.table, r.party, r.at, i)
    <3>1. IsTable(r.table) /\ tables[r.table].capacity >= r.party
      BY <1>1 DEF SeatInv, References, TablesExist, PartyFits
    <3>2. ASSUME NEW j \in DOMAIN reservations \ {i}, reservations[j].table = r.table,
                 Confirmed(j)
          PROVE  ~Near(reservations[j].at, r.at)
      BY <1>1, <3>2 DEF SeatInv, NoDoubleBooking
    <3> QED
      BY <3>1, <3>2 DEF Fits, Conflict
  <2>4. Resolve(r.table, r.party, r.at, i) = {r.table}
    BY <1>1, <2>3 DEF Resolve
  <2> QED
    BY <2>2, <2>4 DEF TableFor
<1>2. SeatInv => ResubmitKeepsTable
  BY <1>1 DEF ResubmitKeepsTable
<1> QED
  BY <1>2, Seated, PTL

-----------------------------------------------------------------------------
(* What customers are told                                                 *)

Told(i) ==
    LET old == reservations[i]  new == reservations'[i] IN
    /\ old.status # new.status =>
          issued' = <<Issue("cancelled", i, old.at), Issue("drop_reminders", i, old.at)>>
    /\ (\/ <<old.party, old.at>> # <<new.party, new.at>>
        \/ old.table \notin {NoTable, new.table}) =>
          issued' # <<>> /\ Head(issued') = Issue("updated", i, new.at)
    /\ old.at # new.at =>
          Tail(issued') = <<Issue("drop_reminders", i, new.at), Issue("reminder", i, new.at)>>

\* Nobody needs to be told of a row that stays.
LEMMA NothingToTell ==
    ASSUME NEW i, reservations'[i] = reservations[i]
    PROVE  Told(i)
BY DEF Told

LEMMA UpdateTells ==
    ASSUME TypeOK, NEW i \in DOMAIN reservations, NEW p, NEW at, NEW t,
           WriteReservation(i, p, at, t)
    PROVE  Told(i)
<1> DEFINE e == [reservations[i] EXCEPT
                    !.party = Given(p, @), !.at = Given(at, @), !.table = t]
<1>1. reservations[i] \in Reservation
  BY RowsTyped
<1>2. /\ e.party = Given(p, reservations[i].party)
      /\ e.at = Given(at, reservations[i].at)
      /\ e.status = reservations[i].status
  BY <1>1 DEF Reservation
<1>3. reservations' = [reservations EXCEPT ![i] = e] /\ issued' = UpdateMessages(i, at, e.at)
  BY DEF WriteReservation
<1> HIDE DEF e
<1>4. reservations'[i] = e
  BY <1>3 DEF TypeOK
<1>5. at = Keep => e.at = reservations[i].at
  BY <1>2 DEF Given
<1>6. CASE at = Keep
  <2>1. issued' = <<Issue("updated", i, e.at)>>
    BY <1>3, <1>6 DEF UpdateMessages
  <2>2. issued' # <<>> /\ Head(issued') = Issue("updated", i, e.at)
    BY <2>1
  <2> QED
    BY <1>2, <1>4, <1>5, <1>6, <2>2 DEF Told
<1>7. CASE at # Keep
  <2>1. issued' = <<Issue("updated", i, e.at), Issue("drop_reminders", i, e.at),
                    Issue("reminder", i, e.at)>>
    BY <1>3, <1>7 DEF UpdateMessages
  <2>2. /\ issued' # <<>> /\ Head(issued') = Issue("updated", i, e.at)
        /\ Tail(issued') = <<Issue("drop_reminders", i, e.at), Issue("reminder", i, e.at)>>
    BY <2>1
  <2> QED
    BY <1>2, <1>4, <2>2 DEF Told
<1> QED
  BY <1>6, <1>7

LEMMA CancelTells ==
    ASSUME TypeOK, NEW i \in DOMAIN reservations, WriteCancelled(i)
    PROVE  Told(i)
<1> DEFINE e == [reservations[i] EXCEPT !.status = "cancelled"]
<1>1. reservations[i] \in Reservation
  BY RowsTyped
<1>2. /\ e.party = reservations[i].party /\ e.at = reservations[i].at
      /\ e.table = reservations[i].table
  BY <1>1 DEF Reservation
<1>3. reservations' = [reservations EXCEPT ![i] = e] /\ issued' = CancelMessages(i)
  BY DEF WriteCancelled
<1> HIDE DEF e
<1>4. reservations'[i] = e
  BY <1>3 DEF TypeOK
<1> QED
  BY <1>2, <1>3, <1>4 DEF Told, CancelMessages

\* An INSERT changes no row that is there.
LEMMA InsertTells ==
    ASSUME TypeOK, NEW e \in Reservation, reservations' = Append(reservations, e)
    PROVE  \A i \in DOMAIN reservations : Told(i)
<1>1. \A i \in DOMAIN reservations : reservations'[i] = reservations[i]
  BY AppendedRow DEF TypeOK
<1> QED
  BY <1>1, NothingToTell

\* The script only gives tables to those who have none.
LEMMA SeedTablesTells ==
    ASSUME TypeOK, SeedTables, NEW i \in DOMAIN reservations
    PROVE  Told(i)
<1>1. PICK seats \in [Unassigned -> TableIds \cup {NoTable}] : reservations' = Assigned(seats)
  BY DEF SeedTables
<1>2. /\ reservations'[i].party = reservations[i].party
      /\ reservations'[i].at = reservations[i].at
      /\ reservations'[i].status = reservations[i].status
      /\ reservations'[i].table = IF i \in Unassigned THEN seats[i] ELSE reservations[i].table
  BY <1>1, AssignedRows
<1>3. i \in Unassigned => reservations[i].table = NoTable
  BY DEF Unassigned
<1> QED
  BY <1>2, <1>3 DEF Told

LEMMA ReservationTells ==
    ASSUME TypeOK, ReservationRequest
    PROVE  \A i \in DOMAIN reservations : Told(i)
<1>1. ASSUME NEW p \in Parties, NEW at \in Times, NEW requested \in TableIds \cup {NoTable},
             CreateReservation(p, at, requested)
      PROVE  \A i \in DOMAIN reservations : Told(i)
  <2>1. PICK t \in Resolve(requested, p, at, 0) : InsertReservation(p, at, t)
    BY <1>1 DEF CreateReservation
  <2> DEFINE e == [party |-> p, at |-> at, table |-> t, status |-> "confirmed"]
  <2>2. t \in TableIds
    BY RowsTyped, <2>1, ResolveFits DEF Fits, IsTable
  <2>3. e \in Reservation /\ reservations' = Append(reservations, e)
    BY <2>1, <2>2 DEF Reservation, InsertReservation
  <2> HIDE DEF e
  <2> QED
    BY <2>3, InsertTells
<1>2. ASSUME NEW i \in DOMAIN reservations, NEW p, NEW at, NEW requested,
             UpdateReservation(i, p, at, requested)
      PROVE  \A j \in DOMAIN reservations : Told(j)
  <2>1. PICK t \in TableFor(i, p, at, requested) : WriteReservation(i, p, at, t)
    BY <1>2 DEF UpdateReservation
  <2>2. \A j \in DOMAIN reservations \ {i} : reservations'[j] = reservations[j]
    BY <2>1 DEF WriteReservation, TypeOK
  <2> QED
    BY <2>1, <2>2, UpdateTells, NothingToTell
<1>3. ASSUME NEW i \in DOMAIN reservations, CancelReservation(i)
      PROVE  \A j \in DOMAIN reservations : Told(j)
  <2>1. \A j \in DOMAIN reservations \ {i} : reservations'[j] = reservations[j]
    BY <1>3 DEF CancelReservation, WriteCancelled, TypeOK
  <2> QED
    BY <1>3, <2>1, CancelTells, NothingToTell DEF CancelReservation
<1>4. ASSUME NEW p \in Parties, NEW at \in Times, NEW status \in {"confirmed", "cancelled"},
             SeedReservation(p, at, status)
      PROVE  \A i \in DOMAIN reservations : Told(i)
  <2> DEFINE e == [party |-> p, at |-> at, table |-> NoTable, status |-> status]
  <2>1. e \in Reservation /\ reservations' = Append(reservations, e)
    BY <1>4 DEF Reservation, SeedReservation
  <2> HIDE DEF e
  <2> QED
    BY <2>1, InsertTells
<1> QED
  BY <1>1, <1>2, <1>3, <1>4 DEF ReservationRequest

\* Whoever's reservation changes is told, with the new time, and the reminder of
\* an old time is dropped before the new one is queued (create_, update_ and
\* cancel_reservation of crud.py); no script and no request about the floor
\* changes a reservation behind its customer's back.
THEOREM CustomersAreTold == Spec => CustomerTold
<1>1. ASSUME SeatInv, [Next]_bookingVars, NEW i \in DOMAIN reservations
      PROVE  Told(i)
  <2>1. CASE UNCHANGED reservations
    BY <2>1, NothingToTell
  <2>2. TypeOK
    BY <1>1 DEF SeatInv
  <2>3. SeedRooms \/ FloorRequest \/ UNCHANGED bookingVars => UNCHANGED reservations
    BY FloorSparesReservations DEF SeedRooms, bookingVars
  <2> QED
    BY <1>1, <2>1, <2>2, <2>3, ReservationTells, SeedTablesTells DEF Next
<1>2. SeatInv /\ [Next]_bookingVars => [\A i \in DOMAIN reservations : Told(i)]_bookingVars
  BY <1>1
<1>3. Spec => [][\A i \in DOMAIN reservations : Told(i)]_bookingVars
  BY <1>2, Seated, PTL DEF Spec
<1>4. (\A i \in DOMAIN reservations : Told(i)) <=>
         \A i \in DOMAIN reservations :
          LET old == reservations[i]  new == reservations'[i] IN
          /\ old.status # new.status =>
                issued' = <<Issue("cancelled", i, old.at), Issue("drop_reminders", i, old.at)>>
          /\ (\/ <<old.party, old.at>> # <<new.party, new.at>>
              \/ old.table \notin {NoTable, new.table}) =>
                issued' # <<>> /\ Head(issued') = Issue("updated", i, new.at)
          /\ old.at # new.at =>
                Tail(issued') = <<Issue("drop_reminders", i, new.at), Issue("reminder", i, new.at)>>
  BY DEF Told
<1> QED
  BY <1>3, <1>4, PTL DEF CustomerTold
=============================================================================
