---------------------------- MODULE RequestThreads ----------------------------
(***************************************************************************)
(* The requests of Bookings as FastAPI runs them: each `def' handler on a  *)
(* thread of a pool, several at once on one SQLite file.                   *)
(*                                                                         *)
(* Python's sqlite3 begins a transaction at the first INSERT, UPDATE or    *)
(* DELETE, so what a handler reads before that is outside of it: the       *)
(* decision may be stale when the write commits.  The write phase is       *)
(* atomic, since the first write takes the database's write lock, and      *)
(* checks nothing but the foreign keys (PRAGMA foreign_keys = ON).         *)
(*                                                                         *)
(* Read phases are one step.  The requests whose check is repeated by a    *)
(* foreign key when they write (deleting a table or a room, creating a     *)
(* table in a room) are one step as well.  SeedTables and SeedRooms are    *)
(* taken to run while no request does, and left out.                       *)
(***************************************************************************)
EXTENDS Bookings

CONSTANTS Threads, NoPlan

ASSUME ThreadsAssumption == IsFiniteSet(Threads)

VARIABLES
    plan,       \* what each thread has decided to write
    seatedFor   \* the time for which the table of each reservation was chosen

threadVars == <<bookingVars, plan, seatedFor>>

\* `slot' is the time for which the table was found free: the `at' of
\* create_reservation, the `new_at' of update_reservation.
Plan ==
    [op : {"create"}, party : Parties, slot : Times, table : TableIds]
    \cup [op : {"update"}, res : ReservationIds, party : Parties \cup {Keep},
          at : Times \cup {Keep}, slot : Times, table : TableIds]
    \cup [op : {"cancel"}, res : ReservationIds]
    \cup [op : {"table"}, table : TableIds, capacity : Capacities \cup {Keep},
          room : RoomIds \cup {NoRoom, Keep}]

ThreadTypeOK ==
    /\ TypeOK
    /\ plan \in [Threads -> Plan \cup {NoPlan}]
    /\ seatedFor \in Seq(Times) /\ Len(seatedFor) = Len(reservations)

ThreadInit ==
    /\ Init
    /\ plan = [th \in Threads |-> NoPlan]
    /\ seatedFor = <<>>

-----------------------------------------------------------------------------
(* The read phase: the checks of the handler, as Bookings has them         *)

Decide(th, p) ==
    /\ plan[th] = NoPlan
    /\ plan' = [plan EXCEPT ![th] = p]
    /\ UNCHANGED <<bookingVars, seatedFor>>

\* Fault: a requested table is taken without looking at it.
CreateReadTrusting(th, party, at, requested) ==
    \E t \in LiveTables \cap {requested} :
        Decide(th, [op |-> "create", party |-> party, slot |-> at, table |-> t])

\* Fault: a party for which no table is free is booked without one.
CreateReadUnseated(th, party, at, requested) ==
    LET found == Resolve(requested, party, at, 0) IN
    \E t \in IF found = {} THEN {NoTable} ELSE found :
        Decide(th, [op |-> "create", party |-> party, slot |-> at, table |-> t])

CreateRead(th, party, at, requested) ==
    \E t \in Resolve(requested, party, at, 0) :
        Decide(th, [op |-> "create", party |-> party, slot |-> at, table |-> t])

UpdateRead(th, i, party, at, requested) ==
    /\ <<party, at, requested>> # <<Keep, Keep, Keep>>
    /\ \E t \in TableFor(i, party, at, requested) :
          Decide(th, [op |-> "update", res |-> i, party |-> party, at |-> at,
                      slot |-> Given(at, reservations[i].at), table |-> t])

CancelRead(th, i) ==
    /\ Confirmed(i)
    /\ Decide(th, [op |-> "cancel", res |-> i])

TableRead(th, t, capacity, room) ==
    /\ IsTable(t)
    /\ <<capacity, room>> # <<Keep, Keep>>
    /\ capacity # Keep => CanShrink(t, capacity)
    /\ room \in {Keep, NoRoom} \/ IsRoom(room)
    /\ Decide(th, [op |-> "table", table |-> t, capacity |-> capacity, room |-> room])

-----------------------------------------------------------------------------
(* The write phase                                                         *)

\* Fault: the connection does not enforce foreign keys.
TableReferableAlways(t) == TRUE

\* The foreign key of reservations.table_id.
TableReferable(t) == IsTable(t)

Finish(th, op) ==
    /\ plan[th] # NoPlan
    /\ plan[th].op = op
    /\ plan' = [plan EXCEPT ![th] = NoPlan]

CreateWrite(th) ==
    /\ Finish(th, "create")
    /\ TableReferable(plan[th].table)
    /\ InsertReservation(plan[th].party, plan[th].slot, plan[th].table)
    /\ seatedFor' = Append(seatedFor, plan[th].slot)

\* Fault: the messages are made from the row that was read, not read again.
UpdateWriteUnread(th) ==
    LET p == plan[th] IN
    /\ Finish(th, "update")
    /\ TableReferable(p.table)
    /\ reservations' = [reservations EXCEPT ![p.res].party = Given(p.party, @),
                           ![p.res].at = Given(p.at, @), ![p.res].table = p.table]
    /\ issued' = UpdateMessages(p.res, p.at, p.slot)
    /\ seatedFor' = [seatedFor EXCEPT ![p.res] = p.slot]
    /\ UNCHANGED <<rooms, tables>>

UpdateWrite(th) ==
    /\ Finish(th, "update")
    /\ TableReferable(plan[th].table)
    /\ WriteReservation(plan[th].res, plan[th].party, plan[th].at, plan[th].table)
    /\ seatedFor' = [seatedFor EXCEPT ![plan[th].res] = plan[th].slot]

CancelWrite(th) ==
    /\ Finish(th, "cancel")
    /\ WriteCancelled(plan[th].res)
    /\ UNCHANGED seatedFor

\* The UPDATE of a table that is gone matches no row.
TableWrite(th) ==
    /\ Finish(th, "table")
    /\ IsTable(plan[th].table)
    /\ plan[th].room \in {Keep, NoRoom} \/ IsRoom(plan[th].room)
    /\ WriteTable(plan[th].table, plan[th].capacity, plan[th].room)
    /\ UNCHANGED seatedFor

\* The write raises ("database is locked", a foreign key) or matches no row.
WriteFails(th) ==
    /\ plan[th] # NoPlan
    /\ plan' = [plan EXCEPT ![th] = NoPlan]
    /\ UNCHANGED <<bookingVars, seatedFor>>

-----------------------------------------------------------------------------

Read(th) ==
    \/ \E p \in Parties, at \in Times, t \in TableIds \cup {NoTable} :
          CreateRead(th, p, at, t)
    \/ \E i \in DOMAIN reservations, p \in Parties \cup {Keep}, at \in Times \cup {Keep},
          t \in TableIds \cup {NoTable, Keep} : UpdateRead(th, i, p, at, t)
    \/ \E i \in DOMAIN reservations : CancelRead(th, i)
    \/ \E t \in TableIds, c \in Capacities \cup {Keep},
          m \in RoomIds \cup {NoRoom, Keep} : TableRead(th, t, c, m)

Write(th) == CreateWrite(th) \/ UpdateWrite(th) \/ CancelWrite(th) \/ TableWrite(th)

\* Requests whose check and write are one step.
FloorStep ==
    /\ \/ CreateRoom
       \/ \E m \in RoomIds : DeleteRoom(m)
       \/ \E c \in Capacities, m \in RoomIds \cup {NoRoom} : CreateTable(c, m)
       \/ \E t \in TableIds : DeleteTable(t)
    /\ UNCHANGED <<plan, seatedFor>>

\* seed.py gives no table; the time is that of the row.
SeedStep ==
    \E p \in Parties, at \in Times, status \in {"confirmed", "cancelled"} :
        /\ SeedReservation(p, at, status)
        /\ seatedFor' = Append(seatedFor, at)
        /\ UNCHANGED plan

ThreadNext ==
    \/ \E th \in Threads : Read(th) \/ Write(th) \/ WriteFails(th)
    \/ FloorStep
    \/ SeedStep

ThreadSpec == ThreadInit /\ [][ThreadNext]_threadVars

-----------------------------------------------------------------------------
(* Properties                                                              *)

\* The reservations that hold table t at the time for which it was chosen: all
\* but those whose table one PATCH chose while another moved them.
Holders(t) ==
    {i \in DOMAIN reservations :
        /\ Confirmed(i)
        /\ reservations[i].table = t
        /\ seatedFor[i] = reservations[i].at}

\* The threads that are about to give table t to a reservation.
Takers(t) ==
    {th \in Threads :
        plan[th] # NoPlan /\ plan[th].op \in {"create", "update"} /\ plan[th].table = t}

Moves(th, i) == plan[th].op = "update" /\ plan[th].res = i

\* A crowd of reservations that all overlap, and requests that are coming to
\* overlap each of them, none by moving one of them.
Overlap(crowd, coming) ==
    /\ \A i, j \in crowd : i # j => Near(reservations[i].at, reservations[j].at)
    /\ \A i \in crowd, th \in coming :
          Near(plan[th].slot, reservations[i].at) /\ ~Moves(th, i)

\* The conflict check does not keep a table from being booked twice, but it
\* bounds how often: the reservations that overlap on a table, and the requests
\* that are about to add to them, are never more than there are threads, however
\* many requests are made.  Whoever is seated keeps away every request that has
\* still to read.
OverbookingBounded ==
    \A t \in TableIds : \A crowd \in SUBSET Holders(t), coming \in SUBSET Takers(t) :
        Overlap(crowd, coming)
            => Cardinality(crowd) + Cardinality(coming) <= Cardinality(Threads)

\* What a commit queues states the time that its reservation has after it, also
\* when another request has moved the reservation since the handler read it.
MessagesStatePresent ==
    \A k \in DOMAIN issued : issued[k].at = reservations[issued[k].res].at

\* A cancelled reservation is never confirmed again, by whatever was read
\* before it was cancelled.
CancelledStays ==
    [][\A i \in DOMAIN reservations :
          ~Confirmed(i) => reservations'[i].status = "cancelled"]_threadVars
=============================================================================
