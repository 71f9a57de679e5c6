------------------------ MODULE RequestThreadsProofs ------------------------
(***************************************************************************)
(* Proofs about RequestThreads, for all values of its constants: what the  *)
(* foreign keys, the conflict check before the write and the row read      *)
(* after it keep true of any number of concurrent requests.                *)
(***************************************************************************)
EXTENDS RequestThreads, BookingsProofs

\* Reservations are never removed, so what a thread has read stays there.
PlansNameRows ==
    \A th \in Threads :
        plan[th] # NoPlan /\ plan[th].op \in {"update", "cancel"}
            => plan[th].res \in DOMAIN reservations

ThreadInv ==
    /\ ThreadTypeOK
    /\ References
    /\ PlansNameRows
    /\ OverbookingBounded
    /\ MessagesStatePresent

-----------------------------------------------------------------------------
(* Plans                                                                   *)

\* What a plan carries, by its operation.
LEMMA PlanTyped ==
    ASSUME ThreadTypeOK, NEW th \in Threads, plan[th] # NoPlan
    PROVE  /\ plan[th] \in Plan
           /\ plan[th].op \in {"create", "update", "cancel", "table"}
           /\ plan[th].op = "create" =>
                 plan[th].party \in Parties /\ plan[th].slot \in Times
                 /\ plan[th].table \in TableIds
           /\ plan[th].op = "update" =>
                 plan[th].party \in Parties \cup {Keep} /\ plan[th].at \in Times \cup {Keep}
                 /\ plan[th].slot \in Times /\ plan[th].table \in TableIds
           /\ plan[th].op = "table" =>
                 plan[th].table \in TableIds /\ plan[th].capacity \in Capacities \cup {Keep}
                 /\ plan[th].room \in RoomIds \cup {NoRoom, Keep}
<1>1. plan[th] \in Plan
  BY DEF ThreadTypeOK
<1> QED
  BY <1>1 DEF Plan

-----------------------------------------------------------------------------
(* What a commit does, whatever it was decided on                          *)

\* The types and the references are kept, the messages state what was written,
\* no row disappears, and no cancelled reservation is confirmed again.
Commits ==
    /\ TypeOK' /\ References' /\ MessagesStatePresent'
    /\ DOMAIN reservations \subseteq DOMAIN reservations'
    /\ \A i \in DOMAIN reservations : ~Confirmed(i) => reservations'[i].status = "cancelled"

LEMMA NotConfirmed ==
    ASSUME TypeOK, NEW i \in DOMAIN reservations, ~Confirmed(i)
    PROVE  reservations[i].status = "cancelled"
<1>1. reservations[i] \in Reservation
  BY DEF TypeOK
<1> QED
  BY <1>1 DEF Reservation, Confirmed

\* A row added or rewritten keeps the references if the table it names exists.
LEMMA RowCommits ==
    ASSUME TypeOK, References, TypeOK', UNCHANGED <<rooms, tables>>,
           NEW i, DOMAIN reservations' = DOMAIN reservations \cup {i},
           \A j \in DOMAIN reservations \ {i} : reservations'[j] = reservations[j],
           reservations'[i].table = NoTable \/ IsTable(reservations'[i].table),
           i \in DOMAIN reservations /\ ~Confirmed(i) => reservations'[i].status = "cancelled",
           \A k \in DOMAIN issued' : issued'[k].res = i /\ issued'[k].at = reservations'[i].at
    PROVE  Commits
<1>1. TablesExist'
  BY DEF References, TablesExist, IsTable
<1>2. RoomsExist'
  BY DEF References, RoomsExist, LiveTables, IsRoom
<1>3. ASSUME NEW j \in DOMAIN reservations, ~Confirmed(j)
      PROVE  reservations'[j].status = "cancelled"
  BY <1>3, NotConfirmed
<1>4. MessagesStatePresent'
  BY DEF MessagesStatePresent
<1> QED
  BY <1>1, <1>2, <1>3, <1>4 DEF Commits, References

LEMMA InsertCommits ==
    ASSUME TypeOK, References, NEW p \in Parties, NEW at \in Times, NEW t \in TableIds,
           IsTable(t), InsertReservation(p, at, t)
    PROVE  Commits
<1> DEFINE e == [party |-> p, at |-> at, table |-> t, status |-> "confirmed"]
           i == Len(reservations) + 1
<1>1. TypeOK'
  BY InsertTyped
<1>2. e \in Reservation /\ e.table = t
  BY DEF Reservation
<1>3. reservations' = Append(reservations, e) /\ UNCHANGED <<rooms, tables>>
  BY DEF InsertReservation
<1> HIDE DEF e
<1>4. /\ DOMAIN reservations' = DOMAIN reservations \cup {i}
      /\ reservations'[i] = e
      /\ \A j \in DOMAIN reservations : reservations'[j] = reservations[j]
  BY <1>2, <1>3, AppendedRow DEF TypeOK
<1>5. i \notin DOMAIN reservations
  BY RowsTyped
<1>6. \A k \in DOMAIN issued' : issued'[k].res = i /\ issued'[k].at = reservations'[i].at
  <2>1. issued' = <<Issue("created", i, at), Issue("reminder", i, at)>>
    BY DEF InsertReservation
  <2>2. reservations'[i].at = at
    BY <1>4 DEF e
  <2> HIDE DEF i
  <2> QED
    BY <2>1, <2>2 DEF Issue
<1> HIDE DEF i
<1> QED
  BY <1>1, <1>2, <1>3, <1>4, <1>5, <1>6, RowCommits

LEMMA SeedCommits ==
    ASSUME TypeOK, References, NEW p \in Parties, NEW at \in Times,
           NEW status \in {"confirmed", "cancelled"}, SeedReservation(p, at, status)
    PROVE  Commits
<1> DEFINE e == [party |-> p, at |-> at, table |-> NoTable, status |-> status]
           i == Len(reservations) + 1
<1>1. TypeOK'
  BY SeedTyped
<1>2. e \in Reservation /\ e.table = NoTable
  BY DEF Reservation
<1>3. reservations' = Append(reservations, e) /\ UNCHANGED <<rooms, tables>>
  BY DEF SeedReservation
<1> HIDE DEF e
<1>4. /\ DOMAIN reservations' = DOMAIN reservations \cup {i}
      /\ reservations'[i] = e
      /\ \A j \in DOMAIN reservations : reservations'[j] = reservations[j]
  BY <1>2, <1>3, AppendedRow DEF TypeOK
<1>5. i \notin DOMAIN reservations
  BY RowsTyped
<1>6. DOMAIN issued' = {}
  BY DEF SeedReservation, Quiet
<1> HIDE DEF i
<1> QED
  BY <1>1, <1>2, <1>3, <1>4, <1>5, <1>6, RowCommits

LEMMA WriteCommits ==
    ASSUME TypeOK, References, NEW i \in DOMAIN reservations, NEW p \in Parties \cup {Keep},
           NEW at \in Times \cup {Keep}, NEW t \in TableIds,
           IsTable(t), WriteReservation(i, p, at, t)
    PROVE  Commits
<1> DEFINE e == [reservations[i] EXCEPT
                    !.party = Given(p, @), !.at = Given(at, @), !.table = t]
<1>1. TypeOK'
  BY WriteTyped
<1>2. reservations[i] \in Reservation
  BY RowsTyped
<1>3. e.table = t /\ e.status = reservations[i].status
  BY <1>2 DEF Reservation
<1>4. reservations' = [reservations EXCEPT ![i] = e] /\ UNCHANGED <<rooms, tables>>
  BY DEF WriteReservation
<1> HIDE DEF e
<1>5. /\ DOMAIN reservations' = DOMAIN reservations \cup {i}
      /\ reservations'[i] = e
      /\ \A j \in DOMAIN reservations \ {i} : reservations'[j] = reservations[j]
  BY <1>4 DEF TypeOK
<1>6. ~Confirmed(i) => reservations'[i].status = "cancelled"
  BY <1>3, <1>5, NotConfirmed
<1>7. \A k \in DOMAIN issued' : issued'[k].res = i /\ issued'[k].at = reservations'[i].at
  <2>1. issued' = UpdateMessages(i, at, e.at)
    BY DEF WriteReservation, e
  <2>2. reservations'[i].at = e.at
    BY <1>5
  <2> QED
    BY <2>1, <2>2 DEF UpdateMessages, Issue
<1> QED
  BY <1>1, <1>3, <1>4, <1>5, <1>6, <1>7, RowCommits

LEMMA CancelCommits ==
    ASSUME TypeOK, References, NEW i \in DOMAIN reservations, WriteCancelled(i)
    PROVE  Commits
<1> DEFINE e == [reservations[i] EXCEPT !.status = "cancelled"]
<1>1. TypeOK'
  BY CancelTyped
<1>2. reservations[i] \in Reservation
  BY RowsTyped
<1>3. e.table = reservations[i].table /\ e.status = "cancelled"
  BY <1>2 DEF Reservation
<1>4. reservations' = [reservations EXCEPT ![i] = e] /\ UNCHANGED <<rooms, tables>>
  BY DEF WriteCancelled
<1> HIDE DEF e
<1>5. /\ DOMAIN reservations' = DOMAIN reservations \cup {i}
      /\ reservations'[i] = e
      /\ \A j \in DOMAIN reservations \ {i} : reservations'[j] = reservations[j]
  BY <1>4 DEF TypeOK
<1>6. reservations'[i].table = NoTable \/ IsTable(reservations'[i].table)
  BY <1>3, <1>5 DEF References, TablesExist
<1>7. \A k \in DOMAIN issued' : issued'[k].res = i /\ issued'[k].at = reservations'[i].at
  <2>1. issued' = CancelMessages(i)
    BY DEF WriteCancelled
  <2>2. reservations'[i].at = reservations[i].at
    BY <1>2, <1>5 DEF e, Reservation
  <2> QED
    BY <2>1, <2>2 DEF CancelMessages, Issue
<1> QED
  BY <1>1, <1>3, <1>4, <1>5, <1>6, <1>7, RowCommits

LEMMA TableCommits ==
    ASSUME TypeOK, References, NEW t \in TableIds, IsTable(t), NEW c \in Capacities \cup {Keep},
           NEW m \in RoomIds \cup {NoRoom, Keep}, m \in {Keep, NoRoom} \/ IsRoom(m),
           WriteTable(t, c, m)
    PROVE  Commits
<1>1. /\ TypeOK' /\ UNCHANGED <<rooms, reservations>>
      /\ DOMAIN tables' = DOMAIN tables /\ tables'[t] \in Table
      /\ \A u \in DOMAIN tables \ {t} : tables'[u] = tables[u]
  BY TableRewritten
<1>2. TablesExist'
  BY <1>1, TableNotGone DEF References, TablesExist, IsTable
<1>3. RoomsExist'
  BY TableKeepsRooms DEF References
<1>4. MessagesStatePresent'
  BY DEF WriteTable, Quiet, MessagesStatePresent
<1> QED
  BY <1>1, <1>2, <1>3, <1>4, NotConfirmed DEF Commits, References

LEMMA FloorCommits ==
    ASSUME TypeOK, References, FloorRequest
    PROVE  Commits
<1>1. UNCHANGED reservations
  BY FloorSparesReservations
<1>2. TablesExist'
  <2>1. ASSUME NEW i \in DOMAIN reservations, NEW t, reservations[i].table = t, t # NoTable
        PROVE  IsTable(t)'
    BY <2>1, FloorKeepsTables DEF References
  <2> QED
    BY <1>1, <2>1 DEF TablesExist, IsTable
<1>3. issued' = <<>>
  BY DEF FloorRequest, RoomRequest, TableRequest, CreateRoom, DeleteRoom, CreateTable,
         UpdateTable, WriteTable, DeleteTable, Quiet
<1>4. MessagesStatePresent'
  BY <1>3 DEF MessagesStatePresent
<1> QED
  BY <1>1, <1>2, <1>4, FloorTyped, FloorKeepsRooms, NotConfirmed DEF Commits, References

-----------------------------------------------------------------------------
(* How many can overlap                                                    *)

LEMMA CrowdsFinite ==
    ASSUME NEW n \in Nat, NEW crowd \in SUBSET (1..n), NEW coming \in SUBSET Threads
    PROVE  /\ IsFiniteSet(crowd) /\ Cardinality(crowd) \in Nat
           /\ IsFiniteSet(coming) /\ Cardinality(coming) \in Nat
           /\ Cardinality(Threads) \in Nat
           /\ Cardinality(coming) <= Cardinality(Threads)
<1>1. IsFiniteSet(1..n)
  BY FS_Interval
<1>2. IsFiniteSet(crowd)
  BY <1>1, FS_Subset
<1>3. IsFiniteSet(coming) /\ Cardinality(coming) <= Cardinality(Threads)
  BY ThreadsAssumption, FS_Subset
<1> QED
  BY <1>2, <1>3, ThreadsAssumption, FS_CardinalityType

\* A step that seats nobody and begins no request.
LEMMA BoundKept ==
    ASSUME OverbookingBounded,
           \A t \in TableIds : \A i \in Holders(t)' :
              i \in Holders(t) /\ reservations'[i].at = reservations[i].at,
           \A th \in Threads : plan'[th] # NoPlan => plan'[th] = plan[th]
    PROVE  OverbookingBounded'
<1> SUFFICES ASSUME NEW t \in TableIds, NEW crowd \in SUBSET (Holders(t)'),
                    NEW coming \in SUBSET (Takers(t)'), Overlap(crowd, coming)'
             PROVE  Cardinality(crowd) + Cardinality(coming) <= Cardinality(Threads)
  BY DEF OverbookingBounded
<1>1. crowd \subseteq Holders(t)
  OBVIOUS
<1>2. coming \subseteq Takers(t) /\ \A th \in coming : plan'[th] = plan[th]
  BY DEF Takers
<1>3. Overlap(crowd, coming)
  BY <1>2 DEF Overlap, Moves, Near
<1> QED
  BY <1>1, <1>2, <1>3 DEF OverbookingBounded

\* The commit of thread th seats reservation n: who was coming is now there.
LEMMA BoundTaken ==
    ASSUME OverbookingBounded, TypeOK', NEW th \in Threads, NEW n,
           plan[th] # NoPlan, plan[th].op \in {"create", "update"}, plan'[th] = NoPlan,
           \A o \in Threads \ {th} : plan'[o] = plan[o],
           \A t \in TableIds : \A i \in Holders(t)' \ {n} :
              i \in Holders(t) /\ reservations'[i].at = reservations[i].at,
           \A t \in TableIds : n \in Holders(t)' =>
              plan[th].table = t /\ reservations'[n].at = plan[th].slot,
           plan[th].op = "update" => plan[th].res = n
    PROVE  OverbookingBounded'
<1> SUFFICES ASSUME NEW t \in TableIds, NEW crowd \in SUBSET (Holders(t)'),
                    NEW coming \in SUBSET (Takers(t)'), Overlap(crowd, coming)'
             PROVE  Cardinality(crowd) + Cardinality(coming) <= Cardinality(Threads)
  BY DEF OverbookingBounded
<1>1. th \notin coming /\ \A o \in coming : plan'[o] = plan[o]
  BY DEF Takers
<1>2. coming \subseteq Takers(t)
  BY <1>1 DEF Takers
<1> DEFINE before == crowd \ {n}
<1>3. before \subseteq Holders(t) /\ \A i \in before : reservations'[i].at = reservations[i].at
  OBVIOUS
<1>4. Overlap(before, coming)
  BY <1>1, <1>3 DEF Overlap, Moves, Near
<1>5. CASE n \notin crowd
  <2>1. before = crowd
    BY <1>5
  <2> QED
    BY <1>2, <1>3, <1>4, <2>1 DEF OverbookingBounded
<1>6. CASE n \in crowd
  <2> DEFINE were == coming \cup {th}
  <2>1. plan[th].table = t /\ reservations'[n].at = plan[th].slot
    BY <1>6
  <2>2. were \subseteq Takers(t)
    BY <1>2, <2>1 DEF Takers
  <2>3. \A i \in before : Near(plan[th].slot, reservations[i].at) /\ ~Moves(th, i)
    BY <1>3, <1>6, <2>1 DEF Overlap, Moves, Near
  <2>4. Overlap(before, were)
    BY <1>4, <2>3 DEF Overlap
  <2>5. Cardinality(before) + Cardinality(were) <= Cardinality(Threads)
    BY <1>3, <2>2, <2>4 DEF OverbookingBounded
  <2>6. Len(reservations') \in Nat /\ crowd \subseteq 1..Len(reservations')
    <3>1. reservations' \in Seq(Reservation)
      BY DEF TypeOK
    <3>2. Len(reservations') \in Nat /\ DOMAIN reservations' = 1..Len(reservations')
      BY <3>1
    <3> QED
      BY <3>2 DEF Holders
  <2>7. coming \subseteq Threads
    BY DEF Takers
  <2>8. /\ IsFiniteSet(crowd) /\ Cardinality(crowd) \in Nat
        /\ IsFiniteSet(coming) /\ Cardinality(coming) \in Nat
        /\ Cardinality(Threads) \in Nat
    BY <2>6, <2>7, CrowdsFinite
  <2>9. Cardinality(before) = Cardinality(crowd) - 1
    BY <1>6, <2>8, FS_RemoveElement
  <2>10. Cardinality(were) = Cardinality(coming) + 1
    BY <1>1, <2>8, FS_AddElement
  <2> QED
    BY <2>5, <2>8, <2>9, <2>10
<1> QED
  BY <1>5, <1>6

\* Who finds a table free overlaps with nobody who is seated there, but for the
\* reservation that is moved.
LEMMA BoundDecided ==
    ASSUME TypeOK, OverbookingBounded, UNCHANGED <<bookingVars, seatedFor>>,
           NEW th \in Threads, NEW p \in Plan,
           \A o \in Threads : plan'[o] = IF o = th THEN p ELSE plan[o],
           p.op = "create" => p.slot \in Times /\ ~Conflict(p.table, p.slot, 0),
           p.op = "update" => p.slot \in Times /\ ~Conflict(p.table, p.slot, p.res)
    PROVE  OverbookingBounded'
<1> SUFFICES ASSUME NEW t \in TableIds, NEW crowd \in SUBSET (Holders(t)'),
                    NEW coming \in SUBSET (Takers(t)'), Overlap(crowd, coming)'
             PROVE  Cardinality(crowd) + Cardinality(coming) <= Cardinality(Threads)
  BY DEF OverbookingBounded
<1>1. UNCHANGED reservations /\ Holders(t)' = Holders(t)
  BY DEF bookingVars, Holders, Confirmed
<1>2. CASE th \notin coming
  <2>1. coming \subseteq Takers(t) /\ \A o \in coming : plan'[o] = plan[o]
    BY <1>2 DEF Takers
  <2>2. Overlap(crowd, coming)
    BY <1>1, <2>1 DEF Overlap, Moves, Near
  <2> QED
    BY <1>1, <2>1, <2>2 DEF OverbookingBounded
<1>3. CASE th \in coming
  <2>1. p.table = t /\ p.op \in {"create", "update"} /\ plan'[th] = p
    BY <1>3 DEF Takers
  <2>2. crowd = {}
    <3> SUFFICES ASSUME NEW i \in crowd PROVE FALSE
      OBVIOUS
    <3>1. i \in DOMAIN reservations /\ reservations[i].table = t /\ Confirmed(i)
      BY <1>1 DEF Holders
    <3>2. Near(p.slot, reservations[i].at) /\ ~(p.op = "update" /\ p.res = i)
      BY <1>1, <1>3, <2>1 DEF Overlap, Moves, Near
    <3>3. i # 0 /\ reservations[i].at \in Times
      BY <3>1, RowsTyped DEF Reservation
    <3>4. Near(reservations[i].at, p.slot)
      BY <2>1, <3>2, <3>3, NearSymmetric
    <3> QED
      BY <2>1, <3>1, <3>2, <3>3, <3>4 DEF Conflict
  <2>3. coming \subseteq Threads
    BY DEF Takers
  <2>4. /\ Cardinality(coming) \in Nat /\ Cardinality(Threads) \in Nat
        /\ Cardinality(coming) <= Cardinality(Threads)
    BY <2>3, CrowdsFinite, 0 \in Nat, {} \in SUBSET (1..0)
  <2>5. Cardinality(crowd) = 0
    BY <2>2, FS_EmptySet
  <2> QED
    BY <2>4, <2>5
<1> QED
  BY <1>2, <1>3

-----------------------------------------------------------------------------
(* Steps                                                                   *)

\* A plan is added; nothing is committed.
LEMMA Decided ==
    ASSUME ThreadInv, NEW th \in Threads, NEW p \in Plan, Decide(th, p),
           p.op \in {"update", "cancel"} => p.res \in DOMAIN reservations,
           p.op = "create" => p.slot \in Times /\ ~Conflict(p.table, p.slot, 0),
           p.op = "update" => p.slot \in Times /\ ~Conflict(p.table, p.slot, p.res)
    PROVE  ThreadInv'
<1>1. /\ plan' = [plan EXCEPT ![th] = p]
      /\ UNCHANGED <<bookingVars, seatedFor>>
  BY DEF Decide
<1>2. plan \in [Threads -> Plan \cup {NoPlan}]
  BY DEF ThreadInv, ThreadTypeOK
<1>3. \A o \in Threads : plan'[o] = IF o = th THEN p ELSE plan[o]
  BY <1>1, <1>2
<1>4. ThreadTypeOK'
  <2>1. TypeOK'
    BY <1>1 DEF ThreadInv, ThreadTypeOK, bookingVars, TypeOK
  <2>2. plan' \in [Threads -> Plan \cup {NoPlan}]
    BY <1>1, <1>2
  <2> QED
    BY <1>1, <2>1, <2>2 DEF ThreadInv, ThreadTypeOK, bookingVars
<1>5. References'
  BY <1>1 DEF ThreadInv, bookingVars, References, TablesExist, RoomsExist, LiveTables,
              IsTable, IsRoom
<1>6. PlansNameRows'
  BY <1>1, <1>3 DEF ThreadInv, PlansNameRows, bookingVars
<1>7. OverbookingBounded'
  BY <1>1, <1>3, BoundDecided DEF ThreadInv, ThreadTypeOK
<1>8. MessagesStatePresent'
  BY <1>1 DEF ThreadInv, MessagesStatePresent, bookingVars
<1> QED
  BY <1>4, <1>5, <1>6, <1>7, <1>8 DEF ThreadInv

\* Each read phase that seats a reservation has found its table free.
LEMMA ReadStep ==
    ASSUME ThreadInv, NEW th \in Threads, Read(th)
    PROVE  ThreadInv'
<1>a. /\ DOMAIN tables \subseteq TableIds /\ DOMAIN reservations \subseteq ReservationIds
      /\ \A i \in DOMAIN reservations : reservations[i] \in Reservation
  BY RowsTyped DEF ThreadInv, ThreadTypeOK
<1>1. ASSUME NEW p \in Parties, NEW at \in Times, NEW r \in TableIds \cup {NoTable},
             CreateRead(th, p, at, r)
      PROVE  ThreadInv'
  <2>1. PICK t \in Resolve(r, p, at, 0) :
           Decide(th, [op |-> "create", party |-> p, slot |-> at, table |-> t])
    BY <1>1 DEF CreateRead
  <2>2. t \in TableIds /\ ~Conflict(t, at, 0)
    BY <1>a, ResolveFits DEF Fits, IsTable
  <2> DEFINE q == [op |-> "create", party |-> p, slot |-> at, table |-> t]
  <2>3. q \in Plan /\ q.op = "create" /\ q.slot = at /\ q.table = t
    BY <2>2 DEF Plan
  <2>4. Decide(th, q)
    BY <2>1
  <2> HIDE DEF q
  <2> QED
    BY <2>2, <2>3, <2>4, Decided
<1>2. ASSUME NEW i \in DOMAIN reservations, NEW p \in Parties \cup {Keep},
             NEW at \in Times \cup {Keep}, NEW r \in TableIds \cup {NoTable, Keep},
             UpdateRead(th, i, p, at, r)
      PROVE  ThreadInv'
  <2> DEFINE slot == Given(at, reservations[i].at)
  <2>1. PICK t \in TableFor(i, p, at, r) :
           Decide(th, [op |-> "update", res |-> i, party |-> p, at |-> at,
                       slot |-> slot, table |-> t])
    BY <1>2 DEF UpdateRead
  <2>2. t \in TableIds /\ ~Conflict(t, slot, i)
    BY <1>a, TableForFits DEF Fits, IsTable
  <2>3. slot \in Times
    BY <1>a DEF Given, Reservation
  <2> HIDE DEF slot
  <2> DEFINE q == [op |-> "update", res |-> i, party |-> p, at |-> at,
                   slot |-> slot, table |-> t]
  <2>4. q \in Plan /\ q.op = "update" /\ q.res = i /\ q.slot = slot /\ q.table = t
    BY <1>a, <2>2, <2>3 DEF Plan
  <2>5. Decide(th, q)
    BY <2>1
  <2> HIDE DEF q
  <2> QED
    BY <2>2, <2>3, <2>4, <2>5, Decided
<1>3. ASSUME NEW i \in DOMAIN reservations, CancelRead(th, i)
      PROVE  ThreadInv'
  <2> DEFINE q == [op |-> "cancel", res |-> i]
  <2>1. Decide(th, q)
    BY <1>3 DEF CancelRead
  <2>2. q \in Plan /\ q.op = "cancel" /\ q.res = i
    BY <1>a DEF Plan
  <2> HIDE DEF q
  <2> QED
    BY <2>1, <2>2, Decided
<1>4. ASSUME NEW t \in TableIds, NEW c \in Capacities \cup {Keep},
             NEW m \in RoomIds \cup {NoRoom, Keep}, TableRead(th, t, c, m)
      PROVE  ThreadInv'
  <2> DEFINE q == [op |-> "table", table |-> t, capacity |-> c, room |-> m]
  <2>1. Decide(th, q)
    BY <1>4 DEF TableRead
  <2>2. q \in Plan /\ q.op = "table"
    BY DEF Plan
  <2> HIDE DEF q
  <2> QED
    BY <2>1, <2>2, Decided
<1> QED
  BY <1>1, <1>2, <1>3, <1>4 DEF Read

\* What a commit and the plans that are left make of the invariant.
LEMMA Committed ==
    ASSUME ThreadInv, Commits, OverbookingBounded',
           plan' \in [Threads -> Plan \cup {NoPlan}],
           \A th \in Threads : plan'[th] # NoPlan => plan'[th] = plan[th],
           seatedFor' \in Seq(Times), Len(seatedFor') = Len(reservations')
    PROVE  ThreadInv'
<1>1. ThreadTypeOK'
  BY DEF Commits, ThreadTypeOK
<1>2. PlansNameRows'
  <2> SUFFICES ASSUME NEW th \in Threads, plan'[th] # NoPlan,
                      plan'[th].op \in {"update", "cancel"}
               PROVE  plan'[th].res \in DOMAIN reservations'
    BY DEF PlansNameRows
  <2> QED
    BY DEF Commits, ThreadInv, PlansNameRows
<1> QED
  BY <1>1, <1>2 DEF Commits, ThreadInv

\* What is written, whatever it was decided on, commits well and is told.
LEMMA WriteOfPlan ==
    ASSUME ThreadInv, NEW th \in Threads, Write(th)
    PROVE  Commits /\ \A i \in DOMAIN reservations : Told(i)
<1>a. TypeOK /\ References /\ ThreadTypeOK /\ PlansNameRows
  BY DEF ThreadInv, ThreadTypeOK
<1>1. CASE CreateWrite(th)
  <2>1. /\ plan[th] # NoPlan /\ plan[th].op = "create" /\ IsTable(plan[th].table)
        /\ InsertReservation(plan[th].party, plan[th].slot, plan[th].table)
    BY <1>1 DEF CreateWrite, Finish, TableReferable
  <2>2. PICK p, at, t : p = plan[th].party /\ at = plan[th].slot /\ t = plan[th].table
    OBVIOUS
  <2>3. p \in Parties /\ at \in Times /\ t \in TableIds
    BY <1>a, <2>1, <2>2, PlanTyped
  <2>4. IsTable(t) /\ InsertReservation(p, at, t)
    BY <2>1, <2>2
  <2>5. \A i \in DOMAIN reservations : Told(i)
    <3> DEFINE e == [party |-> p, at |-> at, table |-> t, status |-> "confirmed"]
    <3>1. e \in Reservation /\ reservations' = Append(reservations, e)
      BY <2>3, <2>4 DEF Reservation, InsertReservation
    <3> HIDE DEF e
    <3> QED
      BY <1>a, <3>1, InsertTells
  <2> QED
    BY <1>a, <2>3, <2>4, <2>5, InsertCommits
<1>2. CASE UpdateWrite(th)
  <2>1. /\ plan[th] # NoPlan /\ plan[th].op = "update" /\ IsTable(plan[th].table)
        /\ WriteReservation(plan[th].res, plan[th].party, plan[th].at, plan[th].table)
    BY <1>2 DEF UpdateWrite, Finish, TableReferable
  <2>2. PICK i, p, at, t : i = plan[th].res /\ p = plan[th].party /\ at = plan[th].at
                           /\ t = plan[th].table
    OBVIOUS
  <2>3. p \in Parties \cup {Keep} /\ at \in Times \cup {Keep} /\ t \in TableIds
    BY <1>a, <2>1, <2>2, PlanTyped
  <2>4. i \in DOMAIN reservations
    BY <1>a, <2>1, <2>2 DEF PlansNameRows
  <2>5. IsTable(t) /\ WriteReservation(i, p, at, t)
    BY <2>1, <2>2
  <2>6. \A j \in DOMAIN reservations \ {i} : reservations'[j] = reservations[j]
    BY <1>a, <2>5 DEF WriteReservation, TypeOK
  <2> QED
    BY <1>a, <2>3, <2>4, <2>5, <2>6, WriteCommits, UpdateTells, NothingToTell
<1>3. CASE CancelWrite(th)
  <2>1. /\ plan[th] # NoPlan /\ plan[th].op = "cancel" /\ WriteCancelled(plan[th].res)
    BY <1>3 DEF CancelWrite, Finish
  <2>2. PICK i : i = plan[th].res
    OBVIOUS
  <2>3. i \in DOMAIN reservations /\ WriteCancelled(i)
    BY <1>a, <2>1, <2>2 DEF PlansNameRows
  <2>4. \A j \in DOMAIN reservations \ {i} : reservations'[j] = reservations[j]
    BY <1>a, <2>3 DEF WriteCancelled, TypeOK
  <2> QED
    BY <1>a, <2>3, <2>4, CancelCommits, CancelTells, NothingToTell
<1>4. CASE TableWrite(th)
  <2>1. /\ plan[th] # NoPlan /\ plan[th].op = "table" /\ IsTable(plan[th].table)
        /\ plan[th].room \in {Keep, NoRoom} \/ IsRoom(plan[th].room)
        /\ WriteTable(plan[th].table, plan[th].capacity, plan[th].room)
    BY <1>4 DEF TableWrite, Finish
  <2>2. PICK t, c, m : t = plan[th].table /\ c = plan[th].capacity /\ m = plan[th].room
    OBVIOUS
  <2>3. t \in TableIds /\ c \in Capacities \cup {Keep} /\ m \in RoomIds \cup {NoRoom, Keep}
    BY <1>a, <2>1, <2>2, PlanTyped
  <2>4. IsTable(t) /\ (m \in {Keep, NoRoom} \/ IsRoom(m)) /\ WriteTable(t, c, m)
    BY <2>1, <2>2
  <2>5. UNCHANGED reservations
    BY <2>4 DEF WriteTable
  <2> QED
    BY <1>a, <2>3, <2>4, <2>5, TableCommits, NothingToTell
<1> QED
  BY <1>1, <1>2, <1>3, <1>4 DEF Write

\* Rows other than n, and the times they were seated for, stay.
LEMMA OthersHold ==
    ASSUME NEW n, DOMAIN reservations' \subseteq DOMAIN reservations \cup {n},
           \A i \in DOMAIN reservations \ {n} :
              reservations'[i] = reservations[i] /\ seatedFor'[i] = seatedFor[i]
    PROVE  \A t : \A i \in Holders(t)' \ {n} :
              i \in Holders(t) /\ reservations'[i].at = reservations[i].at
BY DEF Holders, Confirmed

LEMMA CreateStep ==
    ASSUME ThreadInv, NEW th \in Threads, CreateWrite(th),
           plan' \in [Threads -> Plan \cup {NoPlan}], plan'[th] = NoPlan,
           \A o \in Threads \ {th} : plan'[o] = plan[o]
    PROVE  ThreadInv'
<1> DEFINE p == plan[th].party
           slot == plan[th].slot
           t == plan[th].table
           e == [party |-> p, at |-> slot, table |-> t, status |-> "confirmed"]
           n == Len(reservations) + 1
<1>1. ThreadTypeOK /\ TypeOK /\ References /\ OverbookingBounded
  BY DEF ThreadInv, ThreadTypeOK
<1>2. /\ plan[th] # NoPlan /\ plan[th].op = "create" /\ IsTable(t)
      /\ InsertReservation(p, slot, t) /\ seatedFor' = Append(seatedFor, slot)
  BY DEF CreateWrite, Finish, TableReferable
<1>3. p \in Parties /\ slot \in Times /\ t \in TableIds
  BY <1>1, <1>2, PlanTyped
<1> HIDE DEF p, slot, t
<1>4. Commits
  BY WriteOfPlan DEF Write
<1>5. e \in Reservation /\ e.at = slot /\ e.table = t
  BY <1>3 DEF Reservation
<1>6. reservations' = Append(reservations, e)
  BY <1>2 DEF InsertReservation
<1> HIDE DEF e
<1>7. /\ seatedFor \in Seq(Times) /\ Len(seatedFor) = Len(reservations)
      /\ reservations \in Seq(Reservation)
  BY <1>1 DEF ThreadTypeOK, TypeOK
<1>8. /\ DOMAIN reservations' = DOMAIN reservations \cup {n} /\ reservations'[n] = e
      /\ Len(reservations') = n
      /\ \A i \in DOMAIN reservations : reservations'[i] = reservations[i]
  BY <1>5, <1>6, <1>7, AppendedRow
<1>9. /\ seatedFor' \in Seq(Times) /\ Len(seatedFor') = n
      /\ \A i \in DOMAIN seatedFor : seatedFor'[i] = seatedFor[i]
  BY <1>2, <1>3, <1>7, AppendedRow
<1>10. DOMAIN seatedFor = DOMAIN reservations
  BY <1>7
<1> HIDE DEF n
<1>11. \A u : \A i \in Holders(u)' \ {n} :
          i \in Holders(u) /\ reservations'[i].at = reservations[i].at
  BY <1>8, <1>9, <1>10, OthersHold
<1>12. \A u : n \in Holders(u)' => plan[th].table = u /\ reservations'[n].at = plan[th].slot
  BY <1>5, <1>8 DEF Holders, t, slot
<1>13. TypeOK'
  BY <1>4 DEF Commits
<1>14. OverbookingBounded'
  BY <1>1, <1>2, <1>11, <1>12, <1>13, BoundTaken
<1> QED
  BY <1>4, <1>8, <1>9, <1>14, Committed

LEMMA UpdateStep ==
    ASSUME ThreadInv, NEW th \in Threads, UpdateWrite(th),
           plan' \in [Threads -> Plan \cup {NoPlan}], plan'[th] = NoPlan,
           \A o \in Threads \ {th} : plan'[o] = plan[o]
    PROVE  ThreadInv'
<1> DEFINE i == plan[th].res
           p == plan[th].party
           at == plan[th].at
           slot == plan[th].slot
           t == plan[th].table
           e == [reservations[i] EXCEPT
                    !.party = Given(p, @), !.at = Given(at, @), !.table = t]
<1>1. ThreadTypeOK /\ TypeOK /\ References /\ OverbookingBounded /\ PlansNameRows
  BY DEF ThreadInv, ThreadTypeOK
<1>2. /\ plan[th] # NoPlan /\ plan[th].op = "update" /\ IsTable(t)
      /\ WriteReservation(i, p, at, t) /\ seatedFor' = [seatedFor EXCEPT ![i] = slot]
  BY DEF UpdateWrite, Finish, TableReferable
<1>3. /\ p \in Parties \cup {Keep} /\ at \in Times \cup {Keep} /\ slot \in Times
      /\ t \in TableIds /\ i \in DOMAIN reservations
  BY <1>1, <1>2, PlanTyped DEF PlansNameRows
<1> HIDE DEF i, p, at, slot, t
<1>4. Commits
  BY WriteOfPlan DEF Write
<1>5. reservations' = [reservations EXCEPT ![i] = e]
  BY <1>2 DEF WriteReservation
<1>6. e.table = t
  BY <1>3, RowsTyped, <1>1 DEF Reservation
<1> HIDE DEF e
<1>7. /\ seatedFor \in Seq(Times) /\ Len(seatedFor) = Len(reservations)
      /\ reservations \in Seq(Reservation)
  BY <1>1 DEF ThreadTypeOK, TypeOK
<1>8. DOMAIN seatedFor = DOMAIN reservations
  BY <1>7
<1>9. /\ DOMAIN reservations' = DOMAIN reservations /\ reservations'[i] = e
      /\ Len(reservations') = Len(reservations)
      /\ \A j \in DOMAIN reservations \ {i} : reservations'[j] = reservations[j]
  BY <1>3, <1>5, <1>7
<1>10. /\ seatedFor' \in Seq(Times) /\ Len(seatedFor') = Len(seatedFor)
  BY <1>2, <1>3, <1>7, <1>8, RewrittenRow
<1>11. /\ seatedFor'[i] = slot
       /\ \A j \in DOMAIN reservations \ {i} : seatedFor'[j] = seatedFor[j]
  BY <1>2, <1>3, <1>8
<1>12. \A u : \A j \in Holders(u)' \ {i} :
          j \in Holders(u) /\ reservations'[j].at = reservations[j].at
  BY <1>9, <1>11, OthersHold
<1>13. \A u : i \in Holders(u)' => plan[th].table = u /\ reservations'[i].at = plan[th].slot
  BY <1>6, <1>9, <1>11 DEF Holders, t, slot
<1>14. TypeOK' /\ plan[th].res = i
  BY <1>4 DEF Commits, i
<1>15. OverbookingBounded'
  BY <1>1, <1>2, <1>12, <1>13, <1>14, BoundTaken
<1> QED
  BY <1>4, <1>7, <1>9, <1>10, <1>15, Committed

LEMMA CancelStep ==
    ASSUME ThreadInv, NEW th \in Threads, CancelWrite(th),
           plan' \in [Threads -> Plan \cup {NoPlan}],
           \A o \in Threads : plan'[o] # NoPlan => plan'[o] = plan[o]
    PROVE  ThreadInv'
<1> DEFINE i == plan[th].res
           e == [reservations[i] EXCEPT !.status = "cancelled"]
<1>1. ThreadTypeOK /\ TypeOK /\ References /\ OverbookingBounded /\ PlansNameRows
  BY DEF ThreadInv, ThreadTypeOK
<1>2. /\ plan[th] # NoPlan /\ plan[th].op = "cancel" /\ WriteCancelled(i)
      /\ UNCHANGED seatedFor
  BY DEF CancelWrite, Finish
<1>3. i \in DOMAIN reservations
  BY <1>1, <1>2 DEF PlansNameRows
<1> HIDE DEF i
<1>4. Commits
  BY WriteOfPlan DEF Write
<1>5. reservations' = [reservations EXCEPT ![i] = e]
  BY <1>2 DEF WriteCancelled
<1>6. e.status = "cancelled"
  BY <1>1, <1>3, RowsTyped DEF Reservation
<1> HIDE DEF e
<1>7. /\ DOMAIN reservations' = DOMAIN reservations /\ Len(reservations') = Len(reservations)
      /\ reservations'[i] = e
      /\ \A j \in DOMAIN reservations \ {i} : reservations'[j] = reservations[j]
  BY <1>1, <1>3, <1>5 DEF TypeOK
<1>8. \A u : \A j \in Holders(u)' :
          j \in Holders(u) /\ reservations'[j].at = reservations[j].at
  <2>1. \A u : i \notin Holders(u)'
    BY <1>6, <1>7 DEF Holders, Confirmed
  <2>2. \A u : \A j \in Holders(u)' \ {i} :
           j \in Holders(u) /\ reservations'[j].at = reservations[j].at
    BY <1>2, <1>7, OthersHold
  <2> QED
    BY <2>1, <2>2
<1>9. OverbookingBounded'
  BY <1>1, <1>8, BoundKept
<1> QED
  BY <1>1, <1>2, <1>4, <1>7, <1>9, Committed DEF ThreadTypeOK

\* A commit that changes no reservation.
LEMMA FloorKeepsBound ==
    ASSUME ThreadInv, Commits, UNCHANGED <<reservations, seatedFor>>,
           plan' \in [Threads -> Plan \cup {NoPlan}],
           \A o \in Threads : plan'[o] # NoPlan => plan'[o] = plan[o]
    PROVE  ThreadInv'
<1>1. ThreadTypeOK /\ OverbookingBounded
  BY DEF ThreadInv
<1>2. \A t : Holders(t)' = Holders(t)
  BY DEF Holders, Confirmed
<1>3. OverbookingBounded'
  BY <1>1, <1>2, BoundKept
<1> QED
  BY <1>1, <1>3, Committed DEF ThreadTypeOK

LEMMA TableStep ==
    ASSUME ThreadInv, NEW th \in Threads, TableWrite(th),
           plan' \in [Threads -> Plan \cup {NoPlan}],
           \A o \in Threads : plan'[o] # NoPlan => plan'[o] = plan[o]
    PROVE  ThreadInv'
<1>1. Commits
  BY WriteOfPlan DEF Write
<1>2. UNCHANGED <<reservations, seatedFor>>
  BY DEF TableWrite, WriteTable
<1> QED
  BY <1>1, <1>2, FloorKeepsBound

LEMMA WriteStep ==
    ASSUME ThreadInv, NEW th \in Threads, Write(th)
    PROVE  ThreadInv'
<1>1. plan' = [plan EXCEPT ![th] = NoPlan]
  BY DEF Write, CreateWrite, UpdateWrite, CancelWrite, TableWrite, Finish
<1>2. plan \in [Threads -> Plan \cup {NoPlan}]
  BY DEF ThreadInv, ThreadTypeOK
<1>3. /\ plan' \in [Threads -> Plan \cup {NoPlan}] /\ plan'[th] = NoPlan
      /\ \A o \in Threads \ {th} : plan'[o] = plan[o]
  BY <1>1, <1>2
<1>4. \A o \in Threads : plan'[o] # NoPlan => plan'[o] = plan[o]
  BY <1>3
<1> QED
  BY <1>3, <1>4, CreateStep, UpdateStep, CancelStep, TableStep DEF Write

LEMMA FloorStepStep ==
    ASSUME ThreadInv, FloorStep
    PROVE  ThreadInv'
<1>1. TypeOK /\ References /\ ThreadTypeOK
  BY DEF ThreadInv, ThreadTypeOK
<1>2. FloorRequest
  BY DEF FloorStep, FloorRequest, RoomRequest, TableRequest
<1>3. Commits /\ UNCHANGED <<reservations, seatedFor, plan>>
  BY <1>1, <1>2, FloorCommits, FloorSparesReservations DEF FloorStep
<1> QED
  BY <1>1, <1>3, FloorKeepsBound DEF ThreadTypeOK

LEMMA SeedStepStep ==
    ASSUME ThreadInv, SeedStep
    PROVE  ThreadInv'
<1>1. TypeOK /\ References /\ ThreadTypeOK /\ OverbookingBounded
  BY DEF ThreadInv, ThreadTypeOK
<1>2. PICK p \in Parties, at \in Times, status \in {"confirmed", "cancelled"} :
         /\ SeedReservation(p, at, status)
         /\ seatedFor' = Append(seatedFor, at) /\ UNCHANGED plan
  BY DEF SeedStep
<1> DEFINE e == [party |-> p, at |-> at, table |-> NoTable, status |-> status]
           n == Len(reservations) + 1
<1>3. Commits
  BY <1>1, <1>2, SeedCommits
<1>4. e \in Reservation /\ e.table = NoTable /\ reservations' = Append(reservations, e)
  BY <1>2 DEF Reservation, SeedReservation
<1> HIDE DEF e
<1>5. /\ seatedFor \in Seq(Times) /\ Len(seatedFor) = Len(reservations)
      /\ reservations \in Seq(Reservation)
  BY <1>1 DEF ThreadTypeOK, TypeOK
<1>6. /\ DOMAIN reservations' = DOMAIN reservations \cup {n} /\ reservations'[n] = e
      /\ Len(reservations') = n
      /\ \A i \in DOMAIN reservations : reservations'[i] = reservations[i]
  BY <1>4, <1>5, AppendedRow
<1>7. /\ seatedFor' \in Seq(Times) /\ Len(seatedFor') = n
      /\ \A i \in DOMAIN reservations : seatedFor'[i] = seatedFor[i]
  BY <1>2, <1>5, AppendedRow
<1> HIDE DEF n
<1>8. \A t \in TableIds : \A i \in Holders(t)' :
         i \in Holders(t) /\ reservations'[i].at = reservations[i].at
  <2>1. \A t \in TableIds : n \notin Holders(t)'
    BY <1>4, <1>6, BookingsAssumption DEF Holders, TableIds
  <2>2. \A t : \A i \in Holders(t)' \ {n} :
           i \in Holders(t) /\ reservations'[i].at = reservations[i].at
    BY <1>6, <1>7, OthersHold
  <2> QED
    BY <2>1, <2>2
<1>9. OverbookingBounded'
  BY <1>1, <1>2, <1>8, BoundKept
<1> QED
  BY <1>1, <1>2, <1>3, <1>6, <1>7, <1>9, Committed DEF ThreadTypeOK

\* A write that raises leaves everything but its plan; so does no step at all.
LEMMA QuietStep ==
    ASSUME ThreadInv, UNCHANGED <<bookingVars, seatedFor>>,
           plan' \in [Threads -> Plan \cup {NoPlan}],
           \A th \in Threads : plan'[th] # NoPlan => plan'[th] = plan[th]
    PROVE  ThreadInv'
<1>1. TypeOK' /\ References' /\ MessagesStatePresent'
  BY DEF ThreadInv, ThreadTypeOK, bookingVars, TypeOK, References, TablesExist, RoomsExist,
         LiveTables, IsTable, IsRoom, MessagesStatePresent
<1>2. UNCHANGED reservations /\ TypeOK
  BY DEF bookingVars, ThreadInv, ThreadTypeOK
<1>3. Commits
  BY <1>1, <1>2, NotConfirmed DEF Commits
<1> QED
  BY <1>2, <1>3, FloorKeepsBound

LEMMA ThreadInvHolds == ThreadSpec => []ThreadInv
<1>1. ThreadInit => ThreadInv
  <2> SUFFICES ASSUME ThreadInit PROVE ThreadInv
    OBVIOUS
  <2>1. /\ reservations = <<>> /\ tables = <<>> /\ rooms = <<>> /\ issued = <<>>
        /\ seatedFor = <<>> /\ plan = [th \in Threads |-> NoPlan]
    BY DEF ThreadInit, Init
  <2>2. TypeOK /\ References /\ MessagesStatePresent
    BY <2>1, BookingsAssumption DEF TypeOK, References, TablesExist, RoomsExist, LiveTables,
                                    MessagesStatePresent
  <2>3. ThreadTypeOK /\ PlansNameRows
    BY <2>1, <2>2 DEF ThreadTypeOK, PlansNameRows
  <2>4. OverbookingBounded
    <3> SUFFICES ASSUME NEW t \in TableIds, NEW crowd \in SUBSET Holders(t),
                        NEW coming \in SUBSET Takers(t)
                 PROVE  Cardinality(crowd) + Cardinality(coming) <= Cardinality(Threads)
      BY DEF OverbookingBounded
    <3>1. crowd = {} /\ coming = {}
      BY <2>1 DEF Holders, Takers
    <3>2. Cardinality(Threads) \in Nat /\ Cardinality({}) = 0
      BY ThreadsAssumption, FS_CardinalityType, FS_EmptySet
    <3> QED
      BY <3>1, <3>2
  <2> QED
    BY <2>2, <2>3, <2>4 DEF ThreadInv
<1>2. ThreadInv /\ [ThreadNext]_threadVars => ThreadInv'
  <2> SUFFICES ASSUME ThreadInv, [ThreadNext]_threadVars PROVE ThreadInv'
    OBVIOUS
  <2>1. plan \in [Threads -> Plan \cup {NoPlan}]
    BY DEF ThreadInv, ThreadTypeOK
  <2>2. ASSUME NEW th \in Threads, WriteFails(th)
        PROVE  ThreadInv'
    BY <2>1, <2>2, QuietStep DEF WriteFails
  <2>3. CASE UNCHANGED threadVars
    BY <2>1, <2>3, QuietStep DEF threadVars
  <2> QED
    BY <2>2, <2>3, ReadStep, WriteStep, FloorStepStep, SeedStepStep DEF ThreadNext
<1> QED
  BY <1>1, <1>2, PTL DEF ThreadSpec

-----------------------------------------------------------------------------
(* Theorems                                                                *)

\* The type invariant: among others, every reservation has a time for which its
\* table was chosen.
THEOREM ThreadTypesCorrect == ThreadSpec => []ThreadTypeOK
<1>1. ThreadInv => ThreadTypeOK
  BY DEF ThreadInv
<1> QED
  BY <1>1, ThreadInvHolds, PTL

\* With any number of requests at once, no reservation names a table that is
\* gone and no table a room that is gone: the foreign keys check again, when a
\* write commits, what was read before.
THEOREM ReferencesHoldConcurrently == ThreadSpec => []References
<1>1. ThreadInv => References
  BY DEF ThreadInv
<1> QED
  BY <1>1, ThreadInvHolds, PTL

\* However many requests race for a table (create_ and update_reservation of
\* crud.py look for conflicts before their transaction), no more reservations
\* overlap on it than there are threads, those whose table was chosen while a
\* second PATCH moved them left out.
THEOREM OverbookingIsBounded == ThreadSpec => []OverbookingBounded
<1>1. ThreadInv => OverbookingBounded
  BY DEF ThreadInv
<1> QED
  BY <1>1, ThreadInvHolds, PTL

\* The messages of every commit state the time that their reservation has when it
\* commits: the handlers read the row again after they have written it.
THEOREM MessagesArePresent == ThreadSpec => []MessagesStatePresent
<1>1. ThreadInv => MessagesStatePresent
  BY DEF ThreadInv
<1> QED
  BY <1>1, ThreadInvHolds, PTL

\* Only writes and seed.py change the reservations.
LEMMA ThreadTells ==
    ASSUME ThreadInv, [ThreadNext]_threadVars
    PROVE  \A i \in DOMAIN reservations :
              Told(i) /\ (~Confirmed(i) => reservations'[i].status = "cancelled")
<1>1. ThreadTypeOK /\ TypeOK /\ References
  BY DEF ThreadInv, ThreadTypeOK
<1>2. CASE UNCHANGED reservations
  BY <1>1, <1>2, NothingToTell, NotConfirmed
<1>3. ASSUME NEW th \in Threads, Read(th) \/ WriteFails(th)
      PROVE  UNCHANGED reservations
  BY <1>3 DEF Read, CreateRead, UpdateRead, CancelRead, TableRead, Decide, WriteFails,
              bookingVars
<1>4. ASSUME NEW th \in Threads, Write(th)
      PROVE  \A i \in DOMAIN reservations :
                Told(i) /\ (~Confirmed(i) => reservations'[i].status = "cancelled")
  BY <1>4, WriteOfPlan DEF Commits
<1>5. FloorStep => UNCHANGED reservations
  BY FloorSparesReservations DEF FloorStep, FloorRequest, RoomRequest, TableRequest
<1>6. ASSUME SeedStep
      PROVE  \A i \in DOMAIN reservations :
                Told(i) /\ (~Confirmed(i) => reservations'[i].status = "cancelled")
  <2>1. PICK p \in Parties, at \in Times, status \in {"confirmed", "cancelled"} :
           SeedReservation(p, at, status)
    BY <1>6 DEF SeedStep
  <2> DEFINE e == [party |-> p, at |-> at, table |-> NoTable, status |-> status]
  <2>2. e \in Reservation /\ reservations' = Append(reservations, e)
    BY <2>1 DEF Reservation, SeedReservation
  <2>3. Commits
    BY <1>1, <2>1, SeedCommits
  <2> HIDE DEF e
  <2> QED
    BY <1>1, <2>2, <2>3, InsertTells DEF Commits
<1>7. UNCHANGED threadVars => UNCHANGED reservations
  BY DEF threadVars, bookingVars
<1> QED
  BY <1>2, <1>3, <1>4, <1>5, <1>6, <1>7 DEF ThreadNext

\* No interleaving confirms a cancelled reservation again: none of the UPDATEs
\* sets the status of a row back.
THEOREM CancelledForGood == ThreadSpec => CancelledStays
<1>1. ThreadInv /\ [ThreadNext]_threadVars =>
         [\A i \in DOMAIN reservations :
             ~Confirmed(i) => reservations'[i].status = "cancelled"]_threadVars
  BY ThreadTells
<1> QED
  BY <1>1, ThreadInvHolds, PTL DEF ThreadSpec, CancelledStays

\* Customers are told of what becomes of their reservations also when it was
\* decided on a row that another request has changed since: the messages of a
\* request (update_ and cancel_reservation of crud.py) follow what it writes.
THEOREM CustomersAreToldConcurrently == ThreadSpec => CustomerTold
<1>1. ThreadInv /\ [ThreadNext]_threadVars =>
         [\A i \in DOMAIN reservations : Told(i)]_bookingVars
  BY ThreadTells
<1>2. ThreadSpec => [][\A i \in DOMAIN reservations : Told(i)]_bookingVars
  BY <1>1, ThreadInvHolds, PTL DEF ThreadSpec
<1>3. (\A i \in DOMAIN reservations : Told(i)) <=>
         \A i \in DOMAIN reservations :
          LET old == reservations[i]  new == reservations'[i] IN
          /\ old.status # new.status =>
                issued' = <<Issue("cancelled", i, old.at), Issue("drop_reminders", i, old.at)>>
          /\ (\/ <<old.party, old.at>> # <<new.party, new.at>>
              \/ old.table \notin {NoTable, new.table}) =>
                issued' # <<>> /\ Head(issued') = Issue("updated", i, new.at)
          /\ old.at # new.at =>
                Tail(issued') = <<Issue("drop_reminders", i, new.at), Issue("reminder", i, new.at)>>
  BY DEF Told
<1> QED
  BY <1>2, <1>3, PTL DEF CustomerTold
=============================================================================
