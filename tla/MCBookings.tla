------------------------------ MODULE MCBookings ------------------------------
(* Small instances of Bookings for TLC.                                     *)
EXTENDS Bookings

CONSTANTS noRoom, noTable, gone, keep

MCCapacities == {2, 4}
MCParties == {2, 3}
MCTimes == {0, 1, 2}
MCSeedCapacities == <<2, 4>>
MCPlannedTables == {1}

\* Rooms bear on tables only, so they are explored beside one reservation.
RoomsBesideOne == rooms = <<>> \/ Len(reservations) <= 1
=============================================================================
