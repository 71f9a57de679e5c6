--------------------------- MODULE MCBookingService ---------------------------
(* Small instances of BookingService for TLC.                               *)
EXTENDS BookingService

CONSTANTS noRoom, noTable, gone, keep, none, w1

MCCapacities == {2}
MCParties == {2}
MCTimes == {1, 2}
MCSeedCapacities == <<2>>
MCPlannedTables == {1}
OneWorker == {w1}
=============================================================================
