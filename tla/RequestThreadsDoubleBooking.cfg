SPECIFICATION ThreadSpec
CONSTANTS
    noRoom = noRoom
    noTable = noTable
    gone = gone
    keep = keep
    noPlan = noPlan
    t1 = t1
    t2 = t2
    Capacities <- MCCapacities
    Parties <- MCParties
    Times <- MCTimes
    Window = 2
    SeedCapacities <- MCSeedCapacities
    SeedRoomCount = 1
    PlannedTables <- MCPlannedTables
    NoRoom = noRoom
    NoTable = noTable
    Gone = gone
    Keep = keep
    NoPlan = noPlan
    Threads <- MCThreads
    MaxRooms = 0
    MaxTables = 1
    MaxReservations = 3
SYMMETRY ThreadSymmetry
INVARIANTS NoDoubleBooking
CHECK_DEADLOCK FALSE
