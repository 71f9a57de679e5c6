SPECIFICATION Spec
CONSTANTS
    noRoom = noRoom
    noTable = noTable
    gone = gone
    keep = keep
    Capacities <- MCCapacities
    Parties <- MCParties
    Times <- MCTimes
    Window = 2
    SeedCapacities <- MCSeedCapacities
    SeedRoomCount = 1
    PlannedTables <- MCPlannedTables
    NoRoom = noRoom
    NoTable = noTable
    Gone = gone
    Keep = keep
    MaxRooms = 1
    MaxTables = 2
    MaxReservations = 2
CONSTRAINT RoomsBesideOne
INVARIANTS TypeOK NoDoubleBooking PartyFits References ResubmitKeepsTable AvailabilityHonest
PROPERTIES CustomerTold SeedingComplete
CHECK_DEADLOCK FALSE
