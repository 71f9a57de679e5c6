SPECIFICATION ServiceSpec
CONSTANTS
    noRoom = noRoom
    noTable = noTable
    gone = gone
    keep = keep
    none = none
    w1 = w1
    Capacities <- MCCapacities
    Parties <- MCParties
    Times <- MCTimes
    Window = 2
    SeedCapacities <- MCSeedCapacities
    SeedRoomCount = 1
    PlannedTables <- MCPlannedTables
    NoRoom = noRoom
    NoTable = noTable
    Gone = gone
    Keep = keep
    MaxRooms = 0
    MaxTables = 1
    MaxReservations = 1
    Workers <- OneWorker
    NoReservation = none
    MaxAttempts = 2
    BatchLimit = 2
    MaxRows = 4
    MaxLate = 0
    Lead = 1
    MaxNow = 1
INVARIANTS NoReminderOnceCancelled
CHECK_DEADLOCK FALSE
