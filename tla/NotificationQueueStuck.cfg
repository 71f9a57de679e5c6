SPECIFICATION FairSpec
CONSTANTS
    r1 = r1
    none = none
    w1 = w1
    Workers <- OneWorker
    Reservations <- MCReservations
    NoReservation = none
    Kinds <- MCKinds
    Delays <- MCDelays
    Bodies <- MCBodies
    MaxAttempts = 2
    BatchLimit = 2
    MaxRows = 2
    MaxLate = 1
PROPERTIES EventuallySettled
CHECK_DEADLOCK FALSE
