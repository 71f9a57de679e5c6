SPECIFICATION FairSpec
CONSTANTS
    r1 = r1
    none = none
    w1 = w1
    Workers <- OneWorker
    Reservations <- MCReservations
    NoReservation = none
    Kinds <- MCKinds
    Delays <- MCDelays
    Bodies <- MCBodies
    MaxAttempts = 2
    BatchLimit = 2
    MaxRows = 3
    MaxLate = 0
INVARIANTS TypeOK AtMostOnce RetryBudget StatusHonest
PROPERTIES NotEarly Silence DeliverySpec SettledOrStranded CalmStrandsNothing
CHECK_DEADLOCK FALSE
