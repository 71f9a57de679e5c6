SPECIFICATION Spec
CONSTANTS
    p1 = p1
    p2 = p2
    t1 = t1
    t2 = t2
    m1 = m1
    c1 = c1
    c2 = c2
    noCode = noCode
    Processes <- TwoProcesses
    Threads <- MCThreads
    Messages <- MCMessages
    Codes <- MCCodes
    NoCode = noCode
    MaxTries = 2
    MaxReservations = 2
INVARIANTS TypeOK MessagesOnce CodesUnique
PROPERTIES MessagesKept MintedCodesStay
SYMMETRY InitSymmetry
