SPECIFICATION Spec
CONSTANTS
    i1 = i1
    i2 = i2
    r1 = r1
    MaxRating = 2
    Times <- MCTimes
    Entries <- MCEntries
    Importers <- MCImporters
    Readers <- MCReaders
    Limit = 1
    MaxReviews = 4
    MaxComments = 1
SYMMETRY MCSymmetry
INVARIANTS TypeOK PagingComplete ImportFaithful
CHECK_DEADLOCK FALSE
