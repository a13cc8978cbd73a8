SPECIFICATION DSpec
CONSTANTS
    Uploads = {b1, b2}
    Deletes = {d1}
    Downloads = {r1}
    Paths = {p1, p2}
    NoPath = NoPath
    NoDelete = NoDelete
    MaxAckPending = 1
    BatchSize = 1
    MaxCrashes = 1
SYMMETRY Symmetry
INVARIANTS DTypeOK MissingMeansCondemned DeletedIsUnreadable NotFoundMeansDeleted ServesWantedBook
CHECK_DEADLOCK FALSE
