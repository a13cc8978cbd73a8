SPECIFICATION FairSpec
CONSTANTS
    Uploads = {b1, b2}
    Deletes = {}
    Paths = {p1, p2}
    NoPath = NoPath
    NoDelete = NoDelete
    MaxAckPending = 2
    BatchSize = 2
    MaxCrashes = 1
PROPERTIES EarlyEventsCarriedOut
CHECK_DEADLOCK FALSE
