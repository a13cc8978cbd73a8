SPECIFICATION FairSpec
CONSTANTS
    Uploads = {b1, b2}
    Deletes = {d1}
    Paths = {p1, p2}
    NoPath = NoPath
    NoDelete = NoDelete
    MaxAckPending = 1
    BatchSize = 1
    MaxCrashes = 0
PROPERTIES AllEventsDelivered
CHECK_DEADLOCK FALSE
