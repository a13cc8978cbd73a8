SPECIFICATION Spec
CONSTANTS
    Uploads = {b1, b2}
    Deletes = {d1, d2}
    Paths = {p1, p2}
    NoPath = NoPath
    NoDelete = NoDelete
    MaxAckPending = 2
    BatchSize = 2
    MaxCrashes = 1
SYMMETRY Symmetry
INVARIANTS TypeOK ContentSafe DeleteOkMeansGone NoLeakAfterOk LocksAreLive
PROPERTIES LossNeedsPublish NoResurrection KeepsContract
CHECK_DEADLOCK FALSE
