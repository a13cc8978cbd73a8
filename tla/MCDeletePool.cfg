SPECIFICATION FairSpec
CONSTANTS
    Deletes = {d1, d2}
    Readers = {r1, r2}
    Uploads = {u1}
    Books = {b1, b2}
    NoDelete = NoDelete
    PoolSize = 3
INVARIANTS TypeOK LockHoldersRun NoConnectionLeak
PROPERTIES DeleteReturns UploadReturns
CHECK_DEADLOCK FALSE
