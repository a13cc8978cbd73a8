SPECIFICATION FairSpec
CONSTANTS
    Deletes = {d1, d2}
    Readers = {r1}
    Uploads = {u1}
    Books = {b1, b2}
    NoDelete = NoDelete
    PoolSize = 2
PROPERTIES DeleteReturns

CHECK_DEADLOCK FALSE
