SPECIFICATION FairSpec
CONSTANTS
    Tasks = {server, pool, nats}
    Shutdown = server
    Close = pool
    Drain = nats
    Requests = {r1}
INVARIANT CounterNeverNegative
CHECK_DEADLOCK FALSE
