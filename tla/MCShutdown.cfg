SPECIFICATION FairSpec
CONSTANTS
    Tasks = {server, pool, nats}
    Shutdown = server
    Close = pool
    Drain = nats
    Requests = {r1, r2}
INVARIANTS TypeOK ExitNeedsHalf
PROPERTIES StopTerminates FailedServerStops LateConnectionsRefused
CHECK_DEADLOCK FALSE
