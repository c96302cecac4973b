\* Desktop's multiplexed connection and its event connection.
\* The daemon rests while clients are silent, and when it has exited.
SPECIFICATION PipeFairSpec
INVARIANTS
    PipeTypeOK
PROPERTIES
    SlowStallsNobody
    StopReturnsWithoutIdleClients
CHECK_DEADLOCK FALSE
CONSTANTS
    rpc = rpc
    events = events
    r1 = r1
    r2 = r2
    r3 = r3
    Conn <- MCConn
    Request <- MCRequest
    conn <- MCconn
