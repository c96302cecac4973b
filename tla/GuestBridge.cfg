\* Two connections, one process, its spawn and its kill.
\* The bridge is at rest when it is closed and every call has returned.
SPECIFICATION FairSpec
INVARIANTS
    TypeOK
    NoPanic
PROPERTIES
    DisconnectFailsCalls
CHECK_DEADLOCK FALSE
CONSTANTS
    Conn = {c1, c2}
    NoConn = NoConn
    Proc = {p1}
