\* One process, its group, both streams, and two goroutines that kill.
\* At the end the process is reported and its pid reused.
SPECIFICATION FairSpec
INVARIANTS
    TypeOK
    ExitAfterOutput
    StrayOnlyForced
PROPERTIES
    ExitIsReported
CHECK_DEADLOCK FALSE
CONSTANTS
    Proc = {p1}
    NoProc = NoProc
    Ids = {a}
    Killer = {k1, k2}
    MaxLines = 1
