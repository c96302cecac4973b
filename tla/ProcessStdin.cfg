\* Two calls, one stream, enough lines to block the CLI on a pipe of one.
\* Nothing happens any more when the CLI is dead and every call has returned.
SPECIFICATION Spec
CONSTANTS
    Calls = {c1, c2}
    Streams = {stderr}
    MaxLines = 3
    InCap = 3
    OutCap = 1
INVARIANTS
    TypeOK
    StdinMakesSense
PROPERTIES
    RequestsSettled
CHECK_DEADLOCK FALSE
