\* Two binds of one directory, in the modes they please, and Stop at any time.
\* All rests when the helper is gone and every call has returned.
SPECIFICATION VfsFairSpec
INVARIANTS
    VfsTypeOK
    SharedAsAsked
PROPERTIES
    ExitFailsBinds
    StopEndsHelper
CHECK_DEADLOCK FALSE
CONSTANTS
    Binder = {b1, b2}
    Stop = Stop
    Path = {dir}
    File = {}
