\* One session and the store, three requests; requests and ids are symmetric.
\* The backend is at rest when its requests are answered.
SPECIFICATION Spec
INVARIANTS
    TypeOK
    BackupsBounded
PROPERTIES
    RunningSessionKept
    NewestBackupsKept
CHECK_DEADLOCK FALSE
SYMMETRY Symmetry
CONSTANTS
    Session = {a}
    Root = r
    Proc = {p, q}
    Call = {c1, c2, c3}
    Keep = 1
    Age = {1}
    MaxTime = 3
