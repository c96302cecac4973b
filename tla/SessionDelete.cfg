\* Expected to fail: a delete between the start of a process and its entry in the index.
SPECIFICATION Spec
PROPERTY LiveSessionKept
CHECK_DEADLOCK FALSE
CONSTANTS
    Session = {a}
    Root = r
    Proc = {p}
    Call = {c1, c2}
    Keep = 1
    Age = {1}
    MaxTime = 3
