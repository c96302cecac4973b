\* Two boots, of one named session or of sessions of their own, and their clean-ups.
\* The daemon is at rest once Desktop is gone and its VM is cleaned up.
SPECIFICATION FairSpec
INVARIANTS
    TypeOK
    OneServingQemu
    OrphansAreDropped
    TakenOnce
PROPERTIES
    StartReturns
    DeadDesktopStopsVm
CHECK_DEADLOCK FALSE
CONSTANTS
    Vm = {v1, v2}
    NoVm = NoVm
    Names = {claudevm}
