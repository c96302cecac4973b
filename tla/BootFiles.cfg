\* Two daemons, one bundle of either kind, two failures anywhere.
SPECIFICATION Spec
CONSTANTS
    Daemons = {d1, d2}
    MaxVhdx = 2
    MaxImg = 2
    MaxFaults = 2
    CidLimit = 6
INVARIANTS
    TypeOK
    RunsOnCompleteRoot
    CidsDiffer
PROPERTIES
    GuestDataSurvives
    BootsAgain
