\* Expected to fail: a new image is shipped, and the overlay of the old one is kept.
SPECIFICATION Spec
CONSTANTS
    Daemons = {d1}
    MaxVhdx = 1
    MaxImg = 2
    MaxFaults = 0
    CidLimit = 6
INVARIANTS
    OverlayMatchesImage
