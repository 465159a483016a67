SPECIFICATION Spec
CONSTANTS
    Builds = {b1, b2}
    Projects = {p1, p2}
    Keystores = {k1}
    None = None
    MaxConcurrent = 2
    MaxRestarts = 1
    RemoveMayFail = FALSE
SYMMETRY Symmetry
INVARIANTS
    TypeOK
    ActiveRowIsLiveUntilRestart
    ContainersHoldSlots
    SuccessRanToTheEnd
PROPERTIES
    ImplementsBoard
