SPECIFICATION FairSpec
CONSTANTS
    Builds = {b1, b2}
    Projects = {p1, p2}
    Keystores = {k1}
    None = None
    MaxConcurrent = 1
    MaxRestarts = 0
    RemoveMayFail = TRUE
INVARIANTS
    SlotsMatchLaunches
    NoIdleSlot
    SettledLaunchHasVerdict
PROPERTIES
    EveryBuildConcludes
