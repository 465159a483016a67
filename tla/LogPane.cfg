SPECIFICATION FairPaneSpec
CONSTANTS
    Viewers = {v1}
    MaxChunks = 2
    MaxDrops = 1
    MaxRestarts = 1
INVARIANTS
    OnlyUnwrittenIsMissed
    ScreenIsABeginning
PROPERTIES
    StatusNeverGoesBack
    VerdictIsLearnt
CHECK_DEADLOCK FALSE
