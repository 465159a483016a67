CONSTANTS
    Runs = {c1, g1}
    Clis = {c1}
    Projects = {p1}
    Options <- GradleRelease
    Checkouts <- Full
    NoProject = NoProject
    MaxFaulty = 1
    Cleans = TRUE
SPECIFICATION FairSpec
INVARIANTS
    NoOrphan
    CompletedBuildIsReported
    AbortsWithReason
PROPERTIES
    InvocationEnds
