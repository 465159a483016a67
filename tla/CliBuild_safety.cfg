CONSTANTS
    Runs = {c1, c2}
    Clis = {c1, c2}
    Projects = {p1}
    Options <- ReleaseBuilds
    Checkouts <- Full
    NoProject = NoProject
    MaxFaulty = 0
    Cleans = FALSE
SPECIFICATION SafetySpec
SYMMETRY Symmetry
INVARIANTS
    SuccessIsComplete
    CancelledMeansStopped
    SecretsRemoved
