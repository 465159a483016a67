CONSTANTS
    Runs = {r1}
    Clis = {r1}
    Projects = {p1}
    Options <- AutoBuilds
    Checkouts <- FullAndEmpty
    NoProject = NoProject
    MaxFaulty = 0
    Cleans = FALSE
SPECIFICATION Spec
INVARIANTS
    SecretsNeverSurvive
