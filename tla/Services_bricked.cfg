CONSTANTS
    a = a
    b = b
    c = c
    Commands = {a, b, c}
    Casts <- Pairs
    None = None
    Earlier = Earlier
    DiskFills = TRUE
SPECIFICATION Spec
INVARIANTS
    OneBadWriteIsSurvived
