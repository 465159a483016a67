\* The invocations end, and nobody has to press a key.
CHECK_DEADLOCK FALSE
CONSTANTS
    i1 = i1
    i2 = i2
    Invocations = {i1, i2}
    Words = {"y", "path"}
    MaxOdd = 1
    MaxAhead = 3
    Worlds <- MCWorlds
    Unknown = {"--bogus"}
SPECIFICATION Spec
INVARIANTS
    StartsWellFormed
    TokenFileIsIgnored
    CancelledByEscape
    JsonIsAnswered
