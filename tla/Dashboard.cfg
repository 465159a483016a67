CONSTANTS
    Outputs <- Printed
    RecentLines = 1
    FullLines = 2
SPECIFICATION FairSpec
INVARIANTS
    FrameIsConsistent
    LastFrameIsFinal
    NothingLeftOver
    FailureShowsTheEnd
PROPERTIES
    BarNeverGoesBack
    SummaryComes
