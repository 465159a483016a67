CONSTANTS
    Answers <- MCAnswers
    SizeOf <- Sizes
SPECIFICATION FairSpec
INVARIANTS
    EventsInOrder
    AnswerIsWhole
    RoundTrip
PROPERTIES
    RequestEnds
