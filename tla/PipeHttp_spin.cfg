CONSTANTS
    Answers <- MCAnswers
    SizeOf <- Sizes
SPECIFICATION FairSpec
PROPERTY EveryRequestEnds
