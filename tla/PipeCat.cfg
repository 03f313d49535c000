CONSTANTS
    N = 2
    MaxWrites = 2
    Capacity = 1
    MaxKilled = 1
SPECIFICATION FairSpec
INVARIANTS AnswerWhole
PROPERTIES InstanceEnds
CHECK_DEADLOCK FALSE
