CONSTANTS
    Clients = {c1, c2, c3}
    Args = {2, 3, 9}
    MaxLong = 7
    Sleep = 1
    Timeout = 2
    MaxKilled = 1
    MaxInterrupted = 1
    Nobody = Nobody
SPECIFICATION FairSpec
INVARIANTS AnswersRight TimeoutNeedsQueue
PROPERTIES ClientsEnd
CHECK_DEADLOCK FALSE
