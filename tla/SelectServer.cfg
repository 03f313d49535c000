CONSTANTS
    Conns = {c1, c2, c3}
    FD_SETSIZE = 6
    FDLimits = {6, 7}
    WordBits = 5
    Unset = {0, 5}
    MaxSend = 2
    BuffSize = 2
    Capacity = 1
    None = None
SPECIFICATION FairSpec
INVARIANTS TableConsistent BlocksOnlyByGarbage EndsOnlyWhenFull
PROPERTIES Echoed
CHECK_DEADLOCK FALSE
