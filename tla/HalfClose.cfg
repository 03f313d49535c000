CONSTANTS
    MaxInput = 6
    BuffSize = 2
    Capacity = 2
    MaxJunk = 1
SPECIFICATION FairSpec
INVARIANTS AllEchoed
PROPERTIES Ends
CHECK_DEADLOCK FALSE
