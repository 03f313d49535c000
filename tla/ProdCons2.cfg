CONSTANTS
    nitems = 3
    nthreads = 3
    MaxSpurious = 1
SPECIFICATION FairSpec
INVARIANTS TypeOK NoMismatch NoLostWakeup EveryItemAccountedFor MainReport
PROPERTIES Terminates ImplementsStream
CHECK_DEADLOCK FALSE
