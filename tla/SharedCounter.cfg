CONSTANTS
    Procs = {p1, p2, p3}
    nloop = 2
    MaxStarts = 2
    Free = Free
SPECIFICATION FairSpec
INVARIANTS Printed FinalCount
PROPERTIES Finish ImplementsService
CHECK_DEADLOCK FALSE
