CONSTANTS
    nitems = 3
    nthreads = 3
SPECIFICATION FairSpec
INVARIANTS MainReport
PROPERTIES OnlyEarlyReadsDiffer Terminates
CHECK_DEADLOCK FALSE
