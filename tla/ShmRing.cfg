CONSTANTS
    NMESG = 2
    Clients = {c1, c2}
    nloop = 3
    MaxKilled = 1
    Nobody = Nobody
    Empty = Empty
    Torn = Torn
SPECIFICATION FairSpec
INVARIANTS SemaphoreBudget OverflowExact
PROPERTIES Drained ImplementsDropQueue
CHECK_DEADLOCK FALSE
