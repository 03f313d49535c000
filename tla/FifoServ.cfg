CONSTANTS
    Clients = {c1, c2, c3}
    MaxKilled = 1
    MaxDeaths = 1
    Nobody = Nobody
SPECIFICATION FairSpec
INVARIANTS WaitingAccountedFor
PROPERTIES Served
CHECK_DEADLOCK FALSE
