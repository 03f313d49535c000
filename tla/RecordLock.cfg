CONSTANTS
    Runs = {r1, r2, r3}
    MaxKilled = 1
    Stale = Stale
SPECIFICATION FairSpec
INVARIANTS ClaimsHold PidFileTrue
PROPERTIES Settles
CHECK_DEADLOCK FALSE
