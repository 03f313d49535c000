CONSTANTS
    Clients = {c1, c2}
    MaxLines = 2
    LineLen = 2
    MaxKilled = 1
    None = None
SPECIFICATION FairSpec
INVARIANTS CutOnlyByFailure
PROPERTIES Reaped ClientsEnd
CHECK_DEADLOCK FALSE
