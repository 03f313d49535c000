CONSTANTS
    MaxLines = 3
    MaxDups = 2
    MaxForeign = 1
    Server = Server
    Other = Other
SPECIFICATION FairSpec
INVARIANTS AnswersLag CountExact
PROPERTIES Answered
CHECK_DEADLOCK FALSE
