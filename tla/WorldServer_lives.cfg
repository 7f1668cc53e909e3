\* two lives of a server, with failures and crashes between any two steps
SPECIFICATION FairSpec
CONSTANTS
    Sessions = {s1}
    Interval = 2
    MaxCatchUp = 1
    MaxClock = 4
    MaxLives = 2
CHECK_DEADLOCK FALSE
INVARIANTS TypeOK BoundedLoss OrderlyStop ServerInv
PROPERTIES KeepsWorld NeverBack StopsWhenAsked
