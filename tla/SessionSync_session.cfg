\* one session from its first connection, every kind of message, a queue of two
SPECIFICATION FairSpec
CONSTANTS
    NoSession = NoSession
    Sessions = {s1}
    Keys = {k1}
    Live = {k1}
    OutCap = 2
    InCap = 1
    Requests = {"hello", "build", "chat", "command", "garbage"}
    WarmStart = TRUE
    MaxVer = 2
INVARIANTS TypeOK SyncInv NeverWaits
PROPERTIES Converges ClosedLeaves
