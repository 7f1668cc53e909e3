\* a welcome lost to a resync
SPECIFICATION Spec
CONSTANTS
    NoSession = NoSession
    Sessions = {s1}
    Keys = {k1}
    Live = {}
    OutCap = 2
    InCap = 1
    Requests = {"hello", "chat"}
    WarmStart = TRUE
    MaxVer = 1
INVARIANT WelcomeReachesClient
