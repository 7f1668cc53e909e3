\* two sessions, of which one at a time overflows or fails; the
\* server has just started
SPECIFICATION Spec
CONSTANTS
    NoSession = NoSession
    Sessions = {s1, s2}
    Keys = {k1}
    Live = {}
    OutCap = 1
    InCap = 1
    Requests = {"hello"}
    WarmStart = FALSE
    MaxVer = 2
INVARIANT NeverStale
CONSTRAINT OneInTrouble
SYMMETRY Symmetry
