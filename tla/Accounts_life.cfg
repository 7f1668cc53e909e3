\* two sessions, a crash and a restart
SPECIFICATION Spec
CONSTANTS
    Sessions = {s1, s2}
    Names = {"", "Player", "ann"}
    Size = 40
    Column = 2
    Dry <- Meadow
    Plots <- Seats
    Restarts = 1
    NoPlayer = NoPlayer
SYMMETRY Symmetry
INVARIANTS TypeOK Identity OwnersKnown AccountsInv
PROPERTY OwnersDecide
