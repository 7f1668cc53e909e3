\* the counter starts again
SPECIFICATION Spec
CONSTANTS
    Sessions = {s1}
    Names = {"", "Player", "ann"}
    Size = 40
    Column = 2
    Dry <- Meadow
    Plots <- Seats
    Restarts = 2
    NoPlayer = NoPlayer
PROPERTY AccountsPersist
