\* players as many as the map has columns for
SPECIFICATION Spec
CONSTANTS
    Sessions = {s1}
    Names = {"", "Player", "ann"}
    Size = 7
    Column = 2
    Dry <- Meadow
    Plots <- Seats
    Restarts = 0
    NoPlayer = NoPlayer
PROPERTY EveryPlayerHasHub
