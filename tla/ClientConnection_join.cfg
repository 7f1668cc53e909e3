\* from the start to a joined world
SPECIFICATION FairSpec
CONSTANTS
    Hosts = {g1, g2}
    Servers = {w1, w2}
    Names = {ann, bob}
    NoName = NoName
    Fallback = Fallback
    NoHost = NoHost
    Local = Local
    Blank = Blank
    DevName = DevName
    None = None
    MaxFetches = 2
CHECK_DEADLOCK FALSE
INVARIANTS TypeOK Introduced ShowsActive WelcomeHeard ClientInv
PROPERTIES Settles LossShown
