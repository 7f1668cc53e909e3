\* registrations side by side
SPECIFICATION FairSpec
CONSTANTS
    Handlers = {h1, h2, h3}
    Ids = {a, b}
    Infos = {x}
    Inodes = {f1, f2, f3}
    NoInfo = NoInfo
    NoFile = NoFile
    Cut = Cut
    MaxCrashes = 1
CHECK_DEADLOCK FALSE
INVARIANTS TypeOK Persisted AckedInFile RegistryInv
PROPERTIES Answered KeepsList
