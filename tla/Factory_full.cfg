\* a miner that was full
SPECIFICATION FairSpec
CONSTANTS
    Resources <- MCResources
    Buildings <- MCBuildings
    MaxBelt = 3
    BeltSpeed = 3
    Games <- StuckGames
    Value <- MCValue
    MaxID = 6
    NoRes = NoRes
    NoRecipe = NoRecipe
PROPERTY FullMinerResumes

