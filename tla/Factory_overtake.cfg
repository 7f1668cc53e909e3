\* a line that is tapped, with the constants of the code
SPECIFICATION Spec
CONSTANTS
    Resources <- MCResources
    Buildings <- RealBuildings
    MaxBelt = 5
    BeltSpeed = 8
    Games <- TappedGames
    Value <- MCValue
    MaxID = 6
    NoRes = NoRes
    NoRecipe = NoRecipe
INVARIANT InOrder
CONSTRAINT TenWait
