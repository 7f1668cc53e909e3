\* lines, a yard and a dev server
SPECIFICATION FairSpec
CONSTANTS
    Resources <- MCResources
    Buildings <- MCBuildings
    MaxBelt = 3
    BeltSpeed = 3
    Games <- MCGames
    Value <- MCValue
    MaxID = 6
    NoRes = NoRes
    NoRecipe = NoRecipe
INVARIANTS TypeOK Consistent InOrder MarksComplete FactoryInv
PROPERTIES AllDelivered ItemsTracked DiffExact Conserved
CONSTRAINT FewGoods
