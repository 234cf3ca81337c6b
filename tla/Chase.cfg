CONSTANTS
    Configurations <- MCConfigurations
    Seeds <- MCSeeds
    MaxHoles <- MCMaxHoles
    SearchCells = 16
    Hero = {h1, h2}
    Monster = m
    None = None
    Sight = 3
    PlayCells = 5
    Graves <- MCGraves
SPECIFICATION HuntSpec
INVARIANTS
    ChaseTypeOK
    MazeIsTree
    MazeIsFull
    RoomsConnected
    SearchShortest
    PathLeadsOn
    EmptyOnlyAstray
PROPERTY StillPreyMet
