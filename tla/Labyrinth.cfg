CONSTANTS
    Hero = {h1, h2}
    Monster = {m1}
    Mage = {h1}
    Size = 5
    Wall <- MCTightWall
    Reach = 2
SPECIFICATION MCTickSpec
INVARIANTS
    TypeOK
    KeyInOnePlace
    KeyOnOpenFloor
    SharedCellIsGrave
    NeverFinished
PROPERTIES
    KeyCustodySpec
    TicksGoOn
