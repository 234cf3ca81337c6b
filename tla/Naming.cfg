CONSTANTS
    BYTE = 32
    USHORT = 39
    UINT = 64
    Null = Null
    Player = {p1, p2}
    Draws <- MCDraws
    Blocks = 33
    Settings <- MCSettings
    MaxObjects = 40
    InFlight = 1
SPECIFICATION Spec
SYMMETRY MCSymmetry
CHECK_DEADLOCK FALSE
INVARIANTS
    TypeOK
    OneName
    CommandsMeanIt
