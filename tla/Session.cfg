CONSTANTS
    Client = {c1, c2, c3}
    Players = 2
SPECIFICATION LoopSpec
INVARIANTS
    TypeOK
    FullHouse
    StartedTogether
PROPERTY AbandonedServerStops
