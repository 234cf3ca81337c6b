CONSTANTS
    Client = {c1, c2}
    Players = 1
SPECIFICATION Spec
INVARIANT HeroesKnown
