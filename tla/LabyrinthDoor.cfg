CONSTANTS
    Hero = {h1, h2}
    Monster = {m1}
    Mage = {h1}
    Size = 5
    Wall <- MCWall
    Reach = 2
SPECIFICATION MCSpec
INVARIANT DoorOpensForKey
