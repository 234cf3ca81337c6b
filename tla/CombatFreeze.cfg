CONSTANTS
    w = w
    g = g
    m = m
    Hero = {w, g}
    Mage = {g}
    Monster = {m}
    None = None
    NoUnit = NoUnit
    MaxHealth <- MCMaxHealth
    Damage <- MCDamage
    Armor <- MCArmor
    Resistance <- MCResistance
    ArmorBonus = 4
    SpellCooldown = 2
    FreezeTime = 1
    ArmorTime = 1
    HealTime = 1
    FountainTime = 1
    RespawnTime = 1
    MoveTime = 1
    CastTime = 1
    SequenceLength = 2
SPECIFICATION Spec
CONSTRAINT Dry
VIEW MCView
INVARIANT FrozenTakesNoInput
