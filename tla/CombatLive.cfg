CONSTANTS
    w = w
    g = g
    m = m
    Hero = {w}
    Mage = {}
    Monster = {m}
    None = None
    NoUnit = NoUnit
    MaxHealth <- MCMaxHealth
    Damage <- MCDamage
    Armor <- MCArmor
    Resistance <- MCResistance
    ArmorBonus = 4
    SpellCooldown = 2
    FreezeTime = 1
    ArmorTime = 1
    HealTime = 1
    FountainTime = 2
    RespawnTime = 1
    MoveTime = 1
    CastTime = 1
    SequenceLength = 2
SPECIFICATION TickSpec
PROPERTIES
    HeroesReturn
    MonsterDuelsEnd
