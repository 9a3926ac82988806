\* Two allies with armies of different tiers at a third player, one of them without an
\* estate, and a gem each to hurry.
SPECIFICATION FairSpec
CONSTANTS
    ada = ada  ben = ben  cleo = cleo
    Players = {ada, ben, cleo}
    Tiers = {1, 2}
    Pairs <- ToCleo
    JourneyTimes = {1}
    InitUnits <- TwoTierArmies
    InitGems = 1
    Capacity <- Room3
    Estates = {ada, cleo}
    Infirmary = {cleo}
    MaxTime = 3
    MaxSends = 3
    MaxBattles = 2
INVARIANTS TypeOK OriginalsMatch
PROPERTIES JourneysEnd UnitsAccountedFor PeaceKeepsArmies
CHECK_DEADLOCK FALSE
