\* An army of a tier that was wiped out comes home.
SPECIFICATION Spec
CONSTANTS
    ada = ada  ben = ben  cleo = cleo
    Players = {ada, ben, cleo}
    Tiers = {1, 2}
    Pairs <- ToCleo
    JourneyTimes = {0, 1}
    InitUnits <- TwoTierArmies
    InitGems = 0
    Capacity <- Room3
    Estates = {ada, cleo}
    Infirmary = {cleo}
    MaxTime = 3
    MaxSends = 3
    MaxBattles = 2
PROPERTY NoUnitsFromNothing
CHECK_DEADLOCK FALSE
