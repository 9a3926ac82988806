\* Two players who conquer a castle from one another and from within.
SPECIFICATION FairSpec
CONSTANTS
    ada = ada  ben = ben
    Players = {ada, ben}
    Teams = {red}
    Nobody = Nobody
    Caps = {1, 2}
    InitCap = 1
    InitCourt = 1
    Positions = {1}
    Contributions = {0, 10}
    InitUnits <- Armies
    MAX_CASTLES_PER_KING = 1
    OtherCastles <- OneElsewhere
    CONTEST_DURATION = 1
    PROTECTION_DURATION = 1
    UPGRADE_DURATION = 1
    MAX_CHAMBERS_LEVEL = 1
    EpochMax = 1
    MaxTime = 2
INVARIANTS TypeOK HeadcountsMatch ThroneSound
PROPERTIES KeyRotates PeaceKeepsArmies TransitionsEnd
