\* Three members of one rally, one of them two minutes away from a point that recruits
\* for one.
SPECIFICATION Spec
CONSTANTS
    ada = ada  ben = ben  cleo = cleo  r1 = r1  r2 = r2
    Players = {ada, ben, cleo}
    Rallies = {r1}
    LeaderOf <- OneLeader
    Teammates <- Everybody
    TravelTo <- ThreeHomes
    TravelBack <- ThreeWaysBack
    TargetType <- AnyPlayer
    GatherDurations = {1}
    CommitSizes = {3}
    Arms <- ArmedB
    MaxParticipants <- Cap3
    InitUnits = 4
    InitGems = 0
    Estates = {ada, ben}
    Infirmary = {ben}
    CasualtyPercents = {0, 70}
    LootPools = {5}
    U8Max = 4
    U32Max = 2
    MaxTime = 5
INVARIANTS TypeOK HeadcountsServe OnlyMarchersFought
PROPERTIES LootComesFromPools ImplementsCustody
CHECK_DEADLOCK FALSE
