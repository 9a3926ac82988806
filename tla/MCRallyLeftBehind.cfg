\* A rally account is closed while an army is out.
SPECIFICATION Spec
CONSTANTS
    ada = ada  ben = ben  cleo = cleo  r1 = r1  r2 = r2
    Players = {ada, ben, cleo}
    Rallies = {r1}
    LeaderOf <- OneLeader
    Teammates <- Everybody
    TravelTo <- ThreeHomes
    TravelBack <- ThreeWaysBack
    TargetType <- AnyPlayer
    GatherDurations = {1, 3}
    CommitSizes = {1, 3}
    Arms <- Unarmed
    MaxParticipants <- Cap3
    InitUnits = 3
    InitGems = 0
    Estates = {ada, ben, cleo}
    Infirmary = {ben}
    CasualtyPercents = {0, 70}
    LootPools = {5}
    U8Max = 4
    U32Max = 2
    MaxTime = 5
INVARIANT NoOneLeftBehind
CHECK_DEADLOCK FALSE
