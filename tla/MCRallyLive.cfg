\* Two rallies; in the one the leader is on the way to the point and a member already
\* there, who has no estate, and the other makes the member a leader too; one gem
\* each.
SPECIFICATION FairSpec
CONSTANTS
    ada = ada  ben = ben  cleo = cleo  r1 = r1  r2 = r2
    Players = {ada, ben}
    Rallies = {r1, r2}
    LeaderOf <- TwoLeaders
    Teammates <- BenLeadsAlone
    TravelTo <- FarLeaders
    TravelBack <- FarLeadersBack
    TargetType <- CastleAndEncounter
    GatherDurations = {1}
    CommitSizes = {1}
    Arms <- Unarmed
    MaxParticipants <- Cap2
    InitUnits = 2
    InitGems = 1
    Estates = {ada}
    Infirmary = {}
    CasualtyPercents = {100}
    LootPools = {}
    U8Max = 2
    U32Max = 2
    MaxTime = 3
INVARIANTS JoinedCounter
PROPERTIES ArmiesComeHome ViableRallyExecutes
CHECK_DEADLOCK FALSE
