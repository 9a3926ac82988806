\* Three players, two events of which one has the id 0, two places.
SPECIFICATION Spec
CONSTANTS
    ada = ada  ben = ben  cyn = cyn
    Players = {ada, ben, cyn}
    Events = {0, 1}
    Nobody = Nobody
    Offers <- Announced
    MAX_LEADERBOARD = 2
    PRIZE_DISTRIBUTION <- Shared
    Bonuses = {0, 5000}
    Scores = {0, 40000, 70000}
    U32Max = 2
    U64Max = 100000
    MaxTime = 2
SYMMETRY Symmetry
INVARIANTS LeaderboardTrue PrizesInOrder
CHECK_DEADLOCK FALSE
