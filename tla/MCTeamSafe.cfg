\* Three players, a team of up to two, money to deposit and withdraw.
SPECIFICATION Spec
CONSTANTS
    ada = ada  ben = ben  cleo = cleo
    Players = {ada, ben, cleo}
    Nobody = Nobody
    Founders = {ada}
    Slots = {0, 1}
    Caps = {1, 2}
    InitCash <- FoundersCash
    Amounts = {1}
    TreasurySettings <- LenientOrTight
    DefaultSettings <- Lenient
    InviteTimes = {1}
    RanksGiven = {1, 4}
    DAY = 2
    REQUEST_LIFETIME = 2
    MaxTime = 3
    MaxEpoch = 2
    MaxPending = 1
    MaxDrawn = 2
SYMMETRY Symmetry
INVARIANTS TypeOK MembershipSound
PROPERTIES KeyRotates MoneyConserved PaymentsOnTerms DailyCapHolds
CHECK_DEADLOCK FALSE
