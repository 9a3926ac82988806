\* Two wallets, one text, short pages and a reconcile that may miss the oldest.
SPECIFICATION Spec
CONSTANTS
    ada = ada  ben = ben  hello = hello  nothing = nothing
    Me = ada
    Others = {ben}
    Bodies = {hello}
    NoText = nothing
    Histories <- AllHistories
    PageLimit = 2
    Window = 3
    MaxPosts = 4
    MaxEchoes = 1
    MaxReads = 1
    MaxOpened = 2
CONSTRAINT PostsOrComesBack
INVARIANTS TypeOK ChipsAreCurrent EchoesSettle LatestPinWins
PROPERTIES DeletedStaysDeleted ReconcileCatchesUp
CHECK_DEADLOCK FALSE
