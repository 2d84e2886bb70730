SPECIFICATION Spec
CONSTANTS
    anna = anna
    bert = bert
    carl = carl
    good1 = good1
    good2 = good2
    token1 = token1
    token2 = token2
    token3 = token3
    NoPlayer = NoPlayer
    NoItem = NoItem
    Players <- MCPlayers
    Items <- MCItems
    Kind <- MCKind
    MaxCount <- MCMaxCount
    Capacity <- MCCapacity
    StartInvs <- MCStartInvs
    StartGold <- MCStartGold
    Casters <- MCCasters
    TradedCount = 2
    MaxMoney = 2
    MaxAway = 1
SYMMETRY Interchangeable
INVARIANTS
    TypeOK
    TradeIsMutual
    AcceptanceCurrent
PROPERTIES
    ItemsKept
    GoldKept
    Delivered
CHECK_DEADLOCK FALSE
