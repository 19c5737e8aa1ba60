SPECIFICATION Spec
CONSTANTS
    A = A
    B = B
    Nobody = Nobody
    Address = {A, B}
    AddressRank <- TwoRank
    Property = {3, 4}
    TestProperty = {}
    MaxInt = 3
    Amounts = {1, 2, 3}
    SendAmounts = {}
    FeeThreshold = 1
    FeeDivider = 2
    FeePerOwner <- UnitFees
    MaxOrders = 3
    Supply <- PairSupply
    MayFreeze = {}
    InitFeatures = {"METADEX", "TRADEALLPAIRS", "FEES"}
    MayToggle = {"TRADEALLPAIRS"}
    MayRestart = FALSE
INVARIANTS
    ReserveIsBook
    NoMissedTrade
    PriceTimePriority
    LimitsRespected
