SPECIFICATION Spec
CONSTANTS
    A = A
    B = B
    Nobody = Nobody
    Address = {A, B}
    AddressRank <- TwoRank
    Property = {1, 3, 4}
    TestProperty = {}
    MaxInt = 4
    Amounts = {1, 2}
    SendAmounts = {}
    FeeThreshold = 1
    FeeDivider = 2
    FeePerOwner <- UnitFees
    MaxOrders = 1
    Supply <- FeeSupply
    MayFreeze = {}
    InitFeatures = {"METADEX", "TRADEALLPAIRS", "FEES", "STOV1"}
    MayToggle = {"TRADEALLPAIRS"}
    MayRestart = FALSE
INVARIANTS
    AllPairShutdownEnds
CHECK_DEADLOCK FALSE
