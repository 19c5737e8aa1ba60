SPECIFICATION Spec
CONSTANTS
    A = A
    B = B
    Nobody = Nobody
    Address = {A, B}
    AddressRank <- TwoRank
    Property = {1, 3, 4}
    TestProperty = {}
    MaxInt = 4
    Amounts = {1, 2, 3}
    SendAmounts = {1}
    FeeThreshold = 2
    FeeDivider = 2
    FeePerOwner <- UnitFees
    MaxOrders = 1
    Supply <- FeeSupply
    MayFreeze = {}
    InitFeatures = {"METADEX", "TRADEALLPAIRS", "FEES", "STOV1"}
    MayToggle = {}
    MayRestart = FALSE
INVARIANTS
    TokensConserved
    AssertionsHold
    FeesBelowThreshold
CHECK_DEADLOCK FALSE
