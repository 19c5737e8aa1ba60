SPECIFICATION Spec
CONSTANTS
    A = A
    B = B
    Nobody = Nobody
    Address = {A, B}
    AddressRank <- TwoRank
    Property = {1, 2, 3, 5}
    TestProperty = {2, 5}
    MaxInt = 2
    Amounts = {1}
    SendAmounts = {1}
    FeeThreshold = 1
    FeeDivider = 2
    FeePerOwner <- UnitFees
    MaxOrders = 2
    Supply <- EcosystemSupply
    MayFreeze <- FrozenA
    InitFeatures = {"METADEX"}
    MayToggle = {"METADEX", "STOV1"}
    MayRestart = TRUE
INVARIANTS
    ReserveIsBook
    AssertionsHold
CHECK_DEADLOCK FALSE
