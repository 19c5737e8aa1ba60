SPECIFICATION Spec
CONSTANTS
    a1 = a1
    a2 = a2
    a3 = a3
    Address = {a1, a2}
    Property = {1, 2}
    MaxInt = 1
    Txid = {1, 2, 3, 4, 5, 6}
    None = None
    Amounts = {0, 1}
    Prices <- MCEdgePrices
    MinFees = {1}
    Fees = {0, 1}
    Windows = {1}
    Payments = {1, 2}
    Supply <- MCSupplyOne
    KeyRank <- MCKeyRank
    MayFreeze <- MCFrozenSeller
    InitFeatures = {"FREEDEX", "DEXMATH"}
    MayToggle = {}
CHECK_DEADLOCK FALSE
INVARIANTS
    TypeOK
    OneOfferPerSeller
    TallyAssertsHold
