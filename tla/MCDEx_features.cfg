SPECIFICATION Spec
CONSTANTS
    a1 = a1
    a2 = a2
    a3 = a3
    Address = {a1, a2}
    Property = {1, 2}
    MaxInt = 100
    Txid = {1, 2}
    None = None
    Amounts = {1, 2}
    Prices = {3}
    MinFees = {1}
    Fees = {1}
    Windows = {1}
    Payments = {1, 2}
    Supply <- MCSupplyTwoOne
    KeyRank <- MCKeyRank
    MayFreeze = {}
    InitFeatures = {}
    MayToggle = {"FREEDEX", "DEXMATH"}
INVARIANTS
    TallyAssertsHold
PROPERTIES
    AcceptsEnd
