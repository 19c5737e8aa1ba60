SPECIFICATION Spec
CONSTANTS
    a1 = a1
    a2 = a2
    a3 = a3
    Address = {a1, a2, a3}
    Property = {1}
    MaxInt = 100
    Txid = {1, 2, 3, 4, 5, 6}
    None = None
    Amounts = {1, 2}
    Prices = {3}
    MinFees = {1}
    Fees = {0, 1}
    Windows = {1}
    Payments = {1, 2}
    Supply <- MCSupply
    KeyRank <- MCKeyRank
    MayFreeze = {}
    InitFeatures = {"FREEDEX", "DEXMATH"}
    MayToggle = {}
SYMMETRY MCBuyers
INVARIANTS
    AcceptReserveBacked
    SellReserveHasOffer
    NeverOversold
PROPERTIES
    OnlyAcceptedTokensLeave
    AcceptsKeepTerms
    ImplementsEscrow
