CONSTANTS
    Address = {1, 2}
    Property = {1, 2, 3, 4}
    MaxInt = 5
    FirstSP <- ThreeProperties
    FirstCrowds <- OneCrowd
    Supply <- FourTokens
    Satoshi = 2
    Percent = 10
    Week = 2
    SaleInput <- SomeSales
    Amount = {1}
    Divisible = {FALSE}
    MaxTime = 2
    MaxTxs = 4
    Features = {TRUE, FALSE}
SPECIFICATION Spec
INVARIANTS
    HistoryExplainsSupply
    BooksBalance
    SaleBelongsToIssuer
    IssuerBonusExact
    NoLateTokens
PROPERTIES
    EverySaleEnds
CHECK_DEADLOCK FALSE
