CONSTANTS
    alice = alice
    bob = bob
    text1 = text1
    text2 = text2
    NFT = 3
    Property = {3}
    Address = {alice, bob}
    Issuer = alice
    MaxInt = 3
    Data = {text1}
    DataInput <- HolderRange
    ByteBase = 2
    Feature = {TRUE, FALSE}
    MaxBlocks = 2
    MaxTxs = 3
    CrashInBlock = FALSE
SPECIFICATION Spec
INVARIANTS RowsAreRanges BalancesMatchRanges RollBackIsExact ChecksHold
PROPERTY ImplementsTokenOwners
