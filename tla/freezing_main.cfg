SPECIFICATION Spec
CONSTANTS
    Address = {1, 2}
    Property = {1, 2}
    MaxInt = 3
    FirstIssuer = 1
    Supply <- OneEach
    Tx <- SomeTxs
    FirstTxs <- EnabledFirst
    Notices = {TRUE, FALSE}
    WaitPeriod = 1
    KeyBase = 3
    KeyWide = 3
    MaxBlocks = 4
    MaxBlockTxs = 2
    MaxTxs = 4
    MaxReplays = 1
INVARIANTS
    FrozenOnlyWhileEnabled
    ReplaysAreFaithful
    StopsAreExplained
CHECK_DEADLOCK FALSE
