SPECIFICATION Spec
CONSTANTS
    Feature = {1, 2}
    FirstBlock <- OneIsLive
    OffBlock <- AllForGood
    Never = 100
    MinNotice = 1
    MaxNotice = 2
    Authorized <- Foundation
    Tx <- SomeTxs
    MaxBlocks = 4
    MaxBlockTxs = 2
    MaxTxs = 3
    MaxReplays = 2
INVARIANTS
    FeaturesFollowChain
    LiveOnlyAnnounced
    OutdatedStops
CHECK_DEADLOCK FALSE
