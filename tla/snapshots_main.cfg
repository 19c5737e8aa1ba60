CONSTANTS
    Label <- Labels
    SpLabel = {"a"}
    FreezeLabel = {"b"}
    Spacing = 1
    ReorgDepth = 2
    FaultSets <- NoneOrCrash
    MaxHeight = 4
    FaultyHeight = 3
    MaxConnects = 4
    MaxCrashes = 2
SPECIFICATION Spec
INVARIANTS MemoryFollowsChain DatabasesCoverChain 
