CONSTANTS
    Key = {l1, l2}
    Value <- MCValue
    NoValue = NoValue
    Client = {c1, c2}
    NoClient = NoClient
    Disconnects = TRUE
    MaxDrops = 2
    MaxId = 2
    MaxRounds = 2
SPECIFICATION FairSpec
INVARIANTS
    MutualExclusion
    ReleaseEffective
    HolderRecorded
    IInv
PROPERTIES
    ImplementsMutex
    EveryAcquireReturns
