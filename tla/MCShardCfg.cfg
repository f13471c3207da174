CONSTANTS
    NShards = 4
    Gid <- MCGid
    MaxNum = 4
    MaxGids = 2
SPECIFICATION Spec
INVARIANTS
    BalancedResult
    MembersServe
    MovesOnlyWhatMust
PROPERTIES
    EveryCallReturns
