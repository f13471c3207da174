CONSTANTS
    Srv = {0, 1, 2}
    Clnt = {c1}
    All = All
SPECIFICATION Spec
INVARIANTS
    ConnectedIsPrecise
    PartitionIsExact
    FailureShown
    ClientReach
