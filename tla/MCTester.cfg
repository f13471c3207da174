CONSTANTS
    k1 = k1
    k2 = k2
    Node = {0, 1}
    Client = Client
    Nobody = Nobody
    Call = {k1, k2}
    Routes <- MCRoutes
    MaxInc <- MCMaxInc
    CleanupAfter = 1
    Conn <- MCConn
    Rpc <- MCRpc
    NoReply = NoReply
    Failed = Failed
SPECIFICATION Spec
CHECK_DEADLOCK FALSE
INVARIANTS
    AlwaysMatched
    OwnReply
    ServicesReady
    AckedIsDurable
PROPERTIES
    OnlyCurrentServerSends
    CallsReturn
    SendReceiveReturns
    OperationsEnd
