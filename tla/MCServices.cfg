CONSTANTS
    MaxLate = 1
    MaxMasterBoots = 1
    Thread = {t1, t2}
    NoConn = NoConn
    Slaves = 1
    PoolSize = 2
    MaxCommands = 4
    MaxDowns = 1
    MaxThreads = 2
    MaxFds = 5
    MaxClients = 6
    NoNode = NoNode
    Node <- MCNode
    Key <- MCKey
    NodeHash <- MCNodeHash
    KeyHash <- MCKeyHash
SPECIFICATION Spec
INVARIANTS
    SeenInOrder
    ConnectionsConserved DryOnlyIfUndersized
    LoggerOutlivesThreads
PROPERTIES
    StopReturns IdleReported
    KeepaliveHeals
    AcceptResumes
    OnlyOwnKeysMove
CHECK_DEADLOCK FALSE
