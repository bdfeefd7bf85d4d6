\* One client, which may stop reading; anything may fail at any time.
SPECIFICATION FairSpec
CONSTANTS
    c1 = c1
    c2 = c2
    Client <- OneClient
    MayStall <- OneClient
    MayHappen <- Anything
    Free = Free
    Maintenance = Maintenance
INVARIANTS
    TypeOK
    PoolOutlivesUsers
    ReaderIsTracked
    OnlineMeansListening
PROPERTIES
    ShutdownCompletes
