\* A loop fails and no signal comes.
SPECIFICATION FairSpec
CONSTANTS
    c1 = c1
    c2 = c2
    Client <- OneClient
    MayStall <- Nobody
    MayHappen <- NoSignal
    Free = Free
    Maintenance = Maintenance
PROPERTIES
    ErrorIsReported
CHECK_DEADLOCK FALSE
