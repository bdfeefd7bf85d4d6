\* The server runs; one of two clients may stop reading.
SPECIFICATION FairSpec
CONSTANTS
    c1 = c1
    c2 = c2
    Client <- TwoClients
    MayStall <- OneClient
    MayHappen <- ClientTrouble
    Free = Free
    Maintenance = Maintenance
PROPERTIES
    DroppedIsForgotten
    MutexIsReleased
