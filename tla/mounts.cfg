\* Two characters, two mounts and a certificate that can be issued anew after
\* one has expired; any handler and the maintenance may fail after any write.
SPECIFICATION FairSpec
CONSTANTS
    alice = alice
    bob = bob
    muldo = muldo
    dragoturkey = dragoturkey
    Mount = {muldo, dragoturkey}
    Character = {alice, bob}
    NoMount = NoMount
    NoCharacter = NoCharacter
    Unborn = Unborn
    Adrift = Adrift
    Gone = Gone
    Lifetime = 1
    MaxTime = 3
INVARIANTS
    TypeOK
    OnePlace
    UsedIsOwned
PROPERTIES
    DeletedIsUnused
    AdriftIsDeleted
    ImplementsKeeping
