\* Clients log in once and then play; any of them may stop reading for good.
SPECIFICATION FairSpec
CONSTANTS
    s1 = s1
    s2 = s2
    x = x
    y = y
    x1 = x1
    x2 = x2
    y1 = y1
    Session <- TwoSessions
    Account <- TwoAccounts
    Character <- ThreeCharacters
    AccountOf <- Owners
    StoredCharacters <- FirstCharacters
    MaxCharacters = 1
    IdlePackets <- NoPackets
    MaxBuffered = 1
    MayStall <- TwoSessions
    NoSession = NoSession
    NoAccount = NoAccount
    NoCharacter = NoCharacter
    Nothing = Nothing
INVARIANTS
    RegistryExact
    PlayedIsStored
PROPERTIES
    KickedAccountIsFreed
CHECK_DEADLOCK FALSE
