\* Clients may repeat every login packet once they are in the game.
SPECIFICATION Spec
CONSTANTS
    s1 = s1
    s2 = s2
    x = x
    y = y
    x1 = x1
    x2 = x2
    y1 = y1
    Session <- TwoSessions
    Account <- TwoAccounts
    Character <- ThreeCharacters
    AccountOf <- Owners
    StoredCharacters <- FirstCharacters
    MaxCharacters = 1
    IdlePackets <- AllLoginPackets
    MaxBuffered = 1
    MayStall = {}
    NoSession = NoSession
    NoAccount = NoAccount
    NoCharacter = NoCharacter
    Nothing = Nothing
SYMMETRY SessionSymmetry
INVARIANTS
    TypeOK
    AccountExclusive
    CharacterExclusive
    CharacterLimit
    RegistryInv
PROPERTIES
    ImplementsExclusivePlay
CHECK_DEADLOCK FALSE
