\* A client in the game presents a second ticket.
SPECIFICATION Spec
CONSTANTS
    s1 = s1
    s2 = s2
    x = x
    y = y
    x1 = x1
    x2 = x2
    y1 = y1
    Session <- TwoSessions
    Account <- TwoAccounts
    Character <- ThreeCharacters
    AccountOf <- Owners
    StoredCharacters <- FirstCharacters
    MaxCharacters = 1
    IdlePackets <- TicketPacket
    MaxBuffered = 1
    MayStall = {}
    NoSession = NoSession
    NoAccount = NoAccount
    NoCharacter = NoCharacter
    Nothing = Nothing
INVARIANTS
    RefusedOnlyIfLoggedIn
CHECK_DEADLOCK FALSE
