\* Two players, with one character each, who walk between two maps; one of them
\* selects its character again in the game.  The database may fail.
SPECIFICATION FairSpec
CONSTANTS
    p1 = p1
    p2 = p2
    c1 = c1
    c2 = c2
    c3 = c3
    m1 = m1
    m2 = m2
    Player <- TwoPlayers
    Character <- TwoCharacters
    Own <- Owners
    NoCharacter = NoCharacter
    NoPlayer = NoPlayer
    Ghost = Ghost
    Reselects = {p1}
    GameMap <- TwoMaps
    Cell = {1, 2, 3}
    FirstMap = m1
    Path <- ToExit
    Trigger <- Exits
    MaxBusy = 2
    MayFail = TRUE
INVARIANTS
    TypeOK
    ActionIsCurrent
    NobodyMissing
    BusyWhileMoving
PROPERTIES
    LeaverDisappears
