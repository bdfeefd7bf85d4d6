--------------------------- MODULE SessionsProofs ---------------------------
(***************************************************************************)
(* For every set of connections, accounts and characters, and for clients  *)
(* that send any packet at any time: no account is logged in twice and no  *)
(* character is played twice.  The argument is the invariant RegistryInv:  *)
(* a tracked session holds the account entry of the account it has and of  *)
(* the account of the character it plays, so two of them cannot share one. *)
(***************************************************************************)
EXTENDS Sessions, FiniteSetTheorems, TLAPS

USE DEF registryVars, sessionVars, connVars, handlerVars

\* The server starts with every variable in its type.
LEMMA TypeInit == ASSUME SessionsAssumption PROVE Init => TypeOK
  BY DEF SessionsAssumption, Init, TypeOK, Status, Point, HandlerPoint

\* Reading a packet keeps the number of buffered packets in its range.
LEMMA ReadPacketType ==
  ASSUME SessionsAssumption, TypeOK, NEW s \in Session, ReadPacket(s)
  PROVE  /\ unread' \in [Session -> 0..MaxBuffered]
         /\ conn' = conn
         /\ stalled' = stalled
         /\ pc[s] = "reading"
  BY DEF SessionsAssumption, TypeOK, ReadPacket

\* Closing a connection changes nothing but the connection.
LEMMA CloseConnType ==
  ASSUME SessionsAssumption, TypeOK, NEW s \in Session, CloseConn(s)
  PROVE  /\ unread' \in [Session -> 0..MaxBuffered]
         /\ conn' \in [Session -> {"open", "closed"}]
         /\ stalled' = stalled
  BY DEF SessionsAssumption, TypeOK, CloseConn

\* Moving a session's goroutine keeps the types of where it is and what it is
\* about.
LEMMA GotoType ==
  ASSUME TypeOK, NEW s \in Session, NEW p \in Point,
         NEW z \in Account \cup Character \cup {Nothing}, Goto(s, p, z)
  PROVE  /\ pc' \in [Session -> Point]
         /\ subject' \in [Session -> Account \cup Character \cup {Nothing}]
         /\ pc' = [pc EXCEPT ![s] = p]
         /\ subject' = [subject EXCEPT ![s] = z]
  BY DEF TypeOK, Goto

\* Every variable keeps its type, given that a handler which is about to
\* control an account has one.
LEMMA TypeStep ==
  ASSUME SessionsAssumption, TypeOK, SubjectOwned, [Next]_vars
  PROVE  TypeOK'
<1> USE SessionsAssumption DEF Point, HandlerPoint, Done, Abort, Receive
<1>1. CASE UNCHANGED vars
  BY <1>1 DEF TypeOK, vars
<1>2. ASSUME NEW s \in Session, Proceed(s) PROVE TypeOK'
  <2>1. CASE controlAccount(s)
    <3> DEFINE a == subject[s]
    <3>1. a \in Account
      BY <2>1 DEF controlAccount, SubjectOwned
    <3>2. CASE byAccount[a] # NoSession
      <4>1. CloseConn(byAccount[a]) /\ byAccount[a] \in Session
        BY <2>1, <3>1, <3>2 DEF controlAccount, TypeOK
      <4> QED
        BY <2>1, <3>1, <3>2, <4>1, CloseConnType, GotoType
           DEF controlAccount, TypeOK
    <3>3. CASE byAccount[a] = NoSession
      <4>1. /\ Goto(s, "loadAccount", Nothing)
            /\ accountId' \in [Session -> Account \cup {NoAccount}]
            /\ byAccount' \in [Account -> Session \cup {NoSession}]
            /\ UNCHANGED <<sessions, byCharacter, status, characterId, conn,
                           unread, stalled, stored>>
        BY <2>1, <3>1, <3>3 DEF controlAccount, TypeOK
      <4>2. /\ pc' \in [Session -> Point]
            /\ subject' \in [Session -> Account \cup Character \cup {Nothing}]
        BY <4>1, GotoType
      <4> QED
        BY <4>1, <4>2 DEF TypeOK
    <3> QED
      BY <3>2, <3>3
  <2>2. CASE TicketAccepted(s) \/ CharacterSelected(s) \/ GameCreated(s)
    BY <2>2, GotoType DEF TicketAccepted, CharacterSelected, GameCreated,
                          Advance, TypeOK, Status
  <2>3. CASE SelectCharacter(s)
    <3>1. subject[s] \in Character
      BY <2>3 DEF SelectCharacter, SubjectOwned
    <3> QED
      BY <2>3, <3>1, GotoType DEF SelectCharacter, TypeOK
  <2>4. CASE CreateCharacter(s) \/ CharacterNameTaken(s) \/ CharacterDeleted(s)
    BY <2>4, GotoType DEF CreateCharacter, CharacterNameTaken,
                          CharacterDeleted, TypeOK
  <2>5. CASE HandlerFails(s) \/ ReadFails(s) \/ MapTold(s) \/ LeavingTold(s)
    BY <2>5, GotoType DEF HandlerFails, ReadFails, Leave, MapTold, LeavingTold, TypeOK
  <2>6. CASE Teardown(s)
    BY <2>6, GotoType DEF Teardown, TypeOK
  <2> QED
    BY <1>2, <2>1, <2>2, <2>3, <2>4, <2>5, <2>6 DEF Proceed
<1>3. ASSUME NEW s \in Session, Environment(s) PROVE TypeOK'
  <2>1. CASE Connect(s)
    BY <2>1 DEF Connect, TypeOK
  <2>2. CASE Disconnect(s) \/ Stall(s)
    BY <2>2, CloseConnType DEF Disconnect, Stall, TypeOK
  <2>3. CASE DeadlineExceeded(s)
    BY <2>3, GotoType DEF DeadlineExceeded, Leave, TypeOK
  <2>4. CASE PacketHandled(s)
    BY <2>4, ReadPacketType, GotoType DEF PacketHandled, TypeOK
  <2>5. CASE PacketRejected(s)
    BY <2>5, ReadPacketType, GotoType DEF PacketRejected, TypeOK
  <2>6. CASE SendTicket(s)
    BY <2>6, ReadPacketType, GotoType DEF SendTicket, TypeOK
  <2>7. CASE UseKey(s) \/ RequestRegionalVersion(s) \/ GetGifts(s)
    <3>1. ReadPacket(s) /\ Goto(s, "reading", Nothing)
      BY <2>7 DEF UseKey, RequestRegionalVersion, GetGifts, Advance
    <3>2. /\ status' \in [Session -> Status]
          /\ UNCHANGED <<registryVars, accountId, characterId, stored>>
      BY <2>7 DEF UseKey, RequestRegionalVersion, GetGifts, Advance, TypeOK, Status
    <3> QED
      BY <3>1, <3>2, ReadPacketType, GotoType DEF TypeOK
  <2>8. CASE SetCharacter(s) \/ AddCharacter(s) \/ DeleteCharacter(s)
    BY <2>8, ReadPacketType, GotoType
       DEF SetCharacter, AddCharacter, DeleteCharacter, OwnCharacters, TypeOK
  <2>9. CASE GameCreate(s)
    BY <2>9, ReadPacketType, GotoType DEF GameCreate, TypeOK
  <2> QED
    BY <1>3, <2>1, <2>2, <2>3, <2>4, <2>5, <2>6, <2>7, <2>8, <2>9
       DEF Environment, Packet
<1> QED
  BY <1>1, <1>2, <1>3 DEF Next

-----------------------------------------------------------------------------
(* The registry *)

\* A step that leaves the registry and the ids alone, moves one tracked
\* session to a point where it is tracked, and gives its handler an account
\* or a character it owns, keeps the registry invariant.
LEMMA HandlerStep ==
  ASSUME SessionsAssumption, TypeOK, RegistryInv, NEW s \in Session,
         pc[s] \notin {"none", "gone"},
         NEW p \in Point \ {"none", "gone"},
         NEW z \in Account \cup Character \cup {Nothing},
         Goto(s, p, z),
         p = "controlAccount" => z \in Account,
         p \in {"selectCharacter", "deleteCharacter"} =>
             z \in Character /\ AccountOf[z] = accountId[s],
         UNCHANGED <<registryVars, accountId, characterId>>
  PROVE  RegistryInv'
  BY DEF RegistryInv, SubjectOwned, Goto, TypeOK

\* The empty registry satisfies the invariant.
LEMMA RegistryInit == ASSUME SessionsAssumption PROVE Init => RegistryInv
  BY DEF SessionsAssumption, Init, RegistryInv, SubjectOwned

\* Accepting an account: its entry was free, so no tracked session has it.
LEMMA AcceptAccount ==
  ASSUME SessionsAssumption, TypeOK, RegistryInv, NEW s \in Session,
         controlAccount(s)
  PROVE  RegistryInv'
<1> USE SessionsAssumption DEF SessionsAssumption
<1> DEFINE a == subject[s]
<1>1. a \in Account /\ pc[s] = "controlAccount" /\ s \in sessions
  BY DEF controlAccount, RegistryInv, SubjectOwned
<1>2. CASE byAccount[a] # NoSession
  BY <1>1, <1>2, HandlerStep DEF controlAccount, Abort, Point, HandlerPoint
<1>3. CASE byAccount[a] = NoSession
  <2>1. /\ accountId' = [accountId EXCEPT ![s] = a]
        /\ byAccount' = [byAccount EXCEPT ![a] = s]
        /\ pc' = [pc EXCEPT ![s] = "loadAccount"]
        /\ subject' = [subject EXCEPT ![s] = Nothing]
        /\ UNCHANGED <<sessions, byCharacter, characterId>>
    BY <1>3 DEF controlAccount, Goto
  <2>2. \A t \in sessions : characterId[t] # NoCharacter =>
            /\ characterId[t] \in Character
            /\ AccountOf[characterId[t]] \in Account
            /\ AccountOf[characterId[t]] # a
    BY <1>1, <1>3 DEF RegistryInv, TypeOK
  <2> QED
    BY <1>1, <1>3, <2>1, <2>2 DEF RegistryInv, SubjectOwned, TypeOK
<1> QED
  BY <1>2, <1>3

\* Selecting a character: the session holds the account that owns it, so
\* nobody else plays it and overwriting its entry takes it from nobody.
LEMMA SelectOwned ==
  ASSUME SessionsAssumption, TypeOK, RegistryInv, NEW s \in Session,
         SelectCharacter(s)
  PROVE  RegistryInv'
<1> USE SessionsAssumption DEF SessionsAssumption
<1> DEFINE c == subject[s]
<1>1. /\ c \in Character
      /\ pc[s] = "selectCharacter"
      /\ s \in sessions
      /\ AccountOf[c] = accountId[s]
      /\ accountId[s] \in Account
  BY DEF SelectCharacter, RegistryInv, SubjectOwned
<1>2. byAccount[AccountOf[c]] = s
  BY <1>1 DEF RegistryInv
<1>3. \A t \in sessions \ {s} : characterId[t] # c
  BY <1>1, <1>2 DEF RegistryInv
<1>4. /\ characterId' = [characterId EXCEPT ![s] = c]
      /\ byCharacter' = [byCharacter EXCEPT ![c] = s]
      /\ pc' = [pc EXCEPT ![s] = "sendCharacter"]
      /\ subject' = [subject EXCEPT ![s] = Nothing]
      /\ UNCHANGED <<sessions, byAccount, accountId>>
  BY DEF SelectCharacter, Goto
<1> QED
  BY <1>1, <1>2, <1>3, <1>4 DEF RegistryInv, SubjectOwned, TypeOK

\* Ending a session: the entries it drops are its own.
LEMMA TeardownOwn ==
  ASSUME SessionsAssumption, TypeOK, RegistryInv, NEW s \in Session,
         Teardown(s)
  PROVE  RegistryInv'
<1> USE SessionsAssumption DEF SessionsAssumption
<1>1. s \in sessions
  BY DEF Teardown, RegistryInv
<1>2. ASSUME NEW t \in sessions \ {s}
      PROVE  /\ accountId[t] # NoAccount =>
                   accountId[t] \in Account /\ accountId[t] # accountId[s]
             /\ characterId[t] # NoCharacter =>
                   /\ characterId[t] \in Character
                   /\ AccountOf[characterId[t]] \in Account
                   /\ AccountOf[characterId[t]] # accountId[s]
                   /\ characterId[t] # characterId[s]
  BY <1>1, <1>2 DEF RegistryInv, TypeOK
<1>3. /\ sessions' = sessions \ {s}
      /\ pc' = [pc EXCEPT ![s] = "gone"]
      /\ subject' = [subject EXCEPT ![s] = Nothing]
      /\ UNCHANGED <<accountId, characterId>>
      /\ byAccount' = [a \in Account |->
                          IF a = accountId[s] THEN NoSession ELSE byAccount[a]]
      /\ byCharacter' = [d \in Character |->
                            IF d = characterId[s] THEN NoSession
                                                  ELSE byCharacter[d]]
  BY DEF Teardown, Goto
<1> QED
  BY <1>1, <1>2, <1>3 DEF RegistryInv, SubjectOwned, TypeOK

\* A handler starts about an account, an own character or nothing.
LEMMA PacketStep ==
  ASSUME SessionsAssumption, TypeOK, RegistryInv, NEW s \in Session, Packet(s)
  PROVE  RegistryInv'
<1> USE SessionsAssumption DEF SessionsAssumption, Point, HandlerPoint,
                               Receive, Done, Abort
<1>1. pc[s] = "reading"
  BY DEF Packet, PacketHandled, PacketRejected, SendTicket, UseKey,
         RequestRegionalVersion, GetGifts, SetCharacter, AddCharacter,
         DeleteCharacter, GameCreate, ReadPacket
<1>2. CASE PacketHandled(s)
  <2>1. CASE UNCHANGED handlerVars
    BY <1>2, <2>1 DEF PacketHandled, RegistryInv, SubjectOwned
  <2>2. CASE Goto(s, "tellMap", Nothing)
    BY <1>1, <1>2, <2>2, HandlerStep DEF PacketHandled
  <2> QED
    BY <1>2, <2>1, <2>2 DEF PacketHandled
<1>3. CASE PacketRejected(s)
  BY <1>1, <1>3, HandlerStep DEF PacketRejected
<1>4. CASE SendTicket(s)
  BY <1>1, <1>4, HandlerStep DEF SendTicket
<1>5. CASE UseKey(s) \/ RequestRegionalVersion(s) \/ GetGifts(s)
  BY <1>1, <1>5, HandlerStep
     DEF UseKey, RequestRegionalVersion, GetGifts, Advance
<1>6. CASE SetCharacter(s)
  BY <1>1, <1>6, HandlerStep DEF SetCharacter, OwnCharacters
<1>7. CASE AddCharacter(s)
  BY <1>1, <1>7, HandlerStep DEF AddCharacter
<1>8. CASE DeleteCharacter(s)
  BY <1>1, <1>8, HandlerStep DEF DeleteCharacter, OwnCharacters
<1>9. CASE GameCreate(s)
  BY <1>1, <1>9, HandlerStep DEF GameCreate
<1> QED
  BY <1>2, <1>3, <1>4, <1>5, <1>6, <1>7, <1>8, <1>9 DEF Packet

\* Every step of the server keeps the registry invariant.
LEMMA RegistryStep ==
  ASSUME SessionsAssumption, TypeOK, RegistryInv, [Next]_vars
  PROVE  RegistryInv'
<1> USE SessionsAssumption DEF SessionsAssumption, Point, HandlerPoint,
                               Done, Abort
<1>1. CASE UNCHANGED vars
  BY <1>1 DEF RegistryInv, SubjectOwned, vars
<1>2. ASSUME NEW s \in Session, Proceed(s) PROVE RegistryInv'
  <2>1. CASE controlAccount(s)
    BY <2>1, AcceptAccount
  <2>2. CASE TicketAccepted(s) \/ CharacterSelected(s) \/ GameCreated(s)
    BY <2>2, HandlerStep
       DEF TicketAccepted, CharacterSelected, GameCreated, Advance
  <2>3. CASE SelectCharacter(s)
    BY <2>3, SelectOwned
  <2>4. CASE CreateCharacter(s) \/ CharacterNameTaken(s) \/ CharacterDeleted(s)
    BY <2>4, HandlerStep
       DEF CreateCharacter, CharacterNameTaken, CharacterDeleted
  <2>5. CASE HandlerFails(s) \/ ReadFails(s) \/ MapTold(s) \/ LeavingTold(s)
    BY <2>5, HandlerStep DEF HandlerFails, ReadFails, Leave, MapTold, LeavingTold
  <2>6. CASE Teardown(s)
    BY <2>6, TeardownOwn
  <2> QED
    BY <1>2, <2>1, <2>2, <2>3, <2>4, <2>5, <2>6 DEF Proceed
<1>3. ASSUME NEW s \in Session, Environment(s) PROVE RegistryInv'
  <2>1. CASE Connect(s)
    BY <2>1 DEF Connect, RegistryInv, SubjectOwned, TypeOK
  <2>2. CASE Disconnect(s) \/ Stall(s)
    BY <2>2 DEF Disconnect, Stall, RegistryInv, SubjectOwned
  <2>3. CASE DeadlineExceeded(s)
    BY <2>3, HandlerStep DEF DeadlineExceeded, Leave
  <2>4. CASE Packet(s)
    BY <2>4, PacketStep
  <2> QED
    BY <1>3, <2>1, <2>2, <2>3, <2>4 DEF Environment
<1> QED
  BY <1>1, <1>2, <1>3 DEF Next

\* The invariant is inductive together with the types.
LEMMA Inductive == ASSUME SessionsAssumption PROVE Spec => [](TypeOK /\ RegistryInv)
<1>1. Init => TypeOK /\ RegistryInv
  BY TypeInit, RegistryInit
<1>2. TypeOK /\ RegistryInv /\ [Next]_vars => TypeOK' /\ RegistryInv'
  BY TypeStep, RegistryStep DEF RegistryInv
<1> QED
  BY <1>1, <1>2, PTL DEF Spec

\* Every variable has its type in every reachable state.
THEOREM TypeCorrect == ASSUME SessionsAssumption PROVE Spec => []TypeOK
  BY Inductive, PTL

\* A tracked session holds the registry entries of what it has.
THEOREM RegistryCorrect == ASSUME SessionsAssumption PROVE Spec => []RegistryInv
  BY Inductive, PTL

\* No two connections are logged in to the same account.
THEOREM AccountIsExclusive ==
  ASSUME SessionsAssumption PROVE Spec => []AccountExclusive
<1>1. TypeOK /\ RegistryInv => AccountExclusive
  BY DEF TypeOK, RegistryInv, AccountExclusive
<1> QED
  BY <1>1, Inductive, PTL

\* No two connections play the same character.
THEOREM CharacterIsExclusive ==
  ASSUME SessionsAssumption PROVE Spec => []CharacterExclusive
<1>1. TypeOK /\ RegistryInv => CharacterExclusive
  BY DEF TypeOK, RegistryInv, CharacterExclusive
<1> QED
  BY <1>1, Inductive, PTL

-----------------------------------------------------------------------------
(* Deleting characters *)

\* A character is deleted by the session that holds its account, and no
\* other session plays it.
THEOREM DeletionIsSafe ==
  ASSUME SessionsAssumption PROVE Spec => DeletedOnlyByHolder
<1> DEFINE Safe(c) ==
      stored[c] = "yes" /\ stored'[c] # "yes" =>
        /\ byAccount[AccountOf[c]] \in sessions
        /\ \A s \in sessions \ {byAccount[AccountOf[c]]} : characterId[s] # c
<1>1. ASSUME SessionsAssumption, TypeOK, RegistryInv, [Next]_vars,
             NEW c \in Character, stored[c] = "yes", stored'[c] # "yes"
      PROVE  Safe(c)
  <2>1. PICK s \in Session : CharacterDeleted(s)
    BY <1>1 DEF Next, vars, Proceed, Environment, Packet, controlAccount,
       TicketAccepted, Advance, SelectCharacter, CharacterSelected,
       CreateCharacter, CharacterNameTaken, GameCreated, HandlerFails,
       ReadFails, Leave, MapTold, LeavingTold, Teardown, Connect, Disconnect, Stall, DeadlineExceeded,
       PacketHandled, PacketRejected, SendTicket, UseKey,
       RequestRegionalVersion, GetGifts, SetCharacter, AddCharacter,
       DeleteCharacter, GameCreate, TypeOK
  <2>2. c = subject[s] /\ pc[s] = "deleteCharacter"
    BY <1>1, <2>1 DEF CharacterDeleted, TypeOK
  <2>3. /\ s \in sessions
        /\ AccountOf[c] = accountId[s]
        /\ accountId[s] # NoAccount
    BY <1>1, <2>2 DEF SessionsAssumption, RegistryInv, SubjectOwned
  <2>4. byAccount[AccountOf[c]] = s
    BY <1>1, <2>3 DEF RegistryInv
  <2>5. \A t \in sessions \ {s} : characterId[t] # c
    BY <1>1, <2>4 DEF SessionsAssumption, RegistryInv, TypeOK
  <2> QED
    BY <2>3, <2>4, <2>5
<1>2. TypeOK /\ RegistryInv /\ [Next]_vars => \A c \in Character : Safe(c)
  BY <1>1
<1>3. TypeOK /\ RegistryInv /\ [Next]_vars =>
        [\A c \in Character : Safe(c)]_vars
  BY <1>2
<1> QED
  BY <1>3, Inductive, PTL DEF Spec, DeletedOnlyByHolder

-----------------------------------------------------------------------------
(* Refinement *)

\* The characters that tracked sessions play: the abstract variable playing.
Played == [s \in Session |-> IF s \in sessions THEN characterId[s]
                                              ELSE NoCharacter]

\* Accepting an account is the abstract Acquire, refusing it a stutter.
LEMMA AcceptAcquires ==
  ASSUME SessionsAssumption, TypeOK, RegistryInv, NEW s \in Session,
         controlAccount(s)
  PROVE  \/ \E a \in Account : Abstract!Acquire(s, a)
         \/ UNCHANGED <<byAccount, Played>>
<1>1. subject[s] \in Account
  BY DEF controlAccount, RegistryInv, SubjectOwned
<1>2. CASE byAccount[subject[s]] = NoSession
  <2>1. Abstract!Acquire(s, subject[s])
    BY <1>2 DEF controlAccount, Abstract!Acquire
  <2> QED
    BY <1>1, <2>1
<1>3. CASE byAccount[subject[s]] # NoSession
  BY <1>3 DEF controlAccount, Played
<1> QED
  BY <1>2, <1>3

\* Selecting a character is the abstract Play.
LEMMA SelectPlays ==
  ASSUME SessionsAssumption, TypeOK, RegistryInv, NEW s \in Session,
         SelectCharacter(s)
  PROVE  \E c \in Character : Abstract!Play(s, c)
<1> DEFINE c == subject[s]
<1>1. /\ c \in Character
      /\ s \in sessions
      /\ AccountOf[c] = accountId[s]
      /\ accountId[s] # NoAccount
  BY DEF SessionsAssumption, SelectCharacter, RegistryInv, SubjectOwned
<1>2. byAccount[AccountOf[c]] = s
  BY <1>1 DEF RegistryInv
<1>3. Played' = [Played EXCEPT ![s] = c]
  BY <1>1 DEF SelectCharacter, Played, TypeOK
<1>4. UNCHANGED byAccount
  BY DEF SelectCharacter
<1> QED
  BY <1>1, <1>2, <1>3, <1>4 DEF Abstract!Play, Played

\* Ending a session is the abstract Leave: it gives back its own account.
LEMMA TeardownLeaves ==
  ASSUME SessionsAssumption, TypeOK, RegistryInv, NEW s \in Session,
         Teardown(s)
  PROVE  Abstract!Leave(s)
<1> DEFINE released == {a \in Account : byAccount[a] = s /\ a = accountId[s]}
<1>1. s \in sessions
  BY DEF Teardown, RegistryInv
<1>2. \A a \in Account : a = accountId[s] <=> a \in released
  BY <1>1 DEF SessionsAssumption, RegistryInv
<1>3. byAccount' = [a \in Account |->
                      IF a \in released THEN NoSession ELSE byAccount[a]]
  BY <1>2 DEF Teardown
<1>4. Played' = [Played EXCEPT ![s] = NoCharacter]
  BY <1>1 DEF Teardown, Played, TypeOK
<1> QED
  BY <1>3, <1>4 DEF Abstract!Leave, Played

\* Every other step is invisible to the abstract specification.
LEMMA OthersStutter ==
  ASSUME SessionsAssumption, TypeOK, RegistryInv, [Next]_vars,
         \A s \in Session :
            ~ (controlAccount(s) \/ SelectCharacter(s) \/ Teardown(s))
  PROVE  UNCHANGED <<byAccount, Played>>
<1>1. CASE UNCHANGED vars
  BY <1>1 DEF vars, Played
<1>2. ASSUME NEW s \in Session, Connect(s)
      PROVE  UNCHANGED <<byAccount, Played>>
  <2>1. s \notin sessions /\ characterId[s] = NoCharacter
    BY <1>2 DEF Connect, RegistryInv
  <2> QED
    BY <1>2, <2>1 DEF Connect, Played
<1>3. ASSUME NEW s \in Session, Proceed(s) \/ Environment(s), ~ Connect(s)
      PROVE  UNCHANGED <<byAccount, Played>>
  <2>1. UNCHANGED <<byAccount, sessions, characterId>>
    BY <1>3 DEF Proceed, Environment, Packet, TicketAccepted, Advance,
       CharacterSelected, CreateCharacter, CharacterNameTaken,
       CharacterDeleted, GameCreated, HandlerFails, ReadFails, Leave, MapTold, LeavingTold, Disconnect, Stall,
       DeadlineExceeded, PacketHandled, PacketRejected, SendTicket, UseKey,
       RequestRegionalVersion, GetGifts, SetCharacter, AddCharacter,
       DeleteCharacter, GameCreate
  <2> QED
    BY <2>1 DEF Played
<1> QED
  BY <1>1, <1>2, <1>3 DEF Next

\* The registry implements exclusive play.
THEOREM Refinement ==
  ASSUME SessionsAssumption PROVE Spec => ImplementsExclusivePlay
<1>1. Init => Abstract!PlayInit
  BY DEF Init, Abstract!PlayInit
<1>2. ASSUME SessionsAssumption, TypeOK, RegistryInv, [Next]_vars
      PROVE  [Abstract!PlayNext]_Abstract!playVars
  <2>1. ASSUME NEW s \in Session, controlAccount(s)
        PROVE  Abstract!PlayNext \/ UNCHANGED <<byAccount, Played>>
    BY <1>2, <2>1, AcceptAcquires DEF Abstract!PlayNext
  <2>2. ASSUME NEW s \in Session, SelectCharacter(s) PROVE Abstract!PlayNext
    BY <1>2, <2>2, SelectPlays DEF Abstract!PlayNext
  <2>3. ASSUME NEW s \in Session, Teardown(s) PROVE Abstract!PlayNext
    BY <1>2, <2>3, TeardownLeaves DEF Abstract!PlayNext
  <2>4. Abstract!PlayNext \/ UNCHANGED <<byAccount, Played>>
    BY <1>2, <2>1, <2>2, <2>3, OthersStutter
  <2> QED
    BY <2>4 DEF Abstract!playVars, Played
<1>3. TypeOK /\ RegistryInv /\ [Next]_vars =>
        [Abstract!PlayNext]_Abstract!playVars
  BY <1>2
<1> QED
  BY <1>1, <1>3, Inductive, PTL DEF Spec, ImplementsExclusivePlay, Abstract!PlaySpec

-----------------------------------------------------------------------------
(* The limit on characters *)

\* A handler that counted the characters of its account may add one: nobody
\* else adds to that account before it does.
LimitInv ==
    /\ \A a \in Account : /\ IsFiniteSet(OwnCharacters(a))
                          /\ Cardinality(OwnCharacters(a)) <= MaxCharacters
    /\ \A s \in Session, a \in Account :
          pc[s] = "createCharacter" /\ accountId[s] = a =>
              Cardinality(OwnCharacters(a)) < MaxCharacters

LEMMA LimitInit == ASSUME SessionsAssumption PROVE Init => LimitInv
<1> SUFFICES ASSUME Init PROVE LimitInv
  OBVIOUS
<1>1. ASSUME NEW a \in Account
      PROVE  OwnCharacters(a) = {c \in StoredCharacters : AccountOf[c] = a}
  BY DEF Init, OwnCharacters, SessionsAssumption
<1> QED
  BY <1>1 DEF Init, LimitInv, SessionsAssumption

\* Creating a character fills the place that was counted.
LEMMA LimitCreate ==
  ASSUME SessionsAssumption, TypeOK, RegistryInv, LimitInv, NEW s \in Session,
         CreateCharacter(s)
  PROVE  LimitInv'
<1>1. PICK c \in Character : /\ AccountOf[c] = accountId[s]
                            /\ stored' = [stored EXCEPT ![c] = "yes"]
  BY DEF CreateCharacter
<1>2. PICK a \in Account : a = accountId[s]
  BY <1>1 DEF SessionsAssumption
<1>3. /\ pc[s] = "createCharacter" /\ s \in sessions
      /\ pc' \in {[pc EXCEPT ![s] = "reading"], [pc EXCEPT ![s] = "returned"]}
      /\ UNCHANGED accountId
  BY DEF CreateCharacter, Done, Abort, Goto, RegistryInv
<1>4. \A b \in Account :
         OwnCharacters(b)' = IF b = a THEN OwnCharacters(b) \cup {c}
                                      ELSE OwnCharacters(b)
  BY <1>1, <1>2 DEF OwnCharacters, TypeOK
<1>5. /\ IsFiniteSet(OwnCharacters(a) \cup {c})
      /\ Cardinality(OwnCharacters(a) \cup {c}) <= MaxCharacters
  <2>1. /\ IsFiniteSet(OwnCharacters(a))
        /\ Cardinality(OwnCharacters(a)) < MaxCharacters
    BY <1>2, <1>3 DEF LimitInv
  <2>2. Cardinality(OwnCharacters(a)) \in Nat
    BY <2>1, FS_CardinalityType
  <2>3. Cardinality(OwnCharacters(a) \cup {c}) \in
           {Cardinality(OwnCharacters(a)), Cardinality(OwnCharacters(a)) + 1}
    BY <2>1, FS_AddElement
  <2> QED
    BY <2>1, <2>2, <2>3, FS_AddElement DEF SessionsAssumption
<1>6. ASSUME NEW t \in Session, NEW b \in Account, pc'[t] = "createCharacter",
             accountId'[t] = b
      PROVE  Cardinality(OwnCharacters(b)') < MaxCharacters
  <2>1. t # s /\ pc[t] = "createCharacter" /\ accountId[t] = b
    BY <1>3, <1>6 DEF TypeOK
  <2>2. t \in sessions
    BY <2>1 DEF RegistryInv
  <2>3. b # a
    BY <1>2, <1>3, <2>1, <2>2 DEF RegistryInv, SessionsAssumption
  <2> QED
    BY <1>4, <2>1, <2>3 DEF LimitInv
<1> QED
  BY <1>4, <1>5, <1>6 DEF LimitInv

\* Deleting one makes room.
LEMMA LimitDelete ==
  ASSUME SessionsAssumption, TypeOK, RegistryInv, LimitInv, NEW s \in Session,
         CharacterDeleted(s)
  PROVE  LimitInv'
<1>1. /\ stored' = [stored EXCEPT ![subject[s]] = "deleted"]
      /\ pc' \in {[pc EXCEPT ![s] = "reading"], [pc EXCEPT ![s] = "returned"]}
      /\ UNCHANGED accountId
  BY DEF CharacterDeleted, Done, Abort, Goto
<1>2. \A b \in Account : OwnCharacters(b)' \subseteq OwnCharacters(b)
  BY <1>1 DEF OwnCharacters, TypeOK
<1>3. ASSUME NEW b \in Account
      PROVE  /\ IsFiniteSet(OwnCharacters(b)) /\ IsFiniteSet(OwnCharacters(b)')
             /\ Cardinality(OwnCharacters(b)) \in Nat
             /\ Cardinality(OwnCharacters(b)') \in Nat
             /\ Cardinality(OwnCharacters(b)') <= Cardinality(OwnCharacters(b))
  BY <1>2, FS_Subset, FS_CardinalityType DEF LimitInv
<1>4. \A t \in Session : pc'[t] = "createCharacter" => pc[t] = "createCharacter"
  BY <1>1 DEF TypeOK
<1>5. MaxCharacters \in Nat
  BY DEF SessionsAssumption
<1>6. ASSUME NEW b \in Account
      PROVE  Cardinality(OwnCharacters(b)') <= MaxCharacters
  BY <1>3, <1>5, <1>6 DEF LimitInv
<1>7. ASSUME NEW t \in Session, NEW b \in Account, pc'[t] = "createCharacter",
             accountId'[t] = b
      PROVE  Cardinality(OwnCharacters(b)') < MaxCharacters
  <2>1. Cardinality(OwnCharacters(b)) < MaxCharacters
    BY <1>1, <1>4, <1>7 DEF LimitInv
  <2> QED
    BY <1>3, <1>5, <2>1
<1> QED
  BY <1>3, <1>6, <1>7 DEF LimitInv

\* No other step creates a character, and a handler comes to the point where it
\* creates one only from its count.
LEMMA LimitOthers ==
  ASSUME SessionsAssumption, TypeOK, RegistryInv, [Next]_vars,
         \A s \in Session : ~ (CreateCharacter(s) \/ CharacterDeleted(s))
  PROVE  /\ UNCHANGED stored
         /\ \A t \in Session : pc'[t] = "createCharacter" =>
               /\ accountId'[t] = accountId[t]
               /\ \/ pc[t] = "createCharacter"
                  \/ Cardinality(OwnCharacters(accountId[t])) < MaxCharacters
<1> USE DEF Goto, Done, Abort, Advance, TypeOK, RegistryInv, SubjectOwned
<1>1. CASE UNCHANGED vars
  BY <1>1 DEF vars
<1>2. ASSUME NEW s \in Session, Proceed(s),
             ~ (CreateCharacter(s) \/ CharacterDeleted(s))
      PROVE  /\ UNCHANGED stored
             /\ \A t \in Session : pc'[t] = "createCharacter" =>
                   pc[t] = "createCharacter" /\ accountId'[t] = accountId[t]
  BY <1>2 DEF Proceed, controlAccount, TicketAccepted, SelectCharacter,
     CharacterSelected, CharacterNameTaken, GameCreated, HandlerFails,
     ReadFails, Leave, MapTold, LeavingTold, Teardown
<1>3. ASSUME NEW s \in Session, Environment(s), ~ AddCharacter(s)
      PROVE  /\ UNCHANGED stored
             /\ \A t \in Session : pc'[t] = "createCharacter" =>
                   pc[t] = "createCharacter" /\ accountId'[t] = accountId[t]
  BY <1>3 DEF Environment, Packet, Connect, Disconnect, Stall, DeadlineExceeded, Leave,
     PacketHandled, PacketRejected, SendTicket, UseKey, RequestRegionalVersion,
     GetGifts, SetCharacter, DeleteCharacter, GameCreate
<1>4. ASSUME NEW s \in Session, AddCharacter(s)
      PROVE  /\ UNCHANGED <<stored, accountId>>
             /\ \A t \in Session : pc'[t] = "createCharacter" =>
                   \/ pc[t] = "createCharacter"
                   \/ Cardinality(OwnCharacters(accountId[t])) < MaxCharacters
  BY <1>4 DEF AddCharacter
<1> QED
  BY <1>1, <1>2, <1>3, <1>4 DEF Next

LEMMA LimitStep ==
  ASSUME SessionsAssumption, TypeOK, RegistryInv, LimitInv, [Next]_vars
  PROVE  LimitInv'
<1>1. ASSUME NEW s \in Session, CreateCharacter(s) PROVE LimitInv'
  BY <1>1, LimitCreate
<1>2. ASSUME NEW s \in Session, CharacterDeleted(s) PROVE LimitInv'
  BY <1>2, LimitDelete
<1>3. CASE \A s \in Session : ~ (CreateCharacter(s) \/ CharacterDeleted(s))
  <2>1. UNCHANGED stored
    BY <1>3, LimitOthers
  <2>2. \A b \in Account : OwnCharacters(b)' = OwnCharacters(b)
    BY <2>1 DEF OwnCharacters
  <2>3. ASSUME NEW t \in Session, NEW b \in Account,
               pc'[t] = "createCharacter", accountId'[t] = b
        PROVE  Cardinality(OwnCharacters(b)) < MaxCharacters
    <3>1. /\ accountId[t] = b
          /\ \/ pc[t] = "createCharacter"
             \/ Cardinality(OwnCharacters(b)) < MaxCharacters
      BY <1>3, <2>3, LimitOthers
    <3> QED
      BY <3>1 DEF LimitInv
  <2> QED
    BY <2>2, <2>3 DEF LimitInv
<1> QED
  BY <1>1, <1>2, <1>3

\* No account ever has more characters than the server allows, however the
\* counts, creations and deletions of its connections interleave.
THEOREM LimitIsKept == ASSUME SessionsAssumption PROVE Spec => []CharacterLimit
<1>1. LimitInv => CharacterLimit
  BY DEF LimitInv, CharacterLimit
<1>2. TypeOK /\ RegistryInv /\ LimitInv /\ [Next]_vars => LimitInv'
  BY LimitStep
<1> QED
  BY <1>1, <1>2, LimitInit, Inductive, PTL DEF Spec

-----------------------------------------------------------------------------
(* Clients that log in once *)

\* Once in the game, a client sends nothing that would log it in again.
LoginOnce == IdlePackets \subseteq {"AccountAddCharacter", "GameCreate"}

EarlyStatus ==
    {"ExpectingAccountSendTicket", "ExpectingAccountUseKey",
     "ExpectingAccountRequestRegionalVersion", "ExpectingAccountGetGifts"}

\* How far a session is tells which ids it has.
LoginOrder(s) ==
    /\ pc[s] \in {"none", "controlAccount", "loadAccount"} =>
          status[s] = "ExpectingAccountSendTicket"
    /\ pc[s] \in {"selectCharacter", "sendCharacter", "deleteCharacter"} =>
          status[s] = "ExpectingAccountSetCharacter"
    /\ pc[s] = "createCharacter" =>
          status[s] \in {"ExpectingAccountSetCharacter", "Idle"}
    /\ pc[s] = "createGame" => status[s] \in {"ExpectingGameCreate", "Idle"}
    /\ pc[s] = "tellMap" => status[s] = "Idle"
    /\ status[s] = "ExpectingAccountSendTicket"
          /\ pc[s] \in {"none", "reading", "controlAccount"} =>
          accountId[s] = NoAccount
    /\ status[s] \in EarlyStatus => characterId[s] = NoCharacter
    /\ status[s] = "ExpectingAccountSetCharacter"
          /\ pc[s] \notin {"sendCharacter", "returned", "gone"} =>
          characterId[s] = NoCharacter
    /\ pc[s] = "sendCharacter" \/ status[s] \in {"ExpectingGameCreate", "Idle"} =>
          characterId[s] # NoCharacter

\* The character a session plays, or is about to play, is in the database.
ChosenIsStored(s) ==
    /\ pc[s] = "selectCharacter" => stored[subject[s]] = "yes"
    /\ s \in sessions /\ characterId[s] # NoCharacter =>
          stored[characterId[s]] = "yes"

LoginInv ==
    /\ \A s \in Session : LoginOrder(s) /\ ChosenIsStored(s)
    /\ RegistryExact

LEMMA LoginInit == ASSUME SessionsAssumption, Init PROVE LoginInv
BY DEF SessionsAssumption, Init, LoginInv, LoginOrder, EarlyStatus,
   ChosenIsStored, RegistryExact

\* A step of one session leaves the others where they are.
LEMMA LocalStep ==
  ASSUME TypeOK, NEW s \in Session, Proceed(s) \/ Environment(s)
  PROVE  \A t \in Session \ {s} :
            /\ pc'[t] = pc[t] /\ subject'[t] = subject[t]
            /\ status'[t] = status[t] /\ accountId'[t] = accountId[t]
            /\ characterId'[t] = characterId[t]
            /\ t \in sessions' <=> t \in sessions
<1> USE DEF Goto, Done, Abort, Advance, TypeOK
<1>1. CASE Proceed(s)
  BY <1>1 DEF Proceed, controlAccount, TicketAccepted, SelectCharacter,
     CharacterSelected, CreateCharacter, CharacterNameTaken, CharacterDeleted,
     GameCreated, HandlerFails, ReadFails, Leave, MapTold, LeavingTold, Teardown
<1>2. CASE Environment(s)
  BY <1>2 DEF Environment, Packet, Connect, Disconnect, Stall, DeadlineExceeded, Leave,
     PacketHandled, PacketRejected, SendTicket, UseKey, RequestRegionalVersion,
     GetGifts, SetCharacter, AddCharacter, DeleteCharacter, GameCreate
<1> QED
  BY <1>1, <1>2

LEMMA OrderKept ==
  ASSUME SessionsAssumption, LoginOnce, TypeOK, RegistryInv, LoginInv,
         NEW s \in Session, Proceed(s) \/ Environment(s)
  PROVE  LoginOrder(s)'
<1> USE DEF SessionsAssumption, Goto, Done, Abort, Advance, TypeOK, LoginOrder,
            EarlyStatus, SubjectOwned
<1>1. LoginOrder(s)
  BY DEF LoginInv
<1>2. CASE controlAccount(s)
  BY <1>1, <1>2 DEF controlAccount, RegistryInv
<1>3. CASE TicketAccepted(s) \/ CharacterSelected(s) \/ GameCreated(s)
  <2>1. CASE TicketAccepted(s)
    BY <1>1, <2>1 DEF TicketAccepted
  <2>2. CASE CharacterSelected(s)
    BY <1>1, <2>2 DEF CharacterSelected
  <2>3. CASE GameCreated(s)
    BY <1>1, <2>3 DEF GameCreated
  <2> QED
    BY <1>3, <2>1, <2>2, <2>3
<1>4. CASE SelectCharacter(s)
  <2>1. subject[s] \in Character
    BY <1>4 DEF SelectCharacter, RegistryInv
  <2> QED
    BY <1>1, <1>4, <2>1 DEF SelectCharacter
<1>5. CASE CreateCharacter(s) \/ CharacterNameTaken(s) \/ CharacterDeleted(s)
  BY <1>1, <1>5 DEF CreateCharacter, CharacterNameTaken, CharacterDeleted
<1>6. CASE \/ HandlerFails(s) \/ ReadFails(s) \/ Teardown(s)
           \/ DeadlineExceeded(s) \/ MapTold(s) \/ LeavingTold(s)
  <2>1. CASE HandlerFails(s)
    BY <1>1, <2>1 DEF HandlerFails
  <2>2. CASE ReadFails(s) \/ DeadlineExceeded(s)
    <3>1. CASE characterId[s] = NoCharacter
      BY <1>1, <2>2, <3>1 DEF ReadFails, DeadlineExceeded, Leave
    <3>2. CASE characterId[s] # NoCharacter
      BY <1>1, <2>2, <3>2 DEF ReadFails, DeadlineExceeded, Leave
    <3> QED
      BY <3>1, <3>2
  <2>3. CASE MapTold(s) \/ LeavingTold(s) \/ Teardown(s)
    BY <1>1, <2>3 DEF MapTold, LeavingTold, Teardown
  <2> QED
    BY <1>6, <2>1, <2>2, <2>3
<1>7. CASE Connect(s) \/ Disconnect(s) \/ Stall(s)
  BY <1>1, <1>7 DEF Connect, Disconnect, Stall
<1>8. CASE PacketHandled(s) \/ PacketRejected(s)
  BY <1>1, <1>8 DEF PacketHandled, PacketRejected, ReadPacket
<1>9. ASSUME NEW id, Receive(s, id)
      PROVE  pc[s] = "reading" /\ id \in Admitted[status[s]]
             /\ (status[s] = "Idle" => id \in {"AccountAddCharacter", "GameCreate"})
  BY <1>9 DEF Receive, ReadPacket, frameMessage, LoginOnce
<1>10. CASE SendTicket(s) \/ UseKey(s) \/ RequestRegionalVersion(s) \/ GetGifts(s)
  <2>1. CASE SendTicket(s)
    BY <1>1, <1>9, <2>1 DEF SendTicket, Admitted, Status, CharacterPackets
  <2>2. CASE UseKey(s)
    BY <1>1, <1>9, <2>2 DEF UseKey, Admitted, Status, CharacterPackets
  <2>3. CASE RequestRegionalVersion(s)
    BY <1>1, <1>9, <2>3 DEF RequestRegionalVersion, Admitted, Status, CharacterPackets
  <2>4. CASE GetGifts(s)
    BY <1>1, <1>9, <2>4 DEF GetGifts, Admitted, Status, CharacterPackets
  <2> QED
    BY <1>10, <2>1, <2>2, <2>3, <2>4
<1>11. CASE SetCharacter(s)
  BY <1>1, <1>9, <1>11 DEF SetCharacter, Admitted, Status, CharacterPackets
<1>12. CASE DeleteCharacter(s)
  BY <1>1, <1>9, <1>12 DEF DeleteCharacter, Admitted, Status, CharacterPackets
<1>13. CASE AddCharacter(s) \/ GameCreate(s)
  BY <1>1, <1>9, <1>13 DEF AddCharacter, GameCreate, Admitted, Status, CharacterPackets
<1> QED
  BY <1>2, <1>3, <1>4, <1>5, <1>6, <1>7, <1>8, <1>10, <1>11, <1>12, <1>13
     DEF Proceed, Environment, Packet

\* Only the session that deletes a character takes one out of the database,
\* and only CreateCharacter puts one in.
LEMMA StoredStep ==
  ASSUME TypeOK, [Next]_vars
  PROVE  \/ \A c \in Character : stored[c] = "yes" => stored'[c] = "yes"
         \/ \E s \in Session :
               CharacterDeleted(s) /\ \A c \in Character \ {subject[s]} :
                  stored'[c] = stored[c]
<1>1. ASSUME NEW s \in Session, CharacterDeleted(s)
      PROVE  \A c \in Character \ {subject[s]} : stored'[c] = stored[c]
  BY <1>1 DEF CharacterDeleted, TypeOK
<1>2. ASSUME NEW s \in Session, CreateCharacter(s)
      PROVE  \A c \in Character : stored[c] = "yes" => stored'[c] = "yes"
  BY <1>2 DEF CreateCharacter, TypeOK
<1>3. CASE \A s \in Session : ~ CharacterDeleted(s) /\ ~ CreateCharacter(s)
  <2>1. UNCHANGED stored
    BY <1>3 DEF Next, vars, Proceed, Environment, Packet, controlAccount,
       TicketAccepted, Advance, SelectCharacter, CharacterSelected,
       CharacterNameTaken, GameCreated, HandlerFails,
       ReadFails, Leave, MapTold, LeavingTold, Teardown, Connect, Disconnect, Stall, DeadlineExceeded,
       PacketHandled, PacketRejected, SendTicket, UseKey,
       RequestRegionalVersion, GetGifts, SetCharacter, AddCharacter,
       DeleteCharacter, GameCreate
  <2> QED
    BY <2>1
<1> QED
  BY <1>1, <1>2, <1>3

\* What was yes in the database stays so for those who rely on it.
LEMMA ReliedOnIsKept ==
  ASSUME SessionsAssumption, TypeOK, RegistryInv, LoginInv, [Next]_vars,
         NEW t \in Session, NEW c \in Character, stored[c] = "yes",
         \/ pc[t] = "selectCharacter" /\ subject[t] = c
         \/ t \in sessions /\ characterId[t] = c
  PROVE  stored'[c] = "yes"
<1>1. ASSUME NEW s \in Session, CharacterDeleted(s), subject[s] = c
      PROVE  FALSE
  <2>1. /\ pc[s] = "deleteCharacter" /\ s \in sessions
        /\ AccountOf[c] = accountId[s] /\ accountId[s] # NoAccount
        /\ characterId[s] = NoCharacter
    BY <1>1 DEF CharacterDeleted, RegistryInv, SubjectOwned, SessionsAssumption,
       LoginInv, LoginOrder
  <2>2. byAccount[AccountOf[c]] = s
    BY <2>1 DEF RegistryInv
  <2>3. CASE pc[t] = "selectCharacter" /\ subject[t] = c
    <3>1. t \in sessions /\ accountId[t] = AccountOf[c] /\ accountId[t] # NoAccount
      BY <2>1, <2>3 DEF RegistryInv, SubjectOwned
    <3> QED
      BY <2>1, <2>2, <2>3, <3>1 DEF RegistryInv
  <2>4. CASE t \in sessions /\ characterId[t] = c
    BY <2>1, <2>2, <2>4 DEF RegistryInv, SessionsAssumption
  <2> QED
    BY <2>3, <2>4
<1> QED
  BY <1>1, StoredStep

LEMMA ChosenKept ==
  ASSUME SessionsAssumption, TypeOK, RegistryInv, LoginInv,
         NEW s \in Session, Proceed(s) \/ Environment(s), NEW t \in Session
  PROVE  ChosenIsStored(t)'
<1> USE DEF SessionsAssumption, Goto, Done, Abort, Advance, TypeOK, SubjectOwned
<1>1. [Next]_vars
  BY DEF Next
<1>2. /\ pc'[t] = "selectCharacter" =>
            /\ subject'[t] \in Character /\ stored[subject'[t]] = "yes"
            /\ \/ SetCharacter(s)
               \/ pc[t] = "selectCharacter" /\ subject[t] = subject'[t]
      /\ t \in sessions' /\ characterId'[t] # NoCharacter =>
            /\ characterId'[t] \in Character /\ stored[characterId'[t]] = "yes"
            /\ \/ SelectCharacter(s)
               \/ t \in sessions /\ characterId[t] = characterId'[t]
  <2>1. ChosenIsStored(t)
    BY DEF LoginInv
  <2>2. CASE t # s
    BY <2>1, <2>2, LocalStep DEF ChosenIsStored, RegistryInv
  <2>3. CASE t = s
    <3>1. CASE controlAccount(s) \/ TicketAccepted(s) \/ CharacterSelected(s)
               \/ CreateCharacter(s) \/ CharacterNameTaken(s)
               \/ CharacterDeleted(s) \/ GameCreated(s)
      BY <2>1, <2>3, <3>1 DEF ChosenIsStored, controlAccount, TicketAccepted,
         CharacterSelected, CreateCharacter, CharacterNameTaken,
         CharacterDeleted, GameCreated
    <3>2. CASE SelectCharacter(s)
      <4>1. PICK c \in Character : c = subject[s]
        BY <3>2 DEF SelectCharacter, RegistryInv
      <4>2. /\ characterId' = [characterId EXCEPT ![s] = c]
            /\ pc' = [pc EXCEPT ![s] = "sendCharacter"]
            /\ stored[c] = "yes" /\ UNCHANGED stored
        BY <2>1, <2>3, <3>2, <4>1 DEF SelectCharacter, ChosenIsStored
      <4>3. characterId'[t] = c /\ pc'[t] = "sendCharacter"
        BY <2>3, <4>2
      <4> QED
        BY <3>2, <4>1, <4>2, <4>3
    <3>3. CASE \/ HandlerFails(s) \/ ReadFails(s) \/ Teardown(s)
           \/ DeadlineExceeded(s) \/ MapTold(s) \/ LeavingTold(s)
      BY <2>1, <2>3, <3>3 DEF ChosenIsStored, HandlerFails, ReadFails, Leave, MapTold, LeavingTold, Teardown,
         DeadlineExceeded
    <3>4. CASE Connect(s) \/ Disconnect(s) \/ Stall(s)
      BY <2>1, <2>3, <3>4 DEF ChosenIsStored, Connect, Disconnect, Stall, RegistryInv
    <3>5. CASE SetCharacter(s)
      <4>1. PICK c \in Character : stored[c] = "yes" /\ Goto(s, "selectCharacter", c)
        BY <3>5 DEF SetCharacter, OwnCharacters
      <4>2. /\ pc' = [pc EXCEPT ![s] = "selectCharacter"]
            /\ subject' = [subject EXCEPT ![s] = c]
            /\ UNCHANGED <<sessions, characterId, stored>>
        BY <3>5, <4>1 DEF SetCharacter
      <4>3. subject'[t] = c /\ pc'[t] = "selectCharacter"
        BY <2>3, <4>2
      <4>4. s \in sessions /\ characterId[s] # NoCharacter =>
               stored[characterId[s]] = "yes"
        BY <2>1, <2>3 DEF ChosenIsStored
      <4>5. characterId[t] # NoCharacter => characterId[t] \in Character
        OBVIOUS
      <4> QED
        BY <2>3, <3>5, <4>1, <4>2, <4>3, <4>4, <4>5
    <3>6. CASE Packet(s) /\ ~ SetCharacter(s)
      BY <2>1, <2>3, <3>6 DEF ChosenIsStored, Packet, PacketHandled,
         PacketRejected, SendTicket, UseKey, RequestRegionalVersion, GetGifts,
         AddCharacter, DeleteCharacter, GameCreate, ReadPacket, Receive,
         RegistryInv
    <3> QED
      BY <3>1, <3>2, <3>3, <3>4, <3>5, <3>6 DEF Proceed, Environment
  <2> QED
    BY <2>2, <2>3
<1>3. SetCharacter(s) \/ SelectCharacter(s) => UNCHANGED stored
  BY DEF SetCharacter, SelectCharacter
<1>4. pc'[t] = "selectCharacter" => stored'[subject'[t]] = "yes"
  BY <1>1, <1>2, <1>3, ReliedOnIsKept
<1>5. t \in sessions' /\ characterId'[t] # NoCharacter =>
         stored'[characterId'[t]] = "yes"
  BY <1>1, <1>2, <1>3, ReliedOnIsKept
<1> QED
  BY <1>4, <1>5 DEF ChosenIsStored

\* Entries are written for the session that takes the id, which had none
\* before, and dropped with it.
LEMMA ExactKept ==
  ASSUME SessionsAssumption, TypeOK, RegistryInv, LoginInv,
         NEW s \in Session, Proceed(s) \/ Environment(s)
  PROVE  RegistryExact'
<1> USE DEF SessionsAssumption, TypeOK
<1>1. CASE controlAccount(s)
  <2> DEFINE a == subject[s]
  <2>1. /\ a \in Account /\ s \in sessions /\ accountId[s] = NoAccount
    BY <1>1 DEF controlAccount, RegistryInv, SubjectOwned, LoginInv, LoginOrder
  <2>2. CASE byAccount[a] # NoSession
    BY <1>1, <2>2 DEF controlAccount, LoginInv, RegistryExact
  <2>3. CASE byAccount[a] = NoSession
    <3>1. /\ accountId' = [accountId EXCEPT ![s] = a]
          /\ byAccount' = [byAccount EXCEPT ![a] = s]
          /\ UNCHANGED <<sessions, byCharacter, characterId>>
      BY <1>1, <2>3 DEF controlAccount
    <3> QED
      BY <2>1, <3>1 DEF LoginInv, RegistryExact
  <2> QED
    BY <2>2, <2>3
<1>2. CASE SelectCharacter(s)
  <2> DEFINE c == subject[s]
  <2>1. /\ c \in Character /\ s \in sessions /\ characterId[s] = NoCharacter
        /\ characterId' = [characterId EXCEPT ![s] = c]
        /\ byCharacter' = [byCharacter EXCEPT ![c] = s]
        /\ UNCHANGED <<sessions, byAccount, accountId>>
    BY <1>2 DEF SelectCharacter, RegistryInv, SubjectOwned, LoginInv, LoginOrder
  <2> QED
    BY <2>1 DEF LoginInv, RegistryExact
<1>3. CASE Teardown(s)
  <2>1. /\ sessions' = sessions \ {s}
        /\ UNCHANGED <<accountId, characterId>>
        /\ byAccount' = [a \in Account |->
                            IF a = accountId[s] THEN NoSession ELSE byAccount[a]]
        /\ byCharacter' = [d \in Character |->
                              IF d = characterId[s] THEN NoSession
                                                    ELSE byCharacter[d]]
    BY <1>3 DEF Teardown
  <2> QED
    BY <2>1 DEF LoginInv, RegistryExact
<1>4. CASE ~ controlAccount(s) /\ ~ SelectCharacter(s) /\ ~ Teardown(s)
  <2>1. /\ UNCHANGED <<byAccount, byCharacter, accountId, characterId>>
        /\ sessions \subseteq sessions'
    BY <1>4 DEF Proceed, Environment, Packet, TicketAccepted, Advance,
       CharacterSelected, CreateCharacter, CharacterNameTaken,
       CharacterDeleted, GameCreated, HandlerFails, ReadFails, Leave, MapTold, LeavingTold, Connect,
       Disconnect, Stall, DeadlineExceeded, PacketHandled, PacketRejected, SendTicket,
       UseKey, RequestRegionalVersion, GetGifts, SetCharacter, AddCharacter,
       DeleteCharacter, GameCreate
  <2> QED
    BY <2>1 DEF LoginInv, RegistryExact
<1> QED
  BY <1>1, <1>2, <1>3, <1>4

LEMMA LoginStep ==
  ASSUME SessionsAssumption, LoginOnce, TypeOK, RegistryInv, LoginInv, [Next]_vars
  PROVE  LoginInv'
<1>1. CASE UNCHANGED vars
  BY <1>1 DEF vars, LoginInv, LoginOrder, ChosenIsStored, RegistryExact
<1>2. ASSUME NEW s \in Session, Proceed(s) \/ Environment(s) PROVE LoginInv'
  <2>1. ASSUME NEW t \in Session \ {s} PROVE LoginOrder(t)'
    BY <1>2, <2>1, LocalStep DEF LoginInv, LoginOrder
  <2>2. LoginOrder(s)'
    BY <1>2, OrderKept
  <2> QED
    BY <1>2, <2>1, <2>2, ChosenKept, ExactKept DEF LoginInv
<1> QED
  BY <1>1, <1>2 DEF Next

LEMMA LoginInductive ==
  ASSUME SessionsAssumption, LoginOnce
  PROVE  Spec => [](TypeOK /\ RegistryInv /\ LoginInv)
<1>1. Init => LoginInv
  BY LoginInit
<1>2. TypeOK /\ RegistryInv /\ LoginInv /\ [Next]_vars => LoginInv'
  BY LoginStep
<1> QED
  BY <1>1, <1>2, Inductive, PTL DEF Spec

\* Whoever looks a player up by account or character finds a session that is
\* served and has that id.
THEOREM LookupsAreExact ==
  ASSUME SessionsAssumption, LoginOnce PROVE Spec => []RegistryExact
<1>1. LoginInv => RegistryExact
  BY DEF LoginInv
<1> QED
  BY <1>1, LoginInductive, PTL

\* A session that is in the game has a character, and it is in the database
\* although other connections of its account delete characters.
THEOREM PlayedStaysStored ==
  ASSUME SessionsAssumption, LoginOnce PROVE Spec => []PlayedIsStored
<1>1. TypeOK /\ LoginInv => PlayedIsStored
  <2> SUFFICES ASSUME TypeOK, LoginInv PROVE PlayedIsStored
    OBVIOUS
  <2>1. ASSUME NEW s \in sessions,
               status[s] \in {"ExpectingGameCreate", "Idle"}
        PROVE  characterId[s] # NoCharacter /\ stored[characterId[s]] = "yes"
    BY <2>1 DEF TypeOK, LoginInv, LoginOrder, ChosenIsStored
  <2> QED
    BY <2>1 DEF PlayedIsStored
<1> QED
  BY <1>1, LoginInductive, PTL
=============================================================================
