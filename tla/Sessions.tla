------------------------------ MODULE Sessions ------------------------------
(***************************************************************************)
(* The session registry of the game server and the login of a connection.  *)
(*                                                                         *)
(* Every TCP connection is served by handleClientConn, which tracks the    *)
(* session, runs receivePackets in a goroutine and untracks the session    *)
(* when that goroutine has returned.  The goroutine handles the packets of *)
(* its connection one after the other; the goroutines of different         *)
(* connections interleave at every database call and at every section      *)
(* under Server.mu.  A section under Server.mu touches only memory here,   *)
(* so each one is a single action and the mutex needs no variable.         *)
(*                                                                         *)
(* A packet whose handler changes nothing below (pings, the character      *)
(* list, the game itself) is left out; that it may end the session is      *)
(* PacketRejected.                                                         *)
(***************************************************************************)
EXTENDS Naturals, FiniteSets

CONSTANTS
    Session,           \* the connections of a run of the server
    Account,           \* accounts of the database
    Character,         \* ids the character table hands out, each once
    AccountOf,         \* retro.Character.AccountId
    StoredCharacters,  \* the characters stored when the server starts
    MaxCharacters,     \* characters an account may have (15 in the code)
    IdlePackets,       \* login packets a client still sends once in the game
    MaxBuffered,       \* bound: packets left in a reader whose conn is closed
    MayStall,          \* those whose client may stop reading for good
    NoSession, NoAccount, NoCharacter, Nothing

ASSUME SessionsAssumption ==
    /\ AccountOf \in [Character -> Account]
    /\ StoredCharacters \subseteq Character
    /\ MaxCharacters \in Nat
    /\ \A a \in Account :
          LET own == {c \in StoredCharacters : AccountOf[c] = a}
          IN IsFiniteSet(own) /\ Cardinality(own) <= MaxCharacters
    /\ MaxBuffered \in Nat
    /\ MayStall \subseteq Session
    /\ NoSession \notin Session
    /\ NoAccount \notin Account
    /\ NoCharacter \notin Character
    /\ Nothing \notin Account \cup Character

VARIABLES
    sessions,     \* Server.sessions
    byAccount,    \* Server.sessionByAccountId
    byCharacter,  \* Server.sessionByCharacterId
    status,       \* session.status
    accountId,    \* session.accountId
    characterId,  \* session.characterId
    conn,         \* session.conn
    unread,       \* whole packets bufio still holds after conn was closed
    stalled,      \* clients that do not read: writing to them blocks
    pc,           \* where the goroutines of the session are
    subject,      \* the account or character the running handler is about
    stored        \* each character in the database

registryVars == <<sessions, byAccount, byCharacter>>
sessionVars == <<status, accountId, characterId>>
connVars == <<conn, unread, stalled>>
handlerVars == <<pc, subject>>
vars == <<registryVars, sessionVars, connVars, handlerVars, stored>>

-----------------------------------------------------------------------------
(* Statuses and packets *)

Status == {"ExpectingAccountSendTicket", "ExpectingAccountUseKey",
           "ExpectingAccountRequestRegionalVersion",
           "ExpectingAccountGetGifts", "ExpectingAccountSetCharacter",
           "ExpectingGameCreate", "Idle"}

CharacterPackets ==
    {"AccountSetCharacter", "AccountAddCharacter", "AccountDeleteCharacter"}

LoginPackets ==
    {"AccountSendTicket", "AccountUseKey", "AccountRequestRegionalVersion",
     "AccountGetGifts", "GameCreate"} \cup CharacterPackets

\* The login packets each status lets through.  The switch of the code has no
\* case for statusIdle, so that status lets all of them through again.
Admitted ==
    [ExpectingAccountSendTicket |-> {"AccountSendTicket"},
     ExpectingAccountUseKey |-> {"AccountUseKey"},
     ExpectingAccountRequestRegionalVersion |-> {"AccountRequestRegionalVersion"},
     ExpectingAccountGetGifts |-> {"AccountGetGifts"},
     ExpectingAccountSetCharacter |-> CharacterPackets,
     ExpectingGameCreate |-> {"GameCreate"},
     Idle |-> LoginPackets]

\* Mutant: the character packets pass while the game is being entered.
frameMessageFallingThrough(st, id) ==
    \/ id \in Admitted[st]
    \/ st = "ExpectingGameCreate" /\ id \in CharacterPackets

frameMessage(st, id) == id \in Admitted[st]

\* The points of a handler at which other goroutines run: the handler has
\* done its database reads and is about to do what the name says.
HandlerPoint == {"controlAccount", "loadAccount", "selectCharacter",
                 "sendCharacter", "createCharacter", "deleteCharacter",
                 "createGame", "tellMap"}

Point == {"none", "reading", "leaving", "returned", "gone"} \cup HandlerPoint

OwnCharacters(a) == {c \in Character : stored[c] = "yes" /\ AccountOf[c] = a}

-----------------------------------------------------------------------------
(* Initial state *)

Init ==
    /\ sessions = {}
    /\ byAccount = [a \in Account |-> NoSession]
    /\ byCharacter = [c \in Character |-> NoSession]
    /\ status = [s \in Session |-> "ExpectingAccountSendTicket"]
    /\ accountId = [s \in Session |-> NoAccount]
    /\ characterId = [s \in Session |-> NoCharacter]
    /\ conn = [s \in Session |-> "open"]
    /\ unread = [s \in Session |-> 0]
    /\ stalled = {}
    /\ pc = [s \in Session |-> "none"]
    /\ subject = [s \in Session |-> Nothing]
    /\ stored = [c \in Character |->
                    IF c \in StoredCharacters THEN "yes" ELSE "never"]

-----------------------------------------------------------------------------
(* The connection *)

\* handleClientConn up to its select.  Setting the keep-alive or the read
\* deadline may fail, and then no packet is ever read.
Connect(s) ==
    /\ pc[s] = "none"
    /\ sessions' = sessions \cup {s}
    /\ \E next \in {"reading", "returned"} : pc' = [pc EXCEPT ![s] = next]
    /\ UNCHANGED <<byAccount, byCharacter, sessionVars, connVars, subject,
                   stored>>

\* conn.Close(): reading fails once the packets already buffered are used up.
CloseConn(s) ==
    /\ conn' = [conn EXCEPT ![s] = "closed"]
    /\ IF conn[s] = "open"
         THEN \E n \in 0..MaxBuffered : unread' = [unread EXCEPT ![s] = n]
         ELSE UNCHANGED unread
    /\ UNCHANGED stalled

\* The client goes away, or the server is stopping and handleClientConn
\* leaves its select on ctx.Done().
Disconnect(s) ==
    /\ pc[s] \notin {"none", "gone"}
    /\ conn[s] = "open"
    /\ CloseConn(s)
    /\ UNCHANGED <<registryVars, sessionVars, handlerVars, stored>>

\* The client keeps the connection but reads no more.
Stall(s) ==
    /\ s \in MayStall \ stalled
    /\ pc[s] \notin {"none", "gone"}
    /\ conn[s] = "open"
    /\ stalled' = stalled \cup {s}
    /\ UNCHANGED <<registryVars, sessionVars, conn, unread, handlerVars, stored>>

\* Mutant: a packet is taken out of an empty buffer.
ReadPacketPastEnd(s) ==
    /\ pc[s] = "reading"
    /\ unread' = [unread EXCEPT ![s] = IF conn[s] = "open" THEN @ ELSE @ - 1]
    /\ UNCHANGED <<conn, stalled>>

\* rd.ReadString returns a whole packet.
ReadPacket(s) ==
    /\ pc[s] = "reading"
    /\ IF conn[s] = "open"
         THEN UNCHANGED unread
         ELSE /\ unread[s] > 0
              /\ unread' = [unread EXCEPT ![s] = @ - 1]
    /\ UNCHANGED <<conn, stalled>>

\* A packet of a login handler that passes the frame check.  IdlePackets is
\* what the clients of the model send in the game, not a guard of the code.
Receive(s, id) ==
    /\ ReadPacket(s)
    /\ frameMessage(status[s], id)
    /\ status[s] = "Idle" => id \in IdlePackets

\* The handler of s goes on at point p, about x.
Goto(s, p, x) ==
    /\ pc' = [pc EXCEPT ![s] = p]
    /\ subject' = [subject EXCEPT ![s] = x]

\* The handler of s is done, without an error that ends the session.
Done(s) == Goto(s, "reading", Nothing)

\* A handler returns an error that receivePackets does not absorb.
Abort(s) == Goto(s, "returned", Nothing)

\* A packet fails the frame check, is malformed or refused by its handler
\* before it changed anything.
PacketRejected(s) ==
    /\ ReadPacket(s)
    /\ Abort(s)
    /\ UNCHANGED <<registryVars, sessionVars, stored>>

\* A packet that changes nothing here: a ping, the list of characters, a
\* packet handled while playing, of which some tell the map.
PacketHandled(s) ==
    /\ ReadPacket(s)
    /\ \/ UNCHANGED handlerVars
       \/ status[s] = "Idle" /\ Goto(s, "tellMap", Nothing)
    /\ UNCHANGED <<registryVars, sessionVars, stored>>

\* sendMsgToMap has written to everybody on the map.
MapTold(s) ==
    /\ pc[s] = "tellMap"
    /\ Done(s)
    /\ UNCHANGED <<registryVars, sessionVars, connVars, stored>>

\* A database call of a handler fails or runs into the five-second deadline
\* of handlePacket.
HandlerFails(s) ==
    /\ pc[s] \in HandlerPoint \ {"controlAccount"}
    /\ Abort(s)
    /\ UNCHANGED <<registryVars, sessionVars, connVars, stored>>

\* receivePackets cannot read: those on the map of its character are told
\* before it returns.
Leave(s) ==
    /\ IF characterId[s] = NoCharacter THEN Abort(s) ELSE Goto(s, "leaving", Nothing)
    /\ UNCHANGED <<registryVars, sessionVars, connVars, stored>>

\* Reading fails: the connection is closed and its buffer empty.
ReadFails(s) ==
    /\ pc[s] = "reading"
    /\ conn[s] = "closed"
    /\ unread[s] = 0
    /\ Leave(s)

\* The read deadline, connTimeout after the last packet, passes.
DeadlineExceeded(s) ==
    /\ pc[s] = "reading"
    /\ conn[s] = "open"
    /\ Leave(s)

\* All of them are told, or the database fails.
LeavingTold(s) ==
    /\ pc[s] = "leaving"
    /\ Abort(s)
    /\ UNCHANGED <<registryVars, sessionVars, connVars, stored>>

\* Mutant: the session leaves the registry, its entries stay.
TeardownKeepingEntries(s) ==
    /\ pc[s] = "returned"
    /\ sessions' = sessions \ {s}
    /\ conn' = [conn EXCEPT ![s] = "closed"]
    /\ Goto(s, "gone", Nothing)
    /\ UNCHANGED <<byAccount, byCharacter, sessionVars, unread, stalled, stored>>

\* Mutant: the session is untracked without waiting for its goroutine.
TeardownUnawaited(s) ==
    /\ s \in sessions
    /\ sessions' = sessions \ {s}
    /\ byAccount' = [a \in Account |->
                        IF a = accountId[s] THEN NoSession ELSE byAccount[a]]
    /\ byCharacter' = [c \in Character |->
                        IF c = characterId[s] THEN NoSession
                                              ELSE byCharacter[c]]
    /\ CloseConn(s)
    /\ UNCHANGED <<sessionVars, handlerVars, stored>>

\* The deferred calls of handleClientConn, once receivePackets has returned:
\* the connection is closed and trackSession(sess, false) drops the entries
\* under the ids the session has now, whoever they point to.
Teardown(s) ==
    /\ pc[s] = "returned"
    /\ sessions' = sessions \ {s}
    /\ byAccount' = [a \in Account |->
                        IF a = accountId[s] THEN NoSession ELSE byAccount[a]]
    /\ byCharacter' = [c \in Character |->
                        IF c = characterId[s] THEN NoSession
                                              ELSE byCharacter[c]]
    /\ conn' = [conn EXCEPT ![s] = "closed"]
    /\ Goto(s, "gone", Nothing)
    /\ UNCHANGED <<sessionVars, unread, stalled, stored>>

-----------------------------------------------------------------------------
(* Authentication *)

\* UseTicket gave a fresh ticket of this server for account a.
SendTicket(s) ==
    /\ Receive(s, "AccountSendTicket")
    /\ \E a \in Account : Goto(s, "controlAccount", a)
    /\ UNCHANGED <<registryVars, sessionVars, stored>>

\* Mutant: the account is taken over from the session that is kicked.
controlAccountTakingOver(s) ==
    LET a == subject[s] IN
    /\ pc[s] = "controlAccount"
    /\ IF byAccount[a] # NoSession THEN CloseConn(byAccount[a])
                                   ELSE UNCHANGED connVars
    /\ accountId' = [accountId EXCEPT ![s] = a]
    /\ byAccount' = [byAccount EXCEPT ![a] = s]
    /\ Goto(s, "loadAccount", Nothing)
    /\ UNCHANGED <<sessions, byCharacter, status, characterId, stored>>

\* controlAccount: if the account has a session, that one is disconnected
\* and this one refused all the same.
controlAccount(s) ==
    LET a == subject[s] IN
    /\ pc[s] = "controlAccount"
    /\ \/ /\ byAccount[a] # NoSession
          /\ CloseConn(byAccount[a])
          /\ Abort(s)
          /\ UNCHANGED <<registryVars, sessionVars>>
       \/ /\ byAccount[a] = NoSession
          /\ accountId' = [accountId EXCEPT ![s] = a]
          /\ byAccount' = [byAccount EXCEPT ![a] = s]
          /\ Goto(s, "loadAccount", Nothing)
          /\ UNCHANGED <<sessions, byCharacter, status, characterId, connVars>>
    /\ UNCHANGED stored

\* The handler of s ends by storing the next status.
Advance(s, st) ==
    /\ status' = [status EXCEPT ![s] = st]
    /\ Done(s)
    /\ UNCHANGED <<registryVars, accountId, characterId, stored>>

\* The account and its user were read and the last access written.
TicketAccepted(s) ==
    /\ pc[s] = "loadAccount"
    /\ Advance(s, "ExpectingAccountUseKey")
    /\ UNCHANGED connVars

UseKey(s) ==
    /\ Receive(s, "AccountUseKey")
    /\ Advance(s, "ExpectingAccountRequestRegionalVersion")

RequestRegionalVersion(s) ==
    /\ Receive(s, "AccountRequestRegionalVersion")
    /\ Advance(s, "ExpectingAccountGetGifts")

GetGifts(s) ==
    /\ Receive(s, "AccountGetGifts")
    /\ Advance(s, "ExpectingAccountSetCharacter")

-----------------------------------------------------------------------------
(* Characters *)

\* Mutant: the owner of the character is not checked.
SetCharacterUnowned(s) ==
    /\ Receive(s, "AccountSetCharacter")
    /\ \E c \in Character :
          stored[c] = "yes" /\ Goto(s, "selectCharacter", c)
    /\ UNCHANGED <<registryVars, sessionVars, stored>>

\* handleAccountSetCharacter up to the ownership check.
SetCharacter(s) ==
    /\ Receive(s, "AccountSetCharacter")
    /\ \E c \in OwnCharacters(accountId[s]) : Goto(s, "selectCharacter", c)
    /\ UNCHANGED <<registryVars, sessionVars, stored>>

\* Its section under mu.
SelectCharacter(s) ==
    LET c == subject[s] IN
    /\ pc[s] = "selectCharacter"
    /\ characterId' = [characterId EXCEPT ![s] = c]
    /\ byCharacter' = [byCharacter EXCEPT ![c] = s]
    /\ Goto(s, "sendCharacter", Nothing)
    /\ UNCHANGED <<sessions, byAccount, status, accountId, connVars, stored>>

CharacterSelected(s) ==
    /\ pc[s] = "sendCharacter"
    /\ Advance(s, "ExpectingGameCreate")
    /\ UNCHANGED connVars

\* Mutant: a full account may still create a character.
AddCharacterPastLimit(s) ==
    /\ Receive(s, "AccountAddCharacter")
    /\ Cardinality(OwnCharacters(accountId[s])) <= MaxCharacters
    /\ Goto(s, "createCharacter", Nothing)
    /\ UNCHANGED <<registryVars, sessionVars, stored>>

\* handleAccountAddCharacter up to its count of the account's characters; a
\* full account is answered with an error message.
AddCharacter(s) ==
    /\ Receive(s, "AccountAddCharacter")
    /\ Cardinality(OwnCharacters(accountId[s])) < MaxCharacters
    /\ Goto(s, "createCharacter", Nothing)
    /\ UNCHANGED <<registryVars, sessionVars, stored>>

\* The list of the characters that is sent afterwards may fail.
CreateCharacter(s) ==
    /\ pc[s] = "createCharacter"
    /\ \E c \in Character :
          /\ stored[c] = "never"
          /\ AccountOf[c] = accountId[s]
          /\ stored' = [stored EXCEPT ![c] = "yes"]
    /\ Done(s) \/ Abort(s)
    /\ UNCHANGED <<registryVars, sessionVars, connVars>>

\* The name is taken: an error message, and the session goes on.
CharacterNameTaken(s) ==
    /\ pc[s] = "createCharacter"
    /\ Done(s)
    /\ UNCHANGED <<registryVars, sessionVars, connVars, stored>>

\* Mutant: the owner of the character is not checked.
DeleteCharacterUnowned(s) ==
    /\ Receive(s, "AccountDeleteCharacter")
    /\ \E c \in Character :
          stored[c] = "yes" /\ Goto(s, "deleteCharacter", c)
    /\ UNCHANGED <<registryVars, sessionVars, stored>>

\* handleAccountDeleteCharacter up to the checks of owner and secret answer.
DeleteCharacter(s) ==
    /\ Receive(s, "AccountDeleteCharacter")
    /\ \E c \in OwnCharacters(accountId[s]) : Goto(s, "deleteCharacter", c)
    /\ UNCHANGED <<registryVars, sessionVars, stored>>

CharacterDeleted(s) ==
    /\ pc[s] = "deleteCharacter"
    /\ stored' = [stored EXCEPT ![subject[s]] = "deleted"]
    /\ Done(s) \/ Abort(s)
    /\ UNCHANGED <<registryVars, sessionVars, connVars>>

\* handleGameCreate loads the selected character first.
GameCreate(s) ==
    /\ Receive(s, "GameCreate")
    /\ characterId[s] # NoCharacter
    /\ stored[characterId[s]] = "yes"
    /\ Goto(s, "createGame", Nothing)
    /\ UNCHANGED <<registryVars, sessionVars, stored>>

GameCreated(s) ==
    /\ pc[s] = "createGame"
    /\ Advance(s, "Idle")
    /\ UNCHANGED connVars

-----------------------------------------------------------------------------
(* Specification *)

\* Steps of the session's own goroutines.
Proceed(s) ==
    \/ controlAccount(s) \/ TicketAccepted(s) \/ SelectCharacter(s)
    \/ CharacterSelected(s) \/ CreateCharacter(s) \/ CharacterNameTaken(s)
    \/ CharacterDeleted(s) \/ GameCreated(s) \/ MapTold(s) \/ HandlerFails(s)
    \/ ReadFails(s) \/ LeavingTold(s) \/ Teardown(s)

\* A packet is read and its handler started.
Packet(s) ==
    \/ PacketHandled(s) \/ PacketRejected(s) \/ SendTicket(s) \/ UseKey(s)
    \/ RequestRegionalVersion(s) \/ GetGifts(s) \/ SetCharacter(s)
    \/ AddCharacter(s) \/ DeleteCharacter(s) \/ GameCreate(s)

\* Steps that wait for the client or for the clock.
Environment(s) ==
    \/ Connect(s) \/ Disconnect(s) \/ Stall(s) \/ DeadlineExceeded(s) \/ Packet(s)

Next == \E s \in Session : Proceed(s) \/ Environment(s)

Spec == Init /\ [][Next]_vars

\* A write has no deadline: it returns if the client reads or its connection
\* is closed.
Writable(s) == conn[s] = "open" => s \notin stalled

\* sendMsgToMap waits for each client on the map, which may be any that plays.
Receivers(s) == {t \in sessions \ {s} : characterId[t] # NoCharacter}

WritesReturn(s) ==
    /\ Writable(s)
    /\ pc[s] \in {"createGame", "tellMap", "leaving"} =>
          \A t \in Receivers(s) : Writable(t)

\* Database calls end (handlePacket gives them five seconds), so a started
\* handler goes on as long as what it writes is read.  The packets left in the
\* reader of a closed connection need no client to be read.
FairSpec ==
    /\ Spec
    /\ \A s \in Session :
          /\ WF_vars(WritesReturn(s) /\ Proceed(s))
          /\ WF_vars(conn[s] = "closed" /\ Packet(s))

-----------------------------------------------------------------------------
(* Properties *)

\* Every variable has the type its Go declaration gives it.
TypeOK ==
    /\ sessions \subseteq Session
    /\ byAccount \in [Account -> Session \cup {NoSession}]
    /\ byCharacter \in [Character -> Session \cup {NoSession}]
    /\ status \in [Session -> Status]
    /\ accountId \in [Session -> Account \cup {NoAccount}]
    /\ characterId \in [Session -> Character \cup {NoCharacter}]
    /\ conn \in [Session -> {"open", "closed"}]
    /\ unread \in [Session -> 0..MaxBuffered]
    /\ stalled \subseteq Session
    /\ pc \in [Session -> Point]
    /\ subject \in [Session -> Account \cup Character \cup {Nothing}]
    /\ stored \in [Character -> {"never", "yes", "deleted"}]

\* No account is logged in twice, whatever the order in which two
\* connections present tickets, are refused, kicked and torn down.
AccountExclusive ==
    \A s, t \in sessions :
        s # t /\ accountId[s] # NoAccount => accountId[s] # accountId[t]

\* No character is played by two connections, although the handler that
\* selects it checks its owner outside the mutex and overwrites the entry of
\* sessionByCharacterId without looking.
CharacterExclusive ==
    \A s, t \in sessions :
        s # t /\ characterId[s] # NoCharacter =>
            characterId[s] # characterId[t]

\* The limit on characters per account holds although it is checked in one
\* database call and the character created in another.
CharacterLimit ==
    \A a \in Account : Cardinality(OwnCharacters(a)) <= MaxCharacters

\* What a handler holds on to between two of its steps is still true when
\* it uses it: the account of a ticket, the owner of a character it checked.
SubjectOwned ==
    \A s \in Session :
        /\ pc[s] = "controlAccount" => subject[s] \in Account
        /\ pc[s] \in {"selectCharacter", "deleteCharacter"} =>
              /\ subject[s] \in Character
              /\ AccountOf[subject[s]] = accountId[s]

\* The inductive invariant behind the registry properties: sessions are
\* tracked exactly while they are served, and a tracked session holds the
\* account entry of the account and of the character it has.
RegistryInv ==
    /\ \A s \in Session : s \in sessions <=> pc[s] \notin {"none", "gone"}
    /\ \A s \in Session : pc[s] = "none" =>
          accountId[s] = NoAccount /\ characterId[s] = NoCharacter
    /\ \A s \in sessions : accountId[s] # NoAccount => byAccount[accountId[s]] = s
    /\ \A s \in sessions : characterId[s] # NoCharacter =>
          /\ byAccount[AccountOf[characterId[s]]] = s
          /\ byCharacter[characterId[s]] = s
    /\ SubjectOwned

\* A character is only deleted under the session that may be playing it,
\* never under another one.
DeletedOnlyByHolder ==
    [][\A c \in Character :
          stored[c] = "yes" /\ stored'[c] # "yes" =>
            /\ byAccount[AccountOf[c]] \in sessions
            /\ \A s \in sessions \ {byAccount[AccountOf[c]]} :
                  characterId[s] # c]_vars

\* Clients that log in once: an entry of the account or character map points
\* to a session that is tracked and has that id, so that the packets that
\* look a player up by name or id never reach a session that is gone.
RegistryExact ==
    /\ \A a \in Account : byAccount[a] # NoSession =>
          byAccount[a] \in sessions /\ accountId[byAccount[a]] = a
    /\ \A c \in Character : byCharacter[c] # NoSession =>
          byCharacter[c] \in sessions /\ characterId[byCharacter[c]] = c

\* controlAccount answers "account already logged in" only while a session
\* that is still served is logged in to that account.
RefusedOnlyIfLoggedIn ==
    \A s \in Session :
        pc[s] = "controlAccount" /\ byAccount[subject[s]] # NoSession =>
            \E t \in sessions : accountId[t] = subject[s]

\* Clients that log in once: the character of a session that entered the
\* game, or is entering it, is in the database.
PlayedIsStored ==
    \A s \in sessions : status[s] \in {"ExpectingGameCreate", "Idle"} =>
        characterId[s] # NoCharacter /\ stored[characterId[s]] = "yes"

\* A session whose connection was closed, by its client, by a login that
\* kicks it or by the server, gives its account back, unless another client
\* that plays has stopped reading: the session waits for it while it tells the
\* map that it leaves, and its account stays occupied.
KickedAccountIsFreed ==
    \A s \in Session, a \in Account :
        (byAccount[a] = s /\ conn[s] = "closed")
        ~> (byAccount[a] # s \/ \E t \in Receivers(s) : ~Writable(t))

\* The abstract specification: accounts held by sessions that play their
\* characters.
Abstract == INSTANCE ExclusivePlay WITH
    holder <- byAccount,
    playing <- [s \in Session |->
                    IF s \in sessions THEN characterId[s] ELSE NoCharacter]

\* The registry implements exclusive play.
ImplementsExclusivePlay == Abstract!PlaySpec
=============================================================================
