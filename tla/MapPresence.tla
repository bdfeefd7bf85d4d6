---------------------------- MODULE MapPresence ----------------------------
(***************************************************************************)
(* Who stands on which map, and whom the clients show there.               *)
(*                                                                         *)
(* A player is an account; its session registers one of its characters,    *)
(* brings it into the game, walks it to the exits of its map and takes it  *)
(* away again.  The database says on which map a character is and the      *)
(* registry who is connected.  Clients learn of each other only by         *)
(* messages: sendMsgToMap finds its receivers under Server.mu and lets a   *)
(* goroutine write to each, in any order and after the mutex was given     *)
(* back, while the receivers go on.  A written message counts as shown:    *)
(* TCP keeps the order.                                                    *)
(*                                                                         *)
(* Sessions shows that one session at a time holds an account, so that a   *)
(* player has one handler at a time, and only that one writes its          *)
(* characters.  A second ticket and the deletion of a character, which a   *)
(* session in the game may send as well, are in Sessions and not here.     *)
(***************************************************************************)
EXTENDS Naturals

CONSTANTS
    Player,     \* accounts, each with its session if it has one
    Character,  \* ids of characters
    Own,        \* the characters of each account
    NoCharacter, NoPlayer,
    Ghost,      \* a session that is gone, which an entry still points to
    Reselects,  \* those whose clients select a character again in the game
    GameMap,    \* ids of game maps
    Cell,       \* cells of every map, and any other number a client names
    FirstMap,   \* the map of a new character (952)
    Path,       \* validatedPath: the cells it reaches from a cell of a map
    Trigger,    \* the map and the cell an exit leads to
    MaxBusy,    \* bound on session.busy
    MayFail     \* whether calls of the database may fail

\* by, the character that begins a walk, is not kept in the code.
NoAction == [kind |-> "none"]
Place == [map : GameMap, cell : Cell]
Movement == [kind : {"movement"}, by : Character, from : Place, target : Cell]

ASSUME MapPresenceAssumption ==
    /\ Own \in [Player -> SUBSET Character]
    /\ \A p, q \in Player : p # q => Own[p] \cap Own[q] = {}
    /\ NoCharacter \notin Character
    /\ NoPlayer \notin Player /\ Ghost \notin Player /\ NoPlayer # Ghost
    /\ Reselects \subseteq Player
    /\ FirstMap \in GameMap
    /\ Path \in [Place -> SUBSET Cell]
    /\ \A at \in Place : at.cell \notin Path[at]
    /\ DOMAIN Trigger \subseteq Place
    /\ \A at \in DOMAIN Trigger : Trigger[at] \in Place
    /\ MaxBusy \in Nat
    /\ MayFail \in BOOLEAN

VARIABLES
    byCharacter,  \* Server.sessionByCharacterId
    place,        \* Character.GameMapId and Character.Cell in the database
    characterId,  \* session.characterId
    pc,       \* where the session of the player is
    to,       \* sessions a broadcast of the session still writes to
    listed,   \* the characters handleGameGetExtraInformations has found
    screen,   \* characters the client shows
    loaded,   \* whether the client was sent what is on its map
    action,   \* session.gameActions[0]
    busy      \* session.busy

gameVars == <<byCharacter, place, characterId>>
clientVars == <<listed, screen, loaded>>
moveVars == <<action, busy>>
vars == <<gameVars, pc, to, clientVars, moveVars>>

Removing == {"departing", "telling"}
Adding == {"arriving"}

Point == {"out", "selected", "entering", "announcing", "idle", "listing",
          "exit", "changing", "leaving", "returned", "failed"} \cup Removing \cup Adding

Init ==
    /\ byCharacter = [c \in Character |-> NoPlayer]
    /\ place \in [Character -> {at \in Place : at.map = FirstMap}]
    /\ characterId = [p \in Player |-> NoCharacter]
    /\ pc = [p \in Player |-> "out"]
    /\ to = [p \in Player |-> {}]
    /\ listed = [p \in Player |-> {}]
    /\ screen = [p \in Player |-> {}]
    /\ loaded = [p \in Player |-> FALSE]
    /\ action = [p \in Player |-> NoAction]
    /\ busy = [p \in Player |-> 0]

Goto(p, point) == pc' = [pc EXCEPT ![p] = point]

\* Where the character is that the session plays.
At(p) == place[characterId[p]]

\* Those who are on the map in the database and in the registry.
CharactersOn(m) ==
    {c \in Character : byCharacter[c] # NoPlayer /\ place[c].map = m}

\* What is written to a session that is gone is lost.
Receivers(m) == {p \in Player : \E c \in CharactersOn(m) : byCharacter[c] = p}

-----------------------------------------------------------------------------
(* Broadcasts *)

\* sendMsgToMap up to the end of its critical section.
SendMsgToMap(p, point) ==
    /\ to' = [to EXCEPT ![p] = Receivers(At(p).map)]
    /\ Goto(p, point)
    /\ UNCHANGED <<gameVars, clientVars, moveVars>>

\* One of its goroutines writes to the client of q: GameMovement with the
\* sprite of p, or GameMovementRemove.
Deliver(p, q) ==
    /\ q \in to[p]
    /\ to' = [to EXCEPT ![p] = @ \ {q}]
    /\ screen' = [screen EXCEPT ![q] =
                     IF pc[p] \in Removing THEN @ \ {characterId[p]}
                                          ELSE @ \cup {characterId[p]}]
    /\ UNCHANGED <<gameVars, pc, listed, loaded, moveVars>>

\* It has waited for all of them.
Broadcasted(p, from, point) ==
    /\ pc[p] = from
    /\ to[p] = {}
    /\ Goto(p, point)
    /\ UNCHANGED <<gameVars, to, clientVars, moveVars>>

-----------------------------------------------------------------------------
(* Entering the game *)

\* A status of the game lets the packets of the login through as well.
MayEnter(p, point) == pc[p] = point \/ (p \in Reselects /\ pc[p] = "idle")

\* handleAccountSetCharacter registers the character.  One the session had
\* before stays registered, and its unfinished walk stays as well.
SetCharacter(p, c) ==
    /\ MayEnter(p, "out")
    /\ c \in Own[p]
    /\ characterId' = [characterId EXCEPT ![p] = c]
    /\ byCharacter' = [byCharacter EXCEPT ![c] = p]
    /\ Goto(p, "selected")
    /\ UNCHANGED <<place, to, clientVars, moveVars>>

\* handleGameCreate reads the character.
GameCreate(p) ==
    /\ MayEnter(p, "selected")
    /\ Goto(p, "entering")
    /\ UNCHANGED <<gameVars, to, clientVars, moveVars>>

\* GameMapData makes the client show an empty map.
GameMapData(p) ==
    /\ pc[p] = "entering"
    /\ screen' = [screen EXCEPT ![p] = {}]
    /\ loaded' = [loaded EXCEPT ![p] = FALSE]
    /\ Goto(p, "announcing")
    /\ UNCHANGED <<gameVars, to, listed, moveVars>>

\* The sprite is read and everybody on the map is told, the player itself
\* too.
Announce(p) ==
    /\ pc[p] = "announcing"
    /\ SendMsgToMap(p, "arriving")

\* Mutant: the handler does not wait until everybody was told.
ArrivedUnawaited(p) ==
    /\ pc[p] = "arriving"
    /\ Goto(p, "idle")
    /\ UNCHANGED <<gameVars, to, clientVars, moveVars>>

Arrived(p) == Broadcasted(p, "arriving", "idle")

\* handleGameGetExtraInformations up to the end of its critical section.
GameGetExtraInformations(p) ==
    /\ pc[p] = "idle"
    /\ listed' = [listed EXCEPT ![p] = CharactersOn(At(p).map)]
    /\ Goto(p, "listing")
    /\ UNCHANGED <<gameVars, to, screen, loaded, moveVars>>

\* It reads what the sprites wear, one after the other, and sends them all.
GameMapLoaded(p) ==
    /\ pc[p] = "listing"
    /\ screen' = [screen EXCEPT ![p] = @ \cup listed[p]]
    /\ loaded' = [loaded EXCEPT ![p] = TRUE]
    /\ listed' = [listed EXCEPT ![p] = {}]
    /\ Goto(p, "idle")
    /\ UNCHANGED <<gameVars, to, moveVars>>

-----------------------------------------------------------------------------
(* Walking *)

\* Mutant: a walk does not make a player busy.
ActionMovementIdle(p) ==
    /\ pc[p] = "idle"
    /\ \E target \in Path[At(p)] :
          action' = [action EXCEPT ![p] =
                        [kind |-> "movement", by |-> characterId[p],
                         from |-> At(p), target |-> target]]
    /\ UNCHANGED <<gameVars, pc, to, clientVars, busy>>

\* actionMovement; what the map is told of it moves sprites only.  Telling
\* it may fail, when the walk has begun.
ActionMovement(p) ==
    /\ pc[p] = "idle"
    /\ busy[p] < MaxBusy
    /\ \E target \in Path[At(p)] :
          action' = [action EXCEPT ![p] =
                        [kind |-> "movement", by |-> characterId[p],
                         from |-> At(p), target |-> target]]
    /\ busy' = [busy EXCEPT ![p] = @ + 1]
    /\ Goto(p, "idle") \/ (MayFail /\ Goto(p, "failed"))
    /\ UNCHANGED <<gameVars, to, clientVars>>

\* Mutant: the action that is over is kept.
StandOnKept(p, cell) ==
    /\ place' = [place EXCEPT ![characterId[p]].cell = cell]
    /\ busy' = [busy EXCEPT ![p] = @ - 1]
    /\ UNCHANGED <<byCharacter, characterId, to, clientVars, action>>

\* The walk of p is over and p stands on the cell.
StandOn(p, cell) ==
    /\ place' = [place EXCEPT ![characterId[p]].cell = cell]
    /\ action' = [action EXCEPT ![p] = NoAction]
    /\ busy' = [busy EXCEPT ![p] = @ - 1]
    /\ UNCHANGED <<byCharacter, characterId, to, clientVars>>

\* handleGameActionCancel: the client names the cell where p stopped.  The
\* cell at the end of the walk is GameActionAck.
GameActionCancel(p) ==
    /\ pc[p] = "idle"
    /\ action[p] # NoAction
    /\ \E cell \in Cell \ {At(p).cell, action[p].target} : StandOn(p, cell)
    /\ UNCHANGED pc

\* handleGameActionAck: p has arrived, perhaps at an exit of the map.
GameActionAck(p) ==
    /\ pc[p] = "idle"
    /\ action[p] # NoAction
    /\ StandOn(p, action[p].target)
    /\ Goto(p, IF [At(p) EXCEPT !.cell = action[p].target] \in DOMAIN Trigger
                 THEN "exit" ELSE "idle")

\* Those on the old map are told first.
Exit(p) ==
    /\ pc[p] = "exit"
    /\ SendMsgToMap(p, "departing")

Departed(p) == Broadcasted(p, "departing", "changing")

\* Then the character is written; the client loads the new map.
ChangeMap(p) ==
    /\ pc[p] = "changing"
    /\ place' = [place EXCEPT ![characterId[p]] = Trigger[At(p)]]
    /\ Goto(p, "entering")
    /\ UNCHANGED <<byCharacter, characterId, to, clientVars, moveVars>>

-----------------------------------------------------------------------------
(* Leaving the game *)

\* receivePackets cannot read: the client is gone, or too long silent.
ReadFails(p) ==
    /\ pc[p] \in {"selected", "idle"}
    /\ Goto(p, "leaving")
    /\ UNCHANGED <<gameVars, to, clientVars, moveVars>>

\* Mutant: nobody is told.
TellLeavingNobody(p) ==
    /\ pc[p] = "leaving"
    /\ Goto(p, "telling")
    /\ UNCHANGED <<gameVars, to, clientVars, moveVars>>

TellLeaving(p) ==
    /\ pc[p] = "leaving"
    /\ SendMsgToMap(p, "telling")

Told(p) == Broadcasted(p, "telling", "returned")

\* A call of the database fails and the session ends; nobody is told.
HandlerFails(p) ==
    /\ MayFail
    /\ pc[p] \notin {"out", "returned", "failed"} \cup Removing \cup Adding
    /\ Goto(p, "failed")
    /\ UNCHANGED <<gameVars, to, clientVars, moveVars>>

\* handleClientConn closes the connection and untracks the session, under the
\* character it has now; what is still written to it is lost.
Untrack(p) ==
    /\ pc[p] \in {"returned", "failed"}
    /\ byCharacter' =
          [c \in Character |->
              CASE c = characterId[p] -> NoPlayer
                [] c # characterId[p] /\ byCharacter[c] = p -> Ghost
                [] OTHER -> byCharacter[c]]
    /\ characterId' = [characterId EXCEPT ![p] = NoCharacter]
    /\ to' = [q \in Player |-> to[q] \ {p}]
    /\ listed' = [listed EXCEPT ![p] = {}]
    /\ screen' = [screen EXCEPT ![p] = {}]
    /\ loaded' = [loaded EXCEPT ![p] = FALSE]
    /\ action' = [action EXCEPT ![p] = NoAction]
    /\ busy' = [busy EXCEPT ![p] = 0]
    /\ Goto(p, "out")
    /\ UNCHANGED place

-----------------------------------------------------------------------------
(* Specification *)

\* Steps of a handler that is running.
Proceed(p) ==
    \/ GameMapData(p) \/ Announce(p) \/ Arrived(p) \/ GameMapLoaded(p)
    \/ Exit(p) \/ Departed(p) \/ ChangeMap(p)
    \/ TellLeaving(p) \/ Told(p) \/ Untrack(p)

\* Packets, and connections that come and go.
Receive(p) ==
    \/ \E c \in Own[p] : SetCharacter(p, c)
    \/ GameCreate(p) \/ GameGetExtraInformations(p)
    \/ ActionMovement(p) \/ GameActionCancel(p) \/ GameActionAck(p)
    \/ ReadFails(p)

Next ==
    \E p \in Player :
        \/ Proceed(p) \/ HandlerFails(p) \/ Receive(p)
        \/ \E q \in Player : Deliver(p, q)

Spec == Init /\ [][Next]_vars

\* Handlers run, and so do the goroutines of a broadcast they wait for: the
\* clients read what they are sent.
FairSpec ==
    /\ Spec
    /\ \A p \in Player : WF_vars(Proceed(p) \/ \E q \in Player : Deliver(p, q))

-----------------------------------------------------------------------------
(* Properties *)

\* Every variable has the type its declaration gives it; the unsigned counter
\* busy is never decremented below zero, and only broadcasts write.
TypeOK ==
    /\ byCharacter \in [Character -> Player \cup {NoPlayer, Ghost}]
    /\ place \in [Character -> Place]
    /\ characterId \in [Player -> Character \cup {NoCharacter}]
    /\ pc \in [Player -> Point]
    /\ to \in [Player -> SUBSET Player]
    /\ listed \in [Player -> SUBSET Character]
    /\ screen \in [Player -> SUBSET Character]
    /\ loaded \in [Player -> BOOLEAN]
    /\ action \in [Player -> {NoAction} \cup Movement]
    /\ busy \in [Player -> 0..MaxBusy]
    /\ \A p \in Player : to[p] # {} => pc[p] \in Removing \cup Adding

\* Two players on a map see each other as soon as both have loaded it, in
\* whatever order they were announced, listed each other, came from other maps
\* and changed their characters.
NobodyMissing ==
    \A p, q \in Player :
        /\ pc[p] = "idle" /\ loaded[p]
        /\ pc[q] = "idle"
        /\ At(p).map = At(q).map
        => characterId[q] \in screen[p]

\* The character that began an unfinished walk still stands where it began, so
\* that it finishes no path from a cell or on a map it was not validated for;
\* also after the client has played another character in between.  (What is
\* not true: that the character the session plays is the one that began it.)
ActionIsCurrent ==
    \A p \in Player : action[p] # NoAction =>
        /\ place[action[p].by] = action[p].from
        /\ action[p].target \in Path[action[p].from]

\* A player with an unfinished walk counts as busy, also as another character.
BusyWhileMoving ==
    \A p \in Player : action[p] # NoAction => busy[p] > 0

\* A player who shows its whole map and waits.
Sitting(p) == pc[p] = "idle" /\ loaded[p]

\* A character that disappears from a map, through an exit or with its
\* connection, disappears from the screen of everybody who sits on that map,
\* unless its session fails before it could tell them.
LeaverDisappears ==
    \A p \in Player : \A q \in Player \ {p} : \A c \in Own[q] :
        /\ pc[q] \in {"leaving", "exit"} /\ characterId[q] = c
        /\ Sitting(p) /\ At(p).map = place[c].map /\ c \in screen[p]
        ~> c \notin screen[p] \/ ~ Sitting(p) \/ pc[q] = "failed"
=============================================================================
