------------------------- MODULE MapPresenceProofs -------------------------
(***************************************************************************)
(* For any number of players, characters, maps, exits and paths, and       *)
(* whatever calls of the database fail: players on a map see each other,   *)
(* also when clients select another character in the game, and the         *)
(* character that began a walk stands where it began.                      *)
(*                                                                         *)
(* Why nobody is missing: while q is announced, a player whose map is      *)
(* being shown is either still to be told of q or shows q; and whoever     *)
(* lists the map finds q in the registry, or will be told of q after the   *)
(* list was made.                                                          *)
(***************************************************************************)
EXTENDS MapPresence, TLAPS

USE DEF gameVars, clientVars, moveVars

\* A session plays a character of its own, under which it is registered; one
\* that has none has no walk.
SelectInv ==
    \A p \in Player :
        /\ pc[p] = "out" => characterId[p] = NoCharacter /\ action[p] = NoAction
        /\ pc[p] # "out" =>
              characterId[p] \in Own[p] /\ byCharacter[characterId[p]] = p

\* A player on the way through an exit stands on it and has no walk left.
ExitInv ==
    \A p \in Player : pc[p] \in {"exit", "departing", "changing"} =>
        At(p) \in DOMAIN Trigger /\ action[p] = NoAction

\* The inductive invariant about characters and walks.
WalkInv == TypeOK /\ SelectInv /\ BusyWhileMoving /\ ExitInv

\* Points at which a player is on the map for the others as well.
Present == {"idle", "listing", "exit"}

\* The character of q is shown to p, or is about to be.
Coming(p, q) ==
    characterId[q] \in screen[p] \/ (pc[q] = "arriving" /\ p \in to[q])

\* The inductive invariant about what is shown.
PresenceInv ==
    /\ \A p \in Player : pc[p] \in {"announcing", "arriving"} => ~ loaded[p]
    /\ \A p, q \in Player :
          /\ pc[p] \in Present /\ pc[q] \in Present \cup {"arriving"}
          /\ At(p).map = At(q).map
          => /\ loaded[p] => Coming(p, q)
             /\ pc[p] = "listing" => characterId[q] \in listed[p] \/ Coming(p, q)
-----------------------------------------------------------------------------
(* Characters and walks *)

\* No two players play one character.
LEMMA Distinct ==
  ASSUME MapPresenceAssumption, SelectInv, NEW p \in Player, NEW q \in Player,
         p # q, pc[q] # "out"
  PROVE  characterId[q] \in Character /\ characterId[p] # characterId[q]
  BY DEF MapPresenceAssumption, SelectInv

\* The invariant about walks holds at first.
LEMMA WalkInit == ASSUME MapPresenceAssumption PROVE Init => WalkInv
  BY DEF MapPresenceAssumption, Init, WalkInv, TypeOK, SelectInv,
         BusyWhileMoving, ExitInv, Place, NoAction, Point, Removing, Adding

\* A step of a player that moves no other character leaves the others where
\* they are.
LEMMA OthersStay ==
  ASSUME MapPresenceAssumption, TypeOK, SelectInv, NEW p \in Player,
         NEW at, place' = [place EXCEPT ![characterId[p]] = at],
         UNCHANGED characterId, NEW q \in Player \ {p}, pc[q] # "out"
  PROVE  At(q)' = At(q)
<1>1. characterId[q] \in Character /\ characterId[p] # characterId[q]
  BY Distinct
<1> QED
  BY <1>1 DEF At, TypeOK

\* A finished walk leaves the player on a cell of its map.
LEMMA StandOnMoves ==
  ASSUME MapPresenceAssumption, WalkInv, NEW p \in Player, NEW c \in Cell,
         pc[p] = "idle", StandOn(p, c)
  PROVE  /\ At(p) \in Place
         /\ [At(p) EXCEPT !.cell = c] \in Place
         /\ place' = [place EXCEPT ![characterId[p]] = [At(p) EXCEPT !.cell = c]]
         /\ At(p)' = [At(p) EXCEPT !.cell = c]
         /\ At(p)'.map = At(p).map
<1>1. characterId[p] \in Character
  BY DEF WalkInv, SelectInv, MapPresenceAssumption
<1>2. place \in [Character -> Place] /\ At(p) \in Place
  BY <1>1 DEF WalkInv, TypeOK, At
<1>3. [At(p) EXCEPT !.cell = c] \in Place
      /\ [At(p) EXCEPT !.cell = c].map = At(p).map
  BY <1>2 DEF Place
<1>4. place' = [place EXCEPT ![characterId[p]] = [At(p) EXCEPT !.cell = c]]
  BY <1>1, <1>2 DEF StandOn, At
<1>5. At(p)' = [At(p) EXCEPT !.cell = c]
  BY <1>1, <1>2, <1>4 DEF StandOn, At
<1> QED
  BY <1>2, <1>3, <1>4, <1>5

\* It keeps the invariant.
LEMMA StandOnKeeps ==
  ASSUME MapPresenceAssumption, WalkInv, NEW p \in Player, NEW c \in Cell,
         action[p] # NoAction, pc[p] = "idle", StandOn(p, c),
         NEW next \in {"idle", "exit"}, pc' = [pc EXCEPT ![p] = next],
         next = "exit" => [At(p) EXCEPT !.cell = c] \in DOMAIN Trigger
  PROVE  WalkInv'
<1> USE DEF WalkInv
<1>1. /\ [At(p) EXCEPT !.cell = c] \in Place
      /\ place' = [place EXCEPT ![characterId[p]] = [At(p) EXCEPT !.cell = c]]
      /\ At(p)' = [At(p) EXCEPT !.cell = c]
  BY StandOnMoves
<1>2. busy[p] \in 1..MaxBusy
  BY DEF TypeOK, BusyWhileMoving
<1>3. TypeOK'
  <2>1. place' \in [Character -> Place]
    BY <1>1 DEF TypeOK
  <2>2. busy' \in [Player -> 0..MaxBusy]
    BY <1>2 DEF StandOn, TypeOK, MapPresenceAssumption
  <2> QED
    BY <2>1, <2>2 DEF StandOn, TypeOK, Point, Removing, Adding
<1>4. SelectInv' /\ BusyWhileMoving'
  BY DEF StandOn, TypeOK, SelectInv, BusyWhileMoving
<1>5. ExitInv'
  <2> SUFFICES ASSUME NEW q \in Player,
                      pc'[q] \in {"exit", "departing", "changing"}
               PROVE  At(q)' \in DOMAIN Trigger /\ action'[q] = NoAction
    BY DEF ExitInv
  <2>1. CASE q = p
    BY <1>1, <2>1 DEF StandOn, TypeOK
  <2>2. CASE q # p
    <3>1. pc[q] \in {"exit", "departing", "changing"} /\ action'[q] = action[q]
      BY <2>2 DEF StandOn, TypeOK
    <3>2. At(q)' = At(q)
      BY <1>1, <2>2, <3>1, OthersStay DEF StandOn
    <3> QED
      BY <3>1, <3>2 DEF ExitInv
  <2> QED
    BY <2>1, <2>2
<1> QED
  BY <1>3, <1>4, <1>5

\* A step that changes no walk, no place and nothing busy, and that does not
\* put a player into an exit, keeps the invariant if it keeps the types.
LEMMA WalksAlone ==
  ASSUME WalkInv, TypeOK', UNCHANGED <<byCharacter, place, characterId, action, busy>>,
         NEW p \in Player, NEW point, pc' = [pc EXCEPT ![p] = point],
         point \in {"departing", "changing"} =>
             pc[p] \in {"exit", "departing"},
         pc[p] # "out", point \notin {"out", "exit"}
  PROVE  WalkInv'
  BY DEF WalkInv, TypeOK, SelectInv, BusyWhileMoving, ExitInv, At

\* Steps of the handlers keep the invariant about walks.
LEMMA WalkProceeds ==
  ASSUME MapPresenceAssumption, WalkInv, NEW p \in Player,
         Proceed(p) \/ HandlerFails(p)
  PROVE  WalkInv'
<1> USE DEF Goto, SendMsgToMap, Broadcasted
<1>1. CASE ChangeMap(p)
  <2>1. At(p) \in DOMAIN Trigger /\ action[p] = NoAction
    BY <1>1 DEF ChangeMap, WalkInv, ExitInv
  <2>2. place' = [place EXCEPT ![characterId[p]] = Trigger[At(p)]]
    BY <1>1 DEF ChangeMap
  <2>3. TypeOK'
    BY <1>1, <2>1, <2>2 DEF ChangeMap, WalkInv, TypeOK, MapPresenceAssumption,
                            Point, Removing, Adding
  <2>4. SelectInv' /\ BusyWhileMoving'
    BY <1>1 DEF ChangeMap, WalkInv, TypeOK, SelectInv, BusyWhileMoving
  <2>5. ExitInv'
    <3> SUFFICES ASSUME NEW q \in Player,
                        pc'[q] \in {"exit", "departing", "changing"}
                 PROVE  At(q)' \in DOMAIN Trigger /\ action'[q] = NoAction
      BY DEF ExitInv
    <3>1. /\ q # p /\ action'[q] = action[q]
          /\ pc[q] \in {"exit", "departing", "changing"}
      BY <1>1 DEF ChangeMap, WalkInv, TypeOK
    <3>2. At(q)' = At(q)
      BY <1>1, <2>2, <3>1, OthersStay DEF ChangeMap, WalkInv
    <3> QED
      BY <3>1, <3>2 DEF WalkInv, ExitInv
  <2> QED
    BY <2>3, <2>4, <2>5 DEF WalkInv
<1>2. CASE Untrack(p)
  <2>1. TypeOK'
    BY <1>2 DEF Untrack, WalkInv, TypeOK, MapPresenceAssumption,
                Point, Removing, Adding
  <2>2. SelectInv'
    <3> SUFFICES ASSUME NEW q \in Player \ {p}, pc[q] # "out"
                 PROVE  byCharacter'[characterId[q]] = q
      BY <1>2 DEF Untrack, WalkInv, TypeOK, SelectInv
    <3>1. characterId[q] \in Character /\ characterId[p] # characterId[q]
      BY Distinct DEF WalkInv
    <3> QED
      BY <1>2, <3>1 DEF Untrack, WalkInv, SelectInv
  <2>3. BusyWhileMoving' /\ ExitInv'
    BY <1>2 DEF Untrack, WalkInv, TypeOK, BusyWhileMoving, ExitInv, At
  <2> QED
    BY <2>1, <2>2, <2>3 DEF WalkInv
<1>3. CASE GameMapData(p)
  <2>1. TypeOK'
    BY <1>3 DEF GameMapData, WalkInv, TypeOK, Point, Removing, Adding
  <2>2. /\ pc[p] = "entering" /\ pc' = [pc EXCEPT ![p] = "announcing"]
        /\ UNCHANGED <<byCharacter, place, characterId, action, busy>>
    BY <1>3 DEF GameMapData
  <2> DEFINE point == "announcing"
  <2>3. /\ pc' = [pc EXCEPT ![p] = point] /\ pc[p] # "out"
        /\ point \notin {"out", "exit", "departing", "changing"}
    BY <2>2
  <2> HIDE DEF point
  <2> QED
    BY <2>1, <2>2, <2>3, WalksAlone
<1>4. CASE GameMapLoaded(p)
  <2>1. /\ screen' \in [Player -> SUBSET Character]
        /\ listed' \in [Player -> SUBSET Character]
    BY <1>4 DEF GameMapLoaded, WalkInv, TypeOK
  <2>2. to[p] = {}
    BY <1>4 DEF GameMapLoaded, WalkInv, TypeOK, Removing, Adding
  <2>3. TypeOK'
    BY <1>4, <2>1, <2>2
       DEF GameMapLoaded, WalkInv, TypeOK, Point, Removing, Adding
  <2>4. /\ pc[p] = "listing" /\ pc' = [pc EXCEPT ![p] = "idle"]
        /\ UNCHANGED <<byCharacter, place, characterId, action, busy>>
    BY <1>4 DEF GameMapLoaded
  <2> DEFINE point == "idle"
  <2>5. /\ pc' = [pc EXCEPT ![p] = point] /\ pc[p] # "out"
        /\ point \notin {"out", "exit", "departing", "changing"}
    BY <2>4
  <2> HIDE DEF point
  <2> QED
    BY <2>3, <2>4, <2>5, WalksAlone
<1>5. CASE Announce(p) \/ Exit(p) \/ TellLeaving(p)
  <2> PICK point \in Removing \cup Adding : SendMsgToMap(p, point)
    BY <1>5 DEF Announce, Exit, TellLeaving, Removing, Adding
  <2>1. TypeOK'
    <3>1. Receivers(At(p).map) \subseteq Player
      BY DEF Receivers
    <3>2. to' \in [Player -> SUBSET Player] /\ pc' \in [Player -> Point]
      BY <3>1 DEF WalkInv, TypeOK, Point
    <3>3. \A r \in Player : to'[r] # {} => pc'[r] \in Removing \cup Adding
      BY DEF WalkInv, TypeOK
    <3> QED
      BY <3>2, <3>3 DEF WalkInv, TypeOK
  <2>2. point \notin {"out", "exit"}
    BY DEF Removing, Adding
  <2> QED
    BY <1>5, <2>1, <2>2, WalksAlone DEF Announce, Exit, TellLeaving
<1>6. CASE Arrived(p) \/ Departed(p) \/ Told(p)
  <2>1. TypeOK'
    BY <1>6 DEF Arrived, Departed, Told, WalkInv, TypeOK, Point, Removing,
                Adding
  <2> QED
    BY <1>6, <2>1, WalksAlone DEF Arrived, Departed, Told
<1>7. CASE HandlerFails(p)
  <2>1. TypeOK'
    BY <1>7 DEF HandlerFails, WalkInv, TypeOK, Point, Removing, Adding
  <2>2. /\ pc[p] # "out" /\ pc' = [pc EXCEPT ![p] = "failed"]
        /\ UNCHANGED <<byCharacter, place, characterId, action, busy>>
    BY <1>7 DEF HandlerFails
  <2> DEFINE point == "failed"
  <2>3. /\ pc' = [pc EXCEPT ![p] = point]
        /\ point \notin {"out", "exit", "departing", "changing"}
    BY <2>2
  <2> HIDE DEF point
  <2> QED
    BY <2>1, <2>2, <2>3, WalksAlone
<1> QED
  BY <1>1, <1>2, <1>3, <1>4, <1>5, <1>6, <1>7 DEF Proceed

\* Packets keep the invariant about walks.
LEMMA WalkReceives ==
  ASSUME MapPresenceAssumption, WalkInv, NEW p \in Player, Receive(p)
  PROVE  WalkInv'
<1> USE DEF Goto
<1>1. CASE \E c \in Own[p] : SetCharacter(p, c)
  <2> PICK c \in Own[p] : SetCharacter(p, c)
    BY <1>1
  <2>1. c \in Character
    BY DEF MapPresenceAssumption
  <2>2. to[p] = {}
    BY DEF SetCharacter, MayEnter, WalkInv, TypeOK, Removing, Adding
  <2>3. TypeOK'
    BY <2>1, <2>2 DEF SetCharacter, WalkInv, TypeOK, Point
  <2>4. SelectInv'
    <3> SUFFICES ASSUME NEW q \in Player
                 PROVE  /\ pc'[q] = "out" => characterId'[q] = NoCharacter
                                             /\ action'[q] = NoAction
                        /\ pc'[q] # "out" => characterId'[q] \in Own[q]
                             /\ byCharacter'[characterId'[q]] = q
      BY DEF SelectInv
    <3>1. CASE q = p
      BY <2>1, <3>1 DEF SetCharacter, WalkInv, TypeOK
    <3>2. CASE q # p
      <4>1. pc'[q] = pc[q] /\ characterId'[q] = characterId[q]
            /\ action'[q] = action[q]
        BY <3>2 DEF SetCharacter, WalkInv, TypeOK
      <4>2. pc[q] # "out" => characterId[q] \in Own[q] /\ characterId[q] # c
                             /\ characterId[q] \in Character
        BY <3>2 DEF WalkInv, SelectInv, MapPresenceAssumption
      <4>3. pc[q] # "out" => byCharacter'[characterId[q]] = q
        BY <4>2 DEF SetCharacter, WalkInv, SelectInv, TypeOK
      <4> QED
        BY <4>1, <4>2, <4>3 DEF WalkInv, SelectInv
    <3> QED
      BY <3>1, <3>2
  <2>5. BusyWhileMoving' /\ ExitInv'
    BY DEF SetCharacter, WalkInv, TypeOK, BusyWhileMoving, ExitInv, At
  <2> QED
    BY <2>3, <2>4, <2>5 DEF WalkInv
<1>2. CASE GameCreate(p) \/ ReadFails(p)
  <2>1. TypeOK'
    <3>1. to[p] = {}
      BY <1>2 DEF GameCreate, ReadFails, MayEnter, WalkInv, TypeOK,
                  Removing, Adding
    <3>2. \E point \in Point : pc' = [pc EXCEPT ![p] = point]
      BY <1>2 DEF GameCreate, ReadFails, Point
    <3>3. UNCHANGED <<gameVars, to, clientVars, moveVars>>
      BY <1>2 DEF GameCreate, ReadFails
    <3> QED
      BY <3>1, <3>2, <3>3 DEF WalkInv, TypeOK
  <2> QED
    BY <1>2, <2>1, WalksAlone DEF GameCreate, ReadFails, MayEnter
<1>3. CASE GameGetExtraInformations(p)
  <2>1. TypeOK'
    <3>1. /\ to[p] = {} /\ UNCHANGED <<gameVars, to, screen, loaded, moveVars>>
          /\ pc' = [pc EXCEPT ![p] = "listing"]
      BY <1>3 DEF GameGetExtraInformations, WalkInv, TypeOK, Removing, Adding
    <3>2. listed' \in [Player -> SUBSET Character]
      BY <1>3 DEF GameGetExtraInformations, CharactersOn, WalkInv, TypeOK
    <3> QED
      BY <3>1, <3>2 DEF WalkInv, TypeOK, Point
  <2>2. /\ pc[p] = "idle" /\ pc' = [pc EXCEPT ![p] = "listing"]
        /\ UNCHANGED <<byCharacter, place, characterId, action, busy>>
    BY <1>3 DEF GameGetExtraInformations
  <2> DEFINE point == "listing"
  <2>3. /\ pc' = [pc EXCEPT ![p] = point] /\ pc[p] # "out"
        /\ point \notin {"out", "exit", "departing", "changing"}
    BY <2>2
  <2> HIDE DEF point
  <2> QED
    BY <2>1, <2>2, <2>3, WalksAlone
<1>4. CASE ActionMovement(p)
  <2> PICK target \in Path[At(p)] :
        action' = [action EXCEPT ![p] =
                      [kind |-> "movement", by |-> characterId[p],
                       from |-> At(p), target |-> target]]
    BY <1>4 DEF ActionMovement
  <2>1. characterId[p] \in Character
    BY <1>4 DEF ActionMovement, WalkInv, SelectInv, MapPresenceAssumption
  <2>2. At(p) \in Place /\ target \in Cell
    BY <2>1 DEF WalkInv, TypeOK, MapPresenceAssumption, At
  <2>3. action' \in [Player -> {NoAction} \cup Movement]
    BY <2>1, <2>2 DEF WalkInv, TypeOK, Movement
  <2>4. busy' \in [Player -> 0..MaxBusy] /\ busy'[p] > 0
    BY <1>4 DEF ActionMovement, WalkInv, TypeOK, MapPresenceAssumption
  <2>5. /\ to[p] = {}
        /\ pc' = [pc EXCEPT ![p] = "idle"] \/ pc' = [pc EXCEPT ![p] = "failed"]
        /\ UNCHANGED <<gameVars, to, clientVars>>
    BY <1>4 DEF ActionMovement, WalkInv, TypeOK, Removing, Adding
  <2>6. TypeOK'
    BY <2>3, <2>4, <2>5 DEF WalkInv, TypeOK, Point
  <2>7. SelectInv'
    BY <1>4, <2>5 DEF ActionMovement, WalkInv, TypeOK, SelectInv
  <2>8. BusyWhileMoving' /\ ExitInv'
    BY <1>4, <2>4 DEF ActionMovement, WalkInv, TypeOK, BusyWhileMoving,
                      ExitInv, At
  <2> QED
    BY <2>6, <2>7, <2>8 DEF WalkInv
<1>5. CASE GameActionCancel(p)
  <2> PICK c \in Cell : StandOn(p, c)
    BY <1>5 DEF GameActionCancel
  <2>1. pc' = [pc EXCEPT ![p] = "idle"]
    BY <1>5 DEF GameActionCancel, WalkInv, TypeOK
  <2> QED
    BY <1>5, <2>1, StandOnKeeps DEF GameActionCancel
<1>6. CASE GameActionAck(p)
  <2>1. action[p].target \in Cell
    BY <1>6 DEF GameActionAck, WalkInv, TypeOK, Movement
  <2> QED
    BY <1>6, <2>1, StandOnKeeps DEF GameActionAck
<1> QED
  BY <1>1, <1>2, <1>3, <1>4, <1>5, <1>6 DEF Receive

\* Every step keeps the invariant about walks.
LEMMA WalkStep ==
  ASSUME MapPresenceAssumption, WalkInv, [Next]_vars PROVE WalkInv'
<1>1. CASE UNCHANGED vars
  BY <1>1 DEF vars, WalkInv, TypeOK, SelectInv, BusyWhileMoving, ExitInv, At
<1>2. ASSUME NEW p \in Player, NEW q \in Player, Deliver(p, q) PROVE WalkInv'
  <2>1. TypeOK'
    <3>1. screen' \in [Player -> SUBSET Character]
      <4>1. pc[p] # "out"
        BY <1>2 DEF Deliver, WalkInv, TypeOK, Removing, Adding
      <4>2. characterId[p] \in Character
        BY <4>1 DEF WalkInv, SelectInv, MapPresenceAssumption
      <4> QED
        BY <1>2, <4>2 DEF Deliver, WalkInv, TypeOK
    <3> QED
      BY <1>2, <3>1 DEF Deliver, WalkInv, TypeOK
  <2> QED
    BY <1>2, <2>1 DEF Deliver, WalkInv, SelectInv, BusyWhileMoving, ExitInv, At
<1> QED
  BY <1>1, <1>2, WalkProceeds, WalkReceives DEF Next

\* Every reachable state satisfies the invariant about walks.
LEMMA WalkAlways == ASSUME MapPresenceAssumption PROVE Spec => []WalkInv
  BY WalkInit, WalkStep, PTL DEF Spec

\* Every variable keeps its type, also when clients select characters in the
\* game; in particular busy, which is unsigned in the code, is never
\* decremented when it is zero.
THEOREM TypeCorrect == ASSUME MapPresenceAssumption PROVE Spec => []TypeOK
<1>1. WalkInv => TypeOK
  BY DEF WalkInv
<1> QED
  BY <1>1, WalkAlways, PTL

\* A player with an unfinished walk counts as busy, also after it has selected
\* another character.
THEOREM WalkersAreBusy ==
  ASSUME MapPresenceAssumption PROVE Spec => []BusyWhileMoving
<1>1. WalkInv => BusyWhileMoving
  BY DEF WalkInv
<1> QED
  BY <1>1, WalkAlways, PTL
-----------------------------------------------------------------------------
(* Unfinished walks *)

\* Walks are begun by characters of their player.
OwnWalks == \A p \in Player : action[p] # NoAction => action[p].by \in Own[p]

\* A step of a player that moves no other character leaves the characters of
\* the other players where they are.
LEMMA WalkersStay ==
  ASSUME MapPresenceAssumption, WalkInv, NEW p \in Player, pc[p] # "out",
         NEW at, place' = [place EXCEPT ![characterId[p]] = at],
         NEW q \in Player \ {p}, NEW c \in Own[q]
  PROVE  place'[c] = place[c]
<1>1. characterId[p] \in Own[p] /\ c \notin Own[p] /\ c \in Character
  BY DEF MapPresenceAssumption, WalkInv, SelectInv
<1> QED
  BY <1>1 DEF WalkInv, TypeOK

\* Every step keeps walks where they began.
LEMMA CurrentStep ==
  ASSUME MapPresenceAssumption, WalkInv, OwnWalks, ActionIsCurrent, [Next]_vars
  PROVE  OwnWalks' /\ ActionIsCurrent'
<1> SUFFICES ASSUME NEW r \in Player, action'[r] # NoAction
             PROVE  /\ action'[r].by \in Own[r]
                    /\ place'[action'[r].by] = action'[r].from
                    /\ action'[r].target \in Path[action'[r].from]
  BY DEF ActionIsCurrent, OwnWalks
<1> DEFINE Kept == /\ action'[r] = action[r]
                   /\ place'[action[r].by] = place[action[r].by]
<1> DEFINE Current == /\ action'[r].by \in Own[r]
                      /\ place'[action'[r].by] = action'[r].from
                      /\ action'[r].target \in Path[action'[r].from]
<1>0. Kept => Current
  BY DEF ActionIsCurrent, OwnWalks
<1>1. CASE UNCHANGED vars
  BY <1>1, <1>0 DEF vars
<1>2. UNCHANGED <<place, action>> => Kept
  OBVIOUS
<1>3. ASSUME NEW p \in Player, Proceed(p) \/ HandlerFails(p) PROVE Kept
  <2>1. CASE ChangeMap(p)
    <3>1. action[p] = NoAction /\ pc[p] # "out"
      BY <2>1 DEF ChangeMap, WalkInv, ExitInv
    <3>2. p # r /\ action'[r] = action[r] /\ action[r].by \in Own[r]
      BY <2>1, <3>1 DEF ChangeMap, OwnWalks
    <3> QED
      BY <2>1, <3>1, <3>2, WalkersStay DEF ChangeMap
  <2>2. CASE Untrack(p)
    BY <2>2 DEF Untrack, WalkInv, TypeOK
  <2> QED
    BY <1>2, <1>3, <2>1, <2>2
       DEF Proceed, HandlerFails, GameMapData, Announce, Arrived,
           GameMapLoaded, Exit, Departed, TellLeaving, Told, SendMsgToMap,
           Broadcasted
<1>4. ASSUME NEW p \in Player, ActionMovement(p) PROVE Current
  <2>1. CASE p = r
    <3> PICK target \in Path[At(p)] :
          action' = [action EXCEPT ![p] =
                        [kind |-> "movement", by |-> characterId[p],
                         from |-> At(p), target |-> target]]
      BY <1>4 DEF ActionMovement
    <3>1. action'[r] = [kind |-> "movement", by |-> characterId[r],
                        from |-> At(r), target |-> target]
      BY <2>1 DEF WalkInv, TypeOK
    <3>2. characterId[r] \in Own[r] /\ place' = place
      BY <1>4, <2>1 DEF ActionMovement, WalkInv, SelectInv
    <3> QED
      BY <2>1, <3>1, <3>2 DEF At
  <2>2. CASE p # r
    <3>1. Kept
      BY <1>4, <2>2 DEF ActionMovement, WalkInv, TypeOK
    <3> QED
      BY <1>0, <3>1
  <2> QED
    BY <2>1, <2>2
<1>5. ASSUME NEW p \in Player, GameActionCancel(p) \/ GameActionAck(p)
      PROVE  Kept
  <2> PICK c \in Cell : StandOn(p, c)
    BY <1>5 DEF GameActionCancel, GameActionAck, WalkInv, TypeOK, Movement
  <2>1. pc[p] = "idle"
    BY <1>5 DEF GameActionCancel, GameActionAck
  <2>2. p # r /\ action'[r] = action[r]
    BY DEF StandOn, WalkInv, TypeOK
  <2>3. action[r].by \in Own[r]
    BY <2>2 DEF OwnWalks
  <2>4. place' = [place EXCEPT ![characterId[p]] = [At(p) EXCEPT !.cell = c]]
    BY <2>1, StandOnMoves
  <2> QED
    BY <2>1, <2>2, <2>3, <2>4, WalkersStay
<1> QED
  BY <1>0, <1>1, <1>2, <1>3, <1>4, <1>5
     DEF Next, Receive, Deliver, SetCharacter, GameCreate,
         GameGetExtraInformations, ReadFails

\* Whatever a client starts, cancels and acknowledges, and whichever characters
\* it selects in between, the character that began an unfinished walk still
\* stands on the cell and the map its path was validated for.
THEOREM WalksAreCurrent ==
  ASSUME MapPresenceAssumption PROVE Spec => []ActionIsCurrent
<1>1. Init => OwnWalks /\ ActionIsCurrent
  BY DEF Init, OwnWalks, ActionIsCurrent
<1>2. WalkInv /\ OwnWalks /\ ActionIsCurrent /\ [Next]_vars
      => OwnWalks' /\ ActionIsCurrent'
  BY CurrentStep
<1> QED
  BY <1>1, <1>2, WalkAlways, PTL DEF Spec
-----------------------------------------------------------------------------
(* Presence *)

\* Nobody is there at first.
LEMMA PresenceInit == Init => PresenceInv
  BY DEF Init, PresenceInv, Present

\* A message that is written moves a player from the receivers of a broadcast
\* to the screen of the receiver.
LEMMA DeliverKeeps ==
  ASSUME MapPresenceAssumption, WalkInv, PresenceInv,
         NEW r \in Player, NEW d \in Player, Deliver(r, d)
  PROVE  PresenceInv'
<1> USE DEF Deliver, Removing, Adding, Present
<1>0. TypeOK /\ SelectInv
  BY DEF WalkInv
<1>1. pc[r] \in {"departing", "telling", "arriving"}
  BY <1>0 DEF TypeOK
<1>2. ASSUME NEW p \in Player, NEW q \in Player,
             pc[q] \in Present \cup {"arriving"}, Coming(p, q)
      PROVE  Coming(p, q)'
  <2>1. CASE q = r
    BY <1>0, <1>2, <2>1 DEF TypeOK, Coming
  <2>2. CASE q # r
    <3>1. characterId[q] # characterId[r]
      BY <1>0, <1>1, <1>2, <2>2, Distinct
    <3> QED
      BY <1>0, <1>2, <2>2, <3>1 DEF TypeOK, Coming
  <2> QED
    BY <2>1, <2>2
<1>3. UNCHANGED <<characterId, place, pc, listed, loaded>>
  OBVIOUS
<1>4. \A p \in Player : At(p)' = At(p)
  BY DEF At
<1> QED
  BY <1>2, <1>3, <1>4 DEF PresenceInv

\* A step that writes nothing to a client and announces nobody keeps what is
\* coming to whom.
LEMMA QuietKeeps ==
  ASSUME TypeOK, PresenceInv, NEW r \in Player,
         UNCHANGED <<characterId, to, listed, screen, loaded>>,
         At(r)'.map = At(r).map \/ pc'[r] = "entering",
         \A p \in Player \ {r} : pc[p] # "out" => At(p)' = At(p),
         NEW point, pc' = [pc EXCEPT ![r] = point],
         point \in {"out", "announcing", "arriving", "listing"} => point = pc[r],
         point \in Present => pc[r] \in Present \cup {"arriving"} /\ to[r] = {}
  PROVE  PresenceInv'
<1> USE DEF TypeOK, Present
<1>1. ASSUME NEW p \in Player, NEW q \in Player,
             pc'[q] \in Present \cup {"arriving"}, Coming(p, q)
      PROVE  Coming(p, q)'
  BY <1>1 DEF Coming
<1>2. \A p \in Player :
         /\ pc'[p] \in Present \cup {"arriving"} =>
               /\ pc[p] \in Present \cup {"arriving"}
               /\ At(p)'.map = At(p).map
         /\ pc'[p] \in Present => pc[p] \in Present \/ p = r
         /\ pc'[p] = "listing" => pc[p] = "listing"
  OBVIOUS
<1>3. pc[r] = "arriving" => ~ loaded[r]
  BY DEF PresenceInv
<1> QED
  BY <1>1, <1>2, <1>3 DEF PresenceInv

\* A broadcast finds everybody who is shown the map.
LEMMA SendKeeps ==
  ASSUME MapPresenceAssumption, WalkInv, PresenceInv, NEW r \in Player,
         NEW point, SendMsgToMap(r, point),
         \/ point \in Removing
         \/ point = "arriving" /\ pc[r] = "announcing"
  PROVE  PresenceInv'
<1> USE DEF SendMsgToMap, Goto, Present, Removing
<1>0. TypeOK /\ SelectInv
  BY DEF WalkInv
<1>1. ASSUME NEW p \in Player, NEW q \in Player \ {r},
             pc[q] \in Present \cup {"arriving"}, Coming(p, q)
      PROVE  Coming(p, q)'
  BY <1>0, <1>1 DEF TypeOK, Coming
<1>2. ASSUME NEW p \in Player, pc[p] \in Present, At(p).map = At(r).map,
             point = "arriving"
      PROVE  Coming(p, r)'
  <2>1. characterId[p] \in CharactersOn(At(r).map)
    BY <1>0, <1>2 DEF CharactersOn, SelectInv, MapPresenceAssumption, At
  <2>2. p \in Receivers(At(r).map)
    BY <1>0, <1>2, <2>1 DEF Receivers, SelectInv
  <2> QED
    BY <1>0, <1>2, <2>2 DEF TypeOK, Coming
<1>3. \A p \in Player : pc'[p] \in Present => p # r /\ pc[p] = pc'[p]
  BY <1>0 DEF TypeOK
<1>4. \A p \in Player : At(p)' = At(p)
  BY DEF At
<1> QED
  BY <1>0, <1>1, <1>2, <1>3, <1>4 DEF TypeOK, PresenceInv

\* Every step keeps the invariant about what is shown.
LEMMA PresenceStep ==
  ASSUME MapPresenceAssumption, WalkInv, PresenceInv, [Next]_vars
  PROVE  PresenceInv'
<1>0. TypeOK /\ SelectInv
  BY DEF WalkInv
<1>1. CASE UNCHANGED vars
  BY <1>1 DEF vars, PresenceInv, Coming, At
<1>2. ASSUME NEW p \in Player, Proceed(p) \/ HandlerFails(p) PROVE PresenceInv'
  <2>1. CASE GameMapData(p)
    BY <1>0, <2>1
       DEF GameMapData, Goto, TypeOK, PresenceInv, Coming, Present, At
  <2>2. CASE Announce(p) \/ Exit(p) \/ TellLeaving(p)
    BY <2>2, SendKeeps DEF Announce, Exit, TellLeaving, Removing
  <2>3. CASE Arrived(p) \/ Departed(p) \/ Told(p)
    BY <1>0, <2>3, QuietKeeps
       DEF Arrived, Departed, Told, Broadcasted, Goto, Present, At
  <2>4. CASE GameMapLoaded(p)
    <3>1. ASSUME NEW r \in Player, NEW q \in Player, Coming(r, q)
          PROVE  Coming(r, q)'
      BY <1>0, <2>4, <3>1 DEF GameMapLoaded, Goto, TypeOK, Coming
    <3>2. ASSUME NEW q \in Player, characterId[q] \in listed[p] \/ Coming(p, q)
          PROVE  Coming(p, q)'
      BY <1>0, <2>4, <3>1, <3>2 DEF GameMapLoaded, TypeOK, Coming
    <3>3. \A q \in Player : At(q)' = At(q)
      BY <2>4 DEF GameMapLoaded, At
    <3> QED
      BY <1>0, <2>4, <3>1, <3>2, <3>3
         DEF GameMapLoaded, Goto, TypeOK, PresenceInv, Present
  <2>5. CASE ChangeMap(p)
    <3>1. \A q \in Player \ {p} : pc[q] # "out" => At(q)' = At(q)
      BY <1>0, <2>5, OthersStay DEF ChangeMap
    <3> QED
      BY <1>0, <2>5, <3>1, QuietKeeps DEF ChangeMap, Goto, TypeOK, Present
  <2>6. CASE HandlerFails(p)
    BY <1>0, <2>6, QuietKeeps DEF HandlerFails, Goto, Present, At
  <2>7. CASE Untrack(p)
    <3>1. ASSUME NEW r \in Player \ {p}, NEW q \in Player \ {p},
                 pc[q] # "out", Coming(r, q)
          PROVE  Coming(r, q)'
      BY <1>0, <2>7, <3>1 DEF Untrack, Goto, TypeOK, Coming
    <3>2. \A q \in Player \ {p} :
             At(q)' = At(q) /\ characterId'[q] = characterId[q]
      BY <1>0, <2>7 DEF Untrack, TypeOK, At
    <3>3. \A q \in Player : /\ pc'[q] = IF q = p THEN "out" ELSE pc[q]
                            /\ q # p => loaded'[q] = loaded[q]
                            /\ q # p => listed'[q] = listed[q]
      BY <1>0, <2>7 DEF Untrack, Goto, TypeOK
    <3> QED
      BY <3>1, <3>2, <3>3 DEF PresenceInv, Present
  <2> QED
    BY <1>2, <2>1, <2>2, <2>3, <2>4, <2>5, <2>6, <2>7 DEF Proceed
<1>3. ASSUME NEW p \in Player, Receive(p) PROVE PresenceInv'
  <2>1. CASE \E c \in Own[p] : SetCharacter(p, c)
    <3> PICK c \in Own[p] : SetCharacter(p, c)
      BY <2>1
    <3>1. \A q \in Player \ {p} :
             At(q)' = At(q) /\ characterId'[q] = characterId[q]
      BY <1>0 DEF SetCharacter, TypeOK, At
    <3>2. ASSUME NEW r \in Player, NEW q \in Player \ {p}, Coming(r, q)
          PROVE  Coming(r, q)'
      BY <1>0, <3>1, <3>2 DEF SetCharacter, Goto, TypeOK, Coming
    <3>3. \A q \in Player : pc'[q] = IF q = p THEN "selected" ELSE pc[q]
      BY <1>0 DEF SetCharacter, Goto, TypeOK
    <3> QED
      BY <3>1, <3>2, <3>3 DEF SetCharacter, PresenceInv, Present
  <2>2. CASE GameCreate(p) \/ ReadFails(p)
    BY <1>0, <2>2, QuietKeeps DEF GameCreate, ReadFails, Goto, Present, At
  <2>3. CASE GameGetExtraInformations(p)
    <3>1. \A q \in Player : pc[q] \in Present \cup {"arriving"} /\
                 At(p).map = At(q).map => characterId[q] \in listed'[p]
      BY <1>0, <2>3 DEF GameGetExtraInformations, CharactersOn, TypeOK,
                        SelectInv, MapPresenceAssumption, Present, At
    <3>2. \A q \in Player : At(q)' = At(q)
      BY <2>3 DEF GameGetExtraInformations, At
    <3> QED
      BY <1>0, <2>3, <3>1, <3>2 DEF GameGetExtraInformations, Goto, TypeOK,
                                    PresenceInv, Coming, Present
  <2>4. CASE ActionMovement(p)
    BY <1>0, <2>4, QuietKeeps DEF ActionMovement, Goto, TypeOK, Present,
                                  Removing, Adding, At
  <2>5. CASE GameActionCancel(p) \/ GameActionAck(p)
    <3> PICK c \in Cell : StandOn(p, c)
      BY <1>0, <2>5 DEF GameActionCancel, GameActionAck, TypeOK, Movement
    <3>1. pc[p] = "idle" /\ to[p] = {}
      BY <1>0, <2>5 DEF GameActionCancel, GameActionAck, TypeOK, Removing,
                        Adding
    <3>2. /\ At(p)'.map = At(p).map
          /\ place' = [place EXCEPT ![characterId[p]] = [At(p) EXCEPT !.cell = c]]
          /\ UNCHANGED <<characterId, to, listed, screen, loaded>>
      BY <3>1, StandOnMoves DEF StandOn
    <3>3. \A q \in Player \ {p} : pc[q] # "out" => At(q)' = At(q)
      BY <1>0, <3>2, OthersStay
    <3>4. PICK point \in {"idle", "exit"} : pc' = [pc EXCEPT ![p] = point]
      BY <1>0, <2>5, <3>1 DEF GameActionCancel, GameActionAck, Goto, TypeOK
    <3> QED
      BY <1>0, <3>1, <3>2, <3>3, <3>4, QuietKeeps DEF Present
  <2> QED
    BY <1>3, <2>1, <2>2, <2>3, <2>4, <2>5 DEF Receive
<1>4. ASSUME NEW p \in Player, NEW q \in Player, Deliver(p, q)
      PROVE  PresenceInv'
  BY <1>4, DeliverKeeps
<1> QED
  BY <1>1, <1>2, <1>3, <1>4 DEF Next

\* Two players on a map see each other as soon as both have loaded it,
\* however their announcements, lists, changes of maps and selections of other
\* characters interleave.
THEOREM NobodyIsMissing ==
  ASSUME MapPresenceAssumption PROVE Spec => []NobodyMissing
<1>1. WalkInv /\ PresenceInv => NobodyMissing
  BY DEF PresenceInv, NobodyMissing, Present, Coming
<1>2. WalkInv /\ PresenceInv /\ [Next]_vars => PresenceInv'
  BY PresenceStep
<1> QED
  BY <1>1, <1>2, WalkAlways, PresenceInit, PTL DEF Spec
=============================================================================
