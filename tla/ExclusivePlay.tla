--------------------------- MODULE ExclusivePlay ---------------------------
(***************************************************************************)
(* What the session registry of the game server promises, without packets, *)
(* statuses or database calls: a connection takes an account nobody holds, *)
(* plays characters of the accounts it holds, and gives them back when it  *)
(* ends.  The module Sessions implements this specification.               *)
(***************************************************************************)

CONSTANTS
    Session,      \* the connections of a run of the server
    Account,      \* the accounts of the database
    Character,    \* the characters of the database
    AccountOf,    \* the account that owns each character
    NoSession,    \* "nobody holds it"
    NoCharacter   \* "plays nothing"

VARIABLES
    holder,       \* the session that holds each account
    playing       \* the character each session plays

playVars == <<holder, playing>>

PlayInit ==
    /\ holder = [a \in Account |-> NoSession]
    /\ playing = [s \in Session |-> NoCharacter]

\* An account is taken only while nobody holds it: no take-over.
Acquire(s, a) ==
    /\ holder[a] = NoSession
    /\ holder' = [holder EXCEPT ![a] = s]
    /\ UNCHANGED playing

\* Only the holder of an account plays its characters.
Play(s, c) ==
    /\ holder[AccountOf[c]] = s
    /\ playing' = [playing EXCEPT ![s] = c]
    /\ UNCHANGED holder

\* A session that ends plays nothing and may give back accounts it holds,
\* never an account another session holds.
Leave(s) ==
    /\ playing' = [playing EXCEPT ![s] = NoCharacter]
    /\ \E released \in SUBSET {a \in Account : holder[a] = s} :
          holder' = [a \in Account |->
                        IF a \in released THEN NoSession ELSE holder[a]]

PlayNext ==
    \E s \in Session :
        \/ \E a \in Account : Acquire(s, a)
        \/ \E c \in Character : Play(s, c)
        \/ Leave(s)

PlaySpec == PlayInit /\ [][PlayNext]_playVars
============================================================================
