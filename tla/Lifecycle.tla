----------------------------- MODULE Lifecycle -----------------------------
(***************************************************************************)
(* The goroutines of a run of the server: the main one, ListenAndServe,    *)
(* the accept loop, the maintenance loop and, for each client, the         *)
(* goroutine of handleClientConn with its reader.  They wait for each      *)
(* other through WaitGroups, unbuffered error channels, the context that a *)
(* signal cancels, and Server.mu.                                          *)
(*                                                                         *)
(* A send on an unbuffered channel and its receive are one action.  The    *)
(* deferred calls of a function run in reverse order; each one that others *)
(* can see is a step of its own.  What the packets do is left out: a       *)
(* handler either returns at once or tells the whole map something.        *)
(***************************************************************************)
EXTENDS Naturals, FiniteSets

CONSTANTS
    Client,     \* the connections of the run
    MayStall,   \* those whose client may stop reading for good
    MayHappen,  \* what may happen to the server: see Event
    Free, Maintenance

\* A signal; or a failure of the start, of a write of the state, of AcceptTCP,
\* of the maintenance of mounts, of setting up a connection, of the database
\* call of a broadcast.
Event == {"signal", "start", "state", "accept", "maintain", "setup", "map"}

ASSUME LifecycleAssumption ==
    /\ MayHappen \subseteq Event
    /\ MayStall \subseteq Client
    /\ Free \notin Client /\ Maintenance \notin Client
    /\ Free # Maintenance

VARIABLES
    ctxDone,    \* the context of main is cancelled
    main,       \* the goroutine of run
    reported,   \* run returns an error
    serve,      \* the goroutine of ListenAndServe
    outcome,    \* the error ListenAndServe returns
    state,      \* the state of this game server in the database
    stateLost,  \* a write of that state failed and was given up
    listening,  \* the TCP listener
    accept,     \* the goroutine of acceptLoop
    maintain,   \* the goroutine of maintain
    mu,         \* who holds Server.mu
    tracked,    \* Server.sessions
    handler,    \* the goroutine of handleClientConn of each client
    reader,     \* the goroutine of receivePackets of each client
    to,         \* the sessions a broadcast of the reader still writes to
    conn,       \* the connection of each client
    stalled     \* clients that do not read: writing to them blocks

mainVars == <<ctxDone, main, reported>>
serveVars == <<serve, outcome, state, stateLost, listening>>
loopVars == <<accept, maintain>>
clientVars == <<tracked, handler, reader, to, conn, stalled>>
vars == <<mainVars, serveVars, loopVars, mu, clientVars>>

ServePoint == {"starting", "loading", "opening", "announcing", "select",
               "closing", "retracting", "waiting", "report", "done"}
HandlerPoint == {"none", "tracking", "select", "farewell", "waiting", "gone"}
ReaderPoint == {"none", "reading", "sending", "leaving", "telling", "report",
                "done"}

\* The server of an earlier run may have crashed while it was online.
Init ==
    /\ ctxDone = FALSE /\ main = "select" /\ reported = FALSE
    /\ serve = "starting" /\ outcome = "none"
    /\ state \in {"offline", "online"} /\ stateLost = FALSE
    /\ listening = "no"
    /\ accept = "none" /\ maintain = "none"
    /\ mu = Free
    /\ tracked = {}
    /\ handler = [c \in Client |-> "none"]
    /\ reader = [c \in Client |-> "none"]
    /\ to = [c \in Client |-> {}]
    /\ conn = [c \in Client |-> "open"]
    /\ stalled = {}

-----------------------------------------------------------------------------
(* run *)

\* SIGINT or SIGTERM.
Signal ==
    /\ "signal" \in MayHappen
    /\ main # "exited"
    /\ ~ ctxDone
    /\ ctxDone' = TRUE
    /\ UNCHANGED <<main, reported, serveVars, loopVars, mu, clientVars>>

\* run receives the error of ListenAndServe and cancels the context.
MainReceives ==
    /\ main = "select"
    /\ serve = "report"
    /\ main' = "waiting" /\ reported' = TRUE /\ ctxDone' = TRUE
    /\ serve' = "done"
    /\ UNCHANGED <<outcome, state, stateLost, listening, loopVars, mu,
                   clientVars>>

MainCancelled ==
    /\ main = "select"
    /\ ctxDone
    /\ main' = "waiting"
    /\ UNCHANGED <<ctxDone, reported, serveVars, loopVars, mu, clientVars>>

\* wg.Wait, then pool.Close.
MainExits ==
    /\ main = "waiting"
    /\ serve = "done"
    /\ main' = "exited"
    /\ UNCHANGED <<ctxDone, reported, serveVars, loopVars, mu, clientVars>>

-----------------------------------------------------------------------------
(* ListenAndServe *)

\* The database has no such game server, or its state cannot be written.
StartFails ==
    /\ serve = "starting"
    /\ "start" \in MayHappen \/ ctxDone
    /\ serve' = "waiting" /\ outcome' = "failed" /\ stateLost' = TRUE
    /\ UNCHANGED <<mainVars, state, listening, loopVars, mu, clientVars>>

\* Mutant: the state an earlier run left is not cleared.
StartedStale ==
    /\ serve = "starting"
    /\ serve' = "loading"
    /\ UNCHANGED <<mainVars, outcome, state, stateLost, listening, loopVars, mu,
                   clientVars>>

Started ==
    /\ serve = "starting"
    /\ serve' = "loading" /\ state' = "offline"
    /\ UNCHANGED <<mainVars, outcome, stateLost, listening, loopVars, mu,
                   clientVars>>

\* loadCache or ListenTCP fails: only the state has to be put back.
LoadingFails ==
    /\ serve \in {"loading", "opening"}
    /\ "start" \in MayHappen \/ ctxDone
    /\ serve' = "retracting" /\ outcome' = "failed"
    /\ UNCHANGED <<mainVars, state, stateLost, listening, loopVars, mu,
                   clientVars>>

Loaded ==
    /\ serve = "loading"
    /\ serve' = "opening"
    /\ UNCHANGED <<mainVars, outcome, state, stateLost, listening, loopVars,
                   mu, clientVars>>

Opened ==
    /\ serve = "opening"
    /\ serve' = "announcing" /\ listening' = "open"
    /\ UNCHANGED <<mainVars, outcome, state, stateLost, loopVars, mu,
                   clientVars>>

\* The call that sets the state to online fails, before or after the write.
AnnouncingFails ==
    /\ serve = "announcing"
    /\ "state" \in MayHappen \/ ctxDone
    /\ serve' = "closing" /\ outcome' = "failed"
    /\ state' \in {state, "online"}
    /\ UNCHANGED <<mainVars, stateLost, listening, loopVars, mu, clientVars>>

Announced ==
    /\ serve = "announcing"
    /\ serve' = "select" /\ state' = "online"
    /\ accept' = "accepting" /\ maintain' = "ticking"
    /\ UNCHANGED <<mainVars, outcome, stateLost, listening, mu, clientVars>>

ServeCancelled ==
    /\ serve = "select"
    /\ ctxDone
    /\ serve' = "closing" /\ outcome' = "cancelled"
    /\ UNCHANGED <<mainVars, state, stateLost, listening, loopVars, mu,
                   clientVars>>

\* The error of a loop reaches ListenAndServe.
ServeReceives ==
    /\ serve = "select"
    /\ \/ accept = "report" /\ accept' = "done" /\ UNCHANGED maintain
       \/ maintain = "report" /\ maintain' = "done" /\ UNCHANGED accept
    /\ serve' = "closing" /\ outcome' = "failed"
    /\ UNCHANGED <<mainVars, state, stateLost, listening, mu, clientVars>>

CloseListener ==
    /\ serve = "closing"
    /\ serve' = "retracting" /\ listening' = "closed"
    /\ UNCHANGED <<mainVars, outcome, state, stateLost, loopVars, mu,
                   clientVars>>

\* One second to set the state to offline; a failure is only logged.
Retract ==
    /\ serve = "retracting"
    /\ serve' = "waiting"
    /\ \/ state' = "offline" /\ UNCHANGED stateLost
       \/ "state" \in MayHappen /\ stateLost' = TRUE /\ UNCHANGED state
    /\ UNCHANGED <<mainVars, outcome, listening, loopVars, mu, clientVars>>

\* wg.Wait: both loops have returned.
ServeWaited ==
    /\ serve = "waiting"
    /\ accept \in {"none", "done"} /\ maintain \in {"none", "done"}
    /\ serve' = "report"
    /\ UNCHANGED <<mainVars, outcome, state, stateLost, listening, loopVars,
                   mu, clientVars>>

\* Nobody has to hear of an error once the context is cancelled.
ServeUnheard ==
    /\ serve = "report"
    /\ ctxDone
    /\ serve' = "done"
    /\ UNCHANGED <<mainVars, outcome, state, stateLost, listening, loopVars,
                   mu, clientVars>>

-----------------------------------------------------------------------------
(* acceptLoop and maintain *)

AcceptClient(c) ==
    /\ accept = "accepting"
    /\ listening = "open"
    /\ handler[c] = "none"
    /\ handler' = [handler EXCEPT ![c] = "tracking"]
    /\ UNCHANGED <<mainVars, serveVars, loopVars, mu, tracked, reader, to,
                   conn, stalled>>

\* AcceptTCP fails, because the listener is closed or on its own.
AcceptFails ==
    /\ accept = "accepting"
    /\ listening = "closed" \/ "accept" \in MayHappen
    /\ accept' = "draining"
    /\ UNCHANGED <<mainVars, serveVars, maintain, mu, clientVars>>

\* Mutant: the loop does not wait for its clients.
AcceptUndrained ==
    /\ accept = "draining"
    /\ accept' = "report"
    /\ UNCHANGED <<mainVars, serveVars, maintain, mu, clientVars>>

\* wg.Wait: every handleClientConn has returned.
AcceptDrained ==
    /\ accept = "draining"
    /\ \A c \in Client : handler[c] \in {"none", "gone"}
    /\ accept' = "report"
    /\ UNCHANGED <<mainVars, serveVars, maintain, mu, clientVars>>

\* Mutant: the error is sent without an eye on the context.
AcceptUnheardNever ==
    /\ accept = "report"
    /\ serve = "select"
    /\ accept' = "done"
    /\ UNCHANGED <<mainVars, serveVars, maintain, mu, clientVars>>

AcceptUnheard ==
    /\ accept = "report"
    /\ ctxDone
    /\ accept' = "done"
    /\ UNCHANGED <<mainVars, serveVars, maintain, mu, clientVars>>

\* Six hours have passed; deleteInvalidMounts takes the mutex.
Tick ==
    /\ maintain = "ticking"
    /\ mu = Free
    /\ maintain' = "deleting" /\ mu' = Maintenance
    /\ UNCHANGED <<mainVars, serveVars, accept, clientVars>>

MountsDeleted ==
    /\ maintain = "deleting"
    /\ maintain' = "ticking" /\ mu' = Free
    /\ UNCHANGED <<mainVars, serveVars, accept, clientVars>>

MaintainFails ==
    /\ maintain = "deleting"
    /\ "maintain" \in MayHappen \/ ctxDone
    /\ maintain' = "report" /\ mu' = Free
    /\ UNCHANGED <<mainVars, serveVars, accept, clientVars>>

MaintainCancelled ==
    /\ maintain = "ticking"
    /\ ctxDone
    /\ maintain' = "report"
    /\ UNCHANGED <<mainVars, serveVars, accept, mu, clientVars>>

MaintainUnheard ==
    /\ maintain = "report"
    /\ ctxDone
    /\ maintain' = "done"
    /\ UNCHANGED <<mainVars, serveVars, accept, mu, clientVars>>

-----------------------------------------------------------------------------
(* handleClientConn *)

\* trackSession(sess, true), then setting up the connection, which may fail:
\* the connection is closed, and there is no reader to wait for.
Track(c) ==
    /\ handler[c] = "tracking"
    /\ mu = Free
    /\ tracked' = tracked \cup {c}
    /\ \/ /\ handler' = [handler EXCEPT ![c] = "select"]
          /\ reader' = [reader EXCEPT ![c] = "reading"]
          /\ UNCHANGED conn
       \/ /\ "setup" \in MayHappen \/ conn[c] # "open"
          /\ handler' = [handler EXCEPT ![c] = "waiting"]
          /\ conn' = [conn EXCEPT ![c] = "closed"]
          /\ UNCHANGED reader
    /\ UNCHANGED <<mainVars, serveVars, loopVars, mu, to, stalled>>

\* The body of handleClientConn returns: the deferred calls cancel the context
\* of the connection and close it.
Return(c) ==
    /\ handler' = [handler EXCEPT ![c] = "waiting"]
    /\ conn' = [conn EXCEPT ![c] = "closed"]
    /\ UNCHANGED <<mainVars, serveVars, loopVars, mu, tracked, to, stalled>>

\* The error of receivePackets reaches handleClientConn.
HandlerReceives(c) ==
    /\ handler[c] = "select"
    /\ reader[c] = "report"
    /\ reader' = [reader EXCEPT ![c] = "done"]
    /\ Return(c)

\* The server is stopping: the client is told first.
HandlerCancelled(c) ==
    /\ handler[c] = "select"
    /\ ctxDone
    /\ handler' = [handler EXCEPT ![c] = "farewell"]
    /\ UNCHANGED <<mainVars, serveVars, loopVars, mu, tracked, reader, to,
                   conn, stalled>>

\* Writing to c returns: its client reads, or the connection is not open.
CanSend(c) == conn[c] = "open" => c \notin stalled

FarewellSent(c) ==
    /\ handler[c] = "farewell"
    /\ CanSend(c)
    /\ Return(c)
    /\ UNCHANGED reader

\* Mutant: handleClientConn does not wait for its reader.
UntrackUnawaited(c) ==
    /\ handler[c] = "waiting"
    /\ mu = Free
    /\ tracked' = tracked \ {c}
    /\ handler' = [handler EXCEPT ![c] = "gone"]
    /\ UNCHANGED <<mainVars, serveVars, loopVars, mu, reader, to, conn, stalled>>

\* The last deferred calls: wg.Wait for the reader, trackSession(sess, false).
Untrack(c) ==
    /\ handler[c] = "waiting"
    /\ reader[c] \in {"none", "done"}
    /\ mu = Free
    /\ tracked' = tracked \ {c}
    /\ handler' = [handler EXCEPT ![c] = "gone"]
    /\ UNCHANGED <<mainVars, serveVars, loopVars, mu, reader, to, conn, stalled>>

-----------------------------------------------------------------------------
(* receivePackets *)

\* The context of the connection is cancelled with that of the server and
\* when handleClientConn returns, before it closes the connection.
ConnDone(c) == ctxDone \/ handler[c] \in {"waiting", "gone"}

ReaderGoto(c, p) ==
    /\ reader' = [reader EXCEPT ![c] = p]
    /\ UNCHANGED <<mainVars, serveVars, loopVars, mu, tracked, handler, to,
                   conn, stalled>>

\* A handler, or the rate limiter once the context is cancelled, returns an
\* error that ends the session.
HandlerFails(c) ==
    /\ reader[c] = "reading"
    /\ conn[c] = "open" \/ ConnDone(c)
    /\ ReaderGoto(c, "report")

\* The client is gone, silent for connTimeout, or the connection is closed.
ReadFails(c) ==
    /\ reader[c] = "reading"
    /\ ReaderGoto(c, "leaving")

\* Mutant: receivePackets returns without an error.
LeavesSilently(c) ==
    /\ reader[c] = "leaving"
    /\ ReaderGoto(c, "done")

\* No character was selected, or it cannot be read.
LeavesUnseen(c) ==
    /\ reader[c] = "leaving"
    /\ ReaderGoto(c, "report")

\* sendMsgToMap takes the mutex.
LockMap(c, p) ==
    /\ mu = Free
    /\ mu' = c
    /\ reader' = [reader EXCEPT ![c] = p]
    /\ UNCHANGED <<mainVars, serveVars, loopVars, tracked, handler, to, conn,
                   stalled>>

\* In the handler of a packet of the client.
Broadcast(c) ==
    /\ reader[c] = "reading"
    /\ conn[c] = "open"
    /\ LockMap(c, "sending")

\* To take a leaving character off the map.
TellLeaving(c) ==
    /\ reader[c] = "leaving"
    /\ LockMap(c, "telling")

\* Mutant: the mutex is given back after everybody was written to.
UnlockMapLate(c) ==
    /\ mu = c
    /\ \A d \in tracked : CanSend(d)
    /\ mu' = Free
    /\ UNCHANGED <<mainVars, serveVars, loopVars, tracked, handler, reader,
                   to, conn, stalled>>

\* It starts a goroutine for every session on the map and gives the mutex
\* back before it waits for them.
UnlockMap(c) ==
    /\ mu = c
    /\ mu' = Free
    /\ to' = [to EXCEPT ![c] = tracked]
    /\ UNCHANGED <<mainVars, serveVars, loopVars, tracked, handler, reader,
                   conn, stalled>>

\* Mutant: it returns with the mutex.
UnlockMapFailsHolding(c) ==
    /\ mu = c
    /\ "map" \in MayHappen \/ ConnDone(c)
    /\ ReaderGoto(c, "report")

\* The database call under the mutex fails, and nobody is told.
UnlockMapFails(c) ==
    /\ mu = c
    /\ "map" \in MayHappen \/ ConnDone(c)
    /\ mu' = Free
    /\ reader' = [reader EXCEPT ![c] = "report"]
    /\ UNCHANGED <<mainVars, serveVars, loopVars, tracked, handler, to, conn,
                   stalled>>

\* One of the goroutines of the broadcast has written its message.
MessageSent(c, d) ==
    /\ mu # c
    /\ d \in to[c]
    /\ CanSend(d)
    /\ to' = [to EXCEPT ![c] = @ \ {d}]
    /\ UNCHANGED <<mainVars, serveVars, loopVars, mu, tracked, handler, reader,
                   conn, stalled>>

\* All of them have.
BroadcastDone(c) ==
    /\ mu # c
    /\ to[c] = {}
    /\ \/ reader[c] = "sending" /\ ReaderGoto(c, "reading")
       \/ reader[c] = "telling" /\ ReaderGoto(c, "report")

ReaderUnheard(c) ==
    /\ reader[c] = "report"
    /\ ConnDone(c)
    /\ ReaderGoto(c, "done")

-----------------------------------------------------------------------------
(* The clients *)

\* The client goes away, or another login closes the connection.
Drop(c) ==
    /\ handler[c] \notin {"none", "gone"}
    /\ conn[c] = "open"
    /\ conn' = [conn EXCEPT ![c] = "dropped"]
    /\ UNCHANGED <<mainVars, serveVars, loopVars, mu, tracked, handler, reader,
                   to, stalled>>

\* The client stops reading and stays.
Stall(c) ==
    /\ c \in MayStall \ stalled
    /\ handler[c] # "none"
    /\ conn[c] = "open"
    /\ stalled' = stalled \cup {c}
    /\ UNCHANGED <<mainVars, serveVars, loopVars, mu, tracked, handler, reader,
                   to, conn>>

-----------------------------------------------------------------------------
(* Specification *)

MainStep == MainReceives \/ MainCancelled \/ MainExits

ServeStep ==
    \/ StartFails \/ Started \/ LoadingFails \/ Loaded \/ Opened
    \/ AnnouncingFails \/ Announced \/ ServeCancelled \/ ServeReceives
    \/ CloseListener \/ Retract \/ ServeWaited \/ ServeUnheard

\* Steps of the loops that nothing outside has to cause.
LoopStep ==
    \/ AcceptDrained \/ AcceptUnheard \/ MountsDeleted \/ MaintainFails
    \/ MaintainCancelled \/ MaintainUnheard

HandlerStep(c) == HandlerReceives(c) \/ HandlerCancelled(c) \/ FarewellSent(c)

\* Steps of a reader that is in the middle of something.
ReaderStep(c) ==
    \/ UnlockMap(c) \/ UnlockMapFails(c) \/ BroadcastDone(c)
    \/ ReaderUnheard(c) \/ LeavesUnseen(c)
    \/ \E d \in Client : MessageSent(c, d)

ClientStep(c) ==
    \/ AcceptClient(c) \/ HandlerFails(c) \/ ReadFails(c) \/ Broadcast(c)
    \/ Drop(c) \/ Stall(c)

\* The process has ended.
Exited == main = "exited" /\ UNCHANGED vars

Next ==
    \/ Signal \/ MainStep \/ ServeStep \/ LoopStep \/ Tick \/ AcceptFails
    \/ \E c \in Client :
          \/ HandlerStep(c) \/ ReaderStep(c) \/ ClientStep(c)
          \/ Track(c) \/ Untrack(c) \/ TellLeaving(c)
    \/ Exited

Spec == Init /\ [][Next]_vars

\* Goroutines run and calls of the database return.  A closed connection
\* fails to read, a closed listener to accept.  The ticker fires every six
\* hours and cannot win over a cancelled context for ever.  sync.Mutex hands itself to
\* a goroutine that has waited for a millisecond, which is strong fairness.
FairSpec ==
    /\ Spec
    /\ WF_vars(MainStep)
    /\ WF_vars(ServeStep)
    /\ WF_vars(AcceptDrained \/ AcceptUnheard)
    /\ WF_vars(MountsDeleted \/ MaintainFails)
    /\ SF_vars(MaintainCancelled) /\ WF_vars(MaintainUnheard)
    /\ WF_vars(listening = "closed" /\ AcceptFails)
    /\ \A c \in Client :
          /\ WF_vars(HandlerStep(c))
          /\ WF_vars(ReaderStep(c))
          /\ WF_vars(conn[c] # "open" /\ ReadFails(c))
          /\ SF_vars(Track(c))
          /\ SF_vars(Untrack(c))
          /\ SF_vars(TellLeaving(c))

-----------------------------------------------------------------------------
(* Properties *)

\* Every variable has one of the values its code gives it, and whoever holds
\* the mutex is in a section that gives it back.
TypeOK ==
    /\ ctxDone \in BOOLEAN /\ reported \in BOOLEAN /\ stateLost \in BOOLEAN
    /\ main \in {"select", "waiting", "exited"}
    /\ serve \in ServePoint
    /\ outcome \in {"none", "failed", "cancelled"}
    /\ state \in {"offline", "online"}
    /\ listening \in {"no", "open", "closed"}
    /\ accept \in {"none", "accepting", "draining", "report", "done"}
    /\ maintain \in {"none", "ticking", "deleting", "report", "done"}
    /\ mu \in Client \cup {Free, Maintenance}
    /\ mu = Maintenance <=> maintain = "deleting"
    /\ mu \in Client => reader[mu] \in {"sending", "telling"}
    /\ tracked \subseteq Client
    /\ handler \in [Client -> HandlerPoint]
    /\ reader \in [Client -> ReaderPoint]
    /\ to \in [Client -> SUBSET Client]
    /\ conn \in [Client -> {"open", "dropped", "closed"}]
    /\ stalled \subseteq Client

\* The pool of database connections is closed after the last goroutine that
\* uses it has returned, whichever way the run ends.
PoolOutlivesUsers ==
    main = "exited" =>
        /\ serve = "done"
        /\ accept \in {"none", "done"} /\ maintain \in {"none", "done"}
        /\ \A c \in Client : handler[c] \in {"none", "gone"} /\
                            reader[c] \in {"none", "done"}

\* A goroutine that still handles packets of a session, or still says goodbye
\* for it, belongs to a session of the registry.
ReaderIsTracked ==
    \A c \in Client : reader[c] \notin {"none", "done"} => c \in tracked

\* The database says online only while the listener accepts clients, but for
\* the moment before the state is put back and for writes that failed.
OnlineMeansListening ==
    state = "online" =>
        \/ listening = "open"
        \/ serve \in {"starting", "retracting"}
        \/ stateLost

\* Once a signal came, every goroutine returns and the process exits, unless
\* a client stops reading.
ShutdownCompletes == ctxDone ~> main = "exited" \/ stalled # {}

\* A client that is gone is forgotten, although its goroutine tells the other
\* clients of the map first, unless one of them stops reading.
DroppedIsForgotten ==
    \A c \in Client :
        conn[c] = "dropped" ~> handler[c] = "gone" \/ stalled # {}

\* A client that does not read keeps nobody from the mutex: no goroutine
\* writes to a connection while it holds it.
MutexIsReleased == \A c \in Client : mu = c ~> mu # c

\* An error of ListenAndServe ends the run, which reports it as
\* "error while listening and serving".
ErrorIsReported == outcome = "failed" ~> main = "exited"
=============================================================================
