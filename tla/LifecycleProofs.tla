-------------------------- MODULE LifecycleProofs --------------------------
(***************************************************************************)
(* Proofs about Lifecycle for any number of clients and whatever happens   *)
(* to the server: types, the order in which the goroutines end, who is in  *)
(* the registry, and what the database says of the listener.               *)
(***************************************************************************)
EXTENDS Lifecycle, TLAPS

Returned == {"none", "done"}

\* Who runs when: the loops start last and return before ListenAndServe, the
\* clients return before the accept loop, a reader before its handleClientConn.
EndInv ==
    /\ main = "exited" => serve = "done"
    /\ serve \in {"starting", "loading", "opening", "announcing"} =>
          accept = "none" /\ maintain = "none"
    /\ serve \in {"report", "done"} => accept \in Returned /\ maintain \in Returned
    /\ accept \in {"none", "report", "done"} =>
          \A c \in Client : handler[c] \in {"none", "gone"}
    /\ \A c \in Client :
          handler[c] \in {"none", "tracking", "gone"} => reader[c] \in Returned

\* handleClientConn is in the registry from its first step to its last.
TrackInv ==
    \A c \in Client : handler[c] \in {"select", "farewell", "waiting"} => c \in tracked

\* The listener is open from its opening to its closing.
ListenInv ==
    /\ serve \in {"announcing", "select", "closing"} => listening = "open"
    /\ OnlineMeansListening

LifeInv == TypeOK /\ EndInv /\ TrackInv /\ ListenInv

-----------------------------------------------------------------------------
\* What the program starts with.
LEMMA InitLife == ASSUME LifecycleAssumption PROVE Init => LifeInv
BY DEF LifecycleAssumption, Init, LifeInv, TypeOK, EndInv, TrackInv, ListenInv,
       OnlineMeansListening, Returned, ServePoint, HandlerPoint, ReaderPoint

\* The steps of run and of ListenAndServe.
LEMMA ServerSteps ==
  ASSUME LifecycleAssumption, LifeInv, Signal \/ MainStep \/ ServeStep
  PROVE  LifeInv'
<1> USE DEF mainVars, serveVars, loopVars, clientVars
<1>1. UNCHANGED <<mu, clientVars>>
  BY DEF Signal, MainStep, MainReceives, MainCancelled, MainExits, ServeStep,
     StartFails, Started, LoadingFails, Loaded, Opened, AnnouncingFails, Announced,
     ServeCancelled, ServeReceives, CloseListener, Retract, ServeWaited, ServeUnheard
<1>2. TrackInv'
  BY <1>1 DEF LifeInv, TrackInv
<1>3. TypeOK'
  <2>1. CASE Signal
    BY <1>1, <2>1 DEF Signal, LifeInv, TypeOK, ServePoint
  <2>2. CASE MainReceives
    BY <1>1, <2>2 DEF MainReceives, LifeInv, TypeOK, ServePoint
  <2>3. CASE MainCancelled
    BY <1>1, <2>3 DEF MainCancelled, LifeInv, TypeOK, ServePoint
  <2>4. CASE MainExits
    BY <1>1, <2>4 DEF MainExits, LifeInv, TypeOK, ServePoint
  <2>5. CASE StartFails
    BY <1>1, <2>5 DEF StartFails, LifeInv, TypeOK, ServePoint
  <2>6. CASE Started
    BY <1>1, <2>6 DEF Started, LifeInv, TypeOK, ServePoint
  <2>7. CASE LoadingFails
    BY <1>1, <2>7 DEF LoadingFails, LifeInv, TypeOK, ServePoint
  <2>8. CASE Loaded
    BY <1>1, <2>8 DEF Loaded, LifeInv, TypeOK, ServePoint
  <2>9. CASE Opened
    BY <1>1, <2>9 DEF Opened, LifeInv, TypeOK, ServePoint
  <2>10. CASE AnnouncingFails
    BY <1>1, <2>10 DEF AnnouncingFails, LifeInv, TypeOK, ServePoint
  <2>11. CASE Announced
    BY <1>1, <2>11 DEF Announced, LifeInv, TypeOK, ServePoint, EndInv
  <2>12. CASE ServeCancelled
    BY <1>1, <2>12 DEF ServeCancelled, LifeInv, TypeOK, ServePoint
  <2>13. CASE ServeReceives
    BY <1>1, <2>13 DEF ServeReceives, LifeInv, TypeOK, ServePoint
  <2>14. CASE CloseListener
    BY <1>1, <2>14 DEF CloseListener, LifeInv, TypeOK, ServePoint
  <2>15. CASE Retract
    <3>1. UNCHANGED <<mainVars, outcome, listening, loopVars, mu, clientVars>>
          /\ serve' = "waiting"
      BY <2>15 DEF Retract
    <3>2. state' \in {"offline", "online"} /\ stateLost' \in BOOLEAN
      BY <2>15 DEF Retract, LifeInv, TypeOK
    <3> QED
      BY <3>1, <3>2 DEF LifeInv, TypeOK, ServePoint
  <2>16. CASE ServeWaited
    BY <1>1, <2>16 DEF ServeWaited, LifeInv, TypeOK, ServePoint
  <2>17. CASE ServeUnheard
    BY <1>1, <2>17 DEF ServeUnheard, LifeInv, TypeOK, ServePoint
  <2> QED
    BY <2>1, <2>2, <2>3, <2>4, <2>5, <2>6, <2>7, <2>8, <2>9, <2>10,
       <2>11, <2>12, <2>13, <2>14, <2>15, <2>16, <2>17
    DEF MainStep, ServeStep
<1>4. /\ serve \in ServePoint /\ Returned \subseteq {"none", "report", "done"}
      /\ \A c \in Client : (handler'[c] = handler[c] /\ reader'[c] = reader[c])
  BY <1>1 DEF LifeInv, TypeOK, Returned
<1>5. EndInv'
  <2>1. CASE Signal \/ MainReceives \/ MainCancelled \/ MainExits
    BY <1>4, <2>1 DEF Signal, MainReceives, MainCancelled, MainExits, LifeInv, EndInv, Returned
  <2>2. CASE StartFails \/ Started \/ LoadingFails \/ Loaded \/ Opened
    BY <1>4, <2>2 DEF StartFails, Started, LoadingFails, Loaded,
       Opened, LifeInv, EndInv, Returned
  <2>3. CASE AnnouncingFails \/ Announced \/ ServeCancelled \/ ServeReceives
    BY <1>4, <2>3 DEF AnnouncingFails, Announced, ServeCancelled,
       ServeReceives, LifeInv, EndInv, Returned
  <2>4. CASE CloseListener \/ Retract \/ ServeWaited \/ ServeUnheard
    BY <1>4, <2>4 DEF CloseListener, Retract, ServeWaited,
       ServeUnheard, LifeInv, EndInv, Returned
  <2> QED
    BY <2>1, <2>2, <2>3, <2>4 DEF MainStep, ServeStep
<1>6. ListenInv'
  <2>1. CASE Signal \/ MainReceives \/ MainCancelled \/ MainExits
    BY <2>1 DEF Signal, MainReceives, MainCancelled, MainExits, LifeInv, TypeOK, ListenInv, OnlineMeansListening
  <2>2. CASE StartFails \/ Started \/ LoadingFails \/ Loaded \/ Opened
    BY <2>2 DEF StartFails, Started, LoadingFails, Loaded,
       Opened, LifeInv, TypeOK, ListenInv, OnlineMeansListening
  <2>3. CASE AnnouncingFails \/ Announced \/ ServeCancelled \/ ServeReceives
    BY <2>3 DEF AnnouncingFails, Announced, ServeCancelled,
       ServeReceives, LifeInv, TypeOK, ListenInv, OnlineMeansListening
  <2>4. CASE CloseListener \/ Retract \/ ServeWaited \/ ServeUnheard
    BY <2>4 DEF CloseListener, Retract, ServeWaited,
       ServeUnheard, LifeInv, TypeOK, ListenInv, OnlineMeansListening
  <2> QED
    BY <2>1, <2>2, <2>3, <2>4 DEF MainStep, ServeStep
<1> QED
  BY <1>2, <1>3, <1>5, <1>6 DEF LifeInv

\* The steps of the loops.
LEMMA LoopSteps ==
  ASSUME LifecycleAssumption, LifeInv, LoopStep \/ Tick \/ AcceptFails
  PROVE  LifeInv'
<1> USE DEF mainVars, serveVars, loopVars, clientVars
<1>1. UNCHANGED <<mainVars, serveVars, clientVars>>
  BY DEF LoopStep, AcceptDrained, AcceptUnheard, MountsDeleted, MaintainFails,
     MaintainCancelled, MaintainUnheard, Tick, AcceptFails
<1>2. Free \notin Client /\ Maintenance \notin Client /\ Free # Maintenance
  BY DEF LifecycleAssumption
<1>3. CASE AcceptDrained \/ AcceptUnheard \/ AcceptFails
  BY <1>1, <1>3 DEF AcceptDrained, AcceptUnheard, AcceptFails,
     LifeInv, TypeOK, EndInv, TrackInv, ListenInv, OnlineMeansListening, Returned
<1>4. CASE Tick \/ MountsDeleted \/ MaintainFails \/ MaintainCancelled \/ MaintainUnheard
  BY <1>1, <1>2, <1>4 DEF Tick, MountsDeleted, MaintainFails, MaintainCancelled,
     MaintainUnheard, LifeInv, TypeOK, EndInv, TrackInv, ListenInv,
     OnlineMeansListening, Returned
<1> QED
  BY <1>3, <1>4 DEF LoopStep

\* The steps of the goroutine of a client.
LEMMA HandlerSteps ==
  ASSUME LifecycleAssumption, LifeInv, NEW c \in Client,
         HandlerStep(c) \/ AcceptClient(c) \/ Track(c) \/ Untrack(c)
  PROVE  LifeInv'
<1> USE DEF mainVars, serveVars, loopVars, clientVars
<1>1. UNCHANGED <<mainVars, serveVars, loopVars, mu, to, stalled>>
  BY DEF HandlerStep, HandlerReceives, HandlerCancelled, FarewellSent, Return,
     AcceptClient, Track, Untrack
<1>2. Free \notin Client /\ Maintenance \notin Client
  BY DEF LifecycleAssumption
<1>3. ListenInv'
  BY <1>1 DEF LifeInv, ListenInv, OnlineMeansListening
<1>4. CASE HandlerReceives(c)
  BY <1>1, <1>3, <1>4 DEF HandlerReceives, Return, LifeInv, TypeOK, EndInv, TrackInv,
     Returned, HandlerPoint, ReaderPoint
<1>5. CASE HandlerCancelled(c) \/ FarewellSent(c)
  BY <1>1, <1>3, <1>5 DEF HandlerCancelled, FarewellSent, Return, LifeInv, TypeOK,
     EndInv, TrackInv, Returned, HandlerPoint, ReaderPoint
<1>6. CASE AcceptClient(c)
  BY <1>1, <1>3, <1>6 DEF AcceptClient, LifeInv, TypeOK, EndInv, TrackInv, Returned,
     HandlerPoint, ReaderPoint
<1>7. CASE Track(c)
  BY <1>1, <1>2, <1>3, <1>7 DEF Track, LifeInv, TypeOK, EndInv, TrackInv, Returned,
     HandlerPoint, ReaderPoint
<1>8. CASE Untrack(c)
  BY <1>1, <1>3, <1>8 DEF Untrack, LifeInv, TypeOK, EndInv, TrackInv, Returned,
     HandlerPoint, ReaderPoint
<1> QED
  BY <1>4, <1>5, <1>6, <1>7, <1>8 DEF HandlerStep

\* The steps of its reader, which has been started and has not returned, and
\* of its client.
LEMMA ReaderSteps ==
  ASSUME LifecycleAssumption, LifeInv, NEW c \in Client,
         \/ ReaderStep(c) \/ HandlerFails(c) \/ ReadFails(c) \/ Broadcast(c)
         \/ TellLeaving(c) \/ Drop(c) \/ Stall(c)
  PROVE  LifeInv'
<1> USE DEF mainVars, serveVars, loopVars, clientVars
<1>1. UNCHANGED <<mainVars, serveVars, loopVars, tracked, handler>>
  BY DEF ReaderStep, UnlockMap, UnlockMapFails, BroadcastDone, ReaderUnheard,
     LeavesUnseen, MessageSent, HandlerFails, ReadFails, Broadcast, TellLeaving, Drop,
     Stall, ReaderGoto, LockMap
<1>2. Free \notin Client /\ Maintenance \notin Client /\ Free # Maintenance
  BY DEF LifecycleAssumption
<1>3. ListenInv' /\ TrackInv'
  BY <1>1 DEF LifeInv, ListenInv, OnlineMeansListening, TrackInv
<1>4. CASE UnlockMap(c) \/ UnlockMapFails(c)
  BY <1>1, <1>2, <1>3, <1>4 DEF UnlockMap, UnlockMapFails, LifeInv, TypeOK, EndInv,
     Returned, ReaderPoint
<1>5. CASE BroadcastDone(c) \/ ReaderUnheard(c) \/ LeavesUnseen(c) \/ HandlerFails(c)
           \/ ReadFails(c)
  BY <1>1, <1>3, <1>5 DEF BroadcastDone, ReaderUnheard, LeavesUnseen, HandlerFails,
     ReadFails, ReaderGoto, LifeInv, TypeOK, EndInv, Returned, ReaderPoint
<1>6. CASE Broadcast(c) \/ TellLeaving(c)
  BY <1>1, <1>2, <1>3, <1>6 DEF Broadcast, TellLeaving, LockMap, LifeInv, TypeOK,
     EndInv, Returned, ReaderPoint
<1>7. CASE \/ Drop(c) \/ Stall(c) \/ \E d \in Client : MessageSent(c, d)
  BY <1>1, <1>3, <1>7 DEF Drop, Stall, MessageSent, LifecycleAssumption, LifeInv,
     TypeOK, EndInv, Returned
<1> QED
  BY <1>4, <1>5, <1>6, <1>7 DEF ReaderStep

LEMMA LifeStep ==
  ASSUME LifecycleAssumption PROVE LifeInv /\ [Next]_vars => LifeInv'
<1> SUFFICES ASSUME LifeInv, [Next]_vars PROVE LifeInv'
  OBVIOUS
<1>1. CASE UNCHANGED vars \/ Exited
  BY <1>1 DEF vars, Exited, mainVars, serveVars, loopVars, clientVars, LifeInv, TypeOK,
     EndInv, TrackInv, ListenInv, OnlineMeansListening
<1>2. CASE Signal \/ MainStep \/ ServeStep
  BY <1>2, ServerSteps
<1>3. CASE LoopStep \/ Tick \/ AcceptFails
  BY <1>3, LoopSteps
<1>4. ASSUME NEW c \in Client,
             \/ HandlerStep(c) \/ ReaderStep(c) \/ ClientStep(c)
             \/ Track(c) \/ Untrack(c) \/ TellLeaving(c)
      PROVE  LifeInv'
  BY <1>4, HandlerSteps, ReaderSteps DEF ClientStep
<1> QED
  BY <1>1, <1>2, <1>3, <1>4 DEF Next

\* The inductive invariant: who has returned when, who is tracked when, and
\* when the listener is open.
THEOREM Inductive == ASSUME LifecycleAssumption PROVE Spec => []LifeInv
BY InitLife, LifeStep, PTL DEF Spec

\* Types, and that the mutex is held only inside a section.
THEOREM TypeCorrect == ASSUME LifecycleAssumption PROVE Spec => []TypeOK
<1>1. LifeInv => TypeOK
  BY DEF LifeInv
<1> QED
  BY <1>1, Inductive, PTL

\* Whatever fails, every goroutine that uses the pool of the database has
\* returned when run closes it.
THEOREM PoolIsOutlived == ASSUME LifecycleAssumption PROVE Spec => []PoolOutlivesUsers
<1>1. LifeInv => PoolOutlivesUsers
  BY DEF LifeInv, EndInv, Returned, PoolOutlivesUsers
<1> QED
  BY <1>1, Inductive, PTL

\* A reader that handles packets is in the registry.
THEOREM ReadersAreTracked == ASSUME LifecycleAssumption PROVE Spec => []ReaderIsTracked
<1>1. LifeInv => ReaderIsTracked
  BY DEF LifeInv, TypeOK, EndInv, TrackInv, Returned, HandlerPoint, ReaderIsTracked
<1> QED
  BY <1>1, Inductive, PTL

\* The database says online only while clients are accepted, through every
\* failure at the start and the end.
THEOREM OnlineIsListening ==
  ASSUME LifecycleAssumption PROVE Spec => []OnlineMeansListening
<1>1. LifeInv => OnlineMeansListening
  BY DEF LifeInv, ListenInv
<1> QED
  BY <1>1, Inductive, PTL
=============================================================================
