---------------------------- MODULE MCLifecycle ----------------------------
(***************************************************************************)
(* Instances of Lifecycle for TLC: up to two connections, of which one may *)
(* belong to a client that stops reading.                                  *)
(***************************************************************************)
EXTENDS Lifecycle

CONSTANTS c1, c2

OneClient == {c1}
TwoClients == {c1, c2}
Nobody == {}
ClientTrouble == {"setup"}
Anything == Event
NoSignal == {"accept", "maintain"}
=============================================================================
