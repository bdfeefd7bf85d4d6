----------------------------- MODULE MCSessions -----------------------------
(***************************************************************************)
(* Instances of Sessions for TLC: one account with two character ids and   *)
(* one with a single character.                                            *)
(***************************************************************************)
EXTENDS Sessions, TLC

CONSTANTS s1, s2, x, y, x1, x2, y1

TwoSessions == {s1, s2}
TwoAccounts == {x, y}
ThreeCharacters == {x1, x2, y1}
Owners == [c \in Character |-> IF c = y1 THEN y ELSE x]
FirstCharacters == {x1, y1} \cap Character
AllLoginPackets == LoginPackets
TicketPacket == {"AccountSendTicket"}
NoPackets == {}

SessionSymmetry == Permutations(Session)
=============================================================================
