--------------------------- MODULE MCProgression ---------------------------
(***************************************************************************)
(* Instances of Progression for TLC: tiers of three points, four levels,   *)
(* and three spells: two of a new character, two of its class.             *)
(***************************************************************************)
EXTENDS Progression

CONSTANTS vitality, strength, first, second, extra

Tier(q, c, b) == [Quantity |-> q, Cost |-> c, Bonus |-> b]

TwoCharacteristics == {vitality, strength}
Tables ==
    [ch \in {vitality, strength} |->
        IF ch = vitality THEN <<Tier(0, 1, 2)>>
        ELSE <<Tier(0, 1, 1), Tier(3, 2, 1), Tier(6, 3, 1)>>]

ThreeSpells == {first, second, extra}
OfClass == {first, second}
Grades ==
    [s \in {first, second, extra} |->
        CASE s = first -> <<1, 2, 4>> [] s = second -> <<3, 4>>
          [] OTHER -> <<1, 1>>]
AtCreation == [s \in {first, extra} |-> IF s = first THEN 1 ELSE 2]
=============================================================================
