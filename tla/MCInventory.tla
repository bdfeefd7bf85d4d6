---------------------------- MODULE MCInventory ----------------------------
(***************************************************************************)
(* Instances of Inventory for TLC.  The ring is of a set with the shield   *)
(* and asks for it; the shield comes after the ring in the check and asks  *)
(* for the higher level, so that taking one off may fail the other.  The   *)
(* jewel is a ring of the same template with other effects.                *)
(***************************************************************************)
EXTENDS Inventory

CONSTANTS axe, shield, ring, jewel, pet, candy, bread, theSet

SevenKinds == {axe, shield, ring, jewel, pet, candy, bread}

Worn(id, fits, lv, price) ==
    [Id |-> id, Fits |-> fits, Level |-> lv, Once |-> FALSE, Set |-> NoSet,
     TwoHands |-> FALSE, CanUse |-> FALSE, Price |-> price]
OfSet(t) == [t EXCEPT !.Once = TRUE, !.Set = theSet]

Templates ==
    [k \in SevenKinds |->
        CASE k = axe ->
                [Worn(axe, {"weapon"}, 1, 2) EXCEPT !.TwoHands = TRUE, !.CanUse = TRUE]
          [] k = shield -> OfSet(Worn(shield, {"shield"}, 2, 1))
          [] k \in {ring, jewel} ->
                OfSet(Worn(ring, {"ring right", "ring left"}, 1, 1))
          [] k = pet -> Worn(pet, {"pet"}, 1, 2)
          [] k = candy -> Worn(candy, {"food"}, 1, 3)
          [] k = bread -> [Worn(bread, {}, 1, 1) EXCEPT !.CanUse = TRUE]]

Ids(k) ==
    LET first == CASE k = axe -> 10 [] k = shield -> 20 [] k = ring -> 30
                   [] k = jewel -> 40 [] k = pet -> 50 [] k = candy -> 60
                   [] k = bread -> 70
    IN first..first + 2

Bonuses(s) == 2

Conditions(k, worn, lv, rides) ==
    /\ k \in {ring, jewel} => shield \in worn
    /\ k = candy => ~rides

Worns == {"weapon", "ring right", "ring left", "pet", "shield"}
Quicks == {"quick"}
Order ==
    <<"dragoturkey", "weapon", "ring right", "ring left", "pet",
      "shield", "food">>
=============================================================================
