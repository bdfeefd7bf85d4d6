---------------------------- MODULE MCCalcBoost ----------------------------
(***************************************************************************)
(* Instances of CalcBoost for TLC: the tables of the test of calcBoost,    *)
(* with tiers of three points instead of a hundred, and one whose second   *)
(* tier gives two points at a time.                                        *)
(***************************************************************************)
EXTENDS CalcBoost

Tier(q, c, b) == [Quantity |-> q, Cost |-> c, Bonus |-> b]

iopStrength == <<Tier(0, 1, 1), Tier(3, 2, 1), Tier(6, 3, 1), Tier(9, 4, 1),
                 Tier(12, 5, 1)>>
sacrierVitality == <<Tier(0, 1, 2)>>
wisdom == <<Tier(0, 3, 1)>>
pairs == <<Tier(0, 1, 1), Tier(3, 3, 2), Tier(8, 1, 1)>>

TestTables == {iopStrength, sacrierVitality, wisdom, pairs}
SmallValues == 0..13
SmallAmounts == 1..14
=============================================================================
