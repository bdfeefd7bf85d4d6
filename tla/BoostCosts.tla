----------------------------- MODULE BoostCosts -----------------------------
(***************************************************************************)
(* calcBoost of util.go: what raising a characteristic costs.  A class has *)
(* for each characteristic a table of tiers; from Quantity on, Cost points *)
(* buy Bonus.                                                              *)
(***************************************************************************)
EXTENDS Integers, Sequences

CONSTANT
    MaxInt      \* math.MaxInt

\* A table of the database starts at zero, and its tiers follow each other.
IsTable(boosts) ==
    /\ boosts \in Seq([Quantity : Nat, Cost : Nat \ {0}, Bonus : Nat \ {0}])
    /\ Len(boosts) > 0
    /\ boosts[1].Quantity = 0
    /\ \A i \in 1..Len(boosts) - 1 :
          boosts[i].Quantity < boosts[i + 1].Quantity

\* Where the tier after tier k begins.
nextQuantity(table, k) ==
    IF k < Len(table) THEN table[k + 1].Quantity ELSE MaxInt

\* The tier lies below the current value.
Passed(table, k, cur) == k < Len(table) /\ nextQuantity(table, k) <= cur

\* Mutant: the tier ends one step later.
amountPastEnd(table, k, cur, left) ==
    IF cur + left > nextQuantity(table, k) + 1
      THEN (nextQuantity(table, k) + 1 - cur) \div table[k].Bonus
      ELSE left \div table[k].Bonus

\* How often the cost of tier k is paid when left is still to be added.
amount(table, k, cur, left) ==
    IF cur + left > nextQuantity(table, k)
      THEN (nextQuantity(table, k) - cur) \div table[k].Bonus
      ELSE left \div table[k].Bonus

\* One tier: what is left to add, what it cost and what it gave.
afterTier(table, k, cur, was) ==
    LET n == amount(table, k, cur, was.add)
    IN IF was.add = 0 \/ Passed(table, k, cur) THEN was
       ELSE [add |-> was.add - table[k].Bonus * n,
             cost |-> was.cost + table[k].Cost * n,
             bonus |-> was.bonus + table[k].Bonus * n]

\* The same after each of the first k tiers.
afterTiers(cur, wantedAdd, table) ==
    LET after[k \in 0..Len(table)] ==
          IF k = 0 THEN [add |-> wantedAdd, cost |-> 0, bonus |-> 0]
          ELSE afterTier(table, k, cur, after[k - 1])
    IN after

\* The whole loop.
calcBoost(cur, wantedAdd, table) == afterTiers(cur, wantedAdd, table)[Len(table)]
=============================================================================
