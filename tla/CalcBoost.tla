----------------------------- MODULE CalcBoost -----------------------------
(***************************************************************************)
(* The loop of calcBoost, one step per iteration, so that its invariants   *)
(* can be stated.  BoostCosts has the same loop as a function, for the     *)
(* modules that call it.                                                   *)
(***************************************************************************)
EXTENDS BoostCosts, FiniteSets

CONSTANTS
    Tables,     \* the tables of tiers
    Current,    \* values of a characteristic before it is raised
    Amount      \* amounts a client asks for

ASSUME CalcBoostAssumption ==
    /\ \A boosts \in Tables : IsTable(boosts)
    /\ Current \subseteq Nat
    /\ Amount \subseteq Nat \ {0}
    /\ MaxInt \in Nat
    /\ \A c \in Current, a \in Amount : c + a <= MaxInt

VARIABLES boosts, current, wanted, i, add, cost, bonus

vars == <<boosts, current, wanted, i, add, cost, bonus>>

-----------------------------------------------------------------------------
(* The loop *)

Init ==
    /\ boosts \in Tables
    /\ current \in Current
    /\ wanted \in Amount
    /\ i = 1 /\ add = wanted /\ cost = 0 /\ bonus = 0

\* The loop goes on: nothing was added yet that was asked for, and there is
\* another tier.
Running == add # 0 /\ i <= Len(boosts)

Skip ==
    /\ Running
    /\ Passed(boosts, i, current)
    /\ i' = i + 1
    /\ UNCHANGED <<boosts, current, wanted, add, cost, bonus>>

\* Mutant: what is left to add is not reduced by what was added.
PayKeepingAdd ==
    LET n == amount(boosts, i, current, add) IN
    /\ Running
    /\ ~ Passed(boosts, i, current)
    /\ i' = i + 1
    /\ cost' = cost + boosts[i].Cost * n
    /\ bonus' = bonus + boosts[i].Bonus * n
    /\ UNCHANGED <<boosts, current, wanted, add>>

Pay ==
    LET n == amount(boosts, i, current, add) IN
    /\ Running
    /\ ~ Passed(boosts, i, current)
    /\ i' = i + 1
    /\ add' = add - boosts[i].Bonus * n
    /\ cost' = cost + boosts[i].Cost * n
    /\ bonus' = bonus + boosts[i].Bonus * n
    /\ UNCHANGED <<boosts, current, wanted>>

Next == Skip \/ Pay

Spec == Init /\ [][Next]_vars

-----------------------------------------------------------------------------
(* Properties *)

\* Value v is in tier k.
InTier(table, k, v) ==
    /\ table[k].Quantity <= v
    /\ k < Len(table) => v < table[k + 1].Quantity

\* What one more point costs at value v: the price of the tier that v is in.
PriceAt(table, v) ==
    table[CHOOSE k \in 1..Len(table) : InTier(table, k, v)].Cost

\* What the first points up to n cost from value v on, one after the other.
StepwiseCosts(table, v, n) ==
    LET upTo[m \in 0..n] ==
          IF m = 0 THEN 0 ELSE upTo[m - 1] + PriceAt(table, v + m - 1)
    IN upTo

StepwiseCost(table, v, n) == StepwiseCosts(table, v, n)[n]

PointByPoint(table) == \A k \in 1..Len(table) : table[k].Bonus = 1

\* The tiers that the boost touches.
TiersTouched(table, v, n) ==
    {k \in 1..Len(table) : /\ table[k].Quantity < v + n
                           /\ k < Len(table) => v < table[k + 1].Quantity}

\* What is given and what is left always add up to what was asked for, so
\* nothing is given beyond it.
BonusBounded ==
    /\ i \in Nat \ {0}
    /\ add \in Nat /\ bonus \in Nat /\ cost \in Nat
    /\ bonus + add = wanted

\* The function gives what the loop gives.
LoopIsFunction ==
    ~ Running => calcBoost(current, wanted, boosts) =
                     [add |-> add, cost |-> cost, bonus |-> bonus]

\* A boost that crosses at most one border between tiers costs what its
\* points cost one after the other; where later tiers cost more, none costs
\* more than that, however many borders it crosses.
ChargedFairly ==
    PointByPoint(boosts) =>
        /\ ~ Running
           /\ Cardinality(TiersTouched(boosts, current, wanted)) <= 2 =>
              cost = StepwiseCost(boosts, current, wanted)
        /\ (\A k \in 1..Len(boosts) - 1 :
                boosts[k].Cost <= boosts[k + 1].Cost) =>
              cost <= StepwiseCost(boosts, current, wanted)

\* Every point of a boost is charged at the price of the tier it is in.
EveryPointAtItsPrice ==
    ~ Running /\ PointByPoint(boosts) =>
        cost = StepwiseCost(boosts, current, wanted)
=============================================================================
