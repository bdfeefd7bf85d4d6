\* Boosts over any number of tiers.
SPECIFICATION Spec
CONSTANTS
    Tables <- TestTables
    Current <- SmallValues
    Amount <- SmallAmounts
    MaxInt = 100
INVARIANTS
    EveryPointAtItsPrice
CHECK_DEADLOCK FALSE
