\* Every boost of up to 14 points.
SPECIFICATION Spec
CONSTANTS
    Tables <- TestTables
    Current <- SmallValues
    Amount <- SmallAmounts
    MaxInt = 100
INVARIANTS
    BonusBounded
    LoopIsFunction
    ChargedFairly
CHECK_DEADLOCK FALSE
