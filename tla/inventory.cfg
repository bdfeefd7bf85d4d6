\* A character with up to three units of seven kinds; any handler may fail after
\* any write.
SPECIFICATION FairSpec
CONSTANTS
    axe = axe
    shield = shield
    ring = ring
    jewel = jewel
    pet = pet
    candy = candy
    bread = bread
    theSet = theSet
    NoSet = NoSet
    Item <- Ids
    Kind <- SevenKinds
    Template <- Templates
    Bonus <- Bonuses
    Condition <- Conditions
    EquipPosition <- Worns
    QuickPosition <- Quicks
    CheckOrder <- Order
    Level = {1, 2}
    RideLevel = 2
    StartKamas = 3
INVARIANTS
    TypeOK
    WellPlaced
    WornWell
    BonusIndexed
    ConditionsHold
    Balanced
PROPERTIES
    HandlersEnd
