\* A character and its spells; setLevel may fail after any of its writes.
SPECIFICATION Spec
CONSTANTS
    vitality = vitality
    strength = strength
    first = first
    second = second
    extra = extra
    MaxInt = 1000
    Characteristic <- TwoCharacteristics
    CostTable <- Tables
    BaseStat = 1
    MaxLevel = 4
    MaxPoints = 18
    Amounts = {1, 3}
    Spell <- ThreeSpells
    MinPlayerLevel <- Grades
    ClassSpells <- OfClass
    FirstSpells <- AtCreation
    FirstGrade = 2
    Positions = {0, 1, 2}
INVARIANTS
    TypeOK
    PointsBalanced
    SpellsFit
CHECK_DEADLOCK FALSE
