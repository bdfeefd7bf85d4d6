---------------------------- MODULE Progression ----------------------------
(***************************************************************************)
(* Level, bonus points, characteristics and spells of one character.       *)
(*                                                                         *)
(* A handler reads the character, changes the copy and writes the whole    *)
(* copy back with UpdateCharacter.  Sessions shows that a character is     *)
(* played by one connection at a time and the goroutine of a connection    *)
(* runs its handlers one by one, so nobody else writes between the two.    *)
(* setLevel alone writes more than once: the level first, then the points, *)
(* then the spells.  Each write is a step, and a failure of the database   *)
(* may end the handler, and the session, after any of them.                *)
(*                                                                         *)
(* A level stands for its lowest experience, the only one setLevel writes. *)
(***************************************************************************)
EXTENDS BoostCosts, FiniteSets

CONSTANTS
    Characteristic,  \* vitality, wisdom, strength, intelligence, chance, agility
    CostTable,       \* Class.BoostCosts: the table of each characteristic
    BaseStat,        \* value of a characteristic after a reset (101)
    MaxLevel,        \* len(retro.CharacterXPFloors) + 1
    MaxPoints,       \* bound: no level is gained beyond so many points
    Amounts,         \* amounts of a boost that clients ask for
    Spell,           \* ids of spells
    MinPlayerLevel,  \* for each spell, the player level each grade asks for
    ClassSpells,     \* Class.Spells: those that are learnt with a level
    FirstSpells,     \* a new character's spells: position of each
    FirstGrade,      \* their level (5)
    Positions        \* positions a client asks for (0..28); 0 is none

ASSUME ProgressionAssumption ==
    /\ \A ch \in Characteristic : IsTable(CostTable[ch])
    /\ BaseStat \in Nat /\ MaxInt \in Nat
    /\ MaxLevel \in Nat \ {0}
    /\ MaxPoints \in Nat /\ MaxPoints >= (MaxLevel - 1) * 5
    /\ Amounts \subseteq Nat \ {0}
    /\ \A ch \in Characteristic : \A k \in 1..Len(CostTable[ch]), n \in Amounts :
          BaseStat + CostTable[ch][k].Bonus * MaxPoints + n <= MaxInt
    /\ \A s \in Spell : MinPlayerLevel[s] \in Seq(Nat) /\ Len(MinPlayerLevel[s]) > 0
    /\ ClassSpells \subseteq Spell
    /\ DOMAIN FirstSpells \subseteq Spell
    /\ \A s \in DOMAIN FirstSpells :
          MinPlayerLevel[s][1] <= 1 /\ FirstSpells[s] \in Positions
    /\ \A r, s \in DOMAIN FirstSpells :
          r # s /\ FirstSpells[r] # 0 => FirstSpells[r] # FirstSpells[s]
    /\ FirstGrade \in Nat \ {0}
    /\ Positions \subseteq Nat /\ 0 \in Positions

VARIABLES
    level,     \* Character.Level()
    points,    \* Character.BonusPoints
    stats,     \* Character.Stats
    spells,    \* Character.Spells: level and position of each known spell
    spent,     \* history: points paid for boosts since the last reset
    undone,    \* history: what a failed setLevel left for the old level
    pc,        \* where setLevel is
    original   \* its originalLevel

vars == <<level, points, stats, spells, spent, undone, pc, original>>

BaseStats == [ch \in Characteristic |-> BaseStat]

\* setLevel looks at the first grade of a spell only.
Learnable(s, lv) == MinPlayerLevel[s][1] <= lv

\* The grade setLevel gives a spell: the last of those before the first one
\* that asks for a higher level.
maxSpellLevel(s, lv) ==
    Cardinality({g \in 1..Len(MinPlayerLevel[s]) :
                    \A h \in 1..g : MinPlayerLevel[s][h] <= lv})

Graded(known, lv) ==
    [s \in known |->
        [Level |-> maxSpellLevel(s, lv),
         Position |-> IF s \in DOMAIN spells THEN spells[s].Position ELSE 0]]

\* handleAccountAddCharacter.
Init ==
    /\ level = 1
    /\ points = 0
    /\ stats = BaseStats
    /\ spells = [s \in DOMAIN FirstSpells |->
                    [Level |-> FirstGrade, Position |-> FirstSpells[s]]]
    /\ spent = 0
    /\ undone = {}
    /\ pc = "idle"
    /\ original = 1

-----------------------------------------------------------------------------
(* Characteristics *)

\* Mutant: what is bought is not paid for.
BoostUnpaid(ch, n) ==
    LET boost == calcBoost(stats[ch], n, CostTable[ch]) IN
    /\ pc = "idle"
    /\ boost.cost <= points
    /\ stats' = [stats EXCEPT ![ch] = @ + boost.bonus]
    /\ spent' = spent + boost.cost
    /\ UNCHANGED <<level, points, spells, undone, pc, original>>

\* handleAccountBoost.
Boost(ch, n) ==
    LET boost == calcBoost(stats[ch], n, CostTable[ch]) IN
    /\ pc = "idle"
    /\ boost.cost <= points
    /\ points' = points - boost.cost
    /\ stats' = [stats EXCEPT ![ch] = @ + boost.bonus]
    /\ spent' = spent + boost.cost
    /\ UNCHANGED <<level, spells, undone, pc, original>>

\* Mutant: the points are given back and the characteristics are kept.
PointsReset ==
    /\ stats' = stats
    /\ points' = (level - 1) * 5
    /\ spent' = 0
    /\ undone' = undone \ {"points"}

\* The write of resetCharacteristics.
ResetStats ==
    /\ stats' = BaseStats
    /\ points' = (level - 1) * 5
    /\ spent' = 0
    /\ undone' = undone \ {"points"}

\* The chat command "reset".
Reset ==
    /\ pc = "idle"
    /\ ResetStats
    /\ UNCHANGED <<level, spells, pc, original>>

-----------------------------------------------------------------------------
(* setLevel *)

\* The new level is written before anything that depends on it.
SetLevel(lv) ==
    /\ pc = "idle"
    /\ points + spent + (lv - level) * 5 <= MaxPoints
    /\ original' = level
    /\ level' = lv
    /\ pc' = "points"
    /\ UNCHANGED <<points, stats, spells, spent, undone>>

\* At least the old level: five points per level, and new spells.
LevelRaised ==
    /\ pc = "points"
    /\ level >= original
    /\ points' = points + (level - original) * 5
    /\ spells' = Graded(DOMAIN spells \cup
                          {s \in ClassSpells : Learnable(s, level)}, level)
    /\ pc' = "idle"
    /\ UNCHANGED <<level, stats, spent, undone, original>>

\* Mutant: the points of the lost levels are taken whether they are there or
\* not.
LevelLoweredBlindly ==
    /\ pc = "points"
    /\ level < original
    /\ points' = points - (original - level) * 5
    /\ pc' = "spells"
    /\ UNCHANGED <<level, stats, spells, spent, undone, original>>

\* A lower level: the points already used are kept if the level allows so
\* many, or else the characteristics are reset.
LevelLowered ==
    LET used == (original - 1) * 5 - points
        max == (level - 1) * 5
    IN
    /\ pc = "points"
    /\ level < original
    /\ IF used > max THEN ResetStats
       ELSE points' = max - used /\ UNCHANGED <<stats, spent, undone>>
    /\ pc' = "spells"
    /\ UNCHANGED <<level, spells, original>>

\* Mutant: spells above the level are only downgraded.
SpellsKept ==
    /\ pc = "spells"
    /\ spells' = Graded(DOMAIN spells, level)
    /\ pc' = "idle"
    /\ undone' = undone \ {"spells"}
    /\ UNCHANGED <<level, points, stats, spent, original>>

\* Spells of a higher level are forgotten.
SpellsTrimmed ==
    /\ pc = "spells"
    /\ spells' = Graded({s \in DOMAIN spells : Learnable(s, level)}, level)
    /\ pc' = "idle"
    /\ undone' = undone \ {"spells"}
    /\ UNCHANGED <<level, points, stats, spent, original>>

\* A call of setLevel fails: what was written stays.
SetLevelFails ==
    /\ pc # "idle"
    /\ undone' = undone
         \cup (IF pc = "points" /\ level # original THEN {"points"} ELSE {})
         \cup (IF level < original THEN {"spells"} ELSE {})
    /\ pc' = "idle"
    /\ UNCHANGED <<level, points, stats, spells, spent, original>>

-----------------------------------------------------------------------------
(* Spells *)

\* handleSpellsBoost.
SpellsBoost(s) ==
    /\ pc = "idle"
    /\ s \in DOMAIN spells
    /\ spells[s].Level + 1 <= Len(MinPlayerLevel[s])
    /\ MinPlayerLevel[s][spells[s].Level + 1] <= level
    /\ spells' = [spells EXCEPT ![s].Level = @ + 1]
    /\ UNCHANGED <<level, points, stats, spent, undone, pc, original>>

\* forgetSpell.
ForgetSpell(s) ==
    /\ pc = "idle"
    /\ s \in DOMAIN spells
    /\ spells' = [spells EXCEPT ![s].Level = 1]
    /\ UNCHANGED <<level, points, stats, spent, undone, pc, original>>

\* Mutant: the spell that had the position keeps it.
SpellsMoveOnTop(s, p) ==
    /\ pc = "idle"
    /\ s \in DOMAIN spells
    /\ spells' = [spells EXCEPT ![s].Position = p]
    /\ UNCHANGED <<level, points, stats, spent, undone, pc, original>>

\* handleSpellsMoveToUsed: the first spell found at the position leaves it.
SpellsMoveToUsed(s, p) ==
    LET there == {r \in DOMAIN spells : spells[r].Position = p} IN
    /\ pc = "idle"
    /\ s \in DOMAIN spells
    /\ \/ /\ there = {}
          /\ spells' = [spells EXCEPT ![s].Position = p]
       \/ \E r \in there :
             spells' = [spells EXCEPT ![r].Position = 0, ![s].Position = p]
    /\ UNCHANGED <<level, points, stats, spent, undone, pc, original>>

-----------------------------------------------------------------------------
Next ==
    \/ \E ch \in Characteristic, n \in Amounts : Boost(ch, n)
    \/ Reset
    \/ \E lv \in 1..MaxLevel : SetLevel(lv)
    \/ LevelRaised \/ LevelLowered \/ SpellsTrimmed \/ SetLevelFails
    \/ \E s \in Spell : SpellsBoost(s) \/ ForgetSpell(s)
    \/ \E s \in Spell, p \in Positions : SpellsMoveToUsed(s, p)

Spec == Init /\ [][Next]_vars

-----------------------------------------------------------------------------
(* Properties *)

\* Types; in particular bonus points are never negative, whichever writes of
\* setLevel were made and which failed.
TypeOK ==
    /\ level \in 1..MaxLevel
    /\ original \in 1..MaxLevel
    /\ points \in Nat
    /\ spent \in Nat
    /\ stats \in [Characteristic -> Nat]
    /\ DOMAIN spells \subseteq Spell
    /\ \A s \in DOMAIN spells :
          spells[s].Level \in Nat /\ spells[s].Position \in Positions
    /\ undone \subseteq {"points", "spells"}
    /\ pc \in {"idle", "points", "spells"}

\* Five points per level, spent or not: none is lost or made by boosts,
\* resets and changes of the level.  A setLevel cut short between the level
\* and the points leaves them unbalanced; only a reset puts that right.  And a
\* characteristic is above its base only as far as points were paid for it.
PointsBalanced ==
    /\ pc = "idle" /\ "points" \notin undone =>
          points + spent = (level - 1) * 5
    /\ \A ch \in Characteristic :
          \E rate \in {CostTable[ch][k].Bonus : k \in 1..Len(CostTable[ch])} :
              stats[ch] - BaseStat <= rate * spent

\* No two spells share a position of the spell bar.
PositionsUnique ==
    \A r, s \in DOMAIN spells :
        r # s /\ spells[r].Position # 0 => spells[r].Position # spells[s].Position

\* Every known spell is one the level of its character allows, with a grade
\* above zero and a position of its own, even across setLevel.  (There is no
\* bound above: new characters begin with grades for higher levels.)  A setLevel
\* cut short while it lowers the level leaves spells beyond it, until another
\* one lowers it to the end.
SpellsFit ==
    /\ PositionsUnique
    /\ pc = "idle" /\ "spells" \notin undone =>
          \A s \in DOMAIN spells : Learnable(s, level) /\ spells[s].Level > 0
=============================================================================
