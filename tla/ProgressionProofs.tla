------------------------- MODULE ProgressionProofs -------------------------
(***************************************************************************)
(* Proofs about the spells of Progression, for any spells, grades and      *)
(* positions: whatever changes of the level, upgrades and moves follow     *)
(* each other, and wherever setLevel is cut short, each known spell has a  *)
(* grade and a position of its own, up to what a failure left undone.      *)
(***************************************************************************)
EXTENDS Progression, BoostCostsProofs, FiniteSetTheorems

SpellType ==
    /\ level \in Nat /\ original \in Nat
    /\ DOMAIN spells \subseteq Spell
    /\ spells \in [DOMAIN spells -> [Level : Nat, Position : Positions]]

\* Unless a failure left them for an older level, spells are learnable at the
\* level they were graded for, which setLevel keeps until it has graded them
\* again.
GradeInv ==
    /\ pc \in {"idle", "points", "spells"}
    /\ pc = "spells" => level < original
    /\ "spells" \notin undone =>
          \A s \in DOMAIN spells :
              /\ pc # "spells" => spells[s].Level > 0
              /\ pc = "idle" => Learnable(s, level)
              /\ pc = "points" => Learnable(s, original)

SpellInv == SpellType /\ GradeInv /\ PositionsUnique

-----------------------------------------------------------------------------
(* Grades *)

\* The grade of a spell is a number, and above zero if its first grade can be
\* learnt.
LEMMA GradeType ==
  ASSUME ProgressionAssumption, NEW s \in Spell, NEW lv \in Nat
  PROVE  /\ maxSpellLevel(s, lv) \in Nat
         /\ Learnable(s, lv) => maxSpellLevel(s, lv) > 0
<1> DEFINE levels == MinPlayerLevel[s]
<1> DEFINE G == {g \in 1..Len(levels) : \A h \in 1..g : levels[h] <= lv}
<1>1. levels \in Seq(Nat) /\ Len(levels) \in Nat \ {0}
  BY DEF ProgressionAssumption
<1>2. IsFiniteSet(G)
  <2>1. IsFiniteSet(1..Len(levels))
    BY <1>1, FS_Interval
  <2> QED
    BY <2>1, FS_Subset
<1>3. Cardinality(G) \in Nat
  BY <1>2, FS_CardinalityType
<1>4. ASSUME Learnable(s, lv) PROVE Cardinality(G) > 0
  <2>1. 1 \in G
    BY <1>1, <1>4 DEF Learnable
  <2>2. Cardinality(G) # 0
    BY <1>2, <2>1, FS_EmptySet
  <2> QED
    BY <1>3, <2>2
<1> QED
  BY <1>3, <1>4 DEF maxSpellLevel

\* What can be learnt at a level can be learnt at a higher one.
LEMMA LearnableHigher ==
  ASSUME ProgressionAssumption, NEW s \in Spell, NEW low \in Nat, NEW high \in Nat,
         low <= high, Learnable(s, low)
  PROVE  Learnable(s, high)
<1>1. MinPlayerLevel[s][1] \in Nat
  BY DEF ProgressionAssumption
<1> QED
  BY <1>1 DEF Learnable

\* Grading spells keeps the positions of those that had one.
LEMMA GradedSpells ==
  ASSUME ProgressionAssumption, SpellType, PositionsUnique, NEW known,
         known \subseteq Spell, spells' = Graded(known, level)
  PROVE  /\ DOMAIN spells' = known
         /\ spells' \in [known -> [Level : Nat, Position : Positions]]
         /\ \A s \in known : Learnable(s, level) => spells'[s].Level > 0
         /\ PositionsUnique'
<1>1. DOMAIN spells' = known
  BY DEF Graded
<1>2. \A s \in known : /\ spells'[s].Level = maxSpellLevel(s, level)
                       /\ spells'[s].Position =
                             IF s \in DOMAIN spells THEN spells[s].Position ELSE 0
  BY DEF Graded
<1>3. spells' \in [known -> [Level : Nat, Position : Positions]]
  <2>1. \A s \in known : maxSpellLevel(s, level) \in Nat
    BY GradeType DEF SpellType
  <2> QED
    BY <2>1 DEF Graded, SpellType
<1>4. \A s \in known : Learnable(s, level) => spells'[s].Level > 0
  BY <1>2, GradeType DEF SpellType
<1>5. PositionsUnique'
  BY <1>1, <1>2 DEF PositionsUnique
<1> QED
  BY <1>1, <1>3, <1>4, <1>5

-----------------------------------------------------------------------------
LEMMA InitSpells == ASSUME ProgressionAssumption PROVE Init => SpellInv
<1> SUFFICES ASSUME Init PROVE SpellInv
  OBVIOUS
<1>1. /\ DOMAIN spells = DOMAIN FirstSpells
      /\ \A s \in DOMAIN spells : spells[s].Level = FirstGrade
                                  /\ spells[s].Position = FirstSpells[s]
  BY DEF Init
<1>2. SpellType
  BY DEF Init, SpellType, ProgressionAssumption
<1>3. GradeInv
  BY <1>1 DEF Init, GradeInv, Learnable, ProgressionAssumption
<1>4. PositionsUnique
  BY <1>1 DEF PositionsUnique, ProgressionAssumption
<1> QED
  BY <1>2, <1>3, <1>4 DEF SpellInv

\* setLevel, write by write.
LEMMA SetLevelSteps ==
  ASSUME ProgressionAssumption, SpellInv,
         \/ \E lv \in 1..MaxLevel : SetLevel(lv)
         \/ LevelRaised \/ LevelLowered \/ SpellsTrimmed \/ SetLevelFails
  PROVE  SpellInv'
<1> USE DEF SpellInv
<1>1. ASSUME NEW lv \in 1..MaxLevel, SetLevel(lv) PROVE SpellInv'
  BY <1>1 DEF SetLevel, SpellType, GradeInv, PositionsUnique, Learnable,
     ProgressionAssumption
<1>2. CASE LevelRaised
  <2> DEFINE known == DOMAIN spells \cup {s \in ClassSpells : Learnable(s, level)}
  <2>1. /\ known \subseteq Spell /\ spells' = Graded(known, level)
        /\ pc = "points" /\ pc' = "idle" /\ level >= original
        /\ UNCHANGED <<level, undone, original>>
    BY <1>2 DEF LevelRaised, SpellType, ProgressionAssumption
  <2>2. /\ DOMAIN spells' = known
        /\ spells' \in [known -> [Level : Nat, Position : Positions]]
        /\ \A s \in known : Learnable(s, level) => spells'[s].Level > 0
        /\ PositionsUnique'
    BY <2>1, GradedSpells
  <2>3. ASSUME "spells" \notin undone, NEW s \in known PROVE Learnable(s, level)
    <3>1. CASE s \in DOMAIN spells
      BY <2>1, <2>3, <3>1, LearnableHigher DEF GradeInv, SpellType
    <3>2. CASE s \notin DOMAIN spells
      BY <2>3, <3>2
    <3> QED
      BY <3>1, <3>2
  <2> QED
    BY <2>1, <2>2, <2>3 DEF SpellType, GradeInv, Learnable
<1>3. CASE LevelLowered
  BY <1>3 DEF LevelLowered, ResetStats, SpellType, GradeInv, PositionsUnique
<1>4. CASE SpellsTrimmed
  <2> DEFINE known == {s \in DOMAIN spells : Learnable(s, level)}
  <2>1. /\ known \subseteq Spell /\ spells' = Graded(known, level) /\ pc' = "idle"
        /\ UNCHANGED <<level, original>>
    BY <1>4 DEF SpellsTrimmed, SpellType
  <2>2. /\ DOMAIN spells' = known
        /\ spells' \in [known -> [Level : Nat, Position : Positions]]
        /\ \A s \in known : Learnable(s, level) => spells'[s].Level > 0
        /\ PositionsUnique'
    BY <2>1, GradedSpells
  <2> QED
    BY <2>1, <2>2 DEF SpellType, GradeInv, Learnable
<1>5. CASE SetLevelFails
  <2>1. /\ pc \in {"points", "spells"} /\ pc' = "idle"
        /\ UNCHANGED <<level, spells, original>>
        /\ undone \subseteq undone'
        /\ level < original => "spells" \in undone'
    BY <1>5 DEF SetLevelFails, GradeInv
  <2>2. ASSUME "spells" \notin undone'
        PROVE  \A s \in DOMAIN spells : Learnable(s, level) /\ spells[s].Level > 0
    <3>1. level >= original /\ pc = "points" /\ "spells" \notin undone
      BY <2>1, <2>2 DEF SpellType, GradeInv
    <3> QED
      BY <3>1, LearnableHigher DEF SpellType, GradeInv
  <2> QED
    BY <2>1, <2>2 DEF SpellType, GradeInv, PositionsUnique, Learnable
<1> QED
  BY <1>1, <1>2, <1>3, <1>4, <1>5

\* The requests that change spells.
LEMMA SpellSteps ==
  ASSUME ProgressionAssumption, SpellInv, NEW s \in Spell,
         \/ SpellsBoost(s) \/ ForgetSpell(s)
         \/ \E p \in Positions : SpellsMoveToUsed(s, p)
  PROVE  SpellInv'
<1> USE DEF SpellInv
<1>1. ASSUME NEW n \in Nat \ {0}, s \in DOMAIN spells, pc = "idle",
             spells' = [spells EXCEPT ![s].Level = n],
             UNCHANGED <<level, undone, pc, original>>
      PROVE  SpellInv'
  <2>1. /\ DOMAIN spells' = DOMAIN spells
        /\ spells' \in [DOMAIN spells -> [Level : Nat, Position : Positions]]
        /\ spells'[s].Level = n /\ spells'[s].Position = spells[s].Position
        /\ \A r \in DOMAIN spells \ {s} : spells'[r] = spells[r]
    BY <1>1 DEF SpellType
  <2>2. SpellType'
    BY <1>1, <2>1 DEF SpellType
  <2>3. GradeInv'
    BY <1>1, <2>1 DEF GradeInv, Learnable
  <2>4. PositionsUnique'
    BY <2>1 DEF PositionsUnique
  <2> QED
    BY <2>2, <2>3, <2>4
<1>2. CASE SpellsBoost(s)
  <2>1. PICK n : n = spells[s].Level + 1
    OBVIOUS
  <2>2. n \in Nat \ {0} /\ s \in DOMAIN spells
    BY <1>2, <2>1 DEF SpellsBoost, SpellType
  <2>3. spells' = [spells EXCEPT ![s].Level = n]
    BY <1>2, <2>1 DEF SpellsBoost
  <2> QED
    BY <1>1, <1>2, <2>2, <2>3 DEF SpellsBoost
<1>3. CASE ForgetSpell(s)
  <2>1. spells' = [spells EXCEPT ![s].Level = 1] /\ 1 \in Nat \ {0}
    BY <1>3 DEF ForgetSpell
  <2> QED
    BY <1>1, <1>3, <2>1 DEF ForgetSpell
<1>4. ASSUME NEW p \in Positions, SpellsMoveToUsed(s, p) PROVE SpellInv'
  <2>1. /\ s \in DOMAIN spells /\ pc = "idle" /\ p \in Positions
        /\ UNCHANGED <<level, undone, pc, original>>
    BY <1>4 DEF SpellsMoveToUsed, ProgressionAssumption
  <2>2. /\ spells' \in [DOMAIN spells -> [Level : Nat, Position : Positions]]
        /\ \A r \in DOMAIN spells : spells'[r].Level = spells[r].Level
        /\ spells'[s].Position = p
        /\ \A r \in DOMAIN spells \ {s} :
              \/ spells'[r].Position = 0
              \/ spells'[r].Position = spells[r].Position /\ spells[r].Position # p
              \/ p = 0 /\ spells'[r].Position = spells[r].Position
    <3>1. CASE /\ \A r \in DOMAIN spells : spells[r].Position # p
               /\ spells' = [spells EXCEPT ![s].Position = p]
      BY <2>1, <3>1 DEF SpellType
    <3>2. ASSUME NEW r \in DOMAIN spells, spells[r].Position = p,
                 spells' = [spells EXCEPT ![r].Position = 0, ![s].Position = p]
          PROVE  <2>2!1 /\ <2>2!2 /\ <2>2!3 /\ <2>2!4
      BY <2>1, <3>2 DEF SpellType, PositionsUnique
    <3> QED
      BY <1>4, <3>1, <3>2 DEF SpellsMoveToUsed
  <2>3. DOMAIN spells' = DOMAIN spells
    BY <2>2
  <2> QED
    BY <2>1, <2>2, <2>3 DEF SpellType, GradeInv, PositionsUnique, Learnable
<1> QED
  BY <1>2, <1>3, <1>4

LEMMA SpellStep ==
  ASSUME ProgressionAssumption PROVE SpellInv /\ [Next]_vars => SpellInv'
<1> SUFFICES ASSUME SpellInv, [Next]_vars PROVE SpellInv'
  OBVIOUS
<1>1. CASE UNCHANGED vars
  BY <1>1 DEF vars, SpellInv, SpellType, GradeInv, PositionsUnique, Learnable
<1>2. CASE \/ Reset
           \/ \E ch \in Characteristic, n \in Amounts : Boost(ch, n)
  <2>1. /\ UNCHANGED <<level, spells, pc, original>>
        /\ "spells" \in undone' <=> "spells" \in undone
    BY <1>2 DEF Reset, ResetStats, Boost
  <2> QED
    BY <2>1 DEF SpellInv, SpellType, GradeInv, PositionsUnique, Learnable
<1>3. CASE \/ \E lv \in 1..MaxLevel : SetLevel(lv)
           \/ LevelRaised \/ LevelLowered \/ SpellsTrimmed \/ SetLevelFails
  BY <1>3, SetLevelSteps
<1>4. CASE \E s \in Spell :
              \/ SpellsBoost(s) \/ ForgetSpell(s)
              \/ \E p \in Positions : SpellsMoveToUsed(s, p)
  BY <1>4, SpellSteps
<1> QED
  BY <1>1, <1>2, <1>3, <1>4 DEF Next

\* The inductive invariant: what level each spell was graded for, and its place.
THEOREM Inductive == ASSUME ProgressionAssumption PROVE Spec => []SpellInv
BY InitSpells, SpellStep, PTL DEF Spec

\* Each known spell is one the level of its character allows and has a grade
\* above zero, unless a change to a lower level was cut short, and it has a
\* position of its own.
THEOREM SpellsAlwaysFit == ASSUME ProgressionAssumption PROVE Spec => []SpellsFit
<1>1. SpellInv => SpellsFit
  BY DEF SpellInv, GradeInv, SpellsFit
<1> QED
  BY <1>1, Inductive, PTL

-----------------------------------------------------------------------------
(* Points *)

\* The tier of a characteristic that gives the most.
Best(ch, k) ==
    /\ k \in 1..Len(CostTable[ch])
    /\ \A j \in 1..Len(CostTable[ch]) :
          CostTable[ch][j].Bonus <= CostTable[ch][k].Bonus

\* The level that the points belong to: setLevel writes the level first.
LevelOfPoints == IF pc = "points" THEN original ELSE level

PointsType ==
    /\ level \in 1..MaxLevel /\ original \in 1..MaxLevel
    /\ points \in Nat /\ spent \in Nat
    /\ undone \subseteq {"points", "spells"}
    /\ pc \in {"idle", "points", "spells"}

\* What was paid and what is left, kept below the bound, add up to five points
\* per level.
PointsAddUp ==
    /\ points + spent <= MaxPoints
    /\ pc = "points" => points + spent + (level - original) * 5 <= MaxPoints
    /\ "points" \notin undone => points + spent = (LevelOfPoints - 1) * 5

\* No characteristic is further above its base than the points paid allow.
StatsPaid ==
    /\ stats \in [Characteristic -> Nat]
    /\ \A ch \in Characteristic, k \in Nat :
          Best(ch, k) => stats[ch] <= BaseStat + CostTable[ch][k].Bonus * spent

PointsInv == PointsType /\ PointsAddUp /\ StatsPaid

LEMMA BestRate ==
  ASSUME ProgressionAssumption, NEW ch \in Characteristic
  PROVE  /\ \E k \in Nat : Best(ch, k)
         /\ \A k : Best(ch, k) =>
               /\ k \in Nat /\ k \in 1..Len(CostTable[ch])
               /\ CostTable[ch][k].Bonus \in Nat \ {0}
<1>1. IsTable(CostTable[ch])
  BY DEF ProgressionAssumption
<1>2. 1..Len(CostTable[ch]) \subseteq Nat
  BY <1>1 DEF IsTable
<1>3. \E k : Best(ch, k)
  BY <1>1, HighestRate DEF Best
<1>4. \A k \in 1..Len(CostTable[ch]) : CostTable[ch][k].Bonus \in Nat \ {0}
  BY <1>1, TierType
<1> QED
  BY <1>2, <1>3, <1>4 DEF Best

LEMMA InitPoints == ASSUME ProgressionAssumption, Init PROVE PointsInv
<1>1. PointsType /\ PointsAddUp
  BY DEF Init, PointsType, PointsAddUp, LevelOfPoints, ProgressionAssumption
<1>2. ASSUME NEW ch \in Characteristic, NEW k \in Nat, Best(ch, k)
      PROVE  stats[ch] <= BaseStat + CostTable[ch][k].Bonus * spent
  <2>1. CostTable[ch][k].Bonus * 0 = 0
    BY <1>2, BestRate
  <2> QED
    BY <2>1 DEF Init, BaseStats, ProgressionAssumption
<1>3. stats \in [Characteristic -> Nat]
  BY DEF Init, BaseStats, ProgressionAssumption
<1> QED
  BY <1>1, <1>2, <1>3 DEF PointsInv, StatsPaid

\* Nothing a step leaves alone disturbs what the characteristics cost.
LEMMA StatsKept ==
  ASSUME StatsPaid, UNCHANGED <<stats, spent>> PROVE StatsPaid'
BY DEF StatsPaid, Best

\* After a reset nothing is paid and nothing bought.
LEMMA StatsReset ==
  ASSUME ProgressionAssumption, stats' = BaseStats, spent' = 0 PROVE StatsPaid'
<1>1. ASSUME NEW ch \in Characteristic, NEW k \in Nat, Best(ch, k)
      PROVE  stats'[ch] <= BaseStat + CostTable[ch][k].Bonus * spent'
  <2>1. CostTable[ch][k].Bonus * 0 = 0
    BY <1>1, BestRate
  <2> QED
    BY <2>1 DEF BaseStats, ProgressionAssumption
<1> QED
  BY <1>1 DEF StatsPaid, BaseStats, Best, ProgressionAssumption

\* What a boost gives is paid for.
LEMMA BoostPaid ==
  ASSUME ProgressionAssumption, PointsInv, NEW ch \in Characteristic,
         NEW n \in Amounts, NEW k \in Nat, Best(ch, k),
         NEW boost, boost = calcBoost(stats[ch], n, CostTable[ch])
  PROVE  /\ boost.cost \in Nat /\ boost.bonus \in Nat
         /\ boost.bonus <= CostTable[ch][k].Bonus * boost.cost
<1> DEFINE table == CostTable[ch]
           rate == table[k].Bonus
           cur == stats[ch]
           atMost == rate * MaxPoints
           paid == rate * spent
<1>1. /\ MaxInt \in Nat /\ IsTable(table) /\ n \in Nat /\ BaseStat \in Nat
      /\ MaxPoints \in Nat
  BY DEF ProgressionAssumption
<1>2. rate \in Nat /\ k \in 1..Len(table)
  BY BestRate
<1>3. cur \in Nat /\ cur <= BaseStat + paid
  BY DEF PointsInv, StatsPaid
<1>4. paid <= atMost /\ paid \in Nat /\ atMost \in Nat
  <2>1. spent \in Nat /\ spent <= MaxPoints
    BY <1>1 DEF PointsInv, PointsType, PointsAddUp
  <2> HIDE DEF rate
  <2>2. spent * rate <= MaxPoints * rate
    BY <1>1, <1>2, <2>1, TimesMonotone
  <2>3. paid \in Nat /\ paid = spent * rate
    BY <1>2, <2>1, TimesNat
  <2>4. atMost \in Nat /\ atMost = MaxPoints * rate
    BY <1>1, <1>2, TimesNat
  <2> QED
    BY <2>2, <2>3, <2>4
<1>5. BaseStat + atMost + n <= MaxInt
  BY <1>2 DEF ProgressionAssumption
<1> HIDE DEF table, rate, cur, atMost, paid
<1>6. cur + n <= MaxInt
  BY <1>1, <1>3, <1>4, <1>5
<1>7. \A j \in 1..Len(table) : table[j].Bonus <= rate
  BY DEF Best, table, rate
<1>8. boost = calcBoost(cur, n, table)
  BY DEF cur, table
<1>9. Fair(boost, n, rate)
  BY <1>1, <1>2, <1>3, <1>6, <1>7, <1>8, BoostFair
<1> QED
  BY <1>9 DEF Fair, rate, table

LEMMA BoostStep ==
  ASSUME ProgressionAssumption, PointsInv, NEW ch \in Characteristic,
         NEW n \in Amounts, Boost(ch, n)
  PROVE  PointsInv'
<1>1. PICK boost : boost = calcBoost(stats[ch], n, CostTable[ch])
  OBVIOUS
<1>2. /\ pc = "idle" /\ boost.cost <= points
      /\ points' = points - boost.cost
      /\ stats' = [stats EXCEPT ![ch] = @ + boost.bonus]
      /\ spent' = spent + boost.cost
      /\ UNCHANGED <<level, spells, undone, pc, original>>
  BY <1>1 DEF Boost
<1>3. boost.cost \in Nat /\ boost.bonus \in Nat
  BY <1>1, BestRate, BoostPaid
<1>4. PointsType'
  <2>1. PICK c \in Nat : c = boost.cost
    BY <1>3
  <2>2. c <= points /\ points' = points - c /\ spent' = spent + c
    BY <1>2, <2>1, Zenon
  <2>3. points' \in Nat /\ spent' \in Nat
    BY <2>1, <2>2 DEF PointsInv, PointsType
  <2> QED
    BY <1>2, <2>3 DEF PointsInv, PointsType
<1>5. PointsAddUp'
  <2>1. points' + spent' = points + spent
    BY <1>2, <1>3 DEF PointsInv, PointsType
  <2> QED
    BY <1>2, <2>1 DEF PointsInv, PointsAddUp, LevelOfPoints
<1>6. stats \in [Characteristic -> Nat] /\ spent \in Nat
  BY DEF PointsInv, PointsType, StatsPaid
<1>7. ASSUME NEW c \in Characteristic, NEW k \in Nat, Best(c, k)
      PROVE  stats'[c] <= BaseStat + CostTable[c][k].Bonus * spent'
  <2> DEFINE rate == CostTable[c][k].Bonus
             before == rate * spent
             more == rate * boost.cost
  <2>1. rate \in Nat
    BY <1>7, BestRate
  <2> HIDE DEF rate
  <2>2. before \in Nat /\ more \in Nat /\ rate * (spent + boost.cost) = before + more
    BY <1>3, <1>6, <2>1, TimesNat
  <2>3. rate * spent' = before + more
    BY <1>2, <2>2
  <2> USE DEF rate
  <2>4. stats[c] \in Nat /\ BaseStat \in Nat /\ stats[c] <= BaseStat + before
    BY <1>7 DEF PointsInv, StatsPaid, ProgressionAssumption
  <2>5. stats'[c] = IF c = ch THEN stats[c] + boost.bonus ELSE stats[c]
    <3>1. stats' = [stats EXCEPT ![ch] = @ + boost.bonus]
      BY <1>2
    <3> QED
      BY <1>6, <3>1, Zenon
  <2>6. c = ch => boost.bonus <= more
    BY <1>1, <1>7, BoostPaid
  <2> HIDE DEF rate, before, more
  <2>7. stats'[c] <= BaseStat + (before + more)
    BY <1>3, <2>2, <2>4, <2>5, <2>6
  <2> QED
    BY <2>3, <2>7 DEF rate
<1>8. stats' \in [Characteristic -> Nat]
  BY <1>2, <1>3, <1>6
<1>9. StatsPaid'
  BY <1>7, <1>8 DEF StatsPaid, Best
<1> QED
  BY <1>4, <1>5, <1>9 DEF PointsInv

LEMMA PointsStep ==
  ASSUME ProgressionAssumption, SpellInv, PointsInv, [Next]_vars PROVE PointsInv'
<1> USE DEF PointsInv
<1>1. CASE UNCHANGED vars
  BY <1>1, StatsKept DEF vars, PointsType, PointsAddUp, LevelOfPoints
<1>2. ASSUME NEW ch \in Characteristic, NEW n \in Amounts, Boost(ch, n)
      PROVE  PointsInv'
  BY <1>2, BoostStep
<1>3. CASE Reset
  BY <1>3, StatsReset DEF Reset, ResetStats, PointsType, PointsAddUp,
     LevelOfPoints, ProgressionAssumption
<1>4. ASSUME NEW lv \in 1..MaxLevel, SetLevel(lv) PROVE PointsInv'
  BY <1>4, StatsKept DEF SetLevel, PointsType, PointsAddUp, LevelOfPoints
<1>5. CASE LevelRaised
  BY <1>5, StatsKept DEF LevelRaised, PointsType, PointsAddUp, LevelOfPoints
<1>6. CASE LevelLowered
  <2> DEFINE used == (original - 1) * 5 - points
             max == (level - 1) * 5
  <2>1. /\ pc = "points" /\ pc' = "spells" /\ level < original
        /\ UNCHANGED <<level, spells, original>>
    BY <1>6 DEF LevelLowered
  <2>2. CASE used > max
    <3>1. ResetStats
      BY <1>6, <2>2 DEF LevelLowered
    <3> QED
      BY <2>1, <3>1, StatsReset DEF ResetStats, PointsType, PointsAddUp,
         LevelOfPoints, ProgressionAssumption
  <2>3. CASE ~ (used > max)
    <3>1. points' = max - used /\ UNCHANGED <<stats, spent, undone>>
      BY <1>6, <2>3 DEF LevelLowered
    <3> QED
      BY <2>1, <2>3, <3>1, StatsKept DEF PointsType, PointsAddUp, LevelOfPoints,
         ProgressionAssumption
  <2> QED
    BY <2>2, <2>3
<1>7. CASE SpellsTrimmed
  BY <1>7, StatsKept DEF SpellsTrimmed, PointsType, PointsAddUp, LevelOfPoints
<1>8. CASE SetLevelFails
  BY <1>8, StatsKept DEF SetLevelFails, PointsType, PointsAddUp, LevelOfPoints,
     SpellInv, GradeInv
<1>9. ASSUME NEW s \in Spell,
             \/ SpellsBoost(s) \/ ForgetSpell(s)
             \/ \E p \in Positions : SpellsMoveToUsed(s, p)
      PROVE  PointsInv'
  <2>1. UNCHANGED <<level, points, stats, spent, undone, pc, original>>
    BY <1>9 DEF SpellsBoost, ForgetSpell, SpellsMoveToUsed
  <2> QED
    BY <2>1, StatsKept DEF PointsType, PointsAddUp, LevelOfPoints
<1> QED
  BY <1>1, <1>2, <1>3, <1>4, <1>5, <1>6, <1>7, <1>8, <1>9 DEF Next

THEOREM PointsInductive ==
  ASSUME ProgressionAssumption PROVE Spec => []PointsInv
<1>1. Init => PointsInv
  BY InitPoints
<1>2. SpellInv /\ PointsInv /\ [Next]_vars => PointsInv'
  BY PointsStep
<1> QED
  BY <1>1, <1>2, Inductive, PTL DEF Spec

\* Points, spent points and characteristics are numbers: no series of boosts,
\* resets, changes of the level and failures takes more points than there are.
THEOREM TypesAreKept == ASSUME ProgressionAssumption PROVE Spec => []TypeOK
<1>1. SpellInv /\ PointsInv => TypeOK
  BY DEF SpellInv, SpellType, PointsInv, PointsType, StatsPaid, TypeOK
<1> QED
  BY <1>1, Inductive, PointsInductive, PTL

\* Five points per level, spent or not, whatever the tables of the class; and
\* nothing is bought that was not paid for.
THEOREM PointsAlwaysBalanced ==
  ASSUME ProgressionAssumption PROVE Spec => []PointsBalanced
<1>1. PointsInv => PointsBalanced
  <2> SUFFICES ASSUME PointsInv PROVE PointsBalanced
    OBVIOUS
  <2>1. pc = "idle" /\ "points" \notin undone => points + spent = (level - 1) * 5
    BY DEF PointsInv, PointsAddUp, LevelOfPoints
  <2>2. ASSUME NEW ch \in Characteristic
        PROVE  \E rate \in {CostTable[ch][k].Bonus : k \in 1..Len(CostTable[ch])} :
                  stats[ch] - BaseStat <= rate * spent
    <3>1. PICK k \in Nat : Best(ch, k)
      BY BestRate
    <3> DEFINE rate == CostTable[ch][k].Bonus
               paid == rate * spent
    <3>2. k \in 1..Len(CostTable[ch]) /\ rate \in Nat
      BY <3>1, BestRate
    <3>3. paid \in Nat
      <4> HIDE DEF rate
      <4> QED
        BY <3>2, TimesNat DEF PointsInv, PointsType
    <3>4. stats[ch] <= BaseStat + paid /\ stats[ch] \in Nat /\ BaseStat \in Nat
      BY <3>1 DEF PointsInv, StatsPaid, ProgressionAssumption
    <3>5. stats[ch] - BaseStat <= paid
      <4> HIDE DEF paid
      <4> QED
        BY <3>4, <3>3
    <3> QED
      BY <3>2, <3>5
  <2> QED
    BY <2>1, <2>2 DEF PointsBalanced
<1> QED
  BY <1>1, PointsInductive, PTL
=============================================================================
