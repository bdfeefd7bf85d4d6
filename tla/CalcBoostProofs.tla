-------------------------- MODULE CalcBoostProofs --------------------------
(***************************************************************************)
(* For every table and every amount that does not overflow: the loop of    *)
(* calcBoost gives what it takes from the amount it was asked for, ends    *)
(* with what the function gives, and charges as its points would cost one  *)
(* after the other as long as they cross one border between tiers.         *)
(***************************************************************************)
EXTENDS CalcBoost, BoostCostsProofs, FiniteSetTheorems

\* The arguments of calcBoost do not change.
Arguments == boosts \in Tables /\ current \in Current /\ wanted \in Amount

\* A step takes from add what it gives to bonus.
LEMMA BonusStep ==
  ASSUME CalcBoostAssumption, Arguments, BonusBounded, [Next]_vars
  PROVE  Arguments' /\ BonusBounded'
<1>1. CASE UNCHANGED vars
  BY <1>1 DEF vars, Arguments, BonusBounded
<1>2. CASE Skip
  BY <1>2 DEF Skip, Arguments, BonusBounded
<1>3. CASE Pay
  <2> DEFINE n == amount(boosts, i, current, add)
             given == boosts[i].Bonus * n
             paid == boosts[i].Cost * n
  <2>1. /\ IsTable(boosts) /\ MaxInt \in Nat
        /\ i \in 1..Len(boosts)
        /\ current \in Nat /\ add \in Nat /\ current + add <= MaxInt
    <3>1. /\ IsTable(boosts) /\ MaxInt \in Nat /\ current \in Nat
          /\ wanted \in Nat /\ current + wanted <= MaxInt
      BY DEF CalcBoostAssumption, Arguments
    <3>2. Len(boosts) \in Nat
      BY <3>1 DEF IsTable
    <3> QED
      BY <1>3, <3>1, <3>2 DEF Pay, Running, BonusBounded
  <2>2. n \in Nat /\ given \in Nat /\ given <= add
    BY <1>3, <2>1, AmountBounded DEF Pay
  <2>3. paid \in Nat
    BY <2>1, <2>2, TierType
  <2>4. /\ i' = i + 1
        /\ add' = add - given
        /\ cost' = cost + paid
        /\ bonus' = bonus + given
        /\ UNCHANGED <<boosts, current, wanted>>
    BY <1>3 DEF Pay
  <2> HIDE DEF n, given, paid
  <2> QED
    BY <2>2, <2>3, <2>4 DEF Arguments, BonusBounded
<1> QED
  BY <1>1, <1>2, <1>3 DEF Next

\* No boost gives more than the client asked for, whatever the table of the
\* class.
THEOREM BonusIsBounded == ASSUME CalcBoostAssumption PROVE Spec => []BonusBounded
<1>1. Init => Arguments /\ BonusBounded
  BY DEF CalcBoostAssumption, Init, Arguments, BonusBounded
<1>2. Arguments /\ BonusBounded /\ [Next]_vars => Arguments' /\ BonusBounded'
  BY BonusStep
<1> QED
  BY <1>1, <1>2, PTL DEF Spec

-----------------------------------------------------------------------------
(* The loop and the function *)

\* Before tier i the loop has what the function has after i - 1 tiers.
InStep ==
    /\ Arguments
    /\ i \in 1..Len(boosts) + 1
    /\ [add |-> add, cost |-> cost, bonus |-> bonus] =
          afterTiers(current, wanted, boosts)[i - 1]

LEMMA ArgumentsType ==
  ASSUME CalcBoostAssumption, Arguments
  PROVE  /\ IsTable(boosts) /\ MaxInt \in Nat /\ Len(boosts) \in Nat
         /\ current \in Nat /\ wanted \in Nat
BY DEF CalcBoostAssumption, Arguments, IsTable

LEMMA InStepInit == ASSUME CalcBoostAssumption, Init PROVE InStep
<1>1. Arguments
  BY DEF Init, Arguments
<1>2. i = 1 /\ i - 1 = 0 /\ i \in 1..Len(boosts) + 1
  BY <1>1, ArgumentsType DEF Init
<1>3. [add |-> add, cost |-> cost, bonus |-> bonus] =
         afterTiers(current, wanted, boosts)[0]
  BY <1>1, ArgumentsType, AfterTiers DEF Init
<1> QED
  BY <1>1, <1>2, <1>3 DEF InStep

LEMMA InStepStep == ASSUME CalcBoostAssumption, InStep, [Next]_vars PROVE InStep'
<1> DEFINE f == afterTiers(current, wanted, boosts)
<1>1. CASE UNCHANGED vars
  BY <1>1 DEF vars, InStep, Arguments
<1>2. CASE Next
  <2>1. /\ Running /\ Arguments /\ Len(boosts) \in Nat
        /\ UNCHANGED <<boosts, current, wanted>>
        /\ i \in 1..Len(boosts) /\ i' = i + 1
    BY <1>2, ArgumentsType DEF Next, Skip, Pay, Running, InStep
  <2>2. PICK was : was = [add |-> add, cost |-> cost, bonus |-> bonus]
    OBVIOUS
  <2>3. was = f[i - 1] /\ was.add = add /\ was.cost = cost /\ was.bonus = bonus
    BY <2>2 DEF InStep
  <2>4. f[i] = afterTier(boosts, i, current, was)
    <3>1. /\ IsTable(boosts) /\ MaxInt \in Nat
          /\ current \in Nat /\ wanted \in Nat
      BY <2>1, ArgumentsType
    <3>2. \A k \in 1..Len(boosts) : f[k] = afterTier(boosts, k, current, f[k - 1])
      BY <3>1, AfterTiers
    <3> HIDE DEF f
    <3>3. f[i] = afterTier(boosts, i, current, f[i - 1])
      BY <2>1, <3>2
    <3> QED
      BY <2>3, <3>3
  <2>5. [add |-> add', cost |-> cost', bonus |-> bonus'] =
           afterTier(boosts, i, current, was)
    <3>1. CASE Skip
      BY <2>2, <3>1 DEF Skip, afterTier
    <3>2. CASE Pay
      BY <2>1, <2>3, <3>2 DEF Pay, afterTier, Running
    <3> QED
      BY <1>2, <3>1, <3>2 DEF Next
  <2>6. Arguments' /\ i' \in 1..Len(boosts') + 1 /\ i' - 1 = i
    BY <2>1 DEF Arguments
  <2>7. afterTiers(current', wanted', boosts')[i' - 1] = f[i]
    BY <2>1, <2>6
  <2> QED
    BY <2>4, <2>5, <2>6, <2>7 DEF InStep
<1> QED
  BY <1>1, <1>2

\* When the loop ends, it has what the function has after the last tier, for
\* every table and every amount: Progression may use the one for the other.
THEOREM LoopGivesFunction == ASSUME CalcBoostAssumption PROVE Spec => []LoopIsFunction
<1>1. InStep => LoopIsFunction
  <2> SUFFICES ASSUME InStep, ~ Running
               PROVE  calcBoost(current, wanted, boosts) =
                         [add |-> add, cost |-> cost, bonus |-> bonus]
    BY DEF LoopIsFunction
  <2> DEFINE f == afterTiers(current, wanted, boosts)
  <2>1. PICK k : k = i - 1
    OBVIOUS
  <2>2. /\ IsTable(boosts) /\ MaxInt \in Nat /\ Len(boosts) \in Nat
        /\ current \in Nat /\ wanted \in Nat /\ i \in 1..Len(boosts) + 1
        /\ k \in 0..Len(boosts)
    BY <2>1, ArgumentsType DEF InStep
  <2>3. f[k] = [add |-> add, cost |-> cost, bonus |-> bonus]
    BY <2>1 DEF InStep
  <2>4. CASE add = 0
    <3>1. f[k].add = 0
      BY <2>3, <2>4
    <3> QED
      BY <2>2, <2>3, <3>1, NothingLeft
  <2>5. CASE add # 0
    <3>1. k = Len(boosts)
      BY <2>1, <2>2, <2>5 DEF Running
    <3> QED
      BY <2>3, <3>1 DEF calcBoost
  <2> QED
    BY <2>4, <2>5
<1>2. Init => InStep
  BY InStepInit
<1>3. InStep /\ [Next]_vars => InStep'
  BY InStepStep
<1> QED
  BY <1>1, <1>2, <1>3, PTL DEF Spec

-----------------------------------------------------------------------------
(* The tier of a value *)

\* What rises from each number to the next one rises from each to all later.
LEMMA Rising ==
  ASSUME NEW n \in Nat, NEW f, \A k \in 1..n : f[k] \in Nat,
         \A k \in 1..n - 1 : f[k] <= f[k + 1]
  PROVE  \A j, k \in 1..n : j <= k => f[j] <= f[k]
<1> SUFFICES ASSUME NEW j \in 1..n PROVE \A k \in 1..n : j <= k => f[j] <= f[k]
  OBVIOUS
<1> DEFINE S == {m \in 0..n : m >= j => f[j] <= f[m]}
<1>1. 0 \in S
  OBVIOUS
<1>2. ASSUME NEW m \in 0..n - 1, m \in S PROVE m + 1 \in S
  <2>1. CASE m + 1 = j
    BY <2>1
  <2>2. CASE m + 1 < j
    BY <2>2
  <2>3. CASE m >= j
    <3>1. m \in 1..n - 1 /\ m \in 1..n /\ m + 1 \in 1..n
      BY <2>3
    <3>2. f[j] <= f[m] /\ f[m] <= f[m + 1]
      BY <1>2, <2>3, <3>1
    <3>3. f[j] \in Nat /\ f[m] \in Nat /\ f[m + 1] \in Nat
      BY <3>1
    <3> QED
      BY <3>1, <3>2, <3>3
  <2> QED
    BY <2>1, <2>2, <2>3
<1> HIDE DEF S
<1>3. 0..n \subseteq S
  BY <1>1, <1>2, BoundedInduction
<1> QED
  BY <1>3 DEF S

\* The tiers of a table follow each other.
LEMMA TiersRise ==
  ASSUME NEW table, IsTable(table), NEW j \in 1..Len(table), NEW k \in 1..Len(table)
  PROVE  /\ j <= k => table[j].Quantity <= table[k].Quantity
         /\ j < k => j + 1 \in 1..Len(table) /\ table[j + 1].Quantity <= table[k].Quantity
<1> DEFINE n == Len(table)
           f == [m \in 1..n |-> table[m].Quantity]
<1>1. n \in Nat
  BY DEF IsTable
<1>2. \A m \in 1..n : f[m] \in Nat
  BY TierType
<1>3. \A m \in 1..n - 1 : f[m] <= f[m + 1]
  <2> SUFFICES ASSUME NEW m \in 1..n - 1 PROVE f[m] <= f[m + 1]
    OBVIOUS
  <2>1. m \in 1..n /\ m + 1 \in 1..n
    BY <1>1
  <2>2. table[m].Quantity < table[m + 1].Quantity
    BY DEF IsTable
  <2>3. table[m].Quantity \in Nat /\ table[m + 1].Quantity \in Nat
    BY <2>1, TierType
  <2> QED
    BY <2>1, <2>2, <2>3
<1> HIDE DEF f
<1>4. \A l, m \in 1..n : l <= m => f[l] <= f[m]
  BY <1>1, <1>2, <1>3, Rising
<1>5. \A l, m \in 1..n : l <= m => table[l].Quantity <= table[m].Quantity
  BY <1>4 DEF f
<1>6. j < k => j + 1 \in 1..n /\ j + 1 <= k
  BY <1>1
<1> QED
  BY <1>5, <1>6

\* Each value is in a tier.
LEMMA SomeTier ==
  ASSUME NEW table, IsTable(table), NEW v \in Nat
  PROVE  \E k \in 1..Len(table) : InTier(table, k, v)
<1> DEFINE n == Len(table)
           S == {m \in 0..n : m = 0 \/ table[m].Quantity <= v
                              \/ \E k \in 1..n : InTier(table, k, v)}
<1>1. n \in Nat \ {0} /\ table[1].Quantity = 0
  BY DEF IsTable
<1>2. 0 \in S
  BY <1>1
<1>3. ASSUME NEW m \in 0..n - 1, m \in S PROVE m + 1 \in S
  <2>1. m + 1 \in 1..n /\ m + 1 \in 0..n
    BY <1>1
  <2>2. CASE m = 0
    BY <1>1, <2>1, <2>2
  <2>3. CASE m # 0 /\ table[m].Quantity <= v
    <3>1. m \in 1..n /\ table[m + 1].Quantity \in Nat
      BY <1>1, <2>1, <2>3, TierType
    <3>2. CASE table[m + 1].Quantity <= v
      BY <2>1, <3>2
    <3>3. CASE ~ table[m + 1].Quantity <= v
      <4>1. InTier(table, m, v)
        BY <2>3, <3>1, <3>3 DEF InTier
      <4> QED
        BY <2>1, <3>1, <4>1
    <3> QED
      BY <3>2, <3>3
  <2>4. CASE \E k \in 1..n : InTier(table, k, v)
    BY <2>1, <2>4
  <2> QED
    BY <1>3, <2>2, <2>3, <2>4
<1> HIDE DEF S
<1>4. 0..n \subseteq S
  BY <1>1, <1>2, <1>3, BoundedInduction
<1>5. n \in S
  BY <1>1, <1>4
<1>6. CASE table[n].Quantity <= v
  <2>1. InTier(table, n, v)
    BY <1>1, <1>6 DEF InTier
  <2> QED
    BY <1>1, <2>1
<1> QED
  BY <1>1, <1>5, <1>6 DEF S

\* A value from a tier on is in that tier or a later one.
LEMMA TierFrom ==
  ASSUME NEW table, IsTable(table), NEW v \in Nat,
         NEW j \in 1..Len(table), NEW k \in 1..Len(table),
         table[j].Quantity <= v, InTier(table, k, v)
  PROVE  j <= k
<1>1. Len(table) \in Nat
  BY DEF IsTable
<1>2. SUFFICES ASSUME k < j PROVE FALSE
  BY <1>1
<1>3. k < Len(table) /\ k + 1 \in 1..Len(table)
      /\ table[k + 1].Quantity <= table[j].Quantity
  BY <1>1, <1>2, TiersRise
<1>4. v < table[k + 1].Quantity
  BY <1>3 DEF InTier
<1>5. table[k + 1].Quantity \in Nat /\ table[j].Quantity \in Nat
  BY <1>3, TierType
<1> QED
  BY <1>3, <1>4, <1>5

\* The price of a value is that of the one tier it is in.
LEMMA PriceOfTier ==
  ASSUME NEW table, IsTable(table), NEW v \in Nat, NEW k \in 1..Len(table),
         InTier(table, k, v)
  PROVE  PriceAt(table, v) = table[k].Cost
<1>1. PICK c : c = CHOOSE j \in 1..Len(table) : InTier(table, j, v)
  OBVIOUS
<1>2. c \in 1..Len(table) /\ InTier(table, c, v)
  BY <1>1
<1>3. c <= k /\ k <= c
  BY <1>2, TierFrom DEF InTier
<1>4. c = k
  BY <1>2, <1>3
<1> QED
  BY <1>1, <1>4 DEF PriceAt

LEMMA PriceType ==
  ASSUME NEW table, IsTable(table), NEW v \in Nat
  PROVE  PriceAt(table, v) \in Nat
<1>1. PICK k \in 1..Len(table) : InTier(table, k, v)
  BY SomeTier
<1> QED
  BY <1>1, PriceOfTier, TierType

-----------------------------------------------------------------------------
(* Points charged one after the other *)

\* Each point adds its price.
LEMMA Stepwise ==
  ASSUME NEW table, IsTable(table), NEW v \in Nat, NEW n \in Nat
  PROVE  /\ StepwiseCosts(table, v, n) \in [0..n -> Nat]
         /\ StepwiseCosts(table, v, n)[0] = 0
         /\ \A m \in 1..n : StepwiseCosts(table, v, n)[m] =
               StepwiseCosts(table, v, n)[m - 1] + PriceAt(table, v + m - 1)
<1> DEFINE step == [p \in (1..n) \X Nat |-> p[2] + PriceAt(table, v + p[1] - 1)]
           Unfold(f) == [m \in 0..n |-> IF m = 0 THEN 0
                                        ELSE f[m - 1] + PriceAt(table, v + m - 1)]
<1>1. ASSUME NEW m \in 1..n PROVE PriceAt(table, v + m - 1) \in Nat
  <2>1. v + m - 1 \in Nat
    OBVIOUS
  <2> QED
    BY <2>1, PriceType
<1>2. step \in [(1..n) \X Nat -> Nat]
  <2>1. ASSUME NEW p \in (1..n) \X Nat
        PROVE  p[2] + PriceAt(table, v + p[1] - 1) \in Nat
    <3>1. PICK m, c : m = p[1] /\ c = p[2] /\ m \in 1..n /\ c \in Nat
      OBVIOUS
    <3>2. PriceAt(table, v + m - 1) \in Nat
      BY <1>1, <3>1
    <3> QED
      BY <3>1, <3>2
  <2> QED
    BY <2>1
<1>3. PICK f : Recursion(f, n, Nat, 0, step)
  <2> HIDE DEF step
  <2> QED
    BY <1>2, RecursionExists
<1>4. ASSUME NEW m \in 1..n PROVE f[m] = f[m - 1] + PriceAt(table, v + m - 1)
  <2>1. <<m, f[m - 1]>> \in (1..n) \X Nat
    BY <1>3 DEF Recursion
  <2> QED
    BY <1>3, <2>1 DEF Recursion
<1>5. f = Unfold(f)
  BY <1>3, <1>4 DEF Recursion
<1>6. StepwiseCosts(table, v, n) = CHOOSE g : g = Unfold(g)
  BY DEF StepwiseCosts
<1> DEFINE g == StepwiseCosts(table, v, n)
<1>7. g = Unfold(g)
  BY <1>5, <1>6
<1> HIDE DEF g
<1>8. ASSUME NEW m \in 1..n PROVE g[m] = g[m - 1] + PriceAt(table, v + m - 1)
  <2>1. m \in 0..n /\ m # 0
    OBVIOUS
  <2> QED
    BY <1>7, <2>1
<1>9. g[0] = 0
  BY <1>7
<1>10. g \in [0..n -> Nat]
  <2> DEFINE S == {m \in 0..n : g[m] \in Nat}
  <2>1. 0 \in S
    BY <1>9
  <2>2. ASSUME NEW m \in 0..n - 1, m \in S PROVE m + 1 \in S
    <3>1. PICK l : l = m + 1
      OBVIOUS
    <3>2. l \in 1..n /\ l \in 0..n /\ l - 1 = m
      BY <3>1
    <3>3. g[l] = g[m] + PriceAt(table, v + l - 1)
      BY <1>8, <3>2
    <3>4. g[m] \in Nat /\ PriceAt(table, v + l - 1) \in Nat
      BY <1>1, <2>2, <3>2
    <3> QED
      BY <3>1, <3>2, <3>3, <3>4
  <2> HIDE DEF S
  <2>3. 0..n \subseteq S
    BY <2>1, <2>2, BoundedInduction
  <2> QED
    BY <1>7, <2>3 DEF S
<1> QED
  BY <1>8, <1>9, <1>10 DEF g

\* Points of at most a price, and points of at least a price.
LEMMA Stretch ==
  ASSUME NEW table, IsTable(table), NEW v \in Nat, NEW n \in Nat,
         NEW a \in Nat, NEW d \in Nat, a + d <= n, NEW c \in Nat
  PROVE  /\ (\A m \in a..a + d - 1 : PriceAt(table, v + m) <= c) =>
               StepwiseCosts(table, v, n)[a + d] <= StepwiseCosts(table, v, n)[a] + c * d
         /\ (\A m \in a..a + d - 1 : PriceAt(table, v + m) >= c) =>
               StepwiseCosts(table, v, n)[a + d] >= StepwiseCosts(table, v, n)[a] + c * d
<1> DEFINE P == StepwiseCosts(table, v, n)
           Cheap(e) == (\A m \in a..a + e - 1 : PriceAt(table, v + m) <= c) =>
                         P[a + e] <= P[a] + c * e
           Dear(e) == (\A m \in a..a + e - 1 : PriceAt(table, v + m) >= c) =>
                         P[a + e] >= P[a] + c * e
           S == {e \in 0..d : Cheap(e) /\ Dear(e)}
<1>1. P \in [0..n -> Nat] /\ \A m \in 1..n : P[m] = P[m - 1] + PriceAt(table, v + m - 1)
  BY Stepwise
<1> HIDE DEF P
<1>2. 0 \in S
  <2>1. a + 0 = a /\ c * 0 = 0 /\ P[a] \in Nat
    BY <1>1
  <2>2. Cheap(0) /\ Dear(0)
    BY <2>1
  <2> QED
    BY <2>2
<1>3. ASSUME NEW e \in 0..d - 1, e \in S PROVE e + 1 \in S
  <2>1. PICK l : l = a + e
    OBVIOUS
  <2>2. l \in Nat /\ l \in 0..n /\ l + 1 \in 1..n /\ (l + 1) - 1 = l /\ a + (e + 1) = l + 1
    BY <2>1
  <2>3. P[l + 1] = P[l] + PriceAt(table, v + l)
    <3>1. v + (l + 1) - 1 = v + l
      BY <2>2
    <3> QED
      BY <1>1, <2>2, <3>1
  <2>4. P[a] \in Nat /\ P[l] \in Nat /\ v + l \in Nat /\ l \in a..a + (e + 1) - 1
    BY <1>1, <2>1, <2>2
  <2>5. PriceAt(table, v + l) \in Nat
    BY <2>4, PriceType
  <2>6. c * (e + 1) = c * e + c /\ c * e \in Nat
    OBVIOUS
  <2>7. a..a + e - 1 \subseteq a..a + (e + 1) - 1
    OBVIOUS
  <2>8. PICK ce, p : ce = c * e /\ p = PriceAt(table, v + l)
    OBVIOUS
  <2>9. P[l + 1] = P[l] + p /\ p \in Nat /\ ce \in Nat /\ c * (e + 1) = ce + c
    BY <2>3, <2>5, <2>6, <2>8
  <2>10. Cheap(e + 1)
    <3> SUFFICES ASSUME \A m \in a..a + (e + 1) - 1 : PriceAt(table, v + m) <= c
                 PROVE  P[l + 1] <= P[a] + (ce + c)
      BY <2>2, <2>9
    <3>1. P[l] <= P[a] + ce /\ p <= c
      BY <1>3, <2>1, <2>4, <2>7, <2>8
    <3> QED
      BY <2>4, <2>9, <3>1
  <2>11. Dear(e + 1)
    <3> SUFFICES ASSUME \A m \in a..a + (e + 1) - 1 : PriceAt(table, v + m) >= c
                 PROVE  P[l + 1] >= P[a] + (ce + c)
      BY <2>2, <2>9
    <3>1. P[l] >= P[a] + ce /\ p >= c
      BY <1>3, <2>1, <2>4, <2>7, <2>8
    <3> QED
      BY <2>4, <2>9, <3>1
  <2> QED
    BY <2>10, <2>11
<1> HIDE DEF S
<1>4. 0..d \subseteq S
  BY <1>2, <1>3, BoundedInduction
<1>5. d \in S
  BY <1>4
<1>6. Cheap(d) /\ Dear(d)
  BY <1>5 DEF S
<1> QED
  BY <1>6 DEF P

-----------------------------------------------------------------------------
(* What the loop charges *)

\* Later tiers do not cost less.
Dearer(table) == \A k \in 1..Len(table) - 1 : table[k].Cost <= table[k + 1].Cost

FewTiers == Cardinality(TiersTouched(boosts, current, wanted)) <= 2

\* What the first points of the boost cost one after the other.
Charge == StepwiseCosts(boosts, current, wanted)

\* The loop is before the tier of the current value, or has given its points
\* and is at the next tier, or has given them all.
Exact ==
    \E k \in 1..Len(boosts) :
        /\ InTier(boosts, k, current)
        /\ \/ add = 0 /\ cost = Charge[bonus]
           \/ i <= k /\ bonus = 0 /\ cost = 0
           \/ /\ i = k + 1 /\ i <= Len(boosts)
              /\ current + bonus = boosts[i].Quantity
              /\ cost = Charge[bonus]

\* The loop has passed the tiers below what it has reached.
Reached == add # 0 /\ i <= Len(boosts) => boosts[i].Quantity <= current + bonus

ChargeInv ==
    /\ Arguments /\ BonusBounded
    /\ i \in 1..Len(boosts) + 1
    /\ PointByPoint(boosts) =>
          /\ Reached
          /\ Dearer(boosts) => cost <= Charge[bonus]
          /\ FewTiers => Exact

\* The points of one tier, each for one point.
LEMMA PayOne ==
  ASSUME CalcBoostAssumption, Arguments, BonusBounded, PointByPoint(boosts), Pay
  PROVE  \E n \in Nat :
            /\ n <= add /\ add' = add - n /\ bonus' = bonus + n
            /\ cost' = cost + boosts[i].Cost * n
            /\ boosts[i].Cost \in Nat
            /\ \/ n = add /\ (i < Len(boosts) => current + add <= boosts[i + 1].Quantity)
               \/ /\ i < Len(boosts)
                  /\ current + n = boosts[i + 1].Quantity
                  /\ boosts[i + 1].Quantity < current + add
<1>1. /\ IsTable(boosts) /\ MaxInt \in Nat /\ Len(boosts) \in Nat
      /\ current \in Nat /\ add \in Nat /\ wanted \in Nat
      /\ current + add <= MaxInt /\ i \in 1..Len(boosts)
  <2>1. /\ IsTable(boosts) /\ MaxInt \in Nat /\ current \in Nat
        /\ wanted \in Nat /\ current + wanted <= MaxInt
    BY DEF CalcBoostAssumption, Arguments
  <2>2. Len(boosts) \in Nat
    BY <2>1 DEF IsTable
  <2> QED
    BY <2>1, <2>2 DEF Pay, Running, BonusBounded
<1>2. boosts[i].Bonus = 1 /\ boosts[i].Cost \in Nat
  BY <1>1, TierType DEF PointByPoint
<1>3. PICK n : n = amount(boosts, i, current, add)
  OBVIOUS
<1>4. /\ add' = add - boosts[i].Bonus * n
      /\ bonus' = bonus + boosts[i].Bonus * n
      /\ cost' = cost + boosts[i].Cost * n
      /\ ~ Passed(boosts, i, current)
  BY <1>3 DEF Pay
<1>5. n \in Nat /\ boosts[i].Bonus * n <= add
  BY <1>1, <1>3, <1>4, AmountBounded
<1>6. boosts[i].Bonus * n = n
  BY <1>2, <1>5
<1>7. PICK q : q = nextQuantity(boosts, i)
  OBVIOUS
<1>8. n = IF current + add > q THEN (q - current) \div 1 ELSE add \div 1
  BY <1>2, <1>3, <1>7 DEF amount
<1>9. CASE i < Len(boosts)
  <2>1. i + 1 \in 1..Len(boosts)
    BY <1>1, <1>9
  <2>2. q = boosts[i + 1].Quantity /\ q \in Nat /\ q > current
    BY <1>1, <1>4, <1>7, <1>9, <2>1, TierType DEF nextQuantity, Passed
  <2>3. (current + add > q => n = q - current) /\ (~ current + add > q => n = add)
    BY <1>1, <1>8, <2>2
  <2>4. \/ n = add /\ current + add <= q
        \/ current + n = q /\ q < current + add
    BY <1>1, <1>5, <2>2, <2>3
  <2> QED
    BY <1>2, <1>4, <1>5, <1>6, <1>9, <2>2, <2>4
<1>10. CASE ~ i < Len(boosts)
  <2>1. q = MaxInt
    BY <1>7, <1>10 DEF nextQuantity
  <2>2. n = add
    BY <1>1, <1>8, <2>1
  <2> QED
    BY <1>2, <1>4, <1>5, <1>6, <1>10, <2>2
<1> QED
  BY <1>9, <1>10

\* A later tier costs at least as much, and so does a value from it on.
LEMMA DearerCosts ==
  ASSUME NEW table, IsTable(table), Dearer(table),
         NEW j \in 1..Len(table), NEW k \in 1..Len(table), j <= k
  PROVE  table[j].Cost <= table[k].Cost
<1> DEFINE n == Len(table)
           f == [m \in 1..n |-> table[m].Cost]
<1>1. n \in Nat
  BY DEF IsTable
<1>2. \A m \in 1..n : f[m] \in Nat
  BY TierType
<1>3. \A m \in 1..n - 1 : f[m] <= f[m + 1]
  <2> SUFFICES ASSUME NEW m \in 1..n - 1 PROVE f[m] <= f[m + 1]
    OBVIOUS
  <2>1. m \in 1..n /\ m + 1 \in 1..n
    BY <1>1
  <2>2. table[m].Cost <= table[m + 1].Cost
    BY DEF Dearer
  <2> QED
    BY <2>1, <2>2
<1> HIDE DEF f
<1>4. \A l, m \in 1..n : l <= m => f[l] <= f[m]
  BY <1>1, <1>2, <1>3, Rising
<1> QED
  BY <1>4 DEF f

LEMMA DearerPrice ==
  ASSUME NEW table, IsTable(table), Dearer(table), NEW v \in Nat,
         NEW j \in 1..Len(table), table[j].Quantity <= v
  PROVE  PriceAt(table, v) >= table[j].Cost
<1>1. PICK k \in 1..Len(table) : InTier(table, k, v)
  BY SomeTier
<1>2. j <= k
  BY <1>1, TierFrom
<1>3. table[j].Cost <= table[k].Cost /\ table[j].Cost \in Nat /\ table[k].Cost \in Nat
  BY <1>2, DearerCosts, TierType
<1> QED
  BY <1>1, <1>3, PriceOfTier

\* A boost that begins in tier k and goes beyond tier k + 1 touches three.
LEMMA ThreeTiers ==
  ASSUME NEW table, IsTable(table), NEW v \in Nat, NEW n \in Nat,
         NEW k \in 1..Len(table), InTier(table, k, v),
         k + 1 < Len(table), table[k + 2].Quantity < v + n
  PROVE  ~ Cardinality(TiersTouched(table, v, n)) <= 2
<1> DEFINE T == TiersTouched(table, v, n)
<1>1. /\ Len(table) \in Nat
      /\ k + 1 \in 1..Len(table) /\ k + 2 \in 1..Len(table)
      /\ k < Len(table) /\ (k + 1) + 1 = k + 2
  <2>1. Len(table) \in Nat
    BY DEF IsTable
  <2> QED
    BY <2>1
<1>2. PICK a, b, c : a = table[k].Quantity /\ b = table[k + 1].Quantity
                     /\ c = table[k + 2].Quantity
  OBVIOUS
<1>3. a \in Nat /\ b \in Nat /\ c \in Nat /\ a <= v /\ v < b /\ b <= c /\ c < v + n
  BY <1>1, <1>2, TierType, TiersRise DEF InTier
<1>4. k \in T
  BY <1>1, <1>2, <1>3 DEF TiersTouched
<1>5. k + 1 \in T
  BY <1>1, <1>2, <1>3 DEF TiersTouched
<1>6. k + 2 \in T
  <2>1. k + 2 < Len(table) => v < table[(k + 2) + 1].Quantity
    <3> SUFFICES ASSUME k + 2 < Len(table) PROVE v < table[(k + 2) + 1].Quantity
      OBVIOUS
    <3>1. PICK l : l = (k + 2) + 1
      OBVIOUS
    <3>2. l \in 1..Len(table) /\ k + 2 <= l
      BY <1>1, <3>1
    <3>3. c <= table[l].Quantity /\ table[l].Quantity \in Nat
      BY <1>1, <1>2, <3>2, TiersRise, TierType
    <3> QED
      BY <1>3, <3>1, <3>3
  <2> QED
    BY <1>1, <1>2, <1>3, <2>1 DEF TiersTouched
<1>7. IsFiniteSet(T) /\ Cardinality(T) \in Nat
  <2>1. IsFiniteSet(1..Len(table))
    BY <1>1, FS_Interval
  <2>2. T \subseteq 1..Len(table)
    BY DEF TiersTouched
  <2> QED
    BY <2>1, <2>2, FS_Subset, FS_CardinalityType
<1>8. Cardinality(k..k + 2) = 3
  BY <1>1, FS_Interval
<1>9. k..k + 2 \subseteq T
  BY <1>1, <1>4, <1>5, <1>6
<1> QED
  BY <1>7, <1>8, <1>9, FS_Subset

LEMMA ChargeInit == ASSUME CalcBoostAssumption, Init PROVE ChargeInv
<1>1. Arguments /\ add = wanted /\ i = 1 /\ cost = 0 /\ bonus = 0
  BY DEF Init, Arguments
<1>2. /\ IsTable(boosts) /\ Len(boosts) \in Nat \ {0}
      /\ current \in Nat /\ wanted \in Nat
      /\ boosts[1].Quantity = 0
  BY <1>1, ArgumentsType DEF IsTable
<1>3. BonusBounded
  BY <1>1, <1>2 DEF BonusBounded
<1>4. Reached
  BY <1>1, <1>2 DEF Reached
<1>5. Charge[bonus] = 0
  BY <1>1, <1>2, Stepwise DEF Charge
<1>6. Exact
  <2>1. PICK k \in 1..Len(boosts) : InTier(boosts, k, current)
    BY <1>2, SomeTier
  <2> QED
    BY <1>1, <1>2, <2>1 DEF Exact
<1> QED
  BY <1>1, <1>2, <1>3, <1>4, <1>5, <1>6 DEF ChargeInv

\* The next tier is passed over: the loop has not come to the current value.
LEMMA ChargeSkip ==
  ASSUME CalcBoostAssumption, ChargeInv, PointByPoint(boosts), Skip
  PROVE  Reached' /\ (FewTiers => Exact')
<1>1. /\ IsTable(boosts) /\ MaxInt \in Nat /\ Len(boosts) \in Nat
      /\ current \in Nat /\ bonus \in Nat /\ i \in 1..Len(boosts)
  BY ArgumentsType DEF ChargeInv, BonusBounded, Skip, Running
<1>2. /\ i < Len(boosts) /\ i' = i + 1 /\ add # 0
      /\ boosts[i + 1].Quantity <= current
      /\ UNCHANGED <<boosts, current, wanted, add, cost, bonus>>
  BY DEF Skip, Running, Passed, nextQuantity
<1>3. i + 1 \in 1..Len(boosts) /\ boosts[i + 1].Quantity \in Nat
  BY <1>1, <1>2, TierType
<1>4. Reached'
  <2>1. boosts[i + 1].Quantity <= current + bonus
    BY <1>1, <1>2, <1>3
  <2> QED
    BY <1>2, <2>1 DEF Reached
<1>5. ASSUME FewTiers PROVE Exact'
  <2>1. PICK k \in 1..Len(boosts) :
           /\ InTier(boosts, k, current)
           /\ \/ add = 0 /\ cost = Charge[bonus]
              \/ i <= k /\ bonus = 0 /\ cost = 0
              \/ /\ i = k + 1 /\ i <= Len(boosts)
                 /\ current + bonus = boosts[i].Quantity
                 /\ cost = Charge[bonus]
    BY <1>5 DEF ChargeInv, Exact
  <2>2. i + 1 <= k
    BY <1>1, <1>2, <1>3, <2>1, TierFrom
  <2>3. bonus = 0 /\ cost = 0
    BY <1>1, <1>2, <2>1, <2>2
  <2>4. InTier(boosts, k, current)'
    BY <1>2, <2>1 DEF InTier
  <2> QED
    BY <1>2, <2>2, <2>3, <2>4 DEF Exact
<1> QED
  BY <1>4, <1>5

LEMMA ChargePay ==
  ASSUME CalcBoostAssumption, ChargeInv, PointByPoint(boosts), Pay
  PROVE  /\ Reached'
         /\ Dearer(boosts) => (cost <= Charge[bonus])'
         /\ FewTiers => Exact'
<1>1. /\ IsTable(boosts) /\ MaxInt \in Nat /\ Len(boosts) \in Nat
      /\ current \in Nat /\ wanted \in Nat /\ bonus \in Nat /\ cost \in Nat
      /\ add \in Nat /\ i \in 1..Len(boosts)
      /\ bonus + add = wanted /\ add # 0
  BY ArgumentsType DEF ChargeInv, BonusBounded, Pay, Running
<1>2. /\ i' = i + 1
      /\ UNCHANGED <<boosts, current, wanted>>
      /\ ~ Passed(boosts, i, current)
  BY DEF Pay
<1>3. PICK n \in Nat :
         /\ n <= add /\ add' = add - n /\ bonus' = bonus + n
         /\ cost' = cost + boosts[i].Cost * n
         /\ boosts[i].Cost \in Nat
         /\ \/ n = add /\ (i < Len(boosts) => current + add <= boosts[i + 1].Quantity)
            \/ /\ i < Len(boosts)
               /\ current + n = boosts[i + 1].Quantity
               /\ boosts[i + 1].Quantity < current + add
  BY PayOne DEF ChargeInv
<1>4. PICK c : c = boosts[i].Cost
  OBVIOUS
<1>5. c \in Nat /\ cost' = cost + c * n /\ c * n \in Nat /\ bonus + n <= wanted
  <2>1. c \in Nat /\ cost' = cost + c * n /\ n <= add
    BY <1>3, <1>4
  <2>2. c * n \in Nat
    BY <2>1
  <2>3. bonus + n <= wanted
    BY <1>1, <2>1
  <2> QED
    BY <2>1, <2>2, <2>3
<1>6. boosts[i].Quantity <= current + bonus
  BY <1>1 DEF ChargeInv, Reached
<1>7. boosts[i].Quantity \in Nat /\ (i < Len(boosts) => /\ i + 1 \in 1..Len(boosts)
                                                       /\ boosts[i + 1].Quantity \in Nat)
  BY <1>1, TierType
<1>8. Charge' = Charge /\ Charge \in [0..wanted -> Nat] /\ Charge[0] = 0
  <2>1. Charge' = Charge
    BY <1>2 DEF Charge
  <2>2. IsTable(boosts) /\ current \in Nat /\ wanted \in Nat
    BY <1>1
  <2>3. Charge \in [0..wanted -> Nat] /\ Charge[0] = 0
    BY <2>2, Stepwise DEF Charge
  <2> QED
    BY <2>1, <2>3
\* As many points at the price of this tier as it gives.
<1>9. ASSUME \A m \in bonus..bonus + n - 1 :
                i < Len(boosts) => current + m < boosts[i + 1].Quantity
      PROVE  Charge[bonus + n] = Charge[bonus] + c * n
  <2>1. ASSUME NEW m \in bonus..bonus + n - 1 PROVE PriceAt(boosts, current + m) = c
    <3>1. current + m \in Nat /\ boosts[i].Quantity <= current + m
      <4>1. m \in Nat /\ bonus <= m
        BY <1>1
      <4> QED
        BY <1>1, <1>6, <1>7, <4>1
    <3>2. InTier(boosts, i, current + m)
      BY <1>9, <3>1 DEF InTier
    <3> QED
      BY <1>1, <1>4, <3>1, <3>2, PriceOfTier
  <2>2. \A m \in bonus..bonus + n - 1 : /\ PriceAt(boosts, current + m) <= c
                                       /\ PriceAt(boosts, current + m) >= c
    BY <1>5, <2>1
  <2>3. Charge[bonus + n] >= Charge[bonus] + c * n
    BY <1>1, <1>5, <2>2, Stretch DEF Charge
  <2>4. Charge[bonus + n] <= Charge[bonus] + c * n
    BY <1>1, <1>5, <2>2, Stretch DEF Charge
  <2>5. Charge[bonus] \in Nat /\ Charge[bonus + n] \in Nat
    BY <1>1, <1>5, <1>8
  <2>6. PICK p, q, r : p = Charge[bonus] /\ q = Charge[bonus + n] /\ r = c * n
    OBVIOUS
  <2> QED
    BY <1>5, <2>3, <2>4, <2>5, <2>6
<1>10. Reached'
  <2>1. CASE n = add
    BY <1>1, <1>3, <2>1 DEF Reached
  <2>2. CASE n # add
    <3>1. boosts[i + 1].Quantity <= current + (bonus + n)
      BY <1>1, <1>3, <1>7, <2>2
    <3> QED
      BY <1>2, <1>3, <3>1 DEF Reached
  <2> QED
    BY <2>1, <2>2
<1>11. ASSUME Dearer(boosts) PROVE (cost <= Charge[bonus])'
  <2>1. ASSUME NEW m \in bonus..bonus + n - 1 PROVE PriceAt(boosts, current + m) >= c
    <3>1. current + m \in Nat /\ boosts[i].Quantity <= current + m
      <4>1. m \in Nat /\ bonus <= m
        BY <1>1
      <4> QED
        BY <1>1, <1>6, <1>7, <4>1
    <3> QED
      BY <1>1, <1>4, <1>11, <3>1, DearerPrice
  <2>2. Charge[bonus + n] >= Charge[bonus] + c * n
    BY <1>1, <1>5, <2>1, Stretch DEF Charge
  <2>3. cost <= Charge[bonus]
    BY <1>11 DEF ChargeInv
  <2>4. Charge[bonus] \in Nat /\ Charge[bonus + n] \in Nat
    BY <1>1, <1>5, <1>8
  <2>5. PICK p, q, r : p = Charge[bonus] /\ q = Charge[bonus + n] /\ r = c * n
    OBVIOUS
  <2>6. cost + r <= q
    BY <1>1, <1>5, <2>2, <2>3, <2>4, <2>5
  <2> QED
    BY <1>3, <1>5, <1>8, <2>5, <2>6
<1>12. ASSUME FewTiers PROVE Exact'
  <2>1. PICK k \in 1..Len(boosts) :
           /\ InTier(boosts, k, current)
           /\ \/ add = 0 /\ cost = Charge[bonus]
              \/ i <= k /\ bonus = 0 /\ cost = 0
              \/ /\ i = k + 1 /\ i <= Len(boosts)
                 /\ current + bonus = boosts[i].Quantity
                 /\ cost = Charge[bonus]
    BY <1>12 DEF ChargeInv, Exact
  <2>2. k' = k /\ InTier(boosts, k, current)'
    BY <1>2, <2>1 DEF InTier
  \* The tier of the current value.
  <2>3. CASE i <= k /\ bonus = 0 /\ cost = 0
    <3>1. i = k
      <4> SUFFICES ASSUME i < k PROVE FALSE
        BY <1>1, <2>3
      <4>1. i < Len(boosts) /\ boosts[i + 1].Quantity <= boosts[k].Quantity
        BY <1>1, TiersRise
      <4>2. boosts[k].Quantity <= current /\ boosts[k].Quantity \in Nat
        BY <1>1, <2>1, TierType DEF InTier
      <4>3. boosts[i + 1].Quantity <= current
        BY <1>1, <1>7, <4>1, <4>2
      <4> QED
        BY <1>2, <4>1, <4>3 DEF Passed, nextQuantity
    <3>2. \A m \in bonus..bonus + n - 1 :
             i < Len(boosts) => current + m < boosts[i + 1].Quantity
      BY <1>1, <1>3, <1>7, <2>3
    <3>3. cost' = Charge[bonus + n]
      BY <1>5, <1>8, <1>9, <2>3, <3>2
    <3>4. CASE n = add
      <4>1. add' = 0 /\ cost' = Charge'[bonus']
        BY <1>1, <1>3, <1>8, <3>3, <3>4
      <4> QED
        BY <1>2, <2>1, <2>2, <4>1 DEF Exact
    <3>5. CASE n # add
      <4>1. i' = k + 1 /\ i' <= Len(boosts) /\ current + n = boosts[i + 1].Quantity
        BY <1>1, <1>2, <1>3, <3>1, <3>5
      <4>2. (current + bonus = boosts[i].Quantity)'
        BY <1>1, <1>2, <1>3, <2>3, <4>1
      <4>3. (cost = Charge[bonus])'
        BY <1>3, <1>8, <3>3
      <4> QED
        BY <1>2, <2>1, <2>2, <4>1, <4>2, <4>3 DEF Exact
    <3> QED
      BY <3>4, <3>5
  \* The tier after it, which is the last that the boost touches.
  <2>4. CASE /\ i = k + 1 /\ i <= Len(boosts)
             /\ current + bonus = boosts[i].Quantity
             /\ cost = Charge[bonus]
    <3>1. i < Len(boosts) => current + wanted <= boosts[i + 1].Quantity
      <4> SUFFICES ASSUME i < Len(boosts), boosts[i + 1].Quantity < current + wanted
                   PROVE  FALSE
        BY <1>1, <1>7
      <4>1. i + 1 = k + 2 /\ k + 1 < Len(boosts)
        BY <1>1, <2>4
      <4> QED
        BY <1>1, <1>12, <2>1, <4>1, ThreeTiers DEF FewTiers
    <3>2. n = add
      BY <1>1, <1>3, <1>7, <3>1
    <3>3. \A m \in bonus..bonus + n - 1 :
             i < Len(boosts) => current + m < boosts[i + 1].Quantity
      BY <1>1, <1>3, <1>7, <3>1, <3>2
    <3>4. cost' = Charge[bonus + n]
      BY <1>5, <1>9, <2>4, <3>3
    <3>5. add' = 0 /\ cost' = Charge'[bonus']
      BY <1>1, <1>3, <1>8, <3>2, <3>4
    <3> QED
      BY <1>2, <2>1, <2>2, <3>5 DEF Exact
  <2> QED
    BY <1>1, <2>1, <2>3, <2>4
<1> QED
  BY <1>10, <1>11, <1>12

LEMMA ChargeStep == ASSUME CalcBoostAssumption, ChargeInv, [Next]_vars PROVE ChargeInv'
<1>1. Arguments' /\ BonusBounded'
  BY BonusStep DEF ChargeInv
<1>2. CASE UNCHANGED vars
  BY <1>2 DEF vars, ChargeInv, Arguments, BonusBounded, Reached, Exact, Charge,
     FewTiers
<1>3. CASE Next
  <2>1. /\ i \in 1..Len(boosts) /\ Len(boosts) \in Nat /\ i' = i + 1
        /\ UNCHANGED <<boosts, current, wanted>>
    BY <1>3, ArgumentsType DEF ChargeInv, Next, Skip, Pay, Running
  <2>2. (i \in 1..Len(boosts) + 1)'
    BY <2>1
  <2>3. Charge' = Charge /\ FewTiers' = FewTiers
    BY <2>1 DEF Charge, FewTiers
  <2>4. ASSUME PointByPoint(boosts)
        PROVE  /\ Reached'
               /\ Dearer(boosts) => (cost <= Charge[bonus])'
               /\ FewTiers => Exact'
    <3>1. CASE Skip
      <4>1. Dearer(boosts) => cost <= Charge[bonus]
        BY <2>4 DEF ChargeInv
      <4> QED
        BY <2>3, <2>4, <3>1, <4>1, ChargeSkip DEF Skip
    <3>2. CASE Pay
      BY <2>4, <3>2, ChargePay
    <3> QED
      BY <1>3, <3>1, <3>2 DEF Next
  <2> QED
    BY <1>1, <2>1, <2>2, <2>3, <2>4 DEF ChargeInv
<1> QED
  BY <1>2, <1>3

\* For every table, value and amount: a boost is charged no more than its
\* points one after the other where later tiers do not cost less, and exactly
\* that if it crosses at most one border.
THEOREM AlwaysChargedFairly == ASSUME CalcBoostAssumption PROVE Spec => []ChargedFairly
<1>1. ChargeInv => ChargedFairly
  <2> SUFFICES ASSUME ChargeInv, PointByPoint(boosts)
               PROVE  /\ ~ Running /\ FewTiers => cost = Charge[wanted]
                      /\ Dearer(boosts) => cost <= Charge[wanted]
    BY DEF ChargedFairly, FewTiers, Dearer, Charge, StepwiseCost
  <2>1. /\ IsTable(boosts) /\ Len(boosts) \in Nat
        /\ current \in Nat /\ wanted \in Nat /\ bonus \in Nat /\ add \in Nat
        /\ cost \in Nat /\ bonus + add = wanted /\ i \in 1..Len(boosts) + 1
    BY ArgumentsType DEF ChargeInv, BonusBounded
  <2>2. ASSUME ~ Running, FewTiers PROVE cost = Charge[wanted]
    <3>1. PICK k \in 1..Len(boosts) :
             \/ add = 0 /\ cost = Charge[bonus]
             \/ i <= k /\ bonus = 0 /\ cost = 0
             \/ i = k + 1 /\ i <= Len(boosts) /\ cost = Charge[bonus]
      BY <2>2 DEF ChargeInv, Exact
    <3>2. add = 0
      BY <2>1, <2>2, <3>1 DEF Running
    <3>3. bonus = wanted
      BY <2>1, <3>2
    <3>4. bonus # 0
      BY <3>3 DEF CalcBoostAssumption, ChargeInv, Arguments
    <3>5. cost = Charge[bonus]
      BY <3>1, <3>4
    <3> QED
      BY <3>3, <3>5
  <2>3. ASSUME Dearer(boosts) PROVE cost <= Charge[wanted]
    <3>1. cost <= Charge[bonus]
      BY <2>3 DEF ChargeInv
    <3>2. ASSUME NEW m \in bonus..bonus + add - 1
          PROVE  PriceAt(boosts, current + m) >= 0
      <4>1. m \in Nat
        BY <2>1
      <4>2. current + m \in Nat
        BY <2>1, <4>1
      <4>3. PriceAt(boosts, current + m) \in Nat
        BY <2>1, <4>2, PriceType
      <4> QED
        BY <4>3
    <3>3. bonus + add <= wanted /\ 0 \in Nat
      BY <2>1
    <3>4. Charge[bonus + add] >= Charge[bonus] + 0 * add
      BY <2>1, <3>2, <3>3, Stretch DEF Charge
    <3>5. Charge \in [0..wanted -> Nat]
      BY <2>1, Stepwise DEF Charge
    <3>6. Charge[bonus] \in Nat /\ Charge[wanted] \in Nat /\ 0 * add = 0
      BY <2>1, <3>5
    <3> QED
      BY <2>1, <3>1, <3>4, <3>6
  <2> QED
    BY <2>2, <2>3
<1> QED
  BY <1>1, ChargeInit, ChargeStep, PTL DEF Spec
=============================================================================
