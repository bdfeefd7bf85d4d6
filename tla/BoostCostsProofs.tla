-------------------------- MODULE BoostCostsProofs --------------------------
(***************************************************************************)
(* What calcBoost gives for every table and every amount.  It is a         *)
(* recursive function, so what it is worth is proved by induction over the *)
(* tiers; the induction is over a set of numbers, which the provers can    *)
(* instantiate, and not over a predicate.                                  *)
(***************************************************************************)
EXTENDS BoostCosts, WellFoundedInduction, TLAPS

-----------------------------------------------------------------------------
(* Induction over a set of numbers, and the functions it defines *)

Less == OpToRel(<, Nat)

LEMMA LessWellFounded == IsWellFoundedOn(Less, Nat)
BY NatLessThanWellFounded DEF Less

LEMMA LessIsLess == \A m, n \in Nat : <<m, n>> \in Less <=> m < n
BY DEF Less, OpToRel

\* A set that has zero and with each number the next one has them all.
LEMMA Induction ==
  ASSUME NEW S, 0 \in S, \A n \in Nat : n \in S => n + 1 \in S
  PROVE  Nat \subseteq S
<1> DEFINE T == Nat \ S
<1> SUFFICES ASSUME T # {} PROVE FALSE
  OBVIOUS
<1>1. T \subseteq Nat
  OBVIOUS
<1> HIDE DEF T
<1>2. PICK x \in T : \A y \in T : ~ (<<y, x>> \in Less)
  BY <1>1, LessWellFounded, WFMin
<1>3. x \in Nat /\ x \notin S
  BY <1>2 DEF T
<1>4. x - 1 \in Nat /\ x - 1 < x
  BY <1>3
<1>5. x - 1 \in S
  BY <1>2, <1>3, <1>4, LessIsLess DEF T
<1> QED
  BY <1>3, <1>4, <1>5

\* A property of the numbers up to a bound.
LEMMA BoundedInduction ==
  ASSUME NEW n \in Nat, NEW S, 0 \in S,
         \A k \in 0..n - 1 : k \in S => k + 1 \in S
  PROVE  0..n \subseteq S
<1> DEFINE U == S \cup {k \in Nat : k > n}
<1>1. 0 \in U
  OBVIOUS
<1>2. ASSUME NEW k \in Nat, k \in U PROVE k + 1 \in U
  BY <1>2
<1> HIDE DEF U
<1>3. Nat \subseteq U
  BY <1>1, <1>2, Induction
<1> QED
  BY <1>3 DEF U

\* f is what a recursion over the numbers up to m defines.
Recursion(f, m, D, base, step) ==
    /\ f \in [0..m -> D]
    /\ f[0] = base
    /\ \A k \in 1..m : f[k] = step[<<k, f[k - 1]>>]

\* There is such a function.
LEMMA RecursionExists ==
  ASSUME NEW n \in Nat, NEW D, NEW base \in D,
         NEW step \in [(1..n) \X D -> D]
  PROVE  \E f : Recursion(f, n, D, base, step)
<1> DEFINE Prefix(m, f) == Recursion(f, m, D, base, step)
           S == {m \in 0..n : \E f : Prefix(m, f)}
<1>1. 0 \in S
  <2>1. PICK f : f = [k \in 0..0 |-> base]
    OBVIOUS
  <2>2. Prefix(0, f)
    BY <2>1 DEF Recursion
  <2> QED
    BY <2>2
<1>2. ASSUME NEW m \in 0..n - 1, m \in S PROVE m + 1 \in S
  <2>1. PICK f : Prefix(m, f)
    BY <1>2
  <2>2. PICK g : g = [k \in 0..m + 1 |-> IF k = m + 1 THEN step[<<k, f[m]>>] ELSE f[k]]
    OBVIOUS
  <2>3. /\ m \in 0..m /\ f[m] \in D
        /\ m + 1 \in 1..n /\ step[<<m + 1, f[m]>>] \in D
    BY <2>1 DEF Recursion
  <2>4. g \in [0..m + 1 -> D]
    BY <2>1, <2>2, <2>3 DEF Recursion
  <2>5. g[0] = base
    BY <2>1, <2>2 DEF Recursion
  <2>6. ASSUME NEW k \in 1..m + 1 PROVE g[k] = step[<<k, g[k - 1]>>]
    <3>1. CASE k = m + 1
      BY <2>2, <3>1
    <3>2. CASE k # m + 1
      <4>1. k \in 1..m /\ k - 1 \in 0..m /\ k - 1 # m + 1 /\ k \in 0..m + 1
            /\ k - 1 \in 0..m + 1
        BY <3>2
      <4>2. g[k] = f[k] /\ g[k - 1] = f[k - 1]
        BY <2>2, <3>2, <4>1
      <4> QED
        BY <2>1, <4>1, <4>2 DEF Recursion
    <3> QED
      BY <3>1, <3>2
  <2>7. Prefix(m + 1, g)
    BY <2>4, <2>5, <2>6 DEF Recursion
  <2> QED
    BY <2>7
<1> HIDE DEF S
<1>3. 0..n \subseteq S
  BY <1>1, <1>2, BoundedInduction
<1>4. n \in S
  BY <1>3
<1> QED
  BY <1>4 DEF S

-----------------------------------------------------------------------------
(* One tier *)

\* Dividing and multiplying back loses the remainder and no more.
LEMMA DivisionRounds ==
  ASSUME NEW a \in Nat, NEW b \in Nat \ {0}
  PROVE  a \div b \in Nat /\ b * (a \div b) <= a
  OBVIOUS

\* The fields of a tier.
LEMMA TierType ==
  ASSUME NEW table, IsTable(table), NEW k \in 1..Len(table)
  PROVE  /\ Len(table) \in Nat \ {0}
         /\ table[k].Quantity \in Nat
         /\ table[k].Cost \in Nat \ {0}
         /\ table[k].Bonus \in Nat \ {0}
<1> DEFINE Tier == [Quantity : Nat, Cost : Nat \ {0}, Bonus : Nat \ {0}]
<1> HIDE DEF Tier
<1>1. table \in Seq(Tier) /\ Len(table) > 0
  BY DEF IsTable, Tier
<1>2. table[k] \in Tier /\ Len(table) \in Nat
  BY <1>1
<1> QED
  BY <1>1, <1>2 DEF Tier

\* A tier that is not passed is entered at most as deep as what is left.
LEMMA AmountBounded ==
  ASSUME MaxInt \in Nat, NEW table, IsTable(table), NEW k \in 1..Len(table),
         NEW cur \in Nat, NEW left \in Nat, cur + left <= MaxInt,
         ~ Passed(table, k, cur)
  PROVE  /\ amount(table, k, cur, left) \in Nat
         /\ table[k].Bonus * amount(table, k, cur, left) \in Nat
         /\ table[k].Bonus * amount(table, k, cur, left) <= left
<1> DEFINE b == table[k].Bonus
           next == nextQuantity(table, k)
           n == amount(table, k, cur, left)
<1>1. b \in Nat \ {0} /\ Len(table) \in Nat
  BY TierType
<1>2. CASE cur + left > next
  <2>1. k < Len(table) /\ next = table[k + 1].Quantity
    BY <1>2 DEF nextQuantity
  <2>2. next \in Nat /\ cur < next
    <3>1. k + 1 \in 1..Len(table)
      BY <1>1, <2>1
    <3>2. next \in Nat
      BY <2>1, <3>1, TierType
    <3> QED
      BY <2>1, <3>2 DEF Passed
  <2> DEFINE room == next - cur
  <2>3. n = room \div b
    BY <1>2 DEF amount
  <2> HIDE DEF b, next, n
  <2>4. room \in Nat /\ room < left
    BY <1>2, <2>2
  <2> HIDE DEF room
  <2>5. n \in Nat /\ b * n <= room
    BY <1>1, <2>3, <2>4, DivisionRounds
  <2> DEFINE given == b * n
  <2>6. given \in Nat
    BY <1>1, <2>5
  <2>7. given <= room
    BY <2>5
  <2> HIDE DEF given
  <2>8. given <= left
    BY <2>4, <2>6, <2>7
  <2> QED
    BY <2>5, <2>6, <2>8, Zenon DEF b, n, given
<1>3. CASE ~ (cur + left > next)
  <2>1. n = left \div b
    BY <1>3 DEF amount
  <2> HIDE DEF b, n
  <2>2. n \in Nat /\ b * n <= left
    BY <1>1, <2>1, DivisionRounds
  <2>3. b * n \in Nat
    BY <1>1, <2>2
  <2> QED
    BY <2>2, <2>3, Zenon DEF b, n
<1> QED
  BY <1>2, <1>3

-----------------------------------------------------------------------------
(* The whole loop *)

Tally == [add : Int, cost : Int, bonus : Int]

\* A tier gives numbers, whatever they are.
LEMMA TierTally ==
  ASSUME MaxInt \in Nat, NEW table, IsTable(table), NEW k \in 1..Len(table),
         NEW cur \in Nat, NEW was \in Tally
  PROVE  afterTier(table, k, cur, was) \in Tally
<1> DEFINE n == amount(table, k, cur, was.add)
<1>1. table[k].Bonus \in Nat \ {0} /\ table[k].Cost \in Nat
  BY TierType
<1>2. nextQuantity(table, k) \in Nat
  <2>1. k < Len(table) => k + 1 \in 1..Len(table)
    BY TierType
  <2> QED
    BY <2>1, TierType DEF nextQuantity
<1>3. n \in Int
  BY <1>1, <1>2 DEF amount, Tally
<1> HIDE DEF n
<1>4. table[k].Bonus * n \in Int /\ table[k].Cost * n \in Int
  BY <1>1, <1>3
<1> QED
  BY <1>4 DEF n, afterTier, Tally

\* The recursion of afterTiers, written out.
LEMMA AfterTiers ==
  ASSUME MaxInt \in Nat, NEW table, IsTable(table), NEW cur \in Nat,
         NEW w \in Nat
  PROVE  /\ afterTiers(cur, w, table) \in [0..Len(table) -> Tally]
         /\ afterTiers(cur, w, table)[0] = [add |-> w, cost |-> 0, bonus |-> 0]
         /\ \A k \in 1..Len(table) :
               afterTiers(cur, w, table)[k] =
                  afterTier(table, k, cur, afterTiers(cur, w, table)[k - 1])
<1> DEFINE n == Len(table)
           start == [add |-> w, cost |-> 0, bonus |-> 0]
           step == [p \in (1..n) \X Tally |-> afterTier(table, p[1], cur, p[2])]
           Unfold(f) == [k \in 0..n |-> IF k = 0 THEN start
                                       ELSE afterTier(table, k, cur, f[k - 1])]
<1>1. n \in Nat
  BY DEF IsTable
<1>2. start \in Tally
  BY DEF Tally
<1>3. step \in [(1..n) \X Tally -> Tally]
  BY TierTally
<1>4. PICK f : Recursion(f, n, Tally, start, step)
  <2> HIDE DEF step, n, start
  <2> QED
    BY <1>1, <1>2, <1>3, RecursionExists
<1>5. \A k \in 1..n : f[k] = afterTier(table, k, cur, f[k - 1])
  <2> SUFFICES ASSUME NEW k \in 1..n PROVE f[k] = afterTier(table, k, cur, f[k - 1])
    OBVIOUS
  <2>1. <<k, f[k - 1]>> \in (1..n) \X Tally
    BY <1>1, <1>4 DEF Recursion
  <2> QED
    BY <1>4, <2>1 DEF Recursion
<1>6. f = Unfold(f)
  BY <1>1, <1>4, <1>5 DEF Recursion
<1>7. afterTiers(cur, w, table) = CHOOSE g : g = Unfold(g)
  BY DEF afterTiers
<1> DEFINE g == afterTiers(cur, w, table)
<1>8. g = Unfold(g)
  BY <1>6, <1>7
<1>9. ASSUME NEW k \in 1..n PROVE g[k] = afterTier(table, k, cur, g[k - 1])
  <2>1. k \in 0..n /\ k # 0
    BY <1>1
  <2> QED
    BY <1>8, <2>1
<1>10. g[0] = start
  BY <1>1, <1>8
<1>11. g \in [0..n -> Tally]
  <2> DEFINE S == {k \in 0..n : g[k] \in Tally}
  <2>1. 0 \in S
    BY <1>1, <1>2, <1>10
  <2>2. ASSUME NEW k \in 0..n - 1, k \in S PROVE k + 1 \in S
    <3>1. k + 1 \in 1..n /\ k + 1 \in 0..n /\ (k + 1) - 1 = k
      BY <1>1
    <3>2. g[k + 1] = afterTier(table, k + 1, cur, g[k])
      BY <1>9, <3>1
    <3> QED
      BY <2>2, <3>1, <3>2, TierTally
  <2> HIDE DEF S
  <2>3. 0..n \subseteq S
    BY <1>1, <2>1, <2>2, BoundedInduction
  <2> QED
    BY <1>8, <2>3 DEF S
<1> QED
  BY <1>9, <1>10, <1>11

\* One more tier.
LEMMA NextTier ==
  ASSUME MaxInt \in Nat, NEW table, IsTable(table), NEW cur \in Nat,
         NEW w \in Nat, NEW k \in 0..Len(table) - 1
  PROVE  afterTiers(cur, w, table)[k + 1] =
            afterTier(table, k + 1, cur, afterTiers(cur, w, table)[k])
<1> DEFINE f == afterTiers(cur, w, table)
<1>1. PICK m : m = k + 1
  OBVIOUS
<1>2. m \in 1..Len(table) /\ m - 1 = k
  BY <1>1 DEF IsTable
<1> HIDE DEF f
<1>3. f[m] = afterTier(table, m, cur, f[m - 1])
  BY <1>2, AfterTiers DEF f
<1>4. f[m] = afterTier(table, m, cur, f[k])
  BY <1>2, <1>3
<1> QED
  BY <1>1, <1>4 DEF f

\* Once there is nothing left to add, the other tiers change nothing.
LEMMA NothingLeft ==
  ASSUME MaxInt \in Nat, NEW table, IsTable(table), NEW cur \in Nat,
         NEW w \in Nat, NEW k \in 0..Len(table),
         afterTiers(cur, w, table)[k].add = 0
  PROVE  calcBoost(cur, w, table) = afterTiers(cur, w, table)[k]
<1> DEFINE n == Len(table)
           f == afterTiers(cur, w, table)
           S == {m \in 0..n : k <= m => f[m] = f[k]}
<1>1. n \in Nat
  BY DEF IsTable
<1>2. 0 \in S
  BY <1>1
<1>3. ASSUME NEW m \in 0..n - 1, m \in S PROVE m + 1 \in S
  <2>1. m + 1 \in 0..n
    BY <1>1
  <2>2. f[m + 1] = afterTier(table, m + 1, cur, f[m])
    BY NextTier
  <2>3. f[m].add = 0 => f[m + 1] = f[m]
    BY <2>2 DEF afterTier
  <2> QED
    BY <1>1, <1>3, <2>1, <2>3
<1> HIDE DEF S
<1>4. 0..n \subseteq S
  BY <1>1, <1>2, <1>3, BoundedInduction
<1> QED
  BY <1>1, <1>4 DEF S, calcBoost

\* What the provers need to know of products.
LEMMA TimesMonotone ==
  ASSUME NEW a \in Nat, NEW b \in Nat, NEW n \in Nat, a <= b
  PROVE  a * n <= b * n /\ a * n \in Nat /\ b * n \in Nat
<1>1. a * n \in Nat /\ b * n \in Nat /\ (b - a) * n \in Nat
  OBVIOUS
<1>2. b * n - a * n = (b - a) * n
  OBVIOUS
<1> QED
  BY <1>1, <1>2

LEMMA TimesNat ==
  ASSUME NEW n \in Nat, NEW a \in Nat, NEW b \in Nat
  PROVE  n * a \in Nat /\ n * a = a * n /\ n * (a + b) = n * a + n * b
OBVIOUS

\* What a tier gives is at most rate times what it costs, for the highest rate.
LEMMA PaidAtRate ==
  ASSUME NEW b \in Nat, NEW c \in Nat \ {0}, NEW n \in Nat, NEW rate \in Nat,
         b <= rate
  PROVE  b * n <= rate * (c * n) /\ c * n \in Nat /\ rate * (c * n) \in Nat
<1>1. b * n <= rate * n /\ rate * n \in Nat /\ b * n \in Nat
  BY TimesMonotone
<1>2. n <= c * n /\ c * n \in Nat
  BY TimesMonotone, 1 <= c, 1 * n = n
<1> DEFINE m == c * n
<1> HIDE DEF m
<1>3. rate * n <= rate * m /\ rate * m \in Nat
  <2>1. n * rate <= m * rate /\ m * rate \in Nat
    BY <1>2, TimesMonotone DEF m
  <2> QED
    BY <1>2, <2>1 DEF m
<1> QED
  BY <1>1, <1>2, <1>3 DEF m

\* What is left, paid and given after some tiers: it adds up to what was
\* asked for, and each point paid gave at most the highest rate.
Fair(was, w, rate) ==
    /\ was \in [add : Nat, cost : Nat, bonus : Nat]
    /\ was.bonus + was.add = w
    /\ was.bonus <= rate * was.cost

LEMMA TierFair ==
  ASSUME MaxInt \in Nat, NEW table, IsTable(table), NEW k \in 1..Len(table),
         NEW cur \in Nat, NEW w \in Nat, cur + w <= MaxInt,
         NEW rate \in Nat, \A j \in 1..Len(table) : table[j].Bonus <= rate,
         NEW was, Fair(was, w, rate)
  PROVE  Fair(afterTier(table, k, cur, was), w, rate)
<1> DEFINE n == amount(table, k, cur, was.add)
           b == table[k].Bonus
           c == table[k].Cost
<1>1. CASE was.add = 0 \/ Passed(table, k, cur)
  BY <1>1 DEF afterTier
<1>2. CASE ~ (was.add = 0 \/ Passed(table, k, cur))
  <2>1. /\ was \in [add : Nat, cost : Nat, bonus : Nat]
        /\ was.bonus + was.add = w /\ was.bonus <= rate * was.cost
        /\ was.add \in Nat /\ was.cost \in Nat /\ was.bonus \in Nat
    BY DEF Fair
  <2>2. b \in Nat /\ c \in Nat \ {0} /\ b <= rate
    BY TierType
  <2>3. n \in Nat /\ b * n \in Nat /\ b * n <= was.add
    BY <1>2, <2>1, AmountBounded
  <2>4. afterTier(table, k, cur, was) =
          [add |-> was.add - b * n, cost |-> was.cost + c * n,
           bonus |-> was.bonus + b * n]
    BY <1>2 DEF afterTier
  <2> HIDE DEF n, b, c
  <2>5. c * n \in Nat /\ b * n <= rate * (c * n) /\ rate * (c * n) \in Nat
    BY <2>2, <2>3, PaidAtRate
  <2> DEFINE given == b * n
             paid == c * n
  <2> HIDE DEF given, paid
  <2>6. rate * was.cost \in Nat /\ rate * (was.cost + paid) = rate * was.cost + rate * paid
    BY <2>1, <2>5 DEF paid
  <2>7. /\ given \in Nat /\ paid \in Nat /\ given <= was.add
        /\ given <= rate * paid /\ rate * paid \in Nat
    BY <2>3, <2>5 DEF given, paid
  <2>8. PICK now : now = [add |-> was.add - given, cost |-> was.cost + paid,
                          bonus |-> was.bonus + given]
    OBVIOUS
  <2>9. /\ now.add = was.add - given /\ now.cost = was.cost + paid
        /\ now.bonus = was.bonus + given
        /\ now \in [add : Nat, cost : Nat, bonus : Nat]
    BY <2>1, <2>7, <2>8
  <2>10. now.bonus <= rate * was.cost + rate * paid
    <3> DEFINE before == rate * was.cost
               more == rate * paid
    <3>1. was.bonus <= before /\ given <= more /\ before \in Nat /\ more \in Nat
      BY <2>1, <2>6, <2>7
    <3> HIDE DEF before, more
    <3>2. now.bonus <= before + more
      BY <2>1, <2>7, <2>9, <3>1
    <3> QED
      BY <3>2 DEF before, more
  <2>11. Fair(now, w, rate)
    BY <2>1, <2>6, <2>7, <2>9, <2>10 DEF Fair
  <2> QED
    BY <2>4, <2>8, <2>11 DEF given, paid
<1> QED
  BY <1>1, <1>2

\* calcBoost gives no more than was asked for, and nothing that is not paid.
LEMMA BoostFair ==
  ASSUME MaxInt \in Nat, NEW table, IsTable(table), NEW cur \in Nat,
         NEW w \in Nat, cur + w <= MaxInt,
         NEW rate \in Nat, \A j \in 1..Len(table) : table[j].Bonus <= rate
  PROVE  Fair(calcBoost(cur, w, table), w, rate)
<1> DEFINE n == Len(table)
           f == afterTiers(cur, w, table)
           S == {k \in 0..n : Fair(f[k], w, rate)}
<1>1. n \in Nat
  BY DEF IsTable
<1>2. 0 \in S
  <2>1. PICK was : was = [add |-> w, cost |-> 0, bonus |-> 0]
    OBVIOUS
  <2>2. rate * 0 = 0
    OBVIOUS
  <2>3. Fair(was, w, rate)
    BY <2>1, <2>2 DEF Fair
  <2>4. f[0] = was
    BY <2>1, AfterTiers
  <2> QED
    BY <1>1, <2>3, <2>4
<1>3. ASSUME NEW k \in 0..n - 1, k \in S PROVE k + 1 \in S
  <2>1. k + 1 \in 1..n /\ k + 1 \in 0..n
    BY <1>1
  <2>2. f[k + 1] = afterTier(table, k + 1, cur, f[k])
    BY NextTier
  <2> QED
    BY <1>3, <2>1, <2>2, TierFair
<1> HIDE DEF S
<1>4. 0..n \subseteq S
  BY <1>1, <1>2, <1>3, BoundedInduction
<1> QED
  BY <1>1, <1>4 DEF S, calcBoost

\* A table has a tier that gives the most.
LEMMA HighestRate ==
  ASSUME NEW table, IsTable(table)
  PROVE  \E k \in 1..Len(table) :
            \A j \in 1..Len(table) : table[j].Bonus <= table[k].Bonus
<1> DEFINE n == Len(table)
           S == {m \in 0..n : m = 0 \/ \E k \in 1..m : \A j \in 1..m :
                                  table[j].Bonus <= table[k].Bonus}
<1>1. n \in Nat \ {0}
  BY DEF IsTable
<1>2. 0 \in S
  BY <1>1
<1>3. ASSUME NEW m \in 0..n - 1, m \in S PROVE m + 1 \in S
  <2>1. m + 1 \in 1..n /\ m \in Nat /\ table[m + 1].Bonus \in Nat
    BY <1>1, TierType
  <2> SUFFICES \E k \in 1..m + 1 : \A j \in 1..m + 1 :
                  table[j].Bonus <= table[k].Bonus
    BY <1>1
  <2>2. CASE m = 0
    BY <2>1, <2>2
  <2>3. CASE m # 0
    <3>1. PICK k \in 1..m : \A j \in 1..m : table[j].Bonus <= table[k].Bonus
      BY <1>3, <2>3
    <3>2. table[k].Bonus \in Nat /\ \A j \in 1..m : table[j].Bonus \in Nat
      BY <1>1, <2>1, TierType
    <3>3. \A j \in 1..m + 1 : j \in 1..m \/ j = m + 1
      BY <2>1
    <3>4. CASE table[k].Bonus <= table[m + 1].Bonus
      <4>1. \A j \in 1..m + 1 : table[j].Bonus <= table[m + 1].Bonus
        BY <2>1, <3>1, <3>2, <3>3, <3>4
      <4>2. m + 1 \in 1..m + 1
        BY <2>1
      <4> QED
        BY <4>1, <4>2
    <3>5. CASE table[m + 1].Bonus <= table[k].Bonus
      <4>1. \A j \in 1..m + 1 : table[j].Bonus <= table[k].Bonus
        BY <3>1, <3>3, <3>5
      <4>2. k \in 1..m + 1
        BY <2>1
      <4> QED
        BY <4>1, <4>2
    <3>6. \/ table[k].Bonus <= table[m + 1].Bonus
          \/ table[m + 1].Bonus <= table[k].Bonus
      BY <2>1, <3>2
    <3> QED
      BY <3>4, <3>5, <3>6
  <2> QED
    BY <2>2, <2>3
<1> HIDE DEF S
<1>4. 0..n \subseteq S
  BY <1>1, <1>2, <1>3, BoundedInduction
<1> QED
  BY <1>1, <1>4 DEF S
=============================================================================
