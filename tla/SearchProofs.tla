---------------------------- MODULE SearchProofs ----------------------------
(***************************************************************************)
(* Proofs about PathSearch for areas of any size: the search of AStar      *)
(* comes to an end, and what it returns is a shortest way, or nothing if   *)
(* there is no way at all.                                                 *)
(***************************************************************************)
EXTENDS PathSearch, FiniteSetTheorems, TLAPS

-----------------------------------------------------------------------------
(* Natural numbers and recursive functions.                                *)

Smaller == {p \in Nat \X Nat : p[1] < p[2]}

\* A set of natural numbers that is not empty has a least element.
LEMMA LeastOf ==
    ASSUME NEW T \in SUBSET Nat, T # {}
    PROVE  \E m \in T : \A k \in T : m <= k
  <1>1. IsWellFoundedOn(OpToRel(<, Nat), Nat)
    BY NatLessThanWellFounded
  <1>2. Smaller = OpToRel(<, Nat)
    BY DEF OpToRel, Smaller
  <1>3. IsWellFoundedOn(Smaller, Nat)
    BY <1>1, <1>2
  <1>4. \E m \in T : \A k \in T : ~ (<<k, m>> \in Smaller)
    BY <1>3, WFMin
  <1>5. ASSUME NEW m \in T, NEW k \in T, ~ (<<k, m>> \in Smaller) PROVE m <= k
    BY <1>5 DEF Smaller
  <1> QED
    BY <1>4, <1>5

\* Induction over the natural numbers, said of a set.
LEMMA Induct ==
    ASSUME NEW T \in SUBSET Nat, 0 \in T, \A k \in T : k + 1 \in T
    PROVE  T = Nat
  <1> SUFFICES ASSUME T # Nat PROVE FALSE
    OBVIOUS
  <1> DEFINE rest == Nat \ T
  <1>1. rest \in SUBSET Nat /\ rest # {}
    OBVIOUS
  <1> HIDE DEF rest
  <1>2. PICK m \in rest : \A k \in rest : m <= k
    BY <1>1, LeastOf
  <1>3. m \in Nat /\ m # 0 /\ m \notin T
    BY <1>2 DEF rest
  <1>4. m - 1 \in Nat /\ ~ (m <= m - 1)
    BY <1>3
  <1>5. m - 1 \in T
    BY <1>2, <1>4 DEF rest
  <1>6. (m - 1) + 1 = m
    BY <1>3
  <1> QED
    BY <1>3, <1>5, <1>6

\* The values of g are x and what step makes of it, time after time.
IsRun(g, S, step, x) ==
    g \in [Nat -> S] /\ g[0] = x /\ \A k \in Nat : g[k + 1] = step[g[k]]

\* A function from S to S can be repeated: the recursive definitions of
\* PathSearch define what they say.
LEMMA Repeated ==
    ASSUME NEW S, NEW step \in [S -> S], NEW x \in S
    PROVE  \E g : IsRun(g, S, step, x)
  <1> DEFINE Part(m, h) == /\ h \in [0 .. m -> S] /\ h[0] = x
                           /\ \A k \in 0 .. m - 1 : h[k + 1] = step[h[k]]
             T == {m \in Nat : \E h : Part(m, h)}
  <1>1. T \in SUBSET Nat
    OBVIOUS
  <1>2. 0 \in T
    <2> DEFINE h == [k \in 0 .. 0 |-> x]
    <2>1. Part(0, h)
      OBVIOUS
    <2> QED
      BY <2>1
  <1>3. ASSUME NEW m \in T PROVE m + 1 \in T
    <2>1. m \in Nat /\ \E h : Part(m, h)
      OBVIOUS
    <2>2. PICK h : Part(m, h)
      BY <2>1
    <2> DEFINE h2 == [k \in 0 .. m + 1 |-> IF k = m + 1 THEN step[h[m]] ELSE h[k]]
    <2>3. h2 \in [0 .. m + 1 -> S] /\ h2[0] = x
      BY <2>1, <2>2
    <2>4. ASSUME NEW k \in 0 .. m PROVE h2[k + 1] = step[h2[k]]
      BY <2>1, <2>2
    <2>5. (m + 1) - 1 = m
      BY <2>1
    <2>6. Part(m + 1, h2)
      BY <2>3, <2>4, <2>5
    <2>7. m + 1 \in Nat
      BY <2>1
    <2> HIDE DEF Part, h2
    <2> QED
      BY <2>6, <2>7
  <1>4. T = Nat
    <2> HIDE DEF T
    <2> QED
      BY <1>1, <1>2, <1>3, Induct
  <1>5. ASSUME NEW m \in Nat, NEW h1, NEW h2, Part(m, h1), Part(m + 1, h2)
        PROVE  h2[m] = h1[m]
    <2> DEFINE U == {k \in Nat : k <= m => h1[k] = h2[k]}
    <2>1. U \in SUBSET Nat
      OBVIOUS
    <2>2. 0 \in U
      BY <1>5
    <2>3. ASSUME NEW k \in U PROVE k + 1 \in U
      BY <1>5
    <2>4. U = Nat
      <3> HIDE DEF U
      <3> QED
        BY <2>1, <2>2, <2>3, Induct
    <2> QED
      BY <2>4
  <1> DEFINE upto == [m \in Nat |-> CHOOSE h : Part(m, h)]
             g == [m \in Nat |-> upto[m][m]]
  <1>6. ASSUME NEW m \in Nat PROVE Part(m, upto[m])
    BY <1>4
  <1>7. ASSUME NEW m \in Nat PROVE g[m] \in S /\ g[m + 1] = step[g[m]]
    <2>0. m + 1 \in Nat
      OBVIOUS
    <2> HIDE DEF upto
    <2>1. Part(m, upto[m]) /\ Part(m + 1, upto[m + 1])
      <3> HIDE DEF Part
      <3> QED
        BY <1>6, <2>0
    <2>2. upto[m + 1][m] = upto[m][m]
      BY <2>1, <1>5
    <2>3. upto[m + 1][m + 1] = step[upto[m + 1][m]]
      BY <2>1
    <2> QED
      BY <2>1, <2>2, <2>3
  <1>8. g[0] = x
    <2>1. Part(0, upto[0])
      BY <1>6
    <2> HIDE DEF upto
    <2> QED
      BY <2>1
  <1>9. g \in [Nat -> S]
    BY <1>7
  <1> QED
    <2> HIDE DEF g
    <2> QED
      BY <1>7, <1>8, <1>9 DEF IsRun

-----------------------------------------------------------------------------
(* Waves.                                                                  *)

\* One more step stays among the free cells and loses none.
LEMMA SpreadIn ==
    ASSUME NEW free, NEW from \in SUBSET free
    PROVE  Spread(free, from) \in SUBSET free /\ from \subseteq Spread(free, from)
  BY DEF Spread

\* The recursive function of the waves, unfolded once.
LEMMA WavesStep ==
    ASSUME NEW free, NEW from \in SUBSET free
    PROVE  /\ Waves(free, from)[0] = from
           /\ \A k \in Nat : Waves(free, from)[k] \in SUBSET free
           /\ \A k \in Nat : Waves(free, from)[k + 1] = Spread(free, Waves(free, from)[k])
  <1> DEFINE Parts == SUBSET free
             widen == [A \in Parts |-> Spread(free, A)]
             wave == Waves(free, from)
             Body(f) == [k \in Nat |-> IF k = 0 THEN from ELSE Spread(free, f[k - 1])]
  <1>1. widen \in [Parts -> Parts] /\ from \in Parts
    BY SpreadIn
  <1>2. PICK g : IsRun(g, Parts, widen, from)
    <2> HIDE DEF Parts, widen
    <2> QED
      BY <1>1, Repeated
  <1>3. g = Body(g)
    <2>1. ASSUME NEW k \in Nat, k # 0 PROVE g[k] = Spread(free, g[k - 1])
      <3>1. k - 1 \in Nat /\ (k - 1) + 1 = k
        BY <2>1
      <3>2. g[(k - 1) + 1] = widen[g[k - 1]] /\ g[k - 1] \in Parts
        BY <3>1, <1>2 DEF IsRun
      <3> QED
        BY <3>1, <3>2
    <2> QED
      BY <1>2, <2>1 DEF IsRun
  <1>4. wave = CHOOSE f : f = Body(f)
    BY DEF Waves
  <1>5. wave = Body(wave)
    <2> HIDE DEF Body, wave
    <2> QED
      BY <1>3, <1>4
  <1>6. wave[0] = from /\ \A k \in Nat : wave[k + 1] = Spread(free, wave[k])
    <2> HIDE DEF wave
    <2>1. wave[0] = from
      BY <1>5
    <2>2. ASSUME NEW k \in Nat PROVE wave[k + 1] = Spread(free, wave[k])
      <3>1. k + 1 \in Nat /\ k + 1 # 0 /\ (k + 1) - 1 = k
        OBVIOUS
      <3>2. wave[k + 1] = Spread(free, wave[(k + 1) - 1])
        BY <1>5, <3>1
      <3> QED
        BY <3>1, <3>2
    <2> QED
      BY <2>1, <2>2
  <1> DEFINE T == {k \in Nat : wave[k] \in SUBSET free}
  <1>7. T = Nat
    <2> HIDE DEF wave
    <2>1. T \in SUBSET Nat /\ 0 \in T /\ \A k \in T : k + 1 \in T
      BY <1>6, SpreadIn
    <2> HIDE DEF T
    <2> QED
      BY <2>1, Induct
  <1> QED
    BY <1>6, <1>7

\* Waves only grow, and once one adds nothing no later one does.
LEMMA WavesGrow ==
    ASSUME NEW free, NEW from \in SUBSET free, NEW k \in Nat, NEW j \in Nat
    PROVE  LET wave == Waves(free, from)
           IN /\ wave[k] \subseteq wave[k + j]
              /\ wave[k + 1] = wave[k] => wave[k + j] = wave[k]
  <1> DEFINE wave == Waves(free, from)
             T == {i \in Nat : /\ wave[k] \subseteq wave[k + i]
                               /\ wave[k + 1] = wave[k] => wave[k + i] = wave[k]}
  <1>1. /\ \A i \in Nat : wave[i] \in SUBSET free
        /\ \A i \in Nat : wave[i + 1] = Spread(free, wave[i])
    BY WavesStep
  <1> HIDE DEF wave
  <1>2. T \in SUBSET Nat /\ 0 \in T
    OBVIOUS
  <1>3. ASSUME NEW i \in T PROVE i + 1 \in T
    <2>1. i \in Nat /\ k + i \in Nat /\ i + 1 \in Nat /\ k + (i + 1) = (k + i) + 1
      OBVIOUS
    <2>2. wave[k + (i + 1)] = Spread(free, wave[k + i]) /\ wave[k + i] \in SUBSET free
      BY <1>1, <2>1
    <2>3. wave[k + i] \subseteq wave[k + (i + 1)]
      BY <2>2, SpreadIn
    <2> QED
      BY <1>1, <2>1, <2>2, <2>3
  <1>4. T = Nat
    <2> HIDE DEF T
    <2> QED
      BY <1>2, <1>3, Induct
  <1>5. j \in T
    BY <1>4
  <1> QED
    BY <1>5 DEF wave

\* A wave that is wider than the one before has more cells than its number.
LEMMA WavesCounted ==
    ASSUME NEW free, IsFiniteSet(free), NEW from \in SUBSET free, from # {},
           NEW k \in Nat, Waves(free, from)[k + 1] # Waves(free, from)[k]
    PROVE  k + 2 <= Cardinality(free)
  <1> DEFINE wave == Waves(free, from)
             T == {i \in Nat : wave[i + 1] # wave[i] => i + 2 <= Cardinality(wave[i + 1])}
  <1>1. /\ \A i \in Nat : wave[i] \in SUBSET free
        /\ \A i \in Nat : wave[i + 1] = Spread(free, wave[i])
        /\ wave[0] = from
    BY WavesStep
  <1> HIDE DEF wave
  <1>2. ASSUME NEW i \in Nat
        PROVE  /\ Cardinality(wave[i]) \in Nat
               /\ Cardinality(wave[i]) <= Cardinality(free)
               /\ wave[i + 1] # wave[i] => Cardinality(wave[i]) + 1 <= Cardinality(wave[i + 1])
    <2>1. i + 1 \in Nat
      OBVIOUS
    <2>2. wave[i] \in SUBSET free /\ wave[i + 1] \in SUBSET free
      BY <1>1, <2>1
    <2>3. IsFiniteSet(wave[i]) /\ Cardinality(wave[i]) <= Cardinality(free)
      BY <2>2, FS_Subset
    <2>4. IsFiniteSet(wave[i + 1])
      BY <2>2, FS_Subset
    <2>5. Cardinality(wave[i]) \in Nat /\ Cardinality(wave[i + 1]) \in Nat
      BY <2>3, <2>4, FS_CardinalityType
    <2>6. wave[i] \in SUBSET wave[i + 1]
      BY <1>1, <2>2, SpreadIn
    <2>7. /\ Cardinality(wave[i]) <= Cardinality(wave[i + 1])
          /\ Cardinality(wave[i + 1]) = Cardinality(wave[i]) => wave[i + 1] = wave[i]
      BY <2>4, <2>6, FS_Subset
    <2> QED
      BY <2>3, <2>5, <2>7
  <1>3. T \in SUBSET Nat
    OBVIOUS
  <1>4. 0 \in T
    <2>1. IsFiniteSet(from)
      BY FS_Subset
    <2>2. Cardinality(from) # 0 /\ Cardinality(from) \in Nat
      BY <2>1, FS_EmptySet, FS_CardinalityType
    <2>3. Cardinality(wave[1]) \in Nat
      BY <1>2
    <2> QED
      BY <1>1, <1>2, <2>2, <2>3
  <1>5. ASSUME NEW i \in T PROVE i + 1 \in T
    <2>1. i \in Nat /\ i + 1 \in Nat /\ (i + 1) + 1 \in Nat
      OBVIOUS
    <2>2. CASE wave[i + 1] = wave[i]
      <3>1. wave[(i + 1) + 1] = wave[i + 1]
        BY <1>1, <2>1, <2>2
      <3> QED
        BY <2>1, <3>1
    <2>3. CASE wave[i + 1] # wave[i]
      <3>1. i + 2 <= Cardinality(wave[i + 1])
        BY <2>3
      <3>2. Cardinality(wave[i + 1]) \in Nat /\ Cardinality(wave[(i + 1) + 1]) \in Nat
        BY <1>2, <2>1
      <3>3. wave[(i + 1) + 1] # wave[i + 1] =>
              Cardinality(wave[i + 1]) + 1 <= Cardinality(wave[(i + 1) + 1])
        BY <1>2, <2>1
      <3>4. wave[(i + 1) + 1] # wave[i + 1] => (i + 1) + 2 <= Cardinality(wave[(i + 1) + 1])
        BY <2>1, <3>1, <3>2, <3>3
      <3> QED
        BY <2>1, <3>4
    <2> QED
      BY <2>2, <2>3
  <1>6. T = Nat
    <2> HIDE DEF T
    <2> QED
      BY <1>3, <1>4, <1>5, Induct
  <1>7. k + 2 <= Cardinality(wave[k + 1])
    <2>1. k \in T
      BY <1>6
    <2> QED
      BY <2>1 DEF wave
  <1>8. Cardinality(wave[k + 1]) <= Cardinality(free) /\ Cardinality(wave[k + 1]) \in Nat
    BY <1>2
  <1>9. Cardinality(free) \in Nat
    BY FS_CardinalityType
  <1> QED
    BY <1>7, <1>8, <1>9

\* The region is complete: nothing that a wave reaches is left out, and no
\* step leads out of it.
LEMMA RegionClosed ==
    ASSUME NEW free, IsFiniteSet(free), NEW from \in SUBSET free, from # {}
    PROVE  /\ Region(free, from) \in SUBSET free /\ from \subseteq Region(free, from)
           /\ Spread(free, Region(free, from)) = Region(free, from)
           /\ \A k \in Nat : Waves(free, from)[k] \subseteq Region(free, from)
  <1> DEFINE wave == Waves(free, from)
             last == Cardinality(free)
  <1>1. /\ \A i \in Nat : wave[i] \in SUBSET free
        /\ \A i \in Nat : wave[i + 1] = Spread(free, wave[i])
        /\ wave[0] = from
    BY WavesStep
  <1>2. last \in Nat
    BY FS_CardinalityType
  <1>3. wave[last + 1] = wave[last]
    <2>1. ~ (last + 2 <= last)
      BY <1>2
    <2> QED
      BY <1>2, <2>1, WavesCounted
  <1>4. ASSUME NEW k \in Nat PROVE wave[k] \subseteq wave[last]
    <2>1. CASE k <= last
      <3>1. last - k \in Nat /\ k + (last - k) = last
        BY <1>2, <2>1
      <3>2. wave[k] \subseteq wave[k + (last - k)]
        BY <3>1, WavesGrow
      <3> QED
        BY <3>1, <3>2
    <2>2. CASE ~ (k <= last)
      <3>1. k - last \in Nat /\ last + (k - last) = k
        BY <1>2, <2>2
      <3>2. wave[last + (k - last)] = wave[last]
        BY <1>2, <1>3, <3>1, WavesGrow
      <3> QED
        BY <3>1, <3>2
    <2> QED
      BY <2>1, <2>2
  <1>5. from \subseteq wave[last]
    BY <1>1, <1>4
  <1> HIDE DEF wave
  <1>6. wave[last] \in SUBSET free /\ Spread(free, wave[last]) = wave[last]
    BY <1>1, <1>2, <1>3
  <1> QED
    BY <1>4, <1>5, <1>6 DEF wave, Region

-----------------------------------------------------------------------------
(* Cells that touch.                                                       *)

LEMMA AdjacentSymmetric ==
    ASSUME NEW a, NEW b
    PROVE  Adjacent(a, b) <=> Adjacent(b, a)
  BY DEF Adjacent

LEMMA AdjacentApart ==
    ASSUME NEW c, c[1] \in Int, c[2] \in Int
    PROVE  ~Adjacent(c, c)
  BY DEF Adjacent
\* The four neighbours are the cells that touch.
LEMMA AdjacentNeighbours ==
    ASSUME NEW c \in Int \X Int, NEW d \in Int \X Int
    PROVE  Adjacent(c, d) <=> \E i \in 1 .. 4 : d = Neighbours(c)[i]
  <1> DEFINE x == c[1]
             y == c[2]
             u == d[1]
             v == d[2]
  <1>1. c = <<x, y>> /\ d = <<u, v>> /\ x \in Int /\ y \in Int /\ u \in Int /\ v \in Int
    OBVIOUS
  <1>2. /\ Neighbours(c)[1] = <<x - 1, y>> /\ Neighbours(c)[2] = <<x + 1, y>>
        /\ Neighbours(c)[3] = <<x, y + 1>> /\ Neighbours(c)[4] = <<x, y - 1>>
    BY DEF Neighbours
  <1>3. \A i : i \in 1 .. 4 <=> i = 1 \/ i = 2 \/ i = 3 \/ i = 4
    OBVIOUS
  <1>4. Adjacent(c, d) <=> \/ x = u /\ (y = v + 1 \/ v = y + 1)
                           \/ y = v /\ (x = u + 1 \/ u = x + 1)
    BY DEF Adjacent
  <1> HIDE DEF x, y, u, v
  <1>5. Adjacent(c, d) <=> \/ <<u, v>> = <<x - 1, y>> \/ <<u, v>> = <<x + 1, y>>
                           \/ <<u, v>> = <<x, y + 1>> \/ <<u, v>> = <<x, y - 1>>
    BY <1>1, <1>4
  <1> QED
    BY <1>1, <1>2, <1>3, <1>5

\* The estimate is a distance, and changes by one with a step.
LEMMA EstimateFacts ==
    ASSUME NEW a \in Int \X Int, NEW b \in Int \X Int, NEW c \in Int \X Int
    PROVE  /\ Estimate(a, b) \in Nat /\ Estimate(a, a) = 0
           /\ Estimate(a, c) <= Estimate(a, b) + Estimate(b, c)
           /\ Adjacent(a, b) => Estimate(a, b) = 1
  <1>1. /\ a[1] \in Int /\ a[2] \in Int /\ b[1] \in Int /\ b[2] \in Int
        /\ c[1] \in Int /\ c[2] \in Int
    OBVIOUS
  <1>3. /\ Abs(a[1] - c[1]) <= Abs(a[1] - b[1]) + Abs(b[1] - c[1])
        /\ Abs(a[2] - c[2]) <= Abs(a[2] - b[2]) + Abs(b[2] - c[2])
    BY <1>1 DEF Abs
  <1>4. /\ Abs(a[1] - b[1]) \in Nat /\ Abs(a[2] - b[2]) \in Nat
        /\ Abs(a[1] - a[1]) = 0 /\ Abs(a[2] - a[2]) = 0
        /\ Abs(b[1] - c[1]) \in Nat /\ Abs(b[2] - c[2]) \in Nat
        /\ Abs(a[1] - c[1]) \in Nat /\ Abs(a[2] - c[2]) \in Nat
    BY <1>1 DEF Abs
  <1>5. Estimate(a, c) <= Estimate(a, b) + Estimate(b, c) /\ Estimate(a, b) \in Nat
    <2> DEFINE ab1 == Abs(a[1] - b[1])
               ab2 == Abs(a[2] - b[2])
               bc1 == Abs(b[1] - c[1])
               bc2 == Abs(b[2] - c[2])
               ac1 == Abs(a[1] - c[1])
               ac2 == Abs(a[2] - c[2])
    <2>1. Estimate(a, c) = ac1 + ac2 /\ Estimate(a, b) = ab1 + ab2 /\ Estimate(b, c) = bc1 + bc2
      BY DEF Estimate
    <2> HIDE DEF ab1, ab2, bc1, bc2, ac1, ac2
    <2> QED
      BY <1>3, <1>4, <2>1 DEF ab1, ab2, bc1, bc2, ac1, ac2
  <1>6. ASSUME Adjacent(a, b) PROVE Estimate(a, b) = 1
    BY <1>1, <1>6 DEF Estimate, Adjacent, Abs
  <1>7. Estimate(a, a) = 0
    BY <1>4 DEF Estimate
  <1> QED
    BY <1>5, <1>6, <1>7

-----------------------------------------------------------------------------
(* The cheapest entry.                                                     *)

Entries(area) == Int \X area

\* A set of entries that is not empty has a cheapest one.
LEMMA CheapestIs ==
    ASSUME NEW area \in SUBSET (Int \X Int), NEW open \in SUBSET Entries(area),
           IsFiniteSet(open), open # {}
    PROVE  Cheapest(open) \in open /\ \A q \in open : Before(Cheapest(open), q)
  <1> DEFINE Has(A) == A # {} => \E p \in A : \A q \in A : Before(p, q)
             Sizes == {k \in Nat : \A A \in SUBSET open : Cardinality(A) = k => Has(A)}
  <1>1. Sizes \in SUBSET Nat
    OBVIOUS
  <1>2. ASSUME NEW A \in SUBSET open
        PROVE  IsFiniteSet(A) /\ Cardinality(A) \in Nat
    <2>1. IsFiniteSet(A)
      BY FS_Subset
    <2> QED
      BY <2>1, FS_CardinalityType
  <1>3. 0 \in Sizes
    <2>1. ASSUME NEW A \in SUBSET open, Cardinality(A) = 0 PROVE A = {}
      BY <1>2, <2>1, FS_EmptySet
    <2> QED
      BY <2>1
  <1>4. ASSUME NEW k \in Sizes PROVE k + 1 \in Sizes
    <2>1. k \in Nat /\ k + 1 \in Nat /\ k + 1 # 0
      OBVIOUS
    <2>2. ASSUME NEW A \in SUBSET open, Cardinality(A) = k + 1, A # {} PROVE Has(A)
      <3>1. PICK x \in A : TRUE
        BY <2>2
      <3> DEFINE B == A \ {x}
      <3>2. B \in SUBSET open
        OBVIOUS
      <3>3. Cardinality(B) = k
        <4>1. IsFiniteSet(A) /\ x \in A
          BY <1>2
        <4>2. Cardinality(A \ {x}) = Cardinality(A) - 1
          BY <4>1, FS_RemoveElement
        <4> QED
          BY <2>1, <2>2, <4>2
      <3>4. B # {} => \E p \in B : \A q \in B : Before(p, q)
        BY <2>1, <3>2, <3>3
      <3>5. \A p, q \in open : Before(p, q) \/ Before(q, p)
        <4>1. ASSUME NEW p \in open, NEW q \in open PROVE Before(p, q) \/ Before(q, p)
          <5>1. /\ p[1] \in Int /\ p[2][1] \in Int /\ p[2][2] \in Int
                /\ q[1] \in Int /\ q[2][1] \in Int /\ q[2][2] \in Int
            BY DEF Entries
          <5> QED
            BY <5>1 DEF Before
        <4> QED
          BY <4>1
      <3>6. \A p, q, r \in open : Before(p, q) /\ Before(q, r) => Before(p, r)
        <4>1. ASSUME NEW p \in open, NEW q \in open, NEW r \in open,
                     Before(p, q), Before(q, r)
              PROVE  Before(p, r)
          <5>1. /\ p[1] \in Int /\ p[2][1] \in Int /\ p[2][2] \in Int
                /\ q[1] \in Int /\ q[2][1] \in Int /\ q[2][2] \in Int
                /\ r[1] \in Int /\ r[2][1] \in Int /\ r[2][2] \in Int
            BY DEF Entries
          <5> QED
            BY <4>1, <5>1 DEF Before
        <4> QED
          BY <4>1
      <3>7. Before(x, x)
        BY <3>1, <3>5
      <3>8. CASE B = {}
        <4>1. \A q \in A : q = x
          BY <3>8
        <4> QED
          BY <3>1, <3>7, <4>1
      <3>9. CASE B # {}
        <4>1. PICK p \in B : \A q \in B : Before(p, q)
          BY <3>4, <3>9
        <4>2. p \in A /\ p \in open /\ x \in open
          BY <3>1
        <4>3. CASE Before(p, x)
          <5>1. \A q \in A : Before(p, q)
            BY <4>1, <4>3
          <5> QED
            BY <4>2, <5>1
        <4>4. CASE Before(x, p)
          <5>1. ASSUME NEW q \in A PROVE Before(x, q)
            <6>1. CASE q = x
              BY <3>7, <6>1
            <6>2. CASE q # x
              <7>1. Before(p, q) /\ q \in open
                BY <4>1, <6>2
              <7> QED
                BY <3>6, <4>2, <4>4, <7>1
            <6> QED
              BY <6>1, <6>2
          <5> QED
            BY <3>1, <5>1
        <4> QED
          BY <3>5, <4>2, <4>3, <4>4
      <3> QED
        BY <3>8, <3>9
    <2> QED
      BY <2>1, <2>2
  <1>5. Sizes = Nat
    <2> HIDE DEF Sizes
    <2> QED
      BY <1>1, <1>3, <1>4, Induct
  <1>6. Cardinality(open) \in Sizes
    BY <1>2, <1>5
  <1>7. \E p \in open : \A q \in open : Before(p, q)
    BY <1>6
  <1> QED
    BY <1>7 DEF Cheapest
-----------------------------------------------------------------------------
(* The invariant of the search.                                            *)

\* The search is asked for a way between two free cells.
Board(area, free, src, dst) ==
    /\ area \in SUBSET (Int \X Int) /\ IsFiniteSet(area)
    /\ free \in SUBSET area /\ src \in free /\ dst \in free /\ src # dst

\* The cells that k steps or fewer lead to.
Within(free, src, k) == Waves(free, {src})[k]

\* Within, unfolded once.
LEMMA WithinIs ==
    ASSUME NEW free, NEW src \in free
    PROVE  /\ \A c : c \in Within(free, src, 0) <=> c = src
           /\ \A k \in Nat : Within(free, src, k) \in SUBSET free
           /\ \A k \in Nat : Within(free, src, k + 1) = Spread(free, Within(free, src, k))
  <1> DEFINE from == {src}
  <1>1. from \in SUBSET free
    OBVIOUS
  <1> HIDE DEF from
  <1>2. /\ Waves(free, from)[0] = from
        /\ \A k \in Nat : Waves(free, from)[k] \in SUBSET free
        /\ \A k \in Nat : Waves(free, from)[k + 1] = Spread(free, Waves(free, from)[k])
    BY <1>1, WavesStep
  <1>3. \A k : Within(free, src, k) = Waves(free, from)[k]
    BY DEF from, Within
  <1>4. \A c : c \in from <=> c = src
    BY DEF from
  <1>5. \A k \in Nat : Within(free, src, k + 1) = Spread(free, Within(free, src, k))
    <2>1. ASSUME NEW k \in Nat
          PROVE  Within(free, src, k + 1) = Spread(free, Within(free, src, k))
      <3>1. Within(free, src, k) = Waves(free, from)[k]
        BY <1>3
      <3>2. Within(free, src, k + 1) = Waves(free, from)[k + 1]
        BY <1>3
      <3> QED
        BY <1>2, <3>1, <3>2
    <2> QED
      BY <2>1
  <1> QED
    BY <1>2, <1>3, <1>4, <1>5

\* Fewer than k steps do not lead from src to c.
Beyond(free, src, c, k) == \A j \in Nat : j < k => c \notin Within(free, src, j)

\* What the labels of a cell that was reached say.
Labelled(free, src, dst, closed, g, f, parent, c) ==
    /\ c \in free /\ g[c] \in Nat /\ c \in Within(free, src, g[c])
    /\ f[c] = IF c = src THEN 0 ELSE g[c] + Estimate(c, dst)
    /\ c # src => /\ parent[c] \in closed /\ Adjacent(parent[c], c)
                  /\ g[c] = g[parent[c]] + 1

\* Cells that were expanded have their distance for a label.
Labels(area, free, src, dst, closed, g, f, parent) ==
    /\ closed \in SUBSET area
    /\ g \in [area -> Int] /\ f \in [area -> Int] /\ parent \in [area -> area]
    /\ g[src] = 0 /\ parent[src] = src /\ g[dst] = Unknown
    /\ \A c \in area : IF g[c] = Unknown THEN f[c] = Unknown
                       ELSE Labelled(free, src, dst, closed, g, f, parent, c)
    /\ \A c \in closed : g[c] # Unknown /\ Beyond(free, src, c, g[c])

\* A cell that was reached and not yet expanded is listed with its F; what
\* else is listed is an older F of a cell.
Queue(area, open, closed, g, f) ==
    /\ open \in SUBSET Entries(area) /\ IsFiniteSet(open)
    /\ \A c \in area \ closed : g[c] # Unknown => <<f[c], c>> \in open
    /\ \A p \in open : g[p[2]] # Unknown /\ f[p[2]] <= p[1]

\* d was looked at from c.
Relaxed(free, g, c, d) ==
    d \in free /\ Adjacent(c, d) => g[d] # Unknown /\ g[d] <= g[c] + 1

\* dst was looked at from a cell that is as near to src as one can be.
Met(free, src, dst, closed, g, parent) ==
    /\ parent[dst] \in closed /\ Adjacent(parent[dst], dst)
    /\ Beyond(free, src, dst, g[parent[dst]] + 1)

\* Between two turns of the loop.
Between(area, free, src, dst, s) ==
    /\ Labels(area, free, src, dst, s.closed, s.g, s.f, s.parent)
    /\ \/ /\ s.status = "searching"
          /\ Queue(area, s.open, s.closed, s.g, s.f)
          /\ \A c \in s.closed, d \in area : Relaxed(free, s.g, c, d)
       \/ s.status = "found" /\ Met(free, src, dst, s.closed, s.g, s.parent)

\* In a turn that expands current, when the cells of seen were looked at.
During(area, free, src, dst, s, current, seen) ==
    /\ Labels(area, free, src, dst, s.closed, s.g, s.f, s.parent)
    /\ current \in s.closed
    /\ \/ /\ s.status = "searching"
          /\ Queue(area, s.open, s.closed, s.g, s.f)
          /\ \A c \in s.closed \ {current}, d \in area : Relaxed(free, s.g, c, d)
          /\ \A d \in seen : Relaxed(free, s.g, current, d)
          /\ Adjacent(current, dst) => Beyond(free, src, dst, s.g[current] + 1)
       \/ s.status = "found" /\ Met(free, src, dst, s.closed, s.g, s.parent)

\* The invariant of the search holds before the first turn.
LEMMA StartHolds ==
    ASSUME NEW area, NEW free, NEW src, NEW dst, Board(area, free, src, dst)
    PROVE  /\ Between(area, free, src, dst, Start(area, src))
           /\ Cardinality(Start(area, src).open) = 1
  <1> DEFINE s == Start(area, src)
             g == [c \in area |-> IF c = src THEN 0 ELSE Unknown]
             p == [c \in area |-> c]
  <1>1. /\ s.open = {<<0, src>>} /\ s.closed = {} /\ s.g = g /\ s.f = g /\ s.parent = p
        /\ s.status = "searching"
    BY DEF Start
  <1>2. /\ src \in area /\ dst \in area /\ src \in free /\ src # dst
    BY DEF Board
  <1>3. g \in [area -> Int] /\ p \in [area -> area] /\ Unknown = -1
    BY DEF Unknown
  <1>4. g[src] = 0 /\ \A c \in area : c # src => g[c] = Unknown
    BY <1>2
  <1>5. p[src] = src
    BY <1>2
  <1> HIDE DEF g, p
  <1>6. src \in Within(free, src, 0)
    BY <1>2, WithinIs
  <1>7. Labelled(free, src, dst, {}, g, g, p, src)
    BY <1>2, <1>4, <1>6 DEF Labelled
  <1>8. Labels(area, free, src, dst, {}, g, g, p)
    BY <1>2, <1>3, <1>4, <1>5, <1>7 DEF Labels
  <1>9. IsFiniteSet({<<0, src>>}) /\ Cardinality({<<0, src>>}) = 1
    BY FS_Singleton
  <1>10. Queue(area, {<<0, src>>}, {}, g, g)
    BY <1>2, <1>3, <1>4, <1>9 DEF Queue, Entries
  <1> HIDE DEF s
  <1> QED
    BY <1>1, <1>8, <1>9, <1>10 DEF Between, s

\* A step leads to a neighbour.
LEMMA WaveNext ==
    ASSUME NEW free, NEW src \in free, NEW k \in Nat, NEW c \in Within(free, src, k),
           NEW d \in free, Adjacent(c, d)
    PROVE  d \in Within(free, src, k + 1)
  <1>1. Within(free, src, k + 1) = Spread(free, Within(free, src, k))
    BY WithinIs
  <1>2. Adjacent(d, c)
    BY AdjacentSymmetric
  <1> QED
    BY <1>1, <1>2 DEF Spread

\* A cell that has its distance for a label was looked at before, whoever
\* looks at it.
LEMMA ClosedRelaxed ==
    ASSUME NEW area, NEW free, NEW src, NEW dst, Board(area, free, src, dst),
           NEW closed, NEW g, NEW f, NEW parent,
           Labels(area, free, src, dst, closed, g, f, parent),
           NEW c \in closed, NEW d \in closed
    PROVE  Relaxed(free, g, c, d)
  <1> SUFFICES ASSUME d \in free, Adjacent(c, d)
               PROVE  g[d] # Unknown /\ g[d] <= g[c] + 1
    BY DEF Relaxed
  <1>1. /\ g[c] # Unknown /\ g[d] # Unknown /\ c \in area /\ d \in area /\ src \in free
        /\ Beyond(free, src, d, g[d])
    BY DEF Labels, Board
  <1>2. /\ g[c] \in Nat /\ c \in Within(free, src, g[c]) /\ g[d] \in Nat
    BY <1>1 DEF Labels, Labelled
  <1>3. d \in Within(free, src, g[c] + 1)
    BY <1>1, <1>2, WaveNext
  <1> QED
    BY <1>1, <1>2, <1>3 DEF Beyond
-----------------------------------------------------------------------------
(* A look at a neighbour.                                                  *)

\* A cell that is looked at in vain was looked at before.
LEMMA SkipKeeps ==
    ASSUME NEW area, NEW free, NEW src, NEW dst, Board(area, free, src, dst),
           NEW closed, NEW g, NEW f, NEW parent,
           Labels(area, free, src, dst, closed, g, f, parent),
           NEW c \in closed, NEW d \in area, d # dst,
           d \in closed \/ d \notin free
             \/ (f[d] # Unknown /\ f[d] <= g[c] + 1 + Estimate(d, dst))
    PROVE  Relaxed(free, g, c, d)
  <1>1. CASE d \in closed
    BY <1>1, ClosedRelaxed
  <1>2. CASE d \notin free
    BY <1>2 DEF Relaxed
  <1>3. CASE f[d] # Unknown /\ f[d] <= g[c] + 1 + Estimate(d, dst)
    <2>1. c \in area /\ g[c] # Unknown /\ g[d] # Unknown /\ dst \in area
      BY <1>3 DEF Labels, Board
    <2>2. g[c] \in Nat /\ g[d] \in Nat /\ f[d] = IF d = src THEN 0 ELSE g[d] + Estimate(d, dst)
      BY <2>1 DEF Labels, Labelled
    <2>3. CASE d = src
      <3>1. g[d] = 0
        BY <2>3 DEF Labels
      <3> QED
        BY <2>1, <2>2, <3>1 DEF Relaxed
    <2>4. CASE d # src
      <3>1. Estimate(d, dst) \in Nat
        <4>1. d \in Int \X Int /\ dst \in Int \X Int
          BY <2>1 DEF Board
        <4> QED
          BY <4>1, EstimateFacts
      <3>2. g[d] + Estimate(d, dst) <= g[c] + 1 + Estimate(d, dst)
        BY <1>3, <2>2, <2>4
      <3> QED
        BY <2>1, <2>2, <3>1, <3>2 DEF Relaxed
    <2> QED
      BY <2>3, <2>4
  <1> QED
    BY <1>1, <1>2, <1>3

\* A cell that was looked at has nothing to gain.
LEMMA SeenSkipped ==
    ASSUME NEW area, NEW free, NEW src, NEW dst, Board(area, free, src, dst),
           NEW closed, NEW g, NEW f, NEW parent,
           Labels(area, free, src, dst, closed, g, f, parent),
           NEW c \in closed, NEW d \in area, d \in free, Adjacent(c, d),
           Relaxed(free, g, c, d)
    PROVE  /\ d # dst
           /\ f[d] # Unknown /\ f[d] <= g[c] + 1 + Estimate(d, dst)
  <1>1. g[d] # Unknown /\ g[d] <= g[c] + 1 /\ d # dst /\ g[c] # Unknown /\ c \in area
    BY DEF Relaxed, Labels
  <1>2. g[c] \in Nat /\ g[d] \in Nat /\ f[d] = IF d = src THEN 0 ELSE g[d] + Estimate(d, dst)
    BY <1>1 DEF Labels, Labelled
  <1>3. Estimate(d, dst) \in Nat
    <2>1. d \in Int \X Int /\ dst \in Int \X Int
      BY DEF Board
    <2> QED
      BY <2>1, EstimateFacts
  <1>4. f[d] \in Nat /\ f[d] <= g[c] + 1 + Estimate(d, dst)
    BY <1>1, <1>2, <1>3
  <1> QED
    BY <1>1, <1>4 DEF Unknown

\* d is labelled with the costs of the way through c.
Through(g, f, parent, g2, f2, parent2, c, d, dst) ==
    /\ g2 = [g EXCEPT ![d] = g[c] + 1]
    /\ f2 = [f EXCEPT ![d] = g[c] + 1 + Estimate(d, dst)]
    /\ parent2 = [parent EXCEPT ![d] = c]

\* Only the costs of d change, and for the better.
Improved(area, g, f, g2, f2, d) ==
    /\ g2[d] # Unknown /\ f2[d] \in Int /\ (f[d] # Unknown => f2[d] <= f[d])
    /\ \A e \in area : e # d => f2[e] = f[e] /\ g2[e] = g[e]
    /\ \A e \in area : g[e] # Unknown => g2[e] # Unknown /\ g2[e] <= g[e]

\* A cell gets better labels.
LEMMA RelaxKeeps ==
    ASSUME NEW area, NEW free, NEW src, NEW dst, Board(area, free, src, dst),
           NEW closed, NEW g, NEW f, NEW parent,
           Labels(area, free, src, dst, closed, g, f, parent),
           NEW c \in closed, NEW d \in area, d # dst, d \notin closed, d \in free,
           Adjacent(c, d),
           f[d] = Unknown \/ f[d] > g[c] + 1 + Estimate(d, dst),
           NEW g2, NEW f2, NEW parent2, Through(g, f, parent, g2, f2, parent2, c, d, dst)
    PROVE  /\ Labels(area, free, src, dst, closed, g2, f2, parent2)
           /\ Improved(area, g, f, g2, f2, d)
           /\ g2[d] = g[c] + 1
           /\ \A e \in closed : g2[e] = g[e]
  <1> DEFINE cost == g[c] + 1
             total == g[c] + 1 + Estimate(d, dst)
  <1>1. /\ c \in area /\ c # d /\ g[c] # Unknown /\ g \in [area -> Int] /\ f \in [area -> Int]
        /\ parent \in [area -> area] /\ closed \in SUBSET area /\ src \in area
        /\ src \in free
    BY DEF Labels, Board
  <1>2. g[c] \in Nat /\ c \in Within(free, src, g[c])
    BY <1>1 DEF Labels, Labelled
  <1>3. Estimate(d, dst) \in Nat
    <2>1. d \in Int \X Int /\ dst \in Int \X Int
      BY DEF Board
    <2> QED
      BY <2>1, EstimateFacts
  <1>4. cost \in Nat /\ total \in Nat /\ cost # Unknown /\ total # Unknown
    BY <1>2, <1>3 DEF Unknown
  <1>5. d # src
    <2>1. g[src] # Unknown /\ g[src] = 0
      BY DEF Labels, Unknown
    <2>2. f[src] = 0
      BY <1>1, <2>1 DEF Labels, Labelled
    <2> QED
      BY <1>4, <2>2 DEF Unknown
  <1>6. d \in Within(free, src, cost)
    BY <1>1, <1>2, WaveNext
  <1> HIDE DEF cost, total
  <1>7. /\ g2 = [g EXCEPT ![d] = cost] /\ f2 = [f EXCEPT ![d] = total]
        /\ parent2 = [parent EXCEPT ![d] = c]
    BY DEF cost, total, Through
  <1>8. /\ g2 \in [area -> Int] /\ f2 \in [area -> Int] /\ parent2 \in [area -> area]
        /\ g2[d] = cost /\ f2[d] = total /\ parent2[d] = c
        /\ \A e \in area : e # d => g2[e] = g[e] /\ f2[e] = f[e] /\ parent2[e] = parent[e]
    BY <1>1, <1>4, <1>7
  <1>9. \A e \in closed : g2[e] = g[e]
    BY <1>1, <1>8
  <1>10. Labelled(free, src, dst, closed, g2, f2, parent2, d)
    BY <1>1, <1>4, <1>5, <1>6, <1>8 DEF Labelled, cost, total
  <1>11. ASSUME NEW e \in area, e # d, g[e] # Unknown
         PROVE  Labelled(free, src, dst, closed, g2, f2, parent2, e)
    <2>1. Labelled(free, src, dst, closed, g, f, parent, e)
      BY <1>11 DEF Labels
    <2> QED
      BY <1>8, <1>9, <1>11, <2>1 DEF Labelled
  <1>12. /\ g2[src] = 0 /\ parent2[src] = src /\ g2[dst] = Unknown
    <2>1. dst \in area /\ g[src] = 0 /\ parent[src] = src /\ g[dst] = Unknown
      BY DEF Board, Labels
    <2> QED
      BY <1>1, <1>5, <1>8, <2>1
  <1>13. \A e \in area : IF g2[e] = Unknown THEN f2[e] = Unknown
                         ELSE Labelled(free, src, dst, closed, g2, f2, parent2, e)
    <2>1. ASSUME NEW e \in area, e # d
          PROVE  IF g2[e] = Unknown THEN f2[e] = Unknown
                 ELSE Labelled(free, src, dst, closed, g2, f2, parent2, e)
      <3>1. g[e] = Unknown => f[e] = Unknown
        BY DEF Labels
      <3> QED
        BY <1>8, <1>11, <2>1, <3>1
    <2> QED
      BY <1>4, <1>8, <1>10, <2>1
  <1>14. \A e \in closed : g2[e] # Unknown /\ Beyond(free, src, e, g2[e])
    BY <1>9 DEF Labels
  <1>15. Labels(area, free, src, dst, closed, g2, f2, parent2)
    BY <1>1, <1>8, <1>12, <1>13, <1>14 DEF Labels
  <1>16. f[d] # Unknown => f2[d] <= f[d]
    BY <1>1, <1>4, <1>8 DEF total
  <1>17. g[d] # Unknown => g2[d] <= g[d]
    <2> SUFFICES ASSUME g[d] # Unknown PROVE g2[d] <= g[d]
      OBVIOUS
    <2>1. g[d] \in Nat /\ f[d] = g[d] + Estimate(d, dst)
      BY <1>5 DEF Labels, Labelled
    <2>2. f[d] # Unknown
      BY <1>3, <2>1 DEF Unknown
    <2>3. g[d] + Estimate(d, dst) > g[c] + 1 + Estimate(d, dst)
      BY <2>1, <2>2
    <2> QED
      BY <1>2, <1>3, <1>8, <2>1, <2>3 DEF cost
  <1>18. \A e \in area : g[e] # Unknown => g2[e] # Unknown /\ g2[e] <= g[e]
    <2>1. ASSUME NEW e \in area, e # d, g[e] # Unknown
          PROVE  g2[e] # Unknown /\ g2[e] <= g[e]
      BY <1>1, <1>8, <2>1
    <2> QED
      BY <1>4, <1>8, <1>17, <2>1
  <1>19. g2[d] # Unknown /\ g2[d] = g[c] + 1
    BY <1>4, <1>8 DEF cost
  <1>20. Improved(area, g, f, g2, f2, d)
    BY <1>4, <1>8, <1>16, <1>18, <1>19 DEF Improved
  <1> QED
    BY <1>9, <1>15, <1>19, <1>20

\* The better entry is listed.
LEMMA RelaxLists ==
    ASSUME NEW area, NEW closed, NEW g, NEW f, NEW g2, NEW f2, NEW open, NEW d \in area,
           g \in [area -> Int], f \in [area -> Int],
           Queue(area, open, closed, g, f), Improved(area, g, f, g2, f2, d),
           \A e \in area : g[e] # Unknown => f[e] # Unknown,
           NEW open2, open2 = open \cup {<<f2[d], d>>}
    PROVE  Queue(area, open2, closed, g2, f2)
  <1> DEFINE entry == <<f2[d], d>>
  <1>0. open2 = open \cup {entry}
    OBVIOUS
  <1>1. open \in SUBSET Entries(area) /\ IsFiniteSet(open)
    BY DEF Queue
  <1>2. open2 \in SUBSET Entries(area)
    BY <1>0, <1>1 DEF Entries, Improved
  <1>3. IsFiniteSet(open2)
    <2>1. IsFiniteSet(open \cup {entry})
      BY <1>1, FS_AddElement
    <2> QED
      BY <1>0, <2>1
  <1>4. ASSUME NEW e \in area \ closed, g2[e] # Unknown PROVE <<f2[e], e>> \in open2
    <2>1. CASE e = d
      BY <1>0, <2>1
    <2>2. CASE e # d
      BY <1>0, <1>4, <2>2 DEF Queue, Improved
    <2> QED
      BY <2>1, <2>2
  <1>5. ASSUME NEW p \in open2 PROVE g2[p[2]] # Unknown /\ f2[p[2]] <= p[1]
    <2>1. CASE p = entry
      BY <2>1 DEF Improved
    <2>2. CASE p # entry
      <3>1. p \in open
        BY <1>0, <2>2
      <3>2. p[2] \in area /\ p[1] \in Int /\ g[p[2]] # Unknown /\ f[p[2]] <= p[1]
        BY <1>1, <3>1 DEF Queue, Entries
      <3>3. CASE p[2] = d
        BY <3>2, <3>3 DEF Improved
      <3>4. CASE p[2] # d
        BY <3>2, <3>4 DEF Improved
      <3> QED
        BY <3>3, <3>4
    <2> QED
      BY <2>1, <2>2
  <1> QED
    BY <1>2, <1>3, <1>4, <1>5 DEF Queue
\* What one look does to a search.
Looked(area, free, src, dst, current, s, t, seen, d) ==
    /\ During(area, free, src, dst, t, current, seen \cup {d})
    /\ t.closed = s.closed
    /\ t.status = "searching" =>
         /\ s.status = "searching"
         /\ Cardinality(t.open) <= Cardinality(s.open) + 1
         /\ d \in seen \/ d \notin area => t.open = s.open

\* One look at a neighbour keeps what the loop has to keep.
LEMMA LookKeeps ==
    ASSUME NEW area, NEW free, NEW src, NEW dst, Board(area, free, src, dst),
           NEW s, NEW current, NEW seen, During(area, free, src, dst, s, current, seen),
           NEW d, Adjacent(current, d),
           NEW t, t = Look(area, free, dst, current, s, d)
    PROVE  Looked(area, free, src, dst, current, s, t, seen, d)
  <1> DEFINE cost == s.g[current] + 1
             total == cost + Estimate(d, dst)
             idle == s.status = "found" \/ d \notin area
             meets == ~idle /\ d = dst
             better == /\ ~idle /\ d # dst /\ d \notin s.closed /\ d \in free
                       /\ s.f[d] = Unknown \/ s.f[d] > total
  <1>1. /\ Labels(area, free, src, dst, s.closed, s.g, s.f, s.parent)
        /\ current \in s.closed /\ current \in area
        /\ s.g \in [area -> Int] /\ s.f \in [area -> Int] /\ s.parent \in [area -> area]
    BY DEF During, Labels
  <1>2. ASSUME s.status = "searching"
        PROVE  /\ Queue(area, s.open, s.closed, s.g, s.f)
               /\ \A c \in s.closed \ {current}, e \in area : Relaxed(free, s.g, c, e)
               /\ \A e \in seen : Relaxed(free, s.g, current, e)
               /\ Adjacent(current, dst) => Beyond(free, src, dst, s.g[current] + 1)
               /\ Cardinality(s.open) \in Nat /\ s.status # "found"
    <2>1. /\ Queue(area, s.open, s.closed, s.g, s.f)
          /\ \A c \in s.closed \ {current}, e \in area : Relaxed(free, s.g, c, e)
          /\ \A e \in seen : Relaxed(free, s.g, current, e)
          /\ Adjacent(current, dst) => Beyond(free, src, dst, s.g[current] + 1)
          /\ s.status # "found"
      BY <1>2 DEF During
    <2>2. IsFiniteSet(s.open)
      BY <2>1 DEF Queue
    <2>3. Cardinality(s.open) \in Nat
      BY <2>2, FS_CardinalityType
    <2> QED
      BY <2>1, <2>3
  <1>3. s.status = "searching" \/ s.status = "found"
    BY DEF During
  <1>4. CASE idle
    <2>1. t = s
      BY <1>4 DEF Look
    <2>2. s.status = "searching" => Relaxed(free, s.g, current, d)
      BY <1>2, <1>4 DEF Relaxed, Board
    <2>3. During(area, free, src, dst, s, current, seen \cup {d})
      BY <2>2 DEF During
    <2>4. s.status = "searching" => Cardinality(s.open) <= Cardinality(s.open) + 1
      BY <1>2
    <2> QED
      BY <2>1, <2>3, <2>4 DEF Looked
  <1>5. CASE meets
    <2>1. /\ t.closed = s.closed /\ t.g = s.g /\ t.f = s.f
          /\ t.parent = [s.parent EXCEPT ![dst] = current] /\ t.status = "found"
      <3>1. t = Meet(s, current, dst)
        BY <1>5 DEF Look
      <3> QED
        BY <3>1 DEF Meet
    <2>2. dst \in area /\ s.status = "searching" /\ Adjacent(current, dst)
      BY <1>3, <1>5
    <2>3. s.g[dst] = Unknown /\ src # dst
      BY <1>1 DEF Labels, Board
    <2>4. /\ t.parent \in [area -> area] /\ t.parent[dst] = current
          /\ \A e \in area : e # dst => t.parent[e] = s.parent[e]
      BY <1>1, <2>1, <2>2
    <2>5. ASSUME NEW e \in area, s.g[e] # Unknown
          PROVE  Labelled(free, src, dst, s.closed, s.g, s.f, t.parent, e)
      <3>1. Labelled(free, src, dst, s.closed, s.g, s.f, s.parent, e)
        BY <1>1, <2>5 DEF Labels
      <3>2. e # dst
        BY <2>3, <2>5
      <3> QED
        BY <2>4, <3>1, <3>2 DEF Labelled
    <2>6. Labels(area, free, src, dst, s.closed, s.g, s.f, t.parent)
      <3>1. src \in area
        BY DEF Board
      <3> QED
        BY <1>1, <2>3, <2>4, <2>5, <3>1 DEF Labels
    <2>7. Met(free, src, dst, s.closed, s.g, t.parent)
      BY <1>1, <1>2, <2>2, <2>4 DEF Met
    <2>8. During(area, free, src, dst, t, current, seen \cup {d})
      BY <1>1, <2>1, <2>6, <2>7 DEF During
    <2> QED
      BY <2>1, <2>8 DEF Looked
  <1>6. CASE better
    <2> DEFINE g2 == [s.g EXCEPT ![d] = cost]
               f2 == [s.f EXCEPT ![d] = total]
               parent2 == [s.parent EXCEPT ![d] = current]
               open2 == s.open \cup {<<total, d>>}
    <2>1. /\ t.open = open2 /\ t.closed = s.closed /\ t.g = g2 /\ t.f = f2
          /\ t.parent = parent2 /\ t.status = s.status
      <3>1. t = Label(s, current, d, cost, total)
        BY <1>6 DEF Look
      <3> QED
        BY <3>1 DEF Label
    <2>2. /\ d \in area /\ d # dst /\ d \notin s.closed /\ d \in free
          /\ s.status = "searching"
          /\ s.f[d] = Unknown \/ s.f[d] > s.g[current] + 1 + Estimate(d, dst)
      BY <1>3, <1>6
    <2>3. PICK gg, ff, pp : gg = g2 /\ ff = f2 /\ pp = parent2
      OBVIOUS
    <2>4. Through(s.g, s.f, s.parent, gg, ff, pp, current, d, dst)
      BY <2>3 DEF Through
    <2>5. /\ Labels(area, free, src, dst, s.closed, gg, ff, pp)
          /\ Improved(area, s.g, s.f, gg, ff, d)
          /\ gg[d] = s.g[current] + 1
          /\ \A e \in s.closed : gg[e] = s.g[e]
      BY <1>1, <2>2, <2>4, RelaxKeeps
    <2>6. ff[d] = total
      BY <1>1, <2>2, <2>3
    <2>7. ASSUME NEW e \in area, s.g[e] # Unknown PROVE s.f[e] # Unknown
      <3>1. s.g[e] \in Nat /\ s.f[e] = IF e = src THEN 0 ELSE s.g[e] + Estimate(e, dst)
        BY <1>1, <2>7 DEF Labels, Labelled
      <3>2. Estimate(e, dst) \in Nat
        <4>1. e \in Int \X Int /\ dst \in Int \X Int
          BY DEF Board
        <4> QED
          BY <4>1, EstimateFacts
      <3>3. s.f[e] \in Nat
        BY <3>1, <3>2
      <3> QED
        BY <3>3 DEF Unknown
    <2>8. open2 = s.open \cup {<<ff[d], d>>}
      BY <2>6
    <2> HIDE DEF open2
    <2>9. Queue(area, open2, s.closed, gg, ff)
      BY <1>1, <1>2, <2>2, <2>5, <2>7, <2>8, RelaxLists
    <2>10. ASSUME NEW c \in s.closed, NEW e \in area, Relaxed(free, s.g, c, e)
           PROVE  Relaxed(free, gg, c, e)
      <3>1. c \in area /\ s.g[c] \in Int /\ s.g[e] \in Int /\ gg[e] \in Int
        <4>1. gg \in [area -> Int] /\ s.closed \in SUBSET area
          BY <2>5 DEF Labels
        <4> QED
          BY <1>1, <4>1
      <3>2. gg[c] = s.g[c] /\ (s.g[e] # Unknown => gg[e] # Unknown /\ gg[e] <= s.g[e])
        BY <2>5 DEF Improved
      <3> QED
        BY <2>10, <3>1, <3>2 DEF Relaxed
    <2>11. Relaxed(free, gg, current, d)
      <3>1. gg[current] = s.g[current]
        BY <1>1, <2>5
      <3> QED
        BY <1>1, <2>5, <3>1 DEF Relaxed, Improved
    <2>12. \A e \in seen \cup {d} : Relaxed(free, gg, current, e)
      <3>1. ASSUME NEW e \in seen PROVE Relaxed(free, gg, current, e)
        <4>1. CASE e \in area
          BY <1>1, <1>2, <2>2, <2>10, <3>1, <4>1
        <4>2. CASE e \notin area
          BY <4>2 DEF Relaxed, Board
        <4> QED
          BY <4>1, <4>2
      <3> QED
        BY <2>11, <3>1
    <2>13. Adjacent(current, dst) => Beyond(free, src, dst, gg[current] + 1)
      <3>1. gg[current] = s.g[current]
        BY <1>1, <2>5
      <3> QED
        BY <1>2, <2>2, <3>1
    <2>14. \A c \in s.closed \ {current}, e \in area : Relaxed(free, gg, c, e)
      BY <1>2, <2>2, <2>10
    <2>15. t.g = gg /\ t.f = ff /\ t.parent = pp /\ t.status = "searching"
      BY <2>1, <2>2, <2>3
    <2>16. During(area, free, src, dst, t, current, seen \cup {d})
      BY <1>1, <2>1, <2>5, <2>9, <2>12, <2>13, <2>14, <2>15 DEF During
    <2>17. d \notin seen
      <3>1. ASSUME d \in seen PROVE FALSE
        <4>1. Relaxed(free, s.g, current, d)
          BY <1>2, <2>2, <3>1
        <4>2. s.f[d] # Unknown /\ s.f[d] <= s.g[current] + 1 + Estimate(d, dst)
          BY <1>1, <2>2, <4>1, SeenSkipped
        <4>3. s.f[d] \in Int /\ s.g[current] + 1 + Estimate(d, dst) \in Int
          <5>1. d \in Int \X Int /\ dst \in Int \X Int
            BY <2>2 DEF Board
          <5>2. Estimate(d, dst) \in Nat
            BY <5>1, EstimateFacts
          <5> QED
            BY <1>1, <2>2, <5>2
        <4> QED
          BY <2>2, <4>2, <4>3
      <3> QED
        BY <3>1
    <2>18. Cardinality(open2) <= Cardinality(s.open) + 1
      <3>1. IsFiniteSet(s.open)
        BY <1>2, <2>2 DEF Queue
      <3>2. Cardinality(s.open \cup {<<total, d>>}) =
              IF <<total, d>> \in s.open THEN Cardinality(s.open) ELSE Cardinality(s.open) + 1
        BY <3>1, FS_AddElement
      <3> QED
        BY <1>2, <2>2, <3>2 DEF open2
    <2> QED
      BY <2>1, <2>2, <2>16, <2>17, <2>18 DEF Looked
  <1>7. CASE ~idle /\ ~meets /\ ~better
    <2>1. t = s
      BY <1>7 DEF Look
    <2>2. /\ d \in area /\ s.status = "searching" /\ d # dst
          /\ d \in s.closed \/ d \notin free
               \/ (s.f[d] # Unknown /\ ~ (s.f[d] > total))
      BY <1>3, <1>7
    <2>3. s.f[d] \in Int /\ total \in Int /\ total = s.g[current] + 1 + Estimate(d, dst)
      <3>1. d \in Int \X Int /\ dst \in Int \X Int
        BY <2>2 DEF Board
      <3>2. Estimate(d, dst) \in Nat
        BY <3>1, EstimateFacts
      <3> QED
        BY <1>1, <2>2, <3>2
    <2>4. d \in s.closed \/ d \notin free
            \/ (s.f[d] # Unknown /\ s.f[d] <= s.g[current] + 1 + Estimate(d, dst))
      BY <2>2, <2>3
    <2>5. Relaxed(free, s.g, current, d)
      BY <1>1, <2>2, <2>4, SkipKeeps
    <2>6. During(area, free, src, dst, s, current, seen \cup {d})
      BY <2>5 DEF During
    <2>7. Cardinality(s.open) <= Cardinality(s.open) + 1
      BY <1>2, <2>2
    <2> QED
      BY <2>1, <2>6, <2>7 DEF Looked
  <1> QED
    BY <1>4, <1>5, <1>6, <1>7
-----------------------------------------------------------------------------
(* A turn of the loop.                                                     *)

\* A cell that k steps lead to was expanded, or the way to it leads through
\* a cell that was reached and still has to be expanded.
LEMMA Frontier ==
    ASSUME NEW area, NEW free, NEW src, NEW dst, Board(area, free, src, dst),
           NEW closed, NEW g, NEW f, NEW parent,
           Labels(area, free, src, dst, closed, g, f, parent),
           \A c \in closed, d \in area : Relaxed(free, g, c, d),
           NEW k \in Nat, NEW x \in Within(free, src, k)
    PROVE  \/ x \in closed /\ g[x] <= k
           \/ \E y \in area \ closed : g[y] # Unknown /\ g[y] + Estimate(y, x) <= k
  <1> DEFINE Reached(i, c) == \/ c \in closed /\ g[c] <= i
                              \/ \E y \in area \ closed :
                                 g[y] # Unknown /\ g[y] + Estimate(y, c) <= i
             T == {i \in Nat : \A c \in Within(free, src, i) : Reached(i, c)}
  <1>1. /\ area \in SUBSET (Int \X Int) /\ free \in SUBSET area /\ src \in free
        /\ g \in [area -> Int] /\ closed \in SUBSET area /\ g[src] = 0
    BY DEF Board, Labels
  <1>2. /\ \A c : c \in Within(free, src, 0) <=> c = src
        /\ \A i \in Nat : Within(free, src, i) \in SUBSET free
        /\ \A i \in Nat : Within(free, src, i + 1) = Spread(free, Within(free, src, i))
    BY <1>1, WithinIs
  <1>3. ASSUME NEW c \in area, g[c] # Unknown PROVE Reached(g[c], c)
    <2>1. CASE c \in closed
      BY <1>1, <1>3, <2>1
    <2>2. CASE c \notin closed
      <3>1. c \in Int \X Int
        BY <1>1
      <3>2. Estimate(c, c) = 0
        BY <3>1, EstimateFacts
      <3>3. g[c] \in Int /\ g[c] + 0 <= g[c]
        BY <1>1
      <3> QED
        BY <1>3, <2>2, <3>2, <3>3
    <2> QED
      BY <2>1, <2>2
  <1>4. T \in SUBSET Nat
    OBVIOUS
  <1>5. 0 \in T
    <2>1. Reached(0, src)
      <3>1. src \in area /\ g[src] # Unknown
        BY <1>1 DEF Unknown
      <3>2. Reached(g[src], src)
        BY <1>3, <3>1
      <3> QED
        BY <1>1, <3>2
    <2> HIDE DEF Reached
    <2> QED
      BY <1>2, <2>1
  <1>6. ASSUME NEW i \in T PROVE i + 1 \in T
    <2>1. i \in Nat /\ i + 1 \in Nat
      OBVIOUS
    <2>2. ASSUME NEW c \in Within(free, src, i + 1) PROVE Reached(i + 1, c)
      <3>0. c \in free /\ c \in area
        BY <1>1, <1>2, <2>1, <2>2
      <3>1. CASE c \in Within(free, src, i)
        <4>1. Reached(i, c)
          BY <3>1
        <4>2. ASSUME NEW y \in area \ closed, g[y] + Estimate(y, c) <= i
              PROVE  g[y] + Estimate(y, c) <= i + 1
          <5>1. Estimate(y, c) \in Nat
            <6>1. y \in Int \X Int /\ c \in Int \X Int
              BY <1>1, <3>0
            <6> QED
              BY <6>1, EstimateFacts
          <5>2. g[y] \in Int
            BY <1>1
          <5> QED
            BY <2>1, <4>2, <5>1, <5>2
        <4>3. c \in closed /\ g[c] <= i => g[c] <= i + 1
          BY <1>1, <2>1
        <4> QED
          BY <4>1, <4>2, <4>3
      <3>2. CASE c \notin Within(free, src, i)
        <4>1. PICK z \in Within(free, src, i) : Adjacent(c, z)
          BY <1>2, <2>1, <3>2 DEF Spread
        <4>2. z \in area /\ Adjacent(z, c) /\ Reached(i, z)
          BY <1>1, <1>2, <2>1, <4>1, AdjacentSymmetric
        <4>3. CASE z \in closed /\ g[z] <= i
          <5>1. g[c] # Unknown /\ g[c] <= g[z] + 1
            BY <3>0, <4>2, <4>3 DEF Relaxed
          <5>2. g[c] \in Int /\ g[z] \in Int
            BY <1>1, <3>0, <4>2
          <5>3. g[c] <= i + 1
            BY <2>1, <4>3, <5>1, <5>2
          <5>4. CASE c \in closed
            BY <5>3, <5>4
          <5>5. CASE c \notin closed
            <6>1. Estimate(c, c) = 0
              <7>1. c \in Int \X Int
                BY <1>1, <3>0
              <7> QED
                BY <7>1, EstimateFacts
            <6>2. g[c] + Estimate(c, c) <= i + 1
              BY <5>2, <5>3, <6>1
            <6> QED
              BY <3>0, <5>1, <5>5, <6>2
          <5> QED
            BY <5>4, <5>5
        <4>4. CASE \E y \in area \ closed : g[y] # Unknown /\ g[y] + Estimate(y, z) <= i
          <5>1. PICK y \in area \ closed : g[y] # Unknown /\ g[y] + Estimate(y, z) <= i
            BY <4>4
          <5>2. y \in Int \X Int /\ z \in Int \X Int /\ c \in Int \X Int
            BY <1>1, <3>0, <4>2
          <5>3. /\ Estimate(y, z) \in Nat /\ Estimate(y, c) \in Nat
                /\ Estimate(y, c) <= Estimate(y, z) + Estimate(z, c) /\ Estimate(z, c) = 1
            BY <4>2, <5>2, EstimateFacts
          <5>4. g[y] \in Int
            BY <1>1
          <5>5. g[y] + Estimate(y, c) <= i + 1
            BY <2>1, <5>1, <5>3, <5>4
          <5> QED
            BY <5>1, <5>5
        <4> QED
          BY <4>2, <4>3, <4>4
      <3> QED
        BY <3>1, <3>2
    <2> HIDE DEF Reached
    <2> QED
      BY <2>1, <2>2
  <1>7. T = Nat
    <2> HIDE DEF T
    <2> QED
      BY <1>4, <1>5, <1>6, Induct
  <1>8. k \in T
    BY <1>7
  <1> QED
    BY <1>8

\* What the cheapest entry says of its cell.
LEMMA CheapestKnows ==
    ASSUME NEW area, NEW free, NEW src, NEW dst, Board(area, free, src, dst),
           NEW closed, NEW g, NEW f, NEW parent, NEW open,
           Labels(area, free, src, dst, closed, g, f, parent),
           Queue(area, open, closed, g, f), open # {},
           NEW least, least = Cheapest(open), NEW c, c = least[2]
    PROVE  /\ least \in open /\ c \in area /\ g[c] # Unknown
           /\ c \notin closed => least = <<f[c], c>>
           /\ \A y \in area \ closed :
                c \notin closed /\ g[y] # Unknown => f[c] <= f[y]
  <1>1. /\ least \in open /\ \A q \in open : Before(least, q)
    BY CheapestIs DEF Board, Queue
  <1>2. /\ least = <<least[1], c>> /\ least[1] \in Int /\ c \in area
        /\ g[c] # Unknown /\ f[c] <= least[1] /\ f \in [area -> Int]
    BY <1>1 DEF Queue, Entries, Labels
  <1>3. \A q \in open : least[1] <= q[1]
    <2>1. ASSUME NEW q \in open PROVE least[1] <= q[1]
      <3>1. Before(least, q) /\ q[1] \in Int
        BY <1>1 DEF Queue, Entries
      <3> QED
        BY <1>2, <3>1 DEF Before
    <2> QED
      BY <2>1
  <1>4. ASSUME NEW y \in area \ closed, g[y] # Unknown PROVE least[1] <= f[y]
    <2>1. <<f[y], y>> \in open
      BY <1>4 DEF Queue
    <2>2. least[1] <= <<f[y], y>>[1]
      BY <1>3, <2>1
    <2> QED
      BY <2>2
  <1>5. c \notin closed => least[1] = f[c]
    BY <1>2, <1>4
  <1> QED
    BY <1>1, <1>2, <1>4, <1>5

\* A cell that is expanded for the first time has its distance for a label,
\* and from a neighbour of dst no shorter way to dst is left to be found.
LEMMA PopExact ==
    ASSUME NEW area, NEW free, NEW src, NEW dst, Board(area, free, src, dst),
           NEW closed, NEW g, NEW f, NEW parent,
           Labels(area, free, src, dst, closed, g, f, parent),
           \A d \in closed, e \in area : Relaxed(free, g, d, e),
           NEW c \in area, c \notin closed, g[c] # Unknown,
           \A y \in area \ closed : g[y] # Unknown => f[c] <= f[y]
    PROVE  /\ Beyond(free, src, c, g[c])
           /\ Adjacent(c, dst) => Beyond(free, src, dst, g[c] + 1)
  <1>1. /\ g[c] \in Nat /\ c \in Int \X Int /\ dst \in Int \X Int /\ dst \in area
        /\ area \in SUBSET (Int \X Int) /\ g \in [area -> Int] /\ g[dst] = Unknown
        /\ f[c] = IF c = src THEN 0 ELSE g[c] + Estimate(c, dst)
        /\ c = src => g[c] = 0
    BY DEF Board, Labels, Labelled
  <1>2. ASSUME NEW y \in area \ closed, g[y] # Unknown
        PROVE  f[c] <= g[y] + Estimate(y, dst) /\ g[y] \in Nat /\ Estimate(y, dst) \in Nat
    <2>1. y \in Int \X Int
      BY <1>1
    <2>2. Estimate(y, dst) \in Nat
      BY <1>1, <2>1, EstimateFacts
    <2>3. /\ g[y] \in Nat /\ f[y] = IF y = src THEN 0 ELSE g[y] + Estimate(y, dst)
      BY <1>2 DEF Labels, Labelled
    <2>4. f[c] <= f[y]
      BY <1>2
    <2>5. Estimate(c, dst) \in Nat
      BY <1>1, EstimateFacts
    <2>6. f[c] \in Int
      BY <1>1, <2>5
    <2> QED
      BY <2>2, <2>3, <2>4, <2>6
  <1>3. Estimate(c, dst) \in Nat /\ (Adjacent(c, dst) => Estimate(c, dst) = 1)
    BY <1>1, EstimateFacts
  <1>4. ASSUME NEW k \in Nat, NEW x \in Within(free, src, k), x \notin closed
        PROVE  \E y \in area \ closed : g[y] # Unknown /\ g[y] + Estimate(y, x) <= k
    BY <1>4, Frontier
  <1>5. ASSUME NEW k \in Nat, k < g[c], c \in Within(free, src, k) PROVE FALSE
    <2>1. PICK y \in area \ closed : g[y] # Unknown /\ g[y] + Estimate(y, c) <= k
      BY <1>5, <1>4
    <2>2. y \in Int \X Int
      BY <1>1
    <2>3. /\ Estimate(y, dst) <= Estimate(y, c) + Estimate(c, dst)
          /\ Estimate(y, c) \in Nat
      BY <1>1, <2>2, EstimateFacts
    <2>4. f[c] <= g[y] + Estimate(y, dst) /\ g[y] \in Nat /\ Estimate(y, dst) \in Nat
      BY <1>2, <2>1
    <2>5. c # src
      BY <1>1, <1>5
    <2> QED
      BY <1>1, <1>3, <1>5, <2>1, <2>3, <2>4, <2>5
  <1>6. ASSUME Adjacent(c, dst), NEW k \in Nat, k < g[c] + 1, dst \in Within(free, src, k)
        PROVE  FALSE
    <2>1. dst \notin closed
      BY <1>1 DEF Labels
    <2>2. PICK y \in area \ closed : g[y] # Unknown /\ g[y] + Estimate(y, dst) <= k
      BY <1>6, <1>4, <2>1
    <2>3. f[c] <= g[y] + Estimate(y, dst) /\ g[y] \in Nat /\ Estimate(y, dst) \in Nat
      BY <1>2, <2>2
    <2>4. CASE c # src
      BY <1>1, <1>3, <1>6, <2>2, <2>3, <2>4
    <2>5. CASE c = src
      <3>1. k = 0
        BY <1>1, <1>6, <2>5
      <3>2. src \in free /\ src # dst
        BY DEF Board
      <3>3. dst \in Within(free, src, 0) <=> dst = src
        BY <3>2, WithinIs
      <3> QED
        BY <1>6, <3>1, <3>2, <3>3
    <2> QED
      BY <2>4, <2>5
  <1> QED
    BY <1>5, <1>6 DEF Beyond
\* The state in which a turn looks at the first neighbour.
Popped(s, least) ==
    [open |-> s.open \ {least}, closed |-> s.closed \cup {least[2]},
     g |-> s.g, f |-> s.f, parent |-> s.parent, status |-> s.status]

Pops(s, least, c, p) == least = Cheapest(s.open) /\ c = least[2] /\ p = Popped(s, least)

\* A cell that is expanded again has nothing left to look at.
LEMMA PopKeeps ==
    ASSUME NEW area, NEW free, NEW src, NEW dst, Board(area, free, src, dst),
           NEW s, Between(area, free, src, dst, s), ~Ended(s),
           NEW least, NEW c, NEW p, Pops(s, least, c, p),
           NEW seen \in SUBSET area, \A d \in seen : c \in s.closed
    PROVE  /\ During(area, free, src, dst, p, c, seen) /\ p.status = "searching"
           /\ c \in area /\ least \in s.open /\ IsFiniteSet(s.open)
           /\ p.open = s.open \ {least} /\ p.closed = s.closed \cup {c}
  <1>1. /\ Labels(area, free, src, dst, s.closed, s.g, s.f, s.parent)
        /\ Queue(area, s.open, s.closed, s.g, s.f)
        /\ \A d \in s.closed, e \in area : Relaxed(free, s.g, d, e)
        /\ s.status = "searching" /\ s.open # {}
    BY DEF Between, Ended
  <1>2. /\ p.open = s.open \ {least} /\ p.closed = s.closed \cup {c} /\ p.g = s.g
        /\ p.f = s.f /\ p.parent = s.parent /\ p.status = "searching"
    BY <1>1 DEF Pops, Popped
  <1>3. PICK closed, open, g, f, parent :
          closed = s.closed /\ open = s.open /\ g = s.g /\ f = s.f /\ parent = s.parent
    OBVIOUS
  <1>4. /\ Labels(area, free, src, dst, closed, g, f, parent)
        /\ Queue(area, open, closed, g, f) /\ open # {} /\ least = Cheapest(open)
        /\ \A d \in closed, e \in area : Relaxed(free, g, d, e)
    BY <1>1, <1>3 DEF Pops
  <1>5. /\ least \in open /\ c \in area /\ g[c] # Unknown
        /\ c \notin closed => least = <<f[c], c>>
        /\ \A y \in area \ closed : c \notin closed /\ g[y] # Unknown => f[c] <= f[y]
    BY <1>4, CheapestKnows DEF Pops
  <1>6. c \notin closed => /\ Beyond(free, src, c, g[c])
                           /\ Adjacent(c, dst) => Beyond(free, src, dst, g[c] + 1)
    BY <1>4, <1>5, PopExact
  <1>7. /\ Beyond(free, src, c, g[c])
        /\ Adjacent(c, dst) => Beyond(free, src, dst, g[c] + 1)
    <2>1. CASE c \in closed
      <3>1. ~Adjacent(c, dst)
        <4>1. dst \in area /\ dst \in free /\ g[dst] = Unknown
          BY <1>4 DEF Board, Labels
        <4>2. Relaxed(free, g, c, dst)
          BY <1>4, <2>1, <4>1
        <4> QED
          BY <4>1, <4>2 DEF Relaxed
      <3>2. Beyond(free, src, c, g[c])
        BY <1>4, <2>1 DEF Labels
      <3> QED
        BY <3>1, <3>2
    <2> QED
      BY <1>6, <2>1
  <1> DEFINE wider == closed \cup {c}
             fewer == open \ {least}
  <1>8. Labels(area, free, src, dst, wider, g, f, parent)
    <2>1. ASSUME NEW e \in area, g[e] # Unknown
          PROVE  Labelled(free, src, dst, wider, g, f, parent, e)
      <3>1. Labelled(free, src, dst, closed, g, f, parent, e)
        BY <1>4, <2>1 DEF Labels
      <3> QED
        BY <3>1 DEF Labelled
    <2>2. \A e \in wider : g[e] # Unknown /\ Beyond(free, src, e, g[e])
      BY <1>4, <1>5, <1>7 DEF Labels
    <2>3. wider \in SUBSET area
      BY <1>4, <1>5 DEF Labels
    <2> HIDE DEF wider
    <2> QED
      BY <1>4, <2>1, <2>2, <2>3 DEF Labels
  <1>9. Queue(area, fewer, wider, g, f)
    <2>1. fewer \in SUBSET Entries(area) /\ IsFiniteSet(open)
      BY <1>4 DEF Queue
    <2>2. IsFiniteSet(fewer)
      BY <2>1, FS_Subset
    <2>3. ASSUME NEW e \in area \ wider, g[e] # Unknown PROVE <<f[e], e>> \in fewer
      <3>1. <<f[e], e>> \in open
        BY <1>4, <2>3 DEF Queue
      <3>2. <<f[e], e>> # least
        <4>1. <<f[e], e>>[2] = e /\ e # c
          BY <2>3
        <4> QED
          BY <4>1 DEF Pops
      <3> QED
        BY <3>1, <3>2
    <2>4. \A q \in fewer : g[q[2]] # Unknown /\ f[q[2]] <= q[1]
      BY <1>4 DEF Queue
    <2> HIDE DEF fewer, wider
    <2> QED
      BY <2>1, <2>2, <2>3, <2>4 DEF Queue
  <1>10. \A d \in wider \ {c}, e \in area : Relaxed(free, g, d, e)
    BY <1>4
  <1>11. \A e \in seen : Relaxed(free, g, c, e)
    BY <1>3, <1>4
  <1>12. /\ p.open = fewer /\ p.closed = wider /\ p.g = g /\ p.f = f /\ p.parent = parent
         /\ c \in wider
    BY <1>2, <1>3
  <1> HIDE DEF fewer, wider
  <1>13. During(area, free, src, dst, p, c, seen)
    BY <1>2, <1>7, <1>8, <1>9, <1>10, <1>11, <1>12 DEF During
  <1>14. IsFiniteSet(s.open) /\ least \in s.open
    BY <1>1, <1>3, <1>5 DEF Queue
  <1> QED
    BY <1>2, <1>5, <1>13, <1>14

\* What is left to do at most.
Measure(area, s) == 5 * Cardinality(area \ s.closed) + Cardinality(s.open)

\* One turn of the loop keeps the invariant and lowers the measure.
LEMMA ExpandKeeps ==
    ASSUME NEW area, NEW free, NEW src, NEW dst, Board(area, free, src, dst),
           NEW s, Between(area, free, src, dst, s), ~Ended(s),
           NEW t, t = Expand(area, free, dst, s)
    PROVE  /\ Between(area, free, src, dst, t)
           /\ t.status = "searching" => Measure(area, t) < Measure(area, s)
  <1>1. s.status = "searching" /\ s.open # {}
    BY DEF Between, Ended
  <1>2. PICK least, c, p, seen :
          /\ least = Cheapest(s.open) /\ c = least[2] /\ p = Popped(s, least)
          /\ seen = IF c \in s.closed THEN area ELSE {}
    OBVIOUS
  <1>3. /\ During(area, free, src, dst, p, c, seen) /\ p.status = "searching"
        /\ c \in area /\ least \in s.open /\ IsFiniteSet(s.open)
        /\ p.open = s.open \ {least} /\ p.closed = s.closed \cup {c}
    <2>1. Pops(s, least, c, p)
      BY <1>2 DEF Pops
    <2>2. seen \in SUBSET area /\ \A d \in seen : c \in s.closed
      BY <1>2
    <2> QED
      BY <2>1, <2>2, PopKeeps
  <1>4. PICK d1, d2, d3, d4, s1, s2, s3 :
          /\ d1 = Neighbours(c)[1] /\ d2 = Neighbours(c)[2]
          /\ d3 = Neighbours(c)[3] /\ d4 = Neighbours(c)[4]
          /\ s1 = Look(area, free, dst, c, p, d1)
          /\ s2 = Look(area, free, dst, c, s1, d2)
          /\ s3 = Look(area, free, dst, c, s2, d3)
    OBVIOUS
  <1>5. t = Look(area, free, dst, c, s3, d4)
    BY <1>2, <1>4 DEF Expand, Popped
  <1>6. /\ c \in Int \X Int /\ d1 \in Int \X Int /\ d2 \in Int \X Int
        /\ d3 \in Int \X Int /\ d4 \in Int \X Int
    <2>1. c \in Int \X Int
      BY <1>3 DEF Board
    <2> QED
      BY <1>4, <2>1 DEF Neighbours
  <1>7. \A d \in Int \X Int : Adjacent(c, d) <=> d = d1 \/ d = d2 \/ d = d3 \/ d = d4
    <2>1. \A i : i \in 1 .. 4 <=> i = 1 \/ i = 2 \/ i = 3 \/ i = 4
      OBVIOUS
    <2>2. ASSUME NEW d \in Int \X Int
          PROVE  Adjacent(c, d) <=> d = d1 \/ d = d2 \/ d = d3 \/ d = d4
      <3>1. Adjacent(c, d) <=> \E i \in 1 .. 4 : d = Neighbours(c)[i]
        BY <1>6, AdjacentNeighbours
      <3> QED
        BY <1>4, <2>1, <3>1
    <2> QED
      BY <2>2
  <1>8. Adjacent(c, d1) /\ Adjacent(c, d2) /\ Adjacent(c, d3) /\ Adjacent(c, d4)
    BY <1>6, <1>7
  <1>9. PICK n1, n2, n3, n4 :
          /\ n1 = seen \cup {d1} /\ n2 = n1 \cup {d2} /\ n3 = n2 \cup {d3} /\ n4 = n3 \cup {d4}
    OBVIOUS
  <1>10. Looked(area, free, src, dst, c, p, s1, seen, d1)
    BY <1>3, <1>4, <1>8, LookKeeps
  <1>11. Looked(area, free, src, dst, c, s1, s2, n1, d2)
    <2>1. During(area, free, src, dst, s1, c, n1)
      BY <1>9, <1>10 DEF Looked
    <2> QED
      BY <1>4, <1>8, <2>1, LookKeeps
  <1>12. Looked(area, free, src, dst, c, s2, s3, n2, d3)
    <2>1. During(area, free, src, dst, s2, c, n2)
      BY <1>9, <1>11 DEF Looked
    <2> QED
      BY <1>4, <1>8, <2>1, LookKeeps
  <1>13. Looked(area, free, src, dst, c, s3, t, n3, d4)
    <2>1. During(area, free, src, dst, s3, c, n3)
      BY <1>9, <1>12 DEF Looked
    <2> QED
      BY <1>5, <1>8, <2>1, LookKeeps
  <1>14. Between(area, free, src, dst, t)
    <2>1. During(area, free, src, dst, t, c, n4)
      BY <1>9, <1>13 DEF Looked
    <2>2. ASSUME NEW d \in area, t.status = "searching" PROVE Relaxed(free, t.g, c, d)
      <3>1. \A e \in n4 : Relaxed(free, t.g, c, e)
        BY <2>1, <2>2 DEF During
      <3>2. d \in Int \X Int
        BY DEF Board
      <3>3. Adjacent(c, d) => d \in n4
        BY <1>7, <1>9, <3>2
      <3> QED
        BY <3>1, <3>3 DEF Relaxed
    <2> QED
      BY <2>1, <2>2 DEF During, Between
  <1>15. ASSUME t.status = "searching" PROVE Measure(area, t) < Measure(area, s)
    <2>1. /\ s3.status = "searching" /\ s2.status = "searching" /\ s1.status = "searching"
          /\ t.closed = s3.closed /\ s3.closed = s2.closed /\ s2.closed = s1.closed
          /\ s1.closed = p.closed
          /\ Cardinality(t.open) <= Cardinality(s3.open) + 1
          /\ Cardinality(s3.open) <= Cardinality(s2.open) + 1
          /\ Cardinality(s2.open) <= Cardinality(s1.open) + 1
          /\ Cardinality(s1.open) <= Cardinality(p.open) + 1
      BY <1>10, <1>11, <1>12, <1>13, <1>15 DEF Looked
    <2>2. /\ IsFiniteSet(t.open) /\ IsFiniteSet(s3.open) /\ IsFiniteSet(s2.open)
          /\ IsFiniteSet(s1.open) /\ IsFiniteSet(p.open)
      BY <1>3, <1>10, <1>11, <1>12, <1>13, <1>15, <2>1 DEF Looked, During, Queue
    <2>3. /\ Cardinality(t.open) \in Nat /\ Cardinality(s3.open) \in Nat
          /\ Cardinality(s2.open) \in Nat /\ Cardinality(s1.open) \in Nat
          /\ Cardinality(p.open) \in Nat /\ Cardinality(s.open) \in Nat
      BY <1>3, <2>2, FS_CardinalityType
    <2>4. Cardinality(p.open) = Cardinality(s.open) - 1
      <3>1. Cardinality(s.open \ {least}) = Cardinality(s.open) - 1
        BY <1>3, FS_RemoveElement
      <3> QED
        BY <1>3, <3>1
    <2>5. t.closed = s.closed \cup {c}
      BY <1>3, <2>1
    <2>6. IsFiniteSet(area) /\ IsFiniteSet(area \ s.closed)
      <3>1. IsFiniteSet(area)
        BY DEF Board
      <3> QED
        BY <3>1, FS_Subset
    <2>7. Cardinality(area \ s.closed) \in Nat
      BY <2>6, FS_CardinalityType
    <2>8. CASE c \notin s.closed
      <3>1. c \in area \ s.closed
        BY <1>3, <2>8
      <3> DEFINE rest == area \ s.closed
      <3> HIDE DEF rest
      <3>2. Cardinality(rest \ {c}) = Cardinality(rest) - 1
        BY <2>6, <3>1, FS_RemoveElement DEF rest
      <3>3. area \ t.closed = rest \ {c}
        BY <2>5 DEF rest
      <3>4. Cardinality(area \ t.closed) = Cardinality(area \ s.closed) - 1
        BY <3>2, <3>3 DEF rest
      <3>5. Cardinality(t.open) <= Cardinality(s.open) + 3
        BY <2>1, <2>3, <2>4
      <3> QED
        BY <2>3, <2>7, <3>4, <3>5 DEF Measure
    <2>9. CASE c \in s.closed
      <3>1. seen = area /\ t.closed = s.closed
        BY <1>2, <2>5, <2>9
      <3>2. t.open = p.open
        BY <1>9, <1>10, <1>11, <1>12, <1>13, <1>15, <2>1, <3>1 DEF Looked
      <3> QED
        BY <2>3, <2>4, <2>7, <3>1, <3>2 DEF Measure
    <2> QED
      BY <2>8, <2>9
  <1> QED
    BY <1>14, <1>15
-----------------------------------------------------------------------------
(* The loop.                                                               *)

States(area) ==
    [open : SUBSET Entries(area), closed : SUBSET area, g : [area -> Int],
     f : [area -> Int], parent : [area -> area], status : {"searching", "found"}]

\* The search states of an area are closed under the looks of a turn.
LEMMA LookTypes ==
    ASSUME NEW area \in SUBSET (Int \X Int), NEW free, NEW dst \in area, NEW c \in area,
           NEW s \in States(area), NEW d
    PROVE  Look(area, free, dst, c, s, d) \in States(area)
  <1> DEFINE cost == s.g[c] + 1
             total == cost + Estimate(d, dst)
  <1>1. /\ s.open \in SUBSET Entries(area) /\ s.closed \in SUBSET area
        /\ s.g \in [area -> Int] /\ s.f \in [area -> Int] /\ s.parent \in [area -> area]
        /\ s.status \in {"searching", "found"}
    BY DEF States
  <1>2. Meet(s, c, dst) \in States(area)
    <2>1. [s.parent EXCEPT ![dst] = c] \in [area -> area]
      BY <1>1
    <2> QED
      BY <1>1, <2>1 DEF Meet, States
  <1>3. ASSUME d \in area PROVE Label(s, c, d, cost, total) \in States(area)
    <2>1. Estimate(d, dst) \in Nat
      <3>1. d \in Int \X Int /\ dst \in Int \X Int
        BY <1>3
      <3> QED
        BY <3>1, EstimateFacts
    <2>2. cost \in Int /\ total \in Int
      BY <1>1, <2>1
    <2> HIDE DEF cost, total
    <2>3. /\ [s.g EXCEPT ![d] = cost] \in [area -> Int]
          /\ [s.f EXCEPT ![d] = total] \in [area -> Int]
          /\ [s.parent EXCEPT ![d] = c] \in [area -> area]
      BY <1>1, <2>2
    <2>4. s.open \cup {<<total, d>>} \in SUBSET Entries(area)
      BY <1>1, <1>3, <2>2 DEF Entries
    <2> QED
      BY <1>1, <2>3, <2>4 DEF Label, States
  <1>4. \/ Look(area, free, dst, c, s, d) = s
        \/ Look(area, free, dst, c, s, d) = Meet(s, c, dst)
        \/ d \in area /\ Look(area, free, dst, c, s, d) = Label(s, c, d, cost, total)
    BY DEF Look
  <1> QED
    BY <1>2, <1>3, <1>4

LEMMA ExpandTypes ==
    ASSUME NEW area, NEW free, NEW src, NEW dst, Board(area, free, src, dst),
           NEW s \in States(area), Between(area, free, src, dst, s), ~Ended(s)
    PROVE  Expand(area, free, dst, s) \in States(area)
  <1>1. PICK least, c, p : Pops(s, least, c, p)
    BY DEF Pops
  <1>2. /\ p.open = s.open \ {least} /\ p.closed = s.closed \cup {c} /\ c \in area
    <2> DEFINE seen == {}
    <2>1. seen \in SUBSET area /\ \A d \in seen : c \in s.closed
      OBVIOUS
    <2> HIDE DEF seen
    <2> QED
      BY <1>1, <2>1, PopKeeps
  <1>3. p \in States(area)
    <2>1. p = [open |-> p.open, closed |-> p.closed, g |-> s.g, f |-> s.f,
               parent |-> s.parent, status |-> s.status]
      BY <1>1 DEF Pops, Popped
    <2>2. p.open \in SUBSET Entries(area) /\ p.closed \in SUBSET area
      BY <1>2 DEF States
    <2> QED
      BY <2>1, <2>2 DEF States
  <1>4. PICK d1, d2, d3, d4, s1, s2, s3 :
          /\ d1 = Neighbours(c)[1] /\ d2 = Neighbours(c)[2]
          /\ d3 = Neighbours(c)[3] /\ d4 = Neighbours(c)[4]
          /\ s1 = Look(area, free, dst, c, p, d1)
          /\ s2 = Look(area, free, dst, c, s1, d2)
          /\ s3 = Look(area, free, dst, c, s2, d3)
    OBVIOUS
  <1>5. Expand(area, free, dst, s) = Look(area, free, dst, c, s3, d4)
    BY <1>1, <1>4 DEF Expand, Pops, Popped
  <1>6. area \in SUBSET (Int \X Int) /\ dst \in area
    BY DEF Board
  <1>7. s1 \in States(area)
    BY <1>2, <1>3, <1>4, <1>6, LookTypes
  <1>8. s2 \in States(area)
    BY <1>2, <1>4, <1>6, <1>7, LookTypes
  <1>9. s3 \in States(area)
    BY <1>2, <1>4, <1>6, <1>8, LookTypes
  <1> QED
    BY <1>2, <1>5, <1>6, <1>9, LookTypes

LEMMA StartTypes ==
    ASSUME NEW area, NEW free, NEW src, NEW dst, Board(area, free, src, dst)
    PROVE  Start(area, src) \in States(area)
  <1>1. src \in area
    BY DEF Board
  <1>2. /\ [c \in area |-> IF c = src THEN 0 ELSE Unknown] \in [area -> Int]
        /\ [c \in area |-> c] \in [area -> area]
    BY DEF Unknown
  <1>3. {<<0, src>>} \in SUBSET Entries(area)
    BY <1>1 DEF Entries
  <1> QED
    BY <1>2, <1>3 DEF Start, States

Turn(area, free, dst, s) == IF Ended(s) THEN s ELSE Expand(area, free, dst, s)

\* The recursive definition of the search says what it seems to say.
LEMMA RunStep ==
    ASSUME NEW area, NEW free, NEW src, NEW dst, Board(area, free, src, dst)
    PROVE  LET run == SearchRun(area, free, src, dst)
           IN /\ run[0] = Start(area, src)
              /\ \A k \in Nat : run[k + 1] = Turn(area, free, dst, run[k])
              /\ \A k \in Nat : Between(area, free, src, dst, run[k])
  <1> DEFINE Good == {s \in States(area) : Between(area, free, src, dst, s)}
             turn == [s \in Good |-> Turn(area, free, dst, s)]
             run == SearchRun(area, free, src, dst)
             first == Start(area, src)
             Body(h) == [k \in Nat |-> IF k = 0 THEN first
                                       ELSE IF Ended(h[k - 1]) THEN h[k - 1]
                                       ELSE Expand(area, free, dst, h[k - 1])]
  <1>1. first \in Good
    BY StartHolds, StartTypes
  <1>2. ASSUME NEW s \in Good PROVE Turn(area, free, dst, s) \in Good
    <2>1. s \in States(area) /\ Between(area, free, src, dst, s)
      OBVIOUS
    <2>2. ASSUME ~Ended(s)
          PROVE  /\ Expand(area, free, dst, s) \in States(area)
                 /\ Between(area, free, src, dst, Expand(area, free, dst, s))
      BY <2>1, <2>2, ExpandKeeps, ExpandTypes
    <2> QED
      BY <2>1, <2>2 DEF Turn
  <1>3. turn \in [Good -> Good]
    BY <1>2
  <1>4. PICK g : IsRun(g, Good, turn, first)
    <2> HIDE DEF Good, turn, first
    <2> QED
      BY <1>1, <1>3, Repeated
  <1>5. g = Body(g)
    <2>1. ASSUME NEW k \in Nat, k # 0
          PROVE  g[k] = IF Ended(g[k - 1]) THEN g[k - 1]
                        ELSE Expand(area, free, dst, g[k - 1])
      <3>1. k - 1 \in Nat /\ (k - 1) + 1 = k
        BY <2>1
      <3>2. g[(k - 1) + 1] = turn[g[k - 1]] /\ g[k - 1] \in Good
        BY <3>1, <1>4 DEF IsRun
      <3>3. g[k] = Turn(area, free, dst, g[k - 1])
        <4> HIDE DEF Good
        <4> QED
          BY <3>1, <3>2
      <3> QED
        BY <3>3 DEF Turn
    <2>2. g = [k \in Nat |-> g[k]] /\ g[0] = first
      BY <1>4 DEF IsRun
    <2> HIDE DEF first
    <2> QED
      BY <2>1, <2>2
  <1>6. run = CHOOSE h : h = Body(h)
    BY DEF SearchRun
  <1>7. run = Body(run)
    <2> HIDE DEF Body, run
    <2> QED
      BY <1>5, <1>6
  <1> HIDE DEF run, first
  <1>8. run[0] = first
    BY <1>7
  <1>9. ASSUME NEW k \in Nat PROVE run[k + 1] = Turn(area, free, dst, run[k])
    <2>1. k + 1 \in Nat /\ k + 1 # 0 /\ (k + 1) - 1 = k
      OBVIOUS
    <2>2. run[k + 1] = IF Ended(run[(k + 1) - 1]) THEN run[(k + 1) - 1]
                       ELSE Expand(area, free, dst, run[(k + 1) - 1])
      BY <1>7, <2>1
    <2> QED
      BY <2>1, <2>2 DEF Turn
  <1> DEFINE T == {k \in Nat : run[k] \in Good}
  <1>10. T = Nat
    <2> HIDE DEF Good
    <2>1. T \in SUBSET Nat /\ 0 \in T /\ \A k \in T : k + 1 \in T
      BY <1>1, <1>2, <1>8, <1>9
    <2> HIDE DEF T
    <2> QED
      BY <2>1, Induct
  <1>11. \A k \in Nat : Between(area, free, src, dst, run[k])
    BY <1>10
  <1> QED
    BY <1>8, <1>9, <1>11 DEF run, first
\* Without an entry in openList the measure may be 0, with one it is not.
LEMMA MeasureTypes ==
    ASSUME NEW area, NEW free, NEW src, NEW dst, Board(area, free, src, dst),
           NEW s, Between(area, free, src, dst, s), s.status = "searching"
    PROVE  Measure(area, s) \in Nat /\ (s.open # {} => Measure(area, s) > 0)
  <1>1. IsFiniteSet(area) /\ IsFiniteSet(s.open)
    BY DEF Board, Between, Queue
  <1>2. IsFiniteSet(area \ s.closed)
    BY <1>1, FS_Subset
  <1>3. Cardinality(area \ s.closed) \in Nat /\ Cardinality(s.open) \in Nat
    BY <1>1, <1>2, FS_CardinalityType
  <1>4. Cardinality(s.open) = 0 <=> s.open = {}
    BY <1>1, FS_EmptySet
  <1> QED
    BY <1>3, <1>4 DEF Measure

\* The loop ends, and within the turns that Search looks at.
LEMMA RunEnds ==
    ASSUME NEW area, NEW free, NEW src, NEW dst, Board(area, free, src, dst)
    PROVE  \E k \in 0 .. Turns(area) : Ended(SearchRun(area, free, src, dst)[k])
  <1> DEFINE run == SearchRun(area, free, src, dst)
             last == Turns(area)
             T == {k \in Nat : \/ \E j \in 0 .. k : Ended(run[j])
                               \/ /\ run[k].status = "searching"
                                  /\ Measure(area, run[k]) + k <= last}
  <1>1. /\ run[0] = Start(area, src)
        /\ \A k \in Nat : run[k + 1] = Turn(area, free, dst, run[k])
        /\ \A k \in Nat : Between(area, free, src, dst, run[k])
    BY RunStep
  <1>2. last \in Nat /\ last = 5 * Cardinality(area) + 1 /\ Cardinality(area) \in Nat
    <2>1. IsFiniteSet(area)
      BY DEF Board
    <2>2. Cardinality(area) \in Nat
      BY <2>1, FS_CardinalityType
    <2> QED
      BY <2>2 DEF Turns
  <1> HIDE DEF run, last
  <1>3. T \in SUBSET Nat
    OBVIOUS
  <1>4. 0 \in T
    <2>1. Start(area, src).status = "searching" /\ Start(area, src).closed = {}
      BY DEF Start
    <2>2. Cardinality(Start(area, src).open) = 1
      BY StartHolds
    <2>3. area \ Start(area, src).closed = area
      BY <2>1
    <2>4. Measure(area, Start(area, src)) = 5 * Cardinality(area) + 1
      BY <2>2, <2>3 DEF Measure
    <2>5. run[0].status = "searching" /\ Measure(area, run[0]) = last
      BY <1>1, <1>2, <2>1, <2>4
    <2> QED
      BY <1>2, <2>5
  <1>5. ASSUME NEW k \in T PROVE k + 1 \in T
    <2>1. k \in Nat /\ k + 1 \in Nat /\ Between(area, free, src, dst, run[k])
          /\ Between(area, free, src, dst, run[k + 1])
      BY <1>1
    <2>2. CASE \E j \in 0 .. k : Ended(run[j])
      <3>1. PICK j \in 0 .. k : Ended(run[j])
        BY <2>2
      <3>2. j \in 0 .. k + 1
        BY <2>1
      <3> QED
        BY <2>1, <3>1, <3>2
    <2>3. CASE ~ \E j \in 0 .. k : Ended(run[j])
      <3>1. ~Ended(run[k]) /\ run[k].status = "searching" /\ Measure(area, run[k]) + k <= last
        BY <2>1, <2>3
      <3>2. run[k + 1] = Expand(area, free, dst, run[k])
        BY <1>1, <2>1, <3>1 DEF Turn
      <3>3. run[k + 1].status = "searching" => Measure(area, run[k + 1]) < Measure(area, run[k])
        BY <2>1, <3>1, <3>2, ExpandKeeps
      <3>4. CASE run[k + 1].status = "searching"
        <4>1. Measure(area, run[k + 1]) \in Nat /\ Measure(area, run[k]) \in Nat
          BY <2>1, <3>1, <3>4, MeasureTypes
        <4>2. Measure(area, run[k + 1]) + (k + 1) <= last
          BY <1>2, <2>1, <3>1, <3>3, <3>4, <4>1
        <4> QED
          BY <2>1, <3>4, <4>2
      <3>5. CASE run[k + 1].status # "searching"
        <4>1. Ended(run[k + 1])
          BY <2>1, <3>5 DEF Between, Ended
        <4>2. k + 1 \in 0 .. k + 1
          BY <2>1
        <4> QED
          BY <2>1, <4>1, <4>2
      <3> QED
        BY <3>4, <3>5
    <2> QED
      BY <2>2, <2>3
  <1>6. last \in T
    <2>1. T = Nat
      <3> HIDE DEF T
      <3> QED
        BY <1>3, <1>4, <1>5, Induct
    <2> QED
      BY <1>2, <2>1
  <1>7. \E k \in 0 .. last : Ended(run[k])
    <2> SUFFICES ASSUME ~ \E k \in 0 .. last : Ended(run[k]) PROVE FALSE
      OBVIOUS
    <2>1. last \in 0 .. last
      BY <1>2
    <2>2. /\ ~Ended(run[last]) /\ run[last].status = "searching"
          /\ Measure(area, run[last]) + last <= last
      BY <1>6, <2>1
    <2>3. run[last].open # {} /\ Between(area, free, src, dst, run[last])
      BY <1>1, <1>2, <2>2 DEF Ended
    <2>4. Measure(area, run[last]) \in Nat /\ Measure(area, run[last]) > 0
      BY <2>2, <2>3, MeasureTypes
    <2> QED
      BY <1>2, <2>2, <2>4
  <1> QED
    BY <1>7 DEF run, last

\* Search, the state after the first turn that ends the loop, exists.
LEMMA SearchEnds ==
    ASSUME NEW area, NEW free, NEW src, NEW dst, Board(area, free, src, dst)
    PROVE  /\ Ended(Search(area, free, src, dst))
           /\ Between(area, free, src, dst, Search(area, free, src, dst))
  <1> DEFINE run == SearchRun(area, free, src, dst)
             k == CHOOSE j \in 0 .. Turns(area) : Ended(run[j])
  <1>1. k \in 0 .. Turns(area) /\ Ended(run[k])
    BY RunEnds
  <1>2. k \in Nat
    <2> HIDE DEF k
    <2> QED
      BY <1>1
  <1>3. Between(area, free, src, dst, run[k])
    <2> HIDE DEF k
    <2> QED
      BY <1>2, RunStep
  <1> QED
    BY <1>1, <1>3 DEF Search

-----------------------------------------------------------------------------
(* The way that is returned.                                               *)

GoesBack(area, parent, c, back) ==
    /\ back \in [Nat -> area] /\ back[0] = c
    /\ \A k \in Nat : back[k + 1] = parent[back[k]]

\* The recursive function of the way back, unfolded once.
LEMMA BackStep ==
    ASSUME NEW area, NEW parent \in [area -> area], NEW c \in area
    PROVE  GoesBack(area, parent, c, Back(parent, c))
  <1> DEFINE back == Back(parent, c)
             Body(h) == [k \in Nat |-> IF k = 0 THEN c ELSE parent[h[k - 1]]]
  <1>1. PICK g : IsRun(g, area, parent, c)
    BY Repeated
  <1>2. g = Body(g)
    <2>1. ASSUME NEW k \in Nat, k # 0 PROVE g[k] = parent[g[k - 1]]
      <3>1. k - 1 \in Nat /\ (k - 1) + 1 = k
        BY <2>1
      <3>2. g[(k - 1) + 1] = parent[g[k - 1]]
        BY <3>1, <1>1 DEF IsRun
      <3> QED
        BY <3>1, <3>2
    <2>2. g = [k \in Nat |-> g[k]] /\ g[0] = c
      BY <1>1 DEF IsRun
    <2> QED
      BY <2>1, <2>2
  <1>3. back = CHOOSE h : h = Body(h)
    BY DEF Back
  <1>4. back = Body(back)
    <2> HIDE DEF Body, back
    <2> QED
      BY <1>2, <1>3
  <1> HIDE DEF back
  <1>5. back[0] = c
    BY <1>4
  <1>6. ASSUME NEW k \in Nat PROVE back[k + 1] = parent[back[k]]
    <2>1. k + 1 \in Nat /\ k + 1 # 0 /\ (k + 1) - 1 = k
      OBVIOUS
    <2>2. back[k + 1] = parent[back[(k + 1) - 1]]
      BY <1>4, <2>1
    <2> QED
      BY <2>1, <2>2
  <1> DEFINE T == {k \in Nat : back[k] \in area}
  <1>7. T = Nat
    <2>1. T \in SUBSET Nat /\ 0 \in T /\ \A k \in T : k + 1 \in T
      BY <1>5, <1>6
    <2> HIDE DEF T
    <2> QED
      BY <2>1, Induct
  <1>8. back = [k \in Nat |-> back[k]]
    BY <1>4
  <1>9. back \in [Nat -> area]
    BY <1>7, <1>8
  <1> QED
    BY <1>5, <1>6, <1>9 DEF back, GoesBack
\* Back along the parents the labels count down to 0, at src.
LEMMA BackLabels ==
    ASSUME NEW area, NEW free, NEW src, NEW dst, Board(area, free, src, dst),
           NEW closed, NEW g, NEW f, NEW parent,
           Labels(area, free, src, dst, closed, g, f, parent),
           Met(free, src, dst, closed, g, parent),
           NEW k \in Nat, 0 < k, k <= g[parent[dst]] + 1
    PROVE  Back(parent, dst)[k] \in closed /\ g[Back(parent, dst)[k]] = (g[parent[dst]] + 1) - k
  <1> DEFINE back == Back(parent, dst)
             steps == g[parent[dst]] + 1
             T == {i \in Nat : 0 < i /\ i <= steps => /\ back[i] \in closed
                                                     /\ g[back[i]] = steps - i}
  <1>1. /\ parent \in [area -> area] /\ dst \in area /\ src \in area /\ closed \in SUBSET area
        /\ parent[dst] \in closed
    BY DEF Labels, Met, Board
  <1>2. /\ back \in [Nat -> area] /\ back[0] = dst
        /\ \A i \in Nat : back[i + 1] = parent[back[i]]
    <2>1. GoesBack(area, parent, dst, Back(parent, dst))
      BY <1>1, BackStep
    <2> QED
      BY <2>1 DEF GoesBack
  <1>3. \A c \in closed : /\ g[c] \in Nat
                          /\ c = src => g[c] = 0
                          /\ c # src => parent[c] \in closed /\ g[c] = g[parent[c]] + 1
    <2>1. ASSUME NEW c \in closed
          PROVE  Labelled(free, src, dst, closed, g, f, parent, c) /\ (c = src => g[c] = 0)
      BY <1>1 DEF Labels
    <2> QED
      BY <2>1 DEF Labelled
  <1>4. steps \in Nat /\ steps - 1 = g[parent[dst]]
    BY <1>1, <1>3
  <1> HIDE DEF back, steps
  <1>5. T \in SUBSET Nat /\ 0 \in T
    OBVIOUS
  <1>6. ASSUME NEW i \in T PROVE i + 1 \in T
    <2>1. i \in Nat /\ i + 1 \in Nat /\ back[i + 1] = parent[back[i]]
      BY <1>2
    <2>2. CASE i = 0
      <3>1. back[i + 1] = parent[dst]
        BY <1>2, <2>1, <2>2
      <3> QED
        BY <1>1, <1>4, <2>2, <3>1
    <2>3. CASE i # 0 /\ i + 1 <= steps
      <3>1. back[i] \in closed /\ g[back[i]] = steps - i
        BY <1>4, <2>1, <2>3
      <3>2. back[i] # src
        BY <1>3, <1>4, <2>1, <2>3, <3>1
      <3>3. parent[back[i]] \in closed /\ g[back[i]] = g[parent[back[i]]] + 1
        BY <1>3, <3>1, <3>2
      <3>4. g[parent[back[i]]] \in Nat
        BY <1>3, <3>3
      <3>5. g[parent[back[i]]] = steps - (i + 1)
        BY <1>4, <2>1, <3>1, <3>3, <3>4
      <3> QED
        BY <2>1, <3>3, <3>5
    <2> QED
      BY <2>1, <2>2, <2>3
  <1>7. T = Nat
    <2> HIDE DEF T
    <2> QED
      BY <1>5, <1>6, Induct
  <1>8. k \in T /\ k <= steps
    BY <1>7 DEF steps
  <1>9. back[k] \in closed /\ g[back[k]] = steps - k
    BY <1>8
  <1> QED
    BY <1>9 DEF back, steps

\* The number of steps to dst is the first k whose wave holds it.
LEMMA StepsAre ==
    ASSUME NEW free, IsFiniteSet(free), NEW src \in free, NEW dst, NEW k \in Nat,
           dst \in Within(free, src, k), Beyond(free, src, dst, k), k <= Cardinality(free)
    PROVE  StepsTo(free, src, dst) = k
  <1> DEFINE from == {src}
             wave == Waves(free, from)
             First(i) == dst \in wave[i] /\ \A j \in 0 .. i - 1 : dst \notin wave[j]
             top == Cardinality(free)
  <1>1. from \in SUBSET free /\ from # {}
    OBVIOUS
  <1>2. \A i : Within(free, src, i) = wave[i]
    BY DEF Within
  <1>3. top \in Nat
    BY FS_CardinalityType
  <1> HIDE DEF from
  <1>4. dst \in Region(free, from)
    <2>1. wave[k] \subseteq Region(free, from)
      BY <1>1, RegionClosed
    <2> QED
      BY <1>2, <2>1
  <1>5. dst \in wave[k] /\ \A j \in Nat : j < k => dst \notin wave[j]
    BY <1>2 DEF Beyond
  <1>6. StepsTo(free, src, dst) = CHOOSE i \in 0 .. top : First(i)
    BY <1>4 DEF StepsTo, from
  <1> HIDE DEF wave, top
  <1>7. k \in 0 .. top /\ First(k)
    BY <1>3, <1>5 DEF top
  <1>8. ASSUME NEW i \in 0 .. top, First(i) PROVE i = k
    <2>1. i \in Nat /\ ~ (i < k)
      BY <1>3, <1>5, <1>8
    <2>2. k < i => k \in 0 .. i - 1
      BY <2>1
    <2> QED
      BY <1>5, <1>8, <2>1, <2>2
  <1> HIDE DEF First
  <1> QED
    BY <1>6, <1>7, <1>8

\* Once dst was met its parents, backwards, are a shortest way.
LEMMA TrailLeads ==
    ASSUME NEW area, NEW free, NEW src, NEW dst, Board(area, free, src, dst),
           NEW closed, NEW g, NEW f, NEW parent,
           Labels(area, free, src, dst, closed, g, f, parent),
           Met(free, src, dst, closed, g, parent)
    PROVE  /\ Trail(parent, dst) \in Seq(free)
           /\ IsWay(free, src, dst, Trail(parent, dst))
           /\ Len(Trail(parent, dst)) = StepsTo(free, src, dst)
           /\ StepsTo(free, src, dst) \in Nat
  <1> DEFINE back == Back(parent, dst)
             q == parent[dst]
             steps == g[q] + 1
             path == Trail(parent, dst)
             Stop(k) == /\ parent[back[k]] = back[k]
                        /\ \A j \in 0 .. k - 1 : parent[back[j]] # back[j]
  <1>1. /\ parent \in [area -> area] /\ dst \in area /\ src \in area /\ closed \in SUBSET area
        /\ q \in closed /\ q \in area /\ Adjacent(q, dst) /\ Beyond(free, src, dst, steps)
        /\ src \in free /\ dst \in free /\ free \in SUBSET area /\ parent[src] = src
        /\ IsFiniteSet(area) /\ g[dst] = Unknown
    BY DEF Labels, Met, Board
  <1>2. /\ back \in [Nat -> area] /\ back[0] = dst
        /\ \A i \in Nat : back[i + 1] = parent[back[i]]
    <2>1. GoesBack(area, parent, dst, Back(parent, dst))
      BY <1>1, BackStep
    <2> QED
      BY <2>1 DEF GoesBack
  <1>3. \A c \in closed : /\ g[c] \in Nat /\ c \in free /\ g[c] # Unknown
                          /\ c \in Within(free, src, g[c])
                          /\ c = src => g[c] = 0
                          /\ c # src => /\ parent[c] \in closed /\ g[c] = g[parent[c]] + 1
                                        /\ Adjacent(parent[c], c)
    <2>1. ASSUME NEW c \in closed
          PROVE  /\ Labelled(free, src, dst, closed, g, f, parent, c) /\ g[c] # Unknown
                 /\ c = src => g[c] = 0
      BY <1>1 DEF Labels
    <2> QED
      BY <2>1 DEF Labelled
  <1>4. steps \in Nat /\ steps > 0
    BY <1>1, <1>3
  <1>5. \A k \in Nat : 0 < k /\ k <= steps => back[k] \in closed /\ g[back[k]] = steps - k
    <2>1. ASSUME NEW k \in Nat, 0 < k, k <= g[parent[dst]] + 1
          PROVE  /\ Back(parent, dst)[k] \in closed
                 /\ g[Back(parent, dst)[k]] = (g[parent[dst]] + 1) - k
      BY <2>1, BackLabels
    <2> QED
      BY <2>1
  <1>6. dst \in Within(free, src, steps)
    <2>1. g[q] \in Nat /\ q \in Within(free, src, g[q])
      BY <1>1, <1>3
    <2> QED
      BY <1>1, <2>1, WaveNext
  <1>7. steps + 1 <= Cardinality(free) /\ IsFiniteSet(free) /\ Cardinality(free) \in Nat
    <2>1. IsFiniteSet(free)
      BY <1>1, FS_Subset
    <2>2. Cardinality(free) \in Nat
      BY <2>1, FS_CardinalityType
    <2> DEFINE from == {src}
               m == g[q]
    <2>3. from \in SUBSET free /\ from # {} /\ m \in Nat /\ m < steps
      BY <1>1, <1>3
    <2>4. Waves(free, from)[m + 1] # Waves(free, from)[m]
      BY <1>1, <1>6, <2>3 DEF Beyond, Within
    <2> HIDE DEF from, m
    <2>5. m + 2 <= Cardinality(free)
      BY <2>1, <2>3, <2>4, WavesCounted
    <2>6. steps = m + 1
      BY DEF m
    <2> QED
      BY <2>1, <2>2, <2>3, <2>5, <2>6
  <1>8. StepsTo(free, src, dst) = steps
    <2> HIDE DEF steps
    <2>1. steps <= Cardinality(free)
      BY <1>4, <1>7
    <2> QED
      BY <1>1, <1>4, <1>6, <1>7, <2>1, StepsAre
  <1> HIDE DEF back, steps, q
  <1>9. back[steps] = src
    <2>1. back[steps] \in closed /\ g[back[steps]] = 0
      BY <1>4, <1>5
    <2>2. ASSUME back[steps] # src PROVE FALSE
      <3>1. /\ g[back[steps]] = g[parent[back[steps]]] + 1
            /\ parent[back[steps]] \in closed
        BY <1>3, <2>1, <2>2
      <3>2. g[parent[back[steps]]] \in Nat
        BY <1>3, <3>1
      <3> QED
        BY <2>1, <3>1, <3>2
    <2> QED
      BY <2>2
  <1>10. ASSUME NEW k \in Nat, k < steps
         PROVE  /\ parent[back[k]] # back[k] /\ back[k] \in free
                /\ Adjacent(back[k], back[k + 1])
    <2>1. back[k + 1] = parent[back[k]] /\ k + 1 \in Nat /\ k + 1 <= steps /\ 0 < k + 1
      BY <1>2, <1>4, <1>10
    <2>2. CASE k = 0
      <3>1. back[k] = dst /\ parent[back[k]] = q
        BY <1>2, <2>2 DEF q
      <3>2. q # dst
        BY <1>1, <1>3
      <3>3. Adjacent(dst, q)
        BY <1>1, AdjacentSymmetric
      <3> QED
        BY <1>1, <2>1, <3>1, <3>2, <3>3
    <2>3. CASE k # 0
      <3>1. back[k] \in closed /\ g[back[k]] = steps - k /\ g[back[k + 1]] = steps - (k + 1)
        BY <1>4, <1>5, <1>10, <2>1, <2>3
      <3>2. g[back[k]] # 0 /\ g[back[k + 1]] # g[back[k]]
        BY <1>4, <1>10, <3>1
      <3>3. back[k] # src
        BY <1>3, <3>1, <3>2
      <3>4. Adjacent(parent[back[k]], back[k]) /\ back[k] \in free
        BY <1>3, <3>1, <3>3
      <3>5. Adjacent(back[k], parent[back[k]])
        BY <3>4, AdjacentSymmetric
      <3> QED
        BY <2>1, <3>2, <3>4, <3>5
    <2> QED
      BY <2>2, <2>3
  <1>11. path = [i \in 1 .. steps |-> back[steps - i]]
    <2> DEFINE length == CHOOSE k \in 0 .. Cardinality(DOMAIN parent) : Stop(k)
    <2>1. path = [i \in 1 .. length |-> back[length - i]]
      BY DEF Trail, back
    <2>2. Stop(steps)
      BY <1>1, <1>4, <1>9, <1>10
    <2>3. steps \in 0 .. Cardinality(DOMAIN parent)
      <3>1. DOMAIN parent = area
        BY <1>1
      <3>2. Cardinality(free) <= Cardinality(area)
        BY <1>1, FS_Subset
      <3>3. Cardinality(area) \in Nat
        BY <1>1, FS_CardinalityType
      <3> QED
        BY <1>4, <1>7, <3>1, <3>2, <3>3
    <2>4. ASSUME NEW k \in 0 .. Cardinality(DOMAIN parent), Stop(k) PROVE k = steps
      <3>1. k \in Nat
        OBVIOUS
      <3>2. ~ (k < steps)
        BY <1>10, <2>4, <3>1
      <3>3. steps < k => steps \in 0 .. k - 1
        BY <1>4, <3>1
      <3>4. ~ (steps < k)
        BY <2>2, <2>4, <3>3
      <3> QED
        BY <1>4, <3>1, <3>2, <3>4
    <2> HIDE DEF Stop
    <2>5. length = steps
      BY <2>2, <2>3, <2>4
    <2> QED
      BY <2>1, <2>5
  <1> HIDE DEF path
  <1>12. path \in Seq(free) /\ Len(path) = steps /\ DOMAIN path = 1 .. steps
    <2>1. ASSUME NEW i \in 1 .. steps PROVE back[steps - i] \in free
      <3>1. steps - i \in Nat /\ steps - i < steps
        BY <1>4
      <3> QED
        BY <1>10, <3>1
    <2>2. path \in [1 .. steps -> free]
      BY <1>11, <2>1
    <2> QED
      BY <1>4, <2>2
  <1>13. IsWay(free, src, dst, path)
    <2>1. path # <<>> /\ Last(path) = dst
      <3>1. steps \in 1 .. steps /\ steps - steps = 0
        BY <1>4
      <3>2. path[steps] = dst
        BY <1>2, <1>11, <3>1
      <3>3. Len(path) # 0
        BY <1>4, <1>12
      <3> QED
        BY <1>12, <3>2, <3>3 DEF Last
    <2>2. ASSUME NEW i \in DOMAIN path
          PROVE  path[i] \in free /\ Adjacent(path[i], IF i = 1 THEN src ELSE path[i - 1])
      <3>1. i \in 1 .. steps /\ steps - i \in Nat /\ steps - i < steps
        BY <1>4, <1>12
      <3>2. path[i] = back[steps - i]
        BY <1>11, <3>1
      <3>3. back[steps - i] \in free /\ Adjacent(back[steps - i], back[(steps - i) + 1])
        BY <1>10, <3>1
      <3>4. back[(steps - i) + 1] = IF i = 1 THEN src ELSE path[i - 1]
        <4>1. CASE i = 1
          <5>1. (steps - i) + 1 = steps
            BY <1>4, <4>1
          <5> QED
            BY <1>9, <4>1, <5>1
        <4>2. CASE i # 1
          <5>1. i - 1 \in 1 .. steps /\ steps - (i - 1) = (steps - i) + 1
            BY <1>4, <3>1, <4>2
          <5>2. path[i - 1] = back[steps - (i - 1)]
            BY <1>11, <5>1
          <5> QED
            BY <4>2, <5>1, <5>2
        <4> QED
          BY <4>1, <4>2
      <3> QED
        BY <3>2, <3>3, <3>4
    <2> QED
      BY <2>1, <2>2 DEF IsWay
  <1> QED
    BY <1>4, <1>8, <1>12, <1>13 DEF path
\* A search that finds nothing has seen every cell there is a way to.
LEMMA NoWay ==
    ASSUME NEW area, NEW free, NEW src, NEW dst, Board(area, free, src, dst),
           NEW s, Between(area, free, src, dst, s), Ended(s), s.status # "found"
    PROVE  StepsTo(free, src, dst) = -1
  <1>1. PICK closed, g, f, parent :
          closed = s.closed /\ g = s.g /\ f = s.f /\ parent = s.parent
    OBVIOUS
  <1>2. /\ Labels(area, free, src, dst, closed, g, f, parent)
        /\ \A c \in closed, d \in area : Relaxed(free, g, c, d)
        /\ \A c \in area \ closed : g[c] = Unknown
    BY <1>1 DEF Between, Ended, Queue
  <1>3. ASSUME NEW k \in Nat, NEW x \in Within(free, src, k) PROVE x \in closed
    <2>1. \/ x \in closed /\ g[x] <= k
          \/ \E y \in area \ closed : g[y] # Unknown /\ g[y] + Estimate(y, x) <= k
      BY <1>2, Frontier
    <2> QED
      BY <1>2, <2>1
  <1>4. dst \notin closed
    BY <1>2 DEF Labels
  <1>5. Cardinality(free) \in Nat
    <2>1. IsFiniteSet(free)
      BY FS_Subset DEF Board
    <2> QED
      BY <2>1, FS_CardinalityType
  <1>6. dst \notin Region(free, {src})
    BY <1>3, <1>4, <1>5 DEF Region, Within
  <1> QED
    BY <1>6 DEF StepsTo

\* What the search owes: a shortest way, and nothing only if there is none.
Answers(area, free, src, dst) ==
    LET path == AStar(area, free, src, dst)
        best == StepsTo(free, src, dst)
    IN IF best = -1 THEN path = NoPath
       ELSE path \in Seq(free) /\ IsWay(free, src, dst, path) /\ Len(path) = best

\* AStar (AStar.hpp:53) with its list of old and new entries, its estimate,
\* the cost 0 it lists src with and its early return at the first neighbour
\* that is dst: between any two free cells of any finite area it comes to an
\* end and returns a shortest way, or nothing where there is no way.
THEOREM AStarShortest ==
    ASSUME NEW area, NEW free, NEW src, NEW dst, Board(area, free, src, dst)
    PROVE  Answers(area, free, src, dst)
  <1>1. PICK s : s = Search(area, free, src, dst)
    OBVIOUS
  <1>2. Between(area, free, src, dst, s) /\ Ended(s)
    BY <1>1, SearchEnds
  <1>3. src # dst
    BY DEF Board
  <1>4. CASE s.status = "found"
    <2>1. PICK closed, g, f, parent :
            closed = s.closed /\ g = s.g /\ f = s.f /\ parent = s.parent
      OBVIOUS
    <2>2. /\ Labels(area, free, src, dst, closed, g, f, parent)
          /\ Met(free, src, dst, closed, g, parent)
      BY <1>2, <1>4, <2>1 DEF Between
    <2>3. /\ Trail(parent, dst) \in Seq(free)
          /\ IsWay(free, src, dst, Trail(parent, dst))
          /\ Len(Trail(parent, dst)) = StepsTo(free, src, dst)
          /\ StepsTo(free, src, dst) \in Nat
      BY <2>2, TrailLeads
    <2>4. AStar(area, free, src, dst) = Trail(parent, dst)
      BY <1>1, <1>3, <1>4, <2>1 DEF AStar
    <2>5. StepsTo(free, src, dst) # -1
      BY <2>3
    <2> QED
      BY <2>3, <2>4, <2>5 DEF Answers
  <1>5. CASE s.status # "found"
    <2>1. StepsTo(free, src, dst) = -1
      BY <1>2, <1>5, NoWay
    <2>2. AStar(area, free, src, dst) = NoPath
      BY <1>1, <1>3, <1>5 DEF AStar
    <2> QED
      BY <2>1, <2>2 DEF Answers
  <1> QED
    BY <1>4, <1>5
=============================================================================
