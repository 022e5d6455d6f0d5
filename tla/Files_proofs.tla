--------------------------- MODULE Files_proofs -----------------------------
(***************************************************************************)
(* The components that read files.  Of a call over experiment directories, *)
(* for any names, any histories and any number of replacements between its *)
(* steps: its containment, and what it tells, that the findings about a    *)
(* history agree, that a comparison accounts for each experiment left      *)
(* alone, and that a ranking is one of the best values.  Of a selected     *)
(* file, for any directories, files, volumes, budgets and any number of    *)
(* moves and writes by other programs: one observation of it.              *)
(***************************************************************************)
EXTENDS ExperimentDirectory, ArtifactObservation, FiniteSetTheorems,
        WellFoundedInduction, TLAPS

----------------------------------------------------------------------------
(* Numbers and orders *)

\* A set of numbers that is not empty has a least one.
LEMMA Least ==
    ASSUME NEW T \in SUBSET Nat, T # {}
    PROVE  \E x \in T : \A y \in T : x <= y
<1> DEFINE R == OpToRel(<, Nat)
<1>1. IsWellFoundedOn(R, Nat)
  BY NatLessThanWellFounded
<1>2. \A x, y \in Nat : <<x, y>> \in R <=> x < y
  BY DEF OpToRel
<1> HIDE DEF R
<1>3. \E x \in T : \A y \in T : ~(<<y, x>> \in R)
  BY <1>1, WFMin
<1>4. PICK x \in T : \A y \in T : ~(<<y, x>> \in R)
  BY <1>3
<1>5. ASSUME NEW y \in T PROVE x <= y
  <2>1. x \in Nat /\ y \in Nat /\ ~(<<y, x>> \in R)
    BY <1>4
  <2> QED BY <2>1, <1>2
<1> QED BY <1>5

LEMMA EveryNumber ==
    ASSUME NEW T \in SUBSET Nat, 0 \in T, \A n \in T : n + 1 \in T
    PROVE  T = Nat
<1> DEFINE U == Nat \ T
<1>1. SUFFICES ASSUME U # {} PROVE FALSE
  OBVIOUS
<1>2. PICK n \in U : \A m \in U : n <= m
  <2> U \in SUBSET Nat
    OBVIOUS
  <2> HIDE DEF U
  <2> QED BY <1>1, Least
<1>3. n - 1 \in Nat /\ n - 1 \notin U
  BY <1>2
<1> QED BY <1>2, <1>3

\* A strict order of S, as pairs.
Orders(R, S) ==
    /\ \A x \in S : <<x, x>> \notin R
    /\ \A x, y \in S : x # y => <<x, y>> \in R \/ <<y, x>> \in R
    /\ \A x, y, z \in S : <<x, y>> \in R /\ <<y, z>> \in R => <<x, z>> \in R

Place(R, S, x) == Cardinality({y \in S : <<y, x>> \in R}) + 1

LEMMA PlacesGrow ==
    ASSUME NEW S, IsFiniteSet(S), NEW R, Orders(R, S),
           NEW x \in S, NEW z \in S, <<x, z>> \in R
    PROVE  Place(R, S, x) < Place(R, S, z)
<1> DEFINE X == {y \in S : <<y, x>> \in R}
           Z == {y \in S : <<y, z>> \in R}
<1>1. X \subseteq Z /\ x \in Z /\ x \notin X
  BY DEF Orders
<1>2. IsFiniteSet(X) /\ IsFiniteSet(Z)
  BY FS_Subset
<1>3. Cardinality(X) \in Nat /\ Cardinality(Z) \in Nat
  BY <1>2, FS_CardinalityType
<1> HIDE DEF X, Z
<1>4. Cardinality(X \cup {x}) = Cardinality(X) + 1
  BY <1>1, <1>2, FS_AddElement
<1>5. Cardinality(X \cup {x}) <= Cardinality(Z)
  BY <1>1, <1>2, FS_Subset
<1>6. Cardinality(X) + 1 < Cardinality(Z) + 1
  BY <1>3, <1>4, <1>5
<1> QED BY <1>6 DEF Place, X, Z

\* Each element of a finite set in a strict order has a place of its own, and no
\* place is left out.
LEMMA Places ==
    ASSUME NEW S, IsFiniteSet(S), NEW R, Orders(R, S)
    PROVE  /\ \A x \in S : Place(R, S, x) \in 1..Cardinality(S)
           /\ \A x, y \in S : Place(R, S, x) = Place(R, S, y) => x = y
           /\ \A i \in 1..Cardinality(S) : \E x \in S : Place(R, S, x) = i
<1> DEFINE n == Cardinality(S)
           f == [x \in S |-> Place(R, S, x)]
<1>1. n \in Nat
  BY FS_CardinalityType
<1>2. ASSUME NEW x \in S PROVE Place(R, S, x) \in 1..n
  <2> DEFINE X == {y \in S : <<y, x>> \in R}
  <2>1. X \subseteq S \ {x}
    BY DEF Orders
  <2>2. IsFiniteSet(S \ {x}) /\ Cardinality(S \ {x}) = n - 1
    BY FS_RemoveElement
  <2>3. IsFiniteSet(X) /\ Cardinality(X) <= n - 1
    <3>1. X \in SUBSET (S \ {x})
      BY <2>1
    <3> HIDE DEF X, n
    <3> QED BY <2>2, <3>1, FS_Subset
  <2>4. Cardinality(X) \in Nat
    BY <2>3, FS_CardinalityType
  <2>5. Place(R, S, x) = Cardinality(X) + 1
    BY DEF Place
  <2> HIDE DEF X, n
  <2> QED BY <1>1, <2>3, <2>4, <2>5
<1>3. ASSUME NEW x \in S, NEW y \in S, x # y PROVE Place(R, S, x) # Place(R, S, y)
  <2>1. <<x, y>> \in R \/ <<y, x>> \in R
    BY <1>3 DEF Orders
  <2>2. Place(R, S, x) < Place(R, S, y) \/ Place(R, S, y) < Place(R, S, x)
    BY <2>1, PlacesGrow
  <2>3. Place(R, S, x) \in Nat /\ Place(R, S, y) \in Nat
    BY <1>1, <1>2
  <2> QED BY <2>2, <2>3
<1>4. f \in Injection(S, 1..n)
  <2>1. f \in [S -> 1..n]
    BY <1>2
  <2>2. ASSUME NEW x \in S, NEW y \in S, x # y PROVE f[x] # f[y]
    BY <1>3, <2>2
  <2> HIDE DEF f, n
  <2> QED BY <2>1, <2>2, Zenon DEF Injection, IsInjective
<1>5. IsFiniteSet(1..n) /\ Cardinality(1..n) = n
  BY <1>1, FS_Interval
<1>6. f \in Surjection(S, 1..n)
  <2> HIDE DEF f
  <2> QED BY <1>4, <1>5, FS_Injection
<1>7. ASSUME NEW i \in 1..n PROVE \E x \in S : Place(R, S, x) = i
  <2>1. PICK x \in S : f[x] = i
    BY <1>6, Zenon DEF Surjection
  <2> QED BY <2>1
<1> QED BY <1>2, <1>3, <1>7

----------------------------------------------------------------------------
(* The best record of a history *)

Values == Int \cup {NaN}

LEMMA BetterOrders ==
    ASSUME NEW d, NEW x \in Values, NEW y \in Values, NEW z \in Values
    PROVE  /\ ~Better(d, x, x)
           /\ Better(d, x, y) /\ Better(d, y, z) => Better(d, x, z)
           /\ ~(Better(d, x, y) /\ Better(d, y, x))
           /\ x \in Int /\ y \in Int /\ x # y => Better(d, x, y) \/ Better(d, y, x)
           /\ Better(d, x, y) => x \in Int /\ y \in Int
BY NaNAssumption DEF Values, Better, Above

\* The record evaluate_metric_history stands at, when it stood at b before.
Step(records, d, n, b) ==
    IF n = 1 \/ Better(d, records[n][2], records[b][2]) THEN n ELSE b

Bests(records, d) ==
    CHOOSE best : best = [n \in DOMAIN records |-> Step(records, d, n, best[n - 1])]

LEMMA BestIndexIs ==
    \A records, d : BestIndex(records, d) = Bests(records, d)[Len(records)]
BY DEF BestIndex, Bests, Step

LEMMA BestsExist ==
    ASSUME NEW records \in Histories(Values), NEW d
    PROVE  \A n \in 1..Len(records) :
               Bests(records, d)[n] = Step(records, d, n, Bests(records, d)[n - 1])
<1> DEFINE D == DOMAIN records
           Upto(b, m) == \A n \in D : n <= m => b[n] = Step(records, d, n, b[n - 1])
           T == {m \in Nat : \E b : Upto(b, m)}
<1>1. D = 1..Len(records) /\ Len(records) \in Nat
  BY DEF Histories
<1>2. 0 \in T
  <2> DEFINE b == [n \in D |-> 0]
  <2>1. Upto(b, 0)
    BY <1>1
  <2> HIDE DEF b, Upto
  <2> QED BY <2>1
<1>3. ASSUME NEW m \in T PROVE m + 1 \in T
  <2>1. PICK b : Upto(b, m)
    BY <1>3
  <2> DEFINE c == [n \in D |-> IF n <= m THEN b[n] ELSE Step(records, d, n, b[n - 1])]
  <2>2. ASSUME NEW n \in D, n <= m + 1 PROVE c[n] = Step(records, d, n, c[n - 1])
    <3>1. c[n] = Step(records, d, n, b[n - 1])
      BY <2>1
    <3>2. CASE n = 1
      BY <3>1, <3>2 DEF Step
    <3>3. CASE n # 1
      <4>1. n - 1 \in D /\ n - 1 <= m
        BY <1>1, <2>2, <3>3
      <4>2. c[n - 1] = b[n - 1]
        BY <4>1
      <4> QED BY <3>1, <4>2
    <3> QED BY <3>2, <3>3
  <2>3. Upto(c, m + 1)
    BY <2>2
  <2> HIDE DEF c, Upto
  <2> QED BY <1>3, <2>3
<1>4. T = Nat
  <2> T \in SUBSET Nat
    OBVIOUS
  <2> HIDE DEF T
  <2> QED BY <1>2, <1>3, EveryNumber
<1>5. PICK b : Upto(b, Len(records))
  BY <1>1, <1>4
<1> DEFINE c == [n \in D |-> b[n]]
<1>6. ASSUME NEW n \in D PROVE c[n] = Step(records, d, n, c[n - 1])
  <2>1. b[n] = Step(records, d, n, b[n - 1]) /\ c[n] = b[n]
    BY <1>1, <1>5
  <2>2. n # 1 => c[n - 1] = b[n - 1]
    BY <1>1
  <2> HIDE DEF c
  <2> QED BY <2>1, <2>2 DEF Step
<1>7. c = [n \in D |-> Step(records, d, n, c[n - 1])]
  <2>1. c = [n \in D |-> c[n]]
    OBVIOUS
  <2> HIDE DEF c
  <2> QED BY <1>6, <2>1
<1>8. Bests(records, d) = [n \in D |-> Step(records, d, n, Bests(records, d)[n - 1])]
  <2> HIDE DEF c
  <2> QED BY <1>7 DEF Bests
<1> QED BY <1>1, <1>8

\* The best record so far: no record is better, and if all have values each
\* earlier one is worse.
BestTo(records, d, n, b) ==
    /\ b \in 1..n
    /\ \A j \in 1..n : ~Better(d, records[j][2], records[b][2])
    /\ (\A j \in 1..n : records[j][2] \in Int) =>
         \A j \in 1..(b - 1) : Better(d, records[b][2], records[j][2])

LEMMA StepIsBest ==
    ASSUME NEW records \in Histories(Values), NEW d, NEW n \in 1..Len(records), NEW b,
           n # 1 => BestTo(records, d, n - 1, b)
    PROVE  BestTo(records, d, n, Step(records, d, n, b))
<1> DEFINE v(i) == records[i][2]
<1>1. Len(records) \in Nat /\ \A i \in 1..Len(records) : v(i) \in Values
  BY DEF Histories
<1> HIDE DEF v
<1>2. CASE n = 1
  <2>1. Step(records, d, n, b) = 1
    BY <1>2 DEF Step
  <2>2. ~Better(d, v(1), v(1))
    BY <1>1, <1>2, BetterOrders
  <2> QED BY <1>2, <2>1, <2>2 DEF BestTo, v
<1>3. CASE n # 1
  <2>1. b \in 1..(n - 1) /\ n \in 1..Len(records) /\ b \in 1..Len(records)
    BY <1>1, <1>3 DEF BestTo
  <2>2. \A j \in 1..(n - 1) : ~Better(d, v(j), v(b))
    BY <1>3 DEF BestTo, v
  <2>3. ~Better(d, v(n), v(n))
    BY <1>1, BetterOrders
  <2>4. CASE Better(d, v(n), v(b))
    <3>1. Step(records, d, n, b) = n
      BY <2>4 DEF Step, v
    <3>2. ASSUME NEW j \in 1..n PROVE ~Better(d, v(j), v(n))
      <4>1. CASE j = n
        BY <2>3, <4>1
      <4>2. CASE j # n
        <5>1. j \in 1..(n - 1) /\ j \in 1..Len(records)
          BY <4>2, <1>1
        <5>2. ~Better(d, v(j), v(b)) /\ v(j) \in Values /\ v(n) \in Values /\ v(b) \in Values
          BY <1>1, <2>1, <2>2, <5>1
        <5> QED BY <2>4, <5>2, BetterOrders
      <4> QED BY <4>1, <4>2
    <3>3. ASSUME \A j \in 1..n : v(j) \in Int, NEW j \in 1..(n - 1)
          PROVE  Better(d, v(n), v(j))
      <4>1. v(j) \in Int /\ v(b) \in Int /\ v(n) \in Int
        BY <2>1, <3>3
      <4>2. v(j) = v(b) \/ Better(d, v(b), v(j))
        BY <2>2, <4>1, BetterOrders DEF Values
      <4> QED BY <2>4, <4>1, <4>2, BetterOrders DEF Values
    <3> QED BY <3>1, <3>2, <3>3 DEF BestTo, v
  <2>5. CASE ~Better(d, v(n), v(b))
    <3>1. Step(records, d, n, b) = b
      BY <1>3, <2>5 DEF Step, v
    <3>2. \A j \in 1..n : ~Better(d, v(j), v(b))
      BY <2>2, <2>5
    <3>3. (\A j \in 1..n : v(j) \in Int) => \A j \in 1..(b - 1) : Better(d, v(b), v(j))
      <4>1. (\A j \in 1..n : v(j) \in Int) => \A j \in 1..(n - 1) : v(j) \in Int
        OBVIOUS
      <4> QED BY <1>3, <4>1 DEF BestTo, v
    <3> QED BY <2>1, <3>1, <3>2, <3>3 DEF BestTo, v
  <2> QED BY <2>4, <2>5
<1> QED BY <1>2, <1>3

\* evaluate_metric_history stands at the first of the best records.
LEMMA BestIsBest ==
    ASSUME NEW records \in Histories(Values), NEW d
    PROVE  BestTo(records, d, Len(records), BestIndex(records, d))
<1> DEFINE b == Bests(records, d)
           T == {m \in Nat : m \in 1..Len(records) => BestTo(records, d, m, b[m])}
<1>1. Len(records) \in Nat /\ Len(records) \in 1..Len(records)
  BY DEF Histories
<1>2. 0 \in T
  BY <1>1
<1>3. ASSUME NEW m \in T PROVE m + 1 \in T
  <2>1. CASE m + 1 \notin 1..Len(records)
    BY <2>1
  <2>2. CASE m + 1 \in 1..Len(records)
    <3>1. b[m + 1] = Step(records, d, m + 1, b[m])
      <4>1. b[m + 1] = Step(records, d, m + 1, b[(m + 1) - 1])
        BY <2>2, BestsExist
      <4> QED BY <4>1
    <3>2. m + 1 # 1 => BestTo(records, d, m, b[m])
      BY <1>1, <1>3, <2>2
    <3>3. BestTo(records, d, m + 1, Step(records, d, m + 1, b[m]))
      <4>1. (m + 1) - 1 = m
        BY <1>3
      <4> QED BY <2>2, <3>2, <4>1, StepIsBest
    <3> QED BY <3>1, <3>3
  <2> QED BY <2>1, <2>2
<1>4. T = Nat
  <2> T \in SUBSET Nat
    OBVIOUS
  <2> HIDE DEF T
  <2> QED BY <1>2, <1>3, EveryNumber
<1>5. BestTo(records, d, Len(records), b[Len(records)])
  BY <1>1, <1>4
<1> QED BY <1>5, BestIndexIs

----------------------------------------------------------------------------
(* The facts and findings about one history *)

Directions == {"maximize", "minimize"}

LEMMA HistoriesOfNumbers ==
    ASSUME NEW records \in Histories(Int)
    PROVE  /\ records \in Histories(Values)
           /\ Len(records) \in Nat /\ Len(records) >= 1 /\ DOMAIN records = 1..Len(records)
           /\ \A i \in 1..Len(records) :
                records[i] = <<records[i][1], records[i][2]>>
                /\ records[i][1] \in Int /\ records[i][2] \in Int
<1>1. records \in Seq(Int \X Int) /\ records # <<>>
  BY DEF Histories
<1>2. Len(records) \in Nat /\ DOMAIN records = 1..Len(records) /\ Len(records) # 0
  BY <1>1
<1>3. \A i \in 1..Len(records) : records[i] \in Int \X Int
  BY <1>1
<1>4. records \in [1..Len(records) -> Int \X Values]
  BY <1>1, <1>3 DEF Values
<1>5. records \in Seq(Int \X Values)
  BY <1>2, <1>4
<1> QED BY <1>1, <1>2, <1>3, <1>5 DEF Histories

\* The best record of a history of numbers is the one record that none is
\* better than and that is better than each before it.
FirstBest(records, d, b) ==
    /\ b \in 1..Len(records)
    /\ \A j \in 1..Len(records) : ~Better(d, records[j][2], records[b][2])
    /\ \A j \in 1..(b - 1) : Better(d, records[b][2], records[j][2])

LEMMA BestIndexIsFirst ==
    ASSUME NEW records \in Histories(Int), NEW d
    PROVE  /\ FirstBest(records, d, BestIndex(records, d))
           /\ \A b : FirstBest(records, d, b) => b = BestIndex(records, d)
<1> DEFINE a == BestIndex(records, d)
<1>1. FirstBest(records, d, a)
  <2>1. BestTo(records, d, Len(records), a)
    BY HistoriesOfNumbers, BestIsBest
  <2> HIDE DEF a
  <2> QED BY <2>1, HistoriesOfNumbers DEF BestTo, FirstBest
<1>2. ASSUME NEW b, FirstBest(records, d, b) PROVE b = a
  <2>1. a \in 1..Len(records) /\ b \in 1..Len(records) /\ Len(records) \in Nat
    BY <1>1, <1>2, HistoriesOfNumbers DEF FirstBest
  <2>2. CASE a < b
    <3>1. a \in 1..(b - 1)
      BY <2>1, <2>2
    <3> QED BY <1>1, <1>2, <2>1, <3>1 DEF FirstBest
  <2>3. CASE b < a
    <3>1. b \in 1..(a - 1)
      BY <2>1, <2>3
    <3> QED BY <1>1, <1>2, <2>1, <3>1 DEF FirstBest
  <2> HIDE DEF a
  <2> QED BY <2>1, <2>2, <2>3
<1> QED BY <1>1, <1>2

\* The parts of MetricFacts.
Size(n, w)          == IF w < n THEN w ELSE n
Recent(n, w)        == (n - Size(n, w) + 2)..n
MoveAt(records, d, i) == Change(d, records[i - 1][2], records[i][2])
Up(records, d, w)   == {i \in Recent(Len(records), w) : MoveAt(records, d, i) > 0}
Down(records, d, w) == {i \in Recent(Len(records), w) : MoveAt(records, d, i) < 0}
Same(records, d, w) == {i \in Recent(Len(records), w) : MoveAt(records, d, i) = 0}

Duplicates(records) ==
    {records[i][1] : i \in {j \in 1..Len(records) :
         \E k \in 1..(j - 1) : records[k][1] = records[j][1]}}
Decreasing(records) == {i \in 2..Len(records) : records[i][1] < records[i - 1][1]}

Facts(records, d, w, b) ==
    LET n == Len(records)
        up == Cardinality(Up(records, d, w))
        down == Cardinality(Down(records, d, w))
        same == Cardinality(Same(records, d, w))
    IN  [count       |-> n,
         best        |-> b,
         duplicates  |-> Duplicates(records),
         decreasing  |-> Decreasing(records),
         improvement |-> Change(d, records[1][2], records[b][2]),
         regression  |-> -Change(d, records[b][2], records[n][2]),
         steps       |-> <<up, down, same>>,
         net         |-> Change(d, records[n - Size(n, w) + 1][2], records[n][2]),
         trend       |-> Trend(Size(n, w) - 1, up, down, same)]

LEMMA FactsAre ==
    ASSUME NEW records \in Histories(Int), NEW d, NEW w
    PROVE  MetricFacts(records, d, w) = Facts(records, d, w, BestIndex(records, d))
<1> DEFINE b == BestIndex(records, d)
           n == Len(records)
           Found(i) == records[i] = records[b] /\ \A j \in 1..(i - 1) : records[j] # records[b]
<1>1. b \in 1..n /\ n \in Nat /\ \A j \in 1..(b - 1) : records[j] # records[b]
  <2>1. FirstBest(records, d, b)
    BY BestIndexIsFirst
  <2>2. ASSUME NEW j \in 1..(b - 1) PROVE records[j] # records[b]
    <3>1. Better(d, records[b][2], records[j][2]) /\ ~Better(d, records[b][2], records[b][2])
      BY <2>1 DEF FirstBest
    <3> HIDE DEF b
    <3> QED BY <3>1
  <2> QED BY <2>1, <2>2, HistoriesOfNumbers DEF FirstBest
<1>2. (CHOOSE i \in 1..n : Found(i)) = b
  <2>1. Found(b)
    BY <1>1
  <2>2. ASSUME NEW i \in 1..n, Found(i) PROVE i = b
    <3>1. ~(i < b) /\ ~(b < i)
      <4> HIDE DEF b
      <4> QED BY <1>1, <2>2
    <3> HIDE DEF b
    <3> QED BY <1>1, <3>1
  <2> HIDE DEF b, Found, n
  <2> QED BY <1>1, <2>1, <2>2
<1>3. MetricFacts(records, d, w) = Facts(records, d, w, CHOOSE i \in 1..n : Found(i))
  <2> SUFFICES records[CHOOSE i \in 1..n : Found(i)] = records[b]
    BY DEF MetricFacts, Facts, Size, Recent, MoveAt, Up, Down, Same, Duplicates, Decreasing
  <2> QED BY <1>2
<1> QED BY <1>2, <1>3

LEMMA NegatedIs ==
    ASSUME NEW records \in Histories(Int)
    PROVE  /\ Negated(records) \in Histories(Int) /\ Len(Negated(records)) = Len(records)
           /\ \A i \in 1..Len(records) : Negated(records)[i][1] = records[i][1]
                                         /\ Negated(records)[i][2] = -records[i][2]
<1> DEFINE q == Negated(records)
<1>1. q = [i \in 1..Len(records) |-> <<records[i][1], -records[i][2]>>]
  BY HistoriesOfNumbers DEF Negated
<1>2. q \in [1..Len(records) -> Int \X Int]
  BY <1>1, HistoriesOfNumbers
<1>3. q \in Seq(Int \X Int) /\ Len(q) = Len(records)
  <2>1. Len(records) \in Nat
    BY HistoriesOfNumbers
  <2> DEFINE n == Len(records)
  <2> HIDE DEF q, n
  <2>2. q \in [1..n -> Int \X Int] /\ n \in Nat
    BY <1>2, <2>1 DEF n
  <2>3. q \in Seq(Int \X Int) /\ Len(q) = n
    BY <2>2
  <2> QED BY <2>3 DEF n
<1>4. q # <<>>
  <2> HIDE DEF q
  <2> QED BY <1>3, HistoriesOfNumbers
<1> QED BY <1>1, <1>3, <1>4 DEF Histories

LEMMA ChangeNegated ==
    ASSUME NEW d \in Directions, NEW x \in Int, NEW y \in Int
    PROVE  /\ Change(Other(d), -x, -y) = Change(d, x, y)
           /\ Better(Other(d), -x, -y) <=> Better(d, x, y)
BY NaNAssumption DEF Directions, Change, Better, Above, Other

\* Minimizing a metric is maximizing its negative.
LEMMA FactsOfNegated ==
    ASSUME NEW records \in Histories(Int), NEW d \in Directions, NEW w \in Nat, w >= 2
    PROVE  MetricFacts(records, d, w) = MetricFacts(Negated(records), Other(d), w)
<1> DEFINE q == Negated(records)
           e == Other(d)
           b == BestIndex(records, d)
           n == Len(records)
<1>1. q \in Histories(Int) /\ Len(q) = n /\ n \in Nat /\ n >= 1
  BY NegatedIs, HistoriesOfNumbers
<1>2. \A i \in 1..n : /\ q[i][1] = records[i][1] /\ q[i][2] = -records[i][2]
                      /\ records[i][1] \in Int /\ records[i][2] \in Int
  BY NegatedIs, HistoriesOfNumbers
<1>3. \A i, j \in 1..n : /\ Change(e, q[i][2], q[j][2]) = Change(d, records[i][2], records[j][2])
                         /\ Better(e, q[i][2], q[j][2]) <=> Better(d, records[i][2], records[j][2])
  <2> HIDE DEF q, e
  <2>1. ASSUME NEW i \in 1..n, NEW j \in 1..n
        PROVE  /\ Change(e, q[i][2], q[j][2]) = Change(d, records[i][2], records[j][2])
               /\ Better(e, q[i][2], q[j][2]) <=> Better(d, records[i][2], records[j][2])
    BY <1>2, ChangeNegated DEF e
  <2> QED BY <2>1
<1>4. b \in 1..n /\ BestIndex(q, e) = b
  <2>1. FirstBest(records, d, b)
    BY BestIndexIsFirst
  <2>2. b \in 1..n
    BY <2>1 DEF FirstBest
  <2>3. FirstBest(q, e, b)
    <3> HIDE DEF q, e, b
    <3>1. \A j \in 1..(b - 1) : j \in 1..n
      BY <1>1, <2>2
    <3> QED BY <1>1, <1>3, <2>1, <2>2, <3>1 DEF FirstBest
  <2> HIDE DEF q, e, b
  <2> QED BY <1>1, <2>2, <2>3, BestIndexIsFirst
<1>5. Size(n, w) \in 1..n
  BY <1>1 DEF Size
<1>6. ASSUME NEW i \in Recent(n, w) PROVE MoveAt(q, e, i) = MoveAt(records, d, i)
  <2>1. i \in 1..n /\ i - 1 \in 1..n
    BY <1>1, <1>5, <1>6 DEF Recent
  <2> QED BY <1>3, <2>1 DEF MoveAt
<1>7. /\ Up(q, e, w) = Up(records, d, w) /\ Down(q, e, w) = Down(records, d, w)
      /\ Same(q, e, w) = Same(records, d, w)
  <2> HIDE DEF q, e
  <2> QED BY <1>1, <1>6 DEF Up, Down, Same
<1>8. Duplicates(q) = Duplicates(records)
  <2> HIDE DEF q
  <2> DEFINE D(h) == {j \in 1..n : \E k \in 1..(j - 1) : h[k][1] = h[j][1]}
  <2>1. D(q) = D(records)
    <3>1. \A j \in 1..n : \A k \in 1..(j - 1) : k \in 1..n
      BY <1>1
    <3>2. \A j \in 1..n : \A k \in 1..(j - 1) :
             q[k][1] = q[j][1] <=> records[k][1] = records[j][1]
      BY <1>2, <3>1
    <3> QED BY <3>2
  <2>2. {q[i][1] : i \in D(q)} = {records[i][1] : i \in D(records)}
    <3> DEFINE A == D(q)
               B == D(records)
    <3>1. A = B /\ B \subseteq 1..n
      BY <2>1
    <3> HIDE DEF A, B
    <3>2. {q[i][1] : i \in A} = {records[i][1] : i \in B}
      BY <1>2, <3>1
    <3> QED BY <3>2 DEF A, B
  <2> QED BY <1>1, <2>2 DEF Duplicates
<1>9. Decreasing(q) = Decreasing(records)
  <2> HIDE DEF q
  <2>1. \A i \in 2..n : q[i][1] = records[i][1] /\ q[i - 1][1] = records[i - 1][1]
    BY <1>1, <1>2
  <2> QED BY <1>1, <2>1 DEF Decreasing
<1>10. /\ Change(e, q[1][2], q[b][2]) = Change(d, records[1][2], records[b][2])
       /\ Change(e, q[b][2], q[n][2]) = Change(d, records[b][2], records[n][2])
       /\ Change(e, q[n - Size(n, w) + 1][2], q[n][2])
            = Change(d, records[n - Size(n, w) + 1][2], records[n][2])
  <2>1. 1 \in 1..n /\ n \in 1..n /\ n - Size(n, w) + 1 \in 1..n
    BY <1>1, <1>5
  <2> HIDE DEF q, e, b
  <2> QED BY <1>3, <1>4, <2>1
<1>11. Facts(q, e, w, b) = Facts(records, d, w, b)
  <2> HIDE DEF q, e, b
  <2> QED BY <1>1, <1>7, <1>8, <1>9, <1>10 DEF Facts
<1>12. MetricFacts(q, e, w) = Facts(q, e, w, b)
  <2> HIDE DEF q, e
  <2> QED BY <1>1, <1>4, FactsAre
<1> QED BY <1>11, <1>12, FactsAre

\* What the numbers of steps come to.
LEMMA StepsCounted ==
    ASSUME NEW records \in Histories(Int), NEW d \in Directions, NEW w \in Nat, w >= 2
    PROVE  LET up == Cardinality(Up(records, d, w))
               down == Cardinality(Down(records, d, w))
           IN  /\ up \in Nat /\ down \in Nat
               /\ up + down <= Size(Len(records), w) - 1
<1> DEFINE n == Len(records)
           U == Up(records, d, w)
           D == Down(records, d, w)
           R == Recent(n, w)
<1>1. n \in Nat /\ n >= 1 /\ Size(n, w) \in 1..n
  BY HistoriesOfNumbers DEF Size
<1>2. IsFiniteSet(R) /\ Cardinality(R) = Size(n, w) - 1
  <2> DEFINE s == Size(n, w)
  <2>1. R = (n - s + 2)..n
    BY DEF Recent
  <2>2. s \in 1..n
    BY <1>1
  <2> HIDE DEF s, R
  <2>3. IsFiniteSet(R) /\ Cardinality(R) = IF n - s + 2 > n THEN 0 ELSE n - (n - s + 2) + 1
    <3> DEFINE a == n - s + 2
    <3>1. a \in Int /\ n \in Int /\ R = a..n
      BY <1>1, <2>1, <2>2
    <3> HIDE DEF a
    <3>2. IsFiniteSet(R) /\ Cardinality(R) = IF a > n THEN 0 ELSE n - a + 1
      BY <3>1, FS_Interval
    <3> QED BY <3>2 DEF a
  <2>4. IsFiniteSet(R) /\ Cardinality(R) = s - 1
    BY <1>1, <2>2, <2>3
  <2> QED BY <2>4 DEF s
<1>3. U \cup D \in SUBSET R /\ U \cap D = {}
  <2>1. \A i \in R : MoveAt(records, d, i) \in Int
    <3>1. \A i \in R : i \in 1..n /\ i - 1 \in 1..n
      BY <1>1 DEF Recent
    <3> QED BY <3>1, HistoriesOfNumbers DEF MoveAt, Change
  <2> QED BY <2>1 DEF Up, Down
<1> HIDE DEF U, D, R
<1>4. IsFiniteSet(U) /\ IsFiniteSet(D)
  BY <1>2, <1>3, FS_Subset
<1>5. Cardinality(U \cup D) <= Cardinality(R)
  BY <1>2, <1>3, FS_Subset
<1>6. Cardinality(U) \in Nat /\ Cardinality(D) \in Nat
  BY <1>4, FS_CardinalityType
<1>7. Cardinality(U \cup D) = Cardinality(U) + Cardinality(D) - 0
  BY <1>3, <1>4, FS_Union, FS_EmptySet
<1>8. Cardinality(U) + Cardinality(D) <= Size(n, w) - 1
  BY <1>1, <1>2, <1>5, <1>6, <1>7
<1> QED BY <1>6, <1>8 DEF U, D

\* The codes, one by one.
MetricCodeNames ==
    {"duplicate_epochs", "non_monotonic_epochs", "best_at_first_record",
     "best_at_last_record", "no_improvement", "post_best_regression"}
Trends == {"improving", "degrading", "flat", "mixed", "insufficient_data"}
TrendNames ==
    {"recent_improvement", "recent_degradation", "recent_flat", "recent_mixed",
     "insufficient_history_for_trend"}

LEMMA CodesAre ==
    ASSUME NEW f, f.trend \in Trends
    PROVE  LET codes == MetricCodes(f)
           IN  /\ codes \subseteq MetricCodeNames \cup TrendNames
               /\ "best_at_first_record" \in codes <=> f.count > 1 /\ f.best = 1
               /\ "best_at_last_record" \in codes <=> f.count > 1 /\ f.best = f.count
               /\ "no_improvement" \in codes <=> f.count > 1 /\ f.improvement = 0
               /\ "post_best_regression" \in codes <=> f.regression > 0
               /\ "recent_improvement" \in codes <=> f.trend = "improving"
               /\ "insufficient_history_for_trend" \in codes <=> f.trend = "insufficient_data"
<1> DEFINE holds == [duplicate_epochs     |-> f.duplicates # {},
                  non_monotonic_epochs |-> f.decreasing # {},
                  best_at_first_record |-> f.count > 1 /\ f.best = 1,
                  best_at_last_record  |-> f.count > 1 /\ f.best = f.count,
                  no_improvement       |-> f.count > 1 /\ f.improvement = 0,
                  post_best_regression |-> f.regression > 0]
           S == {code \in DOMAIN holds : holds[code]}
           t == TrendCode[f.trend]
<1>1. MetricCodes(f) = S \cup {t}
  BY DEF MetricCodes
<1>2. /\ t \in TrendNames
      /\ t = "recent_improvement" <=> f.trend = "improving"
      /\ t = "insufficient_history_for_trend" <=> f.trend = "insufficient_data"
  BY DEF TrendCode, Trends, TrendNames
<1>3. DOMAIN holds = MetricCodeNames
  BY DEF MetricCodeNames
<1>4. /\ holds["best_at_first_record"] = (f.count > 1 /\ f.best = 1)
      /\ holds["best_at_last_record"] = (f.count > 1 /\ f.best = f.count)
      /\ holds["no_improvement"] = (f.count > 1 /\ f.improvement = 0)
      /\ holds["post_best_regression"] = (f.regression > 0)
  OBVIOUS
<1>5. S \subseteq MetricCodeNames
  BY <1>3
<1> HIDE DEF holds, t
<1>6. /\ "best_at_first_record" \in S <=> f.count > 1 /\ f.best = 1
      /\ "best_at_last_record" \in S <=> f.count > 1 /\ f.best = f.count
      /\ "no_improvement" \in S <=> f.count > 1 /\ f.improvement = 0
      /\ "post_best_regression" \in S <=> f.regression > 0
  BY <1>3, <1>4 DEF MetricCodeNames
<1> HIDE DEF S
<1> QED BY <1>1, <1>2, <1>5, <1>6 DEF MetricCodeNames, TrendNames

\* Each finding triggers a recommendation.
LEMMA AllRecommended ==
    ASSUME NEW codes \in SUBSET (MetricCodeNames \cup TrendNames)
    PROVE  UNION {Recommendations(codes)[r] : r \in DOMAIN Recommendations(codes)} = codes
<1> DEFINE triggered == {r \in DOMAIN Rules : Rules[r] \cap codes # {}}
           advice == Recommendations(codes)
<1>1. advice = [r \in triggered |-> Rules[r] \cap codes]
  BY DEF Recommendations
<1>2. ASSUME NEW code \in codes PROVE \E r \in DOMAIN Rules : code \in Rules[r]
  <2>1. code \in MetricCodeNames \cup TrendNames
    OBVIOUS
  <2> DEFINE K == {"repair_metric_history", "verify_training_progress",
                   "consider_extended_training", "restore_best_checkpoint",
                   "collect_more_history", "review_optimization_plateau",
                   "avoid_trend_conclusion"}
  <2>2. K \subseteq DOMAIN Rules
    BY DEF Rules
  <2>3. /\ Rules["repair_metric_history"] = {"duplicate_epochs", "non_monotonic_epochs"}
        /\ Rules["verify_training_progress"] = {"best_at_first_record", "no_improvement"}
        /\ Rules["consider_extended_training"] = {"best_at_last_record", "recent_improvement"}
        /\ Rules["restore_best_checkpoint"] = {"post_best_regression", "recent_degradation"}
        /\ Rules["collect_more_history"] = {"insufficient_history_for_trend"}
        /\ Rules["review_optimization_plateau"] = {"recent_flat"}
        /\ Rules["avoid_trend_conclusion"] = {"recent_mixed"}
    BY DEF Rules
  <2>4. \E r \in K : code \in Rules[r]
    BY <2>1, <2>3 DEF MetricCodeNames, TrendNames
  <2> HIDE DEF K
  <2> QED BY <2>2, <2>4
<1> HIDE DEF advice
<1>3. \A r \in DOMAIN advice : r \in triggered /\ advice[r] = Rules[r] \cap codes
  BY <1>1
<1>4. ASSUME NEW code \in codes PROVE \E r \in DOMAIN advice : code \in advice[r]
  <2>1. PICK r \in DOMAIN Rules : code \in Rules[r]
    BY <1>2
  <2>2. r \in DOMAIN advice
    BY <1>1, <2>1
  <2> QED BY <1>3, <2>1, <2>2
<1> QED BY <1>3, <1>4, Zenon DEF advice

LEMMA ImprovementIs ==
    ASSUME NEW d \in Directions, NEW x \in Int, NEW y \in Int
    PROVE  /\ Change(d, x, y) \in Int
           /\ Change(d, x, y) > 0 <=> Better(d, y, x)
           /\ Change(d, x, y) < 0 <=> Better(d, x, y)
           /\ Change(d, x, y) = 0 <=> x = y
BY NaNAssumption DEF Directions, Change, Better, Above

\* The findings about any history of numbers agree (build_metric_facts,
\* build_metric_diagnostics, build_recommendations).
LEMMA FindingsOfHistory ==
    ASSUME NEW records \in Histories(Int), NEW d \in Directions, NEW w \in Nat, w >= 2
    PROVE  FindingsAgree(records, d, w)
<1> DEFINE n == Len(records)
           b == BestIndex(records, d)
           f == MetricFacts(records, d, w)
           codes == MetricCodes(f)
           v(i) == records[i][2]
           beaten(i) == \E j \in 1..n : Better(d, v(j), v(i))
           up == Cardinality(Up(records, d, w))
           down == Cardinality(Down(records, d, w))
           same == Cardinality(Same(records, d, w))
           s == Size(n, w)
<1>1. n \in Nat /\ n >= 1 /\ DOMAIN records = 1..n /\ \A i \in 1..n : v(i) \in Int
  BY HistoriesOfNumbers
<1>2. f = Facts(records, d, w, b)
  BY FactsAre
<1>3. /\ f.count = n /\ f.best = b /\ f.improvement = Change(d, v(1), v(b))
      /\ f.regression = -Change(d, v(b), v(n)) /\ f.steps[1] = up /\ f.steps[2] = down
      /\ f.trend = Trend(s - 1, up, down, same)
  <2> HIDE DEF f, b
  <2> QED BY <1>2 DEF Facts
<1>4. FirstBest(records, d, b)
  BY BestIndexIsFirst
<1>5. b \in 1..n /\ (\A j \in 1..n : ~Better(d, v(j), v(b)))
      /\ \A i \in 1..(b - 1) : Better(d, v(b), v(i))
  <2> HIDE DEF b
  <2> QED BY <1>4 DEF FirstBest
<1> HIDE DEF b
<1>6. ~beaten(b) /\ \A i \in 1..(b - 1) : beaten(i)
  BY <1>5
<1>7. /\ Change(d, v(1), v(b)) \in Int /\ Change(d, v(1), v(b)) >= 0
      /\ Change(d, v(1), v(b)) = 0 <=> b = 1
  <2>1. 1 \in 1..n /\ ~Better(d, v(1), v(b))
    BY <1>1, <1>5
  <2>2. v(1) \in Int /\ v(b) \in Int
    BY <1>1, <1>5, <2>1
  <2>3. b # 1 => Better(d, v(b), v(1))
    <3>1. b # 1 => 1 \in 1..(b - 1)
      BY <1>1, <1>5
    <3> QED BY <1>5, <3>1
  <2>4. b = 1 => v(1) = v(b)
    OBVIOUS
  <2> HIDE DEF v
  <2> QED BY <2>1, <2>2, <2>3, <2>4, ImprovementIs
<1>8. /\ -Change(d, v(b), v(n)) \in Int /\ -Change(d, v(b), v(n)) >= 0
      /\ -Change(d, v(b), v(n)) > 0 <=> beaten(n)
      /\ b = n => ~(-Change(d, v(b), v(n)) > 0)
  <2>1. n \in 1..n /\ ~Better(d, v(n), v(b))
    BY <1>1, <1>5
  <2>2. v(n) \in Int /\ v(b) \in Int
    BY <1>1, <1>5, <2>1
  <2>3. beaten(n) => Better(d, v(b), v(n))
    <3>1. SUFFICES ASSUME NEW j \in 1..n, Better(d, v(j), v(n)) PROVE Better(d, v(b), v(n))
      OBVIOUS
    <3>2. v(j) \in Int /\ (v(j) = v(b) \/ Better(d, v(b), v(j)))
      BY <1>1, <1>5, <2>2, BetterOrders DEF Values
    <3> HIDE DEF v
    <3> QED BY <2>2, <3>1, <3>2, BetterOrders DEF Values
  <2>4. Better(d, v(b), v(n)) => beaten(n)
    BY <1>5
  <2> DEFINE c == Change(d, v(b), v(n))
  <2>5. c \in Int /\ (c < 0 <=> beaten(n)) /\ ~(c > 0) /\ (b = n => ~(c < 0))
    <3>1. b = n => ~Better(d, v(b), v(n))
      BY <1>6, <2>4
    <3> HIDE DEF v, beaten
    <3> QED BY <2>1, <2>2, <2>3, <2>4, <3>1, ImprovementIs
  <2> HIDE DEF c, beaten
  <2>6. -c \in Int /\ -c >= 0 /\ (-c > 0 <=> beaten(n)) /\ (b = n => ~(-c > 0))
    BY <2>5
  <2> QED BY <2>6 DEF c
<1>9. f.trend \in Trends /\ (f.trend = "insufficient_data" <=> n = 1)
      /\ (f.trend = "improving" => up > down)
  <2>1. s \in 1..n /\ (s = 1 <=> n = 1)
    BY <1>1 DEF Size
  <2>2. up \in Nat /\ down \in Nat /\ up + down <= s - 1
    BY StepsCounted
  <2> HIDE DEF s, up, down, same, f
  <2>3. f.trend \in Trends
    BY <1>3 DEF Trend, Trends
  <2>4. f.trend = "insufficient_data" <=> s - 1 = 0
    BY <1>3 DEF Trend
  <2>5. f.trend = "improving" => 2 * up > s - 1
    BY <1>3 DEF Trend
  <2>6. f.trend = "improving" => up > down
    BY <2>1, <2>2, <2>5
  <2> QED BY <1>1, <2>1, <2>3, <2>4, <2>6
<1>10. /\ codes \subseteq MetricCodeNames \cup TrendNames
       /\ "best_at_first_record" \in codes <=> n > 1 /\ b = 1
       /\ "best_at_last_record" \in codes <=> n > 1 /\ b = n
       /\ "no_improvement" \in codes <=> n > 1 /\ b = 1
       /\ "post_best_regression" \in codes <=> beaten(n)
       /\ "recent_improvement" \in codes => up > down
       /\ "insufficient_history_for_trend" \in codes <=> n = 1
  <2> HIDE DEF f, beaten, v, up, down
  <2>1. MetricCodes(f) \subseteq MetricCodeNames \cup TrendNames
    BY <1>9, CodesAre
  <2>2. /\ "best_at_first_record" \in codes <=> f.count > 1 /\ f.best = 1
        /\ "best_at_last_record" \in codes <=> f.count > 1 /\ f.best = f.count
        /\ "no_improvement" \in codes <=> f.count > 1 /\ f.improvement = 0
        /\ "post_best_regression" \in codes <=> f.regression > 0
        /\ "recent_improvement" \in codes <=> f.trend = "improving"
        /\ "insufficient_history_for_trend" \in codes <=> f.trend = "insufficient_data"
    BY <1>9, CodesAre
  <2> HIDE DEF codes
  <2> QED BY <1>3, <1>7, <1>8, <1>9, <2>1, <2>2 DEF codes
<1>11. beaten(n) => n > 1
  <2>1. n = 1 => b = n
    BY <1>1, <1>5
  <2> HIDE DEF beaten
  <2> QED BY <1>1, <1>6, <2>1
<1>12. f = MetricFacts(Negated(records), Other(d), w)
  BY FactsOfNegated
<1>13. UNION {Recommendations(codes)[r] : r \in DOMAIN Recommendations(codes)} = codes
  <2> HIDE DEF codes
  <2> QED BY <1>10, AllRecommended
<1>14. b = n => ~beaten(n)
  BY <1>6
<1>15. f.improvement >= 0 /\ f.regression >= 0
  <2> HIDE DEF f, v
  <2> QED BY <1>3, <1>7, <1>8
<1>16. {"best_at_last_record", "post_best_regression"} \cap codes # {}
           <=> n > 1 /\ (b = n \/ beaten(n))
  <2> HIDE DEF codes, beaten
  <2> QED BY <1>10, <1>11
<1>17. ~({"best_at_last_record", "post_best_regression"} \subseteq codes)
  <2> HIDE DEF codes, beaten
  <2> QED BY <1>10, <1>14
<1> DEFINE Beaten(i) == \E j \in DOMAIN records : Better(d, records[j][2], records[i][2])
<1>18. \A i : Beaten(i) = beaten(i)
  BY <1>1
<1> HIDE DEF codes, beaten, Beaten, f, up, down, v
<1>19. /\ f = MetricFacts(Negated(records), Other(d), w)
       /\ ~Beaten(f.best) /\ \A i \in 1..(f.best - 1) : Beaten(i)
       /\ f.best = BestIndex(records, d)
       /\ f.improvement >= 0 /\ f.regression >= 0
       /\ "no_improvement" \in codes <=> "best_at_first_record" \in codes
       /\ {"best_at_last_record", "post_best_regression"} \cap codes # {} <=> Len(records) > 1 /\
               (f.best = Len(records) \/ Beaten(Len(records)))
       /\ ~({"best_at_last_record", "post_best_regression"} \subseteq codes)
       /\ "insufficient_history_for_trend" \in codes <=> Len(records) = 1
       /\ "recent_improvement" \in codes /\ "recent_flat" \notin codes
               => f.steps[1] > f.steps[2]
       /\ UNION {Recommendations(codes)[r] : r \in DOMAIN Recommendations(codes)} = codes
  <2>1. f.best = BestIndex(records, d)
    BY <1>3 DEF b
  <2>2. ~Beaten(f.best) /\ \A i \in 1..(f.best - 1) : Beaten(i)
    BY <1>3, <1>6, <1>18
  <2>3. {"best_at_last_record", "post_best_regression"} \cap codes # {} <=> Len(records) > 1 /\
               (f.best = Len(records) \/ Beaten(Len(records)))
    BY <1>3, <1>16, <1>18
  <2>4. /\ "no_improvement" \in codes <=> "best_at_first_record" \in codes
        /\ "insufficient_history_for_trend" \in codes <=> Len(records) = 1
        /\ "recent_improvement" \in codes => f.steps[1] > f.steps[2]
    BY <1>3, <1>10
  <2> QED BY <1>12, <1>13, <1>15, <1>17, <2>1, <2>2, <2>3, <2>4
<1> QED BY <1>19 DEF FindingsAgree, f, codes, Beaten

----------------------------------------------------------------------------
(* The ranking of experiments *)

\* Records of different experiments, with numbers.
Rankable(records) ==
    /\ records \in Seq([experiment : Nat, value : Int])
    /\ \A i, j \in DOMAIN records : i # j => records[i].experiment # records[j].experiment

Goes(descending, x, y) == IF descending THEN Above(x, y) ELSE Above(y, x)

\* Which positions come before which others.
RankOrder(records, descending) ==
    {p \in (DOMAIN records) \X (DOMAIN records) :
        LET x == records[p[1]].value
            y == records[p[2]].value
        IN  Goes(descending, x, y) \/ (x = y /\ p[1] < p[2])}

\* The position of the record with rank p.
At(records, descending, p) ==
    CHOOSE i \in DOMAIN records : Place(RankOrder(records, descending), DOMAIN records, i) = p

LEMMA GoesOrders ==
    ASSUME NEW d, NEW x \in Int, NEW y \in Int, NEW z \in Int
    PROVE  /\ ~Goes(d, x, x)
           /\ Goes(d, x, y) /\ Goes(d, y, z) => Goes(d, x, z)
           /\ ~(Goes(d, x, y) /\ Goes(d, y, x))
           /\ x # y => Goes(d, x, y) \/ Goes(d, y, x)
           /\ Goes(d, x, y) <=> Goes(~d, y, x)
BY NaNAssumption DEF Goes, Above

LEMMA RankableHas ==
    ASSUME NEW records, Rankable(records)
    PROVE  /\ Len(records) \in Nat /\ DOMAIN records = 1..Len(records)
           /\ \A i \in 1..Len(records) : records[i].value \in Int
           /\ \A i, j \in 1..Len(records) :
                i # j => /\ records[i] # records[j]
                         /\ records[i].experiment # records[j].experiment
           /\ \A i \in 1..Len(records) : records[i] \in [experiment : Nat, value : Int]
<1> DEFINE E == [experiment : Nat, value : Int]
<1>1. records \in Seq(E)
  BY DEF Rankable
<1>2. Len(records) \in Nat /\ DOMAIN records = 1..Len(records)
      /\ \A i \in 1..Len(records) : records[i] \in E
  <2> HIDE DEF E
  <2> QED BY <1>1
<1>3. \A i, j \in 1..Len(records) : i # j => records[i].experiment # records[j].experiment
  BY <1>2 DEF Rankable
<1>4. \A i \in 1..Len(records) : records[i].value \in Int
  BY <1>2
<1> HIDE DEF E
<1> QED BY <1>2, <1>3, <1>4 DEF E

LEMMA FrontHas ==
    ASSUME NEW records, NEW d, NEW i \in DOMAIN records, NEW j \in DOMAIN records
    PROVE  <<i, j>> \in RankOrder(records, d) <=>
               \/ Goes(d, records[i].value, records[j].value)
               \/ records[i].value = records[j].value /\ i < j
BY DEF RankOrder

LEMMA FrontOrders ==
    ASSUME NEW records, Rankable(records), NEW d
    PROVE  Orders(RankOrder(records, d), DOMAIN records)
<1> DEFINE D == DOMAIN records
           v(i) == records[i].value
           R == RankOrder(records, d)
<1>1. D = 1..Len(records) /\ Len(records) \in Nat /\ \A i \in D : v(i) \in Int
  BY RankableHas
<1>2. \A i, j \in D : <<i, j>> \in R <=> Goes(d, v(i), v(j)) \/ (v(i) = v(j) /\ i < j)
  BY FrontHas
<1>3. D \subseteq Int
  BY <1>1
<1> HIDE DEF D, v, R
<1>4. ASSUME NEW x \in D PROVE <<x, x>> \notin R
  BY <1>1, <1>2, <1>3, GoesOrders
<1>5. ASSUME NEW x \in D, NEW y \in D, x # y PROVE <<x, y>> \in R \/ <<y, x>> \in R
  <2>1. x \in Int /\ y \in Int /\ v(x) \in Int /\ v(y) \in Int
    BY <1>1, <1>3
  <2>2. x < y \/ y < x
    BY <1>5, <2>1
  <2> QED BY <1>2, <2>1, <2>2, GoesOrders
<1>6. ASSUME NEW x \in D, NEW y \in D, NEW z \in D, <<x, y>> \in R, <<y, z>> \in R
      PROVE  <<x, z>> \in R
  <2>1. x \in Int /\ y \in Int /\ z \in Int /\ v(x) \in Int /\ v(y) \in Int /\ v(z) \in Int
    BY <1>1, <1>3
  <2>2. Goes(d, v(x), v(y)) \/ (v(x) = v(y) /\ x < y)
    BY <1>2, <1>6
  <2>3. Goes(d, v(y), v(z)) \/ (v(y) = v(z) /\ y < z)
    BY <1>2, <1>6
  <2>4. Goes(d, v(x), v(z)) \/ (v(x) = v(z) /\ x < z)
    BY <2>1, <2>2, <2>3, GoesOrders
  <2> QED BY <1>2, <2>4
<1> QED BY <1>4, <1>5, <1>6 DEF Orders, D, R

\* rank_comparison_records gives each record a rank, in the order of RankOrder.
LEMMA RanksAre ==
    ASSUME NEW records, Rankable(records), NEW d
    PROVE  LET n == Len(records)
           IN  /\ \A p \in 1..n : At(records, d, p) \in 1..n
               /\ \A i \in 1..n : \E p \in 1..n : At(records, d, p) = i
               /\ \A p, q \in 1..n : p < q =>
                    <<At(records, d, p), At(records, d, q)>> \in RankOrder(records, d)
<1> DEFINE n == Len(records)
           D == DOMAIN records
           R == RankOrder(records, d)
           pos(p) == At(records, d, p)
<1>1. n \in Nat /\ D = 1..n
  BY RankableHas
<1>2. IsFiniteSet(D) /\ Cardinality(D) = n
  <2>1. IsFiniteSet(1..n) /\ Cardinality(1..n) = IF 1 > n THEN 0 ELSE n - 1 + 1
    BY <1>1, FS_Interval
  <2> HIDE DEF n, D
  <2> QED BY <1>1, <2>1
<1>3. Orders(R, D)
  BY FrontOrders
<1> HIDE DEF R, D, n
<1>4. /\ \A x \in D : Place(R, D, x) \in 1..n
      /\ \A x, y \in D : Place(R, D, x) = Place(R, D, y) => x = y
      /\ \A i \in 1..n : \E x \in D : Place(R, D, x) = i
  BY <1>2, <1>3, Places
<1>5. \A p \in 1..n : pos(p) \in D /\ Place(R, D, pos(p)) = p
  BY <1>4 DEF At, R, D
<1> HIDE DEF pos
<1>6. ASSUME NEW i \in 1..n PROVE \E p \in 1..n : pos(p) = i
  <2>1. i \in D /\ Place(R, D, i) \in 1..n
    BY <1>1, <1>4
  <2> QED BY <1>4, <1>5, <2>1
<1>7. ASSUME NEW p \in 1..n, NEW q \in 1..n, p < q PROVE <<pos(p), pos(q)>> \in R
  <2>1. pos(p) \in D /\ pos(q) \in D /\ Place(R, D, pos(p)) = p /\ Place(R, D, pos(q)) = q
    BY <1>5
  <2>2. p \in Nat /\ q \in Nat
    BY <1>1
  <2>3. pos(p) # pos(q)
    BY <1>7, <2>1, <2>2
  <2>4. <<pos(q), pos(p)>> \notin R
    <3>1. SUFFICES ASSUME <<pos(q), pos(p)>> \in R PROVE FALSE
      OBVIOUS
    <3>2. Place(R, D, pos(q)) < Place(R, D, pos(p))
      BY <1>2, <1>3, <2>1, <3>1, PlacesGrow
    <3> QED BY <1>7, <2>1, <2>2, <3>2
  <2> QED BY <1>3, <2>1, <2>3, <2>4 DEF Orders
<1> QED BY <1>1, <1>5, <1>6, <1>7 DEF pos, n, R, D

LEMMA RankIs ==
    ASSUME NEW records, NEW d
    PROVE  Rank(records, d) = [p \in DOMAIN records |-> records[At(records, d, p)]]
<1> DEFINE D == DOMAIN records
           R == RankOrder(records, d)
           B(i) == {j \in D : \/ Goes(d, records[j].value, records[i].value)
                              \/ records[j].value = records[i].value /\ j < i}
<1>1. ASSUME NEW i \in D PROVE Cardinality(B(i)) + 1 = Place(R, D, i)
  <2>1. B(i) = {j \in D : <<j, i>> \in R}
    BY FrontHas
  <2> QED BY <2>1 DEF Place
<1>2. Rank(records, d) = [p \in D |-> records[CHOOSE i \in D : Cardinality(B(i)) + 1 = p]]
  BY DEF Rank, Goes
<1>3. ASSUME NEW p
      PROVE (CHOOSE i \in D : Cardinality(B(i)) + 1 = p) = At(records, d, p)
  <2> HIDE DEF B, R, D
  <2>1. (CHOOSE i \in D : Cardinality(B(i)) + 1 = p) = (CHOOSE i \in D : Place(R, D, i) = p)
    BY <1>1
  <2> QED BY <2>1 DEF At, R, D
<1> DEFINE chosen(p) == CHOOSE i \in D : Cardinality(B(i)) + 1 = p
<1>4. \A p : chosen(p) = At(records, d, p)
  BY <1>3
<1>5. Rank(records, d) = [p \in D |-> records[chosen(p)]]
  BY <1>2
<1> HIDE DEF chosen, D
<1>6. Rank(records, d) = [p \in D |-> records[At(records, d, p)]]
  BY <1>4, <1>5
<1> QED BY <1>6 DEF D

\* A function that gives different results to the numbers of an interval.
LEMMA ImageCounts ==
    ASSUME NEW a \in Int, NEW b \in Int, a <= b + 1, NEW f,
           \A p, q \in a..b : p # q => f[p] # f[q]
    PROVE  Cardinality({f[p] : p \in a..b}) = b - a + 1
<1> DEFINE I == a..b
           T == {f[p] : p \in I}
           g == [p \in I |-> f[p]]
<1>1. IsFiniteSet(I) /\ Cardinality(I) = b - a + 1
  <2>1. IsFiniteSet(I) /\ Cardinality(I) = IF a > b THEN 0 ELSE b - a + 1
    BY FS_Interval
  <2> HIDE DEF I
  <2> QED BY <2>1
<1>2. g \in Surjection(I, T)
  <2>1. g \in [I -> T] /\ \A t \in T : \E p \in I : g[p] = t
    OBVIOUS
  <2> HIDE DEF g, T, I
  <2> QED BY <2>1, Zenon DEF Surjection
<1>3. g \in Injection(I, T)
  <2>1. g \in [I -> T] /\ \A p, q \in I : g[p] = g[q] => p = q
    OBVIOUS
  <2> HIDE DEF g, T, I
  <2> QED BY <2>1, Zenon DEF Injection, IsInjective
<1> HIDE DEF g, T, I
<1>4. Cardinality(T) = Cardinality(I)
  BY <1>1, <1>2, <1>3, FS_Surjection
<1> QED BY <1>1, <1>4 DEF T, I

\* A list in order, another one in order of the same numbers: neither has the
\* greater one anywhere.
InOrder(d, n, v, a) ==
    /\ \A p \in 1..n : a[p] \in 1..n
    /\ \A p, q \in 1..n : p < q => a[p] # a[q] /\ ~Goes(d, v[a[q]], v[a[p]])

LEMMA NotAhead ==
    ASSUME NEW n \in Nat, NEW v, \A i \in 1..n : v[i] \in Int, NEW d, NEW a, NEW b,
           InOrder(d, n, v, a), InOrder(d, n, v, b), NEW p \in 1..n
    PROVE  ~Goes(d, v[a[p]], v[b[p]])
<1>1. SUFFICES ASSUME Goes(d, v[a[p]], v[b[p]]) PROVE FALSE
  OBVIOUS
<1> DEFINE S == {a[q] : q \in 1..p}
           T == {b[q] : q \in p..n}
<1>2. \A q \in 1..p : q \in 1..n
  OBVIOUS
<1>3. \A q \in p..n : q \in 1..n
  OBVIOUS
<1>4. S \subseteq 1..n /\ T \subseteq 1..n
  BY <1>2, <1>3 DEF InOrder
<1>5. Cardinality(S) = p /\ Cardinality(T) = n - p + 1
  <2>1. \A q, r \in 1..n : q # r => a[q] # a[r] /\ b[q] # b[r]
    <3>1. \A q, r \in 1..n : q # r => q < r \/ r < q
      OBVIOUS
    <3> QED BY <3>1 DEF InOrder
  <2>2. Cardinality(S) = p - 1 + 1
    <3>1. \A q, r \in 1..p : q # r => a[q] # a[r]
      BY <1>2, <2>1
    <3>2. 1 \in Int /\ p \in Int /\ 1 <= p + 1
      OBVIOUS
    <3> QED BY <3>1, <3>2, ImageCounts
  <2>3. Cardinality(T) = n - p + 1
    <3>1. \A q, r \in p..n : q # r => b[q] # b[r]
      BY <1>3, <2>1
    <3>2. p \in Int /\ n \in Int /\ p <= n + 1
      OBVIOUS
    <3> QED BY <3>1, <3>2, ImageCounts
  <2> HIDE DEF S, T
  <2> QED BY <2>2, <2>3
<1>6. IsFiniteSet(1..n) /\ Cardinality(1..n) = n
  BY FS_Interval
<1>7. S \cap T # {}
  <2> HIDE DEF S, T
  <2>1. Cardinality(S) + Cardinality(T) > n
    BY <1>5
  <2> QED BY <1>4, <1>6, <2>1, FS_MajoritiesIntersect
<1>8. PICK q \in 1..p, r \in p..n : a[q] = b[r]
  BY <1>7
<1>9. q \in 1..n /\ r \in 1..n /\ a[p] \in 1..n /\ b[p] \in 1..n /\ a[q] \in 1..n
  BY <1>2, <1>3 DEF InOrder
<1> DEFINE x == v[a[p]]
           y == v[b[p]]
           z == v[a[q]]
<1>10. x \in Int /\ y \in Int /\ z \in Int
  BY <1>9
<1>11. ~Goes(d, x, z)
  <2>1. q = p \/ q < p
    OBVIOUS
  <2> QED BY <1>9, <1>10, <2>1, GoesOrders DEF InOrder
<1>12. ~Goes(d, z, y)
  <2>1. r = p \/ p < r
    OBVIOUS
  <2>2. z = v[b[r]]
    BY <1>8
  <2> QED BY <1>9, <1>10, <2>1, <2>2, GoesOrders DEF InOrder
<1>13. Goes(d, x, y)
  BY <1>1
<1> HIDE DEF x, y, z
<1> QED BY <1>10, <1>11, <1>12, <1>13, GoesOrders

\* Ranking the other way round turns over the values.
LEMMA RankedBack ==
    ASSUME NEW records, Rankable(records), NEW d, NEW p \in 1..Len(records)
    PROVE  records[At(records, d, p)].value
             = records[At(records, ~d, Len(records) + 1 - p)].value
<1> DEFINE n == Len(records)
           v == [i \in 1..n |-> records[i].value]
           a == [q \in 1..n |-> At(records, d, q)]
           b == [q \in 1..n |-> At(records, ~d, n + 1 - q)]
<1>1. n \in Nat /\ DOMAIN records = 1..n /\ \A i \in 1..n : v[i] \in Int
  BY RankableHas
<1>2. \A e : (\A q \in 1..n : At(records, e, q) \in 1..n)
             /\ \A q, r \in 1..n : q < r =>
                  <<At(records, e, q), At(records, e, r)>> \in RankOrder(records, e)
  BY RanksAre
<1>3. \A e : \A i, j \in 1..n : <<i, j>> \in RankOrder(records, e) =>
          i # j /\ ~Goes(e, v[j], v[i])
  <2> SUFFICES ASSUME NEW e, NEW i \in 1..n, NEW j \in 1..n, <<i, j>> \in RankOrder(records, e)
               PROVE  i # j /\ ~Goes(e, v[j], v[i])
    OBVIOUS
  <2>1. v[i] = records[i].value /\ v[j] = records[j].value /\ v[i] \in Int /\ v[j] \in Int
    BY <1>1
  <2>2. Goes(e, v[i], v[j]) \/ (v[i] = v[j] /\ i < j)
    BY <1>1, <2>1, FrontHas
  <2> HIDE DEF v
  <2> QED BY <1>1, <2>1, <2>2, GoesOrders
<1> HIDE DEF v
<1>4. InOrder(d, n, v, a)
  <2>1. \A q \in 1..n : a[q] = At(records, d, q)
    OBVIOUS
  <2> HIDE DEF a, n
  <2>2. \A q \in 1..n : a[q] \in 1..n
    BY <1>2, <2>1
  <2>3. ASSUME NEW q \in 1..n, NEW r \in 1..n, q < r
        PROVE  a[q] # a[r] /\ ~Goes(d, v[a[r]], v[a[q]])
    <3>1. <<a[q], a[r]>> \in RankOrder(records, d)
      BY <1>2, <2>1, <2>3
    <3> QED BY <1>3, <2>2, <3>1
  <2> QED BY <2>2, <2>3 DEF InOrder
<1>5. InOrder(d, n, v, b)
  <2>1. \A q \in 1..n : b[q] = At(records, ~d, n + 1 - q) /\ n + 1 - q \in 1..n
    BY <1>1
  <2> HIDE DEF b, n
  <2>2. ASSUME NEW q \in 1..n, NEW r \in 1..n, q < r
        PROVE  b[q] # b[r] /\ ~Goes(d, v[b[r]], v[b[q]])
    <3>1. n + 1 - r < n + 1 - q /\ n + 1 - r \in 1..n /\ n + 1 - q \in 1..n
      BY <1>1, <2>2
    <3> DEFINE s == n + 1 - r
               t == n + 1 - q
    <3>2. b[r] \in 1..n /\ b[q] \in 1..n /\ <<b[r], b[q]>> \in RankOrder(records, ~d)
      <4>1. b[r] = At(records, ~d, s) /\ b[q] = At(records, ~d, t)
        BY <2>1
      <4>2. s < t /\ s \in 1..n /\ t \in 1..n
        BY <3>1
      <4> HIDE DEF s, t
      <4>3. At(records, ~d, s) \in 1..n /\ At(records, ~d, t) \in 1..n
        BY <1>2, <4>2
      <4>4. <<At(records, ~d, s), At(records, ~d, t)>> \in RankOrder(records, ~d)
        BY <1>2, <4>2
      <4> QED BY <4>1, <4>3, <4>4
    <3>3. b[r] # b[q] /\ ~Goes(~d, v[b[q]], v[b[r]])
      BY <1>3, <3>2
    <3>4. v[b[q]] \in Int /\ v[b[r]] \in Int
      BY <1>1, <3>2
    <3>5. Goes(d, v[b[r]], v[b[q]]) <=> Goes(~d, v[b[q]], v[b[r]])
      BY <3>4, GoesOrders
    <3> QED BY <3>3, <3>5
  <2>3. \A q \in 1..n : b[q] \in 1..n
    BY <1>2, <2>1
  <2> QED BY <2>2, <2>3 DEF InOrder
<1>6. a[p] \in 1..n /\ b[p] \in 1..n
  <2> HIDE DEF a, b
  <2> QED BY <1>4, <1>5 DEF InOrder
<1>7. v[a[p]] = v[b[p]]
  <2> HIDE DEF a, b, n
  <2>1. ~Goes(d, v[a[p]], v[b[p]])
    BY <1>1, <1>4, <1>5, NotAhead DEF n
  <2>2. ~Goes(d, v[b[p]], v[a[p]])
    BY <1>1, <1>4, <1>5, NotAhead DEF n
  <2> QED BY <1>1, <1>6, <2>1, <2>2, GoesOrders
<1>8. a[p] = At(records, d, p) /\ b[p] = At(records, ~d, n + 1 - p)
  OBVIOUS
<1>9. v[a[p]] = records[a[p]].value /\ v[b[p]] = records[b[p]].value
  <2> HIDE DEF a, b
  <2> QED BY <1>6 DEF v
<1> QED BY <1>7, <1>8, <1>9

\* What rank_comparison_records returns, for the facts made of it.
RankFacts(records, d, ranked) ==
    LET n == Len(records)
    IN  /\ n \in Nat /\ ranked \in Seq([experiment : Nat, value : Int])
        /\ Len(ranked) = n /\ Range(ranked) = Range(records)
        /\ \A i, j \in 1..n : i < j => ~Goes(d, ranked[j].value, ranked[i].value)
        /\ \A i, j \in 1..n : i # j => ranked[i].experiment # ranked[j].experiment

LEMMA RankHasFacts ==
    ASSUME NEW records, Rankable(records), NEW d
    PROVE  RankFacts(records, d, Rank(records, d))
<1> DEFINE n == Len(records)
           pos(p) == At(records, d, p)
           ranked == Rank(records, d)
           E == [experiment : Nat, value : Int]
<1>1. n \in Nat /\ DOMAIN records = 1..n /\ \A i \in 1..n : records[i].value \in Int
  BY RankableHas
<1>2. ranked = [p \in 1..n |-> records[pos(p)]]
  BY <1>1, RankIs
<1>3. /\ \A p \in 1..n : pos(p) \in 1..n
      /\ \A i \in 1..n : \E p \in 1..n : pos(p) = i
      /\ \A p, q \in 1..n : p < q => <<pos(p), pos(q)>> \in RankOrder(records, d)
  BY RanksAre
<1> HIDE DEF ranked, pos
<1>4. \A i \in 1..n : records[i] \in E
  BY RankableHas
<1>5. ranked \in [1..n -> E]
  BY <1>2, <1>3, <1>4
<1>6. ranked \in Seq(E) /\ Len(ranked) = n
  <2> HIDE DEF n, E
  <2> QED BY <1>1, <1>5
<1>7. Range(ranked) = Range(records)
  <2>1. DOMAIN ranked = 1..n /\ \A p \in 1..n : ranked[p] = records[pos(p)]
    BY <1>2
  <2> QED BY <1>1, <1>3, <2>1 DEF Range
<1>8. ASSUME NEW i \in 1..n, NEW j \in 1..n, i < j
      PROVE  ~Goes(d, ranked[j].value, ranked[i].value)
             /\ ranked[i].experiment # ranked[j].experiment
  <2>1. pos(i) \in 1..n /\ pos(j) \in 1..n /\ <<pos(i), pos(j)>> \in RankOrder(records, d)
    BY <1>3, <1>8
  <2>2. ranked[i] = records[pos(i)] /\ ranked[j] = records[pos(j)]
    BY <1>2
  <2> DEFINE x == records[pos(i)].value
             y == records[pos(j)].value
  <2>3. Goes(d, x, y) \/ (x = y /\ pos(i) < pos(j))
    BY <1>1, <2>1, FrontHas
  <2>4. x \in Int /\ y \in Int
    BY <1>1, <2>1
  <2> HIDE DEF x, y
  <2>5. ~Goes(d, y, x) /\ (x = y => pos(i) < pos(j)) /\ (Goes(d, x, y) => x # y)
    BY <2>3, <2>4, GoesOrders
  <2>6. pos(i) # pos(j)
    <3>1. pos(i) = pos(j) => x = y
      BY DEF x, y
    <3> QED BY <1>1, <2>1, <2>5, <3>1
  <2>7. records[pos(i)].experiment # records[pos(j)].experiment
    BY <1>1, <2>1, <2>6 DEF Rankable
  <2> QED BY <2>2, <2>5, <2>7 DEF x, y
<1>9. \A i, j \in 1..n : i # j => ranked[i].experiment # ranked[j].experiment
  <2>1. \A i, j \in 1..n : i # j => i < j \/ j < i
    BY <1>1
  <2> QED BY <1>8, <2>1
<1>10. \A i, j \in 1..n : i < j => ~Goes(d, ranked[j].value, ranked[i].value)
  BY <1>8
<1> HIDE DEF n
<1>11. \A i, j \in 1..Len(records) : i < j => ~Goes(d, ranked[j].value, ranked[i].value)
  BY <1>10 DEF n
<1>12. \A i, j \in 1..Len(records) : i # j => ranked[i].experiment # ranked[j].experiment
  BY <1>9 DEF n
<1>13. Len(records) \in Nat /\ ranked \in Seq(E) /\ Len(ranked) = Len(records)
  BY <1>1, <1>6 DEF n
<1> QED BY <1>7, <1>11, <1>12, <1>13, Zenon DEF RankFacts, ranked

\* Equal values stay in their order.
LEMMA TiesStay ==
    ASSUME NEW records, Rankable(records), NEW d,
           NEW i \in 1..Len(records), NEW j \in 1..Len(records), i < j,
           Rank(records, d)[i].value = Rank(records, d)[j].value
    PROVE  (CHOOSE k \in DOMAIN records : records[k] = Rank(records, d)[i])
             < (CHOOSE k \in DOMAIN records : records[k] = Rank(records, d)[j])
<1> DEFINE n == Len(records)
           pos(p) == At(records, d, p)
           ranked == Rank(records, d)
<1>1. /\ n \in Nat /\ DOMAIN records = 1..n /\ \A k \in 1..n : records[k].value \in Int
      /\ \A k, l \in 1..n : k # l => records[k] # records[l]
  BY RankableHas
<1>2. ranked[i] = records[pos(i)] /\ ranked[j] = records[pos(j)]
  BY <1>1, RankIs
<1>3. pos(i) \in 1..n /\ pos(j) \in 1..n /\ <<pos(i), pos(j)>> \in RankOrder(records, d)
  BY RanksAre
<1> HIDE DEF pos
<1>4. pos(i) < pos(j)
  <2> DEFINE x == records[pos(i)].value
             y == records[pos(j)].value
  <2>1. Goes(d, x, y) \/ (x = y /\ pos(i) < pos(j))
    BY <1>1, <1>3, FrontHas
  <2>2. x = y
    BY <1>2
  <2>3. x \in Int
    BY <1>1, <1>3
  <2> HIDE DEF x, y
  <2> QED BY <2>1, <2>2, <2>3, GoesOrders
<1>5. ASSUME NEW k \in 1..n
      PROVE  (CHOOSE l \in DOMAIN records : records[l] = records[k]) = k
  <2> HIDE DEF n
  <2> QED BY <1>1
<1> DEFINE place(x) == CHOOSE l \in DOMAIN records : records[l] = x
<1>6. place(records[pos(i)]) = pos(i) /\ place(records[pos(j)]) = pos(j)
  BY <1>3, <1>5
<1>7. place(ranked[i]) < place(ranked[j])
  <2> HIDE DEF place
  <2> QED BY <1>2, <1>4, <1>6
<1> QED BY <1>7

Gap(ranked, d, i) ==
    IF i > Len(ranked) THEN {}
    ELSE IF d THEN {ranked[1].value - ranked[i].value}
    ELSE {ranked[i].value - ranked[1].value}
Tied(ranked) ==
    {ranked[i].experiment : i \in {j \in 1..Len(ranked) : ranked[j].value = ranked[1].value}}

LEMMA ComparisonFactsAre ==
    ASSUME NEW ranked, NEW m, NEW d
    PROVE  /\ ComparisonFacts(ranked, m, d).tied = Tied(ranked)
           /\ ComparisonFacts(ranked, m, d).second_gap = Gap(ranked, d, 2)
           /\ ComparisonFacts(ranked, m, d).worst_gap
                = IF Len(ranked) = 0 THEN {} ELSE Gap(ranked, d, Len(ranked))
BY DEF ComparisonFacts, Tied, Gap

\* The gaps to the first do not shrink, and the second has none exactly when it
\* is tied with the first (build_comparison_facts).
LEMMA GapsAre ==
    ASSUME NEW records, NEW d \in BOOLEAN, NEW ranked, RankFacts(records, d, ranked),
           Len(ranked) > 1
    PROVE  /\ \A gap \in Gap(ranked, d, 2), worst \in Gap(ranked, d, Len(ranked)) :
                0 <= gap /\ gap <= worst
           /\ Cardinality(Tied(ranked)) > 1 <=> Gap(ranked, d, 2) = {0}
<1> DEFINE n == Len(ranked)
           v(i) == ranked[i].value
           e(i) == ranked[i].experiment
<1>1. n \in Nat /\ n > 1 /\ \A i \in 1..n : v(i) \in Int
  <2> DEFINE E == [experiment : Nat, value : Int]
  <2>1. ranked \in Seq(E)
    BY DEF RankFacts
  <2>2. n \in Nat /\ \A i \in 1..n : ranked[i] \in E
    <3> HIDE DEF E
    <3> QED BY <2>1
  <2> QED BY <2>2
<1>2. \A i, j \in 1..n : i < j => ~Goes(d, v(j), v(i))
  BY DEF RankFacts
<1>3. \A i, j \in 1..n : i # j => e(i) # e(j)
  BY DEF RankFacts
<1>4. 1 \in 1..n /\ 2 \in 1..n /\ n \in 1..n /\ ~(2 > n) /\ ~(n > n)
  BY <1>1
<1>5. /\ Gap(ranked, d, 2) = IF d THEN {v(1) - v(2)} ELSE {v(2) - v(1)}
      /\ Gap(ranked, d, n) = IF d THEN {v(1) - v(n)} ELSE {v(n) - v(1)}
  BY <1>4 DEF Gap
<1>6. Tied(ranked) = {e(i) : i \in {j \in 1..n : v(j) = v(1)}}
  BY DEF Tied
<1> HIDE DEF v, e, n
<1>7. ~Goes(d, v(2), v(1)) /\ ~Goes(d, v(n), v(2)) /\ v(1) \in Int /\ v(2) \in Int /\ v(n) \in Int
  <2>1. ~Goes(d, v(2), v(2))
    BY <1>1, <1>4, GoesOrders
  <2>2. n = 2 \/ 2 < n
    BY <1>1
  <2> QED BY <1>1, <1>2, <1>4, <2>1, <2>2
<1>8. d => v(1) >= v(2) /\ v(2) >= v(n)
  BY <1>7, NaNAssumption DEF Goes, Above
<1>9. ~d => v(1) <= v(2) /\ v(2) <= v(n)
  BY <1>7, NaNAssumption DEF Goes, Above
<1>10. \A gap \in Gap(ranked, d, 2), worst \in Gap(ranked, d, n) : 0 <= gap /\ gap <= worst
  <2>1. ASSUME d PROVE 0 <= v(1) - v(2) /\ v(1) - v(2) <= v(1) - v(n)
    BY <1>7, <1>8, <2>1
  <2>2. ASSUME ~d PROVE 0 <= v(2) - v(1) /\ v(2) - v(1) <= v(n) - v(1)
    BY <1>7, <1>9, <2>2
  <2> QED BY <1>5, <2>1, <2>2
<1>11. Gap(ranked, d, 2) = {0} <=> v(1) = v(2)
  <2>1. v(1) - v(2) = 0 <=> v(1) = v(2)
    BY <1>7
  <2>2. v(2) - v(1) = 0 <=> v(1) = v(2)
    BY <1>7
  <2> QED BY <1>5, <2>1, <2>2
<1>12. ASSUME v(1) = v(2) PROVE Cardinality(Tied(ranked)) > 1
  <2> DEFINE J == {j \in 1..n : v(j) = v(1)}
             g == [j \in J |-> e(j)]
  <2>1. IsFiniteSet(1..n)
    BY <1>1, FS_Interval
  <2>2. IsFiniteSet(J)
    BY <2>1, FS_Subset
  <2>3. g \in Surjection(J, Tied(ranked))
    <3>1. g \in [J -> Tied(ranked)] /\ \A t \in Tied(ranked) : \E j \in J : g[j] = t
      BY <1>6
    <3> HIDE DEF g, J
    <3> QED BY <3>1, Zenon DEF Surjection
  <2>4. IsFiniteSet(Tied(ranked))
    <3> HIDE DEF g, J
    <3> QED BY <2>2, <2>3, FS_Surjection
  <2>5. e(1) \in Tied(ranked) /\ e(2) \in Tied(ranked) /\ e(1) # e(2)
    BY <1>3, <1>4, <1>6, <1>12
  <2>6. IsFiniteSet({e(1)}) /\ Cardinality({e(1)}) = 1
    BY FS_Singleton
  <2>7. Cardinality({e(1)} \cup {e(2)}) = 2
    <3>1. e(2) \notin {e(1)}
      BY <2>5
    <3> DEFINE S == {e(1)}
               y == e(2)
    <3>2. Cardinality(S \cup {y}) = IF y \in S THEN Cardinality(S) ELSE Cardinality(S) + 1
      <4> HIDE DEF y
      <4> QED BY <2>6, FS_AddElement
    <3> QED BY <2>6, <3>1, <3>2
  <2>8. Cardinality({e(1)} \cup {e(2)}) <= Cardinality(Tied(ranked))
    BY <2>4, <2>5, FS_Subset
  <2>9. Cardinality(Tied(ranked)) \in Nat
    BY <2>4, FS_CardinalityType
  <2> QED BY <2>7, <2>8, <2>9
<1>13. ASSUME v(1) # v(2) PROVE Cardinality(Tied(ranked)) = 1
  <2>1. ASSUME NEW j \in 1..n, j # 1 PROVE v(j) # v(1)
    <3>1. Goes(d, v(1), v(2))
      BY <1>7, <1>13, GoesOrders
    <3>2. j = 2 \/ 2 < j
      BY <1>1, <2>1
    <3>3. v(j) = v(2) \/ ~Goes(d, v(j), v(2))
      BY <1>2, <1>4, <3>2
    <3>4. v(j) \in Int
      BY <1>1
    <3> QED BY <1>7, <3>1, <3>3, <3>4, GoesOrders
  <2>2. {j \in 1..n : v(j) = v(1)} = {1}
    BY <1>4, <2>1
  <2>3. Tied(ranked) = {e(1)}
    BY <1>6, <2>2
  <2> QED BY <2>3, FS_Singleton
<1>14. Cardinality(Tied(ranked)) > 1 <=> Gap(ranked, d, 2) = {0}
  BY <1>11, <1>12, <1>13
<1> QED BY <1>10, <1>14 DEF n

\* A ranking of experiments with numbers is what the comparison says it is
\* (rank_comparison_records, build_comparison_facts).
LEMMA RankingIsWell ==
    ASSUME NEW records, Rankable(records), NEW d \in BOOLEAN
    PROVE  RankedWell(records, d)
<1> DEFINE ranked == Rank(records, d)
           n == Len(records)
           facts == ComparisonFacts(ranked, 0, d)
           place(r) == CHOOSE i \in DOMAIN records : records[i] = r
<1>1. n \in Nat /\ DOMAIN records = 1..n
  BY RankableHas
<1>2. RankFacts(records, d, ranked)
  BY RankHasFacts
<1>3. Range(ranked) = Range(records) /\ Len(ranked) = n
  <2> HIDE DEF ranked
  <2> QED BY <1>2 DEF RankFacts
<1>4. \A i, j \in 1..n : i < j =>
        /\ ~(IF d THEN Above(ranked[j].value, ranked[i].value)
                  ELSE Above(ranked[i].value, ranked[j].value))
        /\ ranked[i].value = ranked[j].value => place(ranked[i]) < place(ranked[j])
  <2>1. ASSUME NEW i \in 1..n, NEW j \in 1..n, i < j, ranked[i].value = ranked[j].value
        PROVE  place(ranked[i]) < place(ranked[j])
    BY <2>1, TiesStay
  <2> HIDE DEF ranked, place
  <2>2. \A i, j \in 1..n : i < j => ~Goes(d, ranked[j].value, ranked[i].value)
    BY <1>2 DEF RankFacts
  <2> QED BY <2>1, <2>2 DEF Goes
<1>5. \A gap \in facts.second_gap, worst \in facts.worst_gap : 0 <= gap /\ gap <= worst
  <2> HIDE DEF ranked, n
  <2>1. facts.second_gap = Gap(ranked, d, 2)
        /\ facts.worst_gap = IF n = 0 THEN {} ELSE Gap(ranked, d, n)
    BY <1>3, ComparisonFactsAre
  <2> HIDE DEF facts
  <2>2. CASE n > 1
    BY <1>1, <1>2, <1>3, <2>1, <2>2, GapsAre
  <2>3. CASE ~(n > 1)
    <3>1. 2 > n
      BY <1>1, <2>3
    <3> QED BY <1>3, <2>1, <3>1 DEF Gap
  <2> QED BY <2>2, <2>3
<1>6. n > 1 => (Cardinality(facts.tied) > 1 <=> facts.second_gap = {0})
  <2> HIDE DEF ranked, n
  <2>1. facts.second_gap = Gap(ranked, d, 2) /\ facts.tied = Tied(ranked)
    BY <1>3, ComparisonFactsAre
  <2> HIDE DEF facts
  <2> QED BY <1>2, <1>3, <2>1, GapsAre
<1>7. [i \in 1..n |-> Rank(records, ~d)[n + 1 - i].value] = [i \in 1..n |-> ranked[i].value]
  <2>1. ASSUME NEW i \in 1..n PROVE Rank(records, ~d)[n + 1 - i].value = ranked[i].value
    <3>1. n + 1 - i \in 1..n
      BY <1>1
    <3>2. Rank(records, ~d)[n + 1 - i] = records[At(records, ~d, n + 1 - i)]
      <4> HIDE DEF n
      <4> QED BY <1>1, <3>1, RankIs
    <3>3. ranked[i] = records[At(records, d, i)]
      <4> HIDE DEF n
      <4> QED BY <1>1, RankIs
    <3> QED BY <3>2, <3>3, RankedBack
  <2> HIDE DEF ranked, n
  <2> QED BY <2>1
<1> HIDE DEF ranked, place, facts
<1> QED BY <1>3, <1>4, <1>5, <1>6, <1>7 DEF RankedWell, ranked, place, facts

----------------------------------------------------------------------------
(* The inductive invariant *)

\* Where a call stands: a check is held only between it and what it allows.
Stands ==
    /\ phase = "over" \/ answer = None
    /\ phase = "scan" => at \in {"dir", "config", "history"}
    /\ phase = "scan" /\ call.tool \in Single => at = "dir"
    /\ at = "dir" /\ phase \in {"scan", "read"} => held = None
    /\ phase = "scan" /\ at = "config" => held = None
    /\ phase = "write" => call.tool \in Writers

\* A file about to be opened was, when it was checked, inside the authority.
HeldAuthorized ==
    call.scoped /\ phase = "read" /\ held # None =>
        Authorized(held.dir) /\ Authorized(held.file)

\* What was opened outside had been replaced.
ReadsContained ==
    call.scoped => \A r \in reads : r.where = "outside" => r.replaced

\* A name that is unsafe, and was all along, is still to be scanned: it is not
\* past its configuration if that is what makes it unsafe.
UnsafeAhead ==
    call.scoped /\ call.tool \notin Single =>
        /\ phase \in {"read", "write"} => \A e \in Experiments \ touched : ~Unsafe(e)
        /\ phase = "scan" => \A e \in Experiments \ touched : Unsafe(e) => e \in todo
        /\ phase = "scan" /\ at = "history" /\ current \in Experiments \ touched =>
             FileSeen(current, "config") # "refused"

\* Only a comparison answers with records.
AnswerContained ==
    call.scoped /\ answer # None /\ answer.kind \in {"payload", "unordered"} =>
        \A e \in Experiments \ touched : ~Unsafe(e)

DInv == Stands /\ HeldAuthorized /\ ReadsContained /\ UnsafeAhead /\ AnswerContained

----------------------------------------------------------------------------
(* What the checks exclude *)

\* A file that is where its check saw it is not opened outside (_inspect).
LEMMA OpenedInside ==
    ASSUME NEW e, NEW f, call.scoped, held = Seen(e, f),
           Authorized(held.dir), Authorized(held.file)
    PROVE  Opened(e, f) # "outside"
<1>1. held.dir = tree[e].dir /\ held.file = tree[e][f]
  BY DEF Seen
<1>2. "link_out" \notin {tree[e].dir, tree[e][f], "plain"}
  BY <1>1 DEF Authorized
<1> QED
  BY <1>2 DEF Opened

\* A name that the scan passed, both files of it, is not unsafe
\* (_has_experiment_files).
LEMMA PassedIsSafe ==
    ASSUME NEW e, call.scoped,
           FileSeen(e, "config") # "refused", FileSeen(e, "history") # "refused"
    PROVE  ~Unsafe(e)
BY DEF FileSeen, Unsafe, FileAuthorized, DirAuthorized, Authorized, Files

----------------------------------------------------------------------------
(* The invariant is inductive *)

LEMMA InitInvariant == Init => DInv
BY DEF Init, DInv, Stands, HeldAuthorized, ReadsContained, UnsafeAhead, AnswerContained, Unsafe

LEMMA StandsKept == ASSUME Stands, [Next]_vars PROVE Stands'
<1> USE DEF Stands, world
<1>0. CASE UNCHANGED vars BY <1>0 DEF vars
<1>1. CASE Replace BY <1>1 DEF Replace
<1>2. CASE ScanDir BY <1>2 DEF ScanDir, Finished
<1>3. CASE ScanConfig BY <1>3 DEF ScanConfig, Finished, Scanned
<1>4. CASE ScanHistory BY <1>4 DEF ScanHistory, Finished, Scanned
<1>5. CASE EndScan BY <1>5 DEF EndScan
<1>6. CASE Resolve BY <1>6 DEF Resolve, Finished
<1>7. CASE AuthorizeDir BY <1>7 DEF AuthorizeDir, Finished
<1>8. CASE CheckFile BY <1>8 DEF CheckFile, Finished, Files
<1>9. CASE OpenFails BY <1>9 DEF OpenFails, FailExperiment, Files
<1>10. CASE OpenConfig BY <1>10 DEF OpenConfig, Files
<1>11. CASE OpenHistory BY <1>11 DEF OpenHistory, FailExperiment, Files
<1>12. CASE Build BY <1>12 DEF Build
<1>13. CASE Write BY <1>13 DEF Write
<1> QED
  BY <1>0, <1>1, <1>2, <1>3, <1>4, <1>5, <1>6, <1>7, <1>8, <1>9, <1>10, <1>11, <1>12, <1>13
     DEF Next

LEMMA HeldKept == ASSUME Stands, HeldAuthorized, [Next]_vars PROVE HeldAuthorized'
<1> USE DEF Stands, HeldAuthorized, world
<1>0. CASE UNCHANGED vars BY <1>0 DEF vars
<1>1. CASE Replace BY <1>1 DEF Replace
<1>2. CASE ScanDir BY <1>2 DEF ScanDir, Finished
<1>3. CASE ScanConfig BY <1>3 DEF ScanConfig, Finished, Scanned
<1>4. CASE ScanHistory BY <1>4 DEF ScanHistory, Finished, Scanned
<1>5. CASE EndScan BY <1>5 DEF EndScan
<1>6. CASE Resolve BY <1>6 DEF Resolve, Finished
<1>7. CASE AuthorizeDir BY <1>7 DEF AuthorizeDir, Finished
<1>8. CASE CheckFile BY <1>8 DEF CheckFile, Finished, Files, FileAuthorized, DirAuthorized,
                        Seen, Authorized
<1>9. CASE OpenFails BY <1>9 DEF OpenFails, FailExperiment, Files
<1>10. CASE OpenConfig BY <1>10 DEF OpenConfig, Files
<1>11. CASE OpenHistory BY <1>11 DEF OpenHistory, FailExperiment, Files
<1>12. CASE Build BY <1>12 DEF Build
<1>13. CASE Write BY <1>13 DEF Write
<1> QED
  BY <1>0, <1>1, <1>2, <1>3, <1>4, <1>5, <1>6, <1>7, <1>8, <1>9, <1>10, <1>11, <1>12, <1>13
     DEF Next

LEMMA ReadsKept ==
    ASSUME HeldAuthorized, ReadsContained, [Next]_vars PROVE ReadsContained'
<1> USE DEF ReadsContained, world
<1>0. CASE UNCHANGED vars BY <1>0 DEF vars
<1>A. ASSUME NEW e, NEW f, phase = "read", held # None, call' = call, Read(e, f, Opened(e, f))
      PROVE  ReadsContained'
  <2> DEFINE replaced == held # Seen(e, f)
             new == [experiment |-> e, file |-> f, where |-> Opened(e, f), replaced |-> replaced]
  <2>1. reads' = reads \cup {new}
    BY <1>A DEF Read
  <2>2. call.scoped /\ Opened(e, f) = "outside" => replaced
    BY <1>A, OpenedInside DEF HeldAuthorized
  <2> HIDE DEF replaced
  <2>3. new.where = Opened(e, f) /\ new.replaced = replaced
    OBVIOUS
  <2>4. call.scoped /\ new.where = "outside" => new.replaced
    BY <2>2, <2>3, Zenon
  <2> HIDE DEF new
  <2> QED
    BY <1>A, <2>1, <2>4, Zenon
<1>1. CASE Replace BY <1>1 DEF Replace
<1>2. CASE ScanDir BY <1>2 DEF ScanDir, Finished
<1>3. CASE ScanConfig BY <1>3 DEF ScanConfig, Finished, Scanned
<1>4. CASE ScanHistory BY <1>4 DEF ScanHistory, Finished, Scanned
<1>5. CASE EndScan BY <1>5 DEF EndScan
<1>6. CASE Resolve BY <1>6 DEF Resolve, Finished
<1>7. CASE AuthorizeDir BY <1>7 DEF AuthorizeDir, Finished
<1>8. CASE CheckFile BY <1>8 DEF CheckFile, Finished, Files
<1>9. CASE OpenFails BY <1>9, <1>A DEF OpenFails, FailExperiment, Files
<1>10. CASE OpenConfig BY <1>10, <1>A DEF OpenConfig, Files
<1>11. CASE OpenHistory BY <1>11, <1>A DEF OpenHistory, FailExperiment, Files
<1>12. CASE Build BY <1>12 DEF Build
<1>13. CASE Write BY <1>13 DEF Write
<1> QED
  BY <1>0, <1>1, <1>2, <1>3, <1>4, <1>5, <1>6, <1>7, <1>8, <1>9, <1>10, <1>11, <1>12, <1>13
     DEF Next

LEMMA UnsafeKept ==
    ASSUME Stands, UnsafeAhead, [Next]_vars PROVE UnsafeAhead'
<1> USE DEF UnsafeAhead, world
<1>0. CASE UNCHANGED vars BY <1>0 DEF vars, Unsafe, DirAuthorized, FileSeen, FileAuthorized
<1>A. ASSUME UNCHANGED <<call, world>>
      PROVE  \A e : (Unsafe(e) <=> Unsafe(e)') /\ \A f : FileSeen(e, f) = FileSeen(e, f)'
  BY <1>A DEF Unsafe, DirAuthorized, FileSeen, FileAuthorized
<1>1. CASE Replace BY <1>1 DEF Replace, Unsafe, DirAuthorized, FileSeen, FileAuthorized
<1>2. CASE ScanDir BY <1>2, <1>A DEF ScanDir, Finished, Stands, DirSeen, Unsafe,
                      DirAuthorized, Authorized
<1>3. CASE ScanConfig BY <1>3, <1>A DEF ScanConfig, Finished, Scanned
<1>4. CASE ScanHistory BY <1>4, <1>A, PassedIsSafe DEF ScanHistory, Finished, Scanned, Stands
<1>5. CASE EndScan BY <1>5, <1>A DEF EndScan
<1>6. CASE Resolve BY <1>6, <1>A DEF Resolve, Finished
<1>7. CASE AuthorizeDir BY <1>7, <1>A DEF AuthorizeDir, Finished
<1>8. CASE CheckFile BY <1>8, <1>A DEF CheckFile, Finished, Files
<1>9. CASE OpenFails BY <1>9, <1>A DEF OpenFails, FailExperiment, Files
<1>10. CASE OpenConfig BY <1>10, <1>A DEF OpenConfig, Files
<1>11. CASE OpenHistory BY <1>11, <1>A DEF OpenHistory, FailExperiment, Files
<1>12. CASE Build BY <1>12, <1>A DEF Build
<1>13. CASE Write BY <1>13, <1>A DEF Write
<1> QED
  BY <1>0, <1>1, <1>2, <1>3, <1>4, <1>5, <1>6, <1>7, <1>8, <1>9, <1>10, <1>11, <1>12, <1>13
     DEF Next

\* The answers of a pipeline that sorted NaN are told apart from a ranking.
LEMMA UnorderedKind == \A x \in Unordered : x.kind = "unordered"
<1> SUFFICES ASSUME NEW x \in Unordered PROVE x.kind = "unordered"
  OBVIOUS
<1>1. PICK order \in [DOMAIN Records -> DOMAIN Records] :
        x = [kind |-> "unordered", records |-> [i \in DOMAIN Records |-> Records[order[i]]],
             failed |-> bad]
  BY DEF Unordered
<1> DEFINE told == [i \in DOMAIN Records |-> Records[order[i]]]
<1>2. x = [kind |-> "unordered", records |-> told, failed |-> bad]
  BY <1>1
<1> HIDE DEF told
<1> QED BY <1>2

LEMMA AnswerKept ==
    ASSUME Stands, UnsafeAhead, AnswerContained, [Next]_vars PROVE AnswerContained'
<1> USE DEF Stands, AnswerContained, world
<1>0. CASE UNCHANGED vars BY <1>0 DEF vars, Unsafe, DirAuthorized
<1>A. ASSUME UNCHANGED <<call, world>>
      PROVE  \A e : Unsafe(e) <=> Unsafe(e)'
  BY <1>A DEF Unsafe, DirAuthorized
<1>1. CASE Replace BY <1>1 DEF Replace
<1>2. CASE ScanDir BY <1>2, <1>A DEF ScanDir, Finished
<1>3. CASE ScanConfig BY <1>3, <1>A DEF ScanConfig, Finished, Scanned
<1>4. CASE ScanHistory BY <1>4, <1>A DEF ScanHistory, Finished, Scanned
<1>5. CASE EndScan BY <1>5, <1>A DEF EndScan
<1>6. CASE Resolve BY <1>6, <1>A DEF Resolve, Finished
<1>7. CASE AuthorizeDir BY <1>7, <1>A DEF AuthorizeDir, Finished
<1>8. CASE CheckFile BY <1>8, <1>A DEF CheckFile, Finished, Files
<1>9. CASE OpenFails BY <1>9, <1>A DEF OpenFails, FailExperiment, Files
<1>10. CASE OpenConfig BY <1>10, <1>A DEF OpenConfig, Files
<1>11. CASE OpenHistory BY <1>11, <1>A DEF OpenHistory, FailExperiment, Files
<1>12. CASE Build BY <1>12, <1>A DEF Build, UnsafeAhead, Result, Summary, Payload
<1>13. CASE Write
  <2>1. UNCHANGED <<call, world>> /\ phase = "write"
    BY <1>13 DEF Write
  <2>2. \/ UNCHANGED answer
        \/ answer' \in {[kind |-> "error"], Result}
        \/ answer' \in Unordered /\ call.tool # "report"
    BY <1>13 DEF Write
  <2>3. answer = None /\ (call.tool # "report" => call.tool \notin Single)
    BY <2>1 DEF Writers, Single
  <2> QED BY <1>A, <2>1, <2>2, <2>3, UnorderedKind DEF UnsafeAhead, Result, Summary, Payload
<1> QED
  BY <1>0, <1>1, <1>2, <1>3, <1>4, <1>5, <1>6, <1>7, <1>8, <1>9, <1>10, <1>11, <1>12, <1>13
     DEF Next

----------------------------------------------------------------------------
(* Theorems *)

\* Where a call stands, what it has checked and what it has yet to scan
\* (find_experiment_dirs, analyze_experiment_dirs) is an inductive invariant.
THEOREM DirectoryInvariant == Spec => []DInv
<1>1. DInv /\ [Next]_vars => DInv'
  BY StandsKept, HeldKept, ReadsKept, UnsafeKept, AnswerKept DEF DInv
<1> QED
  BY InitInvariant, <1>1, PTL DEF Spec

\* Within the scope, whatever the host replaces and however often, nothing
\* outside the authority is read but what was replaced between its own check
\* and its open, and no comparison is returned past a name that was unsafe
\* throughout (_inspect, _has_experiment_files).
THEOREM PathsContained == Spec => []Contained
<1>1. DInv => Contained
  BY DEF DInv, Contained, ReadsContained, AnswerContained
<1> QED
  BY DirectoryInvariant, <1>1, PTL

----------------------------------------------------------------------------
(* What is told of a comparison: the inductive invariant *)

Comparing == call.tool \notin Single

\* The names keep the content they began with.
IsNode(node) ==
    /\ node = [dir |-> node.dir, config |-> node.config,
               history |-> node.history, content |-> node.content]
    /\ node.content # None => \A m \in DOMAIN node.content :
         node.content[m] \in Histories(Values)

Filed ==
    /\ call \in Calls
    /\ tree = [e \in Experiments |-> tree[e]] /\ \A e \in Experiments : IsNode(tree[e])
    /\ files = [json |-> files.json, markdown |-> files.markdown]
    /\ files.markdown # "old" => files.json = "new"

\* A comparison's scan: what it left behind is found exactly if it is an
\* experiment, and it remembers what it has seen of the current one.
Scanning ==
    Comparing /\ phase = "scan" =>
        /\ todo \subseteq Experiments /\ found \subseteq Experiments /\ todo \cap found = {}
        /\ good = <<>> /\ bad = {}
        /\ at # "dir" => current \in todo
        /\ \A e \in Experiments \ touched :
             /\ e \in found => IsExperiment(e)
             /\ e \notin todo \cup found => ~IsExperiment(e)
             /\ at # "dir" /\ current = e => Followed(tree[e].dir)
             /\ at = "history" /\ current = e =>
                  (held = "yes" <=> Followed(tree[e].config))

Payloaded == answer # None /\ answer.kind \in {"payload", "unordered"}

\* What was found is yet to be read, read or failed, each for its reason.
Accounted ==
    /\ found \subseteq Experiments /\ found = todo \cup DOMAIN good \cup bad
    /\ todo \cap (DOMAIN good \cup bad) = {} /\ DOMAIN good \cap bad = {}
    /\ good = [e \in DOMAIN good |-> good[e]]
    /\ \A e \in DOMAIN good : good[e] = tree[e].content /\ Summarized(tree[e].content)
    /\ \A e \in Experiments \ touched :
         /\ e \in found <=> IsExperiment(e)
         /\ e \in bad => ~Summarized(tree[e].content)

Reading ==
    /\ Comparing /\ (phase \in {"read", "write"} \/ Payloaded) => Accounted
    /\ Comparing /\ phase = "read" /\ at # "dir" => current \in todo
    /\ phase = "write" => todo = {} /\ ~Refused /\ call.tool \in Writers

\* A comparison that was returned is what was made of what was read.
Returned ==
    Payloaded => /\ Comparing /\ todo = {} /\ SortBy \in Wanted
                 /\ \/ Ordered /\ answer = Payload
                    \/ ~Ordered /\ answer \in Unordered

WInv == Stands /\ Filed /\ Scanning /\ Reading /\ Returned

----------------------------------------------------------------------------

LEMMA InitTold == Init => WInv
<1> SUFFICES ASSUME Init PROVE WInv
  OBVIOUS
<1>1. Stands /\ Returned /\ Reading
  BY DEF Init, Stands, Returned, Reading, Payloaded
<1>2. Filed
  <2>1. \A node \in FirstNodes : IsNode(node)
    BY DirectoryAssumption DEF IsNode, Values
  <2>2. tree \in [Experiments -> FirstNodes] /\ call \in Calls
        /\ files = [json |-> "old", markdown |-> "old"]
    BY DEF Init
  <2>3. \A e \in Experiments : tree[e] \in FirstNodes
    BY <2>2
  <2> QED BY <2>1, <2>2, <2>3 DEF Filed
<1>3. Scanning
  BY DEF Init, Scanning
<1> QED BY <1>1, <1>2, <1>3 DEF WInv

\* A replaced name is another object with the same content; the others stay.
LEMMA ReplacedKeeps ==
    ASSUME Filed, Replace
    PROVE  /\ Filed'
           /\ \A e \in Experiments : tree'[e].content = tree[e].content
           /\ \A e \in Experiments \ touched' : e \in Experiments \ touched /\ tree'[e] = tree[e]
<1>1. PICK d \in Experiments, name \in Files \cup {"dir"}, k \in Kinds :
        tree' = [tree EXCEPT ![d][name] = k] /\ touched' = touched \cup {d}
  BY DEF Replace
<1>2. UNCHANGED <<call, files>>
  BY DEF Replace
<1>3. tree' = [e \in Experiments |-> tree'[e]] /\ \A e \in Experiments \ {d} : tree'[e] = tree[e]
  BY <1>1 DEF Filed
<1>4. tree'[d] = [tree[d] EXCEPT ![name] = k]
  BY <1>1 DEF Filed
<1>5. IsNode(tree'[d]) /\ tree'[d].content = tree[d].content
  <2> DEFINE r == tree[d]
             s == tree'[d]
             c == r.content
  <2>1. r = [dir |-> r.dir, config |-> r.config, history |-> r.history, content |-> c]
    BY DEF Filed, IsNode
  <2>2. c # None => \A m \in DOMAIN c : c[m] \in Histories(Values)
    BY DEF Filed, IsNode
  <2>3. s = [r EXCEPT ![name] = k]
    BY <1>4
  <2> HIDE DEF r, s, c
  <2>4. name \in {"config", "history", "dir"}
    BY DEF Files
  <2> DEFINE x == r.dir
             y == r.config
             z == r.history
  <2>5. r = [dir |-> x, config |-> y, history |-> z, content |-> c]
    BY <2>1
  <2> HIDE DEF x, y, z
  <2>6. \/ s = [dir |-> k, config |-> y, history |-> z, content |-> c]
        \/ s = [dir |-> x, config |-> k, history |-> z, content |-> c]
        \/ s = [dir |-> x, config |-> y, history |-> k, content |-> c]
    BY <2>3, <2>4, <2>5
  <2>7. s.content = c /\ s = [dir |-> s.dir, config |-> s.config,
                              history |-> s.history, content |-> s.content]
    BY <2>6
  <2> QED BY <2>2, <2>7 DEF IsNode, r, s, c
<1>6. Filed'
  BY <1>2, <1>3, <1>5 DEF Filed
<1> QED BY <1>1, <1>3, <1>5, <1>6

LEMMA FiledKept == ASSUME Filed, [Next]_vars PROVE Filed'
<1> USE DEF world
<1>A. ASSUME UNCHANGED <<call, world, files>> PROVE Filed'
  BY <1>A DEF Filed
<1>0. CASE UNCHANGED vars BY <1>0, <1>A DEF vars
<1>1. CASE Replace BY <1>1, ReplacedKeeps
<1>2. CASE ScanDir BY <1>2, <1>A DEF ScanDir, Finished
<1>3. CASE ScanConfig BY <1>3, <1>A DEF ScanConfig, Finished, Scanned
<1>4. CASE ScanHistory BY <1>4, <1>A DEF ScanHistory, Finished, Scanned
<1>5. CASE EndScan BY <1>5, <1>A DEF EndScan
<1>6. CASE Resolve BY <1>6, <1>A DEF Resolve, Finished
<1>7. CASE AuthorizeDir BY <1>7, <1>A DEF AuthorizeDir, Finished
<1>8. CASE CheckFile BY <1>8, <1>A DEF CheckFile, Finished
<1>9. CASE OpenFails BY <1>9, <1>A DEF OpenFails
<1>10. CASE OpenConfig BY <1>10, <1>A DEF OpenConfig
<1>11. CASE OpenHistory BY <1>11, <1>A DEF OpenHistory
<1>12. CASE Build BY <1>12, <1>A DEF Build
<1>13. CASE Write
  <2>1. PICK f \in DOMAIN files, result \in {"new", "torn"} :
          /\ files[f] = "old" /\ (f = "markdown" => files["json"] = "new")
          /\ files' = [files EXCEPT ![f] = result]
    BY <1>13 DEF Write
  <2>2. UNCHANGED <<call, tree>>
    BY <1>13 DEF Write
  <2>3. files = [json |-> files.json, markdown |-> files.markdown]
        /\ (files.markdown # "old" => files.json = "new")
    BY DEF Filed
  <2>4. f \in {"json", "markdown"}
    BY <2>1, <2>3
  <2>5. /\ files' = [json |-> files'.json, markdown |-> files'.markdown]
        /\ files'.markdown # "old" => files'.json = "new"
    <3>1. CASE f = "json"
      BY <2>1, <2>3, <3>1
    <3>2. CASE f = "markdown"
      BY <2>1, <2>3, <3>2
    <3> QED BY <2>4, <3>1, <3>2
  <2> QED BY <2>2, <2>5 DEF Filed
<1> QED
  BY <1>0, <1>1, <1>2, <1>3, <1>4, <1>5, <1>6, <1>7, <1>8, <1>9, <1>10, <1>11, <1>12, <1>13
     DEF Next

LEMMA ScanningKept ==
    ASSUME Filed, Stands, Scanning, [Next]_vars PROVE Scanning'
<1> SUFFICES ASSUME Comparing', phase' = "scan" PROVE Scanning'
  BY DEF Scanning
<1> USE DEF world
<1>A. ASSUME UNCHANGED <<call, world>>
      PROVE  (Comparing <=> Comparing') /\ \A e : IsExperiment(e) <=> IsExperiment(e)'
  BY <1>A DEF IsExperiment, Comparing
<1>0. CASE UNCHANGED vars BY <1>0, <1>A DEF vars, Scanning
<1>1. CASE Replace
  <2>1. \A e \in Experiments \ touched' : e \in Experiments \ touched /\ tree'[e] = tree[e]
    BY <1>1, ReplacedKeeps
  <2>2. UNCHANGED <<call, phase, todo, at, current, held, found, good, bad>>
    BY <1>1 DEF Replace
  <2>3. \A e \in Experiments \ touched' : IsExperiment(e) <=> IsExperiment(e)'
    BY <2>1 DEF IsExperiment
  <2>4. Comparing
    BY <2>2 DEF Comparing
  <2> QED BY <2>1, <2>2, <2>3, <2>4 DEF Scanning
<1>2. CASE ScanDir
  <2>1. UNCHANGED <<call, world>> /\ phase = "scan" /\ at = "dir"
    BY <1>2 DEF ScanDir
  <2>2. PICK e \in todo :
          /\ DirSeen(e) # "refused"
          /\ IF DirSeen(e) = "yes"
             THEN current' = e /\ at' = "config" /\ UNCHANGED todo
             ELSE todo' = todo \ {e} /\ UNCHANGED <<current, at>>
          /\ UNCHANGED <<held, found, good, bad>>
    BY <1>2 DEF ScanDir, Finished
  <2>3. /\ DirSeen(e) = "yes" => Followed(tree[e].dir)
        /\ DirSeen(e) # "yes" => ~IsExperiment(e)
    BY <2>2 DEF DirSeen, DirAuthorized, Authorized, Followed, IsExperiment
  <2>4. Comparing
    BY <1>A, <2>1
  <2>5. CASE DirSeen(e) = "yes"
    BY <1>A, <2>1, <2>2, <2>3, <2>4, <2>5 DEF Scanning
  <2>6. CASE DirSeen(e) # "yes"
    BY <1>A, <2>1, <2>2, <2>3, <2>4, <2>6 DEF Scanning
  <2> QED BY <2>5, <2>6
<1>3. CASE ScanConfig
  <2> DEFINE seen == FileSeen(current, "config")
  <2>1. UNCHANGED <<call, world, found, good, bad>> /\ phase = "scan" /\ at = "config"
        /\ seen # "refused"
    BY <1>3 DEF ScanConfig, Finished
  <2>2. Comparing /\ current \in todo
    BY <1>A, <2>1 DEF Scanning
  <2>3. Followed(tree[current].dir) => (seen = "yes" <=> Followed(tree[current].config))
    BY <2>1 DEF FileSeen, FileAuthorized, DirAuthorized, Authorized, Followed
  <2>4. CASE seen = "no" /\ ~call.scoped
    <3>1. current' = None /\ at' = "dir" /\ todo' = todo \ {current}
      BY <1>3, <2>1, <2>4 DEF ScanConfig, Scanned, Finished
    <3>2. ~IsExperiment(current)
      BY <2>4 DEF FileSeen, IsExperiment, Followed
    <3> QED BY <1>A, <2>1, <2>2, <3>1, <3>2 DEF Scanning
  <2>5. CASE ~(seen = "no" /\ ~call.scoped)
    <3>1. at' = "history" /\ held' = seen /\ UNCHANGED <<todo, current>>
      BY <1>3, <2>1, <2>5 DEF ScanConfig, Finished
    <3> HIDE DEF seen
    <3> QED BY <1>A, <2>1, <2>2, <2>3, <3>1 DEF Scanning
  <2> QED BY <2>4, <2>5
<1>4. CASE ScanHistory
  <2> DEFINE seen == FileSeen(current, "history")
  <2>1. UNCHANGED <<call, world, good, bad>> /\ phase = "scan" /\ at = "history"
        /\ seen # "refused"
    BY <1>4 DEF ScanHistory, Finished
  <2>2. Comparing /\ current \in todo
    BY <1>A, <2>1 DEF Scanning
  <2>3. Followed(tree[current].dir) => (seen = "yes" <=> Followed(tree[current].history))
    BY <2>1 DEF FileSeen, FileAuthorized, DirAuthorized, Authorized, Followed
  <2>4. /\ current' = None /\ at' = "dir" /\ todo' = todo \ {current}
        /\ found' = found \cup {e \in {current} : held = "yes" /\ seen = "yes"}
    BY <1>4, <2>1 DEF ScanHistory, Scanned, Finished
  <2> HIDE DEF seen
  <2>5. current \in Experiments \ touched => (held = "yes" /\ seen = "yes" <=> IsExperiment(current))
    BY <2>1, <2>2, <2>3 DEF Scanning, IsExperiment
  <2> QED BY <1>A, <2>1, <2>2, <2>4, <2>5 DEF Scanning
<1>5. CASE EndScan BY <1>5 DEF EndScan
<1>6. CASE Resolve BY <1>6, <1>A DEF Resolve, Comparing, Scanning
<1>7. CASE AuthorizeDir BY <1>7 DEF AuthorizeDir, Finished
<1>8. CASE CheckFile BY <1>8 DEF CheckFile, Finished
<1>9. CASE OpenFails BY <1>9 DEF OpenFails, FailExperiment
<1>10. CASE OpenConfig BY <1>10 DEF OpenConfig
<1>11. CASE OpenHistory BY <1>11 DEF OpenHistory, FailExperiment
<1>12. CASE Build BY <1>12 DEF Build
<1>13. CASE Write BY <1>13 DEF Write
<1> QED
  BY <1>0, <1>1, <1>2, <1>3, <1>4, <1>5, <1>6, <1>7, <1>8, <1>9, <1>10, <1>11, <1>12, <1>13
     DEF Next

\* The least of the experiments yet to be read is one of them.
LEMMA FirstIsOne ==
    ASSUME NEW S \in SUBSET Experiments, S # {} PROVE First(S) \in S
<1>1. S \in SUBSET Nat
  BY DirectoryAssumption
<1>2. \E e \in S : \A d \in S : e <= d
  BY <1>1, Least
<1> QED BY <1>2 DEF First

\* An experiment that was left alone can be opened.
LEMMA OpenedSomewhere ==
    ASSUME NEW e, NEW f \in Files, IsExperiment(e)
    PROVE  Opened(e, f) # "nowhere"
<1>1. Followed(tree[e].dir) /\ Followed(tree[e][f]) /\ Followed("plain")
  BY DEF IsExperiment, Files, Followed
<1> QED BY <1>1 DEF Opened

\* sorted(...) of the experiments that were read lists each of them once.
LEMMA AnalysedIs ==
    ASSUME IsFiniteSet(DOMAIN good), DOMAIN good \subseteq Nat
    PROVE  LET n == Cardinality(DOMAIN good)
           IN  /\ n \in Nat /\ DOMAIN Analysed = 1..n
               /\ \A i \in 1..n : Analysed[i] \in DOMAIN good
               /\ \A i, j \in 1..n : i # j => Analysed[i] # Analysed[j]
               /\ \A e \in DOMAIN good : \E i \in 1..n : Analysed[i] = e
<1> DEFINE S == DOMAIN good
           n == Cardinality(S)
           R == {p \in Nat \X Nat : p[1] < p[2]}
           place(e) == Cardinality({d \in S : d < e}) + 1
<1>1. n \in Nat
  BY FS_CardinalityType
<1>2. \A d, e \in S : <<d, e>> \in R <=> d < e
  OBVIOUS
<1>3. Orders(R, S)
  <2> HIDE DEF R, S
  <2>1. S \subseteq Nat
    BY DEF S
  <2> QED BY <1>2, <2>1 DEF Orders
<1>4. ASSUME NEW e \in S PROVE place(e) = Place(R, S, e)
  <2>1. {d \in S : d < e} = {d \in S : <<d, e>> \in R}
    BY <1>2
  <2> QED BY <2>1 DEF Place
<1>5. /\ \A e \in S : place(e) \in 1..n
      /\ \A d, e \in S : place(d) = place(e) => d = e
      /\ \A i \in 1..n : \E e \in S : place(e) = i
  <2> HIDE DEF R, place, n, S
  <2>1. IsFiniteSet(S)
    BY DEF S
  <2>2. /\ \A x \in S : Place(R, S, x) \in 1..n
        /\ \A x, y \in S : Place(R, S, x) = Place(R, S, y) => x = y
        /\ \A i \in 1..n : \E x \in S : Place(R, S, x) = i
    BY <1>3, <2>1, Places DEF n
  <2> QED BY <1>4, <2>2
<1>6. Analysed = [i \in 1..n |-> CHOOSE e \in S : place(e) = i]
  BY DEF Analysed
<1> HIDE DEF place, n, S
<1>7. DOMAIN Analysed = 1..n /\ \A i \in 1..n : Analysed[i] \in S /\ place(Analysed[i]) = i
  BY <1>5, <1>6
<1>8. \A i, j \in 1..n : i # j => Analysed[i] # Analysed[j]
  BY <1>7
<1>9. \A e \in S : \E i \in 1..n : Analysed[i] = e
  BY <1>5, <1>7
<1> QED BY <1>1, <1>7, <1>8, <1>9 DEF n, S

LEMMA GoodIs ==
    ASSUME Accounted
    PROVE  /\ IsFiniteSet(DOMAIN good) /\ DOMAIN good \subseteq Nat
           /\ DOMAIN good \subseteq Experiments
<1>1. DOMAIN good \subseteq Experiments
  BY DEF Accounted
<1>2. IsFiniteSet(Experiments) /\ Experiments \subseteq Nat
  BY DirectoryAssumption
<1>3. IsFiniteSet(DOMAIN good)
  BY <1>1, <1>2, FS_Subset
<1> QED BY <1>1, <1>2, <1>3

\* What JSON can hold, Python can sort: the best value of each is one of those
\* told.
LEMMA StrictIsOrdered ==
    ASSUME Accounted, ~Refused, call.tool \notin Writers, call.tool \notin Single
    PROVE  Ordered
<1>1. Strict /\ SortBy \in Wanted
  BY DEF Refused
<1>2. DOMAIN Records = DOMAIN Analysed
  BY DEF Records
<1>3. ASSUME NEW i \in DOMAIN Records PROVE Records[i].value # NaN
  <2>1. Analysed[i] \in DOMAIN good
    BY <1>2, <1>3, GoodIs, AnalysedIs
  <2>2. NaN \notin Told(good[Analysed[i]][SortBy], Direction(SortBy))
    BY <1>1, <2>1 DEF Strict
  <2>3. Records[i].value = BestValue(good[Analysed[i]][SortBy], Direction(SortBy))
    BY <1>2 DEF Records
  <2> QED BY <2>2, <2>3 DEF Told
<1> QED BY <1>3 DEF Ordered

----------------------------------------------------------------------------

LEMMA ReadingKept ==
    ASSUME Filed, Stands, Scanning, Reading, Returned, [Next]_vars PROVE Reading'
<1> USE DEF world
<1>A. ASSUME UNCHANGED <<call, world>>
      PROVE  /\ Comparing <=> Comparing'
             /\ \A e : IsExperiment(e) <=> IsExperiment(e)'
             /\ \A content : Summarized(content) <=> Summarized(content)'
  BY <1>A DEF IsExperiment, Comparing, Summarized, Wanted
<1>B. ASSUME UNCHANGED <<call, world, found, todo, good, bad>>
      PROVE  (Accounted => Accounted') /\ (Refused <=> Refused')
  <2>1. Accounted => Accounted'
    BY <1>A, <1>B DEF Accounted
  <2>2. Refused <=> Refused'
    BY <1>B DEF Refused, SortBy, Wanted, Ordered, Records, Analysed, Direction, Strict, Told
  <2> QED BY <2>1, <2>2
<1>C. ASSUME UNCHANGED <<call, world, phase, todo, at, current, found, good, bad, answer>>
      PROVE  Reading'
  BY <1>A, <1>B, <1>C DEF Reading, Payloaded
<1>D. ASSUME phase' = "over", ~Payloaded' PROVE Reading'
  BY <1>D DEF Reading
<1>0. CASE UNCHANGED vars BY <1>0, <1>C DEF vars
<1>1. CASE Replace
  <2>1. /\ \A e \in Experiments : tree'[e].content = tree[e].content
        /\ \A e \in Experiments \ touched' : e \in Experiments \ touched /\ tree'[e] = tree[e]
    BY <1>1, ReplacedKeeps
  <2>2. UNCHANGED <<call, phase, todo, at, current, held, found, good, bad, answer>>
    BY <1>1 DEF Replace
  <2>3. /\ \A e \in Experiments \ touched' : IsExperiment(e) <=> IsExperiment(e)'
        /\ \A content : Summarized(content) <=> Summarized(content)'
        /\ Comparing <=> Comparing'
    BY <2>1, <2>2 DEF IsExperiment, Summarized, Wanted, Comparing
  <2>4. Accounted => Accounted'
    BY <2>1, <2>2, <2>3 DEF Accounted
  <2>5. Refused <=> Refused'
    BY <2>2 DEF Refused, SortBy, Wanted, Ordered, Records, Analysed, Direction, Strict, Told
  <2> QED BY <2>2, <2>3, <2>4, <2>5 DEF Reading, Payloaded
<1>2. CASE ScanDir
  <2>1. UNCHANGED <<call, world>> /\ phase = "scan"
    BY <1>2 DEF ScanDir
  <2>2. \/ phase' = "over" /\ answer' = [kind |-> "violation"]
        \/ phase' = "scan" /\ UNCHANGED answer
    BY <1>2 DEF ScanDir, Finished
  <2> QED BY <2>1, <2>2 DEF Reading, Payloaded, Stands
<1>3. CASE ScanConfig
  <2>1. UNCHANGED <<call, world>> /\ phase = "scan"
    BY <1>3 DEF ScanConfig
  <2>2. \/ phase' = "over" /\ answer' = [kind |-> "violation"]
        \/ phase' = "scan" /\ UNCHANGED answer
    BY <1>3 DEF ScanConfig, Finished
  <2> QED BY <2>1, <2>2 DEF Reading, Payloaded, Stands
<1>4. CASE ScanHistory
  <2>1. UNCHANGED <<call, world>> /\ phase = "scan"
    BY <1>4 DEF ScanHistory
  <2>2. \/ phase' = "over" /\ answer' = [kind |-> "violation"]
        \/ phase' = "scan" /\ UNCHANGED answer
    BY <1>4 DEF ScanHistory, Finished
  <2> QED BY <2>1, <2>2 DEF Reading, Payloaded, Stands
<1>5. CASE EndScan
  <2>1. /\ UNCHANGED <<call, world, at, current, found, good, bad, answer>>
        /\ phase = "scan" /\ Comparing /\ todo = {} /\ at = "dir"
        /\ phase' = "read" /\ todo' = found
    BY <1>5 DEF EndScan, Comparing
  <2>2. /\ found \subseteq Experiments /\ good = <<>> /\ bad = {}
        /\ \A e \in Experiments \ touched : e \in found <=> IsExperiment(e)
    BY <2>1 DEF Scanning
  <2>3. DOMAIN good = {} /\ good = [e \in {} |-> good[e]]
    BY <2>2
  <2>4. Accounted'
    BY <1>A, <2>1, <2>2, <2>3 DEF Accounted
  <2> QED BY <2>1, <2>4 DEF Reading
<1>6. CASE Resolve
  <2>1. UNCHANGED <<call, world>> /\ phase = "scan" /\ ~Comparing
    BY <1>6 DEF Resolve, Comparing
  <2>2. phase' # "write"
    BY <1>6 DEF Resolve, Finished
  <2> QED BY <1>A, <2>1, <2>2 DEF Reading
<1>7. CASE AuthorizeDir
  <2>1. /\ UNCHANGED <<call, world>> /\ phase = "read" /\ todo # {} /\ answer = None
        /\ \/ phase' = "over" /\ answer' = [kind |-> "violation"]
           \/ /\ current' = First(todo) /\ at' = "config"
              /\ UNCHANGED <<phase, todo, found, good, bad, answer>>
    BY <1>7 DEF AuthorizeDir, Finished, Stands
  <2>2. CASE phase' = "over" /\ answer' = [kind |-> "violation"]
    BY <2>2, <1>D DEF Payloaded
  <2>3. CASE /\ current' = First(todo) /\ at' = "config"
             /\ UNCHANGED <<phase, todo, found, good, bad, answer>>
    <3>1. Comparing => Accounted /\ First(todo) \in todo
      BY <2>1, FirstIsOne DEF Reading, Accounted
    <3> QED BY <1>A, <1>B, <2>1, <2>3, <3>1 DEF Reading, Payloaded
  <2> QED BY <2>1, <2>2, <2>3
<1>8. CASE CheckFile
  <2>1. /\ UNCHANGED <<call, world>>
        /\ \/ phase' = "over" /\ answer' = [kind |-> "violation"]
           \/ UNCHANGED <<phase, todo, at, current, found, good, bad, answer>>
    BY <1>8 DEF CheckFile, Finished
  <2> QED BY <2>1, <1>C, <1>D DEF Payloaded
<1>E. ASSUME UNCHANGED <<call, world, found, good>>, FailExperiment, phase = "read",
             at \in Files, current \in Experiments \ touched /\ IsExperiment(current) =>
                              ~Summarized(tree[current].content)
      PROVE  Reading'
  <2>1. CASE ~Comparing
    <3>1. phase' = "over" /\ answer' = [kind |-> "error"]
      BY <1>E, <2>1 DEF FailExperiment, Comparing
    <3> QED BY <1>D, <3>1 DEF Payloaded
  <2>2. CASE Comparing
    <3>1. /\ bad' = bad \cup {current} /\ todo' = todo \ {current}
          /\ at' = "dir" /\ UNCHANGED <<phase, answer>>
      BY <1>E, <2>2 DEF FailExperiment, Comparing
    <3>2. Accounted /\ current \in todo
      BY <1>E, <2>2 DEF Reading, Files
    <3>3. Accounted'
      BY <1>A, <1>E, <3>1, <3>2 DEF Accounted
    <3> QED BY <1>E, <3>1, <3>3 DEF Reading
  <2> QED BY <2>1, <2>2
<1>9. CASE OpenFails
  <2>1. UNCHANGED <<call, world, found, good>> /\ FailExperiment /\ phase = "read" /\ at \in Files
    BY <1>9 DEF OpenFails
  <2>2. Opened(current, at) = "nowhere" \/ tree[current].content = None
    BY <1>9 DEF OpenFails
  <2>3. IsExperiment(current) => ~Summarized(tree[current].content)
    BY <2>1, <2>2, OpenedSomewhere DEF Summarized
  <2> QED BY <1>E, <2>1, <2>3
<1>10. CASE OpenConfig
  <2>1. /\ UNCHANGED <<call, world, phase, todo, current, found, good, bad, answer>>
        /\ phase = "read" /\ at = "config"
    BY <1>10 DEF OpenConfig
  <2> QED BY <1>A, <1>B, <2>1 DEF Reading, Payloaded
<1>11. CASE OpenHistory
  <2> DEFINE content == tree[current].content
  <2>1. UNCHANGED <<call, world, found>> /\ phase = "read" /\ at = "history"
    BY <1>11 DEF OpenHistory
  <2>2. CASE ~Summarized(content)
    <3>1. FailExperiment /\ UNCHANGED good
      BY <1>11, <2>2 DEF OpenHistory
    <3> QED BY <1>E, <2>1, <2>2, <3>1 DEF Files
  <2>3. CASE Summarized(content)
    <3>1. /\ good' = [e \in DOMAIN good \cup {current} |->
                        IF e = current THEN tree[e].content ELSE good[e]]
          /\ todo' = todo \ {current} /\ at' = "dir" /\ UNCHANGED <<phase, bad, answer>>
      BY <1>11, <2>3 DEF OpenHistory
    <3>2. CASE ~Comparing
      BY <1>A, <2>1, <3>1, <3>2 DEF Reading
    <3>3. CASE Comparing
      <4>1. Accounted /\ current \in todo
        BY <2>1, <3>3 DEF Reading
      <4>2. DOMAIN good' = DOMAIN good \cup {current}
            /\ good' = [e \in DOMAIN good' |-> good'[e]]
            /\ \A e \in DOMAIN good' : good'[e] = tree[e].content /\ Summarized(tree[e].content)
        BY <2>3, <3>1, <4>1 DEF Accounted
      <4>3. /\ found' \subseteq Experiments /\ found' = todo' \cup DOMAIN good' \cup bad'
            /\ todo' \cap (DOMAIN good' \cup bad') = {} /\ DOMAIN good' \cap bad' = {}
        <5>1. /\ found \subseteq Experiments /\ found = todo \cup DOMAIN good \cup bad
              /\ todo \cap (DOMAIN good \cup bad) = {} /\ DOMAIN good \cap bad = {}
          BY <4>1 DEF Accounted
        <5>2. found' = found /\ todo' = todo \ {current} /\ bad' = bad
          BY <2>1, <3>1
        <5> QED BY <4>1, <4>2, <5>1, <5>2
      <4>4. \A e \in DOMAIN good' : good'[e] = tree'[e].content /\ Summarized(tree[e].content)'
        <5>1. tree' = tree
          BY <2>1
        <5> QED BY <1>A, <2>1, <4>2, <5>1
      <4>5. \A e \in Experiments \ touched' :
              /\ e \in found' <=> IsExperiment(e)'
              /\ e \in bad' => ~Summarized(tree[e].content)'
        <5>1. tree' = tree /\ touched' = touched /\ found' = found /\ bad' = bad
          BY <2>1, <3>1
        <5>2. \A e \in Experiments \ touched :
                /\ e \in found <=> IsExperiment(e)
                /\ e \in bad => ~Summarized(tree[e].content)
          BY <4>1 DEF Accounted
        <5> QED BY <1>A, <2>1, <5>1, <5>2
      <4>6. Accounted'
        BY <4>2, <4>3, <4>4, <4>5 DEF Accounted
      <4> QED BY <2>1, <3>1, <4>6 DEF Reading
    <3> QED BY <3>2, <3>3
  <2> QED BY <2>2, <2>3
<1>12. CASE Build
  <2>1. UNCHANGED <<call, world, todo, at, current, found, good, bad>>
        /\ phase = "read" /\ todo = {}
    BY <1>12 DEF Build
  <2>2. \/ phase' = "over" /\ answer' = [kind |-> "error"]
        \/ phase' = "write" /\ ~Refused /\ call.tool \in Writers
        \/ phase' = "over" /\ answer' = Result
    BY <1>12 DEF Build
  <2>3. Comparing => Accounted'
    BY <1>B, <2>1 DEF Reading
  <2> QED BY <1>A, <1>B, <2>1, <2>2, <2>3 DEF Reading
<1>13. CASE Write
  <2>1. UNCHANGED <<call, world, todo, at, current, found, good, bad>> /\ phase = "write"
        /\ phase' \in {"over", "write"}
    BY <1>13 DEF Write
  <2>2. todo = {} /\ ~Refused /\ (Comparing => Accounted)
    BY <2>1 DEF Reading
  <2>3. call.tool \in Writers
    BY <2>1 DEF Reading
  <2>4. (Comparing' => Accounted') /\ ~Refused'
    BY <1>A, <1>B, <2>1, <2>2
  <2> QED BY <1>A, <2>1, <2>2, <2>3, <2>4 DEF Reading
<1> QED
  BY <1>0, <1>1, <1>2, <1>3, <1>4, <1>5, <1>6, <1>7, <1>8, <1>9, <1>10, <1>11, <1>12, <1>13
     DEF Next

LEMMA ReturnedKept ==
    ASSUME Stands, Reading, Returned, [Next]_vars PROVE Returned'
<1> SUFFICES ASSUME Payloaded' PROVE Returned'
  BY DEF Returned
<1> USE DEF world
<1>A. ASSUME UNCHANGED <<call, good, bad>>
      PROVE  /\ Comparing <=> Comparing'
             /\ SortBy = SortBy' /\ Wanted = Wanted' /\ (Ordered <=> Ordered')
             /\ Payload = Payload' /\ Unordered = Unordered'
  <2>1. Records = Records'
    BY <1>A DEF Records, Analysed, SortBy, Direction
  <2>2. /\ Comparing <=> Comparing'
        /\ SortBy = SortBy' /\ Wanted = Wanted' /\ (Ordered <=> Ordered')
        /\ Payload = Payload'
    BY <1>A DEF Comparing, SortBy, Wanted, Ordered, Records, Analysed, Direction, Payload, Codes
  <2>3. Unordered = Unordered'
    BY <1>A, <2>1 DEF Unordered
  <2> QED BY <2>2, <2>3
<1>B. ASSUME UNCHANGED <<call, good, bad, todo, answer>> PROVE Returned'
  BY <1>A, <1>B DEF Returned, Payloaded
<1>C. ASSUME UNCHANGED <<call, good, bad, todo>>, answer' = Result, ~Refused, todo = {}, Ordered
      PROVE  Returned'
  <2>1. Summary.kind \notin {"payload", "unordered"}
    BY DEF Summary
  <2>2. Comparing /\ answer' = Payload
    BY <1>C, <2>1 DEF Comparing, Result, Payloaded
  <2>3. SortBy \in Wanted
    BY <1>C, <2>2 DEF Refused, Comparing
  <2> QED BY <1>A, <1>C, <2>2, <2>3 DEF Returned
<1>D. ASSUME answer = None, UNCHANGED answer PROVE Returned'
  BY <1>D DEF Payloaded
<1>0. CASE UNCHANGED vars BY <1>0, <1>B DEF vars
<1>1. CASE Replace BY <1>1, <1>D DEF Replace
<1>2. CASE ScanDir BY <1>2, <1>D DEF ScanDir, Finished, Stands, Payloaded
<1>3. CASE ScanConfig BY <1>3, <1>D DEF ScanConfig, Finished, Stands, Payloaded
<1>4. CASE ScanHistory BY <1>4, <1>D DEF ScanHistory, Finished, Stands, Payloaded
<1>5. CASE EndScan BY <1>5, <1>D DEF EndScan, Stands
<1>6. CASE Resolve BY <1>6, <1>D DEF Resolve, Finished, Stands, Payloaded
<1>7. CASE AuthorizeDir BY <1>7, <1>D DEF AuthorizeDir, Finished, Stands, Payloaded
<1>8. CASE CheckFile BY <1>8, <1>D DEF CheckFile, Finished, Stands, Payloaded
<1>9. CASE OpenFails BY <1>9, <1>D DEF OpenFails, FailExperiment, Stands, Payloaded
<1>10. CASE OpenConfig BY <1>10, <1>D DEF OpenConfig, Stands
<1>11. CASE OpenHistory BY <1>11, <1>D DEF OpenHistory, FailExperiment, Stands, Payloaded
<1>12. CASE Build
  <2>1. UNCHANGED <<call, good, bad, todo>> /\ todo = {} /\ answer = None
    BY <1>12 DEF Build, Stands
  <2>2. \/ answer' = [kind |-> "error"]
        \/ UNCHANGED answer
        \/ answer' = Result /\ ~Refused /\ call.tool \notin Writers
    BY <1>12 DEF Build
  <2>3. answer' = Result /\ ~Refused /\ call.tool \notin Writers
    BY <2>1, <2>2 DEF Payloaded
  <2>4. CASE Ordered
    BY <1>C, <2>1, <2>3, <2>4
  <2>5. CASE call.tool \in Single
    <3>1. Summary.kind \notin {"payload", "unordered"}
      BY DEF Summary
    <3> QED BY <2>3, <2>5, <3>1 DEF Result, Payloaded
  <2>6. CASE call.tool \notin Single /\ ~Ordered
    <3>1. Accounted
      BY <1>12, <2>6 DEF Build, Reading, Comparing
    <3> QED BY <2>3, <2>6, <3>1, StrictIsOrdered
  <2> QED BY <2>4, <2>5, <2>6
<1>13. CASE Write
  <2>1. UNCHANGED <<call, good, bad, todo>> /\ todo = {} /\ answer = None /\ ~Refused
    BY <1>13 DEF Write, Stands, Reading
  <2>2. \/ answer' = [kind |-> "error"]
        \/ UNCHANGED answer
        \/ answer' = Result /\ (call.tool = "report" \/ Ordered)
        \/ answer' \in Unordered /\ call.tool # "report" /\ ~Ordered
    BY <1>13 DEF Write
  <2>3. \/ answer' = Result /\ (call.tool = "report" \/ Ordered)
        \/ answer' \in Unordered /\ call.tool # "report" /\ ~Ordered
    BY <2>1, <2>2 DEF Payloaded
  <2>4. CASE answer' = Result /\ Ordered
    BY <1>C, <2>1, <2>4
  <2>5. CASE answer' = Result /\ call.tool = "report"
    <3>1. Summary.kind \notin {"payload", "unordered"}
      BY DEF Summary
    <3> QED BY <2>5, <3>1 DEF Result, Payloaded, Single
  <2>6. CASE answer' \in Unordered /\ call.tool # "report" /\ ~Ordered
    <3>1. Comparing
      BY <1>13, <2>6 DEF Write, Reading, Writers, Comparing, Single
    <3>2. SortBy \in Wanted
      BY <2>1, <3>1 DEF Refused, Comparing
    <3> QED BY <1>A, <2>1, <2>6, <3>1, <3>2 DEF Returned
  <2> QED BY <2>3, <2>4, <2>5, <2>6
<1> QED
  BY <1>0, <1>1, <1>2, <1>3, <1>4, <1>5, <1>6, <1>7, <1>8, <1>9, <1>10, <1>11, <1>12, <1>13
     DEF Next

\* The history a ranking reads of an experiment.
LEMMA SortedHistory ==
    ASSUME Filed, Accounted, SortBy \in Wanted, NEW e \in DOMAIN good
    PROVE  good[e][SortBy] \in Histories(Values)
<1>1. good[e] = tree[e].content /\ Summarized(tree[e].content) /\ e \in Experiments
  BY DEF Accounted
<1>2. tree[e].content # None /\ SortBy \in DOMAIN tree[e].content
  BY <1>1 DEF Summarized
<1>3. \A m \in DOMAIN tree[e].content : tree[e].content[m] \in Histories(Values)
  BY <1>1, <1>2 DEF Filed, IsNode
<1> QED BY <1>1, <1>2, <1>3

\* The best value of a history is one of its values, and none is better.
LEMMA BestValueIs ==
    ASSUME NEW records \in Histories(Values), NEW d
    PROVE  LET values == {x[2] : x \in Range(records)}
           IN  /\ BestValue(records, d) \in values /\ values \subseteq Values
               /\ values \cap {v \in values : Better(d, v, BestValue(records, d))} = {}
<1> DEFINE n == Len(records)
           b == BestIndex(records, d)
           values == {x[2] : x \in Range(records)}
<1>1. BestTo(records, d, n, b)
  BY BestIsBest
<1>2. DOMAIN records = 1..n /\ \A i \in 1..n : records[i][2] \in Values
  BY DEF Histories
<1>3. values = {records[i][2] : i \in 1..n}
  BY <1>2 DEF Range
<1> HIDE DEF n, b, values
<1>4. b \in 1..n /\ \A j \in 1..n : ~Better(d, records[j][2], records[b][2])
  BY <1>1 DEF BestTo
<1>5. BestValue(records, d) = records[b][2]
  BY DEF BestValue, b
<1>6. /\ BestValue(records, d) \in values /\ values \subseteq Values
      /\ values \cap {v \in values : Better(d, v, BestValue(records, d))} = {}
  BY <1>2, <1>3, <1>4, <1>5
<1> QED BY <1>6 DEF values

\* The records of the experiments that were read, in their order
\* (build_comparison_records).
LEMMA RecordsTold ==
    ASSUME Filed, Accounted, SortBy \in Wanted
    PROVE  LET n == Cardinality(DOMAIN good)
           IN  /\ n \in Nat /\ DOMAIN Records = 1..n
               /\ Records = [i \in 1..n |-> Records[i]]
               /\ {Records[i].experiment : i \in 1..n} = DOMAIN good
               /\ \A i, j \in 1..n : i # j => Records[i].experiment # Records[j].experiment
               /\ \A i \in 1..n :
                    LET e == Records[i].experiment
                        v == Records[i].value
                    IN  /\ e \in DOMAIN good /\ e \in Nat /\ v \in Values
                        /\ Records[i] = [experiment |-> e, value |-> v]
                        /\ v = BestValue(good[e][SortBy], Direction(SortBy))
<1> DEFINE n == Cardinality(DOMAIN good)
           best(e) == BestValue(good[e][SortBy], Direction(SortBy))
<1>1. /\ n \in Nat /\ DOMAIN Analysed = 1..n
      /\ \A i \in 1..n : Analysed[i] \in DOMAIN good
      /\ \A i, j \in 1..n : i # j => Analysed[i] # Analysed[j]
      /\ \A e \in DOMAIN good : \E i \in 1..n : Analysed[i] = e
  BY GoodIs, AnalysedIs
<1>2. DOMAIN good \subseteq Nat
  BY GoodIs
<1>3. \A e \in DOMAIN good : best(e) \in Values
  <2> SUFFICES ASSUME NEW e \in DOMAIN good PROVE best(e) \in Values
    OBVIOUS
  <2>1. good[e][SortBy] \in Histories(Values)
    BY SortedHistory
  <2> QED BY <2>1, BestValueIs
<1>4. Records = [i \in 1..n |-> [experiment |-> Analysed[i], value |-> best(Analysed[i])]]
  BY <1>1 DEF Records
<1> HIDE DEF n, best
<1>5. \A i \in 1..n : /\ Records[i] = [experiment |-> Analysed[i], value |-> best(Analysed[i])]
                      /\ Records[i].experiment = Analysed[i]
                      /\ Records[i].value = best(Analysed[i])
  BY <1>4
<1>6. {Records[i].experiment : i \in 1..n} = DOMAIN good
  <2>1. {Records[i].experiment : i \in 1..n} = {Analysed[i] : i \in 1..n}
    BY <1>5
  <2>2. {Analysed[i] : i \in 1..n} = DOMAIN good
    BY <1>1
  <2> QED BY <2>1, <2>2
<1>7. ASSUME NEW i \in 1..n, NEW j \in 1..n, i # j
      PROVE  Records[i].experiment # Records[j].experiment
  <2>1. Records[i].experiment = Analysed[i] /\ Records[j].experiment = Analysed[j]
    BY <1>5, Zenon
  <2>2. Analysed[i] # Analysed[j]
    BY <1>1, <1>7, Zenon
  <2> QED BY <2>1, <2>2, Zenon
<1>8. ASSUME NEW i \in 1..n
      PROVE  /\ Records[i].experiment \in DOMAIN good /\ Records[i].experiment \in Nat
             /\ Records[i].value \in Values
             /\ Records[i] = [experiment |-> Records[i].experiment,
                              value |-> Records[i].value]
             /\ Records[i].value = best(Records[i].experiment)
  <2> DEFINE x == Analysed[i]
             y == best(x)
  <2>1. x \in DOMAIN good /\ x \in Nat /\ y \in Values
    BY <1>1, <1>2, <1>3
  <2>2. Records[i] = [experiment |-> x, value |-> y]
    BY <1>4
  <2>3. Records[i].experiment = x /\ Records[i].value = y
    <3> HIDE DEF x, y
    <3> QED BY <2>2
  <2>4. y = best(x)
    OBVIOUS
  <2> HIDE DEF x, y
  <2> QED BY <2>1, <2>2, <2>3, <2>4
<1>9. DOMAIN Records = 1..n /\ Records = [i \in 1..n |-> Records[i]]
  BY <1>4
<1> QED BY <1>1, <1>6, <1>7, <1>8, <1>9 DEF n, best

\* Without NaN they can be ranked.
LEMMA RecordsAre ==
    ASSUME Filed, Accounted, SortBy \in Wanted, Ordered
    PROVE  /\ Rankable(Records) /\ Len(Records) = Cardinality(DOMAIN good)
           /\ {r.experiment : r \in Range(Records)} = DOMAIN good
           /\ \A r \in Range(Records) :
                r.value = BestValue(good[r.experiment][SortBy], Direction(SortBy))
<1> DEFINE n == Cardinality(DOMAIN good)
           E == [experiment : Nat, value : Int]
           best(e) == BestValue(good[e][SortBy], Direction(SortBy))
<1>1. /\ n \in Nat /\ DOMAIN Records = 1..n
      /\ Records = [i \in 1..n |-> Records[i]]
      /\ {Records[i].experiment : i \in 1..n} = DOMAIN good
      /\ \A i, j \in 1..n : i # j => Records[i].experiment # Records[j].experiment
      /\ \A i \in 1..n : /\ Records[i].experiment \in Nat /\ Records[i].value \in Values
                         /\ Records[i] = [experiment |-> Records[i].experiment,
                                          value |-> Records[i].value]
                         /\ Records[i].value = best(Records[i].experiment)
  BY RecordsTold
<1> HIDE DEF n, best
<1>2. \A i \in 1..n : Records[i].value \in Int
  BY <1>1 DEF Ordered, Values
<1>3. \A i \in 1..n : Records[i] \in E
  <2> SUFFICES ASSUME NEW i \in 1..n PROVE Records[i] \in E
    OBVIOUS
  <2> DEFINE x == Records[i].experiment
             y == Records[i].value
  <2>1. x \in Nat /\ y \in Int /\ Records[i] = [experiment |-> x, value |-> y]
    BY <1>1, <1>2
  <2> HIDE DEF x, y
  <2> QED BY <2>1
<1>4. Records \in [1..n -> E]
  <2> HIDE DEF E
  <2> QED BY <1>1, <1>3
<1>5. Records \in Seq(E) /\ Len(Records) = n
  <2> HIDE DEF E
  <2> QED BY <1>1, <1>4
<1>6. Rankable(Records)
  BY <1>1, <1>5 DEF Rankable
<1>7. Range(Records) = {Records[i] : i \in 1..n}
  BY <1>1 DEF Range
<1>8. {r.experiment : r \in Range(Records)} = DOMAIN good
  <2>1. {r.experiment : r \in Range(Records)} = {Records[i].experiment : i \in 1..n}
    BY <1>7
  <2> QED BY <1>1, <2>1
<1>9. \A r \in Range(Records) : r.value = best(r.experiment)
  BY <1>1, <1>7
<1> QED BY <1>5, <1>6, <1>8, <1>9 DEF n, best

\* Whatever its order, a comparison that tells each record once accounts for each
\* experiment that was left alone.
LEMMA ToldWhole ==
    ASSUME Filed, Accounted, todo = {}, SortBy \in Wanted, answer.failed = bad,
           Len(answer.records) = Cardinality(DOMAIN good),
           {answer.records[i] : i \in DOMAIN answer.records} =
               {Records[i] : i \in DOMAIN Records}
    PROVE  ComparisonWhole
<1> DEFINE records == answer.records
           unread == answer.failed
           told == {records[i].experiment : i \in DOMAIN records}
           n == Cardinality(DOMAIN good)
<1>1. /\ DOMAIN Records = 1..n
      /\ {Records[i].experiment : i \in 1..n} = DOMAIN good
      /\ \A i \in 1..n :
           /\ Records[i].experiment \in DOMAIN good
           /\ Records[i].value
                = BestValue(good[Records[i].experiment][SortBy], Direction(SortBy))
  BY RecordsTold
<1> HIDE DEF n
<1>2. {records[i] : i \in DOMAIN records} = {Records[i] : i \in 1..n} /\ unread = bad
      /\ Len(records) = n
  BY <1>1 DEF n
<1> HIDE DEF records, unread
<1>3. told = DOMAIN good
  <2>1. told = {r.experiment : r \in {records[i] : i \in DOMAIN records}}
    OBVIOUS
  <2>2. {r.experiment : r \in {Records[i] : i \in 1..n}} = {Records[i].experiment : i \in 1..n}
    OBVIOUS
  <2> HIDE DEF told
  <2> QED BY <1>1, <1>2, <2>1, <2>2
<1>4. \A i \in DOMAIN records :
        /\ records[i].experiment \in DOMAIN good
        /\ records[i].value
             = BestValue(good[records[i].experiment][SortBy], Direction(SortBy))
  <2> SUFFICES ASSUME NEW i \in DOMAIN records
               PROVE  /\ records[i].experiment \in DOMAIN good
                      /\ records[i].value = BestValue(good[records[i].experiment][SortBy],
                                                      Direction(SortBy))
    OBVIOUS
  <2>1. records[i] \in {Records[k] : k \in 1..n}
    BY <1>2
  <2>2. PICK k \in 1..n : records[i] = Records[k]
    BY <2>1
  <2> QED BY <1>1, <2>2
<1> HIDE DEF told
<1>5. /\ told \cap unread = {}
      /\ \A e \in Experiments \ touched :
           /\ e \in told \cup unread <=> IsExperiment(e)
           /\ e \in told => Summarized(tree[e].content)
           /\ e \in unread => ~Summarized(tree[e].content)
  BY <1>2, <1>3 DEF Accounted
<1>6. Len(records) = Cardinality(told)
  BY <1>2, <1>3 DEF n
<1>7. ASSUME NEW i \in DOMAIN records
      PROVE  LET r == records[i]
                 values == {x[2] : x \in Range(good[r.experiment][SortBy])}
             IN  /\ r.value \in values
                 /\ values \cap {v \in values : Better(Direction(SortBy), v, r.value)} = {}
  <2> DEFINE h == good[records[i].experiment][SortBy]
  <2>1. h \in Histories(Values)
    BY <1>4, SortedHistory
  <2>2. records[i].value = BestValue(h, Direction(SortBy))
    BY <1>4
  <2> HIDE DEF h
  <2>3. LET values == {x[2] : x \in Range(h)}
        IN  /\ records[i].value \in values
            /\ values \cap {v \in values : Better(Direction(SortBy), v, records[i].value)} = {}
    BY <2>1, <2>2, BestValueIs
  <2> QED BY <2>3 DEF h
<1> QED BY <1>5, <1>6, <1>7, Zenon DEF ComparisonWhole, told, records, unread

\* What a comparison returns accounts for each experiment that was left alone.
LEMMA ReturnedWhole ==
    ASSUME WInv, Payloaded PROVE ComparisonWhole
<1>1. Comparing /\ todo = {} /\ SortBy \in Wanted /\ Filed /\ Accounted
  BY DEF WInv, Returned, Reading
<1>2. CASE Ordered /\ answer = Payload
  <2>1. answer.records = Rank(Records, call.descending) /\ answer.failed = bad
    BY <1>2 DEF Payload
  <2>2. Rankable(Records) /\ Len(Records) = Cardinality(DOMAIN good)
    BY <1>1, <1>2, RecordsAre
  <2>3. call.descending \in BOOLEAN
    BY <1>1, DirectoryAssumption DEF Filed
  <2>4. RankFacts(Records, call.descending, answer.records)
    BY <2>1, <2>2, <2>3, RankHasFacts
  <2>5. /\ Len(answer.records) = Len(Records)
        /\ Range(answer.records) = Range(Records)
    BY <2>4 DEF RankFacts
  <2> QED BY <1>1, <2>1, <2>2, <2>5, ToldWhole DEF Range
<1>3. CASE answer \in Unordered
  <2> DEFINE D == DOMAIN Records
  <2>1. PICK order \in [D -> D] :
          /\ {order[i] : i \in D} = D
          /\ answer = [kind |-> "unordered", records |-> [i \in D |-> Records[order[i]]],
                       failed |-> bad]
    BY <1>3 DEF Unordered
  <2>2. answer.records = [i \in D |-> Records[order[i]]] /\ answer.failed = bad
    BY <2>1
  <2>3. D = 1..Cardinality(DOMAIN good) /\ Cardinality(DOMAIN good) \in Nat
    BY <1>1, RecordsTold
  <2> HIDE DEF D
  <2>4. Len(answer.records) = Cardinality(DOMAIN good) /\ DOMAIN answer.records = D
    BY <2>2, <2>3
  <2>5. {answer.records[i] : i \in D} = {Records[i] : i \in D}
    <3>1. {answer.records[i] : i \in D} = {Records[k] : k \in {order[i] : i \in D}}
      BY <2>2
    <3> QED BY <2>1, <3>1
  <2> QED BY <1>1, <2>2, <2>4, <2>5, ToldWhole DEF D
<1> QED BY <1>2, <1>3 DEF WInv, Returned

\* A ranking is one of the best values.
LEMMA ReturnedRanked ==
    ASSUME WInv, Payloaded, answer.kind = "payload" PROVE RankingRight
<1>1. Comparing /\ SortBy \in Wanted /\ Filed /\ Accounted
  BY DEF WInv, Returned, Reading
<1>2. answer \notin Unordered
  BY UnorderedKind
<1>3. Ordered /\ answer = Payload
  BY <1>2 DEF WInv, Returned
<1>4. answer.records = Rank(Records, call.descending)
  BY <1>3 DEF Payload
<1>5. call.descending \in BOOLEAN
  BY <1>1, DirectoryAssumption DEF Filed
<1>6. Rankable(Records)
  BY <1>1, <1>3, RecordsAre
<1>7. RankedWell(Records, call.descending)
  BY <1>5, <1>6, RankingIsWell
<1>8. RankFacts(Records, call.descending, answer.records)
  BY <1>4, <1>5, <1>6, RankHasFacts
<1>9. \A i \in DOMAIN answer.records : answer.records[i].value # NaN
  <2> DEFINE E == [experiment : Nat, value : Int]
  <2>1. answer.records \in Seq(E)
    BY <1>8 DEF RankFacts
  <2>2. \A i \in DOMAIN answer.records : answer.records[i] \in E
    <3> HIDE DEF E
    <3> QED BY <2>1
  <2> QED BY <2>2, NaNAssumption
<1> QED BY <1>4, <1>7, <1>9 DEF RankingRight

LEMMA AllFindingsAgree == FindingsOfSamples
<1>1. Window \in Nat /\ Window >= 2 /\ \A records \in Samples : records \in Histories(Int)
  BY DirectoryAssumption
<1> QED BY <1>1, FindingsOfHistory DEF FindingsOfSamples, Directions

\* What a call has found, read and told (find_experiment_dirs,
\* analyze_experiment_dirs, build_comparison_payload) is an inductive invariant:
\* a scan remembers what it has seen of a name that was left alone, each
\* experiment found is yet to be read, read or failed for its reason, and a
\* comparison that was returned is the payload of what was read.
THEOREM ComparisonInvariant == Spec => []WInv
<1>1. WInv /\ [Next]_vars => WInv'
  BY StandsKept, FiledKept, ScanningKept, ReadingKept, ReturnedKept DEF WInv
<1> QED
  BY InitTold, <1>1, PTL DEF Spec

\* Whatever the host replaces and however often, a comparison that is returned
\* accounts once for each experiment that was left alone and ranks the best values
\* of the histories read, ties in their order, NaN nowhere; the findings about any
\* history agree; and no Markdown file is written before its JSON file
\* (analyze_experiment_dirs, rank_comparison_records, build_metric_facts,
\* build_comparison_facts, build_recommendations).
THEOREM AnalysesWhole == Spec => []WholeAndRanked
<1>1. WInv => WholeAndRanked
  <2> SUFFICES ASSUME WInv PROVE WholeAndRanked
    OBVIOUS
  <2>1. files.markdown # "old" => files.json = "new"
    BY DEF WInv, Filed
  <2>2. answer # None /\ answer.kind \in {"payload", "unordered"} => ComparisonWhole
    BY ReturnedWhole DEF Payloaded
  <2>3. answer # None /\ answer.kind = "payload" => RankingRight
    BY ReturnedRanked DEF Payloaded
  <2> QED
    BY <2>1, <2>2, <2>3, AllFindingsAgree, Zenon DEF WholeAndRanked
<1> QED
  BY ComparisonInvariant, <1>1, PTL

----------------------------------------------------------------------------
(* The inductive invariant *)

\* After the root, or the child, was opened and before anything is closed.
RootSteps == {"check_root", "open_child", "check_child", "recheck_root", "refused",
              "read_before", "read", "read_after"}
ChildSteps == {"check_child", "recheck_root", "refused", "read_before", "read", "read_after"}

Typed ==
    /\ rootAt \in Dirs \cup {Null} /\ childIn \in [Dirs -> Artifacts \cup {Null}]
    /\ size \in [Artifacts -> Nat] /\ token \in [Artifacts -> Nat]
    /\ version \in [Artifacts -> Nat]
    /\ pc \in RootSteps \cup {"idle", "open_root", "closing"}
    /\ root \in Dirs \cup {Null} /\ child \in Artifacts \cup {Null}
    /\ count \in Nat /\ swaps \in Nat
    /\ opened \in [Handles -> Nat] /\ closed \in [Handles -> Nat]

\* Which handles are open at which step, and that each open one is the one that
\* was opened and not yet closed.
HandlesHeld ==
    /\ pc \in RootSteps => root # Null
    /\ pc \in ChildSteps => child # Null
    /\ pc \in {"idle", "open_root"} => root = Null
    /\ pc \in {"idle", "open_root", "check_root", "open_child"} => child = Null
    /\ child # Null => root # Null
    /\ opened["root"] = closed["root"] + (IF root = Null THEN 0 ELSE 1)
    /\ opened["child"] = closed["child"] + (IF child = Null THEN 0 ELSE 1)

\* What the looks at the root have shown: each difference between two of them
\* is a change of hands in between.
LooksAgree ==
    /\ pc \in RootSteps => granted = root
    /\ pc \in {"open_child", "check_child"} => rootAt = granted \/ swaps >= 1
    /\ pc = "recheck_root" /\ holder # granted =>
         swaps >= 1 /\ (rootAt = granted => swaps >= 2)
    /\ pc \in {"read_before", "read", "read_after"} => holder = granted \/ swaps >= 2
    /\ pc \notin {"idle", "closing", "read", "read_after"} => count = 0

\* As long as no write has brought the metadata back that were read first, they
\* tell: where they are found again, the file was not written in between.
VersionsKnown ==
    /\ pc \in {"open_root"} \cup RootSteps => failed = FALSE
    /\ pc \in {"read", "read_after"} =>
         /\ before.size <= MaxBytes
         /\ ~restored /\ Metadata(child) = before => versions = {version[child]}

\* All that an observation tells, which no close may follow with an error.
Whole == /\ failed = FALSE /\ count = before.size /\ count <= MaxBytes
         /\ restored \/ \A v, w \in versions : v = w

WholeSoFar ==
    /\ pc = "closing" /\ status = "observed" => Whole
    /\ ending = "observed" => pc = "idle" /\ Whole

AInv == Typed /\ HandlesHeld /\ LooksAgree /\ DirectChild /\ VersionsKnown /\ WholeSoFar

----------------------------------------------------------------------------
(* The invariant is inductive *)

LEMMA ObservationBegins == ObsInit => AInv
<1> SUFFICES ASSUME ObsInit PROVE AInv
  OBVIOUS
<1> USE ArtifactAssumption DEF ObsInit
<1>1. Typed
  BY DEF Typed, NoHandles, Handles
<1>2. HandlesHeld
  BY DEF HandlesHeld, NoHandles, Handles, RootSteps, ChildSteps
<1>3. LooksAgree /\ DirectChild /\ VersionsKnown /\ WholeSoFar
  BY DEF LooksAgree, DirectChild, VersionsKnown, WholeSoFar, RootSteps
<1> QED
  BY <1>1, <1>2, <1>3 DEF AInv

\* One more of something counted by file or by handle.
LEMMA PlusOne ==
    ASSUME NEW S, NEW f \in [S -> Nat], NEW h \in S
    PROVE  /\ OneMore(f, h) \in [S -> Nat]
           /\ OneMore(f, h)[h] = f[h] + 1
           /\ \A g \in S : g # h => OneMore(f, h)[g] = f[g]
BY DEF OneMore

LEMMA ReadsNat == ASSUME NEW n, NEW left, NEW k \in Reads(n, left) PROVE k \in Nat
BY DEF Reads

LEMMA TypedKept ==
    ASSUME Typed, [ObsNext]_obsVars PROVE Typed'
<1> USE ArtifactAssumption DEF obsWorld, obsCall, past
<1>0. CASE UNCHANGED obsVars BY <1>0 DEF obsVars, Typed
<1>A. "root" \in Handles /\ "child" \in Handles
  BY DEF Handles
<1>B. /\ OneMore(opened, "root") \in [Handles -> Nat] /\ OneMore(opened, "child") \in [Handles -> Nat]
      /\ OneMore(closed, "root") \in [Handles -> Nat] /\ OneMore(closed, "child") \in [Handles -> Nat]
  BY <1>A, PlusOne DEF Typed
<1>1. CASE Others
  <2>1. ASSUME NEW d \in Dirs \cup {Null}, Move(d) PROVE Typed'
    BY <2>1 DEF Move, Typed
  <2>2. ASSUME NEW f \in Artifacts, WriteFile(f) PROVE Typed'
    BY <2>2, PlusOne DEF WriteFile, Typed
  <2> QED
    BY <1>1, <2>1, <2>2 DEF Others
<1>2. CASE Refuse BY <1>2 DEF Refuse, Typed, RootSteps
<1>3. CASE Begin BY <1>3 DEF Begin, Typed, RootSteps, NoHandles
<1>4. CASE OpenRoot BY <1>4, <1>B DEF OpenRoot, Unwinds, Breaks, OsStatuses, Typed, RootSteps
<1>5. CASE CheckRoot BY <1>5 DEF CheckRoot, Verified, Refusal, Breaks, Unwinds, Typed,
                        RootSteps
<1>6. CASE OpenChild BY <1>6, <1>B DEF OpenChild, AtChildPath, Unwinds, Breaks, OsStatuses,
                        Typed, RootSteps
<1>7. CASE CheckChild BY <1>7 DEF CheckChild, Verified, Refusal, Breaks, Unwinds, Typed,
                         RootSteps
<1>8. CASE RecheckRoot BY <1>8 DEF RecheckRoot, Verified, Refusal, Breaks, Unwinds, Typed,
                          RootSteps
<1>9. CASE RefuseVolume BY <1>9 DEF RefuseVolume, Unwinds, Typed, RootSteps
<1>10. CASE ReadBefore BY <1>10 DEF ReadBefore, OsError, Breaks, Unwinds, Typed, RootSteps
<1>11. CASE ReadChunk
  <2>1. count' \in Nat
    <3>1. CASE count' = count BY <3>1 DEF Typed
    <3>2. ASSUME NEW k \in Reads(Request, size[child] - count), count' = count + k
          PROVE  count' \in Nat
      BY <3>2, ReadsNat DEF Typed
    <3> QED BY <1>11, <3>1, <3>2 DEF ReadChunk
  <2>2. pc' \in {"read", "read_after", "closing"}
    BY <1>11 DEF ReadChunk, OsError, Breaks, Unwinds
  <2> QED
    BY <1>11, <2>1, <2>2 DEF ReadChunk, Typed, RootSteps
<1>12. CASE ReadAfter BY <1>12 DEF ReadAfter, OsError, Breaks, Unwinds, Typed, RootSteps
<1>13. CASE CloseChild BY <1>13, <1>B DEF CloseChild, Closes, Typed, RootSteps
<1>14. CASE CloseRoot BY <1>14, <1>B DEF CloseRoot, Closes, Typed, RootSteps
<1>15. CASE Report BY <1>15 DEF Report, Typed, RootSteps
<1> QED
  BY <1>0, <1>1, <1>2, <1>3, <1>4, <1>5, <1>6, <1>7, <1>8, <1>9, <1>10, <1>11, <1>12, <1>13,
     <1>14, <1>15 DEF ObsNext

LEMMA HandlesKept ==
    ASSUME Typed, HandlesHeld, [ObsNext]_obsVars PROVE HandlesHeld'
<1> USE ArtifactAssumption DEF HandlesHeld, RootSteps, ChildSteps, obsWorld, obsCall, past
<1>0. CASE UNCHANGED obsVars BY <1>0 DEF obsVars
<1>A. "root" \in Handles /\ "child" \in Handles
  BY DEF Handles
<1>B. /\ opened["root"] \in Nat /\ opened["child"] \in Nat
      /\ closed["root"] \in Nat /\ closed["child"] \in Nat
  BY <1>A DEF Typed
<1>C. /\ OneMore(opened, "root")["root"] = opened["root"] + 1
      /\ OneMore(opened, "root")["child"] = opened["child"]
      /\ OneMore(opened, "child")["child"] = opened["child"] + 1
      /\ OneMore(opened, "child")["root"] = opened["root"]
  <2>1. opened \in [Handles -> Nat]
    BY DEF Typed
  <2> QED
    BY <1>A, <2>1 DEF OneMore
<1>D. /\ OneMore(closed, "root")["root"] = closed["root"] + 1
      /\ OneMore(closed, "root")["child"] = closed["child"]
      /\ OneMore(closed, "child")["child"] = closed["child"] + 1
      /\ OneMore(closed, "child")["root"] = closed["root"]
  <2>1. closed \in [Handles -> Nat]
    BY DEF Typed
  <2> QED
    BY <1>A, <2>1 DEF OneMore
<1>1. CASE Others BY <1>1 DEF Others, Move, WriteFile
<1>2. CASE Refuse BY <1>2 DEF Refuse
<1>3. CASE Begin BY <1>3, <1>A DEF Begin, NoHandles
<1>4. CASE OpenRoot BY <1>4, <1>B, <1>C DEF OpenRoot, Unwinds, Breaks, OsStatuses
<1>5. CASE CheckRoot BY <1>5 DEF CheckRoot, Verified, Refusal, Breaks, Unwinds
<1>6. CASE OpenChild BY <1>6, <1>B, <1>C DEF OpenChild, AtChildPath, Unwinds, Breaks,
                        OsStatuses
<1>7. CASE CheckChild BY <1>7 DEF CheckChild, Verified, Refusal, Breaks, Unwinds
<1>8. CASE RecheckRoot BY <1>8 DEF RecheckRoot, Verified, Refusal, Breaks, Unwinds
<1>9. CASE RefuseVolume BY <1>9 DEF RefuseVolume, Unwinds
<1>10. CASE ReadBefore BY <1>10 DEF ReadBefore, OsError, Breaks, Unwinds
<1>11. CASE ReadChunk BY <1>11 DEF ReadChunk, OsError, Breaks, Unwinds
<1>12. CASE ReadAfter BY <1>12 DEF ReadAfter, OsError, Breaks, Unwinds
<1>13. CASE CloseChild BY <1>13, <1>B, <1>D DEF CloseChild, Closes
<1>14. CASE CloseRoot BY <1>14, <1>B, <1>D DEF CloseRoot, Closes
<1>15. CASE Report BY <1>15 DEF Report
<1> QED
  BY <1>0, <1>1, <1>2, <1>3, <1>4, <1>5, <1>6, <1>7, <1>8, <1>9, <1>10, <1>11, <1>12, <1>13,
     <1>14, <1>15 DEF ObsNext

LEMMA LooksKept ==
    ASSUME Typed, LooksAgree, [ObsNext]_obsVars PROVE LooksAgree'
<1> USE ArtifactAssumption DEF LooksAgree, RootSteps, obsWorld, obsCall, past
<1>0. CASE UNCHANGED obsVars BY <1>0 DEF obsVars
<1>1. CASE Others
  <2>1. ASSUME NEW d \in Dirs \cup {Null}, Move(d) PROVE LooksAgree'
    BY <2>1 DEF Move, Typed
  <2>2. ASSUME NEW f \in Artifacts, WriteFile(f) PROVE LooksAgree'
    BY <2>2 DEF WriteFile
  <2> QED
    BY <1>1, <2>1, <2>2 DEF Others
<1>2. CASE Refuse BY <1>2 DEF Refuse
<1>3. CASE Begin BY <1>3 DEF Begin
<1>4. CASE OpenRoot BY <1>4 DEF OpenRoot, Unwinds, Breaks, OsStatuses
<1>5. CASE CheckRoot BY <1>5 DEF CheckRoot, Verified, Refusal, Breaks, Unwinds
<1>6. CASE OpenChild BY <1>6 DEF OpenChild, AtChildPath, Unwinds, Breaks, OsStatuses
<1>7. CASE CheckChild BY <1>7 DEF CheckChild, Verified, Refusal, Breaks, Unwinds
<1>8. CASE RecheckRoot BY <1>8 DEF RecheckRoot, Verified, Refusal, Breaks, Unwinds
<1>9. CASE RefuseVolume BY <1>9 DEF RefuseVolume, Unwinds
<1>10. CASE ReadBefore BY <1>10 DEF ReadBefore, OsError, Breaks, Unwinds
<1>11. CASE ReadChunk BY <1>11 DEF ReadChunk, OsError, Breaks, Unwinds
<1>12. CASE ReadAfter BY <1>12 DEF ReadAfter, OsError, Breaks, Unwinds
<1>13. CASE CloseChild BY <1>13 DEF CloseChild, Closes
<1>14. CASE CloseRoot BY <1>14 DEF CloseRoot, Closes
<1>15. CASE Report BY <1>15 DEF Report
<1> QED
  BY <1>0, <1>1, <1>2, <1>3, <1>4, <1>5, <1>6, <1>7, <1>8, <1>9, <1>10, <1>11, <1>12, <1>13,
     <1>14, <1>15 DEF ObsNext

LEMMA DirectKept ==
    ASSUME Typed, LooksAgree, DirectChild, [ObsNext]_obsVars PROVE DirectChild'
<1> USE ArtifactAssumption DEF DirectChild, obsWorld, obsCall, past
<1>0. CASE UNCHANGED obsVars BY <1>0 DEF obsVars
<1>1. CASE Others
  <2>1. ASSUME NEW d \in Dirs \cup {Null}, Move(d) PROVE DirectChild'
    BY <2>1 DEF Move, Typed
  <2>2. ASSUME NEW f \in Artifacts, WriteFile(f) PROVE DirectChild'
    BY <2>2 DEF WriteFile
  <2> QED
    BY <1>1, <2>1, <2>2 DEF Others
<1>2. CASE Refuse BY <1>2 DEF Refuse
<1>3. CASE Begin BY <1>3 DEF Begin
<1>4. CASE OpenRoot BY <1>4 DEF OpenRoot, Unwinds, Breaks, OsStatuses, LooksAgree
<1>5. CASE CheckRoot BY <1>5 DEF CheckRoot, Verified, Refusal, Breaks, Unwinds
<1>6. CASE OpenChild BY <1>6 DEF OpenChild, AtChildPath, Unwinds, Breaks, OsStatuses
<1>7. CASE CheckChild BY <1>7 DEF CheckChild, Verified, Refusal, Breaks, Unwinds, LooksAgree
<1>8. CASE RecheckRoot BY <1>8 DEF RecheckRoot, Verified, Refusal, Breaks, Unwinds
<1>9. CASE RefuseVolume BY <1>9 DEF RefuseVolume, Unwinds
<1>10. CASE ReadBefore BY <1>10 DEF ReadBefore, OsError, Breaks, Unwinds
<1>11. CASE ReadChunk BY <1>11 DEF ReadChunk, OsError, Breaks, Unwinds, LooksAgree
<1>12. CASE ReadAfter BY <1>12 DEF ReadAfter, OsError, Breaks, Unwinds
<1>13. CASE CloseChild BY <1>13 DEF CloseChild, Closes
<1>14. CASE CloseRoot BY <1>14 DEF CloseRoot, Closes
<1>15. CASE Report BY <1>15 DEF Report
<1> QED
  BY <1>0, <1>1, <1>2, <1>3, <1>4, <1>5, <1>6, <1>7, <1>8, <1>9, <1>10, <1>11, <1>12, <1>13,
     <1>14, <1>15 DEF ObsNext

LEMMA VersionsKept ==
    ASSUME Typed, HandlesHeld, VersionsKnown, [ObsNext]_obsVars PROVE VersionsKnown'
<1> USE ArtifactAssumption DEF VersionsKnown, RootSteps, obsWorld, obsCall, past
<1>0. CASE UNCHANGED obsVars BY <1>0 DEF obsVars, Metadata
<1>1. CASE Others
  <2>1. ASSUME NEW d \in Dirs \cup {Null}, Move(d) PROVE VersionsKnown'
    BY <2>1 DEF Move, Metadata
  <2>2. ASSUME NEW f \in Artifacts, WriteFile(f) PROVE VersionsKnown'
    <3>1. CASE child = f
      <4>1. pc \in {"read", "read_after"} => restored' \/ Metadata(child)' # before'
        BY <2>2, <3>1 DEF WriteFile
      <4> QED
        BY <2>2, <4>1 DEF WriteFile
    <3>2. CASE child # f
      <4>1. Metadata(child)' = Metadata(child) /\ version'[child] = version[child]
        <5>1. size'[child] = size[child] /\ token'[child] = token[child]
              /\ version'[child] = version[child] /\ child' = child
          BY <2>2, <3>2 DEF WriteFile, Typed, OneMore
        <5> QED
          BY <5>1 DEF Metadata
      <4> QED
        BY <2>2, <3>2, <4>1 DEF WriteFile
    <3> QED
      BY <3>1, <3>2
  <2> QED
    BY <1>1, <2>1, <2>2 DEF Others
<1>2. CASE Refuse BY <1>2 DEF Refuse
<1>3. CASE Begin BY <1>3 DEF Begin
<1>4. CASE OpenRoot BY <1>4 DEF OpenRoot, Unwinds, Breaks, OsStatuses
<1>5. CASE CheckRoot BY <1>5 DEF CheckRoot, Verified, Refusal, Breaks, Unwinds
<1>6. CASE OpenChild BY <1>6 DEF OpenChild, AtChildPath, Unwinds, Breaks, OsStatuses
<1>7. CASE CheckChild BY <1>7 DEF CheckChild, Verified, Refusal, Breaks, Unwinds
<1>8. CASE RecheckRoot BY <1>8 DEF RecheckRoot, Verified, Refusal, Breaks, Unwinds
<1>9. CASE RefuseVolume BY <1>9 DEF RefuseVolume, Unwinds
<1>10. CASE ReadBefore
  <2>1. CASE /\ pc' = "read" /\ size[child] <= MaxBytes /\ UNCHANGED <<failed, version, child>>
             /\ before' = Metadata(child) /\ versions' = {version[child]}
    <3>1. child' = child /\ size' = size /\ token' = token
      BY <1>10 DEF ReadBefore
    <3>2. Metadata(child)' = before' /\ before'.size = size[child]
      BY <2>1, <3>1 DEF Metadata
    <3>3. failed' = FALSE
      BY <1>10, <2>1 DEF ReadBefore
    <3>4. versions' = {version'[child']}
      BY <2>1
    <3>5. Metadata(child)' = before' => versions' = {version[child]'}
      BY <3>4
    <3> QED
      BY <2>1, <3>2, <3>3, <3>5
  <2>2. CASE pc' = "closing"
    BY <2>2
  <2> QED
    BY <1>10, <2>1, <2>2 DEF ReadBefore, OsError, Breaks, Unwinds
<1>11. CASE ReadChunk
  <2>1. CASE pc' = "closing"
    BY <2>1
  <2>2. CASE pc' \in {"read", "read_after"} /\ UNCHANGED failed
             /\ versions' \in {versions, versions \cup {version[child]}}
    <3>1. Metadata(child)' = Metadata(child)
      BY <1>11 DEF ReadChunk, Metadata
    <3> QED
      BY <1>11, <2>2, <3>1 DEF ReadChunk
  <2> QED
    BY <1>11, <2>1, <2>2 DEF ReadChunk, OsError, Breaks, Unwinds
<1>12. CASE ReadAfter BY <1>12 DEF ReadAfter, OsError, Breaks, Unwinds
<1>13. CASE CloseChild BY <1>13 DEF CloseChild, Closes
<1>14. CASE CloseRoot BY <1>14 DEF CloseRoot, Closes
<1>15. CASE Report BY <1>15 DEF Report
<1> QED
  BY <1>0, <1>1, <1>2, <1>3, <1>4, <1>5, <1>6, <1>7, <1>8, <1>9, <1>10, <1>11, <1>12, <1>13,
     <1>14, <1>15 DEF ObsNext

LEMMA WholeKept ==
    ASSUME Typed, HandlesHeld, VersionsKnown, WholeSoFar, [ObsNext]_obsVars PROVE WholeSoFar'
<1> USE ArtifactAssumption DEF WholeSoFar, Whole, obsWorld, obsCall, past
<1>0. CASE UNCHANGED obsVars BY <1>0 DEF obsVars
<1>1. CASE Others BY <1>1 DEF Others, Move, WriteFile
<1>2. CASE Refuse BY <1>2 DEF Refuse
<1>3. CASE Begin BY <1>3 DEF Begin
<1>4. CASE OpenRoot BY <1>4 DEF OpenRoot, Unwinds, Breaks, OsStatuses, IOStatuses, OsStatuses
<1>5. CASE CheckRoot BY <1>5 DEF CheckRoot, Verified, Refusal, Breaks, Unwinds, IOStatuses,
                        OsStatuses
<1>6. CASE OpenChild BY <1>6 DEF OpenChild, AtChildPath, Unwinds, Breaks, OsStatuses,
                        IOStatuses, OsStatuses
<1>7. CASE CheckChild BY <1>7 DEF CheckChild, Verified, Refusal, Breaks, Unwinds, IOStatuses,
                         OsStatuses
<1>8. CASE RecheckRoot BY <1>8 DEF RecheckRoot, Verified, Refusal, Breaks, Unwinds,
                          IOStatuses, OsStatuses
<1>9. CASE RefuseVolume BY <1>9 DEF RefuseVolume, Unwinds
<1>10. CASE ReadBefore BY <1>10 DEF ReadBefore, OsError, Breaks, Unwinds, IOStatuses,
                          OsStatuses
<1>11. CASE ReadChunk BY <1>11 DEF ReadChunk, OsError, Breaks, Unwinds, IOStatuses, OsStatuses
<1>12. CASE ReadAfter
  <2>1. CASE /\ Unchanged(Metadata(child)) /\ Unwinds("observed") /\ UNCHANGED failed
             /\ versions' = versions \cup {version[child]}
    <3>1. before.size <= MaxBytes /\ failed = FALSE /\ count = before.size
      BY <1>12, <2>1 DEF ReadAfter, VersionsKnown, RootSteps, Unchanged
    <3>2. restored \/ versions = {version[child]}
      BY <1>12, <2>1 DEF ReadAfter, VersionsKnown, Unchanged
    <3>3. restored \/ \A v, w \in versions' : v = w
      BY <2>1, <3>2
    <3>4. Whole'
      BY <1>12, <2>1, <3>1, <3>3 DEF ReadAfter
    <3> QED
      BY <1>12, <2>1, <3>4 DEF ReadAfter, Unwinds
  <2>2. CASE pc' = "closing" /\ status' # "observed"
    BY <1>12, <2>2 DEF ReadAfter
  <2> QED
    BY <1>12, <2>1, <2>2 DEF ReadAfter, OsError, Breaks, Unwinds, OsStatuses
<1>13. CASE CloseChild BY <1>13 DEF CloseChild, Closes, IOStatuses, OsStatuses
<1>14. CASE CloseRoot BY <1>14 DEF CloseRoot, Closes, IOStatuses, OsStatuses
<1>15. CASE Report BY <1>15 DEF Report
<1> QED
  BY <1>0, <1>1, <1>2, <1>3, <1>4, <1>5, <1>6, <1>7, <1>8, <1>9, <1>10, <1>11, <1>12, <1>13,
     <1>14, <1>15 DEF ObsNext

----------------------------------------------------------------------------
(* Theorems *)

\* The steps of an observation, its handles, its looks at the root and the
\* versions it has read (artifact_observation_io.py and
\* artifact_observation_reader.py) satisfy an inductive invariant.
THEOREM ObservationInvariant == ObsSpec => []AInv
<1>1. AInv /\ [ObsNext]_obsVars => AInv'
  BY TypedKept, HandlesKept, LooksKept, DirectKept, VersionsKept, WholeKept DEF AInv
<1> QED
  BY ObservationBegins, <1>1, PTL DEF ObsSpec

\* No native call of a reported observation failed, it is as long as the size
\* says, and it is of one version of the file, however often the file is written
\* and whatever metadata a write leaves, unless one brought back the metadata
\* read first between the two readings (_read_capture).
THEOREM ObservationWhole == ObsSpec => []ObservedWhole
<1>1. AInv => ObservedWhole
  BY DEF AInv, WholeSoFar, Whole, ObservedWhole
<1> QED
  BY ObservationInvariant, <1>1, PTL

\* Bytes are taken of a child of the granted directory alone, unless the path
\* changed hands twice between two looks (open_authorized_artifact).
THEOREM ChildDirect == ObsSpec => []DirectChild
<1>1. AInv => DirectChild
  BY DEF AInv
<1> QED
  BY ObservationInvariant, <1>1, PTL

\* Each handle acquired has one close attempt, whatever fails
\* (open_authorized_artifact's ExitStack, _OwnedHandle.close).
THEOREM HandlesGivenUp == ObsSpec => []HandlesReleased
<1>1. AInv => HandlesReleased
  <2> SUFFICES ASSUME AInv PROVE HandlesReleased
    OBVIOUS
  <2>1. \A h \in Handles : closed[h] <= opened[h]
    <3>1. /\ closed["root"] \in Nat /\ closed["child"] \in Nat
          /\ opened["root"] \in Nat /\ opened["child"] \in Nat
      BY DEF AInv, Typed, Handles
    <3>2. closed["root"] <= opened["root"] /\ closed["child"] <= opened["child"]
      BY <3>1 DEF AInv, HandlesHeld
    <3> QED
      BY <3>2 DEF Handles
  <2>2. pc = "idle" => closed = opened
    BY DEF AInv, Typed, HandlesHeld, Handles
  <2> QED
    BY <2>1, <2>2 DEF AInv, HandlesHeld, HandlesReleased
<1> QED
  BY ObservationInvariant, <1>1, PTL
=============================================================================
