---------------------------- MODULE LatencyFacts ----------------------------
(***************************************************************************)
(* LatencyStats for every sequence of samples: the sort picks a sample for *)
(* every rank and keeps every sample, and the figures read off it are in   *)
(* order and describe the samples; and what two such descriptions say of   *)
(* each other.                                                             *)
(***************************************************************************)
EXTENDS LatencyStats, SumsAndQueues

\* The indices of n samples are n.
LEMMA IndexCount ==
  ASSUME NEW n \in Nat
  PROVE  IsFiniteSet(1..n) /\ Cardinality(1..n) = n
BY FS_Interval

\* The samples that a comparison counts are finitely many, at most all.
LEMMA CountsFinite ==
  ASSUME NEW s \in Seq(Nat), NEW v \in Nat
  PROVE  /\ IsFiniteSet({i \in DOMAIN s : s[i] < v})
         /\ IsFiniteSet({i \in DOMAIN s : s[i] <= v})
         /\ CountBelow(s, v) \in Nat /\ CountUpTo(s, v) \in Nat
         /\ CountUpTo(s, v) \in 0..Len(s)
<1> DEFINE B == {i \in DOMAIN s : s[i] < v}
           U == {i \in DOMAIN s : s[i] <= v}
<1>1. B \in SUBSET (1..Len(s)) /\ U \in SUBSET (1..Len(s)) /\ Len(s) \in Nat
  <2>1. DOMAIN s = 1..Len(s) /\ Len(s) \in Nat
    OBVIOUS
  <2> QED
    BY <2>1, Zenon
<1>2. IsFiniteSet(1..Len(s)) /\ Cardinality(1..Len(s)) = Len(s)
  BY <1>1, IndexCount
<1> HIDE DEF B, U
<1>3. IsFiniteSet(B) /\ IsFiniteSet(U) /\ Cardinality(U) <= Len(s)
  BY <1>1, <1>2, FS_Subset
<1>4. Cardinality(B) \in Nat /\ Cardinality(U) \in Nat
  BY <1>3, FS_CardinalityType
<1> QED
  BY <1>1, <1>3, <1>4 DEF B, U, CountBelow, CountUpTo

\* The counts grow with the value compared to.
LEMMA CountsMonotone ==
  ASSUME NEW s \in Seq(Nat), NEW u \in Nat, NEW v \in Nat, u < v
  PROVE  CountUpTo(s, u) <= CountBelow(s, v)
<1>1. {i \in DOMAIN s : s[i] <= u} \in SUBSET {i \in DOMAIN s : s[i] < v}
  <2>1. \A i \in DOMAIN s : s[i] \in Nat
    OBVIOUS
  <2> QED
    BY <2>1
<1> QED
  BY <1>1, CountsFinite, FS_Subset DEF CountUpTo, CountBelow

\* Some sample is the largest: every sample is counted up to it.
LEMMA LargestSample ==
  ASSUME NEW s \in Seq(Nat), Len(s) > 0
  PROVE  \E v \in Range(s) : \A i \in DOMAIN s : s[i] <= v
<1> DEFINE T == {Len(s) - CountUpTo(s, v) : v \in Range(s)}
<1>1. /\ DOMAIN s = 1..Len(s) /\ Len(s) \in Nat /\ 1 \in DOMAIN s
      /\ \A i \in DOMAIN s : s[i] \in Nat /\ s[i] \in Range(s)
  BY DEF Range
<1>2. \A v \in Range(s) : v \in Nat /\ CountUpTo(s, v) \in 0..Len(s)
  BY <1>1, CountsFinite DEF Range
<1>3. T \in SUBSET Nat /\ T # {}
  BY <1>1, <1>2
<1>4. PICK m \in T : \A y \in T : m <= y
  BY <1>3, NatMin
<1>5. PICK v \in Range(s) : m = Len(s) - CountUpTo(s, v)
  BY <1>4
<1>6. ASSUME NEW i \in DOMAIN s, ~(s[i] <= v) PROVE FALSE
  <2> DEFINE w == s[i]
             A == {j \in DOMAIN s : s[j] <= v}
             B == {j \in DOMAIN s : s[j] <= w}
  <2>1. w \in Nat /\ v \in Nat /\ w > v /\ w \in Range(s)
    BY <1>1, <1>2, <1>6
  <2>2. i \notin A /\ A \cup {i} \in SUBSET B
    <3>1. i \notin A /\ i \in B
      BY <1>6, <2>1
    <3>2. A \subseteq B
      BY <1>1, <2>1
    <3> QED
      BY <3>1, <3>2, Zenon
  <2>3. IsFiniteSet(A) /\ IsFiniteSet(B)
    BY <2>1, CountsFinite
  <2> HIDE DEF A, B, w
  <2>4. Cardinality(A) + 1 <= Cardinality(B)
    <3>1. Cardinality(A \cup {i}) = Cardinality(A) + 1
      BY <2>2, <2>3, FS_AddElement
    <3>2. Cardinality(A \cup {i}) <= Cardinality(B)
      BY <2>2, <2>3, FS_Subset
    <3> QED
      BY <3>1, <3>2
  <2>5. CountUpTo(s, w) >= CountUpTo(s, v) + 1
    BY <2>4, <1>2, <2>1 DEF CountUpTo, A, B
  <2>6. m <= Len(s) - CountUpTo(s, w)
    BY <1>4, <2>1
  <2> QED
    BY <1>1, <1>2, <1>5, <2>1, <2>5, <2>6
<1> QED
  BY <1>6

\* Every rank has its sample: the one sort_by puts there.
LEMMA RankExists ==
  ASSUME NEW s \in Seq(Nat), NEW i \in 1..Len(s)
  PROVE  \E v \in Range(s) : CountBelow(s, v) < i /\ i <= CountUpTo(s, v)
<1> DEFINE T == {v \in Range(s) : i <= CountUpTo(s, v)}
<1>1. /\ DOMAIN s = 1..Len(s) /\ Len(s) \in Nat /\ i \in Nat /\ 1 <= i /\ i <= Len(s)
      /\ \A j \in DOMAIN s : s[j] \in Nat /\ s[j] \in Range(s)
  BY DEF Range
<1>2. \A v \in Range(s) : v \in Nat /\ CountUpTo(s, v) \in 0..Len(s) /\ CountBelow(s, v) \in Nat
  BY <1>1, CountsFinite DEF Range
<1>3. T \in SUBSET Nat /\ T # {}
  <2>1. PICK v \in Range(s) : \A j \in DOMAIN s : s[j] <= v
    BY <1>1, LargestSample
  <2>2. {j \in DOMAIN s : s[j] <= v} = 1..Len(s)
    BY <1>1, <2>1, Zenon
  <2>3. CountUpTo(s, v) = Len(s)
    BY <1>1, <2>2, IndexCount DEF CountUpTo
  <2> QED
    BY <1>1, <1>2, <2>3
<1>4. PICK v \in T : \A y \in T : v <= y
  BY <1>3, NatMin
<1>5. v \in Range(s) /\ v \in Nat /\ i <= CountUpTo(s, v)
  BY <1>2, <1>4
<1>6. ASSUME ~(CountBelow(s, v) < i) PROVE FALSE
  <2> DEFINE B == {j \in DOMAIN s : s[j] < v}
             D == {v - s[j] : j \in B}
  <2>1. Cardinality(B) >= i /\ Cardinality(B) >= 1 /\ IsFiniteSet(B)
    <3>1. CountBelow(s, v) = Cardinality(B) /\ CountBelow(s, v) \in Nat /\ IsFiniteSet(B)
      BY <1>5, CountsFinite DEF CountBelow
    <3> HIDE DEF B
    <3> QED
      BY <1>1, <1>6, <3>1
  <2>2. B # {}
    BY <2>1, FS_EmptySet
  <2>3. \A j \in B : s[j] \in Nat /\ s[j] < v /\ s[j] \in Range(s)
    BY <1>1
  <2> HIDE DEF B
  <2>4. D \in SUBSET Nat /\ D # {}
    BY <1>5, <2>2, <2>3
  <2>5. PICK d \in D : \A y \in D : d <= y
    BY <2>4, NatMin
  <2>6. PICK k \in B : d = v - s[k]
    BY <2>5
  <2>7. \A j \in B : s[j] <= s[k]
    <3>1. ASSUME NEW j \in B PROVE s[j] <= s[k]
      <4>1. v - s[k] <= v - s[j]
        BY <2>5, <2>6
      <4> QED
        BY <4>1, <1>5, <2>3
    <3> QED
      BY <3>1
  <2>8. B \in SUBSET {j \in DOMAIN s : s[j] <= s[k]}
    BY <2>7 DEF B
  <2>9. s[k] \in Nat /\ s[k] \in Range(s) /\ s[k] < v
    BY <2>3
  <2>10. Cardinality(B) <= CountUpTo(s, s[k])
    BY <2>8, <2>9, CountsFinite, FS_Subset DEF CountUpTo
  <2>11. i <= CountUpTo(s, s[k])
    <3>1. Cardinality(B) \in Nat /\ CountUpTo(s, s[k]) \in Nat
      BY <2>1, <2>9, CountsFinite, FS_CardinalityType
    <3> QED
      BY <1>1, <2>1, <2>10, <3>1
  <2>12. v <= s[k]
    BY <1>4, <2>9, <2>11
  <2> QED
    BY <1>5, <2>9, <2>12
<1> QED
  BY <1>5, <1>6

\* What sort_by leaves at each place, by counting.
LEMMA SortedRank ==
  ASSUME NEW s \in Seq(Nat)
  PROVE  /\ Sorted(s) \in Seq(Nat) /\ Len(Sorted(s)) = Len(s)
         /\ \A i \in 1..Len(s) :
              /\ Sorted(s)[i] \in Range(s) /\ Sorted(s)[i] \in Nat
              /\ CountBelow(s, Sorted(s)[i]) < i /\ i <= CountUpTo(s, Sorted(s)[i])
<1> DEFINE t == Sorted(s)
<1>1. Len(s) \in Nat /\ \A v \in Range(s) : v \in Nat
  BY DEF Range
<1>2. ASSUME NEW i \in 1..Len(s)
      PROVE  /\ t[i] \in Range(s)
             /\ CountBelow(s, t[i]) < i /\ i <= CountUpTo(s, t[i])
  <2>1. t[i] = CHOOSE v \in Range(s) : CountBelow(s, v) < i /\ i <= CountUpTo(s, v)
    BY DEF Sorted
  <2> HIDE DEF t
  <2> QED
    BY <2>1, RankExists
<1>3. t = [i \in 1..Len(s) |-> t[i]]
  BY DEF Sorted
<1> HIDE DEF t
<1>4. t \in [1..Len(s) -> Nat]
  BY <1>1, <1>2, <1>3
<1>5. t \in Seq(Nat) /\ Len(t) = Len(s)
  BY <1>1, <1>4
<1> QED
  BY <1>1, <1>2, <1>5 DEF t

\* The sorted samples do not decrease.
LEMMA SortedAscends ==
  ASSUME NEW s \in Seq(Nat), NEW i \in 1..Len(s), NEW j \in 1..Len(s), i <= j
  PROVE  Sorted(s)[i] <= Sorted(s)[j]
<1> DEFINE v == Sorted(s)[i]
           w == Sorted(s)[j]
<1>1. /\ v \in Nat /\ w \in Nat /\ CountBelow(s, v) < i /\ j <= CountUpTo(s, w)
  BY SortedRank
<1> HIDE DEF v, w
<1>2. CountBelow(s, v) \in Nat /\ CountUpTo(s, w) \in Nat
  BY <1>1, CountsFinite
<1>3. ~(w < v)
  <2>1. ASSUME w < v PROVE FALSE
    <3>1. CountUpTo(s, w) <= CountBelow(s, v)
      BY <1>1, <2>1, CountsMonotone
    <3> QED
      BY <1>1, <1>2, <3>1
  <2> QED
    BY <2>1
<1> QED
  BY <1>1, <1>3 DEF v, w

-----------------------------------------------------------------------------
\* The place percentile() reads, counted from 1.
Place(n, p) == ((p * (n - 1)) \div 100) + 1

\* It is one of the n places, at the rank that cuts off p per cent.
PlaceFits(n, p) ==
  /\ Place(n, p) \in 1..n
  /\ 100 * (Place(n, p) - 1) <= p * (n - 1)
  /\ 100 * Place(n, p) > p * (n - 1)

\* For a percentile below 100 the index is in range without the clamp.
LEMMA PercentilePlace ==
  ASSUME NEW s \in Seq(Nat), Len(s) > 0, NEW p \in {50, 90, 95, 99}
  PROVE  /\ PlaceFits(Len(s), p)
         /\ Place(Len(s), p) \in 1..Len(s)
         /\ Percentile(Sorted(s), p) = Sorted(s)[Place(Len(s), p)]
<1> DEFINE n == Len(s)
           t == Sorted(s)
           q == (p * (n - 1)) \div 100
<1>1. n \in Nat /\ n > 0 /\ Len(t) = n
  BY SortedRank
<1> HIDE DEF n, t
<1>2. q \in Nat /\ q <= n - 1 /\ 100 * q <= p * (n - 1) /\ 100 * (q + 1) > p * (n - 1)
  <2>1. CASE p = 50
    BY <1>1, <2>1
  <2>2. CASE p = 90
    BY <1>1, <2>2
  <2>3. CASE p = 95
    BY <1>1, <2>3
  <2>4. CASE p = 99
    BY <1>1, <2>4
  <2> QED
    BY <2>1, <2>2, <2>3, <2>4
<1>3. Place(n, p) = q + 1
  BY DEF Place
<1>4. Percentile(t, p) = t[q + 1]
  <2>1. Percentile(t, p) = t[(IF q > n - 1 THEN n - 1 ELSE q) + 1]
    BY <1>1 DEF Percentile
  <2> HIDE DEF q
  <2> QED
    BY <1>1, <1>2, <2>1
<1> HIDE DEF q
<1>5. q + 1 \in 1..n /\ 100 * ((q + 1) - 1) <= p * (n - 1)
  BY <1>1, <1>2
<1>6. PlaceFits(n, p)
  BY <1>2, <1>3, <1>5, Zenon DEF PlaceFits
<1> QED
  BY <1>3, <1>4, <1>5, <1>6 DEF n, t

\* A percentile of a higher rank is read at the same place or further on.
LEMMA PlacesAscend ==
  ASSUME NEW n \in Nat, n > 0
  PROVE  /\ Place(n, 50) <= Place(n, 90) /\ Place(n, 90) <= Place(n, 95)
         /\ Place(n, 95) <= Place(n, 99)
BY DEF Place

\* The figures of from_sorted_ms, of samples sorted.
LEMMA Figures ==
  ASSUME NEW s \in Seq(Nat), Len(s) > 0
  PROVE  LET t == Sorted(s)  st == FromSortedMs(t)  n == Len(s)
         IN  /\ st.min_ms = t[1] /\ st.max_ms = t[n] /\ st.sample_count = n
             /\ st.p50_ms = t[Place(n, 50)] /\ st.p90_ms = t[Place(n, 90)]
             /\ st.p95_ms = t[Place(n, 95)] /\ st.p99_ms = t[Place(n, 99)]
<1> DEFINE t == Sorted(s)
           st == FromSortedMs(t)
<1>1. Len(t) = Len(s) /\ Len(s) \in Nat /\ Len(t) # 0
  BY SortedRank
<1> HIDE DEF t
<1>2. /\ st.min_ms = t[1] /\ st.max_ms = t[Len(t)] /\ st.sample_count = Len(t)
      /\ st.p50_ms = Percentile(t, 50) /\ st.p90_ms = Percentile(t, 90)
      /\ st.p95_ms = Percentile(t, 95) /\ st.p99_ms = Percentile(t, 99)
  BY <1>1 DEF FromSortedMs
<1> HIDE DEF st
<1>3. /\ Percentile(t, 50) = t[Place(Len(s), 50)]
      /\ Percentile(t, 90) = t[Place(Len(s), 90)]
      /\ Percentile(t, 95) = t[Place(Len(s), 95)]
      /\ Percentile(t, 99) = t[Place(Len(s), 99)]
  BY PercentilePlace DEF t
<1> QED
  BY <1>1, <1>2, <1>3 DEF t, st

\* Every summary is printed in increasing order, from min to max.
THEOREM FiguresAscend ==
  ASSUME NEW s \in Seq(Nat)
  PROVE  Monotone(FromSortedMs(Sorted(s)))
<1> DEFINE t == Sorted(s)
           n == Len(s)
           st == FromSortedMs(t)
<1>1. CASE n = 0
  <2>1. Len(t) = 0
    BY <1>1, SortedRank
  <2>2. st = DefaultStats
    BY <2>1 DEF FromSortedMs
  <2> QED
    BY <2>2 DEF Monotone, DefaultStats
<1>2. CASE n > 0
  <2>1. n \in Nat /\ 1 \in 1..n /\ n \in 1..n
    BY <1>2
  <2>2. /\ Place(n, 50) \in 1..n /\ Place(n, 90) \in 1..n /\ Place(n, 95) \in 1..n
        /\ Place(n, 99) \in 1..n
    BY <1>2, PercentilePlace
  <2>3. /\ 1 <= Place(n, 50) /\ Place(n, 50) <= Place(n, 90)
        /\ Place(n, 90) <= Place(n, 95) /\ Place(n, 95) <= Place(n, 99)
        /\ Place(n, 99) <= n
    BY <1>2, <2>1, <2>2, PlacesAscend
  <2>4. /\ t[1] <= t[Place(n, 50)] /\ t[Place(n, 50)] <= t[Place(n, 90)]
        /\ t[Place(n, 90)] <= t[Place(n, 95)] /\ t[Place(n, 95)] <= t[Place(n, 99)]
        /\ t[Place(n, 99)] <= t[n]
    BY <2>1, <2>2, <2>3, SortedAscends
  <2>5. /\ st.min_ms = t[1] /\ st.max_ms = t[n]
        /\ st.p50_ms = t[Place(n, 50)] /\ st.p90_ms = t[Place(n, 90)]
        /\ st.p95_ms = t[Place(n, 95)] /\ st.p99_ms = t[Place(n, 99)]
    BY <1>2, Figures
  <2> HIDE DEF st, t, n
  <2> QED
    BY <2>4, <2>5 DEF Monotone, st, t
<1>3. n = 0 \/ n > 0
  OBVIOUS
<1> QED
  BY <1>1, <1>2, <1>3

\* Each percentile of a summary is a sample with the right share of the others
\* below it, and min and max enclose the samples: the figures describe the
\* samples as they were pushed, by counting, without an index.
THEOREM FiguresHonest ==
  ASSUME NEW s \in Seq(Nat), Len(s) > 0
  PROVE  LET st == FromSortedMs(Sorted(s))
         IN  /\ st.sample_count = Cardinality(DOMAIN s)
             /\ {st.min_ms, st.max_ms} \subseteq Range(s)
             /\ \A i \in DOMAIN s : st.min_ms <= s[i] /\ s[i] <= st.max_ms
             /\ IsPercentile(s, 50, st.p50_ms) /\ IsPercentile(s, 90, st.p90_ms)
             /\ IsPercentile(s, 95, st.p95_ms) /\ IsPercentile(s, 99, st.p99_ms)
<1> DEFINE t == Sorted(s)
           n == Len(s)
           st == FromSortedMs(t)
<1>1. /\ n \in Nat /\ 1 \in 1..n /\ n \in 1..n /\ DOMAIN s = 1..n
      /\ \A i \in 1..n : s[i] \in Nat
  OBVIOUS
<1>2. Cardinality(DOMAIN s) = n
  BY <1>1, FS_Interval
<1>3. /\ st.min_ms = t[1] /\ st.max_ms = t[n] /\ st.sample_count = n
      /\ st.p50_ms = t[Place(n, 50)] /\ st.p90_ms = t[Place(n, 90)]
      /\ st.p95_ms = t[Place(n, 95)] /\ st.p99_ms = t[Place(n, 99)]
  BY Figures
<1>4. \A i \in 1..n :
        /\ t[i] \in Range(s) /\ t[i] \in Nat
        /\ CountBelow(s, t[i]) < i /\ i <= CountUpTo(s, t[i])
        /\ CountBelow(s, t[i]) \in Nat /\ CountUpTo(s, t[i]) \in Nat
        /\ CountUpTo(s, t[i]) \in 0..n
  BY SortedRank, CountsFinite
<1> HIDE DEF st, t
<1>5. ASSUME NEW p \in {50, 90, 95, 99}
      PROVE  IsPercentile(s, p, t[Place(n, p)])
  <2> DEFINE k == Place(n, p)
             m == p * (n - 1)
  <2>1. k \in 1..n /\ 100 * (k - 1) <= m /\ 100 * k > m
    <3>1. PlaceFits(Len(s), p)
      BY PercentilePlace
    <3> QED
      BY <3>1, Zenon DEF PlaceFits
  <2>2. m \in Int
    BY <1>1
  <2> HIDE DEF k, m
  <2>3. 100 * CountUpTo(s, t[k]) > m /\ 100 * CountBelow(s, t[k]) <= m
    <3>1. /\ CountBelow(s, t[k]) < k /\ k <= CountUpTo(s, t[k])
          /\ CountBelow(s, t[k]) \in Nat /\ CountUpTo(s, t[k]) \in Nat
      BY <1>4, <2>1
    <3> QED
      BY <2>1, <2>2, <3>1
  <2> QED
    BY <1>2, <1>4, <2>1, <2>3 DEF IsPercentile, k, m
<1>6. ASSUME NEW i \in DOMAIN s PROVE t[1] <= s[i] /\ s[i] <= t[n]
  <2>1. t[1] <= s[i]
    <3>1. CountBelow(s, t[1]) = 0
      BY <1>1, <1>4
    <3>2. {j \in DOMAIN s : s[j] < t[1]} = {}
      BY <1>1, <1>4, <3>1, CountsFinite, FS_EmptySet DEF CountBelow
    <3>3. ~(s[i] < t[1])
      BY <3>2
    <3>4. s[i] \in Nat /\ t[1] \in Nat
      BY <1>1, <1>4
    <3> QED
      BY <3>3, <3>4
  <2>2. s[i] <= t[n]
    <3>1. CountUpTo(s, t[n]) = n
      <4>1. n <= CountUpTo(s, t[n]) /\ CountUpTo(s, t[n]) \in 0..n
        BY <1>1, <1>4
      <4> HIDE DEF n
      <4> QED
        BY <1>1, <4>1
    <3> DEFINE A == {j \in DOMAIN s : s[j] <= t[n]}
    <3>2. A \in SUBSET (1..n) /\ Cardinality(A) = n
      BY <1>1, <3>1 DEF CountUpTo
    <3>3. A = 1..n
      <4> HIDE DEF A
      <4> QED
        BY <1>1, <3>2, IndexCount, FS_Subset
    <3> QED
      BY <1>1, <3>3
  <2> QED
    BY <2>1, <2>2
<1>7. t[1] \in Range(s) /\ t[n] \in Range(s)
  BY <1>1, <1>4
<1> HIDE DEF n
<1> QED
  BY <1>2, <1>3, <1>5, <1>6, <1>7 DEF st, t

-----------------------------------------------------------------------------
\* Of the samples up to v, those that are v are the ones not below it.
LEMMA LevelOfCounts ==
  ASSUME NEW s \in Seq(Nat), NEW v \in Nat
  PROVE  CountUpTo(s, v) = CountBelow(s, v) + Level(s, DOMAIN s, v)
<1> DEFINE B == {i \in DOMAIN s : s[i] < v}
           U == {i \in DOMAIN s : s[i] <= v}
           E == {i \in DOMAIN s : s[i] = v}
<1>1. \A i \in DOMAIN s : s[i] \in Nat
  OBVIOUS
<1>2. U = B \cup E /\ B \cap E = {} /\ E \in SUBSET U
  BY <1>1
<1>3. IsFiniteSet(B) /\ IsFiniteSet(U)
  BY CountsFinite
<1> HIDE DEF B, U, E
<1>4. IsFiniteSet(E)
  BY <1>2, <1>3, FS_Subset
<1>5. Cardinality(U) = Cardinality(B) + Cardinality(E) - Cardinality({})
  BY <1>2, <1>3, <1>4, FS_Union
<1>6. Cardinality(B) \in Nat /\ Cardinality(E) \in Nat /\ Cardinality({}) = 0
  BY <1>3, <1>4, FS_CardinalityType, FS_EmptySet
<1>7. Cardinality(U) = Cardinality(B) + Cardinality(E)
  BY <1>5, <1>6
<1> QED
  BY <1>7 DEF CountUpTo, CountBelow, Level, B, U, E

\* sort_by loses and invents no sample: every value is there equally often.
LEMMA SortedLevels ==
  ASSUME NEW s \in Seq(Nat)
  PROVE  SameLevels(Sorted(s), 1..Len(s), s, DOMAIN s)
<1> DEFINE t == Sorted(s)
           n == Len(s)
<1>1. n \in Nat /\ DOMAIN s = 1..n
  OBVIOUS
<1>2. \A i \in 1..n : /\ t[i] \in Nat /\ t[i] \in Range(s)
                      /\ CountBelow(s, t[i]) < i /\ i <= CountUpTo(s, t[i])
  BY SortedRank
<1> HIDE DEF t, n
<1>3. ASSUME NEW v \in Nat
      PROVE  Level(t, 1..n, v) = Level(s, DOMAIN s, v)
  <2> DEFINE b == CountBelow(s, v)
             u == CountUpTo(s, v)
  <2>1. b \in Nat /\ u \in 0..n /\ u = b + Level(s, DOMAIN s, v) /\ Level(s, DOMAIN s, v) \in Nat
    <3>1. IsFiniteSet(DOMAIN s)
      BY <1>1, IndexCount
    <3> QED
      BY <3>1, CountsFinite, LevelOfCounts, LevelOccurs DEF n
  <2>2. \A i \in 1..n : t[i] = v <=> b < i /\ i <= u
    <3> SUFFICES ASSUME NEW i \in 1..n PROVE t[i] = v <=> b < i /\ i <= u
      OBVIOUS
    <3>1. /\ t[i] \in Nat /\ CountBelow(s, t[i]) < i /\ i <= CountUpTo(s, t[i])
          /\ CountBelow(s, t[i]) \in Nat /\ CountUpTo(s, t[i]) \in Nat
      BY <1>2, CountsFinite
    <3>2. t[i] = v => b < i /\ i <= u
      BY <3>1
    <3>3. t[i] < v => ~(b < i)
      <4>1. t[i] < v => CountUpTo(s, t[i]) <= b
        BY <3>1, CountsMonotone
      <4> QED
        BY <1>1, <2>1, <3>1, <4>1
    <3>4. v < t[i] => ~(i <= u)
      <4>1. v < t[i] => u <= CountBelow(s, t[i])
        BY <3>1, CountsMonotone
      <4> QED
        BY <1>1, <2>1, <3>1, <4>1
    <3>5. t[i] < v \/ v < t[i] \/ t[i] = v
      BY <3>1
    <3> QED
      BY <3>2, <3>3, <3>4, <3>5
  <2> HIDE DEF b, u
  <2>3. {i \in 1..n : t[i] = v} = (b + 1)..u
    <3>1. \A i \in (b + 1)..u : i \in 1..n /\ b < i /\ i <= u
      BY <1>1, <2>1
    <3>2. \A i \in 1..n : b < i /\ i <= u => i \in (b + 1)..u
      BY <1>1, <2>1
    <3> QED
      BY <2>2, <3>1, <3>2
  <2>4. Cardinality((b + 1)..u) = u - b
    <3>1. b + 1 \in Int /\ u \in Int /\ u >= b
      BY <1>1, <2>1
    <3>2. Cardinality((b + 1)..u) = IF b + 1 > u THEN 0 ELSE u - (b + 1) + 1
      BY <3>1, FS_Interval
    <3> QED
      BY <2>1, <3>1, <3>2
  <2>5. u - b = Level(s, DOMAIN s, v)
    BY <2>1
  <2> QED
    BY <2>3, <2>4, <2>5 DEF Level
<1> QED
  BY <1>3 DEF SameLevels, t, n

\* The sum is that of the samples, although it is taken after the sort.
LEMMA SortedSum ==
  ASSUME NEW s \in Seq(Nat)
  PROVE  SumFunction(Sorted(s)) = SumFunction(s)
<1> DEFINE t == Sorted(s)
<1>1. /\ DOMAIN s = 1..Len(s) /\ Len(s) \in Nat /\ \A i \in 1..Len(s) : s[i] \in Nat
  OBVIOUS
<1>2. DOMAIN t = 1..Len(s) /\ \A i \in 1..Len(s) : t[i] \in Nat
  BY SortedRank DEF Sorted
<1>3. SameLevels(t, 1..Len(s), s, 1..Len(s)) /\ IsFiniteSet(1..Len(s))
  BY <1>1, SortedLevels, IndexCount
<1> HIDE DEF t
<1>4. SumFunctionOnSet(t, 1..Len(s)) = SumFunctionOnSet(s, 1..Len(s))
  BY <1>1, <1>2, <1>3, SameSum
<1> QED
  BY <1>1, <1>2, <1>4 DEF SumFunction, t

\* from_sorted_ms of the sorted samples describes the samples as they were
\* pushed: how many, their sum and extremes, and every percentile by counting.
THEOREM SummaryOfSorted ==
  ASSUME NEW s \in Seq(Nat)
  PROVE  Describes(FromSortedMs(Sorted(s)), s)
<1> DEFINE t == Sorted(s)
           st == FromSortedMs(t)
<1>1. Len(s) \in Nat /\ DOMAIN s = 1..Len(s) /\ Len(t) = Len(s)
  BY SortedRank
<1>2. CASE Len(s) = 0
  <2>1. st = DefaultStats /\ DOMAIN s = {}
    BY <1>1, <1>2 DEF FromSortedMs
  <2>2. SumFunction(s) = 0
    BY <2>1, SumFacts, FS_EmptySet DEF SumFunction
  <2> QED
    BY <2>1, <2>2, FS_EmptySet DEF Describes, DefaultStats
<1>3. CASE Len(s) > 0
  <2> HIDE DEF t
  <2>1. st.sum_ms = SumFunction(t)
    BY <1>1, <1>3 DEF FromSortedMs
  <2>2. SumFunction(t) = SumFunction(s)
    BY SortedSum DEF t
  <2>3. /\ st.sample_count = Cardinality(DOMAIN s)
        /\ {st.min_ms, st.max_ms} \subseteq Range(s)
        /\ \A i \in DOMAIN s : st.min_ms <= s[i] /\ s[i] <= st.max_ms
        /\ IsPercentile(s, 50, st.p50_ms) /\ IsPercentile(s, 90, st.p90_ms)
        /\ IsPercentile(s, 95, st.p95_ms) /\ IsPercentile(s, 99, st.p99_ms)
    BY <1>3, FiguresHonest DEF t
  <2> HIDE DEF st
  <2> QED
    BY <2>1, <2>2, <2>3 DEF Describes, st, t
<1> QED
  BY <1>1, <1>2, <1>3

-----------------------------------------------------------------------------
\* Levels look at the function on the set only.
LEMMA LevelsAgree ==
  ASSUME NEW s, NEW E, NEW f, NEW g, NEW D, \A i \in D : f[i] = g[i],
         SameLevels(s, E, f, D)
  PROVE  SameLevels(s, E, g, D)
<1>1. ASSUME NEW v \in Nat PROVE Level(g, D, v) = Level(f, D, v)
  <2>1. {i \in D : g[i] = v} = {i \in D : f[i] = v}
    OBVIOUS
  <2> QED
    BY <2>1 DEF Level
<1> QED
  BY <1>1 DEF SameLevels

\* A sample is pushed for a new member of D.
LEMMA LevelsAppend ==
  ASSUME NEW s \in Seq(Nat), NEW f, NEW D, IsFiniteSet(D), SameLevels(s, DOMAIN s, f, D),
         NEW r, r \notin D, f[r] \in Nat
  PROVE  SameLevels(Append(s, f[r]), DOMAIN Append(s, f[r]), f, D \cup {r})
<1> DEFINE x == f[r]
           t == Append(s, x)
           k == Len(s) + 1
<1>1. /\ Len(s) \in Nat /\ DOMAIN s = 1..Len(s) /\ DOMAIN t = 1..k /\ k \in 1..k
      /\ 1..Len(s) = (1..k) \ {k}
      /\ t[k] = x /\ \A i \in 1..Len(s) : t[i] = s[i]
  OBVIOUS
<1>2. IsFiniteSet(1..k) /\ IsFiniteSet(D \cup {r}) /\ D = (D \cup {r}) \ {r}
  BY <1>1, IndexCount, FS_AddElement
<1> HIDE DEF t, x, k
<1>3. ASSUME NEW v \in Nat PROVE Level(t, 1..k, v) = Level(f, D \cup {r}, v)
  <2>1. Level(t, (1..k) \ {k}, v) = Level(s, DOMAIN s, v)
    <3>1. {i \in (1..k) \ {k} : t[i] = v} = {i \in DOMAIN s : s[i] = v}
      BY <1>1
    <3> QED
      BY <3>1 DEF Level
  <2>2. Level(t, (1..k) \ {k}, v) = IF t[k] = v THEN Level(t, 1..k, v) - 1 ELSE Level(t, 1..k, v)
    BY <1>1, <1>2, LevelRemove
  <2>3. Level(f, D, v) = IF f[r] = v THEN Level(f, D \cup {r}, v) - 1 ELSE Level(f, D \cup {r}, v)
    BY <1>2, LevelRemove
  <2>4. Level(s, DOMAIN s, v) = Level(f, D, v)
    BY DEF SameLevels
  <2>5. Level(t, 1..k, v) \in Nat /\ Level(f, D \cup {r}, v) \in Nat
    BY <1>2, LevelOccurs
  <2> QED
    BY <1>1, <2>1, <2>2, <2>3, <2>4, <2>5 DEF x
<1> QED
  BY <1>1, <1>3 DEF SameLevels, t, x

\* Statistics that describe samples describe every collection with the same
\* levels, in whatever order it was pushed.
LEMMA DescribesSame ==
  ASSUME NEW s \in Seq(Nat), NEW D, IsFiniteSet(D), NEW q \in [D -> Nat],
         SameLevels(s, DOMAIN s, q, D), NEW st, Describes(st, s)
  PROVE  Describes(st, q)
<1> DEFINE E == DOMAIN s
<1>1. /\ IsFiniteSet(E) /\ DOMAIN q = D
      /\ \A i \in E : s[i] \in Nat
      /\ \A r \in D : q[r] \in Nat
  <2>1. E = 1..Len(s) /\ Len(s) \in Nat
    OBVIOUS
  <2> QED
    BY <2>1, IndexCount
<1>2. Cardinality(D) = Cardinality(E)
  <2>1. {i \in E : s[i] \in Nat} = E /\ {r \in D : q[r] \in Nat} = D
    BY <1>1
  <2>2. Inside(s, E, Nat) = Inside(q, D, Nat)
    <3>1. SameLevels(s, E, q, D)
      OBVIOUS
    <3> HIDE DEF E
    <3> QED
      BY <1>1, <3>1, SameCount
  <2> QED
    BY <2>1, <2>2 DEF Inside
<1>3. SumFunction(q) = SumFunction(s)
  BY <1>1, SameSum DEF SumFunction
<1>4. Range(q) = Range(s) /\ \A v \in Range(s) : v \in Nat
  <2>1. \A v \in Nat : (\E i \in E : s[i] = v) <=> (\E r \in D : q[r] = v)
    <3> SUFFICES ASSUME NEW v \in Nat PROVE (\E i \in E : s[i] = v) <=> (\E r \in D : q[r] = v)
      OBVIOUS
    <3>1. Level(s, E, v) = Level(q, D, v)
      BY DEF SameLevels
    <3>2. Level(s, E, v) # 0 <=> \E i \in E : s[i] = v
      BY <1>1, LevelOccurs
    <3>3. Level(q, D, v) # 0 <=> \E r \in D : q[r] = v
      BY <1>1, LevelOccurs
    <3> QED
      BY <3>1, <3>2, <3>3
  <2> QED
    BY <1>1, <2>1 DEF Range
<1>5. ASSUME NEW v \in Nat
      PROVE  CountUpTo(q, v) = CountUpTo(s, v) /\ CountBelow(q, v) = CountBelow(s, v)
  <2>1. \A x \in Nat : (x <= v <=> x \in 0..v) /\ (x < v <=> x \in 0..(v - 1))
    OBVIOUS
  <2>2. {i \in E : s[i] <= v} = {i \in E : s[i] \in 0..v} /\ {r \in D : q[r] <= v} = {r \in D : q[r] \in 0..v}
    BY <1>1, <2>1
  <2>3. /\ {i \in E : s[i] < v} = {i \in E : s[i] \in 0..(v - 1)}
        /\ {r \in D : q[r] < v} = {r \in D : q[r] \in 0..(v - 1)}
    BY <1>1, <2>1
  <2>4. /\ Inside(s, E, 0..v) = Inside(q, D, 0..v)
        /\ Inside(s, E, 0..(v - 1)) = Inside(q, D, 0..(v - 1))
    <3>1. SameLevels(s, E, q, D)
      OBVIOUS
    <3> HIDE DEF E
    <3> QED
      BY <1>1, <3>1, SameCount
  <2> QED
    BY <1>1, <2>2, <2>3, <2>4 DEF CountUpTo, CountBelow, Inside
<1>6. ASSUME NEW p, NEW v, IsPercentile(s, p, v) PROVE IsPercentile(q, p, v)
  <2>1. v \in Range(s) /\ v \in Nat
    BY <1>4, <1>6 DEF IsPercentile
  <2>2. CountUpTo(q, v) = CountUpTo(s, v) /\ CountBelow(q, v) = CountBelow(s, v)
    BY <1>5, <2>1
  <2> QED
    BY <1>1, <1>2, <1>4, <1>6, <2>1, <2>2 DEF IsPercentile
<1>7. st.sample_count = Cardinality(D) /\ st.sum_ms = SumFunction(q)
  BY <1>2, <1>3 DEF Describes
<1>8. ASSUME D # {}
      PROVE  /\ {st.min_ms, st.max_ms} \subseteq Range(q)
             /\ \A r \in D : st.min_ms <= q[r] /\ q[r] <= st.max_ms
             /\ IsPercentile(s, 50, st.p50_ms) /\ IsPercentile(s, 90, st.p90_ms)
             /\ IsPercentile(s, 95, st.p95_ms) /\ IsPercentile(s, 99, st.p99_ms)
  <2>1. PICK r \in D : TRUE
    BY <1>8
  <2>2. q[r] \in Range(s)
    BY <1>1, <1>4 DEF Range
  <2>3. E # {}
    BY <2>2 DEF Range
  <2>4. /\ {st.min_ms, st.max_ms} \subseteq Range(s)
        /\ \A i \in E : st.min_ms <= s[i] /\ s[i] <= st.max_ms
        /\ IsPercentile(s, 50, st.p50_ms) /\ IsPercentile(s, 90, st.p90_ms)
        /\ IsPercentile(s, 95, st.p95_ms) /\ IsPercentile(s, 99, st.p99_ms)
    BY <2>3 DEF Describes
  <2>5. ASSUME NEW d \in D PROVE st.min_ms <= q[d] /\ q[d] <= st.max_ms
    <3>1. q[d] \in Range(s)
      BY <1>1, <1>4 DEF Range
    <3>2. PICK i \in E : s[i] = q[d]
      BY <3>1 DEF Range
    <3> QED
      BY <2>4, <3>2
  <2> QED
    BY <1>4, <2>4, <2>5
<1> QED
  BY <1>1, <1>6, <1>7, <1>8 DEF Describes
-----------------------------------------------------------------------------
\* A percentile of samples that are nowhere larger is not larger.
LEMMA PercentileGrows ==
  ASSUME NEW D, IsFiniteSet(D), NEW f \in [D -> Nat], NEW g \in [D -> Nat],
         \A r \in D : f[r] <= g[r], NEW p \in Nat, NEW x, NEW y,
         IsPercentile(f, p, x), IsPercentile(g, p, y)
  PROVE  x <= y
<1>1. DOMAIN f = D /\ DOMAIN g = D /\ \A r \in D : f[r] \in Nat /\ g[r] \in Nat
  OBVIOUS
<1>2. x \in Nat /\ y \in Nat
  BY <1>1 DEF IsPercentile, Range
<1> SUFFICES ASSUME y < x PROVE FALSE
  BY <1>2
<1> DEFINE G == {r \in D : g[r] <= y}
           F == {r \in D : f[r] < x}
<1>3. G \in SUBSET F /\ F \in SUBSET D
  BY <1>1, <1>2
<1>4. CountUpTo(g, y) = Cardinality(G) /\ CountBelow(f, x) = Cardinality(F)
  BY <1>1 DEF CountUpTo, CountBelow
<1>5. /\ 100 * Cardinality(G) > p * (Cardinality(D) - 1)
      /\ 100 * Cardinality(F) <= p * (Cardinality(D) - 1)
  BY <1>1, <1>4 DEF IsPercentile
<1> HIDE DEF F, G
<1>6. IsFiniteSet(F) /\ IsFiniteSet(G)
  BY <1>3, FS_Subset
<1>7. Cardinality(G) <= Cardinality(F)
  BY <1>3, <1>6, FS_Subset
<1>8. Cardinality(G) \in Nat /\ Cardinality(F) \in Nat /\ Cardinality(D) \in Nat
  BY <1>6, FS_CardinalityType
<1> DEFINE b == p * (Cardinality(D) - 1)
<1>9. b \in Int
  BY <1>8
<1>10. 100 * Cardinality(G) > b /\ 100 * Cardinality(F) <= b
  BY <1>5
<1> HIDE DEF b
<1> QED
  BY <1>7, <1>8, <1>9, <1>10

\* The figures of a latency column.
Columns == {"min_ms", "sum_ms", "p50_ms", "p90_ms", "p95_ms", "p99_ms", "max_ms"}

\* No figure of samples that are nowhere larger is larger, although the two
\* columns are sorted apart.
LEMMA FiguresGrow ==
  ASSUME NEW D, IsFiniteSet(D), D # {}, NEW f \in [D -> Nat], NEW g \in [D -> Nat],
         \A r \in D : f[r] <= g[r], NEW a, NEW b, Describes(a, f), Describes(b, g)
  PROVE  \A k \in Columns : a[k] <= b[k]
<1>1. DOMAIN f = D /\ DOMAIN g = D /\ \A r \in D : f[r] \in Nat /\ g[r] \in Nat
  OBVIOUS
<1>2. /\ {a.min_ms, a.max_ms} \subseteq Range(f)
      /\ \A r \in D : a.min_ms <= f[r] /\ f[r] <= a.max_ms
      /\ IsPercentile(f, 50, a.p50_ms) /\ IsPercentile(f, 90, a.p90_ms)
      /\ IsPercentile(f, 95, a.p95_ms) /\ IsPercentile(f, 99, a.p99_ms)
  BY <1>1 DEF Describes
<1>3. /\ {b.min_ms, b.max_ms} \subseteq Range(g)
      /\ \A r \in D : b.min_ms <= g[r] /\ g[r] <= b.max_ms
      /\ IsPercentile(g, 50, b.p50_ms) /\ IsPercentile(g, 90, b.p90_ms)
      /\ IsPercentile(g, 95, b.p95_ms) /\ IsPercentile(g, 99, b.p99_ms)
  BY <1>1 DEF Describes
<1>4. a.sum_ms <= b.sum_ms
  <2>1. a.sum_ms = SumFunctionOnSet(f, D) /\ b.sum_ms = SumFunctionOnSet(g, D)
    BY <1>1 DEF Describes, SumFunction
  <2> QED
    BY <1>1, <2>1, SumGrows
<1>5. a.min_ms <= b.min_ms
  <2>1. PICK r \in D : g[r] = b.min_ms
    BY <1>1, <1>3 DEF Range
  <2>2. PICK q \in D : f[q] = a.min_ms
    BY <1>1, <1>2 DEF Range
  <2>3. a.min_ms <= f[r] /\ f[r] <= g[r] /\ f[q] \in Nat /\ f[r] \in Nat /\ g[r] \in Nat
    BY <1>1, <1>2
  <2> QED
    BY <2>1, <2>2, <2>3
<1>6. a.max_ms <= b.max_ms
  <2>1. PICK r \in D : f[r] = a.max_ms
    BY <1>1, <1>2 DEF Range
  <2>2. PICK q \in D : g[q] = b.max_ms
    BY <1>1, <1>3 DEF Range
  <2>3. g[r] <= b.max_ms /\ f[r] <= g[r] /\ f[r] \in Nat /\ g[q] \in Nat /\ g[r] \in Nat
    BY <1>1, <1>3
  <2> QED
    BY <2>1, <2>2, <2>3
<1>7. a.p50_ms <= b.p50_ms /\ a.p90_ms <= b.p90_ms
  BY <1>2, <1>3, PercentileGrows
<1>8. a.p95_ms <= b.p95_ms /\ a.p99_ms <= b.p99_ms
  BY <1>2, <1>3, PercentileGrows
<1> QED
  BY <1>4, <1>5, <1>6, <1>7, <1>8 DEF Columns
=============================================================================
