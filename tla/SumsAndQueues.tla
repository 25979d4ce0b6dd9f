--------------------------- MODULE SumsAndQueues ----------------------------
(***************************************************************************)
(* The general facts the proofs share.  About finite sets of numbers: the  *)
(* least and largest members; sums by the folds of the community modules,  *)
(* whose value does not depend on the order they add in; and collections   *)
(* that hold every value equally often.  About queues of one or two        *)
(* messages, as the SOCKS5 dialogue and the bench control protocol keep    *)
(* them: what Append, Head and Tail make of them.                          *)
(***************************************************************************)
EXTENDS Integers, Sequences, FiniteSetsExt, FiniteSetTheorems, WellFoundedInduction, TLAPS

\* A set of naturals has a least member.
LEMMA NatMin ==
  ASSUME NEW T \in SUBSET Nat, T # {}
  PROVE  \E x \in T : \A y \in T : x <= y
<1> DEFINE R == OpToRel(<, Nat)
<1>1. \A x \in Nat, y \in Nat : <<y, x>> \in R <=> y < x
  BY DEF OpToRel
<1>2. IsWellFoundedOn(R, Nat)
  BY NatLessThanWellFounded
<1> HIDE DEF R
<1>3. PICK x \in T : \A y \in T : ~(<<y, x>> \in R)
  BY <1>2, WFMin
<1>4. \A y \in T : ~(y < x)
  BY <1>1, <1>3
<1> QED
  BY <1>4

\* A finite set of integers has a largest member.
LEMMA IntMax ==
  ASSUME NEW T \in SUBSET Int, IsFiniteSet(T), T # {}
  PROVE  \E x \in T : \A y \in T : x >= y
<1> DEFINE Above(x) == {y \in T : y > x}
           K == {Cardinality(Above(x)) : x \in T}
<1>1. \A x \in T : Above(x) \in SUBSET T
  OBVIOUS
<1>2. \A x \in T : IsFiniteSet(Above(x)) /\ Cardinality(Above(x)) \in Nat
  <2> HIDE DEF Above
  <2> QED
    BY <1>1, FS_Subset, FS_CardinalityType
<1>3. K \in SUBSET Nat /\ K # {}
  <2> HIDE DEF Above
  <2> QED
    BY <1>2
<1>4. PICK k \in K : \A y \in K : k <= y
  BY <1>3, NatMin
<1>5. PICK x \in T : k = Cardinality(Above(x))
  BY <1>4
<1>6. ASSUME NEW y \in T, ~(x >= y) PROVE FALSE
  <2>0. x \in Int /\ y \in Int /\ y > x
    BY <1>6
  <2>1. Above(y) \in SUBSET Above(x) /\ y \in Above(x) /\ y \notin Above(y)
    <3>1. \A z \in T : z > y => z > x
      BY <2>0
    <3>2. ~(y > y)
      BY <2>0
    <3> QED
      BY <2>0, <3>1, <3>2, Zenon
  <2> HIDE DEF Above
  <2>2. /\ Cardinality(Above(y)) <= Cardinality(Above(x))
        /\ Cardinality(Above(x)) # Cardinality(Above(y))
    BY <1>2, <2>1, FS_Subset
  <2>3. Cardinality(Above(x)) <= Cardinality(Above(y))
    BY <1>4, <1>5
  <2> QED
    BY <1>2, <2>2, <2>3
<1> QED
  BY <1>6

\* A finite set of integers has a least member.
LEMMA IntMin ==
  ASSUME NEW T \in SUBSET Int, IsFiniteSet(T), T # {}
  PROVE  \E x \in T : \A y \in T : x <= y
<1> DEFINE Below(x) == {y \in T : y < x}
           K == {Cardinality(Below(x)) : x \in T}
<1>1. \A x \in T : Below(x) \in SUBSET T
  OBVIOUS
<1>2. \A x \in T : IsFiniteSet(Below(x)) /\ Cardinality(Below(x)) \in Nat
  <2> HIDE DEF Below
  <2> QED
    BY <1>1, FS_Subset, FS_CardinalityType
<1>3. K \in SUBSET Nat /\ K # {}
  <2> HIDE DEF Below
  <2> QED
    BY <1>2
<1>4. PICK k \in K : \A y \in K : k <= y
  BY <1>3, NatMin
<1>5. PICK x \in T : k = Cardinality(Below(x))
  BY <1>4
<1>6. ASSUME NEW y \in T, ~(x <= y) PROVE FALSE
  <2>0. x \in Int /\ y \in Int /\ y < x
    BY <1>6
  <2>1. Below(y) \in SUBSET Below(x) /\ y \in Below(x) /\ y \notin Below(y)
    <3>1. \A z \in T : z < y => z < x
      BY <2>0
    <3>2. ~(y < y)
      BY <2>0
    <3> QED
      BY <2>0, <3>1, <3>2, Zenon
  <2> HIDE DEF Below
  <2>2. /\ Cardinality(Below(y)) <= Cardinality(Below(x))
        /\ Cardinality(Below(x)) # Cardinality(Below(y))
    BY <1>2, <2>1, FS_Subset
  <2>3. Cardinality(Below(x)) <= Cardinality(Below(y))
    BY <1>4, <1>5
  <2> QED
    BY <1>2, <2>2, <2>3
<1> QED
  BY <1>6

\* Max and Min of a finite set of integers are what they are called.
LEMMA MaxMin ==
  ASSUME NEW T \in SUBSET Int, IsFiniteSet(T), T # {}
  PROVE  /\ Max(T) \in T /\ \A y \in T : Max(T) >= y
         /\ Min(T) \in T /\ \A y \in T : Min(T) <= y
<1>1. \E x \in T : \A y \in T : x >= y
  BY IntMax
<1>2. \E x \in T : \A y \in T : x <= y
  BY IntMin
<1> QED
  BY <1>1, <1>2 DEF Max, Min

\* A largest member is Max, and a least member is Min.
LEMMA MaxMinIs ==
  ASSUME NEW T \in SUBSET Int, NEW m \in T
  PROVE  /\ (\A y \in T : m >= y) => Max(T) = m
         /\ (\A y \in T : m <= y) => Min(T) = m
<1>1. ASSUME \A y \in T : m >= y PROVE Max(T) = m
  <2>1. Max(T) \in T /\ \A y \in T : Max(T) >= y
    BY <1>1 DEF Max
  <2> HIDE DEF Max
  <2>2. Max(T) >= m /\ m >= Max(T) /\ Max(T) \in Int /\ m \in Int
    BY <1>1, <2>1
  <2> QED
    BY <2>2
<1>2. ASSUME \A y \in T : m <= y PROVE Min(T) = m
  <2>1. Min(T) \in T /\ \A y \in T : Min(T) <= y
    BY <1>2 DEF Min
  <2>2. Min(T) <= m /\ m <= Min(T) /\ Min(T) \in Int /\ m \in Int
    BY <1>2, <2>1
  <2> QED
    BY <2>2
<1> QED
  BY <1>1, <1>2

\* The values of a function on a finite set are finitely many.
LEMMA ImageFinite ==
  ASSUME NEW S, IsFiniteSet(S), NEW f
  PROVE  IsFiniteSet({f[i] : i \in S})
<1> DEFINE T == {f[i] : i \in S}
           g == [i \in S |-> f[i]]
<1>1. g \in Surjection(S, T)
  BY DEF Surjection
<1> HIDE DEF T, g
<1>2. IsFiniteSet(T)
  BY <1>1, FS_Surjection
<1> QED
  BY <1>2 DEF T

-----------------------------------------------------------------------------
\* A set of subsets of a finite set has a member with none of its own proper
\* subsets in it.
LEMMA MinimalSubset ==
  ASSUME NEW S, IsFiniteSet(S), NEW B \in SUBSET (SUBSET S), B # {}
  PROVE  \E T \in B : \A U \in SUBSET T : U # T => U \notin B
<1> DEFINE K == {Cardinality(T) : T \in B}
<1>1. \A T \in B : IsFiniteSet(T) /\ Cardinality(T) \in Nat
  BY FS_Subset, FS_CardinalityType
<1>2. K \in SUBSET Nat /\ K # {}
  BY <1>1
<1>3. PICK k \in K : \A y \in K : k <= y
  BY <1>2, NatMin
<1>4. PICK T \in B : k = Cardinality(T)
  BY <1>3
<1>5. ASSUME NEW U \in SUBSET T, U # T, U \in B PROVE FALSE
  <2>1. Cardinality(U) <= Cardinality(T) /\ Cardinality(T) # Cardinality(U)
    BY <1>1, <1>5, FS_Subset
  <2>2. Cardinality(T) <= Cardinality(U)
    BY <1>3, <1>4, <1>5
  <2> QED
    BY <1>1, <1>5, <2>1, <2>2
<1> QED
  BY <1>5

\* The member a fold takes next, and the table of all partial sums of f that
\* the fold over S goes through.
Pick(s) == CHOOSE x \in s : TRUE
IsSum(g, f, S) ==
  g = [s \in SUBSET S |-> IF s = {} THEN 0 ELSE f[Pick(s)] + g[s \ {Pick(s)}]]

\* A set that is not empty has a next member.
LEMMA PickMember ==
  ASSUME NEW s, s # {}
  PROVE  Pick(s) \in s
BY DEF Pick

\* The fold is well defined over a finite set.
LEMMA SumExists ==
  ASSUME NEW S, IsFiniteSet(S), NEW f
  PROVE  \E g : IsSum(g, f, S)
<1> DEFINE Sub(n) == {s \in SUBSET S : Cardinality(s) <= n}
           Table(g, n) ==
             g = [s \in Sub(n) |-> IF s = {} THEN 0 ELSE f[Pick(s)] + g[s \ {Pick(s)}]]
           Bad == {n \in Nat : ~\E g : Table(g, n)}
<1>1. \A s \in SUBSET S : IsFiniteSet(s) /\ Cardinality(s) \in Nat
  BY FS_Subset, FS_CardinalityType
<1>2. ASSUME Bad # {} PROVE FALSE
  <2>1. PICK n \in Bad : \A y \in Bad : n <= y
    BY <1>2, NatMin
  <2>2. n \in Nat /\ ~\E g : Table(g, n)
    BY <2>1
  <2>3. CASE n = 0
    <3> DEFINE g == [s \in Sub(0) |-> 0]
    <3>1. \A s \in Sub(0) : s = {}
      BY <1>1, FS_EmptySet
    <3>2. Table(g, 0)
      BY <3>1, Zenon
    <3> QED
      BY <2>2, <2>3, <3>2
  <2>4. CASE n # 0
    <3>1. n - 1 \in Nat /\ n - 1 \notin Bad
      <4>1. n - 1 \in Nat /\ ~(n <= n - 1)
        BY <2>2, <2>4
      <4> QED
        BY <2>1, <4>1, Zenon
    <3>2. PICK h : Table(h, n - 1)
      BY <3>1, Zenon
    <3> DEFINE g == [s \in Sub(n) |-> IF s = {} THEN 0 ELSE f[Pick(s)] + h[s \ {Pick(s)}]]
    <3>3. Sub(n - 1) \in SUBSET Sub(n)
      BY <1>1, <2>2
    <3>4. \A s \in Sub(n) : s # {} => s \ {Pick(s)} \in Sub(n - 1)
      <4>1. ASSUME NEW s \in Sub(n), s # {} PROVE s \ {Pick(s)} \in Sub(n - 1)
        <5>1. Pick(s) \in s /\ IsFiniteSet(s) /\ s \in SUBSET S
          BY <1>1, <4>1, PickMember
        <5>2. Cardinality(s \ {Pick(s)}) = Cardinality(s) - 1
          BY <5>1, FS_RemoveElement
        <5>3. Cardinality(s) \in Nat /\ Cardinality(s) <= n
          BY <1>1
        <5>4. Cardinality(s \ {Pick(s)}) <= n - 1
          BY <5>2, <5>3, <2>2
        <5> QED
          BY <5>1, <5>4
      <4> QED
        BY <4>1, Zenon
    <3> HIDE DEF Sub
    <3>5. \A s \in Sub(n - 1) :
            h[s] = IF s = {} THEN 0 ELSE f[Pick(s)] + h[s \ {Pick(s)}]
      BY <3>2, Zenon
    <3>6. \A s \in Sub(n - 1) : g[s] = h[s]
      BY <3>3, <3>5
    <3>7. \A s \in Sub(n) : s # {} => g[s \ {Pick(s)}] = h[s \ {Pick(s)}]
      BY <3>4, <3>6, Zenon
    <3>8. Table(g, n)
      BY <3>7
    <3> QED
      BY <2>2, <3>8
  <2> QED
    BY <2>3, <2>4
<1>3. Cardinality(S) \in Nat /\ Cardinality(S) \notin Bad
  BY <1>2, FS_CardinalityType
<1>4. PICK g : Table(g, Cardinality(S))
  BY <1>3, Zenon
<1>5. Sub(Cardinality(S)) = SUBSET S
  BY FS_Subset
<1> QED
  BY <1>4, <1>5 DEF IsSum

\* The table's equation, set by set.
Unfolds(g, f, S) ==
  \A T \in SUBSET S :
    /\ T = {} => g[T] = 0
    /\ T # {} => Pick(T) \in T /\ g[T] = f[Pick(T)] + g[T \ {Pick(T)}]

\* A table of partial sums satisfies it.
LEMMA SumUnfolds ==
  ASSUME NEW S, NEW f, NEW g, IsSum(g, f, S)
  PROVE  Unfolds(g, f, S)
<1> SUFFICES ASSUME NEW T \in SUBSET S
             PROVE  /\ T = {} => g[T] = 0
                    /\ T # {} => Pick(T) \in T /\ g[T] = f[Pick(T)] + g[T \ {Pick(T)}]
  BY DEF Unfolds
<1>1. g[T] = IF T = {} THEN 0 ELSE f[Pick(T)] + g[T \ {Pick(T)}]
  BY Zenon DEF IsSum
<1> QED
  BY <1>1, PickMember

\* A sum of naturals is one.
LEMMA SumType ==
  ASSUME NEW S, IsFiniteSet(S), NEW f, NEW g, IsSum(g, f, S),
         \A i \in S : f[i] \in Nat, NEW T \in SUBSET S
  PROVE  g[T] \in Nat
<1>0. Unfolds(g, f, S)
  BY SumUnfolds
<1> DEFINE B == {U \in SUBSET S : g[U] \notin Nat}
<1>1. ASSUME B # {} PROVE FALSE
  <2>1. PICK U \in B : \A V \in SUBSET U : V # U => V \notin B
    BY <1>1, MinimalSubset
  <2>2. U \in SUBSET S /\ g[U] \notin Nat
    BY <2>1
  <2>3. U # {} /\ Pick(U) \in U /\ g[U] = f[Pick(U)] + g[U \ {Pick(U)}]
    <3>1. /\ U = {} => g[U] = 0
          /\ U # {} => Pick(U) \in U /\ g[U] = f[Pick(U)] + g[U \ {Pick(U)}]
      BY <1>0, <2>2, Zenon DEF Unfolds
    <3> QED
      BY <2>2, <3>1
  <2>4. g[U \ {Pick(U)}] \in Nat
    BY <2>1, <2>2, <2>3
  <2>5. f[Pick(U)] \in Nat
    BY <2>2, <2>3
  <2> QED
    BY <2>2, <2>3, <2>4, <2>5
<1> QED
  BY <1>1

\* The sum does not depend on which member is taken first.
LEMMA SumRemove ==
  ASSUME NEW S, IsFiniteSet(S), NEW f, NEW g, IsSum(g, f, S),
         \A i \in S : f[i] \in Nat, NEW T \in SUBSET S, NEW a \in T
  PROVE  g[T] = g[T \ {a}] + f[a]
<1>0. Unfolds(g, f, S)
  BY SumUnfolds
<1> DEFINE B == {U \in SUBSET S : \E b \in U : g[U] # g[U \ {b}] + f[b]}
<1>1. ASSUME B # {} PROVE FALSE
  <2>1. PICK U \in B : \A V \in SUBSET U : V # U => V \notin B
    <3>1. B \in SUBSET (SUBSET S)
      OBVIOUS
    <3> HIDE DEF B
    <3> QED
      BY <1>1, <3>1, MinimalSubset
  <2>2. U \in SUBSET S
    BY <2>1
  <2>3. PICK b \in U : g[U] # g[U \ {b}] + f[b]
    BY <2>1
  <2> DEFINE x == Pick(U)
  <2>4. x \in U /\ g[U] = f[x] + g[U \ {x}]
    <3>1. U # {} => Pick(U) \in U /\ g[U] = f[Pick(U)] + g[U \ {Pick(U)}]
      BY <1>0, <2>2, Zenon DEF Unfolds
    <3> QED
      BY <2>3, <3>1
  <2> HIDE DEF x
  <2>5. f[x] \in Nat /\ f[b] \in Nat /\ g[U \ {x}] \in Nat
    BY <2>2, <2>3, <2>4, SumType
  <2>6. x # b
    <3>1. f[x] + g[U \ {x}] = g[U \ {x}] + f[x]
      BY <2>5
    <3> QED
      BY <2>3, <2>4, <3>1
  <2>7. U \ {x} \notin B /\ U \ {b} \notin B
    BY <2>1, <2>3, <2>4
  <2>8. g[U \ {x}] = g[(U \ {x}) \ {b}] + f[b]
    BY <2>2, <2>3, <2>6, <2>7
  <2>9. g[U \ {b}] = g[(U \ {b}) \ {x}] + f[x]
    BY <2>2, <2>4, <2>6, <2>7
  <2>10. (U \ {b}) \ {x} = (U \ {x}) \ {b} /\ (U \ {x}) \ {b} \in SUBSET S
    BY <2>2
  <2> DEFINE r == g[(U \ {x}) \ {b}]
  <2>11. r \in Nat
    BY <2>10, SumType
  <2>12. g[U] = f[x] + (r + f[b]) /\ g[U \ {b}] = r + f[x]
    BY <2>4, <2>8, <2>9, <2>10
  <2> HIDE DEF r
  <2>13. f[x] + (r + f[b]) = (r + f[x]) + f[b]
    BY <2>5, <2>11
  <2> QED
    BY <2>3, <2>12, <2>13
<1> QED
  BY <1>1

\* Two tables agree on a set that both cover when the functions do.
LEMMA SumAgree ==
  ASSUME NEW S, IsFiniteSet(S), NEW f, NEW g, IsSum(g, f, S),
         NEW R, NEW e, NEW h, IsSum(h, e, R),
         NEW T \in SUBSET (S \cap R), \A i \in T : f[i] = e[i]
  PROVE  g[T] = h[T]
<1>0. Unfolds(g, f, S) /\ Unfolds(h, e, R)
  BY SumUnfolds
<1> DEFINE B == {U \in SUBSET (S \cap R) : (\A i \in U : f[i] = e[i]) /\ g[U] # h[U]}
<1>1. ASSUME B # {} PROVE FALSE
  <2>1. B \in SUBSET (SUBSET S)
    OBVIOUS
  <2>2. PICK U \in B : \A V \in SUBSET U : V # U => V \notin B
    <3> HIDE DEF B
    <3> QED
      BY <1>1, <2>1, MinimalSubset
  <2>3. U \in SUBSET S /\ U \in SUBSET R /\ (\A i \in U : f[i] = e[i]) /\ g[U] # h[U]
    BY <2>2
  <2>4. U # {} /\ Pick(U) \in U
    <3>1. (U = {} => g[U] = 0) /\ (U = {} => h[U] = 0)
      BY <1>0, <2>3, Zenon DEF Unfolds
    <3> QED
      BY <2>3, <3>1, PickMember
  <2>5. g[U] = f[Pick(U)] + g[U \ {Pick(U)}] /\ h[U] = e[Pick(U)] + h[U \ {Pick(U)}]
    BY <1>0, <2>3, <2>4, Zenon DEF Unfolds
  <2>6. g[U \ {Pick(U)}] = h[U \ {Pick(U)}]
    BY <2>2, <2>3, <2>4
  <2> QED
    BY <2>3, <2>4, <2>5, <2>6
<1> QED
  BY <1>1

\* The fold reads its sum off the table.
LEMMA SumOnSet ==
  ASSUME NEW S, IsFiniteSet(S), NEW f
  PROVE  \E g : IsSum(g, f, S) /\ SumFunctionOnSet(f, S) = g[S]
<1> DEFINE g == CHOOSE g : IsSum(g, f, S)
<1>1. IsSum(g, f, S)
  BY SumExists
<1>2. SumFunctionOnSet(f, S) = g[S]
  BY DEF SumFunctionOnSet, FoldFunctionOnSet, MapThenFoldSet, IsSum, Pick
<1> QED
  BY <1>1, <1>2

\* What a sum over a finite set is: zero over nothing, and over any other set
\* the sum without one member, whichever, plus that member's value; and it
\* looks at the function on the set only.
THEOREM SumFacts ==
  ASSUME NEW S, IsFiniteSet(S), NEW f, \A i \in S : f[i] \in Nat
  PROVE  /\ SumFunctionOnSet(f, S) \in Nat
         /\ S = {} => SumFunctionOnSet(f, S) = 0
         /\ \A a \in S : SumFunctionOnSet(f, S) = SumFunctionOnSet(f, S \ {a}) + f[a]
         /\ \A e : (\A i \in S : e[i] = f[i]) => SumFunctionOnSet(e, S) = SumFunctionOnSet(f, S)
<1>1. PICK g : IsSum(g, f, S) /\ SumFunctionOnSet(f, S) = g[S]
  BY SumOnSet
<1>2. SumFunctionOnSet(f, S) \in Nat
  BY <1>1, SumType
<1>3. S = {} => SumFunctionOnSet(f, S) = 0
  BY <1>1, SumUnfolds DEF Unfolds
<1>4. ASSUME NEW a \in S
      PROVE  SumFunctionOnSet(f, S) = SumFunctionOnSet(f, S \ {a}) + f[a]
  <2> DEFINE R == S \ {a}
  <2>1. IsFiniteSet(R) /\ R \in SUBSET (R \cap S)
    BY FS_RemoveElement
  <2> HIDE DEF R
  <2>2. PICK h : IsSum(h, f, R) /\ SumFunctionOnSet(f, R) = h[R]
    BY <2>1, SumOnSet
  <2>3. h[R] = g[R]
    BY <1>1, <2>1, <2>2, SumAgree
  <2>4. g[S] = g[S \ {a}] + f[a]
    BY <1>1, SumRemove
  <2> QED
    BY <1>1, <2>2, <2>3, <2>4 DEF R
<1>5. ASSUME NEW e, \A i \in S : e[i] = f[i]
      PROVE  SumFunctionOnSet(e, S) = SumFunctionOnSet(f, S)
  <2>1. PICK h : IsSum(h, e, S) /\ SumFunctionOnSet(e, S) = h[S]
    BY SumOnSet
  <2>2. S \in SUBSET (S \cap S)
    OBVIOUS
  <2>3. h[S] = g[S]
    BY <1>1, <1>5, <2>1, <2>2, SumAgree
  <2> QED
    BY <1>1, <2>1, <2>3
<1> QED
  BY <1>2, <1>3, <1>4, <1>5

-----------------------------------------------------------------------------
\* Collections by value.  How often f has the value v on D.
Level(f, D, v) == Cardinality({i \in D : f[i] = v})

\* f on D and g on E hold every value equally often.
SameLevels(f, D, g, E) == \A v \in Nat : Level(f, D, v) = Level(g, E, v)

\* How many members of D have a value of f in V.
Inside(f, D, V) == Cardinality({i \in D : f[i] \in V})

\* A member is counted at its own value only.
LEMMA LevelRemove ==
  ASSUME NEW f, NEW D, IsFiniteSet(D), NEW a \in D, NEW v
  PROVE  Level(f, D \ {a}, v) = IF f[a] = v THEN Level(f, D, v) - 1 ELSE Level(f, D, v)
<1> DEFINE A == {i \in D : f[i] = v}
           B == {i \in D \ {a} : f[i] = v}
<1>1. IsFiniteSet(A)
  BY FS_Subset
<1>2. CASE f[a] = v
  <2>1. B = A \ {a} /\ a \in A
    BY <1>2
  <2> HIDE DEF A, B
  <2>2. Cardinality(B) = Cardinality(A) - 1
    BY <1>1, <2>1, FS_RemoveElement
  <2> QED
    BY <1>2, <2>2 DEF Level, A, B
<1>3. CASE f[a] # v
  <2>1. B = A
    BY <1>3
  <2> QED
    BY <1>3, <2>1 DEF Level
<1> QED
  BY <1>2, <1>3

\* Where a value occurs is where its level is not zero.
LEMMA LevelOccurs ==
  ASSUME NEW f, NEW D, IsFiniteSet(D), NEW v
  PROVE  Level(f, D, v) \in Nat /\ (Level(f, D, v) # 0 <=> \E i \in D : f[i] = v)
<1> DEFINE A == {i \in D : f[i] = v}
<1>1. IsFiniteSet(A)
  BY FS_Subset
<1>2. A # {} <=> \E i \in D : f[i] = v
  OBVIOUS
<1> HIDE DEF A
<1>3. Cardinality(A) \in Nat /\ (Cardinality(A) = 0 <=> A = {})
  BY <1>1, FS_EmptySet, FS_CardinalityType
<1> QED
  BY <1>2, <1>3 DEF Level, A

\* A member of one collection has its counterpart in the other; without both,
\* the two still hold every value equally often.
LEMMA LevelsStep ==
  ASSUME NEW f, NEW D, IsFiniteSet(D), \A i \in D : f[i] \in Nat,
         NEW g, NEW E, IsFiniteSet(E), SameLevels(f, D, g, E), NEW a \in D
  PROVE  \E b \in E : g[b] = f[a] /\ SameLevels(f, D \ {a}, g, E \ {b})
<1>1. f[a] \in Nat /\ Level(f, D, f[a]) # 0
  BY LevelOccurs
<1>2. Level(g, E, f[a]) # 0
  BY <1>1 DEF SameLevels
<1>3. PICK b \in E : g[b] = f[a]
  BY <1>2, LevelOccurs
<1>4. ASSUME NEW v \in Nat PROVE Level(f, D \ {a}, v) = Level(g, E \ {b}, v)
  <2>1. Level(f, D, v) = Level(g, E, v)
    BY DEF SameLevels
  <2>2. Level(f, D \ {a}, v) = IF f[a] = v THEN Level(f, D, v) - 1 ELSE Level(f, D, v)
    BY LevelRemove
  <2>3. Level(g, E \ {b}, v) = IF g[b] = v THEN Level(g, E, v) - 1 ELSE Level(g, E, v)
    BY LevelRemove
  <2> QED
    BY <1>3, <2>1, <2>2, <2>3
<1> QED
  BY <1>3, <1>4 DEF SameLevels

\* Nothing has the values of nothing only.
LEMMA LevelsNothing ==
  ASSUME NEW f, NEW g, NEW E, IsFiniteSet(E), \A j \in E : g[j] \in Nat,
         SameLevels(f, {}, g, E)
  PROVE  E = {}
<1>1. ASSUME NEW j \in E PROVE FALSE
  <2>1. g[j] \in Nat /\ Level(g, E, g[j]) # 0
    BY LevelOccurs
  <2>2. Level(f, {}, g[j]) # 0
    BY <2>1 DEF SameLevels
  <2>3. IsFiniteSet({})
    BY FS_EmptySet
  <2> QED
    BY <2>2, <2>3, LevelOccurs
<1> QED
  BY <1>1

\* Two collections that hold every value equally often have the same sum.
LEMMA SameSum ==
  ASSUME NEW f, NEW D, IsFiniteSet(D), \A i \in D : f[i] \in Nat,
         NEW g, NEW E, IsFiniteSet(E), \A j \in E : g[j] \in Nat,
         SameLevels(f, D, g, E)
  PROVE  SumFunctionOnSet(f, D) = SumFunctionOnSet(g, E)
<1> DEFINE Off(T, U) == SameLevels(f, T, g, U) /\ SumFunctionOnSet(f, T) # SumFunctionOnSet(g, U)
           B == {T \in SUBSET D : \E U \in SUBSET E : Off(T, U)}
<1>1. ASSUME B # {} PROVE FALSE
  <2>1. PICK T \in B : \A R \in SUBSET T : R # T => R \notin B
    <3>1. B \in SUBSET (SUBSET D)
      OBVIOUS
    <3> HIDE DEF B
    <3> QED
      BY <1>1, <3>1, MinimalSubset
  <2>2. PICK U \in SUBSET E : Off(T, U)
    BY <2>1
  <2>3. /\ T \in SUBSET D /\ IsFiniteSet(T) /\ IsFiniteSet(U)
        /\ \A i \in T : f[i] \in Nat
        /\ \A j \in U : g[j] \in Nat
    BY <2>1, <2>2, FS_Subset
  <2>4. CASE T = {}
    <3>1. U = {}
      BY <2>2, <2>3, <2>4, LevelsNothing
    <3>2. SumFunctionOnSet(f, T) = 0 /\ SumFunctionOnSet(g, U) = 0
      BY <2>3, <2>4, <3>1, SumFacts
    <3> QED
      BY <2>2, <3>2
  <2>5. CASE T # {}
    <3>1. PICK a \in T : TRUE
      BY <2>5
    <3>2. PICK b \in U : g[b] = f[a] /\ SameLevels(f, T \ {a}, g, U \ {b})
      BY <2>2, <2>3, <3>1, LevelsStep
    <3>3. T \ {a} \notin B
      BY <2>1, <3>1
    <3>4. SumFunctionOnSet(f, T \ {a}) = SumFunctionOnSet(g, U \ {b})
      BY <2>2, <2>3, <3>2, <3>3
    <3>5. SumFunctionOnSet(f, T) = SumFunctionOnSet(f, T \ {a}) + f[a]
      BY <2>3, <3>1, SumFacts
    <3>6. SumFunctionOnSet(g, U) = SumFunctionOnSet(g, U \ {b}) + g[b]
      BY <2>3, <3>2, SumFacts
    <3> QED
      BY <2>2, <3>2, <3>4, <3>5, <3>6
  <2> QED
    BY <2>4, <2>5
<1> QED
  BY <1>1

\* They have equally many members with a value in V, whatever V.
LEMMA SameCount ==
  ASSUME NEW f, NEW D, IsFiniteSet(D), \A i \in D : f[i] \in Nat,
         NEW g, NEW E, IsFiniteSet(E), \A j \in E : g[j] \in Nat,
         SameLevels(f, D, g, E), NEW V
  PROVE  Inside(f, D, V) = Inside(g, E, V)
<1> DEFINE In(h, S) == {i \in S : h[i] \in V}
           Off(T, U) == SameLevels(f, T, g, U) /\ Cardinality(In(f, T)) # Cardinality(In(g, U))
           B == {T \in SUBSET D : \E U \in SUBSET E : Off(T, U)}
<1>1. ASSUME NEW h, NEW S, IsFiniteSet(S), NEW a \in S
      PROVE  /\ Cardinality(In(h, S)) \in Nat
             /\ Cardinality(In(h, S \ {a})) =
                  IF h[a] \in V THEN Cardinality(In(h, S)) - 1 ELSE Cardinality(In(h, S))
  <2>1. IsFiniteSet(In(h, S))
    BY <1>1, FS_Subset
  <2>2. h[a] \in V => a \in In(h, S) /\ In(h, S \ {a}) = In(h, S) \ {a}
    OBVIOUS
  <2>3. h[a] \notin V => In(h, S \ {a}) = In(h, S)
    OBVIOUS
  <2> HIDE DEF In
  <2>4. Cardinality(In(h, S)) \in Nat
    BY <2>1, FS_CardinalityType
  <2>5. h[a] \in V => Cardinality(In(h, S \ {a})) = Cardinality(In(h, S)) - 1
    BY <2>1, <2>2, FS_RemoveElement
  <2> QED
    BY <2>3, <2>4, <2>5
<1>2. ASSUME B # {} PROVE FALSE
  <2>1. PICK T \in B : \A R \in SUBSET T : R # T => R \notin B
    <3>1. B \in SUBSET (SUBSET D)
      OBVIOUS
    <3> HIDE DEF B
    <3> QED
      BY <1>2, <3>1, MinimalSubset
  <2>2. PICK U \in SUBSET E : Off(T, U)
    BY <2>1
  <2>3. /\ T \in SUBSET D /\ IsFiniteSet(T) /\ IsFiniteSet(U)
        /\ \A i \in T : f[i] \in Nat
        /\ \A j \in U : g[j] \in Nat
    BY <2>1, <2>2, FS_Subset
  <2>4. CASE T = {}
    <3>1. U = {}
      BY <2>2, <2>3, <2>4, LevelsNothing
    <3>2. In(f, T) = {} /\ In(g, U) = {}
      BY <2>4, <3>1
    <3> QED
      BY <2>2, <3>2
  <2>5. CASE T # {}
    <3>1. PICK a \in T : TRUE
      BY <2>5
    <3>2. PICK b \in U : g[b] = f[a] /\ SameLevels(f, T \ {a}, g, U \ {b})
      BY <2>2, <2>3, <3>1, LevelsStep
    <3>3. T \ {a} \notin B
      BY <2>1, <3>1
    <3>4. Cardinality(In(f, T \ {a})) = Cardinality(In(g, U \ {b}))
      <4>1. ~Off(T \ {a}, U \ {b})
        <5> HIDE DEF Off
        <5> QED
          BY <2>2, <2>3, <3>3
      <4> QED
        BY <3>2, <4>1
    <3> HIDE DEF In
    <3>5. /\ Cardinality(In(f, T)) \in Nat
          /\ Cardinality(In(f, T \ {a})) =
               IF f[a] \in V THEN Cardinality(In(f, T)) - 1 ELSE Cardinality(In(f, T))
      BY <1>1, <2>3, <3>1
    <3>6. /\ Cardinality(In(g, U)) \in Nat
          /\ Cardinality(In(g, U \ {b})) =
               IF g[b] \in V THEN Cardinality(In(g, U)) - 1 ELSE Cardinality(In(g, U))
      BY <1>1, <2>3, <3>2
    <3>7. Cardinality(In(f, T)) # Cardinality(In(g, U))
      BY <2>2
    <3> QED
      BY <3>2, <3>4, <3>5, <3>6, <3>7
  <2> QED
    BY <2>4, <2>5
<1> QED
  BY <1>2 DEF Inside

\* A sum does not shrink when no value does.
LEMMA SumGrows ==
  ASSUME NEW f, NEW g, NEW D, IsFiniteSet(D),
         \A i \in D : f[i] \in Nat /\ g[i] \in Nat /\ f[i] <= g[i]
  PROVE  SumFunctionOnSet(f, D) <= SumFunctionOnSet(g, D)
<1> DEFINE B == {T \in SUBSET D : ~(SumFunctionOnSet(f, T) <= SumFunctionOnSet(g, T))}
<1>1. ASSUME B # {} PROVE FALSE
  <2>1. PICK T \in B : \A R \in SUBSET T : R # T => R \notin B
    <3>1. B \in SUBSET (SUBSET D)
      OBVIOUS
    <3> HIDE DEF B
    <3> QED
      BY <1>1, <3>1, MinimalSubset
  <2>2. /\ T \in SUBSET D /\ IsFiniteSet(T) /\ ~(SumFunctionOnSet(f, T) <= SumFunctionOnSet(g, T))
        /\ \A i \in T : f[i] \in Nat /\ g[i] \in Nat /\ f[i] <= g[i]
    BY <2>1, FS_Subset
  <2>3. T # {}
    BY <2>2, SumFacts
  <2>4. PICK a \in T : TRUE
    BY <2>3
  <2>5. T \ {a} \notin B /\ IsFiniteSet(T \ {a})
    BY <2>1, <2>2, <2>4, FS_RemoveElement
  <2>6. SumFunctionOnSet(f, T \ {a}) <= SumFunctionOnSet(g, T \ {a})
    BY <2>2, <2>5
  <2>7. /\ SumFunctionOnSet(f, T) = SumFunctionOnSet(f, T \ {a}) + f[a]
        /\ SumFunctionOnSet(g, T) = SumFunctionOnSet(g, T \ {a}) + g[a]
    BY <2>2, <2>4, SumFacts
  <2>8. SumFunctionOnSet(f, T \ {a}) \in Nat /\ SumFunctionOnSet(g, T \ {a}) \in Nat
    BY <2>2, <2>5, SumFacts
  <2> QED
    BY <2>2, <2>4, <2>6, <2>7, <2>8
<1> QED
  BY <1>1

-----------------------------------------------------------------------------
\* What is behind the first of two messages.
LEMMA TailOfPair == ASSUME NEW a, NEW b PROVE Tail(<<a, b>>) = <<b>>
<1>1. <<a, b>> \in Seq({a, b}) /\ <<b>> \in Seq({a, b}) /\ Len(<<a, b>>) = 2
  OBVIOUS
<1>2. Len(Tail(<<a, b>>)) = 1 /\ Tail(<<a, b>>) \in Seq({a, b})
  BY <1>1
<1>3. Tail(<<a, b>>)[1] = b
  BY <1>1
<1> QED
  BY <1>1, <1>2, <1>3

\* A message behind none.
LEMMA AppendFirst == ASSUME NEW a PROVE Append(<<>>, a) = <<a>>
OBVIOUS

\* A message behind another.
LEMMA AppendSecond == ASSUME NEW a, NEW b PROVE Append(<<a>>, b) = <<a, b>>
<1>1. Append(<<a>>, b) \in Seq({a, b}) /\ <<a, b>> \in Seq({a, b})
  OBVIOUS
<1>2. Len(Append(<<a>>, b)) = 2 /\ Len(<<a, b>>) = 2
  OBVIOUS
<1>3. Append(<<a>>, b)[1] = a /\ Append(<<a>>, b)[2] = b
  OBVIOUS
<1>4. <<a, b>>[1] = a /\ <<a, b>>[2] = b
  OBVIOUS
<1> DEFINE s == Append(<<a>>, b)
           t == <<a, b>>
<1>5. s \in Seq({a, b}) /\ t \in Seq({a, b}) /\ Len(s) = 2 /\ Len(t) = 2
        /\ s[1] = t[1] /\ s[2] = t[2]
  BY <1>1, <1>2, <1>3, <1>4
<1> HIDE DEF s, t
<1>6. \A i \in 1..2 : s[i] = t[i]
  BY <1>5
<1>7. s = t
  BY <1>5, <1>6
<1> QED
  BY <1>7 DEF s, t

\* The one message of a queue.
LEMMA OfOne == ASSUME NEW a PROVE Head(<<a>>) = a /\ Tail(<<a>>) = <<>> /\ <<a>> # <<>>
OBVIOUS

\* The first of two messages.
LEMMA HeadOfPair == ASSUME NEW a, NEW b PROVE Head(<<a, b>>) = a /\ <<a, b>> # <<>>
OBVIOUS

\* A queue behind nothing, or with nothing behind it.
LEMMA ConcatNothing ==
  ASSUME NEW S, NEW s \in Seq(S)
  PROVE  s \o <<>> = s /\ <<>> \o s = s
<1>1. /\ s \o <<>> \in Seq(S) /\ Len(s \o <<>>) = Len(s)
      /\ \A i \in 1..Len(s) : (s \o <<>>)[i] = s[i]
  OBVIOUS
<1>2. /\ <<>> \o s \in Seq(S) /\ Len(<<>> \o s) = Len(s)
      /\ \A i \in 1..Len(s) : (<<>> \o s)[i] = s[i]
  OBVIOUS
<1>3. \A t \in Seq(S) : Len(t) = Len(s) /\ (\A i \in 1..Len(s) : t[i] = s[i]) => t = s
  OBVIOUS
<1> QED
  BY <1>1, <1>2, <1>3

\* One message behind one other.
LEMMA ConcatOnes == ASSUME NEW a, NEW b PROVE <<a>> \o <<b>> = <<a, b>>
<1> DEFINE s == <<a>> \o <<b>>
           t == <<a, b>>
<1>1. /\ s \in Seq({a, b}) /\ Len(s) = 2 /\ s[1] = a /\ s[2] = b
      /\ t \in Seq({a, b}) /\ Len(t) = 2 /\ t[1] = a /\ t[2] = b
  OBVIOUS
<1> HIDE DEF s, t
<1>2. \A i \in 1..2 : s[i] = t[i]
  BY <1>1
<1>3. s = t
  BY <1>1, <1>2
<1> QED
  BY <1>3 DEF s, t
=============================================================================
