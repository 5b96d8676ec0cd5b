---------------------------- MODULE OrdersProofs ----------------------------
(***************************************************************************)
(* What `Ascending' is, for every finite set of numbers, the extremes of   *)
(* sets of numbers, and what the operators of module Lists make of lists:  *)
(* which entries are taken out of one, in which order and how often.       *)
(***************************************************************************)
EXTENDS Lists, FiniteSetsExt, FiniteSetTheorems, SequenceTheorems, TLAPS

\* A number has fewer below it than the set has.
LEMMA BelowFinite ==
  ASSUME NEW S \in SUBSET Nat, IsFiniteSet(S), NEW i \in S
  PROVE  /\ IsFiniteSet(Below(S, i)) /\ Cardinality(Below(S, i)) \in Nat
         /\ Cardinality(Below(S, i)) < Cardinality(S)
<1>1. Below(S, i) \in SUBSET S /\ i \notin Below(S, i)
  BY DEF Below
<1>2. /\ IsFiniteSet(Below(S, i)) /\ Cardinality(Below(S, i)) <= Cardinality(S)
      /\ Cardinality(Below(S, i)) = Cardinality(S) => S = Below(S, i)
  BY <1>1, FS_Subset
<1>3. Cardinality(Below(S, i)) \in Nat /\ Cardinality(S) \in Nat
  BY <1>2, FS_CardinalityType
<1> QED BY <1>1, <1>2, <1>3

\* A larger number has a higher rank.
LEMMA RankGrows ==
  ASSUME NEW S \in SUBSET Nat, IsFiniteSet(S), NEW i \in S, NEW j \in S, i < j
  PROVE  Cardinality(Below(S, i)) < Cardinality(Below(S, j))
<1>1. /\ IsFiniteSet(Below(S, j)) /\ Cardinality(Below(S, j)) \in Nat
      /\ Cardinality(Below(S, i)) \in Nat
  BY BelowFinite
<1>2. Below(S, i) \in SUBSET Below(S, j) /\ i \in Below(S, j) /\ i \notin Below(S, i)
  <2>1. i \in Nat /\ j \in Nat /\ \A x \in S : x \in Nat
    OBVIOUS
  <2>2. \A x \in S : x < i => x < j
    BY <2>1
  <2>3. ~(i < i)
    BY <2>1
  <2>4. Below(S, i) \in SUBSET Below(S, j)
    BY <2>2 DEF Below
  <2>5. i \in Below(S, j) /\ i \notin Below(S, i)
    BY <2>3 DEF Below
  <2> QED BY <2>4, <2>5
<1>3. /\ Cardinality(Below(S, i)) <= Cardinality(Below(S, j))
      /\ Cardinality(Below(S, i)) = Cardinality(Below(S, j)) => Below(S, j) = Below(S, i)
  BY <1>1, <1>2, FS_Subset
<1> QED BY <1>1, <1>2, <1>3

\* Every rank below the cardinality is taken: the ranks differ, so that there
\* are as many of them as there are numbers.
LEMMA RanksTaken ==
  ASSUME NEW S \in SUBSET Nat, IsFiniteSet(S), NEW k \in 1 .. Cardinality(S)
  PROVE  \E i \in S : Cardinality(Below(S, i)) = k - 1
<1> DEFINE n == Cardinality(S)
           T == 0 .. (n - 1)
           rank == [i \in S |-> Cardinality(Below(S, i))]
<1>1. n \in Nat
  BY FS_CardinalityType
<1>2. IsFiniteSet(T) /\ Cardinality(T) = n
  <2>1. PICK m \in Nat : m = n
    BY <1>1
  <2>2. 0 \in Int /\ m - 1 \in Int
    OBVIOUS
  <2>3. /\ IsFiniteSet(0 .. (m - 1))
        /\ Cardinality(0 .. (m - 1)) = IF 0 > m - 1 THEN 0 ELSE (m - 1) - 0 + 1
    BY ONLY <2>2, FS_Interval
  <2>4. (IF 0 > m - 1 THEN 0 ELSE (m - 1) - 0 + 1) = m
    OBVIOUS
  <2> QED BY <2>1, <2>3, <2>4
<1>3. \A i \in S : Cardinality(Below(S, i)) \in T
  BY <1>1, BelowFinite
<1>4. \A i, j \in S : Cardinality(Below(S, i)) = Cardinality(Below(S, j)) => i = j
  <2> SUFFICES ASSUME NEW i \in S, NEW j \in S, i # j
               PROVE  Cardinality(Below(S, i)) # Cardinality(Below(S, j))
    OBVIOUS
  <2>1. i \in Nat /\ j \in Nat /\ Cardinality(Below(S, i)) \in Nat /\ Cardinality(Below(S, j)) \in Nat
    BY BelowFinite
  <2>2. CASE i < j
    BY <2>1, <2>2, RankGrows
  <2>3. CASE j < i
    BY <2>1, <2>3, RankGrows
  <2> QED BY <2>1, <2>2, <2>3
<1>5. rank \in Injection(S, T)
  BY <1>3, <1>4 DEF Injection, IsInjective
<1>6. rank \in Surjection(S, T)
  <2> HIDE DEF rank, T
  <2> QED BY <1>2, <1>5, FS_Injection
<1>7. k - 1 \in T
  BY <1>1
<1>8. \E i \in S : rank[i] = k - 1
  <2> HIDE DEF rank, T
  <2> QED BY <1>6, <1>7 DEF Surjection
<1> QED BY <1>8

\* All numbers of the set, each once, from the smallest to the largest.
LEMMA AscendingList ==
  ASSUME NEW S \in SUBSET Nat, IsFiniteSet(S)
  PROVE  /\ Ascending(S) \in Seq(S)
         /\ Cardinality(S) \in Nat /\ Len(Ascending(S)) = Cardinality(S)
         /\ DOMAIN Ascending(S) = 1 .. Cardinality(S)
         /\ \A i, j \in 1 .. Cardinality(S) : i < j => Ascending(S)[i] < Ascending(S)[j]
         /\ \A x \in S : \E k \in 1 .. Cardinality(S) : Ascending(S)[k] = x
<1> DEFINE n == Cardinality(S)
           A == Ascending(S)
<1>1. n \in Nat
  BY FS_CardinalityType
<1>2. A = [k \in 1 .. n |-> CHOOSE i \in S : Cardinality(Below(S, i)) = k - 1]
  BY DEF Ascending
<1>3. \A k \in 1 .. n : A[k] \in S /\ Cardinality(Below(S, A[k])) = k - 1
  BY <1>2, RanksTaken
<1> HIDE DEF A
<1>4. A \in Seq(S) /\ Len(A) = n /\ DOMAIN A = 1 .. n
  <2>1. A \in [1 .. n -> S]
    BY <1>2, <1>3
  <2> QED BY <1>1, <2>1
<1>5. ASSUME NEW i \in 1 .. n, NEW j \in 1 .. n, i < j PROVE A[i] < A[j]
  <2>1. A[i] \in Nat /\ A[j] \in Nat /\ A[i] \in S /\ A[j] \in S
    BY <1>3
  <2>2. CASE A[j] < A[i]
    <3>1. j - 1 < i - 1
      BY <1>3, <2>1, <2>2, RankGrows
    <3> QED BY <1>1, <1>5, <3>1
  <2>3. CASE A[j] = A[i]
    <3>1. j - 1 = i - 1
      BY <1>3, <2>3
    <3> QED BY <1>1, <1>5, <3>1
  <2> QED BY <2>1, <2>2, <2>3
<1>6. ASSUME NEW x \in S PROVE \E k \in 1 .. n : A[k] = x
  <2>1. PICK r \in Nat : r = Cardinality(Below(S, x)) /\ r < n
    BY BelowFinite
  <2>2. r + 1 \in 1 .. n
    BY <1>1, <2>1
  <2>3. A[r + 1] \in S /\ Cardinality(Below(S, A[r + 1])) = r
    BY <1>3, <2>1, <2>2
  <2>4. A[r + 1] \in Nat /\ x \in Nat
    BY <2>3
  <2>5. ~(A[r + 1] < x) /\ ~(x < A[r + 1])
    BY <2>1, <2>3, <2>4, RankGrows
  <2> QED BY <2>2, <2>4, <2>5
<1> QED BY <1>1, <1>4, <1>5, <1>6 DEF A

----------------------------------------------------------------------------

\* Natural numbers have a smallest one.
LEMMA LeastNumber ==
  ASSUME NEW T \in SUBSET Nat, T # {}
  PROVE  \E m \in T : \A k \in T : m <= k
<1> DEFINE R == OpToRel(<, Nat)
<1>1. IsWellFoundedOn(R, Nat)
  BY NatLessThanWellFounded
<1>2. \A x, y \in Nat : x < y => <<x, y>> \in R
  BY DEF OpToRel
<1> HIDE DEF R
<1>3. PICK m \in T : \A y \in T : ~(<<y, m>> \in R)
  BY <1>1, WFMin
<1>4. ASSUME NEW k \in T PROVE m <= k
  <2>1. k \in Nat /\ m \in Nat
    OBVIOUS
  <2>2. ~(k < m)
    BY <1>2, <1>3, <2>1
  <2> QED BY <2>1, <2>2
<1> QED BY <1>4

LEMMA MinOfNumbers ==
  ASSUME NEW T \in SUBSET Nat, T # {}
  PROVE  Min(T) \in T /\ \A k \in T : Min(T) <= k
BY LeastNumber DEF Min

LEMMA MaxOfNumbers ==
  ASSUME NEW T \in SUBSET Nat, IsFiniteSet(T), T # {}
  PROVE  Max(T) \in T /\ \A k \in T : Max(T) >= k
<1> DEFINE n == Cardinality(T)
           A == Ascending(T)
<1>1. n \in Nat /\ n # 0
  BY FS_CardinalityType, FS_EmptySet
<1>2. /\ A \in Seq(T) /\ Len(A) = n
      /\ \A i, j \in 1 .. n : i < j => A[i] < A[j]
      /\ \A x \in T : \E k \in 1 .. n : A[k] = x
  BY AscendingList
<1> HIDE DEF n, A
<1>3. n \in 1 .. n /\ A[n] \in T
  BY <1>1, <1>2
<1>4. ASSUME NEW x \in T PROVE A[n] >= x
  <2>1. PICK k \in 1 .. n : A[k] = x
    BY <1>2
  <2>2. x \in Nat /\ A[n] \in Nat
    BY <1>3
  <2>3. CASE k = n
    BY <2>1, <2>2, <2>3
  <2>4. CASE k < n
    <3>1. x < A[n]
      BY <1>2, <1>3, <2>1, <2>4
    <3> QED BY <2>2, <3>1
  <2> QED BY <1>1, <2>3, <2>4
<1> QED BY <1>3, <1>4 DEF Max

(***************************************************************************)
(* Lists.                                                                  *)
(***************************************************************************)
\* The positions of a list: finitely many numbers.
LEMMA ListPositions ==
  ASSUME NEW n \in Nat
  PROVE  IsFiniteSet(1 .. n) /\ Cardinality(1 .. n) = n
<1>1. 1 \in Int /\ n \in Int
  OBVIOUS
<1>2. IsFiniteSet(1 .. n) /\ Cardinality(1 .. n) = IF 1 > n THEN 0 ELSE n - 1 + 1
  BY ONLY <1>1, FS_Interval
<1>3. (IF 1 > n THEN 0 ELSE n - 1 + 1) = n
  OBVIOUS
<1> QED BY <1>2, <1>3

LEMMA SomePositions ==
  ASSUME NEW n \in Nat, NEW at \in SUBSET (1 .. n)
  PROVE  at \in SUBSET Nat /\ IsFiniteSet(at)
<1>1. IsFiniteSet(1 .. n)
  BY ListPositions
<1>2. IsFiniteSet(at)
  BY ONLY <1>1, at \in SUBSET (1 .. n), FS_Subset
<1> QED BY <1>2

\* The first n numbers are in their own order.
LEMMA AscendingAll ==
  ASSUME NEW n \in Nat
  PROVE  Ascending(1 .. n) = [k \in 1 .. n |-> k]
<1>1. ASSUME NEW i \in 1 .. n
      PROVE  Cardinality(Below(1 .. n, i)) = i - 1
  <2>1. Below(1 .. n, i) = 1 .. (i - 1)
    BY DEF Below
  <2>2. i - 1 \in Nat
    OBVIOUS
  <2>3. PICK m : m = i - 1
    OBVIOUS
  <2>4. Cardinality(1 .. m) = m
    BY <2>2, <2>3, ListPositions
  <2> QED BY <2>1, <2>3, <2>4
<1>2. Cardinality(1 .. n) = n
  BY ListPositions
<1>3. ASSUME NEW k \in 1 .. n
      PROVE  (CHOOSE i \in 1 .. n : Cardinality(Below(1 .. n, i)) = k - 1) = k
  <2>1. \A i \in 1 .. n : Cardinality(Below(1 .. n, i)) = k - 1 <=> i = k
    BY <1>1
  <2> QED BY <2>1
<1> QED BY <1>2, <1>3 DEF Ascending

\* What is picked out of a list: the entries at the positions, in their order.
LEMMA PickedList ==
  ASSUME NEW T, NEW s \in Seq(T), NEW at \in SUBSET (1 .. Len(s))
  PROVE  /\ Picked(s, at) \in Seq(T)
         /\ Cardinality(at) \in Nat /\ Len(Picked(s, at)) = Cardinality(at)
         /\ ToSet(Picked(s, at)) = {s[i] : i \in at}
         /\ \A k \in 1 .. Cardinality(at) : Ascending(at)[k] \in at /\ Picked(s, at)[k] = s[Ascending(at)[k]]
<1> DEFINE n == Cardinality(at)
           A == Ascending(at)
<1>1. at \in SUBSET Nat /\ IsFiniteSet(at)
  <2>1. Len(s) \in Nat
    OBVIOUS
  <2> QED BY <2>1, SomePositions
<1>2. /\ A \in Seq(at) /\ n \in Nat /\ Len(A) = n /\ DOMAIN A = 1 .. n
      /\ \A x \in at : \E k \in 1 .. n : A[k] = x
  BY <1>1, AscendingList
<1>3. Picked(s, at) = [k \in 1 .. n |-> s[A[k]]]
  BY <1>2 DEF Picked
<1> HIDE DEF A, n
<1>4. \A k \in 1 .. n : A[k] \in at
  BY <1>2
<1>5. \A i \in at : s[i] \in T
  OBVIOUS
<1>6. Picked(s, at) \in [1 .. n -> T]
  BY <1>3, <1>4, <1>5
<1>7. Picked(s, at) \in Seq(T) /\ Len(Picked(s, at)) = n /\ DOMAIN Picked(s, at) = 1 .. n
  BY <1>2, <1>6
<1>8. ToSet(Picked(s, at)) = {s[i] : i \in at}
  <2>1. ToSet(Picked(s, at)) = {Picked(s, at)[k] : k \in 1 .. n}
    BY <1>7 DEF ToSet
  <2>2. \A k \in 1 .. n : Picked(s, at)[k] = s[A[k]]
    BY <1>3
  <2>3. ASSUME NEW x \in ToSet(Picked(s, at)) PROVE x \in {s[i] : i \in at}
    <3>1. PICK k \in 1 .. n : x = Picked(s, at)[k]
      BY <2>1
    <3> QED BY <1>4, <2>2, <3>1
  <2>4. ASSUME NEW i \in at PROVE s[i] \in ToSet(Picked(s, at))
    <3>1. PICK k \in 1 .. n : A[k] = i
      BY <1>2
    <3> QED BY <2>1, <2>2, <3>1
  <2> QED BY <2>3, <2>4
<1> QED BY <1>2, <1>3, <1>4, <1>7, <1>8 DEF A, n

LEMMA OnlyList ==
  ASSUME NEW T, NEW s \in Seq(T), NEW S
  PROVE  /\ Only(s, S) \in Seq(T) /\ ToSet(Only(s, S)) = ToSet(s) \cap S
         /\ ToSet(s) \subseteq S => Len(Only(s, S)) = Len(s)
         /\ ToSet(s) \cap S = {} => Only(s, S) = <<>>
<1> DEFINE at == {i \in DOMAIN s : s[i] \in S}
<1>1. at \in SUBSET (1 .. Len(s)) /\ DOMAIN s = 1 .. Len(s) /\ Len(s) \in Nat
  OBVIOUS
<1>2. Only(s, S) = Picked(s, at)
  BY DEF Only
<1>3. {s[i] : i \in at} = ToSet(s) \cap S
  BY DEF ToSet
<1>4. ToSet(s) \subseteq S => Cardinality(at) = Len(s)
  <2> SUFFICES ASSUME ToSet(s) \subseteq S PROVE Cardinality(at) = Len(s)
    OBVIOUS
  <2>1. at = 1 .. Len(s)
    BY <1>1 DEF ToSet
  <2> QED BY <1>1, <2>1, ListPositions
<1>5. ToSet(s) \cap S = {} => Cardinality(at) = 0
  <2> SUFFICES ASSUME ToSet(s) \cap S = {} PROVE Cardinality(at) = 0
    OBVIOUS
  <2>1. at = {}
    BY <1>1 DEF ToSet
  <2> QED BY <2>1, FS_EmptySet
<1> HIDE DEF at
<1>6. Picked(s, at) \in Seq(T) /\ Len(Picked(s, at)) = Cardinality(at) /\ ToSet(Picked(s, at)) = {s[i] : i \in at}
  BY <1>1, PickedList
<1> QED BY <1>2, <1>3, <1>4, <1>5, <1>6

\* The order is kept.
LEMMA OnlyOrder ==
  ASSUME NEW T, NEW s \in Seq(T), NEW S,
         NEW i \in DOMAIN Only(s, S), NEW j \in DOMAIN Only(s, S), i < j
  PROVE  \E a, b \in DOMAIN s : a < b /\ Only(s, S)[i] = s[a] /\ Only(s, S)[j] = s[b]
<1> DEFINE at == {k \in DOMAIN s : s[k] \in S}
           n  == Cardinality(at)
<1>1. at \in SUBSET (1 .. Len(s)) /\ DOMAIN s = 1 .. Len(s) /\ Len(s) \in Nat
  OBVIOUS
<1>2. Only(s, S) = Picked(s, at)
  BY DEF Only
<1> HIDE DEF at
<1>3. at \in SUBSET Nat /\ IsFiniteSet(at)
  BY <1>1, SomePositions
<1>4. /\ Picked(s, at) \in Seq(T) /\ Len(Picked(s, at)) = n
      /\ \A k \in 1 .. n : Ascending(at)[k] \in at /\ Picked(s, at)[k] = s[Ascending(at)[k]]
  BY <1>1, PickedList
<1>5. n \in Nat /\ \A k, l \in 1 .. n : k < l => Ascending(at)[k] < Ascending(at)[l]
  BY <1>3, AscendingList
<1>6. i \in 1 .. n /\ j \in 1 .. n
  BY <1>2, <1>4, <1>5
<1>7. /\ Ascending(at)[i] \in DOMAIN s /\ Ascending(at)[j] \in DOMAIN s /\ Ascending(at)[i] < Ascending(at)[j]
      /\ Only(s, S)[i] = s[Ascending(at)[i]] /\ Only(s, S)[j] = s[Ascending(at)[j]]
  BY <1>1, <1>2, <1>4, <1>5, <1>6
<1> QED BY <1>7

\* Where a value is in a list, and how often.
Places(s, e) == {k \in DOMAIN s : s[k] = e}
Count(s, e)  == Cardinality(Places(s, e))

LEMMA PlacesFinite ==
  ASSUME NEW T, NEW s \in Seq(T), NEW e
  PROVE  Places(s, e) \in SUBSET Nat /\ IsFiniteSet(Places(s, e)) /\ Count(s, e) \in Nat
<1>1. Places(s, e) \in SUBSET (1 .. Len(s)) /\ Len(s) \in Nat
  BY DEF Places
<1>2. Places(s, e) \in SUBSET Nat /\ IsFiniteSet(Places(s, e))
  BY <1>1, SomePositions
<1> QED BY <1>2, FS_CardinalityType DEF Count

LEMMA SameSize ==
  ASSUME NEW S, NEW T, IsFiniteSet(S), NEW f \in [S -> T],
         \A a, b \in S : f[a] = f[b] => a = b, \A t \in T : \E a \in S : f[a] = t
  PROVE  Cardinality(T) = Cardinality(S) /\ IsFiniteSet(T)
<1>1. f \in Bijection(S, T)
  BY DEF Bijection, Injection, Surjection, IsInjective
<1>2. ExistsBijection(S, T)
  BY <1>1 DEF ExistsBijection
<1> QED BY <1>2, FS_Bijection

\* Of two lists one after the other, a value is in both as often as in each.
LEMMA CountBoth ==
  ASSUME NEW T, NEW s \in Seq(T), NEW t \in Seq(T), NEW e
  PROVE  Count(s \o t, e) = Count(s, e) + Count(t, e)
<1> DEFINE m == Len(s)
           P == Places(s, e)
           Q == Places(t, e)
           R == {m + k : k \in Q}
           f == [k \in Q |-> m + k]
<1>1. /\ P \in SUBSET Nat /\ IsFiniteSet(P) /\ Count(s, e) \in Nat
      /\ Q \in SUBSET Nat /\ IsFiniteSet(Q) /\ Count(t, e) \in Nat /\ m \in Nat
  BY PlacesFinite
<1>2. /\ DOMAIN s = 1 .. m /\ DOMAIN t = 1 .. Len(t) /\ Len(t) \in Nat
      /\ DOMAIN (s \o t) = 1 .. (m + Len(t))
      /\ \A k \in 1 .. (m + Len(t)) : (s \o t)[k] = IF k <= m THEN s[k] ELSE t[k - m]
  OBVIOUS
<1>3. Places(s \o t, e) = P \cup R
  <2>1. ASSUME NEW k \in Places(s \o t, e) PROVE k \in P \cup R
    <3>1. k \in 1 .. (m + Len(t)) /\ (s \o t)[k] = e
      BY <1>2 DEF Places
    <3>2. CASE k <= m
      BY <1>1, <1>2, <3>1, <3>2 DEF Places
    <3>3. CASE k > m
      <4>1. k - m \in Q /\ k = m + (k - m)
        BY <1>1, <1>2, <3>1, <3>3 DEF Places
      <4> QED BY <4>1
    <3> QED BY <1>1, <3>1, <3>2, <3>3
  <2>2. ASSUME NEW k \in P PROVE k \in Places(s \o t, e)
    BY <1>1, <1>2 DEF Places
  <2>3. ASSUME NEW k \in Q PROVE m + k \in Places(s \o t, e)
    BY <1>1, <1>2 DEF Places
  <2> QED BY <2>1, <2>2, <2>3
<1>4. P \cap R = {}
  BY <1>1, <1>2 DEF Places
<1>5. IsFiniteSet(R) /\ Cardinality(R) = Cardinality(Q)
  <2>1. f \in [Q -> R] /\ (\A t0 \in R : \E a \in Q : f[a] = t0)
    OBVIOUS
  <2>2. \A a, b \in Q : f[a] = f[b] => a = b
    BY <1>1
  <2> HIDE DEF f, R, Q
  <2> QED BY <1>1, <2>1, <2>2, SameSize
<1> HIDE DEF P, Q, R, f, m
<1>6. Cardinality(P \cup R) = Cardinality(P) + Cardinality(R) - Cardinality(P \cap R)
  BY <1>1, <1>5, FS_Union
<1>7. Cardinality(P \cap R) = 0
  BY <1>4, FS_EmptySet
<1>8. Count(s, e) = Cardinality(P) /\ Count(t, e) = Cardinality(Q) /\ Count(s \o t, e) = Cardinality(P \cup R)
  BY <1>3 DEF Count, P, Q
<1> QED BY <1>1, <1>5, <1>6, <1>7, <1>8

\* What is taken out of a list is there as often as in the list, and all else is not.
LEMMA CountOnly ==
  ASSUME NEW T, NEW s \in Seq(T), NEW S, NEW e
  PROVE  Count(Only(s, S), e) = IF e \in S THEN Count(s, e) ELSE 0
<1> DEFINE at == {k \in DOMAIN s : s[k] \in S}
           n  == Cardinality(at)
           A  == Ascending(at)
           P  == Places(Only(s, S), e)
           f  == [k \in P |-> A[k]]
<1>1. at \in SUBSET (1 .. Len(s)) /\ DOMAIN s = 1 .. Len(s) /\ Len(s) \in Nat
  OBVIOUS
<1>2. Only(s, S) = Picked(s, at)
  BY DEF Only
<1>3. \A i \in DOMAIN s : i \in at <=> s[i] \in S
  OBVIOUS
<1> HIDE DEF at
<1>4. at \in SUBSET Nat /\ IsFiniteSet(at)
  BY <1>1, SomePositions
<1>5. /\ Picked(s, at) \in Seq(T) /\ Len(Picked(s, at)) = n
      /\ \A k \in 1 .. n : A[k] \in at /\ Picked(s, at)[k] = s[A[k]]
  BY <1>1, PickedList
<1>6. /\ n \in Nat /\ \A k, l \in 1 .. n : k < l => A[k] < A[l]
      /\ \A x \in at : \E k \in 1 .. n : A[k] = x
  BY <1>4, AscendingList
<1>7. P = {k \in 1 .. n : s[A[k]] = e}
  BY <1>2, <1>5, <1>6 DEF Places
<1>8. CASE e \in S
  <2>1. f \in [P -> Places(s, e)]
    BY <1>1, <1>5, <1>7 DEF Places
  <2>2. \A a, b \in P : f[a] = f[b] => a = b
    <3> SUFFICES ASSUME NEW a \in P, NEW b \in P, A[a] = A[b] PROVE a = b
      OBVIOUS
    <3>1. a \in 1 .. n /\ b \in 1 .. n /\ A[a] \in Nat /\ A[b] \in Nat
      BY <1>4, <1>5, <1>7
    <3>2. ~(a < b) /\ ~(b < a)
      BY <1>6, <3>1
    <3> QED BY <1>6, <3>1, <3>2
  <2>3. \A t \in Places(s, e) : \E a \in P : f[a] = t
    <3> SUFFICES ASSUME NEW t \in Places(s, e) PROVE \E a \in P : f[a] = t
      OBVIOUS
    <3>1. t \in DOMAIN s /\ s[t] = e
      BY DEF Places
    <3>2. t \in at
      BY <1>3, <1>8, <3>1
    <3>3. PICK k \in 1 .. n : A[k] = t
      BY <1>6, <3>2
    <3>4. k \in P
      BY <1>7, <3>1, <3>3
    <3> QED BY <3>3, <3>4
  <2>4. IsFiniteSet(P)
    BY <1>2, <1>5, PlacesFinite
  <2> HIDE DEF P, f
  <2>5. Cardinality(Places(s, e)) = Cardinality(P)
    BY <2>1, <2>2, <2>3, <2>4, SameSize
  <2> QED BY <1>8, <2>5 DEF Count, P
<1>9. CASE e \notin S
  <2>1. P = {}
    BY <1>1, <1>3, <1>5, <1>7, <1>9
  <2> QED BY <1>9, <2>1, FS_EmptySet DEF Count
<1> QED BY <1>8, <1>9

\* Splitting a list by two sets that do not overlap loses nothing.
LEMMA CountSplit ==
  ASSUME NEW T, NEW s \in Seq(T), NEW S, NEW U, ToSet(s) \subseteq S \cup U, S \cap U = {}, NEW e
  PROVE  Count(Only(s, S), e) + Count(Only(s, U), e) = Count(s, e)
<1>1. Count(s, e) \in Nat
  BY PlacesFinite
<1>2. Count(Only(s, S), e) = (IF e \in S THEN Count(s, e) ELSE 0) /\ Count(Only(s, U), e) = IF e \in U THEN Count(s, e) ELSE 0
  BY CountOnly
<1>3. CASE e \in ToSet(s)
  BY <1>1, <1>2, <1>3
<1>4. CASE e \notin ToSet(s)
  <2>1. Places(s, e) = {}
    BY <1>4 DEF Places, ToSet
  <2>2. Count(s, e) = 0
    BY <2>1, FS_EmptySet DEF Count
  <2> QED BY <1>2, <2>2
<1> QED BY <1>3, <1>4

\* The entries of two lists.
LEMMA BothList ==
  ASSUME NEW T, NEW s \in Seq(T), NEW t \in Seq(T)
  PROVE  s \o t \in Seq(T) /\ ToSet(s \o t) = ToSet(s) \cup ToSet(t)
<1>1. /\ DOMAIN s = 1 .. Len(s) /\ DOMAIN t = 1 .. Len(t) /\ Len(s) \in Nat /\ Len(t) \in Nat
      /\ DOMAIN (s \o t) = 1 .. (Len(s) + Len(t)) /\ s \o t \in Seq(T)
      /\ \A k \in 1 .. (Len(s) + Len(t)) : (s \o t)[k] = IF k <= Len(s) THEN s[k] ELSE t[k - Len(s)]
  OBVIOUS
<1>2. ASSUME NEW k \in DOMAIN (s \o t) PROVE (s \o t)[k] \in ToSet(s) \cup ToSet(t)
  <2>1. CASE k <= Len(s)
    BY <1>1, <2>1 DEF ToSet
  <2>2. CASE k > Len(s)
    <3>1. k - Len(s) \in DOMAIN t /\ (s \o t)[k] = t[k - Len(s)]
      BY <1>1, <2>2
    <3> QED BY <3>1 DEF ToSet
  <2> QED BY <1>1, <2>1, <2>2
<1>3. ASSUME NEW k \in DOMAIN s PROVE s[k] \in ToSet(s \o t)
  <2>1. k \in DOMAIN (s \o t) /\ (s \o t)[k] = s[k]
    BY <1>1
  <2> QED BY <2>1 DEF ToSet
<1>4. ASSUME NEW k \in DOMAIN t PROVE t[k] \in ToSet(s \o t)
  <2>1. Len(s) + k \in DOMAIN (s \o t) /\ (s \o t)[Len(s) + k] = t[k]
    BY <1>1
  <2> QED BY <2>1 DEF ToSet
<1> QED BY <1>1, <1>2, <1>3, <1>4 DEF ToSet

\* What is put together up to each list.
Together(g, ss, n) == g[0] = <<>> /\ \A k \in 1 .. n : g[k] = g[k - 1] \o ss[k]

LEMMA TogetherExists ==
  ASSUME NEW T, NEW ss \in Seq(Seq(T)), NEW n \in 0 .. Len(ss)
  PROVE  \E g \in [0 .. n -> Seq(T)] : Together(g, ss, n)
<1> DEFINE D == {m \in 0 .. n : ~\E g \in [0 .. m -> Seq(T)] : Together(g, ss, m)}
<1>1. n \in Nat /\ Len(ss) \in Nat /\ n \in 0 .. n
  OBVIOUS
<1>2. D = {}
  <2> SUFFICES ASSUME D # {} PROVE FALSE
    OBVIOUS
  <2>1. D \in SUBSET Nat
    OBVIOUS
  <2>2. PICK m \in D : \A k \in D : m <= k
    BY <2>1, LeastNumber
  <2>3. m \in 0 .. n /\ m \in Nat /\ ~\E g \in [0 .. m -> Seq(T)] : Together(g, ss, m)
    OBVIOUS
  <2>4. CASE m = 0
    <3> DEFINE g == [k \in 0 .. m |-> <<>>]
    <3>1. g \in [0 .. m -> Seq(T)] /\ Together(g, ss, m)
      BY <2>4 DEF Together
    <3> QED BY <2>3, <3>1
  <2>5. CASE m # 0
    <3>1. m - 1 \in 0 .. n /\ ~(m <= m - 1) /\ m \in 1 .. Len(ss)
      BY <1>1, <2>3, <2>5
    <3>2. PICK h \in [0 .. (m - 1) -> Seq(T)] : Together(h, ss, m - 1)
      BY <2>2, <3>1
    <3> DEFINE g == [k \in 0 .. m |-> IF k = m THEN h[m - 1] \o ss[m] ELSE h[k]]
    <3>3. h[m - 1] \in Seq(T) /\ ss[m] \in Seq(T) /\ h[m - 1] \o ss[m] \in Seq(T)
      BY <2>3, <2>5, <3>1, <3>2
    <3>4. g \in [0 .. m -> Seq(T)]
      <4>1. \A k \in 0 .. m : k = m \/ k \in 0 .. (m - 1)
        BY <2>3
      <4>2. \A k \in 0 .. m : g[k] \in Seq(T)
        BY <3>2, <3>3, <4>1
      <4> QED BY <4>2
    <3>5. g[0] = h[0] /\ g[m] = h[m - 1] \o ss[m] /\ \A k \in 0 .. (m - 1) : g[k] = h[k]
      <4>1. 0 \in 0 .. m /\ 0 # m /\ m \in 0 .. m /\ \A k \in 0 .. (m - 1) : k \in 0 .. m /\ k # m
        BY <2>3, <2>5
      <4> QED BY <4>1
    <3> HIDE DEF g
    <3>6. ASSUME NEW k \in 1 .. m PROVE g[k] = g[k - 1] \o ss[k]
      <4>1. k - 1 \in 0 .. (m - 1) /\ (k = m \/ k \in 1 .. (m - 1)) /\ (k # m => k \in 0 .. (m - 1))
        BY <2>3
      <4> QED BY <3>2, <3>5, <4>1 DEF Together
    <3>7. Together(g, ss, m)
      BY <3>2, <3>5, <3>6 DEF Together
    <3> QED BY <2>3, <3>4, <3>7
  <2> QED BY <2>4, <2>5
<1> QED BY <1>1, <1>2

LEMMA ConcatSteps ==
  ASSUME NEW T, NEW ss \in Seq(Seq(T))
  PROVE  \E g \in [0 .. Len(ss) -> Seq(T)] : Together(g, ss, Len(ss)) /\ Concat(ss) = g[Len(ss)]
<1> DEFINE n == Len(ss)
           f == CHOOSE f : f = [k \in 0 .. Len(ss) |-> IF k = 0 THEN <<>> ELSE f[k - 1] \o ss[k]]
<1>1. n \in Nat /\ n \in 0 .. n
  OBVIOUS
<1>2. Concat(ss) = f[n]
  BY DEF Concat
<1>3. PICK g \in [0 .. n -> Seq(T)] : Together(g, ss, n)
  BY <1>1, TogetherExists
<1>4. \A k \in 0 .. n : g[k] = IF k = 0 THEN <<>> ELSE g[k - 1] \o ss[k]
  <2> SUFFICES ASSUME NEW k \in 0 .. n PROVE g[k] = IF k = 0 THEN <<>> ELSE g[k - 1] \o ss[k]
    OBVIOUS
  <2>1. k = 0 \/ k \in 1 .. n
    BY <1>1
  <2> QED BY <1>3, <2>1 DEF Together
<1>5. g = [k \in 0 .. n |-> IF k = 0 THEN <<>> ELSE g[k - 1] \o ss[k]]
  BY <1>3, <1>4
<1>6. f = [k \in 0 .. n |-> IF k = 0 THEN <<>> ELSE f[k - 1] \o ss[k]]
  BY <1>5
<1> HIDE DEF f
<1>7. \A k \in 0 .. n : f[k] = IF k = 0 THEN <<>> ELSE f[k - 1] \o ss[k]
  BY <1>6
<1> DEFINE D == {k \in 0 .. n : g[k] # f[k]}
<1>8. D = {}
  <2> SUFFICES ASSUME D # {} PROVE FALSE
    OBVIOUS
  <2>1. D \in SUBSET Nat
    OBVIOUS
  <2>2. PICK k \in D : \A j \in D : k <= j
    BY <2>1, LeastNumber
  <2>3. k \in 0 .. n /\ k \in Nat /\ g[k] # f[k]
    OBVIOUS
  <2>4. k # 0
    BY <1>4, <1>7, <2>3
  <2>5. k - 1 \in 0 .. n /\ ~(k <= k - 1)
    BY <1>1, <2>3, <2>4
  <2>6. g[k - 1] = f[k - 1]
    BY <2>2, <2>5
  <2> QED BY <1>4, <1>7, <2>3, <2>4, <2>6
<1>9. g[n] = f[n]
  BY <1>1, <1>8
<1> QED BY <1>2, <1>3, <1>9

\* The entries of all lists, and none else.
LEMMA ConcatList ==
  ASSUME NEW T, NEW ss \in Seq(Seq(T))
  PROVE  /\ Concat(ss) \in Seq(T)
         /\ ToSet(Concat(ss)) = UNION {ToSet(ss[k]) : k \in DOMAIN ss}
<1> DEFINE n == Len(ss)
<1>1. n \in Nat /\ n \in 0 .. n /\ DOMAIN ss = 1 .. n
  OBVIOUS
<1>2. PICK g \in [0 .. n -> Seq(T)] : Together(g, ss, n) /\ Concat(ss) = g[n]
  BY ConcatSteps
<1> DEFINE Right(k) == ToSet(g[k]) = UNION {ToSet(ss[j]) : j \in 1 .. k}
           D == {k \in 0 .. n : ~Right(k)}
<1>3. Right(0)
  BY <1>2 DEF Together, ToSet
<1>4. ASSUME NEW k \in 1 .. n, Right(k - 1) PROVE Right(k)
  <2>1. g[k - 1] \in Seq(T) /\ ss[k] \in Seq(T)
    <3>1. k - 1 \in 0 .. n /\ k \in DOMAIN ss
      BY <1>1
    <3> QED BY <1>2, <3>1
  <2>4. g[k] = g[k - 1] \o ss[k]
    BY <1>2 DEF Together
  <2>2. ToSet(g[k]) = ToSet(g[k - 1]) \cup ToSet(ss[k])
    BY <2>1, <2>4, BothList
  <2>3. 1 .. k = (1 .. (k - 1)) \cup {k}
    BY <1>1
  <2> QED BY <1>4, <2>2, <2>3
<1> HIDE DEF Right
<1>5. D = {}
  <2> SUFFICES ASSUME D # {} PROVE FALSE
    OBVIOUS
  <2>1. D \in SUBSET Nat
    OBVIOUS
  <2>2. PICK k \in D : \A j \in D : k <= j
    BY <2>1, LeastNumber
  <2>3. k \in 0 .. n /\ k \in Nat /\ ~Right(k)
    OBVIOUS
  <2>4. k # 0
    BY <1>3, <2>3
  <2>5. k - 1 \in 0 .. n /\ ~(k <= k - 1) /\ k \in 1 .. n
    BY <1>1, <2>3, <2>4
  <2>6. Right(k - 1)
    BY <2>2, <2>5
  <2> QED BY <1>4, <2>3, <2>5, <2>6
<1>6. Right(n)
  BY <1>1, <1>5
<1> QED BY <1>1, <1>2, <1>6 DEF Right

\* None of the lists is longer than all of them together.
LEMMA ConcatLonger ==
  ASSUME NEW T, NEW ss \in Seq(Seq(T)), NEW j \in DOMAIN ss
  PROVE  Len(ss[j]) <= Len(Concat(ss))
<1> DEFINE n == Len(ss)
<1>1. n \in Nat /\ n \in 0 .. n /\ DOMAIN ss = 1 .. n
  OBVIOUS
<1>2. PICK g \in [0 .. n -> Seq(T)] : Together(g, ss, n) /\ Concat(ss) = g[n]
  BY ConcatSteps
<1> DEFINE Right(k) == Len(ss[j]) <= Len(g[k])
           D == {k \in j .. n : ~Right(k)}
<1>3. j \in 1 .. n /\ j \in Nat /\ ss[j] \in Seq(T)
  BY <1>1
<1>4. ASSUME NEW k \in j .. n PROVE Len(g[k]) = Len(g[k - 1]) + Len(ss[k]) /\ Len(g[k - 1]) \in Nat /\ Len(ss[k]) \in Nat
  <2>1. k - 1 \in 0 .. n /\ k \in DOMAIN ss /\ k \in 1 .. n
    BY <1>1, <1>3
  <2>2. g[k - 1] \in Seq(T) /\ ss[k] \in Seq(T)
    BY <1>2, <2>1
  <2>3. g[k] = g[k - 1] \o ss[k]
    BY <1>2, <2>1 DEF Together
  <2> QED BY <2>2, <2>3
<1>5. D = {}
  <2> SUFFICES ASSUME D # {} PROVE FALSE
    OBVIOUS
  <2>1. D \in SUBSET Nat
    BY <1>3
  <2>2. PICK k \in D : \A i \in D : k <= i
    BY <2>1, LeastNumber
  <2>3. k \in j .. n /\ k \in Nat /\ ~Right(k)
    BY <1>3
  <2>s. PICK x, y, z : x = Len(g[k]) /\ y = Len(g[k - 1]) /\ z = Len(ss[k])
    OBVIOUS
  <2>6. x = y + z /\ y \in Nat /\ z \in Nat
    BY <1>4, <2>3, <2>s
  <2>4. CASE k = j
    <3>1. z <= x
      BY <2>6
    <3> QED BY <2>3, <2>4, <2>s, <3>1
  <2>5. CASE k # j
    <3>1. k - 1 \in j .. n /\ ~(k <= k - 1)
      BY <1>1, <1>3, <2>3, <2>5
    <3>2. Right(k - 1)
      BY <2>2, <3>1
    <3>w. PICK w : w = Len(ss[j])
      OBVIOUS
    <3>3. w \in Nat /\ w <= y
      BY <1>3, <2>s, <3>2, <3>w
    <3>4. w <= x
      BY <2>6, <3>3
    <3> QED BY <2>3, <2>s, <3>4, <3>w
  <2> QED BY <2>4, <2>5
<1>6. n \in j .. n
  BY <1>1, <1>3
<1>7. Right(n)
  BY <1>5, <1>6
<1> QED BY <1>2, <1>7

\* What is taken out of the first of each kind, and not yet there.
LEMMA FlatTlist ==
  ASSUME NEW T, NEW s \in Seq(T), NEW es \in Seq(T)
  PROVE  /\ s \o Picked(es, {k \in FirstTimes(es) : es[k] \notin ToSet(s)}) \in Seq(T)
         /\ ToSet(s \o Picked(es, {k \in FirstTimes(es) : es[k] \notin ToSet(s)})) = ToSet(s) \cup ToSet(es)
<1> DEFINE at == {k \in FirstTimes(es) : es[k] \notin ToSet(s)}
<1>1. at \in SUBSET (1 .. Len(es)) /\ DOMAIN es = 1 .. Len(es) /\ Len(es) \in Nat
  BY DEF FirstTimes
<1>2. {es[i] : i \in at} = ToSet(es) \ ToSet(s)
  <2>1. ASSUME NEW i \in at PROVE es[i] \in ToSet(es) \ ToSet(s)
    BY <1>1 DEF ToSet
  <2>2. ASSUME NEW x \in ToSet(es) \ ToSet(s) PROVE x \in {es[i] : i \in at}
    <3> DEFINE D == {i \in DOMAIN es : es[i] = x}
    <3>1. D \in SUBSET Nat /\ D # {}
      BY <1>1 DEF ToSet
    <3>2. PICK i \in D : \A j \in D : i <= j
      BY <3>1, LeastNumber
    <3>3. i \in FirstTimes(es)
      BY <1>1, <3>2 DEF FirstTimes
    <3>4. i \in at /\ es[i] = x
      BY <2>2, <3>2, <3>3
    <3> QED BY <3>4
  <2> QED BY <2>1, <2>2
<1> HIDE DEF at
<1>3. Picked(es, at) \in Seq(T) /\ ToSet(Picked(es, at)) = {es[i] : i \in at}
  BY <1>1, PickedList
<1>4. s \o Picked(es, at) \in Seq(T) /\ ToSet(s \o Picked(es, at)) = ToSet(s) \cup ToSet(Picked(es, at))
  BY <1>3, BothList
<1> QED BY <1>2, <1>3, <1>4 DEF at

\* Whatever is put together step by step ends in the same list.
LEMMA ConcatUnique ==
  ASSUME NEW T, NEW ss \in Seq(Seq(T)), NEW f, Together(f, ss, Len(ss))
  PROVE  Concat(ss) = f[Len(ss)]
<1> DEFINE n == Len(ss)
<1>1. n \in Nat /\ n \in 0 .. n
  OBVIOUS
<1>2. PICK g \in [0 .. n -> Seq(T)] : Together(g, ss, n) /\ Concat(ss) = g[n]
  BY ConcatSteps
<1> DEFINE D == {k \in 0 .. n : g[k] # f[k]}
<1>3. D = {}
  <2> SUFFICES ASSUME D # {} PROVE FALSE
    OBVIOUS
  <2>1. D \in SUBSET Nat
    OBVIOUS
  <2>2. PICK k \in D : \A j \in D : k <= j
    BY <2>1, LeastNumber
  <2>3. k \in 0 .. n /\ k \in Nat /\ g[k] # f[k]
    OBVIOUS
  <2>4. k # 0
    BY <1>2, <2>3 DEF Together
  <2>5. k - 1 \in 0 .. n /\ ~(k <= k - 1) /\ k \in 1 .. n
    BY <1>1, <2>3, <2>4
  <2>6. g[k - 1] = f[k - 1]
    BY <2>2, <2>5
  <2>7. g[k] = g[k - 1] \o ss[k] /\ f[k] = f[k - 1] \o ss[k]
    BY <1>2, <2>5 DEF Together
  <2> QED BY <2>3, <2>6, <2>7
<1>4. g[n] = f[n]
  BY <1>1, <1>3
<1> QED BY <1>2, <1>4

LEMMA ConcatNone == Concat(<<>>) = <<>>
<1>1. PICK ss, T : ss = <<>> /\ T = {}
  OBVIOUS
<1>2. ss \in Seq(Seq(T)) /\ Len(ss) = 0
  BY <1>1
<1>3. PICK g \in [0 .. Len(ss) -> Seq(T)] : Together(g, ss, Len(ss)) /\ Concat(ss) = g[Len(ss)]
  BY <1>2, ConcatSteps
<1> QED BY <1>1, <1>2, <1>3 DEF Together

LEMMA ConcatOne ==
  ASSUME NEW T, NEW s \in Seq(T)
  PROVE  Concat(<<s>>) = s
<1>1. PICK ss : ss = <<s>>
  OBVIOUS
<1>2. ss \in Seq(Seq(T)) /\ Len(ss) = 1 /\ ss[1] = s
  BY <1>1
<1>3. PICK g \in [0 .. Len(ss) -> Seq(T)] : Together(g, ss, Len(ss)) /\ Concat(ss) = g[Len(ss)]
  BY <1>2, ConcatSteps
<1>4. g[0] = <<>> /\ g[1] = g[0] \o ss[1]
  <2>1. 1 \in 1 .. Len(ss) /\ 1 - 1 = 0
    BY <1>2
  <2> QED BY <1>3, <2>1 DEF Together
<1>5. g[1] = s
  BY <1>2, <1>4
<1> QED BY <1>1, <1>2, <1>3, <1>5

LEMMA ConcatBoth ==
  ASSUME NEW T, NEW ss \in Seq(Seq(T)), NEW tt \in Seq(Seq(T))
  PROVE  Concat(ss \o tt) = Concat(ss) \o Concat(tt)
<1>n. PICK n, m, all : n = Len(ss) /\ m = Len(tt) /\ all = ss \o tt
  OBVIOUS
<1>1. /\ n \in Nat /\ m \in Nat /\ all \in Seq(Seq(T)) /\ Len(all) = n + m
      /\ \A k \in 1 .. n : all[k] = ss[k] /\ ss[k] \in Seq(T)
      /\ \A k \in 1 .. m : all[n + k] = tt[k] /\ tt[k] \in Seq(T)
  BY <1>n
<1>2. PICK g \in [0 .. n -> Seq(T)] : Together(g, ss, n) /\ Concat(ss) = g[n]
  BY <1>n, ConcatSteps
<1>3. PICK h \in [0 .. m -> Seq(T)] : Together(h, tt, m) /\ Concat(tt) = h[m]
  BY <1>n, ConcatSteps
<1>4. g[n] \in Seq(T) /\ n \in 0 .. n /\ \A j \in 0 .. m : h[j] \in Seq(T)
  BY <1>1, <1>2, <1>3
<1>f. PICK f : f = [k \in 0 .. (n + m) |-> IF k <= n THEN g[k] ELSE g[n] \o h[k - n]]
  OBVIOUS
<1>5. (\A k \in 0 .. n : f[k] = g[k]) /\ \A j \in 0 .. m : f[n + j] = g[n] \o h[j]
  <2>1. ASSUME NEW k \in 0 .. n PROVE f[k] = g[k]
    <3>1. k \in 0 .. (n + m) /\ k <= n
      BY <1>1
    <3> QED BY <1>f, <3>1
  <2>2. ASSUME NEW j \in 0 .. m PROVE f[n + j] = g[n] \o h[j]
    <3>1. CASE j = 0
      <4>1. h[j] = <<>> /\ g[n] \o h[j] = g[n]
        BY <1>3, <1>4, <3>1 DEF Together
      <4>2. n + j = n
        BY <1>1, <3>1
      <4> QED BY <1>4, <2>1, <4>1, <4>2
    <3>2. CASE j # 0
      <4>1. n + j \in 0 .. (n + m) /\ ~(n + j <= n) /\ (n + j) - n = j
        BY <1>1, <3>2
      <4> QED BY <1>f, <4>1
    <3> QED BY <3>1, <3>2
  <2> QED BY <2>1, <2>2
<1>6. Together(f, all, n + m)
  <2>1. f[0] = <<>>
    <3>1. 0 \in 0 .. n
      BY <1>1
    <3>2. f[0] = g[0]
      BY <1>5, <3>1
    <3>3. g[0] = <<>>
      BY <1>2 DEF Together
    <3> QED BY <3>2, <3>3
  <2>2. ASSUME NEW k \in 1 .. n PROVE f[k] = f[k - 1] \o all[k]
    <3>1. k \in 0 .. n /\ k - 1 \in 0 .. n
      BY <1>1
    <3>2. g[k] = g[k - 1] \o ss[k] /\ all[k] = ss[k]
      BY <1>1, <1>2 DEF Together
    <3>3. f[k] = g[k] /\ f[k - 1] = g[k - 1]
      BY <1>5, <3>1
    <3> QED BY <3>2, <3>3
  <2>3. ASSUME NEW j \in 1 .. m PROVE f[n + j] = f[n + j - 1] \o all[n + j]
    <3>1. j \in 0 .. m /\ j - 1 \in 0 .. m /\ n + (j - 1) = n + j - 1
      BY <1>1
    <3>2. h[j] = h[j - 1] \o tt[j] /\ all[n + j] = tt[j]
      BY <1>1, <1>3 DEF Together
    <3>3. f[n + j] = g[n] \o h[j] /\ f[n + j - 1] = g[n] \o h[j - 1]
      BY <1>5, <3>1
    <3>s. PICK x, y, z : x = g[n] /\ y = h[j - 1] /\ z = tt[j]
      OBVIOUS
    <3>4. x \in Seq(T) /\ y \in Seq(T) /\ z \in Seq(T)
      BY <1>1, <1>4, <3>1, <3>s
    <3>5. x \o (y \o z) = (x \o y) \o z
      BY <3>4
    <3> QED BY <3>2, <3>3, <3>5, <3>s
  <2>4. ASSUME NEW k \in 1 .. (n + m) PROVE f[k] = f[k - 1] \o all[k]
    <3>1. CASE k \in 1 .. n
      BY <2>2, <3>1
    <3>2. CASE k \notin 1 .. n
      <4>1. PICK j \in 1 .. m : k = n + j
        <5>1. k - n \in 1 .. m /\ k = n + (k - n)
          BY <1>1, <3>2
        <5> QED BY <5>1
      <4>2. f[n + j] = f[n + j - 1] \o all[n + j]
        BY <2>3
      <4>3. k - 1 = n + j - 1
        BY <1>1, <4>1
      <4> QED BY ONLY <4>1, <4>2, <4>3
    <3> QED BY <3>1, <3>2
  <2> QED BY <2>1, <2>4 DEF Together
<1>7. Concat(all) = f[n + m]
  BY <1>1, <1>6, ConcatUnique
<1>8. f[n + m] = g[n] \o h[m]
  <2>1. m \in 0 .. m
    BY <1>1
  <2> QED BY <1>5, <2>1
<1> QED BY <1>2, <1>3, <1>7, <1>8, <1>n

\* Lists of two entries make a list of even length.
LEMMA ConcatPairs ==
  ASSUME NEW T, NEW ss \in Seq(Seq(T)), \A k \in DOMAIN ss : Len(ss[k]) = 2
  PROVE  Len(Concat(ss)) = 2 * Len(ss)
<1> DEFINE n == Len(ss)
<1>1. n \in Nat /\ n \in 0 .. n /\ DOMAIN ss = 1 .. n
  OBVIOUS
<1>2. PICK g \in [0 .. n -> Seq(T)] : Together(g, ss, n) /\ Concat(ss) = g[n]
  BY ConcatSteps
<1> DEFINE D == {k \in 0 .. n : Len(g[k]) # 2 * k}
<1>3. D = {}
  <2> SUFFICES ASSUME D # {} PROVE FALSE
    OBVIOUS
  <2>1. D \in SUBSET Nat
    OBVIOUS
  <2>2. PICK k \in D : \A j \in D : k <= j
    BY <2>1, LeastNumber
  <2>3. k \in 0 .. n /\ k \in Nat /\ Len(g[k]) # 2 * k
    OBVIOUS
  <2>4. k # 0
    <3>1. g[0] = <<>>
      BY <1>2 DEF Together
    <3> QED BY <2>3, <3>1
  <2>5. k - 1 \in 0 .. n /\ ~(k <= k - 1) /\ k \in 1 .. n /\ k - 1 \in Nat
    BY <1>1, <2>3, <2>4
  <2>6. Len(g[k - 1]) = 2 * (k - 1)
    BY <2>2, <2>5
  <2>7. g[k] = g[k - 1] \o ss[k]
    BY <1>2, <2>5 DEF Together
  <2>8. g[k - 1] \in Seq(T) /\ ss[k] \in Seq(T) /\ Len(ss[k]) = 2
    <3>1. k \in DOMAIN ss
      BY <1>1, <2>5
    <3> QED BY <1>2, <2>5, <3>1
  <2>9. Len(g[k]) = Len(g[k - 1]) + 2
    <3>1. PICK x, y : x = g[k - 1] /\ y = ss[k]
      OBVIOUS
    <3>2. Len(x \o y) = Len(x) + Len(y)
      BY <2>8, <3>1
    <3> QED BY <2>7, <2>8, <3>1, <3>2
  <2> QED BY <2>3, <2>5, <2>6, <2>9
<1>4. Len(g[n]) = 2 * n
  BY <1>1, <1>3
<1> QED BY <1>2, <1>4
=============================================================================
