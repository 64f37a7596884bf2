------------------------------ MODULE ToyProofs ------------------------------
(* The toy experiment.  What a lifecycle and its trials assemble from the  *)
(* answers of the native process, for any counter space, table, limits,    *)
(* clock and oracle: the subsets computed in place are all subsets in      *)
(* order, a search is exhausted only after the last, and the lifecycle     *)
(* returns the least solution (ToySearch).  What a build that check_build()*)
(* accepts was compiled from, for any versions of the patch and of the     *)
(* search, and any files they touch (ToyBuild).  What a run says of the two*)
(* rule sets, for any list of cases, any oracles and any number of errors  *)
(* (ToyValidation).                                                        *)
EXTENDS ToySearch, ToyBuild, ToyValidation, FiniteSetTheorems, TLAPS

USE SearchAssumption

-----------------------------------------------------------------------------
(* A nonempty set of naturals has a least member.                          *)
LEMMA LeastMember ==
    ASSUME NEW T \in SUBSET Nat, T # {}
    PROVE  \E m \in T : \A n \in T : m <= n
<1> DEFINE R == OpToRel(<, Nat)
<1>1. IsWellFoundedOn(R, Nat)
    BY NatLessThanWellFounded
<1>2. \A n, m \in T : <<n, m>> \in R <=> n < m
    BY DEF OpToRel
<1> HIDE DEF R
<1>3. PICK m \in T : \A n \in T : ~(<<n, m>> \in R)
    BY <1>1, WFMin
<1>4. \A n \in T : ~(n < m)
    BY <1>2, <1>3
<1>5. \A n \in T : m <= n
    BY <1>4
<1> QED BY <1>5

(* A nonempty set of positions has a greatest member.                      *)
LEMMA GreatestPosition ==
    ASSUME NEW T \in SUBSET Positions, T # {}
    PROVE  \E m \in T : Max(T) = m /\ \A n \in T : n <= m
<1> DEFINE D == {d \in Nat : \E i \in T : d = Selections - i}
<1>0. Selections \in Nat /\ \A i \in T : i \in Nat /\ i < Selections
    BY DEF Positions
<1>1. D \in SUBSET Nat /\ D # {}
  <2>1. PICK i \in T : TRUE
      OBVIOUS
  <2>2. Selections - i \in D
      BY <1>0
  <2> QED BY <2>2
<1>2. PICK d \in D : \A e \in D : d <= e
    BY <1>1, LeastMember
<1>3. PICK m \in T : d = Selections - m
    BY <1>2
<1>4. ASSUME NEW n \in T PROVE n <= m
  <2>1. Selections - n \in D
      BY <1>0
  <2>2. d <= Selections - n
      BY <1>2, <2>1
  <2> QED BY <1>0, <1>3, <2>2
<1>5. \A x \in T : (\A n \in T : x >= n) => x = m
    BY <1>0, <1>4
<1>6. Max(T) = m
    BY <1>0, <1>4, <1>5 DEF Max
<1> QED BY <1>4, <1>6

-----------------------------------------------------------------------------
(* What a subset is.                                                       *)
LEMMA SubsetIs ==
    ASSUME NEW s \in Subsets
    PROVE  /\ s = [i \in Positions |-> s[i]]
           /\ \A i \in Positions : s[i] \in Nat /\ s[i] <= Entries - 1
           /\ \A i, j \in Positions : i < j => s[i] < s[j]
BY DEF Subsets

(* What a position is.                                                     *)
LEMMA PositionIs ==
    /\ Selections \in Nat /\ Entries \in Nat /\ Selections <= Entries
    /\ 0 \in Positions /\ Selections - 1 \in Positions
    /\ \A i \in Positions : i \in Nat /\ i < Selections
    /\ \A i \in Nat : i < Selections => i \in Positions
BY DEF Positions

(* Its indices grow by at least one from place to place.                   *)
LEMMA Gaps ==
    ASSUME NEW s \in Subsets, NEW i \in Positions, NEW k \in Positions, i <= k
    PROVE  s[i] + (k - i) <= s[k]
<1> DEFINE Bad == {n \in Positions : i <= n /\ ~(s[i] + (n - i) <= s[n])}
<1>1. CASE Bad # {}
  <2>1. Bad \in SUBSET Nat
      BY PositionIs
  <2>2. PICK b \in Bad : \A n \in Bad : b <= n
      BY <1>1, <2>1, LeastMember
  <2>3. b \in Positions /\ i <= b /\ ~(s[i] + (b - i) <= s[b]) /\ b \in Nat /\ i \in Nat
      BY <2>2, PositionIs
  <2>4. s[i] \in Nat /\ s[b] \in Nat
      BY <2>3, SubsetIs
  <2>5. b # i
      BY <2>3, <2>4
  <2>6. PICK a \in Positions : b = a + 1 /\ i <= a
    <3>1. b - 1 \in Nat /\ b - 1 < Selections /\ i <= b - 1 /\ b = b - 1 + 1
        BY <2>3, <2>5, PositionIs
    <3>2. b - 1 \in Positions
        BY <3>1, PositionIs
    <3> QED BY <3>1, <3>2
  <2>7. a \in Nat /\ s[a] \in Nat /\ s[a] < s[b]
      BY <2>3, <2>6, SubsetIs, PositionIs
  <2>8. a \notin Bad
      BY <2>2, <2>3, <2>6, <2>7
  <2>9. s[i] + (a - i) <= s[a]
      BY <2>6, <2>8
  <2> QED BY <2>3, <2>4, <2>6, <2>7, <2>9
<1>2. CASE Bad = {}
    BY <1>2
<1> QED BY <1>1, <1>2

(* So they lie between those of the first and of the last subset.          *)
LEMMA Bounds ==
    ASSUME NEW s \in Subsets, NEW i \in Positions
    PROVE  i <= s[i] /\ s[i] <= Entries - Selections + i
<1>1. /\ 0 \in Positions /\ Selections - 1 \in Positions /\ i \in Nat /\ 0 <= i
      /\ i <= Selections - 1
    BY PositionIs
<1>2. s[0] \in Nat /\ s[i] \in Nat /\ s[Selections - 1] \in Nat /\ s[Selections - 1] <= Entries - 1
    BY <1>1, SubsetIs
<1>3. s[0] + (i - 0) <= s[i]
    BY <1>1, Gaps
<1>4. s[i] + (Selections - 1 - i) <= s[Selections - 1]
    BY <1>1, Gaps
<1> QED BY <1>1, <1>2, <1>3, <1>4, PositionIs

-----------------------------------------------------------------------------
(* Lexicographic order is a strict total order.                            *)
LEMMA LessTotal ==
    ASSUME NEW s \in Subsets, NEW u \in Subsets, s # u
    PROVE  Less(s, u) \/ Less(u, s)
<1> DEFINE D == {i \in Positions : s[i] # u[i]}
<1>1. D # {}
  <2>1. s = [i \in Positions |-> s[i]] /\ u = [i \in Positions |-> u[i]]
      BY SubsetIs
  <2> QED BY <2>1
<1>2. D \in SUBSET Nat
    BY PositionIs
<1>3. PICK j \in D : \A i \in D : j <= i
    BY <1>1, <1>2, LeastMember
<1>4. j \in Positions /\ s[j] # u[j] /\ s[j] \in Nat /\ u[j] \in Nat
    BY <1>3, SubsetIs
<1>5. \A i \in Positions : i < j => s[i] = u[i]
    BY <1>3, <1>4, PositionIs
<1> QED BY <1>4, <1>5 DEF Less

(* No two subsets each come before the other.                              *)
LEMMA LessAsymmetric ==
    ASSUME NEW s \in Subsets, NEW u \in Subsets, Less(s, u), Less(u, s)
    PROVE  FALSE
<1>1. PICK j \in Positions : s[j] < u[j] /\ \A i \in Positions : i < j => s[i] = u[i]
    BY DEF Less
<1>2. PICK k \in Positions : u[k] < s[k] /\ \A i \in Positions : i < k => u[i] = s[i]
    BY DEF Less
<1>3. j \in Nat /\ k \in Nat /\ s[j] \in Nat /\ u[j] \in Nat /\ s[k] \in Nat /\ u[k] \in Nat
    BY PositionIs, SubsetIs
<1>4. ~(j < k) /\ ~(k < j) /\ j # k
    BY <1>1, <1>2, <1>3
<1> QED BY <1>3, <1>4

(* What comes before comes before all that follows.                        *)
LEMMA LessTransitive ==
    ASSUME NEW s \in Subsets, NEW u \in Subsets, NEW v \in Subsets, Less(s, u), Less(u, v)
    PROVE  Less(s, v)
<1>1. PICK j \in Positions : s[j] < u[j] /\ \A i \in Positions : i < j => s[i] = u[i]
    BY DEF Less
<1>2. PICK k \in Positions : u[k] < v[k] /\ \A i \in Positions : i < k => u[i] = v[i]
    BY DEF Less
<1>3. /\ j \in Nat /\ k \in Nat /\ s[j] \in Nat /\ u[j] \in Nat /\ v[j] \in Nat
      /\ s[k] \in Nat /\ u[k] \in Nat /\ v[k] \in Nat
    BY PositionIs, SubsetIs
<1>4. CASE j <= k
  <2>1. s[j] < v[j]
      BY <1>1, <1>2, <1>3, <1>4
  <2>2. \A i \in Positions : i < j => s[i] = v[i]
    <3> SUFFICES ASSUME NEW i \in Positions, i < j PROVE s[i] = v[i]
        OBVIOUS
    <3>1. i < k
        BY <1>3, <1>4, PositionIs
    <3> QED BY <1>1, <1>2, <3>1
  <2> QED BY <2>1, <2>2 DEF Less
<1>5. CASE k < j
  <2>1. s[k] < v[k]
      BY <1>1, <1>2, <1>3, <1>5
  <2>2. \A i \in Positions : i < k => s[i] = v[i]
    <3> SUFFICES ASSUME NEW i \in Positions, i < k PROVE s[i] = v[i]
        OBVIOUS
    <3>1. i < j
        BY <1>3, <1>5, PositionIs
    <3> QED BY <1>1, <1>2, <3>1
  <2> QED BY <2>1, <2>2 DEF Less
<1> QED BY <1>3, <1>4, <1>5

(* The request begins with the first subset.                               *)
LEMMA FirstIsFirst ==
    /\ FirstSubset \in Subsets
    /\ \A u \in Subsets : ~Less(u, FirstSubset)
<1>1. FirstSubset \in Subsets
  <2>1. \A i \in Positions : i \in 0 .. Entries - 1
      BY PositionIs
  <2> QED BY <2>1 DEF FirstSubset, Subsets
<1>2. ASSUME NEW u \in Subsets, Less(u, FirstSubset) PROVE FALSE
  <2>1. PICK j \in Positions : u[j] < FirstSubset[j]
      BY <1>2 DEF Less
  <2>2. u[j] < j /\ j <= u[j] /\ u[j] \in Nat /\ j \in Nat
      BY <2>1, Bounds, SubsetIs, PositionIs DEF FirstSubset
  <2> QED BY <2>2
<1> QED BY <1>1, <1>2

(* The next subset comes after this one and no other lies between.         *)
LEMMA SuccessorIsNext ==
    ASSUME NEW s \in Subsets, Movable(s) # {}
    PROVE  /\ Successor(s) \in Subsets
           /\ \A u \in Subsets : Less(u, Successor(s)) <=> Less(u, s) \/ u = s
<1>1. PICK j \in Movable(s) : Max(Movable(s)) = j /\ \A n \in Movable(s) : n <= j
    BY GreatestPosition DEF Movable
<1>2. PICK t : t = Successor(s)
    OBVIOUS
<1>3. j \in Positions /\ j \in Nat /\ s[j] # Entries - Selections + j
    BY <1>1, PositionIs DEF Movable
<1>4. s[j] \in Nat /\ s[j] + 1 <= Entries - Selections + j
    BY <1>3, Bounds, SubsetIs, PositionIs
<1>5. \A k \in Positions : k > j => s[k] = Entries - Selections + k
  <2> SUFFICES ASSUME NEW k \in Positions, k > j PROVE s[k] = Entries - Selections + k
      OBVIOUS
  <2>1. k \notin Movable(s)
      BY <1>1, <1>3, PositionIs
  <2> QED BY <2>1 DEF Movable
<1>6. t = [k \in Positions |-> IF k < j THEN s[k] ELSE s[j] + 1 + (k - j)]
    BY <1>1, <1>2 DEF Successor
<1>7. \A k \in Positions : t[k] = IF k < j THEN s[k] ELSE s[j] + 1 + (k - j)
    BY <1>6
<1>8. \A k \in Positions : k \in Nat /\ k < Selections /\ s[k] \in Nat /\ s[k] <= Entries - 1
    BY SubsetIs, PositionIs
<1>9. t \in Subsets
  <2>1. ASSUME NEW k \in Positions PROVE t[k] \in 0 .. Entries - 1
    <3>1. CASE k < j
        BY <1>7, <1>8, <3>1, PositionIs
    <3>2. CASE ~(k < j)
        BY <1>3, <1>4, <1>7, <1>8, <3>2, PositionIs
    <3> QED BY <3>1, <3>2
  <2>2. ASSUME NEW i \in Positions, NEW k \in Positions, i < k PROVE t[i] < t[k]
    <3>1. CASE k < j
      <4>1. i < j /\ s[i] < s[k]
          BY <1>3, <1>8, <2>2, <3>1, SubsetIs
      <4> QED BY <1>7, <3>1, <4>1
    <3>2. CASE i < j /\ ~(k < j)
      <4>1. s[i] < s[j]
          BY <1>3, <3>2, SubsetIs
      <4> QED BY <1>3, <1>4, <1>7, <1>8, <3>2, <4>1
    <3>3. CASE ~(i < j)
      <4>1. ~(k < j)
          BY <1>3, <1>8, <2>2, <3>3
      <4> QED BY <1>3, <1>4, <1>7, <1>8, <2>2, <3>3, <4>1
    <3> QED BY <1>3, <1>8, <2>2, <3>1, <3>2, <3>3
  <2>3. t \in [Positions -> 0 .. Entries - 1]
      BY <1>6, <2>1
  <2> QED BY <2>2, <2>3 DEF Subsets
<1>10. Less(s, t)
  <2>1. s[j] < t[j] /\ \A i \in Positions : i < j => s[i] = t[i]
      BY <1>3, <1>4, <1>7, <1>8
  <2> QED BY <1>3, <2>1 DEF Less
<1>11. ASSUME NEW u \in Subsets, Less(s, u), Less(u, t) PROVE FALSE
  <2>1. PICK d \in Positions : s[d] < u[d] /\ \A i \in Positions : i < d => s[i] = u[i]
      BY <1>11 DEF Less
  <2>2. d \in Nat /\ s[d] \in Nat /\ u[d] \in Nat
      BY <1>8, SubsetIs
  <2>3. CASE d < j
    <3>1. t[d] < u[d] /\ \A i \in Positions : i < d => t[i] = u[i]
      <4>1. \A i \in Positions : i < d => i < j
          BY <1>3, <1>8, <2>2, <2>3
      <4> QED BY <1>7, <2>1, <2>3, <4>1
    <3>2. Less(t, u)
        BY <3>1 DEF Less
    <3> QED BY <1>9, <1>11, <3>2, LessAsymmetric
  <2>4. CASE d = j
    <3>1. PICK e \in Positions : u[e] < t[e]
        BY <1>11 DEF Less
    <3>2. e \in Nat /\ u[e] \in Nat /\ u[j] \in Nat
        BY <1>3, <1>8, SubsetIs
    <3>3. CASE e < j
        BY <1>7, <2>1, <2>4, <3>1, <3>2, <3>3
    <3>4. CASE ~(e < j)
      <4>1. j <= e
          BY <1>3, <3>2, <3>4
      <4>2. u[j] + (e - j) <= u[e]
          BY <1>3, <4>1, Gaps
      <4>3. t[e] = s[j] + 1 + (e - j)
          BY <1>7, <3>4
      <4> QED BY <1>3, <1>4, <2>1, <2>4, <3>1, <3>2, <4>2, <4>3
    <3> QED BY <3>3, <3>4
  <2>5. CASE d > j
    <3>1. s[d] = Entries - Selections + d
        BY <1>5, <2>5
    <3>2. u[d] <= Entries - Selections + d
        BY Bounds
    <3> QED BY <2>1, <2>2, <3>1, <3>2
  <2> QED BY <1>3, <2>2, <2>3, <2>4, <2>5
<1>12. ASSUME NEW u \in Subsets PROVE Less(u, t) <=> Less(u, s) \/ u = s
  <2>1. Less(u, t) => Less(u, s) \/ u = s
      BY <1>11, LessTotal
  <2>2. Less(u, s) => Less(u, t)
      BY <1>9, <1>10, LessTransitive
  <2> QED BY <1>10, <2>1, <2>2
<1> QED BY <1>2, <1>9, <1>12

(* The subset that cannot move comes after all others.                     *)
LEMMA UnmovableIsLast ==
    ASSUME NEW s \in Subsets, Movable(s) = {}, NEW u \in Subsets
    PROVE  Less(u, s) <=> u # s
<1>1. ASSUME Less(s, u) PROVE FALSE
  <2>1. PICK d \in Positions : s[d] < u[d]
      BY <1>1 DEF Less
  <2>2. s[d] = Entries - Selections + d
      BY DEF Movable
  <2>3. u[d] <= Entries - Selections + d /\ u[d] \in Nat /\ s[d] \in Nat /\ d \in Nat
      BY Bounds, SubsetIs, PositionIs
  <2> QED BY <2>1, <2>2, <2>3
<1>2. ~Less(s, s)
    BY LessAsymmetric
<1> QED BY <1>1, <1>2, LessTotal

-----------------------------------------------------------------------------
(* The table has finitely many subsets.                                    *)
LEMMA SubsetsFinite == IsFiniteSet(Subsets) /\ Cardinality(Subsets) \in Nat
<1> DEFINE Cells == Positions \X (0 .. Entries - 1)
           Graph == [s \in Subsets |-> {<<i, s[i]>> : i \in Positions}]
<1>1. IsFiniteSet(SUBSET Cells)
  <2>1. 0 \in Int /\ Selections - 1 \in Int /\ Entries - 1 \in Int
      BY PositionIs
  <2>2. IsFiniteSet(Positions)
      BY <2>1, FS_Interval DEF Positions
  <2>3. IsFiniteSet(0 .. Entries - 1)
      BY <2>1, FS_Interval
  <2> QED BY <2>2, <2>3, FS_Product, FS_SUBSET
<1>2. Graph \in [Subsets -> SUBSET Cells]
  <2>1. ASSUME NEW s \in Subsets PROVE {<<i, s[i]>> : i \in Positions} \subseteq Cells
      BY DEF Subsets
  <2> QED BY <2>1
<1>3. ASSUME NEW s \in Subsets, NEW u \in Subsets, Graph[s] = Graph[u] PROVE s = u
  <2>1. ASSUME NEW i \in Positions PROVE s[i] = u[i]
    <3>1. <<i, s[i]>> \in Graph[s]
        OBVIOUS
    <3>2. PICK k \in Positions : <<i, s[i]>> = <<k, u[k]>>
        BY <1>3, <3>1
    <3> QED BY <3>2
  <2>2. s = [i \in Positions |-> s[i]] /\ u = [i \in Positions |-> u[i]]
      BY SubsetIs
  <2> QED BY <2>1, <2>2
<1>4. Graph \in Injection(Subsets, SUBSET Cells)
  <2> HIDE DEF Graph, Cells
  <2>1. DOMAIN Graph = Subsets
      BY <1>2
  <2> QED BY <1>2, <1>3, <2>1 DEF Injection, IsInjective
<1>5. IsFiniteSet(Subsets)
  <2> HIDE DEF Graph, Cells
  <2> QED BY <1>1, <1>4, FS_Injection
<1> QED BY <1>5, FS_CardinalityType

(* The subsets before one.                                                 *)
Before(s) == {u \in Subsets : Less(u, s)}

(* A subset is not before itself; its rank counts those before it.         *)
LEMMA RankIs ==
    ASSUME NEW s \in Subsets
    PROVE  /\ IsFiniteSet(Before(s)) /\ Rank[s] = Cardinality(Before(s))
           /\ s \notin Before(s)
<1>1. Before(s) \in SUBSET Subsets
    BY DEF Before
<1>2. IsFiniteSet(Before(s))
    BY <1>1, SubsetsFinite, FS_Subset
<1>3. ~Less(s, s)
    BY LessAsymmetric
<1> QED BY <1>2, <1>3 DEF Rank, Before

(* Ranks number the subsets from 0 without a gap.                          *)
LEMMA RankType ==
    ASSUME NEW s \in Subsets
    PROVE  Rank[s] \in Nat /\ Rank[s] < Cardinality(Subsets)
<1>1. Before(s) \in SUBSET Subsets /\ Before(s) # Subsets
    BY RankIs DEF Before
<1>2. /\ Cardinality(Before(s)) <= Cardinality(Subsets)
      /\ Cardinality(Subsets) # Cardinality(Before(s))
    BY <1>1, SubsetsFinite, FS_Subset
<1>3. Cardinality(Before(s)) \in Nat
    BY RankIs, FS_CardinalityType
<1> QED BY <1>2, <1>3, RankIs, SubsetsFinite

(* The first subset has rank 0.                                            *)
LEMMA RankFirst == Rank[FirstSubset] = 0
<1>1. FirstSubset \in Subsets /\ Before(FirstSubset) = {}
    BY FirstIsFirst DEF Before
<1> QED BY <1>1, RankIs, FS_EmptySet

(* Each step of the native loop raises the rank by one.                    *)
LEMMA RankNext ==
    ASSUME NEW s \in Subsets, Movable(s) # {}
    PROVE  Rank[Successor(s)] = Rank[s] + 1
<1>1. PICK t \in Subsets : t = Successor(s) /\ \A u \in Subsets : Less(u, t) <=> Less(u, s) \/ u = s
    BY SuccessorIsNext
<1>2. Before(t) = Before(s) \cup {s}
    BY <1>1 DEF Before
<1>3. IsFiniteSet(Before(s)) /\ s \notin Before(s)
    BY RankIs
<1>4. Cardinality(Before(s) \cup {s}) = Cardinality(Before(s)) + 1
    BY <1>3, FS_AddElement
<1> QED BY <1>1, <1>2, <1>4, RankIs

(* The subset that cannot move has the last rank.                          *)
LEMMA RankLast ==
    ASSUME NEW s \in Subsets, Movable(s) = {}
    PROVE  Rank[s] + 1 = Cardinality(Subsets)
<1>1. Before(s) = Subsets \ {s}
    BY UnmovableIsLast DEF Before
<1>2. Cardinality(Subsets \ {s}) = Cardinality(Subsets) - 1
    BY SubsetsFinite, FS_RemoveElement
<1>3. Rank[s] = Cardinality(Subsets) - 1
    BY <1>1, <1>2, RankIs
<1> QED BY <1>3, SubsetsFinite

(* A smaller rank is an earlier subset.                                    *)
LEMMA RankOrders ==
    ASSUME NEW s \in Subsets, NEW u \in Subsets, Rank[s] < Rank[u]
    PROVE  Less(s, u)
<1>1. CASE s = u
    BY <1>1, RankType
<1>2. CASE Less(u, s)
  <2>1. Before(u) \in SUBSET Before(s)
      BY <1>2, LessTransitive DEF Before
  <2>2. Cardinality(Before(u)) <= Cardinality(Before(s))
      BY <2>1, RankIs, FS_Subset
  <2> QED BY <2>2, RankIs, RankType
<1> QED BY <1>1, <1>2, LessTotal

-----------------------------------------------------------------------------
(* The native state has its fields; a search was asked for nothing or has  *)
(* counted its candidates.                                                 *)
NativeInv ==
    /\ native = [mode |-> native.mode, first |-> native.first, sequence |-> native.sequence,
                 selected |-> native.selected, count |-> native.count, late |-> native.late,
                 answer |-> native.answer, hit |-> native.hit, digestHit |-> native.digestHit]
    /\ native.count \in Nat
    /\ native.answer \in {"none", "found", "budget", "space"}
    /\ stage \in Searching \union Ended \union {"spent"}
    /\ trial \in Nat

(* The pinning hit and the sequence it set outlive the search for subsets. *)
SpendInv ==
    /\ stage = "subset" =>
         /\ native.mode = "subset" /\ native.sequence = sequence
         /\ pin.digest = <<sequence, Whole>>
    /\ WitnessSignsTx

(* A trial looks at the sequences from 0 upwards: those it has missed are  *)
(* not reusable, and its hit is the first that is.                         *)
Searched(n) == \A c \in Reusable : c >= n
TrialInv ==
    trial > 0 =>
        /\ stage \in {"frozen", "spent"} \union Ended
        /\ native.mode = "frozen" /\ native.first = 0
        /\ Reusable \subseteq Counters
        /\ native.answer # "found" => Searched(native.count)
        /\ native.answer = "space" => native.count >= Space
        /\ native.answer = "found" =>
             native.sequence \in Reusable /\ Searched(native.sequence)
        /\ stage = "spent" => sequence \in Reusable /\ Searched(sequence)

Inv == NativeInv /\ SpendInv /\ TrialInv

-----------------------------------------------------------------------------
(* No search has begun.                                                    *)
LEMMA InitInv == Init => Inv
<1> SUFFICES ASSUME Init PROVE Inv
    OBVIOUS
<1>1. native = [mode |-> "pin", first |-> 0, sequence |-> 0, selected |-> FirstSubset,
                count |-> 0, late |-> FALSE, answer |-> "none", hit |-> NoHit,
                digestHit |-> Whole]
    BY DEF Init, Request, RequestSequence
<1>2. stage = "pin" /\ trial = 0
    BY DEF Init
<1> QED BY <1>1, <1>2 DEF Inv, NativeInv, SpendInv, TrialInv, WitnessSignsTx, Searching, Ended

(* The native process changes its own state only, and while it runs.       *)
LEMMA NativeForm ==
    ASSUME Inv, Native \/ TimePasses
    PROVE  /\ PythonWaits /\ Running /\ NativeInv'
           /\ UNCHANGED <<native.mode, native.first>>
           /\ \/ native'.count = native.count + 1
              \/ native'.count = native.count
<1> USE DEF Inv, NativeInv
<1>1. CASE StopWithoutHit
    BY <1>1 DEF StopWithoutHit, Answer, PythonWaits
<1>2. CASE StopAtSpace
    BY <1>2 DEF StopAtSpace, Answer, PythonWaits
<1>3. CASE Hit
  <2>1. native' = [mode |-> native.mode, first |-> native.first,
                   sequence |-> CandidateSequence, selected |-> native.selected,
                   count |-> native.count + 1, late |-> native.late, answer |-> "found",
                   hit |-> native'.hit, digestHit |-> native'.digestHit]
      BY <1>3 DEF Hit
  <2>2. Running /\ PythonWaits
      BY <1>3 DEF Hit, Tries
  <2> QED BY <2>1, <2>2 DEF PythonWaits
<1>4. CASE Miss
  <2>1. native' = [mode |-> native.mode, first |-> native.first,
                   sequence |-> native.sequence, selected |-> native'.selected,
                   count |-> native.count + 1, late |-> native.late, answer |-> native.answer,
                   hit |-> native.hit, digestHit |-> native.digestHit]
      BY <1>4 DEF Miss
  <2>2. Running /\ PythonWaits
      BY <1>4 DEF Miss, Tries
  <2> QED BY <2>1, <2>2 DEF PythonWaits
<1>5. CASE MissLast
  <2>1. native' = [mode |-> native.mode, first |-> native.first,
                   sequence |-> native.sequence, selected |-> native.selected,
                   count |-> native.count + 1, late |-> native.late, answer |-> "space",
                   hit |-> native.hit, digestHit |-> native.digestHit]
      BY <1>5 DEF MissLast, LastMissAnswer
  <2>2. Running /\ PythonWaits
      BY <1>5 DEF MissLast, Tries
  <2> QED BY <2>1, <2>2 DEF PythonWaits
<1>6. CASE TimePasses
    BY <1>6 DEF TimePasses, PythonWaits
<1> QED BY <1>1, <1>2, <1>3, <1>4, <1>5, <1>6 DEF Native

(* A subset search keeps the sequence the pinning hit set.                 *)
LEMMA NativeSpend == Inv /\ (Native \/ TimePasses) => SpendInv'
<1> SUFFICES ASSUME Inv, Native \/ TimePasses PROVE SpendInv'
    OBVIOUS
<1>1. PythonWaits /\ Running /\ native'.mode = native.mode
    BY NativeForm
<1>2. native.mode = "subset" => native'.sequence = native.sequence
  <2> SUFFICES ASSUME native.mode = "subset" PROVE native'.sequence = native.sequence
      OBVIOUS
  <2>1. CASE Hit
    <3>1. native'.sequence = CandidateSequence
        BY <2>1 DEF Hit, Inv, NativeInv
    <3> QED BY <3>1 DEF CandidateSequence
  <2>2. CASE StopWithoutHit \/ StopAtSpace \/ Miss \/ MissLast \/ TimePasses
      BY <2>2 DEF StopWithoutHit, StopAtSpace, Miss, MissLast, TimePasses, Answer, Inv, NativeInv
  <2> QED BY <2>1, <2>2 DEF Native
<1> QED BY <1>1, <1>2 DEF Inv, SpendInv, WitnessSignsTx, PythonWaits

(* A trial's process passes over no reusable sequence.                     *)
LEMMA NativeTrial == Inv /\ (Native \/ TimePasses) => TrialInv'
<1> SUFFICES ASSUME Inv, Native \/ TimePasses PROVE TrialInv'
    OBVIOUS
<1>u. trial' = trial
    BY NativeForm DEF PythonWaits
<1> SUFFICES ASSUME trial > 0 PROVE TrialInv'
    BY <1>u DEF TrialInv
<1>t. /\ NativeInv /\ native.mode = "frozen" /\ native.first = 0
      /\ Reusable \subseteq Counters /\ native.count \in Nat
      /\ native.answer = "none" /\ Searched(native.count)
      /\ stage \in Searching
    BY NativeForm DEF Inv, TrialInv, NativeInv, Running
<1>w. PythonWaits /\ native'.mode = native.mode /\ native'.first = native.first
    BY NativeForm
<1>s. /\ Reusable' = Reusable /\ stage' = stage /\ stage \in {"frozen"} /\ trial' = trial
      /\ \A n : Searched(n)' <=> Searched(n)
    BY <1>w, <1>t DEF PythonWaits, Reusable, Searched, Inv, TrialInv, Searching, Ended
<1>1. CASE StopWithoutHit \/ TimePasses
  <2>1. native'.count = native.count /\ native'.answer \in {"budget", "none"}
      BY <1>1, <1>t DEF StopWithoutHit, TimePasses, Answer, NativeInv
  <2> QED BY <1>t, <1>w, <1>s, <2>1 DEF TrialInv
<1>2. CASE StopAtSpace
  <2>1. native'.count = native.count /\ native'.answer = "space" /\ native.count >= Space
      BY <1>2, <1>t DEF StopAtSpace, Answer, NativeInv, OutOfSpace, Counter
  <2> QED BY <1>t, <1>w, <1>s, <2>1 DEF TrialInv
<1>3. ASSUME Tries PROVE Counter = native.count /\ CandidateSequence = native.count
                         /\ native.count \in Counters
    BY <1>3, <1>t DEF Tries, OutOfSpace, Counter, CandidateSequence, Counters
<1>4. CASE Hit
  <2>1. native'.answer = "found" /\ native'.sequence = native.count
      BY <1>3, <1>4, <1>t DEF Hit, NativeInv
  <2>2. native.count \in Reusable
      BY <1>3, <1>4, <1>t DEF Hit, Passes, PassesPin, PassesFrozen, Reusable
  <2> QED BY <1>t, <1>w, <1>s, <2>1, <2>2 DEF TrialInv
<1>5. CASE Miss
  <2>1. native'.answer = "none" /\ native'.count = native.count + 1
      BY <1>5, <1>t DEF Miss, NativeInv
  <2>2. native.count \notin Reusable
      BY <1>3, <1>5, <1>t DEF Miss, Passes, PassesPin, PassesFrozen, Reusable
  <2>3. Searched(native.count + 1)
      BY <1>t, <2>2 DEF Searched, Counters
  <2> QED BY <1>t, <1>w, <1>s, <2>1, <2>3 DEF TrialInv
<1>6. CASE MissLast
    BY <1>6, <1>t DEF MissLast
<1> QED BY <1>1, <1>2, <1>4, <1>5, <1>6 DEF Native

(* Python reads an answer, and asks for the next search or ends.           *)
LEMMA PythonKeepsInv == Inv /\ (Python \/ NativeFails) => Inv'
<1> SUFFICES ASSUME Inv, Python \/ NativeFails PROVE Inv'
    OBVIOUS
<1> USE DEF Inv, NativeInv, SpendInv, WitnessSignsTx, TrialInv, Searching, Ended, Answered
<1>e. ASSUME NEW outcome \in Ended, Ends(outcome) PROVE Inv'
  <2>1. UNCHANGED <<native, trial, sequence, pin, digest, honest, reuseHits>> /\ stage' \in Ended
      BY <1>e DEF Ends
  <2> QED BY <2>1 DEF Reusable, Searched
<1>1. CASE PinFound
  <2>1. trial = 0 /\ trial' = 0
      BY <1>1 DEF PinFound
  <2>2. /\ native' = [mode |-> "subset", first |-> 0, sequence |-> native.sequence,
                      selected |-> FirstSubset, count |-> 0, late |-> FALSE, answer |-> "none",
                      hit |-> NoHit, digestHit |-> Whole]
        /\ sequence' = native.sequence /\ pin' = native.hit
        /\ \/ stage' = "subset" /\ native.hit.digest = <<native.sequence, Whole>>
           \/ stage' = "failed"
      BY <1>1 DEF PinFound, Request, RequestSequence, Checked, Agrees
  <2> QED BY <2>1, <2>2
<1>2. CASE PinNotFound \/ SubsetNotFound \/ FrozenNotFound \/ Finish \/ NativeFails
    BY <1>2, <1>e DEF PinNotFound, SubsetNotFound, FrozenNotFound, Finish, NativeFails
<1>3. CASE SubsetFound
  <2>1. trial = 0 /\ trial' = 0 /\ UNCHANGED <<native, pin>>
      BY <1>3 DEF SubsetFound
  <2>2. /\ sequence' = native.sequence /\ native.sequence = sequence
        /\ pin.digest = <<sequence, Whole>>
        /\ digest' = native.hit.digest /\ honest' = <<native.sequence, native.selected>>
        /\ \/ stage' = "spent" /\ native.hit.digest = <<native.sequence, native.selected>>
           \/ stage' = "failed"
      BY <1>3 DEF SubsetFound, Checked, Agrees
  <2> QED BY <2>1, <2>2
<1>4. CASE SubsetsExhausted
  <2>1. trial = 0 /\ trial' = 0 /\ stage' = "pin"
      BY <1>4 DEF SubsetsExhausted
  <2>2. native' = [mode |-> "pin", first |-> NextCounter, sequence |-> sequence,
                   selected |-> FirstSubset, count |-> 0, late |-> FALSE, answer |-> "none",
                   hit |-> NoHit, digestHit |-> Whole]
      BY <1>4 DEF SubsetsExhausted, Request, RequestSequence
  <2> QED BY <2>1, <2>2
<1>5. CASE StartTrial
  <2>1. trial' = trial + 1 /\ stage' = "frozen"
      BY <1>5 DEF StartTrial
  <2>2. native' = [mode |-> "frozen", first |-> 0, sequence |-> 0,
                   selected |-> honest[2], count |-> 0, late |-> FALSE, answer |-> "none",
                   hit |-> NoHit, digestHit |-> Whole]
      BY <1>5 DEF StartTrial, Request, RequestSequence
  <2>3. Reusable' \subseteq Counters
      BY <1>5 DEF StartTrial, Reusable
  <2>4. Searched(0)'
      BY <2>3 DEF Searched, Counters
  <2>5. native'.count = 0
      BY <2>2
  <2> QED BY <2>1, <2>2, <2>3, <2>4, <2>5 DEF Searched
<1>6. CASE FrozenFound
  <2>1. /\ UNCHANGED <<reuseHits, trial, honest, native>> /\ native.answer = "found"
        /\ sequence' = native.sequence /\ pin' = native.hit /\ digest' = native.digestHit
        /\ \/ /\ stage' = "spent"
              /\ native.hit.digest = <<native.sequence, Whole>>
              /\ native.digestHit = <<native.sequence, honest[2]>>
           \/ stage' = "failed"
      BY <1>6 DEF FrozenFound, Checked, Agrees
  <2>2. UNCHANGED Reusable /\ \A n : Searched(n)' <=> Searched(n)
      BY <2>1 DEF Reusable, Searched
  <2> QED BY <2>1, <2>2
<1> QED BY <1>1, <1>2, <1>3, <1>4, <1>5, <1>6 DEF Python

(* Every step keeps the invariant.                                         *)
LEMMA StepInv == Inv /\ [Next]_vars => Inv'
<1> SUFFICES ASSUME Inv, [Next]_vars PROVE Inv'
    OBVIOUS
<1>1. CASE Native \/ TimePasses
    BY <1>1, NativeForm, NativeSpend, NativeTrial DEF Inv
<1>2. CASE UNCHANGED vars
    BY <1>2 DEF vars, Inv, NativeInv, SpendInv, TrialInv, WitnessSignsTx, Reusable, Searched
<1> QED BY <1>1, <1>2, PythonKeepsInv DEF Next

-----------------------------------------------------------------------------
(* The invariant holds throughout.                                         *)
THEOREM Invariance == Spec => []Inv
BY InitInv, StepInv, PTL DEF Spec

(* Both puzzles of the witness are hits of the transaction as it is.       *)
THEOREM WitnessSigns == Spec => []WitnessSignsTx
<1>1. Inv => WitnessSignsTx BY DEF Inv, SpendInv
<1> QED BY <1>1, Invariance, PTL

(* A trial finds the least reusable sequence, or has missed none.          *)
THEOREM FrozenLeast == Spec => []FrozenFindsLeast
<1>1. Inv => FrozenFindsLeast
  <2> SUFFICES ASSUME Inv, trial > 0
               PROVE  /\ stage = "spent" => sequence \in Reusable /\ sequence = Min(Reusable)
                      /\ native.answer = "space" => Reusable = {}
                      /\ native.answer = "budget" => \A c \in Reusable : c >= native.count
      BY DEF FrozenFindsLeast
  <2>1. /\ Reusable \subseteq Nat /\ \A c \in Reusable : c < Space
        /\ native.count \in Nat
      BY DEF Inv, TrialInv, NativeInv, Counters
  <2>2. ASSUME stage = "spent" PROVE sequence \in Reusable /\ sequence = Min(Reusable)
    <3>1. sequence \in Reusable /\ \A c \in Reusable : sequence <= c
        BY <2>1, <2>2 DEF Inv, TrialInv, Searched
    <3>2. \A m \in Reusable : (\A c \in Reusable : m <= c) => m = sequence
        BY <2>1, <3>1
    <3> QED BY <3>1, <3>2 DEF Min
  <2>3. ASSUME native.answer = "space" PROVE Reusable = {}
    <3>1. \A c \in Reusable : c >= native.count /\ native.count >= Space
        BY <2>3 DEF Inv, TrialInv, Searched
    <3> QED BY <2>1, <3>1
  <2>4. native.answer = "budget" => \A c \in Reusable : c >= native.count
      BY DEF Inv, TrialInv, Searched
  <2> QED BY <2>2, <2>3, <2>4
<1> QED BY <1>1, Invariance, PTL

-----------------------------------------------------------------------------
(* The subset search stands where it has counted to, and what it has       *)
(* passed over misses.                                                     *)
Missed(u) == <<native.sequence, u>> \notin subHits
SubsetInv ==
    native.mode = "subset" =>
        /\ native.selected \in Subsets
        /\ native.answer \in {"none", "budget"} => Rank[native.selected] = native.count
        /\ \A u \in Subsets : Less(u, native.selected) => Missed(u)
        /\ native.answer = "space" =>
             native.count = Cardinality(Subsets) /\ \A u \in Subsets : Missed(u)
        /\ native.answer = "found" =>
             /\ <<native.sequence, native.selected>> \in subHits
             /\ native.hit.digest = <<native.sequence, native.selected>>

(* The counters below n hold no solution.                                  *)
NoSolutionBelow(n) == \A d \in pinHits, u \in Subsets : d < n => <<d, u>> \notin subHits

(* What the lifecycle has pinned, and passed over on the way there.        *)
LifeInv ==
    /\ pinHits \subseteq Counters /\ subHits \subseteq Counters \X Subsets
    /\ stage \in {"pin", "subset"} => honest = <<>> /\ trial = 0
    /\ stage \in {"frozen", "spent", "done"} => honest # <<>>
    /\ stage = "pin" =>
         /\ native.mode = "pin" /\ native.first \in Nat
         /\ native.answer # "found" => NoSolutionBelow(Counter)
         /\ native.answer = "found" =>
              /\ native.sequence \in pinHits /\ native.hit.winner = native.sequence
              /\ NoSolutionBelow(native.sequence)
    /\ stage = "subset" =>
         /\ native.sequence \in pinHits /\ pin.winner = native.sequence
         /\ NoSolutionBelow(native.sequence)

SearchInv == SubsetInv /\ LifeInv

(* No transaction has been searched.                                       *)
LEMMA InitSearch == Init => SearchInv
<1> SUFFICES ASSUME Init PROVE SearchInv
    OBVIOUS
<1>1. native = [mode |-> "pin", first |-> 0, sequence |-> 0, selected |-> FirstSubset,
                count |-> 0, late |-> FALSE, answer |-> "none", hit |-> NoHit,
                digestHit |-> Whole]
    BY DEF Init, Request, RequestSequence
<1>2. stage = "pin" /\ trial = 0 /\ honest = <<>>
    BY DEF Init
<1>3. pinHits \subseteq Counters /\ subHits \subseteq Counters \X Subsets
    BY DEF Init, kSubset
<1>4. NoSolutionBelow(0) /\ Counter = 0
    BY <1>1, <1>3 DEF NoSolutionBelow, Counters, Counter
<1>5. SubsetInv
    BY <1>1 DEF SubsetInv
<1>6. LifeInv
    BY <1>1, <1>2, <1>3, <1>4 DEF LifeInv
<1> QED BY <1>5, <1>6 DEF SearchInv

(* The oracle does not change, and only a finished subset search changes   *)
(* what the lifecycle has returned; an ended run stays ended.              *)
LEMMA StepForm ==
    ASSUME Inv, [Next]_vars
    PROVE  /\ UNCHANGED oracle
           /\ SubsetFound \/ (UNCHANGED honest /\ (stage \in Ended => stage' = stage))
<1>1. CASE Native \/ TimePasses
    BY <1>1, NativeForm DEF PythonWaits
<1>2. CASE Python \/ NativeFails
    BY <1>2 DEF Python, PinFound, PinNotFound, SubsetFound, SubsetNotFound, SubsetsExhausted,
                StartTrial, FrozenFound, FrozenNotFound, Finish, NativeFails, Ends, Answered,
                Running, Searching, Ended
<1>3. CASE UNCHANGED vars
    BY <1>3 DEF vars
<1> QED BY <1>1, <1>2, <1>3 DEF Next

(* What a prefix of the counters holds does not change.                    *)
LEMMA OracleSteady ==
    ASSUME UNCHANGED oracle
    PROVE  \A n : NoSolutionBelow(n)' <=> NoSolutionBelow(n)
BY DEF oracle, NoSolutionBelow

(* What a counter without a solution adds.                                 *)
LEMMA OneMoreCounter ==
    ASSUME NEW n \in Nat, pinHits \subseteq Counters, NoSolutionBelow(n),
           n \notin pinHits \/ \A u \in Subsets : <<n, u>> \notin subHits
    PROVE  NoSolutionBelow(n + 1)
<1> SUFFICES ASSUME NEW d \in pinHits, NEW u \in Subsets, d < n + 1
             PROVE  <<d, u>> \notin subHits
    BY DEF NoSolutionBelow
<1>1. d \in Nat
    BY DEF Counters
<1>2. CASE d < n
    BY <1>2 DEF NoSolutionBelow
<1>3. CASE d = n
    BY <1>3
<1> QED BY <1>1, <1>2, <1>3

(* The candidate loop walks the subsets in order, each as it should be.    *)
LEMMA NativeSubset == Inv /\ SubsetInv /\ (Native \/ TimePasses) => SubsetInv'
<1> SUFFICES ASSUME Inv, SubsetInv, Native \/ TimePasses, native'.mode = "subset"
             PROVE  SubsetInv'
    BY DEF SubsetInv
<1>1. /\ PythonWaits /\ Running /\ native.mode = "subset" /\ NativeInv /\ native.answer = "none"
      /\ native.count \in Nat
    BY NativeForm DEF Inv, NativeInv, Running
<1>2. /\ native.selected \in Subsets /\ Rank[native.selected] = native.count
      /\ \A u \in Subsets : Less(u, native.selected) => Missed(u)
    BY <1>1 DEF SubsetInv
<1>3. subHits' = subHits
    BY <1>1 DEF PythonWaits, oracle
<1>4. CandidateDigest = <<native.sequence, native.selected>> /\ CandidateSequence = native.sequence
    BY <1>1 DEF CandidateDigest, CandidateSequence
<1>5. CASE StopWithoutHit \/ TimePasses
  <2>1. /\ native'.selected = native.selected /\ native'.sequence = native.sequence
        /\ native'.count = native.count /\ native'.answer \in {"none", "budget"}
      BY <1>1, <1>5 DEF StopWithoutHit, TimePasses, Answer, NativeInv
  <2> QED BY <1>2, <1>3, <2>1 DEF SubsetInv, Missed
<1>6. CASE StopAtSpace
    BY <1>1, <1>6 DEF StopAtSpace, OutOfSpace
<1>7. CASE Hit
  <2>1. /\ native'.selected = native.selected /\ native'.sequence = native.sequence
        /\ native'.answer = "found" /\ native'.hit.digest = <<native.sequence, native.selected>>
      BY <1>1, <1>4, <1>7 DEF Hit, NativeInv
  <2>2. <<native.sequence, native.selected>> \in subHits
      BY <1>1, <1>4, <1>7 DEF Hit, Passes
  <2> QED BY <1>2, <1>3, <2>1, <2>2 DEF SubsetInv, Missed
<1>8. ASSUME Tries, ~Passes PROVE Missed(native.selected)
    BY <1>1, <1>4, <1>8 DEF Passes, Missed
<1>9. CASE Miss
  <2>1. /\ native'.selected = Successor(native.selected) /\ native'.sequence = native.sequence
        /\ native'.count = native.count + 1 /\ native'.answer = "none"
        /\ Movable(native.selected) # {}
      BY <1>1, <1>9 DEF Miss, NativeInv
  <2>2. Missed(native.selected)
      BY <1>8, <1>9 DEF Miss
  <2>3. Rank[Successor(native.selected)] = native.count + 1
      BY <1>2, <2>1, RankNext
  <2>4. PICK t \in Subsets : /\ t = Successor(native.selected)
                             /\ \A u \in Subsets : Less(u, t) <=> Less(u, native.selected) \/ u = native.selected
      BY <1>2, <2>1, SuccessorIsNext
  <2>5. \A u \in Subsets : Less(u, t) => Missed(u)
      BY <1>2, <2>2, <2>4
  <2> QED BY <1>3, <2>1, <2>3, <2>4, <2>5 DEF SubsetInv, Missed
<1>10. CASE MissLast
  <2>1. /\ native'.selected = native.selected /\ native'.sequence = native.sequence
        /\ native'.count = native.count + 1 /\ native'.answer = "space"
        /\ Movable(native.selected) = {}
      BY <1>1, <1>10 DEF MissLast, LastMissAnswer, NativeInv
  <2>2. Missed(native.selected)
      BY <1>8, <1>10 DEF MissLast
  <2>3. native.count + 1 = Cardinality(Subsets)
      BY <1>2, <2>1, RankLast
  <2>4. \A u \in Subsets : Missed(u)
      BY <1>2, <2>1, <2>2, UnmovableIsLast
  <2> QED BY <1>2, <1>3, <2>1, <2>3, <2>4 DEF SubsetInv, Missed
<1> QED BY <1>5, <1>6, <1>7, <1>9, <1>10 DEF Native

(* A subset search is asked for with the first subset.                     *)
LEMMA PythonSubset == Inv /\ SubsetInv /\ (Python \/ NativeFails) => SubsetInv'
<1> SUFFICES ASSUME Inv, SubsetInv, Python \/ NativeFails PROVE SubsetInv'
    OBVIOUS
<1>1. CASE PinFound
  <2>1. native' = [mode |-> "subset", first |-> 0, sequence |-> native.sequence,
                   selected |-> FirstSubset, count |-> 0, late |-> FALSE, answer |-> "none",
                   hit |-> NoHit, digestHit |-> Whole]
      BY <1>1 DEF PinFound, Request, RequestSequence
  <2> QED BY <2>1, RankFirst, FirstIsFirst DEF SubsetInv
<1>2. CASE SubsetsExhausted \/ StartTrial
  <2>1. native'.mode \in {"pin", "frozen"}
      BY <1>2 DEF SubsetsExhausted, StartTrial, Request, RequestSequence
  <2> QED BY <2>1 DEF SubsetInv
<1>3. CASE UNCHANGED <<native, oracle>>
    BY <1>3 DEF SubsetInv, Missed, oracle
<1>4. PinFound \/ SubsetsExhausted \/ StartTrial \/ UNCHANGED <<native, oracle>>
    BY DEF Python, PinNotFound, SubsetFound, SubsetNotFound, FrozenFound, FrozenNotFound, Finish,
           NativeFails, Ends
<1> QED BY <1>1, <1>2, <1>3, <1>4

(* The pinning loop passes over no counter that has a solution.            *)
LEMMA NativeLife == Inv /\ LifeInv /\ (Native \/ TimePasses) => LifeInv'
<1> SUFFICES ASSUME Inv, LifeInv, Native \/ TimePasses PROVE LifeInv'
    OBVIOUS
<1>1. /\ PythonWaits /\ Running /\ NativeInv /\ native.answer = "none" /\ native.count \in Nat
      /\ native'.mode = native.mode /\ native'.first = native.first
    BY NativeForm DEF Inv, NativeInv, Running
<1>2. UNCHANGED <<pinHits, subHits, stage, trial, honest, pin>>
    BY <1>1 DEF PythonWaits, oracle
<1>3. \A n : NoSolutionBelow(n)' <=> NoSolutionBelow(n)
    BY <1>1, OracleSteady DEF PythonWaits
<1>4. ASSUME stage = "subset"
      PROVE  native'.sequence = native.sequence
  <2>1. SpendInv' /\ UNCHANGED sequence
      BY <1>1, NativeSpend DEF PythonWaits
  <2> QED BY <1>2, <1>4, <2>1 DEF Inv, SpendInv
<1>5. ASSUME stage = "pin"
      PROVE  /\ native'.mode = "pin" /\ native'.first \in Nat
             /\ native'.answer # "found" => NoSolutionBelow(Counter')
             /\ native'.answer = "found" =>
                  /\ native'.sequence \in pinHits /\ native'.hit.winner = native'.sequence
                  /\ NoSolutionBelow(native'.sequence)
  <2>1. /\ native.mode = "pin" /\ native.first \in Nat /\ trial = 0
        /\ NoSolutionBelow(Counter) /\ pinHits \subseteq Counters
      BY <1>1, <1>5 DEF LifeInv
  <2>2. Counter \in Nat /\ Counter = native.first + native.count
      BY <1>1, <2>1 DEF Counter
  <2>3. Counter' = native.first + native'.count
      BY <1>1 DEF Counter
  <2>4. CASE StopWithoutHit \/ StopAtSpace \/ TimePasses
    <3>1. native'.count = native.count /\ native'.answer # "found"
        BY <1>1, <2>4 DEF StopWithoutHit, StopAtSpace, TimePasses, Answer, NativeInv
    <3>2. Counter' = Counter
        BY <2>2, <2>3, <3>1
    <3> QED BY <1>1, <2>1, <3>1, <3>2
  <2>5. CASE Hit
    <3>1. /\ native'.answer = "found" /\ native'.sequence = CandidateSequence
          /\ native'.hit.winner = Counter
        BY <1>1, <2>5 DEF Hit, NativeInv
    <3>2. Counter < Space
        BY <2>1, <2>2, <2>5 DEF Hit, Tries, OutOfSpace
    <3>3. CandidateSequence = Counter
        BY <2>1, <2>2, <3>2 DEF CandidateSequence
    <3>4. Counter \in pinHits
        BY <2>1, <2>5, <3>3 DEF Hit, Passes, PassesPin
    <3> QED BY <1>1, <2>1, <3>1, <3>3, <3>4
  <2>6. CASE Miss
    <3>1. native'.answer = "none" /\ native'.count = native.count + 1
        BY <1>1, <2>6 DEF Miss, NativeInv
    <3>2. Counter < Space
        BY <2>1, <2>2, <2>6 DEF Miss, Tries, OutOfSpace
    <3>3. CandidateSequence = Counter
        BY <2>1, <2>2, <3>2 DEF CandidateSequence
    <3>4. Counter \notin pinHits
        BY <2>1, <2>6, <3>3 DEF Miss, Passes, PassesPin
    <3>5. NoSolutionBelow(Counter + 1)
        BY <2>1, <2>2, <3>4, OneMoreCounter
    <3>6. Counter' = Counter + 1
        BY <1>1, <2>1, <2>2, <2>3, <3>1
    <3> QED BY <1>1, <2>1, <3>1, <3>5, <3>6
  <2>7. CASE MissLast
      BY <2>1, <2>7 DEF MissLast
  <2> QED BY <2>4, <2>5, <2>6, <2>7 DEF Native
<1>6. stage = "pin" /\ native'.answer # "found" => NoSolutionBelow(Counter)'
  <2> SUFFICES ASSUME stage = "pin", native'.answer # "found" PROVE NoSolutionBelow(Counter)'
      OBVIOUS
  <2>1. NoSolutionBelow(Counter')
      BY <1>5
  <2> QED BY <1>2, <2>1 DEF NoSolutionBelow
<1>7. stage = "pin" /\ native'.answer = "found" => NoSolutionBelow(native.sequence)'
  <2> SUFFICES ASSUME stage = "pin", native'.answer = "found" PROVE NoSolutionBelow(native.sequence)'
      OBVIOUS
  <2>1. NoSolutionBelow(native'.sequence)
      BY <1>5
  <2> QED BY <1>2, <2>1 DEF NoSolutionBelow
<1>8. stage = "subset" => NoSolutionBelow(native.sequence)'
  <2> SUFFICES ASSUME stage = "subset" PROVE NoSolutionBelow(native.sequence)'
      OBVIOUS
  <2>1. NoSolutionBelow(native'.sequence)
      BY <1>4 DEF LifeInv
  <2> QED BY <1>2, <2>1 DEF NoSolutionBelow
<1> QED BY <1>2, <1>4, <1>5, <1>6, <1>7, <1>8 DEF LifeInv

(* A pin is followed by its subsets, and exhausted subsets by the next pin.*)
LEMMA PythonLife == Inv /\ SearchInv /\ (Python \/ NativeFails) => LifeInv'
<1> SUFFICES ASSUME Inv, SearchInv, Python \/ NativeFails PROVE LifeInv'
    OBVIOUS
<1>1. LifeInv /\ SubsetInv /\ UNCHANGED <<pinHits, subHits>>
    BY StepForm DEF SearchInv, Next, oracle
<1>2. pinHits \subseteq Counters /\ subHits \subseteq Counters \X Subsets
    BY <1>1 DEF LifeInv
<1>e. ASSUME stage' \in {"exhausted", "failed"} PROVE LifeInv'
    BY <1>1, <1>2, <1>e DEF LifeInv
<1>3. CASE PinFound
  <2>1. /\ stage = "pin" /\ native.answer = "found" /\ UNCHANGED <<honest, trial>>
        /\ pin' = native.hit /\ stage' \in {"subset", "failed"}
        /\ native'.sequence = native.sequence
      BY <1>3 DEF PinFound, Answered, Checked, Request, RequestSequence
  <2>2. /\ honest = <<>> /\ trial = 0 /\ native.sequence \in pinHits
        /\ native.hit.winner = native.sequence /\ NoSolutionBelow(native.sequence)
      BY <1>1, <2>1 DEF LifeInv
  <2>3. NoSolutionBelow(native.sequence)'
      BY <1>1, <2>1, <2>2 DEF NoSolutionBelow
  <2> QED BY <1>1, <1>2, <2>1, <2>2, <2>3 DEF LifeInv
<1>4. CASE SubsetFound
  <2>1. honest' = <<native.sequence, native.selected>> /\ stage' \in {"spent", "failed"}
      BY <1>4 DEF SubsetFound, Checked
  <2>2. honest' # <<>>
      BY <2>1
  <2> QED BY <1>1, <1>2, <2>1, <2>2 DEF LifeInv
<1>5. CASE SubsetsExhausted
  <2>1. /\ stage = "subset" /\ native.answer = "space" /\ UNCHANGED <<honest, trial>>
        /\ stage' = "pin"
      BY <1>5 DEF SubsetsExhausted, Answered
  <2>2. native' = [mode |-> "pin", first |-> pin.winner + 1, sequence |-> sequence,
                   selected |-> FirstSubset, count |-> 0, late |-> FALSE, answer |-> "none",
                   hit |-> NoHit, digestHit |-> Whole]
      BY <1>5 DEF SubsetsExhausted, NextCounter, Request, RequestSequence
  <2>3. /\ honest = <<>> /\ trial = 0 /\ native.sequence \in pinHits
        /\ pin.winner = native.sequence /\ NoSolutionBelow(native.sequence)
      BY <1>1, <2>1 DEF LifeInv
  <2>4. \A u \in Subsets : <<native.sequence, u>> \notin subHits
      BY <1>1, <2>1 DEF SubsetInv, Inv, SpendInv, Missed
  <2>c. native.sequence \in Counters
      BY <1>2, <2>3
  <2>n. native.sequence \in Nat
      BY <2>c DEF Counters
  <2>5. PICK n \in Nat : n = native.sequence
      BY <2>n
  <2>6. NoSolutionBelow(n + 1)
      BY <1>2, <2>3, <2>4, <2>5, OneMoreCounter
  <2>7. Counter' = n + 1 /\ native'.first \in Nat
      BY <2>2, <2>3, <2>5 DEF Counter
  <2>8. NoSolutionBelow(Counter)'
      BY <1>1, <2>6, <2>7 DEF NoSolutionBelow
  <2> QED BY <1>1, <1>2, <2>1, <2>2, <2>3, <2>7, <2>8 DEF LifeInv
<1>6. CASE StartTrial \/ FrozenFound \/ Finish
  <2>1. /\ stage \in {"spent", "frozen"} /\ stage' \in {"frozen", "spent", "done", "failed"}
        /\ honest' = honest
      BY <1>6 DEF StartTrial, FrozenFound, Finish, Answered, Checked, Ends
  <2> QED BY <1>1, <1>2, <2>1 DEF LifeInv
<1>7. CASE PinNotFound \/ SubsetNotFound \/ FrozenNotFound \/ NativeFails
    BY <1>7, <1>e DEF PinNotFound, SubsetNotFound, FrozenNotFound, NativeFails, Ends
<1> QED BY <1>3, <1>4, <1>5, <1>6, <1>7 DEF Python

(* Every step keeps the invariant of the search.                           *)
LEMMA StepSearch == Inv /\ SearchInv /\ [Next]_vars => SearchInv'
<1> SUFFICES ASSUME Inv, SearchInv, [Next]_vars PROVE SearchInv'
    OBVIOUS
<1>1. CASE Native \/ TimePasses
    BY <1>1, NativeSubset, NativeLife DEF SearchInv
<1>2. CASE Python \/ NativeFails
    BY <1>2, PythonSubset, PythonLife DEF SearchInv
<1>3. CASE UNCHANGED vars
    BY <1>3 DEF vars, oracle, SearchInv, SubsetInv, LifeInv, Missed, NoSolutionBelow, Counter
<1> QED BY <1>1, <1>2, <1>3 DEF Next

(* The search keeps its place in the order of the subsets throughout.      *)
THEOREM SearchInvariance == Spec => []SearchInv
BY InitSearch, StepSearch, Invariance, PTL DEF Spec

(* A subset search answers "space" only when every subset was tried and    *)
(* none passes, and "budget" only when some were not tried.                *)
THEOREM Exhaustion == Spec => []ExhaustionIsExact
<1>1. SearchInv => ExhaustionIsExact
  <2> SUFFICES ASSUME SubsetInv, native.mode = "subset", native.answer \in {"space", "budget"}
               PROVE  /\ native.answer = "space" <=> native.count = Cardinality(Subsets)
                      /\ \A s \in Subsets : Rank[s] < native.count =>
                            <<native.sequence, s>> \notin subHits
      BY DEF SearchInv, ExhaustionIsExact
  <2>1. CASE native.answer = "space"
      BY <2>1 DEF SubsetInv, Missed
  <2>2. CASE native.answer = "budget"
    <3>1. /\ native.selected \in Subsets /\ Rank[native.selected] = native.count
          /\ \A u \in Subsets : Less(u, native.selected) => Missed(u)
        BY <2>2 DEF SubsetInv
    <3>2. native.count # Cardinality(Subsets)
        BY <3>1, RankType, SubsetsFinite
    <3>3. ASSUME NEW s \in Subsets, Rank[s] < native.count
          PROVE  <<native.sequence, s>> \notin subHits
        BY <3>1, <3>3, RankOrders DEF Missed
    <3> QED BY <2>2, <3>2, <3>3
  <2> QED BY <2>1, <2>2
<1> QED BY <1>1, SearchInvariance, PTL

-----------------------------------------------------------------------------
(* Refinement of SolutionSearch: what the lifecycle returns, with subsets  *)
(* replaced by their ranks.                                                *)
Ranked == {<<h[1], Rank[h[2]]>> : h \in {g \in subHits : g[1] \in pinHits}}
Status ==
    CASE honest # <<>> -> "found"
      [] honest = <<>> /\ stage \in Searching -> "searching"
      [] OTHER -> "budget"
Solution == IF honest = <<>> THEN <<>> ELSE <<honest[1], Rank[honest[2]]>>

(* The lifecycle begins as the promise does.                               *)
LEMMA PromiseInit == Init => Promise!Init
<1> SUFFICES ASSUME Init PROVE Promise!Init
    OBVIOUS
<1>1. pinHits \subseteq Counters /\ subHits \subseteq Counters \X Subsets
    BY InitSearch DEF SearchInv, LifeInv
<1>2. honest = <<>> /\ stage \in Searching
    BY DEF Init, Searching
<1>3. Status = "searching" /\ Solution = <<>>
    BY <1>2 DEF Status, Solution
<1>4. Ranked \in SUBSET (pinHits \X Promise!SubsetIdx)
  <2> SUFFICES ASSUME NEW h \in subHits, h[1] \in pinHits
               PROVE  <<h[1], Rank[h[2]]>> \in pinHits \X Promise!SubsetIdx
      BY DEF Ranked
  <2>1. h[2] \in Subsets
      BY <1>1
  <2>2. Rank[h[2]] \in Nat /\ Rank[h[2]] < Cardinality(Subsets)
      BY <2>1, RankType
  <2>3. Rank[h[2]] \in Promise!SubsetIdx
      BY <2>2, SubsetsFinite DEF Promise!SubsetIdx
  <2> QED BY <2>3
<1> QED BY <1>1, <1>3, <1>4 DEF Promise!Init, Promise!Counters, Counters, Ranked, Status, Solution

(* Every step of the lifecycle and of its trials is a step of              *)
(* SolutionSearch or leaves what the lifecycle returns unchanged.          *)
LEMMA PromiseStep == Inv /\ SearchInv /\ [Next]_vars => [Promise!Next]_(Promise!vars)
<1> SUFFICES ASSUME Inv, SearchInv, [Next]_vars
             PROVE  [Promise!Next]_(Promise!vars)
    OBVIOUS
<1>1. UNCHANGED <<pinHits, subHits, Ranked>>
    BY StepForm DEF oracle, Ranked
<1>2. /\ stage \in Searching \union Ended \union {"spent"}
      /\ stage' \in Searching \union Ended \union {"spent"}
    BY StepInv DEF Inv, NativeInv
<1>s. ASSUME UNCHANGED <<Status, Solution>> PROVE UNCHANGED Promise!vars
    BY <1>1, <1>s DEF Promise!vars, Ranked, Status, Solution
<1>3. CASE UNCHANGED honest /\ honest # <<>>
    BY <1>3, <1>s DEF Status, Solution
<1>4. CASE UNCHANGED honest /\ honest = <<>> /\ stage \in Searching /\ stage' \notin Searching
  <2>1. Status = "searching" /\ Status' = "budget" /\ UNCHANGED Solution
      BY <1>4 DEF Status, Solution
  <2>2. Promise!GiveUp
      BY <1>1, <2>1 DEF Promise!GiveUp, Promise!oracle, Ranked, Status, Solution
  <2> QED BY <2>2 DEF Promise!Next
<1>5. CASE UNCHANGED honest /\ honest = <<>> /\ stage \in Searching /\ stage' \in Searching
    BY <1>5, <1>s DEF Status, Solution
<1>6. CASE UNCHANGED honest /\ honest = <<>> /\ stage \notin Searching /\ ~SubsetFound
  <2>1. stage' = stage
      BY <1>2, <1>6, StepForm DEF SearchInv, LifeInv
  <2> QED BY <1>6, <1>s, <2>1 DEF Status, Solution
<1>7. CASE SubsetFound
  <2>1. PICK c, u : c = native.sequence /\ u = native.selected
      OBVIOUS
  <2>2. /\ stage = "subset" /\ native.answer = "found" /\ honest' = <<c, u>> /\ honest = <<>>
        /\ native.mode = "subset"
      BY <1>7, <2>1 DEF SubsetFound, Answered, SearchInv, LifeInv, Inv, SpendInv
  <2>3. /\ c \in pinHits /\ pinHits \subseteq Counters /\ subHits \subseteq Counters \X Subsets
        /\ u \in Subsets /\ <<c, u>> \in subHits /\ NoSolutionBelow(c)
        /\ \A v \in Subsets : Less(v, u) => <<c, v>> \notin subHits
      BY <2>1, <2>2 DEF SearchInv, SubsetInv, LifeInv, Missed
  <2>4. PICK s \in Promise!SubsetIdx : s = Rank[u] /\ s \in Nat
      BY <2>3, RankType, SubsetsFinite DEF Promise!SubsetIdx
  <2>5. <<c, s>> \in Ranked
      BY <2>3, <2>4 DEF Ranked
  <2>6. ASSUME NEW d \in pinHits, NEW t \in Promise!SubsetIdx, <<d, t>> \in Ranked,
               Promise!Precedes(d, t, c, s)
        PROVE  FALSE
    <3>1. PICK h \in subHits : h[1] \in pinHits /\ <<d, t>> = <<h[1], Rank[h[2]]>>
        BY <2>6 DEF Ranked
    <3>2. h[2] \in Subsets /\ h = <<h[1], h[2]>>
        BY <2>3
    <3>3. PICK v \in Subsets : <<d, v>> \in subHits /\ t = Rank[v]
        BY <3>1, <3>2
    <3>4. CASE d < c
        BY <2>3, <3>3, <3>4 DEF NoSolutionBelow
    <3>5. CASE d = c /\ t < s
      <4>1. Less(v, u)
          BY <2>3, <2>4, <3>3, <3>5, RankOrders
      <4> QED BY <2>3, <3>3, <3>5, <4>1
    <3> QED BY <2>6, <3>4, <3>5 DEF Promise!Precedes
  <2>7. Promise!IsLeastSolution(c, s)
      BY <2>3, <2>5, <2>6 DEF Promise!IsLeastSolution, Promise!IsSolution, Ranked
  <2>8. Status = "searching" /\ Status' = "found"
      BY <2>2 DEF Status, Searching
  <2>9. Solution' = <<c, s>>
      BY <2>2, <2>4 DEF Solution
  <2>10. c \in Promise!Counters
      BY <2>3 DEF Counters, Promise!Counters
  <2>11. Promise!Find
      BY <1>1, <2>4, <2>7, <2>8, <2>9, <2>10 DEF Promise!Find, Promise!oracle, Ranked, Status, Solution
  <2> QED BY <2>11 DEF Promise!Next
<1>8. SubsetFound \/ UNCHANGED honest
    BY StepForm
<1> QED BY <1>3, <1>4, <1>5, <1>6, <1>7, <1>8

(* What a lifecycle returns is the least solution by counter and subset;   *)
(* one that ends otherwise has returned nothing.                           *)
THEOREM Refinement == Spec => FindsLeastSolution
<1>1. Init => Promise!Init
    BY PromiseInit
<1>2. Inv /\ SearchInv /\ [Next]_vars => [Promise!Next]_(Promise!vars)
    BY PromiseStep
<1> QED BY <1>1, <1>2, Invariance, SearchInvariance, PTL DEF Spec, FindsLeastSolution, Promise!Spec

HIDE SearchAssumption

-----------------------------------------------------------------------------
(* The build cache.                                                        *)
USE BuildAssumption DEF Pristine, Missing, Torn

Inputs == [patch : Versions, own : OwnVersions]
Hashed == [patch : Versions \union {Missing}, own : OwnVersions \union {Missing}]
Contents == Versions \union OwnVersions \union {Pristine, Missing}
Sources == [exists : BOOLEAN,
            files : [Files -> Versions \union {Pristine, Missing}],
            stamp : Versions \union {Missing, Torn}]
Manifests == [state : {"missing", "torn", "whole"}, inputs : Hashed,
              binaries : [Objects -> Contents]]
Steps == {"idle", "source", "remove", "unpack", "apply", "stamp", "fill_stamp", "plan",
          "compile", "manifest", "fill_manifest"}

TypeInv ==
    /\ reverts \in BOOLEAN
    /\ inputs \in Inputs
    /\ pc \in Steps
    /\ hashes \in Hashed
    /\ pc # "idle" => hashes \in Inputs
    /\ source \in Sources
    /\ work \subseteq Objects
    /\ newer \subseteq Objects
    /\ objects \in [Objects -> Contents]
    /\ binaries \in [Objects -> Contents]
    /\ manifest \in Manifests

(* Edits that may revert keep out of a build, the others only go forward:  *)
(* what was hashed once and is the content now was the content all along.  *)
OrderInv ==
    /\ reverts /\ pc # "idle" => hashes = inputs
    /\ ~reverts => /\ hashes.patch <= inputs.patch /\ hashes.own <= inputs.own
                   /\ manifest.inputs.patch <= inputs.patch
                   /\ manifest.inputs.own <= inputs.own
                   /\ source.stamp <= inputs.patch

(* The file that version v of the patch leaves.                            *)
LeftBy(v, f) == IF f \in Touches[v] THEN v ELSE Pristine

(* A stamped tree is the one its version left, unless the patch was edited *)
(* while it was made: then it is not the version of any later build.       *)
SourceInv ==
    /\ source.stamp \in Versions /\ (reverts \/ inputs.patch = source.stamp) =>
         \A f \in Files : source.files[f] \in {Missing, LeftBy(source.stamp, f)}
    /\ pc \in {"unpack", "apply", "stamp"} => source.stamp = Missing
    /\ pc = "fill_stamp" => source.stamp = Torn
    /\ pc = "apply" => \A f \in Files : source.files[f] = Pristine
    /\ pc \in {"stamp", "fill_stamp"} /\ inputs.patch = hashes.patch =>
         \A f \in Files : source.files[f] = LeftBy(hashes.patch, f)
    /\ pc \in {"plan", "compile"} => source.stamp = hashes.patch

(* An object Ninja keeps has the content of its source, but for a source   *)
(* no patch has touched.                                                   *)
ObjectInv ==
    /\ Own \notin newer => objects[Own] \in {Missing, inputs.own}
    /\ \A f \in Files : f \notin newer /\ source.files[f] \in Versions =>
         objects[f] \in {Missing, source.files[f]}

(* While Ninja works its list off, all that is out of date is still on it, *)
(* but for a search edited after it was hashed.                            *)
WorkInv ==
    pc = "compile" =>
        /\ Complete
        /\ \A f \in Files : OutOfDate(f) => f \in work
        /\ inputs.own = hashes.own /\ OutOfDate(Own) => Own \in work

(* The binaries were compiled from version v of the inputs.                *)
Fits(b, v) == b[Own] = v.own /\ \A f \in Touches[v.patch] : b[f] = v.patch

BinaryInv ==
    /\ pc \in {"manifest", "fill_manifest"} /\ inputs = hashes => Fits(binaries, hashes)
    /\ manifest.state = "whole" /\ (reverts \/ manifest.inputs = inputs) =>
         Fits(manifest.binaries, manifest.inputs)

BuildInv == TypeInv /\ OrderInv /\ SourceInv /\ ObjectInv /\ WorkInv /\ BinaryInv

-----------------------------------------------------------------------------
(* Nothing is built yet.                                                   *)
LEMMA InitBuild == BuildInit => BuildInv
<1> SUFFICES ASSUME BuildInit PROVE BuildInv
    OBVIOUS
<1> USE DEF BuildInit, NoHashes, Nothing, Nowhere, FirstInputs
<1>1. TypeInv
    BY DEF TypeInv, Inputs, Hashed, Contents, Sources, Manifests, Steps, Objects
<1>2. OrderInv
    BY DEF OrderInv
<1>3. SourceInv /\ ObjectInv /\ WorkInv /\ BinaryInv
  <2>1. /\ source.stamp = Missing /\ \A f \in Files : source.files[f] = Missing
        /\ objects[Own] = Missing /\ \A f \in Files : objects[f] = Missing
        /\ Missing \notin Versions /\ manifest.state = "missing" /\ pc = "idle"
      BY DEF Objects
  <2> QED BY <2>1 DEF SourceInv, ObjectInv, WorkInv, BinaryInv
<1> QED BY <1>1, <1>2, <1>3 DEF BuildInv

(* An edit brings a content of the right kind, and one that is not a       *)
(* revert a later one.                                                     *)
LEMMA EditForm ==
    ASSUME TypeInv, Edit
    PROVE  /\ inputs' \in Inputs /\ UNCHANGED <<reverts, work, pc, hashes, source, objects,
                                                binaries, manifest>>
           /\ newer' \in {newer, newer \union {Own}}
           /\ inputs'.own # inputs.own => newer' = newer \union {Own}
           /\ inputs'.own = inputs.own => reverts \/ newer' = newer
           /\ reverts => pc = "idle"
           /\ ~reverts => /\ inputs'.patch >= inputs.patch /\ inputs'.own >= inputs.own
                          /\ inputs'.patch # inputs.patch \/ inputs'.own # inputs.own
<1>1. PICK name \in {"patch", "own"}, v \in Versions \union OwnVersions :
          /\ v \in IF name = "own" THEN OwnVersions ELSE Versions
          /\ IF reverts THEN pc = "idle" /\ v # inputs[name] ELSE v > inputs[name]
          /\ inputs' = [inputs EXCEPT ![name] = v]
          /\ newer' = IF name = "own" THEN newer \union {Own} ELSE newer
    BY DEF Edit
<1>2. UNCHANGED <<reverts, work, pc, hashes, source, objects, binaries, manifest>>
    BY DEF Edit
<1>3. CASE name = "own"
  <2>1. inputs'.own = v /\ inputs'.patch = inputs.patch /\ inputs' \in Inputs
      BY <1>1, <1>3 DEF TypeInv, Inputs
  <2>2. IF reverts THEN pc = "idle" /\ v # inputs.own ELSE v > inputs.own
      BY <1>1, <1>3
  <2>3. /\ inputs.patch \in Nat /\ inputs.own \in Nat /\ v \in Nat
      BY <1>1, <1>3 DEF TypeInv, Inputs
  <2>4. newer' = newer \union {Own}
      BY <1>1, <1>3
  <2> QED BY <1>2, <2>1, <2>2, <2>3, <2>4
<1>4. CASE name = "patch"
  <2>1. inputs'.patch = v /\ inputs'.own = inputs.own /\ inputs' \in Inputs
      BY <1>1, <1>4 DEF TypeInv, Inputs
  <2>2. IF reverts THEN pc = "idle" /\ v # inputs.patch ELSE v > inputs.patch
      BY <1>1, <1>4
  <2>3. /\ inputs.patch \in Nat /\ inputs.own \in Nat /\ v \in Nat
      BY <1>1, <1>4 DEF TypeInv, Inputs
  <2>4. newer' = newer
      BY <1>1, <1>4
  <2> QED BY <1>2, <2>1, <2>2, <2>3, <2>4
<1> QED BY <1>1, <1>3, <1>4

(* Every action keeps the state well formed.                               *)
LEMMA StepBuildTypes == BuildInv /\ [BuildNext]_buildVars => TypeInv'
<1> SUFFICES ASSUME BuildInv, [BuildNext]_buildVars PROVE TypeInv'
    OBVIOUS
<1>t. TypeInv
    BY DEF BuildInv
<1> USE <1>t DEF TypeInv, Steps, cache
<1>1. CASE Edit
    BY <1>1, EditForm DEF Objects
<1>2. CASE StartBuild
    BY <1>2 DEF StartBuild, Inputs, Hashed
<1>3. CASE KeepSource \/ OtherSource
    BY <1>3 DEF KeepSource, OtherSource
<1>4. CASE RefuseSource \/ Abandon
    BY <1>4 DEF RefuseSource, Abandon, NoHashes, Hashed
<1>5. CASE RemoveEntry
    BY <1>5 DEF RemoveEntry, Sources
<1>6. CASE RemoveDirectory
    BY <1>6 DEF RemoveDirectory, Sources, Nowhere
<1>7. CASE MakeDirectory
    BY <1>7 DEF MakeDirectory, Sources, NewStamp
<1>8. CASE Unpack
    BY <1>8 DEF Unpack, Sources
<1>9. CASE Apply
  <2>1. inputs.patch \in Versions /\ Touches[inputs.patch] \subseteq Objects
      BY DEF Inputs, Objects
  <2>2. source' \in Sources
      BY <1>9, <2>1 DEF Apply, Sources
  <2>3. newer' \subseteq Objects
      BY <1>9, <2>1 DEF Apply
  <2> QED BY <1>9, <2>2, <2>3 DEF Apply
<1>10. CASE TruncateStamp
    BY <1>10 DEF TruncateStamp, Sources
<1>11. CASE FillStamp
    BY <1>11 DEF FillStamp, Sources, Inputs
<1>12. CASE Compile
  <2>1. \A o \in Objects : Content(o) \in Contents
      BY DEF Content, Contents, Objects, Inputs, Sources
  <2> QED BY <1>12, <2>1 DEF Compile
<1>13. CASE Link
    BY <1>13 DEF Link
<1>14. CASE TruncateManifest
    BY <1>14 DEF TruncateManifest, Manifests
<1>15. CASE FillManifest
  <2>1. manifest' \in Manifests
      BY <1>15 DEF FillManifest, RecordedInputs, Manifests
  <2> QED BY <1>15, <2>1 DEF FillManifest, NoHashes, Hashed
<1>16. CASE Plan
    BY <1>16 DEF Plan
<1>17. CASE UNCHANGED buildVars
    BY <1>17 DEF buildVars
<1> QED BY <1>1, <1>2, <1>3, <1>4, <1>5, <1>6, <1>7, <1>8, <1>9, <1>10, <1>11, <1>12, <1>13,
           <1>14, <1>15, <1>16, <1>17 DEF BuildNext, Build

(* What was hashed, stamped or recorded is no later than the inputs.       *)
LEMMA StepOrder == BuildInv /\ [BuildNext]_buildVars => OrderInv'
<1> SUFFICES ASSUME BuildInv, [BuildNext]_buildVars PROVE OrderInv'
    OBVIOUS
<1>t. /\ OrderInv /\ inputs \in Inputs /\ hashes \in Hashed /\ TypeInv
      /\ inputs.patch \in Nat \ {0} /\ inputs.own \in Nat \ {0}
      /\ hashes.patch \in Int /\ hashes.own \in Int /\ source.stamp \in Int
      /\ manifest.inputs.patch \in Int /\ manifest.inputs.own \in Int
      /\ source \in Sources /\ manifest \in Manifests
  <2>1. /\ OrderInv /\ TypeInv /\ inputs \in Inputs /\ hashes \in Hashed
        /\ source \in Sources /\ manifest \in Manifests
      BY DEF BuildInv, TypeInv
  <2>2. inputs.patch \in Nat \ {0} /\ inputs.own \in Nat \ {0}
      BY <2>1 DEF Inputs
  <2>i. /\ \A v \in Versions \union {Missing, Torn} : v \in Int
        /\ \A v \in OwnVersions \union {Missing} : v \in Int
      OBVIOUS
  <2>3. ASSUME NEW h \in Hashed PROVE h.patch \in Int /\ h.own \in Int
    <3>1. h.patch \in Versions \union {Missing} /\ h.own \in OwnVersions \union {Missing}
        BY DEF Hashed
    <3> QED BY <3>1, <2>i
  <2>4. manifest.inputs \in Hashed /\ source.stamp \in Int
    <3>1. source.stamp \in Versions \union {Missing, Torn}
        BY <2>1 DEF Sources
    <3> QED BY <2>1, <2>i, <3>1 DEF Manifests
  <2> QED BY <2>1, <2>2, <2>3, <2>4
<1> USE <1>t DEF OrderInv, cache
<1>1. CASE Edit
  <2>1. inputs'.patch \in Nat /\ inputs'.own \in Nat
      BY <1>1, EditForm DEF Inputs
  <2> QED BY <1>1, <2>1, EditForm
<1>2. CASE StartBuild
    BY <1>2 DEF StartBuild
<1>3. CASE KeepSource \/ OtherSource
    BY <1>3 DEF KeepSource, OtherSource
<1>4. CASE RefuseSource \/ Abandon
    BY <1>4 DEF RefuseSource, Abandon, NoHashes
<1>5. CASE RemoveEntry
  <2>1. source'.stamp \in {source.stamp, Missing}
      BY <1>5 DEF RemoveEntry, Sources
  <2> QED BY <1>5, <2>1 DEF RemoveEntry
<1>6. CASE RemoveDirectory
    BY <1>6 DEF RemoveDirectory, Nowhere
<1>7. CASE MakeDirectory
  <2>1. source'.stamp = Missing
      BY <1>7 DEF MakeDirectory, Sources, NewStamp
  <2> QED BY <1>7, <2>1 DEF MakeDirectory
<1>8. CASE Unpack \/ Apply
  <2>1. source'.stamp = source.stamp
      BY <1>8 DEF Unpack, Apply, Sources
  <2> QED BY <1>8, <2>1 DEF Unpack, Apply
<1>9. CASE TruncateStamp
  <2>1. source'.stamp = Torn
      BY <1>9 DEF TruncateStamp, Sources
  <2> QED BY <1>9, <2>1 DEF TruncateStamp
<1>10. CASE FillStamp
  <2>1. source'.stamp = hashes.patch
      BY <1>10 DEF FillStamp, Sources
  <2> QED BY <1>10, <2>1 DEF FillStamp
<1>11. CASE Plan \/ Compile \/ Link
    BY <1>11 DEF Plan, Compile, Link
<1>12. CASE TruncateManifest
  <2>1. manifest'.inputs = manifest.inputs
      BY <1>12 DEF TruncateManifest, Manifests
  <2> QED BY <1>12, <2>1 DEF TruncateManifest
<1>13. CASE FillManifest
  <2>1. manifest'.inputs = hashes
      BY <1>13 DEF FillManifest, RecordedInputs
  <2> QED BY <1>13, <2>1 DEF FillManifest, NoHashes
<1>14. CASE UNCHANGED buildVars
    BY <1>14 DEF buildVars
<1> QED BY <1>1, <1>2, <1>3, <1>4, <1>5, <1>6, <1>7, <1>8, <1>9, <1>10, <1>11, <1>12, <1>13,
           <1>14 DEF BuildNext, Build

(* A tree is stamped only once it has the files of the version that was    *)
(* hashed, or the patch was edited meanwhile; removing it takes files away.*)
LEMMA StepSource == BuildInv /\ [BuildNext]_buildVars => SourceInv'
<1> SUFFICES ASSUME BuildInv, [BuildNext]_buildVars PROVE SourceInv'
    OBVIOUS
<1>t. /\ OrderInv /\ SourceInv /\ TypeInv /\ inputs \in Inputs /\ source \in Sources
      /\ pc # "idle" => hashes \in Inputs
      /\ Missing \notin Versions /\ Torn \notin Versions
    BY DEF BuildInv, TypeInv
<1> USE <1>t DEF SourceInv, cache
<1>1. CASE Edit
  <2>1. /\ UNCHANGED <<reverts, pc, hashes, source>> /\ inputs' \in Inputs
        /\ reverts => pc = "idle"
        /\ ~reverts => inputs'.patch >= inputs.patch
      BY <1>1, EditForm
  <2>2. CASE reverts
      BY <2>1, <2>2
  <2>3. CASE ~reverts
    <3>1. /\ inputs.patch \in Nat /\ inputs'.patch \in Nat
          /\ source.stamp <= inputs.patch /\ hashes.patch <= inputs.patch
        BY <2>1, <2>3 DEF OrderInv, Inputs
    <3>2. source.stamp \in Versions /\ inputs'.patch = source.stamp => inputs.patch = source.stamp
        BY <2>1, <2>3, <3>1
    <3>3. pc # "idle" /\ inputs'.patch = hashes.patch => inputs.patch = hashes.patch
      <4>1. pc # "idle" => hashes.patch \in Nat
          BY DEF Inputs
      <4> QED BY <2>1, <2>3, <3>1, <4>1
    <3> QED BY <2>1, <2>3, <3>2, <3>3
  <2> QED BY <2>2, <2>3
<1>2. CASE StartBuild
    BY <1>2 DEF StartBuild
<1>3. CASE KeepSource \/ OtherSource
    BY <1>3 DEF KeepSource, OtherSource, Kept, Stamped
<1>4. CASE RefuseSource \/ Abandon
    BY <1>4 DEF RefuseSource, Abandon
<1>5. CASE RemoveEntry
  <2>1. /\ pc = "remove" /\ UNCHANGED <<reverts, inputs, pc, hashes>>
        /\ source'.stamp \in {source.stamp, Missing}
        /\ \A f \in Files : source'.files[f] \in {source.files[f], Missing}
      BY <1>5 DEF RemoveEntry, Sources
  <2> QED BY <2>1
<1>6. CASE RemoveDirectory
    BY <1>6 DEF RemoveDirectory, Nowhere
<1>7. CASE MakeDirectory
  <2>1. source'.stamp = Missing /\ pc' = "unpack"
      BY <1>7 DEF MakeDirectory, Sources, NewStamp
  <2> QED BY <2>1
<1>8. CASE Unpack
  <2>1. /\ source'.stamp = Missing /\ pc' = "apply"
        /\ \A f \in Files : source'.files[f] = Pristine
      BY <1>8 DEF Unpack, Sources
  <2> QED BY <2>1
<1>9. CASE Apply
  <2>1. /\ pc = "apply" /\ pc' = "stamp" /\ UNCHANGED <<inputs, hashes>>
        /\ \A f \in Files : source.files[f] = Pristine
        /\ source'.stamp = Missing
      BY <1>9 DEF Apply, Sources
  <2>2. \A f \in Files : source'.files[f] = LeftBy(inputs.patch, f)
      BY <1>9, <2>1 DEF Apply, LeftBy, Sources
  <2> QED BY <2>1, <2>2
<1>10. CASE TruncateStamp
  <2>1. /\ pc = "stamp" /\ pc' = "fill_stamp" /\ UNCHANGED <<inputs, hashes>>
        /\ source'.stamp = Torn /\ source'.files = source.files
      BY <1>10 DEF TruncateStamp, Sources
  <2> QED BY <2>1
<1>11. CASE FillStamp
  <2>1. /\ pc = "fill_stamp" /\ pc' = "plan" /\ UNCHANGED <<reverts, inputs, hashes>>
        /\ source'.stamp = hashes.patch /\ source'.files = source.files
      BY <1>11 DEF FillStamp, Sources
  <2>2. reverts => inputs.patch = hashes.patch
      BY <2>1 DEF OrderInv
  <2>3. inputs.patch = hashes.patch =>
          \A f \in Files : source'.files[f] = LeftBy(source'.stamp, f)
      BY <2>1
  <2>4. reverts \/ inputs'.patch = source'.stamp => inputs.patch = hashes.patch
      BY <2>1, <2>2
  <2> QED BY <2>1, <2>3, <2>4
<1>12. CASE Plan \/ Compile
    BY <1>12 DEF Plan, Compile
<1>13. CASE Link
    BY <1>13 DEF Link
<1>14. CASE TruncateManifest \/ FillManifest
    BY <1>14 DEF TruncateManifest, FillManifest
<1>15. CASE UNCHANGED buildVars
    BY <1>15 DEF buildVars
<1> QED BY <1>1, <1>2, <1>3, <1>4, <1>5, <1>6, <1>7, <1>8, <1>9, <1>10, <1>11, <1>12, <1>13,
           <1>14, <1>15 DEF BuildNext, Build

(* A source that changes is newer than its object, but for one that is     *)
(* removed or unpacked.                                                    *)
LEMMA StepObjects == BuildInv /\ [BuildNext]_buildVars => ObjectInv'
<1> SUFFICES ASSUME BuildInv, [BuildNext]_buildVars PROVE ObjectInv'
    OBVIOUS
<1>t. /\ ObjectInv /\ inputs \in Inputs /\ source \in Sources /\ newer \subseteq Objects
      /\ objects \in [Objects -> Contents]
      /\ Missing \notin Versions /\ Pristine \notin Versions
      /\ Own \in Objects /\ Own \notin Files /\ Files \subseteq Objects
    BY DEF BuildInv, TypeInv, Objects
<1> USE <1>t DEF ObjectInv, cache
<1>1. CASE Edit
  <2>1. /\ UNCHANGED <<source, objects>>
        /\ newer' \in {newer, newer \union {Own}}
        /\ inputs'.own # inputs.own => newer' = newer \union {Own}
      BY <1>1, EditForm DEF BuildInv
  <2> QED BY <2>1
<1>2. CASE StartBuild \/ KeepSource \/ OtherSource \/ RefuseSource \/ Plan \/ Abandon
    BY <1>2 DEF StartBuild, KeepSource, OtherSource, RefuseSource, Plan, Abandon
<1>3. CASE RemoveEntry
  <2>1. /\ UNCHANGED <<inputs, newer, objects>>
        /\ \A f \in Files : source'.files[f] \in {source.files[f], Missing}
      BY <1>3 DEF RemoveEntry, Sources
  <2> QED BY <2>1
<1>4. CASE RemoveDirectory
    BY <1>4 DEF RemoveDirectory, Nowhere
<1>5. CASE MakeDirectory \/ TruncateStamp \/ FillStamp
  <2>1. UNCHANGED <<inputs, newer, objects>> /\ source'.files = source.files
      BY <1>5 DEF MakeDirectory, TruncateStamp, FillStamp, Sources
  <2> QED BY <2>1
<1>6. CASE Unpack
  <2>1. /\ UNCHANGED <<inputs, objects>> /\ newer' = newer \ Files
        /\ \A f \in Files : source'.files[f] = Pristine
      BY <1>6 DEF Unpack, Sources
  <2> QED BY <2>1
<1>7. CASE Apply
  <2>1. /\ UNCHANGED <<inputs, objects>> /\ newer' = newer \union Touches[inputs.patch]
        /\ \A f \in Files \ Touches[inputs.patch] : source'.files[f] = source.files[f]
      BY <1>7 DEF Apply, Sources
  <2> QED BY <2>1
<1>8. CASE Compile
  <2>1. PICK o \in Objects : /\ objects' = [objects EXCEPT ![o] = Content(o)]
                             /\ newer' = newer \ {o}
      BY <1>8 DEF Compile, BuildInv, TypeInv
  <2>2. UNCHANGED <<inputs, source>>
      BY <1>8 DEF Compile
  <2>3. CASE o = Own
    <3>1. objects'[Own] = inputs.own /\ \A f \in Files : objects'[f] = objects[f]
        BY <2>1, <2>3 DEF Content
    <3> QED BY <2>1, <2>2, <2>3, <3>1
  <2>4. CASE o \in Files
    <3>1. /\ objects'[Own] = objects[Own] /\ objects'[o] = source.files[o]
          /\ \A f \in Files \ {o} : objects'[f] = objects[f]
        BY <2>1, <2>4 DEF Content
    <3> QED BY <2>1, <2>2, <2>4, <3>1
  <2> QED BY <2>3, <2>4 DEF Objects
<1>9. CASE Link \/ TruncateManifest \/ FillManifest
    BY <1>9 DEF Link, TruncateManifest, FillManifest
<1>10. CASE UNCHANGED buildVars
    BY <1>10 DEF buildVars
<1> QED BY <1>1, <1>2, <1>3, <1>4, <1>5, <1>6, <1>7, <1>8, <1>9, <1>10 DEF BuildNext, Build

(* The list names all that was out of date when it was made.  A file leaves*)
(* it compiled; only the search can be edited again meanwhile.             *)
LEMMA StepWork == BuildInv /\ [BuildNext]_buildVars => WorkInv'
<1> SUFFICES ASSUME BuildInv, [BuildNext]_buildVars PROVE WorkInv'
    OBVIOUS
<1>t. /\ TypeInv /\ WorkInv /\ OrderInv /\ inputs \in Inputs /\ source \in Sources
      /\ objects \in [Objects -> Contents]
      /\ Own \in Objects /\ Own \notin Files /\ Files \subseteq Objects
      /\ Missing \notin OwnVersions
    BY DEF BuildInv, TypeInv, Objects
<1> USE <1>t DEF WorkInv, OutOfDate, Complete, cache
<1>1. CASE Edit
  <2>1. /\ UNCHANGED <<work, pc, hashes, source, objects>>
        /\ newer' \in {newer, newer \union {Own}}
        /\ inputs'.own = inputs.own => reverts \/ newer' = newer
        /\ reverts => pc = "idle"
        /\ ~reverts => inputs'.own >= inputs.own
        /\ inputs' \in Inputs
      BY <1>1, EditForm
  <2>2. ASSUME pc = "compile", inputs'.own = hashes.own
        PROVE  inputs.own = hashes.own /\ newer' = newer
    <3>1. ~reverts /\ hashes.own <= inputs.own /\ inputs'.own >= inputs.own
        BY <2>1, <2>2 DEF OrderInv
    <3>2. inputs.own \in Nat /\ inputs'.own \in Nat
        BY <2>1 DEF Inputs
    <3> QED BY <2>1, <2>2, <3>1, <3>2
  <2> QED BY <2>1, <2>2
<1>2. CASE Plan
    BY <1>2 DEF Plan
<1>3. CASE Compile
  <2>1. PICK o \in work : /\ objects' = [objects EXCEPT ![o] = Content(o)]
                          /\ newer' = newer \ {o} /\ work' = work \ {o}
      BY <1>3 DEF Compile
  <2>2. o \in Objects /\ UNCHANGED <<inputs, hashes, source, pc>> /\ pc = "compile"
      BY <1>3 DEF Compile, TypeInv
  <2>3. objects'[o] # Missing
    <3>1. CASE o = Own
        BY <2>1, <2>2, <3>1 DEF Content, Inputs
    <3>2. CASE o \in Files
        BY <2>1, <2>2, <3>2 DEF Content
    <3> QED BY <2>2, <3>1, <3>2 DEF Objects
  <2>4. \A p \in Objects : p # o => objects'[p] = objects[p]
      BY <2>1
  <2> QED BY <2>1, <2>2, <2>3, <2>4
<1>4. CASE UNCHANGED buildVars
    BY <1>4 DEF buildVars
<1>5. CASE pc' # "compile"
    BY <1>5
<1> QED BY <1>1, <1>2, <1>3, <1>4, <1>5
        DEF BuildNext, Build, StartBuild, KeepSource, RefuseSource, OtherSource, RemoveEntry,
            RemoveDirectory, MakeDirectory, Unpack, Apply, TruncateStamp, FillStamp, Link,
            TruncateManifest, FillManifest, Abandon

(* What is linked of a complete tree fits the inputs, unless they were     *)
(* edited after they were hashed.                                          *)
LEMMA LinkedFits ==
    ASSUME BuildInv, Link, inputs = hashes
    PROVE  Fits(objects, hashes)
<1>1. /\ pc = "compile" /\ Complete /\ ~OutOfDate(Own) /\ \A f \in Files : ~OutOfDate(f)
      /\ hashes \in Inputs /\ source.stamp = hashes.patch
      /\ ObjectInv /\ SourceInv /\ Missing \notin Versions
    BY DEF Link, BuildInv, TypeInv, SourceInv, WorkInv
<1>2. objects[Own] = hashes.own
    BY <1>1 DEF OutOfDate, ObjectInv
<1>3. ASSUME NEW f \in Touches[hashes.patch] PROVE objects[f] = hashes.patch
  <2>1. hashes.patch \in Versions /\ f \in Files
      BY <1>1, <1>3 DEF Inputs
  <2>2. source.files[f] \in {Missing, LeftBy(hashes.patch, f)}
      BY <1>1, <2>1 DEF SourceInv
  <2>3. source.files[f] = hashes.patch
      BY <1>1, <1>3, <2>1, <2>2 DEF Complete, LeftBy
  <2>4. f \notin newer /\ objects[f] # Missing
      BY <1>1, <2>1 DEF OutOfDate
  <2> QED BY <1>1, <2>1, <2>3, <2>4 DEF ObjectInv
<1> QED BY <1>2, <1>3 DEF Fits

(* What the manifest says of the inputs is true of the binaries, unless    *)
(* the inputs were edited after they were hashed.                          *)
LEMMA StepBinaries == BuildInv /\ [BuildNext]_buildVars => BinaryInv'
<1> SUFFICES ASSUME BuildInv, [BuildNext]_buildVars PROVE BinaryInv'
    OBVIOUS
<1>t. /\ BinaryInv /\ OrderInv /\ TypeInv /\ inputs \in Inputs /\ manifest \in Manifests
    BY DEF BuildInv, TypeInv
<1> USE <1>t DEF BinaryInv, cache
<1>1. CASE Edit
  <2>1. /\ UNCHANGED <<reverts, pc, hashes, binaries, manifest>> /\ inputs' \in Inputs
        /\ reverts => pc = "idle"
        /\ ~reverts => /\ inputs'.patch >= inputs.patch /\ inputs'.own >= inputs.own
                       /\ inputs'.patch # inputs.patch \/ inputs'.own # inputs.own
      BY <1>1, EditForm
  <2>2. CASE reverts
      BY <2>1, <2>2
  <2>3. CASE ~reverts
    <3>1. /\ inputs.patch \in Nat /\ inputs.own \in Nat
          /\ inputs'.patch \in Nat /\ inputs'.own \in Nat
        BY <2>1 DEF Inputs
    <3>2. ASSUME NEW h, h.patch <= inputs.patch, h.own <= inputs.own PROVE inputs' # h
        BY <2>1, <2>3, <3>1, <3>2
    <3>3. inputs' # hashes /\ inputs' # manifest.inputs
        BY <2>3, <3>2 DEF OrderInv
    <3> QED BY <2>1, <2>3, <3>3
  <2> QED BY <2>2, <2>3
<1>2. CASE StartBuild \/ KeepSource \/ OtherSource \/ RefuseSource \/ Plan \/ Abandon
    BY <1>2 DEF StartBuild, KeepSource, OtherSource, RefuseSource, Plan, Abandon
<1>3. CASE RemoveEntry \/ RemoveDirectory \/ MakeDirectory \/ Unpack \/ Apply
    BY <1>3 DEF RemoveEntry, RemoveDirectory, MakeDirectory, Unpack, Apply
<1>4. CASE TruncateStamp \/ FillStamp \/ Compile
    BY <1>4 DEF TruncateStamp, FillStamp, Compile
<1>5. CASE Link
  <2>1. /\ UNCHANGED <<reverts, inputs, hashes, manifest>> /\ binaries' = objects
      BY <1>5 DEF Link
  <2> QED BY <1>5, <2>1, LinkedFits
<1>6. CASE TruncateManifest
  <2>1. /\ UNCHANGED <<reverts, inputs, hashes, binaries>> /\ manifest'.state = "torn"
        /\ pc = "manifest"
      BY <1>6 DEF TruncateManifest, Manifests
  <2> QED BY <2>1
<1>7. CASE FillManifest
  <2>1. /\ pc = "fill_manifest" /\ pc' = "idle" /\ UNCHANGED <<reverts, inputs, binaries>>
        /\ manifest'.inputs = hashes /\ manifest'.binaries = binaries
      BY <1>7 DEF FillManifest, RecordedInputs
  <2>2. reverts => inputs = hashes
      BY <2>1 DEF OrderInv
  <2> QED BY <2>1, <2>2
<1>8. CASE UNCHANGED buildVars
    BY <1>8 DEF buildVars
<1> QED BY <1>1, <1>2, <1>3, <1>4, <1>5, <1>6, <1>7, <1>8 DEF BuildNext, Build

-----------------------------------------------------------------------------
(* The invariant holds throughout.                                         *)
THEOREM BuildInvariance == BuildSpec => []BuildInv
<1>1. BuildInv /\ [BuildNext]_buildVars => BuildInv'
    BY StepBuildTypes, StepOrder, StepSource, StepObjects, StepWork, StepBinaries DEF BuildInv
<1> QED BY <1>1, InitBuild, PTL DEF BuildSpec

(* What check_build() accepts was compiled from the inputs as they are.    *)
THEOREM AcceptedIsCurrent == BuildSpec => []AcceptedBuildIsCurrent
<1>1. BuildInv => AcceptedBuildIsCurrent
    BY DEF BuildInv, BinaryInv, Fits, CheckPasses, AcceptedBuildIsCurrent
<1> QED BY <1>1, BuildInvariance, PTL

(* While no build runs, a stamped tree is the one its version left.        *)
THEOREM StampIsTrue == BuildSpec => []StampTellsSource
<1>1. BuildInv => StampTellsSource
    BY DEF BuildInv, SourceInv, LeftBy, StampTellsSource
<1> QED BY <1>1, BuildInvariance, PTL

HIDE BuildAssumption DEF Pristine, Missing, Torn

-----------------------------------------------------------------------------
(* The toy run.                                                            *)
USE ExpectedAssumption, BoundAssumption

N == Len(Expected)
FundedBlock(c) == [case |-> c, parent |-> <<>>]
BlocksBelow(c) == {FundedBlock(k) : k \in 1 .. c - 1}

(* What a row says of the experimental node: an accepted spend is one its  *)
(* rules accept, in a block of its own on the funded tip; a rejected one is*)
(* not, or the node failed it otherwise.                                   *)
Justified(c, accepted, block, file) ==
    IF accepted
    THEN c \in toyOK /\ block = FundedBlock(c) /\ file = FundedBlock(c)
    ELSE c \notin toyOK \/ TimesFailed(c, "toy") >= 1

(* The stock node was right to refuse, or failed otherwise.                *)
RightlyRefused(c) == c \notin stockOK \/ TimesFailed(c, "stock") >= 1

(* The list of rows follows the case counter.                              *)
CountInv ==
    /\ step \in {"start", "toy", "keep", "stock", "record"} => Len(rows) = case - 1
    /\ step \in {"replay", "complete"} => Len(rows) = N
    /\ Len(rows) <= N

(* The experimental chain is one block longer between mine() and           *)
(* invalidateblock only; the stock chain is the funded one until a row that*)
(* says otherwise is recorded.                                             *)
ChainInv ==
    /\ step \in {"start", "toy", "replay"} =>
         toy.chain = <<>> /\ toy.invalid \subseteq BlocksBelow(case)
    /\ step = "keep" =>
         /\ toy.chain = <<FundedBlock(case)>>
         /\ toy.invalid \subseteq BlocksBelow(case)
         /\ case \in toyOK /\ row.toyAccepted /\ row.block = FundedBlock(case)
    /\ step \in {"stock", "record"} =>
         toy.chain = <<>> /\ toy.invalid \subseteq BlocksBelow(case + 1)
    /\ step \notin {"record", "failed"} => stock.chain = <<>>
    /\ step = "record" => row.stockAccepted \/ stock.chain = <<>>

(* Every row is justified, the one under construction too; while the run   *)
(* goes on all of them are as expected, and the stock node refused rightly.*)
Settled(k) ==
    /\ rows[k].toyAccepted = Expected[k] /\ (k \in toyNative) = Expected[k]
    /\ k \notin stockNative
    /\ RightlyRefused(k)

RowsInv ==
    /\ \A k \in DOMAIN rows : Justified(k, rows[k].toyAccepted, rows[k].block, files[k])
    /\ step \in {"start", "toy"} => ~row.toyAccepted
    /\ step \in {"start", "toy", "keep", "stock"} => ~row.stockAccepted
    /\ step \in {"stock", "record"} =>
         Justified(case, row.toyAccepted, row.block, files[case])
    /\ step = "record" => row.stockAccepted \/ RightlyRefused(case)
    /\ step # "failed" => \A k \in DOMAIN rows : Settled(k)

(* The replay has asked again about the cases it is past: the stock rules  *)
(* refuse the very block, or the experimental node failed a second time.   *)
Retested(k) ==
    IF rows[k].toyAccepted THEN k \notin stockOK
    ELSE k \notin toyOK \/ TimesFailed(k, "toy") >= 2

ReplayInv ==
    /\ step = "replay" => \A k \in 1 .. case - 1 : Retested(k)
    /\ step = "complete" => \A k \in 1 .. N : Retested(k)

FailureInv ==
    /\ failure # "tip"
    /\ failure = "replay" =>
         (TimesFailed(case, "toy") >= 1 \/ TimesFailed(case, "stock") >= 1) /\ step = "failed"
    /\ step # "failed" => failure = "none"

RunInv == TypeOK /\ CountInv /\ ChainInv /\ RowsInv /\ ReplayInv /\ FailureInv

ToyNodes == [chain : Chains, invalid : SUBSET Blocks]
StockNodes == [chain : Chains, invalid : {{}}]

-----------------------------------------------------------------------------
(* How often an element occurs, and how appending one changes that.        *)
LEMMA OccurrencesType ==
    ASSUME NEW S, NEW s \in Seq(S), NEW e
    PROVE  Occurrences(s, e) \in Nat /\ IsFiniteSet({k \in DOMAIN s : s[k] = e})
<1>1. IsFiniteSet(1 .. Len(s))
    BY FS_Interval
<1>2. {k \in DOMAIN s : s[k] = e} \subseteq 1 .. Len(s)
    OBVIOUS
<1>3. IsFiniteSet({k \in DOMAIN s : s[k] = e})
    BY <1>1, <1>2, FS_Subset
<1> QED BY <1>3, FS_CardinalityType DEF Occurrences

LEMMA OccurrencesAppend ==
    ASSUME NEW S, NEW s \in Seq(S), NEW e, NEW d \in S
    PROVE  Occurrences(Append(s, d), e) = Occurrences(s, e) + (IF e = d THEN 1 ELSE 0)
<1> DEFINE t == Append(s, d)
           At(q) == {k \in DOMAIN q : q[k] = e}
<1>0. /\ DOMAIN s = 1 .. Len(s) /\ DOMAIN t = 1 .. Len(s) + 1
      /\ \A k \in 1 .. Len(s) : t[k] = s[k]
      /\ t[Len(s) + 1] = d /\ Len(s) \in Nat
    OBVIOUS
<1>a. Occurrences(t, e) = Cardinality(At(t)) /\ Occurrences(s, e) = Cardinality(At(s))
    BY DEF Occurrences
<1>b. Cardinality(At(s)) \in Nat /\ IsFiniteSet(At(s))
    BY OccurrencesType DEF Occurrences
<1>1. CASE e = d
  <2>1. At(t) = At(s) \union {Len(s) + 1} /\ Len(s) + 1 \notin At(s)
      BY <1>0, <1>1
  <2>2. Cardinality(At(t)) = Cardinality(At(s)) + 1
      BY <2>1, <1>b, FS_AddElement
  <2> HIDE DEF At, t
  <2> QED BY <2>2, <1>1, <1>a DEF t
<1>2. CASE e # d
  <2>1. At(t) = At(s)
      BY <1>0, <1>2
  <2>2. Cardinality(At(t)) = Cardinality(At(s))
      BY <2>1
  <2> HIDE DEF At, t
  <2> QED BY <2>2, <1>2, <1>a, <1>b DEF t
<1> QED BY <1>1, <1>2

(* No block of an earlier case is the block of this one.                   *)
LEMMA OwnBlock ==
    ASSUME NEW c \in Nat
    PROVE  FundedBlock(c) \notin BlocksBelow(c)
<1> SUFFICES ASSUME NEW k \in 1 .. c - 1 PROVE FundedBlock(k) # FundedBlock(c)
    BY DEF BlocksBelow
<1>1. FundedBlock(k).case = k /\ FundedBlock(c).case = c /\ k # c
    BY DEF FundedBlock
<1> QED BY <1>1

LEMMA BlocksAbove ==
    ASSUME NEW c \in Nat \ {0}
    PROVE  BlocksBelow(c + 1) = BlocksBelow(c) \union {FundedBlock(c)}
<1>1. 1 .. (c + 1) - 1 = (1 .. c - 1) \union {c}
    OBVIOUS
<1> QED BY <1>1 DEF BlocksBelow

(* The node operators on the funded tip and one block above it.            *)
LEMMA MineOnTip ==
    ASSUME NEW n, n = [chain |-> <<>>, invalid |-> n.invalid], NEW c \in Cases
    PROVE  /\ BlockOf(n, c) = FundedBlock(c) /\ FundedBlock(c) \in Blocks
           /\ <<FundedBlock(c)>> \in Chains
           /\ AfterMine(n, c) = [chain |-> <<FundedBlock(c)>>, invalid |-> n.invalid]
<1>0. n.chain = <<>>
    OBVIOUS
<1>1. BlockOf(n, c) = FundedBlock(c) /\ FundedBlock(c) \in Blocks
    BY <1>0 DEF BlockOf, FundedBlock, Blocks
<1>2. AfterMine(n, c) = [chain |-> <<FundedBlock(c)>>, invalid |-> n.invalid]
    BY <1>1 DEF AfterMine, Extended
<1>3. <<FundedBlock(c)>> \in Chains
    BY <1>1 DEF Chains
<1> QED BY <1>1, <1>2, <1>3

(* A node on the funded tip is known by its invalidated blocks.            *)
LEMMA OnTip ==
    /\ \A n \in ToyNodes : n.chain = <<>> => n = [chain |-> <<>>, invalid |-> n.invalid]
    /\ \A n \in StockNodes : n.chain = <<>> => n = [chain |-> <<>>, invalid |-> n.invalid]
<1>1. ASSUME NEW n \in ToyNodes, n.chain = <<>>
      PROVE  n = [chain |-> <<>>, invalid |-> n.invalid]
    BY <1>1 DEF ToyNodes
<1>2. ASSUME NEW n \in StockNodes, n.chain = <<>>
      PROVE  n = [chain |-> <<>>, invalid |-> n.invalid]
    BY <1>2 DEF StockNodes
<1> QED BY <1>1, <1>2

LEMMA InvalidateTip ==
    ASSUME NEW n \in ToyNodes, NEW c \in Cases, n.chain = <<FundedBlock(c)>>
    PROVE  /\ AfterInvalidate(n, FundedBlock(c)) \in ToyNodes
           /\ AfterInvalidate(n, FundedBlock(c)).chain = <<>>
           /\ AfterInvalidate(n, FundedBlock(c)).invalid = n.invalid \union {FundedBlock(c)}
<1>1. n.chain[1] = FundedBlock(c) /\ 1 \in DOMAIN n.chain
    OBVIOUS
<1>2. FundedBlock(c).parent = <<>> /\ FundedBlock(c) \in Blocks
    BY DEF FundedBlock, Blocks
<1>3. AfterInvalidate(n, FundedBlock(c)) =
        [chain |-> <<>>, invalid |-> n.invalid \union {FundedBlock(c)}]
    BY <1>1, <1>2 DEF AfterInvalidate
<1> QED BY <1>2, <1>3 DEF ToyNodes, Chains

(* A saved block, put on the funded tip.                                   *)
LEMMA SubmitOnTip ==
    ASSUME NEW n, n = [chain |-> <<>>, invalid |-> n.invalid], NEW c \in Cases,
           FundedBlock(c) \notin n.invalid, NEW S
    PROVE  /\ Takes(n, FundedBlock(c), S) <=> c \in S
           /\ AfterSubmit(n, FundedBlock(c), S) =
                IF c \in S THEN AfterMine(n, c) ELSE n
<1>0. n.chain = <<>>
    OBVIOUS
<1>1. FundedBlock(c).case = c /\ FundedBlock(c).parent = <<>>
    BY DEF FundedBlock
<1>2. Takes(n, FundedBlock(c), S) <=> c \in S
    BY <1>0, <1>1 DEF Takes, Connects, AtBaseTip
<1>3. BlockOf(n, c) = FundedBlock(c)
    BY MineOnTip
<1> QED BY <1>2, <1>3 DEF AfterSubmit, AfterMine

-----------------------------------------------------------------------------
(* replay() of an accepted row: the block connects on the experimental     *)
(* node, and the stock node takes it exactly if its rules accept the spend.*)
LEMMA AcceptedReplays ==
    ASSUME RunInv, ReplayAccepted
    PROVE  /\ rows[case].toyAccepted /\ case \in toyOK
           /\ toy'.chain = <<>> /\ toy' \in ToyNodes
           /\ toy'.invalid = toy.invalid \union {FundedBlock(case)}
           /\ \/ /\ case \in stockOK /\ Fail("replay") /\ UNCHANGED case
                 /\ stock' \in StockNodes
              \/ /\ case \notin stockOK /\ NextReplay /\ UNCHANGED <<stock, failure>>
<1> DEFINE r == rows[case]
           b == FundedBlock(case)
<1>1. /\ step = "replay" /\ r.toyAccepted /\ case \in Cases /\ case \in Nat
      /\ toy \in ToyNodes /\ stock \in StockNodes
      /\ case \in DOMAIN rows
    BY DEF RunInv, TypeOK, CountInv, ReplayAccepted, Cases, N, ToyNodes, StockNodes
<1>2. /\ ~NativeDiffers(r)
      /\ case \in toyOK /\ r.block = b /\ files[case] = b
    BY <1>1 DEF RunInv, RowsInv, Settled, Justified, NativeDiffers
<1>3. /\ toy.chain = <<>> /\ b \notin toy.invalid
      /\ stock.chain = <<>> /\ b \notin stock.invalid
    BY <1>1, OwnBlock DEF RunInv, ChainInv, StockNodes
<1>4. /\ Takes(toy, b, toyOK) /\ AfterSubmit(toy, b, toyOK) = AfterMine(toy, case)
      /\ AfterMine(toy, case) \in ToyNodes /\ AfterMine(toy, case).chain = <<b>>
      /\ AfterMine(toy, case).invalid = toy.invalid
  <2>1. toy = [chain |-> <<>>, invalid |-> toy.invalid]
        /\ FundedBlock(case) \notin toy.invalid
      BY <1>1, <1>3, OnTip
  <2>2. /\ AfterMine(toy, case) = [chain |-> <<b>>, invalid |-> toy.invalid]
        /\ <<b>> \in Chains
      BY <1>1, <2>1, MineOnTip
  <2>3. /\ Takes(toy, FundedBlock(case), toyOK) <=> case \in toyOK
        /\ AfterSubmit(toy, FundedBlock(case), toyOK) =
             IF case \in toyOK THEN AfterMine(toy, case) ELSE toy
      BY <1>1, <2>1, SubmitOnTip
  <2> QED BY <1>1, <1>2, <2>2, <2>3 DEF ToyNodes
<1>5. Reconnects(r)
    BY <1>2, <1>4 DEF Reconnects, IsBestBlock
<1>6. /\ TakenBack(r.block) \in ToyNodes /\ TakenBack(r.block).chain = <<>>
      /\ TakenBack(r.block).invalid = toy.invalid \union {b}
  <2> DEFINE n == AfterMine(toy, case)
  <2>1. TakenBack(r.block) = AfterInvalidate(n, b)
      BY <1>2, <1>4 DEF TakenBack
  <2>2. n \in ToyNodes /\ n.chain = <<b>> /\ n.invalid = toy.invalid
      BY <1>4
  <2> HIDE DEF n
  <2> QED BY <1>1, <2>1, <2>2, InvalidateTip
<1>7. /\ StockTakes(files[case]) <=> case \in stockOK
      /\ AfterSubmit(stock, b, stockOK) \in StockNodes
  <2>1. stock = [chain |-> <<>>, invalid |-> stock.invalid]
        /\ FundedBlock(case) \notin stock.invalid
      BY <1>1, <1>3, OnTip
  <2>2. /\ AfterMine(stock, case) = [chain |-> <<b>>, invalid |-> stock.invalid]
        /\ <<b>> \in Chains
      BY <1>1, <2>1, MineOnTip
  <2>3. /\ Takes(stock, FundedBlock(case), stockOK) <=> case \in stockOK
        /\ AfterSubmit(stock, FundedBlock(case), stockOK) =
             IF case \in stockOK THEN AfterMine(stock, case) ELSE stock
      BY <1>1, <2>1, SubmitOnTip
  <2>4. StockTakes(files[case]) <=> case \in stockOK
      BY <1>2, <2>3 DEF StockTakes
  <2>5. AfterSubmit(stock, b, stockOK) \in StockNodes
      BY <1>1, <2>2, <2>3 DEF StockNodes
  <2> QED BY <2>4, <2>5
<1>8. CASE case \in stockOK
  <2>1. /\ Fail("replay") /\ UNCHANGED case /\ toy' = TakenBack(r.block)
        /\ stock' = AfterSubmit(stock, b, stockOK)
      BY <1>2, <1>5, <1>7, <1>8 DEF ReplayAccepted
  <2> QED BY <1>1, <1>2, <1>6, <1>7, <1>8, <2>1
<1>9. CASE case \notin stockOK
  <2>1. toy' = TakenBack(r.block) /\ NextReplay /\ UNCHANGED <<stock, failure>>
      BY <1>2, <1>5, <1>7, <1>9 DEF ReplayAccepted
  <2> QED BY <1>1, <1>2, <1>6, <1>9, <2>1
<1> QED BY <1>8, <1>9

(* replay() goes on to the next row, or ends: its counter stays in range.  *)
LEMMA NextReplayForm ==
    ASSUME RunInv, step = "replay", NextReplay
    PROVE  /\ \/ case = N /\ step' = "complete" /\ case' = case
              \/ case < N /\ step' = "replay" /\ case' = case + 1
           /\ case' \in Cases /\ step' \in {"replay", "complete"}
<1>1. case \in 1 .. N /\ N \in Nat /\ Cases = 1 .. N
    BY DEF RunInv, TypeOK, Cases, N
<1>2. CASE case = N
    BY <1>1, <1>2 DEF NextReplay, IsLast, N
<1>3. CASE case # N
    BY <1>1, <1>3 DEF NextReplay, IsLast, N
<1> QED BY <1>2, <1>3

(* The run begins with no row and two untouched chains.                    *)
LEMMA InitRun == RunInit => RunInv
<1> SUFFICES ASSUME RunInit PROVE RunInv
    OBVIOUS
<1>1. TypeOK
  <2>1. N \in Nat \ {0} /\ Cases = 1 .. N
      BY DEF N, Cases
  <2>2. FundedTip \in ToyNodes /\ FundedTip \in StockNodes /\ NoRow \in Rows
      BY DEF FundedTip, ToyNodes, StockNodes, Chains, NoRow, Rows
  <2>3. <<>> \in Seq(Rows) /\ <<>> \in Seq(Cases \X {"toy", "stock"}) /\ Len(<<>>) = 0
      OBVIOUS
  <2>4. files \in [Cases -> Blocks \union {NoBlock}] /\ case \in Cases
      BY <2>1 DEF RunInit
  <2>5. errors = <<>> /\ Len(errors) <= MaxErrors
    <3>1. errors = <<>> /\ MaxErrors \in Nat
        BY DEF RunInit
    <3> QED BY <2>3, <3>1
  <2> QED BY <2>2, <2>3, <2>4, <2>5 DEF RunInit, TypeOK, ToyNodes, StockNodes
<1>2. CountInv BY DEF RunInit, CountInv, N
<1>3. ChainInv BY DEF RunInit, ChainInv, FundedTip
<1>4. RowsInv BY DEF RunInit, RowsInv, NoRow
<1>5. ReplayInv BY DEF RunInit, ReplayInv
<1>6. FailureInv BY DEF RunInit, FailureInv
<1> QED BY <1>1, <1>2, <1>3, <1>4, <1>5, <1>6 DEF RunInv

(* Every action keeps the state well formed.                               *)
LEMMA StepTypes == RunInv /\ [RunNext]_runVars => TypeOK'
<1> SUFFICES ASSUME RunInv, [RunNext]_runVars PROVE TypeOK'
    OBVIOUS
<1>t. TypeOK /\ CountInv /\ ChainInv /\ toy \in ToyNodes /\ stock \in StockNodes
    BY DEF RunInv, TypeOK, ToyNodes, StockNodes
<1>n. /\ N \in Nat \ {0} /\ Cases = 1 .. N
      /\ FundedTip \in ToyNodes /\ FundedTip \in StockNodes /\ NoRow \in Rows
    BY DEF N, Cases, FundedTip, ToyNodes, StockNodes, Chains, NoRow, Rows
<1>e. ASSUME NEW n \in {"toy", "stock"}, Glitch(n)
      PROVE  errors' \in Seq(Cases \X {"toy", "stock"}) /\ Len(errors') <= MaxErrors
  <2>1. errors' = Append(errors, <<case, n>>) /\ <<case, n>> \in Cases \X {"toy", "stock"}
      BY <1>e, <1>t DEF Glitch, TypeOK
  <2> QED BY <1>e, <1>t, <2>1 DEF Glitch, TypeOK
<1> USE <1>t, <1>n DEF TypeOK, verdicts, Stopped
<1>1. CASE Start
    BY <1>1 DEF Start, Fail
<1>2. CASE MineToy
  <2>1. toy = [chain |-> <<>>, invalid |-> toy.invalid]
      BY <1>2, OnTip DEF MineToy, ChainInv
  <2>2. /\ BlockOf(toy, case) \in Blocks
        /\ AfterMine(toy, case) = [chain |-> <<FundedBlock(case)>>, invalid |-> toy.invalid]
        /\ <<FundedBlock(case)>> \in Chains
      BY <2>1, MineOnTip
  <2>3. AfterMine(toy, case) \in ToyNodes
      BY <2>2 DEF ToyNodes
  <2> QED BY <1>2, <2>2, <2>3 DEF MineToy, Rows, ToyNodes
<1>3. CASE ToyGlitch
    BY <1>3, <1>e DEF ToyGlitch
<1>4. CASE Keep
  <2>1. AfterInvalidate(toy, row.block) \in ToyNodes
      BY <1>4, InvalidateTip DEF Keep, ChainInv
  <2>2. row.block \in Blocks \union {NoBlock}
      BY DEF Rows
  <2> QED BY <1>4, <2>1, <2>2 DEF Keep, Restored, ToyNodes
<1>5. CASE MineStock
  <2>1. stock = [chain |-> <<>>, invalid |-> stock.invalid]
      BY <1>5, OnTip DEF MineStock, ChainInv
  <2>2. /\ AfterMine(stock, case) = [chain |-> <<FundedBlock(case)>>, invalid |-> stock.invalid]
        /\ <<FundedBlock(case)>> \in Chains
      BY <2>1, MineOnTip
  <2>3. AfterMine(stock, case) \in StockNodes
      BY <2>2 DEF StockNodes
  <2> QED BY <1>5, <2>3 DEF MineStock, Rows, StockNodes
<1>6. CASE StockGlitch
    BY <1>6, <1>e DEF StockGlitch
<1>7. CASE Record
  <2>1. rows' \in Seq(Rows) /\ row' \in Rows
      BY <1>7 DEF Record
  <2>2. CASE ~AsExpected(row)
      BY <1>7, <2>1, <2>2 DEF Record, Fail
  <2>3. CASE AsExpected(row) /\ IsLast(case)
      BY <1>7, <2>1, <2>3 DEF Record, BeginReplay, ToyNodes, StockNodes
  <2>4. CASE AsExpected(row) /\ ~IsLast(case)
    <3>1. case' \in Cases
        BY <1>7, <2>4 DEF Record, IsLast, N
    <3> QED BY <1>7, <2>1, <2>4, <3>1 DEF Record
  <2> QED BY <2>2, <2>3, <2>4
<1>8. CASE ReplayAccepted
  <2>1. step = "replay" /\ toy' \in ToyNodes
      BY <1>8, AcceptedReplays DEF ReplayAccepted
  <2>2. CASE Fail("replay") /\ UNCHANGED case /\ stock' \in StockNodes
      BY <1>8, <2>1, <2>2 DEF ReplayAccepted, Fail, ToyNodes, StockNodes
  <2>3. CASE NextReplay /\ UNCHANGED <<stock, failure>>
      BY <1>8, <2>1, <2>3, NextReplayForm DEF ReplayAccepted, ToyNodes
  <2> QED BY <1>8, <2>2, <2>3, AcceptedReplays
<1>9. CASE ReplayRejected
  <2>1. CASE ReplayMismatch
      BY <1>9, <2>1 DEF ReplayRejected, ReplayMismatch, Fail
  <2>2. CASE NextReplay /\ UNCHANGED <<toy, failure>>
      BY <1>9, <2>2, NextReplayForm DEF ReplayRejected
  <2> QED BY <1>9, <2>1, <2>2 DEF ReplayRejected
<1>10. CASE ReplayGlitch
  <2>1. case' \in Cases /\ step' \in {"replay", "complete"}
      BY <1>10, NextReplayForm DEF ReplayGlitch
  <2> QED BY <1>10, <1>e, <2>1 DEF ReplayGlitch
<1>11. CASE Interrupt
    BY <1>11 DEF Interrupt, Fail
<1>12. CASE UNCHANGED runVars
    BY <1>12 DEF runVars
<1> QED BY <1>1, <1>2, <1>3, <1>4, <1>5, <1>6, <1>7, <1>8, <1>9, <1>10, <1>11, <1>12
        DEF RunNext, Progress

(* One row per case that was recorded.                                     *)
LEMMA StepCount == RunInv /\ [RunNext]_runVars => CountInv'
<1> SUFFICES ASSUME RunInv, [RunNext]_runVars PROVE CountInv'
    OBVIOUS
<1>t. /\ CountInv /\ case \in 1 .. N /\ N \in Nat
      /\ rows \in Seq(Rows) /\ Len(rows) \in Nat /\ row \in Rows
    BY DEF RunInv, TypeOK, N, Cases
<1> USE <1>t DEF CountInv
<1>1. CASE Start \/ MineToy \/ ToyGlitch \/ Keep \/ MineStock \/ StockGlitch
    BY <1>1 DEF Start, MineToy, ToyGlitch, Keep, MineStock, StockGlitch, Fail
<1>2. CASE Record
  <2>1. Len(rows') = case
      BY <1>2 DEF Record
  <2>2. CASE ~AsExpected(row)
      BY <1>2, <2>1, <2>2 DEF Record, Fail
  <2>3. CASE AsExpected(row) /\ IsLast(case)
      BY <1>2, <2>1, <2>3 DEF Record, IsLast, N, BeginReplay
  <2>4. CASE AsExpected(row) /\ ~IsLast(case)
      BY <1>2, <2>1, <2>4 DEF Record, IsLast, N
  <2> QED BY <2>2, <2>3, <2>4
<1>3. CASE ReplayAccepted
  <2>1. step = "replay" /\ UNCHANGED rows /\ (Fail("replay") \/ NextReplay)
      BY <1>3, AcceptedReplays DEF ReplayAccepted
  <2> QED BY <2>1, NextReplayForm DEF Fail
<1>4. CASE ReplayRejected
  <2>1. CASE ReplayMismatch
      BY <1>4, <2>1 DEF ReplayRejected, ReplayMismatch, Fail
  <2>2. CASE NextReplay
      BY <1>4, <2>2, NextReplayForm DEF ReplayRejected
  <2> QED BY <1>4, <2>1, <2>2 DEF ReplayRejected
<1>5. CASE ReplayGlitch
    BY <1>5, NextReplayForm DEF ReplayGlitch
<1>6. CASE Interrupt \/ UNCHANGED runVars
    BY <1>6 DEF Interrupt, Fail, runVars
<1> QED BY <1>1, <1>2, <1>3, <1>4, <1>5, <1>6 DEF RunNext, Progress

(* Every action restores or extends the two chains as ChainInv says.       *)
LEMMA StepChain == RunInv /\ [RunNext]_runVars => ChainInv'
<1> SUFFICES ASSUME RunInv, [RunNext]_runVars PROVE ChainInv'
    OBVIOUS
<1>t. /\ ChainInv /\ case \in Nat \ {0} /\ case \in Cases
      /\ toy \in ToyNodes /\ stock \in StockNodes /\ row \in Rows
    BY DEF RunInv, TypeOK, Cases, ToyNodes, StockNodes
<1>r. step \in {"start", "toy", "keep", "stock"} => ~row.stockAccepted
    BY DEF RunInv, RowsInv
<1>b. BlocksBelow(case + 1) = BlocksBelow(case) \union {FundedBlock(case)}
    BY <1>t, BlocksAbove
<1> USE <1>t DEF ChainInv
<1>1. CASE Start
    BY <1>1 DEF Start, Fail
<1>2. CASE MineToy
  <2>1. toy.chain = <<>> /\ toy.invalid \subseteq BlocksBelow(case) /\ step = "toy"
        /\ stock.chain = <<>> /\ UNCHANGED <<stock, case, toyOK>>
      BY <1>2 DEF MineToy, verdicts
  <2>2. CASE Mines(toy, case, toyOK)
    <3>1. toy = [chain |-> <<>>, invalid |-> toy.invalid]
        BY <2>1, OnTip
    <3>2. /\ BlockOf(toy, case) = FundedBlock(case)
          /\ AfterMine(toy, case) = [chain |-> <<FundedBlock(case)>>, invalid |-> toy.invalid]
        BY <3>1, MineOnTip
    <3>3. /\ toy' = AfterMine(toy, case) /\ step' = "keep" /\ case \in toyOK
          /\ row' = [row EXCEPT !.toyAccepted = TRUE, !.block = BlockOf(toy, case)]
        BY <1>2, <2>2 DEF MineToy, Mines, Connects
    <3>4. row'.toyAccepted /\ row'.block = FundedBlock(case)
        BY <3>2, <3>3 DEF Rows
    <3> QED BY <2>1, <3>2, <3>3, <3>4
  <2>3. CASE ~Mines(toy, case, toyOK)
      BY <1>2, <1>b, <2>1, <2>3 DEF MineToy
  <2> QED BY <2>2, <2>3
<1>3. CASE ToyGlitch
    BY <1>3, <1>b DEF ToyGlitch
<1>4. CASE Keep
  <2>1. toy' = AfterInvalidate(toy, FundedBlock(case)) /\ step' = "stock" /\ case' = case
        /\ toy.chain = <<FundedBlock(case)>> /\ toy.invalid \subseteq BlocksBelow(case)
        /\ stock' = stock /\ stock.chain = <<>>
      BY <1>4 DEF Keep, Restored
  <2>2. toy'.chain = <<>> /\ toy'.invalid = toy.invalid \union {FundedBlock(case)}
      BY <2>1, InvalidateTip
  <2> QED BY <1>b, <2>1, <2>2
<1>5. CASE MineStock
  <2>1. step = "stock" /\ step' = "record" /\ UNCHANGED <<toy, case>>
      BY <1>5 DEF MineStock
  <2>2. row'.stockAccepted \/ stock'.chain = <<>>
    <3>1. CASE Mines(stock, case, stockOK)
        BY <1>5, <3>1 DEF MineStock, Rows
    <3>2. CASE ~Mines(stock, case, stockOK)
        BY <1>5, <2>1, <3>2 DEF MineStock
    <3> QED BY <3>1, <3>2
  <2> QED BY <2>1, <2>2
<1>6. CASE StockGlitch
    BY <1>6 DEF StockGlitch
<1>7. CASE Record
  <2>1. CASE ~AsExpected(row)
      BY <1>7, <2>1 DEF Record, Fail
  <2>2. CASE AsExpected(row) /\ IsLast(case)
      BY <1>7, <2>2 DEF Record, BeginReplay, FundedTip
  <2>3. CASE AsExpected(row) /\ ~IsLast(case)
    <3>1. stock.chain = <<>>
        BY <1>7, <2>3 DEF Record, AsExpected
    <3> QED BY <1>7, <2>3, <3>1 DEF Record
  <2> QED BY <2>1, <2>2, <2>3
<1>8. CASE ReplayAccepted
  <2>1. CASE Fail("replay")
      BY <2>1 DEF Fail
  <2>2. CASE NextReplay /\ UNCHANGED stock
    <3>1. /\ toy'.chain = <<>> /\ toy'.invalid = toy.invalid \union {FundedBlock(case)}
          /\ step = "replay"
        BY <1>8, AcceptedReplays DEF ReplayAccepted
    <3>2. step' = "complete" \/ (step' = "replay" /\ case' = case + 1)
        BY <2>2, <3>1, NextReplayForm
    <3> QED BY <1>b, <2>2, <3>1, <3>2
  <2> QED BY <1>8, <2>1, <2>2, AcceptedReplays
<1>9. CASE ReplayRejected
  <2>1. CASE ReplayMismatch
      BY <2>1 DEF ReplayMismatch, Fail
  <2>2. CASE NextReplay /\ UNCHANGED toy
    <3>1. step = "replay" /\ UNCHANGED stock
        BY <1>9 DEF ReplayRejected
    <3>2. step' = "complete" \/ (step' = "replay" /\ case' = case + 1)
        BY <2>2, <3>1, NextReplayForm
    <3> QED BY <1>b, <2>2, <3>1, <3>2
  <2> QED BY <1>9, <2>1, <2>2 DEF ReplayRejected
<1>10. CASE ReplayGlitch
  <2>1. step' = "complete" \/ (step' = "replay" /\ case' = case + 1)
      BY <1>10, NextReplayForm DEF ReplayGlitch
  <2> QED BY <1>10, <1>b, <2>1 DEF ReplayGlitch
<1>11. CASE Interrupt \/ UNCHANGED runVars
    BY <1>11 DEF Interrupt, Fail, runVars
<1> QED BY <1>1, <1>2, <1>3, <1>4, <1>5, <1>6, <1>7, <1>8, <1>9, <1>10, <1>11
        DEF RunNext, Progress

(* What the rules say never changes.                                       *)
LEMMA OracleStays == [RunNext]_runVars => UNCHANGED verdicts
BY DEF RunNext, Progress, Start, MineToy, ToyGlitch, Keep, MineStock, StockGlitch, Record,
       ReplayAccepted, ReplayRejected, ReplayGlitch, Interrupt, runVars, verdicts

(* Errors are only added: a count never goes down, and the case and node   *)
(* that failed otherwise count one more.                                   *)
LEMMA ErrorsGrow ==
    ASSUME RunInv, [RunNext]_runVars, NEW c, NEW n
    PROVE  /\ TimesFailed(c, n) \in Nat /\ TimesFailed(c, n)' \in Nat
           /\ TimesFailed(c, n)' >= TimesFailed(c, n)
           /\ ToyGlitch \/ ReplayGlitch =>
                Occurrences(errors', <<case, "toy">>) = Occurrences(errors, <<case, "toy">>) + 1
           /\ StockGlitch =>
                Occurrences(errors', <<case, "stock">>) = Occurrences(errors, <<case, "stock">>) + 1
<1> DEFINE Who == Cases \X {"toy", "stock"}
<1>1. errors \in Seq(Who) /\ <<case, "toy">> \in Who /\ <<case, "stock">> \in Who
    BY DEF RunInv, TypeOK
<1>2. \A e : Occurrences(errors, e) \in Nat
    BY <1>1, OccurrencesType
<1>3. /\ TimesFailed(c, n) = Occurrences(errors, <<c, n>>)
      /\ TimesFailed(c, n)' = Occurrences(errors', <<c, n>>)
    BY DEF TimesFailed
<1>4. ASSUME NEW d \in Who, errors' = Append(errors, d)
      PROVE  /\ Occurrences(errors', d) = Occurrences(errors, d) + 1
             /\ \A e : Occurrences(errors', e) \in Nat
                       /\ Occurrences(errors', e) >= Occurrences(errors, e)
  <2> HIDE DEF Who
  <2>1. ASSUME NEW e
        PROVE  Occurrences(errors', e) = Occurrences(errors, e) + (IF e = d THEN 1 ELSE 0)
      BY <1>1, <1>4, OccurrencesAppend
  <2>2. Occurrences(errors', d) = Occurrences(errors, d) + 1
      BY <2>1
  <2>3. ASSUME NEW e
        PROVE  Occurrences(errors', e) \in Nat /\ Occurrences(errors', e) >= Occurrences(errors, e)
    <3>1. CASE e = d BY <1>2, <2>1, <3>1
    <3>2. CASE e # d BY <1>2, <2>1, <3>2
    <3> QED BY <3>1, <3>2
  <2> QED BY <2>2, <2>3
<1>5. ToyGlitch \/ ReplayGlitch => errors' = Append(errors, <<case, "toy">>)
    BY DEF ToyGlitch, ReplayGlitch, Glitch
<1>6. StockGlitch => errors' = Append(errors, <<case, "stock">>)
    BY DEF StockGlitch, Glitch
<1>7. UNCHANGED errors \/ ToyGlitch \/ ReplayGlitch \/ StockGlitch
    BY DEF RunNext, Progress, Start, MineToy, Keep, MineStock, Record, ReplayAccepted,
           ReplayRejected, Interrupt, runVars
<1> HIDE DEF Who
<1>8. CASE ToyGlitch \/ ReplayGlitch
  <2>1. /\ ~StockGlitch \/ errors' = Append(errors, <<case, "stock">>)
        /\ errors' = Append(errors, <<case, "toy">>)
      BY <1>5, <1>6, <1>8
  <2>2. StockGlitch => Occurrences(errors', <<case, "stock">>) = Occurrences(errors, <<case, "stock">>) + 1
      BY <1>1, <1>4, <2>1
  <2> QED BY <1>1, <1>2, <1>3, <1>4, <2>1, <2>2
<1>9. CASE StockGlitch /\ ~(ToyGlitch \/ ReplayGlitch)
    BY <1>1, <1>2, <1>3, <1>4, <1>6, <1>9
<1>10. CASE UNCHANGED errors /\ ~(ToyGlitch \/ ReplayGlitch \/ StockGlitch)
    BY <1>2, <1>3, <1>10
<1> QED BY <1>7, <1>8, <1>9, <1>10

(* The rows a step leaves alone, and their files, stay justified.          *)
LEMMA RowsStayJustified ==
    ASSUME RunInv, [RunNext]_runVars,
           NEW k \in DOMAIN rows, rows'[k] = rows[k], files'[k] = files[k]
    PROVE  Justified(k, rows[k].toyAccepted, rows[k].block, files[k])'
<1>1. rows[k] \in Rows
    BY DEF RunInv, TypeOK
<1>2. Justified(k, rows[k].toyAccepted, rows[k].block, files[k])
    BY DEF RunInv, RowsInv
<1>3. toyOK' = toyOK
    BY OracleStays DEF verdicts
<1>4. /\ TimesFailed(k, "toy") \in Nat /\ TimesFailed(k, "toy")' \in Nat
      /\ TimesFailed(k, "toy")' >= TimesFailed(k, "toy")
    BY ErrorsGrow
<1>5. CASE rows[k].toyAccepted
    BY <1>2, <1>3, <1>5 DEF Justified
<1>6. CASE ~rows[k].toyAccepted
    BY <1>2, <1>3, <1>4, <1>6 DEF Justified
<1> QED BY <1>5, <1>6

(* What was said of the stock node's refusals stays true.                  *)
LEMMA RefusalStays ==
    ASSUME RunInv, [RunNext]_runVars, NEW k, RightlyRefused(k)
    PROVE  RightlyRefused(k)'
<1>1. /\ TimesFailed(k, "stock") \in Nat /\ TimesFailed(k, "stock")' \in Nat
      /\ TimesFailed(k, "stock")' >= TimesFailed(k, "stock")
    BY ErrorsGrow
<1>2. stockOK' = stockOK
    BY OracleStays DEF verdicts
<1> QED BY <1>1, <1>2 DEF RightlyRefused

(* A step that changes neither rows nor their files keeps all of them      *)
(* justified and, while the run goes on, settled.                          *)
LEMMA RowsKept ==
    ASSUME RunInv, [RunNext]_runVars, UNCHANGED rows, \A k \in DOMAIN rows : files'[k] = files[k]
    PROVE  /\ \A k \in DOMAIN rows' : Justified(k, rows[k].toyAccepted, rows[k].block, files[k])'
           /\ step # "failed" => \A k \in DOMAIN rows' : Settled(k)'
<1>1. \A k \in DOMAIN rows : Justified(k, rows[k].toyAccepted, rows[k].block, files[k])'
    BY RowsStayJustified
<1>2. ASSUME step # "failed", NEW k \in DOMAIN rows PROVE Settled(k)'
  <2>1. Settled(k)
      BY <1>2 DEF RunInv, RowsInv
  <2>2. RightlyRefused(k)'
      BY <2>1, RefusalStays DEF Settled
  <2>3. UNCHANGED <<toyNative, stockNative>>
      BY OracleStays DEF verdicts
  <2> QED BY <2>1, <2>2, <2>3 DEF Settled
<1> QED BY <1>1, <1>2

(* Every action keeps the rows justified and, while the run goes on,       *)
(* settled.                                                                *)
LEMMA StepRows == RunInv /\ [RunNext]_runVars => RowsInv'
<1> SUFFICES ASSUME RunInv, [RunNext]_runVars PROVE RowsInv'
    OBVIOUS
<1>t. /\ RowsInv /\ ChainInv /\ CountInv /\ row \in Rows /\ rows \in Seq(Rows)
      /\ case \in 1 .. N /\ N \in Nat /\ Cases = 1 .. N /\ Len(rows) \in Nat
      /\ files \in [Cases -> Blocks \union {NoBlock}]
    BY DEF RunInv, TypeOK, N, Cases
<1>o. UNCHANGED verdicts
    BY OracleStays
<1>e. \A c, n : TimesFailed(c, n) \in Nat /\ TimesFailed(c, n)' \in Nat
                /\ TimesFailed(c, n)' >= TimesFailed(c, n)
    BY ErrorsGrow
<1>s. RightlyRefused(case) /\ UNCHANGED case => RightlyRefused(case)'
    BY RefusalStays
<1>k. ASSUME UNCHANGED rows, \A k \in DOMAIN rows : files'[k] = files[k]
      PROVE  /\ \A k \in DOMAIN rows' : Justified(k, rows[k].toyAccepted, rows[k].block, files[k])'
             /\ step # "failed" => \A k \in DOMAIN rows' : Settled(k)'
    BY <1>k, RowsKept
<1>1. CASE Start
    BY <1>1, <1>t, <1>k DEF Start, Fail, RowsInv
<1>2. CASE MineToy
  <2>1. /\ step = "toy" /\ UNCHANGED <<rows, files, case>>
        /\ ~row.toyAccepted /\ ~row.stockAccepted
      BY <1>2, <1>t DEF MineToy, RowsInv
  <2>2. CASE Mines(toy, case, toyOK)
    <3>1. step' = "keep" /\ ~row'.stockAccepted
        BY <1>2, <1>t, <2>1, <2>2 DEF MineToy, Rows
    <3> QED BY <1>k, <2>1, <3>1 DEF RowsInv
  <2>3. CASE ~Mines(toy, case, toyOK)
    <3>1. case \notin toyOK /\ step' = "stock" /\ row' = row /\ toyOK' = toyOK
        BY <1>2, <1>o, <1>t, <2>1, <2>3 DEF MineToy, Mines, Connects, AtBaseTip, ChainInv, verdicts
    <3>2. Justified(case, row.toyAccepted, row.block, files[case])'
        BY <2>1, <3>1 DEF Justified
    <3> QED BY <1>k, <2>1, <3>1, <3>2 DEF RowsInv
  <2> QED BY <2>2, <2>3
<1>3. CASE ToyGlitch
  <2>1. /\ step = "toy" /\ step' = "stock" /\ UNCHANGED <<rows, files, case, row>>
        /\ ~row.toyAccepted /\ ~row.stockAccepted
      BY <1>3, <1>t DEF ToyGlitch, RowsInv
  <2>2. Occurrences(errors', <<case, "toy">>) = TimesFailed(case, "toy") + 1
      BY <1>3, ErrorsGrow DEF TimesFailed
  <2>3. TimesFailed(case, "toy")' >= 1
      BY <1>e, <2>1, <2>2 DEF TimesFailed
  <2>4. Justified(case, row.toyAccepted, row.block, files[case])'
      BY <2>1, <2>3 DEF Justified
  <2> QED BY <1>k, <2>1, <2>4 DEF RowsInv
<1>4. CASE Keep
  <2>1. /\ step = "keep" /\ step' = "stock" /\ UNCHANGED <<rows, case, row>>
        /\ case \in toyOK /\ row.toyAccepted /\ row.block = FundedBlock(case)
        /\ ~row.stockAccepted /\ toyOK' = toyOK /\ Len(rows) = case - 1
      BY <1>4, <1>o, <1>t DEF Keep, RowsInv, ChainInv, CountInv, verdicts
  <2>2. files' = [files EXCEPT ![case] = row.block]
      BY <1>4 DEF Keep
  <2>3. files'[case] = FundedBlock(case) /\ \A k \in DOMAIN rows : files'[k] = files[k]
      BY <1>t, <2>1, <2>2
  <2>4. Justified(case, row.toyAccepted, row.block, files[case])'
      BY <2>1, <2>3 DEF Justified, FundedBlock
  <2> QED BY <1>k, <2>1, <2>3, <2>4 DEF RowsInv
<1>5. CASE MineStock
  <2>1. /\ step = "stock" /\ step' = "record" /\ UNCHANGED <<rows, files, case, errors, toyOK>>
        /\ Justified(case, row.toyAccepted, row.block, files[case])
        /\ stock.chain = <<>>
      BY <1>5, <1>o, <1>t DEF MineStock, RowsInv, ChainInv, verdicts
  <2>2. row'.toyAccepted = row.toyAccepted /\ row'.block = row.block
      BY <1>5, <1>t DEF MineStock, Rows
  <2>3. Justified(case, row.toyAccepted, row.block, files[case])'
      BY <2>1, <2>2 DEF Justified, TimesFailed
  <2>4. row'.stockAccepted \/ RightlyRefused(case)'
    <3>1. CASE Mines(stock, case, stockOK)
        BY <1>5, <1>t, <3>1 DEF MineStock, Rows
    <3>2. CASE ~Mines(stock, case, stockOK)
        BY <1>s, <2>1, <3>2 DEF Mines, Connects, AtBaseTip, RightlyRefused
    <3> QED BY <3>1, <3>2
  <2> QED BY <1>k, <2>1, <2>3, <2>4 DEF RowsInv
<1>6. CASE StockGlitch
  <2>1. /\ step = "stock" /\ step' = "record" /\ UNCHANGED <<rows, files, case, row>>
        /\ Justified(case, row.toyAccepted, row.block, files[case]) /\ toyOK' = toyOK
      BY <1>6, <1>o, <1>t DEF StockGlitch, RowsInv, verdicts
  <2>2. Justified(case, row.toyAccepted, row.block, files[case])'
      BY <1>e, <2>1 DEF Justified
  <2>3. Occurrences(errors', <<case, "stock">>) = TimesFailed(case, "stock") + 1
      BY <1>6, ErrorsGrow DEF TimesFailed
  <2>4. RightlyRefused(case)'
      BY <1>e, <2>1, <2>3 DEF RightlyRefused, TimesFailed
  <2> QED BY <1>k, <2>1, <2>2, <2>4 DEF RowsInv
<1>7. CASE Record
  <2>1. /\ step = "record" /\ Len(rows) = case - 1 /\ rows' = Append(rows, row)
        /\ UNCHANGED <<files, errors>> /\ row' = NoRow
        /\ Justified(case, row.toyAccepted, row.block, files[case])
        /\ UNCHANGED <<toyOK, stockOK, toyNative, stockNative>>
      BY <1>7, <1>t DEF Record, CountInv, RowsInv, verdicts
  <2>2. /\ DOMAIN rows' = 1 .. case /\ rows'[case] = row
        /\ \A k \in 1 .. case - 1 : rows'[k] = rows[k] /\ k \in DOMAIN rows
      BY <1>t, <2>1
  <2>3. \A k \in DOMAIN rows' : Justified(k, rows[k].toyAccepted, rows[k].block, files[k])'
    <3> SUFFICES ASSUME NEW k \in 1 .. case
                 PROVE  Justified(k, rows[k].toyAccepted, rows[k].block, files[k])'
        BY <2>2
    <3>1. CASE k = case
        BY <2>1, <2>2, <3>1 DEF Justified, TimesFailed
    <3>2. CASE k # case
      <4>1. k \in DOMAIN rows /\ rows'[k] = rows[k] /\ files'[k] = files[k]
          BY <1>t, <2>1, <2>2, <3>2
      <4>2. Justified(k, rows[k].toyAccepted, rows[k].block, files[k])'
          BY <4>1, RowsStayJustified
      <4> QED BY <4>2
    <3> QED BY <3>1, <3>2
  <2>4. ~row'.toyAccepted /\ ~row'.stockAccepted
      BY <2>1 DEF NoRow
  <2>5. CASE ~AsExpected(row)
    <3>1. step' = "failed"
        BY <1>7, <2>5 DEF Record, Fail
    <3> QED BY <2>3, <3>1 DEF RowsInv
  <2>6. CASE AsExpected(row)
    <3>1. step' \in {"replay", "start"}
        BY <1>7, <2>6 DEF Record, BeginReplay
    <3>2. /\ row.toyAccepted = Expected[case] /\ (case \in toyNative) = Expected[case]
          /\ case \notin stockNative /\ RightlyRefused(case)
        BY <1>t, <2>1, <2>6 DEF AsExpected, RowsInv
    <3>3. \A k \in DOMAIN rows' : Settled(k)'
      <4> SUFFICES ASSUME NEW k \in 1 .. case PROVE Settled(k)'
          BY <2>2
      <4>1. CASE k = case
          BY <2>1, <2>2, <3>2, <4>1 DEF Settled, RightlyRefused, TimesFailed
      <4>2. CASE k # case
        <5>1. k \in DOMAIN rows /\ rows'[k] = rows[k]
            BY <1>t, <2>2, <4>2
        <5>2. Settled(k)
            BY <1>t, <2>1, <5>1 DEF RowsInv
        <5> QED BY <2>1, <5>1, <5>2 DEF Settled, RightlyRefused, TimesFailed
      <4> QED BY <4>1, <4>2
    <3> QED BY <2>3, <2>4, <3>1, <3>3 DEF RowsInv
  <2> QED BY <2>5, <2>6
<1>8. CASE ReplayAccepted
  <2>1. /\ step = "replay" /\ UNCHANGED <<rows, files>>
        /\ Fail("replay") \/ NextReplay
      BY <1>8, AcceptedReplays DEF ReplayAccepted
  <2>2. step' \in {"failed", "replay", "complete"}
      BY <2>1, NextReplayForm DEF Fail
  <2> QED BY <1>k, <2>1, <2>2 DEF RowsInv
<1>9. CASE ReplayRejected \/ ReplayGlitch
  <2>1. /\ step = "replay" /\ UNCHANGED <<rows, files>>
        /\ ReplayMismatch \/ NextReplay
      BY <1>9 DEF ReplayRejected, ReplayGlitch
  <2>2. step' \in {"failed", "replay", "complete"}
      BY <2>1, NextReplayForm DEF ReplayMismatch, Fail
  <2> QED BY <1>k, <2>1, <2>2 DEF RowsInv
<1>10. CASE Interrupt
    BY <1>10, <1>k DEF Interrupt, Fail, RowsInv
<1>11. CASE UNCHANGED runVars
    BY <1>11, <1>t DEF runVars, RowsInv, Justified, Settled, RightlyRefused, TimesFailed
<1> QED BY <1>1, <1>2, <1>3, <1>4, <1>5, <1>6, <1>7, <1>8, <1>9, <1>10, <1>11
        DEF RunNext, Progress

(* A case the replay is past stays re-tested while the rows stay.          *)
LEMMA StaysRetested ==
    ASSUME RunInv, [RunNext]_runVars, UNCHANGED rows, NEW k, Retested(k)
    PROVE  Retested(k)'
<1>1. UNCHANGED <<toyOK, stockOK>>
    BY OracleStays DEF verdicts
<1>2. /\ TimesFailed(k, "toy") \in Nat /\ TimesFailed(k, "toy")' \in Nat
      /\ TimesFailed(k, "toy")' >= TimesFailed(k, "toy")
    BY ErrorsGrow
<1> QED BY <1>1, <1>2 DEF Retested

(* The replay has re-tested every case it is past: the stock rules refuse  *)
(* the block of the case it leaves, or the experimental rules refuse its   *)
(* spend, or that node failed otherwise a second time.                     *)
LEMMA StepReplay == RunInv /\ [RunNext]_runVars => ReplayInv'
<1> SUFFICES ASSUME RunInv, [RunNext]_runVars PROVE ReplayInv'
    OBVIOUS
<1>t. /\ CountInv /\ case \in 1 .. N /\ N \in Nat /\ Cases = 1 .. N /\ Len(rows) \in Nat
      /\ step = "replay" => \A k \in 1 .. case - 1 : Retested(k)
      /\ step = "complete" => \A k \in 1 .. N : Retested(k)
    BY DEF RunInv, TypeOK, N, Cases, ReplayInv
<1>k. UNCHANGED rows => \A k : Retested(k) => Retested(k)'
    BY StaysRetested
<1>1. ASSUME step' \notin {"replay", "complete"}
      PROVE  ReplayInv'
    BY <1>1 DEF ReplayInv
<1>2. ASSUME UNCHANGED rows, step = "replay", NextReplay, \A k : k = case => Retested(k)'
      PROVE  ReplayInv'
  <2>1. \A k \in 1 .. case : Retested(k)'
    <3>1. \A k \in 1 .. case - 1 : Retested(k)'
        BY <1>2, <1>t, <1>k
    <3>2. ASSUME NEW k \in 1 .. case PROVE Retested(k)'
        <4>1. CASE k = case
            BY <1>2, <4>1
        <4>2. CASE k # case
            BY <1>t, <3>1, <4>2
        <4> QED BY <4>1, <4>2
    <3> QED BY <3>2
  <2>2. CASE case = N /\ step' = "complete"
      BY <1>t, <2>1, <2>2 DEF ReplayInv
  <2>3. CASE case < N /\ step' = "replay" /\ case' = case + 1
    <3>1. case' - 1 = case
        BY <1>t, <2>3
    <3> QED BY <2>1, <2>3, <3>1 DEF ReplayInv
  <2> QED BY <1>2, <2>2, <2>3, NextReplayForm
<1>3. CASE Start \/ MineToy \/ ToyGlitch \/ Keep \/ MineStock \/ StockGlitch \/ Interrupt
    BY <1>1, <1>3 DEF Start, MineToy, ToyGlitch, Keep, MineStock, StockGlitch, Interrupt, Fail
<1>4. CASE Record
  <2>1. step' # "complete" /\ (step' = "replay" => case' = 1)
      BY <1>4 DEF Record, BeginReplay, Fail
  <2> QED BY <2>1 DEF ReplayInv
<1>5. CASE ReplayAccepted
  <2>1. /\ rows[case].toyAccepted /\ step = "replay" /\ UNCHANGED rows
        /\ Fail("replay") \/ (case \notin stockOK /\ NextReplay)
      BY <1>5, AcceptedReplays DEF ReplayAccepted
  <2>2. CASE Fail("replay")
      BY <2>2, <1>1 DEF Fail
  <2>3. CASE case \notin stockOK /\ NextReplay
    <3>1. UNCHANGED stockOK
        BY OracleStays DEF verdicts
    <3>2. \A k : k = case => Retested(k)'
        BY <2>1, <2>3, <3>1 DEF Retested
    <3> QED BY <2>1, <2>3, <3>2, <1>2
  <2> QED BY <2>1, <2>2, <2>3
<1>6. CASE ReplayRejected
  <2>1. step = "replay" /\ UNCHANGED rows /\ ~rows[case].toyAccepted
      BY <1>6 DEF ReplayRejected
  <2>2. CASE ReplayMismatch
      BY <2>2, <1>1 DEF ReplayMismatch, Fail
  <2>3. CASE NextReplay /\ ~MinedAfterAll
    <3>1. case \notin toyOK /\ UNCHANGED toyOK
        BY <2>1, <2>3, OracleStays DEF RunInv, ChainInv, MinedAfterAll, Mines, Connects, AtBaseTip,
                                       verdicts
    <3>2. \A k : k = case => Retested(k)'
        BY <2>1, <3>1 DEF Retested
    <3> QED BY <2>1, <2>3, <3>2, <1>2
  <2> QED BY <1>6, <2>2, <2>3 DEF ReplayRejected
<1>7. CASE ReplayGlitch
  <2>1. /\ NextReplay /\ step = "replay" /\ ~rows[case].toyAccepted
        /\ UNCHANGED rows
      BY <1>7 DEF ReplayGlitch
  <2>2. Justified(case, rows[case].toyAccepted, rows[case].block, files[case])
    <3>1. rows \in Seq(Rows) /\ Len(rows) = N
        BY <1>t, <2>1 DEF RunInv, TypeOK, CountInv
    <3>2. case \in DOMAIN rows
        BY <1>t, <3>1
    <3> QED BY <3>2 DEF RunInv, RowsInv
  <2>3. /\ case \notin toyOK \/ TimesFailed(case, "toy") >= 1
        /\ UNCHANGED toyOK
      BY <2>1, <2>2, OracleStays DEF Justified, verdicts
  <2>4. /\ Occurrences(errors', <<case, "toy">>) = Occurrences(errors, <<case, "toy">>) + 1
        /\ TimesFailed(case, "toy") \in Nat
      BY <1>7, ErrorsGrow
  <2>5. \A k : k = case => Retested(k)'
      BY <2>1, <2>3, <2>4 DEF Retested, TimesFailed
  <2> QED BY <2>1, <2>5, <1>2
<1>8. CASE UNCHANGED runVars
    BY <1>8, <1>t, <1>k DEF runVars, ReplayInv
<1> QED BY <1>3, <1>4, <1>5, <1>6, <1>7, <1>8 DEF RunNext, Progress

(* validate()'s check of the two nodes never fails, and replay() fails only*)
(* at a case one of the nodes failed otherwise in the run.                 *)
LEMMA StepFailure == RunInv /\ [RunNext]_runVars => FailureInv'
<1> SUFFICES ASSUME RunInv, [RunNext]_runVars PROVE FailureInv'
    OBVIOUS
<1>t. FailureInv
    BY DEF RunInv
<1> USE DEF FailureInv
<1>1. CASE Start
    BY <1>1, <1>t DEF Start, Fail, RunInv, ChainInv, AtBaseTip
<1>2. CASE MineToy \/ ToyGlitch \/ Keep \/ MineStock \/ StockGlitch
    BY <1>2, <1>t DEF MineToy, ToyGlitch, Keep, MineStock, StockGlitch
<1>3. CASE Record
    BY <1>3, <1>t DEF Record, BeginReplay, Fail
<1>4. CASE ReplayAccepted
  <2>1. step = "replay" /\ case \in DOMAIN rows /\ UNCHANGED errors
      BY <1>4 DEF ReplayAccepted, RunInv, TypeOK, CountInv, Cases, N
  <2>2. CASE Fail("replay") /\ UNCHANGED case /\ case \in stockOK
    <3>1. TimesFailed(case, "stock") >= 1
        BY <2>1, <2>2 DEF RunInv, RowsInv, Settled, RightlyRefused
    <3> QED BY <2>1, <2>2, <3>1 DEF Fail, TimesFailed
  <2>3. CASE NextReplay /\ UNCHANGED failure
      BY <1>t, <2>1, <2>3, NextReplayForm
  <2> QED BY <1>4, <2>2, <2>3, AcceptedReplays
<1>5. CASE ReplayRejected
  <2>1. /\ step = "replay" /\ ~rows[case].toyAccepted /\ case \in DOMAIN rows
        /\ UNCHANGED errors
      BY <1>5 DEF ReplayRejected, RunInv, TypeOK, CountInv, Cases, N
  <2>2. CASE ReplayMismatch
    <3>1. ~NativeDiffers(rows[case])
        BY <2>1 DEF RunInv, RowsInv, Settled, NativeDiffers
    <3>2. MinedAfterAll
        BY <1>5, <1>t, <2>1, <2>2, <3>1 DEF ReplayRejected, ReplayMismatch, Fail
    <3>3. case \in toyOK
        BY <3>2 DEF MinedAfterAll, Mines, Connects
    <3>4. TimesFailed(case, "toy") >= 1
        BY <2>1, <3>3 DEF RunInv, RowsInv, Justified
    <3> QED BY <2>1, <2>2, <3>4 DEF ReplayMismatch, Fail, TimesFailed
  <2>3. CASE NextReplay /\ UNCHANGED failure
      BY <1>t, <2>1, <2>3, NextReplayForm
  <2> QED BY <1>5, <2>2, <2>3 DEF ReplayRejected
<1>6. CASE ReplayGlitch
  <2>1. NextReplay /\ step = "replay" /\ UNCHANGED failure
      BY <1>6 DEF ReplayGlitch
  <2> QED BY <1>t, <2>1, NextReplayForm
<1>7. CASE Interrupt
    BY <1>7, <1>t DEF Interrupt, Fail, Stopped
<1>8. CASE UNCHANGED runVars
    BY <1>8, <1>t DEF runVars, TimesFailed
<1> QED BY <1>1, <1>2, <1>3, <1>4, <1>5, <1>6, <1>7, <1>8 DEF RunNext, Progress

-----------------------------------------------------------------------------
(* The invariant holds throughout.                                         *)
THEOREM RunInvariance == RunSpec => []RunInv
<1>1. RunInv /\ [RunNext]_runVars => RunInv'
    BY StepTypes, StepCount, StepChain, StepRows, StepReplay, StepFailure DEF RunInv
<1> QED BY <1>1, InitRun, PTL DEF RunSpec

(* The state stays well formed.                                            *)
THEOREM TypeCorrect == RunSpec => []TypeOK
<1>1. RunInv => TypeOK BY DEF RunInv
<1> QED BY <1>1, RunInvariance, PTL

(* Both nodes are back on the funded tip whenever validate() asks, and a   *)
(* stock node that took a spend sees no other case.                        *)
THEOREM NodesAligned == RunSpec => []NodesStayAligned
<1>1. RunInv => NodesStayAligned
    BY DEF RunInv, ChainInv, FailureInv, NodesStayAligned, AtBaseTip
<1> QED BY <1>1, RunInvariance, PTL

(* A completed run says of the experimental rules what they say, but for   *)
(* cases that node failed otherwise in the run and in the replay.          *)
THEOREM RunIsTrue == RunSpec => []CompleteRunIsTrue
<1>1. RunInv => CompleteRunIsTrue
  <2> SUFFICES ASSUME RunInv, step = "complete", NEW c \in Cases
               PROVE  /\ (c \in toyNative) = Expected[c]
                      /\ (c \in toyOK) = Expected[c] \/ TimesFailed(c, "toy") >= 2
      BY DEF CompleteRunIsTrue
  <2>1. c \in DOMAIN rows /\ c \in 1 .. N /\ Expected[c] \in BOOLEAN
      BY DEF RunInv, TypeOK, CountInv, Cases, N
  <2>2. Settled(c) /\ Retested(c)
      BY <2>1 DEF RunInv, RowsInv, ReplayInv
  <2>3. Justified(c, rows[c].toyAccepted, rows[c].block, files[c])
      BY <2>1 DEF RunInv, RowsInv
  <2>4. CASE Expected[c]
      BY <2>2, <2>3, <2>4 DEF Settled, Justified
  <2>5. CASE ~Expected[c]
      BY <2>1, <2>2, <2>5 DEF Settled, Retested
  <2> QED BY <2>1, <2>4, <2>5
<1> QED BY <1>1, RunInvariance, PTL

(* The stock rules refuse every block of a completed run, whatever errors  *)
(* the run met.                                                            *)
THEOREM Refuses == RunSpec => []StockRefuses
<1>1. RunInv => StockRefuses
  <2> SUFFICES ASSUME RunInv, step = "complete", NEW c \in stockOK
               PROVE  ~rows[c].toyAccepted /\ TimesFailed(c, "stock") >= 1
      BY DEF StockRefuses
  <2>1. c \in DOMAIN rows /\ c \in 1 .. N
      BY DEF RunInv, TypeOK, CountInv, Cases, N
  <2>2. Settled(c) /\ Retested(c)
      BY <2>1 DEF RunInv, RowsInv, ReplayInv
  <2> QED BY <2>2 DEF Settled, Retested, RightlyRefused
<1> QED BY <1>1, RunInvariance, PTL

(* replay() fails only at a case one of the nodes failed otherwise.        *)
THEOREM Reproduces == RunSpec => []ReplayReproduces
<1>1. RunInv => ReplayReproduces
  <2>1. RunInv => TimesFailed(case, "toy") \in Nat /\ TimesFailed(case, "stock") \in Nat
      BY OccurrencesType DEF RunInv, TypeOK, TimesFailed
  <2> QED BY <2>1 DEF RunInv, FailureInv, ReplayReproduces
<1> QED BY <1>1, RunInvariance, PTL
=============================================================================
