------------------------- MODULE PublishedSpendProofs --------------------------
(***************************************************************************)
(* Proofs about PublishedSpend, for every block, every branch, every file  *)
(* and every script of the published form.                                 *)
(*                                                                         *)
(* First the inclusion check: a hash that was folded from a leaf is the    *)
(* entry of one level only, at the place that the digits of the position   *)
(* say, so that the root with no digit left is reached from the leaf's     *)
(* own place.  Then the parser: between any two offsets stands what would  *)
(* be written of the part that was read there.                             *)
(***************************************************************************)
EXTENDS PublishedSpend, FiniteSetTheorems, SequenceTheorems, TLAPS

-----------------------------------------------------------------------------
(* A nonempty set of naturals has a least member.                          *)
LEMMA LeastMember ==
    ASSUME NEW T \in SUBSET Nat, T # {}
    PROVE  \E m \in T : \A n \in T : m <= n
<1> DEFINE R == OpToRel(<, Nat)
<1>1. IsWellFoundedOn(R, Nat)
    BY NatLessThanWellFounded
<1>2. \A n, m \in T : <<n, m>> \in R <=> n < m
    BY DEF OpToRel
<1> HIDE DEF R
<1>3. PICK m \in T : \A n \in T : ~(<<n, m>> \in R)
    BY <1>1, WFMin
<1>4. \A n \in T : ~(n < m)
    BY <1>2, <1>3
<1>5. \A n \in T : m <= n
    BY <1>4
<1> QED BY <1>5

-----------------------------------------------------------------------------
(* Powers of two, by way of the subsets they count.                        *)
LEMMA PowerCounts ==
    ASSUME NEW n \in Nat
    PROVE  /\ IsFiniteSet(SUBSET (1 .. n))
           /\ Cardinality(SUBSET (1 .. n)) = 2 ^ n
           /\ 2 ^ n \in Nat
<1>1. IsFiniteSet(1 .. n) /\ Cardinality(1 .. n) = n
    BY FS_Interval
<1>2. IsFiniteSet(SUBSET (1 .. n)) /\ Cardinality(SUBSET (1 .. n)) = 2 ^ n
    BY <1>1, FS_SUBSET
<1> QED BY <1>2, FS_CardinalityType

(* The empty set has one subset.                                           *)
LEMMA PowerZero ==
    ASSUME NEW n \in Nat, n = 0
    PROVE  2 ^ n = 1
<1>1. SUBSET (1 .. n) = {{}}
    OBVIOUS
<1>2. Cardinality({{}}) = 1
    BY FS_Singleton
<1> QED BY <1>1, <1>2, PowerCounts

(* With one more member there are twice as many subsets.                   *)
LEMMA PowerNext ==
    ASSUME NEW n \in Nat, NEW m \in Nat, m = n + 1
    PROVE  2 ^ m = 2 * 2 ^ n
<1> DEFINE S == SUBSET (1 .. n)
<1> DEFINE T == SUBSET (1 .. m)
<1> DEFINE U == {X \cup {m} : X \in S}
<1> DEFINE f == [X \in S |-> X \cup {m}]
<1>1. T = S \cup U
  <2>1. ASSUME NEW X \in T PROVE X \in S \cup U
    <3>1. CASE m \in X
      <4>1. X \ {m} \in S
          BY <2>1, <3>1
      <4>2. X = (X \ {m}) \cup {m}
          BY <3>1
      <4> QED BY <4>1, <4>2
    <3>2. CASE m \notin X
        BY <2>1, <3>2
    <3> QED BY <3>1, <3>2
  <2>2. S \subseteq T
      OBVIOUS
  <2>3. U \subseteq T
    <3>1. m \in 1 .. m /\ 1 .. n \subseteq 1 .. m
        OBVIOUS
    <3> QED BY <3>1
  <2> QED BY <2>1, <2>2, <2>3
<1>2. m \notin 1 .. n
    OBVIOUS
<1>3. S \cap U = {}
    BY <1>2
<1>4. f \in Bijection(S, U)
  <2>1. \A X, Y \in S : f[X] = f[Y] => X = Y
    <3>1. ASSUME NEW X \in S, NEW Y \in S, X \cup {m} = Y \cup {m} PROVE X = Y
        BY <1>2, <3>1
    <3> QED BY <3>1
  <2>2. f \in [S -> U]
      OBVIOUS
  <2>3. \A u \in U : \E X \in S : f[X] = u
      OBVIOUS
  <2> QED BY <2>1, <2>2, <2>3 DEF Bijection, Injection, Surjection, IsInjective
<1>5. IsFiniteSet(S) /\ Cardinality(S) = 2 ^ n
    BY PowerCounts
<1>6. IsFiniteSet(U) /\ Cardinality(U) = 2 ^ n
    BY <1>4, <1>5, FS_Bijection DEF ExistsBijection
<1>7. Cardinality(T) = 2 ^ m
    BY PowerCounts
<1> HIDE DEF S, T, U, f
<1>8. Cardinality(S \cup U) = Cardinality(S) + Cardinality(U) - Cardinality(S \cap U)
    BY <1>5, <1>6, FS_Union
<1>9. Cardinality(S \cap U) = 0
    BY <1>3, FS_EmptySet
<1>10. 2 ^ n \in Nat
    BY PowerCounts
<1> QED BY <1>1, <1>5, <1>6, <1>7, <1>8, <1>9, <1>10

(* A power of two is larger than its exponent.                             *)
LEMMA PowerLarge ==
    ASSUME NEW n \in Nat
    PROVE  2 ^ n > n
<1> DEFINE Bad == {k \in Nat : ~(2 ^ k > k)}
<1>1. CASE Bad # {}
  <2>1. PICK b \in Bad : \A k \in Bad : b <= k
      BY <1>1, LeastMember
  <2>2. b # 0
      BY <2>1, PowerZero
  <2>3. PICK a \in Nat : b = a + 1
    <3>1. b - 1 \in Nat
        BY <2>1, <2>2
    <3> QED BY <3>1, <2>1
  <2>4. 2 ^ a > a
      BY <2>1, <2>3
  <2>5. 2 ^ b = 2 * 2 ^ a /\ 2 ^ a \in Nat
      BY <2>1, <2>3, PowerNext, PowerCounts
  <2> QED BY <2>1, <2>3, <2>4, <2>5
<1> QED BY <1>1

(* What is left over and how often, told from a sum.                       *)
LEMMA DivModOf ==
    ASSUME NEW m \in Nat, NEW q \in Nat, NEW d \in Nat, m # 0, d < m
    PROVE  /\ (d + m * q) % m = d
           /\ (d + m * q) \div m = q
OBVIOUS

(* A number is made of both.                                               *)
LEMMA DivMod ==
    ASSUME NEW m \in Nat, m # 0, NEW p \in Nat
    PROVE  /\ p \div m \in Nat /\ p % m \in Nat
           /\ p % m < m
           /\ p = (p % m) + m * (p \div m)
OBVIOUS

(* One more binary digit.                                                  *)
LEMMA DivTwice ==
    ASSUME NEW w \in Nat, w # 0, NEW p \in Nat, NEW v \in Nat, v = 2 * w
    PROVE  /\ p \div v = (p \div w) \div 2
           /\ p % v = (p % w) + w * ((p \div w) % 2)
<1>1. PICK q \in Nat, r \in Nat : p \div w = q /\ p % w = r /\ r < w /\ p = r + w * q
    BY DivMod
<1>2. PICK a \in Nat, b \in Nat : q \div 2 = a /\ q % 2 = b /\ b < 2 /\ q = b + 2 * a
    BY DivMod
<1>3. b = 0 \/ b = 1
    BY <1>2
<1>4. PICK d \in Nat : d = r + w * b /\ d < v
  <2>1. CASE b = 0
      BY <1>1, <2>1
  <2>2. CASE b = 1
      BY <1>1, <2>2
  <2> QED BY <1>3, <2>1, <2>2
<1>5. p = d + v * a
  <2>1. w * q = w * b + v * a
    <3>1. w * (b + 2 * a) = w * b + (2 * w) * a
        OBVIOUS
    <3> QED BY <1>2, <3>1
  <2> QED BY <1>1, <1>4, <2>1
<1>6. v # 0
    OBVIOUS
<1>7. p % v = d /\ p \div v = a
    BY <1>4, <1>5, <1>6, DivModOf
<1> QED BY <1>1, <1>2, <1>4, <1>7

(* The smaller of two.                                                     *)
LEMMA MinTwo ==
    ASSUME NEW a \in Int, NEW b \in Int
    PROVE  Min({a, b}) = IF a <= b THEN a ELSE b
BY DEF Min

-----------------------------------------------------------------------------
(* A tree is as high as it has to be.                                      *)
LEMMA HeightType ==
    ASSUME NEW n \in Nat
    PROVE  Height(n) \in Nat
<1> DEFINE H == {h \in 0 .. n : 2 ^ h >= n}
<1>1. n \in H
    BY PowerLarge, PowerCounts
<1>4. H \in SUBSET Nat /\ H # {}
    BY <1>1
<1>2. PICK m \in H : \A h \in H : m <= h
  <2> HIDE DEF H
  <2> QED BY <1>4, LeastMember
<1>3. Height(n) \in H
  <2>1. Height(n) = CHOOSE x \in H : \A y \in H : x <= y
      BY DEF Height, Min
  <2> HIDE DEF H
  <2> QED BY <2>1, <1>2
<1> QED BY <1>3

(* The level over another one.                                             *)
Above(below) ==
    [k \in 1 .. (Len(below) + 1) \div 2 |->
        Hash(below[2 * k - 1], below[Min({2 * k, Len(below)})])]

IsTree(n, h, f) ==
    f = [l \in 0 .. h |-> IF l = 0 THEN [k \in 1 .. n |-> <<k>>] ELSE Above(f[l - 1])]

(* The levels of the model are such a tree.                                *)
LEMMA LevelsAre ==
    ASSUME NEW n
    PROVE  Levels(n) = CHOOSE f : IsTree(n, Height(n), f)
BY DEF Levels, IsTree, Above

(* There is a tree of any height.                                          *)
LEMMA TreeExists ==
    ASSUME NEW n \in Nat, NEW h \in Nat
    PROVE  \E f : IsTree(n, h, f)
<1> DEFINE Bad == {k \in Nat : ~\E f : IsTree(n, k, f)}
<1>1. CASE Bad # {}
  <2>1. PICK m \in Bad : \A k \in Bad : m <= k
      BY <1>1, LeastMember
  <2>2. m # 0
    <3> DEFINE leaves == [k \in 1 .. n |-> <<k>>]
    <3>1. [l \in 0 .. 0 |-> leaves]
          = [l \in 0 .. 0 |-> IF l = 0 THEN leaves ELSE Above([i \in 0 .. 0 |-> leaves][l - 1])]
        OBVIOUS
    <3>2. IsTree(n, 0, [l \in 0 .. 0 |-> leaves])
        BY <3>1 DEF IsTree
    <3> QED BY <2>1, <3>2
  <2>3. m \in Nat /\ m - 1 \in Nat
      BY <2>1, <2>2
  <2>4. PICK f : IsTree(n, m - 1, f)
      BY <2>1, <2>3
  <2>5. \A l \in 0 .. m - 1 :
            f[l] = IF l = 0 THEN [k \in 1 .. n |-> <<k>>] ELSE Above(f[l - 1])
      BY <2>4 DEF IsTree
  <2> DEFINE g == [l \in 0 .. m |->
                      IF l = 0 THEN [k \in 1 .. n |-> <<k>>] ELSE Above(f[l - 1])]
  <2>6. ASSUME NEW l \in 0 .. m - 1 PROVE g[l] = f[l]
      BY <2>3, <2>5, <2>6
  <2>7. g = [l \in 0 .. m |->
                IF l = 0 THEN [k \in 1 .. n |-> <<k>>] ELSE Above(g[l - 1])]
    <3>1. ASSUME NEW l \in 0 .. m, l # 0
          PROVE g[l - 1] = f[l - 1]
      <4>1. l - 1 \in 0 .. m - 1
          BY <2>3, <3>1
      <4> QED BY <4>1, <2>6
    <3> QED BY <3>1
  <2> HIDE DEF g
  <2>8. IsTree(n, m, g)
      BY <2>7 DEF IsTree
  <2> QED BY <2>1, <2>8
<1> QED BY <1>1

(* The level over one of c entries has half as many, rounded up.           *)
LEMMA AboveShape ==
    ASSUME NEW s, NEW c \in Nat, c # 0, Len(s) = c
    PROVE  \E d \in Nat :
              /\ d # 0 /\ 2 * d >= c /\ 2 * d <= c + 1
              /\ DOMAIN Above(s) = 1 .. d /\ Len(Above(s)) = d
              /\ \A k \in 1 .. d :
                    Above(s)[k] = Hash(s[2 * k - 1], s[IF 2 * k <= c THEN 2 * k ELSE c])
<1>1. PICK d \in Nat : d = (c + 1) \div 2
    OBVIOUS
<1>2. d # 0 /\ 2 * d >= c /\ 2 * d <= c + 1
    BY <1>1
<1>3. Above(s) = [k \in 1 .. d |-> Hash(s[2 * k - 1], s[Min({2 * k, c})])]
    BY <1>1 DEF Above
<1>4. \A k \in 1 .. d : Min({2 * k, c}) = IF 2 * k <= c THEN 2 * k ELSE c
    BY MinTwo
<1>5. Len(Above(s)) = d
  <2> DEFINE entry(k) == Hash(s[2 * k - 1], s[Min({2 * k, c})])
  <2> HIDE DEF entry
  <2>3. Above(s) = [k \in 1 .. d |-> entry(k)]
      BY <1>3 DEF entry
  <2>1. Above(s) \in Seq({entry(k) : k \in 1 .. d})
      BY <2>3
  <2>2. DOMAIN Above(s) = 1 .. d
      BY <1>3
  <2> QED BY <2>1, <2>2
<1> QED BY <1>2, <1>3, <1>4, <1>5

(* Entries of level l stand for 2 ^ l leaves each, and reach the last leaf.*)
LevelShape(n, l, level) ==
    \E c \in Nat :
        /\ c # 0 /\ Len(level) = c /\ DOMAIN level = 1 .. c
        /\ c * 2 ^ l >= n

(* So it is on every level of a tree.                                      *)
LEMMA TreeShape ==
    ASSUME NEW n \in Nat, n # 0, NEW h \in Nat, NEW f, IsTree(n, h, f), NEW l \in 0 .. h
    PROVE  LevelShape(n, l, f[l])
<1>0. \A i \in 0 .. h :
          f[i] = IF i = 0 THEN [k \in 1 .. n |-> <<k>>] ELSE Above(f[i - 1])
    BY DEF IsTree
<1> DEFINE Bad == {i \in 0 .. h : ~LevelShape(n, i, f[i])}
<1>1. CASE Bad # {}
  <2>0. Bad \in SUBSET Nat
      OBVIOUS
  <2>1. PICK m \in Bad : \A i \in Bad : m <= i
      BY <1>1, <2>0, LeastMember
  <2>2. m # 0
    <3>1. ASSUME m = 0 PROVE LevelShape(n, m, f[m])
      <4>1. f[m] = [k \in 1 .. n |-> <<k>>]
          BY <1>0, <2>1, <3>1
      <4>2. f[m] \in Seq({<<k>> : k \in 1 .. n}) /\ DOMAIN f[m] = 1 .. n
          BY <4>1
      <4>3. Len(f[m]) = n
          BY <4>2
      <4>4. 2 ^ m = 1
          BY <3>1, PowerZero
      <4>5. n * 2 ^ m >= n
          BY <4>4
      <4> QED BY <4>2, <4>3, <4>5 DEF LevelShape
    <3> QED BY <2>1, <3>1
  <2>3. PICK p \in 0 .. h : m = p + 1
    <3>1. m - 1 \in 0 .. h
        BY <2>1, <2>2
    <3> QED BY <3>1, <2>1
  <2>4. LevelShape(n, p, f[p])
      BY <2>1, <2>3
  <2>5. PICK c \in Nat : c # 0 /\ Len(f[p]) = c /\ DOMAIN f[p] = 1 .. c /\ c * 2 ^ p >= n
      BY <2>4 DEF LevelShape
  <2>11. m \in 0 .. h /\ m \in Nat /\ p \in Nat /\ m - 1 = p
      BY <2>1, <2>3
  <2>6. f[m] = Above(f[p])
      BY <1>0, <2>2, <2>11
  <2>7. PICK d \in Nat : d # 0 /\ 2 * d >= c /\ DOMAIN Above(f[p]) = 1 .. d /\ Len(Above(f[p])) = d
      BY <2>5, AboveShape
  <2>8. 2 ^ m = 2 * 2 ^ p /\ 2 ^ p \in Nat
      BY <2>3, <2>11, PowerNext, PowerCounts
  <2>9. d * 2 ^ m >= n
    <3>1. PICK w \in Nat : w = 2 ^ p
        BY <2>8
    <3>2. d * (2 * w) >= c * w
        BY <2>7
    <3> QED BY <2>5, <2>8, <3>1, <3>2
  <2>10. LevelShape(n, m, f[m])
      BY <2>6, <2>7, <2>9 DEF LevelShape
  <2> QED BY <2>1, <2>10
<1> QED BY <1>1

(* What is known of the levels of a block.                                 *)
LEMMA LevelsTree ==
    ASSUME NEW n \in Nat, n # 0
    PROVE  /\ Levels(n)[0] = [k \in 1 .. n |-> <<k>>]
           /\ \A l \in 0 .. Height(n) : LevelShape(n, l, Levels(n)[l])
           /\ \A l \in 0 .. Height(n) : l # 0 => Levels(n)[l] = Above(Levels(n)[l - 1])
<1>1. Height(n) \in Nat
    BY HeightType
<1>2. IsTree(n, Height(n), Levels(n))
    BY <1>1, TreeExists, LevelsAre
<1> DEFINE f == Levels(n)
<1> DEFINE h == Height(n)
<1> HIDE DEF f, h
<1>3. IsTree(n, h, f) /\ h \in Nat
    BY <1>1, <1>2 DEF f, h
<1>4. \A l \in 0 .. h : f[l] = IF l = 0 THEN [k \in 1 .. n |-> <<k>>] ELSE Above(f[l - 1])
    BY <1>3 DEF IsTree
<1>5. f[0] = [k \in 1 .. n |-> <<k>>]
    BY <1>3, <1>4
<1>6. \A l \in 0 .. h : LevelShape(n, l, f[l])
    BY <1>3, TreeShape
<1> QED BY <1>4, <1>5, <1>6 DEF f, h

(* An entry above the leaves is the hash of two entries one level below,   *)
(* the second of which is the first again at an odd end.                   *)
IsJoint(n, l, j) ==
    \E i \in 0 .. Height(n), c \in Nat :
        /\ l = i + 1 /\ c * 2 ^ i >= n
        /\ Len(Levels(n)[i]) = c /\ 2 * j + 1 <= c
        /\ Levels(n)[l][j + 1]
              = Hash(Levels(n)[i][2 * j + 1],
                     Levels(n)[i][IF 2 * j + 2 <= c THEN 2 * j + 2 ELSE 2 * j + 1])

(* Every entry above the leaves is one.                                    *)
LEMMA EntryAbove ==
    ASSUME NEW n \in Nat, NEW l \in 0 .. Height(n), NEW j \in Nat,
           n # 0, l # 0, j < Len(Levels(n)[l])
    PROVE  IsJoint(n, l, j)
<1>0. Height(n) \in Nat
    BY HeightType
<1>1. PICK i \in 0 .. Height(n) : i = l - 1
  <2>1. l - 1 \in 0 .. Height(n)
      BY <1>0
  <2> QED BY <2>1
<1>2. PICK s : s = Levels(n)[i]
    OBVIOUS
<1>3. Levels(n)[l] = Above(s)
    BY <1>1, <1>2, LevelsTree
<1>4. PICK c \in Nat : c # 0 /\ Len(s) = c /\ c * 2 ^ i >= n
  <2>1. LevelShape(n, i, s)
      BY <1>2, LevelsTree
  <2> QED BY <2>1 DEF LevelShape
<1>5. PICK d \in Nat :
          /\ 2 * d <= c + 1 /\ Len(Above(s)) = d
          /\ \A k \in 1 .. d :
                Above(s)[k] = Hash(s[2 * k - 1], s[IF 2 * k <= c THEN 2 * k ELSE c])
    BY <1>4, AboveShape, ZenonT(40)
<1>6. PICK k \in 1 .. d : k = j + 1
  <2>1. j + 1 \in 1 .. d
      BY <1>3, <1>5
  <2> QED BY <2>1
<1>7. 2 * k - 1 = 2 * j + 1 /\ 2 * k = 2 * j + 2 /\ 2 * j + 1 <= c
    BY <1>5, <1>6
<1>8. Above(s)[k] = Hash(s[2 * j + 1], s[IF 2 * j + 2 <= c THEN 2 * j + 2 ELSE c])
    BY <1>5, <1>7
<1>9. 2 * j + 2 <= c \/ c = 2 * j + 1
    BY <1>7
<1>10. Above(s)[k] = Hash(s[2 * j + 1], s[IF 2 * j + 2 <= c THEN 2 * j + 2 ELSE 2 * j + 1])
    BY <1>8, <1>9
<1>11. Levels(n)[l][j + 1] = Above(s)[k]
    BY <1>3, <1>6
<1> QED BY <1>1, <1>2, <1>4, <1>7, <1>10, <1>11 DEF IsJoint

(* The provenance that is read does not change: a leaf that names one      *)
(* transaction, and the root of the block's own tree.                      *)
ProofInv ==
    /\ proof.n \in Nat \ {0} /\ proof.pos \in Nat
    /\ \E t \in Nat : proof.leaf = <<t>>
    /\ proof.root = Levels(proof.n)[Height(proof.n)][1]

(* After s siblings the hash is at most an entry of level s.  If it is the *)
(* entry j, the leaf is a transaction of the block, and it is the one that *)
(* the entry and the folded digits of the position name, unless these name *)
(* a place behind the last one.                                            *)
PlacedAt(s) ==
    \A l \in 0 .. Height(proof.n), j \in Nat :
        LET place == j * 2 ^ s + (proof.pos % 2 ^ s)
        IN  j < Len(Levels(proof.n)[l]) /\ node.hash = Levels(proof.n)[l][j + 1] =>
                /\ l = s
                /\ \E k \in 1 .. proof.n :
                      proof.leaf = <<k>> /\ (place < proof.n => k = place + 1)

NodeInv ==
    \E s \in Nat : node.next = s + 1 /\ node.pos = proof.pos \div 2 ^ s /\ PlacedAt(s)

(* Past the inclusion check, the check held. *)
CheckedInv == pc \in {"native", "reproduced"} => Included

InclusionInv == ProofInv /\ NodeInv /\ CheckedInv

-----------------------------------------------------------------------------
(* What is read names one transaction of one block.                        *)
LEMMA InclusionInit == Init => InclusionInv
<1> SUFFICES ASSUME Init PROVE InclusionInv
    OBVIOUS
<1>1. \E n \in Nat \ {0}, t \in Nat, q \in Nat : \E p, branch :
          proof = Provenance(n, p, t, q, branch)
  <2>1. CASE InitBaseline
    <3>1. PICK n \in Leaves :
              proof \in UNION {
                {Provenance(n, p, t, q, branch) :
                    t \in 1 .. n + 1, q \in 0 .. 2 * n,
                    branch \in LET whole == Branch(n, p)
                              IN  {whole, Append(whole, <<1>>)}
                                  \union {SubSeq(whole, 1, l) : l \in 0 .. Height(n)}}
                : p \in 0 .. n - 1}
        BY <2>1 DEF InitBaseline, Proofs
    <3>2. n \in Nat \ {0}
        BY LeavesAssumption
    <3>3. PICK p \in 0 .. n - 1 :
              proof \in {Provenance(n, p, t, q, branch) :
                    t \in 1 .. n + 1, q \in 0 .. 2 * n,
                    branch \in LET whole == Branch(n, p)
                              IN  {whole, Append(whole, <<1>>)}
                                  \union {SubSeq(whole, 1, l) : l \in 0 .. Height(n)}}
        BY <3>1
    <3>4. PICK t \in 1 .. n + 1, q \in 0 .. 2 * n : \E branch :
              proof = Provenance(n, p, t, q, branch)
        BY <3>3
    <3>5. t \in Nat /\ q \in Nat
        BY <3>2
    <3> QED BY <3>2, <3>4, <3>5
  <2>2. CASE InitPhase3
    <3>1. proof = Provenance(1, 0, 1, 0, <<>>)
        BY <2>2 DEF InitPhase3, NoProof
    <3> QED BY <3>1
  <2> QED BY <2>1, <2>2 DEF Init
<1>2. PICK n \in Nat \ {0}, t \in Nat, q \in Nat : \E p, branch :
          proof = Provenance(n, p, t, q, branch)
    BY <1>1
<1>3. proof.n = n /\ proof.pos = q /\ proof.leaf = <<t>>
      /\ proof.root = Levels(n)[Height(n)][1]
    BY <1>2 DEF Provenance
<1>4. ProofInv
    BY <1>3 DEF ProofInv
<1>5. node = [hash |-> <<t>>, pos |-> q, next |-> 1]
    BY <1>3 DEF Init
<1>6. PICK s \in Nat : s = 0
    OBVIOUS
<1>7. PlacedAt(s)
  <2> SUFFICES ASSUME NEW l \in 0 .. Height(n), NEW j \in Nat,
                      j < Len(Levels(n)[l]), <<t>> = Levels(n)[l][j + 1]
               PROVE  /\ l = s
                      /\ \E k \in 1 .. n :
                            /\ proof.leaf = <<k>>
                            /\ (j * 2 ^ s + (q % 2 ^ s) < n => k = j * 2 ^ s + (q % 2 ^ s) + 1)
      BY <1>3, <1>5 DEF PlacedAt
  <2>0. Height(n) \in Nat
      BY HeightType
  <2>1. l = 0
    <3>1. ASSUME l # 0 PROVE FALSE
      <4>2. n \in Nat /\ n # 0
          OBVIOUS
      <4>1. IsJoint(n, l, j)
          BY <3>1, <4>2, EntryAbove
      <4>7. \E a, b : <<t>> = Hash(a, b)
          BY <4>1 DEF IsJoint
      <4>8. PICK a, b : <<t>> = <<a, b>>
          BY <4>7 DEF Hash
      <4>9. Len(<<t>>) = 1 /\ Len(<<a, b>>) = 2
          OBVIOUS
      <4> QED BY <4>8, <4>9
    <3> QED BY <3>1
  <2>2. Levels(n)[0] = [k \in 1 .. n |-> <<k>>]
      BY LevelsTree
  <2>3. Len(Levels(n)[0]) = n
    <3>1. [k \in 1 .. n |-> <<k>>] \in Seq({<<k>> : k \in 1 .. n})
        OBVIOUS
    <3>2. DOMAIN [k \in 1 .. n |-> <<k>>] = 1 .. n
        OBVIOUS
    <3> QED BY <2>2, <3>1, <3>2
  <2>4. j + 1 \in 1 .. n
      BY <2>1, <2>3
  <2>5. <<t>> = <<j + 1>>
      BY <2>1, <2>2, <2>4
  <2>6. t = j + 1
      BY <2>5
  <2>7. 2 ^ s = 1
      BY <1>6, PowerZero
  <2>8. j * 2 ^ s + (q % 2 ^ s) = j
      BY <2>7
  <2> QED BY <1>3, <1>6, <2>1, <2>4, <2>6, <2>8
<1>8. node.next = s + 1 /\ node.pos = q \div 2 ^ s
  <2>1. 2 ^ s = 1
      BY <1>6, PowerZero
  <2> QED BY <1>5, <1>6, <2>1
<1>9. NodeInv
    BY <1>3, <1>7, <1>8 DEF NodeInv
<1>10. CheckedInv
    BY DEF Init, CheckedInv
<1> QED BY <1>4, <1>9, <1>10 DEF InclusionInv

(* A sibling more: the entry above has the two it is the hash of below it, *)
(* and the digit of the position that is read says which.                  *)
LEMMA FoldKeeps ==
    ASSUME ProofInv, NodeInv, FoldSibling
    PROVE  NodeInv'
<1>1. PICK s \in Nat : node.next = s + 1 /\ node.pos = proof.pos \div 2 ^ s /\ PlacedAt(s)
    BY DEF NodeInv
<1>2. PICK r \in Nat : r = s + 1
    OBVIOUS
<1>3. PICK w \in Nat : w = 2 ^ s /\ w # 0
    BY PowerCounts, PowerLarge
<1>4. PICK v \in Nat : v = 2 ^ r /\ v = 2 * w
    BY <1>2, <1>3, PowerNext
<1>5. PICK n \in Nat, p \in Nat : n = proof.n /\ p = proof.pos /\ n # 0
    BY DEF ProofInv
<1>6. PICK bit \in {0, 1} : bit = node.pos % 2
    <2>1. p \div w \in Nat
        BY <1>3, DivMod
    <2> QED BY <2>1, <1>1, <1>3, <1>5
<1>14. (p \div w) % 2 = bit
    BY <1>1, <1>3, <1>5, <1>6
<1>7. p \div v = (p \div w) \div 2 /\ p % v = (p % w) + w * bit
    BY <1>3, <1>4, <1>14, DivTwice
<1>8. proof' = proof
    BY DEF FoldSibling, given
<1>9. PICK other :
          node' = [hash |-> IF bit = 1 THEN Hash(other, node.hash)
                                       ELSE Hash(node.hash, other),
                   pos |-> node.pos \div 2,
                   next |-> node.next + 1]
    BY <1>6 DEF FoldSibling
<1>10. node'.next = r + 1 /\ node'.pos = proof'.pos \div 2 ^ r
    BY <1>1, <1>2, <1>3, <1>4, <1>5, <1>7, <1>8, <1>9
<1>11. \A a, b, c, d : Hash(a, b) = Hash(c, d) => a = c /\ b = d
    BY DEF Hash
<1>12. ASSUME NEW l \in 0 .. Height(n), NEW j \in Nat,
              j < Len(Levels(n)[l]), node'.hash = Levels(n)[l][j + 1]
       PROVE  /\ l = r
              /\ \E k \in 1 .. n :
                    /\ proof.leaf = <<k>>
                    /\ (j * v + (p % v) < n => k = j * v + (p % v) + 1)
  <2>1. l # 0
    <3>1. ASSUME l = 0 PROVE FALSE
      <4>1. Levels(n)[0] = [k \in 1 .. n |-> <<k>>]
          BY <1>5, LevelsTree
      <4>2. Len(Levels(n)[0]) = n
        <5>1. [k \in 1 .. n |-> <<k>>] \in Seq({<<k>> : k \in 1 .. n})
            OBVIOUS
        <5>2. DOMAIN [k \in 1 .. n |-> <<k>>] = 1 .. n
            OBVIOUS
        <5> QED BY <4>1, <5>1, <5>2
      <4>3. j + 1 \in 1 .. n
          BY <1>12, <3>1, <4>2
      <4>4. node'.hash = <<j + 1>>
          BY <1>12, <3>1, <4>1, <4>3
      <4>5. PICK a, b : node'.hash = <<a, b>>
          BY <1>9 DEF Hash
      <4>6. Len(<<j + 1>>) = 1 /\ Len(<<a, b>>) = 2
          OBVIOUS
      <4> QED BY <4>4, <4>5, <4>6
    <3> QED BY <3>1
  <2>2. IsJoint(n, l, j)
      BY <1>5, <1>12, <2>1, EntryAbove
  <2>3. PICK i \in 0 .. Height(n), c \in Nat :
            /\ l = i + 1 /\ c * 2 ^ i >= n
            /\ Len(Levels(n)[i]) = c /\ 2 * j + 1 <= c
            /\ Levels(n)[l][j + 1]
                  = Hash(Levels(n)[i][2 * j + 1],
                         Levels(n)[i][IF 2 * j + 2 <= c THEN 2 * j + 2 ELSE 2 * j + 1])
      BY <2>2 DEF IsJoint
  <2>4. \A m \in Nat :
            m < c /\ node.hash = Levels(n)[i][m + 1] =>
                /\ i = s
                /\ \E k \in 1 .. n :
                      proof.leaf = <<k>> /\ (m * w + (p % w) < n => k = m * w + (p % w) + 1)
      BY <1>1, <1>3, <1>5, <2>3 DEF PlacedAt
  <2>5. p % w \in Nat
      BY <1>3, DivMod
  <2>6. CASE bit = 0
    <3>1. PICK m \in Nat : m = 2 * j
        OBVIOUS
    <3>2. node.hash = Levels(n)[i][m + 1]
        BY <1>9, <1>11, <1>12, <2>3, <2>6, <3>1
    <3>3. m < c
        BY <2>3, <3>1
    <3>4. m * w + (p % w) = j * v + (p % v)
      <4>1. (2 * j) * w = j * (2 * w)
          OBVIOUS
      <4>2. p % v = p % w
          BY <1>7, <2>5, <2>6
      <4> QED BY <1>4, <3>1, <4>1, <4>2
    <3> QED BY <1>2, <2>3, <2>4, <3>2, <3>3, <3>4
  <2>7. CASE bit = 1 /\ 2 * j + 2 <= c
    <3>1. PICK m \in Nat : m = 2 * j + 1
        OBVIOUS
    <3>2. node.hash = Levels(n)[i][m + 1]
      <4>1. node.hash = Levels(n)[i][2 * j + 2]
          BY <1>9, <1>11, <1>12, <2>3, <2>7
      <4> QED BY <3>1, <4>1
    <3>3. m < c
        BY <2>7, <3>1
    <3>4. m * w + (p % w) = j * v + (p % v)
      <4>1. (2 * j + 1) * w = j * (2 * w) + w
          OBVIOUS
      <4>2. p % v = (p % w) + w
          BY <1>7, <2>5, <2>7
      <4> QED BY <1>4, <2>5, <3>1, <4>1, <4>2
    <3> QED BY <1>2, <2>3, <2>4, <3>2, <3>3, <3>4
  <2>8. CASE bit = 1 /\ ~(2 * j + 2 <= c)
    <3>1. PICK m \in Nat : m = 2 * j
        OBVIOUS
    <3>2. node.hash = Levels(n)[i][m + 1]
        BY <1>9, <1>11, <1>12, <2>3, <2>8, <3>1
    <3>3. m < c /\ c = 2 * j + 1
        BY <2>3, <2>8, <3>1
    <3>4. i = s
        BY <2>4, <3>2, <3>3
    <3>5. ~(j * v + (p % v) < n)
      <4>1. (2 * j + 1) * w = j * (2 * w) + w
          OBVIOUS
      <4>2. p % v = (p % w) + w
          BY <1>7, <2>5, <2>8
      <4>3. c * w >= n
          BY <1>3, <2>3, <3>4
      <4>4. c * w = j * v + w
          BY <1>4, <3>3, <4>1
      <4> QED BY <2>5, <4>2, <4>3, <4>4
    <3> QED BY <1>2, <2>3, <2>4, <3>2, <3>3, <3>5
  <2> QED BY <2>6, <2>7, <2>8
<1>13. PlacedAt(r)'
  <2>1. Height(proof'.n) = Height(n) /\ Levels(proof'.n) = Levels(n)
      BY <1>5, <1>8
  <2>2. proof'.leaf = proof.leaf /\ proof'.n = n /\ proof'.pos = p
      BY <1>5, <1>8
  <2> QED BY <1>4, <1>12, <2>1, <2>2 DEF PlacedAt
<1> QED BY <1>2, <1>10, <1>13 DEF NodeInv

-----------------------------------------------------------------------------
(* The folding aside, no step moves the node, and only the inclusion check *)
(* leads behind itself.  What was read at the start stays.                 *)
Elsewhere ==
    /\ proof' = proof /\ node' = node
    /\ pc' \in {"native", "reproduced"} => pc \in {"native", "reproduced"}

(* Reading the file.                                                       *)
LEMMA ParseElsewhere ==
    ASSUME Parse
    PROVE  Elsewhere
<1>1. CASE ReadHeader
    BY <1>1 DEF ReadHeader, Raises, Reads, given, Elsewhere
<1>2. CASE ReadInput
    BY <1>2 DEF ReadInput, Raises, Reads, given, Elsewhere
<1>3. CASE CountOutputs
    BY <1>3 DEF CountOutputs, Raises, Reads, given, Elsewhere
<1>4. CASE ReadOutput
    BY <1>4 DEF ReadOutput, Raises, Reads, given, Elsewhere
<1>5. CASE AfterOutputs
    BY <1>5 DEF AfterOutputs, Raises, Reads, given, Elsewhere
<1>6. CASE ReadWitness
    BY <1>6 DEF ReadWitness, Raises, Reads, given, Elsewhere
<1>7. CASE AfterWitness
    BY <1>7 DEF AfterWitness, Raises, Reads, given, Elsewhere
<1>8. CASE ReadEnd
    BY <1>8 DEF ReadEnd, Raises, Reads, given, Elsewhere
<1> QED BY <1>1, <1>2, <1>3, <1>4, <1>5, <1>6, <1>7, <1>8 DEF Parse

(* Running the script.                                                     *)
LEMMA ExecuteElsewhere ==
    ASSUME Execute
    PROVE  Elsewhere
<1>1. CASE Unlock
    BY <1>1 DEF Unlock, Raises, Continues, Replaces, Executes, given, layout, Elsewhere
<1>2. CASE PushData
    BY <1>2 DEF PushData, Raises, Continues, Replaces, Executes, given, layout, Elsewhere
<1>3. CASE PushSmall
    BY <1>3 DEF PushSmall, Raises, Continues, Replaces, Executes, given, layout, Elsewhere
<1>4. CASE DupTop
    BY <1>4 DEF DupTop, Raises, Continues, Replaces, Executes, given, layout, Elsewhere
<1>5. CASE OverTop
    BY <1>5 DEF OverTop, Raises, Continues, Replaces, Executes, given, layout, Elsewhere
<1>6. CASE SwapTop
    BY <1>6 DEF SwapTop, Raises, Continues, Replaces, Executes, given, layout, Elsewhere
<1>7. CASE AddTop
    BY <1>7 DEF AddTop, Raises, Continues, Replaces, Executes, given, layout, Elsewhere
<1>8. CASE MinTop
    BY <1>8 DEF MinTop, Raises, Continues, Replaces, Executes, given, layout, Elsewhere
<1>9. CASE HashTop160
    BY <1>9 DEF HashTop160, Raises, Continues, Replaces, Executes, given, layout, Elsewhere
<1>10. CASE HashTop256
    BY <1>10 DEF HashTop256, Raises, Continues, Replaces, Executes, given, layout, Elsewhere
<1>11. CASE RollTop
    BY <1>11 DEF RollTop, Raises, Continues, Replaces, Executes, given, layout, Elsewhere
<1>12. CASE EqualTop
    BY <1>12 DEF EqualTop, Raises, Continues, Replaces, Executes, given, layout, Elsewhere
<1>13. CASE CheckSigTop
    BY <1>13 DEF CheckSigTop, Raises, Continues, Replaces, Executes, given, layout, Elsewhere
<1>14. CASE MultisigTop
    BY <1>14 DEF MultisigTop, Raises, Continues, Replaces, Executes, given, layout, Elsewhere
<1>15. CASE Unsupported
    BY <1>15 DEF Unsupported, Raises, Continues, Replaces, Executes, given, layout, Elsewhere
<1>16. CASE Finish
    BY <1>16 DEF Finish, Raises, Continues, Replaces, Executes, given, layout, Elsewhere
<1> QED BY <1>1, <1>2, <1>3, <1>4, <1>5, <1>6, <1>7, <1>8, <1>9, <1>10, <1>11, <1>12,
           <1>13, <1>14, <1>15, <1>16 DEF Execute

(* Every step is one of these, the folding or the check.                   *)
LEMMA StepElsewhere ==
    ASSUME [Next]_vars, ~FoldSibling, ~CheckInclusion
    PROVE  Elsewhere
<1>1. CASE Parse
    BY <1>1, ParseElsewhere
<1>2. CASE CheckTxid
    BY <1>2 DEF CheckTxid, Raises, Reads, given, Elsewhere
<1>3. CASE NativeVerdicts
    BY <1>3 DEF NativeVerdicts, Raises, given, Elsewhere
<1>4. CASE ParsePrefix
    BY <1>4 DEF ParsePrefix, Raises, given, Elsewhere
<1>5. CASE ParseTables
    BY <1>5 DEF ParseTables, Raises, given, Elsewhere
<1>6. CASE ParseChecks
    BY <1>6 DEF ParseChecks, Raises, given, Elsewhere
<1>7. CASE Execute
    BY <1>7, ExecuteElsewhere
<1>8. CASE Validate
    BY <1>8 DEF Validate, Raises, given, Elsewhere
<1>9. CASE UNCHANGED vars
    BY <1>9 DEF vars, given, Elsewhere
<1> QED BY <1>1, <1>2, <1>3, <1>4, <1>5, <1>6, <1>7, <1>8, <1>9 DEF Next, Baseline

(* What depends on nothing else stays with proof and node.                 *)
LEMMA InclusionKept ==
    ASSUME ProofInv, NodeInv, proof' = proof, node' = node
    PROVE  ProofInv' /\ NodeInv'
<1>1. ProofInv'
    BY DEF ProofInv
<1>3. PICK s \in Nat : node.next = s + 1 /\ node.pos = proof.pos \div 2 ^ s /\ PlacedAt(s)
    BY DEF NodeInv
<1>4. PlacedAt(s)'
    BY <1>3 DEF PlacedAt
<1>5. node'.next = s + 1 /\ node'.pos = proof'.pos \div 2 ^ s
    BY <1>3
<1> QED BY <1>1, <1>4, <1>5 DEF NodeInv

(* The invariant of the inclusion check.                                   *)
LEMMA InclusionStep ==
    ASSUME InclusionInv, [Next]_vars
    PROVE  InclusionInv'
<1>0. ProofInv /\ NodeInv /\ CheckedInv
    BY DEF InclusionInv
<1>1. CASE FoldSibling
  <2>1. NodeInv'
      BY <1>0, <1>1, FoldKeeps
  <2>2. proof' = proof /\ pc' = pc /\ pc = "merkle"
      BY <1>1 DEF FoldSibling, given
  <2> QED BY <1>0, <2>1, <2>2 DEF InclusionInv, ProofInv, CheckedInv
<1>2. CASE CheckInclusion
  <2>1. proof' = proof /\ node' = node
      BY <1>2 DEF CheckInclusion, Raises, given
  <2>2. pc' \in {"native", "reproduced"} => Included
      BY <1>2 DEF CheckInclusion, Raises
  <2>3. CheckedInv'
      BY <2>1, <2>2 DEF CheckedInv, Included
  <2> QED BY <1>0, <2>1, <2>3, InclusionKept DEF InclusionInv
<1>3. CASE ~FoldSibling /\ ~CheckInclusion
  <2>1. Elsewhere
      BY <1>3, StepElsewhere
  <2>2. CheckedInv'
      BY <1>0, <2>1 DEF Elsewhere, CheckedInv, Included
  <2>3. proof' = proof /\ node' = node
      BY <2>1 DEF Elsewhere
  <2> QED BY <1>0, <2>2, <2>3, InclusionKept DEF InclusionInv
<1> QED BY <1>1, <1>2, <1>3

(* A hash that is the root, with no digit of the position left.            *)
LEMMA IncludedAtPlace ==
    ASSUME InclusionInv
    PROVE  IncludedIsInBlock
<1> SUFFICES ASSUME pc \in {"native", "reproduced"}
             PROVE  /\ \E k \in 1 .. proof.n : proof.leaf = <<k>>
                    /\ proof.pos < 2 ^ Height(proof.n)
                    /\ proof.pos < proof.n => proof.leaf = <<proof.pos + 1>>
    BY DEF IncludedIsInBlock
<1>1. Included
    BY DEF InclusionInv, CheckedInv
<1>2. PICK n \in Nat, p \in Nat : n = proof.n /\ p = proof.pos /\ n # 0
    BY DEF InclusionInv, ProofInv
<1>3. PICK s \in Nat : node.pos = p \div 2 ^ s /\ PlacedAt(s)
    BY <1>2 DEF InclusionInv, NodeInv
<1>4. PICK h \in Nat : h = Height(n)
    BY <1>2, HeightType
<1>5. node.hash = Levels(n)[h][1] /\ node.pos = 0
    BY <1>1, <1>2, <1>4 DEF Included, InclusionInv, ProofInv
<1>6. Len(Levels(n)[h]) \in Nat \ {0}
  <2>2. h \in 0 .. Height(n)
      BY <1>4
  <2>1. LevelShape(n, h, Levels(n)[h])
      BY <1>2, <2>2, LevelsTree
  <2> QED BY <2>1 DEF LevelShape
<1>7. PICK w \in Nat : w = 2 ^ s /\ w # 0
    BY PowerCounts, PowerLarge
<1>8. p % w = p /\ p < w
  <2>1. p \div w = 0
      BY <1>3, <1>5, <1>7
  <2>2. p = (p % w) + w * 0 /\ p % w < w /\ p % w \in Nat
      BY <1>7, <2>1, DivMod
  <2> QED BY <2>2
<1>9. PICK j \in Nat : j = 0
    OBVIOUS
<1>10. j < Len(Levels(n)[h]) /\ node.hash = Levels(n)[h][j + 1] /\ h \in 0 .. Height(n)
    BY <1>4, <1>5, <1>6, <1>9
<1>11. h = s /\ \E k \in 1 .. n :
            proof.leaf = <<k>> /\ (j * w + (p % w) < n => k = j * w + (p % w) + 1)
    BY <1>2, <1>3, <1>7, <1>10 DEF PlacedAt
<1>12. j * w + (p % w) = p
    BY <1>8, <1>9
<1> QED BY <1>2, <1>4, <1>7, <1>8, <1>11, <1>12

-----------------------------------------------------------------------------
(* The inclusion invariant holds for every block, branch and position that *)
(* an explorer may give (baseline.py:66-78).                               *)
THEOREM InclusionInvariance == Spec => []InclusionInv
<1>1. Init => InclusionInv
    BY InclusionInit
<1>2. InclusionInv /\ [Next]_vars => InclusionInv'
    BY InclusionStep
<1> QED BY <1>1, <1>2, PTL DEF Spec

(* Whatever the branch, a transaction taken for included is one of the     *)
(* block's, at the position given unless the tree repeats it there: the    *)
(* branch needs no length check of its own, because what is left of the    *)
(* position is checked (baseline.py:74).                                   *)
THEOREM InclusionTrue == Spec => []IncludedIsInBlock
<1>1. InclusionInv => IncludedIsInBlock
    BY IncludedAtPlace
<1> QED BY <1>1, InclusionInvariance, PTL

-----------------------------------------------------------------------------
(* One more digit to base b.                                               *)
NextDigit(p, w, b, v) ==
    /\ p \div v = (p \div w) \div b
    /\ p % v = (p % w) + w * ((p \div w) % b)

(* What p leaves over b * w is what it leaves over w and one digit more.   *)
LEMMA DivTimes ==
    ASSUME NEW w \in Nat, NEW b \in Nat, NEW p \in Nat, NEW v \in Nat,
           w # 0, b # 0, v = b * w
    PROVE  NextDigit(p, w, b, v)
<1>1. PICK q \in Nat, r \in Nat : p \div w = q /\ p % w = r /\ r < w /\ p = r + w * q
    BY DivMod
<1>2. PICK a \in Nat, c \in Nat : q \div b = a /\ q % b = c /\ c < b /\ q = c + b * a
    BY DivMod
<1>3. w * c + w <= b * w
  <2>1. (c + 1) * w <= b * w
      BY <1>2
  <2>2. (c + 1) * w = w * c + w
      OBVIOUS
  <2> QED BY <2>1, <2>2
<1>4. PICK d \in Nat : d = r + w * c /\ d < v
  <2>1. w * c \in Nat
      OBVIOUS
  <2>2. r + w * c < v
      BY <1>1, <1>3, <2>1
  <2> QED BY <1>1, <2>1, <2>2
<1>5. p = d + v * a
  <2>1. w * q = w * c + v * a
    <3>1. w * (c + b * a) = w * c + (b * w) * a
        OBVIOUS
    <3> QED BY <1>2, <3>1
  <2> QED BY <1>1, <1>4, <2>1
<1>6. v # 0
    BY <1>4
<1>7. p % v = d /\ p \div v = a
    BY <1>4, <1>5, <1>6, DivModOf
<1> QED BY <1>1, <1>2, <1>4, <1>7 DEF NextDigit

-----------------------------------------------------------------------------
(* The powers of the radix. *)
IsPowers(f, n) == f = [i \in 0 .. n |-> IF i = 0 THEN 1 ELSE Radix * f[i - 1]]

(* There are such powers, as many as one likes.                            *)
LEMMA PowersExist ==
    ASSUME NEW n \in Nat
    PROVE  \E f : IsPowers(f, n)
<1> DEFINE Bad == {k \in Nat : ~\E f : IsPowers(f, k)}
<1>1. CASE Bad # {}
  <2>1. PICK m \in Bad : \A k \in Bad : m <= k
      BY <1>1, LeastMember
  <2>2. m # 0
    <3>1. IsPowers([i \in 0 .. 0 |-> 1], 0)
      <4>1. [i \in 0 .. 0 |-> 1]
            = [i \in 0 .. 0 |-> IF i = 0 THEN 1 ELSE Radix * [j \in 0 .. 0 |-> 1][i - 1]]
          OBVIOUS
      <4> QED BY <4>1 DEF IsPowers
    <3> QED BY <2>1, <3>1
  <2>3. m \in Nat /\ m - 1 \in Nat
      BY <2>1, <2>2
  <2>4. PICK f : IsPowers(f, m - 1)
      BY <2>1, <2>3
  <2>5. \A i \in 0 .. m - 1 : f[i] = IF i = 0 THEN 1 ELSE Radix * f[i - 1]
      BY <2>4 DEF IsPowers
  <2> DEFINE g == [i \in 0 .. m |-> IF i = 0 THEN 1 ELSE Radix * f[i - 1]]
  <2>6. ASSUME NEW i \in 0 .. m - 1 PROVE g[i] = f[i]
      BY <2>3, <2>5, <2>6
  <2>7. g = [i \in 0 .. m |-> IF i = 0 THEN 1 ELSE Radix * g[i - 1]]
    <3>1. ASSUME NEW i \in 0 .. m, i # 0 PROVE g[i - 1] = f[i - 1]
      <4>1. i - 1 \in 0 .. m - 1
          BY <2>3, <3>1
      <4> QED BY <4>1, <2>6
    <3> QED BY <3>1
  <2> HIDE DEF g
  <2>8. IsPowers(g, m)
      BY <2>7 DEF IsPowers
  <2> QED BY <2>1, <2>8
<1> QED BY <1>1

(* What the table of powers holds.                                         *)
LEMMA PlaceIs ==
    /\ Place[0] = 1
    /\ \A i \in 0 .. 9 : Place[i] \in Nat \ {0}
    /\ \A i \in 0 .. 8 : Place[i + 1] = Radix * Place[i]
<1> DEFINE p == CHOOSE f : IsPowers(f, 9)
<1>1. Place = [i \in 0 .. 9 |-> p[i]]
    BY DEF Place, IsPowers
<1>2. IsPowers(p, 9)
    BY PowersExist
<1> HIDE DEF p
<1>3. \A i \in 0 .. 9 : p[i] = IF i = 0 THEN 1 ELSE Radix * p[i - 1]
    BY <1>2 DEF IsPowers
<1>4. \A i \in 0 .. 9 : Place[i] = IF i = 0 THEN 1 ELSE Radix * Place[i - 1]
  <2>1. ASSUME NEW i \in 0 .. 9, i # 0 PROVE Place[i - 1] = p[i - 1]
      BY <1>1, <2>1
  <2> QED BY <1>1, <1>3, <2>1
<1>5. Radix \in Nat \ {0}
    BY CodecAssumption
<1>6. Place[0] \in Nat \ {0}
    BY <1>4
<1>7. ASSUME NEW i \in 0 .. 8, Place[i] \in Nat \ {0}
      PROVE Place[i + 1] \in Nat \ {0} /\ Place[i + 1] = Radix * Place[i]
  <2>1. Place[i + 1] = Radix * Place[i]
      BY <1>4
  <2> QED BY <1>5, <1>7, <2>1
<1>8. Place[1] \in Nat \ {0}
    BY <1>6, <1>7
<1>9. Place[2] \in Nat \ {0}
    BY <1>8, <1>7
<1>10. Place[3] \in Nat \ {0}
    BY <1>9, <1>7
<1>11. Place[4] \in Nat \ {0}
    BY <1>10, <1>7
<1>12. Place[5] \in Nat \ {0}
    BY <1>11, <1>7
<1>13. Place[6] \in Nat \ {0}
    BY <1>12, <1>7
<1>14. Place[7] \in Nat \ {0}
    BY <1>13, <1>7
<1>15. Place[8] \in Nat \ {0}
    BY <1>14, <1>7
<1>16. Place[9] \in Nat \ {0}
    BY <1>15, <1>7
<1>17. \A i \in 0 .. 9 : Place[i] \in Nat \ {0}
    BY <1>6, <1>8, <1>9, <1>10, <1>11, <1>12, <1>13, <1>14, <1>15, <1>16
<1> QED BY <1>4, <1>7, <1>17

(* They grow.                                                              *)
LEMMA PlaceGrows ==
    ASSUME NEW i \in 0 .. 9, NEW j \in 0 .. 9, i <= j
    PROVE  Place[i] <= Place[j]
<1>1. \A k \in 0 .. 8 : Place[k] <= Place[k + 1]
  <2>1. ASSUME NEW k \in 0 .. 8 PROVE Place[k] <= Place[k + 1]
    <3>1. Place[k + 1] = Radix * Place[k] /\ Place[k] \in Nat
        BY PlaceIs
    <3>2. Radix \in Nat /\ Radix >= 1
        BY CodecAssumption
    <3> QED BY <3>1, <3>2
  <2> QED BY <2>1
<1>2. \A k \in 0 .. 9 : Place[k] \in Nat
    BY PlaceIs
<1> DEFINE Bad == {k \in i .. 9 : ~(Place[i] <= Place[k])}
<1>3. CASE Bad # {}
  <2>0. Bad \in SUBSET Nat
      OBVIOUS
  <2>1. PICK m \in Bad : \A k \in Bad : m <= k
      BY <1>3, <2>0, LeastMember
  <2>2. m # i
      BY <1>2, <2>1
  <2>3. PICK k \in i .. 9 : m = k + 1 /\ k \in 0 .. 8
    <3>1. m - 1 \in i .. 9 /\ m - 1 \in 0 .. 8
        BY <2>1, <2>2
    <3> QED BY <3>1
  <2>4. Place[i] <= Place[k]
      BY <2>1, <2>3
  <2>5. Place[k] <= Place[m]
      BY <1>1, <2>3
  <2>6. m \in 0 .. 9 /\ k \in 0 .. 9
      BY <2>1, <2>3
  <2> QED BY <1>2, <2>1, <2>4, <2>5, <2>6
<1> QED BY <1>3

(* The value of the last 0, 1, .. n digits of b. *)
IsValues(b, n, f) ==
    f = [k \in 0 .. n |->
            IF k = 0 THEN 0 ELSE Min({Huge, b[Len(b) - k + 1] + Radix * f[k - 1]})]

(* The value of all of them is the last of these.                          *)
LEMMA ValueDef ==
    ASSUME NEW b
    PROVE  Value(b) = (CHOOSE f : IsValues(b, Len(b), f))[Len(b)]
BY DEF Value, IsValues

(* There are such values.                                                  *)
LEMMA ValuesExist ==
    ASSUME NEW b, NEW n \in Nat
    PROVE  \E f : IsValues(b, n, f)
<1> DEFINE step(k, v) == Min({Huge, b[Len(b) - k + 1] + Radix * v})
<1> HIDE DEF step
<1>0. \A k, f : IsValues(b, k, f) <=> f = [i \in 0 .. k |-> IF i = 0 THEN 0 ELSE step(i, f[i - 1])]
    BY DEF IsValues, step
<1> DEFINE Bad == {k \in Nat : ~\E f : IsValues(b, k, f)}
<1>1. CASE Bad # {}
  <2>1. PICK m \in Bad : \A k \in Bad : m <= k
      BY <1>1, LeastMember
  <2>2. m # 0
    <3>1. [i \in 0 .. 0 |-> 0]
          = [i \in 0 .. 0 |-> IF i = 0 THEN 0 ELSE step(i, [j \in 0 .. 0 |-> 0][i - 1])]
        OBVIOUS
    <3>2. IsValues(b, 0, [i \in 0 .. 0 |-> 0])
        BY <1>0, <3>1
    <3> QED BY <2>1, <3>2
  <2>3. m \in Nat /\ m - 1 \in Nat
      BY <2>1, <2>2
  <2>4. PICK f : IsValues(b, m - 1, f)
      BY <2>1, <2>3
  <2>5. \A i \in 0 .. m - 1 : f[i] = IF i = 0 THEN 0 ELSE step(i, f[i - 1])
    <3>1. f = [i \in 0 .. m - 1 |-> IF i = 0 THEN 0 ELSE step(i, f[i - 1])]
        BY <1>0, <2>4
    <3> QED BY <3>1
  <2> DEFINE g == [i \in 0 .. m |-> IF i = 0 THEN 0 ELSE step(i, f[i - 1])]
  <2>6. ASSUME NEW i \in 0 .. m - 1 PROVE g[i] = f[i]
      BY <2>3, <2>5, <2>6
  <2>7. g = [i \in 0 .. m |-> IF i = 0 THEN 0 ELSE step(i, g[i - 1])]
    <3>1. ASSUME NEW i \in 0 .. m, i # 0 PROVE g[i - 1] = f[i - 1]
      <4>1. i - 1 \in 0 .. m - 1
          BY <2>3, <3>1
      <4> QED BY <4>1, <2>6
    <3> QED BY <3>1
  <2> HIDE DEF g
  <2>8. IsValues(b, m, g)
      BY <1>0, <2>7
  <2> QED BY <2>1, <2>8
<1> QED BY <1>1

(* The values of the last digits, one by one.                              *)
LEMMA ValueSteps ==
    ASSUME NEW b \in Seq(Int)
    PROVE  \E f : /\ Value(b) = f[Len(b)] /\ f[0] = 0
                  /\ \A k \in 1 .. Len(b) :
                        f[k] = Min({Huge, b[Len(b) - k + 1] + Radix * f[k - 1]})
<1> DEFINE f == CHOOSE g : IsValues(b, Len(b), g)
<1>0. Len(b) \in Nat
    OBVIOUS
<1>1. IsValues(b, Len(b), f)
    BY <1>0, ValuesExist
<1>2. Value(b) = f[Len(b)]
    BY ValueDef
<1> HIDE DEF f
<1>3. \A k \in 0 .. Len(b) :
          f[k] = IF k = 0 THEN 0 ELSE Min({Huge, b[Len(b) - k + 1] + Radix * f[k - 1]})
    BY <1>1 DEF IsValues
<1>4. f[0] = 0
  <2>1. 0 \in 0 .. Len(b)
      BY <1>0
  <2> QED BY <1>3, <2>1
<1>5. \A k \in 1 .. Len(b) : f[k] = Min({Huge, b[Len(b) - k + 1] + Radix * f[k - 1]})
  <2>1. ASSUME NEW k \in 1 .. Len(b)
        PROVE f[k] = Min({Huge, b[Len(b) - k + 1] + Radix * f[k - 1]})
    <3>1. k \in 0 .. Len(b) /\ k # 0
        BY <1>0
    <3> QED BY <1>3, <3>1
  <2> QED BY <2>1
<1> QED BY <1>2, <1>4, <1>5

(* Huge and the radix are numbers.                                         *)
LEMMA HugeType == Huge \in Nat /\ Radix \in Nat /\ Radix > 4 /\ Huge < Place[9]
<1>1. Radix \in Nat /\ Radix > 4
    BY CodecAssumption
<1>2. Place[9] = Radix * Place[8] /\ Place[8] \in Nat \ {0}
    BY PlaceIs
<1> QED BY <1>1, <1>2 DEF Huge

(* A value is a number, and no larger than Huge. *)
LEMMA ValueType ==
    ASSUME NEW b \in Seq(Int)
    PROVE  Value(b) \in Int /\ Value(b) <= Huge
<1>1. PICK f : /\ Value(b) = f[Len(b)] /\ f[0] = 0
               /\ \A k \in 1 .. Len(b) :
                     f[k] = Min({Huge, b[Len(b) - k + 1] + Radix * f[k - 1]})
    BY ValueSteps
<1> DEFINE Bad == {k \in 0 .. Len(b) : ~(f[k] \in Int /\ f[k] <= Huge)}
<1>2. CASE Bad # {}
  <2>0. Bad \in SUBSET Nat
      OBVIOUS
  <2>1. PICK m \in Bad : \A k \in Bad : m <= k
      BY <1>2, <2>0, LeastMember
  <2>2. m # 0
      BY <1>1, <2>1, HugeType
  <2>3. PICK p \in 0 .. Len(b) : m = p + 1
    <3>1. m - 1 \in 0 .. Len(b)
        BY <2>1, <2>2
    <3> QED BY <3>1
  <2>4. f[p] \in Int
      BY <2>1, <2>3
  <2>5. m \in 1 .. Len(b) /\ m - 1 = p /\ Len(b) - m + 1 \in 1 .. Len(b)
      BY <2>1, <2>2, <2>3
  <2>6. PICK x \in Int : x = b[Len(b) - m + 1] + Radix * f[p]
    <3>1. b[Len(b) - m + 1] \in Int
        BY <2>5
    <3>2. b[Len(b) - m + 1] + Radix * f[p] \in Int
        BY <3>1, <2>4, HugeType
    <3> QED BY <3>2
  <2>7. f[m] = Min({Huge, x})
      BY <1>1, <2>5, <2>6
  <2>8. f[m] \in Int /\ f[m] <= Huge
      BY <2>7, MinTwo, HugeType
  <2> QED BY <2>1, <2>8
<1>3. Len(b) \in 0 .. Len(b)
    OBVIOUS
<1> QED BY <1>1, <1>2, <1>3

(* Up to eight digits nothing is cut off, and what is written is read.     *)
LEMMA DigitsOfValue ==
    ASSUME NEW w \in 1 .. 8, NEW b \in Seq(Digit), Len(b) = w
    PROVE  /\ Value(b) \in Nat /\ Value(b) < Place[w]
           /\ Digits(Value(b), w) = b
<1>0. Radix \in Nat /\ Radix # 0 /\ b \in Seq(Int)
    BY HugeType DEF Digit
<1>1. PICK f : /\ Value(b) = f[w] /\ f[0] = 0
               /\ \A k \in 1 .. w : f[k] = Min({Huge, b[w - k + 1] + Radix * f[k - 1]})
    BY <1>0, ValueSteps
<1>2. \A i \in 1 .. w : b[i] \in Nat /\ b[i] < Radix
    BY <1>0 DEF Digit
<1> DEFINE Fits(k) == f[k] \in Nat /\ f[k] < Place[k]
<1> DEFINE Horner(k) == f[k] = b[w - k + 1] + Radix * f[k - 1]
<1>3. ASSUME NEW k \in 1 .. w, NEW j \in 0 .. w, k = j + 1, Fits(j)
      PROVE Fits(k) /\ Horner(k)
  <2>1. PICK d \in Nat, v \in Nat, p \in Nat :
            d = b[w - k + 1] /\ d < Radix /\ v = f[k - 1] /\ v < p /\ p = Place[j]
    <3>1. w - k + 1 \in 1 .. w /\ k - 1 = j /\ j \in 0 .. 9
        BY <1>3
    <3>2. Place[j] \in Nat
        BY <3>1, PlaceIs
    <3> QED BY <1>2, <1>3, <3>1, <3>2
  <2>2. Place[k] = Radix * p
    <3>1. j \in 0 .. 8
        BY <1>3
    <3> QED BY <1>3, <2>1, <3>1, PlaceIs
  <2>3. d + Radix * v < Radix * p
    <3>1. Radix * (v + 1) <= Radix * p
      <4>1. PICK e \in Nat : p = (v + 1) + e
        <5>1. p - (v + 1) \in Nat
            BY <2>1
        <5> QED BY <5>1
      <4>2. Radix * ((v + 1) + e) = Radix * (v + 1) + Radix * e
          BY <1>0
      <4>3. Radix * e \in Nat /\ Radix * (v + 1) \in Nat
          BY <1>0
      <4> QED BY <4>1, <4>2, <4>3
    <3>2. Radix * (v + 1) = Radix * v + Radix /\ Radix * v \in Nat
        BY <1>0
    <3>3. PICK x \in Nat, y \in Nat : x = Radix * v /\ y = Radix * p
      <4>1. Radix * p \in Nat /\ Radix * v \in Nat
          BY <1>0
      <4> QED BY <4>1
    <3>4. x + Radix <= y
        BY <3>1, <3>2, <3>3
    <3>5. d + x < y
        BY <1>0, <2>1, <3>4
    <3> QED BY <3>3, <3>5
  <2>4. PICK x \in Nat : x = d + Radix * v
    <3>1. d + Radix * v \in Nat
        BY <1>0
    <3> QED BY <3>1
  <2>5. Place[k] <= Huge
      BY PlaceGrows DEF Huge
  <2>6. Place[k] \in Nat
    <3>1. k \in 0 .. 9
        OBVIOUS
    <3> QED BY <3>1, PlaceIs
  <2>7. f[k] = Min({Huge, x})
      BY <1>1, <2>1, <2>4
  <2>8. f[k] = x
      BY <2>2, <2>3, <2>4, <2>5, <2>6, <2>7, MinTwo, HugeType
  <2> QED BY <2>1, <2>2, <2>3, <2>4, <2>8
<1>4. \A k \in 0 .. w : Fits(k)
  <2> DEFINE Bad == {k \in 0 .. w : ~Fits(k)}
  <2>1. CASE Bad # {}
    <3>0. Bad \in SUBSET Nat
        OBVIOUS
    <3>1. PICK m \in Bad : \A k \in Bad : m <= k
        BY <2>1, <3>0, LeastMember
    <3>2. m # 0
        BY <1>1, <3>1, PlaceIs, SMTT(30)
    <3>3. PICK j \in 0 .. w : m = j + 1 /\ m \in 1 .. w
      <4>1. m - 1 \in 0 .. w /\ m \in 1 .. w
          BY <3>1, <3>2
      <4> QED BY <4>1
    <3>4. j \notin Bad
        BY <3>1, <3>3
    <3>5. Fits(j)
        BY <3>4
    <3>6. Fits(m)
        BY <1>3, <3>3, <3>5
    <3> QED BY <3>1, <3>6
  <2> QED BY <2>1
<1>5. \A k \in 1 .. w : Horner(k)
  <2>1. ASSUME NEW k \in 1 .. w PROVE Horner(k)
    <3>1. PICK j \in 0 .. w : k = j + 1
      <4>1. k - 1 \in 0 .. w
          OBVIOUS
      <4> QED BY <4>1
    <3> QED BY <1>3, <1>4, <3>1
  <2> QED BY <2>1
<1>6. \A k \in 1 .. w : f[k] \div Radix = f[k - 1] /\ f[k] % Radix = b[w - k + 1]
  <2>1. ASSUME NEW k \in 1 .. w
        PROVE f[k] \div Radix = f[k - 1] /\ f[k] % Radix = b[w - k + 1]
    <3>1. w - k + 1 \in 1 .. w /\ k - 1 \in 0 .. w
        OBVIOUS
    <3>2. PICK d \in Nat, v \in Nat : d = b[w - k + 1] /\ d < Radix /\ v = f[k - 1]
        BY <1>2, <1>4, <3>1
    <3>3. f[k] = d + Radix * v
        BY <1>5, <3>2
    <3>4. (d + Radix * v) % Radix = d /\ (d + Radix * v) \div Radix = v
        BY <1>0, <3>2, DivModOf
    <3> QED BY <3>2, <3>3, <3>4
  <2> QED BY <2>1
<1>7. PICK v \in Nat : v = Value(b) /\ v = f[w] /\ v < Place[w]
    BY <1>1, <1>4
<1> DEFINE Shifted(i) == v \div Place[i] = f[w - i]
<1>8. \A i \in 0 .. w - 1 : Shifted(i)
  <2> DEFINE Bad == {i \in 0 .. w - 1 : ~Shifted(i)}
  <2>1. CASE Bad # {}
    <3>0. Bad \in SUBSET Nat
        OBVIOUS
    <3>1. PICK m \in Bad : \A i \in Bad : m <= i
        BY <2>1, <3>0, LeastMember
    <3>2. m # 0
        BY <1>7, <3>1, PlaceIs, SMTT(30)
    <3>3. PICK j \in 0 .. w - 1 : m = j + 1
      <4>1. m - 1 \in 0 .. w - 1
          BY <3>1, <3>2
      <4> QED BY <4>1
    <3>4. v \div Place[j] = f[w - j]
        BY <3>1, <3>3
    <3>5. PICK k \in 1 .. w : k = w - j /\ k - 1 = w - m
      <4>1. w - j \in 1 .. w /\ w - j - 1 = w - m
          BY <3>3
      <4> QED BY <4>1
    <3>6. PICK p \in Nat, q \in Nat :
              p = Place[j] /\ p # 0 /\ q = Place[m] /\ q = Radix * p
      <4>1. j \in 0 .. 8 /\ j \in 0 .. 9 /\ m \in 0 .. 9
          BY <3>1, <3>3
      <4> QED BY <3>3, <4>1, PlaceIs
    <3>7. v \div q = (v \div p) \div Radix
      <4>1. PICK r \in Nat : r = Radix /\ r # 0 /\ q = r * p
          BY <1>0, <3>6
      <4>2. NextDigit(v, p, r, q)
        <5>1. p # 0 /\ r # 0 /\ q = r * p
            BY <3>6, <4>1
        <5> QED BY <5>1, DivTimes
      <4> QED BY <4>1, <4>2 DEF NextDigit
    <3>8. v \div Place[m] = f[w - m]
        BY <1>6, <3>4, <3>5, <3>6, <3>7
    <3> QED BY <3>1, <3>8
  <2> QED BY <2>1
<1>9. ASSUME NEW i \in 1 .. w PROVE (v \div Place[i - 1]) % Radix = b[i]
  <2>1. PICK j \in 0 .. w - 1, k \in 1 .. w : j = i - 1 /\ k = w - j /\ w - k + 1 = i
    <3>1. i - 1 \in 0 .. w - 1 /\ w - (i - 1) \in 1 .. w /\ w - (w - (i - 1)) + 1 = i
        OBVIOUS
    <3> QED BY <3>1
  <2>2. v \div Place[j] = f[k]
      BY <1>8, <2>1
  <2> QED BY <1>6, <2>1, <2>2
<1>10. Digits(v, w) = [i \in 1 .. w |-> b[i]]
    BY <1>9 DEF Digits
<1>11. b = [i \in 1 .. w |-> b[i]]
    OBVIOUS
<1> QED BY <1>7, <1>10, <1>11

-----------------------------------------------------------------------------
(* f[i] is the first i of the sequences seqs, one after another.           *)
Flattens(seqs, n, f) ==
    f = [i \in 1 .. n |-> IF i = 1 THEN seqs[i] ELSE f[i - 1] \o seqs[i]]

(* FlattenSeq is the last of those.                                        *)
LEMMA FlattenIs ==
    ASSUME NEW seqs, Len(seqs) # 0
    PROVE  FlattenSeq(seqs) = (CHOOSE f : Flattens(seqs, Len(seqs), f))[Len(seqs)]
BY DEF FlattenSeq, Flattens

(* There is such a function, or a least n for which there is none.         *)
LEMMA FlattenExists ==
    ASSUME NEW seqs, NEW n \in Nat
    PROVE  \E f : Flattens(seqs, n, f)
<1> DEFINE Bad == {k \in Nat : ~\E f : Flattens(seqs, k, f)}
<1>1. CASE Bad # {}
  <2>1. PICK m \in Bad : \A k \in Bad : m <= k
      BY <1>1, LeastMember
  <2>2. m # 0
    <3>1. Flattens(seqs, 0, [i \in 1 .. 0 |-> i])
        BY DEF Flattens
    <3> QED BY <2>1, <3>1
  <2>3. PICK f : Flattens(seqs, m - 1, f)
      BY <2>1, <2>2
  <2>4. \A i \in 1 .. m - 1 : f[i] = IF i = 1 THEN seqs[i] ELSE f[i - 1] \o seqs[i]
      BY <2>3 DEF Flattens
  <2> DEFINE g == [i \in 1 .. m |-> IF i = 1 THEN seqs[i] ELSE f[i - 1] \o seqs[i]]
  <2>5. ASSUME NEW i \in 1 .. m - 1 PROVE g[i] = f[i]
      BY <2>4, <2>5
  <2>7. m \in Nat /\ m - 1 \in Nat
      BY <2>1, <2>2
  <2>6. g = [i \in 1 .. m |-> IF i = 1 THEN seqs[i] ELSE g[i - 1] \o seqs[i]]
    <3>1. ASSUME NEW i \in 1 .. m
          PROVE (IF i = 1 THEN seqs[i] ELSE f[i - 1] \o seqs[i])
                = (IF i = 1 THEN seqs[i] ELSE g[i - 1] \o seqs[i])
      <4>1. CASE i = 1
          BY <4>1
      <4>2. CASE i # 1
        <5>1. i - 1 \in 1 .. m - 1
            BY <4>2, <2>7, <3>1
        <5>2. g[i - 1] = f[i - 1]
            BY <5>1, <2>5
        <5> QED BY <4>2, <5>2
      <4> QED BY <4>1, <4>2
    <3> QED BY <3>1
  <2> HIDE DEF g
  <2>8. Flattens(seqs, m, g)
      BY <2>6 DEF Flattens
  <2> QED BY <2>1, <2>8
<1> QED BY <1>1

(* On their common part two lists of sequences are flattened alike.        *)
LEMMA FlattenAgree ==
    ASSUME NEW s, NEW t, NEW f, NEW g, NEW n \in Nat, NEW m \in Nat, n <= m,
           Flattens(s, n, f), Flattens(t, m, g), \A i \in 1 .. n : s[i] = t[i]
    PROVE  \A i \in 1 .. n : f[i] = g[i]
<1>1. \A i \in 1 .. n : f[i] = IF i = 1 THEN s[i] ELSE f[i - 1] \o s[i]
    BY DEF Flattens
<1>2. \A i \in 1 .. m : g[i] = IF i = 1 THEN t[i] ELSE g[i - 1] \o t[i]
    BY DEF Flattens
<1> DEFINE Bad == {i \in 1 .. n : f[i] # g[i]}
<1>3. CASE Bad # {}
  <2>0. Bad \in SUBSET Nat
      OBVIOUS
  <2>1. PICK b \in Bad : \A k \in Bad : b <= k
      BY <1>3, <2>0, LeastMember
  <2>2. b \in 1 .. n /\ b \in 1 .. m /\ s[b] = t[b]
      BY <2>1
  <2>3. b # 1
      BY <1>1, <1>2, <2>1, <2>2
  <2>4. b - 1 \in 1 .. n /\ b - 1 \notin Bad
      BY <2>1, <2>2, <2>3
  <2>5. f[b - 1] = g[b - 1]
      BY <2>4
  <2>6. f[b] = f[b - 1] \o s[b] /\ g[b] = g[b - 1] \o t[b]
      BY <1>1, <1>2, <2>2, <2>3
  <2> QED BY <2>1, <2>2, <2>5, <2>6
<1> QED BY <1>3

(* One more sequence goes after what the others give.                      *)
LEMMA FlattenNext ==
    ASSUME NEW s, NEW t, NEW n \in Nat, NEW m \in Nat, n # 0, m = n + 1,
           Len(s) = n, Len(t) = m, \A i \in 1 .. n : s[i] = t[i]
    PROVE  FlattenSeq(t) = FlattenSeq(s) \o t[m]
<1>1. n <= m /\ n \in 1 .. n /\ m \in 1 .. m /\ m # 1 /\ m # 0 /\ m - 1 = n
    OBVIOUS
<1>2. PICK f : Flattens(s, n, f) /\ FlattenSeq(s) = f[n]
  <2> DEFINE h == CHOOSE x : Flattens(s, Len(s), x)
  <2>1. Flattens(s, Len(s), h) /\ Len(s) # 0
      BY FlattenExists
  <2>2. FlattenSeq(s) = h[Len(s)]
      BY <2>1, FlattenIs
  <2> QED BY <2>1, <2>2
<1>3. PICK g : Flattens(t, m, g) /\ FlattenSeq(t) = g[m]
  <2> DEFINE h == CHOOSE x : Flattens(t, Len(t), x)
  <2>1. Flattens(t, Len(t), h) /\ Len(t) # 0
      BY <1>1, FlattenExists
  <2>2. FlattenSeq(t) = h[Len(t)]
      BY <2>1, FlattenIs
  <2> QED BY <2>1, <2>2
<1>4. \A i \in 1 .. n : f[i] = g[i]
    BY <1>1, <1>2, <1>3, FlattenAgree
<1>5. g[m] = g[n] \o t[m]
  <2>1. \A i \in 1 .. m : g[i] = IF i = 1 THEN t[i] ELSE g[i - 1] \o t[i]
      BY <1>3 DEF Flattens
  <2> QED BY <1>1, <2>1
<1> QED BY <1>1, <1>2, <1>3, <1>4, <1>5

(* A single sequence is flattened to itself.                               *)
LEMMA FlattenOne ==
    ASSUME NEW s, Len(s) = 1
    PROVE  FlattenSeq(s) = s[1]
<1> DEFINE f == CHOOSE x : Flattens(s, Len(s), x)
<1>0. Len(s) \in Nat /\ Len(s) # 0
    OBVIOUS
<1>1. Flattens(s, Len(s), f)
    BY <1>0, FlattenExists
<1>2. FlattenSeq(s) = f[Len(s)]
    BY <1>0, FlattenIs
<1> HIDE DEF f
<1>3. \A i \in 1 .. Len(s) : f[i] = IF i = 1 THEN s[i] ELSE f[i - 1] \o s[i]
    BY <1>1 DEF Flattens
<1> QED BY <1>2, <1>3

(* What is flattened is as its parts are.                                  *)
LEMMA FlattenType ==
    ASSUME NEW S, NEW s \in Seq(Seq(S))
    PROVE  FlattenSeq(s) \in Seq(S)
<1>1. CASE Len(s) = 0
  <2>1. s = <<>>
      BY <1>1, EmptySeq
  <2>2. FlattenSeq(s) = <<>>
      BY <1>1, <2>1 DEF FlattenSeq
  <2> QED BY <2>2, EmptySeq
<1>2. CASE Len(s) # 0
  <2> DEFINE f == CHOOSE x : Flattens(s, Len(s), x)
  <2>0. Len(s) \in Nat /\ Len(s) # 0
      BY <1>2
  <2>1. Flattens(s, Len(s), f)
      BY <2>0, FlattenExists
  <2>2. FlattenSeq(s) = f[Len(s)]
      BY <2>0, FlattenIs
  <2> HIDE DEF f
  <2>3. \A i \in 1 .. Len(s) : f[i] = IF i = 1 THEN s[i] ELSE f[i - 1] \o s[i]
      BY <2>1 DEF Flattens
  <2> DEFINE Bad == {i \in 1 .. Len(s) : f[i] \notin Seq(S)}
  <2>4. CASE Bad # {}
    <3>0. Bad \in SUBSET Nat
        OBVIOUS
    <3>1. PICK m \in Bad : \A k \in Bad : m <= k
        BY <2>4, <3>0, LeastMember
    <3>2. s[m] \in Seq(S)
        BY <3>1, ElementOfSeq
    <3>3. m # 1
        BY <2>3, <3>1, <3>2
    <3>4. m - 1 \in 1 .. Len(s) /\ m - 1 \notin Bad
        BY <3>1, <3>3
    <3>5. f[m - 1] \in Seq(S)
        BY <3>4
    <3>6. f[m] = f[m - 1] \o s[m]
        BY <2>3, <3>1, <3>3
    <3>7. f[m] \in Seq(S)
        BY <3>2, <3>5, <3>6, ConcatProperties
    <3> QED BY <3>1, <3>7
  <2>5. Len(s) \in 1 .. Len(s)
      BY <2>0
  <2> QED BY <2>2, <2>4, <2>5
<1> QED BY <1>1, <1>2

(* None are flattened to none.                                             *)
LEMMA FlattenNone == FlattenSeq(<<>>) = <<>>
<1>1. Len(<<>>) = 0
    OBVIOUS
<1> QED BY <1>1 DEF FlattenSeq

(* One more goes behind the others.                                        *)
LEMMA FlattenGrows ==
    ASSUME NEW S, NEW s \in Seq(Seq(S)), NEW t \in Seq(Seq(S)),
           Len(t) = Len(s) + 1, \A i \in 1 .. Len(s) : s[i] = t[i]
    PROVE  FlattenSeq(t) = FlattenSeq(s) \o t[Len(t)]
<1>1. CASE Len(s) = 0
  <2>1. s = <<>> /\ Len(t) = 1
      BY <1>1, EmptySeq
  <2>2. FlattenSeq(s) = <<>>
      BY <2>1, FlattenNone
  <2>3. FlattenSeq(t) = t[1]
      BY <2>1, FlattenOne
  <2>4. t[1] \in Seq(S)
      BY <2>1, ElementOfSeq
  <2> QED BY <2>1, <2>2, <2>3, <2>4, ConcatEmptySeq
<1>2. CASE Len(s) # 0
  <2>1. PICK n \in Nat, m \in Nat : n = Len(s) /\ m = Len(t) /\ m = n + 1 /\ n # 0
      BY <1>2
  <2>2. FlattenSeq(t) = FlattenSeq(s) \o t[m]
      BY <2>1, FlattenNext
  <2> QED BY <2>1, <2>2
<1> QED BY <1>1, <1>2

-----------------------------------------------------------------------------
(* The digits of the file between two offsets.                             *)
Stands(file, a, b, x) ==
    a \in Nat /\ b \in Nat /\ a <= b /\ b <= Len(file) /\ x = SubSeq(file, a + 1, b)

(* They are a sequence, and stand where they stand.                        *)
LEMMA StandsType ==
    ASSUME NEW file \in Seq(Int), NEW a, NEW b, NEW x, Stands(file, a, b, x)
    PROVE  x \in Seq(Int) /\ Len(x) = b - a
<1>1. a \in Nat /\ b \in Nat /\ a <= b /\ b <= Len(file) /\ x = SubSeq(file, a + 1, b)
    BY DEF Stands
<1>2. PICK c \in Nat : c = a + 1
    BY <1>1
<1>3. \A i \in c .. b : file[i] \in Int
    BY <1>1, <1>2, ElementOfSeq
<1>4. x \in Seq(Int) /\ Len(x) = IF c <= b THEN b - c + 1 ELSE 0
    BY <1>1, <1>2, <1>3, SubSeqProperties
<1> QED BY <1>1, <1>2, <1>4

(* What stands in one place is one thing behind the other.                 *)
LEMMA StandsJoin ==
    ASSUME NEW file \in Seq(Int), NEW a, NEW b, NEW c, NEW x, NEW y,
           Stands(file, a, b, x), Stands(file, b, c, y)
    PROVE  Stands(file, a, c, x \o y)
<1>1. /\ a \in Nat /\ b \in Nat /\ c \in Nat /\ a <= b /\ b <= c /\ c <= Len(file)
      /\ x = SubSeq(file, a + 1, b) /\ y = SubSeq(file, b + 1, c)
    BY DEF Stands
<1>2. PICK m \in 1 .. Len(file) + 1 : m = a + 1
  <2>1. a + 1 \in 1 .. Len(file) + 1
      BY <1>1
  <2> QED BY <2>1
<1>3. b \in m - 1 .. Len(file) /\ c \in b .. Len(file)
    BY <1>1, <1>2
<1>4. SubSeq(file, m, b) \o SubSeq(file, b + 1, c) = SubSeq(file, m, c)
    BY <1>3, ConcatAdjacentSubSeq
<1>5. x \o y = SubSeq(file, a + 1, c)
    BY <1>1, <1>2, <1>4
<1>6. a <= c
    BY <1>1
<1> QED BY <1>1, <1>5, <1>6 DEF Stands

(* One digit.                                                              *)
LEMMA StandsOne ==
    ASSUME NEW file \in Seq(Int), NEW a \in Nat, NEW b \in Nat, b = a + 1, b <= Len(file)
    PROVE  Stands(file, a, b, <<file[b]>>)
<1>1. b \in 1 .. Len(file) /\ b \in b .. Len(file)
    OBVIOUS
<1>2. SubSeq(file, b, b) = <<file[b]>> \o SubSeq(file, b + 1, b)
    BY <1>1, SubSeqRecursiveFirst
<1>3. SubSeq(file, b + 1, b) = <<>>
  <2>1. PICK c \in Int : c = b + 1 /\ b < c
      OBVIOUS
  <2> QED BY <2>1, SubSeqEmpty
<1>4. file[b] \in Int
    BY <1>1, ElementOfSeq
<1>5. <<file[b]>> \in Seq(Int)
    BY <1>4
<1>6. <<file[b]>> \o <<>> = <<file[b]>>
    BY <1>5, ConcatEmptySeq
<1>7. SubSeq(file, b, b) = <<file[b]>>
    BY <1>2, <1>3, <1>6
<1> QED BY <1>7 DEF Stands

-----------------------------------------------------------------------------
(* The marker of a size says how many digits follow, and no smaller marker *)
(* would do for the number they give.                                      *)
LEMMA CompactOf ==
    ASSUME NEW k \in 1 .. 3, NEW w \in 1 .. 8, NEW n \in Nat,
           w = 2 ^ k, LeastWith(k) <= n, n < Place[w]
    PROVE  Compact(n) = <<Marker(k)>> \o Digits(n, w)
<1>0. /\ Radix \in Nat /\ Radix > 4
      /\ Place[2] \in Nat /\ Place[4] \in Nat /\ Place[8] \in Nat
      /\ Radix <= Place[2] /\ Place[2] <= Place[4]
  <2>1. Radix = Place[1] /\ Radix \in Nat /\ Radix > 4
    <3>1. Place[1] = Radix * Place[0] /\ Place[0] = 1
      <4>1. PICK z \in 0 .. 8 : z = 0 /\ z + 1 = 1
          OBVIOUS
      <4>2. Place[z + 1] = Radix * Place[z]
          BY PlaceIs
      <4> QED BY <4>1, <4>2, PlaceIs
    <3> QED BY <3>1, HugeType
  <2>2. Place[1] <= Place[2] /\ Place[2] <= Place[4]
      BY PlaceGrows
  <2> QED BY <2>1, <2>2, PlaceIs
<1>1. Marker(1) = Radix - 3
    BY <1>0 DEF Marker
<1> DEFINE wide == {3} \union {i \in 1 .. 2 : n < Place[2 ^ i]}
<1>2. wide = {3} \union {i \in 1 .. 2 : (i = 1 /\ n < Place[2]) \/ (i = 2 /\ n < Place[4])}
  <2>1. ASSUME NEW i \in 1 .. 2
        PROVE  n < Place[2 ^ i] <=> (i = 1 /\ n < Place[2]) \/ (i = 2 /\ n < Place[4])
    <3>1. CASE i = 1
        BY <3>1
    <3>2. CASE i = 2
        BY <3>2
    <3> QED BY <3>1, <3>2
  <2> QED BY <2>1
<1>8. /\ 1 \in wide <=> n < Place[2]
      /\ 2 \in wide <=> n < Place[4]
      /\ 3 \in wide /\ wide \subseteq 1 .. 3
    BY <1>2
<1> HIDE DEF wide
<1>3. ~(n < Marker(1)) /\ k \in wide /\ \A i \in wide : k <= i
  <2>1. CASE k = 1
    <3>1. LeastWith(k) = Marker(1) /\ w = 2
        BY <2>1 DEF LeastWith
    <3> QED BY <1>0, <1>1, <1>8, <2>1, <3>1
  <2>2. CASE k = 2
    <3>1. LeastWith(k) = Place[2] /\ w = 4
        BY <2>2 DEF LeastWith
    <3>2. ~(n < Place[2]) /\ n < Place[4] /\ ~(n < Marker(1))
        BY <1>0, <1>1, <3>1
    <3> QED BY <1>8, <2>2, <3>2
  <2>3. CASE k = 3
    <3>1. LeastWith(k) = Place[4] /\ w = 8
        BY <2>3 DEF LeastWith
    <3>2. ~(n < Place[2]) /\ ~(n < Place[4]) /\ ~(n < Marker(1))
        BY <1>0, <1>1, <3>1
    <3> QED BY <1>8, <2>3, <3>2
  <2> QED BY <2>1, <2>2, <2>3
<1>4. Min(wide) = k
  <2>1. Min(wide) = CHOOSE x \in wide : \A y \in wide : x <= y
      BY DEF Min
  <2>2. \A x \in wide : (\A y \in wide : x <= y) => x = k
    <3>1. ASSUME NEW x \in wide, \A y \in wide : x <= y PROVE x = k
      <4>1. x \in 1 .. 3 /\ x <= k /\ k <= x
          BY <1>3, <3>1
      <4> QED BY <4>1
    <3> QED BY <3>1
  <2> QED BY <1>3, <2>1, <2>2
<1>5. Compact(n) = <<Marker(Min(wide))>> \o Digits(n, 2 ^ Min(wide))
    BY <1>3 DEF Compact, wide
<1> QED BY <1>4, <1>5

(* A size that is read stands in the file just as it would be written.     *)
LEMMA CompactRead ==
    ASSUME NEW file \in Seq(Int), NEW at \in Nat, NEW r,
           r = ReadCompact(file, at), r.at # Fail
    PROVE  /\ r.value \in Nat /\ r.at \in Nat /\ at < r.at
           /\ Stands(file, at, r.at, Compact(r.value))
<1>0. Radix \in Nat /\ Radix > 4
    BY HugeType
<1> DEFINE first == file[at + 1]
<1>8. Marker(0) = Radix - 4
    BY <1>0 DEF Marker
<1>9. PICK k : k = first - Marker(0)
    OBVIOUS
<1> DEFINE end == at + 1 + 2 ^ k
<1> DEFINE digits == SubSeq(file, at + 2, end)
<1>1. Holds(file, at, 1) /\ first \in Digit
    BY DEF ReadCompact, Failed, Got
<1>2. PICK b \in Nat : b = at + 1 /\ b <= Len(file) /\ b \in 1 .. Len(file)
  <2>1. at + 1 \in Nat /\ at + 1 <= Len(file)
      BY <1>1 DEF Holds
  <2> QED BY <2>1
<1>3. first \in Nat /\ first < Radix /\ first = file[b]
    BY <1>0, <1>1, <1>2 DEF Digit
<1>4. k = first - Radix + 4 /\ k \in Int /\ k <= 3
    BY <1>0, <1>3, <1>8, <1>9
<1>5. Stands(file, at, b, <<first>>)
    BY <1>2, <1>3, StandsOne
<1>6. CASE k < 1
  <2>1. r.value = first /\ r.at = b
      BY <1>1, <1>2, <1>6, <1>9 DEF ReadCompact, Got
  <2>2. first < Marker(1)
      BY <1>0, <1>3, <1>4, <1>6 DEF Marker
  <2>3. Compact(first) = <<first>>
      BY <2>2 DEF Compact
  <2> QED BY <1>2, <1>3, <1>5, <2>1, <2>3
<1>7. CASE ~(k < 1)
  <2>1. k \in 1 .. 3
      BY <1>4, <1>7
  <2>2. PICK w \in 1 .. 8 : w = 2 ^ k
    <3>1. k = 1 \/ k = 2 \/ k = 3
        BY <2>1
    <3>2. 2 ^ k = 2 \/ 2 ^ k = 4 \/ 2 ^ k = 8
      <4>1. CASE k = 1
          BY <4>1
      <4>2. CASE k = 2
          BY <4>2
      <4>3. CASE k = 3
          BY <4>3
      <4> QED BY <3>1, <4>1, <4>2, <4>3
    <3> QED BY <3>2
  <2>3. PICK c \in Nat : c = end /\ c = b + w
    <3>1. end = b + w /\ b + w \in Nat
        BY <1>2, <2>2
    <3> QED BY <3>1
  <2>4. PICK d, n : d = digits /\ n = Value(d)
      OBVIOUS
  <2>5. /\ c <= Len(file)
        /\ \A i \in at + 2 .. c : file[i] \in Digit
        /\ ~(n < LeastWith(k))
        /\ r.value = n /\ r.at = c
    <3> DEFINE bad == \/ c > Len(file)
                      \/ \E i \in at + 2 .. c : file[i] \notin Digit
                      \/ n < LeastWith(k)
    <3>1. r = IF bad THEN Failed ELSE Got(n, c)
        BY <1>1, <1>7, <1>9, <2>3, <2>4 DEF ReadCompact
    <3>2. ~bad
      <4> HIDE DEF bad
      <4> QED BY <3>1 DEF Failed, Got
    <3>3. r = Got(n, c)
        BY <3>1, <3>2
    <3>4. r.value = n /\ r.at = c
        BY <3>3 DEF Got
    <3>5. c <= Len(file)
        BY <2>3, <3>2
    <3> QED BY <3>2, <3>4, <3>5
  <2>6. PICK a \in Nat : a = at + 2 /\ a = b + 1
      BY <1>2
  <2>7. d \in Seq(Digit) /\ Len(d) = w
    <3>1. d = SubSeq(file, a, c)
        BY <2>3, <2>4, <2>6
    <3>2. \A i \in a .. c : file[i] \in Digit
        BY <2>5, <2>6
    <3>3. d \in Seq(Digit) /\ Len(d) = IF a <= c THEN c - a + 1 ELSE 0
        BY <3>1, <3>2, SubSeqProperties
    <3> QED BY <2>3, <2>6, <3>3
  <2>8. n \in Nat /\ n < Place[w] /\ Digits(n, w) = d
      BY <2>4, <2>7, DigitsOfValue
  <2>9. LeastWith(k) \in Int
    <3>1. Marker(1) \in Int
        BY <1>0 DEF Marker
    <3>2. k = 1 \/ k = 2 \/ k = 3
        BY <2>1
    <3>3. CASE k = 1
        BY <3>1, <3>3 DEF LeastWith
    <3>4. CASE k = 2
        BY <3>4, PlaceIs DEF LeastWith
    <3>5. CASE k = 3
        BY <3>5, PlaceIs DEF LeastWith
    <3> QED BY <3>2, <3>3, <3>4, <3>5
  <2>10. LeastWith(k) <= n
      BY <2>5, <2>8, <2>9
  <2>11. Compact(n) = <<Marker(k)>> \o Digits(n, w)
      BY <2>1, <2>2, <2>8, <2>10, CompactOf
  <2>12. Marker(k) = first
      BY <1>0, <1>3, <1>4, SMTT(30) DEF Marker
  <2>13. Compact(n) = <<first>> \o d
      BY <2>8, <2>11, <2>12
  <2>14. Stands(file, b, c, d)
    <3>1. d = SubSeq(file, b + 1, c)
        BY <2>3, <2>4, <2>6
    <3>2. b <= c
        BY <2>3
    <3> QED BY <2>5, <3>1, <3>2 DEF Stands
  <2>15. Stands(file, at, c, <<first>> \o d)
      BY <1>5, <2>14, StandsJoin
  <2> QED BY <1>2, <2>3, <2>5, <2>8, <2>13, <2>15
<1> QED BY <1>6, <1>7

(* A blob that is read, too.                                               *)
LEMMA BlobRead ==
    ASSUME NEW file \in Seq(Int), NEW at \in Nat, NEW r,
           r = ReadBlob(file, at), r.at # Fail
    PROVE  /\ r.value \in Seq(Int) /\ r.at \in Nat /\ at < r.at
           /\ Stands(file, at, r.at, Blob(r.value))
<1>1. PICK n : n = ReadCompact(file, at)
    OBVIOUS
<1>2. /\ n.at # Fail /\ Holds(file, n.at, n.value)
      /\ r.value = SubSeq(file, n.at + 1, n.at + n.value) /\ r.at = n.at + n.value
    BY <1>1 DEF ReadBlob, Holds, Got, Failed
<1>3. /\ n.value \in Nat /\ n.at \in Nat /\ at < n.at
      /\ Stands(file, at, n.at, Compact(n.value))
    BY <1>1, <1>2, CompactRead
<1>4. r.at \in Nat /\ n.at <= r.at /\ r.at <= Len(file) /\ r.value = SubSeq(file, n.at + 1, r.at)
    BY <1>2, <1>3 DEF Holds
<1>5. Stands(file, n.at, r.at, r.value)
    BY <1>3, <1>4 DEF Stands
<1>6. r.value \in Seq(Int) /\ Len(r.value) = n.value
  <2>1. r.value \in Seq(Int) /\ Len(r.value) = r.at - n.at
      BY <1>5, StandsType
  <2> QED BY <1>2, <1>3, <2>1, SMTT(30)
<1>7. Stands(file, at, r.at, Compact(n.value) \o r.value)
    BY <1>3, <1>5, StandsJoin
<1>8. Blob(r.value) = Compact(n.value) \o r.value
    BY <1>6 DEF Blob
<1>9. at < r.at
    BY <1>3, <1>4
<1>10. Stands(file, at, r.at, Blob(r.value))
    BY <1>7, <1>8
<1> QED BY <1>4, <1>6, <1>9, <1>10

(* Nothing is read where nothing can be.                                   *)
LEMMA BlobFails ==
    ASSUME NEW file
    PROVE  ReadBlob(file, Fail).at = Fail
<1>1. ReadCompact(file, Fail) = Failed
    BY DEF ReadCompact, Holds
<1> QED BY <1>1 DEF ReadBlob, Holds, Failed, Got

(* Something is written for each member, one behind the other.             *)
LEMMA WrittenGrows ==
    ASSUME NEW s \in Seq(Seq(Int)), NEW x \in Seq(Int), NEW t,
           t = [k \in 1 .. Len(s) + 1 |-> IF k <= Len(s) THEN s[k] ELSE x]
    PROVE  /\ t \in Seq(Seq(Int)) /\ Len(t) = Len(s) + 1
           /\ FlattenSeq(t) = FlattenSeq(s) \o x
<1>0. PICK n \in Nat, m \in Nat : n = Len(s) /\ m = n + 1
    OBVIOUS
<1>1. \A k \in 1 .. m : t[k] \in Seq(Int)
  <2>1. ASSUME NEW k \in 1 .. m PROVE t[k] \in Seq(Int)
    <3>1. CASE k <= n
      <4>1. k \in 1 .. Len(s)
          BY <1>0, <3>1
      <4>2. s[k] \in Seq(Int)
          BY <4>1, ElementOfSeq
      <4> QED BY <1>0, <3>1, <4>2
    <3>2. CASE ~(k <= n)
        BY <1>0, <3>2
    <3> QED BY <3>1, <3>2
  <2> QED BY <2>1
<1>2. t \in Seq(Seq(Int)) /\ Len(t) = m
  <2>1. t = [k \in 1 .. m |-> t[k]]
      BY <1>0
  <2>2. DOMAIN t = 1 .. m
      BY <1>0
  <2>3. t \in Seq(Seq(Int))
      BY <1>1, <2>1
  <2> QED BY <2>2, <2>3
<1>3. t[m] = x /\ \A k \in 1 .. n : s[k] = t[k]
    BY <1>0
<1>4. FlattenSeq(t) = FlattenSeq(s) \o t[Len(t)]
    BY <1>0, <1>2, <1>3, FlattenGrows
<1> QED BY <1>0, <1>2, <1>3, <1>4

-----------------------------------------------------------------------------
(* One blob more, if it can be read.                                       *)
AfterBlob(file, before) ==
    IF ReadBlob(file, before.at).at = Fail THEN Failed
    ELSE Got(Append(before.value, ReadBlob(file, before.at).value),
             ReadBlob(file, before.at).at)

IsBlobs(file, at, n, f) ==
    f = [k \in 0 .. n |-> IF k = 0 THEN Got(<<>>, at) ELSE AfterBlob(file, f[k - 1])]

(* Blobs are read by a recursive function.                                 *)
LEMMA BlobsDef ==
    ASSUME NEW file, NEW at, NEW n
    PROVE  ReadBlobs(file, at, n)
           = IF n > Len(file) THEN Failed ELSE (CHOOSE f : IsBlobs(file, at, n, f))[n]
BY DEF ReadBlobs, IsBlobs, AfterBlob

(* There is one.                                                           *)
LEMMA BlobsExist ==
    ASSUME NEW file, NEW at, NEW n \in Nat
    PROVE  \E f : IsBlobs(file, at, n, f)
<1> DEFINE start == Got(<<>>, at)
<1> DEFINE step(v) == AfterBlob(file, v)
<1> HIDE DEF start, step
<1>0. \A k, f : IsBlobs(file, at, k, f)
                <=> f = [i \in 0 .. k |-> IF i = 0 THEN start ELSE step(f[i - 1])]
    BY DEF IsBlobs, start, step
<1> DEFINE Bad == {k \in Nat : ~\E f : IsBlobs(file, at, k, f)}
<1>1. CASE Bad # {}
  <2>1. PICK m \in Bad : \A k \in Bad : m <= k
      BY <1>1, LeastMember
  <2>2. m # 0
    <3>1. [i \in 0 .. 0 |-> start]
          = [i \in 0 .. 0 |-> IF i = 0 THEN start ELSE step([j \in 0 .. 0 |-> start][i - 1])]
        OBVIOUS
    <3>2. IsBlobs(file, at, 0, [i \in 0 .. 0 |-> start])
        BY <1>0, <3>1
    <3> QED BY <2>1, <3>2
  <2>3. m \in Nat /\ m - 1 \in Nat
      BY <2>1, <2>2
  <2>4. PICK f : IsBlobs(file, at, m - 1, f)
      BY <2>1, <2>3
  <2>5. \A i \in 0 .. m - 1 : f[i] = IF i = 0 THEN start ELSE step(f[i - 1])
    <3>1. f = [i \in 0 .. m - 1 |-> IF i = 0 THEN start ELSE step(f[i - 1])]
        BY <1>0, <2>4
    <3> QED BY <3>1
  <2> DEFINE g == [i \in 0 .. m |-> IF i = 0 THEN start ELSE step(f[i - 1])]
  <2>6. ASSUME NEW i \in 0 .. m - 1 PROVE g[i] = f[i]
      BY <2>3, <2>5, <2>6
  <2>7. g = [i \in 0 .. m |-> IF i = 0 THEN start ELSE step(g[i - 1])]
    <3>1. ASSUME NEW i \in 0 .. m, i # 0 PROVE g[i - 1] = f[i - 1]
      <4>1. i - 1 \in 0 .. m - 1
          BY <2>3, <3>1
      <4> QED BY <4>1, <2>6
    <3> QED BY <3>1
  <2> HIDE DEF g
  <2>8. IsBlobs(file, at, m, g)
      BY <1>0, <2>7
  <2> QED BY <2>1, <2>8
<1> QED BY <1>1

Blobs(v) == [k \in DOMAIN v |-> Blob(v[k])]

(* The blobs of v stand between two offsets.                               *)
BlobsStand(file, a, b, v) ==
    /\ v \in Seq(Seq(Int)) /\ Blobs(v) \in Seq(Seq(Int))
    /\ Stands(file, a, b, FlattenSeq(Blobs(v)))

(* No blobs stand anywhere.                                                *)
LEMMA BlobsNone ==
    ASSUME NEW file \in Seq(Int), NEW a \in Nat, a <= Len(file)
    PROVE  BlobsStand(file, a, a, <<>>)
<1>1. Blobs(<<>>) = <<>>
    BY DEF Blobs
<1>2. <<>> \in Seq(Seq(Int))
    OBVIOUS
<1>3. SubSeq(file, a + 1, a) = <<>>
  <2>1. PICK c \in Int : c = a + 1 /\ a < c
      OBVIOUS
  <2> QED BY <2>1, SubSeqEmpty
<1>4. Stands(file, a, a, <<>>)
    BY <1>3 DEF Stands
<1>5. FlattenSeq(Blobs(<<>>)) = <<>> /\ Blobs(<<>>) \in Seq(Seq(Int))
    BY <1>1, <1>2, FlattenNone
<1> QED BY <1>2, <1>4, <1>5 DEF BlobsStand

(* The next one stands behind those that were read.                        *)
LEMMA BlobsGrow ==
    ASSUME NEW file \in Seq(Int), NEW a, NEW b, NEW c, NEW v, NEW x,
           BlobsStand(file, a, b, v), x \in Seq(Int), Stands(file, b, c, Blob(x))
    PROVE  BlobsStand(file, a, c, Append(v, x)) /\ Len(Append(v, x)) = Len(v) + 1
<1>0. /\ v \in Seq(Seq(Int)) /\ Blobs(v) \in Seq(Seq(Int))
      /\ Stands(file, a, b, FlattenSeq(Blobs(v)))
    BY DEF BlobsStand
<1>1. PICK n \in Nat, m \in Nat : n = Len(v) /\ m = n + 1
    BY <1>0
<1>2. Blob(x) \in Seq(Int)
    BY StandsType
<1> DEFINE u == Append(v, x)
<1>3. u \in Seq(Seq(Int)) /\ Len(u) = m /\ DOMAIN u = 1 .. m
    BY <1>0, <1>1
<1>4. u[m] = x /\ \A k \in 1 .. n : u[k] = v[k]
    BY <1>0, <1>1
<1>5. DOMAIN v = 1 .. n /\ Len(Blobs(v)) = n
    BY <1>0, <1>1 DEF Blobs
<1> HIDE DEF u
<1>6. Blobs(u) = [k \in 1 .. Len(Blobs(v)) + 1 |->
                     IF k <= Len(Blobs(v)) THEN Blobs(v)[k] ELSE Blob(x)]
  <2>1. Blobs(u) = [k \in 1 .. m |-> Blob(u[k])]
      BY <1>3 DEF Blobs
  <2>2. ASSUME NEW k \in 1 .. m
        PROVE Blob(u[k]) = IF k <= n THEN Blobs(v)[k] ELSE Blob(x)
    <3>1. CASE k <= n
      <4>1. k \in 1 .. n
          BY <3>1
      <4>2. u[k] = v[k]
          BY <1>4, <4>1
      <4>3. Blobs(v)[k] = Blob(v[k])
          BY <1>5, <4>1 DEF Blobs
      <4> QED BY <3>1, <4>2, <4>3
    <3>2. CASE ~(k <= n)
      <4>1. k = m
          BY <1>1, <3>2
      <4> QED BY <1>4, <3>2, <4>1
    <3> QED BY <3>1, <3>2
  <2> QED BY <1>1, <1>5, <2>1, <2>2
<1>7. Blobs(u) \in Seq(Seq(Int)) /\ FlattenSeq(Blobs(u)) = FlattenSeq(Blobs(v)) \o Blob(x)
    BY <1>0, <1>2, <1>6, WrittenGrows
<1>8. Stands(file, a, c, FlattenSeq(Blobs(u)))
    BY <1>0, <1>7, StandsJoin
<1>9. BlobsStand(file, a, c, u) /\ Len(u) = Len(v) + 1
    BY <1>1, <1>3, <1>7, <1>8 DEF BlobsStand
<1> QED BY <1>9 DEF u

(* What is read as n blobs is n blobs, written one behind the other.       *)
LEMMA BlobsRead ==
    ASSUME NEW file \in Seq(Int), NEW at \in Nat, NEW n \in Nat, NEW r,
           at <= Len(file), r = ReadBlobs(file, at, n), r.at # Fail
    PROVE  Len(r.value) = n /\ BlobsStand(file, at, r.at, r.value)
<1> DEFINE f == CHOOSE x : IsBlobs(file, at, n, x)
<1>1. IsBlobs(file, at, n, f)
    BY BlobsExist
<1>2. r = IF n > Len(file) THEN Failed ELSE f[n]
    BY BlobsDef
<1> HIDE DEF f
<1>3. r = f[n]
    BY <1>2 DEF Failed, Got
<1>4. \A k \in 0 .. n : f[k] = IF k = 0 THEN Got(<<>>, at) ELSE AfterBlob(file, f[k - 1])
    BY <1>1 DEF IsBlobs
<1> DEFINE Good(k) == f[k].at # Fail =>
                         Len(f[k].value) = k /\ BlobsStand(file, at, f[k].at, f[k].value)
<1> DEFINE Bad == {k \in 0 .. n : ~Good(k)}
<1>5. CASE Bad # {}
  <2>0. Bad \in SUBSET Nat
      OBVIOUS
  <2>1. PICK m \in Bad : \A k \in Bad : m <= k
      BY <1>5, <2>0, LeastMember
  <2>2. m # 0
    <3>1. CASE m = 0
      <4>1. f[m] = Got(<<>>, at)
          BY <1>4, <2>1, <3>1
      <4>2. f[m].at = at /\ f[m].value = <<>> /\ Len(<<>>) = 0
          BY <4>1 DEF Got
      <4>3. Good(m)
          BY <3>1, <4>2, BlobsNone
      <4> QED BY <2>1, <4>3
    <3> QED BY <3>1
  <2>3. PICK p \in 0 .. n : m = p + 1
    <3>1. m - 1 \in 0 .. n
        BY <2>1, <2>2
    <3> QED BY <3>1
  <2>4. Good(p)
    <3>1. p \notin Bad
        BY <2>1, <2>3
    <3> QED BY <3>1
  <2>5. f[m] = AfterBlob(file, f[p])
    <3>1. m \in 0 .. n /\ m - 1 = p
        BY <2>1, <2>3
    <3> QED BY <1>4, <2>2, <3>1
  <2>6. PICK b : b = ReadBlob(file, f[p].at)
      OBVIOUS
  <2>7. CASE b.at = Fail
    <3>1. f[m].at = Fail
        BY <2>5, <2>6, <2>7 DEF AfterBlob, Failed, Got
    <3> QED BY <2>1, <3>1
  <2>8. CASE b.at # Fail
    <3>1. f[p].at # Fail
        BY <2>6, <2>8, BlobFails
    <3>2. Len(f[p].value) = p /\ BlobsStand(file, at, f[p].at, f[p].value)
        BY <2>4, <3>1
    <3>3. f[p].at \in Nat
        BY <3>2 DEF BlobsStand, Stands
    <3>4. b.value \in Seq(Int) /\ Stands(file, f[p].at, b.at, Blob(b.value))
        BY <2>6, <2>8, <3>3, BlobRead
    <3>5. /\ BlobsStand(file, at, b.at, Append(f[p].value, b.value))
          /\ Len(Append(f[p].value, b.value)) = Len(f[p].value) + 1
        BY <3>2, <3>4, BlobsGrow
    <3>6. f[m].at = b.at /\ f[m].value = Append(f[p].value, b.value)
        BY <2>5, <2>6, <2>8 DEF AfterBlob, Got
    <3>7. Good(m)
        BY <2>3, <3>2, <3>5, <3>6
    <3> QED BY <2>1, <3>7
  <2> QED BY <2>7, <2>8
<1>6. CASE Bad = {}
  <2>1. n \in 0 .. n /\ n \notin Bad
      BY <1>6
  <2> HIDE DEF Good
  <2>2. Good(n)
      BY <2>1
  <2> QED BY <1>3, <2>2 DEF Good
<1> QED BY <1>5, <1>6

(* The witness of one input.                                               *)
LEMMA WitnessRead ==
    ASSUME NEW file \in Seq(Int), NEW at \in Nat, NEW count, NEW blobs, NEW i,
           count = ReadCompact(file, at), count.at # Fail,
           blobs = ReadBlobs(file, count.at, count.value), blobs.at # Fail,
           i.witness = blobs.value
    PROVE  /\ blobs.value \in Seq(Seq(Int))
           /\ WitnessBytes(i) \in Seq(Int) /\ Stands(file, at, blobs.at, WitnessBytes(i))
<1>1. /\ count.value \in Nat /\ count.at \in Nat
      /\ Stands(file, at, count.at, Compact(count.value))
    BY CompactRead
<1>2. count.at <= Len(file)
    BY <1>1 DEF Stands
<1>3. Len(blobs.value) = count.value /\ BlobsStand(file, count.at, blobs.at, blobs.value)
    BY <1>1, <1>2, BlobsRead
<1>4. /\ blobs.value \in Seq(Seq(Int)) /\ Blobs(blobs.value) \in Seq(Seq(Int))
      /\ Stands(file, count.at, blobs.at, FlattenSeq(Blobs(blobs.value)))
    BY <1>3 DEF BlobsStand
<1>5. Stands(file, at, blobs.at, Compact(count.value) \o FlattenSeq(Blobs(blobs.value)))
    BY <1>1, <1>4, StandsJoin
<1>6. Len(Blobs(blobs.value)) = count.value
  <2>1. PICK n \in Nat : n = count.value
      BY <1>1
  <2> DEFINE v == blobs.value
  <2>4. v \in Seq(Seq(Int)) /\ Len(v) = n /\ DOMAIN v = 1 .. n
      BY <1>3, <1>4, <2>1
  <2>2. Blobs(v) = [k \in 1 .. n |-> Blob(v[k])]
      BY <2>4 DEF Blobs
  <2>3. Blobs(v) \in Seq(Seq(Int)) /\ DOMAIN Blobs(v) = 1 .. n
      BY <1>4, <2>4, <2>2
  <2> QED BY <2>1, <2>3
<1>7. WitnessBytes(i) = Compact(count.value) \o FlattenSeq(Blobs(blobs.value))
    BY <1>6 DEF WitnessBytes, List, Blobs
<1> QED BY <1>4, <1>5, <1>7, StandsType

-----------------------------------------------------------------------------
(* A list of n items, of which some are read, between two offsets.         *)
ItemsStand(file, a, c, items, n) ==
    /\ items \in Seq(Seq(Int))
    /\ \E b \in 0 .. Len(file) :
          Stands(file, a, b, Compact(n)) /\ Stands(file, b, c, FlattenSeq(items))

(* Its count is read first.                                                *)
LEMMA ItemsStart ==
    ASSUME NEW file \in Seq(Int), NEW a, NEW b, NEW n, Stands(file, a, b, Compact(n))
    PROVE  ItemsStand(file, a, b, <<>>, n)
<1>1. BlobsStand(file, b, b, <<>>)
  <2>1. b \in Nat /\ b <= Len(file)
      BY DEF Stands
  <2> QED BY <2>1, BlobsNone
<1>2. Blobs(<<>>) = <<>>
    BY DEF Blobs
<1>3. b \in 0 .. Len(file)
    BY DEF Stands
<1> QED BY <1>1, <1>2, <1>3 DEF BlobsStand, ItemsStand

(* Then one item after the other.                                          *)
LEMMA ItemsGrow ==
    ASSUME NEW file \in Seq(Int), NEW a, NEW c, NEW d, NEW s, NEW n, NEW x, NEW t,
           ItemsStand(file, a, c, s, n), Stands(file, c, d, x),
           t = [k \in 1 .. Len(s) + 1 |-> IF k <= Len(s) THEN s[k] ELSE x]
    PROVE  ItemsStand(file, a, d, t, n) /\ Len(t) = Len(s) + 1
<1>1. PICK b \in 0 .. Len(file) :
          Stands(file, a, b, Compact(n)) /\ Stands(file, b, c, FlattenSeq(s))
    BY DEF ItemsStand
<1>2. s \in Seq(Seq(Int)) /\ x \in Seq(Int)
    BY StandsType DEF ItemsStand
<1>3. t \in Seq(Seq(Int)) /\ Len(t) = Len(s) + 1 /\ FlattenSeq(t) = FlattenSeq(s) \o x
    BY <1>2, WrittenGrows
<1>4. Stands(file, b, d, FlattenSeq(t))
    BY <1>1, <1>3, StandsJoin
<1> QED BY <1>1, <1>3, <1>4 DEF ItemsStand

(* Until there are as many as the count said.                              *)
LEMMA ItemsEnd ==
    ASSUME NEW file \in Seq(Int), NEW a, NEW c, NEW s, NEW n,
           ItemsStand(file, a, c, s, n), n = Len(s)
    PROVE  Stands(file, a, c, List(s))
<1>1. PICK b \in 0 .. Len(file) :
          Stands(file, a, b, Compact(n)) /\ Stands(file, b, c, FlattenSeq(s))
    BY DEF ItemsStand
<1>2. Stands(file, a, c, Compact(n) \o FlattenSeq(s))
    BY <1>1, StandsJoin
<1> QED BY <1>2 DEF List

-----------------------------------------------------------------------------
(* Two digits.                                                             *)
LEMMA PairOf ==
    ASSUME NEW x \in Int, NEW y \in Int
    PROVE  <<x>> \o <<y>> = <<x, y>>
<1> DEFINE l == <<x>> \o <<y>>
<1> DEFINE r == <<x, y>>
<1>1. <<x>> \in Seq(Int) /\ <<y>> \in Seq(Int) /\ Len(<<x>>) = 1 /\ Len(<<y>>) = 1
    OBVIOUS
<1>2. l \in Seq(Int) /\ Len(l) = 2 /\ l[1] = x /\ l[2] = y
    BY <1>1
<1>3. r \in Seq(Int) /\ Len(r) = 2 /\ r[1] = x /\ r[2] = y
    OBVIOUS
<1> HIDE DEF l, r
<1>4. \A i \in 1 .. Len(l) : l[i] = r[i]
    BY <1>2, <1>3
<1>5. l = r
    BY <1>2, <1>3, <1>4, SeqEqual
<1> QED BY <1>5 DEF l, r

(* The fields of an input.                                                 *)
LEMMA InputRead ==
    ASSUME NEW file \in Seq(Int), NEW at \in Nat, NEW script, NEW i,
           Holds(file, at, 2), script = ReadBlob(file, at + 2), Holds(file, script.at, 1),
           i = [txid |-> file[at + 1], vout |-> file[at + 2],
                script |-> script.value, witness |-> <<>>, sequence |-> file[script.at + 1]]
    PROVE  Stands(file, at, script.at + 1, InputBytes(i))
<1>1. PICK b \in Nat, c \in Nat : b = at + 1 /\ c = at + 2 /\ c = b + 1 /\ c <= Len(file)
  <2>1. at + 1 \in Nat /\ at + 2 \in Nat /\ at + 2 = (at + 1) + 1 /\ at + 2 <= Len(file)
      BY DEF Holds
  <2> QED BY <2>1
<1>2. Stands(file, at, b, <<file[b]>>)
  <2>1. b <= Len(file)
      BY <1>1
  <2> QED BY <1>1, <2>1, StandsOne
<1>3. Stands(file, b, c, <<file[c]>>)
    BY <1>1, StandsOne
<1>4. Stands(file, at, c, <<file[b]>> \o <<file[c]>>)
    BY <1>2, <1>3, StandsJoin
<1>5. script = ReadBlob(file, c) /\ script.at # Fail
    BY <1>1 DEF Holds
<1>6. script.at \in Nat /\ Stands(file, c, script.at, Blob(script.value))
    BY <1>1, <1>5, BlobRead
<1>7. PICK d \in Nat : d = script.at + 1 /\ d <= Len(file)
  <2>1. script.at + 1 \in Nat /\ script.at + 1 <= Len(file)
      BY <1>6, SMTT(30) DEF Holds
  <2> QED BY <2>1
<1>8. Stands(file, script.at, d, <<file[d]>>)
    BY <1>6, <1>7, StandsOne
<1>9. Stands(file, at, script.at, (<<file[b]>> \o <<file[c]>>) \o Blob(script.value))
    BY <1>4, <1>6, StandsJoin
<1>10. Stands(file, at, d, ((<<file[b]>> \o <<file[c]>>) \o Blob(script.value)) \o <<file[d]>>)
    BY <1>8, <1>9, StandsJoin
<1>11. <<file[b]>> \o <<file[c]>> = <<file[b], file[c]>>
  <2>1. file[b] \in Int /\ file[c] \in Int
    <3>1. b \in 1 .. Len(file) /\ c \in 1 .. Len(file)
        BY <1>1
    <3> QED BY <3>1, ElementOfSeq
  <2> QED BY <2>1, PairOf
<1>12. InputBytes(i) = (<<file[b], file[c]>> \o Blob(script.value)) \o <<file[d]>>
    BY <1>1, <1>7 DEF InputBytes
<1> QED BY <1>7, <1>10, <1>11, <1>12

(* Those of an output.                                                     *)
LEMMA OutputRead ==
    ASSUME NEW file \in Seq(Int), NEW at \in Nat, NEW script, NEW o,
           Holds(file, at, 1), script = ReadBlob(file, at + 1), script.at # Fail,
           o = [value |-> file[at + 1], script |-> script.value]
    PROVE  Stands(file, at, script.at, OutputBytes(o))
<1>1. PICK b \in Nat : b = at + 1 /\ b <= Len(file)
  <2>1. at + 1 \in Nat /\ at + 1 <= Len(file)
      BY DEF Holds
  <2> QED BY <2>1
<1>2. Stands(file, at, b, <<file[b]>>)
    BY <1>1, StandsOne
<1>3. Stands(file, b, script.at, Blob(script.value))
    BY <1>1, BlobRead
<1>4. Stands(file, at, script.at, <<file[b]>> \o Blob(script.value))
    BY <1>2, <1>3, StandsJoin
<1> QED BY <1>1, <1>4 DEF OutputBytes

-----------------------------------------------------------------------------
(* What was read so far, as it would be written.                           *)
Header == <<spend.version>> \o (IF marked THEN <<0, 1>> ELSE <<>>)
InputsText == [k \in DOMAIN spend.inputs |-> InputBytes(spend.inputs[k])]
OutputsText == [k \in DOMAIN spend.outputs |-> OutputBytes(spend.outputs[k])]
WitnessText(n) == [k \in 1 .. n |-> WitnessBytes(spend.inputs[k])]

(* The transaction read so far, and the file.                              *)
InputType == [txid : Int, vout : Int, script : Seq(Int), witness : Seq(Seq(Int)), sequence : Int]
OutputType == [value : Int, script : Seq(Int)]
SpendType == [version : Int, inputs : Seq(InputType), outputs : Seq(OutputType), locktime : Int]

ReadingType ==
    /\ raw \in Seq(Int) /\ spend \in SpendType
    /\ marked \in BOOLEAN /\ remaining \in Nat

(* The stages of the parser.  Up to some offset stands the beginning of    *)
(* the transaction, and behind it what was read of the list in hand.       *)
NothingRead == spend.inputs = <<>> /\ spend.outputs = <<>>

Unwitnessed ==
    \A k \in DOMAIN spend.inputs : spend.inputs[k].witness = <<>>

InputsRead ==
    /\ Unwitnessed /\ spend.outputs = <<>>
    /\ \E a \in 0 .. Len(raw) :
          /\ Stands(raw, 0, a, Header)
          /\ ItemsStand(raw, a, offset, InputsText, Len(spend.inputs) + remaining)

OutputsRead ==
    /\ Unwitnessed
    /\ \E a \in 0 .. Len(raw) :
          /\ Stands(raw, 0, a, Header \o List(InputsText))
          /\ ItemsStand(raw, a, offset, OutputsText, Len(spend.outputs) + remaining)

WitnessesRead ==
    /\ marked /\ remaining <= Len(spend.inputs)
    /\ WitnessText(Len(spend.inputs) - remaining) \in Seq(Seq(Int))
    /\ \E a \in 0 .. Len(raw) :
          /\ Stands(raw, 0, a, Header \o List(InputsText) \o List(OutputsText))
          /\ Stands(raw, a, offset, FlattenSeq(WitnessText(Len(spend.inputs) - remaining)))

AllRead ==
    /\ marked <=> HasWitness(spend)
    /\ Stands(raw, 0, offset,
              Header \o List(InputsText) \o List(OutputsText)
              \o (IF marked THEN FlattenSeq(WitnessText(Len(spend.inputs))) ELSE <<>>))

(* The invariant of the parser: what it read of the file is what it would  *)
(* write of the transaction.                                               *)
ParseInv ==
    /\ ReadingType
    /\ pc = "header" => NothingRead
    /\ pc = "inputs" => InputsRead
    /\ pc = "outputs" => OutputsRead
    /\ pc = "witness" => WitnessesRead
    /\ pc = "locktime" => AllRead
    /\ pc = "parsed" => Serialize(spend, TRUE) = raw

(* A command that raises is past the file.                                 *)
LEMMA RaisedReading ==
    ASSUME ParseInv, raw' = raw, UNCHANGED reading,
           pc' \notin {"header", "inputs", "outputs", "witness", "locktime", "parsed"}
    PROVE  ParseInv'
BY DEF ParseInv, ReadingType, reading

(* The count of the inputs stands behind the version and the flag.         *)
LEMMA HeaderRead ==
    ASSUME ParseInv, ReadHeader
    PROVE  ParseInv'
<1>1. raw' = raw /\ pc = "header" /\ ReadingType /\ NothingRead
    BY DEF ReadHeader, Raises, Reads, given, ParseInv
<1>2. CASE Raises("parse")
    BY <1>1, <1>2, RaisedReading DEF Raises
<1>3. CASE ~Raises("parse")
  <2>1. PICK first : first = ReadCompact(raw, 1)
      OBVIOUS
  <2>2. PICK flagged \in BOOLEAN : flagged = (first.value = 0)
      OBVIOUS
  <2>3. PICK count : count = IF flagged THEN ReadCompact(raw, first.at + 1) ELSE first
      OBVIOUS
  <2>4. /\ first.at # Fail /\ count.at # Fail
        /\ flagged => Holds(raw, first.at, 1) /\ raw[first.at + 1] = 1
        /\ pc' = "inputs" /\ offset' = count.at /\ remaining' = count.value
        /\ marked' = flagged /\ spend' = [spend EXCEPT !.version = raw[1]]
      BY <1>3, <2>1, <2>2, <2>3 DEF ReadHeader, Reads
  <2>5. raw \in Seq(Int) /\ spend \in SpendType
      BY <1>1 DEF ReadingType
  <2>6. PICK one \in Nat : one = 1
      OBVIOUS
  <2>7. /\ first.value \in Nat /\ first.at \in Nat /\ one < first.at
        /\ Stands(raw, one, first.at, Compact(first.value))
      BY <2>1, <2>4, <2>5, <2>6, CompactRead
  <2>8. PICK v \in Int : v = raw[1]
    <3>1. 1 \in 1 .. Len(raw)
        BY <2>5, <2>6, <2>7 DEF Stands
    <3> QED BY <2>5, <3>1, ElementOfSeq
  <2>9. Stands(raw, 0, one, <<v>>)
    <3>1. PICK z \in Nat : z = 0 /\ one = z + 1
        BY <2>6
    <3>2. one <= Len(raw)
        BY <2>6, <2>7 DEF Stands
    <3> QED BY <2>5, <2>6, <2>8, <3>1, <3>2, StandsOne
  <2>10. \E a \in Nat :
            /\ Stands(raw, 0, a, <<v>> \o (IF flagged THEN <<0, 1>> ELSE <<>>))
            /\ Stands(raw, a, count.at, Compact(count.value))
            /\ count.value \in Nat
    <3>1. CASE flagged
      <4>1. Compact(first.value) = <<0>>
        <5>1. 0 < Marker(1)
            BY HugeType DEF Marker
        <5> QED BY <2>2, <3>1, <5>1 DEF Compact
      <4>2. PICK b \in Nat : b = first.at + 1 /\ b <= Len(raw)
        <5>1. first.at + 1 \in Nat /\ first.at + 1 <= Len(raw)
            BY <2>4, <2>7, <3>1 DEF Holds
        <5> QED BY <5>1
      <4>3. Stands(raw, first.at, b, <<1>>)
        <5>1. Stands(raw, first.at, b, <<raw[b]>>)
            BY <2>5, <2>7, <4>2, StandsOne
        <5> QED BY <2>4, <3>1, <4>2, <5>1
      <4>4. Stands(raw, one, b, <<0>> \o <<1>>)
          BY <2>5, <2>7, <4>1, <4>3, StandsJoin
      <4>5. <<0>> \o <<1>> = <<0, 1>>
        <5>1. 0 \in Int /\ 1 \in Int
            OBVIOUS
        <5> QED BY <5>1, PairOf
      <4>6. Stands(raw, 0, b, <<v>> \o <<0, 1>>)
          BY <2>5, <2>9, <4>4, <4>5, StandsJoin
      <4>7. count = ReadCompact(raw, b)
          BY <2>3, <3>1, <4>2
      <4>8. count.value \in Nat /\ Stands(raw, b, count.at, Compact(count.value))
          BY <2>4, <2>5, <4>7, CompactRead
      <4> QED BY <3>1, <4>6, <4>8
    <3>2. CASE ~flagged
      <4>1. count = first
          BY <2>3, <3>2
      <4>2. <<v>> \o <<>> = <<v>>
          OBVIOUS
      <4> QED BY <2>6, <2>7, <2>9, <3>2, <4>1, <4>2
    <3> QED BY <3>1, <3>2
  <2>11. PICK a \in Nat :
            /\ Stands(raw, 0, a, <<v>> \o (IF flagged THEN <<0, 1>> ELSE <<>>))
            /\ Stands(raw, a, count.at, Compact(count.value))
            /\ count.value \in Nat
      BY <2>10
  <2>12. /\ spend' \in SpendType /\ spend'.version = v
         /\ spend'.inputs = <<>> /\ spend'.outputs = <<>>
      BY <1>1, <2>4, <2>5, <2>8 DEF SpendType, NothingRead
  <2>13. ReadingType'
      BY <1>1, <2>4, <2>5, <2>11, <2>12 DEF ReadingType
  <2>14. ItemsStand(raw, a, count.at, <<>>, count.value)
      BY <2>5, <2>11, ItemsStart
  <2>15. InputsText' = <<>> /\ Len(spend'.inputs) + remaining' = count.value
      BY <2>4, <2>11, <2>12 DEF InputsText
  <2>16. Header' = <<v>> \o (IF flagged THEN <<0, 1>> ELSE <<>>)
      BY <2>4, <2>12 DEF Header
  <2>17. a \in 0 .. Len(raw)
      BY <2>5, <2>11 DEF Stands
  <2>18. Unwitnessed'
      BY <2>12 DEF Unwitnessed
  <2>19. InputsRead'
      BY <1>1, <2>4, <2>11, <2>12, <2>14, <2>15, <2>16, <2>17, <2>18 DEF InputsRead
  <2> QED BY <2>4, <2>13, <2>19 DEF ParseInv
<1> QED BY <1>2, <1>3

(* One input more stands behind those that were read.                      *)
LEMMA InputKept ==
    ASSUME ParseInv, ReadInput
    PROVE  ParseInv'
<1>1. raw' = raw /\ pc = "inputs" /\ remaining > 0 /\ ReadingType /\ InputsRead
    BY DEF ReadInput, Raises, Reads, given, ParseInv
<1>2. CASE Raises("parse")
    BY <1>1, <1>2, RaisedReading DEF Raises
<1>3. CASE ~Raises("parse")
  <2>1. PICK script : script = ReadBlob(raw, offset + 2)
      OBVIOUS
  <2>2. PICK i : i = [txid |-> raw[offset + 1], vout |-> raw[offset + 2],
                      script |-> script.value, witness |-> <<>>,
                      sequence |-> raw[script.at + 1]]
      OBVIOUS
  <2>3. /\ Holds(raw, offset, 2) /\ Holds(raw, script.at, 1)
        /\ pc' = "inputs" /\ offset' = script.at + 1 /\ remaining' = remaining - 1
        /\ spend' = [spend EXCEPT !.inputs = Append(@, i)] /\ marked' = marked
      BY <1>3, <2>1, <2>2 DEF ReadInput, Reads
  <2>4. raw \in Seq(Int) /\ spend \in SpendType /\ remaining \in Nat
      BY <1>1 DEF ReadingType
  <2>5. PICK a \in 0 .. Len(raw) :
            /\ Stands(raw, 0, a, Header)
            /\ ItemsStand(raw, a, offset, InputsText, Len(spend.inputs) + remaining)
      BY <1>1 DEF InputsRead
  <2>6. offset \in Nat
      BY <2>5 DEF ItemsStand, Stands
  <2>7. Stands(raw, offset, offset', InputBytes(i))
      BY <2>1, <2>2, <2>3, <2>4, <2>6, InputRead
  <2>8. i \in InputType
    <3>1. script.at # Fail /\ offset + 2 \in Nat
        BY <2>3, <2>6 DEF Holds
    <3>2. script.value \in Seq(Int) /\ script.at \in Nat
        BY <2>1, <2>4, <3>1, BlobRead
    <3>3. /\ offset + 1 \in 1 .. Len(raw) /\ offset + 2 \in 1 .. Len(raw)
          /\ script.at + 1 \in 1 .. Len(raw)
      <4>1. Len(raw) \in Nat /\ offset + 2 <= Len(raw)
          BY <2>3, <2>4 DEF Holds
      <4>2. PICK e \in Nat : e = script.at
          BY <3>2
      <4>3. e + 1 <= Len(raw)
          BY <2>3, <4>2 DEF Holds
      <4> QED BY <2>6, <4>1, <4>2, <4>3
    <3>4. raw[offset + 1] \in Int /\ raw[offset + 2] \in Int /\ raw[script.at + 1] \in Int
        BY <2>4, <3>3, ElementOfSeq
    <3> QED BY <2>2, <3>2, <3>4 DEF InputType
  <2>9. PICK is \in Seq(InputType) : is = spend.inputs
      BY <2>4 DEF SpendType
  <2>10. PICK n \in Nat, m \in Nat : n = Len(is) /\ m = n + 1
      OBVIOUS
  <2> DEFINE u == Append(is, i)
  <2>11. /\ u \in Seq(InputType) /\ Len(u) = m /\ DOMAIN u = 1 .. m
         /\ u[m] = i /\ \A k \in 1 .. n : u[k] = is[k]
      BY <2>8, <2>10
  <2>12. /\ spend' \in SpendType /\ spend'.version = spend.version
         /\ spend'.inputs = u /\ spend'.outputs = spend.outputs
      BY <2>3, <2>4, <2>9, <2>11 DEF SpendType
  <2> HIDE DEF u
  <2>13. InputsText = [k \in 1 .. n |-> InputBytes(is[k])] /\ Len(InputsText) = n
    <3>1. InputsText = [k \in 1 .. n |-> InputBytes(is[k])]
        BY <2>9, <2>10 DEF InputsText
    <3>2. InputsText \in Seq(Seq(Int)) /\ DOMAIN InputsText = 1 .. n
        BY <2>5, <3>1 DEF ItemsStand
    <3> QED BY <3>1, <3>2
  <2>14. InputsText' = [k \in 1 .. Len(InputsText) + 1 |->
                           IF k <= Len(InputsText) THEN InputsText[k] ELSE InputBytes(i)]
    <3>1. InputsText' = [k \in 1 .. m |-> InputBytes(u[k])]
        BY <2>11, <2>12 DEF InputsText
    <3>2. ASSUME NEW k \in 1 .. m
          PROVE InputBytes(u[k]) = IF k <= n THEN InputsText[k] ELSE InputBytes(i)
      <4>1. CASE k <= n
        <5>1. k \in 1 .. n
            BY <4>1
        <5> QED BY <2>11, <2>13, <4>1, <5>1
      <4>2. CASE ~(k <= n)
        <5>1. k = m
            BY <2>10, <4>2
        <5> QED BY <2>11, <4>2, <5>1
      <4> QED BY <4>1, <4>2
    <3> QED BY <2>10, <2>13, <3>1, <3>2
  <2>15. PICK c \in Nat : c = Len(is) + remaining
      BY <2>4
  <2>16. c = Len(u) + remaining' /\ remaining' \in Nat
    <3>1. PICK r \in Nat : remaining = r + 1
      <4>1. remaining - 1 \in Nat /\ remaining = (remaining - 1) + 1
          BY <1>1, <2>4
      <4> QED BY <4>1
    <3>2. remaining' = r
        BY <2>3, <3>1
    <3>3. c = n + (r + 1) /\ Len(u) = n + 1
        BY <2>10, <2>11, <2>15, <3>1
    <3> QED BY <3>2, <3>3
  <2>17. ItemsStand(raw, a, offset', InputsText', c)
    <3>1. ItemsStand(raw, a, offset, InputsText, c)
        BY <2>5, <2>9, <2>15
    <3> QED BY <2>4, <2>7, <2>14, <3>1, ItemsGrow
  <2>18. Header' = Header
      BY <2>3, <2>12 DEF Header
  <2>19. Unwitnessed'
    <3>1. i.witness = <<>>
        BY <2>2
    <3>2. \A k \in 1 .. n : is[k].witness = <<>>
        BY <1>1, <2>9, <2>10 DEF InputsRead, Unwitnessed
    <3>3. \A k \in 1 .. m : u[k].witness = <<>>
        BY <2>10, <2>11, <3>1, <3>2
    <3> QED BY <2>11, <2>12, <3>3 DEF Unwitnessed
  <2>20. InputsRead'
      BY <1>1, <2>5, <2>12, <2>16, <2>17, <2>18, <2>19 DEF InputsRead
  <2>21. ReadingType'
      BY <1>1, <2>3, <2>4, <2>12, <2>16 DEF ReadingType
  <2> QED BY <2>3, <2>20, <2>21 DEF ParseInv
<1> QED BY <1>2, <1>3

(* The inputs are all there, and the count of the outputs follows.         *)
LEMMA OutputsCounted ==
    ASSUME ParseInv, CountOutputs
    PROVE  ParseInv'
<1>1. raw' = raw /\ pc = "inputs" /\ remaining = 0 /\ ReadingType /\ InputsRead
    BY DEF CountOutputs, Raises, Reads, given, ParseInv
<1>2. CASE Raises("parse")
    BY <1>1, <1>2, RaisedReading DEF Raises
<1>3. CASE ~Raises("parse")
  <2>1. PICK count : count = ReadCompact(raw, offset)
      OBVIOUS
  <2>2. /\ count.at # Fail
        /\ pc' = "outputs" /\ offset' = count.at /\ remaining' = count.value
        /\ marked' = marked /\ spend' = spend
      BY <1>3, <2>1 DEF CountOutputs, Reads
  <2>3. raw \in Seq(Int) /\ spend \in SpendType
      BY <1>1 DEF ReadingType
  <2>4. PICK a \in 0 .. Len(raw) :
            /\ Stands(raw, 0, a, Header)
            /\ ItemsStand(raw, a, offset, InputsText, Len(spend.inputs) + remaining)
      BY <1>1 DEF InputsRead
  <2>5. offset \in Nat /\ offset \in 0 .. Len(raw)
      BY <2>3, <2>4 DEF ItemsStand, Stands
  <2>6. Len(InputsText) = Len(spend.inputs) /\ Len(spend.inputs) \in Nat
    <3>1. spend.inputs \in Seq(InputType)
        BY <2>3 DEF SpendType
    <3>2. InputsText \in Seq(Seq(Int)) /\ DOMAIN InputsText = 1 .. Len(spend.inputs)
        BY <2>4, <3>1 DEF ItemsStand, InputsText
    <3> QED BY <3>1, <3>2
  <2>7. Stands(raw, a, offset, List(InputsText))
    <3>1. Len(spend.inputs) + remaining = Len(InputsText)
        BY <1>1, <2>6
    <3> QED BY <2>3, <2>4, <3>1, ItemsEnd
  <2>8. Stands(raw, 0, offset, Header \o List(InputsText))
      BY <2>3, <2>4, <2>7, StandsJoin
  <2>9. count.value \in Nat /\ ItemsStand(raw, offset, count.at, <<>>, count.value)
    <3>1. count.value \in Nat /\ Stands(raw, offset, count.at, Compact(count.value))
        BY <2>1, <2>2, <2>3, <2>5, CompactRead
    <3> QED BY <2>3, <3>1, ItemsStart
  <2>10. OutputsText = <<>> /\ Len(spend.outputs) + count.value = count.value
      BY <1>1, <2>9 DEF InputsRead, OutputsText
  <2>11. /\ Header' = Header /\ InputsText' = InputsText /\ OutputsText' = OutputsText
         /\ Unwitnessed'
      BY <1>1, <2>2 DEF Header, InputsText, OutputsText, Unwitnessed, InputsRead
  <2>12. OutputsRead'
    <3>1. ItemsStand(raw, offset, count.at, OutputsText, Len(spend.outputs) + count.value)
        BY <2>9, <2>10
    <3> QED BY <1>1, <2>2, <2>5, <2>8, <2>11, <3>1 DEF OutputsRead
  <2>13. ReadingType'
      BY <1>1, <2>2, <2>9 DEF ReadingType
  <2> QED BY <2>2, <2>12, <2>13 DEF ParseInv
<1> QED BY <1>2, <1>3

(* One output more.                                                        *)
LEMMA OutputKept ==
    ASSUME ParseInv, ReadOutput
    PROVE  ParseInv'
<1>1. raw' = raw /\ pc = "outputs" /\ remaining > 0 /\ ReadingType /\ OutputsRead
    BY DEF ReadOutput, Raises, Reads, given, ParseInv
<1>2. CASE Raises("parse")
    BY <1>1, <1>2, RaisedReading DEF Raises
<1>3. CASE ~Raises("parse")
  <2>1. PICK script : script = ReadBlob(raw, offset + 1)
      OBVIOUS
  <2>2. PICK o : o = [value |-> raw[offset + 1], script |-> script.value]
      OBVIOUS
  <2>3. /\ Holds(raw, offset, 1) /\ script.at # Fail
        /\ pc' = "outputs" /\ offset' = script.at /\ remaining' = remaining - 1
        /\ spend' = [spend EXCEPT !.outputs = Append(@, o)] /\ marked' = marked
      BY <1>3, <2>1, <2>2 DEF ReadOutput, Reads
  <2>4. raw \in Seq(Int) /\ spend \in SpendType /\ remaining \in Nat
      BY <1>1 DEF ReadingType
  <2>5. PICK a \in 0 .. Len(raw) :
            /\ Stands(raw, 0, a, Header \o List(InputsText))
            /\ ItemsStand(raw, a, offset, OutputsText, Len(spend.outputs) + remaining)
      BY <1>1 DEF OutputsRead
  <2>6. offset \in Nat
      BY <2>5 DEF ItemsStand, Stands
  <2>7. Stands(raw, offset, offset', OutputBytes(o))
      BY <2>1, <2>2, <2>3, <2>4, <2>6, OutputRead
  <2>8. o \in OutputType
    <3>1. offset + 1 \in Nat
        BY <2>6
    <3>2. script.value \in Seq(Int)
        BY <2>1, <2>3, <2>4, <3>1, BlobRead
    <3>3. offset + 1 \in 1 .. Len(raw)
        BY <2>3, <2>4, <2>6 DEF Holds
    <3>4. raw[offset + 1] \in Int
        BY <2>4, <3>3, ElementOfSeq
    <3> QED BY <2>2, <3>2, <3>4 DEF OutputType
  <2>9. PICK os \in Seq(OutputType) : os = spend.outputs
      BY <2>4 DEF SpendType
  <2>10. PICK n \in Nat, m \in Nat : n = Len(os) /\ m = n + 1
      OBVIOUS
  <2> DEFINE u == Append(os, o)
  <2>11. /\ u \in Seq(OutputType) /\ Len(u) = m /\ DOMAIN u = 1 .. m
         /\ u[m] = o /\ \A k \in 1 .. n : u[k] = os[k]
      BY <2>8, <2>10
  <2>12. /\ spend' \in SpendType /\ spend'.version = spend.version
         /\ spend'.outputs = u /\ spend'.inputs = spend.inputs
      BY <2>3, <2>4, <2>9, <2>11 DEF SpendType
  <2> HIDE DEF u
  <2>13. OutputsText = [k \in 1 .. n |-> OutputBytes(os[k])] /\ Len(OutputsText) = n
    <3>1. OutputsText = [k \in 1 .. n |-> OutputBytes(os[k])]
        BY <2>9, <2>10 DEF OutputsText
    <3>2. OutputsText \in Seq(Seq(Int)) /\ DOMAIN OutputsText = 1 .. n
        BY <2>5, <3>1 DEF ItemsStand
    <3> QED BY <3>1, <3>2
  <2>14. OutputsText' = [k \in 1 .. Len(OutputsText) + 1 |->
                           IF k <= Len(OutputsText) THEN OutputsText[k] ELSE OutputBytes(o)]
    <3>1. OutputsText' = [k \in 1 .. m |-> OutputBytes(u[k])]
        BY <2>11, <2>12 DEF OutputsText
    <3>2. ASSUME NEW k \in 1 .. m
          PROVE OutputBytes(u[k]) = IF k <= n THEN OutputsText[k] ELSE OutputBytes(o)
      <4>1. CASE k <= n
        <5>1. k \in 1 .. n
            BY <4>1
        <5> QED BY <2>11, <2>13, <4>1, <5>1
      <4>2. CASE ~(k <= n)
        <5>1. k = m
            BY <2>10, <4>2
        <5> QED BY <2>11, <4>2, <5>1
      <4> QED BY <4>1, <4>2
    <3> QED BY <2>10, <2>13, <3>1, <3>2
  <2>15. PICK c \in Nat : c = Len(os) + remaining
      BY <2>4
  <2>16. c = Len(u) + remaining' /\ remaining' \in Nat
    <3>1. PICK r \in Nat : remaining = r + 1
      <4>1. remaining - 1 \in Nat /\ remaining = (remaining - 1) + 1
          BY <1>1, <2>4
      <4> QED BY <4>1
    <3>2. remaining' = r
        BY <2>3, <3>1
    <3>3. c = n + (r + 1) /\ Len(u) = n + 1
        BY <2>10, <2>11, <2>15, <3>1
    <3> QED BY <3>2, <3>3
  <2>17. ItemsStand(raw, a, offset', OutputsText', c)
    <3>1. ItemsStand(raw, a, offset, OutputsText, c)
        BY <2>5, <2>9, <2>15
    <3> QED BY <2>4, <2>7, <2>14, <3>1, ItemsGrow
  <2>18. Header' = Header /\ InputsText' = InputsText /\ Unwitnessed'
      BY <1>1, <2>3, <2>12 DEF Header, InputsText, Unwitnessed, OutputsRead
  <2>20. OutputsRead'
      BY <1>1, <2>5, <2>12, <2>16, <2>17, <2>18 DEF OutputsRead
  <2>21. ReadingType'
      BY <1>1, <2>3, <2>4, <2>12, <2>16 DEF ReadingType
  <2> QED BY <2>3, <2>20, <2>21 DEF ParseInv
<1> QED BY <1>2, <1>3

(* Nothing stands between an offset and itself.                            *)
LEMMA StandsNone ==
    ASSUME NEW file \in Seq(Int), NEW a \in Nat, a <= Len(file)
    PROVE  Stands(file, a, a, <<>>)
<1>1. PICK c \in Int : c = a + 1 /\ a < c
    OBVIOUS
<1> QED BY <1>1, SubSeqEmpty DEF Stands

(* The outputs are all there; a file with the flag has witnesses to read.  *)
LEMMA OutputsKept ==
    ASSUME ParseInv, AfterOutputs
    PROVE  ParseInv'
<1>1. /\ raw' = raw /\ pc = "outputs" /\ remaining = 0 /\ ReadingType /\ OutputsRead
      /\ offset' = offset /\ marked' = marked /\ spend' = spend
      /\ pc' = IF marked THEN "witness" ELSE "locktime"
      /\ remaining' = IF marked THEN Len(spend.inputs) ELSE 0
    BY DEF AfterOutputs, Reads, given, ParseInv
<1>2. raw \in Seq(Int) /\ spend \in SpendType /\ marked \in BOOLEAN
    BY <1>1 DEF ReadingType
<1>3. PICK a \in 0 .. Len(raw) :
          /\ Stands(raw, 0, a, Header \o List(InputsText))
          /\ ItemsStand(raw, a, offset, OutputsText, Len(spend.outputs) + remaining)
    BY <1>1 DEF OutputsRead
<1>4. offset \in Nat /\ offset \in 0 .. Len(raw)
    BY <1>2, <1>3 DEF ItemsStand, Stands
<1>5. Len(OutputsText) = Len(spend.outputs) /\ Len(spend.outputs) \in Nat
  <2>1. spend.outputs \in Seq(OutputType)
      BY <1>2 DEF SpendType
  <2>2. OutputsText \in Seq(Seq(Int)) /\ DOMAIN OutputsText = 1 .. Len(spend.outputs)
      BY <1>3, <2>1 DEF ItemsStand, OutputsText
  <2> QED BY <2>1, <2>2
<1>6. Stands(raw, a, offset, List(OutputsText))
  <2>1. Len(spend.outputs) + remaining = Len(OutputsText)
      BY <1>1, <1>5
  <2> QED BY <1>2, <1>3, <2>1, ItemsEnd
<1>7. Stands(raw, 0, offset, Header \o List(InputsText) \o List(OutputsText))
    BY <1>2, <1>3, <1>6, StandsJoin
<1>8. /\ Header' = Header /\ InputsText' = InputsText /\ OutputsText' = OutputsText
      /\ HasWitness(spend') = HasWitness(spend)
    BY <1>1 DEF Header, InputsText, OutputsText
<1>9. Len(spend.inputs) \in Nat
  <2>1. spend.inputs \in Seq(InputType)
      BY <1>2 DEF SpendType
  <2> QED BY <2>1
<1>10. ReadingType'
    BY <1>1, <1>9 DEF ReadingType
<1>11. CASE marked
  <2>1. WitnessText(Len(spend.inputs) - remaining)' = <<>>
    <3>1. Len(spend'.inputs) - remaining' = 0
        BY <1>1, <1>9, <1>11
    <3> QED BY <3>1 DEF WitnessText
  <2>2. Stands(raw, offset, offset, FlattenSeq(<<>>)) /\ <<>> \in Seq(Seq(Int))
      BY <1>2, <1>4, StandsNone, FlattenNone
  <2>3. remaining' <= Len(spend'.inputs) /\ marked'
      BY <1>1, <1>9, <1>11
  <2>4. WitnessesRead'
      BY <1>1, <1>4, <1>7, <1>8, <2>1, <2>2, <2>3 DEF WitnessesRead
  <2> QED BY <1>1, <1>10, <1>11, <2>4 DEF ParseInv
<1>12. CASE ~marked
  <2>1. ~HasWitness(spend)
      BY <1>1 DEF OutputsRead, Unwitnessed, HasWitness
  <2>2. Header \o List(InputsText) \o List(OutputsText) \in Seq(Int)
      BY <1>2, <1>7, StandsType
  <2>3. Header \o List(InputsText) \o List(OutputsText) \o <<>>
        = Header \o List(InputsText) \o List(OutputsText)
      BY <2>2, ConcatEmptySeq
  <2>4. marked' <=> HasWitness(spend')
      BY <1>1, <1>2, <1>8, <1>12, <2>1
  <2>5. AllRead'
      BY <1>1, <1>7, <1>8, <1>12, <2>3, <2>4 DEF AllRead
  <2> QED BY <1>1, <1>10, <1>12, <2>5 DEF ParseInv
<1> QED BY <1>2, <1>11, <1>12

(* The witness of one input more.                                          *)
LEMMA WitnessKept ==
    ASSUME ParseInv, ReadWitness
    PROVE  ParseInv'
<1>1. raw' = raw /\ pc = "witness" /\ remaining > 0 /\ ReadingType /\ WitnessesRead
    BY DEF ReadWitness, Raises, Reads, given, ParseInv
<1>2. CASE Raises("parse")
    BY <1>1, <1>2, RaisedReading DEF Raises
<1>3. CASE ~Raises("parse")
  <2>1. PICK count : count = ReadCompact(raw, offset)
      OBVIOUS
  <2>2. PICK blobs : blobs = ReadBlobs(raw, count.at, count.value)
      OBVIOUS
  <2>3. raw \in Seq(Int) /\ spend \in SpendType /\ remaining \in Nat /\ marked
      BY <1>1 DEF ReadingType, WitnessesRead
  <2>4. PICK is \in Seq(InputType) : is = spend.inputs
      BY <2>3 DEF SpendType
  <2>5. PICK n \in Nat : n = Len(is)
      OBVIOUS
  <2>6. PICK p \in Nat, m \in Nat, r \in Nat :
            p = n - remaining /\ m = p + 1 /\ remaining = r + 1 /\ m \in 1 .. n /\ m = n - r
    <3>1. remaining \in 1 .. n
        BY <1>1, <2>3, <2>4, <2>5 DEF WitnessesRead
    <3>2. /\ n - remaining \in Nat /\ n - remaining + 1 \in 1 .. n /\ remaining - 1 \in Nat
          /\ n - remaining + 1 = n - (remaining - 1) /\ remaining = (remaining - 1) + 1
        BY <3>1
    <3> QED BY <3>2
  <2> DEFINE u == [is EXCEPT ![m].witness = blobs.value]
  <2>7. /\ count.at # Fail /\ blobs.at # Fail
        /\ pc' = "witness" /\ offset' = blobs.at /\ remaining' = r
        /\ spend' = [spend EXCEPT !.inputs = u] /\ marked' = marked
    <3>1. Len(spend.inputs) - remaining + 1 = m
        BY <2>4, <2>5, <2>6
    <3>2. remaining - 1 = r
        BY <2>6
    <3>3. /\ count.at # Fail /\ blobs.at # Fail
          /\ pc' = "witness" /\ offset' = blobs.at /\ remaining' = remaining - 1
          /\ spend' = [spend EXCEPT !.inputs[m].witness = blobs.value] /\ marked' = marked
        BY <1>3, <2>1, <2>2, <3>1 DEF ReadWitness, Reads
    <3> QED BY <2>4, <3>2, <3>3
  <2>8. PICK a \in 0 .. Len(raw) :
            /\ Stands(raw, 0, a, Header \o List(InputsText) \o List(OutputsText))
            /\ Stands(raw, a, offset, FlattenSeq(WitnessText(p)))
            /\ WitnessText(p) \in Seq(Seq(Int))
      BY <1>1, <2>4, <2>5, <2>6 DEF WitnessesRead
  <2>9. offset \in Nat
      BY <2>8 DEF Stands
  <2>10. PICK i : i = [is[m] EXCEPT !.witness = blobs.value]
      OBVIOUS
  <2>11. is[m] \in InputType
      BY <2>5, <2>6, ElementOfSeq
  <2>12. i.witness = blobs.value
      BY <2>10, <2>11 DEF InputType
  <2>13. /\ blobs.value \in Seq(Seq(Int))
         /\ WitnessBytes(i) \in Seq(Int) /\ Stands(raw, offset, blobs.at, WitnessBytes(i))
      BY <2>1, <2>2, <2>3, <2>7, <2>9, <2>12, WitnessRead
  <2>14. i \in InputType /\ InputBytes(i) = InputBytes(is[m])
      BY <2>10, <2>11, <2>13 DEF InputType, InputBytes
  <2>15. /\ u \in Seq(InputType) /\ Len(u) = n /\ DOMAIN u = 1 .. n
         /\ u[m] = i /\ \A k \in 1 .. n : k # m => u[k] = is[k]
    <3>1. u = [is EXCEPT ![m] = i]
        BY <2>10
    <3>2. DOMAIN is = 1 .. n
        BY <2>5
    <3> HIDE DEF u
    <3>3. u \in Seq(InputType) /\ Len(u) = n
        BY <2>5, <2>6, <2>14, <3>1
    <3>4. u[m] = i /\ \A k \in 1 .. n : k # m => u[k] = is[k]
        BY <2>6, <3>1, <3>2
    <3>5. DOMAIN u = 1 .. n
        BY <3>1, <3>2
    <3> QED BY <3>3, <3>4, <3>5
  <2>16. /\ spend' \in SpendType /\ spend'.version = spend.version
         /\ spend'.inputs = u /\ spend'.outputs = spend.outputs
      BY <2>3, <2>7, <2>15 DEF SpendType
  <2> HIDE DEF u
  <2>17. Header' = Header /\ InputsText' = InputsText /\ OutputsText' = OutputsText
    <3>1. \A k \in 1 .. n : InputBytes(u[k]) = InputBytes(is[k])
        BY <2>14, <2>15
    <3>2. InputsText = [k \in 1 .. n |-> InputBytes(is[k])]
        BY <2>4, <2>5 DEF InputsText
    <3>3. InputsText' = [k \in 1 .. n |-> InputBytes(u[k])]
        BY <2>15, <2>16 DEF InputsText
    <3> QED BY <2>7, <2>16, <3>1, <3>2, <3>3 DEF Header, OutputsText
  <2>18. PICK s \in Seq(Seq(Int)) : s = WitnessText(p) /\ Len(s) = p
    <3>1. DOMAIN WitnessText(p) = 1 .. p
        BY DEF WitnessText
    <3>2. PICK w \in Seq(Seq(Int)) : w = WitnessText(p)
        BY <2>8
    <3>3. DOMAIN w = 1 .. p
        BY <3>1, <3>2
    <3>4. Len(w) = p
        BY <3>3
    <3> QED BY <3>2, <3>4
  <2>19. PICK t : t = [k \in 1 .. m |-> WitnessBytes(u[k])]
      OBVIOUS
  <2>20. t = [k \in 1 .. Len(s) + 1 |-> IF k <= Len(s) THEN s[k] ELSE WitnessBytes(i)]
    <3>1. ASSUME NEW k \in 1 .. m
          PROVE WitnessBytes(u[k]) = IF k <= p THEN s[k] ELSE WitnessBytes(i)
      <4>1. CASE k <= p
        <5>1. k \in 1 .. p /\ k \in 1 .. n /\ k # m
            BY <2>6, <4>1
        <5>2. s[k] = WitnessBytes(is[k])
            BY <2>4, <2>18, <5>1 DEF WitnessText
        <5> QED BY <2>15, <4>1, <5>1, <5>2
      <4>2. CASE ~(k <= p)
        <5>1. k = m
            BY <2>6, <4>2
        <5> QED BY <2>15, <4>2, <5>1
      <4> QED BY <4>1, <4>2
    <3> QED BY <2>6, <2>18, <2>19, <3>1
  <2>21. t \in Seq(Seq(Int)) /\ FlattenSeq(t) = FlattenSeq(s) \o WitnessBytes(i)
      BY <2>13, <2>20, WrittenGrows
  <2>22. Stands(raw, a, offset', FlattenSeq(t))
      BY <2>3, <2>7, <2>8, <2>13, <2>18, <2>21, StandsJoin
  <2>23. WitnessText(Len(spend.inputs) - remaining)' = t
    <3>1. Len(spend'.inputs) - remaining' = m
        BY <2>6, <2>7, <2>15, <2>16
    <3> QED BY <2>16, <2>19, <3>1 DEF WitnessText
  <2>24. remaining' <= Len(spend'.inputs) /\ remaining' \in Nat
      BY <2>6, <2>7, <2>15, <2>16
  <2>25. WitnessesRead'
      BY <1>1, <2>3, <2>7, <2>8, <2>17, <2>21, <2>22, <2>23, <2>24 DEF WitnessesRead
  <2>26. ReadingType'
      BY <1>1, <2>7, <2>16, <2>24 DEF ReadingType
  <2> QED BY <2>7, <2>25, <2>26 DEF ParseInv
<1> QED BY <1>2, <1>3

(* The witnesses are all there, and not all of them are empty.             *)
LEMMA WitnessesKept ==
    ASSUME ParseInv, AfterWitness
    PROVE  ParseInv'
<1>1. raw' = raw /\ pc = "witness" /\ remaining = 0 /\ ReadingType /\ WitnessesRead
    BY DEF AfterWitness, Raises, Reads, given, ParseInv
<1>2. CASE Raises("superfluous witness")
    BY <1>1, <1>2, RaisedReading DEF Raises
<1>3. CASE ~Raises("superfluous witness")
  <2>1. HasWitness(spend) /\ pc' = "locktime" /\ UNCHANGED reading /\ marked
      BY <1>1, <1>3 DEF AfterWitness, Reads, WitnessesRead
  <2>2. raw \in Seq(Int) /\ spend \in SpendType
      BY <1>1 DEF ReadingType
  <2>3. Len(spend.inputs) \in Nat
    <3>1. spend.inputs \in Seq(InputType)
        BY <2>2 DEF SpendType
    <3> QED BY <3>1
  <2>4. Len(spend.inputs) - remaining = Len(spend.inputs)
      BY <1>1, <2>3
  <2>5. PICK a \in 0 .. Len(raw) :
            /\ Stands(raw, 0, a, Header \o List(InputsText) \o List(OutputsText))
            /\ Stands(raw, a, offset, FlattenSeq(WitnessText(Len(spend.inputs))))
      BY <1>1, <2>4 DEF WitnessesRead
  <2>6. Stands(raw, 0, offset, Header \o List(InputsText) \o List(OutputsText)
                               \o FlattenSeq(WitnessText(Len(spend.inputs))))
      BY <2>2, <2>5, StandsJoin
  <2>7. AllRead
      BY <2>1, <2>6 DEF AllRead
  <2>8. AllRead'
      BY <1>1, <2>1, <2>7 DEF AllRead, reading, Header, InputsText, OutputsText, WitnessText
  <2>9. ReadingType'
      BY <1>1, <2>1 DEF ReadingType, reading
  <2> QED BY <2>1, <2>8, <2>9 DEF ParseInv
<1> QED BY <1>2, <1>3

(* The locktime is the last digit of the file: what was read is the file.  *)
LEMMA EndRead ==
    ASSUME ParseInv, ReadEnd
    PROVE  ParseInv'
<1>1. raw' = raw /\ pc = "locktime" /\ ReadingType /\ AllRead
    BY DEF ReadEnd, Raises, Reads, given, ParseInv
<1>2. CASE Raises("parse")
    BY <1>1, <1>2, RaisedReading DEF Raises
<1>3. CASE ~Raises("parse")
  <2>1. /\ offset + 1 = Len(raw) /\ pc' = "parsed"
        /\ spend' = [spend EXCEPT !.locktime = raw[offset + 1]]
        /\ remaining' = remaining /\ marked' = marked
      BY <1>3 DEF ReadEnd, Reads
  <2>2. raw \in Seq(Int) /\ spend \in SpendType /\ marked \in BOOLEAN
      BY <1>1 DEF ReadingType
  <2>3. PICK before :
            /\ before = Header \o List(InputsText) \o List(OutputsText)
                        \o (IF marked THEN FlattenSeq(WitnessText(Len(spend.inputs))) ELSE <<>>)
            /\ Stands(raw, 0, offset, before)
      BY <1>1 DEF AllRead
  <2>4. PICK b \in Nat : b = offset + 1 /\ b = Len(raw) /\ offset \in Nat
    <3>1. offset \in Nat
        BY <2>3 DEF Stands
    <3> QED BY <2>1, <3>1
  <2>5. Stands(raw, offset, b, <<raw[b]>>)
      BY <2>2, <2>4, StandsOne
  <2>6. Stands(raw, 0, b, before \o <<raw[b]>>)
      BY <2>2, <2>3, <2>5, StandsJoin
  <2>7. before \o <<raw[b]>> = raw
    <3>1. b \in 1 .. Len(raw)
        BY <2>4
    <3>2. before \o <<raw[b]>> = SubSeq(raw, 1, b)
        BY <2>6 DEF Stands
    <3>3. SubSeq(raw, 1, Len(raw)) = raw
        BY <2>2, SubSeqFull
    <3> QED BY <2>4, <3>2, <3>3
  <2>8. /\ spend' \in SpendType /\ spend'.version = spend.version
        /\ spend'.inputs = spend.inputs /\ spend'.outputs = spend.outputs
        /\ spend'.locktime = raw[b]
    <3>1. raw[b] \in Int
      <4>1. b \in 1 .. Len(raw)
          BY <2>4
      <4> QED BY <2>2, <4>1, ElementOfSeq
    <3> QED BY <2>1, <2>2, <2>4, <3>1 DEF SpendType
  <2>9. HasWitness(spend') <=> marked
      BY <1>1, <2>8 DEF AllRead, HasWitness
  <2>10. WitnessText(Len(spend.inputs))
         = [k \in DOMAIN spend'.inputs |-> WitnessBytes(spend'.inputs[k])]
    <3>1. spend.inputs \in Seq(InputType)
        BY <2>2 DEF SpendType
    <3> QED BY <2>8, <3>1 DEF WitnessText
  <2>11. Serialize(spend', TRUE) = before \o <<raw[b]>>
    <3>1. /\ InputsText = [k \in DOMAIN spend'.inputs |-> InputBytes(spend'.inputs[k])]
          /\ OutputsText = [k \in DOMAIN spend'.outputs |-> OutputBytes(spend'.outputs[k])]
          /\ Header = <<spend'.version>> \o (IF marked THEN <<0, 1>> ELSE <<>>)
        BY <2>8 DEF InputsText, OutputsText, Header
    <3>2. CASE marked
        BY <2>3, <2>8, <2>9, <2>10, <3>1, <3>2 DEF Serialize
    <3>3. CASE ~marked
        BY <2>3, <2>8, <2>9, <3>1, <3>3 DEF Serialize
    <3> QED BY <3>2, <3>3
  <2>12. ReadingType'
      BY <1>1, <2>1, <2>8 DEF ReadingType
  <2> QED BY <1>1, <2>1, <2>7, <2>11, <2>12 DEF ParseInv
<1> QED BY <1>2, <1>3

-----------------------------------------------------------------------------
(* Nothing after the reading touches the file or what was read of it, and  *)
(* nothing goes back to reading.                                           *)
PastReading ==
    /\ raw' = raw /\ UNCHANGED reading
    /\ pc' \notin {"header", "inputs", "outputs", "witness", "locktime", "parsed"}

(* Running the script.                                                     *)
LEMMA ExecutePast ==
    ASSUME Execute
    PROVE  PastReading
<1>1. CASE Unlock
    BY <1>1 DEF Unlock, Raises, given, PastReading
<1>2. CASE PushData
    BY <1>2 DEF PushData, Continues, given, PastReading
<1>3. CASE PushSmall
    BY <1>3 DEF PushSmall, Continues, given, PastReading
<1>4. CASE DupTop
    BY <1>4 DEF DupTop, Raises, Continues, Replaces, Executes, given, PastReading
<1>5. CASE OverTop
    BY <1>5 DEF OverTop, Raises, Continues, Replaces, Executes, given, PastReading
<1>6. CASE SwapTop
    BY <1>6 DEF SwapTop, Raises, Continues, Replaces, Executes, given, PastReading
<1>7. CASE AddTop
    BY <1>7 DEF AddTop, Raises, Continues, Replaces, Executes, given, PastReading
<1>8. CASE MinTop
    BY <1>8 DEF MinTop, Raises, Continues, Replaces, Executes, given, PastReading
<1>9. CASE HashTop160
    BY <1>9 DEF HashTop160, Raises, Continues, Replaces, Executes, given, PastReading
<1>10. CASE HashTop256
    BY <1>10 DEF HashTop256, Raises, Continues, Replaces, Executes, given, PastReading
<1>11. CASE RollTop
    BY <1>11 DEF RollTop, Raises, Continues, Executes, given, PastReading
<1>12. CASE EqualTop
    BY <1>12 DEF EqualTop, Raises, Continues, Executes, given, PastReading
<1>13. CASE CheckSigTop
    BY <1>13 DEF CheckSigTop, Raises, Continues, Executes, given, PastReading
<1>14. CASE MultisigTop
    BY <1>14 DEF MultisigTop, Raises, Continues, Executes, given, PastReading
<1>15. CASE Unsupported
    BY <1>15 DEF Unsupported, Raises, given, PastReading
<1>16. CASE Finish
    BY <1>16 DEF Finish, Raises, given, PastReading
<1> QED BY <1>1, <1>2, <1>3, <1>4, <1>5, <1>6, <1>7, <1>8, <1>9, <1>10, <1>11, <1>12,
           <1>13, <1>14, <1>15, <1>16 DEF Execute

(* The invariant of the parser is kept by every step.                      *)
LEMMA ParseStep ==
    ASSUME ParseInv, [Next]_vars
    PROVE  ParseInv'
<1>1. CASE Parse
    BY <1>1, HeaderRead, InputKept, OutputsCounted, OutputKept, OutputsKept, WitnessKept,
       WitnessesKept, EndRead DEF Parse
<1>2. CASE CheckTxid
  <2>1. PastReading
      BY <1>2 DEF CheckTxid, Raises, Reads, given, PastReading
  <2> QED BY <2>1, RaisedReading DEF PastReading
<1>3. CASE Baseline
  <2>1. PastReading
      BY <1>3 DEF Baseline, FoldSibling, CheckInclusion, NativeVerdicts, Raises, given, PastReading
  <2> QED BY <2>1, RaisedReading DEF PastReading
<1>4. CASE ParsePrefix \/ ParseTables \/ ParseChecks
  <2>1. PastReading
      BY <1>4 DEF ParsePrefix, ParseTables, ParseChecks, Raises, given, PastReading
  <2> QED BY <2>1, RaisedReading DEF PastReading
<1>5. CASE Execute
    BY <1>5, ExecutePast, RaisedReading DEF PastReading
<1>6. CASE Validate
  <2>1. PastReading
      BY <1>6 DEF Validate, Raises, given, PastReading
  <2> QED BY <2>1, RaisedReading DEF PastReading
<1>7. CASE UNCHANGED vars
  <2>1. /\ raw' = raw /\ offset' = offset /\ remaining' = remaining /\ marked' = marked
        /\ spend' = spend /\ pc' = pc
      BY <1>7 DEF vars, given, reading
  <2> QED BY <2>1 DEF ParseInv, ReadingType, NothingRead, InputsRead, OutputsRead,
                      WitnessesRead, AllRead, Unwitnessed, Header, InputsText, OutputsText,
                      WitnessText
<1> QED BY <1>1, <1>2, <1>3, <1>4, <1>5, <1>6, <1>7 DEF Next

-----------------------------------------------------------------------------
(* Digits are numbers.                                                     *)
LEMMA DigitsType ==
    ASSUME NEW n \in Nat, NEW w \in 0 .. 10
    PROVE  Digits(n, w) \in Seq(Int)
<1>1. ASSUME NEW i \in 1 .. w PROVE (n \div Place[i - 1]) % Radix \in Int
  <2>1. PICK p \in Nat : p = Place[i - 1] /\ p # 0
    <3>1. i - 1 \in 0 .. 9
        OBVIOUS
    <3> QED BY <3>1, PlaceIs
  <2>2. Radix \in Nat /\ Radix # 0
      BY HugeType
  <2>3. PICK q \in Nat : q = n \div p
      BY <2>1, DivMod
  <2>4. q % Radix \in Nat
      BY <2>2
  <2> QED BY <2>1, <2>3, <2>4
<1> QED BY <1>1 DEF Digits

(* Every size is a few digits.                                             *)
LEMMA CompactType ==
    ASSUME NEW n \in Nat
    PROVE  Compact(n) \in Seq(Int)
<1>1. CASE n < Marker(1)
    BY <1>1 DEF Compact
<1>2. CASE ~(n < Marker(1))
  <2> DEFINE wide == {3} \union {i \in 1 .. 2 : n < Place[2 ^ i]}
  <2>1. Compact(n) = <<Marker(Min(wide))>> \o Digits(n, 2 ^ Min(wide))
      BY <1>2 DEF Compact
  <2>2. wide \in SUBSET Nat /\ wide # {} /\ wide \subseteq 1 .. 3
      OBVIOUS
  <2> HIDE DEF wide
  <2>3. PICK k \in 1 .. 3 : k = Min(wide)
    <3>1. PICK m \in wide : \A i \in wide : m <= i
        BY <2>2, LeastMember
    <3>2. Min(wide) = CHOOSE x \in wide : \A y \in wide : x <= y
        BY DEF Min
    <3>3. Min(wide) \in wide
        BY <3>1, <3>2
    <3> QED BY <2>2, <3>3
  <2>4. 2 ^ k \in 0 .. 10
    <3>1. k = 1 \/ k = 2 \/ k = 3
        OBVIOUS
    <3>2. CASE k = 1
        BY <3>2
    <3>3. CASE k = 2
        BY <3>3
    <3>4. CASE k = 3
        BY <3>4
    <3> QED BY <3>1, <3>2, <3>3, <3>4
  <2>5. Digits(n, 2 ^ k) \in Seq(Int)
      BY <2>4, DigitsType
  <2>6. Marker(k) \in Int
      BY HugeType DEF Marker
  <2> QED BY <2>1, <2>3, <2>5, <2>6
<1> QED BY <1>1, <1>2

(* So is a string with its size, and a list with its count.                *)
LEMMA BlobType ==
    ASSUME NEW b \in Seq(Int)
    PROVE  Blob(b) \in Seq(Int)
<1>1. Compact(Len(b)) \in Seq(Int)
  <2>1. Len(b) \in Nat
      OBVIOUS
  <2> QED BY <2>1, CompactType
<1> QED BY <1>1 DEF Blob

(* A list of texts.                                                        *)
LEMMA ListType ==
    ASSUME NEW s \in Seq(Seq(Int))
    PROVE  List(s) \in Seq(Int)
<1>1. Compact(Len(s)) \in Seq(Int)
  <2>1. Len(s) \in Nat
      OBVIOUS
  <2> QED BY <2>1, CompactType
<1>2. FlattenSeq(s) \in Seq(Int)
    BY FlattenType
<1> QED BY <1>1, <1>2 DEF List

(* The value of digits is no negative number.                              *)
LEMMA ValueNatural ==
    ASSUME NEW b \in Seq(Nat)
    PROVE  Value(b) \in Nat
<1>0. b \in Seq(Int) /\ Radix \in Nat /\ Huge \in Nat
    BY HugeType
<1>1. PICK f : /\ Value(b) = f[Len(b)] /\ f[0] = 0
               /\ \A k \in 1 .. Len(b) :
                     f[k] = Min({Huge, b[Len(b) - k + 1] + Radix * f[k - 1]})
    BY <1>0, ValueSteps
<1> DEFINE Bad == {k \in 0 .. Len(b) : f[k] \notin Nat}
<1>2. CASE Bad # {}
  <2>0. Bad \in SUBSET Nat
      OBVIOUS
  <2>1. PICK m \in Bad : \A k \in Bad : m <= k
      BY <1>2, <2>0, LeastMember
  <2>2. m # 0
      BY <1>1, <2>1
  <2>3. PICK p \in 0 .. Len(b) : m = p + 1
    <3>1. m - 1 \in 0 .. Len(b)
        BY <2>1, <2>2
    <3> QED BY <3>1
  <2>4. f[p] \in Nat
      BY <2>1, <2>3
  <2>5. m \in 1 .. Len(b) /\ m - 1 = p /\ Len(b) - m + 1 \in 1 .. Len(b)
      BY <2>1, <2>2, <2>3
  <2>6. PICK x \in Nat : x = b[Len(b) - m + 1] + Radix * f[p]
    <3>1. PICK d \in Nat, v \in Nat : d = b[Len(b) - m + 1] /\ v = f[p]
        BY <2>4, <2>5
    <3>2. Radix * v \in Nat
        BY <1>0
    <3>3. d + Radix * v \in Nat
        BY <3>2
    <3> QED BY <3>1, <3>3
  <2>7. f[m] = Min({Huge, x})
      BY <1>1, <2>5, <2>6
  <2>8. f[m] \in Nat
      BY <1>0, <2>7, MinTwo
  <2> QED BY <2>1, <2>8
<1>3. CASE Bad = {}
  <2>1. Len(b) \in 0 .. Len(b) /\ Len(b) \notin Bad
      BY <1>3
  <2> QED BY <1>1, <2>1
<1> QED BY <1>2, <1>3

(* A script number is one that can be told apart.                          *)
LEMMA ScriptNumType ==
    ASSUME NEW e \in Seq(Digit)
    PROVE  ScriptNum(e) \in Int /\ ScriptNum(e) <= Huge
<1>0. Radix \in Nat /\ Radix % 2 = 0 /\ Huge \in Nat /\ e \in Seq(Nat) /\ e \in Seq(Int)
    BY HugeType, CodecAssumption DEF Digit
<1>1. CASE e = <<>>
    BY <1>0, <1>1 DEF ScriptNum
<1>2. CASE e # <<>> /\ Last(e) >= Sign
  <2> DEFINE b == [e EXCEPT ![Len(e)] = @ - Sign]
  <2>1. Sign \in Nat
      BY <1>0 DEF Sign
  <2>2. e[Len(e)] - Sign \in Nat
    <3>1. Len(e) \in 1 .. Len(e)
        BY <1>2
    <3>2. e[Len(e)] \in Nat
        BY <1>0, <3>1
    <3> QED BY <1>2, <2>1, <3>2 DEF Last
  <2>3. b \in Seq(Nat)
    <3>1. PICK x \in Nat : x = e[Len(e)] - Sign
        BY <2>2
    <3>2. Len(e) \in 1 .. Len(e)
        BY <1>2
    <3>3. b = [e EXCEPT ![Len(e)] = x]
        BY <3>1, <3>2
    <3> HIDE DEF b
    <3> QED BY <1>0, <3>2, <3>3, ExceptSeq
  <2>4. Value(b) \in Nat
      BY <2>3, ValueNatural
  <2>5. ScriptNum(e) = -Value(b)
      BY <1>2 DEF ScriptNum
  <2> HIDE DEF b
  <2> QED BY <1>0, <2>4, <2>5
<1>3. CASE e # <<>> /\ ~(Last(e) >= Sign)
  <2>1. ScriptNum(e) = Value(e)
      BY <1>3 DEF ScriptNum
  <2> QED BY <1>0, <2>1, ValueType
<1> QED BY <1>1, <1>2, <1>3

(* A push, of data or of a number.                                         *)
LEMMA PushType ==
    ASSUME NEW b \in Seq(Int)
    PROVE  Push(b) \in Seq(Int)
<1>1. Direct \in Int /\ Len(b) \in Nat
    BY CodecAssumption
<1>2. Digits(Len(b), 2) \in Seq(Int)
  <2>1. 2 \in 0 .. 10
      OBVIOUS
  <2> QED BY <1>1, <2>1, DigitsType
<1> QED BY <1>1, <1>2 DEF Push

(* A number is pushed by its own opcode or as its digits.                  *)
LEMMA PushNumType ==
    ASSUME NEW n \in Int, n <= Huge
    PROVE  PushNum(n) \in Seq(Int)
<1>1. SmallMax \in Nat /\ Radix \in Nat /\ Huge < Place[9] /\ Huge \in Nat
    BY CodecAssumption, HugeType
<1>2. CASE n = 0
    BY <1>2 DEF PushNum
<1>3. CASE n # 0 /\ n <= SmallMax
    BY <1>1, <1>3 DEF PushNum, SmallOp, Op
<1>4. CASE n # 0 /\ ~(n <= SmallMax)
  <2> DEFINE T == {w \in 1 .. 9 : n < Place[w]}
  <2>1. n \in Nat /\ n < Place[9]
    <3>1. PICK p \in Nat : p = Place[9]
        BY PlaceIs
    <3> QED BY <1>1, <1>4, <3>1
  <2>2. T \in SUBSET Nat /\ T # {} /\ T \subseteq 1 .. 9
    <3>1. 9 \in T
        BY <2>1
    <3> QED BY <3>1
  <2> HIDE DEF T
  <2>3. PICK w \in 1 .. 9 : w = Width(n)
    <3>1. PICK m \in T : \A i \in T : m <= i
        BY <2>2, LeastMember
    <3>2. Width(n) = CHOOSE x \in T : \A y \in T : x <= y
        BY DEF Width, Min, T
    <3>3. Width(n) \in T
        BY <3>1, <3>2
    <3> QED BY <2>2, <3>3
  <2>4. Digits(n, w) \in Seq(Int)
    <3>1. w \in 0 .. 10
        OBVIOUS
    <3> QED BY <2>1, <3>1, DigitsType
  <2>5. Positive(n) \in Seq(Int)
      BY <2>3, <2>4 DEF Positive
  <2> QED BY <1>4, <2>5, PushType DEF PushNum
<1> QED BY <1>2, <1>3, <1>4

-----------------------------------------------------------------------------
(* The scriptSig of a stack of byte strings.                               *)
LEMMA ScriptSigType ==
    ASSUME NEW w \in Seq(Seq(Digit))
    PROVE  ScriptSig(w) \in Seq(Int)
<1>1. ASSUME NEW k \in 1 .. Len(w) PROVE SpendPush(w[k]) \in Seq(Int)
  <2>1. w[k] \in Seq(Digit) /\ w[k] \in Seq(Int)
    <3>1. PICK e \in Seq(Digit) : e = w[k]
        BY ElementOfSeq
    <3>2. e \in Seq(Int)
        BY CodecAssumption DEF Digit
    <3> QED BY <3>1, <3>2
  <2>2. PushNum(ScriptNum(w[k])) \in Seq(Int)
      BY <2>1, ScriptNumType, PushNumType
  <2>3. Push(w[k]) \in Seq(Int)
      BY <2>1, PushType
  <2> QED BY <2>2, <2>3 DEF SpendPush
<1>2. [k \in DOMAIN w |-> SpendPush(w[k])] \in Seq(Seq(Int))
    BY <1>1
<1> QED BY <1>2, FlattenType DEF ScriptSig

(* The published transaction is written as numbers, with its witness or    *)
(* without.                                                                *)
LEMMA PinnedType ==
    ASSUME NEW w \in Seq(Seq(Digit)), NEW witness \in BOOLEAN
    PROVE  /\ Serialize(Pinned(w), witness) \in Seq(Int)
           /\ Len(Serialize(Pinned(w), witness)) > 1
<1> DEFINE tx == Pinned(w)
<1> DEFINE extended == witness /\ HasWitness(tx)
<1>1. /\ DOMAIN tx.inputs = 1 .. 2 /\ DOMAIN tx.outputs = 1 .. 1
      /\ tx.inputs[1].script = <<>> /\ tx.inputs[2].script = ScriptSig(w)
      /\ tx.inputs[1].witness = <<<<1, 2>>, <<3>>>> /\ tx.inputs[2].witness = <<>>
      /\ tx.outputs[1].script = <<1>>
      /\ \A k \in 1 .. 2 : /\ tx.inputs[k].txid \in Int /\ tx.inputs[k].vout \in Int
                           /\ tx.inputs[k].sequence \in Int
      /\ tx.outputs[1].value \in Int
      /\ tx.version \in Int /\ tx.locktime \in Int
    BY DEF Pinned
<1> HIDE DEF tx
<1>2. ASSUME NEW k \in 1 .. 2 PROVE InputBytes(tx.inputs[k]) \in Seq(Int)
  <2>1. tx.inputs[k].script \in Seq(Int)
    <3>1. tx.inputs[1].script \in Seq(Int) /\ tx.inputs[2].script \in Seq(Int)
      <4>1. ScriptSig(w) \in Seq(Int) /\ <<>> \in Seq(Int)
          BY ScriptSigType
      <4> QED BY <1>1, <4>1
    <3>2. k = 1 \/ k = 2
        OBVIOUS
    <3> QED BY <3>1, <3>2
  <2>2. Blob(tx.inputs[k].script) \in Seq(Int)
      BY <2>1, BlobType
  <2>3. /\ <<tx.inputs[k].txid, tx.inputs[k].vout>> \in Seq(Int)
        /\ <<tx.inputs[k].sequence>> \in Seq(Int)
      BY <1>1
  <2> QED BY <2>2, <2>3 DEF InputBytes
<1>3. ASSUME NEW k \in 1 .. 1 PROVE OutputBytes(tx.outputs[k]) \in Seq(Int)
  <2>1. k = 1
      OBVIOUS
  <2>2. <<1>> \in Seq(Int)
      OBVIOUS
  <2>3. Blob(tx.outputs[k].script) \in Seq(Int)
      BY <1>1, <2>1, <2>2, BlobType
  <2>4. <<tx.outputs[k].value>> \in Seq(Int)
      BY <1>1, <2>1
  <2> QED BY <2>3, <2>4 DEF OutputBytes
<1>4. ASSUME NEW k \in 1 .. 2 PROVE WitnessBytes(tx.inputs[k]) \in Seq(Int)
  <2> DEFINE s == tx.inputs[k].witness
  <2>1. s \in Seq(Seq(Int))
    <3>1. tx.inputs[1].witness \in Seq(Seq(Int)) /\ tx.inputs[2].witness \in Seq(Seq(Int))
      <4>3. <<1, 2>> \in Seq(Int) /\ <<3>> \in Seq(Int)
          OBVIOUS
      <4>1. PICK x \in Seq(Int), y \in Seq(Int) : x = <<1, 2>> /\ y = <<3>>
          BY <4>3
      <4>2. <<x, y>> \in Seq(Seq(Int)) /\ <<>> \in Seq(Seq(Int))
          OBVIOUS
      <4> QED BY <1>1, <4>1, <4>2
    <3>2. k = 1 \/ k = 2
        OBVIOUS
    <3> QED BY <3>1, <3>2
  <2> HIDE DEF s
  <2>2. ASSUME NEW i \in 1 .. Len(s) PROVE Blob(s[i]) \in Seq(Int)
    <3>1. s[i] \in Seq(Int)
        BY <2>1, ElementOfSeq
    <3> QED BY <3>1, BlobType
  <2>3. [i \in DOMAIN s |-> Blob(s[i])] \in Seq(Seq(Int))
    <3>1. DOMAIN s = 1 .. Len(s) /\ Len(s) \in Nat
        BY <2>1
    <3> QED BY <2>2, <3>1
  <2>4. List([i \in DOMAIN s |-> Blob(s[i])]) \in Seq(Int)
      BY <2>3, ListType
  <2> QED BY <2>4 DEF WitnessBytes, s
<1>5. List([k \in DOMAIN tx.inputs |-> InputBytes(tx.inputs[k])]) \in Seq(Int)
  <2>1. [k \in 1 .. 2 |-> InputBytes(tx.inputs[k])] \in Seq(Seq(Int))
      BY <1>2
  <2> QED BY <1>1, <2>1, ListType
<1>6. List([k \in DOMAIN tx.outputs |-> OutputBytes(tx.outputs[k])]) \in Seq(Int)
  <2>1. [k \in 1 .. 1 |-> OutputBytes(tx.outputs[k])] \in Seq(Seq(Int))
      BY <1>3
  <2> QED BY <1>1, <2>1, ListType
<1>7. FlattenSeq([k \in DOMAIN tx.inputs |-> WitnessBytes(tx.inputs[k])]) \in Seq(Int)
  <2>1. [k \in 1 .. 2 |-> WitnessBytes(tx.inputs[k])] \in Seq(Seq(Int))
      BY <1>4
  <2> QED BY <1>1, <2>1, FlattenType
<1> DEFINE start == <<tx.version>> \o (IF extended THEN <<0, 1>> ELSE <<>>)
<1> DEFINE is == List([k \in DOMAIN tx.inputs |-> InputBytes(tx.inputs[k])])
<1> DEFINE os == List([k \in DOMAIN tx.outputs |-> OutputBytes(tx.outputs[k])])
<1> DEFINE ws == IF extended
                 THEN FlattenSeq([k \in DOMAIN tx.inputs |-> WitnessBytes(tx.inputs[k])])
                 ELSE <<>>
<1>8. start \in Seq(Int) /\ Len(start) >= 1
    BY <1>1
<1>9. is \in Seq(Int) /\ os \in Seq(Int) /\ ws \in Seq(Int) /\ <<tx.locktime>> \in Seq(Int)
    BY <1>1, <1>5, <1>6, <1>7
<1>10. Serialize(tx, witness) = start \o is \o os \o ws \o <<tx.locktime>>
    BY DEF Serialize
<1> HIDE DEF start, is, os, ws
<1>11. start \o is \in Seq(Int) /\ Len(start \o is) >= 1
    BY <1>8, <1>9
<1>12. start \o is \o os \in Seq(Int) /\ Len(start \o is \o os) >= 1
    BY <1>9, <1>11
<1>13. start \o is \o os \o ws \in Seq(Int) /\ Len(start \o is \o os \o ws) >= 1
    BY <1>9, <1>12
<1>14. Serialize(tx, witness) \in Seq(Int) /\ Len(Serialize(tx, witness)) > 1
    BY <1>9, <1>10, <1>13
<1> QED BY <1>14 DEF tx

(* A damaged file is a file still.                                         *)
LEMMA DamagedType ==
    ASSUME NEW w \in Seq(Seq(Digit)), NEW d \in Damaged(w)
    PROVE  d \in Seq(Int)
<1>1. PICK f \in Seq(Int), s \in Seq(Int) :
          f = File(w) /\ s = Txid(Pinned(w)) /\ Len(f) > 1 /\ Len(s) > 1
    BY PinnedType DEF File, Txid
<1>2. PICK m \in Int : m = Marker(1)
    BY HugeType DEF Marker
<1>3. \A a \in 1 .. Len(f) + 1, b \in 0 .. Len(f) : SubSeq(f, a, b) \in Seq(Int)
  <2>1. ASSUME NEW a \in 1 .. Len(f) + 1, NEW b \in 0 .. Len(f) PROVE SubSeq(f, a, b) \in Seq(Int)
    <3>1. \A i \in a .. b : f[i] \in Int
        BY ElementOfSeq
    <3> QED BY <3>1, SubSeqProperties
  <2> QED BY <2>1
<1>4. ASSUME NEW k \in DOMAIN f
      PROVE  /\ SubSeq(f, 1, k - 1) \in Seq(Int) /\ SubSeq(f, k + 1, Len(f)) \in Seq(Int)
             /\ SubSeq(f, k, Len(f)) \in Seq(Int) /\ f[k] \in Int /\ k \in 1 .. Len(f)
  <2>1. /\ 1 \in 1 .. Len(f) + 1 /\ k - 1 \in 0 .. Len(f)
        /\ k + 1 \in 1 .. Len(f) + 1 /\ Len(f) \in 0 .. Len(f) /\ k \in 1 .. Len(f) + 1
      OBVIOUS
  <2> QED BY <1>3, <2>1, ElementOfSeq
<1>5. CASE \E k \in DOMAIN f : d = RemoveAt(f, k)
    BY <1>4, <1>5, SMTT(30) DEF RemoveAt
<1>6. CASE \E k \in DOMAIN f : d = InsertAt(f, k, f[k])
  <2>1. PICK k \in DOMAIN f : d = InsertAt(f, k, f[k])
      BY <1>6
  <2>2. <<f[k]>> \in Seq(Int)
      BY <1>4
  <2>3. PICK x \in Seq(Int), y \in Seq(Int) :
            x = SubSeq(f, 1, k - 1) /\ y = SubSeq(f, k, Len(f))
      BY <1>4
  <2>4. d = x \o <<f[k]>> \o y
      BY <2>1, <2>3 DEF InsertAt
  <2> QED BY <2>2, <2>3, <2>4, SMTT(30)
<1>7. CASE \E k \in DOMAIN f, e \in {0, 1, m} : d = [f EXCEPT ![k] = e]
    BY <1>7, ExceptSeq
<1>8. CASE \E k \in DOMAIN f :
              d = SubSeq(f, 1, k - 1) \o <<m, f[k], 0>> \o SubSeq(f, k + 1, Len(f))
  <2>1. PICK k \in DOMAIN f :
            d = SubSeq(f, 1, k - 1) \o <<m, f[k], 0>> \o SubSeq(f, k + 1, Len(f))
      BY <1>8
  <2>2. <<m, f[k], 0>> \in Seq(Int)
      BY <1>4
  <2>3. PICK x \in Seq(Int), y \in Seq(Int) :
            x = SubSeq(f, 1, k - 1) /\ y = SubSeq(f, k + 1, Len(f))
      BY <1>4
  <2>4. PICK z \in Seq(Int) : z = <<m, f[k], 0>>
      BY <2>2
  <2>5. x \o z \in Seq(Int)
      OBVIOUS
  <2>6. (x \o z) \o y \in Seq(Int)
      BY <2>5
  <2> QED BY <2>1, <2>3, <2>4, <2>6
<1>9. CASE d = s
    BY <1>9
<1>10. CASE d = <<Head(s), 0, 1>> \o Tail(Front(s)) \o <<0, 0, Last(s)>>
  <2>1. Head(s) \in Int /\ Last(s) \in Int
    <3>1. 1 \in 1 .. Len(s) /\ Len(s) \in 1 .. Len(s) /\ s # <<>>
        BY <1>1
    <3>2. Head(s) = s[1] /\ Last(s) = s[Len(s)]
        BY <3>1 DEF Last
    <3> QED BY <3>1, <3>2, ElementOfSeq
  <2>2. Front(s) \in Seq(Int) /\ Front(s) # <<>>
    <3>1. PICK n \in Nat : Len(s) = n + 1 /\ n # 0
      <4>1. PICK l \in Nat : l = Len(s) /\ l > 1
          BY <1>1
      <4>2. PICK p \in Nat : p = l - 1
        <5>1. l - 1 \in Nat
            BY <4>1
        <5> QED BY <5>1
      <4>3. l = p + 1
          BY <4>2
      <4>4. p # 0
          BY <4>1, <4>3
      <4> QED BY <4>1, <4>3, <4>4
    <3>2. Front(s) = SubSeq(s, 1, n)
        BY <3>1 DEF Front
    <3>3. \A i \in 1 .. n : s[i] \in Int
        BY <3>1, ElementOfSeq
    <3>4. SubSeq(s, 1, n) \in Seq(Int) /\ Len(SubSeq(s, 1, n)) = n
        BY <3>1, <3>3, SubSeqProperties
    <3>5. Len(<<>>) = 0
        OBVIOUS
    <3> QED BY <3>1, <3>2, <3>4, <3>5
  <2>3. Tail(Front(s)) \in Seq(Int)
      BY <2>2
  <2>4. <<Head(s), 0, 1>> \in Seq(Int) /\ <<0, 0, Last(s)>> \in Seq(Int)
      BY <2>1
  <2> QED BY <1>10, <2>3, <2>4
<1> DEFINE Lost == {RemoveAt(f, k) : k \in DOMAIN f}
<1> DEFINE Doubled == {InsertAt(f, k, f[k]) : k \in DOMAIN f}
<1> DEFINE Changed == {[f EXCEPT ![k] = e] : k \in DOMAIN f, e \in {0, 1, m}}
<1> DEFINE Longer == {SubSeq(f, 1, k - 1) \o <<m, f[k], 0>> \o SubSeq(f, k + 1, Len(f))
                      : k \in DOMAIN f}
<1>11. Damaged(w) = Lost \union Doubled \union Changed \union Longer
                   \union {s, <<Head(s), 0, 1>> \o Tail(Front(s)) \o <<0, 0, Last(s)>>}
    BY <1>1, <1>2 DEF Damaged
<1>12. d \in Lost \/ d \in Doubled \/ d \in Changed \/ d \in Longer
      \/ d = s \/ d = <<Head(s), 0, 1>> \o Tail(Front(s)) \o <<0, 0, Last(s)>>
  <2> HIDE DEF Lost, Doubled, Changed, Longer
  <2> QED BY <1>11
<1>13. CASE d \in Lost
    BY <1>5, <1>13
<1>14. CASE d \in Doubled
    BY <1>6, <1>14
<1>15. CASE d \in Changed
    BY <1>7, <1>15
<1>16. CASE d \in Longer
    BY <1>8, <1>16
<1> HIDE DEF Lost, Doubled, Changed, Longer
<1> QED BY <1>9, <1>10, <1>12, <1>13, <1>14, <1>15, <1>16

(* Whatever file the command is given, it starts with nothing read.        *)
LEMMA ParseInit == Init => ParseInv
<1> SUFFICES ASSUME Init PROVE ParseInv
    OBVIOUS
<1>1. \A w \in Witnesses \union {Honest} : w \in Seq(Seq(Digit))
    BY WitnessAssumption
<1>2. /\ unlocking \in Witnesses \union {Honest}
      /\ raw = File(unlocking) \/ raw \in Damaged(Honest)
    BY DEF Init, InitBaseline, InitPhase3
<1>3. raw \in Seq(Int)
    BY <1>1, <1>2, PinnedType, DamagedType DEF File
<1>4. spend = [version |-> 0, inputs |-> <<>>, outputs |-> <<>>, locktime |-> 0]
    BY DEF Init
<1>5. spend \in SpendType /\ NothingRead
    BY <1>4 DEF SpendType, NothingRead
<1>6. pc = "header" /\ remaining = 0 /\ marked = FALSE
    BY DEF Init
<1> QED BY <1>3, <1>5, <1>6 DEF ParseInv, ReadingType

-----------------------------------------------------------------------------
(* At every stage, what the parser read of a file is what it would write   *)
(* of the transaction read (bitcoin.py:38-160).                            *)
THEOREM ParseInvariance == Spec => []ParseInv
<1>1. Init => ParseInv
    BY ParseInit
<1>2. ParseInv /\ [Next]_vars => ParseInv'
    BY ParseStep
<1> QED BY <1>1, <1>2, PTL DEF Spec

(* Hence no two files are read as the same transaction: for every stack of *)
(* byte strings, every damage to the file and every radix, what is parsed  *)
(* serializes to the very file.                                            *)
THEOREM ParsingExact == Spec => []ParsedIsCanonical
<1>1. ParseInv => ParsedIsCanonical
    BY DEF ParseInv, ParsedIsCanonical
<1> QED BY <1>1, ParseInvariance, PTL
=============================================================================
