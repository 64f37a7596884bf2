------------------------- MODULE PinHandoffProofs -------------------------
(***************************************************************************)
(* The two pinning searches, for any counter space, limits, clock, oracle, *)
(* set of recovery ids and keys that cannot be computed: the counters they *)
(* hash, the passes they report, the hit they keep and those they miss.    *)
(*                                                                         *)
(* What a search has met is the passes of its counters one after another,  *)
(* a recursive function of their number.  The lemmas about it argue by the *)
(* least number for which they would fail.                                 *)
(***************************************************************************)
EXTENDS PinHandoff, FiniteSetTheorems, TLAPS

USE SpaceAssumption, BudgetAssumption

-----------------------------------------------------------------------------
(* A nonempty set of naturals has a least member.                          *)
LEMMA LeastMember ==
    ASSUME NEW T \in SUBSET Nat, T # {}
    PROVE  \E m \in T : \A n \in T : m <= n
<1> DEFINE R == OpToRel(<, Nat)
<1>1. IsWellFoundedOn(R, Nat)
    BY NatLessThanWellFounded
<1>2. \A n, m \in T : <<n, m>> \in R <=> n < m
    BY DEF OpToRel
<1> HIDE DEF R
<1>3. PICK m \in T : \A n \in T : ~(<<n, m>> \in R)
    BY <1>1, WFMin
<1>4. \A n \in T : ~(n < m)
    BY <1>2, <1>3
<1>5. \A n \in T : m <= n
    BY <1>4
<1> QED BY <1>5

-----------------------------------------------------------------------------
(* f[i] is the first i of the sequences seqs, one after another.           *)
Flattens(seqs, n, f) ==
    f = [i \in 1 .. n |-> IF i = 1 THEN seqs[i] ELSE f[i - 1] \o seqs[i]]

(* FlattenSeq is the last of those.                                        *)
LEMMA FlattenIs ==
    ASSUME NEW seqs, Len(seqs) # 0
    PROVE  FlattenSeq(seqs) = (CHOOSE f : Flattens(seqs, Len(seqs), f))[Len(seqs)]
BY DEF FlattenSeq, Flattens

(* There is such a function, or a least n for which there is none.         *)
LEMMA FlattenExists ==
    ASSUME NEW seqs, NEW n \in Nat
    PROVE  \E f : Flattens(seqs, n, f)
<1> DEFINE Bad == {k \in Nat : ~\E f : Flattens(seqs, k, f)}
<1>1. CASE Bad # {}
  <2>1. PICK m \in Bad : \A k \in Bad : m <= k
      BY <1>1, LeastMember
  <2>2. m # 0
    <3>1. Flattens(seqs, 0, [i \in 1 .. 0 |-> i])
        BY DEF Flattens
    <3> QED BY <2>1, <3>1
  <2>3. PICK f : Flattens(seqs, m - 1, f)
      BY <2>1, <2>2
  <2>4. \A i \in 1 .. m - 1 : f[i] = IF i = 1 THEN seqs[i] ELSE f[i - 1] \o seqs[i]
      BY <2>3 DEF Flattens
  <2> DEFINE g == [i \in 1 .. m |-> IF i = 1 THEN seqs[i] ELSE f[i - 1] \o seqs[i]]
  <2>5. ASSUME NEW i \in 1 .. m - 1 PROVE g[i] = f[i]
      BY <2>4, <2>5
  <2>7. m \in Nat /\ m - 1 \in Nat
      BY <2>1, <2>2
  <2>6. g = [i \in 1 .. m |-> IF i = 1 THEN seqs[i] ELSE g[i - 1] \o seqs[i]]
    <3>1. ASSUME NEW i \in 1 .. m
          PROVE (IF i = 1 THEN seqs[i] ELSE f[i - 1] \o seqs[i])
                = (IF i = 1 THEN seqs[i] ELSE g[i - 1] \o seqs[i])
      <4>1. CASE i = 1
          BY <4>1
      <4>2. CASE i # 1
        <5>1. i - 1 \in 1 .. m - 1
            BY <4>2, <2>7, <3>1
        <5>2. g[i - 1] = f[i - 1]
            BY <5>1, <2>5
        <5> QED BY <4>2, <5>2
      <4> QED BY <4>1, <4>2
    <3> QED BY <3>1
  <2> HIDE DEF g
  <2>8. Flattens(seqs, m, g)
      BY <2>6 DEF Flattens
  <2> QED BY <2>1, <2>8
<1> QED BY <1>1

(* On their common part two lists of sequences are flattened alike.        *)
LEMMA FlattenAgree ==
    ASSUME NEW s, NEW t, NEW f, NEW g, NEW n \in Nat, NEW m \in Nat, n <= m,
           Flattens(s, n, f), Flattens(t, m, g), \A i \in 1 .. n : s[i] = t[i]
    PROVE  \A i \in 1 .. n : f[i] = g[i]
<1>1. \A i \in 1 .. n : f[i] = IF i = 1 THEN s[i] ELSE f[i - 1] \o s[i]
    BY DEF Flattens
<1>2. \A i \in 1 .. m : g[i] = IF i = 1 THEN t[i] ELSE g[i - 1] \o t[i]
    BY DEF Flattens
<1> DEFINE Bad == {i \in 1 .. n : f[i] # g[i]}
<1>3. CASE Bad # {}
  <2>0. Bad \in SUBSET Nat
      OBVIOUS
  <2>1. PICK b \in Bad : \A k \in Bad : b <= k
      BY <1>3, <2>0, LeastMember
  <2>2. b \in 1 .. n /\ b \in 1 .. m /\ s[b] = t[b]
      BY <2>1
  <2>3. b # 1
      BY <1>1, <1>2, <2>1, <2>2
  <2>4. b - 1 \in 1 .. n /\ b - 1 \notin Bad
      BY <2>1, <2>2, <2>3
  <2>5. f[b - 1] = g[b - 1]
      BY <2>4
  <2>6. f[b] = f[b - 1] \o s[b] /\ g[b] = g[b - 1] \o t[b]
      BY <1>1, <1>2, <2>2, <2>3
  <2> QED BY <2>1, <2>2, <2>5, <2>6
<1> QED BY <1>3

(* One more sequence goes after what the others give.                      *)
LEMMA FlattenNext ==
    ASSUME NEW s, NEW t, NEW n \in Nat, NEW m \in Nat, n # 0, m = n + 1,
           Len(s) = n, Len(t) = m, \A i \in 1 .. n : s[i] = t[i]
    PROVE  FlattenSeq(t) = FlattenSeq(s) \o t[m]
<1>1. n <= m /\ n \in 1 .. n /\ m \in 1 .. m /\ m # 1 /\ m # 0 /\ m - 1 = n
    OBVIOUS
<1>2. PICK f : Flattens(s, n, f) /\ FlattenSeq(s) = f[n]
  <2> DEFINE h == CHOOSE x : Flattens(s, Len(s), x)
  <2>1. Flattens(s, Len(s), h) /\ Len(s) # 0
      BY FlattenExists
  <2>2. FlattenSeq(s) = h[Len(s)]
      BY <2>1, FlattenIs
  <2> QED BY <2>1, <2>2
<1>3. PICK g : Flattens(t, m, g) /\ FlattenSeq(t) = g[m]
  <2> DEFINE h == CHOOSE x : Flattens(t, Len(t), x)
  <2>1. Flattens(t, Len(t), h) /\ Len(t) # 0
      BY <1>1, FlattenExists
  <2>2. FlattenSeq(t) = h[Len(t)]
      BY <2>1, FlattenIs
  <2> QED BY <2>1, <2>2
<1>4. \A i \in 1 .. n : f[i] = g[i]
    BY <1>1, <1>2, <1>3, FlattenAgree
<1>5. g[m] = g[n] \o t[m]
  <2>1. \A i \in 1 .. m : g[i] = IF i = 1 THEN t[i] ELSE g[i - 1] \o t[i]
      BY <1>3 DEF Flattens
  <2> QED BY <1>1, <2>1
<1> QED BY <1>1, <1>2, <1>3, <1>4, <1>5

(* A single sequence is flattened to itself.                               *)
LEMMA FlattenOne ==
    ASSUME NEW s, Len(s) = 1
    PROVE  FlattenSeq(s) = s[1]
<1> DEFINE f == CHOOSE x : Flattens(s, Len(s), x)
<1>0. Len(s) \in Nat /\ Len(s) # 0
    OBVIOUS
<1>1. Flattens(s, Len(s), f)
    BY <1>0, FlattenExists
<1>2. FlattenSeq(s) = f[Len(s)]
    BY <1>0, FlattenIs
<1> HIDE DEF f
<1>3. \A i \in 1 .. Len(s) : f[i] = IF i = 1 THEN s[i] ELSE f[i - 1] \o s[i]
    BY <1>1 DEF Flattens
<1> QED BY <1>2, <1>3

(* No sequences are flattened to none.                                     *)
LEMMA FlattenNone ==
    ASSUME NEW s, Len(s) = 0
    PROVE  FlattenSeq(s) = s
BY DEF FlattenSeq

-----------------------------------------------------------------------------
(* Some member of s is in F; the k-th is the first that is; c is s up to   *)
(* and including that one, or all of s.                                    *)
Has(F, s) == \E i \in DOMAIN s : s[i] \in F
IsFirst(F, s, k) == k \in DOMAIN s /\ s[k] \in F /\ \A i \in 1 .. k - 1 : s[i] \notin F
IsCut(F, s, c) ==
    IF Has(F, s) THEN \E k \in DOMAIN s : IsFirst(F, s, k) /\ c = SubSeq(s, 1, k)
                 ELSE c = s

(* A sequence with a member in F has a first one.                          *)
LEMMA FirstExists ==
    ASSUME NEW S, NEW F, NEW s \in Seq(S), Has(F, s)
    PROVE  \E k \in DOMAIN s : IsFirst(F, s, k)
<1> DEFINE I == {i \in 1 .. Len(s) : s[i] \in F}
<1>1. I \in SUBSET Nat /\ I # {} /\ DOMAIN s = 1 .. Len(s)
    BY DEF Has
<1>2. PICK k \in I : \A i \in I : k <= i
    BY <1>1, LeastMember
<1>3. k \in DOMAIN s /\ s[k] \in F /\ k \in 1 .. Len(s)
    BY <1>1, <1>2
<1>4. ASSUME NEW i \in 1 .. k - 1 PROVE s[i] \notin F
  <2>1. i \in 1 .. Len(s) /\ ~(k <= i)
      BY <1>3
  <2> QED BY <1>2, <2>1
<1> QED BY <1>3, <1>4 DEF IsFirst

(* It has only one.                                                        *)
LEMMA FirstUnique ==
    ASSUME NEW S, NEW F, NEW s \in Seq(S), NEW j, NEW k, IsFirst(F, s, j), IsFirst(F, s, k)
    PROVE  j = k
<1>1. j \in 1 .. Len(s) /\ k \in 1 .. Len(s)
    BY DEF IsFirst
<1>2. ~(j < k) /\ ~(k < j)
    BY <1>1 DEF IsFirst
<1> QED BY <1>1, <1>2

(* Two sequences of the same members are one.                              *)
LEMMA SameSeq ==
    ASSUME NEW S, NEW a \in Seq(S), NEW b \in Seq(S), Len(a) = Len(b),
           \A i \in 1 .. Len(a) : a[i] = b[i]
    PROVE  a = b
OBVIOUS

(* The member of s \o t at each place.                                     *)
LEMMA JoinAt ==
    ASSUME NEW S, NEW s \in Seq(S), NEW t \in Seq(S)
    PROVE  /\ s \o t \in Seq(S) /\ Len(s \o t) = Len(s) + Len(t)
           /\ DOMAIN (s \o t) = 1 .. Len(s) + Len(t)
           /\ DOMAIN s = 1 .. Len(s) /\ DOMAIN t = 1 .. Len(t)
           /\ Len(s) \in Nat /\ Len(t) \in Nat
           /\ \A i \in 1 .. Len(s) : (s \o t)[i] = s[i]
           /\ \A i \in 1 .. Len(t) : (s \o t)[Len(s) + i] = t[i]
OBVIOUS

(* Joining adds no member.                                                 *)
LEMMA HasJoin ==
    ASSUME NEW S, NEW F, NEW s \in Seq(S), NEW t \in Seq(S)
    PROVE  Has(F, s \o t) <=> Has(F, s) \/ Has(F, t)
<1> DEFINE u == s \o t
<1>0. /\ DOMAIN u = 1 .. Len(s) + Len(t) /\ DOMAIN s = 1 .. Len(s) /\ DOMAIN t = 1 .. Len(t)
      /\ Len(s) \in Nat /\ Len(t) \in Nat
      /\ \A i \in 1 .. Len(s) : u[i] = s[i]
      /\ \A i \in 1 .. Len(t) : u[Len(s) + i] = t[i]
    BY JoinAt
<1> HIDE DEF u
<1>1. ASSUME Has(F, u) PROVE Has(F, s) \/ Has(F, t)
  <2>1. PICK i \in 1 .. Len(s) + Len(t) : u[i] \in F
      BY <1>0, <1>1 DEF Has
  <2>2. CASE i <= Len(s)
    <3>1. i \in DOMAIN s /\ s[i] \in F
        BY <1>0, <2>1, <2>2
    <3> QED BY <3>1 DEF Has
  <2>3. CASE i > Len(s)
    <3>0. i - Len(s) \in 1 .. Len(t) /\ i = Len(s) + (i - Len(s))
        BY <1>0, <2>1, <2>3
    <3>1. PICK j \in 1 .. Len(t) : i = Len(s) + j
        BY <3>0
    <3>2. j \in DOMAIN t /\ t[j] \in F
        BY <1>0, <2>1, <3>1
    <3> QED BY <3>2 DEF Has
  <2> QED BY <1>0, <2>1, <2>2, <2>3
<1>2. ASSUME Has(F, s) PROVE Has(F, u)
    BY <1>0, <1>2 DEF Has
<1>3. ASSUME Has(F, t) PROVE Has(F, u)
  <2>1. PICK j \in 1 .. Len(t) : t[j] \in F
      BY <1>0, <1>3 DEF Has
  <2>2. Len(s) + j \in DOMAIN u /\ u[Len(s) + j] \in F
      BY <1>0, <2>1
  <2> QED BY <2>2 DEF Has
<1> QED BY <1>1, <1>2, <1>3 DEF u

(* What comes after the first member in F does not matter.                 *)
LEMMA FirstLeft ==
    ASSUME NEW S, NEW F, NEW s \in Seq(S), NEW t \in Seq(S), NEW k, IsFirst(F, s, k)
    PROVE  IsFirst(F, s \o t, k) /\ (s \o t)[k] = s[k]
<1>1. k \in 1 .. Len(s)
    BY DEF IsFirst
<1>2. \A i \in 1 .. k - 1 : i \in 1 .. Len(s)
    BY <1>1
<1> QED BY <1>1, <1>2, JoinAt DEF IsFirst

(* After a sequence with no member in F the first one of t is the first.   *)
LEMMA FirstRight ==
    ASSUME NEW S, NEW F, NEW s \in Seq(S), NEW t \in Seq(S), NEW k,
           ~Has(F, s), IsFirst(F, t, k)
    PROVE  \E n \in DOMAIN (s \o t) :
             n = Len(s) + k /\ IsFirst(F, s \o t, n) /\ (s \o t)[n] = t[k]
<1> DEFINE u == s \o t
<1>0. /\ DOMAIN u = 1 .. Len(s) + Len(t) /\ DOMAIN s = 1 .. Len(s) /\ DOMAIN t = 1 .. Len(t)
      /\ Len(s) \in Nat /\ Len(t) \in Nat
      /\ \A i \in 1 .. Len(s) : u[i] = s[i]
      /\ \A i \in 1 .. Len(t) : u[Len(s) + i] = t[i]
    BY JoinAt
<1> HIDE DEF u
<1>1. k \in 1 .. Len(t) /\ t[k] \in F /\ \A i \in 1 .. k - 1 : t[i] \notin F
    BY <1>0 DEF IsFirst
<1>2. Len(s) + k \in DOMAIN u /\ u[Len(s) + k] = t[k]
    BY <1>0, <1>1
<1>3. ASSUME NEW i \in 1 .. Len(s) + k - 1 PROVE u[i] \notin F
  <2>1. CASE i <= Len(s)
    <3>1. i \in 1 .. Len(s)
        BY <1>0, <1>1, <2>1
    <3> QED BY <1>0, <3>1 DEF Has
  <2>2. CASE i > Len(s)
    <3>0. i - Len(s) \in 1 .. k - 1 /\ i = Len(s) + (i - Len(s))
        BY <1>0, <1>1, <2>2
    <3>1. PICK j \in 1 .. k - 1 : i = Len(s) + j
        BY <3>0
    <3>2. j \in 1 .. Len(t)
        BY <1>1
    <3>3. u[i] = t[j]
        BY <1>0, <3>1, <3>2
    <3> QED BY <1>1, <3>3
  <2> QED BY <1>0, <1>1, <2>1, <2>2
<1>4. IsFirst(F, u, Len(s) + k)
    BY <1>1, <1>2, <1>3 DEF IsFirst
<1> QED BY <1>2, <1>4 DEF u

(* Cutting t, and then putting it after s, cuts s \o t.                    *)
LEMMA CutJoin ==
    ASSUME NEW S, NEW F, NEW s \in Seq(S), NEW t \in Seq(S), NEW c,
           ~Has(F, s), IsCut(F, t, c)
    PROVE  IsCut(F, s \o t, s \o c)
<1>1. CASE ~Has(F, t)
    BY <1>1, HasJoin DEF IsCut
<1>2. CASE Has(F, t)
  <2>1. PICK k \in DOMAIN t : IsFirst(F, t, k) /\ c = SubSeq(t, 1, k)
      BY <1>2 DEF IsCut
  <2>2. PICK n \in DOMAIN (s \o t) : n = Len(s) + k /\ IsFirst(F, s \o t, n)
      BY <2>1, FirstRight
  <2>3. s \o c = SubSeq(s \o t, 1, n)
    <3>1. k \in 1 .. Len(t) /\ Len(s) \in Nat /\ n = Len(s) + k /\ n <= Len(s \o t)
        BY <2>1, <2>2, JoinAt
    <3>2. /\ c \in Seq(S) /\ Len(c) = k
          /\ \A i \in 1 .. k : c[i] = t[i]
        BY <2>1, <3>1
    <3>3. s \o c \in Seq(S) /\ Len(s \o c) = n
        BY <3>1, <3>2, JoinAt
    <3>4. SubSeq(s \o t, 1, n) \in Seq(S) /\ Len(SubSeq(s \o t, 1, n)) = n
        BY <3>1, JoinAt
    <3>5. ASSUME NEW i \in 1 .. n
          PROVE  (s \o c)[i] = SubSeq(s \o t, 1, n)[i]
      <4>1. SubSeq(s \o t, 1, n)[i] = (s \o t)[i]
          BY <3>1, JoinAt
      <4>2. CASE i <= Len(s)
        <5>1. i \in 1 .. Len(s)
            BY <3>1, <4>2
        <5> QED BY <3>2, <4>1, <5>1, JoinAt
      <4>3. CASE i > Len(s)
        <5>1. i - Len(s) \in 1 .. k /\ i = Len(s) + (i - Len(s))
            BY <3>1, <4>3
        <5>2. PICK j \in 1 .. k : i = Len(s) + j
            BY <5>1
        <5>3. (s \o t)[i] = t[j]
            BY <3>1, <5>2, JoinAt
        <5>4. (s \o c)[i] = c[j]
            BY <3>1, <3>2, <5>2, JoinAt
        <5> QED BY <3>2, <4>1, <5>3, <5>4
      <4>4. i <= Len(s) \/ i > Len(s)
          BY <3>1
      <4> QED BY <4>2, <4>3, <4>4, Zenon
    <3>6. PICK a, b : a = s \o c /\ b = SubSeq(s \o t, 1, n)
        OBVIOUS
    <3>7. a \in Seq(S) /\ b \in Seq(S) /\ Len(a) = Len(b) /\ \A i \in 1 .. Len(a) : a[i] = b[i]
        BY <3>3, <3>4, <3>5, <3>6
    <3>8. a = b
        BY <3>7, SameSeq
    <3> QED BY <3>6, <3>8
  <2>4. Has(F, s \o t)
      BY <1>2, HasJoin
  <2> QED BY <2>2, <2>3, <2>4 DEF IsCut
<1> QED BY <1>1, <1>2

(* A cut is a sequence of the same kind with the same first member in F.   *)
LEMMA CutFirst ==
    ASSUME NEW S, NEW F, NEW s \in Seq(S), NEW c, IsCut(F, s, c)
    PROVE  /\ c \in Seq(S)
           /\ Has(F, c) <=> Has(F, s)
           /\ Has(F, s) => IsFirst(F, c, Len(c)) /\ Len(c) > 0
<1>1. CASE ~Has(F, s)
    BY <1>1 DEF IsCut
<1>2. CASE Has(F, s)
  <2>1. PICK k \in DOMAIN s : IsFirst(F, s, k) /\ c = SubSeq(s, 1, k)
      BY <1>2 DEF IsCut
  <2>2. k \in 1 .. Len(s)
      BY <2>1
  <2>3. c \in Seq(S) /\ Len(c) = k /\ \A i \in 1 .. k : c[i] = s[i]
      BY <2>1, <2>2
  <2>4. IsFirst(F, c, k)
      BY <2>1, <2>2, <2>3 DEF IsFirst
  <2> QED BY <1>2, <2>2, <2>3, <2>4 DEF IsFirst, Has
<1> QED BY <1>1, <1>2

(* Capping after every step is capping at the end.                         *)
LEMMA CapJoin ==
    ASSUME NEW S, NEW s \in Seq(S), NEW t \in Seq(S), NEW cap \in Nat, NEW c \in Seq(S),
           Len(c) = IF cap < Len(s) THEN cap ELSE Len(s),
           \A i \in 1 .. Len(c) : c[i] = s[i]
    PROVE  LET u == s \o t
               d == c \o t
               n == IF cap < Len(u) THEN cap ELSE Len(u)
           IN  /\ n = IF cap < Len(d) THEN cap ELSE Len(d)
               /\ SubSeq(u, 1, n) = SubSeq(d, 1, n)
<1> DEFINE u == s \o t
           d == c \o t
           n == IF cap < Len(u) THEN cap ELSE Len(u)
<1>1. /\ u \in Seq(S) /\ d \in Seq(S) /\ Len(u) = Len(s) + Len(t) /\ Len(d) = Len(c) + Len(t)
      /\ Len(u) \in Nat /\ Len(d) \in Nat /\ Len(s) \in Nat /\ Len(t) \in Nat /\ Len(c) \in Nat
  <2>1. u \in Seq(S) /\ Len(u) = Len(s) + Len(t) /\ Len(s) \in Nat /\ Len(t) \in Nat
      BY JoinAt
  <2>2. d \in Seq(S) /\ Len(d) = Len(c) + Len(t) /\ Len(c) \in Nat
      BY JoinAt
  <2> HIDE DEF u, d
  <2> QED BY <2>1, <2>2
<1>2. n = (IF cap < Len(d) THEN cap ELSE Len(d)) /\ n \in Nat /\ n <= Len(u) /\ n <= Len(d)
    BY <1>1
<1>3. ASSUME NEW i \in 1 .. n PROVE u[i] = d[i]
  <2>1. CASE i <= Len(c)
      BY <1>1, <1>2, <2>1
  <2>2. CASE i > Len(c)
    <3>1. Len(c) = Len(s)
        BY <1>1, <1>2, <2>2
    <3>0. i - Len(s) \in 1 .. Len(t) /\ i = Len(s) + (i - Len(s))
        BY <1>1, <1>2, <2>2, <3>1
    <3>2. PICK j \in 1 .. Len(t) : i = Len(s) + j
        BY <3>0
    <3> QED BY <1>1, <3>1, <3>2
  <2> QED BY <1>1, <1>2, <2>1, <2>2
<1> HIDE DEF u, d, n
<1>4. SubSeq(u, 1, n) = SubSeq(d, 1, n)
    BY <1>1, <1>2, <1>3
<1> QED BY <1>2, <1>4 DEF u, d, n

-----------------------------------------------------------------------------
(* The passes of every counter, as Python and as the native search would   *)
(* report them, and those of the counters lo .. hi - 1 of such a table.    *)
PythonTable == [c \in Nat |-> Passes(c)]
NativeTable == [c \in Nat |-> NativePasses(c)]
AllIn(P, lo, hi) == FlattenSeq([i \in 1 .. hi - lo |-> P[lo + i - 1]])

(* The events a search may report, and those that a set V of valid keys    *)
(* makes full hits.                                                        *)
Events == {Event(c, id, b) : c \in Nat, id \in 0 .. 3, b \in Nat}
FullOf(V) == {e \in Events : e.branch = e.id /\ <<e.counter, e.id>> \in V}

(* The native events: the key was computed, and the branch is its number.  *)
NativeEvents ==
    {e \in Events : /\ e.id \in recovered[e.counter]
                    /\ e.branch = NativeBranch(e.counter, e.id)}

(* A list of events cut at the cap.                                        *)
CapAt(n) == IF EventCap < n THEN EventCap ELSE n
Capped(s) == SubSeq(s, 1, CapAt(Len(s)))

(* What is known of a run's parameters.                                    *)
GivenInv ==
    /\ ids \in {{0, 1}, {2, 3}, 0 .. 3}
    /\ recovered \in [Digests -> SUBSET ids]
    /\ \A d \in Samples : recovered[d] # {}
    /\ derKeys \in SUBSET {p \in Counters \X ids : p[2] \in recovered[p[1]]}
    /\ valid \in SUBSET derKeys

-----------------------------------------------------------------------------
(* These are what the model's operators say.                               *)
LEMMA OracleIs ==
    /\ \A lo, hi \in Nat : /\ PassesFrom(Passes, lo, hi) = AllIn(PythonTable, lo, hi)
                           /\ PassesFrom(NativePasses, lo, hi) = AllIn(NativeTable, lo, hi)
    /\ \A e \in Events : IsFull(e) <=> e \in FullOf(valid)
<1>1. \A c \in Nat : PythonTable[c] = Passes(c) /\ NativeTable[c] = NativePasses(c)
    BY DEF PythonTable, NativeTable
<1>2. ASSUME NEW lo \in Nat, NEW hi \in Nat
      PROVE  /\ PassesFrom(Passes, lo, hi) = AllIn(PythonTable, lo, hi)
             /\ PassesFrom(NativePasses, lo, hi) = AllIn(NativeTable, lo, hi)
  <2>1. \A i \in 1 .. hi - lo : lo + i - 1 \in Nat
      OBVIOUS
  <2>2. /\ [i \in 1 .. hi - lo |-> Passes(lo + i - 1)]
             = [i \in 1 .. hi - lo |-> PythonTable[lo + i - 1]]
        /\ [i \in 1 .. hi - lo |-> NativePasses(lo + i - 1)]
             = [i \in 1 .. hi - lo |-> NativeTable[lo + i - 1]]
      BY <1>1, <2>1
  <2> QED BY <2>2 DEF PassesFrom, AllIn
<1>3. \A e \in Events : IsFull(e) <=> e \in FullOf(valid)
    BY DEF IsFull, FullOf
<1> QED BY <1>2, <1>3

(* A step that leaves the parameters alone leaves these alone.             *)
LEMMA GivenStays ==
    ASSUME given' = given
    PROVE  /\ UNCHANGED <<ids, recovered, derKeys, valid, PythonTable, NativeTable>>
           /\ VectorsAgree' <=> VectorsAgree
           /\ GivenInv' <=> GivenInv
<1>1. UNCHANGED <<ids, recovered, derKeys, valid>>
    BY DEF given
<1>2. UNCHANGED <<PythonTable, NativeTable>>
    BY <1>1 DEF PythonTable, NativeTable, Passes, NativePasses, Found, Key, NativeBranch
<1>3. VectorsAgree' <=> VectorsAgree
    BY <1>1 DEF VectorsAgree, NativeBranch
<1>4. GivenInv' <=> GivenInv
    BY <1>1 DEF GivenInv
<1> QED BY <1>1, <1>2, <1>3, <1>4

(* The ids of one counter whose keys have DER hashes.                      *)
KeysOf(c) == {id \in 0 .. 3 : <<c, id>> \in derKeys}

(* They are those found, every one of them.                                *)
LEMMA FoundIs ==
    ASSUME NEW c
    PROVE  /\ Found(c) \in Seq(KeysOf(c))
           /\ \A id \in KeysOf(c) : \E k \in DOMAIN Found(c) : Found(c)[k] = id
<1>1. ASSUME NEW id \in 0 .. 3
      PROVE  /\ Key(c, id) \in Seq(KeysOf(c))
             /\ id \in KeysOf(c) => Has({id}, Key(c, id))
  <2>1. CASE <<c, id>> \in derKeys
    <3>1. id \in KeysOf(c) /\ Key(c, id) = <<id>>
        BY <2>1 DEF KeysOf, Key
    <3> QED BY <3>1 DEF Has
  <2>2. CASE <<c, id>> \notin derKeys
    <3>1. id \notin KeysOf(c) /\ Key(c, id) = <<>>
        BY <2>2 DEF KeysOf, Key
    <3> QED BY <3>1
  <2> QED BY <2>1, <2>2
<1>2. PICK k0, k1, k2, k3 : k0 = Key(c, 0) /\ k1 = Key(c, 1) /\ k2 = Key(c, 2) /\ k3 = Key(c, 3)
    OBVIOUS
<1>3. k0 \in Seq(KeysOf(c)) /\ k1 \in Seq(KeysOf(c)) /\ k2 \in Seq(KeysOf(c)) /\ k3 \in Seq(KeysOf(c))
    BY <1>1, <1>2
<1>4. PICK a, b, f : a = k0 \o k1 /\ b = a \o k2 /\ f = b \o k3
    OBVIOUS
<1>5. a \in Seq(KeysOf(c)) /\ b \in Seq(KeysOf(c)) /\ f \in Seq(KeysOf(c))
    BY <1>3, <1>4
<1>6. Found(c) = f
    BY <1>2, <1>4 DEF Found
<1>7. ASSUME NEW id \in KeysOf(c) PROVE Has({id}, f)
  <2>1. Has({id}, k0) \/ Has({id}, k1) \/ Has({id}, k2) \/ Has({id}, k3)
    <3>1. id \in 0 .. 3 /\ id \in {0, 1, 2, 3}
        BY DEF KeysOf
    <3>2. Has({id}, Key(c, id))
        BY <1>1, <3>1
    <3> QED BY <1>2, <3>1, <3>2
  <2>2. Has({id}, a) <=> Has({id}, k0) \/ Has({id}, k1)
      BY <1>3, <1>4, HasJoin
  <2>3. Has({id}, b) <=> Has({id}, a) \/ Has({id}, k2)
      BY <1>3, <1>4, <1>5, HasJoin
  <2>4. Has({id}, f) <=> Has({id}, b) \/ Has({id}, k3)
      BY <1>3, <1>4, <1>5, HasJoin
  <2> QED BY <2>1, <2>2, <2>3, <2>4
<1>8. \A id \in KeysOf(c) : \E k \in DOMAIN f : f[k] = id
    BY <1>7 DEF Has
<1> QED BY <1>5, <1>6, <1>8

(* A key with a DER hash could be computed, and is numbered by a natural.  *)
LEMMA NumberType ==
    ASSUME GivenInv, NEW c, NEW id, <<c, id>> \in derKeys
    PROVE  /\ c \in Counters /\ c \in Nat /\ id \in 0 .. 3 /\ id \in recovered[c]
           /\ NativeBranch(c, id) \in Nat
<1>1. ids \subseteq 0 .. 3 /\ \A d \in Counters : recovered[d] \subseteq ids
    BY DEF GivenInv, Digests
<1>2. c \in Counters /\ id \in recovered[c]
  <2>1. \A p \in derKeys : p \in Counters \X ids /\ p[2] \in recovered[p[1]]
      BY DEF GivenInv
  <2>2. <<c, id>> \in Counters \X ids /\ <<c, id>>[2] \in recovered[<<c, id>>[1]]
      BY <2>1
  <2> QED BY <2>2
<1>3. c \in Nat /\ id \in 0 .. 3 /\ {i \in recovered[c] : i < id} \subseteq 0 .. 3
  <2>1. recovered[c] \subseteq 0 .. 3
      BY <1>1, <1>2
  <2>2. c \in Nat
      BY <1>2 DEF Counters
  <2> QED BY <1>2, <2>1, <2>2
<1>4. IsFiniteSet(0 .. 3)
  <2>1. 0 \in Int /\ 3 \in Int
      OBVIOUS
  <2> QED BY <2>1, FS_Interval
<1>5. Cardinality({i \in recovered[c] : i < id}) \in Nat
    BY <1>3, <1>4, FS_Subset, FS_CardinalityType
<1> QED BY <1>2, <1>3, <1>5 DEF NativeBranch

(* The entries of the tables are lists of events of their counter.         *)
LEMMA TablesType ==
    ASSUME GivenInv
    PROVE  /\ PythonTable \in [Nat -> Seq(Events)]
           /\ NativeTable \in [Nat -> Seq(NativeEvents)]
           /\ NativeTable \in [Nat -> Seq(Events)]
<1>1. ASSUME NEW c \in Nat
      PROVE  Passes(c) \in Seq(Events) /\ NativePasses(c) \in Seq(NativeEvents)
  <2>1. PICK f : f = Found(c)
      OBVIOUS
  <2>2. f \in Seq(KeysOf(c))
      BY <2>1, FoundIs
  <2>3. DOMAIN f = 1 .. Len(f) /\ Len(f) \in Nat /\ \A k \in DOMAIN f : f[k] \in KeysOf(c)
      BY <2>2
  <2>4. ASSUME NEW id \in KeysOf(c)
        PROVE  Event(c, id, id) \in Events /\ Event(c, id, NativeBranch(c, id)) \in NativeEvents
    <3>1. <<c, id>> \in derKeys
        BY DEF KeysOf
    <3>2. id \in 0 .. 3 /\ id \in Nat /\ id \in recovered[c] /\ NativeBranch(c, id) \in Nat
        BY <3>1, NumberType
    <3>3. PICK b \in Nat : b = NativeBranch(c, id)
        BY <3>2
    <3>4. Event(c, id, id) \in Events /\ Event(c, id, b) \in Events
        BY <3>2 DEF Events
    <3>5. /\ Event(c, id, b).id = id /\ Event(c, id, b).counter = c
          /\ Event(c, id, b).branch = b
        BY DEF Event
    <3> QED BY <3>2, <3>3, <3>4, <3>5 DEF NativeEvents
  <2>5. Passes(c) = [k \in DOMAIN f |-> Event(c, f[k], f[k])]
      BY <2>1 DEF Passes
  <2>6. NativePasses(c) = [k \in DOMAIN f |-> Event(c, f[k], NativeBranch(c, f[k]))]
      BY <2>1 DEF NativePasses
  <2> QED BY <2>3, <2>4, <2>5, <2>6
<1>2. NativeEvents \subseteq Events
    BY DEF NativeEvents
<1>3. Seq(NativeEvents) \subseteq Seq(Events)
    BY <1>2
<1> QED BY <1>1, <1>3 DEF PythonTable, NativeTable

(* Samples on which both programs' keys agree leave only recovery ids that *)
(* start at 0, and a digest with all of its keys numbers them by id.       *)
LEMMA NumbersAreIds ==
    ASSUME GivenInv, VectorsAgree, NEW d, recovered[d] = ids, NEW id \in ids
    PROVE  NativeBranch(d, id) = id
<1>1. ids # {2, 3}
  <2> SUFFICES ASSUME ids = {2, 3} PROVE FALSE
      OBVIOUS
  <2>1. PICK s \in Samples : TRUE
      BY SampleAssumption
  <2>2. PICK j : j \in recovered[s]
    <3>1. recovered[s] # {}
        BY <2>1 DEF GivenInv
    <3> QED BY <3>1
  <2>3. recovered[s] \subseteq {2, 3} /\ j \in {2, 3}
      BY <2>1, <2>2 DEF GivenInv, Digests
  <2>4. Cardinality({i \in recovered[s] : i < j}) = j
      BY <2>1, <2>2 DEF VectorsAgree, NativeBranch
  <2>5. {i \in recovered[s] : i < j} \subseteq {2}
      BY <2>3
  <2>6. IsFiniteSet({2}) /\ Cardinality({2}) = 1
      BY FS_Singleton
  <2>7. Cardinality({i \in recovered[s] : i < j}) <= 1
      BY <2>5, <2>6, FS_Subset
  <2> QED BY <2>3, <2>4, <2>7
<1>2. ids = 0 .. 1 \/ ids = 0 .. 3
    BY <1>1 DEF GivenInv
<1>3. id \in Nat /\ {i \in ids : i < id} = 0 .. id - 1
    BY <1>2
<1>4. Cardinality(0 .. id - 1) = id
  <2>1. id - 1 \in Int /\ 0 \in Int
      BY <1>3
  <2>2. Cardinality(0 .. id - 1) = IF 0 > id - 1 THEN 0 ELSE id - 1 - 0 + 1
      BY <2>1, FS_Interval
  <2> QED BY <1>3, <2>2
<1> QED BY <1>3, <1>4 DEF NativeBranch

-----------------------------------------------------------------------------
(* No counters have no passes.                                             *)
LEMMA AllNone ==
    ASSUME NEW P, NEW lo \in Nat
    PROVE  AllIn(P, lo, lo) = <<>>
<1> DEFINE s == [i \in 1 .. lo - lo |-> P[lo + i - 1]]
<1>1. s = <<>>
    OBVIOUS
<1>2. AllIn(P, lo, lo) = FlattenSeq(s)
    BY DEF AllIn
<1> HIDE DEF s
<1> QED BY <1>1, <1>2, FlattenNone

(* One counter more adds its own passes at the end.                        *)
LEMMA AllNext ==
    ASSUME NEW S, NEW P, P \in [Nat -> Seq(S)], NEW lo \in Nat, NEW hi \in Nat,
           NEW up \in Nat, lo <= hi, up = hi + 1
    PROVE  AllIn(P, lo, up) = AllIn(P, lo, hi) \o P[hi]
<1>1. PICK n \in Nat, m \in Nat : /\ n = hi - lo /\ m = up - lo /\ m = n + 1
                                /\ lo + m - 1 = hi /\ m \in 1 .. m
                                /\ \A i \in 1 .. n : i \in 1 .. m
  <2>1. /\ hi - lo \in Nat /\ up - lo \in Nat /\ up - lo = hi - lo + 1
        /\ lo + (up - lo) - 1 = hi /\ up - lo \in 1 .. up - lo
        /\ \A i \in 1 .. hi - lo : i \in 1 .. up - lo
      OBVIOUS
  <2> QED BY <2>1
<1>2. PICK s, t : /\ s = [i \in 1 .. hi - lo |-> P[lo + i - 1]]
                  /\ t = [i \in 1 .. up - lo |-> P[lo + i - 1]]
    OBVIOUS
<1>3. Len(s) = n /\ Len(t) = m /\ \A i \in 1 .. n : s[i] = t[i]
    BY <1>1, <1>2
<1>4. t[m] = P[hi] /\ P[hi] \in Seq(S)
    BY <1>1, <1>2
<1>5. AllIn(P, lo, hi) = FlattenSeq(s) /\ AllIn(P, lo, up) = FlattenSeq(t)
    BY <1>2 DEF AllIn
<1>6. CASE n = 0
  <2>1. lo = hi /\ m = 1
      BY <1>1, <1>6
  <2>2. AllIn(P, lo, hi) = <<>>
      BY <2>1, AllNone
  <2>3. FlattenSeq(t) = t[1]
      BY <1>3, <2>1, FlattenOne
  <2>4. <<>> \o P[hi] = P[hi]
    <3>1. PICK x \in Seq(S) : x = P[hi]
        BY <1>4
    <3> QED BY <3>1
  <2> QED BY <1>4, <1>5, <2>1, <2>2, <2>3, <2>4
<1>7. CASE n # 0
  <2>1. /\ n \in Nat /\ m \in Nat /\ n # 0 /\ m = n + 1 /\ Len(s) = n /\ Len(t) = m
        /\ \A i \in 1 .. n : s[i] = t[i]
      BY <1>1, <1>3, <1>7
  <2>2. FlattenSeq(t) = FlattenSeq(s) \o t[m]
      BY ONLY <2>1, FlattenNext
  <2> QED BY <1>4, <1>5, <2>2
<1> QED BY <1>6, <1>7

(* The passes of a run of counters are of the table's kind.                *)
LEMMA AllType ==
    ASSUME NEW S, NEW P, P \in [Nat -> Seq(S)], NEW lo \in Nat, NEW hi \in Nat, lo <= hi
    PROVE  AllIn(P, lo, hi) \in Seq(S)
<1> DEFINE Bad == {k \in Nat : lo <= k /\ AllIn(P, lo, k) \notin Seq(S)}
<1>1. CASE Bad # {}
  <2>0. Bad \in SUBSET Nat
      OBVIOUS
  <2>1. PICK b \in Bad : \A k \in Bad : b <= k
      BY <1>1, <2>0, LeastMember
  <2>2. b \in Nat /\ lo <= b /\ AllIn(P, lo, b) \notin Seq(S)
      BY <2>1
  <2>3. b # lo
    <3>1. AllIn(P, lo, lo) = <<>>
        BY AllNone
    <3>2. AllIn(P, lo, lo) \in Seq(S)
        BY <3>1
    <3> QED BY <2>2, <3>2
  <2>4. PICK k \in Nat : b = k + 1 /\ lo <= k
    <3>1. b - 1 \in Nat /\ b = b - 1 + 1 /\ lo <= b - 1
        BY <2>2, <2>3
    <3> QED BY <3>1
  <2>5. AllIn(P, lo, k) \in Seq(S)
    <3>1. k \notin Bad
        BY <2>1, <2>4
    <3> QED BY <2>4, <3>1
  <2>6. P[k] \in Seq(S)
      OBVIOUS
  <2>7. AllIn(P, lo, b) = AllIn(P, lo, k) \o P[k]
      BY <2>4, AllNext
  <2> QED BY <2>2, <2>5, <2>6, <2>7
<1>2. CASE Bad = {}
    BY <1>2
<1> QED BY <1>1, <1>2

(* A member of F among the passes of one counter is among those of a run   *)
(* of counters that this one is in.                                        *)
LEMMA AllHas ==
    ASSUME NEW S, NEW P, P \in [Nat -> Seq(S)], NEW F, NEW lo \in Nat, NEW hi \in Nat,
           NEW c \in Nat, lo <= c, c < hi, Has(F, P[c])
    PROVE  Has(F, AllIn(P, lo, hi))
<1> DEFINE Bad == {k \in Nat : c < k /\ ~Has(F, AllIn(P, lo, k))}
<1>1. CASE Bad # {}
  <2>0. Bad \in SUBSET Nat
      OBVIOUS
  <2>1. PICK b \in Bad : \A k \in Bad : b <= k
      BY <1>1, <2>0, LeastMember
  <2>2. PICK k \in Nat : b = k + 1 /\ c <= k /\ lo <= k
    <3>1. b - 1 \in Nat /\ b = b - 1 + 1 /\ c <= b - 1 /\ lo <= b - 1
        BY <2>1
    <3> QED BY <3>1
  <2>3. P[k] \in Seq(S) /\ AllIn(P, lo, k) \in Seq(S)
      BY <2>2, AllType
  <2>4. AllIn(P, lo, b) = AllIn(P, lo, k) \o P[k]
      BY <2>2, AllNext
  <2>5. Has(F, AllIn(P, lo, k)) \/ Has(F, P[k])
    <3>1. CASE k = c
        BY <3>1
    <3>2. CASE k # c
      <4>1. c < k /\ k \notin Bad
          BY <2>1, <2>2, <3>2
      <4> QED BY <4>1
    <3> QED BY <3>1, <3>2
  <2>6. Has(F, AllIn(P, lo, b))
    <3>1. PICK x \in Seq(S), y \in Seq(S) : x = AllIn(P, lo, k) /\ y = P[k]
        BY <2>3
    <3>2. Has(F, x \o y) <=> Has(F, x) \/ Has(F, y)
        BY HasJoin
    <3> QED BY <2>4, <2>5, <3>1, <3>2
  <2> QED BY <2>1, <2>6
<1>2. CASE Bad = {}
    BY <1>2
<1> QED BY <1>1, <1>2

(* The lesser of the cap and a length.                                     *)
LEMMA CapIs ==
    ASSUME NEW n \in Nat
    PROVE  Min({EventCap, n}) = CapAt(n) /\ CapAt(n) \in 0 .. n
<1>1. EventCap \in Nat
    OBVIOUS
<1>2. CapAt(n) \in {EventCap, n} /\ \A y \in {EventCap, n} : CapAt(n) <= y
    BY <1>1 DEF CapAt
<1>3. \A x \in {EventCap, n} : (\A y \in {EventCap, n} : x <= y) => x = CapAt(n)
    BY <1>1 DEF CapAt
<1>4. Min({EventCap, n}) = CapAt(n)
    BY <1>2, <1>3 DEF Min
<1> QED BY <1>1, <1>4 DEF CapAt

-----------------------------------------------------------------------------
(* The counters hashed so far are 0, 1, 2 ...                              *)
TestedInv ==
    /\ first \in Nat /\ count \in Nat
    /\ tested \in Seq(Nat)
    /\ \A i \in DOMAIN tested : tested[i] = i - 1

(* Python's row: it began at counter 0.                                    *)
OneRow ==
    /\ searches = <<searches[1]>>
    /\ searches[1].first = 0
    /\ searches[1].next \in Nat

(* Where the search that runs has come is where the list of counters ends. *)
PlaceInv ==
    /\ pc \in {"python", "handoff", "native", "validate"} \union Ended
    /\ pc = "python" => searches = <<>> /\ first = 0 /\ Len(tested) = count
    /\ pc = "handoff" => OneRow /\ searches[1].next = Len(tested)
    /\ pc \in {"native", "validate"} =>
         OneRow /\ searches[1].next = first /\ Len(tested) = first + count
    /\ pc \in Ended => CountersTiled

CountInv == TestedInv /\ PlaceInv

-----------------------------------------------------------------------------
(* With Python's row alone the counters are tiled if it does not count one *)
(* that was not hashed.                                                    *)
LEMMA OneRowTiles ==
    ASSUME TestedInv, OneRow, searches[1].next <= Len(tested)
    PROVE  CountersTiled
<1>1. DOMAIN searches = {1} /\ Len(searches) = 1
    BY DEF OneRow
<1> QED BY <1>1 DEF TestedInv, OneRow, CountersTiled

(* A second row goes after the first.                                      *)
LEMMA TwoRows ==
    ASSUME NEW x, NEW y
    PROVE  /\ DOMAIN Append(<<x>>, y) = {1, 2} /\ Len(Append(<<x>>, y)) = 2
           /\ Append(<<x>>, y)[1] = x /\ Append(<<x>>, y)[2] = y
           /\ Append(<<x>>, y) = <<x, y>>
<1>1. <<x>> \in Seq({x, y})
    OBVIOUS
<1>2. Append(<<x>>, y) \in Seq({x, y}) /\ Len(Append(<<x>>, y)) = 2
    BY <1>1
<1>3. Append(<<x>>, y)[1] = x /\ Append(<<x>>, y)[2] = y
    BY <1>1
<1>4. DOMAIN Append(<<x>>, y) = 1 .. 2
    BY <1>2
<1>5. Append(<<x>>, y) = <<x, y>>
  <2>1. <<x, y>> \in Seq({x, y}) /\ Len(<<x, y>>) = 2
      OBVIOUS
  <2>2. \A i \in 1 .. 2 : Append(<<x>>, y)[i] = <<x, y>>[i]
      BY <1>3
  <2>3. \A a, b \in Seq({x, y}) :
           Len(a) = 2 /\ Len(b) = 2 /\ (\A i \in 1 .. 2 : a[i] = b[i]) => a = b
      OBVIOUS
  <2> QED BY <1>2, <2>1, <2>2, <2>3
<1> QED BY <1>2, <1>3, <1>4, <1>5

(* Hashing the next counter extends the list by its own length.            *)
LEMMA CandidateExtends ==
    ASSUME TestedInv, Len(tested) = first + count,
           tested' = Append(tested, Counter), count' = count + 1, first' = first
    PROVE  TestedInv' /\ Len(tested') = first' + count'
<1>1. Counter = Len(tested) /\ Counter \in Nat
    BY DEF TestedInv, Counter
<1>2. tested' \in Seq(Nat) /\ Len(tested') = Len(tested) + 1
    BY <1>1 DEF TestedInv
<1>3. \A i \in DOMAIN tested' : tested'[i] = i - 1
  <2> SUFFICES ASSUME NEW i \in 1 .. Len(tested) + 1 PROVE tested'[i] = i - 1
      BY <1>2
  <2>1. CASE i \in 1 .. Len(tested)
    <3>1. DOMAIN tested = 1 .. Len(tested) /\ tested \in Seq(Nat)
        BY DEF TestedInv
    <3>2. tested[i] = i - 1
        BY <2>1, <3>1 DEF TestedInv
    <3> QED BY <1>1, <2>1, <3>1, <3>2
  <2>2. CASE i = Len(tested) + 1
      BY <1>1, <2>2 DEF TestedInv
  <2> QED BY <2>1, <2>2 DEF TestedInv
<1> QED BY <1>1, <1>2, <1>3 DEF TestedInv, Counter

(* Python's row says where it stopped, on a hit, the budget or the space.  *)
LEMMA PythonReturnsKeeps ==
    ASSUME CountInv, pc = "python", TestedInv', first' = first, Len(tested') = count',
           NEW found, NEW budget, NEW space, PythonReturns(found, budget, space)
    PROVE  CountInv'
<1> DEFINE s == Stats("python", found, budget, space)
<1>1. searches' = <<s>> /\ pc' = "handoff"
    BY DEF CountInv, PlaceInv, PythonReturns
<1>2. s.first = 0 /\ s.next = count' /\ count' \in Nat
  <2>1. s.first = first /\ s.next = first + count'
      BY DEF Stats
  <2>2. first = 0 /\ count' \in Nat
      BY DEF CountInv, PlaceInv, TestedInv
  <2> QED BY <2>1, <2>2
<1> HIDE DEF s
<1>3. searches'[1] = s
    BY <1>1
<1>4. OneRow' /\ searches'[1].next = Len(tested')
    BY <1>1, <1>2, <1>3 DEF OneRow
<1> QED BY <1>1, <1>4 DEF CountInv, PlaceInv, Ended

(* No counter has been hashed yet.                                         *)
LEMMA InitCounts == Init => CountInv
BY DEF Init, CountInv, TestedInv, PlaceInv, Ended

(* Every step hashes the next counter or none, and a row that is recorded  *)
(* begins and ends where the counters say.                                 *)
LEMMA StepCounts == CountInv /\ [Next]_vars => CountInv'
<1> SUFFICES ASSUME CountInv, [Next]_vars PROVE CountInv'
    OBVIOUS
<1>t. TestedInv /\ PlaceInv
    BY DEF CountInv
<1>1. CASE PythonCandidate
  <2>1. /\ pc = "python" /\ first' = first
        /\ tested' = Append(tested, Counter) /\ count' = count + 1
        /\ Len(tested) = first + count /\ first = 0 /\ searches = <<>>
      BY <1>1, <1>t DEF PythonCandidate, CountCandidate, PlaceInv, TestedInv
  <2>2. TestedInv' /\ Len(tested') = count'
      BY <1>t, <2>1, CandidateExtends DEF TestedInv
  <2>3. \/ UNCHANGED <<pc, searches>>
        \/ PythonReturns(TRUE, FALSE, FALSE)
      BY <1>1 DEF PythonCandidate, PythonMiss, PythonHit
  <2>4. CASE UNCHANGED <<pc, searches>>
      BY <2>1, <2>2, <2>4 DEF CountInv, PlaceInv, Ended
  <2>5. CASE PythonReturns(TRUE, FALSE, FALSE)
      BY <2>1, <2>2, <2>5, PythonReturnsKeeps
  <2> QED BY <2>3, <2>4, <2>5
<1>2. CASE PythonStops
  <2>1. /\ pc = "python" /\ UNCHANGED <<first, count, tested>>
        /\ PythonReturns(FALSE, OverBudget, OutOfSpace)
        /\ Len(tested) = count
      BY <1>2, <1>t DEF PythonStops, PlaceInv
  <2>2. TestedInv' /\ Len(tested') = count'
      BY <1>t, <2>1 DEF TestedInv
  <2> QED BY <2>1, <2>2, PythonReturnsKeeps
<1>3. CASE NativeStarts
  <2>1. /\ pc = "handoff" /\ pc' = "native" /\ UNCHANGED <<searches, tested>>
        /\ first' = Last(searches).next /\ count' = 0
        /\ OneRow /\ searches[1].next = Len(tested)
      BY <1>3, <1>t DEF NativeStarts, StartAt, PlaceInv
  <2>2. Last(searches) = searches[1]
      BY <2>1 DEF OneRow, Last
  <2> QED BY <1>t, <2>1, <2>2 DEF CountInv, PlaceInv, TestedInv, OneRow, Ended
<1>4. CASE NativeCandidate
  <2>1. /\ pc = "native" /\ UNCHANGED <<pc, first, searches>>
        /\ tested' = Append(tested, Counter) /\ count' = count + 1
        /\ Len(tested) = first + count /\ OneRow /\ searches[1].next = first
      BY <1>4, <1>t DEF NativeCandidate, PlaceInv
  <2>2. TestedInv' /\ Len(tested') = first' + count'
      BY <1>t, <2>1, CandidateExtends
  <2> QED BY <2>1, <2>2 DEF CountInv, PlaceInv, OneRow, Ended
<1>5. CASE NativeStops
    BY <1>5, <1>t DEF NativeStops, CountInv, PlaceInv, TestedInv, OneRow, Ended
<1>6. CASE ValidateEvent
    BY <1>6, <1>t DEF ValidateEvent, CountInv, PlaceInv, TestedInv, OneRow, Ended
<1>7. CASE NativeRecorded
  <2> DEFINE r == Stats("native", FALSE, passes = 0 /\ ~OutOfSpace, OutOfSpace)
  <2>1. /\ pc = "validate" /\ pc' = "done" /\ UNCHANGED <<first, count, tested>>
        /\ searches' = Append(searches, r)
        /\ OneRow /\ searches[1].next = first /\ Len(tested) = first + count
      BY <1>7, <1>t DEF NativeRecorded, PlaceInv
  <2>2. r.first = first /\ r.next = first + count
      BY <2>1 DEF Stats
  <2> HIDE DEF r
  <2>3. PICK x : searches = <<x>> /\ searches[1] = x
      BY <2>1 DEF OneRow
  <2>4. /\ DOMAIN searches' = {1, 2} /\ Len(searches') = 2
        /\ searches'[1] = searches[1] /\ searches'[2] = r
    <3>1. searches' = Append(<<x>>, r)
        BY <2>1, <2>3
    <3> QED BY <2>3, <3>1, TwoRows
  <2>5. CountersTiled'
    <3>1. \A i \in DOMAIN tested' : tested'[i] = i - 1
        BY <1>t, <2>1 DEF TestedInv
    <3>2. Last(searches') = r
        BY <2>4 DEF Last
    <3>3. /\ searches'[1].first = 0 /\ searches'[1].next = first
          /\ searches'[2].first = searches'[1].next
          /\ searches'[2].next = Len(tested')
        BY <2>1, <2>2, <2>4 DEF OneRow
    <3>4. searches'[1].next <= Len(tested') /\ searches'[2].next <= Len(tested')
        BY <1>t, <2>1, <3>3 DEF TestedInv
    <3> QED BY <2>4, <3>1, <3>2, <3>3, <3>4 DEF CountersTiled
  <2> QED BY <1>t, <2>1, <2>5 DEF CountInv, PlaceInv, TestedInv, Ended
<1>8. CASE NativeSkipped \/ VectorsDiffer \/ NativeFails \/ NativeAborts \/ ValidationRaises
  <2>1. /\ pc \in {"handoff", "native", "validate"} /\ pc' \in Ended
        /\ UNCHANGED <<first, count, tested, searches>>
      BY <1>8 DEF NativeSkipped, VectorsDiffer, NativeFails, NativeAborts, ValidationRaises,
                  Ended
  <2>2. OneRow /\ searches[1].next <= Len(tested)
      BY <1>t, <2>1 DEF PlaceInv, TestedInv
  <2>3. CountersTiled
      BY <1>t, <2>2, OneRowTiles
  <2>4. CountersTiled'
      BY <2>1, <2>3 DEF CountersTiled
  <2> QED BY <1>t, <2>1, <2>4 DEF CountInv, PlaceInv, TestedInv, Ended
<1>9. CASE DeadlinePasses \/ UNCHANGED vars
  <2>1. UNCHANGED <<pc, first, count, tested, searches>>
      BY <1>9 DEF DeadlinePasses, vars
  <2> QED BY <1>t, <2>1 DEF CountInv, PlaceInv, TestedInv, OneRow, CountersTiled
<1> QED BY <1>1, <1>2, <1>3, <1>4, <1>5, <1>6, <1>7, <1>8, <1>9 DEF Next, Progress

-----------------------------------------------------------------------------
(* The hit h is the first member of s in F, kept by one search.            *)
HitOf(h, F, s, by) ==
    IF Has(F, s)
    THEN \E k \in DOMAIN s : /\ IsFirst(F, s, k)
                             /\ h.by = by
                             /\ h.counter = s[k].counter
                             /\ h.branch = s[k].branch
    ELSE h = NoHit

(* What a row says of the passes below its next counter.                   *)
PythonSays(r, P, F) ==
    /\ r.by = "python" /\ r.first = 0 /\ r.next \in Nat
    /\ r.events \in Seq(Events)
    /\ IsCut(F, AllIn(P, 0, r.next), r.events)
    /\ r.passes = Len(r.events)
    /\ r.found \in BOOLEAN
    /\ r.found <=> Has(F, r.events)

NativeSays(r, P) ==
    /\ r.by = "native" /\ r.first \in Nat /\ r.next \in Nat /\ r.first <= r.next
    /\ r.events \in Seq(Events)
    /\ r.events = Capped(AllIn(P, r.first, r.next))
    /\ r.passes = Len(AllIn(P, r.first, r.next))

(* The hit once the native search has shown the events e: Python's, if its *)
(* own events p have one, and else the first in e.                         *)
HitAfter(h, F, p, e) ==
    IF Has(F, p) THEN HitOf(h, F, p, "python") ELSE HitOf(h, F, e, "native")

(* The passes the running search has met.                                  *)
PythonMet == AllIn(PythonTable, first, first + count)
NativeMet == AllIn(NativeTable, first, first + count)

BothRows == searches = <<searches[1], searches[2]>>

(* Events, passes and hit say what the searches have met so far; only an   *)
(* event of a digest that lacks a key can make validation raise.           *)
ReportInv ==
    /\ pc = "python" =>
         /\ events = PythonMet /\ passes = Len(events)
         /\ ~Has(FullOf(valid), PythonMet) /\ hit = NoHit
    /\ pc # "python" => PythonSays(searches[1], PythonTable, FullOf(valid))
    /\ pc \in {"handoff", "native"} =>
         HitOf(hit, FullOf(valid), searches[1].events, "python")
    /\ pc \in {"native", "validate"} =>
         VectorsAgree /\ events = Capped(NativeMet) /\ passes = Len(NativeMet)
    /\ pc = "validate" =>
         /\ checked \in 0 .. Len(events)
         /\ HitAfter(hit, FullOf(valid), searches[1].events, SubSeq(events, 1, checked))
    /\ pc \in {"done", "incomplete"} =>
         \/ OneRow /\ HitOf(hit, FullOf(valid), searches[1].events, "python")
         \/ /\ BothRows /\ VectorsAgree /\ NativeSays(searches[2], NativeTable)
            /\ HitAfter(hit, FullOf(valid), searches[1].events, searches[2].events)
    /\ pc = "raised" => OneRow /\ recovered[events[checked + 1].counter] # ids

Inv == CountInv /\ GivenInv /\ events \in Seq(Events) /\ ReportInv

-----------------------------------------------------------------------------
(* A list of events has a full hit if it has a member among the full ones. *)
LEMMA FullIs ==
    ASSUME NEW s \in Seq(Events)
    PROVE  (\E i \in DOMAIN s : IsFull(s[i])) <=> Has(FullOf(valid), s)
<1>1. \A i \in DOMAIN s : s[i] \in Events
    OBVIOUS
<1>2. \A e \in Events : IsFull(e) <=> e \in FullOf(valid)
    BY OracleIs
<1> QED BY <1>1, <1>2 DEF Has

(* Without a full hit SelectInSeq finds none.                              *)
LEMMA SelectNone ==
    ASSUME NEW s \in Seq(Events), ~Has(FullOf(valid), s)
    PROVE  SelectInSeq(s, IsFull) = 0
<1>1. DOMAIN s = 1 .. Len(s)
    OBVIOUS
<1>2. {i \in 1 .. Len(s) : IsFull(s[i])} = {}
    BY <1>1, FullIs
<1> QED BY <1>2 DEF SelectInSeq

(* SelectInSeq finds the first full hit.                                   *)
LEMMA SelectIs ==
    ASSUME NEW s \in Seq(Events), NEW k, IsFirst(FullOf(valid), s, k)
    PROVE  SelectInSeq(s, IsFull) = k /\ k \in 1 .. Len(s)
<1> DEFINE I == {i \in 1 .. Len(s) : IsFull(s[i])}
<1>1. DOMAIN s = 1 .. Len(s) /\ \A i \in 1 .. Len(s) : s[i] \in Events
    OBVIOUS
<1>2. \A e \in Events : IsFull(e) <=> e \in FullOf(valid)
    BY OracleIs
<1>3. k \in 1 .. Len(s) /\ s[k] \in FullOf(valid) /\ \A i \in 1 .. k - 1 : s[i] \notin FullOf(valid)
    BY <1>1 DEF IsFirst
<1>4. \A i \in 1 .. Len(s) : i \in I <=> s[i] \in FullOf(valid)
    BY <1>1, <1>2
<1>5. k \in I /\ \A i \in I : k <= i
  <2>1. k \in I
      BY <1>3, <1>4
  <2>2. ASSUME NEW i \in I, i < k PROVE FALSE
    <3>1. i \in 1 .. Len(s) /\ i \in 1 .. k - 1
        BY <1>3, <2>2
    <3> QED BY <1>3, <1>4, <3>1
  <2>3. I \subseteq Nat
      OBVIOUS
  <2> QED BY <1>3, <2>1, <2>2, <2>3
<1>6. SelectInSeq(s, IsFull) = IF I # {} THEN Min(I) ELSE 0
    BY DEF SelectInSeq
<1> HIDE DEF I
<1>7. Min(I) = k
  <2>1. \A x \in I : (\A y \in I : x <= y) => x = k
    <3>1. I \subseteq Nat
        BY DEF I
    <3> QED BY <1>5, <3>1
  <2> QED BY <1>5, <2>1 DEF Min
<1> QED BY <1>3, <1>5, <1>6, <1>7

(* ToFirstHit cuts after the first full hit.                               *)
LEMMA ToFirstHitIs ==
    ASSUME NEW s \in Seq(Events)
    PROVE  IsCut(FullOf(valid), s, ToFirstHit(s))
<1>1. CASE ~Has(FullOf(valid), s)
    BY <1>1, FullIs DEF ToFirstHit, IsCut
<1>2. CASE Has(FullOf(valid), s)
  <2>1. PICK k \in DOMAIN s : IsFirst(FullOf(valid), s, k)
      BY <1>2, FirstExists
  <2>2. ToFirstHit(s) = SubSeq(s, 1, k)
    <3>1. SelectInSeq(s, IsFull) = k
        BY <2>1, SelectIs
    <3>2. \E i \in DOMAIN s : IsFull(s[i])
        BY <1>2, FullIs
    <3> QED BY <3>1, <3>2 DEF ToFirstHit
  <2> QED BY <1>2, <2>1, <2>2 DEF IsCut
<1> QED BY <1>1, <1>2

(* There is one cut only.                                                  *)
LEMMA CutUnique ==
    ASSUME NEW S, NEW F, NEW s \in Seq(S), NEW c, NEW d, IsCut(F, s, c), IsCut(F, s, d)
    PROVE  c = d
<1>1. CASE ~Has(F, s)
    BY <1>1 DEF IsCut
<1>2. CASE Has(F, s)
  <2>1. PICK j \in DOMAIN s : IsFirst(F, s, j) /\ c = SubSeq(s, 1, j)
      BY <1>2 DEF IsCut
  <2>2. PICK k \in DOMAIN s : IsFirst(F, s, k) /\ d = SubSeq(s, 1, k)
      BY <1>2 DEF IsCut
  <2>3. j = k
      BY <2>1, <2>2, FirstUnique
  <2> QED BY <2>1, <2>2, <2>3
<1> QED BY <1>1, <1>2

(* Capping a list that is capped so far, with more at its end.             *)
LEMMA CappedJoin ==
    ASSUME NEW S, NEW s \in Seq(S), NEW t \in Seq(S)
    PROVE  Capped(Capped(s) \o t) = Capped(s \o t)
<1>1. /\ Capped(s) \in Seq(S)
      /\ Len(Capped(s)) = IF EventCap < Len(s) THEN EventCap ELSE Len(s)
      /\ \A i \in 1 .. Len(Capped(s)) : Capped(s)[i] = s[i]
  <2>1. Len(s) \in Nat
      OBVIOUS
  <2>2. CapAt(Len(s)) \in 0 .. Len(s)
      BY <2>1, CapIs
  <2> QED BY <2>1, <2>2 DEF Capped, CapAt
<1>2. EventCap \in Nat
    BY SpaceAssumption
<1>3. PICK c \in Seq(S) : c = Capped(s)
    BY <1>1
<1>4. /\ Len(c) = IF EventCap < Len(s) THEN EventCap ELSE Len(s)
      /\ \A i \in 1 .. Len(c) : c[i] = s[i]
    BY <1>1, <1>3
<1>5. /\ CapAt(Len(s \o t)) = CapAt(Len(c \o t))
      /\ SubSeq(s \o t, 1, CapAt(Len(s \o t))) = SubSeq(c \o t, 1, CapAt(Len(s \o t)))
    BY <1>2, <1>4, CapJoin DEF CapAt
<1> QED BY <1>3, <1>5 DEF Capped

(* One more event shown to Python, which keeps the first full one.         *)
LEMMA KeepsFirst ==
    ASSUME NEW F, NEW s \in Seq(Events), NEW e \in Events, NEW h, NEW g, NEW seq,
           HitOf(h, F, s, "native"),
           g = IF e \in F /\ h = NoHit THEN Hit("native", e, seq) ELSE h
    PROVE  HitOf(g, F, Append(s, e), "native")
<1>0. PICK t, u : t = <<e>> /\ u = s \o t
    OBVIOUS
<1>s. t \in Seq(Events) /\ u \in Seq(Events)
    BY <1>0
<1>1. u = Append(s, e) /\ Len(t) = 1 /\ t[1] = e
    BY <1>0
<1>2. Has(F, t) <=> e \in F
    BY <1>1 DEF Has
<1>3. Has(F, u) <=> Has(F, s) \/ e \in F
    BY <1>0, <1>s, <1>2, HasJoin
<1>4. CASE Has(F, s)
  <2>1. PICK k \in DOMAIN s : /\ IsFirst(F, s, k) /\ h.by = "native"
                              /\ h.counter = s[k].counter /\ h.branch = s[k].branch
      BY <1>4 DEF HitOf
  <2>2. g = h
      BY <2>1 DEF NoHit
  <2>3. IsFirst(F, u, k) /\ u[k] = s[k] /\ k \in DOMAIN u
      BY <1>0, <1>s, <2>1, FirstLeft DEF IsFirst
  <2>4. HitOf(g, F, u, "native")
      BY <1>3, <1>4, <2>1, <2>2, <2>3 DEF HitOf
  <2> QED BY <1>1, <2>4
<1>5. CASE ~Has(F, s) /\ e \in F
  <2>1. h = NoHit /\ g = Hit("native", e, seq)
      BY <1>5 DEF HitOf
  <2>2. PICK j : j = 1 /\ IsFirst(F, t, j)
      BY <1>1, <1>5 DEF IsFirst
  <2>3. PICK k : IsFirst(F, u, k) /\ u[k] = t[1]
    <3>1. ~Has(F, s)
        BY <1>5
    <3>2. IsFirst(F, t, j)
        BY <2>2
    <3>3. PICK k \in DOMAIN (s \o t) :
             k = Len(s) + j /\ IsFirst(F, s \o t, k) /\ (s \o t)[k] = t[j]
        BY <1>s, <3>1, <3>2, FirstRight
    <3> QED BY <1>0, <2>2, <3>3
  <2>4. k \in DOMAIN u /\ u[k] = e
      BY <1>1, <2>3 DEF IsFirst
  <2>5. g.by = "native" /\ g.counter = e.counter /\ g.branch = e.branch
      BY <2>1 DEF Hit
  <2>6. HitOf(g, F, u, "native")
      BY <1>3, <1>5, <2>3, <2>4, <2>5 DEF HitOf
  <2> QED BY <1>1, <2>6
<1>6. CASE ~Has(F, s) /\ e \notin F
    BY <1>1, <1>3, <1>6 DEF HitOf
<1> QED BY <1>4, <1>5, <1>6

-----------------------------------------------------------------------------
(* One more counter: its passes, in either search, and all met with them.  *)
LEMMA CandidateMeets ==
    ASSUME CountInv, GivenInv, given' = given, first' = first, count' = count + 1
    PROVE  /\ PythonMet \in Seq(Events) /\ Passes(Counter) \in Seq(Events)
           /\ PythonMet' = PythonMet \o Passes(Counter)
           /\ NativeMet \in Seq(Events) /\ NativePasses(Counter) \in Seq(Events)
           /\ NativeMet' = NativeMet \o NativePasses(Counter)
<1>1. PICK c \in Nat, up \in Nat : /\ c = first + count /\ up = first' + count'
                                 /\ up = c + 1 /\ first <= c
  <2>1. /\ first + count \in Nat /\ first' + count' \in Nat
        /\ first' + count' = first + count + 1 /\ first <= first + count
      BY DEF CountInv, TestedInv
  <2> QED BY <2>1
<1>2. Counter = c /\ first \in Nat
    BY <1>1 DEF Counter, CountInv, TestedInv
<1>3. PythonTable \in [Nat -> Seq(Events)] /\ NativeTable \in [Nat -> Seq(Events)]
    BY TablesType
<1>4. PythonTable' = PythonTable /\ NativeTable' = NativeTable
    BY GivenStays
<1>5. ASSUME NEW P, P \in [Nat -> Seq(Events)]
      PROVE  /\ AllIn(P, first, c) \in Seq(Events) /\ P[c] \in Seq(Events)
             /\ AllIn(P, first, up) = AllIn(P, first, c) \o P[c]
  <2>1. P[c] \in Seq(Events)
      BY <1>5
  <2>2. AllIn(P, first, c) \in Seq(Events)
      BY <1>1, <1>2, <1>5, AllType
  <2>3. AllIn(P, first, up) = AllIn(P, first, c) \o P[c]
      BY <1>1, <1>2, <1>5, AllNext
  <2> QED BY <2>1, <2>2, <2>3
<1>6. PythonMet = AllIn(PythonTable, first, c) /\ NativeMet = AllIn(NativeTable, first, c)
    BY <1>1 DEF PythonMet, NativeMet
<1>7. PythonMet' = AllIn(PythonTable, first, up) /\ NativeMet' = AllIn(NativeTable, first, up)
    BY <1>1, <1>4 DEF PythonMet, NativeMet
<1>8. PythonTable[c] = Passes(c) /\ NativeTable[c] = NativePasses(c)
    BY DEF PythonTable, NativeTable
<1>9. /\ PythonMet \in Seq(Events) /\ PythonTable[c] \in Seq(Events)
      /\ PythonMet' = PythonMet \o PythonTable[c]
    BY <1>3, <1>5, <1>6, <1>7
<1>10. /\ NativeMet \in Seq(Events) /\ NativeTable[c] \in Seq(Events)
       /\ NativeMet' = NativeMet \o NativeTable[c]
    BY <1>3, <1>5, <1>6, <1>7
<1> QED BY <1>2, <1>8, <1>9, <1>10

(* What the invariant says beside the counts.                              *)
Rest == GivenInv /\ events \in Seq(Events) /\ ReportInv

(* Python's candidate adds its passes; a hit ends the search with a row.   *)
LEMMA PythonCandidateReports == Inv /\ PythonCandidate => Rest'
<1> SUFFICES ASSUME Inv, PythonCandidate PROVE Rest'
    OBVIOUS
<1> DEFINE F == FullOf(valid)
<1>0. CountInv /\ GivenInv
    BY DEF Inv
<1>1. /\ pc = "python" /\ given' = given /\ first' = first /\ count' = count + 1
      /\ events' = events \o ToFirstHit(Passes(Counter))
      /\ passes' = passes + Len(ToFirstHit(Passes(Counter)))
      /\ PythonMiss(Passes(Counter)) \/ PythonHit(Passes(Counter))
      /\ first = 0 /\ searches = <<>> /\ count \in Nat
    BY <1>0 DEF PythonCandidate, CountCandidate, CountInv, PlaceInv, TestedInv
<1>2. PICK met, new : /\ met = PythonMet /\ new = Passes(Counter)
    OBVIOUS
<1>3. met \in Seq(Events) /\ new \in Seq(Events) /\ PythonMet' = met \o new
    BY <1>0, <1>1, <1>2, CandidateMeets
<1>4. events = met /\ passes = Len(events) /\ ~Has(F, met) /\ hit = NoHit
    BY <1>1, <1>2 DEF Inv, ReportInv
<1>5. PICK cut : cut = ToFirstHit(new)
    OBVIOUS
<1>6. IsCut(F, new, cut)
    BY <1>3, <1>5, ToFirstHitIs
<1>7. /\ cut \in Seq(Events) /\ (Has(F, cut) <=> Has(F, new))
      /\ Has(F, new) => IsFirst(F, cut, Len(cut)) /\ Len(cut) > 0
    BY <1>3, <1>6, CutFirst
<1>8. IsCut(F, met \o new, met \o cut)
    BY <1>3, <1>4, <1>6, CutJoin
<1>9. events' = met \o cut /\ passes' = Len(met) + Len(cut)
    BY <1>1, <1>2, <1>4, <1>5
<1>10. events' \in Seq(Events) /\ passes' = Len(events')
    BY <1>3, <1>7, <1>9
<1>11. GivenInv' /\ valid' = valid /\ PythonTable' = PythonTable
    BY <1>0, <1>1, GivenStays
<1>12. PythonMiss(new) \/ PythonHit(new)
    BY <1>1, <1>2
<1>13. (\E i \in DOMAIN new : IsFull(new[i])) <=> Has(F, new)
    BY <1>3, FullIs
<1>14. CASE PythonMiss(new)
  <2>1. ~Has(F, new) /\ pc' = "python" /\ hit' = NoHit
      BY <1>1, <1>4, <1>13, <1>14 DEF PythonMiss
  <2>2. cut = new
      BY <1>6, <2>1 DEF IsCut
  <2>3. events' = PythonMet'
      BY <1>3, <1>9, <2>2
  <2>4. ~Has(F, met \o new)
      BY <1>3, <1>4, <2>1, HasJoin
  <2>5. ~Has(FullOf(valid'), PythonMet')
      BY <1>3, <1>11, <2>4
  <2> QED BY <1>10, <1>11, <2>1, <2>3, <2>5 DEF Rest, ReportInv, Ended
<1>15. CASE PythonHit(new)
  <2>1. Has(F, new) /\ hit' = Hit("python", Last(cut), sequence')
      BY <1>5, <1>13, <1>15 DEF PythonHit
  <2>2. pc' = "handoff" /\ searches' = Append(searches, Stats("python", TRUE, FALSE, FALSE))
      BY <1>15 DEF PythonHit, PythonReturns
  <2>3. PICK r : r = Stats("python", TRUE, FALSE, FALSE)
      OBVIOUS
  <2>4. searches'[1] = r
      BY <1>1, <2>2, <2>3
  <2>5. /\ r.by = "python" /\ r.first = 0 /\ r.next = first' + count'
        /\ r.passes = passes' /\ r.events = events' /\ r.found = TRUE
      BY <1>1, <2>3 DEF Stats
  <2>6. AllIn(PythonTable, 0, r.next) = met \o new /\ r.next \in Nat
      BY <1>1, <1>3, <1>11, <2>5 DEF PythonMet
  <2>7. PICK k \in DOMAIN (met \o cut) :
           /\ k = Len(met) + Len(cut) /\ IsFirst(F, met \o cut, k)
           /\ (met \o cut)[k] = cut[Len(cut)]
    <3>1. PICK j : j = Len(cut) /\ IsFirst(F, cut, j)
        BY <1>7, <2>1
    <3>2. IsFirst(F, cut, j) /\ ~Has(F, met) /\ met \in Seq(Events) /\ cut \in Seq(Events)
        BY <1>3, <1>4, <1>7, <3>1
    <3>3. PICK k \in DOMAIN (met \o cut) :
             k = Len(met) + j /\ IsFirst(F, met \o cut, k) /\ (met \o cut)[k] = cut[j]
        BY <3>2, FirstRight
    <3> QED BY <3>1, <3>3
  <2>8. Has(F, met \o cut)
      BY <1>3, <1>7, <2>1, HasJoin
  <2>9. PythonSays(r, PythonTable, F)
    <3>1. IsCut(F, AllIn(PythonTable, 0, r.next), r.events)
        BY <1>8, <1>9, <2>5, <2>6
    <3>2. Has(F, r.events)
        BY <1>9, <2>5, <2>8
    <3>3. r.events \in Seq(Events) /\ r.passes = Len(r.events)
        BY <1>10, <2>5
    <3> QED BY <2>5, <2>6, <3>1, <3>2, <3>3 DEF PythonSays
  <2>10. /\ hit'.by = "python" /\ hit'.counter = cut[Len(cut)].counter
         /\ hit'.branch = cut[Len(cut)].branch
      BY <2>1 DEF Hit, Last
  <2>11. HitOf(hit', F, r.events, "python")
    <3>1. r.events = met \o cut
        BY <1>9, <2>5
    <3> QED BY <2>7, <2>8, <2>10, <3>1 DEF HitOf
  <2> QED BY <1>10, <1>11, <2>2, <2>4, <2>9, <2>11 DEF Rest, ReportInv, Ended
<1> QED BY <1>12, <1>14, <1>15

(* Python stops without a hit: its row says all it met.                    *)
LEMMA PythonStopsReports == Inv /\ PythonStops => Rest'
<1> SUFFICES ASSUME Inv, PythonStops PROVE Rest'
    OBVIOUS
<1> DEFINE F == FullOf(valid)
           r == Stats("python", FALSE, OverBudget, OutOfSpace)
<1>1. /\ pc = "python" /\ given' = given /\ first = 0 /\ count \in Nat /\ searches = <<>>
      /\ UNCHANGED <<first, count, events, passes, hit>>
      /\ searches' = Append(searches, r) /\ pc' = "handoff"
    BY DEF Inv, PythonStops, PythonReturns, CountInv, PlaceInv, TestedInv
<1>2. events = PythonMet /\ passes = Len(events) /\ ~Has(F, PythonMet) /\ hit = NoHit
    BY <1>1 DEF Inv, ReportInv
<1>3. /\ r.by = "python" /\ r.first = 0 /\ r.next = first' + count'
      /\ r.passes = passes' /\ r.events = events' /\ r.found = FALSE
    BY <1>1 DEF Stats
<1> HIDE DEF r
<1>4. searches'[1] = r
    BY <1>1
<1>5. r.next \in Nat /\ PythonMet = AllIn(PythonTable, 0, r.next)
    BY <1>1, <1>3 DEF PythonMet
<1>6. r.events = PythonMet /\ events \in Seq(Events)
    BY <1>1, <1>2, <1>3 DEF Inv
<1>7. IsCut(F, PythonMet, r.events)
    BY <1>2, <1>6 DEF IsCut
<1>8. PythonSays(r, PythonTable, F)
    BY <1>1, <1>2, <1>3, <1>5, <1>6, <1>7 DEF PythonSays
<1>9. HitOf(hit, F, r.events, "python")
    BY <1>2, <1>6 DEF HitOf
<1>10. GivenInv' /\ valid' = valid /\ PythonTable' = PythonTable
    BY <1>1, GivenStays DEF Inv
<1> QED BY <1>1, <1>4, <1>6, <1>8, <1>9, <1>10 DEF Rest, ReportInv, Ended

(* The native search has met nothing yet.                                  *)
LEMMA NativeStartsReports == Inv /\ NativeStarts => Rest'
<1> SUFFICES ASSUME Inv, NativeStarts PROVE Rest'
    OBVIOUS
<1>1. /\ pc = "handoff" /\ pc' = "native" /\ given' = given
      /\ UNCHANGED <<searches, hit>> /\ VectorsAgree
      /\ count' = 0 /\ passes' = 0 /\ events' = <<>>
    BY DEF NativeStarts
<1>2. /\ valid' = valid /\ PythonTable' = PythonTable /\ NativeTable' = NativeTable
      /\ (VectorsAgree' <=> VectorsAgree) /\ (GivenInv' <=> GivenInv)
      /\ recovered' = recovered /\ ids' = ids
    BY <1>1, GivenStays
<1>3. PICK f \in Nat : f = first' /\ first' + count' = f
  <2>1. first' = Last(searches).next /\ OneRow
      BY <1>1 DEF NativeStarts, StartAt, Inv, CountInv, PlaceInv
  <2>2. Last(searches) = searches[1]
      BY <2>1 DEF OneRow, Last
  <2>3. first' \in Nat /\ first' + count' = first'
      BY <1>1, <2>1, <2>2 DEF OneRow
  <2> QED BY <2>3
<1>4. AllIn(NativeTable, f, f) = <<>>
    BY AllNone
<1>5. NativeMet' = <<>>
    BY <1>2, <1>3, <1>4 DEF NativeMet
<1>6. Capped(<<>>) = <<>>
  <2>1. CapAt(0) = 0
      BY SpaceAssumption DEF CapAt
  <2>2. Len(<<>>) = 0
      OBVIOUS
  <2> QED BY <2>1, <2>2 DEF Capped
<1>7. GivenInv' /\ events' \in Seq(Events)
    BY <1>1, <1>2 DEF Inv
<1>8. events' = Capped(NativeMet') /\ passes' = Len(NativeMet')
    BY <1>1, <1>5, <1>6
<1>9. /\ PythonSays(searches[1], PythonTable, FullOf(valid))
      /\ HitOf(hit, FullOf(valid), searches[1].events, "python")
    BY <1>1 DEF Inv, ReportInv
<1> QED BY <1>1, <1>2, <1>7, <1>8, <1>9 DEF Rest, ReportInv, Ended

(* The native search reports its candidate's passes up to the cap.         *)
LEMMA NativeCandidateReports == Inv /\ NativeCandidate => Rest'
<1> SUFFICES ASSUME Inv, NativeCandidate PROVE Rest'
    OBVIOUS
<1>1. /\ pc = "native" /\ pc' = "native" /\ given' = given /\ first' = first
      /\ count' = count + 1 /\ UNCHANGED <<searches, hit>>
      /\ passes' = passes + Len(NativePasses(Counter))
      /\ events' = SubSeq(events \o NativePasses(Counter), 1,
                     Min({EventCap, Len(events \o NativePasses(Counter))}))
    BY DEF NativeCandidate, Report
<1>2. /\ valid' = valid /\ PythonTable' = PythonTable /\ NativeTable' = NativeTable
      /\ (VectorsAgree' <=> VectorsAgree) /\ (GivenInv' <=> GivenInv)
      /\ recovered' = recovered /\ ids' = ids
    BY <1>1, GivenStays
<1>3. /\ PythonSays(searches[1], PythonTable, FullOf(valid))
      /\ HitOf(hit, FullOf(valid), searches[1].events, "python")
      /\ VectorsAgree /\ events = Capped(NativeMet) /\ passes = Len(NativeMet)
    BY <1>1 DEF Inv, ReportInv
<1>4. PICK met, new : met = NativeMet /\ new = NativePasses(Counter)
    OBVIOUS
<1>5. met \in Seq(Events) /\ new \in Seq(Events) /\ NativeMet' = met \o new
    BY <1>1, <1>3, <1>4, CandidateMeets DEF Inv
<1>6. PICK all : all = events \o new
    OBVIOUS
<1>7. all \in Seq(Events) /\ Len(all) \in Nat
    BY <1>5, <1>6 DEF Inv
<1>8. events' = Capped(all)
    BY <1>1, <1>4, <1>6, <1>7, CapIs DEF Capped
<1>9. Capped(all) = Capped(met \o new)
    BY <1>3, <1>4, <1>5, <1>6, CappedJoin
<1>10. events' \in Seq(Events)
  <2>1. CapAt(Len(all)) \in 0 .. Len(all)
      BY <1>7, CapIs
  <2> QED BY <1>7, <1>8, <2>1 DEF Capped
<1>11. events' = Capped(NativeMet') /\ passes' = Len(NativeMet')
  <2>1. events' = Capped(NativeMet')
      BY <1>5, <1>8, <1>9, Zenon
  <2>2. Len(met \o new) = Len(met) + Len(new)
      BY <1>5
  <2>3. passes' = Len(met) + Len(new)
      BY <1>1, <1>3, <1>4
  <2> QED BY <1>5, <2>1, <2>2, <2>3
<1>12. GivenInv'
    BY <1>2 DEF Inv
<1> QED BY <1>1, <1>2, <1>3, <1>10, <1>11, <1>12 DEF Rest, ReportInv, Ended

(* Python starts on the events with what its own search left.              *)
LEMMA NativeStopsReports == Inv /\ NativeStops => Rest'
<1> SUFFICES ASSUME Inv, NativeStops PROVE Rest'
    OBVIOUS
<1> DEFINE F == FullOf(valid)
<1>1. /\ pc = "native" /\ pc' = "validate" /\ given' = given /\ checked' = 0
      /\ UNCHANGED <<first, count, events, passes, searches, hit>>
    BY DEF NativeStops
<1>2. /\ valid' = valid /\ PythonTable' = PythonTable /\ NativeTable' = NativeTable
      /\ (VectorsAgree' <=> VectorsAgree) /\ (GivenInv' <=> GivenInv)
      /\ recovered' = recovered /\ ids' = ids
    BY <1>1, GivenStays
<1>3. /\ PythonSays(searches[1], PythonTable, F)
      /\ HitOf(hit, F, searches[1].events, "python")
      /\ VectorsAgree /\ events = Capped(NativeMet) /\ passes = Len(NativeMet)
    BY <1>1 DEF Inv, ReportInv
<1>4. events \in Seq(Events) /\ SubSeq(events, 1, 0) = <<>> /\ 0 \in 0 .. Len(events)
    BY DEF Inv
<1>5. ~Has(F, <<>>)
    BY DEF Has
<1>6. HitAfter(hit, F, searches[1].events, SubSeq(events, 1, 0))
    BY <1>3, <1>4, <1>5 DEF HitAfter, HitOf
<1>7. GivenInv' /\ NativeMet' = NativeMet
    BY <1>1, <1>2 DEF Inv, NativeMet
<1> QED BY <1>1, <1>2, <1>3, <1>4, <1>6, <1>7 DEF Rest, ReportInv, Ended

(* Python keeps the first full event it is shown, if it has no hit yet.    *)
LEMMA ValidateEventReports == Inv /\ ValidateEvent => Rest'
<1> SUFFICES ASSUME Inv, ValidateEvent PROVE Rest'
    OBVIOUS
<1> DEFINE F == FullOf(valid)
           p == searches[1].events
<1>1. /\ pc = "validate" /\ pc' = "validate" /\ given' = given
      /\ checked' = checked + 1 /\ checked < Len(events)
      /\ UNCHANGED <<first, count, events, passes, searches>>
      /\ hit' = IF IsFull(events[checked + 1]) /\ hit = NoHit
                THEN Hit("native", events[checked + 1], sequence) ELSE hit
    BY DEF ValidateEvent, KeepHit
<1>2. /\ valid' = valid /\ PythonTable' = PythonTable /\ NativeTable' = NativeTable
      /\ (VectorsAgree' <=> VectorsAgree) /\ (GivenInv' <=> GivenInv)
      /\ recovered' = recovered /\ ids' = ids
    BY <1>1, GivenStays
<1>3. /\ PythonSays(searches[1], PythonTable, F)
      /\ VectorsAgree /\ events = Capped(NativeMet) /\ passes = Len(NativeMet)
      /\ checked \in 0 .. Len(events) /\ events \in Seq(Events)
      /\ HitAfter(hit, F, p, SubSeq(events, 1, checked))
    BY <1>1 DEF Inv, ReportInv
<1>4. PICK s, e : s = SubSeq(events, 1, checked) /\ e = events[checked + 1]
    OBVIOUS
<1>5. /\ s \in Seq(Events) /\ e \in Events
      /\ SubSeq(events, 1, checked') = Append(s, e) /\ checked' \in 0 .. Len(events)
    BY <1>1, <1>3, <1>4
<1>6. IsFull(e) <=> e \in F
    BY <1>5, OracleIs
<1>7. hit' = IF e \in F /\ hit = NoHit THEN Hit("native", e, sequence) ELSE hit
    BY <1>1, <1>4, <1>6
<1>8. HitAfter(hit', F, p, SubSeq(events, 1, checked'))
  <2>1. CASE Has(F, p)
    <3>1. HitOf(hit, F, p, "python")
        BY <1>3, <2>1 DEF HitAfter
    <3>2. hit.by = "python"
        BY <2>1, <3>1 DEF HitOf
    <3>3. hit' = hit
        BY <1>7, <3>2 DEF NoHit
    <3> QED BY <2>1, <3>1, <3>3 DEF HitAfter
  <2>2. CASE ~Has(F, p)
    <3>1. HitOf(hit, F, s, "native")
        BY <1>3, <1>4, <2>2 DEF HitAfter
    <3>2. PICK h, g, seq : h = hit /\ g = hit' /\ seq = sequence
        OBVIOUS
    <3>3. HitOf(g, F, Append(s, e), "native")
        BY <1>5, <1>7, <3>1, <3>2, KeepsFirst
    <3> QED BY <1>5, <2>2, <3>2, <3>3 DEF HitAfter
  <2> QED BY <2>1, <2>2
<1>9. GivenInv' /\ NativeMet' = NativeMet
    BY <1>1, <1>2 DEF Inv, NativeMet
<1> QED BY <1>1, <1>2, <1>3, <1>5, <1>8, <1>9 DEF Rest, ReportInv, Ended

(* With the second row the result is complete.                             *)
LEMMA NativeRecordedReports == Inv /\ NativeRecorded => Rest'
<1> SUFFICES ASSUME Inv, NativeRecorded PROVE Rest'
    OBVIOUS
<1> DEFINE F == FullOf(valid)
           r == Stats("native", FALSE, passes = 0 /\ ~OutOfSpace, OutOfSpace)
<1>1. /\ pc = "validate" /\ pc' = "done" /\ given' = given
      /\ UNCHANGED <<first, count, events, passes, checked, hit>>
      /\ checked = Len(events) /\ searches' = Append(searches, r)
      /\ OneRow /\ searches[1].next = first /\ count \in Nat /\ first \in Nat
    BY DEF NativeRecorded, Inv, CountInv, PlaceInv, TestedInv
<1>2. /\ valid' = valid /\ PythonTable' = PythonTable /\ NativeTable' = NativeTable
      /\ (VectorsAgree' <=> VectorsAgree) /\ (GivenInv' <=> GivenInv)
      /\ recovered' = recovered /\ ids' = ids
    BY <1>1, GivenStays
<1>3. /\ PythonSays(searches[1], PythonTable, F) /\ VectorsAgree
      /\ events = Capped(NativeMet) /\ passes = Len(NativeMet) /\ events \in Seq(Events)
      /\ HitAfter(hit, F, searches[1].events, SubSeq(events, 1, checked))
    BY <1>1 DEF Inv, ReportInv
<1>4. SubSeq(events, 1, checked) = events
    BY <1>1, <1>3
<1>5. /\ r.by = "native" /\ r.first = first /\ r.next = first + count
      /\ r.passes = passes /\ r.events = events
    BY <1>1 DEF Stats
<1> HIDE DEF r
<1>6. PICK x : searches = <<x>> /\ searches[1] = x
    BY <1>1 DEF OneRow
<1>7. searches' = Append(<<x>>, r)
    BY <1>1, <1>6
<1>8. searches'[1] = searches[1] /\ searches'[2] = r /\ searches' = <<x, r>>
    BY <1>6, <1>7, TwoRows
<1>9. BothRows'
    BY <1>6, <1>8 DEF BothRows
<1>10. NativeSays(r, NativeTable)
    BY <1>1, <1>3, <1>5 DEF NativeSays, NativeMet
<1>11. HitAfter(hit, F, searches[1].events, r.events)
    BY <1>3, <1>4, <1>5
<1>12. GivenInv'
    BY <1>2 DEF Inv
<1> QED BY <1>1, <1>2, <1>3, <1>8, <1>9, <1>10, <1>11, <1>12 DEF Rest, ReportInv, Ended

(* The run may end with Python's row alone.                                *)
LEMMA EndsReports ==
    Inv /\ (NativeSkipped \/ VectorsDiffer \/ NativeFails \/ NativeAborts) => Rest'
<1> SUFFICES ASSUME Inv, NativeSkipped \/ VectorsDiffer \/ NativeFails \/ NativeAborts
             PROVE  Rest'
    OBVIOUS
<1>1. /\ pc \in {"handoff", "native"} /\ pc' \in {"done", "incomplete"} /\ given' = given
      /\ UNCHANGED <<events, searches, hit>>
    BY DEF NativeSkipped, VectorsDiffer, NativeFails, NativeAborts
<1>2. /\ valid' = valid /\ PythonTable' = PythonTable /\ NativeTable' = NativeTable
      /\ (VectorsAgree' <=> VectorsAgree) /\ (GivenInv' <=> GivenInv)
      /\ recovered' = recovered /\ ids' = ids
    BY <1>1, GivenStays
<1>3. /\ OneRow /\ PythonSays(searches[1], PythonTable, FullOf(valid))
      /\ HitOf(hit, FullOf(valid), searches[1].events, "python")
    BY <1>1 DEF Inv, CountInv, PlaceInv, ReportInv
<1>4. OneRow'
    BY <1>1, <1>3 DEF OneRow
<1>5. GivenInv' /\ events' \in Seq(Events)
    BY <1>1, <1>2 DEF Inv
<1> QED BY <1>1, <1>2, <1>3, <1>4, <1>5 DEF Rest, ReportInv, Ended

(* Validation raises: the event's branch is no id of a computed key, which *)
(* cannot be where all keys were computed and so numbered by their ids.    *)
LEMMA RaisesReports == Inv /\ ValidationRaises => Rest'
<1> SUFFICES ASSUME Inv, ValidationRaises PROVE Rest'
    OBVIOUS
<1>1. /\ pc = "validate" /\ pc' = "raised" /\ given' = given
      /\ checked < Len(events) /\ ~Recoverable(events[checked + 1])
      /\ UNCHANGED <<first, count, events, checked, searches>>
    BY DEF ValidationRaises
<1>2. /\ (GivenInv' <=> GivenInv) /\ PythonTable' = PythonTable
      /\ UNCHANGED <<ids, recovered, valid>>
    BY <1>1, GivenStays
<1>3. /\ GivenInv /\ VectorsAgree /\ OneRow /\ events = Capped(NativeMet)
      /\ checked \in 0 .. Len(events) /\ events \in Seq(Events)
      /\ PythonSays(searches[1], PythonTable, FullOf(valid))
    BY <1>1 DEF Inv, CountInv, PlaceInv, ReportInv
<1>4. NativeMet \in Seq(NativeEvents)
  <2>1. PICK hi \in Nat : hi = first + count /\ first \in Nat /\ first <= hi
    <3>1. first + count \in Nat /\ first \in Nat /\ first <= first + count
        BY DEF Inv, CountInv, TestedInv
    <3> QED BY <3>1
  <2>2. NativeTable \in [Nat -> Seq(NativeEvents)]
      BY <1>3, TablesType
  <2>3. AllIn(NativeTable, first, hi) \in Seq(NativeEvents)
      BY <2>1, <2>2, AllType
  <2> QED BY <2>1, <2>3 DEF NativeMet
<1>5. PICK e : e = events[checked + 1]
    OBVIOUS
<1>6. e \in NativeEvents
  <2>1. CapAt(Len(NativeMet)) \in 0 .. Len(NativeMet)
    <3>1. Len(NativeMet) \in Nat
        BY <1>4
    <3> QED BY <3>1, CapIs
  <2>2. events \in Seq(NativeEvents)
      BY <1>3, <1>4, <2>1 DEF Capped
  <2> QED BY <1>1, <1>3, <1>5, <2>2
<1>7. recovered[e.counter] # ids
  <2> SUFFICES ASSUME recovered[e.counter] = ids PROVE FALSE
      OBVIOUS
  <2>1. e.id \in ids /\ e.branch = NativeBranch(e.counter, e.id)
      BY <1>6 DEF NativeEvents
  <2>2. e.branch = e.id
      BY <1>3, <2>1, NumbersAreIds
  <2> QED BY <1>1, <1>5, <2>1, <2>2 DEF Recoverable
<1>8. OneRow' /\ GivenInv' /\ events' \in Seq(Events)
    BY <1>1, <1>2, <1>3 DEF OneRow
<1> QED BY <1>1, <1>2, <1>3, <1>5, <1>7, <1>8 DEF Rest, ReportInv, Ended

(* The clock changes none of it.                                           *)
LEMMA ClockReports == Inv /\ (DeadlinePasses \/ UNCHANGED vars) => Rest'
<1> SUFFICES ASSUME Inv, DeadlinePasses \/ UNCHANGED vars PROVE Rest'
    OBVIOUS
<1>1. UNCHANGED <<given, pc, first, count, events, passes, checked, searches, hit>>
    BY DEF DeadlinePasses, vars
<1>2. /\ UNCHANGED <<ids, recovered, valid, PythonTable, NativeTable>>
      /\ (VectorsAgree' <=> VectorsAgree) /\ (GivenInv' <=> GivenInv)
    BY <1>1, GivenStays
<1>3. UNCHANGED PythonMet /\ UNCHANGED NativeMet
    BY <1>1, <1>2 DEF PythonMet, NativeMet
<1>4. UNCHANGED OneRow /\ UNCHANGED BothRows
    BY <1>1 DEF OneRow, BothRows
<1> QED BY <1>1, <1>2, <1>3, <1>4 DEF Inv, ReportInv, Rest

(* Nothing is met before the first step.                                   *)
LEMMA InitInv == Init => Inv
<1> SUFFICES ASSUME Init PROVE Inv
    OBVIOUS
<1>1. CountInv
    BY InitCounts
<1>2. GivenInv
  <2>1. ids \in {{0, 1}, {2, 3}, 0 .. 3}
      BY BranchAssumption DEF Init
  <2>2. RecoveredSets \subseteq SUBSET ids
      BY DEF RecoveredSets
  <2>3. recovered \in [Digests -> SUBSET ids]
      BY <2>2 DEF Init
  <2> QED BY <2>1, <2>3 DEF Init, GivenInv
<1>3. events = <<>> /\ passes = 0 /\ pc = "python" /\ hit = NoHit /\ first = 0 /\ count = 0
    BY DEF Init
<1>4. PythonMet = <<>>
  <2>1. AllIn(PythonTable, 0, 0) = <<>>
      BY AllNone
  <2> QED BY <1>3, <2>1 DEF PythonMet
<1>5. ~Has(FullOf(valid), <<>>)
    BY DEF Has
<1> QED BY <1>1, <1>2, <1>3, <1>4, <1>5 DEF Inv, ReportInv, Ended

(* Every step keeps the counts, and what is said of the passes.            *)
LEMMA StepInv == Inv /\ [Next]_vars => Inv'
<1> SUFFICES ASSUME Inv, [Next]_vars PROVE Inv'
    OBVIOUS
<1>1. CountInv'
    BY StepCounts DEF Inv
<1>2. Rest'
    BY PythonCandidateReports, PythonStopsReports, NativeStartsReports,
       NativeCandidateReports, NativeStopsReports, ValidateEventReports,
       NativeRecordedReports, EndsReports, RaisesReports, ClockReports DEF Next, Progress
<1> QED BY <1>1, <1>2 DEF Rest, Inv

(* The invariant holds throughout.                                         *)
THEOREM Invariance == Spec => []Inv
BY InitInv, StepInv, PTL DEF Spec

(* The rows of the result are Python's alone, or both.                     *)
LEMMA RowsAre ==
    ASSUME Inv
    PROVE  \/ searches = <<>>
           \/ OneRow /\ DOMAIN searches = {1} /\ Len(searches) = 1
           \/ /\ BothRows /\ DOMAIN searches = {1, 2} /\ Len(searches) = 2
              /\ pc \in {"done", "incomplete"} /\ VectorsAgree
              /\ NativeSays(searches[2], NativeTable)
              /\ HitAfter(hit, FullOf(valid), searches[1].events, searches[2].events)
<1>1. CASE pc = "python"
    BY <1>1 DEF Inv, CountInv, PlaceInv
<1>2. OneRow => DOMAIN searches = {1} /\ Len(searches) = 1
    BY DEF OneRow
<1>3. CASE pc \in {"handoff", "native", "validate"}
    BY <1>2, <1>3 DEF Inv, CountInv, PlaceInv
<1>4. CASE pc \in Ended
  <2>1. BothRows => DOMAIN searches = {1, 2} /\ Len(searches) = 2
      BY DEF BothRows
  <2> QED BY <1>2, <1>4, <2>1 DEF Inv, ReportInv, Ended
<1> QED BY <1>1, <1>3, <1>4 DEF Inv, CountInv, PlaceInv

(* The first row is always Python's, and exact.                            *)
LEMMA PythonRowIs ==
    ASSUME Inv, searches # <<>>
    PROVE  PythonSays(searches[1], PythonTable, FullOf(valid))
BY DEF Inv, CountInv, PlaceInv, ReportInv

(* The kinds of the rows, and of the passes that they are about.           *)
LEMMA RowIs ==
    ASSUME Inv, NEW i \in DOMAIN searches
    PROVE  \/ /\ i = 1 /\ PythonSays(searches[i], PythonTable, FullOf(valid))
              /\ PassesFrom(Passes, searches[i].first, searches[i].next)
                   = AllIn(PythonTable, 0, searches[i].next)
              /\ AllIn(PythonTable, 0, searches[i].next) \in Seq(Events)
           \/ /\ i # 1 /\ NativeSays(searches[i], NativeTable) /\ VectorsAgree
              /\ PassesFrom(NativePasses, searches[i].first, searches[i].next)
                   = AllIn(NativeTable, searches[i].first, searches[i].next)
              /\ AllIn(NativeTable, searches[i].first, searches[i].next) \in Seq(Events)
<1>1. /\ PythonTable \in [Nat -> Seq(Events)] /\ NativeTable \in [Nat -> Seq(Events)]
    BY TablesType DEF Inv
<1>2. CASE i = 1
  <2>1. PythonSays(searches[i], PythonTable, FullOf(valid))
      BY <1>2, PythonRowIs
  <2>2. PICK lo \in Nat, hi \in Nat : lo = 0 /\ lo = searches[i].first /\ hi = searches[i].next
      BY <2>1 DEF PythonSays
  <2>3. lo <= hi
      BY <2>2
  <2>4. AllIn(PythonTable, lo, hi) \in Seq(Events)
      BY <1>1, <2>3, AllType
  <2>5. PassesFrom(Passes, lo, hi) = AllIn(PythonTable, lo, hi)
      BY OracleIs
  <2> QED BY <1>2, <2>1, <2>2, <2>4, <2>5
<1>3. CASE i # 1
  <2>1. NativeSays(searches[i], NativeTable) /\ VectorsAgree
      BY <1>3, RowsAre
  <2>2. PICK lo \in Nat, hi \in Nat : /\ lo = searches[i].first /\ hi = searches[i].next
                                      /\ lo <= hi
      BY <2>1 DEF NativeSays
  <2>3. AllIn(NativeTable, lo, hi) \in Seq(Events)
      BY <1>1, <2>2, AllType
  <2>4. PassesFrom(NativePasses, lo, hi) = AllIn(NativeTable, lo, hi)
      BY OracleIs
  <2> QED BY <1>3, <2>1, <2>2, <2>3, <2>4
<1> QED BY <1>2, <1>3

(* A capped list is a prefix, and all of it if the cap is not reached.     *)
LEMMA CappedIs ==
    ASSUME NEW S, NEW s \in Seq(S)
    PROVE  /\ Capped(s) \in Seq(S) /\ IsPrefix(Capped(s), s)
           /\ Len(s) <= EventCap => Capped(s) = s
           /\ Len(Capped(s)) = Len(s) => Capped(s) = s
<1>1. Len(s) \in Nat /\ EventCap \in Nat
    OBVIOUS
<1>2. PICK n \in 0 .. Len(s) : n = CapAt(Len(s))
    BY <1>1, CapIs
<1>3. PICK c : c = Capped(s) /\ c = SubSeq(s, 1, n)
    BY <1>2 DEF Capped
<1>4. c \in Seq(S) /\ Len(c) = n /\ n <= Len(s) /\ \A i \in 1 .. n : c[i] = s[i]
    BY <1>3
<1>5. IsPrefix(c, s)
  <2>1. SubSeq(s, 1, Len(c)) = c /\ SubSeq(c, 1, Len(c)) = c
      BY <1>3, <1>4
  <2> QED BY <1>4, <2>1 DEF IsPrefix
<1>6. n = Len(s) => c = s
    BY <1>4, SameSeq
<1>7. Len(s) <= EventCap => n = Len(s)
    BY <1>1, <1>2 DEF CapAt
<1> QED BY <1>3, <1>4, <1>5, <1>6, <1>7

(* What the searches report of the passes they met is true: Python's events*)
(* up to its full hit, the first native events up to the cap, and a count  *)
(* of all native passes.                                                   *)
THEOREM ReportsTrue == Spec => []ReportsAreTrue
<1>1. Inv => ReportsAreTrue
  <2> SUFFICES ASSUME Inv, NEW i \in DOMAIN searches
               PROVE  LET r == searches[i]
                          mine == PassesFrom(Passes, r.first, r.next)
                          its == PassesFrom(NativePasses, r.first, r.next)
                      IN  /\ r.by = "python" => /\ r.events = ToFirstHit(mine)
                                                /\ r.passes = Len(r.events)
                                                /\ r.found <=> \E j \in DOMAIN mine : IsFull(mine[j])
                          /\ r.by = "native" => /\ IsPrefix(r.events, its)
                                                /\ r.passes = Len(its)
                                                /\ r.passes <= EventCap => r.events = its
      BY DEF ReportsAreTrue
  <2> DEFINE F == FullOf(valid)
  <2>1. PICK r : r = searches[i]
      OBVIOUS
  <2>2. CASE /\ PythonSays(r, PythonTable, F)
             /\ PassesFrom(Passes, r.first, r.next) = AllIn(PythonTable, 0, r.next)
             /\ AllIn(PythonTable, 0, r.next) \in Seq(Events)
    <3>1. PICK all \in Seq(Events) : /\ all = AllIn(PythonTable, 0, r.next)
                                     /\ PassesFrom(Passes, r.first, r.next) = all
        BY <2>2
    <3>2. /\ r.by = "python" /\ IsCut(F, all, r.events) /\ r.passes = Len(r.events)
          /\ r.found \in BOOLEAN /\ (r.found <=> Has(F, r.events))
        BY <2>2, <3>1 DEF PythonSays
    <3>3. r.events = ToFirstHit(all)
        BY <3>2, ToFirstHitIs, CutUnique
    <3>4. Has(F, r.events) <=> Has(F, all)
        BY <3>2, CutFirst
    <3>5. (\E j \in DOMAIN all : IsFull(all[j])) <=> Has(F, all)
        BY FullIs
    <3> QED BY <2>1, <3>1, <3>2, <3>3, <3>4, <3>5
  <2>3. CASE /\ NativeSays(r, NativeTable)
             /\ PassesFrom(NativePasses, r.first, r.next) = AllIn(NativeTable, r.first, r.next)
             /\ AllIn(NativeTable, r.first, r.next) \in Seq(Events)
    <3>1. PICK all \in Seq(Events) : /\ all = AllIn(NativeTable, r.first, r.next)
                                     /\ PassesFrom(NativePasses, r.first, r.next) = all
        BY <2>3
    <3>2. r.by = "native" /\ r.events = Capped(all) /\ r.passes = Len(all)
        BY <2>3, <3>1 DEF NativeSays
    <3>3. IsPrefix(Capped(all), all) /\ (Len(all) <= EventCap => Capped(all) = all)
        BY CappedIs
    <3> QED BY <2>1, <3>1, <3>2, <3>3
  <2> QED BY <2>1, <2>2, <2>3, RowIs
<1> QED BY <1>1, Invariance, PTL

(* A list without a full hit, up to its first one, is one without any.     *)
LEMMA NoHitNone ==
    ASSUME NEW F, NEW s, NEW by, by # "none", HitOf(NoHit, F, s, by)
    PROVE  ~Has(F, s)
BY DEF HitOf, NoHit

(* A valid key that is found makes its counter's passes contain a full hit:*)
(* in Python's table, and in the native one if all keys are computed.      *)
LEMMA ValidIsFull ==
    ASSUME GivenInv, NEW c, NEW id, <<c, id>> \in valid
    PROVE  /\ c \in Nat /\ Has(FullOf(valid), PythonTable[c])
           /\ VectorsAgree /\ recovered[c] = ids => Has(FullOf(valid), NativeTable[c])
<1>1. <<c, id>> \in derKeys
    BY DEF GivenInv
<1>2. c \in Nat /\ id \in 0 .. 3 /\ id \in Nat /\ id \in recovered[c]
    BY <1>1, NumberType
<1>3. PICK f : f = Found(c) /\ \E k \in DOMAIN f : f[k] = id
  <2>1. id \in KeysOf(c)
      BY <1>1, <1>2 DEF KeysOf
  <2> QED BY <2>1, FoundIs
<1>4. Event(c, id, id) \in FullOf(valid)
  <2>1. Event(c, id, id) \in Events
      BY <1>2 DEF Events
  <2>2. /\ Event(c, id, id).branch = id /\ Event(c, id, id).id = id
        /\ Event(c, id, id).counter = c
      BY DEF Event
  <2> QED BY <2>1, <2>2 DEF FullOf
<1>5. Has(FullOf(valid), PythonTable[c])
  <2>1. PythonTable[c] = [j \in DOMAIN f |-> Event(c, f[j], f[j])]
      BY <1>2, <1>3 DEF PythonTable, Passes
  <2> QED BY <1>3, <1>4, <2>1 DEF Has
<1>6. ASSUME VectorsAgree, recovered[c] = ids PROVE Has(FullOf(valid), NativeTable[c])
  <2>1. NativeTable[c] = [j \in DOMAIN f |-> Event(c, f[j], NativeBranch(c, f[j]))]
      BY <1>2, <1>3 DEF NativeTable, NativePasses
  <2>2. NativeBranch(c, id) = id
      BY <1>2, <1>6, NumbersAreIds
  <2> QED BY <1>3, <1>4, <2>1, <2>2 DEF Has
<1> QED BY <1>2, <1>5, <1>6

(* A search that reported all its passes and ended without a hit has met   *)
(* no valid key, but for a digest that lacks a key; validation raises only *)
(* for such a digest.                                                      *)
THEOREM MissesTrue == Spec => []MissesAreTrue
<1>1. Inv => MissesAreTrue
  <2> SUFFICES ASSUME Inv PROVE MissesAreTrue
      OBVIOUS
  <2> DEFINE F == FullOf(valid)
  <2>1. pc = "raised" => recovered[events[checked + 1].counter] # ids
      BY DEF Inv, ReportInv
  <2>2. ASSUME pc = "done", hit = NoHit, NEW i \in DOMAIN searches,
               searches[i].passes = Len(searches[i].events),
               NEW c \in searches[i].first .. searches[i].next - 1, NEW id \in ids,
               recovered[c] = ids, <<c, id>> \in valid
        PROVE  FALSE
    <3>1. PICK r : r = searches[i]
        OBVIOUS
    <3>2. GivenInv
        BY DEF Inv
    <3>3. /\ PythonTable \in [Nat -> Seq(Events)] /\ NativeTable \in [Nat -> Seq(Events)]
        BY <3>2, TablesType
    <3>4. c \in Nat /\ Has(F, PythonTable[c]) /\ (VectorsAgree => Has(F, NativeTable[c]))
        BY <2>2, <3>2, ValidIsFull
    <3>5. /\ ~Has(F, searches[1].events)
          /\ i # 1 => ~Has(F, searches[i].events)
      <4>1. \/ OneRow /\ HitOf(NoHit, F, searches[1].events, "python")
            \/ /\ BothRows
               /\ HitAfter(NoHit, F, searches[1].events, searches[2].events)
          BY <2>2 DEF Inv, ReportInv
      <4>2. CASE OneRow /\ HitOf(NoHit, F, searches[1].events, "python")
        <5>1. ~Has(F, searches[1].events)
            BY <4>2, NoHitNone
        <5>2. i = 1
            BY <2>2, <4>2 DEF OneRow
        <5> QED BY <5>1, <5>2
      <4>3. CASE BothRows /\ HitAfter(NoHit, F, searches[1].events, searches[2].events)
        <5>1. ~Has(F, searches[1].events)
            BY <4>3, NoHitNone DEF HitAfter
        <5>2. ~Has(F, searches[2].events)
            BY <4>3, <5>1, NoHitNone DEF HitAfter
        <5>3. i \in {1, 2}
            BY <2>2, <4>3 DEF BothRows
        <5> QED BY <5>1, <5>2, <5>3
      <4> QED BY <4>1, <4>2, <4>3
    <3>6. CASE i = 1
      <4>1. PythonSays(r, PythonTable, F) /\ AllIn(PythonTable, 0, r.next) \in Seq(Events)
          BY <3>1, <3>6, RowIs
      <4>2. PICK lo \in Nat, hi \in Nat : lo = 0 /\ hi = r.next /\ lo <= c /\ c < hi
        <5>1. r.next \in Nat /\ r.first = 0
            BY <4>1 DEF PythonSays
        <5>2. 0 <= c /\ c < r.next
            BY <2>2, <3>1, <5>1
        <5> QED BY <5>1, <5>2
      <4>3. Has(F, AllIn(PythonTable, lo, hi))
          BY <3>3, <3>4, <4>2, AllHas
      <4>4. Has(F, r.events)
          BY <4>1, <4>2, <4>3, CutFirst DEF PythonSays
      <4> QED BY <3>1, <3>5, <3>6, <4>4
    <3>7. CASE i # 1
      <4>1. /\ NativeSays(r, NativeTable) /\ VectorsAgree
            /\ AllIn(NativeTable, r.first, r.next) \in Seq(Events)
          BY <3>1, <3>7, RowIs
      <4>2. PICK lo \in Nat, hi \in Nat : lo = r.first /\ hi = r.next /\ lo <= c /\ c < hi
        <5>1. r.next \in Nat /\ r.first \in Nat
            BY <4>1 DEF NativeSays
        <5>2. r.first <= c /\ c < r.next
            BY <2>2, <3>1, <5>1
        <5> QED BY <5>1, <5>2
      <4>3. PICK all \in Seq(Events) : all = AllIn(NativeTable, lo, hi)
          BY <4>1, <4>2
      <4>4. Has(F, all)
          BY <3>3, <3>4, <4>1, <4>2, <4>3, AllHas
      <4>5. r.events = Capped(all) /\ r.passes = Len(all)
          BY <4>1, <4>2, <4>3 DEF NativeSays
      <4>6. Capped(all) = all
          BY <2>2, <3>1, <4>5, CappedIs
      <4> QED BY <3>1, <3>5, <3>7, <4>4, <4>5, <4>6
    <3> QED BY <3>6, <3>7
  <2> QED BY <2>1, <2>2 DEF MissesAreTrue
<1> QED BY <1>1, Invariance, PTL

(* The hit at the end is the first full one of all events in the rows,     *)
(* Python's before the native ones, and it is Python's if its row says so. *)
THEOREM FirstHit == Spec => []FirstHitReported
<1>1. Inv => FirstHitReported
  <2> SUFFICES ASSUME Inv, pc = "done" PROVE FirstHitReported
      BY DEF FirstHitReported
  <2> DEFINE F == FullOf(valid)
             lists == [i \in DOMAIN searches |-> searches[i].events]
             reported == FlattenSeq(lists)
  <2>1. PICK p : p = searches[1].events
      OBVIOUS
  <2>2. /\ searches # <<>>
        /\ \/ OneRow /\ HitOf(hit, F, p, "python")
           \/ /\ BothRows /\ NativeSays(searches[2], NativeTable)
              /\ HitAfter(hit, F, p, searches[2].events)
      BY <2>1 DEF Inv, ReportInv, Ended, OneRow, BothRows
  <2>3. PythonSays(searches[1], PythonTable, F)
      BY <2>2, PythonRowIs
  <2>4. p \in Seq(Events) /\ searches[1].found \in BOOLEAN /\ (searches[1].found <=> Has(F, p))
      BY <2>1, <2>3 DEF PythonSays
  <2>5. ASSUME NEW q \in Seq(Events), NEW by, reported = q, HitOf(hit, F, q, by),
               Has(F, q) => (by = "python" <=> Has(F, p))
        PROVE  FirstHitReported
    <3>1. CASE ~Has(F, q)
        BY <2>5, <3>1, SelectNone DEF FirstHitReported, HitOf
    <3>2. CASE Has(F, q)
      <4>1. PICK k \in DOMAIN q : /\ IsFirst(F, q, k) /\ hit.by = by
                                  /\ hit.counter = q[k].counter /\ hit.branch = q[k].branch
          BY <2>5, <3>2 DEF HitOf
      <4>2. SelectInSeq(q, IsFull) = k /\ k # 0
          BY <4>1, SelectIs
      <4>3. hit.by = "python" <=> searches[1].found
          BY <2>4, <2>5, <3>2, <4>1
      <4> QED BY <2>5, <4>1, <4>2, <4>3 DEF FirstHitReported
    <3> QED BY <3>1, <3>2
  <2>6. CASE OneRow /\ HitOf(hit, F, p, "python")
    <3>1. Len(lists) = 1 /\ lists[1] = p
        BY <2>1, <2>6 DEF OneRow
    <3> HIDE DEF lists
    <3>2. reported = p
        BY <3>1, FlattenOne
    <3> HIDE DEF reported
    <3> QED BY <2>4, <2>5, <2>6, <3>2
  <2>7. CASE /\ BothRows /\ NativeSays(searches[2], NativeTable)
             /\ HitAfter(hit, F, p, searches[2].events)
    <3>1. PICK e : e = searches[2].events
        OBVIOUS
    <3>2. e \in Seq(Events)
        BY <2>7, <3>1 DEF NativeSays
    <3>3. PICK q : q = p \o e
        OBVIOUS
    <3>4. q \in Seq(Events) /\ (Has(F, q) <=> Has(F, p) \/ Has(F, e))
        BY <2>4, <3>2, <3>3, HasJoin
    <3>5. reported = q
      <4>1. PICK s, t : s = <<p>> /\ t = lists
          OBVIOUS
      <4>2. Len(s) = 1 /\ s[1] = p
          BY <4>1
      <4>3. Len(t) = 2 /\ t[1] = p /\ t[2] = e
          BY <2>1, <2>7, <3>1, <4>1 DEF BothRows
      <4>4. FlattenSeq(s) = p
          BY <4>2, FlattenOne
      <4>5. PICK n \in Nat, m \in Nat : n = 1 /\ m = 2
          OBVIOUS
      <4>6. n # 0 /\ m = n + 1 /\ Len(s) = n /\ Len(t) = m /\ \A i \in 1 .. n : s[i] = t[i]
          BY <4>2, <4>3, <4>5
      <4>7. FlattenSeq(t) = FlattenSeq(s) \o t[m]
          BY <4>6, FlattenNext
      <4>8. reported = FlattenSeq(t)
          BY <4>1
      <4>9. FlattenSeq(t) = p \o e
          BY <4>3, <4>4, <4>5, <4>7
      <4> HIDE DEF reported
      <4> QED BY <3>3, <4>8, <4>9
    <3> HIDE DEF reported
    <3>6. CASE Has(F, p)
      <4>1. PICK k \in DOMAIN p : /\ IsFirst(F, p, k) /\ hit.by = "python"
                                  /\ hit.counter = p[k].counter /\ hit.branch = p[k].branch
          BY <2>7, <3>6 DEF HitAfter, HitOf
      <4>2. IsFirst(F, q, k) /\ q[k] = p[k] /\ k \in DOMAIN q
          BY <2>4, <3>2, <3>3, <4>1, FirstLeft DEF IsFirst
      <4>3. HitOf(hit, F, q, "python")
          BY <3>4, <3>6, <4>1, <4>2 DEF HitOf
      <4> QED BY <2>5, <3>4, <3>5, <3>6, <4>3
    <3>7. CASE ~Has(F, p)
      <4>1. HitOf(hit, F, e, "native")
          BY <2>7, <3>1, <3>7 DEF HitAfter
      <4>2. HitOf(hit, F, q, "native")
        <5>1. CASE ~Has(F, e)
            BY <3>4, <3>7, <4>1, <5>1 DEF HitOf
        <5>2. CASE Has(F, e)
          <6>1. PICK k \in DOMAIN e : /\ IsFirst(F, e, k) /\ hit.by = "native"
                                      /\ hit.counter = e[k].counter /\ hit.branch = e[k].branch
              BY <4>1, <5>2 DEF HitOf
          <6>2. PICK n \in DOMAIN q : n = Len(p) + k /\ IsFirst(F, q, n) /\ q[n] = e[k]
              BY <2>4, <3>2, <3>3, <3>7, <6>1, FirstRight
          <6> QED BY <3>4, <5>2, <6>1, <6>2 DEF HitOf
        <5> QED BY <5>1, <5>2
      <4>3. "native" # "python"
          OBVIOUS
      <4> QED BY <2>5, <3>4, <3>5, <3>7, <4>2, <4>3
    <3> QED BY <3>6, <3>7
  <2> QED BY <2>2, <2>6, <2>7
<1> QED BY <1>1, Invariance, PTL

(* The two searches together hash every counter from 0 once and in order,  *)
(* and the rows of the result say so.                                      *)
THEOREM Tiled == Spec => []CountersTiled
<1>1. Inv => CountersTiled
  <2> SUFFICES ASSUME CountInv PROVE CountersTiled
      BY DEF Inv
  <2>1. CASE pc = "python"
      BY <2>1 DEF CountInv, PlaceInv, TestedInv, CountersTiled
  <2>2. CASE pc \in {"handoff", "native", "validate"}
    <3>1. OneRow /\ searches[1].next <= Len(tested)
        BY <2>2 DEF CountInv, PlaceInv, TestedInv
    <3> QED BY <3>1, OneRowTiles DEF CountInv
  <2> QED BY <2>1, <2>2 DEF CountInv, PlaceInv
<1> QED BY <1>1, Invariance, PTL
=============================================================================
