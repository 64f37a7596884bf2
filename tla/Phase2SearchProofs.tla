------------------------- MODULE Phase2SearchProofs -------------------------
(***************************************************************************)
(* Proofs about Phase2Search, for every counter space, candidate limit,    *)
(* check interval, subset count and hash oracle.                           *)
(***************************************************************************)
EXTENDS Phase2Search, TLAPS

USE SpaceAssumption, BudgetAssumption, SubsetAssumption

(* Integer division brackets its dividend. *)
LEMMA DivRange ==
    ASSUME NEW n \in Nat, NEW k \in Nat \ {0}
    PROVE  n \div k \in Int /\ k * (n \div k) <= n /\ n < k * (n \div k) + k
  BY SMT

(* A remainder is determined by the division it comes from. *)
LEMMA ModUnique ==
    ASSUME NEW n \in Nat, NEW k \in Nat \ {0}, NEW q \in Int,
           NEW r \in 0 .. k - 1, n = k * q + r
    PROVE  r = n % k
  BY SMT

(* The successor of a remainder: count % Interval grows by one or wraps.   *)
LEMMA ModSucc ==
    ASSUME NEW n \in Nat, NEW k \in Nat \ {0}
    PROVE  /\ n % k \in 0 .. k - 1
           /\ (n + 1) % k = IF n % k = k - 1 THEN 0 ELSE (n % k) + 1
  <1> DEFINE q == n \div k
             r == n - k * q
  <1>1. q \in Int /\ k * q \in Int
    BY DivRange
  <1>2. r \in 0 .. k - 1
    BY DivRange, <1>1
  <1>3. n = k * q + r
    BY <1>1
  <1>4. r = n % k
    <2> HIDE DEF q, r
    <2> QED
      BY <1>1, <1>2, <1>3, ModUnique
  <1>5. CASE r = k - 1
    <2> DEFINE p == q + 1
    <2>1. p \in Int /\ n + 1 = k * p + 0 /\ n + 1 \in Nat /\ 0 \in 0 .. k - 1
      BY <1>1, <1>5
    <2>2. 0 = (n + 1) % k
      <3> HIDE DEF p
      <3> QED
        BY <2>1, ModUnique
    <2> QED
      BY <1>2, <1>4, <1>5, <2>2
  <1>6. CASE r # k - 1
    <2>1. r + 1 \in 0 .. k - 1 /\ n + 1 = k * q + (r + 1) /\ n + 1 \in Nat
      BY <1>1, <1>2, <1>6
    <2>2. r + 1 = (n + 1) % k
      <3> HIDE DEF q, r
      <3> QED
        BY <1>1, <2>1, ModUnique
    <2> QED
      BY <1>2, <1>4, <1>6, <2>2
  <1> QED
    BY <1>5, <1>6

(* What appending a pin() record does to the attempt log.                  *)
LEMMA AppendAttempt ==
    ASSUME NEW s \in Seq(Attempt), NEW a \in Attempt
    PROVE  /\ Append(s, a) \in Seq(Attempt)
           /\ Len(Append(s, a)) = Len(s) + 1
           /\ Append(s, a)[Len(s) + 1] = a
           /\ \A i \in 1 .. Len(s) : Append(s, a)[i] = s[i]
           /\ Append(s, a) # <<>>
  OBVIOUS

(* What recording the digest statistics does to it: only the last entry's  *)
(* subsets field changes.                                                  *)
LEMMA RecordAttempt ==
    ASSUME NEW s \in Seq(Attempt), s # <<>>, NEW n \in 0 .. NSubsets
    PROVE  LET r == [s EXCEPT ![Len(s)].subsets = n]
           IN  /\ r \in Seq(Attempt)
               /\ r # <<>>
               /\ Len(r) = Len(s)
               /\ Len(s) \in Nat \ {0}
               /\ r[Len(s)].subsets = n
               /\ \A i \in 1 .. Len(s) :
                     /\ r[i].start = s[i].start
                     /\ r[i].winning = s[i].winning
                     /\ r[i].candidates = s[i].candidates
                     /\ i # Len(s) => r[i].subsets = s[i].subsets
  <1> DEFINE r == [s EXCEPT ![Len(s)].subsets = n]
  <1>1. Len(s) \in Nat \ {0}
    OBVIOUS
  <1>2. \A i \in 1 .. Len(s) : s[i] \in Attempt
    OBVIOUS
  <1>3. r = [i \in 1 .. Len(s) |->
               IF i = Len(s) THEN [s[i] EXCEPT !.subsets = n] ELSE s[i]]
    BY <1>1
  <1>4. \A i \in 1 .. Len(s) : r[i] \in Attempt
    BY <1>1, <1>2, <1>3 DEF Attempt
  <1>5. r \in Seq(Attempt) /\ Len(r) = Len(s)
    BY <1>1, <1>3, <1>4
  <1>6. r[Len(s)].subsets = n
    BY <1>1, <1>2, <1>3 DEF Attempt
  <1>7. ASSUME NEW i \in 1 .. Len(s)
        PROVE  /\ r[i].start = s[i].start
               /\ r[i].winning = s[i].winning
               /\ r[i].candidates = s[i].candidates
               /\ i # Len(s) => r[i].subsets = s[i].subsets
    BY <1>1, <1>2, <1>3 DEF Attempt
  <1> QED
    BY <1>1, <1>5, <1>6, <1>7

-----------------------------------------------------------------------------
(* The inductive invariant.  TypeOK needs PinInv and SubsetInv to know     *)
(* which counter a step is at; AttemptsChain, BudgetIsSpent and EndInv are *)
(* the results of a call, established when it ends by what PinInv and      *)
(* SubsetInv have accumulated during it.                                   *)
IInv == TypeOK /\ PinInv /\ SubsetInv /\ EndInv /\ AttemptsChain /\ BudgetIsSpent

(* A lifecycle begins in a well formed state. *)
LEMMA TypeInit == Init => TypeOK
  <1> SUFFICES ASSUME Init
               PROVE  TypeOK
    OBVIOUS
  <1>1. attempts \in Seq(Attempt)
    BY DEF Init
  <1>2. sequence \in Space .. 2 * Space - 1 /\ suffix \in Space .. 2 * Space - 1
    BY DEF Init, Sequence
  <1>3. progress \in [phase : {"none", "pinning_search", "digest_subset_search"},
                      candidates : Nat]
    BY DEF Init, NoProgress
  <1>4. result \in [counter : {None} \cup Counters, subset : {None} \cup SubsetIdx]
    BY DEF Init, NoResult
  <1>5. first \in 0 .. Space /\ count \in Nat /\ late \in Nat
    BY DEF Init
  <1>6. limit \in Limits /\ pinHits \in SUBSET Counters /\ expired \in BOOLEAN
    BY DEF Init
  <1>7. subHits \in SUBSET (pinHits \X SubsetIdx)
    BY Zenon DEF Init
  <1>8. pc \in Pinning \cup Subsetting \cup Ended
    BY DEF Init, Pinning
  <1> QED
    BY <1>1, <1>2, <1>3, <1>4, <1>5, <1>6, <1>7, <1>8, Zenon DEF TypeOK

(* Every action keeps the state well formed; the counter tried is below    *)
(* Space because CounterFits was checked in the same turn.                 *)
LEMMA TypeStep == IInv /\ [Next]_vars => TypeOK'
  <1> SUFFICES ASSUME IInv, [Next]_vars
               PROVE  TypeOK'
    OBVIOUS
  <1> USE DEF IInv, TypeOK, given, Pinning, Subsetting, Ended
  <1>1. CASE PinOverBudget
    BY <1>1 DEF PinOverBudget, RaiseBudget
  <1>2. CASE PinOutOfSpace
    BY <1>2 DEF PinOutOfSpace
  <1>3. CASE PinTurn
    BY <1>3 DEF PinTurn, CounterFits, PinCounter, Sequence
  <1>4. CASE PinMiss
    BY <1>4 DEF PinMiss, Hash
  <1>5. CASE PinHit
    <2> DEFINE a == [start |-> first, winning |-> PinCounter,
                     candidates |-> count + 1, subsets |-> None]
    <2>1. a \in Attempt
      BY <1>5 DEF PinHit, CopySequence, PinInv, PinCounter, Attempt, Counters, None
    <2>2. attempts' \in Seq(Attempt)
      BY <1>5, <2>1, AppendAttempt DEF PinHit, CopySequence
    <2> QED
      BY <1>5, <2>2 DEF PinHit, CopySequence, Hash
  <1>6. CASE SubsetOverBudget
    BY <1>6 DEF SubsetOverBudget, RaiseBudget
  <1>7. CASE SubsetTurn
    BY <1>7 DEF SubsetTurn
  <1>8. CASE SubsetMiss
    BY <1>8 DEF SubsetMiss, Hash
  <1>9. CASE SubsetHit
    <2>0. count + 1 \in 0 .. NSubsets /\ attempts # <<>>
      BY <1>9 DEF SubsetHit, SubsetInv
    <2>1. attempts' \in Seq(Attempt)
      BY <1>9, <2>0, RecordAttempt DEF SubsetHit, RecordSubsets
    <2>2. result' \in [counter : {None} \cup Counters, subset : {None} \cup SubsetIdx]
      BY <1>9 DEF SubsetHit, SubsetInv, Counters, SubsetIdx, SubsetCounter
    <2> QED
      BY <1>9, <2>1, <2>2 DEF SubsetHit, Hash
  <1>10. CASE SubsetsExhausted
    <2>0. attempts # <<>> /\ count \in 0 .. NSubsets
      BY <1>10 DEF SubsetsExhausted, NextCounter, SubsetInv
    <2>1. attempts' \in Seq(Attempt)
      BY <1>10, <2>0, RecordAttempt DEF SubsetsExhausted, NextCounter, RecordSubsets
    <2>2. first' \in 0 .. Space
      BY <1>10, RecordAttempt, SMTT(30) DEF SubsetsExhausted, NextCounter, SubsetInv, SubsetCounter
    <2> QED
      BY <1>10, <2>1, <2>2 DEF SubsetsExhausted, NextCounter
  <1>11. CASE DeadlinePasses
    BY <1>11 DEF DeadlinePasses
  <1>12. CASE UNCHANGED vars
    BY <1>12 DEF vars
  <1> QED
    BY <1>1, <1>2, <1>3, <1>4, <1>5, <1>6, <1>7, <1>8, <1>9, <1>10, <1>11, <1>12
       DEF Next, PinStep, SubsetStep

-----------------------------------------------------------------------------
(* Nothing has been tried when a lifecycle begins. *)
LEMMA SearchInit == Init => PinInv /\ SubsetInv /\ EndInv /\ AttemptsChain /\ BudgetIsSpent
  <1> SUFFICES ASSUME Init
               PROVE  PinInv /\ SubsetInv /\ EndInv /\ AttemptsChain /\ BudgetIsSpent
    OBVIOUS
  <1>1. PinInv
    <2>1. NoSolutionBelow(first)
      <3>1. first = 0
        BY DEF Init
      <3> QED
        BY <3>1 DEF NoSolutionBelow, Counters
    <2>2. PinMissed /\ count <= limit
      BY DEF Init, PinMissed
    <2> QED
      BY <2>1, <2>2 DEF Init, PinInv, Pinning
  <1>2. SubsetInv /\ EndInv /\ BudgetIsSpent
    BY DEF Init, SubsetInv, EndInv, BudgetIsSpent, Subsetting
  <1>3. AttemptsChain
    BY DEF Init, AttemptsChain
  <1> QED
    BY <1>1, <1>2, <1>3

(* While pinning: a counter that missed is no solution, and a failed       *)
(* subset search rules out the counter it was for.                         *)
LEMMA PinStepInv == IInv /\ [Next]_vars => PinInv'
  <1> SUFFICES ASSUME IInv, [Next]_vars
               PROVE  PinInv'
    OBVIOUS
  <1> USE DEF IInv, TypeOK, given, Pinning, Subsetting, Ended
  <1>1. CASE PinOverBudget
    BY <1>1 DEF PinOverBudget, RaiseBudget, PinInv
  <1>2. CASE PinOutOfSpace
    BY <1>2 DEF PinOutOfSpace, CounterFits, PinInv
  <1>3. CASE PinTurn
    <2>1. count < limit
      <3>1. count # limit
        BY <1>3 DEF PinTurn, CounterFits, PinChecks, OverBudget
      <3> QED
        BY <1>3, <3>1 DEF PinTurn, CounterFits, PinInv
    <2> QED
      BY <1>3, <2>1 DEF PinTurn, CounterFits, PinInv, PinMissed, NoSolutionBelow, PinCounter, Sequence
  <1>4. CASE PinMiss
    <2>1. count' \in Nat /\ count' <= limit
      BY <1>4 DEF PinMiss, PinInv
    <2>2. PinMissed'
      BY <1>4 DEF PinMiss, PinInv, PinMissed, PinCounter, Counters
    <2>3. NoSolutionBelow(first)'
      BY <1>4 DEF PinMiss, PinInv, NoSolutionBelow
    <2> QED
      BY <1>4, <2>1, <2>2, <2>3 DEF PinMiss, PinInv, NoSolutionBelow
  <1>5. CASE PinHit
    BY <1>5 DEF PinHit, CopySequence, PinInv
  <1>6. CASE SubsetOverBudget
    BY <1>6 DEF SubsetOverBudget, RaiseBudget, PinInv
  <1>7. CASE SubsetTurn
    BY <1>7 DEF SubsetTurn, PinInv
  <1>8. CASE SubsetMiss
    BY <1>8 DEF SubsetMiss, PinInv
  <1>9. CASE SubsetHit
    BY <1>9 DEF SubsetHit, PinInv
  <1>10. CASE SubsetsExhausted
    <2>1. /\ attempts # <<>> /\ count = NSubsets
          /\ attempts[Len(attempts)].winning = SubsetCounter
          /\ SubsetCounter \in Counters
      BY <1>10 DEF SubsetsExhausted, NextCounter, SubsetInv
    <2>2. /\ attempts' # <<>>
          /\ Len(attempts') = Len(attempts)
          /\ attempts'[Len(attempts)].subsets = NSubsets
          /\ attempts'[Len(attempts)].winning = SubsetCounter
      BY <1>10, <2>1, RecordAttempt DEF SubsetsExhausted, NextCounter, RecordSubsets
    <2>3. /\ first' = SubsetCounter + 1 /\ count' = 0 /\ pc' = "pin"
          /\ count' <= limit'
      BY <1>10, <2>1 DEF SubsetsExhausted, NextCounter
    <2>4. NoSolutionBelow(first)'
      <3> SUFFICES ASSUME NEW d \in Counters, NEW t \in SubsetIdx, d < first',
                          d \in pinHits, <<d, t>> \in subHits
                   PROVE  FALSE
        BY <1>10 DEF SubsetsExhausted, NextCounter, NoSolutionBelow
      <3>1. CASE d < SubsetCounter
        BY <1>10, <3>1 DEF SubsetsExhausted, NextCounter, SubsetInv, NoSolutionBelow
      <3>2. CASE d = SubsetCounter
        <4>1. \A u \in 0 .. NSubsets - 1 : <<d, u>> \notin subHits
          BY <1>10, <3>2 DEF SubsetsExhausted, NextCounter, SubsetInv
        <4> QED
          BY <4>1 DEF SubsetIdx
      <3> QED
        BY <2>1, <2>3, <3>1, <3>2 DEF Counters
    <2>5. PinMissed'
      BY <2>1, <2>3 DEF PinMissed, Counters
    <2> QED
      BY <2>1, <2>2, <2>3, <2>4, <2>5 DEF PinInv
  <1>11. CASE DeadlinePasses
    BY <1>11 DEF DeadlinePasses, PinInv, PinMissed, NoSolutionBelow, PinCounter
  <1>12. CASE UNCHANGED vars
    BY <1>12 DEF vars, PinInv, PinMissed, NoSolutionBelow, PinCounter
  <1> QED
    BY <1>1, <1>2, <1>3, <1>4, <1>5, <1>6, <1>7, <1>8, <1>9, <1>10, <1>11, <1>12
       DEF Next, PinStep, SubsetStep

(* While searching subsets: the pinned counter is fixed, its transaction   *)
(* is the one hashed, and the subsets done so far missed.                  *)
LEMMA SubsetStepInv == IInv /\ [Next]_vars => SubsetInv'
  <1> SUFFICES ASSUME IInv, [Next]_vars
               PROVE  SubsetInv'
    OBVIOUS
  <1> USE DEF IInv, TypeOK, given, Pinning, Subsetting, Ended
  <1>1. CASE PinOverBudget
    BY <1>1 DEF PinOverBudget, RaiseBudget, SubsetInv
  <1>2. CASE PinOutOfSpace
    BY <1>2 DEF PinOutOfSpace, CounterFits, SubsetInv
  <1>3. CASE PinTurn
    BY <1>3 DEF PinTurn, CounterFits, SubsetInv
  <1>4. CASE PinMiss
    BY <1>4 DEF PinMiss, SubsetInv
  <1>5. CASE PinHit
    <2> DEFINE a == [start |-> first, winning |-> PinCounter,
                     candidates |-> count + 1, subsets |-> None]
    <2>0. a \in Attempt
      BY <1>5 DEF PinHit, PinInv, PinCounter, Attempt, Counters, None
    <2>1. /\ PinCounter \in pinHits /\ sequence = Space + PinCounter
          /\ NoSolutionBelow(first) /\ PinMissed
      BY <1>5 DEF PinHit, PinInv, Sequence
    <2>2. /\ attempts' # <<>>
          /\ attempts'[Len(attempts')].winning = PinCounter
      BY <1>5, <2>0, AppendAttempt DEF PinHit
    <2>3. /\ suffix' = sequence' /\ sequence' = sequence
          /\ SubsetCounter' = PinCounter
          /\ count' = 0 /\ pc' = "subsets"
      BY <1>5, <2>1 DEF PinHit, CopySequence, SubsetCounter, PinCounter
    <2>4. NoSolutionBelow(PinCounter)
      BY <2>1 DEF NoSolutionBelow, PinMissed, PinCounter, Counters
    <2>5. NoSolutionBelow(SubsetCounter)'
      BY <1>5, <2>3, <2>4 DEF PinHit, CopySequence, NoSolutionBelow
    <2>6. /\ count' <= NSubsets /\ count' <= limit'
          /\ \A t \in 0 .. count' - 1 : <<SubsetCounter', t>> \notin subHits'
      BY <1>5, <2>3 DEF PinHit, CopySequence
    <2>7. SubsetCounter' \in pinHits'
      BY <1>5, <2>1, <2>3 DEF PinHit, CopySequence
    <2> QED
      BY <2>2, <2>3, <2>5, <2>6, <2>7 DEF SubsetInv
  <1>6. CASE SubsetOverBudget
    BY <1>6 DEF SubsetOverBudget, RaiseBudget, SubsetInv
  <1>7. CASE SubsetTurn
    <2>1. count # limit
      BY <1>7 DEF SubsetTurn, SubsetChecks, OverBudget
    <2> QED
      BY <1>7, <2>1 DEF SubsetTurn, SubsetInv, SubsetCounter, NoSolutionBelow
  <1>8. CASE SubsetMiss
    <2>1. \A t \in 0 .. count' - 1 : <<SubsetCounter', t>> \notin subHits'
      <3>1. /\ \A t \in 0 .. count - 1 : <<SubsetCounter, t>> \notin subHits
            /\ <<SubsetCounter, count>> \notin subHits
            /\ count' = count + 1 /\ subHits' = subHits
            /\ SubsetCounter' = SubsetCounter
        BY <1>8 DEF SubsetMiss, SubsetInv, SubsetCounter
      <3>2. \A t \in 0 .. count : t \in 0 .. count - 1 \/ t = count
        OBVIOUS
      <3> QED
        BY <3>1, <3>2
    <2>2. NoSolutionBelow(SubsetCounter)'
      BY <1>8 DEF SubsetMiss, SubsetInv, SubsetCounter, NoSolutionBelow
    <2>3. /\ suffix' = sequence' /\ attempts' # <<>>
          /\ SubsetCounter' \in pinHits'
          /\ attempts'[Len(attempts')].winning = SubsetCounter'
          /\ count' <= NSubsets /\ count' <= limit'
          /\ pc' = "subsets"
      BY <1>8 DEF SubsetMiss, SubsetInv, SubsetCounter
    <2> QED
      BY <2>1, <2>2, <2>3 DEF SubsetInv
  <1>9. CASE SubsetHit
    BY <1>9 DEF SubsetHit, SubsetInv
  <1>10. CASE SubsetsExhausted
    BY <1>10 DEF SubsetsExhausted, NextCounter, SubsetInv
  <1>11. CASE DeadlinePasses
    BY <1>11 DEF DeadlinePasses, SubsetInv, SubsetCounter, NoSolutionBelow
  <1>12. CASE UNCHANGED vars
    BY <1>12 DEF vars, SubsetInv, SubsetCounter, NoSolutionBelow
  <1> QED
    BY <1>1, <1>2, <1>3, <1>4, <1>5, <1>6, <1>7, <1>8, <1>9, <1>10, <1>11, <1>12
       DEF Next, PinStep, SubsetStep

(* What an ended search has established.                                   *)
LEMMA EndStepInv == IInv /\ [Next]_vars => EndInv'
  <1> SUFFICES ASSUME IInv, [Next]_vars
               PROVE  EndInv'
    OBVIOUS
  <1> USE DEF IInv, TypeOK, given, Pinning, Subsetting, Ended
  <1>1. CASE PinOutOfSpace
    <2>1. PinMissed /\ NoSolutionBelow(first)
      BY <1>1 DEF PinOutOfSpace, CounterFits, PinInv
    <2>2. NoSolutionBelow(Space)
      BY <1>1, <2>1 DEF PinOutOfSpace, CounterFits, PinMissed, NoSolutionBelow, PinCounter, Counters
    <2> QED
      BY <1>1, <2>2 DEF PinOutOfSpace, CounterFits, EndInv, NoSolutionBelow
  <1>2. CASE SubsetHit
    <2>1. /\ SubsetCounter \in pinHits /\ sequence - Space = SubsetCounter
          /\ NoSolutionBelow(SubsetCounter)
          /\ count \in SubsetIdx
          /\ \A t \in 0 .. count - 1 : <<SubsetCounter, t>> \notin subHits
      BY <1>2 DEF SubsetHit, SubsetInv, SubsetCounter, SubsetIdx
    <2>2. /\ result'.counter = SubsetCounter /\ result'.subset = count
          /\ pc' = "found" /\ pinHits' = pinHits /\ subHits' = subHits
          /\ <<SubsetCounter, count>> \in subHits
      BY <1>2, <2>1 DEF SubsetHit
    <2> QED
      BY <2>1, <2>2 DEF EndInv, NoSolutionBelow
  <1>3. CASE UNCHANGED <<pc, result, given>>
    BY <1>3 DEF EndInv, NoSolutionBelow
  <1>4. CASE pc' \notin {"found", "space"}
    BY <1>4 DEF EndInv
  <1> QED
    BY <1>1, <1>2, <1>3, <1>4
       DEF Next, PinStep, SubsetStep, PinOverBudget, RaiseBudget, PinTurn, PinMiss,
           PinHit, SubsetOverBudget, SubsetTurn, SubsetMiss, SubsetsExhausted,
           DeadlinePasses, vars

(* Each pin() record starts where the previous one ended.                  *)
LEMMA ChainStepInv == IInv /\ [Next]_vars => AttemptsChain'
  <1> SUFFICES ASSUME IInv, [Next]_vars
               PROVE  AttemptsChain'
    OBVIOUS
  <1> USE DEF IInv, TypeOK, given, Pinning, Subsetting, Ended
  <1>1. CASE PinHit
    <2> DEFINE a == [start |-> first, winning |-> PinCounter,
                     candidates |-> count + 1, subsets |-> None]
    <2>1. a \in Attempt
      BY <1>1 DEF PinHit, CopySequence, PinInv, PinCounter, Attempt, Counters, None
    <2>2. /\ attempts' \in Seq(Attempt)
          /\ Len(attempts') = Len(attempts) + 1
          /\ attempts'[Len(attempts) + 1] = a
          /\ \A i \in 1 .. Len(attempts) : attempts'[i] = attempts[i]
      BY <1>1, <2>1, AppendAttempt DEF PinHit, CopySequence
    <2>3. /\ first = IF attempts = <<>> THEN 0
                     ELSE attempts[Len(attempts)].winning + 1
          /\ attempts # <<>> => attempts[Len(attempts)].subsets = NSubsets
      BY <1>1 DEF PinHit, CopySequence, PinInv
    <2>4. a.candidates = a.winning - a.start + 1 /\ a.start = first
      BY DEF PinCounter
    <2>5. attempts'[1].start = 0
      <3>1. CASE attempts = <<>>
        BY <2>2, <2>3, <2>4, <3>1
      <3>2. CASE attempts # <<>>
        <4>1. 1 \in 1 .. Len(attempts) /\ attempts[1].start = 0
          BY <3>2 DEF AttemptsChain
        <4> QED
          BY <2>2, <4>1
      <3> QED
        BY <3>1, <3>2
    <2>6. ASSUME NEW i \in 1 .. Len(attempts')
          PROVE  /\ attempts'[i].candidates = attempts'[i].winning - attempts'[i].start + 1
                 /\ i > 1 => /\ attempts'[i].start = attempts'[i - 1].winning + 1
                             /\ attempts'[i - 1].subsets = NSubsets
      <3>1. CASE i \in 1 .. Len(attempts)
        <4>1. i > 1 => i - 1 \in 1 .. Len(attempts)
          BY <3>1
        <4> QED
          BY <2>2, <3>1, <4>1 DEF AttemptsChain
      <3>2. CASE i = Len(attempts) + 1
        <4>1. i > 1 => /\ i - 1 = Len(attempts) /\ attempts # <<>>
                       /\ Len(attempts) \in 1 .. Len(attempts)
          BY <3>2
        <4> QED
          BY <2>2, <2>3, <2>4, <3>2, <4>1
      <3> QED
        BY <2>2, <3>1, <3>2
    <2>7. pc' # "found"
      BY <1>1 DEF PinHit, CopySequence
    <2> QED
      BY <2>5, <2>6, <2>7 DEF AttemptsChain
  <1>2. ASSUME NEW n \in 0 .. NSubsets, RecordSubsets(n), attempts # <<>>
        PROVE  /\ attempts'[1].start = 0
               /\ Len(attempts') = Len(attempts)
               /\ \A i \in 1 .. Len(attempts') :
                     /\ attempts'[i].candidates = attempts'[i].winning - attempts'[i].start + 1
                     /\ i > 1 => /\ attempts'[i].start = attempts'[i - 1].winning + 1
                                 /\ attempts'[i - 1].subsets = NSubsets
               /\ attempts'[Len(attempts)].subsets = n
               /\ attempts'[Len(attempts)].winning = attempts[Len(attempts)].winning
    <2>1. /\ Len(attempts') = Len(attempts)
          /\ Len(attempts) \in Nat \ {0}
          /\ attempts'[Len(attempts)].subsets = n
          /\ \A i \in 1 .. Len(attempts) :
                /\ attempts'[i].start = attempts[i].start
                /\ attempts'[i].winning = attempts[i].winning
                /\ attempts'[i].candidates = attempts[i].candidates
                /\ i # Len(attempts) => attempts'[i].subsets = attempts[i].subsets
      BY <1>2, RecordAttempt, SMTT(30) DEF RecordSubsets
    <2>2. ASSUME NEW i \in 1 .. Len(attempts), i > 1
          PROVE  /\ attempts'[i].start = attempts'[i - 1].winning + 1
                 /\ attempts'[i - 1].subsets = NSubsets
      <3>1. i - 1 \in 1 .. Len(attempts) /\ i - 1 # Len(attempts)
        BY <2>1, <2>2
      <3> QED
        BY <2>1, <2>2, <3>1 DEF AttemptsChain
    <2>3. attempts'[1].start = 0
      BY <1>2, <2>1 DEF AttemptsChain
    <2>4. ASSUME NEW i \in 1 .. Len(attempts)
          PROVE  attempts'[i].candidates = attempts'[i].winning - attempts'[i].start + 1
      BY <2>1 DEF AttemptsChain
    <2>5. Len(attempts) \in 1 .. Len(attempts)
      BY <2>1
    <2> QED
      BY <2>1, <2>2, <2>3, <2>4, <2>5
  <1>3. CASE SubsetHit
    <2>1. /\ count + 1 \in 0 .. NSubsets /\ attempts # <<>>
          /\ RecordSubsets(count + 1)
          /\ result'.subset = count
          /\ result'.counter = attempts[Len(attempts)].winning
      BY <1>3 DEF SubsetHit, SubsetInv, SubsetCounter
    <2> QED
      BY <1>2, <2>1 DEF AttemptsChain
  <1>4. CASE SubsetsExhausted
    <2>1. /\ count \in 0 .. NSubsets /\ attempts # <<>>
          /\ RecordSubsets(count) /\ pc' # "found"
      BY <1>4 DEF SubsetsExhausted, NextCounter, SubsetInv
    <2> QED
      BY <1>2, <2>1 DEF AttemptsChain
  <1>5. CASE UNCHANGED <<attempts, result>> /\ (pc' = pc \/ pc' # "found")
    BY <1>5 DEF AttemptsChain
  <1> QED
    BY <1>1, <1>3, <1>4, <1>5
       DEF Next, PinStep, SubsetStep, PinOverBudget, RaiseBudget, PinOutOfSpace,
           PinTurn, PinMiss, SubsetOverBudget, SubsetTurn, SubsetMiss,
           DeadlinePasses, vars

(* A budget that runs out without the deadline was used in full.           *)
LEMMA BudgetStepInv == IInv /\ [Next]_vars => BudgetIsSpent'
  <1> SUFFICES ASSUME IInv, [Next]_vars
               PROVE  BudgetIsSpent'
    OBVIOUS
  <1> USE DEF IInv, TypeOK, given, Pinning, Subsetting, Ended
  <1>1. CASE PinOverBudget
    <2>1. ~expired => count = limit
      BY <1>1 DEF PinOverBudget, OverBudget, PinInv
    <2>2. PinMissed
      BY <1>1 DEF PinOverBudget, PinInv
    <2> QED
      BY <1>1, <2>1, <2>2 DEF PinOverBudget, RaiseBudget, BudgetIsSpent, PinMissed
  <1>2. CASE SubsetOverBudget
    <2>1. ~expired => count = limit
      BY <1>2 DEF SubsetOverBudget, OverBudget, SubsetInv
    <2>2. \A t \in 0 .. count - 1 : <<sequence - Space, t>> \notin subHits
      BY <1>2 DEF SubsetOverBudget, SubsetInv, SubsetCounter
    <2> QED
      BY <1>2, <2>1, <2>2 DEF SubsetOverBudget, RaiseBudget, BudgetIsSpent
  <1>3. CASE pc' # "budget"
    BY <1>3 DEF BudgetIsSpent
  <1>4. CASE UNCHANGED vars
    BY <1>4 DEF vars, BudgetIsSpent
  <1> QED
    BY <1>1, <1>2, <1>3, <1>4
       DEF Next, PinStep, SubsetStep, PinOutOfSpace, PinTurn, PinMiss, PinHit,
           SubsetTurn, SubsetMiss, SubsetHit, SubsetsExhausted, DeadlinePasses

(* How late the search can be: the bound of a check interval.              *)
LEMMA LateStepInv == IInv /\ LateInv /\ [Next]_vars => LateInv'
  <1> SUFFICES ASSUME IInv, LateInv, [Next]_vars
               PROVE  LateInv'
    OBVIOUS
  <1> USE DEF LateInv
  <1> DEFINE m == count % Interval
  <1>1. /\ count \in Nat /\ late \in Nat /\ m \in 0 .. Interval - 1
        /\ (count + 1) % Interval = IF m = Interval - 1 THEN 0 ELSE m + 1
    BY ModSucc DEF IInv, TypeOK
  <1>2. 0 % Interval = 0
    OBVIOUS
  <1> HIDE DEF m
  <1>3. CASE PinOverBudget \/ SubsetOverBudget
    BY <1>3 DEF PinOverBudget, SubsetOverBudget, RaiseBudget, given
  <1>4. CASE PinOutOfSpace
    BY <1>4 DEF PinOutOfSpace
  <1>5. CASE PinTurn \/ SubsetTurn
    <2>1. /\ expired /\ count % Interval = 0 => FALSE
          /\ UNCHANGED <<expired, count, late>>
          /\ pc \in {"pin", "subsets"} /\ pc' \in {"pin_try", "subset_try"}
      BY <1>5 DEF PinTurn, CounterFits, SubsetTurn, PinChecks, SubsetChecks, OverBudget
    <2> QED
      BY <1>1, <2>1 DEF m
  <1>6. CASE PinMiss \/ SubsetMiss
    <2>1. /\ late <= m /\ count' = count + 1 /\ expired' = expired
          /\ late' = IF expired THEN late + 1 ELSE late
          /\ pc' \in {"pin", "subsets"}
      BY <1>6 DEF PinMiss, SubsetMiss, Hash, m
    <2>2. late' <= Interval
      BY <1>1, <2>1
    <2>3. (count + 1) % Interval # 0 => late' <= (count + 1) % Interval
      BY <1>1, <2>1
    <2> QED
      BY <2>1, <2>2, <2>3
  <1>7. CASE PinHit \/ SubsetHit
    <2>1. /\ late <= m /\ expired' = expired
          /\ late' = IF expired THEN late + 1 ELSE late
          /\ pc' = "found" \/ (pc' = "subsets" /\ count' = 0)
      BY <1>7 DEF PinHit, CopySequence, SubsetHit, Hash, m
    <2>2. late' <= Interval
      BY <1>1, <2>1
    <2> QED
      BY <1>2, <2>1, <2>2
  <1>8. CASE SubsetsExhausted
    BY <1>2, <1>8 DEF SubsetsExhausted, NextCounter
  <1>9. CASE DeadlinePasses
    <2>1. late = 0 /\ UNCHANGED <<pc, count, late>>
      BY <1>9 DEF DeadlinePasses
    <2> QED
      BY <1>1, <2>1 DEF m
  <1>10. CASE UNCHANGED vars
    BY <1>10 DEF vars
  <1> QED
    BY <1>3, <1>4, <1>5, <1>6, <1>7, <1>8, <1>9, <1>10
       DEF Next, PinStep, SubsetStep

(* A late pinning search can only end in 'budget' or 'space'.              *)
LEMMA LateRegionStays == LateRegion /\ [Next]_vars => LateRegion'
  <1> SUFFICES ASSUME LateRegion, [Next]_vars
               PROVE  LateRegion'
    OBVIOUS
  <1> USE DEF LateRegion, Pinning, Ended, given
  <1>1. CASE PinStep
    BY <1>1 DEF PinStep, PinOverBudget, RaiseBudget, PinOutOfSpace, PinTurn,
                PinMiss, PinHit
  <1>2. CASE SubsetStep
    <2>1. pc = "subsets" /\ count = 0 /\ count < NSubsets /\ expired
      BY <1>2 DEF SubsetStep, SubsetOverBudget, SubsetTurn, SubsetMiss, SubsetHit,
                  SubsetsExhausted
    <2>2. SubsetChecks /\ OverBudget(count)
      BY <2>1 DEF SubsetChecks, OverBudget
    <2>3. SubsetOverBudget
      BY <1>2, <2>1, <2>2 DEF SubsetStep, SubsetTurn, SubsetMiss, SubsetHit,
                              SubsetsExhausted
    <2> QED
      BY <2>1, <2>3 DEF SubsetOverBudget, RaiseBudget
  <1>3. CASE DeadlinePasses
    BY <1>3 DEF DeadlinePasses
  <1>4. CASE UNCHANGED vars
    BY <1>4 DEF vars
  <1> QED
    BY <1>1, <1>2, <1>3, <1>4 DEF Next

-----------------------------------------------------------------------------
(* IInv holds throughout every search.                                     *)
THEOREM Invariance == Spec => []IInv
  <1>1. Init => IInv
    BY TypeInit, SearchInit DEF IInv
  <1>2. IInv /\ [Next]_vars => IInv'
    BY TypeStep, PinStepInv, SubsetStepInv, EndStepInv, ChainStepInv, BudgetStepInv
       DEF IInv
  <1> QED
    BY <1>1, <1>2, PTL DEF Spec

(* The variables of btc_pq/phase2.py's search keep their types; above all  *)
(* tx.inputs[1].sequence never leaves the upper half of its 32 bits.       *)
THEOREM TypeCorrect == Spec => []TypeOK
  BY Invariance, PTL DEF IInv

(* Across the retries of lifecycle() no counter is skipped or tried twice. *)
THEOREM AttemptsChained == Spec => []AttemptsChain
  BY Invariance, PTL DEF IInv

(* 'phase2 search budget exhausted' is never raised early.                 *)
THEOREM BudgetSpent == Spec => []BudgetIsSpent
  BY Invariance, PTL DEF IInv

(* At most Interval candidates are hashed past the lifecycle's deadline.   *)
THEOREM DeadlineBound == Spec => []DeadlineBinds
  <1>1. Init => LateInv
    BY DEF Init, LateInv
  <1>2. IInv /\ LateInv /\ [Next]_vars => LateInv'
    BY LateStepInv
  <1>3. LateInv => DeadlineBinds
    BY DEF LateInv, DeadlineBinds
  <1> QED
    BY Invariance, <1>1, <1>2, <1>3, PTL DEF Spec

(* A pin found after the deadline never leads to a solution.               *)
THEOREM LatePinDiscarded == Spec => LatePinIsDiscarded
  <1>1. (expired /\ pc \in Pinning) => LateRegion
    BY DEF LateRegion
  <1>2. LateRegion /\ [Next]_vars => LateRegion'
    BY LateRegionStays
  <1>3. LateRegion => pc # "found"
    BY DEF LateRegion, Pinning
  <1> QED
    BY <1>1, <1>2, <1>3, PTL DEF Spec, LatePinIsDiscarded

-----------------------------------------------------------------------------
(* Refinement of SolutionSearch.                                           *)
LEMMA PromiseInit == Init => Promise!Init
  BY DEF Init, Promise!Init, Status, Solution, Ended, Promise!Counters,
         Promise!SubsetIdx, Counters, SubsetIdx

(* An ended search stays as it is. *)
LEMMA EndedStays == IInv /\ [Next]_vars /\ pc \in Ended => UNCHANGED vars
  BY DEF IInv, Next, PinStep, SubsetStep, PinOverBudget, PinOutOfSpace, PinTurn,
         PinMiss, PinHit, SubsetOverBudget, SubsetTurn, SubsetMiss, SubsetHit,
         SubsetsExhausted, DeadlinePasses, Ended

(* The hash oracle is fixed before the search starts. *)
LEMMA OracleFixed == [Next]_vars => UNCHANGED <<pinHits, subHits>>
  BY DEF Next, PinStep, SubsetStep, PinOverBudget, PinOutOfSpace, PinTurn, PinMiss,
         PinHit, SubsetOverBudget, SubsetTurn, SubsetMiss, SubsetHit,
         SubsetsExhausted, DeadlinePasses, RaiseBudget, vars, given

(* Every step of the search is a step of SolutionSearch or leaves what it  *)
(* reports unchanged.                                                      *)
LEMMA PromiseStep == IInv /\ IInv' /\ [Next]_vars => [Promise!Next]_(Promise!vars)
  <1> SUFFICES ASSUME IInv, IInv', [Next]_vars
               PROVE  [Promise!Next]_(Promise!vars)
    OBVIOUS
  <1> USE DEF Promise!vars, Promise!Next, Promise!oracle
  <1>1. UNCHANGED <<pinHits, subHits>>
    BY OracleFixed
  <1>2. CASE pc \in Ended
    <2>1. UNCHANGED <<pc, result>>
      BY <1>2, EndedStays DEF vars
    <2> QED
      BY <1>1, <2>1 DEF Status, Solution
  <1>3. CASE pc \notin Ended /\ pc' \notin Ended
    <2>1. Status' = Status /\ Solution' = Solution
      BY <1>3 DEF Status, Solution, Ended
    <2> QED
      BY <1>1, <2>1
  <1>4. CASE pc \notin Ended /\ pc' = "budget"
    <2>1. Promise!GiveUp
      BY <1>1, <1>4 DEF Promise!GiveUp, Status, Solution, Ended
    <2> QED
      BY <2>1
  <1>5. CASE pc \notin Ended /\ pc' = "space"
    <2>1. NoSolutionBelow(Space)
      BY <1>1, <1>5 DEF IInv, EndInv, NoSolutionBelow
    <2>2. \A c \in Promise!Counters, s \in Promise!SubsetIdx : ~Promise!IsSolution(c, s)
      <3>1. ASSUME NEW c \in Counters, NEW s \in SubsetIdx
            PROVE  ~Promise!IsSolution(c, s)
        <4>1. c < Space
          BY DEF Counters
        <4> QED
          BY <2>1, <4>1 DEF NoSolutionBelow, Promise!IsSolution
      <3> QED
        BY <3>1 DEF Counters, SubsetIdx, Promise!Counters, Promise!SubsetIdx
    <2>3. Promise!AdmitNone
      BY <1>1, <1>5, <2>2 DEF Promise!AdmitNone, Status, Solution, Ended
    <2> QED
      BY <2>3
  <1>6. CASE pc \notin Ended /\ pc' = "found"
    <2> DEFINE c == result'.counter
               s == result'.subset
    <2>1. /\ c \in pinHits /\ s \in SubsetIdx /\ <<c, s>> \in subHits
          /\ NoSolutionBelow(c)
          /\ \A t \in 0 .. s - 1 : <<c, t>> \notin subHits
      BY <1>1, <1>6 DEF IInv, EndInv, NoSolutionBelow
    <2>2. c \in Counters
      BY <1>1, <2>1 DEF IInv, TypeOK
    <2>3. ASSUME NEW d \in Counters, NEW t \in SubsetIdx,
                 Promise!Precedes(d, t, c, s), Promise!IsSolution(d, t)
          PROVE  FALSE
      <3>1. CASE d < c
        BY <1>1, <2>1, <2>3, <3>1 DEF NoSolutionBelow, Promise!IsSolution
      <3>2. CASE d = c /\ t < s
        <4>1. t \in 0 .. s - 1
          BY <2>1, <3>2 DEF SubsetIdx
        <4> QED
          BY <2>1, <2>3, <3>2, <4>1 DEF Promise!IsSolution
      <3> QED
        BY <2>3, <3>1, <3>2 DEF Promise!Precedes
    <2>4. Promise!IsLeastSolution(c, s)
      BY <2>1, <2>3 DEF Promise!IsLeastSolution, Promise!IsSolution, Promise!Counters,
                        Promise!SubsetIdx, Counters, SubsetIdx
    <2>5. Promise!Find
      <3>1. Status = "searching" /\ Status' = "found" /\ Solution' = <<c, s>>
        BY <1>6 DEF Status, Solution, Ended
      <3>2. c \in Promise!Counters /\ s \in Promise!SubsetIdx
        BY <2>1, <2>2 DEF Promise!Counters, Promise!SubsetIdx, Counters, SubsetIdx
      <3> QED
        BY <1>1, <2>4, <3>1, <3>2 DEF Promise!Find
    <2> QED
      BY <2>5
  <1> QED
    BY <1>2, <1>3, <1>4, <1>5, <1>6 DEF Ended

(* The phase 2 lifecycle search implements SolutionSearch: it returns the  *)
(* least solution or truthfully reports why it has none.                   *)
THEOREM Refinement == Spec => FindsLeastSolution
  <1>1. Spec => []IInv
    BY Invariance
  <1>2. Init => Promise!Init
    BY PromiseInit
  <1>3. IInv /\ IInv' /\ [Next]_vars => [Promise!Next]_(Promise!vars)
    BY PromiseStep
  <1> QED
    BY <1>1, <1>2, <1>3, PTL DEF Spec, FindsLeastSolution, Promise!Spec
=============================================================================
