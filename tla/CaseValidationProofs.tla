----------------------- MODULE CaseValidationProofs -----------------------
(* The verdicts of a run, for any list of cases, any oracle and any number *)
(* of errors and replays.                                                  *)
EXTENDS CaseValidation, FiniteSetTheorems, TLAPS

USE ExpectedAssumption, BoundAssumption

N == Len(Expected)
FundedBlock(c) == [case |-> c, parent |-> <<>>]
BlocksBelow(c) == {FundedBlock(k) : k \in 1 .. c - 1}

(* An accepted spend is one consensus accepts, in a block of its own on the*)
(* funded tip; a rejected one is not, or the node failed it otherwise.     *)
Justified(c, accepted, block, file) ==
    IF accepted
    THEN c \in scriptOK /\ block = FundedBlock(c) /\ file = FundedBlock(c)
    ELSE c \notin scriptOK \/ TimesFailed(c) >= 1

(* The list of rows follows the case counter.                              *)
CountInv ==
    /\ step \in {"start", "mine", "confirm", "invalidate", "record"} =>
         Len(rows) = case - 1 /\ ~complete
    /\ step = "replay" \/ complete => Len(rows) = N
    /\ Len(rows) <= N
    /\ step = "complete" => complete

(* The chain is the funded one between cases, and one block longer between *)
(* mine() and invalidateblock; only blocks of earlier cases are invalid.   *)
ChainInv ==
    /\ step \in {"start", "mine", "replay"} =>
         node.chain = <<>> /\ node.invalid \subseteq BlocksBelow(case)
    /\ step \in {"confirm", "invalidate"} =>
         /\ node.chain = <<FundedBlock(case)>>
         /\ node.invalid \subseteq BlocksBelow(case)
         /\ case \in scriptOK /\ row.accepted /\ row.block = FundedBlock(case)
    /\ step = "invalidate" => files[case] = FundedBlock(case)
    /\ step = "record" =>
         node.chain = <<>> /\ node.invalid \subseteq BlocksBelow(case + 1)

(* Every row is justified, the one under construction too; while the run   *)
(* goes on all of them are as expected.                                    *)
RowsInv ==
    /\ \A k \in DOMAIN rows : Justified(k, rows[k].accepted, rows[k].block, files[k])
    /\ step = "start" \/ step = "mine" => ~row.accepted
    /\ step \in {"mine", "confirm", "invalidate", "record"} => row.native = (case \in nativeOK)
    /\ step = "record" => Justified(case, row.accepted, row.block, files[case])
    /\ step # "failed" \/ complete =>
         \A k \in DOMAIN rows :
            rows[k].accepted = Expected[k] /\ (k \in nativeOK) = Expected[k]

(* The replay before results.json has re-tested the cases it is past.      *)
Retested(k) == rows[k].accepted \/ k \notin scriptOK \/ TimesFailed(k) >= 2

ReplayInv ==
    driver = "phase2" =>
        /\ step = "replay" => \A k \in 1 .. case - 1 : Retested(k)
        /\ complete => \A k \in 1 .. N : Retested(k)

FailureInv ==
    /\ failure \notin {"tip", "inactive"}
    /\ failure = "replay" => TimesFailed(case) >= 1 /\ step = "failed"
    /\ step # "failed" => failure = "none"

Inv == TypeOK /\ CountInv /\ ChainInv /\ RowsInv /\ ReplayInv /\ FailureInv

-----------------------------------------------------------------------------
(* Occurrences counts, and one more error of d counts once, for d only.    *)
LEMMA OccurrencesType ==
    ASSUME NEW S, NEW s \in Seq(S), NEW c
    PROVE  Occurrences(s, c) \in Nat /\ IsFiniteSet({k \in DOMAIN s : s[k] = c})
<1>1. IsFiniteSet(1 .. Len(s))
    BY FS_Interval
<1>2. {k \in DOMAIN s : s[k] = c} \subseteq 1 .. Len(s)
    OBVIOUS
<1>3. IsFiniteSet({k \in DOMAIN s : s[k] = c})
    BY <1>1, <1>2, FS_Subset
<1> QED BY <1>3, FS_CardinalityType DEF Occurrences

(* Appending an element adds one to its own count and to no other.         *)
LEMMA OccurrencesAppend ==
    ASSUME NEW S, NEW s \in Seq(S), NEW c, NEW d \in S
    PROVE  Occurrences(Append(s, d), c) = Occurrences(s, c) + (IF c = d THEN 1 ELSE 0)
<1> DEFINE t == Append(s, d)
           At(q) == {k \in DOMAIN q : q[k] = c}
<1>0. /\ DOMAIN s = 1 .. Len(s) /\ DOMAIN t = 1 .. Len(s) + 1
      /\ \A k \in 1 .. Len(s) : t[k] = s[k]
      /\ t[Len(s) + 1] = d /\ Len(s) \in Nat
    OBVIOUS
<1>a. Occurrences(Append(s, d), c) = Cardinality(At(t)) /\ Occurrences(s, c) = Cardinality(At(s))
    BY DEF Occurrences
<1>b. Cardinality(At(s)) \in Nat /\ IsFiniteSet(At(s))
    BY OccurrencesType DEF Occurrences
<1>1. CASE c = d
  <2>1. At(t) = At(s) \union {Len(s) + 1}
      BY <1>0, <1>1
  <2>2. Len(s) + 1 \notin At(s)
      BY <1>0
  <2>3. Cardinality(At(t)) = Cardinality(At(s)) + 1
      BY <2>1, <2>2, <1>b, FS_AddElement
  <2> HIDE DEF At, t
  <2> QED BY <2>3, <1>1, <1>a
<1>2. CASE c # d
  <2>1. At(t) = At(s)
      BY <1>0, <1>2
  <2>2. Cardinality(At(t)) = Cardinality(At(s))
      BY <2>1
  <2> HIDE DEF At, t
  <2> QED BY <2>2, <1>2, <1>a, <1>b
<1> QED BY <1>1, <1>2

(* The node operators on the funded tip and one block above it.            *)
LEMMA MineOnTip ==
    ASSUME NEW n \in Nodes, n.chain = <<>>, NEW c \in Cases
    PROVE  /\ BlockOf(n, c) = FundedBlock(c)
           /\ AfterMine(n, c) \in Nodes
           /\ AfterMine(n, c).chain = <<FundedBlock(c)>>
           /\ AfterMine(n, c).invalid = n.invalid
<1>1. BlockOf(n, c) = FundedBlock(c) /\ FundedBlock(c) \in Blocks
    BY DEF BlockOf, FundedBlock, Blocks
<1>2. AfterMine(n, c) = [chain |-> <<FundedBlock(c)>>, invalid |-> n.invalid]
    BY <1>1 DEF AfterMine, Extended, Nodes
<1> QED BY <1>1, <1>2 DEF Nodes

(* Invalidating the block above the funded tip restores the funded chain.  *)
LEMMA InvalidateTip ==
    ASSUME NEW n \in Nodes, NEW c \in Cases, n.chain = <<FundedBlock(c)>>
    PROVE  /\ AfterInvalidate(n, FundedBlock(c)) \in Nodes
           /\ AfterInvalidate(n, FundedBlock(c)).chain = <<>>
           /\ AfterInvalidate(n, FundedBlock(c)).invalid = n.invalid \union {FundedBlock(c)}
<1>1. n.chain[1] = FundedBlock(c) /\ 1 \in DOMAIN n.chain
    OBVIOUS
<1>2. FundedBlock(c).parent = <<>> /\ FundedBlock(c) \in Blocks
    BY DEF FundedBlock, Blocks
<1>3. AfterInvalidate(n, FundedBlock(c)) =
        [chain |-> <<>>, invalid |-> n.invalid \union {FundedBlock(c)}]
    BY <1>1, <1>2 DEF AfterInvalidate
<1> QED BY <1>2, <1>3 DEF Nodes

-----------------------------------------------------------------------------
(* A replayed block connects on the fresh node and is taken back: no case  *)
(* before it left a block, and no invalidated block is its own.            *)
LEMMA AcceptedReplays ==
    ASSUME Inv, ReplayAccepted
    PROVE  /\ rows[case].accepted /\ case \in scriptOK
           /\ node'.chain = <<>> /\ node' \in Nodes
           /\ node'.invalid = node.invalid \union {FundedBlock(case)}
           /\ NextReplay /\ UNCHANGED failure
<1> DEFINE r == rows[case]
           b == FundedBlock(case)
<1>1. /\ step = "replay" /\ r.accepted /\ case \in Cases /\ node \in Nodes
      /\ case \in DOMAIN rows
    BY DEF Inv, TypeOK, CountInv, ReplayAccepted, Cases, N
<1>2. ~NativeDiffers(r)
    BY <1>1 DEF Inv, RowsInv, NativeDiffers
<1>3. case \in scriptOK /\ r.block = b /\ files[case] = b
    BY <1>1 DEF Inv, RowsInv, Justified
<1>4. node.chain = <<>> /\ b \notin node.invalid
  <2>1. node.chain = <<>> /\ node.invalid \subseteq BlocksBelow(case)
      BY <1>1 DEF Inv, ChainInv
  <2>2. b \notin BlocksBelow(case)
    <3> SUFFICES ASSUME NEW k \in 1 .. case - 1 PROVE FundedBlock(k) # b
        BY DEF BlocksBelow
    <3>1. k # case
        BY <1>1 DEF Cases
    <3>2. FundedBlock(k).case = k /\ b.case = case
        BY DEF FundedBlock
    <3> QED BY <3>1, <3>2
  <2> QED BY <2>1, <2>2
<1>5. Takes(node, b, scriptOK)
    BY <1>3, <1>4 DEF Takes, Connects, AtBaseTip, FundedBlock
<1>6. /\ AfterSubmit(node, b, scriptOK).chain = <<b>>
      /\ AfterSubmit(node, b, scriptOK).invalid = node.invalid
      /\ AfterSubmit(node, b, scriptOK) \in Nodes
  <2>1. BlockOf(node, case) = b
      BY <1>1, <1>4, MineOnTip
  <2>2. AfterSubmit(node, b, scriptOK) = AfterMine(node, case)
      BY <1>5, <2>1 DEF AfterSubmit, AfterMine
  <2> QED BY <1>1, <1>4, <2>2, MineOnTip
<1>7. Reconnects(r)
    BY <1>3, <1>5, <1>6 DEF Reconnects, IsBestBlock
<1>8. node' = TakenBack(r.block) /\ NextReplay /\ UNCHANGED failure
    BY <1>2, <1>7 DEF ReplayAccepted
<1>9. TakenBack(r.block) = AfterInvalidate(AfterSubmit(node, b, scriptOK), b)
    BY <1>3 DEF TakenBack
<1>10. /\ node'.chain = <<>> /\ node' \in Nodes
       /\ node'.invalid = node.invalid \union {b}
  <2> DEFINE n == AfterSubmit(node, b, scriptOK)
  <2>1. n \in Nodes /\ n.chain = <<FundedBlock(case)>> /\ n.invalid = node.invalid
      BY <1>6
  <2> HIDE DEF n
  <2>2. /\ AfterInvalidate(n, FundedBlock(case)) \in Nodes
        /\ AfterInvalidate(n, FundedBlock(case)).chain = <<>>
        /\ AfterInvalidate(n, FundedBlock(case)).invalid = n.invalid \union {FundedBlock(case)}
      BY <1>1, <2>1, InvalidateTip
  <2> QED BY <1>8, <1>9, <2>1, <2>2 DEF n
<1> QED BY <1>1, <1>3, <1>8, <1>10

(* replay() goes on to the next row, or ends: its counters stay in range.  *)
LEMMA NextReplayForm ==
    ASSUME Inv, step = "replay", NextReplay
    PROVE  /\ \/ /\ case = N /\ step' = "complete" /\ complete' = TRUE /\ case' = case
              \/ /\ case < N /\ step' = "replay" /\ complete' = complete /\ case' = case + 1
           /\ case' \in Cases /\ step' \in {"replay", "complete"} /\ complete' \in BOOLEAN
<1>1. Len(rows) = N /\ case \in 1 .. N /\ N \in Nat /\ Cases = 1 .. N /\ complete \in BOOLEAN
    BY DEF Inv, CountInv, TypeOK, Cases, N
<1>2. CASE case = N
    BY <1>1, <1>2 DEF NextReplay, WriteResults
<1>3. CASE case # N
    BY <1>1, <1>3 DEF NextReplay
<1> QED BY <1>2, <1>3

(* The row validate() starts from, before and after the native verdict.    *)
LEMMA NativeRow ==
    ASSUME NEW c, NEW S
    PROVE  NoRow \in Rows /\ [NoRow EXCEPT !.native = c \in S] \in Rows
<1>1. NoRow \in Rows /\ \A v \in BOOLEAN : [NoRow EXCEPT !.native = v] \in Rows
    BY DEF NoRow, Rows
<1>2. CASE c \in S
  <2>1. (c \in S) = TRUE BY <1>2
  <2> QED BY <1>1, <2>1
<1>3. CASE c \notin S
  <2>1. (c \in S) = FALSE BY <1>3
  <2> QED BY <1>1, <2>1
<1> QED BY <1>2, <1>3

(* The run begins with no row and an untouched chain.                      *)
LEMMA InitInv == Init => Inv
<1> SUFFICES ASSUME Init PROVE Inv
    OBVIOUS
<1>1. TypeOK
  <2>1. N \in Nat \ {0} /\ Cases = 1 .. N
      BY DEF N, Cases
  <2>2. FundedTip \in Nodes /\ NoRow \in Rows
      BY DEF FundedTip, Nodes, NoRow, Rows
  <2>3. <<>> \in Seq(Rows) /\ <<>> \in Seq(Cases) /\ Len(<<>>) = 0
      OBVIOUS
  <2>4. files \in [Cases -> Blocks \union {NoBlock}]
      BY DEF Init
  <2>5. case \in Cases
      BY <2>1 DEF Init
  <2>6. errors = <<>> /\ replays = 0 /\ complete = FALSE
      BY DEF Init
  <2>7. Len(errors) <= MaxErrors
    <3>1. Len(errors) = 0 /\ MaxErrors \in Nat
        BY <2>3, <2>6
    <3> QED BY <3>1
  <2>8. replays \in 0 .. MaxReplays
    <3>1. MaxReplays \in Nat /\ replays = 0
        BY <2>6
    <3> QED BY <3>1
  <2>9. complete \in BOOLEAN
      BY <2>6
  <2> QED BY <2>2, <2>3, <2>4, <2>5, <2>7, <2>8, <2>9 DEF Init, TypeOK
<1>2. CountInv BY DEF Init, CountInv, N
<1>3. ChainInv BY DEF Init, ChainInv, FundedTip
<1>4. RowsInv BY DEF Init, RowsInv, NoRow
<1>5. ReplayInv BY DEF Init, ReplayInv
<1>6. FailureInv BY DEF Init, FailureInv
<1> QED BY <1>1, <1>2, <1>3, <1>4, <1>5, <1>6 DEF Inv

(* Every action keeps the state well formed.                               *)
LEMMA StepTypes == Inv /\ [Next]_vars => TypeOK'
<1> SUFFICES ASSUME Inv, [Next]_vars PROVE TypeOK'
    OBVIOUS
<1>t. TypeOK /\ CountInv /\ ChainInv
    BY DEF Inv
<1>n. N \in Nat \ {0} /\ Cases = 1 .. N /\ \A c \in Cases : FundedBlock(c) \in Blocks
    BY DEF N, Cases, FundedBlock, Blocks
<1> USE <1>t, <1>n DEF TypeOK, oracle, Stopped
<1>1. CASE Start
  <2>1. row' \in Rows
    <3>2. [NoRow EXCEPT !.native = case \in nativeOK] \in Rows
        BY NativeRow
    <3>3. row' \in {row, [NoRow EXCEPT !.native = case \in nativeOK]}
        BY <1>1 DEF Start
    <3> QED BY <3>2, <3>3
  <2>2. step' \in {"mine", "failed"} /\ failure' \in {failure, "tip"}
      BY <1>1 DEF Start, Fail
  <2> QED BY <1>1, <2>1, <2>2 DEF Start
<1>2. CASE Mine
  <2>1. node.chain = <<>> BY <1>2 DEF Mine, ChainInv
  <2>2. AfterMine(node, case) \in Nodes /\ BlockOf(node, case) \in Blocks
      BY <2>1, MineOnTip
  <2> QED BY <1>2, <2>2 DEF Mine, Rows
<1>3. CASE MineGlitch
  <2>1. errors' \in Seq(Cases) /\ Len(errors') <= MaxErrors
      BY <1>3 DEF MineGlitch, Glitch
  <2> QED BY <1>3, <2>1 DEF MineGlitch
<1>4. CASE Confirm
    BY <1>4 DEF Confirm, SaveBlock, Fail, Rows
<1>5. CASE Invalidate
  <2>1. AfterInvalidate(node, row.block) \in Nodes
      BY <1>5, InvalidateTip DEF Invalidate, ChainInv
  <2> QED BY <1>5, <2>1 DEF Invalidate, Restored
<1>6. CASE Record
  <2>1. FundedTip \in Nodes /\ NoRow \in Rows
      BY DEF FundedTip, Nodes, NoRow, Rows
  <2>2. rows' \in Seq(Rows) /\ row' \in Rows
      BY <1>6, <2>1 DEF Record
  <2>3. CASE ~AsExpected(row)
      BY <1>6, <2>2, <2>3 DEF Record, Fail
  <2>4. CASE AsExpected(row) /\ IsLast(case)
    <3>1. EndOfCases /\ UNCHANGED failure
        BY <1>6, <2>4 DEF Record
    <3>2. 1 \in Cases /\ step' \in {"replay", "complete"}
        BY <3>1 DEF EndOfCases, BeginReplay, WriteResults
    <3>3. case' \in Cases /\ node' \in Nodes /\ complete' \in BOOLEAN
        BY <2>1, <3>1, <3>2 DEF EndOfCases, BeginReplay, WriteResults
    <3> QED BY <1>6, <2>2, <3>1, <3>2, <3>3 DEF Record
  <2>5. CASE AsExpected(row) /\ ~IsLast(case)
    <3>1. case' \in Cases
        BY <1>6, <2>5 DEF Record, IsLast, N
    <3> QED BY <1>6, <2>2, <2>5, <3>1 DEF Record
  <2> QED BY <2>3, <2>4, <2>5
<1>7. CASE ReplayAccepted
  <2>1. node' \in Nodes /\ UNCHANGED failure /\ step = "replay" /\ NextReplay
      BY <1>7, AcceptedReplays DEF ReplayAccepted
  <2>2. case' \in Cases /\ step' \in {"replay", "complete"} /\ complete' \in BOOLEAN
      BY <2>1, NextReplayForm
  <2> QED BY <1>7, <2>1, <2>2 DEF ReplayAccepted
<1>8. CASE ReplayRejected
  <2>1. CASE step' = "failed" /\ failure' = "replay" /\ UNCHANGED <<node, case, complete>>
      BY <1>8, <2>1 DEF ReplayRejected
  <2>2. CASE NextReplay /\ UNCHANGED <<node, failure>>
    <3>1. case' \in Cases /\ step' \in {"replay", "complete"} /\ complete' \in BOOLEAN
        BY <1>8, <2>2, NextReplayForm DEF ReplayRejected
    <3> QED BY <1>8, <2>2, <3>1 DEF ReplayRejected
  <2> QED BY <1>8, <2>1, <2>2 DEF ReplayRejected, ReplayMismatch, Fail
<1>9. CASE ReplayGlitch
  <2>1. case' \in Cases /\ step' \in {"replay", "complete"} /\ complete' \in BOOLEAN
      BY <1>9, NextReplayForm DEF ReplayGlitch
  <2>2. errors' \in Seq(Cases) /\ Len(errors') <= MaxErrors
      BY <1>9 DEF ReplayGlitch, Glitch
  <2> QED BY <1>9, <2>1, <2>2 DEF ReplayGlitch
<1>10. CASE ReplayAgain
  <2>1. FundedTip \in Nodes /\ 1 \in Cases
      BY DEF FundedTip, Nodes
  <2>2. replays' \in 0 .. MaxReplays
      BY <1>10 DEF ReplayAgain
  <2> QED BY <1>10, <2>1, <2>2 DEF ReplayAgain, BeginReplay
<1>11. CASE Interrupt
    BY <1>11 DEF Interrupt, Fail
<1>12. CASE UNCHANGED vars
    BY <1>12 DEF vars
<1> QED BY <1>1, <1>2, <1>3, <1>4, <1>5, <1>6, <1>7, <1>8, <1>9, <1>10, <1>11, <1>12
        DEF Next, Progress

(* Every action keeps the row count in step with the case counter.         *)
LEMMA StepCount == Inv /\ [Next]_vars => CountInv'
<1> SUFFICES ASSUME Inv, [Next]_vars PROVE CountInv'
    OBVIOUS
<1>t. CountInv /\ case \in 1 .. N /\ N \in Nat /\ rows \in Seq(Rows) /\ Len(rows) \in Nat /\ row \in Rows
    BY DEF Inv, TypeOK, N, Cases
<1> USE <1>t DEF CountInv
<1>1. CASE Start
    BY <1>1 DEF Start, Fail
<1>2. CASE Mine
    BY <1>2 DEF Mine
<1>3. CASE MineGlitch
    BY <1>3 DEF MineGlitch
<1>4. CASE Confirm
    BY <1>4 DEF Confirm, Fail
<1>5. CASE Invalidate
    BY <1>5 DEF Invalidate
<1>6. CASE Record
  <2>1. Len(rows') = case /\ ~complete
      BY <1>6 DEF Record
  <2>2. CASE ~AsExpected(row)
      BY <1>6, <2>1, <2>2 DEF Record, Fail
  <2>3. CASE AsExpected(row) /\ IsLast(case)
    <3>1. EndOfCases /\ case = N
        BY <1>6, <2>3 DEF Record, IsLast, N
    <3> QED BY <2>1, <3>1 DEF EndOfCases, BeginReplay, WriteResults
  <2>4. CASE AsExpected(row) /\ ~IsLast(case)
      BY <1>6, <2>1, <2>4 DEF Record, IsLast, N
  <2> QED BY <2>2, <2>3, <2>4
<1>7. CASE ReplayAccepted
  <2>1. NextReplay /\ step = "replay" /\ UNCHANGED rows
      BY <1>7, AcceptedReplays DEF ReplayAccepted
  <2> QED BY <2>1, NextReplayForm
<1>8. CASE ReplayRejected
  <2>1. CASE ReplayMismatch
      BY <1>8, <2>1 DEF ReplayRejected, ReplayMismatch, Fail
  <2>2. CASE NextReplay
      BY <1>8, <2>2, NextReplayForm DEF ReplayRejected
  <2> QED BY <1>8, <2>1, <2>2 DEF ReplayRejected
<1>9. CASE ReplayGlitch
    BY <1>9, NextReplayForm DEF ReplayGlitch
<1>10. CASE ReplayAgain
    BY <1>10 DEF ReplayAgain, BeginReplay
<1>11. CASE Interrupt
    BY <1>11 DEF Interrupt, Fail
<1>12. CASE UNCHANGED vars
    BY <1>12 DEF vars
<1> QED BY <1>1, <1>2, <1>3, <1>4, <1>5, <1>6, <1>7, <1>8, <1>9, <1>10, <1>11, <1>12
        DEF Next, Progress

(* The blocks of earlier cases, once the case counter has moved on.        *)
LEMMA BlocksAbove ==
    ASSUME NEW c \in Nat
    PROVE  BlocksBelow(c + 1) = BlocksBelow(c) \union (IF c = 0 THEN {} ELSE {FundedBlock(c)})
<1>1. 1 .. (c + 1) - 1 = (1 .. c - 1) \union (IF c = 0 THEN {} ELSE {c})
    OBVIOUS
<1> QED BY <1>1 DEF BlocksBelow

(* Every action restores or extends the chain as ChainInv says.            *)
LEMMA StepChain == Inv /\ [Next]_vars => ChainInv'
<1> SUFFICES ASSUME Inv, [Next]_vars PROVE ChainInv'
    OBVIOUS
<1>t. /\ ChainInv /\ case \in Nat \ {0} /\ case \in Cases /\ node \in Nodes
      /\ files \in [Cases -> Blocks \union {NoBlock}] /\ row \in Rows
    BY DEF Inv, TypeOK, Cases
<1>b. BlocksBelow(case + 1) = BlocksBelow(case) \union {FundedBlock(case)}
    BY <1>t, BlocksAbove
<1> USE <1>t DEF ChainInv
<1>1. CASE Start
    BY <1>1 DEF Start, Fail, AtBaseTip
<1>2. CASE Mine
  <2>1. node.chain = <<>> /\ node.invalid \subseteq BlocksBelow(case) /\ step = "mine"
      BY <1>2 DEF Mine
  <2>2. CASE Mines(node, case, scriptOK)
    <3>1. node'.chain = <<FundedBlock(case)>> /\ node'.invalid = node.invalid
        BY <1>2, <2>1, <2>2, MineOnTip DEF Mine
    <3>2. row'.accepted /\ row'.block = FundedBlock(case)
        BY <1>2, <2>1, <2>2, MineOnTip DEF Mine, Rows
    <3>3. case \in scriptOK /\ step' = "confirm" /\ UNCHANGED <<case, scriptOK>>
        BY <1>2, <2>2 DEF Mine, Mines, Connects, oracle
    <3> QED BY <2>1, <3>1, <3>2, <3>3
  <2>3. CASE ~Mines(node, case, scriptOK)
      BY <1>2, <1>b, <2>1, <2>3 DEF Mine
  <2> QED BY <2>2, <2>3
<1>3. CASE MineGlitch
    BY <1>3, <1>b DEF MineGlitch
<1>4. CASE Confirm
  <2>1. step' \in {"invalidate", "failed"} /\ UNCHANGED <<node, row, case, scriptOK>>
      BY <1>4 DEF Confirm, Fail, oracle
  <2>2. step' = "invalidate" => files'[case] = FundedBlock(case)
      BY <1>4 DEF Confirm, Fail, SaveBlock
  <2> QED BY <1>4, <2>1, <2>2 DEF Confirm
<1>5. CASE Invalidate
  <2>1. node' = AfterInvalidate(node, FundedBlock(case)) /\ step' = "record" /\ case' = case
      BY <1>5 DEF Invalidate, Restored
  <2>2. node'.chain = <<>> /\ node'.invalid = node.invalid \union {FundedBlock(case)}
      BY <1>5, <2>1, InvalidateTip DEF Invalidate
  <2> QED BY <1>5, <1>b, <2>1, <2>2 DEF Invalidate
<1>6. CASE Record
  <2>1. CASE ~AsExpected(row)
      BY <1>6, <2>1 DEF Record, Fail
  <2>2. CASE AsExpected(row) /\ IsLast(case)
      BY <1>6, <2>2 DEF Record, EndOfCases, BeginReplay, WriteResults, FundedTip
  <2>3. CASE AsExpected(row) /\ ~IsLast(case)
      BY <1>6, <2>3 DEF Record
  <2> QED BY <2>1, <2>2, <2>3
<1>7. CASE ReplayAccepted
  <2>1. /\ node'.chain = <<>> /\ node'.invalid = node.invalid \union {FundedBlock(case)}
        /\ NextReplay /\ step = "replay"
      BY <1>7, AcceptedReplays DEF ReplayAccepted
  <2>2. step' = "complete" \/ (step' = "replay" /\ case' = case + 1)
      BY <2>1, NextReplayForm
  <2> QED BY <1>b, <2>1, <2>2
<1>8. CASE ReplayRejected
  <2>1. CASE ReplayMismatch
      BY <1>8, <2>1 DEF ReplayRejected, ReplayMismatch, Fail
  <2>2. CASE NextReplay /\ UNCHANGED node
    <3>1. step' = "complete" \/ (step' = "replay" /\ case' = case + 1)
        BY <1>8, <2>2, NextReplayForm DEF ReplayRejected
    <3> QED BY <1>8, <1>b, <2>2, <3>1 DEF ReplayRejected
  <2> QED BY <1>8, <2>1, <2>2 DEF ReplayRejected
<1>9. CASE ReplayGlitch
  <2>1. step' = "complete" \/ (step' = "replay" /\ case' = case + 1)
      BY <1>9, NextReplayForm DEF ReplayGlitch
  <2> QED BY <1>9, <1>b, <2>1 DEF ReplayGlitch
<1>10. CASE ReplayAgain
    BY <1>10 DEF ReplayAgain, BeginReplay, FundedTip
<1>11. CASE Interrupt
    BY <1>11 DEF Interrupt, Fail
<1>12. CASE UNCHANGED vars
    BY <1>12 DEF vars
<1> QED BY <1>1, <1>2, <1>3, <1>4, <1>5, <1>6, <1>7, <1>8, <1>9, <1>10, <1>11, <1>12
        DEF Next, Progress

(* Errors are only added: a count never goes down, and the case whose mine *)
(* failed otherwise counts one more.                                       *)
LEMMA ErrorsGrow ==
    ASSUME Inv, [Next]_vars, NEW c
    PROVE  /\ TimesFailed(c) \in Nat /\ TimesFailed(c)' \in Nat
           /\ TimesFailed(c)' >= TimesFailed(c)
           /\ MineGlitch \/ ReplayGlitch =>
                Occurrences(errors', case) = Occurrences(errors, case) + 1
<1>1. errors \in Seq(Cases) /\ case \in Cases
    BY DEF Inv, TypeOK
<1>2. \A k : Occurrences(errors, k) \in Nat
    BY <1>1, OccurrencesType
<1>3. CASE UNCHANGED errors /\ ~(MineGlitch \/ ReplayGlitch)
    BY <1>2, <1>3 DEF TimesFailed
<1>4. CASE MineGlitch \/ ReplayGlitch
  <2>1. errors' = Append(errors, case)
      BY <1>4 DEF MineGlitch, ReplayGlitch, Glitch
  <2>2. \A k : Occurrences(errors', k) = Occurrences(errors, k) + (IF k = case THEN 1 ELSE 0)
      BY <1>1, <2>1, OccurrencesAppend
  <2>3. \/ Occurrences(errors', c) = Occurrences(errors, c) + 1
        \/ Occurrences(errors', c) = Occurrences(errors, c) + 0
    <3>1. CASE c = case
        BY <2>2, <3>1
    <3>2. CASE c # case
        BY <2>2, <3>2
    <3> QED BY <3>1, <3>2
  <2> QED BY <1>2, <2>2, <2>3 DEF TimesFailed
<1>5. UNCHANGED errors \/ MineGlitch \/ ReplayGlitch
    BY DEF Next, Progress, Start, Mine, Confirm, Invalidate, Record, ReplayAccepted,
           ReplayRejected, ReplayAgain, Interrupt, vars
<1> QED BY <1>3, <1>4, <1>5

(* The rows a step leaves alone, and their files, stay justified.          *)
LEMMA RowsStayJustified ==
    ASSUME Inv, [Next]_vars,
           NEW k \in DOMAIN rows, rows'[k] = rows[k], files'[k] = files[k]
    PROVE  Justified(k, rows[k].accepted, rows[k].block, files[k])'
<1>1. rows[k] \in Rows
    BY DEF Inv, TypeOK
<1>2. Justified(k, rows[k].accepted, rows[k].block, files[k])
    BY DEF Inv, RowsInv
<1>3. scriptOK' = scriptOK
    BY DEF Next, Progress, Start, Mine, MineGlitch, Confirm, Invalidate, Record, ReplayAccepted,
           ReplayRejected, ReplayGlitch, ReplayAgain, Interrupt, vars, oracle
<1>4. TimesFailed(k) \in Nat /\ TimesFailed(k)' \in Nat /\ TimesFailed(k)' >= TimesFailed(k)
    BY ErrorsGrow
<1>5. CASE rows[k].accepted
    BY <1>2, <1>3, <1>5 DEF Justified
<1>6. CASE ~rows[k].accepted
    BY <1>2, <1>3, <1>4, <1>6 DEF Justified
<1> QED BY <1>5, <1>6

(* replay() and interrupts change neither rows nor files.                  *)
LEMMA SettledStays ==
    ASSUME Inv, [Next]_vars, UNCHANGED <<rows, files>>,
           step' \notin {"start", "mine", "confirm", "invalidate", "record"},
           step' # "failed" \/ complete' => step # "failed" \/ complete
    PROVE  RowsInv'
<1>1. UNCHANGED nativeOK
    BY DEF Next, Progress, Start, Mine, MineGlitch, Confirm, Invalidate, Record, ReplayAccepted,
           ReplayRejected, ReplayGlitch, ReplayAgain, Interrupt, vars, oracle
<1>2. \A k \in DOMAIN rows : Justified(k, rows[k].accepted, rows[k].block, files[k])'
    BY RowsStayJustified
<1>3. step' # "failed" \/ complete' =>
         \A k \in DOMAIN rows :
            rows[k].accepted = Expected[k] /\ (k \in nativeOK) = Expected[k]
    BY DEF Inv, RowsInv
<1>4. \A k \in DOMAIN rows' : Justified(k, rows[k].accepted, rows[k].block, files[k])'
    BY <1>2
<1>5. step' # "failed" \/ complete' =>
         \A k \in DOMAIN rows' :
            rows'[k].accepted = Expected[k] /\ (k \in nativeOK') = Expected[k]
    BY <1>1, <1>3
<1> QED BY <1>4, <1>5 DEF RowsInv

(* Every action keeps the rows justified and, while the run goes on, as    *)
(* expected.                                                               *)
LEMMA StepRows == Inv /\ [Next]_vars => RowsInv'
<1> SUFFICES ASSUME Inv, [Next]_vars PROVE RowsInv'
    OBVIOUS
<1>t. /\ CountInv /\ ChainInv /\ RowsInv /\ case \in 1 .. N /\ N \in Nat /\ Cases = 1 .. N
      /\ rows \in Seq(Rows) /\ row \in Rows /\ files \in [Cases -> Blocks \union {NoBlock}]
      /\ DOMAIN rows = 1 .. Len(rows) /\ Len(rows) \in Nat
    BY DEF Inv, TypeOK, N, Cases
<1>1. CASE Start
  <2>1. \A k \in DOMAIN rows : Justified(k, rows[k].accepted, rows[k].block, files[k])'
      BY <1>1, RowsStayJustified DEF Start
  <2>2. step' \in {"mine", "failed"} /\ ~complete /\ UNCHANGED <<rows, files, complete, nativeOK, case>>
      BY <1>1, <1>t DEF Start, Fail, CountInv, oracle
  <2>3. step' = "mine" => ~row'.accepted /\ row'.native = (case \in nativeOK)
      BY <1>1 DEF Start, Fail, NoRow
  <2> QED BY <1>1, <1>t, <2>1, <2>2, <2>3 DEF RowsInv, Start
<1>2. CASE Mine
  <2>1. \A k \in DOMAIN rows : Justified(k, rows[k].accepted, rows[k].block, files[k])'
      BY <1>2, RowsStayJustified DEF Mine
  <2>2. /\ step = "mine" /\ ~row.accepted /\ row.native = (case \in nativeOK)
        /\ node.chain = <<>>
        /\ UNCHANGED <<rows, files, complete, nativeOK, scriptOK, case>>
      BY <1>2, <1>t DEF Mine, RowsInv, ChainInv, oracle
  <2>3. step' \in {"confirm", "record"} /\ row'.native = row.native
      BY <1>2, <1>t DEF Mine, Rows
  <2>4. step' = "record" => case \notin scriptOK /\ row' = row
      BY <1>2, <2>2 DEF Mine, Mines, Connects, AtBaseTip
  <2>5. step' = "record" => Justified(case, row.accepted, row.block, files[case])'
      BY <2>2, <2>4 DEF Justified
  <2> QED BY <1>t, <2>1, <2>2, <2>3, <2>5 DEF RowsInv
<1>3. CASE MineGlitch
  <2>1. \A k \in DOMAIN rows : Justified(k, rows[k].accepted, rows[k].block, files[k])'
      BY <1>3, RowsStayJustified DEF MineGlitch
  <2>2. /\ step = "mine" /\ step' = "record" /\ ~row.accepted /\ row.native = (case \in nativeOK)
        /\ UNCHANGED <<row, rows, files, complete, nativeOK, scriptOK, case>>
      BY <1>3, <1>t DEF MineGlitch, RowsInv, oracle
  <2>3. TimesFailed(case)' >= 1
      BY <1>3, <2>2, ErrorsGrow DEF TimesFailed
  <2>4. Justified(case, row.accepted, row.block, files[case])'
      BY <2>2, <2>3 DEF Justified
  <2> QED BY <1>t, <2>1, <2>2, <2>4 DEF RowsInv
<1>4. CASE Confirm
  <2>1. step = "confirm" /\ step' \in {"invalidate", "failed"} /\ ~complete
        /\ UNCHANGED <<row, rows, complete, nativeOK, case>> /\ Len(rows) = case - 1
      BY <1>4, <1>t DEF Confirm, Fail, CountInv, oracle
  <2>2. \A k \in DOMAIN rows : files'[k] = files[k]
    <3>1. \A k \in DOMAIN rows : k # case /\ k \in Cases
        BY <1>t, <2>1
    <3> QED BY <1>4, <1>t, <3>1 DEF Confirm, SaveBlock
  <2>3. \A k \in DOMAIN rows : Justified(k, rows[k].accepted, rows[k].block, files[k])'
      BY <2>1, <2>2, RowsStayJustified
  <2> QED BY <1>t, <2>1, <2>3 DEF RowsInv
<1>5. CASE Invalidate
  <2>1. \A k \in DOMAIN rows : Justified(k, rows[k].accepted, rows[k].block, files[k])'
      BY <1>5, RowsStayJustified DEF Invalidate
  <2>2. /\ step = "invalidate" /\ step' = "record" /\ row.native = (case \in nativeOK)
        /\ row.accepted /\ case \in scriptOK
        /\ row.block = FundedBlock(case) /\ files[case] = FundedBlock(case)
        /\ UNCHANGED <<row, rows, files, complete, nativeOK, scriptOK, case>>
      BY <1>5, <1>t DEF Invalidate, RowsInv, ChainInv, oracle
  <2>3. Justified(case, row.accepted, row.block, files[case])'
      BY <2>2 DEF Justified, FundedBlock
  <2> QED BY <1>t, <2>1, <2>2, <2>3 DEF RowsInv
<1>6. CASE Record
  <2>1. /\ step = "record" /\ Len(rows) = case - 1 /\ ~complete
        /\ rows' = Append(rows, row) /\ UNCHANGED <<files, nativeOK, scriptOK, errors>>
        /\ row.native = (case \in nativeOK)
        /\ row' = NoRow
      BY <1>6, <1>t DEF Record, CountInv, RowsInv, oracle
  <2>2. DOMAIN rows' = 1 .. case /\ rows'[case] = row /\ \A k \in 1 .. case - 1 : rows'[k] = rows[k]
      BY <1>t, <2>1
  <2>3. \A k \in 1 .. case - 1 : Justified(k, rows[k].accepted, rows[k].block, files[k])'
      BY <1>t, <2>1, <2>2, RowsStayJustified
  <2>4. Justified(case, rows'[case].accepted, rows'[case].block, files'[case])
      BY <1>t, <2>1, <2>2 DEF RowsInv
  <2>5. \A k \in DOMAIN rows' : Justified(k, rows[k].accepted, rows[k].block, files[k])'
    <3> SUFFICES ASSUME NEW k \in 1 .. case
                 PROVE  Justified(k, rows[k].accepted, rows[k].block, files[k])'
        BY <2>2
    <3>1. CASE k = case
        BY <2>1, <2>4, <3>1 DEF Justified, TimesFailed
    <3>2. CASE k # case
        BY <1>t, <2>3, <3>2
    <3> QED BY <3>1, <3>2
  <2>6. CASE ~AsExpected(row)
    <3>1. step' = "failed" /\ UNCHANGED complete
        BY <1>6, <2>6 DEF Record, Fail
    <3> QED BY <2>1, <2>5, <3>1 DEF RowsInv
  <2>7. CASE AsExpected(row)
    <3>1. step' \in {"replay", "complete", "start"}
        BY <1>6, <2>7 DEF Record, EndOfCases, BeginReplay, WriteResults
    <3>2. row.accepted = Expected[case] /\ (case \in nativeOK) = Expected[case]
        BY <2>1, <2>7 DEF AsExpected
    <3>3. \A k \in 1 .. case - 1 :
            rows[k].accepted = Expected[k] /\ (k \in nativeOK) = Expected[k]
        BY <1>t, <2>1 DEF RowsInv
    <3>4. \A k \in DOMAIN rows' :
            rows'[k].accepted = Expected[k] /\ (k \in nativeOK') = Expected[k]
      <4> SUFFICES ASSUME NEW k \in 1 .. case
                   PROVE  rows'[k].accepted = Expected[k] /\ (k \in nativeOK) = Expected[k]
          BY <2>1, <2>2
      <4>1. CASE k = case
          BY <2>2, <3>2, <4>1
      <4>2. CASE k # case
          BY <1>t, <2>2, <3>3, <4>2
      <4> QED BY <4>1, <4>2
    <3>5. ~row'.accepted
        BY <2>1 DEF NoRow
    <3> QED BY <2>5, <3>1, <3>4, <3>5 DEF RowsInv
  <2> QED BY <2>6, <2>7
<1>7. CASE ReplayAccepted
  <2>1. NextReplay /\ step = "replay" /\ UNCHANGED <<rows, files>>
      BY <1>7, AcceptedReplays DEF ReplayAccepted
  <2> QED BY <2>1, NextReplayForm, SettledStays
<1>8. CASE ReplayRejected
  <2>1. step = "replay" /\ UNCHANGED <<rows, files>>
      BY <1>8 DEF ReplayRejected
  <2>2. CASE ReplayMismatch
      BY <2>1, <2>2, SettledStays DEF ReplayMismatch, Fail
  <2>3. CASE NextReplay
      BY <2>1, <2>3, NextReplayForm, SettledStays
  <2> QED BY <1>8, <2>2, <2>3 DEF ReplayRejected
<1>9. CASE ReplayGlitch
  <2>1. NextReplay /\ step = "replay" /\ UNCHANGED <<rows, files>>
      BY <1>9 DEF ReplayGlitch
  <2> QED BY <2>1, NextReplayForm, SettledStays
<1>10. CASE ReplayAgain
    BY <1>10, SettledStays DEF ReplayAgain, BeginReplay
<1>11. CASE Interrupt
    BY <1>11, SettledStays DEF Interrupt, Fail
<1>12. CASE UNCHANGED vars
  <2>1. \A k \in DOMAIN rows : Justified(k, rows[k].accepted, rows[k].block, files[k])'
      BY <1>12, RowsStayJustified DEF vars
  <2> QED BY <1>12, <1>t, <2>1 DEF RowsInv, Justified, TimesFailed, vars
<1> QED BY <1>1, <1>2, <1>3, <1>4, <1>5, <1>6, <1>7, <1>8, <1>9, <1>10, <1>11, <1>12
        DEF Next, Progress

(* A case the replay is past stays re-tested while the rows stay.          *)
LEMMA StaysRetested ==
    ASSUME Inv, [Next]_vars, UNCHANGED rows, NEW k, Retested(k)
    PROVE  Retested(k)'
<1>1. scriptOK' = scriptOK
    BY DEF Next, Progress, Start, Mine, MineGlitch, Confirm, Invalidate, Record, ReplayAccepted,
           ReplayRejected, ReplayGlitch, ReplayAgain, Interrupt, vars, oracle
<1>2. TimesFailed(k) \in Nat /\ TimesFailed(k)' \in Nat /\ TimesFailed(k)' >= TimesFailed(k)
    BY ErrorsGrow
<1> QED BY <1>1, <1>2 DEF Retested

(* The replay has re-tested every case it is past: the case it leaves was  *)
(* accepted, is not acceptable, or failed otherwise a second time.         *)
LEMMA StepReplay == Inv /\ [Next]_vars => ReplayInv'
<1> SUFFICES ASSUME Inv, [Next]_vars, driver' = "phase2" PROVE ReplayInv'
    BY DEF ReplayInv
<1>d. driver = "phase2"
    BY DEF Next, Progress, Start, Mine, MineGlitch, Confirm, Invalidate, Record, ReplayAccepted,
           ReplayRejected, ReplayGlitch, ReplayAgain, Interrupt, vars, oracle
<1>t. /\ CountInv /\ case \in 1 .. N /\ N \in Nat /\ Cases = 1 .. N /\ Len(rows) \in Nat
      /\ step = "replay" => \A k \in 1 .. case - 1 : Retested(k)
      /\ complete => \A k \in 1 .. N : Retested(k)
    BY <1>d DEF Inv, TypeOK, N, Cases, ReplayInv
<1>k. UNCHANGED rows => \A k : Retested(k) => Retested(k)'
    BY StaysRetested
<1>1. ASSUME UNCHANGED <<rows, complete>>, step' # "replay"
      PROVE  ReplayInv'
    BY <1>1, <1>t, <1>k DEF ReplayInv
<1>2. ASSUME UNCHANGED rows, step = "replay", NextReplay, \A k : k = case => Retested(k)'
      PROVE  ReplayInv'
  <2>1. \A k \in 1 .. case : Retested(k)'
    <3>1. \A k \in 1 .. case - 1 : Retested(k)'
        BY <1>2, <1>t, <1>k
    <3>2. ASSUME NEW k \in 1 .. case PROVE Retested(k)'
        <4>1. CASE k = case
            BY <1>2, <4>1
        <4>2. CASE k # case
            BY <1>t, <3>1, <4>2
        <4> QED BY <4>1, <4>2
    <3> QED BY <3>2
  <2>2. CASE case = N /\ step' = "complete"
      BY <1>t, <2>1, <2>2 DEF ReplayInv
  <2>3. CASE case < N /\ step' = "replay" /\ complete' = complete /\ case' = case + 1
    <3>1. case' - 1 = case
        BY <1>t, <2>3
    <3> QED BY <1>2, <1>t, <1>k, <2>1, <2>3, <3>1 DEF ReplayInv
  <2> QED BY <1>2, <2>2, <2>3, NextReplayForm
<1>3. CASE Start \/ Mine \/ MineGlitch \/ Confirm \/ Invalidate \/ Interrupt
    BY <1>1, <1>3 DEF Start, Mine, MineGlitch, Confirm, Invalidate, Interrupt, Fail
<1>4. CASE Record
  <2>1. ~complete
      BY <1>4, <1>t DEF Record, CountInv
  <2>2. ~complete' /\ (step' = "replay" => case' = 1)
      BY <1>4, <1>d, <2>1 DEF Record, EndOfCases, BeginReplay, Fail
  <2> QED BY <2>2 DEF ReplayInv
<1>5. CASE ReplayAccepted
  <2>1. rows[case].accepted /\ NextReplay /\ step = "replay" /\ UNCHANGED rows
      BY <1>5, AcceptedReplays DEF ReplayAccepted
  <2>2. \A k : k = case => Retested(k)'
      BY <2>1 DEF Retested
  <2> QED BY <2>1, <2>2, <1>2
<1>6. CASE ReplayRejected
  <2>1. step = "replay" /\ UNCHANGED rows
      BY <1>6 DEF ReplayRejected
  <2>2. CASE ReplayMismatch
      BY <2>1, <2>2, <1>1 DEF ReplayMismatch, Fail
  <2>3. CASE NextReplay /\ ~MinedAfterAll
    <3>1. case \notin scriptOK /\ UNCHANGED scriptOK
        BY <1>6, <2>1, <2>3 DEF Inv, ChainInv, MinedAfterAll, Mines, Connects, AtBaseTip,
                                ReplayRejected, oracle
    <3>2. \A k : k = case => Retested(k)'
        BY <3>1 DEF Retested
    <3> QED BY <2>1, <2>3, <3>2, <1>2
  <2> QED BY <1>6, <2>2, <2>3 DEF ReplayRejected
<1>7. CASE ReplayGlitch
  <2>1. /\ NextReplay /\ step = "replay" /\ ~rows[case].accepted
        /\ UNCHANGED <<rows, scriptOK>>
      BY <1>7 DEF ReplayGlitch, oracle
  <2>2. Justified(case, rows[case].accepted, rows[case].block, files[case])
      BY <1>t, <2>1 DEF Inv, RowsInv, TypeOK, CountInv
  <2>3. case \notin scriptOK \/ TimesFailed(case) >= 1
      BY <2>1, <2>2 DEF Justified
  <2>4. /\ Occurrences(errors', case) = Occurrences(errors, case) + 1
        /\ TimesFailed(case) \in Nat
      BY <1>7, ErrorsGrow
  <2>5. \A k : k = case => Retested(k)'
      BY <2>1, <2>3, <2>4 DEF Retested, TimesFailed
  <2> QED BY <2>1, <2>5, <1>2
<1>8. CASE ReplayAgain
    BY <1>8, <1>t, <1>k DEF ReplayAgain, BeginReplay, ReplayInv
<1>9. CASE UNCHANGED vars
    BY <1>9, <1>t, <1>k DEF vars, ReplayInv
<1> QED BY <1>3, <1>4, <1>5, <1>6, <1>7, <1>8, <1>9 DEF Next, Progress

(* The guards of validate() never fail, and replay() fails only at a case  *)
(* whose mine() failed otherwise in the run.                               *)
LEMMA StepFailure == Inv /\ [Next]_vars => FailureInv'
<1> SUFFICES ASSUME Inv, [Next]_vars PROVE FailureInv'
    OBVIOUS
<1>t. FailureInv /\ \A k : TimesFailed(k) \in Nat
    BY ErrorsGrow DEF Inv
<1> USE DEF FailureInv
<1>1. CASE Start
    BY <1>1, <1>t DEF Start, Fail, Inv, ChainInv, AtBaseTip
<1>2. CASE Mine \/ MineGlitch \/ Invalidate
    BY <1>2, <1>t DEF Mine, MineGlitch, Invalidate
<1>3. CASE Confirm
  <2>1. step = "confirm" /\ node.chain = <<FundedBlock(case)>> /\ row.block = FundedBlock(case)
      BY <1>3 DEF Confirm, Inv, ChainInv
  <2>2. IsBestBlock(node, row.block) /\ row.block.case = case
      BY <2>1 DEF IsBestBlock, FundedBlock
  <2> QED BY <1>3, <1>t, <2>2 DEF Confirm
<1>4. CASE Record
    BY <1>4, <1>t DEF Record, EndOfCases, BeginReplay, WriteResults, Fail
<1>5. CASE ReplayAccepted
  <2>1. NextReplay /\ step = "replay" /\ UNCHANGED failure
      BY <1>5, AcceptedReplays DEF ReplayAccepted
  <2> QED BY <1>t, <2>1, NextReplayForm
<1>6. CASE ReplayRejected
  <2>1. /\ step = "replay" /\ ~rows[case].accepted /\ case \in DOMAIN rows
        /\ UNCHANGED errors
      BY <1>6 DEF ReplayRejected, Inv, TypeOK, CountInv, Cases, N
  <2>2. CASE ReplayMismatch
    <3>1. ~NativeDiffers(rows[case])
        BY <2>1 DEF Inv, RowsInv, NativeDiffers
    <3>2. MinedAfterAll
        BY <1>6, <1>t, <2>1, <2>2, <3>1 DEF ReplayRejected, ReplayMismatch, Fail
    <3>3. case \in scriptOK
        BY <3>2 DEF MinedAfterAll, Mines, Connects
    <3>4. TimesFailed(case) >= 1
        BY <2>1, <3>3 DEF Inv, RowsInv, Justified
    <3> QED BY <2>1, <2>2, <3>4 DEF ReplayMismatch, Fail, TimesFailed
  <2>3. CASE NextReplay /\ UNCHANGED failure
      BY <1>t, <2>1, <2>3, NextReplayForm
  <2> QED BY <1>6, <2>2, <2>3 DEF ReplayRejected
<1>7. CASE ReplayGlitch
  <2>1. NextReplay /\ step = "replay" /\ UNCHANGED failure
      BY <1>7 DEF ReplayGlitch
  <2> QED BY <1>t, <2>1, NextReplayForm
<1>8. CASE ReplayAgain
    BY <1>8 DEF ReplayAgain, BeginReplay
<1>9. CASE Interrupt
    BY <1>9, <1>t DEF Interrupt, Fail, Stopped
<1>10. CASE UNCHANGED vars
    BY <1>10, <1>t DEF vars, TimesFailed
<1> QED BY <1>1, <1>2, <1>3, <1>4, <1>5, <1>6, <1>7, <1>8, <1>9, <1>10 DEF Next, Progress

-----------------------------------------------------------------------------
(* The invariant holds throughout.                                         *)
THEOREM Invariance == Spec => []Inv
<1>1. Inv /\ [Next]_vars => Inv'
    BY StepTypes, StepCount, StepChain, StepRows, StepReplay, StepFailure DEF Inv
<1> QED BY <1>1, InitInv, PTL DEF Spec

(* The state stays well formed.                                            *)
THEOREM TypeCorrect == Spec => []TypeOK
<1>1. Inv => TypeOK BY DEF Inv
<1> QED BY <1>1, Invariance, PTL

(* No case of any run ever sees the block of another: validate()'s guards  *)
(* on the chain cannot fail.                                               *)
THEOREM Independence == Spec => []CasesAreIndependent
<1>1. Inv => CasesAreIndependent BY DEF Inv, FailureInv, CasesAreIndependent
<1> QED BY <1>1, Invariance, PTL

(* A written results.json says what consensus says of every case that mine *)
(* did not fail otherwise, twice in phase 2.                               *)
THEOREM RunIsTrue == Spec => []CompleteRunIsTrue
<1>1. Inv => CompleteRunIsTrue
  <2> SUFFICES ASSUME Inv, complete, NEW c \in Cases
               PROVE  /\ rows[c].accepted = Expected[c]
                      /\ (c \in nativeOK) = Expected[c]
                      /\ (c \in scriptOK) = Expected[c] \/ TimesFailed(c) >= ErrorsToDeceive
      BY DEF CompleteRunIsTrue
  <2>1. c \in DOMAIN rows /\ c \in 1 .. N
      BY DEF Inv, TypeOK, CountInv, Cases, N
  <2>2. rows[c].accepted = Expected[c] /\ (c \in nativeOK) = Expected[c]
      BY <2>1 DEF Inv, RowsInv
  <2>3. Justified(c, rows[c].accepted, rows[c].block, files[c])
      BY <2>1 DEF Inv, RowsInv
  <2>4. Expected[c] \in BOOLEAN
      BY DEF Cases
  <2>5. CASE Expected[c]
      BY <2>2, <2>3, <2>5 DEF Justified
  <2>6. CASE ~Expected[c]
    <3>1. c \notin scriptOK \/ TimesFailed(c) >= ErrorsToDeceive
      <4>1. CASE driver = "phase2"
          BY <2>1, <2>2, <2>6, <4>1 DEF Inv, ReplayInv, Retested, ErrorsToDeceive
      <4>2. CASE driver # "phase2"
          BY <2>2, <2>3, <2>6, <4>2 DEF Justified, ErrorsToDeceive
      <4> QED BY <4>1, <4>2
    <3> QED BY <2>2, <2>4, <2>6, <3>1
  <2> QED BY <2>4, <2>5, <2>6
<1> QED BY <1>1, Invariance, PTL

(* A saved run replays, but for cases whose mine failed otherwise.         *)
THEOREM Reproduces == Spec => []ReplayReproduces
<1>1. Inv => ReplayReproduces BY DEF Inv, FailureInv, ReplayReproduces
<1> QED BY <1>1, Invariance, PTL
=============================================================================
