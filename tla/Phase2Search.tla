---------------------------- MODULE Phase2Search ----------------------------
(***************************************************************************)
(* The phase 2 lifecycle search (btc_pq/phase2.py, class Search, and the   *)
(* retry loop of lifecycle()).                                             *)
(*                                                                         *)
(* pin() walks the 31-bit sequence counter of the transaction's second     *)
(* input until the pinning puzzle passes; subsets() then walks the         *)
(* lexicographic subsets of the public table for that pinned transaction.  *)
(* If no subset passes, lifecycle() pins again from the next counter.  One *)
(* deadline covers the whole lifecycle; the candidate limit applies to     *)
(* each call.  The clock is read only once per Interval candidates.        *)
(*                                                                         *)
(* Which candidates pass is decided by hashes.  The model leaves that open *)
(* and takes every table pinHits, subHits of passing candidates.           *)
(***************************************************************************)
EXTENDS Integers, Sequences

CONSTANTS
    Space,          \* 2^31 in the code: the counters below the disable bit
    Limits,         \* the values max_candidates may have
    Interval,       \* 32 or 4096: candidates between two budget checks
    NSubsets        \* comb(entries, selections)

ASSUME SpaceAssumption == Space \in Nat \ {0}
ASSUME BudgetAssumption == Limits \subseteq Nat \ {0} /\ Interval \in Nat \ {0}
ASSUME SubsetAssumption == NSubsets \in Nat \ {0}

Counters == 0 .. Space - 1
SubsetIdx == 0 .. NSubsets - 1

(* 0x80000000 | counter: the counter lies below the high bit, so the       *)
(* bitwise or adds it.                                                     *)
Sequence(counter) == Space + counter

None == -1          \* a digest_subset_search entry that is not there yet

VARIABLES
    limit,      \* max_candidates: the candidate limit of one call
    pinHits,    \* hash oracle: counters that pass the pinning puzzle
    subHits,    \* hash oracle: <<counter, subset>> pairs that pass
    pc,         \* where the search is, or how it ended
    expired,    \* time.perf_counter() >= deadline
    first,      \* next_counter, the argument of pin()
    count,      \* candidates done in the current call
    sequence,   \* tx.inputs[1].sequence
    suffix,     \* the sequence bytes subsets() hashes, copied at its start
    attempts,   \* row['attempts']: what each completed pin() recorded
    progress,   \* Search.progress: set by an exhausted budget only
    result,     \* the solution the lifecycle returns
    late        \* history: candidates hashed after the deadline

given == <<limit, pinHits, subHits>>
vars == <<limit, pinHits, subHits, pc, expired, first, count, sequence, suffix,
          attempts, progress, result, late>>

Pinning == {"pin", "pin_try"}
Subsetting == {"subsets", "subset_try"}
Ended == {"found", "budget", "space"}

NoProgress == [phase |-> "none", candidates |-> 0]
NoResult == [counter |-> None, subset |-> None]

Init ==
    /\ limit \in Limits
    /\ pinHits \in SUBSET Counters
    /\ subHits \in SUBSET (pinHits \X SubsetIdx)
    /\ pc = "pin"
    /\ expired = FALSE
    /\ first = 0
    /\ count = 0
    /\ sequence = Sequence(0)
    /\ suffix = Sequence(0)
    /\ attempts = <<>>
    /\ progress = NoProgress
    /\ result = NoResult
    /\ late = 0

-----------------------------------------------------------------------------
(* check_budget(): raises when the candidates or the time are used up.     *)
OverBudgetEarly(n) == n + 1 >= limit \/ expired      \* mutant: off by one
OverBudget(n) == n >= limit \/ expired

(* Mutant: the caller swallows an exhausted pin and starts it again. *)
RaiseBudgetRetried(phase) ==
    /\ progress' = [phase |-> phase, candidates |-> count]
    /\ IF phase = "pinning_search"
       THEN pc' = "pin" /\ count' = 0
       ELSE pc' = "budget" /\ count' = count
    /\ UNCHANGED <<given, expired, first, sequence, suffix, attempts, result, late>>

RaiseBudget(phase) ==
    /\ progress' = [phase |-> phase, candidates |-> count]
    /\ pc' = "budget"
    /\ UNCHANGED <<given, expired, first, count, sequence, suffix, attempts,
                   result, late>>

(* The candidate is hashed now: late keeps count of those past the deadline. *)
Hash == late' = IF expired THEN late + 1 ELSE late

(* The check at the head of pin()'s loop, and the one after its last turn. *)
PinChecks == count = limit \/ count % Interval = 0

(* The counter pin() tries in this turn. *)
PinCounter == first + count

(* Only 31 bits of counter fit below the disable bit. *)
CounterFitsOffByOne == PinCounter <= Space           \* mutant
CounterFits == PinCounter < Space

PinOverBudget ==
    /\ pc = "pin"
    /\ PinChecks
    /\ OverBudget(count)
    /\ RaiseBudget("pinning_search")

(* 'sequence search space exhausted': raised after the budget check of the *)
(* same turn, and without a progress record.                               *)
PinOutOfSpace ==
    /\ pc = "pin"
    /\ ~(PinChecks /\ OverBudget(count))
    /\ ~CounterFits
    /\ pc' = "space"
    /\ UNCHANGED <<given, expired, first, count, sequence, suffix, attempts,
                   progress, result, late>>

PinTurn ==
    /\ pc = "pin"
    /\ ~(PinChecks /\ OverBudget(count))
    /\ CounterFits
    /\ sequence' = Sequence(PinCounter)
    /\ pc' = "pin_try"
    /\ UNCHANGED <<given, expired, first, count, suffix, attempts, progress,
                   result, late>>

PinMiss ==
    /\ pc = "pin_try"
    /\ PinCounter \notin pinHits
    /\ count' = count + 1
    /\ Hash
    /\ pc' = "pin"
    /\ UNCHANGED <<given, expired, first, sequence, suffix, attempts,
                   progress, result>>

(* pin() returns its statistics and subsets() starts on the pinned         *)
(* transaction, copying its sequence bytes.                                *)
CopyOldSequence == suffix' = suffix                  \* mutant: stale copy
CopySequence == suffix' = sequence

PinHit ==
    /\ pc = "pin_try"
    /\ PinCounter \in pinHits
    /\ Hash
    /\ attempts' = Append(attempts, [start |-> first, winning |-> PinCounter,
                                     candidates |-> count + 1, subsets |-> None])
    /\ CopySequence
    /\ count' = 0
    /\ pc' = "subsets"
    /\ UNCHANGED <<given, expired, first, sequence, progress, result>>

-----------------------------------------------------------------------------
(* subsets() checks its budget at the first candidate past the limit as    *)
(* well, but not when the enumeration ends exactly at the limit.           *)
SubsetChecksLate == count >= limit \/ (count + 1) % Interval = 0    \* mutant
SubsetChecks == count >= limit \/ count % Interval = 0

(* The counter whose transaction subsets() hashes. *)
SubsetCounter == suffix - Space

(* attempt['digest_subset_search'] = digest_stats *)
RecordSubsets(n) ==
    attempts' = [attempts EXCEPT ![Len(attempts)].subsets = n]

SubsetOverBudget ==
    /\ pc = "subsets"
    /\ count < NSubsets
    /\ SubsetChecks
    /\ OverBudget(count)
    /\ RaiseBudget("digest_subset_search")

SubsetTurn ==
    /\ pc = "subsets"
    /\ count < NSubsets
    /\ ~(SubsetChecks /\ OverBudget(count))
    /\ pc' = "subset_try"
    /\ UNCHANGED <<given, expired, first, count, sequence, suffix, attempts,
                   progress, result, late>>

SubsetMiss ==
    /\ pc = "subset_try"
    /\ <<SubsetCounter, count>> \notin subHits
    /\ count' = count + 1
    /\ Hash
    /\ pc' = "subsets"
    /\ UNCHANGED <<given, expired, first, sequence, suffix, attempts,
                   progress, result>>

SubsetHit ==
    /\ pc = "subset_try"
    /\ <<SubsetCounter, count>> \in subHits
    /\ Hash
    /\ RecordSubsets(count + 1)
    /\ result' = [counter |-> sequence - Space, subset |-> count]
    /\ pc' = "found"
    /\ UNCHANGED <<given, expired, first, count, sequence, suffix, progress>>

(* Every subset missed: lifecycle() pins again from winning_counter + 1. *)
NextCounterRepeated == attempts[Len(attempts)].winning      \* mutant
NextCounter == attempts[Len(attempts)].winning + 1

SubsetsExhausted ==
    /\ pc = "subsets"
    /\ count = NSubsets
    /\ RecordSubsets(count)
    /\ first' = NextCounter
    /\ count' = 0
    /\ pc' = "pin"
    /\ UNCHANGED <<given, expired, sequence, suffix, progress, result, late>>

-----------------------------------------------------------------------------
(* The clock runs beside the search. *)
DeadlinePasses ==
    /\ pc \notin Ended
    /\ ~expired
    /\ expired' = TRUE
    /\ UNCHANGED <<given, pc, first, count, sequence, suffix, attempts,
                   progress, result, late>>

PinStep == PinOverBudget \/ PinOutOfSpace \/ PinTurn \/ PinMiss \/ PinHit

SubsetStep == \/ SubsetOverBudget
              \/ SubsetTurn
              \/ SubsetMiss
              \/ SubsetHit
              \/ SubsetsExhausted

Next == PinStep \/ SubsetStep \/ DeadlinePasses

Spec == Init /\ [][Next]_vars

(* The search is one thread that nothing blocks; the clock need not reach  *)
(* the deadline first.                                                     *)
FairSpec == Spec /\ WF_vars(PinStep \/ SubsetStep)

-----------------------------------------------------------------------------
Attempt == [start : Counters, winning : Counters, candidates : Nat \ {0},
            subsets : {None} \cup (0 .. NSubsets)]

TypeOK ==
    /\ limit \in Limits
    /\ pinHits \in SUBSET Counters
    /\ subHits \in SUBSET (pinHits \X SubsetIdx)
    /\ pc \in Pinning \cup Subsetting \cup Ended
    /\ expired \in BOOLEAN
    /\ first \in 0 .. Space
    /\ count \in Nat
    /\ sequence \in Space .. 2 * Space - 1
    /\ suffix \in Space .. 2 * Space - 1
    /\ attempts \in Seq(Attempt)
    /\ progress \in [phase : {"none", "pinning_search", "digest_subset_search"},
                     candidates : Nat]
    /\ result \in [counter : {None} \cup Counters, subset : {None} \cup SubsetIdx]
    /\ late \in Nat

(* The strengthening that makes the properties inductive.  Below the       *)
(* counter in hand no solution exists; while pinning, every candidate of   *)
(* the call missed; while searching subsets, the transaction hashed is the *)
(* pinned one and every subset before the current one missed.              *)
NoSolutionBelow(c) ==
    \A d \in Counters, t \in SubsetIdx :
        d < c => ~(d \in pinHits /\ <<d, t>> \in subHits)

PinMissed == \A d \in first .. first + count - 1 : d \in Counters \ pinHits

PinInv ==
    pc \in Pinning =>
        /\ count <= limit
        /\ NoSolutionBelow(first)
        /\ PinMissed
        /\ first = IF attempts = <<>> THEN 0
                   ELSE attempts[Len(attempts)].winning + 1
        /\ attempts # <<>> => attempts[Len(attempts)].subsets = NSubsets
        /\ pc = "pin_try" => /\ PinCounter < Space
                             /\ count < limit
                             /\ sequence = Sequence(PinCounter)

SubsetInv ==
    pc \in Subsetting =>
        /\ suffix = sequence
        /\ SubsetCounter \in pinHits
        /\ attempts # <<>>
        /\ attempts[Len(attempts)].winning = SubsetCounter
        /\ NoSolutionBelow(SubsetCounter)
        /\ count <= NSubsets
        /\ count <= limit
        /\ \A t \in 0 .. count - 1 : <<SubsetCounter, t>> \notin subHits
        /\ pc = "subset_try" => count < NSubsets /\ count < limit

EndInv ==
    /\ pc = "found" =>
          /\ result.counter \in pinHits
          /\ result.subset \in SubsetIdx
          /\ <<result.counter, result.subset>> \in subHits
          /\ NoSolutionBelow(result.counter)
          /\ \A t \in 0 .. result.subset - 1 : <<result.counter, t>> \notin subHits
    /\ pc = "space" => NoSolutionBelow(Space)

(* Since the last check the candidates hashed late are at most those       *)
(* since the last multiple of Interval.                                    *)
LateInv ==
    /\ ~expired => late = 0
    /\ late <= Interval
    /\ pc \in {"pin", "subsets"} /\ count % Interval # 0 =>
          late <= count % Interval
    /\ pc \in {"pin_try", "subset_try"} => late <= count % Interval

(* Where a lifecycle whose deadline passed while pinning can still get to. *)
LateRegion ==
    /\ expired
    /\ \/ pc \in Pinning \cup {"budget", "space"}
       \/ pc = "subsets" /\ count = 0

(* What the lifecycle reports, read as the variables of SolutionSearch.    *)
Status == IF pc \in Ended THEN pc ELSE "searching"
Solution == IF pc = "found" THEN <<result.counter, result.subset>> ELSE <<>>

Promise == INSTANCE SolutionSearch WITH status <- Status, solution <- Solution

(* The search keeps SolutionSearch's promise: the solution it returns is   *)
(* the least one by counter, then subset, whatever number of pins failed   *)
(* before it, and 'space exhausted' is raised only when no solution exists.*)
FindsLeastSolution == Promise!Spec

(* Consecutive attempts neither skip nor repeat a counter: each pin() of a *)
(* lifecycle starts one past the previous winner, the first one at 0, and  *)
(* each candidate count is the stretch it covered.                         *)
AttemptsChain ==
    /\ attempts # <<>> => attempts[1].start = 0
    /\ \A i \in 1 .. Len(attempts) :
          /\ attempts[i].candidates = attempts[i].winning - attempts[i].start + 1
          /\ i > 1 => /\ attempts[i].start = attempts[i - 1].winning + 1
                      /\ attempts[i - 1].subsets = NSubsets
    /\ pc = "found" => /\ result.counter = attempts[Len(attempts)].winning
                       /\ attempts[Len(attempts)].subsets = result.subset + 1

(* An exhausted budget is a real one: without the deadline, the candidates *)
(* of the interrupted call number exactly the limit and none of them       *)
(* passed; a call is never cut short.                                      *)
BudgetIsSpent ==
    pc = "budget" /\ ~expired =>
        /\ progress.candidates = limit
        /\ IF progress.phase = "pinning_search"
           THEN \A c \in first .. first + limit - 1 :
                   c \in Counters \ pinHits
           ELSE \A s \in 0 .. limit - 1 :
                   <<sequence - Space, s>> \notin subHits

(* The deadline binds within one check interval: however pinning and       *)
(* subset search alternate, at most Interval candidates are hashed after   *)
(* it passed, because each call starts with a check.                       *)
DeadlineBinds == late <= Interval

(* A pinning search that outlives the deadline cannot contribute: even if  *)
(* it hits, the check at the start of subsets() ends the lifecycle.        *)
LatePinIsDiscarded ==
    []((expired /\ pc \in Pinning) => [](pc # "found"))

(* The deadline eventually ends the search even if every candidate misses, *)
(* and a finite space ends it without a deadline.                          *)
Terminates == <>(pc \in Ended)
=============================================================================
