----------------------------- MODULE ToySearch -----------------------------
(***************************************************************************)
(* The searches of the modified-consensus experiment: the candidate loop   *)
(* of native/toy_search.cpp in its modes pin, subset and frozen, the check *)
(* of its answer in btc_pq/toy.py search(), the retry loop of lifecycle()  *)
(* and the frozen-disclosure trials that reuse the disclosed subset.       *)
(*                                                                         *)
(* Every search() is one native process with a budget and a clock of its   *)
(* own.  A lifecycle pins a sequence, walks the subsets of the table in    *)
(* lexicographic order, computed in place, and pins again if all miss.  A  *)
(* trial takes a new transaction and looks for one sequence that passes    *)
(* both puzzles with the subset already disclosed.                         *)
(*                                                                         *)
(* A digest is determined by the sequence and the deleted subset of the    *)
(* transaction, so the pair stands for it; which digests pass is left open.*)
(***************************************************************************)
EXTENDS Integers, FiniteSets, FiniteSetsExt

CONSTANTS
    Space,          \* 2^31 in the code: the counters below the disable bit
    Interval,       \* 1024: candidates between two readings of the clock
    Entries,        \* size of the public table
    Selections,     \* how many of its entries a spend discloses
    Maxima,         \* the values max_candidates may have
    MaxHits,        \* bound: passing subset digests of one transaction
    Trials          \* reuse_trials

ASSUME SearchAssumption ==
    /\ Space \in Nat \ {0} /\ Interval \in Nat \ {0}
    /\ Entries \in Nat /\ Selections \in 1 .. Entries
    /\ Maxima \subseteq Nat \ {0} /\ MaxHits \in Nat /\ Trials \in Nat

Counters == 0 .. Space - 1
Positions == 0 .. Selections - 1

(* Strictly increasing index vectors, the code's vector selected.          *)
Subsets ==
    {s \in [Positions -> 0 .. Entries - 1] :
        \A i, j \in Positions : i < j => s[i] < s[j]}

Whole == <<>>       \* no table entry is deleted: the pinning digest
NoHit == [winner |-> -1, digest |-> Whole]

VARIABLES
    pinHits,    \* sequences whose whole digest passes, lifecycle's transaction
    subHits,    \* <<sequence, subset>> digests that pass, same transaction
    reuseHits,  \* whole: the same of a trial's transaction; subset: the
                \* sequences whose digest under the disclosed subset passes
    maximum,    \* max_candidates
    stage,      \* which search() Python waits for, or how the run ended
    trial,      \* number of the trial; 0 in the lifecycle
    sequence,   \* tx.inputs[1].sequence of the current transaction
    pin,        \* the current pinning hit: its winning counter and digest
    digest,     \* the digest puzzle's hit
    honest,     \* <<sequence, subset>> of the spend lifecycle() returned
    native      \* the native process: request, loop state and answer

oracle == <<pinHits, subHits, maximum>>
vars == <<oracle, reuseHits, stage, trial, sequence, pin, digest, honest,
          native>>

Searching == {"pin", "subset", "frozen"}
Ended == {"done", "exhausted", "failed"}

-----------------------------------------------------------------------------
(* The request search() writes and the state main() begins with.           *)
FirstSubset == [i \in Positions |-> i]

(* Mutant: the request carries the sequence base() gave the transaction. *)
RequestSequenceStale(seq) == 0
RequestSequence(seq) == seq

Request(mode, counter, seq, frozen) ==
    [mode |-> mode, first |-> counter, sequence |-> RequestSequence(seq),
     selected |-> IF mode = "frozen" THEN frozen ELSE FirstSubset,
     count |-> 0, late |-> FALSE, answer |-> "none",
     hit |-> NoHit, digestHit |-> Whole]

Init ==
    /\ pinHits \in SUBSET Counters
    /\ subHits \in UNION {kSubset(k, Counters \X Subsets) : k \in 0 .. MaxHits}
    /\ reuseHits = [whole |-> {}, subset |-> {}]
    /\ maximum \in Maxima
    /\ stage = "pin"
    /\ trial = 0
    /\ sequence = 0
    /\ pin = NoHit
    /\ digest = Whole
    /\ honest = <<>>
    /\ native = Request("pin", 0, sequence, Whole)

-----------------------------------------------------------------------------
(* The candidate loop of main().                                           *)
Running == stage \in Searching /\ native.answer = "none"

Counter == native.first + native.count

BudgetLeft == native.count < maximum
OutOfTime == native.count % Interval = 0 /\ native.late
OutOfSpace == native.mode # "subset" /\ Counter >= Space

(* uint32_t(0x80000000 | counter): without the bit every sequence here has.*)
CandidateSequence ==
    IF native.mode = "subset" THEN native.sequence ELSE Counter % Space

CandidateDigest ==
    <<CandidateSequence, IF native.mode = "subset" THEN native.selected ELSE Whole>>

FrozenDigest == <<CandidateSequence, native.selected>>

(* BtcPqToySignature() on the candidate's key. *)
PassesPin(seq) == seq \in (IF trial = 0 THEN pinHits ELSE reuseHits.whole)
PassesFrozen(seq) == seq \in reuseHits.subset

(* Mutant: the frozen digest is reported but does not decide. *)
PassesFirstOnly ==
    CASE native.mode = "subset" -> CandidateDigest \in subHits
      [] OTHER -> PassesPin(CandidateSequence)
Passes ==
    CASE native.mode = "subset" -> CandidateDigest \in subHits
      [] native.mode = "pin" -> PassesPin(CandidateSequence)
      [] native.mode = "frozen" -> /\ PassesPin(CandidateSequence)
                                   /\ PassesFrozen(CandidateSequence)

(* The rightmost index below its largest value moves, and those after it   *)
(* follow it closely.                                                      *)
Movable(s) == {j \in Positions : s[j] # Entries - Selections + j}
(* Mutant: the indices after the one that moved keep their values. *)
SuccessorUnreset(s) == [s EXCEPT ![Max(Movable(s))] = @ + 1]
Successor(s) ==
    LET j == Max(Movable(s))
    IN  [k \in Positions |-> IF k < j THEN s[k] ELSE s[j] + 1 + (k - j)]

Answer(answer) == native' = [native EXCEPT !.answer = answer]
PythonWaits ==
    UNCHANGED <<oracle, reuseHits, stage, trial, sequence, pin, digest, honest>>

StopWithoutHit ==
    /\ Running
    /\ ~BudgetLeft \/ OutOfTime
    /\ Answer("budget")
    /\ PythonWaits

StopAtSpace ==
    /\ Running
    /\ BudgetLeft /\ ~OutOfTime
    /\ OutOfSpace
    /\ Answer("space")
    /\ PythonWaits

Tries == Running /\ BudgetLeft /\ ~OutOfTime /\ ~OutOfSpace

Hit ==
    /\ Tries
    /\ Passes
    /\ native' = [native EXCEPT !.count = @ + 1, !.answer = "found",
                                !.sequence = CandidateSequence,
                                !.hit = [winner |-> Counter, digest |-> CandidateDigest],
                                !.digestHit = IF native.mode = "frozen"
                                              THEN FrozenDigest ELSE Whole]
    /\ PythonWaits

Miss ==
    /\ Tries
    /\ ~Passes
    /\ native.mode = "subset" => Movable(native.selected) # {}
    /\ native' = [native EXCEPT
                     !.count = @ + 1,
                     !.selected = IF native.mode = "subset" THEN Successor(@) ELSE @]
    /\ PythonWaits

(* The last subset missed: exhausted, even if the budget is used up too.   *)
LastMissAnswerByBudget ==               \* mutant: the budget comes first
    IF native.count + 1 >= maximum THEN "budget" ELSE "space"
LastMissAnswer == "space"

MissLast ==
    /\ Tries
    /\ ~Passes
    /\ native.mode = "subset" /\ Movable(native.selected) = {}
    /\ native' = [native EXCEPT !.count = @ + 1, !.answer = LastMissAnswer]
    /\ PythonWaits

(* The clock of this process passes max_seconds. *)
TimePasses ==
    /\ Running
    /\ ~native.late
    /\ native' = [native EXCEPT !.late = TRUE]
    /\ PythonWaits

-----------------------------------------------------------------------------
(* What search() makes of the answer.                                      *)
Answered(in, answer) == stage = in /\ native.answer = answer

Ends(outcome) ==
    /\ stage' = outcome
    /\ UNCHANGED <<oracle, reuseHits, trial, sequence, pin, digest, honest, native>>

(* A native error, an unreadable answer or a subprocess timeout: raised.   *)
NativeFails == Running /\ Ends("failed")

(* The hit's digest must be the one Python computes for the transaction    *)
(* with the new sequence and the subset.                                   *)
Agrees(hitDigest, subset) == hitDigest = <<native.sequence, subset>>

Checked(agrees, next) == IF agrees THEN next ELSE "failed"

PinFound ==
    /\ Answered("pin", "found")
    /\ sequence' = native.sequence
    /\ pin' = native.hit
    /\ stage' = Checked(Agrees(native.hit.digest, Whole), "subset")
    /\ native' = Request("subset", 0, native.sequence, Whole)
    /\ UNCHANGED <<oracle, reuseHits, trial, digest, honest>>

(* Raised as an exhausted pinning budget, whichever of the two it was.     *)
PinNotFound ==
    /\ Answered("pin", "budget") \/ Answered("pin", "space")
    /\ Ends("exhausted")

SubsetFound ==
    /\ Answered("subset", "found")
    /\ sequence' = native.sequence
    /\ digest' = native.hit.digest
    /\ honest' = <<native.sequence, native.selected>>
    /\ stage' = Checked(Agrees(native.hit.digest, native.selected), "spent")
    /\ UNCHANGED <<oracle, reuseHits, trial, pin, native>>

SubsetNotFound ==
    /\ Answered("subset", "budget")
    /\ Ends("exhausted")

NextCounterSkips == pin.winner + 2      \* mutant
NextCounter == pin.winner + 1

(* No subset of this sequence passes: pin again, after the last winner.    *)
SubsetsExhausted ==
    /\ Answered("subset", "space")
    /\ stage' = "pin"
    /\ native' = Request("pin", NextCounter, sequence, Whole)
    /\ UNCHANGED <<oracle, reuseHits, trial, sequence, pin, digest, honest>>

(* A trial's transaction has another amount, hence digests of its own.     *)
StartTrial ==
    /\ stage = "spent"
    /\ trial < Trials
    /\ \E whole, subset \in SUBSET Counters :
          reuseHits' = [whole |-> whole, subset |-> subset]
    /\ trial' = trial + 1
    /\ sequence' = 0
    /\ stage' = "frozen"
    /\ native' = Request("frozen", 0, 0, honest[2])
    /\ UNCHANGED <<oracle, pin, digest, honest>>

FrozenFound ==
    /\ Answered("frozen", "found")
    /\ sequence' = native.sequence
    /\ pin' = native.hit
    /\ digest' = native.digestHit
    /\ stage' = Checked(/\ Agrees(native.hit.digest, Whole)
                        /\ Agrees(native.digestHit, honest[2]), "spent")
    /\ UNCHANGED <<oracle, reuseHits, trial, honest, native>>

FrozenNotFound ==
    /\ Answered("frozen", "budget") \/ Answered("frozen", "space")
    /\ Ends("exhausted")

Finish ==
    /\ stage = "spent"
    /\ trial = Trials
    /\ Ends("done")

Native == StopWithoutHit \/ StopAtSpace \/ Hit \/ Miss \/ MissLast
Python ==
    \/ PinFound \/ PinNotFound
    \/ SubsetFound \/ SubsetNotFound \/ SubsetsExhausted
    \/ StartTrial \/ FrozenFound \/ FrozenNotFound \/ Finish

Next == Native \/ Python \/ TimePasses \/ NativeFails

Spec == Init /\ [][Next]_vars

-----------------------------------------------------------------------------
Less(s, u) == \E j \in Positions :
                 s[j] < u[j] /\ \A i \in Positions : i < j => s[i] = u[i]

(* Reference: the position of each subset in itertools.combinations order. *)
Rank == [s \in Subsets |-> Cardinality({u \in Subsets : Less(u, s)})]

(* lifecycle() keeps the promise of a two-stage search: what it assembles  *)
(* is the least solution by counter and then subset order, although each   *)
(* subset is computed from the one before and each pin from the last.      *)
Promise == INSTANCE SolutionSearch WITH
    NSubsets <- Cardinality(Subsets),
    subHits <- {<<h[1], Rank[h[2]]>> : h \in {g \in subHits : g[1] \in pinHits}},
    status <- CASE honest # <<>> -> "found"
                [] honest = <<>> /\ stage \in Searching -> "searching"
                [] OTHER -> "budget",
    solution <- IF honest = <<>> THEN <<>> ELSE <<honest[1], Rank[honest[2]]>>
FindsLeastSolution == Promise!Spec

(* A subset search answers "space" only when every subset was tried and    *)
(* none passes, and "budget" only when some were not tried: lifecycle()    *)
(* goes on to the next sequence after the one and gives up after the other.*)
ExhaustionIsExact ==
    native.mode = "subset" /\ native.answer \in {"space", "budget"} =>
        /\ native.answer = "space" <=> native.count = Cardinality(Subsets)
        /\ \A s \in Subsets :
              Rank[s] < native.count => <<native.sequence, s>> \notin subHits

(* The witness assembled last belongs to the transaction as it is then:    *)
(* pinning and digest hits, found by different processes, are digests of   *)
(* its final sequence, and its subset is the disclosed one.                *)
WitnessSignsTx ==
    stage = "spent" =>
        /\ pin.digest = <<sequence, Whole>>
        /\ digest = <<sequence, honest[2]>>

(* A trial that succeeds has the least sequence passing both puzzles under *)
(* the disclosed subset; one that exhausts the space missed none.          *)
Reusable == reuseHits.whole \intersect reuseHits.subset
FrozenFindsLeast ==
    trial > 0 =>
        /\ stage = "spent" => sequence \in Reusable /\ sequence = Min(Reusable)
        /\ native.answer = "space" => Reusable = {}
        /\ native.answer = "budget" =>
              \A c \in Reusable : c >= native.count
=============================================================================
