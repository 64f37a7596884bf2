----------------------------- MODULE PinHandoff -----------------------------
(***************************************************************************)
(* The phase 3 pinning search (btc_pq/phase3.py) and its native twin       *)
(* (native/phase3_search.cpp).                                             *)
(*                                                                         *)
(* run() first searches in Python, then hands the next counter to a native *)
(* process.  Both hash one transaction variant at a time, derive one key   *)
(* per recovery branch and test the key's hash for strict DER.  Python     *)
(* validates a pass at once and stops at the first full hit; the native    *)
(* search goes on to its limit, reports its passes as events and leaves    *)
(* their validation to Python afterwards.                                  *)
(*                                                                         *)
(* tx is one object: Search.pin() moves the sequence of its second input   *)
(* along with the counter, and validate_hit() signs whatever sequence tx   *)
(* holds when it is called.                                                *)
(***************************************************************************)
EXTENDS Integers, Sequences, SequencesExt

CONSTANTS
    Space,      \* 2^31: counters below the disable bit
    BranchSets, \* the recovery ids that may be valid for a sig_nonce
    Limits,     \* the values max_candidates may have
    Interval,   \* 1024: candidates between two looks at the clock
    EventCap,   \* 16: passes the native search reports
    Samples,    \* the digests on which both programs' keys are compared
    Gaps        \* bound: digests for which some key cannot be computed

ASSUME SpaceAssumption == Space \in Nat \ {0} /\ EventCap \in Nat \ {0}
ASSUME BudgetAssumption == Limits \subseteq Nat \ {0} /\ Interval \in Nat \ {0}
(* A point and its negative share an x: the ids of r, those of r + n, both.*)
ASSUME BranchAssumption == BranchSets \subseteq {{0, 1}, {2, 3}, 0 .. 3}
ASSUME SampleAssumption == Samples # {} /\ Samples \intersect (0 .. Space - 1) = {}

Counters == 0 .. Space - 1
Digests == Counters \union Samples         \* a counter stands for its digest
Sequence(counter) == Space + counter        \* 0x80000000 | counter

VARIABLES
    ids,        \* Pinning.branches: the valid recovery ids
    recovered,  \* the ids whose key can be computed, for each digest
    limit,      \* max_candidates per implementation
    derKeys,    \* hash oracle: <<counter, id>> pairs whose hash is DER
    valid,      \* those of them that validate_hit() accepts
    pc,         \* where run() is
    expired,    \* the deadline of the current implementation has passed
    first,      \* the counter the current implementation started from
    count,      \* candidates it has done
    sequence,   \* tx.inputs[1].sequence
    events,     \* der_pass_events of the current implementation
    passes,     \* der_passes of the current implementation
    checked,    \* native events validated so far
    searches,   \* result['searches']
    hit,        \* result['pinning_hit']
    tested      \* history: the counters hashed, in order

given == <<ids, recovered, limit, derKeys, valid>>
vars == <<given, pc, expired, first, count, sequence, events, passes,
          checked, searches, hit, tested>>

Ended == {"done", "incomplete", "raised"}
NoHit == [by |-> "none", counter |-> 0, branch |-> 0, signs |-> 0]

(* validate_hit() succeeded for event e while tx carried sequence seq: the *)
(* recovered key_puzzle verifies sig_puzzle on the digest of that sequence.*)
Hit(by, e, seq) == [by |-> by, counter |-> e.counter, branch |-> e.branch, signs |-> seq]

(* A key P + C_b is the point at infinity for one b at most, as the C_b    *)
(* differ; a digest of 0 has no P and so no key.  None of the samples is 0.*)
RecoveredSets == {ids, {}} \union {ids \ {id} : id \in ids}

Init ==
    /\ ids \in BranchSets
    /\ recovered \in [Digests -> RecoveredSets]
    /\ \A d \in Samples : recovered[d] # {}
    /\ Cardinality({d \in Digests : recovered[d] # ids}) <= Gaps
    /\ limit \in Limits
    /\ derKeys \in SUBSET {p \in Counters \X ids : p[2] \in recovered[p[1]]}
    /\ valid \in SUBSET derKeys
    /\ pc = "python"
    /\ expired = FALSE
    /\ first = 0
    /\ count = 0
    /\ sequence = Sequence(0)
    /\ events = <<>>
    /\ passes = 0
    /\ checked = 0
    /\ searches = <<>>
    /\ hit = NoHit
    /\ tested = <<>>

-----------------------------------------------------------------------------
Counter == first + count

(* The native program is sent one constant per valid branch.  It numbers   *)
(* from 0 the keys it computed for a digest, so one that it skips moves the*)
(* numbers of those behind it.                                             *)
NativeBranch(d, id) == Cardinality({i \in recovered[d] : i < id})

(* The DER passes of one candidate, in the order of its recovery branches, *)
(* as events still to be validated: the id of the key, and what is said of *)
(* it.                                                                     *)
Key(c, id) == IF <<c, id>> \in derKeys THEN <<id>> ELSE <<>>
Found(c) == Key(c, 0) \o Key(c, 1) \o Key(c, 2) \o Key(c, 3)
Event(c, id, branch) == [counter |-> c, id |-> id, branch |-> branch]
Passes(c) == [k \in DOMAIN Found(c) |-> Event(c, Found(c)[k], Found(c)[k])]
NativePasses(c) ==
    [k \in DOMAIN Found(c) |-> Event(c, Found(c)[k], NativeBranch(c, Found(c)[k]))]

(* The branch said of the event is the one that recovers its key, and the  *)
(* hash of that key signs.                                                 *)
IsFull(e) == e.branch = e.id /\ <<e.counter, e.id>> \in valid

(* The event list up to and including its first full hit. *)
ToFirstHit(s) ==
    IF \E i \in DOMAIN s : IsFull(s[i])
    THEN SubSeq(s, 1, SelectInSeq(s, IsFull))
    ELSE s

(* Both loops: the limit, the clock once per Interval, the counter space.  *)
OutOfTime == count % Interval = 0 /\ expired
OverBudget == count >= limit \/ OutOfTime
OutOfSpace == ~OverBudget /\ Counter >= Space
CanTry == ~OverBudget /\ Counter < Space

Stats(by, found, budget, space) ==
    [by |-> by, first |-> first, candidates |-> count', next |-> first + count',
     passes |-> passes', events |-> events', found |-> found,
     budget |-> budget, space |-> space]

-----------------------------------------------------------------------------
(* Search.pin() *)

(* run() records the Python statistics and moves on to the native search.  *)
PythonReturns(found, budget, space) ==
    /\ searches' = Append(searches, Stats("python", found, budget, space))
    /\ pc' = "handoff"

PythonMiss(new) ==
    /\ ~\E i \in DOMAIN new : IsFull(new[i])
    /\ UNCHANGED <<pc, searches, hit>>

PythonHit(new) ==
    /\ \E i \in DOMAIN new : IsFull(new[i])
    /\ hit' = Hit("python", Last(ToFirstHit(new)), sequence')
    /\ PythonReturns(TRUE, FALSE, FALSE)

(* Mutant: the candidate is counted only once it is known to have missed. *)
CountMissesOnly(new) ==
    count' = IF \E i \in DOMAIN new : IsFull(new[i]) THEN count ELSE count + 1
CountCandidate(new) == count' = count + 1

AdvanceSequence == sequence' = Sequence(Counter)

(* One turn of the loop: every recovered key of one candidate. *)
PythonCandidate ==
    LET new == Passes(Counter) IN
    /\ pc = "python"
    /\ CanTry
    /\ AdvanceSequence
    /\ tested' = Append(tested, Counter)
    /\ CountCandidate(new)
    /\ events' = events \o ToFirstHit(new)
    /\ passes' = passes + Len(ToFirstHit(new))
    /\ PythonMiss(new) \/ PythonHit(new)
    /\ UNCHANGED <<given, expired, first, checked>>

PythonStops ==
    /\ pc = "python"
    /\ OverBudget \/ OutOfSpace
    /\ UNCHANGED <<given, expired, first, count, sequence, events, passes,
                   checked, hit, tested>>
    /\ PythonReturns(FALSE, OverBudget, OutOfSpace)

-----------------------------------------------------------------------------
(* native/phase3_search.cpp, mode "pin" *)

(* native_vectors(): on the sample digests the native keys, by the number  *)
(* each has there, must be the keys that recover() finds by id.            *)
(* Mutant: only the number of keys is compared. *)
SizeAgrees ==
    \A d \in Samples :
        Cardinality({NativeBranch(d, i) : i \in recovered[d]}) = Cardinality(recovered[d])
VectorsAgree == \A d \in Samples : \A id \in recovered[d] : NativeBranch(d, id) = id

(* The native process starts at Python's next_counter with a deadline of   *)
(* its own; the Python events stay in searches.                            *)
StartAt(c) == first' = c
NativeStarts ==
    /\ pc = "handoff"
    /\ VectorsAgree
    /\ pc' = "native"
    /\ StartAt(Last(searches).next)
    /\ count' = 0
    /\ passes' = 0
    /\ events' = <<>>
    /\ expired' = FALSE
    /\ UNCHANGED <<given, sequence, checked, searches, hit, tested>>

(* A vector mismatch is an AssertionError and ends the run. *)
VectorsDiffer ==
    /\ pc = "handoff"
    /\ ~VectorsAgree
    /\ pc' = "incomplete"
    /\ UNCHANGED <<given, expired, first, count, sequence, events, passes,
                   checked, searches, hit, tested>>

(* run(..., native=False) *)
NativeSkipped ==
    /\ pc = "handoff"
    /\ pc' = "done"
    /\ UNCHANGED <<given, expired, first, count, sequence, events, passes,
                   checked, searches, hit, tested>>

(* Only the first EventCap passes become events, but all are counted. *)
(* Mutant: the cap keeps the latest passes instead of the first. *)
ReportLatest(new) ==
    LET all == events \o new
    IN  events' = SubSeq(all, Max({1, Len(all) - EventCap + 1}), Len(all))
Report(new) ==
    events' = SubSeq(events \o new, 1, Min({EventCap, Len(events \o new)}))
(* One candidate: the search does not stop at a pass. *)
NativeCandidate ==
    LET new == NativePasses(Counter) IN
    /\ pc = "native"
    /\ CanTry
    /\ tested' = Append(tested, Counter)
    /\ count' = count + 1
    /\ passes' = passes + Len(new)
    /\ Report(new)
    /\ UNCHANGED <<given, pc, expired, first, sequence, checked, searches, hit>>

(* The process prints its result and exits; Python starts on the events.   *)
NativeStops ==
    /\ pc = "native"
    /\ OverBudget \/ OutOfSpace
    /\ pc' = "validate"
    /\ checked' = 0
    /\ UNCHANGED <<given, expired, first, count, sequence, events, passes,
                   searches, hit, tested>>

(* A failed build, a nonzero exit or a timeout: recorded as                *)
(* native_search_error, and the run goes on without native statistics.     *)
NativeFails ==
    /\ pc \in {"handoff", "native"}
    /\ pc' = "done"
    /\ UNCHANGED <<given, expired, first, count, sequence, events, passes,
                   checked, searches, hit, tested>>

(* Unreadable output (ValueError) ends the run.                            *)
NativeAborts ==
    /\ pc = "native"
    /\ pc' = "incomplete"
    /\ UNCHANGED <<given, expired, first, count, sequence, events, passes,
                   checked, searches, hit, tested>>

(* validate_hit() on the next native event.  tx is not touched first. *)
(* Mutant: a later full hit replaces an earlier one. *)
KeepLastHit(e) == hit' = IF IsFull(e) THEN Hit("native", e, sequence) ELSE hit
KeepHit(e) ==
    hit' = IF IsFull(e) /\ hit = NoHit THEN Hit("native", e, sequence) ELSE hit

(* recover() finds a key, the right one or another, under the event's branch. *)
Recoverable(e) == e.branch \in recovered[e.counter]

ValidateEvent ==
    /\ pc = "validate"
    /\ checked < Len(events)
    /\ Recoverable(events[checked + 1])
    /\ checked' = checked + 1
    /\ KeepHit(events[checked + 1])
    /\ UNCHANGED <<given, pc, expired, first, count, sequence, events, passes,
                   searches, tested>>

(* encode(None) raises, and no handler lists what it raises: the run ends  *)
(* without the native row.                                                 *)
ValidationRaises ==
    /\ pc = "validate"
    /\ checked < Len(events)
    /\ ~Recoverable(events[checked + 1])
    /\ pc' = "raised"
    /\ UNCHANGED <<given, expired, first, count, sequence, events, passes,
                   checked, searches, hit, tested>>

(* The native row always says found=False; budget_exhausted is the native  *)
(* passes==0 && !space_exhausted.                                          *)
NativeRecorded ==
    /\ pc = "validate"
    /\ checked = Len(events)
    /\ pc' = "done"
    /\ UNCHANGED <<given, expired, first, count, sequence, events, passes,
                   checked, hit, tested>>
    /\ searches' = Append(searches, Stats("native", FALSE,
                              passes = 0 /\ ~OutOfSpace, OutOfSpace))

-----------------------------------------------------------------------------
DeadlinePasses ==
    /\ pc \in {"python", "native"}
    /\ ~expired
    /\ expired' = TRUE
    /\ UNCHANGED <<given, pc, first, count, sequence, events, passes, checked,
                   searches, hit, tested>>

(* The run going its ordinary way. *)
Progress == \/ PythonCandidate
            \/ PythonStops
            \/ NativeStarts
            \/ NativeCandidate
            \/ NativeStops
            \/ ValidateEvent
            \/ NativeRecorded

Next == \/ Progress
        \/ NativeSkipped
        \/ VectorsDiffer
        \/ NativeFails
        \/ NativeAborts
        \/ ValidationRaises
        \/ DeadlinePasses

Spec == Init /\ [][Next]_vars

-----------------------------------------------------------------------------
(* The two implementations together try every counter from 0 once and in   *)
(* order: the native search starts exactly where Python's next_counter     *)
(* says, whether Python stopped on a hit, its budget or the space, and the *)
(* recorded candidates add up to the counters hashed.                      *)
CountersTiled ==
    /\ \A i \in DOMAIN tested : tested[i] = i - 1
    /\ \A i \in DOMAIN searches :
          /\ searches[i].first = IF i = 1 THEN 0 ELSE searches[i - 1].next
          /\ searches[i].next <= Len(tested)
    /\ Len(searches) = 2 => Last(searches).next = Len(tested)

(* The passes that a search meets among lo .. hi - 1, counter by counter.  *)
PassesFrom(passesOf(_), lo, hi) == FlattenSeq([i \in 1 .. hi - lo |-> passesOf(lo + i - 1)])

(* What a search reports of its passes is true.  Python's events are all   *)
(* passes up to its full hit.  The native events are the first passes met, *)
(* in order and with the branch each had for its digest; der_passes counts *)
(* every pass, so that a reader sees by it whether some were not reported, *)
(* and none is left out as long as there are EventCap at the most.         *)
ReportsAreTrue ==
    \A i \in DOMAIN searches :
        LET r == searches[i]
            mine == PassesFrom(Passes, r.first, r.next)
            its == PassesFrom(NativePasses, r.first, r.next)
        IN  /\ r.by = "python" => /\ r.events = ToFirstHit(mine)
                                  /\ r.passes = Len(r.events)
                                  /\ r.found <=> \E j \in DOMAIN mine : IsFull(mine[j])
            /\ r.by = "native" => /\ IsPrefix(r.events, its)
                                  /\ r.passes = Len(its)
                                  /\ r.passes <= EventCap => r.events = its

(* A run that ends without a hit has missed none: whichever of the two     *)
(* programs hashed a counter, no key of it validates, unless der_passes    *)
(* says that passes went unreported or one of its keys could not be        *)
(* computed.  For such a counter the native branch may be no recovery id or*)
(* another key's; only there can validation raise, since the samples showed*)
(* both programs to number all keys of a digest alike.                     *)
MissesAreTrue ==
    /\ pc = "done" /\ hit = NoHit =>
          \A i \in DOMAIN searches :
              searches[i].passes = Len(searches[i].events) =>
                  \A c \in searches[i].first .. searches[i].next - 1, id \in ids :
                      recovered[c] = ids => <<c, id>> \notin valid
    /\ pc = "raised" => recovered[events[checked + 1].counter] # ids

(* At the end the reported pinning hit is the first full hit among all     *)
(* reported events, Python's before the native ones, and there is one      *)
(* exactly if some reported event is a full hit.                           *)
FirstHitReported ==
    pc = "done" =>
        LET reported == FlattenSeq([i \in DOMAIN searches |-> searches[i].events])
            k == SelectInSeq(reported, IsFull)
        IN  IF k = 0 THEN hit = NoHit
            ELSE /\ hit.counter = reported[k].counter
                 /\ hit.branch = reported[k].branch
                 /\ hit.by = "python" <=> searches[1].found

(* phase3.py:446, validate_hit(): "Full end-to-end check: both pinning     *)
(* CHECKSIGVERIFY stages must pass."  Both stages concern the transaction  *)
(* of the winning counter, so the reported puzzle key must verify on the   *)
(* digest of that counter's sequence.                                      *)
HitSignsItsCounter == hit # NoHit => hit.signs = Sequence(hit.counter)
=============================================================================
