# Verification of the BTC-PQ harness

TLA+ models of the program in `src/` (the Python package `btc_pq` and its native
search programs): what each part does step by step, what must hold of it, TLC
configurations that check it on small instances, and proofs, checked by TLAPS,
for every value of the constants.

The program is a research harness. It compiles locking scripts whose spends need
a *puzzle proof* for keys recovered from a fixed signature, searches transaction
variants until the proofs exist, spends the result on an isolated `bitcoind
-regtest` node, records what consensus says of the honest spend and of spoiled
copies of it, and replays the record. Its hard parts are not the hashes but the
control around them: nested searches under budgets and deadlines, one search
handed from Python to a native process, node state that must be undone between
cases, files that must stay consistent when a run dies, and a script whose
operands are found by computed stack depth.

## 1. Inventory

| component | source | state | operations | modelled by |
|---|---|---|---|---|
| Phase 2 search and retry loop | `phase2.py` `Search`, `lifecycle` | `tx.inputs[1].sequence`, counters, attempts, `progress`, the clock | `pin`, `subsets`, `check_budget`, retry | `Phase2Search` |
| Phase 2 locking script | `phase2.py` `Instance` | symbolic stack of `compile()`; stacks of the interpreter | `compile`, `witness`, `key`, `proof` | `HorsScript`, `ScriptExecution` |
| Phase 3 pinning search | `phase3.py` `Pinning`, `Search`, `run`; `phase3_search.cpp` | shared `tx`, counter, events, `searches`, `pinning_hit` | `pin`, native pin, `validate_hit` | `PinHandoff` |
| Case validation and replay | `phase2.py` `validate`, `replay`; `experiments.py` `case`, `replay` | the node's chain, rows, block files | mine, save, invalidate, compare, replay | `CaseValidation` |
| Toy validation and replay | `toy.py` `validate`, `replay` | two nodes, rows, block files | the same on two nodes | `ToyValidation` |
| Output directory | `run()` of the four drivers | fixtures, `results.json`, `partial-results.json` | guard, write, report a failure, rerun | `OutputDirectory` |
| Node | `core.py` `Core.mine` and callers; bitcoind | active chain, invalidated blocks | mine, submitblock, invalidateblock | `RegtestNode` (external) |
| Toy search, frozen disclosure | `toy.py` `search`, `lifecycle`; `toy_search.cpp` | subset in hand, counters, clock of each process; `tx.inputs[1].sequence` | pin, subset, frozen, retry | `ToySearch` |
| Node process | `core.py` `Core` | temporary directory, log, process, cookie, wallet | start, poll, rpc, stop | `CoreLifecycle` |
| Toy build cache | `toy_build.py`, `toy.check_build` | source copy, stamp, objects, binaries, manifest | build, check | `ToyBuild` |
| Lamport/Winternitz candidates | `candidates.py`, `experiments.py` | none; stacks of the interpreter | scripts, witnesses, digits | `CandidateScripts`, `ScriptExecution` |
| Published construction | `phase3.py` `Construction`, `execute`, `validate_published` | parsed instructions and rounds; tagged stack, verified checks and openings | parse, re-execute, describe | `PublishedSpend` on `PublishedScript` |
| Codec, legacy sighash | `bitcoin.py`; numbers and DER of `phase3.py` | the reader's offset | serialise, parse, FindAndDelete | `Codec`, `PublishedSpend`; ALL and SINGLE of the sighash only |
| Baseline | `baseline.py` `reproduce` | node of the Merkle fold | parse, txid, Merkle branch, verdicts | `PublishedSpend` |
| Recovery, curve arithmetic | `crypto.py`, `vendor/` | none | recover, encode | oracle, out of TLC's reach |
| Native verifier, consensus patch | `verify.cpp`, `toy-core.patch` | none | Bitcoin Core's interpreter | oracle of verdicts |
| `exact_search.cpp` | | | cut off in mid-statement, in no build | not modelled |
| `measure.py`, `cli.py` | | none | timing tables, argument parsing | not modelled |

How they interact. `cli.py` calls one driver: `phase2.run`, `phase3.run`,
`toy.run` or `experiments.run`. A driver guards and fills its output directory,
starts a `Core` node, funds its scripts, and then (phase 2, toy) alternates
search and validation, or (experiments) validates prepared cases, or (phase 3)
only searches. The searches share one `Tx` object with their caller: the
sequence number the search leaves in it is the message between the two. After
the cases a fresh node replays the saved blocks, and only then `results.json` is
written.

What is hard, per component (each entry of `hazards` in `PROJECT.json` names its
line):

* search: budgets checked at intervals, across alternating calls; a retry that
  must move on; a copy of the sequence taken at the right moment; 31 bits of
  counter;
* handoff: where the second search begins; which transaction a late validation
  signs; capped reports; a native failure after a Python hit;
* validation: every case must begin on the funded tip; an RPC error that is no
  verdict; replay on a fresh node;
* directory: a kill between any two writes; a second run in the same directory;
* published spend: a file whose damage the pinned txid may not cover (flag and
  witness are outside it) and a parent that is taken by its name; a Merkle branch
  cut short; indices that count from the other end of a table than positions do,
  with an offset that differs between schemes;
* scripts: depth arithmetic that depends on entries, selections and on everything
  rolled before; enforcement of ascending indices; the size check of the
  surrogate; the checksum that keeps one Winternitz signature from yielding
  another;
* toy search: the next subset computed in place; a budget that ends on the last
  subset; hits of several processes assembled into one witness;
* node process: it may die, hang or answer late at any stage, and a call without
  an answer may have been carried out;
* build cache: a kill between any two steps, edits while it runs, and a compiler
  driver that trusts modification times.

What makes each correct is stated in section 3.

## 2. Modules

`SolutionSearch` is the abstract promise of a two-stage search: end once, with
the least solution, a true admission that there is none, or an exhausted budget.

`Phase2Search` is the search as coded, one candidate per pair of steps
(`PinTurn` sets the sequence, `PinMiss`/`PinHit` is the outcome of hashing).
`first` is `pin()`'s argument, `count` the loop variable of the call in progress,
`suffix` the bytes `subsets()` copied. `PinOverBudget`, `SubsetOverBudget` are
the raising branches of `check_budget`, with the record `lifecycle()` takes from
`search.progress`. Which candidates pass is an arbitrary table fixed in `Init`.
`DeadlinePasses` may happen between any two steps. `late` is a history variable.

`ToySearch` is the search of the toy run, where every call is a native process
with a budget of its own. `native` is one process of `toy_search.cpp` (request, loop state, answer); `Movable`,
`Successor` are its in-place step to the next subset; `PinFound`, `SubsetFound`,
`SubsetsExhausted` are what `lifecycle()` does with an answer and `StartTrial`,
`FrozenFound` the frozen-disclosure trials after it. It refines `SolutionSearch`
as well, its subsets ranked as `itertools.combinations` orders them.

`ScriptElements` has the elements and instructions that the compilers share.
`HorsScript` has `compile()` as operators on its state, the script written and the
symbolic stack: `Roll` and `PuzzleCheck` are its local functions, `Selection` the
body of its first loop, and its stretches carry names of their own, in the order
of the code (`Pinned`, `Tabled`, `Selected`, `Stashed`, `Signatures`, `Digest`,
`SigsCounted`, `Keyed`), up to `Compile`. `CandidateScripts` has the compilers of
`candidates.py` and the spends derived from one disclosed signature.
`ScriptExecution` is the interpreter, one action per opcode on a stack of
abstract elements, and runs all of these from every witness considered.

`Codec` is the byte level: compact sizes, blobs, transactions, pushes, numbers,
instructions, strict DER, as functions on sequences of digits. Reads return a
value and the offset behind it, or `Fail` where the code raises.
`PublishedScript` generates the published locking script, its honest witness,
scripts that differ from it in one instruction, rearranged witnesses, and the
oracles for hash and recovery. With 150 entries and the layout `<<8, 1>>,
<<7, 2>>` the generated script is that of `fixtures/mainnet`, opcode for opcode
(880 instructions), so what the models run is the published construction and not
a guess at it. `PublishedSpend` has the two commands that use them: `Tx.parse` field by field
(`ReadHeader` to `ReadEnd`), the txid, then either `baseline.reproduce()`
(`FoldSibling`, `CheckInclusion`, `NativeVerdicts`) or `phase3`'s structural
parser (`ParsePrefix`, `ParseTables`, `ParseChecks`), its interpreter
`execute()`, one action per opcode on a stack of tagged items, and
`validate_published()`. `why` holds the reason of a raise.

`PinHandoff` is `phase3.run()` from the first Python candidate to the recorded
native statistics. `sequence` is the field of the shared `tx`. Python validates a
pass in the same step as it meets it (`PythonCandidate`); the native program only
reports (`NativeCandidate`, `Report`), and `ValidateEvent` comes afterwards.
`ids` are the recovery ids whose curve point exists, and `recovered` those whose
key can be computed for each digest (none for a digest of zero, and `P + C_b` is
the point at infinity for one `b` at most). Python names a branch by its id. The
native program is sent one constant per branch and numbers from 0 the keys it did
compute for the digest at hand (`NativeBranch`), so a key it skips moves the
numbers behind it. The comparison of vectors before the native search
(`VectorsAgree`) looks at sample digests, never at the searched ones. An event
under a number that recovers no key makes `validate_hit()` raise
(`ValidationRaises`): the run ends without a native row.

`RegtestNode` holds the operators for what generateblock, submitblock and
invalidateblock do to the chain above the funded tip, as the callers rely on it.

`CaseValidation` is `validate()`/`case()` statement by statement (`Start`,
`Mine`, `Confirm`, `Invalidate`, `Record`) and `replay()` row by row, for both
drivers (`driver`): phase 2 replays before it writes `results.json`,
experiments only on a later command. `MineGlitch` and `ReplayGlitch` are RPC
errors that are no consensus verdict and that the code reads as one.
`Interrupt` is everything that leaves through the `except` clause.

`ToyValidation` is the same for two nodes with different rules. One module of
proofs extends it, `ToySearch` and `ToyBuild`, which is why the names of a run
say `Run` and those of a build `Build`.

`OutputDirectory` has one action per file operation, `write_text` being two
(truncate, fill), and `Fail`, `Kill` and a further `Begin` in between.

`CoreLifecycle` is the context manager around one `bitcoind`: `__enter__` from
`Launch` to `GetAddress`, calls of the body, `__exit__` from `Stop` to
`Cleanup`. `NodeStep` moves the process on its own at any time, `Answers` says
what a call to it may come to in each of its stages, and `Interrupt` is an
exception of another origin.

`ToyBuild` is `build()`, one action per step that something can come between,
with Ninja as external code (`OutOfDate`: the object is missing or older than its
source). Ninja decides what to do once, when it starts (`Plan` fills `work`);
what changes later waits for the next build. `Abandon` is a failed command or a kill, `Edit` someone changing the
patch or the search program, `CheckPasses` is `check_build()`.

`*Proofs` modules extend a component with its theorems; `MC*` modules give
constants for TLC. Operators marked "mutant" are deliberately wrong variants of
the definition that follows them. They are used by no specification; each one is
what some property must notice when it takes that definition's place.

## 3. Runs

| run | question | result |
|---|---|---|
| `phase2_search` | Is the solution the least one (`FindsLeastSolution`, a refinement of `SolutionSearch`); do attempts tile the counters (`AttemptsChain`); is an exhausted budget really spent (`BudgetIsSpent`); is at most one interval hashed after the deadline (`DeadlineBinds`); is a pin that outlives it useless (`LatePinIsDiscarded`); does it end (`Terminates`)? | holds |
| `toy_search` | Do the native searches with Python's retry loop return the least solution (`FindsLeastSolution`); is a subset search "exhausted" exactly when every subset was tried (`ExhaustionIsExact`); do the assembled hits belong to the transaction as it is (`WitnessSignsTx`); is a reuse found only, and always first, where both puzzles pass (`FrozenFindsLeast`)? | holds |
| `script_execution` | Does the compiled table script accept exactly the authorised spends (`AcceptsTheAuthorized`); do candidates accept only the message that was signed (`OneSignatureOneMessage`); does every `roll()` fetch the element it names (`RollsFetchTheirElement`); is the opcode count the one checked against the limit (`OpcodesAsCounted`)? | holds |
| `pin_handoff` | Do both searches tile the counters (`CountersTiled`), report truly what they met (`ReportsAreTrue`) and keep the first hit (`FirstHitReported`); can a run without a hit be believed (`MissesAreTrue`)? | holds |
| `pin_handoff_stale` | Does every reported hit sign its own transaction? | violated |
| `case_validation` | Are cases independent (`CasesAreIndependent`), is a written result true up to RPC errors (`CompleteRunIsTrue`), does it replay (`ReplayReproduces`), does an undisturbed run complete (`Completes`)? | holds |
| `toy_validation` | The same for the toy run, and has the stock node refused every experimental block (`StockRefuses`)? | holds |
| `output_directory` | Whatever dies where, does a readable `results.json` describe the fixtures beside it (`GuardedResultsReplay`), is it final (`ResultsAreFinal`), is a partial result beside it its own (`PartialIsOwn`)? | holds |
| `experiments_rerun` | The same of the driver without a guard (`SavedChainReplays`) | violated |
| `core_lifecycle` | However the with statement is left, has the process ended and the directory gone (`NothingOutlives`); is it always left (`Leaves`)? | holds |
| `toy_build` | Is a build that `check_build()` accepts made from the inputs as they are (`AcceptedBuildIsCurrent`); can a stamp be believed (`StampTellsSource`)? | holds |
| `published_spend` | Is a transaction that parses serialised to the bytes of its file (`ParsedIsCanonical`); is one taken for included a transaction of the block, at its place (`IncludedIsInBlock`); do the selections of a script that finishes open the commitments of the same places (`SelectionsOpenTheirCommitments`); does only the published script finish, with the searched subsets (`ExecutesTheSearched`); does the published spend go through, and the report say what its witness pushed (`PublishedIsReported`)? | holds |

`CompleteRunIsTrue` says exactly how far the harness can be trusted: a case is
misreported only if the node failed it for a reason other than the spend, once
in experiments, twice (run and replay) in phase 2 and the toy run.

Type invariants are theorems (`TypeCorrect`, or a part of `Inv`) in the modules
with proofs, and a run checks one only in `phase2_search`, where its bound on
the sequence is a hazard of its own.

### Findings

* **Native hits are validated on a stale transaction.** `phase3.py:748` calls
  `validate_hit(tx, ...)` for each native event while `tx` carries the sequence
  of the last Python candidate, so the puzzle key it reports belongs to another
  transaction. The Python path is right, because it sets the sequence first.
* **An interrupted rerun of experiments breaks the saved chain**
  (`experiments.py:19`): the old `results.json` remains over new fixtures.

Two observations belong to properties that hold.

* The header comment of the native search (`phase3_search.cpp:7-8`) says that any
  DER pass is reported to the Python driver for validation. Line 204 reports the
  first 16 and counts the rest, so the comment says more than the program does.
  `ReportsAreTrue` claims only what the code keeps: the events are the first
  passes met, the count is the true one, and nothing is left out while it is at
  most 16. `MissesAreTrue` says what that means for a reader: "no hit" can be
  believed when the count equals the number of events, for every counter all of
  whose keys can be computed.
* `IncludedIsInBlock` leaves the repeated places of an odd level open: at them a
  Merkle branch proves the last transaction at more than one position, as it does
  in Bitcoin.

### Bounds

* `phase2_search`: three counters, three subsets, limits 1 to 4, interval 2, and
  every table of passing candidates. Limits below, at and above the interval,
  above the number of subsets and at the size of the counter space occur; so do
  up to three pins in one lifecycle. The proofs remove these bounds.
* `toy_search`: three counters, tables of four entries with two selections (six
  subsets, in which the last index, the first and both move), up to two passing
  subset digests, budgets of two and six (below, and exactly, the number of
  subsets), interval 2, one trial with any oracle of its own.
* `script_execution`: tables of two and three entries with one and two
  selections, both puzzles. Witnesses: every combination of pinned transaction, digest
  transaction, deletion set and entry list (also repeated or out of order), and
  every consistent witness with any one element exchanged for any other element.
  The compiler's loops have a first, a middle-free and a last turn at two
  selections; three entries give a table with an inner entry. Winternitz
  messages of one and two digits (checksums of one and two digits, and two is
  what the experiments use), Lamport messages of one and three bits; every
  message signed, every other message tried with what the signature discloses.
  The proofs remove the bounds on tables and messages.
* `published_spend`: a byte is one of ten digits, and lengths change their
  encoding at 6/7 (compact size), 7/8 (push) and 4/5 (number), so every field
  crosses every boundary; numbers above `Radix ^ 8` (`Huge`) are one number; a
  field of fixed width is one digit. An opcode with a number of its own is no digit
  of a size (`ReadCompact` fails on it). Four entries, rounds (2 signed, 1 bonus) and
  (1, 2): a signed selection that is first, inner and last, and the published
  bonus counts. Files: the published one with any one digit dropped, doubled,
  set to 0, 1 or a size marker, or written as a longer size, and with its
  witness left out or announced and empty. Scripts: any one instruction left
  out, or a code separator anywhere. Witnesses: every choice of indices -1 and
  1 to 7 in one round (outside, repeated, descending ones too) and any two
  elements exchanged. Blocks of one to five transactions, every leaf, every
  position up to twice the size, every branch cut short or continued.
* `pin_handoff`: three counters, the recovery ids {0, 1} (as the published
  signature has) and {2, 3} (for which both ways to number disagree; all four ids
  occur in the proofs only), one sample digest, at most one digest that lacks a
  key or all keys, cap 2, interval 2, limits 1, 2 and 4. One search can meet more
  passes than the cap, and both can run into the space, the limit or the clock.
* `case_validation`, `toy_validation`: four and three cases, every verdict of
  every oracle, two stray RPC errors (the number needed to deceive a run and
  its replay), one further replay. The proofs remove these bounds.
* `core_lifecycle`: four polls, two calls of the body: a node can need none, some
  or all of the polls, and die between any two steps. The counts do not interact.
* `toy_build`: three versions of the patch, two of the search program, two Core
  files of which each version touches another set: a file may enter, stay in and
  leave the patch.
* `output_directory`: one setup fixture and two later ones, three runs: enough
  for a finished run between two others. The proofs remove the bounds.

`CHECK_DEADLOCK FALSE` is set because every one of these programs ends.

### Fairness

Liveness is claimed only where the code never blocks: a search is a loop over
computations and a validation is a sequence of calls with a timeout, so weak
fairness of the program's own steps is justified (`WF_vars(PinStep \/
SubsetStep)`, `WF_vars(Progress)`, and in `CoreLifecycle`
`WF_vars(Python)`: every poll, call and wait there has a time limit, except the
wait after `kill()`, whose effect the operating system guarantees). No fairness is assumed of the clock, of
the node, of failures or of interrupts; `Terminates` therefore does not lean on the deadline,
and `Completes` speaks of undisturbed runs only.

## 4. Proofs

Assumptions are the named `ASSUME`s of the modules (sizes positive, limits
positive, at least one case, tables as `Instance` admits them, witnesses made of byte
strings), nothing else.

* `Phase2SearchProofs`: `IInv` = types and, while pinning, "no solution below
  `first` and every candidate of this call missed" (`PinInv`); while searching
  subsets, "the pinned counter is the one in `suffix`, its earlier subsets
  missed" (`SubsetInv`); at the end, what was established (`EndInv`); with
  `AttemptsChain` and `BudgetIsSpent`. None of the properties is inductive by
  itself: least-solution needs the memory of what missed, which the code keeps
  only implicitly in its counters. From it follow `TypeCorrect`,
  `AttemptsChained`, `BudgetSpent` and `Refinement`. `DeadlineBound` needs
  `LateInv` in addition (the late candidates since the last check are at most
  `count % Interval`), for which the lemmas `DivRange`, `ModUnique`, `ModSucc`
  do the arithmetic. `LatePinDiscarded` is a region argument (`LateRegion` is
  closed under steps and excludes "found").
* `CaseValidationProofs`: `Inv` joins the row count to the case counter
  (`CountInv`), the chain and the invalidated blocks to the step (`ChainInv`),
  each row to the oracle, its file and the errors met (`RowsInv`), and what the
  replay has re-tested (`ReplayInv`). From it `Independence`, `RunIsTrue`,
  `Reproduces`. `RunIsTrue` is for any number of cases, replays and errors.
* `HarnessProofs`, on the output directory: `DirInv` says which run wrote what at
  each position of the run in progress; from it `GuardedReplay`, `PartialOwned`,
  `ResultsFinal`. On the node process: `StageInv` is what each stage of the
  statement knows of process, cookie and directory; `NothingOutlives` needs it
  because the process moves on its own between any two stages. It gives
  `Outlives`. One module extends both components, which is why the names of
  `OutputDirectory` carry a `Dir`.
* `PinHandoffProofs`: `TestedInv` (the counters hashed are 0, 1, 2, ...) and
  `PlaceInv` (where the running search has come is where they end, and Python's
  row ends where the native search began) give `Tiled`. `ReportInv` says
  what the events of the running search and of the finished ones are: all passes
  of the counters tested so far, cut after Python's full hit or at the native cap,
  with the passes beyond the cap counted. It gives `ReportsTrue` and `FirstHit`.
  `MissesTrue` needs `GivenInv` (which ids and keys there are) and the part of
  `ReportInv` that the samples agreed before a native search runs: every sample
  has a key, and the ids {2, 3} would be numbered 0 and 1 there, so they are excluded; a
  digest with all its keys is then numbered by recovery id (`NumbersAreIds`). What
  every search met includes each of its counters' passes (`AllHas`). The sequences are flattened
  ones, so the lemmas say what `FlattenSeq` does when a block is added
  (`FlattenNext`), when it is cut (`CutJoin`, `CapJoin`) and to the first element
  of a kind (`KeepsFirst`).
* `ToyProofs`, on the search: `NativeInv` (a process's counters and answer belong to its
  request), `SpendInv` (the pinning hit outlives the subset search with the
  sequence it set) and `TrialInv` (a trial has missed every sequence below the
  present one) give `WitnessSigns` and `FrozenLeast`. For a table of any size,
  `SuccessorIsNext` shows that the vector computed in place is the next
  combination with none between, `FirstIsFirst` and `UnmovableIsLast` that the
  walk begins and ends where it should, and `RankNext`, `RankLast` that ranks
  count its steps. `SubsetInv` (the rank of the present subset is the number of
  those tried, and all of these missed) and `LifeInv` (no counter below the
  present one has a solution) are then inductive, and give `Exhaustion` and
  `Refinement`, that the lifecycle implements `SolutionSearch`.
  On the build: `OrderInv` (where edits never bring a content back, what was
  hashed is not newer than the input), `SourceInv` (which tree a stamp stands
  for), `ObjectInv` (an object Ninja would keep has its source's content),
  `WorkInv` (while Ninja works its list off, whatever is out of date is still on
  it, but for a search program edited after it was hashed) and
  `BinaryInv` (the manifest's binaries were compiled from the hashed inputs).
  None is inductive alone: binaries are linked from objects, objects compiled from
  sources, sources made by an earlier build that may have died anywhere. It gives
  `AcceptedIsCurrent` and `StampIsTrue`. On the run it is the argument of
  `CaseValidationProofs` for two nodes.
  `ChainInv` says when either chain may be longer than the funded one, `RowsInv`
  what each row owes to the oracles and to the errors met, `ReplayInv` what has
  been asked twice, `FailureInv` why a run failed. From it `NodesAligned`,
  `RunIsTrue`, `Refuses`, `Reproduces`. That an appended error raises the count
  of its own case only is the lemma on `Occurrences`.
* `ScriptProofs` and `CandidateProofs`, on the execution of scripts. A script
  without loops turns its witness into one sequence of executions, its trace,
  which `Exec` and `Trace` define without the variables; `ExecActs` shows that
  each action does to the variables what `Exec` does to the trace. The invariant
  is then `Follows` (the variables are where the trace has them, and a verdict is
  the trace's), `Counts` (`opCount` is the number of opcodes behind `pc`, plus
  the keys of the multisig check once that is behind) and `Given` (what `Init`
  chose). It is needed because a stack in the middle of a script says nothing by
  itself of what is still to come: that the verdict is the authorised one is a
  fact about the whole script.
  What a trace is, is then a matter of code: `Block` says that a code stands
  somewhere in the script, a lemma `Run...` what an opcode makes of a stack,
  and one named `...Runs` what a stretch of code makes of it.
  `compile()` keeps names of the stack while it writes: `Keeps` says that these
  are the names of the witness elements not yet fetched under as many others as
  the stack has, so that a roll to the depth of a name fetches its element,
  whatever was rolled before (`RollCodeRuns`). Every stage has
  its pair of lemmas, `...Keeps` for the names and `...Runs` for the stack; the
  two loops over the selections go by least counterexample: each turn leaves the
  table untouched under the dummies picked so far (`Picked`). `HorsRuns` puts the
  stages together: the script of any table is accepted from a witness exactly
  if what it fetched is a pinned key with its proof, ascending selections with
  the commitments opened at their places, and dummies deleted to match. This
  gives `Accepts`.
  The scripts of the candidates take the witness apart place by place
  (`BlocksRun`). A Lamport place passes with the secret of its bit only. A
  Winternitz place passes with a link no lower than the disclosed one, so digits
  only rise; the sum of the message digits and the number the checksum digits
  write are then compared with those signed (`SumCompares`, `HornerCompares`),
  and whoever raises a message digit must lower the checksum. The digits of the
  checksum are enough for its largest value (`ChecksumDigitsIs`, `PowerIs`). This
  gives `SignsOnce`, for messages of any length. That no script starves on what
  it is given (`Founded`) gives `Fetches`, and the opcodes counted along the
  trace give `CountsRight`.
* `PublishedSpendProofs`, on the Merkle check: `NodeInv` says that a node folded
  `s` times can equal an entry of the tree only at level `s` and only at the place
  that the position, shifted `s` times, names (`PlacedAt`), because a node is
  named for its two halves and no hash is a transaction. `TreeExists`,
  `LevelsTree` and `EntryAbove` say what `merkle_root`'s levels hold for any
  number of leaves, so that the root, reached with the position used up, leaves
  one leaf; it gives `InclusionTrue`. On the parser: `ParseInv` says that between
  the offsets where two commands stand, the file holds what `serialize()` would
  write of the part read (`Stands`, joined by `StandsJoin`), one conjunct per
  stage: header, inputs, outputs, witnesses, locktime. It gives `ParsingExact`
  because reading a size is the inverse of writing it: `DigitsOfValue` turns the
  value of digits back into them, `CompactRead` adds that the reader takes the
  shortest form only, and `BlobsRead` repeats it for a stack. It holds for every
  radix, every stack of byte strings and every damage of the file. The tests of
  the flag, of the marker and of the end are each used once: without any of them
  two files would have one transaction.

Induction over data is done by least counterexample: the numbers at which a
statement fails have a least member (`LeastMember`, from the well-foundedness of
`<`), and the step before it contradicts. The induction theorems of the library,
which take the statement as a parameter, are not used.

`IInv` of the scripts names the trace, a function chosen by its recursion
equation, which TLC cannot evaluate; the run checks the four properties that
follow from it.

Only model-checked: liveness (`Terminates`, `Completes`, `Leaves`), which is out
of reach of the prover; and of `PublishedSpend` the three properties about
re-executing the published script, `SelectionsOpenTheirCommitments`,
`ExecutesTheSearched` and `PublishedIsReported`. The argument of `ScriptProofs` would
serve, but the module executes any script that differs from the
published one in an instruction, so that a table would have to be followed also
through code that no compiler wrote; no proof of that is attempted.

## 5. Abstractions and what is left out

* Hashes, recovery and DER syntax are oracles fixed at the start; the midstate
  template is taken to agree with `legacy_sighash` (the code asserts it on every
  hit).
* In the script modules hashes do not collide and a key's hash, read as a signature,
  commits to the transaction (a hash whose last byte selects SINGLE would make
  the proof, but not the key, transferable). The four recovery branches and the
  encodings of a key are one abstract key. Relay policy plays no part, nor do
  the size limits that the full-length candidates exceed.
* `PublishedSpend` has the digests of its input with ALL and SINGLE only, which
  the script code tells apart; a digest is named for the signatures missing from
  that code, a recovered key for its signature and digest. The recovery branches
  of a key are not told apart. The parent's file is its locking script, of which
  the code reads nothing else. Header and difficulty either hold or do not; the
  four changed copies of `reproduce()` have arbitrary verdicts.
  `metrics()` and the numbers of the report are left out, and so is the check of
  `phase3.py:348-350` that the RIPEMD160 of `key_nonce` is no DER signature: a fact
  about one published constant, on which no other step depends.
* `CoreLifecycle` leaves out an interrupt inside `__exit__`, or between `Popen`
  and the `try`: either ends the clean-up. `NothingOutlives` names the two ways
  out that clean up less by design: a `bitcoind` that cannot be started, and an
  answer to `stop` that is not JSON (a `ValueError`, which `core.py:100` does not
  list), after which neither `terminate()` nor `cleanup()` is called.
* `ToyBuild` states currency of the files the present patch touches. Two
  weaknesses of the code lie outside it. A file that only an earlier patch
  touched is unpacked again with the time of the commit, looks older than its
  object, and Ninja keeps the patched object although `check_build()` passes;
  TLC finds this when the property is asked of all files. And an input that is
  edited while a build runs and put back afterwards goes unnoticed, because the
  recorded hashes are those of the start; `Edit` therefore either keeps out of a
  build or never brings a content back.
* The sending of setup blocks in `replay()` is taken to succeed.
* One process uses an output directory at a time: two that start together may
  both pass the test for `results.json` (`phase2.py:275`), and nothing in the
  code claims otherwise.
* `entries = selections` in phase 2 leaves no other subset for the negative
  cases: `next()` raises `StopIteration` (`phase2.py:437`) and the run fails
  after its honest lifecycle. No property is about it.
* Not modelled: recovery and curve arithmetic (numbers of 256 bits), the native
  verifier and the consensus patch (Bitcoin Core's interpreter; their verdicts
  are oracles), `measure.py` (timing), `fetch()` and `check_vendor()` (network,
  file hashes), argument parsing in `cli.py`, `exact_search.cpp` (in no build),
  and vendored or recorded material.
* `bitcoind` is modelled only as far as `src/` uses it.

## 6. Plan

Built, in this order: the phase 2 search with its refinement and proofs, the
validations, the output directory, the pinning handoff, the scripts, the toy
search, the node process, the build cache, the published spend with its codec,
and proofs of every safety property but three of the published spend.

What is left:

1. `SelectionsOpenTheirCommitments`, `ExecutesTheSearched` and
   `PublishedIsReported` as theorems, first for the published script itself,
   along the stages of `ScriptProofs`, then for those that differ from it.
2. The phase 2 run as a whole: lifecycles, case list and directory composed,
   with `entries = selections`, as one module over the present ones.
3. The sighash types that no script here uses, once one does.

A new question joins a run whose module it extends, or takes the place of the
weakest run, to keep the whole check short.
