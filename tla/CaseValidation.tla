-------------------------- MODULE CaseValidation --------------------------
(***************************************************************************)
(* How a run settles its cases: validate() of btc_pq/phase2.py and case()  *)
(* of btc_pq/experiments.py give each transaction, in order, to the native *)
(* verifier and to a block of the regtest node, save the block, take it    *)
(* back off the chain and compare both verdicts with the expected one.     *)
(* replay() repeats the verdicts on a fresh node, from the saved files:    *)
(* phase2.run() does so before it writes results.json and asks the native  *)
(* verifier again, experiments.run() leaves replaying to a later command   *)
(* that asks only the node.                                                *)
(*                                                                         *)
(* The truth is an oracle: what consensus accepts and what the native      *)
(* verifier says are arbitrary.  The code reads every RPCError of mine()   *)
(* as a rejection, whatever caused it; MaxErrors of them have another      *)
(* cause (a warming-up or overloaded node).  Every other failure -- a      *)
(* transport timeout, an exhausted search, a kill -- ends the run.         *)
(***************************************************************************)
EXTENDS Naturals, Sequences, FiniteSets, RegtestNode

CONSTANTS
    Expected,   \* the expected acceptance of each case, in the run's order
    MaxErrors,  \* bound: RPC errors of mine() that are no consensus verdict
    MaxReplays  \* bound: stand-alone replays after the run

ASSUME ExpectedAssumption ==
    /\ Expected \in Seq(BOOLEAN)
    /\ Expected # <<>>
ASSUME BoundAssumption == MaxErrors \in Nat /\ MaxReplays \in Nat

Cases == DOMAIN Expected
ExpectedOK == {c \in Cases : Expected[c]}

VARIABLES
    driver,     \* the module that runs: "phase2" or "experiments"
    scriptOK,   \* oracle: the cases whose spend consensus accepts
    nativeOK,   \* oracle: the cases the native verifier calls valid
    node,       \* the node of the current Core context
    step,       \* where validate() or replay() is
    case,       \* the case it is at
    row,        \* the row of that case
    rows,       \* result['cases']
    files,      \* the block files on disk, one per accepted case
    complete,   \* results.json was written
    replays,    \* stand-alone replays started
    errors,     \* history: the cases mine() failed for no consensus reason
    failure     \* why the run, or the last replay, was abandoned

oracle == <<driver, scriptOK, nativeOK>>
vars == <<driver, scriptOK, nativeOK, node, step, case, row, rows, files, complete,
          replays, errors, failure>>

Stopped == {"complete", "failed"}

NoBlock == [case |-> 0, parent |-> <<>>]
NoRow == [native |-> FALSE, accepted |-> FALSE, block |-> NoBlock]

Init ==
    /\ driver \in {"phase2", "experiments"}
    /\ scriptOK \in SUBSET Cases
    /\ nativeOK \in SUBSET Cases
    /\ node = FundedTip
    /\ step = "start"
    /\ case = 1
    /\ row = NoRow
    /\ rows = <<>>
    /\ files = [c \in Cases |-> NoBlock]
    /\ complete = FALSE
    /\ replays = 0
    /\ errors = <<>>
    /\ failure = "none"

Fail(why) ==
    /\ step' = "failed"
    /\ failure' = why

-----------------------------------------------------------------------------
(* validate() *)

(* The case must start from the funded tip; the transaction is written and *)
(* natively verified.                                                      *)
Start ==
    /\ step = "start"
    /\ IF AtBaseTip(node)
       THEN /\ step' = "mine"
            /\ row' = [NoRow EXCEPT !.native = case \in nativeOK]
            /\ UNCHANGED failure
       ELSE Fail("tip") /\ UNCHANGED row
    /\ UNCHANGED <<oracle, node, case, rows, files, complete, replays, errors>>

Mine ==
    /\ step = "mine"
    /\ IF Mines(node, case, scriptOK)
       THEN /\ node' = AfterMine(node, case)
            /\ row' = [row EXCEPT !.accepted = TRUE, !.block = BlockOf(node, case)]
            /\ step' = "confirm"
       ELSE step' = "record" /\ UNCHANGED <<node, row>>
    /\ UNCHANGED <<oracle, case, rows, files, complete, replays, errors, failure>>

(* generateblock answers with an error that says nothing of the spend.     *)
Glitch == /\ Len(errors) < MaxErrors
          /\ errors' = Append(errors, case)

MineGlitch ==
    /\ step = "mine"
    /\ Glitch
    /\ step' = "record"
    /\ UNCHANGED <<oracle, node, case, row, rows, files, complete, replays, failure>>

(* The block must be the active tip and carry the spend; it is saved.      *)
SaveNothing(block) == files' = files                \* mutant: file not written
SaveBlock(block) == files' = [files EXCEPT ![case] = block]

Confirm ==
    /\ step = "confirm"
    /\ IF IsBestBlock(node, row.block) /\ row.block.case = case
       THEN SaveBlock(row.block) /\ step' = "invalidate" /\ UNCHANGED failure
       ELSE Fail("inactive") /\ UNCHANGED files
    /\ UNCHANGED <<oracle, node, case, row, rows, complete, replays, errors>>

KeepChain(block) == node                            \* mutant: no invalidateblock
Restored(block) == AfterInvalidate(node, block)

Invalidate ==
    /\ step = "invalidate"
    /\ node' = Restored(row.block)
    /\ step' = "record"
    /\ UNCHANGED <<oracle, case, row, rows, files, complete, replays, errors, failure>>

(* The row is kept whatever its verdict; a verdict that is not the expected*)
(* one abandons the run.  After the last case the context manager stops the*)
(* node; phase 2 replays on a fresh one, experiments writes results.json.  *)
AsExpected(r) == r.native = Expected[case] /\ r.accepted = Expected[case]

IsLast(c) == c = Len(Expected)

BeginReplay ==
    /\ step' = "replay"
    /\ case' = 1
    /\ node' = FundedTip

WriteResults ==
    /\ step' = "complete"
    /\ complete' = TRUE

EndOfCases ==
    \/ driver = "phase2" /\ BeginReplay /\ UNCHANGED complete
    \/ driver = "experiments" /\ WriteResults /\ UNCHANGED <<case, node>>

Record ==
    /\ step = "record"
    /\ rows' = Append(rows, row)
    /\ row' = NoRow
    /\ IF ~AsExpected(row)
       THEN Fail("verdict") /\ UNCHANGED <<node, case, complete>>
       ELSE /\ IF IsLast(case)
               THEN EndOfCases
               ELSE step' = "start" /\ case' = case + 1 /\ UNCHANGED <<node, complete>>
            /\ UNCHANGED failure
    /\ UNCHANGED <<oracle, files, replays, errors>>

-----------------------------------------------------------------------------
(* replay() *)

NextReplay ==
    IF case = Len(rows)
    THEN WriteResults /\ UNCHANGED case
    ELSE /\ step' = "replay"
         /\ case' = case + 1
         /\ UNCHANGED complete

ReplayMismatch ==
    /\ Fail("replay")
    /\ UNCHANGED <<node, case, complete>>

NativeDiffers(r) == driver = "phase2" /\ (case \in nativeOK) # r.accepted

(* An accepted row: its block file must connect, become the tip and be the *)
(* recorded block, which is then invalidated again.                        *)
Reconnects(r) ==
    /\ Takes(node, files[case], scriptOK)
    /\ IsBestBlock(AfterSubmit(node, files[case], scriptOK), r.block)

KeepReplayed(block) == AfterSubmit(node, files[case], scriptOK)   \* mutant
TakenBack(block) == AfterInvalidate(AfterSubmit(node, files[case], scriptOK), block)

ReplayAccepted ==
    LET r == rows[case]
    IN  /\ step = "replay"
        /\ r.accepted
        /\ IF NativeDiffers(r) \/ ~Reconnects(r)
           THEN ReplayMismatch
           ELSE node' = TakenBack(r.block) /\ NextReplay /\ UNCHANGED failure
        /\ UNCHANGED <<oracle, row, rows, files, replays, errors>>

(* A rejected row: mining its transaction must fail again.                 *)
Unnoticed == FALSE                  \* mutant: no 'else: raise' after the try
MinedAfterAll == Mines(node, case, scriptOK)

ReplayRejected ==
    LET r == rows[case]
    IN  /\ step = "replay"
        /\ ~r.accepted
        /\ IF NativeDiffers(r) \/ MinedAfterAll
           THEN ReplayMismatch
           ELSE NextReplay /\ UNCHANGED <<node, failure>>
        /\ UNCHANGED <<oracle, row, rows, files, replays, errors>>

ReplayGlitch ==
    LET r == rows[case]
    IN  /\ step = "replay"
        /\ ~r.accepted
        /\ ~NativeDiffers(r)
        /\ Glitch
        /\ NextReplay
        /\ UNCHANGED <<oracle, node, row, rows, files, replays, failure>>

(* "phase2 --replay", "replay": the saved result, on a fresh node.         *)
ReplayAgain ==
    /\ complete
    /\ step \in Stopped
    /\ replays < MaxReplays
    /\ replays' = replays + 1
    /\ BeginReplay
    /\ failure' = "none"
    /\ UNCHANGED <<oracle, row, rows, files, complete, errors>>

-----------------------------------------------------------------------------
(* OSError from an RPC, an exhausted search before a lifecycle's case, an  *)
(* interrupt: the except clause records the failure and re-raises.         *)
Interrupt ==
    /\ step \notin Stopped
    /\ Fail("interrupted")
    /\ UNCHANGED <<oracle, node, case, row, rows, files, complete, replays, errors>>

Progress ==
    \/ Start \/ Mine \/ Confirm \/ Invalidate \/ Record
    \/ ReplayAccepted \/ ReplayRejected

Next ==
    \/ Progress
    \/ MineGlitch \/ ReplayGlitch \/ ReplayAgain \/ Interrupt

Spec == Init /\ [][Next]_vars

(* The program is one thread that always has a next statement.             *)
FairSpec == Spec /\ WF_vars(Progress)

-----------------------------------------------------------------------------
(* Every block is mined on the funded tip, so at most one is active.       *)
Blocks == [case : Cases, parent : {<<>>}]
Nodes == [chain : {<<>>} \union {<<b>> : b \in Blocks}, invalid : SUBSET Blocks]
Rows == [native : BOOLEAN, accepted : BOOLEAN, block : Blocks \union {NoBlock}]

(* The state is well formed: rows and files name cases and their blocks,   *)
(* and the chain never carries more than the block of one case.            *)
TypeOK ==
    /\ driver \in {"phase2", "experiments"}
    /\ scriptOK \subseteq Cases /\ nativeOK \subseteq Cases
    /\ node \in Nodes
    /\ step \in {"start", "mine", "confirm", "invalidate", "record", "replay"} \union Stopped
    /\ case \in Cases
    /\ row \in Rows
    /\ rows \in Seq(Rows)
    /\ files \in [Cases -> Blocks \union {NoBlock}]
    /\ complete \in BOOLEAN
    /\ replays \in 0 .. MaxReplays
    /\ errors \in Seq(Cases) /\ Len(errors) <= MaxErrors
    /\ failure \in {"none", "tip", "inactive", "verdict", "replay", "interrupted"}

(* No case sees the block of an earlier one: neither validate()'s check of *)
(* the funded tip nor its check of the mined block can ever fail, because  *)
(* every accepted block was invalidated before its row was recorded.       *)
CasesAreIndependent == failure \notin {"tip", "inactive"}

Occurrences(seq, c) == Cardinality({k \in DOMAIN seq : seq[k] = c})
TimesFailed(c) == Occurrences(errors, c)

(* What a written results.json reports is what consensus says, and what the*)
(* native verifier says: a case reported other than it truly is was failed *)
(* by the node for another reason, and in phase 2 twice, in the run and in *)
(* the replay that precedes the file.                                      *)
ErrorsToDeceive == IF driver = "phase2" THEN 2 ELSE 1

CompleteRunIsTrue ==
    complete =>
        \A c \in Cases :
            /\ rows[c].accepted = Expected[c]
            /\ (c \in nativeOK) = Expected[c]
            /\ (c \in scriptOK) = Expected[c] \/ TimesFailed(c) >= ErrorsToDeceive

(* A saved run can be replayed: replay() finds a mismatch only at a case   *)
(* the node failed for another reason than the spend.                      *)
ReplayReproduces == failure = "replay" => TimesFailed(case) >= 1

(* When consensus and the native verifier both agree with the expected     *)
(* verdicts, a run that nothing disturbs completes.                        *)
Undisturbed == failure # "interrupted" /\ errors = <<>>
Completes ==
    (scriptOK = ExpectedOK /\ nativeOK = ExpectedOK) ~> (complete \/ ~Undisturbed)
=============================================================================
