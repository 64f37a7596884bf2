--------------------------- MODULE ToyValidation ---------------------------
(***************************************************************************)
(* How the toy run settles its cases on two nodes (btc_pq/toy.py): the     *)
(* experimental node runs the patched consensus rules, the stock node does *)
(* not, and both hold the same funded chain.  validate() asks both native  *)
(* verifiers, mines on the experimental node, saves and invalidates the    *)
(* block, and then requires the stock node to refuse the transaction.      *)
(* replay() submits each saved block to fresh nodes: the experimental one  *)
(* must take it, the stock one must refuse that very block.                *)
(*                                                                         *)
(* What the two sets of rules say is an oracle.  As in CaseValidation, the *)
(* code reads every RPCError of mine() as a rejection; submitblock answers *)
(* with a verdict and has no such reading.                                 *)
(***************************************************************************)
EXTENDS Naturals, Sequences, FiniteSets, RegtestNode

CONSTANTS
    Expected,   \* expected_toy_acceptance of each case, in the run's order
    MaxErrors   \* bound: RPC errors of mine() that are no consensus verdict

ASSUME ExpectedAssumption ==
    /\ Expected \in Seq(BOOLEAN)
    /\ Expected # <<>>
ASSUME BoundAssumption == MaxErrors \in Nat

Cases == DOMAIN Expected
ExpectedOK == {c \in Cases : Expected[c]}

VARIABLES
    toyOK,      \* oracle: the cases the experimental rules accept
    stockOK,    \* oracle: the cases the stock rules accept
    toyNative,  \* oracle: the cases the experimental verifier calls valid
    stockNative,\* oracle: the cases the stock verifier calls valid
    toy,        \* the experimental node
    stock,      \* the stock node
    step,       \* where validate() or replay() is
    case,       \* the case it is at
    row,        \* the row of that case
    rows,       \* result['cases']
    files,      \* the block files on disk
    errors,     \* history: <<case, node>> of mine() failing otherwise
    failure     \* why the run was abandoned

verdicts == <<toyOK, stockOK, toyNative, stockNative>>
runVars == <<toyOK, stockOK, toyNative, stockNative, toy, stock, step, case, row,
          rows, files, errors, failure>>

Stopped == {"complete", "failed"}
NoBlock == [case |-> 0, parent |-> <<>>]
NoRow == [toyAccepted |-> FALSE, stockAccepted |-> FALSE, block |-> NoBlock]

RunInit ==
    /\ toyOK \in SUBSET Cases
    /\ stockOK \in SUBSET Cases
    /\ toyNative \in SUBSET Cases
    /\ stockNative \in SUBSET Cases
    /\ toy = FundedTip
    /\ stock = FundedTip
    /\ step = "start"
    /\ case = 1
    /\ row = NoRow
    /\ rows = <<>>
    /\ files = [c \in Cases |-> NoBlock]
    /\ errors = <<>>
    /\ failure = "none"

Fail(why) ==
    /\ step' = "failed"
    /\ failure' = why

Glitch(node) ==
    /\ Len(errors) < MaxErrors
    /\ errors' = Append(errors, <<case, node>>)

-----------------------------------------------------------------------------
(* validate() *)

(* Both nodes must be at the funded tip; both verifiers are asked.         *)
Start ==
    /\ step = "start"
    /\ IF AtBaseTip(toy) /\ AtBaseTip(stock)
       THEN step' = "toy" /\ UNCHANGED failure
       ELSE Fail("tip")
    /\ UNCHANGED <<verdicts, toy, stock, case, row, rows, files, errors>>

MineToy ==
    /\ step = "toy"
    /\ IF Mines(toy, case, toyOK)
       THEN /\ toy' = AfterMine(toy, case)
            /\ row' = [row EXCEPT !.toyAccepted = TRUE, !.block = BlockOf(toy, case)]
            /\ step' = "keep"
       ELSE step' = "stock" /\ UNCHANGED <<toy, row>>
    /\ UNCHANGED <<verdicts, stock, case, rows, files, errors, failure>>

ToyGlitch ==
    /\ step = "toy"
    /\ Glitch("toy")
    /\ step' = "stock"
    /\ UNCHANGED <<verdicts, toy, stock, case, row, rows, files, failure>>

(* The accepted block carries the spend; it is saved and taken back.       *)
KeepChain(block) == toy                             \* mutant: no invalidateblock
Restored(block) == AfterInvalidate(toy, block)

Keep ==
    /\ step = "keep"
    /\ files' = [files EXCEPT ![case] = row.block]
    /\ toy' = Restored(row.block)
    /\ step' = "stock"
    /\ UNCHANGED <<verdicts, stock, case, row, rows, errors, failure>>

(* A block the stock node mines is not taken back: its row ends the run.   *)
MineStock ==
    /\ step = "stock"
    /\ IF Mines(stock, case, stockOK)
       THEN /\ stock' = AfterMine(stock, case)
            /\ row' = [row EXCEPT !.stockAccepted = TRUE]
       ELSE UNCHANGED <<stock, row>>
    /\ step' = "record"
    /\ UNCHANGED <<verdicts, toy, case, rows, files, errors, failure>>

StockGlitch ==
    /\ step = "stock"
    /\ Glitch("stock")
    /\ step' = "record"
    /\ UNCHANGED <<verdicts, toy, stock, case, row, rows, files, failure>>

StockUnchecked(r) ==                \* mutant: the stock block verdict is kept only
    /\ (case \in toyNative) = Expected[case]
    /\ r.toyAccepted = Expected[case]
    /\ case \notin stockNative
AsExpected(r) ==
    /\ (case \in toyNative) = Expected[case]
    /\ r.toyAccepted = Expected[case]
    /\ case \notin stockNative
    /\ ~r.stockAccepted

IsLast(c) == c = Len(Expected)

(* replay() starts two fresh nodes and submits the setup blocks to both.   *)
BeginReplay ==
    /\ step' = "replay"
    /\ case' = 1
    /\ toy' = FundedTip
    /\ stock' = FundedTip

Record ==
    /\ step = "record"
    /\ rows' = Append(rows, row)
    /\ row' = NoRow
    /\ IF ~AsExpected(row)
       THEN Fail("verdict") /\ UNCHANGED <<toy, stock, case>>
       ELSE /\ IF IsLast(case)
               THEN BeginReplay
               ELSE step' = "start" /\ case' = case + 1 /\ UNCHANGED <<toy, stock>>
            /\ UNCHANGED failure
    /\ UNCHANGED <<verdicts, files, errors>>

-----------------------------------------------------------------------------
(* replay() *)

ReplayMismatch == Fail("replay") /\ UNCHANGED <<toy, case>>

NextReplay ==
    IF IsLast(case)
    THEN step' = "complete" /\ UNCHANGED case
    ELSE step' = "replay" /\ case' = case + 1

NativeDiffers(r) ==
    \/ (case \in toyNative) # r.toyAccepted
    \/ case \in stockNative

Reconnects(r) ==
    /\ Takes(toy, files[case], toyOK)
    /\ IsBestBlock(AfterSubmit(toy, files[case], toyOK), r.block)

KeepReplayed(block) == AfterSubmit(toy, files[case], toyOK)   \* mutant
TakenBack(block) == AfterInvalidate(AfterSubmit(toy, files[case], toyOK), block)

(* The very same block goes to the stock node.                             *)
NotSubmitted(block) == FALSE        \* mutant: only the recorded verdict
StockTakes(block) == Takes(stock, block, stockOK)

ReplayAccepted ==
    LET r == rows[case]
    IN  /\ step = "replay"
        /\ r.toyAccepted
        /\ IF NativeDiffers(r) \/ ~Reconnects(r)
           THEN ReplayMismatch /\ UNCHANGED stock
           ELSE IF StockTakes(files[case])
           THEN Fail("replay") /\ UNCHANGED case
                /\ toy' = TakenBack(r.block)
                /\ stock' = AfterSubmit(stock, files[case], stockOK)
           ELSE toy' = TakenBack(r.block) /\ NextReplay /\ UNCHANGED <<stock, failure>>
        /\ UNCHANGED <<verdicts, row, rows, files, errors>>

(* The transaction of a rejected row must fail on the experimental node    *)
(* again; the stock node is not asked a second time.                       *)
Unnoticed == FALSE                  \* mutant: no 'else: raise' after the try
MinedAfterAll == Mines(toy, case, toyOK)

ReplayRejected ==
    LET r == rows[case]
    IN  /\ step = "replay"
        /\ ~r.toyAccepted
        /\ IF NativeDiffers(r) \/ MinedAfterAll
           THEN ReplayMismatch
           ELSE NextReplay /\ UNCHANGED <<toy, failure>>
        /\ UNCHANGED <<verdicts, stock, row, rows, files, errors>>

ReplayGlitch ==
    LET r == rows[case]
    IN  /\ step = "replay"
        /\ ~r.toyAccepted
        /\ ~NativeDiffers(r)
        /\ Glitch("toy")
        /\ NextReplay
        /\ UNCHANGED <<verdicts, toy, stock, row, rows, files, failure>>

-----------------------------------------------------------------------------
(* A transport error, an exhausted search budget, an interrupt.            *)
Interrupt ==
    /\ step \notin Stopped
    /\ Fail("interrupted")
    /\ UNCHANGED <<verdicts, toy, stock, case, row, rows, files, errors>>

Progress ==
    \/ Start \/ MineToy \/ Keep \/ MineStock \/ Record
    \/ ReplayAccepted \/ ReplayRejected

RunNext ==
    \/ Progress
    \/ ToyGlitch \/ StockGlitch \/ ReplayGlitch \/ Interrupt

RunSpec == RunInit /\ [][RunNext]_runVars

(* The program is one thread that always has a next statement.             *)
FairRunSpec == RunSpec /\ WF_runVars(Progress)

-----------------------------------------------------------------------------
Blocks == [case : Cases, parent : {<<>>}]
Chains == {<<>>} \union {<<b>> : b \in Blocks}
Rows == [toyAccepted : BOOLEAN, stockAccepted : BOOLEAN, block : Blocks \union {NoBlock}]

(* The state is well formed: neither chain ever carries more than the block*)
(* of one case, and every block was mined on the funded tip.               *)
TypeOK ==
    /\ toyOK \subseteq Cases /\ stockOK \subseteq Cases
    /\ toyNative \subseteq Cases /\ stockNative \subseteq Cases
    /\ toy \in [chain : Chains, invalid : SUBSET Blocks]
    /\ stock \in [chain : Chains, invalid : {{}}]
    /\ step \in {"start", "toy", "keep", "stock", "record", "replay"} \union Stopped
    /\ case \in Cases
    /\ row \in Rows
    /\ rows \in Seq(Rows)
    /\ files \in [Cases -> Blocks \union {NoBlock}]
    /\ errors \in Seq(Cases \X {"toy", "stock"}) /\ Len(errors) <= MaxErrors
    /\ failure \in {"none", "tip", "verdict", "replay", "interrupted"}

(* The two nodes stay aligned on the funded tip: validate()'s own check of *)
(* them never fails, and a stock node that took a spend sees no other case.*)
NodesStayAligned ==
    /\ failure # "tip"
    /\ ~AtBaseTip(stock) => step \in {"record", "failed"}

Occurrences(seq, e) == Cardinality({k \in DOMAIN seq : seq[k] = e})
TimesFailed(c, node) == Occurrences(errors, <<c, node>>)

(* A completed run says of the experimental rules what they say, unless the*)
(* node failed the case for another reason in the run and in the replay;   *)
(* the verifiers agree.                                                    *)
CompleteRunIsTrue ==
    step = "complete" =>
        \A c \in Cases :
            /\ (c \in toyNative) = Expected[c]
            /\ (c \in toyOK) = Expected[c] \/ TimesFailed(c, "toy") >= 2

(* "Stock Core must reject them" (TOY.md): after a complete run the stock  *)
(* rules refuse every block the experimental node accepted, whatever RPC   *)
(* errors the run met, and a control they would accept was hidden by one.  *)
StockRefuses ==
    step = "complete" =>
        \A c \in stockOK :
            /\ ~rows[c].toyAccepted
            /\ TimesFailed(c, "stock") >= 1

(* replay() finds a mismatch only at a case one of the nodes failed for    *)
(* another reason than the spend during the run.                           *)
ReplayReproduces ==
    failure = "replay" => TimesFailed(case, "toy") + TimesFailed(case, "stock") >= 1

(* When both rules and both verifiers agree with what is expected, a run   *)
(* that nothing disturbs completes.                                        *)
AsPlanned ==
    /\ toyOK = ExpectedOK /\ toyNative = ExpectedOK
    /\ stockOK = {} /\ stockNative = {}
Completes ==
    AsPlanned ~> (step = "complete" \/ failure = "interrupted" \/ errors # <<>>)
=============================================================================
