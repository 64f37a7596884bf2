---------------------------- MODULE RegtestNode ----------------------------
(***************************************************************************)
(* The isolated regtest node as btc_pq/core.py and its callers use it.     *)
(* bitcoind is not part of this repository: these operators say only what  *)
(* generateblock, submitblock, invalidateblock and getbestblockhash do to  *)
(* the active chain above the funded base tip.                             *)
(*                                                                         *)
(* A node is a record: chain, the active blocks above the base tip, oldest *)
(* first, and invalid, the blocks an operator invalidated by hand.  A block*)
(* names the case whose transaction it carries and the chain it was mined  *)
(* on; every case spends the same funding outputs.                         *)
(***************************************************************************)
EXTENDS Naturals, Sequences

FundedTip == [chain |-> <<>>, invalid |-> {}]

AtBaseTip(node) == node.chain = <<>>
IsBestBlock(node, block) == node.chain # <<>> /\ node.chain[Len(node.chain)] = block

BlockOf(node, case) == [case |-> case, parent |-> node.chain]

(* Consensus accepts case's transaction on the tip: its script passes and  *)
(* no active block has spent the funding outputs already.                  *)
Connects(node, case, scriptOK) == case \in scriptOK /\ AtBaseTip(node)

Extended(node, block) == [node EXCEPT !.chain = Append(@, block)]

(* generateblock: an error, or a block on the tip. *)
Mines(node, case, scriptOK) == Connects(node, case, scriptOK)
AfterMine(node, case) == Extended(node, BlockOf(node, case))

(* submitblock returns None only for a block that becomes the best one: a  *)
(* sibling of the tip is stored but stays inactive.                        *)
Takes(node, block, scriptOK) ==
    /\ block.parent = node.chain
    /\ block \notin node.invalid
    /\ Connects(node, block.case, scriptOK)
AfterSubmit(node, block, scriptOK) ==
    IF Takes(node, block, scriptOK) THEN Extended(node, block) ELSE node

(* invalidateblock: the chain goes back to the block's parent.             *)
AfterInvalidate(node, block) ==
    [chain |-> IF \E k \in DOMAIN node.chain : node.chain[k] = block
               THEN block.parent ELSE node.chain,
     invalid |-> node.invalid \union {block}]
=============================================================================
