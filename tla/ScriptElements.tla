--------------------------- MODULE ScriptElements ---------------------------
(***************************************************************************)
(* What the compiled scripts are made of (btc_pq/bitcoin.py, crypto.py):   *)
(* stack elements and instructions.                                        *)
(*                                                                         *)
(* Bytes are abstract: an element is a number, or is known by where it     *)
(* comes from.  Hashes and recovery do not collide.                        *)
(***************************************************************************)
EXTENDS Integers, Sequences, FiniteSets, SequencesExt

Element(kind, n, s) == [kind |-> kind, n |-> n, s |-> s]

Num(n) == Element("num", n, {})
Fixed == Element("fixed", 0, {})            \* the fixed signature, SIGHASH_ALL
Junk == Element("junk", 0, {})              \* any other bytes

(* The transaction being validated, and another one with its own witness.  *)
Spend == 1
Txs == {Spend, 2}

(* A key recovered from the fixed signature is named for its digest: that  *)
(* of a transaction, and of the dummies deleted from the script code.      *)
Key(tx, deleted) == Element("key", tx, deleted)

-----------------------------------------------------------------------------
(* name is what compile() takes a rolled element for. *)
NoName == <<"none", 0>>
Instruction(op, arg, name) == [op |-> op, arg |-> arg, name |-> name]
Push(e) == Instruction("PUSH", e, NoName)
PushNum(n) == Push(Num(n))
Op(op) == Instruction(op, Junk, NoName)

(* script_metrics()['static_non_push_opcodes'] *)
StaticOpcodes(script) == Cardinality({k \in DOMAIN script : script[k].op # "PUSH"})
=============================================================================
