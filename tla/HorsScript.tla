----------------------------- MODULE HorsScript -----------------------------
(***************************************************************************)
(* The locking script of a phase 2 instance (btc_pq/phase2.py, class       *)
(* Instance): compile() writes it, keeping the names of the elements the   *)
(* script will find on the stack, and witness() builds what a spend        *)
(* supplies.                                                               *)
(*                                                                         *)
(* A spend is authorised by a pinned transaction variant, a set of table   *)
(* entries whose preimages it discloses, and a proof for each of the two   *)
(* keys recovered from the fixed signature: one on the script code of the  *)
(* pinning check, one on the script code without the chosen dummies.       *)
(*                                                                         *)
(* An oracle, hits, says for which keys a proof exists.                    *)
(***************************************************************************)
EXTENDS ScriptElements

CONSTANTS
    Params,     \* <<entries, selections>> pairs
    Puzzles     \* "hash-to-der", "signature-size-surrogate"

(* Parameters.validate() *)
ASSUME ParamsAssumption ==
    /\ \A p \in Params : p[1] \in 2 .. 64 /\ p[2] \in 1 .. 6 /\ p[2] <= p[1]
    /\ Puzzles \subseteq {"hash-to-der", "signature-size-surrogate"}

-----------------------------------------------------------------------------
(* Stack elements. *)
Dummy(i) == Element("dummy", i, {})                 \* self.dummies, SIGHASH_SINGLE
DummyKey(i) == Element("dummykey", i, {})           \* key of the SINGLE-bug digest
Preimage(i) == Element("preimage", i, {})
Commitment(i) == Element("commitment", i, {})       \* hash160 of the preimage

(* The hash of a recovered key, to be read as a signature.                 *)
HashOfKey(tx, deleted) == Element("keyhash", tx, deleted)

(* proof(): what makes the puzzle pass for that key, a public key that     *)
(* verifies its hash as a signature of tx, or in the surrogate a signature *)
(* of the SINGLE-bug digest.                                               *)
Proof(puzzle, tx, deleted) ==
    IF puzzle = "hash-to-der" THEN Element("proofkey", tx, deleted)
                              ELSE Element("proofsig", tx, deleted)

-----------------------------------------------------------------------------
(* compile().  The names of a witness, bottom to top. *)
Names(t) ==
    <<<<"digest_proof", 0>>, <<"digest_key", 0>>>>
    \o [i \in 1 .. t |-> <<"pub", t - i>>]
    \o FlattenSeq([i \in 1 .. t |-> <<<<"pre", t - i>>, <<"index", t - i>>>>])
    \o <<<<"pin_proof", 0>>, <<"pin_key", 0>>>>

(* A compiler state c is the script so far and the names of the stack.     *)
Emit(c, code) == [c EXCEPT !.script = @ \o code]
Renamed(c, n, names) ==
    [c EXCEPT !.stack = SubSeq(@, 1, Len(@) - n) \o names]

Position(c, name) == SelectInSeq(c.stack, LAMBDA x : x = name)
DepthBelow(c, name) == Len(c.stack) - Position(c, name) + 1     \* mutant: off by one
Depth(c, name) == Len(c.stack) - Position(c, name)

Roll(c, name) ==
    [script |-> c.script \o <<PushNum(Depth(c, name)), Instruction("ROLL", Junk, name)>>,
     stack  |-> Append(RemoveAt(c.stack, Position(c, name)), name)]

(* Mutant: the surrogate proof's size is not checked. *)
PuzzleCodeUnsized(puzzle) ==
    IF puzzle = "hash-to-der"
    THEN <<Op("DUP"), Op("RIPEMD160"), PushNum(2), Op("ROLL"), Op("CHECKSIGVERIFY")>>
    ELSE <<Op("SWAP"), Op("OVER"), Op("CHECKSIGVERIFY")>>

(* The size a surrogate proof must have is one no other element here has.  *)
SignatureBytes == 69
PuzzleCode(puzzle) ==
    IF puzzle = "hash-to-der"
    THEN <<Op("DUP"), Op("RIPEMD160"), PushNum(2), Op("ROLL"), Op("CHECKSIGVERIFY")>>
    ELSE <<Op("SWAP"), Op("SIZE"), PushNum(SignatureBytes), Op("EQUALVERIFY"), Op("OVER"),
           Op("CHECKSIGVERIFY")>>

(* ... proof, key becomes ... key *)
PuzzleCheck(c, puzzle) ==
    Renamed(Emit(c, PuzzleCode(puzzle)), 2, <<<<"preserved_key", 0>>>>)

InTable(n) == <<Op("DUP"), PushNum(0), PushNum(n), Op("WITHIN"), Op("VERIFY")>>
(* Mutant: the comparison of two indices is dropped, not verified. *)
AscendingUnverified ==
    <<Op("DUP"), Op("FROMALT"), Op("GREATERTHAN"), Op("DROP"), Op("DUP"), Op("TOALT")>>
Ascending ==
    <<Op("DUP"), Op("FROMALT"), Op("GREATERTHAN"), Op("VERIFY"), Op("DUP"), Op("TOALT")>>
Twice == <<Op("DUP"), Op("ADD"), Op("DUP")>>
Lookup(j) == <<PushNum(j + 1), Op("ADD"), Op("PICK")>>
Opened == <<Op("HASH160"), Op("EQUALVERIFY")>>

(* Range and order of the j-th index, then the two lookups in the table:   *)
(* the commitment, to check the preimage, and the dummy below it.          *)
IndexChecked(c, j, n) == Emit(Emit(Roll(c, <<"index", j>>), InTable(n)), Ascending)
CommitmentFound(c, j, n) ==
    Renamed(Emit(Emit(IndexChecked(c, j, n), Twice), Lookup(j)),
            1, <<<<"offset", 0>>, <<"selected_commitment", 0>>>>)
PreimageChecked(c, j, n) ==
    Renamed(Emit(Roll(CommitmentFound(c, j, n), <<"pre", j>>), Opened), 2, <<>>)
Selection(c, j, n) ==
    Renamed(Emit(PreimageChecked(c, j, n), Lookup(j)), 1, <<<<"selected", j>>>>)

Table(n) == FlattenSeq([i \in 1 .. n |-> <<Push(Dummy(n - i)), Push(Commitment(n - i))>>])
TableNames(n) == FlattenSeq([i \in 1 .. n |-> <<<<"dummy", n - i>>, <<"commit", n - i>>>>])

(* compile(), stage by stage: the pinned key is checked and dropped, ...   *)
Pinned(t, puzzle) ==
    LET start == [script |-> <<Push(Fixed), Op("OVER"), Op("CHECKSIGVERIFY")>>, stack |-> Names(t)]
    IN  Renamed(Emit(PuzzleCheck(start, puzzle), <<Op("DROP")>>), 1, <<>>)
(* ... the table is pushed, ... *)
Tabled(n, t, puzzle) ==
    Renamed(Emit(Emit(Pinned(t, puzzle), Table(n)), <<PushNum(-1), Op("TOALT")>>),
            0, TableNames(n))
(* ... k entries are selected, ... *)
Selected(n, t, puzzle, k) ==
    LET c[j \in 0 .. k] == IF j = 0 THEN Tabled(n, t, puzzle) ELSE Selection(c[j - 1], j - 1, n)
    IN  c[k]
(* ... put aside, and put back above the fixed signature, ... *)
Stashed(n, t, puzzle) ==
    Renamed(Emit(Emit(Selected(n, t, puzzle, t), <<Op("FROMALT"), Op("DROP")>>),
                 [i \in 1 .. t |-> Op("TOALT")]), t, <<>>)
Signatures(n, t, puzzle) ==
    Renamed(Emit(Emit(Stashed(n, t, puzzle), <<PushNum(0), Push(Fixed)>>),
                 [i \in 1 .. t |-> Op("FROMALT")]),
            0, <<<<"null_dummy", 0>>, <<"fixed_signature", 0>>>>
               \o [i \in 1 .. t |-> <<"selected", i - 1>>])
(* ... the digest key is checked, ... *)
Digest(n, t, puzzle) ==
    PuzzleCheck(Roll(Roll(Signatures(n, t, puzzle), <<"digest_proof", 0>>), <<"digest_key", 0>>), puzzle)
SigsCounted(n, t, puzzle) ==
    Renamed(Emit(Digest(n, t, puzzle), <<PushNum(t + 1), Op("SWAP")>>),
            1, <<<<"sig_count", 0>>, <<"preserved_key", 0>>>>)
(* ... k keys are fetched, ... *)
Keyed(n, t, puzzle, k) ==
    LET c[j \in 0 .. k] == IF j = 0 THEN SigsCounted(n, t, puzzle) ELSE Roll(c[j - 1], <<"pub", j - 1>>)
    IN  c[k]
(* ... and all signatures are verified. *)
Compile(n, t, puzzle) ==
    Emit(Keyed(n, t, puzzle, t),
         <<PushNum(t + 1), Op("CHECKMULTISIGVERIFY"), PushNum(1)>>).script

(* metrics['counted_opcodes']: every opcode that is no push, and one more  *)
(* per key of the multisig check.                                          *)
CountedOnce(script, t) == StaticOpcodes(script)     \* mutant: multisig counted once
CountedOpcodes(script, t) == StaticOpcodes(script) + t + 1

-----------------------------------------------------------------------------
Subsets(n, t) == {d \in SUBSET (0 .. n - 1) : Cardinality(d) <= t}
Digests(n, t) == Txs \X Subsets(n, t)

(* witness(): the pinned transaction, the transaction and the deletions the*)
(* digest key is for, and the selected entries in order.                   *)
Pairs(entries) == [i \in DOMAIN entries |-> <<Preimage(entries[i]), Num(entries[i])>>]
Witness(puzzle, pin, tx, deleted, entries) ==
    <<Proof(puzzle, tx, deleted), Key(tx, deleted)>>
    \o Reverse([i \in DOMAIN entries |-> DummyKey(entries[i])])
    \o FlattenSeq(Reverse(Pairs(entries)))
    \o <<Proof(puzzle, pin, {}), Key(pin, {})>>

(* Anything a spend might put in place of one element.                     *)
Forgeries(n, t, puzzle) ==
    {Fixed, Junk}
    \union {Num(k) : k \in -1 .. n}
    \union {Preimage(k) : k \in 0 .. n}
    \union {DummyKey(k) : k \in 0 .. n - 1}
    \union {Key(d[1], d[2]) : d \in Digests(n, t)}
    \union {Proof(puzzle, d[1], d[2]) : d \in Digests(n, t)}

(* The witnesses considered: any choice of transactions, of entries (also  *)
(* repeated or out of order) and of deletions; and every consistent choice *)
(* with one element exchanged.                                             *)
Orders(n, t) == [1 .. t -> 0 .. n - 1]
Witnesses(n, t, puzzle) ==
    {Witness(puzzle, d[1], d[2], d[3], e) :
        d \in Txs \X Txs \X Subsets(n, t), e \in Orders(n, t)}
    \union
    {[Witness(puzzle, Spend, Spend, ToSet(e), e) EXCEPT ![k] = f] :
        e \in Orders(n, t), k \in DOMAIN Names(t), f \in Forgeries(n, t, puzzle)}

(* Every key has a proof, or the pinned key has none, or no digest key of  *)
(* the transaction has one.                                                *)
HitTables(n, t) ==
    {Digests(n, t),
     Digests(n, t) \ {<<Spend, {}>>},
     {d \in Digests(n, t) : d[1] # Spend \/ d[2] = {}}}
=============================================================================
