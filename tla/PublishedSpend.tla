--------------------------- MODULE PublishedSpend ---------------------------
(***************************************************************************)
(* What the harness makes of the published mainnet spend: reading it       *)
(* (bitcoin.py), its inclusion in a block (baseline.py), and the parsing,  *)
(* re-execution and description of its script (phase3.py).                 *)
(*                                                                         *)
(* The files may be damaged: the spend in any byte, the parent's script in *)
(* any instruction.  The pinned txid covers the spend; nothing but the     *)
(* script itself covers the parent, which phase3.py takes by its name.     *)
(***************************************************************************)
EXTENDS PublishedScript

CONSTANTS Leaves    \* sizes a block may have, in transactions

ASSUME LeavesAssumption == Leaves \subseteq Nat \ {0}

VARIABLES
    command,    \* "baseline" or "phase3"
    unlocking,  \* the scriptSig of the pinned transaction, as elements
    parent,     \* the script in the parent's file, as numbered in Scripts
    proof,      \* provenance.json: Merkle branch, position, header
    raw,        \* spend.hex
    pc, why,    \* where the command is, and what it raised
    offset,     \* bytes of the file read
    remaining,  \* elements left of the list being read
    marked,     \* the file has the witness flag
    spend,      \* the transaction as read so far
    node,       \* reproduce(): h, pos and the siblings folded in
    ins,        \* Construction.ins: the instructions of the locking script
    scan,       \* Construction: i
    rounds,     \* Construction.rounds
    ip,         \* execute(): the next instruction
    stack,      \* execute(): data and where it came from, bottom to top
    opened,     \* hors_verified events: round and position
    checks,     \* checksigverify events
    multisigs   \* checkmultisig events

given == <<command, unlocking, parent, proof, raw>>
reading == <<offset, remaining, marked, spend>>
layout == <<ins, scan, rounds>>
events == <<opened, checks, multisigs>>
machine == <<ip, stack, events>>
vars == <<given, pc, why, reading, node, layout, machine>>

-----------------------------------------------------------------------------
(* The pinned transaction: a wallet input with a witness, the input of the *)
(* published script, and one output.                                       *)
Index == 2      \* of the input, from 1
SpendPush(e) ==
    IF \E n \in 1 .. SmallMax : e = EncodeNum(n) THEN PushNum(ScriptNum(e)) ELSE Push(e)
ScriptSig(w) == FlattenSeq([k \in DOMAIN w |-> SpendPush(w[k])])
Pinned(w) ==
    [version |-> 2, locktime |-> 3,
     inputs |-> <<[txid |-> 4, vout |-> 1, sequence |-> 5, script |-> <<>>,
                   witness |-> <<<<1, 2>>, <<3>>>>],
                  [txid |-> 4, vout |-> 0, sequence |-> 6, script |-> ScriptSig(w),
                   witness |-> <<>>]>>,
     outputs |-> <<[value |-> 7, script |-> <<1>>]>>]
Txid(t) == Serialize(t, FALSE)
File(w) == Serialize(Pinned(w), TRUE)

(* A byte lost, doubled, changed or written as a longer size; the witness  *)
(* left out, or announced and empty.                                       *)
Damaged(w) ==
    LET f == File(w)
        stripped == Txid(Pinned(w))
    IN  {RemoveAt(f, k) : k \in DOMAIN f}
        \union {InsertAt(f, k, f[k]) : k \in DOMAIN f}
        \union {[f EXCEPT ![k] = d] : k \in DOMAIN f, d \in {0, 1, Marker(1)}}
        \union {SubSeq(f, 1, k - 1) \o <<Marker(1), f[k], 0>> \o SubSeq(f, k + 1, Len(f))
                : k \in DOMAIN f}
        \union {stripped,
                <<Head(stripped), 0, 1>> \o Tail(Front(stripped)) \o <<0, 0, Last(stripped)>>}

-----------------------------------------------------------------------------
(* Blocks and Merkle branches (external).  A hash is named for its input:  *)
(* the txid of a transaction for the transaction, an inner node for its    *)
(* two halves, so that neither is taken for the other.                     *)
Hash(a, b) == <<a, b>>
Height(n) == Min({h \in 0 .. n : 2 ^ h >= n})
Levels(n) ==
    LET level[l \in 0 .. Height(n)] ==
            IF l = 0 THEN [k \in 1 .. n |-> <<k>>]
            ELSE LET below == level[l - 1]
                 IN  [k \in 1 .. (Len(below) + 1) \div 2 |->
                         Hash(below[2 * k - 1], below[Min({2 * k, Len(below)})])]
    IN  level
Branch(n, p) ==
    LET level == Levels(n)
        place(l) == p \div 2 ^ l
        sibling(l) == IF place(l) % 2 = 1 THEN place(l) ELSE place(l) + 2
    IN  [l \in 1 .. Height(n) |->
            level[l - 1][Min({sibling(l - 1), Len(level[l - 1])})]]

(* A branch for place p of a block with n transactions, read for           *)
(* transaction t at place q, whole, cut short or continued.                *)
Provenance(n, p, t, q, branch) ==
    [n |-> n, root |-> Levels(n)[Height(n)][1], leaf |-> <<t>>, pos |-> q,
     merkle |-> branch]
NoProof == Provenance(1, 0, 1, 0, <<>>)
Proofs ==
    UNION {UNION {
        {Provenance(n, p, t, q, branch) :
            t \in 1 .. n + 1, q \in 0 .. 2 * n,
            branch \in LET whole == Branch(n, p)
                      IN  {whole, Append(whole, <<1>>)}
                          \union {SubSeq(whole, 1, l) : l \in 0 .. Height(n)}}
        : p \in 0 .. n - 1} : n \in Leaves}

-----------------------------------------------------------------------------
InitBaseline ==
    /\ command = "baseline"
    /\ unlocking = Honest /\ raw = File(Honest) /\ parent = TheParent
    /\ proof \in Proofs

InitPhase3 ==
    /\ command = "phase3"
    /\ proof = NoProof
    /\ \/ unlocking \in Witnesses /\ raw = File(unlocking) /\ parent = TheParent
       \/ unlocking = Honest /\ raw = File(Honest) /\ parent \in DOMAIN Scripts
       \/ unlocking = Honest /\ raw \in Damaged(Honest) /\ parent = TheParent

Init ==
    /\ InitBaseline \/ InitPhase3
    /\ pc = "header" /\ why = "nothing"
    /\ offset = 0 /\ remaining = 0 /\ marked = FALSE
    /\ spend = [version |-> 0, inputs |-> <<>>, outputs |-> <<>>, locktime |-> 0]
    /\ node = [hash |-> proof.leaf, pos |-> proof.pos, next |-> 1]
    /\ ins = <<>> /\ scan = 1 /\ rounds = <<>>
    /\ ip = 1 /\ stack = <<>>
    /\ opened = <<>> /\ checks = <<>> /\ multisigs = <<>>

Raises(reason) ==
    /\ pc' = "raised"
    /\ why' = reason
    /\ UNCHANGED <<given, reading, node, layout, machine>>

-----------------------------------------------------------------------------
(* Tx.parse *)
Reads(stage) ==
    /\ pc' = stage
    /\ UNCHANGED <<given, why, node, layout, machine>>

(* No input count can be zero: a zero announces the witness flag.          *)
ReadHeader ==
    LET first == ReadCompact(raw, 1)
        flagged == first.value = 0
        count == IF flagged THEN ReadCompact(raw, first.at + 1) ELSE first
    IN  /\ pc = "header"
        /\ IF \/ first.at = Fail
              \/ flagged /\ ~Holds(raw, first.at, 1)
              \/ flagged /\ raw[first.at + 1] # 1
              \/ count.at = Fail
           THEN Raises("parse")
           ELSE /\ Reads("inputs")
                /\ offset' = count.at
                /\ remaining' = count.value
                /\ marked' = flagged
                /\ spend' = [spend EXCEPT !.version = raw[1]]

ReadInput ==
    LET script == ReadBlob(raw, offset + 2)
    IN  /\ pc = "inputs" /\ remaining > 0
        /\ IF ~Holds(raw, offset, 2) \/ ~Holds(raw, script.at, 1)
           THEN Raises("parse")
           ELSE /\ Reads("inputs")
                /\ offset' = script.at + 1
                /\ remaining' = remaining - 1
                /\ spend' = [spend EXCEPT !.inputs = Append(@,
                             [txid |-> raw[offset + 1], vout |-> raw[offset + 2],
                              script |-> script.value, witness |-> <<>>,
                              sequence |-> raw[script.at + 1]])]
                /\ UNCHANGED marked

CountOutputs ==
    LET count == ReadCompact(raw, offset)
    IN  /\ pc = "inputs" /\ remaining = 0
        /\ IF count.at = Fail THEN Raises("parse")
           ELSE /\ Reads("outputs")
                /\ offset' = count.at
                /\ remaining' = count.value
                /\ UNCHANGED <<marked, spend>>

ReadOutput ==
    LET script == ReadBlob(raw, offset + 1)
    IN  /\ pc = "outputs" /\ remaining > 0
        /\ IF ~Holds(raw, offset, 1) \/ script.at = Fail
           THEN Raises("parse")
           ELSE /\ Reads("outputs")
                /\ offset' = script.at
                /\ remaining' = remaining - 1
                /\ spend' = [spend EXCEPT !.outputs = Append(@,
                             [value |-> raw[offset + 1], script |-> script.value])]
                /\ UNCHANGED marked

AfterOutputs ==
    /\ pc = "outputs" /\ remaining = 0
    /\ Reads(IF marked THEN "witness" ELSE "locktime")
    /\ remaining' = IF marked THEN Len(spend.inputs) ELSE 0
    /\ UNCHANGED <<offset, marked, spend>>

(* The witness of one input. *)
ReadWitness ==
    LET count == ReadCompact(raw, offset)
        blobs == ReadBlobs(raw, count.at, count.value)
        input == Len(spend.inputs) - remaining + 1
    IN  /\ pc = "witness" /\ remaining > 0
        /\ IF count.at = Fail \/ blobs.at = Fail THEN Raises("parse")
           ELSE /\ Reads("witness")
                /\ offset' = blobs.at
                /\ remaining' = remaining - 1
                /\ spend' = [spend EXCEPT !.inputs[input].witness = blobs.value]
                /\ UNCHANGED marked

(* Mutant: a witness flag without a witness is let pass. *)
FlagAlone ==
    /\ pc = "witness" /\ remaining = 0
    /\ Reads("locktime")
    /\ UNCHANGED reading
AfterWitness ==
    /\ pc = "witness" /\ remaining = 0
    /\ IF ~HasWitness(spend) THEN Raises("superfluous witness")
       ELSE Reads("locktime") /\ UNCHANGED reading

ReadEnd ==
    /\ pc = "locktime"
    /\ IF offset + 1 # Len(raw) THEN Raises("parse")
       ELSE /\ Reads("parsed")
            /\ offset' = offset + 1
            /\ spend' = [spend EXCEPT !.locktime = raw[offset + 1]]
            /\ UNCHANGED <<remaining, marked>>

(* The one check that ties the file to the published transaction. *)
CheckTxid ==
    /\ pc = "parsed"
    /\ IF Txid(spend) # Txid(Pinned(unlocking)) THEN Raises("txid mismatch")
       ELSE Reads(IF command = "baseline" THEN "merkle" ELSE "prefix")
            /\ UNCHANGED reading

-----------------------------------------------------------------------------
(* baseline.reproduce() *)
FoldSibling ==
    /\ pc = "merkle" /\ node.next <= Len(proof.merkle)
    /\ LET other == proof.merkle[node.next]
       IN  node' = [hash |-> IF node.pos % 2 = 1 THEN Hash(other, node.hash)
                                                 ELSE Hash(node.hash, other),
                    pos |-> node.pos \div 2,
                    next |-> node.next + 1]
    /\ UNCHANGED <<given, pc, why, reading, layout, machine>>

(* Mutant: the branch may be shorter than the position says. *)
AnyPosition == node.hash = proof.root
Included == node.hash = proof.root /\ node.pos = 0

(* The header also has to meet its own target and hash, whatever it is.    *)
CheckInclusion ==
    /\ pc = "merkle" /\ node.next > Len(proof.merkle)
    /\ \E header \in BOOLEAN :
          IF Included /\ header
          THEN /\ pc' = "native"
               /\ UNCHANGED <<given, why, reading, node, layout, machine>>
          ELSE Raises("invalid inclusion")

(* The verifier must accept the spend and none of four changed ones.       *)
Changes == {"output_redirection", "amount_decrease", "sequence_change",
            "unexpected_witness"}
NativeVerdicts ==
    /\ pc = "native"
    /\ \E accepts \in SUBSET ({"spend"} \union Changes) :
          IF accepts = {"spend"}
          THEN /\ pc' = "reproduced"
               /\ UNCHANGED <<given, why, reading, node, layout, machine>>
          ELSE Raises("native verification")

-----------------------------------------------------------------------------
(* Construction *)
OpAt(k) == IF k \in DOMAIN ins THEN ins[k].op ELSE -1
Places(op) == {k \in DOMAIN ins : ins[k].op = op}
NoPushes(size) ==
    {k \in DOMAIN ins : ~(ins[k].pushes /\ Len(ins[k].data) = size)}

ParsePrefix ==
    LET script == Scripts[parent]
    IN  /\ pc = "prefix"
        /\ IF /\ script[1].pushes
              /\ [k \in 1 .. 5 |-> script[k + 1].op]
                    = <<Over, CheckSigVerify, Sha256, Swap, CheckSigVerify>>
           THEN /\ pc' = "rounds"
                /\ ins' = script
                /\ scan' = 7
                /\ UNCHANGED <<given, why, reading, node, rounds, machine>>
           ELSE Raises("unrecognized pinning prefix")

(* The first of some places from k on, or the one behind the script.       *)
First(k, places) == Min({Len(ins) + 1} \union {i \in places : i >= k})

(* The tables of a round: commitments, as many dummies, 0 and the nonce.   *)
ParseTables ==
    LET dummies == First(scan, NoPushes(4))
        zero == First(dummies, NoPushes(9))
    IN  /\ pc = "rounds" /\ scan <= Len(ins)
        /\ IF dummies = scan \/ zero - dummies # dummies - scan \/ OpAt(zero) # 0
           THEN Raises("unrecognized round table")
           ELSE /\ rounds' = Append(rounds, [start |-> scan, entries |-> dummies - scan,
                                            signed |-> 0, bonus |-> 0, m |-> 0, n |-> 0])
                /\ scan' = zero + 2
                /\ pc' = "checks"
                /\ UNCHANGED <<given, why, reading, node, ins, machine>>

(* Everything up to CHECKMULTISIG.  m stands behind the puzzle's check.    *)
(* Mutant: the bonus selections are those that the table leaves over. *)
BonusOfTable(m, signed) == Entries - signed
Bonus(m, signed) == m - 1 - signed
ParseChecks ==
    LET end == First(scan, Places(CheckMultisig))
        hashes(op) == Places(op) \intersect (scan .. end - 1)
        check == First(First(scan, Places(Sha256)), Places(CheckSigVerify))
        signed == Cardinality(hashes(Hash160))
        m == OpAt(check + 1)
    IN  /\ pc = "checks"
        /\ IF end > Len(ins) \/ Cardinality(hashes(Sha256)) # 1 \/ ~IsSmall(m)
           THEN Raises("unrecognized round verification")
           ELSE /\ rounds' = [rounds EXCEPT ![Len(rounds)] =
                       [@ EXCEPT !.signed = signed, !.bonus = Bonus(SmallInt(m), signed),
                                 !.m = SmallInt(m), !.n = SmallInt(OpAt(end - 1))]]
                /\ scan' = end + 1
                /\ pc' = "rounds"
                /\ UNCHANGED <<given, why, reading, node, ins, machine>>

-----------------------------------------------------------------------------
(* execute() *)
Tag(kind, round, position) == [kind |-> kind, round |-> round, position |-> position]
From(kind) == Tag(kind, 0, 0)
Item(data, tag) == [data |-> data, tag |-> tag]

(* table_tags: what is known of a push from its place in the script. *)
(* Mutant: commitments are numbered from the end where the indices start.  *)
FromOtherEnd(k, r) == rounds[r].entries - 1 - (k - rounds[r].start)
CommitmentAt(k, r) == k - rounds[r].start
DummyAt(k, r) == k - rounds[r].start - rounds[r].entries
TableTag(k) ==
    LET inTable(r, from) == k \in from .. from + rounds[r].entries - 1
        tags == {Tag("commitment", r, CommitmentAt(k, r)) :
                    r \in {q \in DOMAIN rounds : inTable(q, rounds[q].start)}}
                \union
                {Tag("dummy", r, DummyAt(k, r)) :
                    r \in {q \in DOMAIN rounds :
                             inTable(q, rounds[q].start + rounds[q].entries)}}
    IN  IF tags = {} THEN From("script") ELSE CHOOSE t \in tags : TRUE

SpendCode == Instructions(spend.inputs[Index].script)
Supplied == SelectSeq(SpendCode, LAMBDA i : i.pushes)   \* validate_published's witness

(* The scriptSig may only push. *)
Unlock ==
    /\ pc = "rounds" /\ scan > Len(ins)
    /\ IF \E k \in DOMAIN SpendCode : ~(SpendCode[k].pushes \/ IsSmall(SpendCode[k].op))
       THEN Raises("scriptSig opcode")
       ELSE /\ stack' = [k \in DOMAIN SpendCode |->
                            IF SpendCode[k].pushes
                            THEN Item(SpendCode[k].data, From("witness"))
                            ELSE Item(EncodeNum(SmallInt(SpendCode[k].op)), From("smallint"))]
            /\ pc' = "execute"
            /\ UNCHANGED <<given, why, reading, node, layout, ip, events>>

Top(k) == stack[Len(stack) - k].data
Has(k) == Len(stack) >= k
Rest(k) == SubSeq(stack, 1, Len(stack) - k)
Executes(op) == pc = "execute" /\ OpAt(ip) = op

Continues(newStack) ==
    /\ stack' = newStack
    /\ ip' = ip + 1
    /\ UNCHANGED <<given, pc, why, reading, node, layout>>

(* An opcode that replaces its top k elements; too few raise IndexError.   *)
Replaces(op, k, results) ==
    /\ Executes(op)
    /\ IF Has(k) THEN Continues(Rest(k) \o results) /\ UNCHANGED events
       ELSE Raises("stack underflow")
Result(data, kind) == <<Item(data, From(kind))>>
Elements(k) == SubSeq(stack, Len(stack) - k + 1, Len(stack))

PushData ==
    /\ pc = "execute" /\ ip <= Len(ins) /\ ins[ip].pushes
    /\ Continues(Append(stack, Item(ins[ip].data, TableTag(ip)))) /\ UNCHANGED events
PushSmall ==
    /\ pc = "execute" /\ ip <= Len(ins) /\ ~ins[ip].pushes /\ IsSmall(OpAt(ip))
    /\ Continues(stack \o Result(EncodeNum(SmallInt(OpAt(ip))), "smallint"))
    /\ UNCHANGED events

DupTop == Replaces(Dup, 1, Elements(1) \o Elements(1))
OverTop == Replaces(Over, 2, Elements(2) \o <<stack[Len(stack) - 1]>>)
SwapTop == Replaces(Swap, 2, Reverse(Elements(2)))
AddTop == Replaces(Add, 2, Result(EncodeNum(ScriptNum(Top(1)) + ScriptNum(Top(0))), "add"))
MinTop ==
    Replaces(Minimum, 2,
             Result(EncodeNum(Min({ScriptNum(Top(1)), ScriptNum(Top(0))})), "min"))
HashTop160 == Replaces(Hash160, 1, Result(HashHash160(Top(0)), "hash160"))
HashTop256 == Replaces(Sha256, 1, Result(HashSha256(Top(0)), "sha256"))

(* Mutant: the depth counts from the rolled number itself. *)
FromItself(depth) == Len(stack) - depth
RolledPlace(depth) == Len(stack) - 1 - depth
RollTop ==
    LET depth == ScriptNum(Top(0))
        k == RolledPlace(depth)
    IN  /\ Executes(Roll)
        /\ IF ~Has(1) THEN Raises("stack underflow")
           ELSE IF depth < 0 \/ depth >= Len(stack) - 1 THEN Raises("roll out of range")
           ELSE Continues(Append(RemoveAt(Rest(1), k), stack[k])) /\ UNCHANGED events

(* Equal to a commitment means that one preimage is known. *)
EqualTop ==
    LET tags == <<stack[Len(stack)].tag, stack[Len(stack) - 1].tag>>
        commitments == SelectSeq(tags, LAMBDA t : t.kind = "commitment")
    IN  /\ Executes(EqualVerify)
        /\ IF ~Has(2) THEN Raises("stack underflow")
           ELSE IF Top(0) # Top(1) THEN Raises("EQUALVERIFY failed")
           ELSE /\ Continues(Rest(2))
                /\ opened' = opened \o SubSeq(commitments, 1, Min({1, Len(commitments)}))
                /\ UNCHANGED <<checks, multisigs>>

(* legacy_sighash: no code separators; the SINGLE bug signs the number 1.  *)
(* All signatures are of the same input and end in ALL or in SINGLE, so    *)
(* that the script code tells their digests apart.                         *)
Digest(type, code) ==
    IF type = Single /\ Index > Len(spend.outputs) THEN One
    ELSE CodeName(SelectSeq(code, LAMBDA text : text # <<CodeSeparator>>))
Verifies(sig, key, code) ==
    IsStrictDer(sig) /\ key = Recover(sig, Digest(Last(sig), code))

CheckSigTop ==
    /\ Executes(CheckSigVerify)
    /\ IF ~Has(2) THEN Raises("stack underflow")
       ELSE IF ~Verifies(Top(1), Top(0), ScriptCode(ins, {Top(1)}))
       THEN Raises("signature")
       ELSE /\ Continues(Rest(2))
            /\ checks' = Append(checks, [sig |-> Top(1), key |-> Top(0),
                                         tag |-> stack[Len(stack) - 1].tag])
            /\ UNCHANGED <<opened, multisigs>>

(* From the top: n, n keys, m, m signatures and the null dummy.  Each      *)
(* signature takes the first key behind the last one taken that verifies.  *)
(* Mutant: the signatures are not deleted from the code they sign. *)
KeepSigs(code, sigs) == ScriptCode(code, {})
DeleteSigs(code, sigs) == ScriptCode(code, {sigs[i].data : i \in DOMAIN sigs})
MultisigTop ==
    LET n == Max({0, ScriptNum(Top(0))})
        m == Max({0, ScriptNum(Top(n + 1))})
        depth == n + m + 3
        keys == SubSeq(stack, Len(stack) - n, Len(stack) - 1)
        sigs == SubSeq(stack, Len(stack) - n - 1 - m, Len(stack) - n - 2)
        code == DeleteSigs(ins, sigs)
        key[i \in 0 .. m] ==
            IF i = 0 THEN 0
            ELSE Min({n + 1} \union {k \in key[i - 1] + 1 .. n :
                         Verifies(sigs[i].data, keys[k].data, code)})
    IN  /\ Executes(CheckMultisig)
        /\ IF ~Has(1) \/ ~Has(n + 2) \/ ~Has(depth)
           THEN Raises("stack underflow")
           ELSE IF Top(depth - 1) # <<>> THEN Raises("CHECKMULTISIG dummy not null")
           ELSE IF \E i \in 1 .. m : key[i] > n
           THEN Raises("CHECKMULTISIG unmatched signature")
           ELSE /\ Continues(Rest(depth) \o Result(<<1>>, "checkmultisig"))
                /\ multisigs' = Append(multisigs,
                      [m |-> m, n |-> n,
                       pairs |-> [i \in 1 .. m |->
                          [tag |-> sigs[i].tag, z |-> Digest(Last(sigs[i].data), code),
                           type |-> Last(sigs[i].data)]]])
                /\ UNCHANGED <<opened, checks>>

Known == {Roll, Minimum, Dup, Add, Hash160, EqualVerify, Sha256, Swap, Over,
          CheckSigVerify, CheckMultisig}
(* Mutant: what is not understood is passed over. *)
PassOver ==
    /\ pc = "execute" /\ ip <= Len(ins)
    /\ ~ins[ip].pushes /\ ~IsSmall(OpAt(ip)) /\ OpAt(ip) \notin Known
    /\ Continues(stack) /\ UNCHANGED events
Unsupported ==
    /\ pc = "execute" /\ ip <= Len(ins)
    /\ ~ins[ip].pushes /\ ~IsSmall(OpAt(ip)) /\ OpAt(ip) \notin Known
    /\ Raises("unsupported opcode")

Finish ==
    /\ pc = "execute" /\ ip > Len(ins)
    /\ IF ~Has(1) \/ Top(0) # <<1>> THEN Raises("script finished false")
       ELSE /\ pc' = "executed"
            /\ UNCHANGED <<given, why, reading, node, layout, machine>>

-----------------------------------------------------------------------------
(* validate_published() *)
PairsOf(r, kind) == SelectSeq(multisigs[r].pairs, LAMBDA p : p.tag.kind = kind)
SelectedAt(r) ==
    LET dummies == PairsOf(r, "dummy") IN [k \in DOMAIN dummies |-> dummies[k].tag.position]
OpenedIn(r) == SelectSeq(opened, LAMBDA t : t.round = r)

RoundReported(r) ==
    /\ Len(PairsOf(r, "script")) = 1
    /\ Len(SelectedAt(r)) = multisigs[r].m - 1
    /\ \A k \in DOMAIN PairsOf(r, "dummy") :
          PairsOf(r, "dummy")[k].type = Single /\ PairsOf(r, "dummy")[k].z = One
    /\ Len(SelectedAt(r)) = Len(OpenedIn(r)) + rounds[r].bonus
BonusPositions(r) ==
    {SelectedAt(r)[k] : k \in DOMAIN SelectedAt(r)}
        \ {OpenedIn(r)[k].position : k \in DOMAIN OpenedIn(r)}
(* witness_index_pushes: the script counts from the end of the table, past *)
(* the null dummy and the nonce.  Mutant: the index an earlier attempt used.*)
AuthIndex(position) == Entries - 1 - position
IndexPush(position) == Entries + 1 - position
IndexPushes(r) == {IndexPush(SelectedAt(r)[k]) : k \in DOMAIN SelectedAt(r)}

PinReported ==
    LET pin == checks[1]
        puzzle == checks[2]
    IN  /\ pin.key = Last(Supplied).data
        /\ puzzle.key = Supplied[Len(Supplied) - 1].data
        /\ puzzle.tag.kind = "sha256"
        /\ puzzle.sig = HashSha256(pin.key)
        /\ IsDerNonzero(puzzle.sig)

Validate ==
    /\ pc = "executed"
    /\ IF /\ Len(checks) = 2 + Len(rounds) /\ Len(multisigs) = Len(rounds)
          /\ PinReported
          /\ \A r \in DOMAIN rounds : RoundReported(r)
          /\ [r \in DOMAIN rounds |-> rounds[r].bonus] = <<1, 2>>
       THEN /\ pc' = "validated"
            /\ UNCHANGED <<given, why, reading, node, layout, machine>>
       ELSE Raises("validation")

-----------------------------------------------------------------------------
Parse == \/ ReadHeader \/ ReadInput \/ CountOutputs \/ ReadOutput \/ AfterOutputs
         \/ ReadWitness \/ AfterWitness \/ ReadEnd
Baseline == FoldSibling \/ CheckInclusion \/ NativeVerdicts
Execute == \/ Unlock \/ PushData \/ PushSmall \/ DupTop \/ OverTop \/ SwapTop \/ AddTop
           \/ MinTop \/ HashTop160 \/ HashTop256 \/ RollTop \/ EqualTop \/ CheckSigTop
           \/ MultisigTop \/ Unsupported \/ Finish

Next == \/ Parse \/ CheckTxid \/ Baseline \/ ParsePrefix \/ ParseTables \/ ParseChecks \/ Execute
        \/ Validate

Spec == Init /\ [][Next]_vars

-----------------------------------------------------------------------------
(* Parsing is exact: what was read serializes to the very bytes of the     *)
(* file, so that no second file has the same transaction.                  *)
ParsedIsCanonical == pc = "parsed" => Serialize(spend, TRUE) = raw

(* A transaction taken for included is one of the block's, and at the      *)
(* position the explorer gave unless the tree repeats it there.            *)
IncludedIsInBlock ==
    pc \in {"native", "reproduced"} =>
        /\ \E k \in 1 .. proof.n : proof.leaf = <<k>>
        /\ proof.pos < 2 ^ Height(proof.n)
        /\ proof.pos < proof.n => proof.leaf = <<proof.pos + 1>>

Executed == pc \in {"executed", "validated"}
ChosenIn(r) == ToSet(SelectedAt(r))
OpenedAt(r) == {t.position : t \in ToSet(OpenedIn(r))}

(* A script that finishes true has, in each round, verified its nonce and  *)
(* as many different dummies of that round as the round selects, and       *)
(* opened the commitments at the places of the signed ones: the rolls that *)
(* share an index stay in step while the tables shrink.                    *)
SelectionsOpenTheirCommitments ==
    Executed => \A r \in Rounds :
        /\ Len(PairsOf(r, "script")) = 1
        /\ \A p \in ToSet(PairsOf(r, "dummy")) : p.tag.round = r
        /\ Len(SelectedAt(r)) = Selected(r) /\ Cardinality(ChosenIn(r)) = Selected(r)
        /\ Cardinality(OpenedAt(r)) = Signed(r) /\ OpenedAt(r) \subseteq ChosenIn(r)

(* Only the published locking script finishes true, though its file is     *)
(* taken by name, and only with the subsets that were searched for: every  *)
(* other deletion of signatures signs another digest.                      *)
ExecutesTheSearched ==
    Executed => parent = TheParent /\ \A r \in Rounds : ChosenIn(r) = Searched[r]

(* The index a witness pushes for selection j of round r.                  *)
Pushed(r) ==
    LET above == MapThenSumSet(LAMBDA q : 2 + 2 * Selected(q) + Signed(q), 1 .. r - 1)
    IN  [j \in 1 .. Selected(r) |-> ScriptNum(unlocking[Len(unlocking) - 1 - above - j])]
Ascending(index) == \A j \in 2 .. Len(index) : index[j - 1] < index[j]

(* The published spend is reproduced to the end, and the report tells of   *)
(* a witness with ascending indices what it pushed and which selections    *)
(* needed no preimage.                                                     *)
PublishedIsReported ==
    /\ unlocking = Honest /\ raw = File(Honest) /\ parent = TheParent
          /\ command = "phase3" => pc # "raised"
    /\ pc = "validated" => \A r \in Rounds :
          LET index == Pushed(r)
              bonus == SubSeq(index, Signed(r) + 1, Selected(r))
          IN  Ascending(index) =>
                /\ IndexPushes(r) = ToSet(index)
                /\ {IndexPush(p) : p \in BonusPositions(r)} = ToSet(bonus)
                /\ rounds[r].entries = Entries
                /\ rounds[r].signed = Signed(r) /\ rounds[r].bonus = Len(bonus)
=============================================================================
