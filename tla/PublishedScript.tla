-------------------------- MODULE PublishedScript --------------------------
(***************************************************************************)
(* The published mainnet spend and the locking script it unlocks           *)
(* (fixtures/mainnet), as phase3.py reads them, at the size of Entries and *)
(* Layout.  With 150 entries and the layout <<8, 1>>, <<7, 2>> the script  *)
(* is the published one opcode for opcode.                                 *)
(*                                                                         *)
(* A witness holds, for each round, the keys, the preimages of the signed  *)
(* selections and the indices of all selections, and above them the two    *)
(* keys of the pinning stage.  The script rolls each of them up from a     *)
(* depth that was computed for the tables as earlier rolls left them.      *)
(***************************************************************************)
EXTENDS Codec, FiniteSets

CONSTANTS
    Entries,    \* commitments and dummies in a table
    Layout,     \* per round: selections with a preimage, and without (bonus)
    Searched,   \* per round: the subset of dummies whose key has a proof
    Tried       \* the indices a witness may push

ASSUME LayoutAssumption ==
    /\ Entries \in Nat \ {0}
    /\ Layout \in Seq([signed : Nat \ {0}, bonus : Nat])
    /\ \A r \in DOMAIN Layout :
          /\ Layout[r].signed + Layout[r].bonus <= Min({Entries, SmallMax - 1})
          /\ Searched[r] \subseteq 0 .. Entries - 1
          /\ Cardinality(Searched[r]) = Layout[r].signed + Layout[r].bonus

Rounds == DOMAIN Layout
Signed(r) == Layout[r].signed
Selected(r) == Signed(r) + Layout[r].bonus
Positions == 0 .. Entries - 1

-----------------------------------------------------------------------------
(* Data as bytes.  A signature is strict DER and ends in its sighash type. *)
All == 1
Single == 3
Commitment(r, p) == <<1, r, p, 0>>          \* 20 bytes
Preimage(r, p) == <<2, r, p, 0>>
Dummy(r, p) == <<SequenceTag, 6, IntegerTag, 1, r, IntegerTag, 1, p + 1, Single>>
SigNonce(r) == <<SequenceTag, 7, IntegerTag, 2, 1, r, IntegerTag, 1, 1, All>>
PinSig == SigNonce(0)
SigPuzzle(r) == <<SequenceTag, 7, IntegerTag, 1, 4, IntegerTag, 2, 1, r, All>>
Junk == <<4>>                               \* any other hash

-----------------------------------------------------------------------------
(* The locking script. *)
Roll == Op(20)   Minimum == Op(21)   Dup == Op(22)   Add == Op(23)
Hash160 == Op(24)   EqualVerify == Op(25)   Sha256 == Op(26)   Swap == Op(27)
Over == Op(28)   CheckSigVerify == Op(29)   CheckMultisig == Op(30)
CodeSeparator == Op(31)

Data(items) == [k \in DOMAIN items |-> Push(items[k])]
Ops(ops) == [k \in DOMAIN ops |-> <<ops[k]>>]
RollFrom(depth) == <<PushNum(depth), <<Roll>>>>

(* What round r finds above its part of the witness: the unused table      *)
(* entries and the result of every earlier round.                          *)
Below(r) ==
    MapThenSumSet(LAMBDA q : 2 * Entries - Signed(q) - Selected(q) + 1, 1 .. r - 1)

(* Selection j.  The index serves both tables: ADD leads past the dummies  *)
(* to the commitment at the same place.                                    *)
Selection(r, j) ==
    LET above == Below(r) + 2 * Entries + 2 - Min({j, Signed(r)})
        clamped == RollFrom(above) \o <<PushNum(Entries + 2), <<Minimum>>>>
    IN  IF j < Signed(r)
        THEN clamped \o <<<<Dup>>, PushNum(Entries + 1 - j), <<Add>>, <<Roll>>>>
             \o RollFrom(above + Selected(r) - j)
             \o Ops(<<Hash160, EqualVerify, Roll>>)
        ELSE clamped \o <<<<Roll>>>>

Puzzle(r) ==
    LET m == Selected(r) + 1
        above == Below(r) + 2 * Entries + 2 - Signed(r)
    IN  RollFrom(above + m - 1) \o Ops(<<Dup, Sha256>>)
        \o RollFrom(above + m + 1) \o Ops(<<CheckSigVerify>>)
        \o <<PushNum(m)>> \o RollFrom(1)
        \o FlattenSeq([k \in 1 .. m - 1 |-> RollFrom(above + 1 + k)])
        \o <<PushNum(m), <<CheckMultisig>>>>

Table(r) ==
    Data([k \in 1 .. Entries |-> Commitment(r, k - 1)])
    \o Data([k \in 1 .. Entries |-> Dummy(r, k - 1)])
    \o <<PushNum(0), Push(SigNonce(r))>>

Round(r) ==
    Table(r) \o FlattenSeq([k \in 1 .. Selected(r) |-> Selection(r, k - 1)]) \o Puzzle(r)

Published ==
    <<Push(PinSig)>> \o Ops(<<Over, CheckSigVerify, Sha256, Swap, CheckSigVerify>>)
    \o FlattenSeq([r \in Rounds |-> Round(r)])

(* Scripts a parent file may hold: the published one, one that lacks an    *)
(* instruction, one with a code separator too many.                        *)
Parsed(instructions) == Instructions(FlattenSeq(instructions))
Scripts ==
    <<Parsed(Published)>>
    \o [k \in DOMAIN Published |-> Parsed(RemoveAt(Published, k))]
    \o [k \in DOMAIN Published |-> Parsed(InsertAt(Published, k, <<CodeSeparator>>))]
TheParent == 1

-----------------------------------------------------------------------------
(* Hashes and keys.  A digest is named for what it commits to: the script  *)
(* code is the published script without some signature pushes, or foreign. *)
SigPushes == {Push(PinSig)} \union {Push(SigNonce(r)) : r \in Rounds}
             \union {Push(Dummy(r, p)) : r \in Rounds, p \in Positions}
PublishedText == {Published[k] : k \in DOMAIN Published}

Bit(truth) == IF truth THEN 1 ELSE 0
Missing(code) == {s \in SigPushes : ~\E k \in DOMAIN code : code[k] = s}
Foreign == <<5>>
One == <<6>>            \* the digest of the SINGLE bug, z = 1
Named(missing) ==
    <<Bit(Push(PinSig) \in missing)>>
    \o FlattenSeq([r \in Rounds |->
           <<Bit(Push(SigNonce(r)) \in missing)>>
           \o [k \in 1 .. Entries |-> Bit(Push(Dummy(r, k - 1)) \in missing)]])
CodeName(code) ==
    LET missing == Missing(code)
    IN  IF code = SelectSeq(Published, LAMBDA t : t \notin missing)
        THEN Named(missing) ELSE Foreign

(* The key for which sig verifies on digest z. *)
Recover(sig, z) == <<8>> \o sig \o z

Chosen(r, set) == {Push(Dummy(r, p)) : p \in set}
DigestKey(r, set) ==
    Recover(SigNonce(r), Named({Push(SigNonce(r))} \union Chosen(r, set)))
PinKey == Recover(PinSig, Named({Push(PinSig)}))

HashSha256(b) ==
    IF b = PinKey THEN SigPuzzle(0)
    ELSE IF \E r \in Rounds : b = DigestKey(r, Searched[r])
         THEN SigPuzzle(CHOOSE r \in Rounds : b = DigestKey(r, Searched[r]))
         ELSE Junk
HashHash160(b) == IF Len(b) = 4 /\ b[1] = 2 THEN [b EXCEPT ![1] = 1] ELSE Junk
PuzzleKey(r) == Recover(SigPuzzle(r), Named({}))

-----------------------------------------------------------------------------
(* Witnesses.  Index j counts from the top of the stack, past the j dummies*)
(* selected before it, to a dummy still in the table.                      *)
Picks(r, index) ==
    LET left[j \in 0 .. Selected(r)] ==     \* the dummies not yet selected
            IF j = 0 THEN [k \in 1 .. Entries |-> k - 1]
            ELSE LET k == Len(left[j - 1]) - (index[j] - j - 1)
                 IN  IF k \in DOMAIN left[j - 1] THEN RemoveAt(left[j - 1], k)
                     ELSE left[j - 1]
        at(j) == Len(left[j]) - (index[j + 1] - j - 2)
    IN  [j \in 1 .. Selected(r) |->
            IF at(j - 1) \in DOMAIN left[j - 1] THEN left[j - 1][at(j - 1)] ELSE 0]

(* The part of round r, bottom to top, of someone who has every preimage   *)
(* and finds the keys of the selected subset.                              *)
Part(r, index) ==
    LET pick == Picks(r, index)
    IN  <<PuzzleKey(r), DigestKey(r, {pick[j] : j \in DOMAIN pick})>>
        \o Reverse([j \in DOMAIN pick |-> Recover(Dummy(r, pick[j]), One)])
        \o Reverse([j \in 1 .. Signed(r) |-> Preimage(r, pick[j])])
        \o Reverse([j \in DOMAIN pick |-> EncodeNum(index[j])])

PublishedIndex ==
    [r \in Rounds |-> SetToSortSeq({Entries + 1 - p : p \in Searched[r]}, <)]
Stack(index) ==
    FlattenSeq(Reverse([r \in Rounds |-> Part(r, index[r])])) \o <<PuzzleKey(0), PinKey>>

Honest == Stack(PublishedIndex)

(* The published witness, the like with other indices in one round, and    *)
(* the published one with two elements exchanged.                          *)
Witnesses ==
    UNION {{Stack([PublishedIndex EXCEPT ![r] = index]) : index \in [1 .. Selected(r) -> Tried]}
           : r \in Rounds}
    \union
    {[Honest EXCEPT ![i] = Honest[j], ![j] = Honest[i]] :
        i \in DOMAIN Honest, j \in DOMAIN Honest}

ASSUME WitnessAssumption == Witnesses \union {Honest} \subseteq Seq(Seq(Digit))
=============================================================================
