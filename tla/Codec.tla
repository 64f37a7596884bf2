------------------------------- MODULE Codec -------------------------------
(***************************************************************************)
(* Transactions and scripts as bytes: btc_pq/bitcoin.py and the script     *)
(* numbers and signature syntax of btc_pq/phase3.py.                       *)
(*                                                                         *)
(* A byte is a digit 0 .. Radix - 1, so that every length at which an      *)
(* encoding changes is met by short strings.  A field of fixed width       *)
(* (version, txid, output number, sequence, value, locktime) is one digit. *)
(* Opcodes above the pushes have numbers of their own.                     *)
(***************************************************************************)
EXTENDS Integers, Sequences, SequencesExt

CONSTANTS
    Radix,      \* 256
    Direct,     \* 75: the longest push whose opcode is its length
    SmallMax    \* 16: the largest number with an opcode of its own

ASSUME CodecAssumption ==
    /\ Radix \in Nat /\ Radix % 2 = 0 /\ Radix > 4
    /\ Direct \in 1 .. Radix - 2
    /\ SmallMax \in Nat \ {0}

Digit == 0 .. Radix - 1
Sign == Radix \div 2            \* 0x80
Place ==                        \* the powers of Radix
    LET power[i \in 0 .. 9] == IF i = 0 THEN 1 ELSE Radix * power[i - 1]
    IN  [i \in 0 .. 9 |-> power[i]]
Huge == Place[8]                \* bound: larger numbers are not told apart

Digits(n, width) == [i \in 1 .. width |-> (n \div Place[i - 1]) % Radix]
Width(n) == Min({w \in 1 .. 9 : n < Place[w]})
Value(bytes) ==
    LET last[k \in 0 .. Len(bytes)] ==      \* the value of the last k digits
            IF k = 0 THEN 0
            ELSE Min({Huge, bytes[Len(bytes) - k + 1] + Radix * last[k - 1]})
    IN  last[Len(bytes)]

-----------------------------------------------------------------------------
(* Compact sizes.  A marker announces 2, 4 or 8 digits. *)
Marker(n) == Radix - 4 + n

Compact(n) ==
    IF n < Marker(1) THEN <<n>>
    ELSE LET k == Min({3} \union {i \in 1 .. 2 : n < Place[2 ^ i]})
         IN  <<Marker(k)>> \o Digits(n, 2 ^ k)
Blob(bytes) == Compact(Len(bytes)) \o bytes

(* A read returns a value and the offset behind it, Fail if it raises.     *)
Fail == -1
Got(value, at) == [value |-> value, at |-> at]
Failed == Got(0, Fail)
Holds(file, at, n) == at # Fail /\ at + n <= Len(file)

(* The least number that needs this marker. *)
(* Mutant: an overlong size is read like any other. *)
AnyNumber(k) == 0
LeastWith(k) == IF k = 1 THEN Marker(1) ELSE Place[2 ^ (k - 1)]

(* Bound: an opcode that has a number of its own is no digit of a size.    *)
ReadCompact(file, at) ==
    LET first == file[at + 1]
        k == first - Marker(0)
        end == at + 1 + 2 ^ k
        digits == SubSeq(file, at + 2, end)
    IN  IF ~Holds(file, at, 1) \/ first \notin Digit THEN Failed
        ELSE IF k < 1 THEN Got(first, at + 1)
        ELSE IF \/ end > Len(file)
                \/ \E i \in at + 2 .. end : file[i] \notin Digit
                \/ Value(digits) < LeastWith(k)
             THEN Failed
        ELSE Got(Value(digits), end)

ReadBlob(file, at) ==
    LET n == ReadCompact(file, at)
    IN  IF Holds(file, n.at, n.value)
        THEN Got(SubSeq(file, n.at + 1, n.at + n.value), n.at + n.value)
        ELSE Failed

(* n blobs, one behind the other. *)
ReadBlobs(file, at, n) ==
    LET upTo[k \in 0 .. n] ==
            IF k = 0 THEN Got(<<>>, at)
            ELSE LET before == upTo[k - 1]
                     blob == ReadBlob(file, before.at)
                 IN  IF blob.at = Fail THEN Failed
                     ELSE Got(Append(before.value, blob.value), blob.at)
    IN  IF n > Len(file) THEN Failed ELSE upTo[n]

-----------------------------------------------------------------------------
(* Transactions: Input.serialize, Output.serialize, Tx.serialize. *)
InputBytes(i) == <<i.txid, i.vout>> \o Blob(i.script) \o <<i.sequence>>
OutputBytes(o) == <<o.value>> \o Blob(o.script)
List(items) == Compact(Len(items)) \o FlattenSeq(items)
WitnessBytes(i) == List([k \in DOMAIN i.witness |-> Blob(i.witness[k])])
HasWitness(tx) == \E k \in DOMAIN tx.inputs : tx.inputs[k].witness # <<>>

Serialize(tx, witness) ==
    LET extended == witness /\ HasWitness(tx)
    IN  <<tx.version>>
        \o (IF extended THEN <<0, 1>> ELSE <<>>)
        \o List([k \in DOMAIN tx.inputs |-> InputBytes(tx.inputs[k])])
        \o List([k \in DOMAIN tx.outputs |-> OutputBytes(tx.outputs[k])])
        \o (IF extended
            THEN FlattenSeq([k \in DOMAIN tx.inputs |-> WitnessBytes(tx.inputs[k])])
            ELSE <<>>)
        \o <<tx.locktime>>

-----------------------------------------------------------------------------
(* Scripts: push, num, instructions. *)
Push(bytes) ==
    LET n == Len(bytes) IN
    IF n <= Direct THEN <<n>> \o bytes
    ELSE IF n < Radix THEN <<Direct + 1, n>> \o bytes
    ELSE <<Direct + 2>> \o Digits(n, 2) \o bytes

Op(n) == 2 * Radix + n          \* the opcodes that are no pushes
SmallOp(n) == Op(n)             \* OP_1 .. OP_16

(* Mutant: no sign digit, as if 128 .. 255 fitted in one byte. *)
Unsigned(n) == Digits(n, Width(n))
Positive(n) ==
    LET b == Digits(n, Width(n)) IN IF Last(b) >= Sign THEN Append(b, 0) ELSE b
PushNum(n) ==
    IF n = 0 THEN <<0>>
    ELSE IF n <= SmallMax THEN <<SmallOp(n)>> ELSE Push(Positive(n))

(* Every script read here is whole: none ends within a push. *)
InstructionAt(script, at) ==
    LET op == script[at + 1]
        width == IF op \in Direct + 1 .. Direct + 3 THEN 2 ^ (op - Direct - 1) ELSE 0
        from == at + 1 + width
        size == IF op <= Direct THEN op ELSE Value(SubSeq(script, at + 2, from))
    IN  [op |-> op, pushes |-> op <= Direct + 3,
         data |-> SubSeq(script, from + 1, from + size),
         text |-> SubSeq(script, at + 1, from + size)]

Instructions(script) ==
    LET from[at \in 0 .. Len(script)] ==
            IF at = Len(script) THEN <<>>
            ELSE LET i == InstructionAt(script, at)
                 IN  <<i>> \o from[at + Len(i.text)]
    IN  from[0]

(* Construction.script_code, delete_sigs: complete signature pushes are    *)
(* deleted at opcode boundaries.                                           *)
ScriptCode(instructions, deleted) ==
    LET targets == {Push(s) : s \in deleted \ {<<>>}}
    IN  SelectSeq([k \in DOMAIN instructions |-> instructions[k].text],
                  LAMBDA text : text \notin targets)

-----------------------------------------------------------------------------
(* Script numbers as the interpreter reads and writes them. *)
ScriptNum(bytes) ==
    IF bytes = <<>> THEN 0
    ELSE IF Last(bytes) >= Sign
         THEN -Value([bytes EXCEPT ![Len(bytes)] = @ - Sign])
         ELSE Value(bytes)

EncodeNum(n) ==
    LET size == IF n < 0 THEN -n ELSE n
        b == Digits(size, Width(size))
        sign == IF n < 0 THEN Sign ELSE 0
    IN  IF n = 0 THEN <<>>
        ELSE IF Last(b) >= Sign THEN Append(b, sign)
        ELSE [b EXCEPT ![Len(b)] = @ + sign]

(* small_int: the number an opcode pushes. *)
IsSmall(op) == op \in {0} \union {SmallOp(n) : n \in 1 .. SmallMax}
SmallInt(op) == IF op = 0 THEN 0 ELSE op - SmallOp(0)

-----------------------------------------------------------------------------
(* DER signatures with a sighash byte: is_strict_der, der_nonzero. *)
SequenceTag == 3                \* 0x30
IntegerTag == 2
MaxSignature == 73

(* The integer of n bytes that starts at offset at is positive and minimal.*)
IsInteger(sig, at, n) ==
    /\ sig[at - 1] = IntegerTag
    /\ n # 0
    /\ sig[at + 1] < Sign
    /\ n > 1 /\ sig[at + 1] = 0 => sig[at + 2] >= Sign

IsStrictDer(sig) ==
    LET n == Len(sig)
        lenr == sig[4]
        lens == sig[6 + lenr]
    IN  /\ n \in 9 .. MaxSignature
        /\ sig[1] = SequenceTag /\ sig[2] = n - 3
        /\ 5 + lenr < n
        /\ lenr + lens + 7 = n
        /\ IsInteger(sig, 4, lenr)
        /\ IsInteger(sig, lenr + 6, lens)

IsNonzero(sig) ==
    LET lenr == sig[4]
    IN  /\ Value(SubSeq(sig, 5, 4 + lenr)) > 0
        /\ Value(SubSeq(sig, 7 + lenr, 6 + lenr + sig[6 + lenr])) > 0
IsDerNonzero(sig) == IsStrictDer(sig) /\ IsNonzero(sig)
=============================================================================
