-------------------------- MODULE ScriptExecution --------------------------
(***************************************************************************)
(* Spends of the compiled scripts, executed opcode by opcode as a node     *)
(* does it: of the phase 2 instances (HorsScript) and of the candidates    *)
(* (CandidateScripts), from every witness considered there.                *)
(***************************************************************************)
EXTENDS HorsScript, CandidateScripts

(* A family and its size: entries and selections of a table, or the length *)
(* of a message.                                                           *)
Instance(family, n, t, puzzle) ==
    [family |-> family, n |-> n, t |-> t, puzzle |-> puzzle]

Instances ==
    {Instance("hors", p[1], p[2], z) : p \in Params, z \in Puzzles}
    \union {Instance("lamport", n, 0, "none") : n \in Bits}
    \union {Instance("winternitz", n, 0, "none") : n \in Digits}
    \union {Instance(f, 0, 0, "none") : f \in {"direct", "whole_key"}}

Scripts ==
    [i \in Instances |-> IF i.family = "hors" THEN Compile(i.n, i.t, i.puzzle)
                                              ELSE CompileCandidate(i.family, i.n)]

VARIABLES
    instance,   \* which script
    hits,       \* hash oracle: <<transaction, deleted dummies>> with a proof
    signed,     \* the message a candidate's one-time key has signed
    witness,    \* the stack the spend supplies, bottom to top
    pc,         \* the next instruction
    stack,      \* the main stack, bottom to top
    alt,        \* the alternate stack
    taken,      \* the enclosing IFs: is their present branch executed?
    opCount,    \* opcodes counted against the limit of 201
    status,     \* "running", "accepted" or "rejected"
    why         \* what rejected the spend

given == <<instance, hits, signed, witness>>
vars == <<given, pc, stack, alt, taken, opCount, status, why>>

Hors == instance.family = "hors"
N == instance.n
T == instance.t
Puzzle == instance.puzzle
Script == Scripts[instance]

InitHors ==
    /\ hits \in HitTables(N, T)
    /\ signed = <<>>
    /\ witness \in Witnesses(N, T, Puzzle)

InitCandidate ==
    /\ hits = {}
    /\ signed \in Messages(instance.family, N)
    /\ witness \in CandidateWitnesses(instance.family, N, signed)

Init ==
    /\ instance \in Instances
    /\ IF Hors THEN InitHors ELSE InitCandidate
    /\ pc = 1
    /\ stack = witness
    /\ alt = <<>>
    /\ taken = <<>>
    /\ opCount = 0
    /\ status = "running"
    /\ why = "none"

-----------------------------------------------------------------------------
(* Legacy script execution, as Bitcoin Core does it: the part of it that   *)
(* the compiled scripts use.                                               *)
Top(k) == stack[Len(stack) - k]                     \* k elements below the top
Below(k) == SubSeq(stack, 1, Len(stack) - k)        \* without the top k
Holds(k) == Len(stack) >= k
AreNumbers(k) == Holds(k) /\ \A i \in 0 .. k - 1 : Top(i).kind = "num"
Truth(b) == Num(IF b THEN 1 ELSE 0)

Current == Script[pc]
Running == status = "running" /\ pc <= Len(Script)
Executing == \A i \in DOMAIN taken : taken[i]
At(op) == Running /\ Executing /\ Current.op = op

Counted(n) == /\ opCount' = opCount + n
              /\ pc' = pc + 1

Moves(newStack, newAlt, n) ==
    /\ stack' = newStack
    /\ alt' = newAlt
    /\ Counted(n)
    /\ UNCHANGED <<given, taken, status, why>>

Goes(newStack) == Moves(newStack, alt, 1)

Rejects(reason) ==
    /\ status' = "rejected"
    /\ why' = reason
    /\ UNCHANGED <<given, pc, stack, alt, taken, opCount>>

(* The opcode needs k elements, of which the top m are numbers.            *)
Can(k, m) == Holds(k) /\ AreNumbers(m)
Starved(k, m) == Rejects(IF Holds(k) THEN "not a number" ELSE "underflow")

(* In a branch not taken opcodes are still counted. *)
Skip ==
    /\ Running /\ ~Executing
    /\ Current.op \notin {"IF", "ELSE", "ENDIF"}
    /\ Counted(IF Current.op = "PUSH" THEN 0 ELSE 1)
    /\ UNCHANGED <<given, stack, alt, taken, status, why>>

PushData == At("PUSH") /\ Moves(Append(stack, Current.arg), alt, 0)

(* An opcode that replaces its top k elements by results. *)
Stackwise(op, k, m, results) ==
    /\ At(op)
    /\ IF Can(k, m) THEN Goes(Below(k) \o results) ELSE Starved(k, m)

Dup == Stackwise("DUP", 1, 0, <<Top(0), Top(0)>>)
Drop == Stackwise("DROP", 1, 0, <<>>)
Over == Stackwise("OVER", 2, 0, <<Top(1), Top(0), Top(1)>>)
Swap == Stackwise("SWAP", 2, 0, <<Top(0), Top(1)>>)
Add == Stackwise("ADD", 2, 2, <<Num(Top(1).n + Top(0).n)>>)
GreaterThan == Stackwise("GREATERTHAN", 2, 2, <<Truth(Top(1).n > Top(0).n)>>)
LessThanOrEqual == Stackwise("LESSTHANOREQUAL", 2, 2, <<Truth(Top(1).n <= Top(0).n)>>)
Within ==
    Stackwise("WITHIN", 3, 3, <<Truth(Top(1).n <= Top(2).n /\ Top(2).n < Top(0).n)>>)

HashWith(source, image) ==
    IF Top(0).kind = source THEN [Top(0) EXCEPT !.kind = image] ELSE Junk
(* A link of a hash chain is hashed to the next, a key or a secret to its  *)
(* image.                                                                  *)
Sha256Of(e) ==
    CASE e.kind = "link" -> [e EXCEPT !.n = @ + 1]
      [] e.kind = "key" /\ e.s = {} -> KeyImage(e.n)
      [] e.kind = "secret" -> [e EXCEPT !.kind = "image"]
      [] OTHER -> Junk
Sha256 == Stackwise("SHA256", 1, 0, <<Sha256Of(Top(0))>>)
Hash160 == Stackwise("HASH160", 1, 0, <<HashWith("preimage", "commitment")>>)
Ripemd160 == Stackwise("RIPEMD160", 1, 0, <<HashWith("key", "keyhash")>>)

(* A surrogate proof has the wanted size if hits says there is one.        *)
SizeOf(e) == IF e.kind = "proofsig" /\ <<e.n, e.s>> \in hits THEN SignatureBytes ELSE 0
Size == Stackwise("SIZE", 1, 0, <<Top(0), Num(SizeOf(Top(0)))>>)

(* PICK copies, ROLL moves the element that many below the top.            *)
Reaches == AreNumbers(1) /\ Top(0).n >= 0 /\ Holds(Top(0).n + 2)
Pick ==
    /\ At("PICK")
    /\ IF Reaches
       THEN Goes(Append(Below(1), Top(Top(0).n + 1)))
       ELSE Rejects("underflow")
RollUp ==
    /\ At("ROLL")
    /\ IF Reaches
       THEN Goes(Append(RemoveAt(Below(1), Len(stack) - 1 - Top(0).n), Top(Top(0).n + 1)))
       ELSE Rejects("underflow")

ToAlt ==
    /\ At("TOALT")
    /\ IF Holds(1) THEN Moves(Below(1), Append(alt, Top(0)), 1) ELSE Rejects("underflow")
FromAlt ==
    /\ At("FROMALT")
    /\ IF alt # <<>> THEN Moves(Append(stack, Last(alt)), Front(alt), 1)
       ELSE Rejects("underflow")

IsTrue(e) == e # Num(0)
Verify ==
    /\ At("VERIFY")
    /\ IF ~Holds(1) THEN Rejects("underflow")
       ELSE IF IsTrue(Top(0)) THEN Goes(Below(1)) ELSE Rejects("verify")
EqualVerify ==
    /\ At("EQUALVERIFY")
    /\ IF ~Holds(2) THEN Rejects("underflow")
       ELSE IF Top(0) = Top(1) THEN Goes(Below(2)) ELSE Rejects("equalverify")

(* Signature verification.  Deleted is what FindAndDelete removes from the *)
(* script code besides the checked fixed signature.  The SINGLE-bug digest *)
(* of dummies and surrogate proofs does not depend on the transaction.     *)
Verifies(sig, key, deleted) ==
    \/ sig = Fixed /\ key = Key(Spend, deleted)
    \/ sig.kind = "dummy" /\ key = DummyKey(sig.n)
    \/ /\ sig.kind = "keyhash"
       /\ <<sig.n, sig.s>> \in hits
       /\ key = Proof("hash-to-der", sig.n, sig.s) /\ sig.n = Spend
    \/ sig.kind = "proofsig" /\ key = Key(sig.n, sig.s)

CheckSigVerify ==
    /\ At("CHECKSIGVERIFY")
    /\ IF ~Holds(2) THEN Rejects("underflow")
       ELSE IF Verifies(Top(1), Top(0), {}) THEN Goes(Below(2)) ELSE Rejects("checksig")

CheckSig == Stackwise("CHECKSIG", 2, 0, <<Truth(Verifies(Top(1), Top(0), {}))>>)

(* Only the digest sees it: it is taken of the script code after this.     *)
CodeSeparator == At("CODESEPARATOR") /\ Goes(stack)

(* The compiled scripts do not nest their IFs. *)
If ==
    /\ At("IF")
    /\ IF ~Holds(1) THEN Rejects("underflow")
       ELSE /\ taken' = Append(taken, IsTrue(Top(0)))
            /\ stack' = Below(1)
            /\ Counted(1)
            /\ UNCHANGED <<given, alt, status, why>>

Branch(op, branches) ==
    /\ Running /\ Current.op = op
    /\ taken' = branches
    /\ Counted(1)
    /\ UNCHANGED <<given, stack, alt, status, why>>
Else == Branch("ELSE", Append(Front(taken), ~Last(taken)))
EndIf == Branch("ENDIF", Front(taken))

(* As many keys as signatures, compared in order: the null dummy, the      *)
(* signatures, their number, the keys, their number.                       *)
MultisigFits ==
    /\ AreNumbers(1)
    /\ LET k == Top(0).n
       IN  /\ k > 0
           /\ Holds(2 * k + 3)
           /\ Top(k + 1) = Num(k)
MultisigVerifies ==
    LET k == Top(0).n
        deleted == {Top(k + 1 + i).n : i \in {j \in 1 .. k : Top(k + 1 + j).kind = "dummy"}}
    IN  \A i \in 1 .. k : Verifies(Top(k + 1 + i), Top(i), deleted)
CheckMultisigVerify ==
    /\ At("CHECKMULTISIGVERIFY")
    /\ IF ~MultisigFits THEN Rejects("underflow")
       ELSE IF MultisigVerifies
       THEN Moves(Below(2 * Top(0).n + 3), alt, 1 + Top(0).n)
       ELSE Rejects("checksig")

(* The script has run: its verdict is the top element. *)
Finish ==
    /\ status = "running"
    /\ pc > Len(Script)
    /\ IF Holds(1) /\ IsTrue(Top(0))
       THEN status' = "accepted" /\ UNCHANGED <<given, pc, stack, alt, taken, opCount, why>>
       ELSE Rejects("verify")

Next ==
    \/ PushData \/ Dup \/ Drop \/ Over \/ Swap \/ Add \/ GreaterThan \/ LessThanOrEqual
    \/ Within \/ Hash160 \/ Ripemd160 \/ Sha256 \/ Size \/ Pick \/ RollUp
    \/ ToAlt \/ FromAlt \/ Verify \/ EqualVerify \/ CheckSigVerify \/ CheckSig
    \/ CheckMultisigVerify \/ CodeSeparator \/ If \/ Else \/ EndIf \/ Skip \/ Finish

Spec == Init /\ [][Next]_vars

-----------------------------------------------------------------------------
(* The element the spend supplies under a witness name of compile().       *)
Supplied(name) == witness[SelectInSeq(Names(T), LAMBDA x : x = name)]

Passes(key, proof, deleted) ==
    /\ key = Key(Spend, deleted)
    /\ proof = Proof(Puzzle, Spend, deleted)
    /\ <<Spend, deleted>> \in hits

(* What authorises a spend, said without a stack: both keys are those of   *)
(* this very transaction and have their proofs, and the disclosed preimages*)
(* are those of strictly ascending entries, exactly the ones whose dummies *)
(* the digest key is recovered without.                                    *)
Authorized ==
    LET index == [j \in 0 .. T - 1 |-> Supplied(<<"index", j>>)]
        chosen == {index[j].n : j \in 0 .. T - 1}
    IN  /\ Passes(Supplied(<<"pin_key", 0>>), Supplied(<<"pin_proof", 0>>), {})
        /\ \A j \in 0 .. T - 1 :
              /\ index[j].kind = "num" /\ index[j].n \in 0 .. N - 1
              /\ Supplied(<<"pre", j>>) = Preimage(index[j].n)
              /\ Supplied(<<"pub", j>>) = DummyKey(index[j].n)
              /\ j > 0 => index[j - 1].n < index[j].n
        /\ Passes(Supplied(<<"digest_key", 0>>), Supplied(<<"digest_proof", 0>>), chosen)

(* The script accepts exactly the authorised spends: a stale, reordered,   *)
(* repeated or exchanged witness element is rejected wherever it lands on  *)
(* the stack, and no authorised spend is.                                  *)
AcceptsTheAuthorized ==
    Hors => /\ status = "accepted" => Authorized
            /\ status = "rejected" => ~Authorized

(* The values a candidate's spend supplies for the j-th place.             *)
SuppliedDigit(j) == witness[Len(witness) - 2 * (j - 1)]
SuppliedValue(j) == witness[Len(witness) - 2 * (j - 1) - 1]

SignsAgain(j) ==
    /\ SuppliedValue(j) = Derived(instance.family, signed, j, signed[j])
    /\ IF instance.family = "lamport"
       THEN IsTrue(SuppliedDigit(j)) <=> signed[j] = 1
       ELSE SuppliedDigit(j) = Num(signed[j])

(* One signature of a one-time key never yields another: from what it      *)
(* disclosed, hashed on as far as one likes, the script accepts only the   *)
(* message that was signed, whatever key verifies the fixed signature.  It *)
(* does accept that with the key of this transaction, and the scripts      *)
(* report message_key_binding as false: no key is tied to the message.  A  *)
(* key committed to at funding is never the spend's own.                   *)
OneSignatureOneMessage ==
    ~Hors /\ status # "running" =>
        (status = "accepted" <=> /\ instance.family # "whole_key"
                                /\ witness[1] = Key(Spend, {})
                                /\ \A j \in DOMAIN signed : SignsAgain(j))

(* The stack positions compile() counts are the ones execution meets: each *)
(* roll() fetches the element it names, from wherever earlier rolls and    *)
(* checks left it, and no opcode ever lacks an operand.                    *)
RollsFetchTheirElement ==
    /\ why # "underflow"
    /\ At("ROLL") /\ Current.name # NoName =>
          Top(Top(0).n + 1) = Supplied(Current.name)

(* The opcode count that Instance and limits() hold against the limit of   *)
(* 201 before funding is the one an accepted spend incurs, taken branches  *)
(* or not, and what stays behind is the table and the result.              *)
OpcodesAsCounted ==
    status = "accepted" =>
        /\ opCount = IF Hors THEN CountedOpcodes(Script, T) ELSE StaticOpcodes(Script)
        /\ Len(stack) = IF Hors THEN 2 * N + 1 ELSE 1
=============================================================================
