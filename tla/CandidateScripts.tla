-------------------------- MODULE CandidateScripts --------------------------
(***************************************************************************)
(* The candidate locking scripts of btc_pq/candidates.py, and the spends   *)
(* of them that btc_pq/experiments.py tries.                               *)
(*                                                                         *)
(* Each ends with a check of the fixed signature under whatever key the    *)
(* spend supplies.  Before it, "direct" demands nothing, "whole_key" the   *)
(* key committed to at funding, "lamport" and "winternitz" a one-time      *)
(* signature of some message: which one is not bound to the key.           *)
(*                                                                         *)
(* A message is a sequence of bits or of digits in base Radix, its first   *)
(* digit being the one checked first.                                      *)
(***************************************************************************)
EXTENDS ScriptElements

CONSTANTS
    Bits,       \* lengths of Lamport messages, 8 and 264 in the code
    Digits      \* lengths of Winternitz messages, 2 and 132 in the code

ASSUME CandidatesAssumption == Bits \union Digits \subseteq Nat \ {0}

Radix == 4
Families == {"direct", "whole_key", "lamport", "winternitz"}

(* Stack elements: the two secrets of the j-th bit and their images, and   *)
(* the links of the j-th hash chain, link 0 being the secret.              *)
Secret(j, bit) == Element("secret", bit, {j})
Image(j, bit) == Element("image", bit, {j})
Link(j, n) == Element("link", n, {j})
KeyImage(tx) == Element("keyimage", tx, {})

-----------------------------------------------------------------------------
(* SWAP CHECKSIG on the fixed signature. *)
Check == <<Op("CODESEPARATOR"), Push(Fixed), Op("SWAP"), Op("CHECKSIG")>>

(* whole_key(): funded with the commitment to a key of another spend,      *)
(* before the spend and with it its own key exist.                         *)
Committed == 2
WholeKey == <<Op("DUP"), Op("SHA256"), Push(KeyImage(Committed)), Op("EQUALVERIFY")>>

(* lamport_script() *)
LamportBit(j) ==
    <<Op("IF"), Push(Image(j, 1)), Op("ELSE"), Push(Image(j, 0)), Op("ENDIF"),
      Op("SWAP"), Op("SHA256"), Op("EQUALVERIFY")>>
LamportBits(bits) == FlattenSeq([j \in 1 .. bits |-> LamportBit(j)])

(* checksum_digits(): the least length whose numbers reach the largest     *)
(* checksum.                                                               *)
Power(n) == LET p[i \in 0 .. n] == IF i = 0 THEN 1 ELSE Radix * p[i - 1] IN p[n]
ChecksumDigits(count) ==
    CHOOSE n \in 1 .. count + 1 :
        /\ Power(n) > count * (Radix - 1)
        /\ \A m \in 1 .. n - 1 : Power(m) <= count * (Radix - 1)
WotsLength(count) == count + ChecksumDigits(count)

(* wots_script(): the digit's range, its part in the sum of the message or *)
(* in the checksum, and as many hashes as are missing to the chain's end.  *)
InRange == <<Op("DUP"), PushNum(0), PushNum(Radix), Op("WITHIN"), Op("VERIFY")>>
AddDigit == <<Op("DUP"), Op("FROMALT"), Op("ADD"), Op("TOALT")>>
HornerStep ==
    <<Op("FROMALT"), Op("DUP"), Op("ADD"), Op("DUP"), Op("ADD"), Op("OVER"), Op("ADD"),
      Op("TOALT")>>
HashBelow(threshold) ==
    <<Op("DUP"), PushNum(threshold), Op("LESSTHANOREQUAL"), Op("IF"), Op("SWAP"), Op("SHA256"),
      Op("SWAP"), Op("ENDIF")>>
WotsDigit(j, count) ==
    InRange
    \o (IF j <= count THEN AddDigit ELSE HornerStep)
    \o FlattenSeq([i \in 1 .. Radix - 1 |-> HashBelow(i - 1)])
    \o <<Op("DROP"), Push(Link(j, Radix - 1)), Op("EQUALVERIFY")>>

StartSum == <<PushNum(0), Op("TOALT")>>
(* Mutant: sum and checksum are added but not compared. *)
TotalUnverified(count) == <<Op("FROMALT"), Op("FROMALT"), Op("ADD"), Op("DROP")>>
Total(count) ==
    <<Op("FROMALT"), Op("FROMALT"), Op("ADD"), PushNum(count * (Radix - 1)),
      Op("EQUALVERIFY")>>
WotsDigits(count) ==
    StartSum \o FlattenSeq([j \in 1 .. WotsLength(count) |->
                    (IF j = count + 1 THEN StartSum ELSE <<>>) \o WotsDigit(j, count)])
    \o Total(count)

CompileCandidate(family, n) ==
    (CASE family = "direct" -> <<>>
       [] family = "whole_key" -> WholeKey
       [] family = "lamport" -> LamportBits(n)
       [] family = "winternitz" -> WotsDigits(n)) \o Check

-----------------------------------------------------------------------------
(* wots_digits(): the message and its checksum, most significant first.    *)
Checksum(message) ==
    LET sum[i \in 0 .. Len(message)] ==
            IF i = 0 THEN 0 ELSE sum[i - 1] + (Radix - 1 - message[i])
    IN  sum[Len(message)]
SignedDigits(message) ==
    LET n == ChecksumDigits(Len(message))
    IN  message \o [i \in 1 .. n |-> (Checksum(message) \div Power(n - i)) % Radix]

(* The messages a one-time key may have signed. *)
Messages(family, n) ==
    CASE family = "lamport" -> [1 .. n -> 0 .. 1]
      [] family = "winternitz" -> {SignedDigits(m) : m \in [1 .. n -> 0 .. Radix - 1]}
      [] OTHER -> {<<>>}

(* lamport_witness(), wots_witness(): the j-th value and digit above the   *)
(* later ones, all above the key.                                          *)
SignedWitness(key, values, digits) ==
    <<key>> \o FlattenSeq(Reverse([j \in DOMAIN digits |-> <<values[j], Num(digits[j])>>]))

(* What the disclosed signature yields for digit d of the j-th place: the  *)
(* disclosed secret, or the disclosed link hashed on as far as d.          *)
Derived(family, signed, j, d) ==
    IF family = "lamport" THEN Secret(j, signed[j])
                          ELSE Link(j, IF d > signed[j] THEN d ELSE signed[j])
DerivedAll(family, signed, digits) ==
    [j \in DOMAIN digits |-> Derived(family, signed, j, digits[j])]

(* Anything a spend might put in place of one element.                     *)
CandidateForgeries(family, signed) ==
    {Fixed, Junk}
    \union {Key(tx, {}) : tx \in Txs}
    \union {Num(k) : k \in -1 .. Radix}
    \union {Derived(family, signed, j, d) : j \in DOMAIN signed, d \in 0 .. Radix}

(* The spends considered after a signature of the message signed: the same *)
(* authorisation, any other message with what the disclosed signature      *)
(* yields, and any one element exchanged, the key among them.              *)
CandidateWitnesses(family, n, signed) ==
    LET base == IF family = "lamport" THEN 2 ELSE Radix
        own == SignedWitness(Key(Spend, {}), DerivedAll(family, signed, signed), signed)
    IN  {SignedWitness(Key(Spend, {}), DerivedAll(family, signed, digits), digits) :
             digits \in [DOMAIN signed -> 0 .. base - 1]}
        \union {[own EXCEPT ![k] = f] :
             k \in DOMAIN own, f \in CandidateForgeries(family, signed)}
=============================================================================
