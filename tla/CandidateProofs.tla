-------------------------- MODULE CandidateProofs ---------------------------
(***************************************************************************)
(* Proofs about ScriptExecution, continued: the scripts of candidates.py   *)
(* for every message length, and the theorems about all scripts.           *)
(*                                                                         *)
(* A candidate's script takes its witness apart place by place             *)
(* (BlocksRun).  A Lamport place passes with the secret of its bit only.   *)
(* A Winternitz place passes with a link of its chain no lower than the    *)
(* disclosed one, so that every digit is at least the signed one; but the  *)
(* sum of the message digits and the number the checksum digits write must *)
(* be what they were together, and a message digit raised lowers what the  *)
(* checksum digits may write, all of which are at least those signed       *)
(* (SumCompares, HornerCompares): nothing was raised.                      *)
(***************************************************************************)
EXTENDS ScriptProofs

-----------------------------------------------------------------------------
(* The blocks of the candidate scripts.                                    *)
LEMMA CandidateElements ==
    ASSUME NEW j \in Int, NEW n \in Int
    PROVE  /\ Secret(j, n) \in Elements /\ Image(j, n) \in Elements /\ Link(j, n) \in Elements
           /\ KeyImage(n) \in Elements
<1>1. \A k \in Kinds, i \in Int, d \in SUBSET Int : Element(k, i, d) \in Elements
    BY ElementIs
<1>2. "secret" \in Kinds /\ "image" \in Kinds /\ "link" \in Kinds /\ "keyimage" \in Kinds
    BY DEF Kinds
<1> QED BY <1>1, <1>2 DEF Secret, Image, Link, KeyImage

(* The fixed signature is checked under the key on top.                    *)
LEMMA CheckRuns ==
    ASSUME NEW p, NEW s \in Stacks, NEW x \in Elements, NEW a,
           Block(p, Check),
           Trace[p] = State(s ++ x, a, <<>>)
    PROVE  Trace[p + 4] = State(s ++ Truth(Verifies(Fixed, x, {})), a, <<>>)
<1>1. /\ p \in Nat \ {0} /\ Len(Script) \in Nat /\ p + 3 <= Len(Script)
      /\ Reads(p, "CODESEPARATOR")
      /\ Reads(p + 1, "PUSH") /\ Script[p + 1].arg = Fixed
      /\ Reads(p + 2, "SWAP")
      /\ Reads(p + 3, "CHECKSIG")
  <2> DEFINE code == Check
  <2>1. /\ Len(code) = 4
        /\ code[1] = Op("CODESEPARATOR")
        /\ code[2] = Push(Fixed)
        /\ code[3] = Op("SWAP")
        /\ code[4] = Op("CHECKSIG")
      BY DEF Check
  <2>2. Op("CHECKSIG").op = "CHECKSIG" /\ Op("CODESEPARATOR").op = "CODESEPARATOR"
        /\ Op("SWAP").op = "SWAP"
      BY OpIs DEF Plain
  <2>7. Block(p, code)
      OBVIOUS
  <2> HIDE DEF code
  <2>3. /\ p \in Nat \ {0} /\ Len(Script) \in Nat /\ p + 3 <= Len(Script)
        /\ \A k \in 1 .. 4 : Script[p + k - 1] = code[k]
      BY <2>1, <2>7 DEF Block
  <2>4. Push(Fixed).op = "PUSH" /\ Push(Fixed).arg = Fixed
      BY PushNumIs, PushIs, Constants
  <2>9. /\ Script[p] = code[1]
        /\ Script[p + 1] = code[2]
        /\ Script[p + 2] = code[3]
        /\ Script[p + 3] = code[4]
      BY ONLY <2>3
  <2>5. /\ Script[p] = Op("CODESEPARATOR")
        /\ Script[p + 1] = Push(Fixed)
        /\ Script[p + 2] = Op("SWAP")
        /\ Script[p + 3] = Op("CHECKSIG")
      BY ONLY <2>1, <2>9
  <2>8. p \in Nat \ {0} /\ Len(Script) \in Nat /\ p + 3 <= Len(Script)
      BY ONLY <2>3
  <2>6. /\ p \in 1 .. Len(Script)
        /\ p + 1 \in 1 .. Len(Script)
        /\ p + 2 \in 1 .. Len(Script)
        /\ p + 3 \in 1 .. Len(Script)
      BY ONLY <2>8
  <2> QED BY ONLY <2>2, <2>3, <2>4, <2>5, <2>6 DEF Reads
<1>2. Fixed \in Elements
    BY Constants
<1>3. Trace[p + 1] = State(s ++ x, a, <<>>)
    BY <1>1, <1>2, NoneOn, RunSeparator, Grows
<1>4. Trace[p + 2] = State(s ++ x ++ Fixed, a, <<>>)
    BY <1>1, <1>2, <1>3, NoneOn, RunPush, Grows
<1>5. Trace[p + 3] = State(s ++ Fixed ++ x, a, <<>>)
    BY <1>1, <1>2, <1>4, NoneOn, RunSwap, Grows
<1>6. Trace[p + 4] = State(s ++ Truth(Verifies(Fixed, x, {})), a, <<>>)
    BY <1>1, <1>2, <1>5, NoneOn, RunCheckSig, Grows
<1> QED BY <1>6

(* The key on top is the one committed to.                                 *)
LEMMA WholeKeyRuns ==
    ASSUME NEW p, NEW s \in Stacks, NEW x \in Elements, NEW a,
           Block(p, WholeKey),
           Trace[p] = State(s ++ x, a, <<>>)
    PROVE  IF Sha256Of(x) = KeyImage(Committed)
           THEN Trace[p + 4] = State(s ++ x, a, <<>>)
           ELSE Rejected(p + 4)
<1>1. /\ p \in Nat \ {0} /\ Len(Script) \in Nat /\ p + 3 <= Len(Script)
      /\ Reads(p, "DUP")
      /\ Reads(p + 1, "SHA256")
      /\ Reads(p + 2, "PUSH") /\ Script[p + 2].arg = KeyImage(Committed)
      /\ Reads(p + 3, "EQUALVERIFY")
  <2> DEFINE code == WholeKey
  <2>1. /\ Len(code) = 4
        /\ code[1] = Op("DUP")
        /\ code[2] = Op("SHA256")
        /\ code[3] = Push(KeyImage(Committed))
        /\ code[4] = Op("EQUALVERIFY")
      BY DEF WholeKey
  <2>2. Op("DUP").op = "DUP" /\ Op("EQUALVERIFY").op = "EQUALVERIFY" /\ Op("SHA256").op = "SHA256"
      BY OpIs DEF Plain
  <2>7. Block(p, code)
      OBVIOUS
  <2> HIDE DEF code
  <2>3. /\ p \in Nat \ {0} /\ Len(Script) \in Nat /\ p + 3 <= Len(Script)
        /\ \A k \in 1 .. 4 : Script[p + k - 1] = code[k]
      BY <2>1, <2>7 DEF Block
  <2>4. Push(KeyImage(Committed)).op = "PUSH" /\ Push(KeyImage(Committed)).arg = KeyImage(Committed)
      BY PushNumIs, PushIs, CandidateElements DEF Committed
  <2>9. /\ Script[p] = code[1]
        /\ Script[p + 1] = code[2]
        /\ Script[p + 2] = code[3]
        /\ Script[p + 3] = code[4]
      BY ONLY <2>3
  <2>5. /\ Script[p] = Op("DUP")
        /\ Script[p + 1] = Op("SHA256")
        /\ Script[p + 2] = Push(KeyImage(Committed))
        /\ Script[p + 3] = Op("EQUALVERIFY")
      BY ONLY <2>1, <2>9
  <2>8. p \in Nat \ {0} /\ Len(Script) \in Nat /\ p + 3 <= Len(Script)
      BY ONLY <2>3
  <2>6. /\ p \in 1 .. Len(Script)
        /\ p + 1 \in 1 .. Len(Script)
        /\ p + 2 \in 1 .. Len(Script)
        /\ p + 3 \in 1 .. Len(Script)
      BY ONLY <2>8
  <2> QED BY ONLY <2>2, <2>3, <2>4, <2>5, <2>6 DEF Reads
<1> DEFINE Cond == Sha256Of(x) = KeyImage(Committed)
<1> DEFINE Ends == Trace[p + 4] = State(s ++ x, a, <<>>)
<1>2. SUFFICES ASSUME Cond \/ ~Rejected(p + 4) PROVE Cond /\ Ends
    OBVIOUS
<1>3. Sha256Of(x) \in Elements /\ KeyImage(Committed) \in Elements
    BY ShaType, CandidateElements DEF Committed
<1>4. Trace[p + 1] = State(s ++ x ++ x, a, <<>>)
    BY <1>1, <1>3, NoneOn, RunDup, Grows
<1>5. Trace[p + 2] = State(s ++ x ++ Sha256Of(x), a, <<>>)
    BY <1>1, <1>3, <1>4, NoneOn, RunSha, Grows
<1>6. Trace[p + 3] = State(s ++ x ++ Sha256Of(x) ++ KeyImage(Committed), a, <<>>)
    BY <1>1, <1>3, <1>5, NoneOn, RunPush, Grows
<1>7. (Sha256Of(x) = KeyImage(Committed)) /\ Trace[p + 4] = State(s ++ x, a, <<>>)
  <2>1. IF Sha256Of(x) = KeyImage(Committed)
        THEN Trace[p + 4] = State(s ++ x, a, <<>>) ELSE Rejected(p + 4)
      BY <1>1, <1>3, <1>6, NoneOn, RunEqual, Grows
  <2>2. CASE ~Rejected(p + 4)
    <3>1. p + 4 \in 1 .. Len(Script) + 1 /\ p + 4 \in p + 4 .. Len(Script) + 1
        BY <1>1
    <3>2. ~Rejected(p + 4)
        BY <1>1, <2>2, <3>1, RejectedStays
    <3> QED BY <2>1, <3>2
  <2>3. CASE Cond
    <3>1. Sha256Of(x) = KeyImage(Committed)
        BY <2>3
    <3> QED BY <2>1, <3>1
  <2> QED BY <2>2, <2>3, <1>2
<1> QED BY <1>7, <1>7

(* A sum starts.                                                           *)
LEMMA StartSumRuns ==
    ASSUME NEW p, NEW s \in Stacks, NEW a,
           Block(p, StartSum),
           Trace[p] = State(s, a, <<>>)
    PROVE  Trace[p + 2] = State(s, a ++ Num(0), <<>>)
<1>1. /\ p \in Nat \ {0} /\ Len(Script) \in Nat /\ p + 1 <= Len(Script)
      /\ Reads(p, "PUSH") /\ Script[p].arg = Num(0)
      /\ Reads(p + 1, "TOALT")
  <2> DEFINE code == StartSum
  <2>1. /\ Len(code) = 2
        /\ code[1] = PushNum(0)
        /\ code[2] = Op("TOALT")
      BY DEF StartSum
  <2>2. Op("TOALT").op = "TOALT"
      BY OpIs DEF Plain
  <2>7. Block(p, code)
      OBVIOUS
  <2> HIDE DEF code
  <2>3. /\ p \in Nat \ {0} /\ Len(Script) \in Nat /\ p + 1 <= Len(Script)
        /\ \A k \in 1 .. 2 : Script[p + k - 1] = code[k]
      BY <2>1, <2>7 DEF Block
  <2>4. PushNum(0).op = "PUSH" /\ PushNum(0).arg = Num(0)
      BY PushNumIs, PushIs
  <2>9. /\ Script[p] = code[1]
        /\ Script[p + 1] = code[2]
      BY ONLY <2>3
  <2>5. /\ Script[p] = PushNum(0)
        /\ Script[p + 1] = Op("TOALT")
      BY ONLY <2>1, <2>9
  <2>8. p \in Nat \ {0} /\ Len(Script) \in Nat /\ p + 1 <= Len(Script)
      BY ONLY <2>3
  <2>6. /\ p \in 1 .. Len(Script)
        /\ p + 1 \in 1 .. Len(Script)
      BY ONLY <2>8
  <2> QED BY ONLY <2>2, <2>3, <2>4, <2>5, <2>6 DEF Reads
<1>2. Num(0) \in Elements
    BY NumberIs
<1>3. Trace[p + 1] = State(s ++ Num(0), a, <<>>)
    BY <1>1, <1>2, NoneOn, RunPush, Grows
<1>4. Trace[p + 2] = State(s, a ++ Num(0), <<>>)
    BY <1>1, <1>2, <1>3, NoneOn, RunToAlt, Grows
<1> QED BY <1>4

(* A digit is added to the sum.                                            *)
LEMMA AddDigitRuns ==
    ASSUME NEW p, NEW s \in Stacks, NEW x \in Elements, NEW y \in Elements, NEW a \in Stacks,
           x.kind = "num", y.kind = "num",
           Block(p, AddDigit),
           Trace[p] = State(s ++ x, a ++ y, <<>>)
    PROVE  Trace[p + 4] = State(s ++ x, a ++ Num(x.n + y.n), <<>>)
<1>1. /\ p \in Nat \ {0} /\ Len(Script) \in Nat /\ p + 3 <= Len(Script)
      /\ Reads(p, "DUP")
      /\ Reads(p + 1, "FROMALT")
      /\ Reads(p + 2, "ADD")
      /\ Reads(p + 3, "TOALT")
  <2> DEFINE code == AddDigit
  <2>1. /\ Len(code) = 4
        /\ code[1] = Op("DUP")
        /\ code[2] = Op("FROMALT")
        /\ code[3] = Op("ADD")
        /\ code[4] = Op("TOALT")
      BY DEF AddDigit
  <2>2. /\ Op("ADD").op = "ADD" /\ Op("DUP").op = "DUP" /\ Op("FROMALT").op = "FROMALT"
        /\ Op("TOALT").op = "TOALT"
      BY OpIs DEF Plain
  <2>7. Block(p, code)
      OBVIOUS
  <2> HIDE DEF code
  <2>3. /\ p \in Nat \ {0} /\ Len(Script) \in Nat /\ p + 3 <= Len(Script)
        /\ \A k \in 1 .. 4 : Script[p + k - 1] = code[k]
      BY <2>1, <2>7 DEF Block
  <2>9. /\ Script[p] = code[1]
        /\ Script[p + 1] = code[2]
        /\ Script[p + 2] = code[3]
        /\ Script[p + 3] = code[4]
      BY ONLY <2>3
  <2>5. /\ Script[p] = Op("DUP")
        /\ Script[p + 1] = Op("FROMALT")
        /\ Script[p + 2] = Op("ADD")
        /\ Script[p + 3] = Op("TOALT")
      BY ONLY <2>1, <2>9
  <2>8. p \in Nat \ {0} /\ Len(Script) \in Nat /\ p + 3 <= Len(Script)
      BY ONLY <2>3
  <2>6. /\ p \in 1 .. Len(Script)
        /\ p + 1 \in 1 .. Len(Script)
        /\ p + 2 \in 1 .. Len(Script)
        /\ p + 3 \in 1 .. Len(Script)
      BY ONLY <2>8
  <2> QED BY ONLY <2>2, <2>3, <2>5, <2>6 DEF Reads
<1>2. Trace[p + 1] = State(s ++ x ++ x, a ++ y, <<>>)
    BY <1>1, NoneOn, RunDup, Grows
<1>3. Trace[p + 2] = State(s ++ x ++ x ++ y, a, <<>>)
    BY <1>1, <1>2, NoneOn, RunFromAlt, Grows
<1>4. Num(x.n + y.n) \in Elements
    BY NumberIs DEF Elements
<1>5. Trace[p + 3] = State(s ++ x ++ Num(x.n + y.n), a, <<>>)
    BY <1>1, <1>4, <1>3, NoneOn, RunAdd, Grows
<1>6. Trace[p + 4] = State(s ++ x, a ++ Num(x.n + y.n), <<>>)
    BY <1>1, <1>4, <1>5, NoneOn, RunToAlt, Grows
<1> QED BY <1>6

(* A digit is appended to the number.                                      *)
LEMMA HornerRuns ==
    ASSUME NEW p, NEW s \in Stacks, NEW x \in Elements, NEW y \in Elements, NEW a \in Stacks,
           NEW u \in Elements, NEW v \in Elements, x.kind = "num", y.kind = "num",
           u = Num(y.n + y.n), v = Num(u.n + u.n),
           Block(p, HornerStep),
           Trace[p] = State(s ++ x, a ++ y, <<>>)
    PROVE  Trace[p + 8] = State(s ++ x, a ++ Num(v.n + x.n), <<>>)
<1>1. /\ p \in Nat \ {0} /\ Len(Script) \in Nat /\ p + 7 <= Len(Script)
      /\ Reads(p, "FROMALT")
      /\ Reads(p + 1, "DUP")
      /\ Reads(p + 2, "ADD")
      /\ Reads(p + 3, "DUP")
      /\ Reads(p + 4, "ADD")
      /\ Reads(p + 5, "OVER")
      /\ Reads(p + 6, "ADD")
      /\ Reads(p + 7, "TOALT")
  <2> DEFINE code == HornerStep
  <2>1. /\ Len(code) = 8
        /\ code[1] = Op("FROMALT")
        /\ code[2] = Op("DUP")
        /\ code[3] = Op("ADD")
        /\ code[4] = Op("DUP")
        /\ code[5] = Op("ADD")
        /\ code[6] = Op("OVER")
        /\ code[7] = Op("ADD")
        /\ code[8] = Op("TOALT")
      BY DEF HornerStep
  <2>2. /\ Op("ADD").op = "ADD" /\ Op("DUP").op = "DUP" /\ Op("FROMALT").op = "FROMALT"
        /\ Op("OVER").op = "OVER" /\ Op("TOALT").op = "TOALT"
      BY OpIs DEF Plain
  <2>7. Block(p, code)
      OBVIOUS
  <2> HIDE DEF code
  <2>3. /\ p \in Nat \ {0} /\ Len(Script) \in Nat /\ p + 7 <= Len(Script)
        /\ \A k \in 1 .. 8 : Script[p + k - 1] = code[k]
      BY <2>1, <2>7 DEF Block
  <2>9. /\ Script[p] = code[1]
        /\ Script[p + 1] = code[2]
        /\ Script[p + 2] = code[3]
        /\ Script[p + 3] = code[4]
        /\ Script[p + 4] = code[5]
        /\ Script[p + 5] = code[6]
        /\ Script[p + 6] = code[7]
        /\ Script[p + 7] = code[8]
      BY ONLY <2>3
  <2>5. /\ Script[p] = Op("FROMALT")
        /\ Script[p + 1] = Op("DUP")
        /\ Script[p + 2] = Op("ADD")
        /\ Script[p + 3] = Op("DUP")
        /\ Script[p + 4] = Op("ADD")
        /\ Script[p + 5] = Op("OVER")
        /\ Script[p + 6] = Op("ADD")
        /\ Script[p + 7] = Op("TOALT")
      BY ONLY <2>1, <2>9
  <2>8. p \in Nat \ {0} /\ Len(Script) \in Nat /\ p + 7 <= Len(Script)
      BY ONLY <2>3
  <2>6. /\ p \in 1 .. Len(Script)
        /\ p + 1 \in 1 .. Len(Script)
        /\ p + 2 \in 1 .. Len(Script)
        /\ p + 3 \in 1 .. Len(Script)
        /\ p + 4 \in 1 .. Len(Script)
        /\ p + 5 \in 1 .. Len(Script)
        /\ p + 6 \in 1 .. Len(Script)
        /\ p + 7 \in 1 .. Len(Script)
      BY ONLY <2>8
  <2> QED BY ONLY <2>2, <2>3, <2>5, <2>6 DEF Reads
<1>2. Trace[p + 1] = State(s ++ x ++ y, a, <<>>)
  <2> DEFINE none == <<>>
  <2>1. /\ Reads(p, "FROMALT") /\ a \in Stacks /\ y \in Elements /\ On(none)
        /\ Trace[p] = State(s ++ x, a ++ y, none)
      BY <1>1, NoneOn
  <2> HIDE DEF none
  <2>2. Trace[p + 1] = State(s ++ x ++ y, a, none)
      BY ONLY <2>1, RunFromAlt
  <2> QED BY <2>2 DEF none
<1>3. /\ u.kind = "num" /\ v.kind = "num" /\ u.n \in Int /\ v.n \in Int
      /\ Num(v.n + x.n) \in Elements
    BY NumberIs DEF Elements
<1>4. Trace[p + 2] = State(s ++ x ++ y ++ y, a, <<>>)
    BY <1>1, <1>2, NoneOn, RunDup, Grows
<1>5. Trace[p + 3] = State(s ++ x ++ u, a, <<>>)
  <2> DEFINE r == s ++ x
  <2> DEFINE none == <<>>
  <2>1. /\ Reads(p + 2, "ADD") /\ r \in Stacks /\ y \in Elements /\ y.kind = "num"
        /\ On(none) /\ Trace[p + 2] = State(r ++ y ++ y, a, none) /\ (p + 2) + 1 = p + 3
      BY <1>1, <1>4, NoneOn, Grows
  <2> HIDE DEF r, none
  <2>2. Trace[(p + 2) + 1] = State(r ++ Num(y.n + y.n), a, none)
      BY ONLY <2>1, RunAdd
  <2>3. Trace[p + 3] = State(r ++ u, a, none)
      BY <2>1, <2>2
  <2> QED BY <2>3 DEF r, none
<1>6. Trace[p + 4] = State(s ++ x ++ u ++ u, a, <<>>)
    BY <1>1, <1>5, NoneOn, RunDup, Grows
<1>7. Trace[p + 5] = State(s ++ x ++ v, a, <<>>)
  <2> DEFINE none == <<>>
  <2> DEFINE r == s ++ x
  <2> DEFINE q == p + 4
  <2>1. /\ Reads(q, "ADD") /\ r \in Stacks /\ u \in Elements /\ u.kind = "num" /\ On(none)
        /\ Trace[q] = State(r ++ u ++ u, a, none)
      BY <1>1, <1>6, <1>3, NoneOn, Grows
  <2> HIDE DEF none, r, q
  <2>2. Trace[q + 1] = State(r ++ Num(u.n + u.n), a, none)
      BY ONLY <2>1, RunAdd
  <2>3. q + 1 = p + 5 /\ Num(u.n + u.n) = v
      BY <1>1 DEF q
  <2> QED BY <2>2, <2>3 DEF none, r
<1>8. Trace[p + 6] = State(s ++ x ++ v ++ x, a, <<>>)
    BY <1>1, <1>7, NoneOn, RunOver, Grows
<1>9. Trace[p + 7] = State(s ++ x ++ Num(v.n + x.n), a, <<>>)
  <2> DEFINE none == <<>>
  <2> DEFINE r == s ++ x
  <2> DEFINE q == p + 6
  <2>1. /\ Reads(q, "ADD") /\ r \in Stacks /\ v \in Elements /\ x \in Elements
        /\ v.kind = "num" /\ x.kind = "num" /\ On(none)
        /\ Trace[q] = State(r ++ v ++ x, a, none)
      BY <1>1, <1>8, <1>3, NoneOn, Grows
  <2> HIDE DEF none, r, q
  <2>2. Trace[q + 1] = State(r ++ Num(v.n + x.n), a, none)
      BY ONLY <2>1, RunAdd
  <2>3. q + 1 = p + 7
      BY <1>1 DEF q
  <2> QED BY <2>2, <2>3 DEF none, r
<1>10. Trace[p + 8] = State(s ++ x, a ++ Num(v.n + x.n), <<>>)
    BY <1>1, <1>9, <1>3, NoneOn, RunToAlt, Grows
<1> QED BY <1>10

(* What follows the loop over a chain: compared with its published end.    *)
ChainEnd(j) == <<Op("DROP"), Push(Link(j, Radix - 1)), Op("EQUALVERIFY")>>

(* Only the end of the chain passes the comparison.                        *)
LEMMA LinkRuns ==
    ASSUME NEW p, NEW s \in Stacks, NEW v \in Elements, NEW x \in Elements, NEW a,
           NEW j \in Int,
           Block(p, ChainEnd(j)),
           Trace[p] = State(s ++ v ++ x, a, <<>>)
    PROVE  /\ v = Link(j, Radix - 1) => Trace[p + 3] = State(s, a, <<>>)
           /\ v = Link(j, Radix - 1) \/ Rejected(p + 3)
<1>1. /\ p \in Nat \ {0} /\ Len(Script) \in Nat /\ p + 2 <= Len(Script)
      /\ Reads(p, "DROP")
      /\ Reads(p + 1, "PUSH") /\ Script[p + 1].arg = Link(j, Radix - 1)
      /\ Reads(p + 2, "EQUALVERIFY")
  <2> DEFINE code == ChainEnd(j)
  <2>1. /\ Len(code) = 3
        /\ code[1] = Op("DROP")
        /\ code[2] = Push(Link(j, Radix - 1))
        /\ code[3] = Op("EQUALVERIFY")
      BY DEF ChainEnd
  <2>2. Op("DROP").op = "DROP" /\ Op("EQUALVERIFY").op = "EQUALVERIFY"
      BY OpIs DEF Plain
  <2>7. Block(p, code)
      OBVIOUS
  <2> HIDE DEF code
  <2>3. /\ p \in Nat \ {0} /\ Len(Script) \in Nat /\ p + 2 <= Len(Script)
        /\ \A k \in 1 .. 3 : Script[p + k - 1] = code[k]
      BY <2>1, <2>7 DEF Block
  <2>4. Push(Link(j, Radix - 1)).op = "PUSH" /\ Push(Link(j, Radix - 1)).arg = Link(j, Radix - 1)
      BY PushNumIs, PushIs, CandidateElements DEF Radix
  <2>9. /\ Script[p] = code[1]
        /\ Script[p + 1] = code[2]
        /\ Script[p + 2] = code[3]
      BY ONLY <2>3
  <2>5. /\ Script[p] = Op("DROP")
        /\ Script[p + 1] = Push(Link(j, Radix - 1))
        /\ Script[p + 2] = Op("EQUALVERIFY")
      BY ONLY <2>1, <2>9
  <2>8. p \in Nat \ {0} /\ Len(Script) \in Nat /\ p + 2 <= Len(Script)
      BY ONLY <2>3
  <2>6. /\ p \in 1 .. Len(Script)
        /\ p + 1 \in 1 .. Len(Script)
        /\ p + 2 \in 1 .. Len(Script)
      BY ONLY <2>8
  <2> QED BY ONLY <2>2, <2>3, <2>4, <2>5, <2>6 DEF Reads
<1> DEFINE Cond == v = Link(j, Radix - 1)
<1> DEFINE Ends == Trace[p + 3] = State(s, a, <<>>)
<1>2. SUFFICES ASSUME Cond \/ ~Rejected(p + 3) PROVE Cond /\ Ends
    OBVIOUS
<1>3. Link(j, Radix - 1) \in Elements
    BY CandidateElements DEF Radix
<1>4. Trace[p + 1] = State(s ++ v, a, <<>>)
    BY <1>1, <1>3, NoneOn, RunDrop, Grows
<1>5. Trace[p + 2] = State(s ++ v ++ Link(j, Radix - 1), a, <<>>)
    BY <1>1, <1>3, <1>4, NoneOn, RunPush, Grows
<1>6. (v = Link(j, Radix - 1)) /\ Trace[p + 3] = State(s, a, <<>>)
  <2>1. IF v = Link(j, Radix - 1)
        THEN Trace[p + 3] = State(s, a, <<>>) ELSE Rejected(p + 3)
      BY <1>1, <1>3, <1>5, NoneOn, RunEqual, Grows
  <2>2. CASE ~Rejected(p + 3)
    <3>1. p + 3 \in 1 .. Len(Script) + 1 /\ p + 3 \in p + 3 .. Len(Script) + 1
        BY <1>1
    <3>2. ~Rejected(p + 3)
        BY <1>1, <2>2, <3>1, RejectedStays
    <3> QED BY <2>1, <3>2
  <2>3. CASE Cond
    <3>1. v = Link(j, Radix - 1)
        BY <2>3
    <3> QED BY <2>1, <3>1
  <2> QED BY <2>2, <2>3, <1>2
<1> QED BY <1>6, <1>6

(* The sum and its checksum are what every message has.                    *)
LEMMA TotalRuns ==
    ASSUME NEW p, NEW s \in Stacks, NEW x \in Elements, NEW y \in Elements, NEW a \in Stacks,
           NEW count \in Int, x.kind = "num", y.kind = "num",
           Block(p, Total(count)),
           Trace[p] = State(s, a ++ x ++ y, <<>>)
    PROVE  /\ Num(y.n + x.n) = Num(count * (Radix - 1)) => Trace[p + 5] = State(s, a, <<>>)
           /\ Num(y.n + x.n) = Num(count * (Radix - 1)) \/ Rejected(p + 5)
<1>1. /\ p \in Nat \ {0} /\ Len(Script) \in Nat /\ p + 4 <= Len(Script)
      /\ Reads(p, "FROMALT")
      /\ Reads(p + 1, "FROMALT")
      /\ Reads(p + 2, "ADD")
      /\ Reads(p + 3, "PUSH") /\ Script[p + 3].arg = Num(count * (Radix - 1))
      /\ Reads(p + 4, "EQUALVERIFY")
  <2> DEFINE code == Total(count)
  <2>1. /\ Len(code) = 5
        /\ code[1] = Op("FROMALT")
        /\ code[2] = Op("FROMALT")
        /\ code[3] = Op("ADD")
        /\ code[4] = PushNum(count * (Radix - 1))
        /\ code[5] = Op("EQUALVERIFY")
      BY DEF Total
  <2>2. Op("ADD").op = "ADD" /\ Op("EQUALVERIFY").op = "EQUALVERIFY" /\ Op("FROMALT").op = "FROMALT"
      BY OpIs DEF Plain
  <2>7. Block(p, code)
      OBVIOUS
  <2> HIDE DEF code
  <2>3. /\ p \in Nat \ {0} /\ Len(Script) \in Nat /\ p + 4 <= Len(Script)
        /\ \A k \in 1 .. 5 : Script[p + k - 1] = code[k]
      BY <2>1, <2>7 DEF Block
  <2>4. PushNum(count * (Radix - 1)).op = "PUSH"
        /\ PushNum(count * (Radix - 1)).arg = Num(count * (Radix - 1))
      BY PushNumIs, PushIs, NumberIs DEF Radix
  <2>9. /\ Script[p] = code[1]
        /\ Script[p + 1] = code[2]
        /\ Script[p + 2] = code[3]
        /\ Script[p + 3] = code[4]
        /\ Script[p + 4] = code[5]
      BY ONLY <2>3
  <2>5. /\ Script[p] = Op("FROMALT")
        /\ Script[p + 1] = Op("FROMALT")
        /\ Script[p + 2] = Op("ADD")
        /\ Script[p + 3] = PushNum(count * (Radix - 1))
        /\ Script[p + 4] = Op("EQUALVERIFY")
      BY ONLY <2>1, <2>9
  <2>8. p \in Nat \ {0} /\ Len(Script) \in Nat /\ p + 4 <= Len(Script)
      BY ONLY <2>3
  <2>6. /\ p \in 1 .. Len(Script)
        /\ p + 1 \in 1 .. Len(Script)
        /\ p + 2 \in 1 .. Len(Script)
        /\ p + 3 \in 1 .. Len(Script)
        /\ p + 4 \in 1 .. Len(Script)
      BY ONLY <2>8
  <2> QED BY ONLY <2>2, <2>3, <2>4, <2>5, <2>6 DEF Reads
<1> DEFINE Cond == Num(y.n + x.n) = Num(count * (Radix - 1))
<1> DEFINE Ends == Trace[p + 5] = State(s, a, <<>>)
<1>2. SUFFICES ASSUME Cond \/ ~Rejected(p + 5) PROVE Cond /\ Ends
    OBVIOUS
<1>3. Trace[p + 1] = State(s ++ y, a ++ x, <<>>)
    BY <1>1, NoneOn, RunFromAlt, Grows
<1>4. Trace[p + 2] = State(s ++ y ++ x, a, <<>>)
    BY <1>1, <1>3, NoneOn, RunFromAlt, Grows
<1>5. Num(y.n + x.n) \in Elements /\ Num(count * (Radix - 1)) \in Elements
    BY NumberIs DEF Elements, Radix
<1>6. Trace[p + 3] = State(s ++ Num(y.n + x.n), a, <<>>)
    BY <1>1, <1>5, <1>4, NoneOn, RunAdd, Grows
<1>7. Trace[p + 4] = State(s ++ Num(y.n + x.n) ++ Num(count * (Radix - 1)), a, <<>>)
    BY <1>1, <1>5, <1>6, NoneOn, RunPush, Grows
<1>8. (Num(y.n + x.n) = Num(count * (Radix - 1))) /\ Trace[p + 5] = State(s, a, <<>>)
  <2>1. IF Num(y.n + x.n) = Num(count * (Radix - 1))
        THEN Trace[p + 5] = State(s, a, <<>>) ELSE Rejected(p + 5)
      BY <1>1, <1>5, <1>7, NoneOn, RunEqual, Grows
  <2>2. CASE ~Rejected(p + 5)
    <3>1. p + 5 \in 1 .. Len(Script) + 1 /\ p + 5 \in p + 5 .. Len(Script) + 1
        BY <1>1
    <3>2. ~Rejected(p + 5)
        BY <1>1, <2>2, <3>1, RejectedStays
    <3> QED BY <2>1, <3>2
  <2>3. CASE Cond
    <3>1. Num(y.n + x.n) = Num(count * (Radix - 1))
        BY <2>3
    <3> QED BY <2>1, <3>1
  <2> QED BY <2>2, <2>3, <1>2
<1> QED BY <1>8, <1>8

-----------------------------------------------------------------------------
(* The branches of the blocks that hash or choose.                         *)
BitImage(j, x) == Image(j, IF IsTrue(x) THEN 1 ELSE 0)

(* A branch is taken or not.                                               *)
LEMMA BranchIs ==
    ASSUME NEW s \in Stacks, NEW a, NEW x
    PROVE  /\ IsTrue(x) => State(s, a, <<IsTrue(x)>>) = State(s, a, <<TRUE>>)
           /\ ~IsTrue(x) => State(s, a, <<IsTrue(x)>>) = State(s, a, <<FALSE>>)
<1>1. IsTrue(x) \in BOOLEAN
    BY DEF IsTrue
<1> DEFINE e == IsTrue(x)
<1>2. e \in BOOLEAN
    BY <1>1
<1> HIDE DEF e
<1>3. (e => e = TRUE) /\ (~e => e = FALSE)
    BY <1>2
<1>4. /\ e => State(s, a, <<e>>) = State(s, a, <<TRUE>>)
      /\ ~e => State(s, a, <<e>>) = State(s, a, <<FALSE>>)
    BY <1>3
<1> QED BY <1>4 DEF e

(* The chain below the digit is hashed on as long as the digit is small.   *)
LEMMA HashBelowRuns ==
    ASSUME NEW p, NEW s \in Stacks, NEW v \in Elements, NEW x \in Elements, NEW a,
           x.kind = "num", NEW t \in Int,
           Block(p, HashBelow(t)),
           Trace[p] = State(s ++ v ++ x, a, <<>>)
    PROVE  Trace[p + 8] = State(s ++ (IF x.n <= t THEN Sha256Of(v) ELSE v) ++ x, a, <<>>)
<1>1. /\ p \in Nat \ {0} /\ Len(Script) \in Nat /\ p + 7 <= Len(Script)
      /\ Reads(p, "DUP")
      /\ Reads(p + 1, "PUSH") /\ Script[p + 1].arg = Num(t)
      /\ Reads(p + 2, "LESSTHANOREQUAL")
      /\ Reads(p + 3, "IF")
      /\ Reads(p + 4, "SWAP")
      /\ Reads(p + 5, "SHA256")
      /\ Reads(p + 6, "SWAP")
      /\ Reads(p + 7, "ENDIF")
  <2> DEFINE code == HashBelow(t)
  <2>1. /\ Len(code) = 8
        /\ code[1] = Op("DUP")
        /\ code[2] = PushNum(t)
        /\ code[3] = Op("LESSTHANOREQUAL")
        /\ code[4] = Op("IF")
        /\ code[5] = Op("SWAP")
        /\ code[6] = Op("SHA256")
        /\ code[7] = Op("SWAP")
        /\ code[8] = Op("ENDIF")
      BY DEF HashBelow
  <2>2. /\ Op("DUP").op = "DUP" /\ Op("ENDIF").op = "ENDIF" /\ Op("IF").op = "IF"
        /\ Op("LESSTHANOREQUAL").op = "LESSTHANOREQUAL" /\ Op("SHA256").op = "SHA256"
           /\ Op("SWAP").op = "SWAP"
      BY OpIs DEF Plain
  <2>7. Block(p, code)
      OBVIOUS
  <2> HIDE DEF code
  <2>3. /\ p \in Nat \ {0} /\ Len(Script) \in Nat /\ p + 7 <= Len(Script)
        /\ \A k \in 1 .. 8 : Script[p + k - 1] = code[k]
      BY <2>1, <2>7 DEF Block
  <2>4. PushNum(t).op = "PUSH" /\ PushNum(t).arg = Num(t)
      BY PushNumIs, PushIs
  <2>9. /\ Script[p] = code[1]
        /\ Script[p + 1] = code[2]
        /\ Script[p + 2] = code[3]
        /\ Script[p + 3] = code[4]
        /\ Script[p + 4] = code[5]
        /\ Script[p + 5] = code[6]
        /\ Script[p + 6] = code[7]
        /\ Script[p + 7] = code[8]
      BY ONLY <2>3
  <2>5. /\ Script[p] = Op("DUP")
        /\ Script[p + 1] = PushNum(t)
        /\ Script[p + 2] = Op("LESSTHANOREQUAL")
        /\ Script[p + 3] = Op("IF")
        /\ Script[p + 4] = Op("SWAP")
        /\ Script[p + 5] = Op("SHA256")
        /\ Script[p + 6] = Op("SWAP")
        /\ Script[p + 7] = Op("ENDIF")
      BY ONLY <2>1, <2>9
  <2>8. p \in Nat \ {0} /\ Len(Script) \in Nat /\ p + 7 <= Len(Script)
      BY ONLY <2>3
  <2>6. /\ p \in 1 .. Len(Script)
        /\ p + 1 \in 1 .. Len(Script)
        /\ p + 2 \in 1 .. Len(Script)
        /\ p + 3 \in 1 .. Len(Script)
        /\ p + 4 \in 1 .. Len(Script)
        /\ p + 5 \in 1 .. Len(Script)
        /\ p + 6 \in 1 .. Len(Script)
        /\ p + 7 \in 1 .. Len(Script)
      BY ONLY <2>8
  <2> QED BY ONLY <2>2, <2>3, <2>4, <2>5, <2>6 DEF Reads
<1>2. Sha256Of(v) \in Elements /\ Num(t) \in Elements /\ Truth(x.n <= t) \in Elements
    BY ShaType, NumberIs DEF Truth
<1>3. Trace[p + 1] = State(s ++ v ++ x ++ x, a, <<>>)
    BY <1>1, <1>2, NoneOn, RunDup, Grows
<1>4. Trace[p + 2] = State(s ++ v ++ x ++ x ++ Num(t), a, <<>>)
    BY <1>1, <1>2, <1>3, NoneOn, RunPush, Grows
<1>5. Trace[p + 3] = State(s ++ v ++ x ++ Truth(x.n <= t), a, <<>>)
  <2> DEFINE none == <<>>
  <2> DEFINE r == s ++ v ++ x
  <2> DEFINE y == Num(t)
  <2> DEFINE q == p + 2
  <2>1. /\ Reads(q, "LESSTHANOREQUAL") /\ r \in Stacks /\ x \in Elements /\ y \in Elements
        /\ x.kind = "num" /\ y.kind = "num" /\ y.n = t /\ On(none)
        /\ Trace[q] = State(r ++ x ++ y, a, none)
      BY <1>1, <1>2, <1>4, NumberIs, NoneOn, Grows
  <2>2. q + 1 = p + 3
      BY <1>1
  <2> HIDE DEF none, r, y, q
  <2>3. Trace[q + 1] = State(r ++ Truth(x.n <= y.n), a, none)
      BY ONLY <2>1, RunLess
  <2> QED BY <2>1, <2>2, <2>3 DEF none, r
<1>6. IsTrue(Truth(x.n <= t)) <=> x.n <= t
  <2> DEFINE q == x.n <= t
  <2>1. q \in BOOLEAN
      OBVIOUS
  <2> HIDE DEF q
  <2>2. IsTrue(Truth(q)) <=> q
      BY <2>1, TruthIs
  <2> QED BY <2>2 DEF q
<1>7. Trace[p + 4] = State(s ++ v ++ x, a, <<IsTrue(Truth(x.n <= t))>>)
    BY <1>1, <1>2, <1>5, RunIf, Grows
<1>8. /\ x.n <= t => Trace[p + 4] = State(s ++ v ++ x, a, <<TRUE>>)
      /\ ~(x.n <= t) => Trace[p + 4] = State(s ++ v ++ x, a, <<FALSE>>)
  <2>1. s ++ v ++ x \in Stacks
      BY Grows
  <2> QED BY <1>7, <1>6, <2>1, BranchIs
<1>9. x.n <= t => Trace[p + 8] = State(s ++ Sha256Of(v) ++ x, a, <<>>)
  <2> SUFFICES ASSUME x.n <= t PROVE Trace[p + 8] = State(s ++ Sha256Of(v) ++ x, a, <<>>)
      OBVIOUS
  <2>1. Trace[p + 4] = State(s ++ v ++ x, a, <<TRUE>>)
      BY <1>8
  <2>2. Trace[p + 5] = State(s ++ x ++ v, a, <<TRUE>>)
      BY <1>1, <2>1, TakenOn, RunSwap, Grows
  <2>3. Trace[p + 6] = State(s ++ x ++ Sha256Of(v), a, <<TRUE>>)
      BY <1>1, <2>2, TakenOn, RunSha, Grows
  <2>4. Trace[p + 7] = State(s ++ Sha256Of(v) ++ x, a, <<TRUE>>)
      BY <1>1, <1>2, <2>3, TakenOn, RunSwap, Grows
  <2> QED BY <1>1, <2>4, RunEndIf
<1>10. ~(x.n <= t) => Trace[p + 8] = State(s ++ v ++ x, a, <<>>)
  <2> SUFFICES ASSUME ~(x.n <= t) PROVE Trace[p + 8] = State(s ++ v ++ x, a, <<>>)
      OBVIOUS
  <2>1. Trace[p + 4] = State(s ++ v ++ x, a, <<FALSE>>)
      BY <1>8
  <2>2. Trace[p + 5] = State(s ++ v ++ x, a, <<FALSE>>)
      BY <1>1, <2>1, RunSkip
  <2>3. Trace[p + 6] = State(s ++ v ++ x, a, <<FALSE>>)
      BY <1>1, <2>2, RunSkip
  <2>4. Trace[p + 7] = State(s ++ v ++ x, a, <<FALSE>>)
      BY <1>1, <2>3, RunSkip
  <2> QED BY <1>1, <2>4, RunEndIf
<1> QED BY <1>9, <1>10

(* The value is the preimage of the image that its bit selects.            *)
LEMMA LamportBitRuns ==
    ASSUME NEW p, NEW s \in Stacks, NEW v \in Elements, NEW x \in Elements, NEW a,
           NEW j \in Int,
           Block(p, LamportBit(j)),
           Trace[p] = State(s ++ v ++ x, a, <<>>)
    PROVE  /\ BitImage(j, x) = Sha256Of(v) => Trace[p + 8] = State(s, a, <<>>)
           /\ BitImage(j, x) = Sha256Of(v) \/ Rejected(p + 8)
<1>1. /\ p \in Nat \ {0} /\ Len(Script) \in Nat /\ p + 7 <= Len(Script)
      /\ Reads(p, "IF")
      /\ Reads(p + 1, "PUSH") /\ Script[p + 1].arg = Image(j, 1)
      /\ Reads(p + 2, "ELSE")
      /\ Reads(p + 3, "PUSH") /\ Script[p + 3].arg = Image(j, 0)
      /\ Reads(p + 4, "ENDIF")
      /\ Reads(p + 5, "SWAP")
      /\ Reads(p + 6, "SHA256")
      /\ Reads(p + 7, "EQUALVERIFY")
  <2> DEFINE code == LamportBit(j)
  <2>1. /\ Len(code) = 8
        /\ code[1] = Op("IF")
        /\ code[2] = Push(Image(j, 1))
        /\ code[3] = Op("ELSE")
        /\ code[4] = Push(Image(j, 0))
        /\ code[5] = Op("ENDIF")
        /\ code[6] = Op("SWAP")
        /\ code[7] = Op("SHA256")
        /\ code[8] = Op("EQUALVERIFY")
      BY DEF LamportBit
  <2>2. /\ Op("ELSE").op = "ELSE" /\ Op("ENDIF").op = "ENDIF"
           /\ Op("EQUALVERIFY").op = "EQUALVERIFY"
        /\ Op("IF").op = "IF" /\ Op("SHA256").op = "SHA256" /\ Op("SWAP").op = "SWAP"
      BY OpIs DEF Plain
  <2>7. Block(p, code)
      OBVIOUS
  <2> HIDE DEF code
  <2>3. /\ p \in Nat \ {0} /\ Len(Script) \in Nat /\ p + 7 <= Len(Script)
        /\ \A k \in 1 .. 8 : Script[p + k - 1] = code[k]
      BY <2>1, <2>7 DEF Block
  <2>4. /\ Push(Image(j, 1)).op = "PUSH" /\ Push(Image(j, 1)).arg = Image(j, 1)
        /\ Push(Image(j, 0)).op = "PUSH" /\ Push(Image(j, 0)).arg = Image(j, 0)
      BY PushNumIs, PushIs, CandidateElements
  <2>9. /\ Script[p] = code[1]
        /\ Script[p + 1] = code[2]
        /\ Script[p + 2] = code[3]
        /\ Script[p + 3] = code[4]
        /\ Script[p + 4] = code[5]
        /\ Script[p + 5] = code[6]
        /\ Script[p + 6] = code[7]
        /\ Script[p + 7] = code[8]
      BY ONLY <2>3
  <2>5. /\ Script[p] = Op("IF")
        /\ Script[p + 1] = Push(Image(j, 1))
        /\ Script[p + 2] = Op("ELSE")
        /\ Script[p + 3] = Push(Image(j, 0))
        /\ Script[p + 4] = Op("ENDIF")
        /\ Script[p + 5] = Op("SWAP")
        /\ Script[p + 6] = Op("SHA256")
        /\ Script[p + 7] = Op("EQUALVERIFY")
      BY ONLY <2>1, <2>9
  <2>8. p \in Nat \ {0} /\ Len(Script) \in Nat /\ p + 7 <= Len(Script)
      BY ONLY <2>3
  <2>6. /\ p \in 1 .. Len(Script)
        /\ p + 1 \in 1 .. Len(Script)
        /\ p + 2 \in 1 .. Len(Script)
        /\ p + 3 \in 1 .. Len(Script)
        /\ p + 4 \in 1 .. Len(Script)
        /\ p + 5 \in 1 .. Len(Script)
        /\ p + 6 \in 1 .. Len(Script)
        /\ p + 7 \in 1 .. Len(Script)
      BY ONLY <2>8
  <2> QED BY ONLY <2>2, <2>3, <2>4, <2>5, <2>6 DEF Reads
<1> DEFINE Cond == BitImage(j, x) = Sha256Of(v)
<1> DEFINE Ends == Trace[p + 8] = State(s, a, <<>>)
<1>2. SUFFICES ASSUME Cond \/ ~Rejected(p + 8) PROVE Cond /\ Ends
    OBVIOUS
<1>3. /\ Sha256Of(v) \in Elements
      /\ BitImage(j, x) \in Elements
      /\ Image(j, 1) \in Elements
      /\ Image(j, 0) \in Elements
    BY ShaType, CandidateElements DEF BitImage
<1>4. Trace[p + 1] = State(s ++ v, a, <<IsTrue(x)>>)
    BY <1>1, RunIf, Grows
<1>5. /\ IsTrue(x) => Trace[p + 1] = State(s ++ v, a, <<TRUE>>)
      /\ ~IsTrue(x) => Trace[p + 1] = State(s ++ v, a, <<FALSE>>)
  <2>1. s ++ v \in Stacks
      BY Grows
  <2> QED BY <1>4, <2>1, BranchIs
<1>6. IsTrue(x) => Trace[p + 5] = State(s ++ v ++ Image(j, 1), a, <<>>)
  <2> SUFFICES ASSUME IsTrue(x) PROVE Trace[p + 5] = State(s ++ v ++ Image(j, 1), a, <<>>)
      OBVIOUS
  <2>1. Trace[p + 1] = State(s ++ v, a, <<TRUE>>)
      BY <1>5
  <2>2. Trace[p + 2] = State(s ++ v ++ Image(j, 1), a, <<TRUE>>)
    <3>1. /\ Reads(p + 1, "PUSH") /\ s ++ v \in Stacks /\ Image(j, 1) \in Elements
          /\ Script[p + 1].arg = Image(j, 1) /\ (p + 1) + 1 = p + 2
        BY <1>1, <1>3, Grows
    <3>2. Trace[(p + 1) + 1] = State(s ++ v ++ Image(j, 1), a, <<TRUE>>)
        BY ONLY <2>1, <3>1, TakenOn, RunPush
    <3> QED BY ONLY <3>1, <3>2
  <2>3. Trace[p + 3] = State(s ++ v ++ Image(j, 1), a, <<FALSE>>)
    <3> DEFINE e == TRUE
    <3> DEFINE q == p + 2
    <3>3. (~e) = FALSE /\ q + 1 = p + 3 /\ Reads(q, "ELSE")
        BY <1>1
    <3>1. e \in BOOLEAN /\ Trace[q] = State(s ++ v ++ Image(j, 1), a, <<e>>)
        BY <2>2
    <3> HIDE DEF e, q
    <3>2. Trace[q + 1] = State(s ++ v ++ Image(j, 1), a, <<~e>>)
        BY <3>1, <3>3, RunElse
    <3> QED BY ONLY <3>2, <3>3
  <2>4. Trace[p + 4] = State(s ++ v ++ Image(j, 1), a, <<FALSE>>)
      BY <1>1, <2>3, RunSkip
  <2> QED BY <1>1, <2>4, RunEndIf
<1>7. ~IsTrue(x) => Trace[p + 5] = State(s ++ v ++ Image(j, 0), a, <<>>)
  <2> SUFFICES ASSUME ~IsTrue(x) PROVE Trace[p + 5] = State(s ++ v ++ Image(j, 0), a, <<>>)
      OBVIOUS
  <2>1. Trace[p + 1] = State(s ++ v, a, <<FALSE>>)
      BY <1>5
  <2>2. Trace[p + 2] = State(s ++ v, a, <<FALSE>>)
      BY <1>1, <2>1, RunSkip
  <2>3. Trace[p + 3] = State(s ++ v, a, <<TRUE>>)
    <3> DEFINE e == FALSE
    <3> DEFINE q == p + 2
    <3>3. (~e) = TRUE /\ q + 1 = p + 3 /\ Reads(q, "ELSE")
        BY <1>1
    <3>1. e \in BOOLEAN /\ Trace[q] = State(s ++ v, a, <<e>>)
        BY <2>2
    <3> HIDE DEF e, q
    <3>2. Trace[q + 1] = State(s ++ v, a, <<~e>>)
        BY <3>1, <3>3, RunElse
    <3> QED BY ONLY <3>2, <3>3
  <2>4. Trace[p + 4] = State(s ++ v ++ Image(j, 0), a, <<TRUE>>)
    <3>1. /\ Reads(p + 3, "PUSH") /\ s ++ v \in Stacks /\ Image(j, 0) \in Elements
          /\ Script[p + 3].arg = Image(j, 0) /\ (p + 3) + 1 = p + 4
        BY <1>1, <1>3, Grows
    <3>2. Trace[(p + 3) + 1] = State(s ++ v ++ Image(j, 0), a, <<TRUE>>)
        BY ONLY <2>3, <3>1, TakenOn, RunPush
    <3> QED BY ONLY <3>1, <3>2
  <2> QED BY <1>1, <2>4, RunEndIf
<1>8. Trace[p + 5] = State(s ++ v ++ BitImage(j, x), a, <<>>)
    BY <1>6, <1>7 DEF BitImage
<1>9. Trace[p + 6] = State(s ++ BitImage(j, x) ++ v, a, <<>>)
  <2>1. /\ Reads(p + 5, "SWAP") /\ v \in Elements /\ BitImage(j, x) \in Elements
        /\ s \in Stacks /\ (p + 5) + 1 = p + 6
      BY <1>1, <1>3
  <2>2. Trace[(p + 5) + 1] = State(s ++ BitImage(j, x) ++ v, a, <<>>)
      BY ONLY <1>8, <2>1, NoneOn, RunSwap
  <2> QED BY ONLY <2>1, <2>2
<1>10. Trace[p + 7] = State(s ++ BitImage(j, x) ++ Sha256Of(v), a, <<>>)
  <2>1. /\ Reads(p + 6, "SHA256") /\ v \in Elements /\ s ++ BitImage(j, x) \in Stacks
        /\ (p + 6) + 1 = p + 7
      BY <1>1, <1>3, Grows
  <2>2. Trace[(p + 6) + 1] = State(s ++ BitImage(j, x) ++ Sha256Of(v), a, <<>>)
      BY ONLY <1>9, <2>1, NoneOn, RunSha
  <2> QED BY ONLY <2>1, <2>2
<1>11. (BitImage(j, x) = Sha256Of(v)) /\ Trace[p + 8] = State(s, a, <<>>)
  <2>1. IF BitImage(j, x) = Sha256Of(v)
        THEN Trace[p + 8] = State(s, a, <<>>) ELSE Rejected(p + 8)
      BY <1>1, <1>3, <1>10, NoneOn, RunEqual, Grows
  <2>2. CASE ~Rejected(p + 8)
    <3>1. p + 8 \in 1 .. Len(Script) + 1 /\ p + 8 \in p + 8 .. Len(Script) + 1
        BY <1>1
    <3>2. ~Rejected(p + 8)
        BY <1>1, <2>2, <3>1, RejectedStays
    <3> QED BY <2>1, <3>2
  <2>3. CASE Cond
    <3>1. BitImage(j, x) = Sha256Of(v)
        BY <2>3
    <3> QED BY <2>1, <3>1
  <2> QED BY <2>2, <2>3, <1>2
<1> QED BY <1>11, <1>11

-----------------------------------------------------------------------------
(* Blocks that leave the states S or reject, one after another: those in G *)
(* pass.                                                                   *)
Leads(s, S, G) ==
    \A k \in 1 .. Len(s) : \A q : Block(q, s[k]) /\ Trace[q] = S[k - 1] =>
        IF k \in G THEN Trace[q + Len(s[k])] = S[k] ELSE Rejected(q + Len(s[k]))

(* A sequence of codes runs from state to state, or is rejected at the     *)
(* first that does not let it pass.                                        *)
LEMMA BlocksRun ==
    ASSUME NEW p, NEW s \in Seq(Codes), NEW S, NEW G, Block(p, FlattenSeq(s)), Leads(s, S, G),
           Trace[p] = S[0]
    PROVE  IF 1 .. Len(s) \subseteq G
           THEN Trace[p + Len(FlattenSeq(s))] = S[Len(s)]
           ELSE Rejected(p + Len(FlattenSeq(s)))
<1> DEFINE Site(k) == p + Len(Joined(s, k))
<1>1. /\ Len(Joined(s, 0)) = 0
      /\ \A k \in 1 .. Len(s) :
            /\ Block(p + Len(Joined(s, k - 1)), s[k])
            /\ Len(Joined(s, k)) = Len(Joined(s, k - 1)) + Len(s[k])
            /\ Len(Joined(s, k - 1)) \in Nat
    BY JoinedBlocks
<1>2. p \in Nat \ {0} /\ Len(Script) \in Nat /\ Len(s) \in Nat
    BY LenProperties DEF Block
<1>3. Joined(s, Len(s)) = FlattenSeq(s)
  <2>1. s \in Seq(Seq(Instructions))
      BY DEF Codes
  <2> QED BY <2>1, JoinedIs
<1>4. /\ Site(0) = p
      /\ \A k \in 1 .. Len(s) : Block(Site(k - 1), s[k]) /\ Site(k) = Site(k - 1) + Len(s[k])
  <2>1. Site(0) = p
      BY <1>1, <1>2
  <2>2. ASSUME NEW k \in 1 .. Len(s)
        PROVE  Block(Site(k - 1), s[k]) /\ Site(k) = Site(k - 1) + Len(s[k])
    <3>1. /\ Block(p + Len(Joined(s, k - 1)), s[k])
          /\ Len(Joined(s, k)) = Len(Joined(s, k - 1)) + Len(s[k])
          /\ Len(Joined(s, k - 1)) \in Nat
        BY <1>1
    <3>2. Len(s[k]) \in Nat
      <4>1. s[k] \in Seq(Instructions)
          BY ElementOfSeq DEF Codes
      <4> QED BY <4>1, LenProperties
    <3> DEFINE a == Len(Joined(s, k - 1))
    <3> DEFINE b == Len(s[k])
    <3>3. a \in Nat /\ b \in Nat /\ p \in Nat /\ Len(Joined(s, k)) = a + b
        BY <1>2, <3>1, <3>2
    <3> HIDE DEF a, b
    <3>4. p + Len(Joined(s, k)) = (p + a) + b
        BY ONLY <3>3
    <3> QED BY <3>1, <3>4 DEF a, b
  <2> QED BY <2>1, <2>2
<1>5. Site(Len(s)) = p + Len(FlattenSeq(s))
    BY <1>3
<1> HIDE DEF Site
<1> DEFINE Good(k) == IF 1 .. k \subseteq G THEN Trace[Site(k)] = S[k] ELSE Rejected(Site(k))
<1>6. Good(0)
    BY <1>4
<1>7. ASSUME NEW k \in 1 .. Len(s), Good(k - 1)
      PROVE  Good(k)
  <2>1. Block(Site(k - 1), s[k]) /\ Site(k) = Site(k - 1) + Len(s[k])
      BY <1>4
  <2>2. CASE 1 .. k - 1 \subseteq G
    <3>1. Trace[Site(k - 1)] = S[k - 1]
        BY <1>7, <2>2
    <3>2. IF k \in G THEN Trace[Site(k)] = S[k] ELSE Rejected(Site(k))
        BY <2>1, <3>1 DEF Leads
    <3>3. 1 .. k \subseteq G <=> k \in G
      <4>1. k \in 1 .. k /\ \A i \in 1 .. k : i = k \/ i \in 1 .. k - 1
          BY <1>2
      <4> QED BY <2>2, <4>1
    <3> QED BY <3>2, <3>3
  <2>3. CASE ~(1 .. k - 1 \subseteq G)
    <3>1. Rejected(Site(k - 1))
        BY <1>7, <2>3
    <3> DEFINE a == Site(k - 1)
    <3> DEFINE b == Site(k)
    <3>2. a \in 1 .. Len(Script) + 1 /\ b \in a .. Len(Script) + 1
      <4>1. a \in Nat \ {0} /\ a + Len(s[k]) - 1 <= Len(Script) /\ b = a + Len(s[k])
          BY <2>1 DEF Block
      <4>2. Len(s[k]) \in Nat
        <5>1. s[k] \in Seq(Instructions)
            BY ElementOfSeq DEF Codes
        <5> QED BY <5>1, LenProperties
      <4> HIDE DEF a, b
      <4> QED BY <1>2, <4>1, <4>2
    <3>3. Rejected(a) /\ Len(Script) \in Nat
        BY <1>2, <3>1
    <3> HIDE DEF a, b
    <3>4. Rejected(b)
        BY <3>2, <3>3, RejectedStays
    <3>5. ~(1 .. k \subseteq G)
      <4>1. 1 .. k - 1 \subseteq 1 .. k
          BY <1>2
      <4> QED BY <2>3, <4>1
    <3> QED BY <3>4, <3>5 DEF b
  <2> QED BY <2>2, <2>3
<1>8. \A k \in 0 .. Len(s) : Good(k)
  <2> DEFINE Bad == {k \in 0 .. Len(s) : ~Good(k)}
  <2> HIDE DEF Good
  <2> SUFFICES ASSUME Bad # {} PROVE FALSE
      OBVIOUS
  <2>1. Bad \in SUBSET Nat
      BY <1>2
  <2>2. PICK k \in Bad : \A i \in Bad : k <= i
    <3> HIDE DEF Bad
    <3> QED BY <2>1, LeastMember
  <2>3. k # 0 /\ k \in 1 .. Len(s) /\ k - 1 \in 0 .. Len(s) /\ ~(k <= k - 1)
      BY <1>2, <1>6, <2>2
  <2>4. Good(k - 1)
      BY <2>2, <2>3
  <2> QED BY <1>7, <2>2, <2>3, <2>4
<1>9. Good(Len(s))
    BY <1>2, <1>8
<1> QED BY <1>5, <1>9

(* What is left of the stack after k values and their digits.              *)
Rest(k) == SubSeq(witness, 1, Len(witness) - 2 * k)

(* What k places leave of the witness.                                     *)
LEMMA RestIs ==
    ASSUME witness \in Stacks, NEW k \in Nat \ {0}, 2 * k <= Len(witness)
    PROVE  /\ Rest(k) \in Stacks /\ SuppliedValue(k) \in Elements /\ SuppliedDigit(k) \in Elements
           /\ Rest(k - 1) = Rest(k) ++ SuppliedValue(k) ++ SuppliedDigit(k)
<1> DEFINE n == Len(witness)
<1> DEFINE i == n - 2 * k
<1>1. n \in Nat /\ witness \in Seq(Elements) /\ \A j \in 1 .. n : witness[j] \in Elements
    BY LenProperties, ElementOfSeq DEF Stacks
<1>2. /\ i \in 0 .. n /\ i + 1 \in 1 .. n /\ i + 2 \in 1 .. n /\ i + 1 \in 0 .. n
      /\ (i + 2) - 1 = i + 1 /\ (i + 1) - 1 = i
      /\ n - 2 * (k - 1) = i + 2 /\ n - 2 * (k - 1) - 1 = i + 1
  <2>1. n \in Nat /\ 2 * k <= n /\ k \in Nat \ {0}
      BY <1>1
  <2> HIDE DEF n
  <2> QED BY ONLY <2>1
<1>3. witness[i + 1] = SuppliedValue(k) /\ witness[i + 2] = SuppliedDigit(k)
    BY <1>2 DEF SuppliedValue, SuppliedDigit
<1>4. /\ SubSeq(witness, 1, i + 2) = SubSeq(witness, 1, i + 1) ++ witness[i + 2]
      /\ SubSeq(witness, 1, i + 1) = SubSeq(witness, 1, i) ++ witness[i + 1]
      /\ SubSeq(witness, 1, i) \in Seq(Elements)
  <2> HIDE DEF n, i
  <2>1. \A j \in 1 .. i : witness[j] \in Elements
    <3>1. \A j \in 1 .. i : j \in 1 .. n
        BY <1>1, <1>2
    <3> QED BY <1>1, <3>1
  <2>2. SubSeq(witness, 1, i) \in Seq(Elements)
      BY <1>1, <1>2, <2>1, SubSeqProperties
  <2>3. ASSUME NEW m \in 1 .. n
        PROVE  SubSeq(witness, 1, m) = SubSeq(witness, 1, m - 1) ++ witness[m]
    <3>1. m - 1 \in 0 .. n /\ m \in 0 .. n
        BY <1>1
    <3>2. /\ Len(SubSeq(witness, 1, m)) = m /\ Len(SubSeq(witness, 1, m - 1)) = m - 1
          /\ SubSeq(witness, 1, m) \in Seq(Elements) /\ SubSeq(witness, 1, m - 1) \in Seq(Elements)
          /\ \A j \in 1 .. m : SubSeq(witness, 1, m)[j] = witness[j]
          /\ \A j \in 1 .. m - 1 : SubSeq(witness, 1, m - 1)[j] = witness[j]
      <4>1. /\ \A j \in 1 .. m : witness[j] \in Elements
            /\ \A j \in 1 .. m - 1 : witness[j] \in Elements
        <5>1. \A j \in 1 .. m : j \in 1 .. n
            BY <1>1
        <5>2. \A j \in 1 .. m - 1 : j \in 1 .. n
            BY <1>1
        <5> QED BY <1>1, <5>1, <5>2
      <4> QED BY <1>1, <3>1, <4>1, SubSeqProperties
    <3> DEFINE u == SubSeq(witness, 1, m - 1)
    <3> DEFINE v == SubSeq(witness, 1, m)
    <3>3. /\ u \in Stacks /\ witness[m] \in Elements /\ Len(u) = m - 1
          /\ v \in Seq(Elements) /\ Len(v) = m
          /\ \A j \in 1 .. m : v[j] = witness[j]
          /\ \A j \in 1 .. m - 1 : u[j] = witness[j]
        BY <1>1, <3>2 DEF Stacks
    <3> HIDE DEF u, v
    <3> DEFINE y == u ++ witness[m]
    <3>4. /\ y \in Seq(Elements) /\ Len(y) = m /\ y[m] = witness[m]
          /\ \A j \in 1 .. m - 1 : y[j] = u[j]
      <4>1. /\ y \in Stacks /\ Len(y) = Len(u) + 1 /\ y[Len(u) + 1] = witness[m]
            /\ \A j \in 1 .. Len(u) : y[j] = u[j]
          BY <3>3, Pushed
      <4> HIDE DEF y
      <4> QED BY <3>1, <3>3, <4>1 DEF Stacks
    <3> HIDE DEF y
    <3>5. \A j \in 1 .. m : v[j] = y[j]
      <4> TAKE j \in 1 .. m
      <4>1. j = m \/ j \in 1 .. m - 1
          BY <3>1
      <4> QED BY <3>3, <3>4, <4>1
    <3>6. v = y
        BY <3>3, <3>4, <3>5, SeqEqual
    <3> QED BY <3>6 DEF u, v, y
  <2> QED BY <1>2, <2>2, <2>3
<1> QED BY <1>1, <1>2, <1>3, <1>4 DEF Rest, Stacks

(* No place leaves all of it, all places the key.                          *)
LEMMA RestStarts ==
    ASSUME witness \in Stacks
    PROVE  /\ Rest(0) = witness
           /\ \A k \in Nat : Len(witness) = 2 * k + 1 =>
                 witness[1] \in Elements /\ Rest(k) = <<>> ++ witness[1]
<1>1. Len(witness) \in Nat /\ witness \in Seq(Elements)
      /\ \A j \in 1 .. Len(witness) : witness[j] \in Elements
    BY LenProperties, ElementOfSeq DEF Stacks
<1>2. Rest(0) = witness
  <2>1. Len(witness) - 2 * 0 = Len(witness)
      BY <1>1
  <2>2. SubSeq(witness, 1, Len(witness)) = witness
    <3> DEFINE v == SubSeq(witness, 1, Len(witness))
    <3>1. v \in Seq(Elements) /\ Len(v) = Len(witness)
          /\ \A j \in 1 .. Len(witness) : v[j] = witness[j]
        BY <1>1, SubSeqProperties
    <3> HIDE DEF v
    <3>2. v = witness
        BY <1>1, <3>1, SeqEqual
    <3> QED BY <3>2 DEF v
  <2> QED BY <2>1, <2>2 DEF Rest
<1>3. ASSUME NEW k \in Nat, Len(witness) = 2 * k + 1
      PROVE  witness[1] \in Elements /\ Rest(k) = <<>> ++ witness[1]
  <2>1. Len(witness) - 2 * k = 1 /\ 1 \in 1 .. Len(witness)
      BY <1>1, <1>3
  <2>2. witness[1] \in Elements
      BY <1>1, <2>1
  <2> DEFINE v == SubSeq(witness, 1, 1)
  <2> DEFINE y == <<>> ++ witness[1]
  <2>3. v \in Seq(Elements) /\ Len(v) = 1 /\ v[1] = witness[1]
      BY <1>1, <2>1, <2>2, SubSeqProperties
  <2>4. y \in Seq(Elements) /\ Len(y) = 1 /\ y[1] = witness[1]
    <3> DEFINE none == <<>>
    <3> DEFINE x == witness[1]
    <3>1. none \in Stacks /\ Len(none) = 0 /\ x \in Elements /\ y = none ++ x
        BY <2>2 DEF Stacks
    <3> HIDE DEF none, x, y
    <3>2. none ++ x \in Stacks /\ Len(none ++ x) = 0 + 1 /\ (none ++ x)[0 + 1] = x
        BY ONLY <3>1, Pushed
    <3> QED BY <3>1, <3>2 DEF Stacks, x
  <2> HIDE DEF v, y
  <2>5. v = y
      BY <2>3, <2>4, SeqEqual
  <2> QED BY <2>1, <2>2, <2>5 DEF v, y, Rest
<1> QED BY <1>2, <1>3

-----------------------------------------------------------------------------
(* What hashes to what.                                                    *)
LEMMA ShaIs ==
    ASSUME NEW v \in Elements, NEW j \in Int, NEW n \in Int
    PROVE  /\ Sha256Of(v) = Image(j, n) <=> v = Secret(j, n)
           /\ Sha256Of(v) = Link(j, n) <=> v = Link(j, n - 1)
           /\ Sha256Of(v) = KeyImage(n) <=> v = Key(n, {})
<1>1. /\ {j} \in SUBSET Int /\ {} \in SUBSET Int /\ n - 1 \in Int
      /\ "image" \in Kinds /\ "secret" \in Kinds /\ "link" \in Kinds /\ "keyimage" \in Kinds
      /\ "key" \in Kinds
    BY DEF Kinds
<1>2. v.kind \in Kinds /\ v.n \in Int /\ v.s \in SUBSET Int
    BY DEF Elements
<1>3. /\ Image(j, n) = Element("image", n, {j}) /\ Secret(j, n) = Element("secret", n, {j})
      /\ Link(j, n) = Element("link", n, {j}) /\ Link(j, n - 1) = Element("link", n - 1, {j})
      /\ KeyImage(n) = Element("keyimage", n, {}) /\ Key(n, {}) = Element("key", n, {})
    BY DEF Image, Secret, Link, KeyImage, Key
<1>4. \A k \in Kinds, i \in Int, d \in SUBSET Int :
         /\ Element(k, i, d).kind = k /\ Element(k, i, d).n = i /\ Element(k, i, d).s = d
         /\ v.kind = k /\ v.n = i /\ v.s = d => v = Element(k, i, d)
    BY ElementIs
<1>5. CASE v.kind = "link"
  <2>1. Sha256Of(v) = Element("link", v.n + 1, v.s)
      BY <1>5 DEF Sha256Of, Element, Elements
  <2>2. v.n + 1 \in Int /\ (v.n + 1 = n <=> v.n = n - 1)
      BY <1>2
  <2> QED BY <1>1, <1>2, <1>3, <1>4, <1>5, <2>1, <2>2
<1>6. CASE v.kind = "key" /\ v.s = {}
  <2>1. Sha256Of(v) = Element("keyimage", v.n, {})
      BY <1>6 DEF Sha256Of, KeyImage
  <2> QED BY <1>1, <1>2, <1>3, <1>4, <1>6, <2>1
<1>7. CASE v.kind = "secret"
  <2>1. Sha256Of(v) = Element("image", v.n, v.s)
      BY <1>7 DEF Sha256Of, Element, Elements
  <2> QED BY <1>1, <1>2, <1>3, <1>4, <1>7, <2>1
<1>8. CASE v.kind # "link" /\ ~(v.kind = "key" /\ v.s = {}) /\ v.kind # "secret"
  <2>1. Sha256Of(v) = Junk
      BY <1>8 DEF Sha256Of
  <2>2. Junk.kind = "junk"
      BY Constants
  <2> QED BY <1>1, <1>2, <1>3, <1>4, <1>8, <2>1, <2>2
<1> QED BY <1>5, <1>6, <1>7, <1>8

(* The values of different places differ.                                  *)
LEMMA PlacesDiffer ==
    ASSUME NEW j \in Int, NEW k \in Int, NEW m \in Int, NEW n \in Int
    PROVE  /\ Secret(j, m) = Secret(k, n) => j = k /\ m = n
           /\ Link(j, m) = Link(k, n) => j = k /\ m = n
           /\ Secret(j, m) # Link(k, n)
           /\ \A e : e.kind \notin {"secret", "link"} => e # Secret(j, m) /\ e # Link(j, m)
<1>1. {j} \in SUBSET Int /\ {k} \in SUBSET Int /\ ({j} = {k} => j = k)
    OBVIOUS
<1>2. "secret" \in Kinds /\ "link" \in Kinds
    BY DEF Kinds
<1>3. /\ Secret(j, m).kind = "secret" /\ Secret(j, m).n = m /\ Secret(j, m).s = {j}
      /\ Link(j, m).kind = "link" /\ Link(j, m).n = m /\ Link(j, m).s = {j}
    BY <1>1, <1>2, ElementIs DEF Secret, Link
<1>4. /\ Secret(k, n).kind = "secret" /\ Secret(k, n).n = n /\ Secret(k, n).s = {k}
      /\ Link(k, n).kind = "link" /\ Link(k, n).n = n /\ Link(k, n).s = {k}
    BY <1>1, <1>2, ElementIs DEF Secret, Link
<1> QED BY <1>1, <1>3, <1>4

-----------------------------------------------------------------------------
(* The code of the candidates.                                             *)
LEMMA CandidateCodes ==
    ASSUME NEW j \in Int, NEW t \in Int
    PROVE  /\ LamportBit(j) \in Codes /\ Len(LamportBit(j)) = 8
           /\ Check \in Codes /\ Len(Check) = 4
           /\ WholeKey \in Codes /\ Len(WholeKey) = 4
           /\ StartSum \in Codes /\ Len(StartSum) = 2
           /\ InRange \in Codes /\ Len(InRange) = 5
           /\ AddDigit \in Codes /\ Len(AddDigit) = 4
           /\ HornerStep \in Codes /\ Len(HornerStep) = 8
           /\ HashBelow(t) \in Codes /\ Len(HashBelow(t)) = 8
           /\ Total(t) \in Codes /\ Len(Total(t)) = 5
<1>1. /\ Op("IF") \in Instructions /\ Op("ELSE") \in Instructions /\ Op("ENDIF") \in Instructions
      /\ Op("SWAP") \in Instructions /\ Op("SHA256") \in Instructions
      /\ Op("EQUALVERIFY") \in Instructions /\ Op("DUP") \in Instructions
      /\ Op("CODESEPARATOR") \in Instructions /\ Op("CHECKSIG") \in Instructions
    BY OpIs DEF Plain
<1>2. /\ Op("TOALT") \in Instructions /\ Op("FROMALT") \in Instructions
      /\ Op("ADD") \in Instructions /\ Op("OVER") \in Instructions /\ Op("WITHIN") \in Instructions
      /\ Op("VERIFY") \in Instructions /\ Op("LESSTHANOREQUAL") \in Instructions
    BY OpIs DEF Plain
<1>3. /\ Push(Image(j, 1)) \in Instructions /\ Push(Image(j, 0)) \in Instructions
      /\ Push(Fixed) \in Instructions /\ Push(KeyImage(Committed)) \in Instructions
    BY PushIs, Constants, CandidateElements DEF Committed
<1>4. /\ PushNum(0) \in Instructions /\ PushNum(Radix) \in Instructions
      /\ PushNum(t) \in Instructions /\ PushNum(t * (Radix - 1)) \in Instructions
    BY PushNumIs DEF Radix
<1>5. LamportBit(j) \in Codes /\ Len(LamportBit(j)) = 8
    BY <1>1, <1>3 DEF LamportBit, Codes
<1>6. Check \in Codes /\ Len(Check) = 4
    BY <1>1, <1>3 DEF Check, Codes
<1>7. WholeKey \in Codes /\ Len(WholeKey) = 4
    BY <1>1, <1>3 DEF WholeKey, Codes
<1>8. StartSum \in Codes /\ Len(StartSum) = 2
    BY <1>2, <1>4 DEF StartSum, Codes
<1>9. InRange \in Codes /\ Len(InRange) = 5
    BY <1>1, <1>2, <1>4 DEF InRange, Codes
<1>10. AddDigit \in Codes /\ Len(AddDigit) = 4
    BY <1>1, <1>2 DEF AddDigit, Codes
<1>11. HornerStep \in Codes /\ Len(HornerStep) = 8
    BY <1>1, <1>2 DEF HornerStep, Codes
<1>12. HashBelow(t) \in Codes /\ Len(HashBelow(t)) = 8
    BY <1>1, <1>2, <1>4 DEF HashBelow, Codes
<1>13. Total(t) \in Codes /\ Len(Total(t)) = 5
    BY <1>1, <1>2, <1>4 DEF Total, Codes
<1> QED BY <1>5, <1>6, <1>7, <1>8, <1>9, <1>10, <1>11, <1>12, <1>13

-----------------------------------------------------------------------------
(* What a candidate's spend may know of a one-time key: what the signature *)
(* discloses.                                                              *)
Discloses(e) ==
    \A j \in DOMAIN signed, n \in Int :
        /\ e = Secret(j, n) => n = signed[j]
        /\ e = Link(j, n) => n >= signed[j]
Numeral(e) == e.kind = "num" => e = Num(e.n)
CandidateGiven ==
    /\ signed \in Seq(Nat) /\ witness \in Stacks /\ Len(witness) = 2 * Len(signed) + 1
    /\ \A i \in 1 .. Len(witness) : Discloses(witness[i]) /\ Numeral(witness[i])

(* The values and digits of a candidate's spend.                           *)
LEMMA PlaceIs ==
    ASSUME CandidateGiven, NEW k \in 1 .. Len(signed)
    PROVE  /\ k \in DOMAIN signed /\ signed[k] \in Nat /\ k \in Nat \ {0}
           /\ 2 * k <= Len(witness) /\ Discloses(SuppliedValue(k)) /\ Numeral(SuppliedDigit(k))
           /\ SuppliedValue(k) \in Elements /\ SuppliedDigit(k) \in Elements
           /\ Rest(k) \in Stacks /\ Rest(k - 1) = Rest(k) ++ SuppliedValue(k) ++ SuppliedDigit(k)
<1>1. /\ signed \in Seq(Nat) /\ Len(signed) \in Nat /\ witness \in Stacks
      /\ Len(witness) = 2 * Len(signed) + 1
    BY LenProperties DEF CandidateGiven
<1>2. k \in DOMAIN signed /\ signed[k] \in Nat
    BY <1>1, ElementOfSeq, LenProperties
<1>3. k \in Nat \ {0} /\ 2 * k <= Len(witness)
    BY <1>1
<1>4. Discloses(SuppliedValue(k))
  <2> DEFINE i == Len(witness) - 2 * (k - 1) - 1
  <2>1. i \in 1 .. Len(witness)
      BY <1>1, <1>3
  <2>2. SuppliedValue(k) = witness[i]
      BY DEF SuppliedValue
  <2> HIDE DEF i
  <2> QED BY <2>1, <2>2 DEF CandidateGiven
<1>5. Numeral(SuppliedDigit(k))
  <2> DEFINE i == Len(witness) - 2 * (k - 1)
  <2>1. i \in 1 .. Len(witness)
      BY <1>1, <1>3
  <2>2. SuppliedDigit(k) = witness[i]
      BY DEF SuppliedDigit
  <2> HIDE DEF i
  <2> QED BY <2>1, <2>2 DEF CandidateGiven
<1> QED BY <1>1, <1>2, <1>3, <1>4, <1>5, RestIs

-----------------------------------------------------------------------------
(* A place of a Lamport signature passes when it signs its bit again.      *)
LEMMA LamportPlace ==
    ASSUME CandidateGiven, instance.family = "lamport", NEW k \in 1 .. Len(signed),
           signed[k] \in 0 .. 1
    PROVE  SignsAgain(k) <=>
              BitImage(k, SuppliedDigit(k)) = Sha256Of(SuppliedValue(k))
<1> DEFINE v == SuppliedValue(k)
<1> DEFINE b == IF IsTrue(SuppliedDigit(k)) THEN 1 ELSE 0
<1>1. k \in DOMAIN signed /\ k \in Int /\ Discloses(v) /\ v \in Elements
    BY PlaceIs
<1>2. b \in Int /\ (b = signed[k] <=> (IsTrue(SuppliedDigit(k)) <=> signed[k] = 1))
    OBVIOUS
<1>3. SignsAgain(k) <=> v = Secret(k, signed[k]) /\ (IsTrue(SuppliedDigit(k)) <=> signed[k] = 1)
    BY DEF SignsAgain, Derived
<1> HIDE DEF v, b
<1>4. Sha256Of(v) = Image(k, b) <=> v = Secret(k, b)
  <2>1. v \in Elements /\ k \in Int /\ b \in Int
      BY <1>1, <1>2
  <2> QED BY ONLY <2>1, ShaIs
<1>5. v = Secret(k, b) => b = signed[k]
    BY <1>1, <1>2 DEF Discloses
<1>6. SignsAgain(k) <=> Image(k, b) = Sha256Of(v)
    BY <1>2, <1>3, <1>4, <1>5
<1> QED BY <1>6 DEF v, b, BitImage

(* A Lamport signature passes when every place of it does.                 *)
LEMMA LamportRuns ==
    ASSUME CandidateGiven, instance.family = "lamport", NEW n \in Nat, Len(signed) = n,
           \A j \in 1 .. n : signed[j] \in 0 .. 1,
           NEW p, Block(p, LamportBits(n)), Trace[p] = State(witness, <<>>, <<>>)
    PROVE  IF \A j \in DOMAIN signed : SignsAgain(j)
           THEN Trace[p + Len(LamportBits(n))] = State(<<>> ++ witness[1], <<>>, <<>>)
           ELSE Rejected(p + Len(LamportBits(n)))
<1> DEFINE none == <<>>
<1> DEFINE s == [j \in 1 .. n |-> LamportBit(j)]
<1> DEFINE S == [k \in 0 .. n |-> State(Rest(k), none, <<>>)]
<1> DEFINE G == {k \in 1 .. n : SignsAgain(k)}
<1>1. s \in Seq(Codes) /\ Len(s) = n /\ \A k \in 1 .. n : s[k] = LamportBit(k) /\ Len(s[k]) = 8
    BY CandidateCodes
<1>2. \A k \in 0 .. n : S[k] = State(Rest(k), none, <<>>)
    OBVIOUS
<1>3. LamportBits(n) = FlattenSeq(s)
    BY DEF LamportBits
<1>4. DOMAIN signed = 1 .. n /\ (1 .. n \subseteq G <=> \A j \in DOMAIN signed : SignsAgain(j))
  <2>1. DOMAIN signed = 1 .. n
      BY LenProperties DEF CandidateGiven
  <2> QED BY <2>1
<1>5. \A k \in 1 .. n : k \in G <=> SignsAgain(k)
    OBVIOUS
<1>6. witness \in Stacks /\ Len(witness) = 2 * n + 1
    BY DEF CandidateGiven
<1> HIDE DEF s, S, G, none
<1>7. Leads(s, S, G)
  <2> SUFFICES ASSUME NEW k \in 1 .. Len(s), NEW q, Block(q, s[k]), Trace[q] = S[k - 1]
               PROVE  IF k \in G THEN Trace[q + Len(s[k])] = S[k] ELSE Rejected(q + Len(s[k]))
      BY DEF Leads
  <2>1. k \in 1 .. n /\ k - 1 \in 0 .. n /\ k \in 0 .. n /\ k \in 1 .. Len(signed) /\ k \in Int
      BY <1>1
  <2> DEFINE r == Rest(k)
  <2> DEFINE v == SuppliedValue(k)
  <2> DEFINE x == SuppliedDigit(k)
  <2>2. r \in Stacks /\ v \in Elements /\ x \in Elements /\ Rest(k - 1) = r ++ v ++ x
      BY <2>1, PlaceIs
  <2>3. k \in G <=> BitImage(k, x) = Sha256Of(v)
      BY <1>5, <2>1, LamportPlace
  <2> HIDE DEF r, v, x
  <2>4. Block(q, LamportBit(k)) /\ Len(s[k]) = 8 /\ Trace[q] = State(r ++ v ++ x, none, <<>>)
      BY <1>1, <1>2, <2>1, <2>2
  <2>5. IF BitImage(k, x) = Sha256Of(v)
        THEN Trace[q + 8] = State(r, none, <<>>) ELSE Rejected(q + 8)
    <3> DEFINE j == k
    <3> DEFINE z == q + 8
    <3>1. /\ z = q + 8 /\ j \in Int /\ r \in Stacks /\ v \in Elements /\ x \in Elements
          /\ Block(q, LamportBit(j)) /\ Trace[q] = State(r ++ v ++ x, none, <<>>)
        BY <2>1, <2>2, <2>4
    <3> HIDE DEF j, z
    <3>2. /\ BitImage(j, x) = Sha256Of(v) => Trace[z] = State(r, none, <<>>)
          /\ BitImage(j, x) = Sha256Of(v) \/ Rejected(z)
        BY ONLY <3>1, LamportBitRuns
    <3> QED BY <3>1, <3>2 DEF j
  <2>6. S[k] = State(r, none, <<>>)
      BY <1>2, <2>1 DEF r
  <2> QED BY <2>3, <2>4, <2>5, <2>6
<1>8. Trace[p] = S[0]
  <2>1. 0 \in 0 .. n /\ Rest(0) = witness
      BY <1>6, RestStarts
  <2> QED BY <1>2, <2>1 DEF none
<1>9. IF 1 .. n \subseteq G THEN Trace[p + Len(FlattenSeq(s))] = S[n]
                            ELSE Rejected(p + Len(FlattenSeq(s)))
  <2>1. Block(p, FlattenSeq(s))
      BY <1>3
  <2>2. IF 1 .. Len(s) \subseteq G THEN Trace[p + Len(FlattenSeq(s))] = S[Len(s)]
                                   ELSE Rejected(p + Len(FlattenSeq(s)))
      BY <1>1, <1>7, <1>8, <2>1, BlocksRun
  <2> QED BY <1>1, <2>2
<1>10. S[n] = State(<<>> ++ witness[1], <<>>, <<>>)
  <2>1. n \in 0 .. n /\ Rest(n) = <<>> ++ witness[1]
      BY <1>6, RestStarts
  <2> QED BY <1>2, <2>1 DEF none
<1> QED BY <1>3, <1>4, <1>9, <1>10

-----------------------------------------------------------------------------
(* A candidate's script is some code and the check of the key below.       *)
LEMMA PreludeIs ==
    ASSUME NEW c \in Codes, Script = c \o Check
    PROVE  /\ Script \in Codes /\ Len(Script) \in Nat /\ Len(Script) = Len(c) + 4 /\ Len(c) \in Nat
           /\ Block(1, c) /\ Block(1 + Len(c), Check)
           /\ Trace[1] = State(witness, <<>>, <<>>)
<1>1. Check \in Codes /\ Len(Check) = 4
    BY CandidateCodes
<1> DEFINE d == Check
<1>2. c \in Seq(Instructions) /\ d \in Seq(Instructions)
    BY <1>1 DEF Codes
<1> HIDE DEF d
<1>3. c \o d \in Seq(Instructions) /\ Len(c \o d) = Len(c) + Len(d)
    BY ONLY <1>2, ConcatProperties
<1>4. Len(c) \in Nat /\ Len(d) = 4 /\ Script = c \o d
    BY <1>1, <1>2, LenProperties DEF d
<1>5. Script \in Codes /\ Len(Script) \in Nat /\ Len(Script) = Len(c) + 4
    BY <1>3, <1>4 DEF Codes
<1>6. Block(1, c \o d)
  <2>1. \A k \in 1 .. Len(Script) : 1 + k - 1 = k
      BY <1>5
  <2> QED BY <1>4, <1>5, <2>1 DEF Block
<1>7. Block(1, c) /\ Block(1 + Len(c), d)
  <2>1. c \in Codes /\ d \in Codes
      BY <1>2 DEF Codes
  <2> QED BY <1>6, <2>1, BlockSplits
<1>8. Trace[1] = State(witness, <<>>, <<>>)
    BY <1>5, TraceSteps
<1> QED BY <1>4, <1>5, <1>7, <1>8 DEF d

(* A spend that reaches the check ends with the verdict on its key.        *)
LEMMA PreludePasses ==
    ASSUME NEW c \in Codes, Script = c \o Check, NEW x \in Elements,
           Trace[1 + Len(c)] = State(<<>> ++ x, <<>>, <<>>)
    PROVE  Trace[Len(Script) + 1] = State(<<>> ++ Truth(x = Key(Spend, {})), <<>>, <<>>)
<1>1. /\ Len(Script) \in Nat /\ Len(Script) = Len(c) + 4 /\ Len(c) \in Nat
      /\ Block(1 + Len(c), Check)
    BY PreludeIs
<1> DEFINE none == <<>>
<1> DEFINE p == 1 + Len(c)
<1>2. /\ Block(p, Check) /\ none \in Stacks /\ Trace[p] = State(none ++ x, none, <<>>)
      /\ p + 4 = Len(Script) + 1
    BY <1>1 DEF Stacks
<1> HIDE DEF none, p
<1>3. Trace[p + 4] = State(none ++ Truth(Verifies(Fixed, x, {})), none, <<>>)
    BY <1>2, CheckRuns
<1>4. Truth(Verifies(Fixed, x, {})) = Truth(x = Key(Spend, {}))
  <2>1. Verifies(Fixed, x, {}) <=> x = Key(Spend, {})
      BY FixedVerifies
  <2> QED BY <2>1 DEF Truth
<1> QED BY <1>2, <1>3, <1>4 DEF none

(* One that does not reach it ends rejected.                               *)
LEMMA PreludeRejects ==
    ASSUME NEW c \in Codes, Script = c \o Check, Rejected(1 + Len(c))
    PROVE  Rejected(Len(Script) + 1)
<1>1. Len(Script) \in Nat /\ Len(Script) = Len(c) + 4 /\ Len(c) \in Nat
    BY PreludeIs
<1> DEFINE p == 1 + Len(c)
<1>2. p \in 1 .. Len(Script) + 1 /\ Rejected(p) /\ Len(Script) \in Nat
    BY <1>1
<1> HIDE DEF p
<1> QED BY <1>2, RejectedAtEnd

(* What comes before the check lets the spend pass.                        *)
Cleared ==
    IF instance.family = "whole_key" THEN Sha256Of(witness[1]) = KeyImage(Committed)
                                     ELSE \A j \in DOMAIN signed : SignsAgain(j)
Ends ==
    IF Cleared
    THEN Trace[Len(Script) + 1] = State(<<>> ++ Truth(witness[1] = Key(Spend, {})), <<>>, <<>>)
    ELSE Rejected(Len(Script) + 1)

(* The direct candidate only checks the key.                               *)
LEMMA DirectEnds ==
    ASSUME CandidateGiven, instance.family = "direct", Len(signed) = 0, Script = <<>> \o Check
    PROVE  Script \in Codes /\ Ends
<1> DEFINE c == <<>>
<1>1. c \in Codes /\ Len(c) = 0 /\ Script = c \o Check
    BY DEF Codes
<1> HIDE DEF c
<1>2. Trace[1] = State(witness, <<>>, <<>>) /\ Script \in Codes
    BY <1>1, PreludeIs
<1>3. witness[1] \in Elements /\ witness = <<>> ++ witness[1]
  <2>1. witness \in Stacks /\ Len(witness) = 2 * 0 + 1 /\ 0 \in Nat
      BY DEF CandidateGiven
  <2> QED BY <2>1, RestStarts
<1>4. Cleared
  <2>1. DOMAIN signed = 1 .. 0
      BY LenProperties DEF CandidateGiven
  <2> QED BY <2>1 DEF Cleared
<1> DEFINE x == witness[1]
<1>5. Trace[1 + Len(c)] = State(<<>> ++ x, <<>>, <<>>) /\ x \in Elements
    BY <1>1, <1>2, <1>3
<1> HIDE DEF x
<1>6. Trace[Len(Script) + 1] = State(<<>> ++ Truth(x = Key(Spend, {})), <<>>, <<>>)
    BY <1>1, <1>5, PreludePasses
<1> QED BY <1>2, <1>4, <1>6 DEF Ends, x

(* The whole-key candidate first compares the hash of the key.             *)
LEMMA WholeKeyEnds ==
    ASSUME CandidateGiven, instance.family = "whole_key", Len(signed) = 0,
           Script = WholeKey \o Check
    PROVE  Script \in Codes /\ Ends
<1> DEFINE c == WholeKey
<1>1. c \in Codes /\ Len(c) = 4 /\ Script = c \o Check
    BY CandidateCodes
<1>2. Trace[1] = State(witness, <<>>, <<>>) /\ Script \in Codes /\ Block(1, WholeKey)
    BY <1>1, PreludeIs
<1>3. witness[1] \in Elements /\ witness = <<>> ++ witness[1]
  <2>1. witness \in Stacks /\ Len(witness) = 2 * 0 + 1 /\ 0 \in Nat
      BY DEF CandidateGiven
  <2> QED BY <2>1, RestStarts
<1> DEFINE x == witness[1]
<1> DEFINE none == <<>>
<1> DEFINE p == 1
<1> DEFINE good == Sha256Of(x) = KeyImage(Committed)
<1>4. /\ Trace[p] = State(none ++ x, none, <<>>) /\ x \in Elements /\ none \in Stacks
      /\ Block(p, WholeKey) /\ (Cleared <=> good) /\ p + 4 = 1 + Len(c)
    BY <1>1, <1>2, <1>3 DEF Cleared, Stacks
<1> HIDE DEF c, x, none, p
<1>5. IF Sha256Of(x) = KeyImage(Committed)
      THEN Trace[p + 4] = State(none ++ x, none, <<>>) ELSE Rejected(p + 4)
    BY <1>4, WholeKeyRuns
<1>6. CASE good
  <2>1. Trace[1 + Len(c)] = State(<<>> ++ x, <<>>, <<>>)
      BY <1>4, <1>5, <1>6 DEF none
  <2>2. Trace[Len(Script) + 1] = State(<<>> ++ Truth(x = Key(Spend, {})), <<>>, <<>>)
      BY <1>1, <1>4, <2>1, PreludePasses
  <2> QED BY <1>2, <1>4, <1>6, <2>2 DEF Ends, x
<1>7. CASE ~good
  <2>1. Rejected(1 + Len(c))
      BY <1>4, <1>5, <1>7
  <2>2. Rejected(Len(Script) + 1)
      BY <1>1, <2>1, PreludeRejects
  <2> QED BY <1>2, <1>4, <1>7, <2>2 DEF Ends
<1> QED BY <1>6, <1>7

(* The Lamport candidate first demands the secret of every bit.            *)
LEMMA LamportEnds ==
    ASSUME CandidateGiven, instance.family = "lamport", NEW n \in Nat, Len(signed) = n,
           \A j \in 1 .. n : signed[j] \in 0 .. 1, Script = LamportBits(n) \o Check
    PROVE  Script \in Codes /\ Ends
<1> DEFINE c == LamportBits(n)
<1>1. c \in Codes
  <2> DEFINE s == [j \in 1 .. n |-> LamportBit(j)]
  <2>1. s \in Seq(Codes)
      BY CandidateCodes
  <2>2. LamportBits(n) = FlattenSeq(s)
      BY DEF LamportBits
  <2> HIDE DEF s
  <2> QED BY <2>1, <2>2, FlattenType DEF Codes
<1>2. /\ Trace[1] = State(witness, <<>>, <<>>) /\ Script \in Codes
      /\ Block(1, LamportBits(n)) /\ Script = c \o Check
    BY <1>1, PreludeIs
<1>3. IF \A j \in DOMAIN signed : SignsAgain(j)
      THEN Trace[1 + Len(LamportBits(n))] = State(<<>> ++ witness[1], <<>>, <<>>)
      ELSE Rejected(1 + Len(LamportBits(n)))
    BY <1>2, LamportRuns
<1>4. Cleared <=> \A j \in DOMAIN signed : SignsAgain(j)
    BY DEF Cleared
<1> DEFINE x == witness[1]
<1>5. x \in Elements
    BY RestStarts DEF CandidateGiven
<1> HIDE DEF c, x
<1>6. CASE Cleared
  <2>1. Trace[1 + Len(c)] = State(<<>> ++ x, <<>>, <<>>)
      BY <1>3, <1>4, <1>6 DEF c, x
  <2>2. Trace[Len(Script) + 1] = State(<<>> ++ Truth(x = Key(Spend, {})), <<>>, <<>>)
      BY <1>1, <1>2, <1>5, <2>1, PreludePasses
  <2> QED BY <1>2, <1>6, <2>2 DEF Ends, x
<1>7. CASE ~Cleared
  <2>1. Rejected(1 + Len(c))
      BY <1>3, <1>4, <1>7 DEF c
  <2>2. Rejected(Len(Script) + 1)
      BY <1>1, <1>2, <2>1, PreludeRejects
  <2> QED BY <1>2, <1>7, <2>2 DEF Ends
<1> QED BY <1>6, <1>7

-----------------------------------------------------------------------------
(* The powers of the radix.                                                *)
Powers(k, f) ==
    f = [j \in 0 .. k |-> IF j = 0 THEN 1 ELSE Radix * f[j - 1]]

(* The powers have a sequence.                                             *)
LEMMA PowerExists ==
    ASSUME NEW k \in Nat
    PROVE  \E f : Powers(k, f)
<1> DEFINE Bad == {i \in Nat : ~\E f : Powers(i, f)}
<1> SUFFICES ASSUME Bad # {} PROVE FALSE
    OBVIOUS
<1>1. PICK m \in Bad : \A i \in Bad : m <= i
    BY LeastMember
<1>2. m # 0
  <2> DEFINE b == 1
  <2> HIDE DEF b
  <2> DEFINE f == [j \in 0 .. 0 |-> b]
  <2>1. f = [j \in 0 .. 0 |-> IF j = 0 THEN b ELSE Radix * f[j - 1]]
      OBVIOUS
  <2> HIDE DEF f
  <2>2. Powers(0, f)
      BY <2>1 DEF Powers, b
  <2> QED BY <1>1, <2>2
<1>3. m \in Nat /\ m - 1 \in Nat
    BY <1>1, <1>2
<1>4. PICK f : Powers(m - 1, f)
    BY <1>1, <1>3
<1> DEFINE S(i, h) == IF i = 0 THEN 1 ELSE Radix * h[i - 1]
<1>5. f = [i \in 0 .. m - 1 |-> S(i, f)]
    BY <1>4 DEF Powers
<1> DEFINE g == [i \in 0 .. m |-> S(i, f)]
<1>6. \A i \in 0 .. m - 1 : g[i] = f[i]
  <2>1. \A i \in 0 .. m - 1 : i \in 0 .. m
      BY <1>3
  <2> HIDE DEF S
  <2>2. \A i \in 0 .. m - 1 : f[i] = S(i, f)
      BY <1>5
  <2> QED BY <2>1, <2>2
<1>7. g = [i \in 0 .. m |-> S(i, g)]
  <2>1. ASSUME NEW i \in 0 .. m
        PROVE S(i, f) = S(i, g)
    <3>1. CASE i = 0
        BY <3>1
    <3>2. CASE i # 0
      <4>1. i - 1 \in 0 .. m - 1
          BY <1>3, <3>2
      <4>2. g[i - 1] = f[i - 1]
          BY <1>6, <4>1
      <4> HIDE DEF g
      <4> QED BY <3>2, <4>2
    <3> QED BY <3>1, <3>2
  <2> HIDE DEF S
  <2> QED BY <2>1
<1>8. Powers(m, g)
    BY <1>7 DEF Powers
<1> QED BY <1>1, <1>8

(* Two such sequences agree as far as both go.                             *)
LEMMA PowerAgree ==
    ASSUME NEW k \in Nat, NEW m \in Nat, k <= m, NEW f, NEW g,
           Powers(k, f), Powers(m, g)
    PROVE  \A i \in 0 .. k : f[i] = g[i]
<1> DEFINE S(i, h) == IF i = 0 THEN 1 ELSE Radix * h[i - 1]
<1>1. \A i \in 0 .. k : f[i] = S(i, f)
  <2>1. f = [i \in 0 .. k |-> S(i, f)]
      BY DEF Powers
  <2> HIDE DEF S
  <2> QED BY <2>1
<1>2. \A i \in 0 .. m : g[i] = S(i, g)
  <2>1. g = [i \in 0 .. m |-> S(i, g)]
      BY DEF Powers
  <2> HIDE DEF S
  <2> QED BY <2>1
<1> DEFINE Bad == {i \in 0 .. k : f[i] # g[i]}
<1> SUFFICES ASSUME Bad # {} PROVE FALSE
    OBVIOUS
<1>3. Bad \in SUBSET Nat
    OBVIOUS
<1>4. PICK i \in Bad : \A j \in Bad : i <= j
  <2> HIDE DEF Bad
  <2> QED BY <1>3, LeastMember
<1>5. i \in 0 .. k /\ i \in 0 .. m /\ f[i] # g[i]
    BY <1>4
<1>6. S(i, f) = S(i, g)
  <2>1. CASE i = 0
      BY <2>1
  <2>2. CASE i # 0
    <3>1. i - 1 \in 0 .. k /\ ~(i <= i - 1)
        BY <1>5, <2>2
    <3>2. f[i - 1] = g[i - 1]
        BY <1>4, <3>1
    <3> QED BY <2>2, <3>2
  <2> QED BY <2>1, <2>2
<1> HIDE DEF S
<1> QED BY <1>1, <1>2, <1>5, <1>6

(* One power more.                                                         *)
LEMMA PowerNext ==
    ASSUME NEW k \in Nat
    PROVE  /\ Power(0) = 1
           /\ Power(k + 1) = Radix * Power(k)
<1> DEFINE S(i, h) == IF i = 0 THEN 1 ELSE Radix * h[i - 1]
<1> DEFINE F(i) == CHOOSE f : Powers(i, f)
<1>1. \A i \in Nat : Powers(i, F(i))
    BY PowerExists
<1>2. \A i \in Nat : Power(i) = F(i)[i]
    BY DEF Powers, Power
<1> HIDE DEF F
<1>3. \A i \in Nat : \A j \in 0 .. i : F(i)[j] = S(j, F(i))
  <2> TAKE i \in Nat
  <2>1. F(i) = [j \in 0 .. i |-> S(j, F(i))]
      BY <1>1 DEF Powers
  <2> HIDE DEF S
  <2> QED BY <2>1
<1>4. F(k)[k] = F(k + 1)[k]
  <2>1. k + 1 \in Nat /\ k <= k + 1 /\ k \in 0 .. k
      OBVIOUS
  <2>2. Powers(k, F(k)) /\ Powers(k + 1, F(k + 1))
      BY <1>1, <2>1
  <2> QED BY <2>1, <2>2, PowerAgree
<1>5. F(0)[0] = S(0, F(0)) /\ F(k + 1)[k + 1] = S(k + 1, F(k + 1))
  <2>1. 0 \in Nat /\ 0 \in 0 .. 0 /\ k + 1 \in Nat /\ k + 1 \in 0 .. k + 1
      OBVIOUS
  <2> HIDE DEF S
  <2> QED BY <1>3, <2>1
<1>6. k + 1 # 0 /\ (k + 1) - 1 = k /\ k + 1 \in Nat
    OBVIOUS
<1> QED BY <1>2, <1>4, <1>5, <1>6

-----------------------------------------------------------------------------
(* What the first k digits lack of the largest ones: a message's checksum. *)
Lacks(d, k) ==
    LET sum[i \in 0 .. k] == IF i = 0 THEN 0 ELSE sum[i - 1] + (Radix - 1 - d[i]) IN sum[k]

(* The sums of it.                                                         *)
Sums(d, k, f) ==
    f = [j \in 0 .. k |-> IF j = 0 THEN 0 ELSE f[j - 1] + (Radix - 1 - d[j])]

(* The sum of what digits lack has a sequence of partial sums.             *)
LEMMA SumExists ==
    ASSUME NEW d, NEW k \in Nat
    PROVE  \E f : Sums(d, k, f)
<1> DEFINE Bad == {i \in Nat : ~\E f : Sums(d, i, f)}
<1> SUFFICES ASSUME Bad # {} PROVE FALSE
    OBVIOUS
<1>1. PICK m \in Bad : \A i \in Bad : m <= i
    BY LeastMember
<1>2. m # 0
  <2> DEFINE b == 0
  <2> HIDE DEF b
  <2> DEFINE f == [j \in 0 .. 0 |-> b]
  <2>1. f = [j \in 0 .. 0 |-> IF j = 0 THEN b ELSE f[j - 1] + (Radix - 1 - d[j])]
      OBVIOUS
  <2> HIDE DEF f
  <2>2. Sums(d, 0, f)
      BY <2>1 DEF Sums, b
  <2> QED BY <1>1, <2>2
<1>3. m \in Nat /\ m - 1 \in Nat
    BY <1>1, <1>2
<1>4. PICK f : Sums(d, m - 1, f)
    BY <1>1, <1>3
<1> DEFINE S(i, h) == IF i = 0 THEN 0 ELSE h[i - 1] + (Radix - 1 - d[i])
<1>5. f = [i \in 0 .. m - 1 |-> S(i, f)]
    BY <1>4 DEF Sums
<1> DEFINE g == [i \in 0 .. m |-> S(i, f)]
<1>6. \A i \in 0 .. m - 1 : g[i] = f[i]
  <2>1. \A i \in 0 .. m - 1 : i \in 0 .. m
      BY <1>3
  <2> HIDE DEF S
  <2>2. \A i \in 0 .. m - 1 : f[i] = S(i, f)
      BY <1>5
  <2> QED BY <2>1, <2>2
<1>7. g = [i \in 0 .. m |-> S(i, g)]
  <2>1. ASSUME NEW i \in 0 .. m
        PROVE S(i, f) = S(i, g)
    <3>1. CASE i = 0
        BY <3>1
    <3>2. CASE i # 0
      <4>1. i - 1 \in 0 .. m - 1
          BY <1>3, <3>2
      <4>2. g[i - 1] = f[i - 1]
          BY <1>6, <4>1
      <4> HIDE DEF g
      <4> QED BY <3>2, <4>2
    <3> QED BY <3>1, <3>2
  <2> HIDE DEF S
  <2> QED BY <2>1
<1>8. Sums(d, m, g)
    BY <1>7 DEF Sums
<1> QED BY <1>1, <1>8

(* Two such sequences agree as far as both go.                             *)
LEMMA SumAgree ==
    ASSUME NEW d, NEW k \in Nat, NEW m \in Nat, k <= m, NEW f, NEW g,
           Sums(d, k, f), Sums(d, m, g)
    PROVE  \A i \in 0 .. k : f[i] = g[i]
<1> DEFINE S(i, h) == IF i = 0 THEN 0 ELSE h[i - 1] + (Radix - 1 - d[i])
<1>1. \A i \in 0 .. k : f[i] = S(i, f)
  <2>1. f = [i \in 0 .. k |-> S(i, f)]
      BY DEF Sums
  <2> HIDE DEF S
  <2> QED BY <2>1
<1>2. \A i \in 0 .. m : g[i] = S(i, g)
  <2>1. g = [i \in 0 .. m |-> S(i, g)]
      BY DEF Sums
  <2> HIDE DEF S
  <2> QED BY <2>1
<1> DEFINE Bad == {i \in 0 .. k : f[i] # g[i]}
<1> SUFFICES ASSUME Bad # {} PROVE FALSE
    OBVIOUS
<1>3. Bad \in SUBSET Nat
    OBVIOUS
<1>4. PICK i \in Bad : \A j \in Bad : i <= j
  <2> HIDE DEF Bad
  <2> QED BY <1>3, LeastMember
<1>5. i \in 0 .. k /\ i \in 0 .. m /\ f[i] # g[i]
    BY <1>4
<1>6. S(i, f) = S(i, g)
  <2>1. CASE i = 0
      BY <2>1
  <2>2. CASE i # 0
    <3>1. i - 1 \in 0 .. k /\ ~(i <= i - 1)
        BY <1>5, <2>2
    <3>2. f[i - 1] = g[i - 1]
        BY <1>4, <3>1
    <3> QED BY <2>2, <3>2
  <2> QED BY <2>1, <2>2
<1> HIDE DEF S
<1> QED BY <1>1, <1>2, <1>5, <1>6

(* One digit more in the sum.                                              *)
LEMMA SumNext ==
    ASSUME NEW d, NEW k \in Nat
    PROVE  /\ Lacks(d, 0) = 0
           /\ Lacks(d, k + 1) = Lacks(d, k) + (Radix - 1 - d[(k + 1)])
<1> DEFINE S(i, h) == IF i = 0 THEN 0 ELSE h[i - 1] + (Radix - 1 - d[i])
<1> DEFINE F(i) == CHOOSE f : Sums(d, i, f)
<1>1. \A i \in Nat : Sums(d, i, F(i))
    BY SumExists
<1>2. \A i \in Nat : Lacks(d, i) = F(i)[i]
    BY DEF Sums, Lacks
<1> HIDE DEF F
<1>3. \A i \in Nat : \A j \in 0 .. i : F(i)[j] = S(j, F(i))
  <2> TAKE i \in Nat
  <2>1. F(i) = [j \in 0 .. i |-> S(j, F(i))]
      BY <1>1 DEF Sums
  <2> HIDE DEF S
  <2> QED BY <2>1
<1>4. F(k)[k] = F(k + 1)[k]
  <2>1. k + 1 \in Nat /\ k <= k + 1 /\ k \in 0 .. k
      OBVIOUS
  <2>2. Sums(d, k, F(k)) /\ Sums(d, k + 1, F(k + 1))
      BY <1>1, <2>1
  <2> QED BY <2>1, <2>2, SumAgree
<1>5. F(0)[0] = S(0, F(0)) /\ F(k + 1)[k + 1] = S(k + 1, F(k + 1))
  <2>1. 0 \in Nat /\ 0 \in 0 .. 0 /\ k + 1 \in Nat /\ k + 1 \in 0 .. k + 1
      OBVIOUS
  <2> HIDE DEF S
  <2> QED BY <1>3, <2>1
<1>6. k + 1 # 0 /\ (k + 1) - 1 = k /\ k + 1 \in Nat
    OBVIOUS
<1> QED BY <1>2, <1>4, <1>5, <1>6

-----------------------------------------------------------------------------
(* The number that the first k digits write.                               *)
Horner(c, k) ==
    LET h[i \in 0 .. k] == IF i = 0 THEN 0 ELSE Radix * h[i - 1] + c[i] IN h[k]

(* The numbers.                                                            *)
Numbers(c, k, f) ==
    f = [j \in 0 .. k |-> IF j = 0 THEN 0 ELSE Radix * f[j - 1] + c[j]]

(* The number digits write has a sequence of prefixes.                     *)
LEMMA HornerExists ==
    ASSUME NEW c, NEW k \in Nat
    PROVE  \E f : Numbers(c, k, f)
<1> DEFINE Bad == {i \in Nat : ~\E f : Numbers(c, i, f)}
<1> SUFFICES ASSUME Bad # {} PROVE FALSE
    OBVIOUS
<1>1. PICK m \in Bad : \A i \in Bad : m <= i
    BY LeastMember
<1>2. m # 0
  <2> DEFINE b == 0
  <2> HIDE DEF b
  <2> DEFINE f == [j \in 0 .. 0 |-> b]
  <2>1. f = [j \in 0 .. 0 |-> IF j = 0 THEN b ELSE Radix * f[j - 1] + c[j]]
      OBVIOUS
  <2> HIDE DEF f
  <2>2. Numbers(c, 0, f)
      BY <2>1 DEF Numbers, b
  <2> QED BY <1>1, <2>2
<1>3. m \in Nat /\ m - 1 \in Nat
    BY <1>1, <1>2
<1>4. PICK f : Numbers(c, m - 1, f)
    BY <1>1, <1>3
<1> DEFINE S(i, h) == IF i = 0 THEN 0 ELSE Radix * h[i - 1] + c[i]
<1>5. f = [i \in 0 .. m - 1 |-> S(i, f)]
    BY <1>4 DEF Numbers
<1> DEFINE g == [i \in 0 .. m |-> S(i, f)]
<1>6. \A i \in 0 .. m - 1 : g[i] = f[i]
  <2>1. \A i \in 0 .. m - 1 : i \in 0 .. m
      BY <1>3
  <2> HIDE DEF S
  <2>2. \A i \in 0 .. m - 1 : f[i] = S(i, f)
      BY <1>5
  <2> QED BY <2>1, <2>2
<1>7. g = [i \in 0 .. m |-> S(i, g)]
  <2>1. ASSUME NEW i \in 0 .. m
        PROVE S(i, f) = S(i, g)
    <3>1. CASE i = 0
        BY <3>1
    <3>2. CASE i # 0
      <4>1. i - 1 \in 0 .. m - 1
          BY <1>3, <3>2
      <4>2. g[i - 1] = f[i - 1]
          BY <1>6, <4>1
      <4> HIDE DEF g
      <4> QED BY <3>2, <4>2
    <3> QED BY <3>1, <3>2
  <2> HIDE DEF S
  <2> QED BY <2>1
<1>8. Numbers(c, m, g)
    BY <1>7 DEF Numbers
<1> QED BY <1>1, <1>8

(* Two such sequences agree as far as both go.                             *)
LEMMA HornerAgree ==
    ASSUME NEW c, NEW k \in Nat, NEW m \in Nat, k <= m, NEW f, NEW g,
           Numbers(c, k, f), Numbers(c, m, g)
    PROVE  \A i \in 0 .. k : f[i] = g[i]
<1> DEFINE S(i, h) == IF i = 0 THEN 0 ELSE Radix * h[i - 1] + c[i]
<1>1. \A i \in 0 .. k : f[i] = S(i, f)
  <2>1. f = [i \in 0 .. k |-> S(i, f)]
      BY DEF Numbers
  <2> HIDE DEF S
  <2> QED BY <2>1
<1>2. \A i \in 0 .. m : g[i] = S(i, g)
  <2>1. g = [i \in 0 .. m |-> S(i, g)]
      BY DEF Numbers
  <2> HIDE DEF S
  <2> QED BY <2>1
<1> DEFINE Bad == {i \in 0 .. k : f[i] # g[i]}
<1> SUFFICES ASSUME Bad # {} PROVE FALSE
    OBVIOUS
<1>3. Bad \in SUBSET Nat
    OBVIOUS
<1>4. PICK i \in Bad : \A j \in Bad : i <= j
  <2> HIDE DEF Bad
  <2> QED BY <1>3, LeastMember
<1>5. i \in 0 .. k /\ i \in 0 .. m /\ f[i] # g[i]
    BY <1>4
<1>6. S(i, f) = S(i, g)
  <2>1. CASE i = 0
      BY <2>1
  <2>2. CASE i # 0
    <3>1. i - 1 \in 0 .. k /\ ~(i <= i - 1)
        BY <1>5, <2>2
    <3>2. f[i - 1] = g[i - 1]
        BY <1>4, <3>1
    <3> QED BY <2>2, <3>2
  <2> QED BY <2>1, <2>2
<1> HIDE DEF S
<1> QED BY <1>1, <1>2, <1>5, <1>6

(* One digit more in the number.                                           *)
LEMMA HornerNext ==
    ASSUME NEW c, NEW k \in Nat
    PROVE  /\ Horner(c, 0) = 0
           /\ Horner(c, k + 1) = Radix * Horner(c, k) + c[(k + 1)]
<1> DEFINE S(i, h) == IF i = 0 THEN 0 ELSE Radix * h[i - 1] + c[i]
<1> DEFINE F(i) == CHOOSE f : Numbers(c, i, f)
<1>1. \A i \in Nat : Numbers(c, i, F(i))
    BY HornerExists
<1>2. \A i \in Nat : Horner(c, i) = F(i)[i]
    BY DEF Numbers, Horner
<1> HIDE DEF F
<1>3. \A i \in Nat : \A j \in 0 .. i : F(i)[j] = S(j, F(i))
  <2> TAKE i \in Nat
  <2>1. F(i) = [j \in 0 .. i |-> S(j, F(i))]
      BY <1>1 DEF Numbers
  <2> HIDE DEF S
  <2> QED BY <2>1
<1>4. F(k)[k] = F(k + 1)[k]
  <2>1. k + 1 \in Nat /\ k <= k + 1 /\ k \in 0 .. k
      OBVIOUS
  <2>2. Numbers(c, k, F(k)) /\ Numbers(c, k + 1, F(k + 1))
      BY <1>1, <2>1
  <2> QED BY <2>1, <2>2, HornerAgree
<1>5. F(0)[0] = S(0, F(0)) /\ F(k + 1)[k + 1] = S(k + 1, F(k + 1))
  <2>1. 0 \in Nat /\ 0 \in 0 .. 0 /\ k + 1 \in Nat /\ k + 1 \in 0 .. k + 1
      OBVIOUS
  <2> HIDE DEF S
  <2> QED BY <1>3, <2>1
<1>6. k + 1 # 0 /\ (k + 1) - 1 = k /\ k + 1 \in Nat
    OBVIOUS
<1> QED BY <1>2, <1>4, <1>5, <1>6

-----------------------------------------------------------------------------
(* What holds of 0 and passes on holds up to n.                            *)
LEMMA Upto ==
    ASSUME NEW n \in Nat, NEW G, 0 \in G, \A k \in 0 .. n - 1 : k \in G => k + 1 \in G
    PROVE  \A k \in 0 .. n : k \in G
<1> DEFINE Bad == {k \in Nat : k <= n /\ k \notin G}
<1> SUFFICES ASSUME Bad # {} PROVE FALSE
    OBVIOUS
<1>1. PICK k \in Bad : \A i \in Bad : k <= i
    BY LeastMember
<1>2. k # 0 /\ k \in Nat /\ k - 1 \in 0 .. n - 1 /\ ~(k <= k - 1) /\ (k - 1) + 1 = k
    BY <1>1
<1>3. k - 1 \in G
    BY <1>1, <1>2
<1> QED BY <1>1, <1>2, <1>3

(* Powers grow faster than checksums.                                      *)
LEMMA PowerIs ==
    ASSUME NEW n \in Nat
    PROVE  /\ Power(0) = 1 /\ Power(n) \in Nat /\ Power(n) >= 3 * n + 1
           /\ Power(n + 1) = 4 * Power(n)
<1> DEFINE G == {k \in Nat : Power(k) \in Nat /\ Power(k) >= 3 * k + 1}
<1>1. Power(0) = 1
    BY PowerNext
<1>2. 0 \in G
    BY <1>1
<1>3. ASSUME NEW k \in 0 .. n - 1, k \in G
      PROVE  k + 1 \in G
  <2>1. Power(k + 1) = 4 * Power(k)
      BY PowerNext DEF Radix
  <2>2. Power(k) \in Nat /\ Power(k) >= 3 * k + 1 /\ k \in Nat
      BY <1>3
  <2> DEFINE q == Power(k)
  <2>3. 4 * q \in Nat /\ 4 * q >= 3 * (k + 1) + 1
    <3>1. q \in Nat /\ q >= 3 * k + 1 /\ k \in Nat
        BY <2>2
    <3> HIDE DEF q
    <3> QED BY ONLY <3>1
  <2> HIDE DEF q
  <2> QED BY <2>1, <2>2, <2>3 DEF q
<1> HIDE DEF G
<1>4. n \in G
  <2>1. \A k \in 0 .. n : k \in G
      BY <1>2, <1>3, Upto
  <2> QED BY <2>1
<1> QED BY <1>1, <1>4, PowerNext DEF G, Radix

(* There is a length of checksums, and all checksums have it.              *)
LEMMA ChecksumDigitsIs ==
    ASSUME NEW n \in Nat
    PROVE  ChecksumDigits(n) \in 1 .. n + 1 /\ Power(ChecksumDigits(n)) > n * 3
<1> DEFINE U == {k \in 1 .. n + 1 : Power(k) > n * 3}
<1>1. \A k \in Nat : Power(k) \in Nat /\ Power(k) >= 3 * k + 1
    BY PowerIs
<1>2. n + 1 \in U
  <2>1. Power(n + 1) \in Nat /\ Power(n + 1) >= 3 * (n + 1) + 1
      BY <1>1
  <2> DEFINE q == Power(n + 1)
  <2>2. q > n * 3
    <3>1. q \in Nat /\ q >= 3 * (n + 1) + 1
        BY <2>1
    <3> HIDE DEF q
    <3> QED BY <3>1
  <2> QED BY <2>2
<1>3. PICK k \in U : \A i \in U : k <= i
  <2>1. U \in SUBSET Nat /\ U # {}
      BY <1>2
  <2> HIDE DEF U
  <2> QED BY <2>1, LeastMember
<1>4. \A m \in 1 .. k - 1 : Power(m) <= n * 3
  <2> TAKE m \in 1 .. k - 1
  <2>1. m \in 1 .. n + 1 /\ ~(k <= m) /\ m \in Nat
      BY <1>3
  <2>2. m \notin U
      BY <1>3, <2>1
  <2>3. ~(Power(m) > n * 3)
      BY <2>1, <2>2
  <2>4. Power(m) \in Nat
      BY <1>1, <2>1
  <2> QED BY <2>3, <2>4
<1>5. \E i \in 1 .. n + 1 : /\ Power(i) > n * (Radix - 1)
                            /\ \A m \in 1 .. i - 1 : Power(m) <= n * (Radix - 1)
    BY <1>3, <1>4 DEF Radix
<1>6. /\ ChecksumDigits(n) \in 1 .. n + 1
      /\ Power(ChecksumDigits(n)) > n * (Radix - 1)
    BY <1>5 DEF ChecksumDigits
<1> QED BY <1>6 DEF Radix

-----------------------------------------------------------------------------
(* Division.                                                               *)
LEMMA Quotient ==
    ASSUME NEW a \in Nat, NEW d \in Nat \ {0}
    PROVE  a \div d \in Nat /\ d * (a \div d) <= a /\ a < d * (a \div d) + d
OBVIOUS

(* A quotient is known by its bounds.                                      *)
LEMMA QuotientIs ==
    ASSUME NEW a \in Nat, NEW d \in Nat \ {0}, NEW q \in Nat, d * q <= a, a < d * q + d
    PROVE  a \div d = q
OBVIOUS

(* A quotient and its last digit.                                          *)
LEMMA QuotientOf ==
    ASSUME NEW a \in Nat, NEW d \in Nat \ {0}
    PROVE  a \div d = 4 * (a \div (4 * d)) + ((a \div d) % 4)
OBVIOUS

-----------------------------------------------------------------------------
(* What digits lack is between nothing and all of it.                      *)
LEMMA SumBounds ==
    ASSUME NEW n \in Nat, NEW d, \A i \in 1 .. n : d[i] \in 0 .. 3
    PROVE  \A k \in 0 .. n : Lacks(d, k) \in Nat /\ Lacks(d, k) <= 3 * k
<1> DEFINE G == {k \in Nat : Lacks(d, k) \in Nat /\ Lacks(d, k) <= 3 * k}
<1>1. 0 \in G
    BY SumNext
<1>2. ASSUME NEW k \in 0 .. n - 1, k \in G
      PROVE  k + 1 \in G
  <2>1. Lacks(d, k + 1) = Lacks(d, k) + (4 - 1 - d[(k + 1)])
      BY SumNext DEF Radix
  <2> DEFINE a == Lacks(d, k)
  <2> DEFINE b == d[(k + 1)]
  <2>2. a \in Nat /\ a <= 3 * k /\ k \in Nat /\ b \in 0 .. 3
      BY <1>2
  <2> HIDE DEF a, b
  <2>3. a + (4 - 1 - b) \in Nat /\ a + (4 - 1 - b) <= 3 * (k + 1) /\ k + 1 \in Nat
      BY ONLY <2>2
  <2> QED BY <2>1, <2>3 DEF a, b
<1> HIDE DEF G
<1>3. \A k \in 0 .. n : k \in G
    BY <1>1, <1>2, Upto
<1> QED BY <1>3 DEF G

(* Larger digits lack less, and no less only when they are the same.       *)
LEMMA SumCompares ==
    ASSUME NEW n \in Nat, NEW d, NEW e, \A i \in 1 .. n : d[i] \in 0 .. 3,
           \A i \in 1 .. n : e[i] \in 0 .. 3, \A i \in 1 .. n : d[i] >= e[i]
    PROVE  /\ Lacks(d, n) <= Lacks(e, n)
           /\ Lacks(d, n) = Lacks(e, n) => \A i \in 1 .. n : d[i] = e[i]
<1> DEFINE G == {k \in Nat : /\ Lacks(d, k) <= Lacks(e, k)
                             /\ Lacks(d, k) = Lacks(e, k) => \A i \in 1 .. k : d[i] = e[i]}
<1>1. 0 \in G
    BY SumNext
<1>2. \A k \in 0 .. n : Lacks(d, k) \in Nat
    BY SumBounds
<1>3. \A k \in 0 .. n : Lacks(e, k) \in Nat
    BY SumBounds
<1>4. ASSUME NEW k \in 0 .. n - 1, k \in G
      PROVE  k + 1 \in G
  <2>1. Lacks(d, k + 1) = Lacks(d, k) + (4 - 1 - d[(k + 1)])
      BY SumNext DEF Radix
  <2>2. Lacks(e, k + 1) = Lacks(e, k) + (4 - 1 - e[(k + 1)])
      BY SumNext DEF Radix
  <2> DEFINE a == Lacks(d, k)
  <2> DEFINE b == Lacks(e, k)
  <2> DEFINE x == d[(k + 1)]
  <2> DEFINE y == e[(k + 1)]
  <2>3. k + 1 \in 1 .. n /\ k \in 0 .. n /\ k + 1 \in Nat
      OBVIOUS
  <2>4. a \in Nat /\ b \in Nat /\ x \in 0 .. 3 /\ y \in 0 .. 3 /\ x >= y
      BY <1>2, <1>3, <2>3
  <2>5. a <= b /\ (a = b => \A i \in 1 .. k : d[i] = e[i])
      BY <1>4
  <2> HIDE DEF a, b, x, y
  <2>6. /\ a + (4 - 1 - x) <= b + (4 - 1 - y)
        /\ a + (4 - 1 - x) = b + (4 - 1 - y) => a = b /\ x = y
    <3>1. a <= b
        BY <2>5
    <3> QED BY ONLY <2>4, <3>1
  <2>7. \A i \in 1 .. k + 1 : i \in 1 .. k \/ i = k + 1
      BY <2>3
  <2> QED BY <2>1, <2>2, <2>3, <2>5, <2>6, <2>7 DEF a, b, x, y
<1> HIDE DEF G
<1>5. \A k \in 0 .. n : k \in G
    BY <1>1, <1>4, Upto
<1>6. n \in G
    BY <1>5
<1> QED BY <1>6 DEF G

-----------------------------------------------------------------------------
(* What digits write is a number.                                          *)
LEMMA HornerBounds ==
    ASSUME NEW n \in Nat, NEW c, \A i \in 1 .. n : c[i] \in 0 .. 3
    PROVE  \A k \in 0 .. n : Horner(c, k) \in Nat
<1> DEFINE G == {k \in Nat : Horner(c, k) \in Nat}
<1>1. 0 \in G
    BY HornerNext
<1>2. ASSUME NEW k \in 0 .. n - 1, k \in G
      PROVE  k + 1 \in G
  <2>1. Horner(c, k + 1) = 4 * Horner(c, k) + c[(k + 1)]
      BY HornerNext DEF Radix
  <2>2. Horner(c, k) \in Nat /\ k + 1 \in 1 .. n /\ c[(k + 1)] \in 0 .. 3
      BY <1>2
  <2> QED BY <2>1, <2>2
<1> HIDE DEF G
<1>3. \A k \in 0 .. n : k \in G
    BY <1>1, <1>2, Upto
<1> QED BY <1>3 DEF G

(* Larger digits write more, and no more only when they are the same.      *)
LEMMA HornerCompares ==
    ASSUME NEW n \in Nat, NEW d, NEW e, \A i \in 1 .. n : d[i] \in 0 .. 3,
           \A i \in 1 .. n : e[i] \in 0 .. 3, \A i \in 1 .. n : d[i] >= e[i]
    PROVE  /\ Horner(d, n) >= Horner(e, n)
           /\ Horner(d, n) = Horner(e, n) => \A i \in 1 .. n : d[i] = e[i]
<1> DEFINE G == {k \in Nat : /\ Horner(d, k) >= Horner(e, k)
                             /\ Horner(d, k) = Horner(e, k) => \A i \in 1 .. k : d[i] = e[i]}
<1>1. 0 \in G
    BY HornerNext
<1>2. \A k \in 0 .. n : Horner(d, k) \in Nat
    BY HornerBounds
<1>3. \A k \in 0 .. n : Horner(e, k) \in Nat
    BY HornerBounds
<1>4. ASSUME NEW k \in 0 .. n - 1, k \in G
      PROVE  k + 1 \in G
  <2>1. Horner(d, k + 1) = 4 * Horner(d, k) + d[(k + 1)]
      BY HornerNext DEF Radix
  <2>2. Horner(e, k + 1) = 4 * Horner(e, k) + e[(k + 1)]
      BY HornerNext DEF Radix
  <2> DEFINE a == Horner(d, k)
  <2> DEFINE b == Horner(e, k)
  <2> DEFINE x == d[(k + 1)]
  <2> DEFINE y == e[(k + 1)]
  <2>3. k + 1 \in 1 .. n /\ k \in 0 .. n /\ k + 1 \in Nat
      OBVIOUS
  <2>4. a \in Nat /\ b \in Nat /\ x \in 0 .. 3 /\ y \in 0 .. 3 /\ x >= y
      BY <1>2, <1>3, <2>3
  <2>5. a >= b /\ (a = b => \A i \in 1 .. k : d[i] = e[i])
      BY <1>4
  <2> HIDE DEF a, b, x, y
  <2>6. /\ 4 * a + x >= 4 * b + y
        /\ 4 * a + x = 4 * b + y => a = b /\ x = y
    <3>1. a >= b
        BY <2>5
    <3> QED BY ONLY <2>4, <3>1
  <2>7. \A i \in 1 .. k + 1 : i \in 1 .. k \/ i = k + 1
      BY <2>3
  <2> QED BY <2>1, <2>2, <2>3, <2>5, <2>6, <2>7 DEF a, b, x, y
<1> HIDE DEF G
<1>5. \A k \in 0 .. n : k \in G
    BY <1>1, <1>4, Upto
<1>6. n \in G
    BY <1>5
<1> QED BY <1>6 DEF G

(* The digits of a number write it.                                        *)
LEMMA HornerWrites ==
    ASSUME NEW n \in Nat, NEW a \in Nat, a < Power(n), NEW c,
           \A i \in 1 .. n : c[i] = (a \div Power(n - i)) % 4
    PROVE  Horner(c, n) = a
<1> DEFINE G == {k \in 0 .. n : Horner(c, k) = a \div Power(n - k)}
<1>1. \A k \in Nat : Power(k) \in Nat /\ Power(k) >= 3 * k + 1 /\ Power(k + 1) = 4 * Power(k)
    BY PowerIs
<1>2. 0 \in G
  <2> DEFINE d == Power(n)
  <2>1. d \in Nat \ {0} /\ a < d
      BY <1>1
  <2>2. a \div d = 0
    <3> HIDE DEF d
    <3>1. d * 0 = 0 /\ a < d * 0 + d /\ d * 0 <= a
        BY ONLY <2>1, a \in Nat
    <3> QED BY <2>1, <3>1, QuotientIs
  <2>3. n - 0 = n
      OBVIOUS
  <2> QED BY <2>2, <2>3, HornerNext
<1>3. ASSUME NEW k \in 0 .. n - 1, k \in G
      PROVE  k + 1 \in G
  <2>1. Horner(c, k + 1) = 4 * Horner(c, k) + c[(k + 1)]
      BY HornerNext DEF Radix
  <2>2. k + 1 \in 1 .. n /\ n - (k + 1) \in Nat /\ (n - (k + 1)) + 1 = n - k
      OBVIOUS
  <2> DEFINE d == Power(n - (k + 1))
  <2>3. d \in Nat \ {0} /\ Power(n - k) = 4 * d
    <3> DEFINE m == n - (k + 1)
    <3>1. m \in Nat /\ m + 1 = n - k
        BY <2>2
    <3> HIDE DEF m
    <3>2. Power(m) \in Nat /\ Power(m) >= 3 * m + 1 /\ Power(m + 1) = 4 * Power(m)
        BY <1>1, <3>1
    <3>3. Power(m) \in Nat \ {0}
        BY <3>1, <3>2
    <3> QED BY <3>1, <3>2, <3>3 DEF m
  <2>4. Horner(c, k) = a \div (4 * d) /\ c[(k + 1)] = (a \div d) % 4
      BY <1>3, <2>2, <2>3
  <2> HIDE DEF d
  <2>5. a \div d = 4 * (a \div (4 * d)) + ((a \div d) % 4)
      BY <2>3, QuotientOf
  <2>6. Horner(c, k + 1) = a \div d
      BY <2>1, <2>4, <2>5
  <2> QED BY <2>2, <2>6 DEF d
<1> HIDE DEF G
<1>4. \A k \in 0 .. n : k \in G
    BY <1>2, <1>3, Upto
<1>5. n \in G /\ n - n = 0 /\ Power(0) = 1 /\ a \div 1 = a
    BY <1>4, PowerNext
<1> QED BY <1>5 DEF G

-----------------------------------------------------------------------------
(* The rest of a hash chain, and the comparison with its end.              *)
Hashes == FlattenSeq([i \in 1 .. Radix - 1 |-> HashBelow(i - 1)])

(* The blocks of it.                                                       *)
LEMMA HashesAre ==
    ASSUME NEW j \in Int
    PROVE  /\ Hashes \in Codes /\ Len(Hashes) = 24 /\ ChainEnd(j) \in Codes /\ Len(ChainEnd(j)) = 3
           /\ \A p : Block(p, Hashes) => /\ Block(p, HashBelow(0)) /\ Block(p + 8, HashBelow(1))
                                         /\ Block(p + 16, HashBelow(2))
<1> DEFINE s == [i \in 1 .. Radix - 1 |-> HashBelow(i - 1)]
<1>1. /\ s \in Seq(Codes) /\ Len(s) = 3 /\ Hashes = FlattenSeq(s)
      /\ s[1] = HashBelow(0) /\ s[2] = HashBelow(1) /\ s[3] = HashBelow(2)
  <2>1. \A i \in 1 .. 3 : HashBelow(i - 1) \in Codes
      BY CandidateCodes
  <2>2. s = [i \in 1 .. 3 |-> HashBelow(i - 1)]
      BY DEF Radix
  <2>3. Hashes = FlattenSeq(s)
      BY DEF Hashes
  <2>4. s \in Seq(Codes) /\ Len(s) = 3 /\ \A i \in 1 .. 3 : s[i] = HashBelow(i - 1)
    <3> DEFINE n == 3
    <3>1. n \in Nat /\ s = [i \in 1 .. n |-> HashBelow(i - 1)]
        BY <2>2
    <3>2. \A i \in 1 .. n : HashBelow(i - 1) \in Codes
        BY <2>1
    <3> HIDE DEF n, s
    <3>3. s \in Seq(Codes) /\ Len(s) = n /\ \A i \in 1 .. n : s[i] = HashBelow(i - 1)
        BY <3>1, <3>2
    <3> QED BY <3>3 DEF n
  <2> HIDE DEF s
  <2>5. s[1] = HashBelow(1 - 1) /\ s[2] = HashBelow(2 - 1) /\ s[3] = HashBelow(3 - 1)
      BY <2>4
  <2>6. 1 - 1 = 0 /\ 2 - 1 = 1 /\ 3 - 1 = 2
      OBVIOUS
  <2> QED BY <2>3, <2>4, <2>5, <2>6
<1> HIDE DEF s
<1>2. s \in Seq(Seq(Instructions))
    BY <1>1 DEF Codes
<1>3. Hashes \in Codes
    BY <1>1, <1>2, FlattenType DEF Codes
<1>4. Len(s[1]) = 8 /\ Len(s[2]) = 8 /\ Len(s[3]) = 8
    BY <1>1, CandidateCodes
<1>5. Len(Hashes) = 24
  <2>1. /\ Joined(s, 0) = <<>> /\ Joined(s, 3) = Hashes
        /\ \A k \in 0 .. 3 : Joined(s, k) \in Seq(Instructions)
        /\ \A k \in 1 .. 3 : Joined(s, k) = Joined(s, k - 1) \o s[k] /\ s[k] \in Seq(Instructions)
      BY <1>1, <1>2, JoinedIs
  <2>2. \A k \in 1 .. 3 : Len(Joined(s, k)) = Len(Joined(s, k - 1)) + Len(s[k])
    <3> TAKE k \in 1 .. 3
    <3> DEFINE a == Joined(s, k - 1)
    <3> DEFINE b == s[k]
    <3>0. k - 1 \in 0 .. 3
        OBVIOUS
    <3>1. a \in Seq(Instructions) /\ b \in Seq(Instructions) /\ Joined(s, k) = a \o b
        BY <2>1, <3>0
    <3> HIDE DEF a, b
    <3>2. Len(a \o b) = Len(a) + Len(b)
        BY ONLY <3>1, ConcatProperties
    <3> QED BY <3>1, <3>2 DEF a, b
  <2>3. Len(Joined(s, 0)) = 0
      BY <2>1
  <2>4. Len(Joined(s, 1)) = 8 /\ Len(Joined(s, 2)) = 16 /\ Len(Joined(s, 3)) = 24
    <3>0. /\ Len(Joined(s, 1)) = Len(Joined(s, 0)) + Len(s[1])
          /\ Len(Joined(s, 2)) = Len(Joined(s, 1)) + Len(s[2])
          /\ Len(Joined(s, 3)) = Len(Joined(s, 2)) + Len(s[3])
      <4>1. 1 - 1 = 0 /\ 2 - 1 = 1 /\ 3 - 1 = 2 /\ 1 \in 1 .. 3 /\ 2 \in 1 .. 3 /\ 3 \in 1 .. 3
          OBVIOUS
      <4> QED BY <2>2, <4>1
    <3>1. Len(Joined(s, 1)) = 0 + 8
        BY <1>4, <2>3, <3>0
    <3>2. Len(Joined(s, 2)) = (0 + 8) + 8
        BY <1>4, <3>0, <3>1
    <3>3. Len(Joined(s, 3)) = ((0 + 8) + 8) + 8
        BY <1>4, <3>0, <3>2
    <3> QED BY <3>1, <3>2, <3>3
  <2> QED BY <2>1, <2>4
<1>6. ASSUME NEW p, Block(p, Hashes)
      PROVE  Block(p, HashBelow(0)) /\ Block(p + 8, HashBelow(1)) /\ Block(p + 16, HashBelow(2))
  <2>1. /\ Len(Joined(s, 0)) = 0
        /\ \A k \in 1 .. 3 : /\ Block(p + Len(Joined(s, k - 1)), s[k])
                             /\ Len(Joined(s, k)) = Len(Joined(s, k - 1)) + Len(s[k])
      BY <1>1, <1>6, JoinedBlocks
  <2>2. /\ Block(p + Len(Joined(s, 0)), s[1])
        /\ Block(p + Len(Joined(s, 1)), s[2])
        /\ Block(p + Len(Joined(s, 2)), s[3])
        /\ Len(Joined(s, 1)) = Len(Joined(s, 0)) + Len(s[1])
        /\ Len(Joined(s, 2)) = Len(Joined(s, 1)) + Len(s[2])
    <3>1. 1 - 1 = 0 /\ 2 - 1 = 1 /\ 3 - 1 = 2 /\ 1 \in 1 .. 3 /\ 2 \in 1 .. 3 /\ 3 \in 1 .. 3
        OBVIOUS
    <3> QED BY <2>1, <3>1
  <2>3. Len(Joined(s, 1)) = 8
      BY <1>4, <2>1, <2>2
  <2>4. Len(Joined(s, 2)) = 8 + 8
      BY <1>4, <2>2, <2>3
  <2>5. p \in Nat /\ p + 0 = p
      BY <1>6 DEF Block
  <2>6. p + (8 + 8) = p + 16
      BY <2>5
  <2>7. Block(p, s[1]) /\ Block(p + 8, s[2]) /\ Block(p + 16, s[3])
      BY <2>1, <2>2, <2>3, <2>4, <2>5, <2>6
  <2> QED BY <1>1, <2>7
<1>7. ChainEnd(j) \in Codes /\ Len(ChainEnd(j)) = 3
  <2>1. Op("DROP") \in Instructions /\ Op("EQUALVERIFY") \in Instructions
      BY OpIs DEF Plain
  <2>2. Push(Link(j, Radix - 1)) \in Instructions
      BY PushIs, CandidateElements DEF Radix
  <2> QED BY <2>1, <2>2 DEF ChainEnd, Codes
<1> QED BY <1>3, <1>5, <1>6, <1>7

(* As many hashes as the digit lacks reach the end from the digit's link   *)
(* only.                                                                   *)
LEMMA HashedIs ==
    ASSUME NEW v \in Elements, NEW j \in Int, NEW n \in 0 .. 3, NEW one, NEW two, NEW three,
           one = IF n <= 0 THEN Sha256Of(v) ELSE v,
           two = IF n <= 1 THEN Sha256Of(one) ELSE one,
           three = IF n <= 2 THEN Sha256Of(two) ELSE two
    PROVE  three = Link(j, 3) <=> v = Link(j, n)
<1>2. one \in Elements /\ two \in Elements
    BY ShaType
<1>3. \A e \in Elements : \A m \in Int : Sha256Of(e) = Link(j, m) <=> e = Link(j, m - 1)
    BY ShaIs
<1>5. /\ \A e \in Elements : Sha256Of(e) = Link(j, 3) <=> e = Link(j, 2)
      /\ \A e \in Elements : Sha256Of(e) = Link(j, 2) <=> e = Link(j, 1)
      /\ \A e \in Elements : Sha256Of(e) = Link(j, 1) <=> e = Link(j, 0)
  <2>1. 3 - 1 = 2 /\ 2 - 1 = 1 /\ 1 - 1 = 0 /\ 3 \in Int /\ 2 \in Int /\ 1 \in Int
      OBVIOUS
  <2> QED BY <1>3, <2>1
<1>6. n = 0 \/ n = 1 \/ n = 2 \/ n = 3
    OBVIOUS
<1>7. CASE n = 0
    BY <1>2, <1>5, <1>7
<1>8. CASE n = 1
    BY <1>2, <1>5, <1>8
<1>9. CASE n = 2
    BY <1>2, <1>5, <1>9
<1>10. CASE n = 3
    BY <1>2, <1>5, <1>10
<1> QED BY <1>6, <1>7, <1>8, <1>9, <1>10

(* A chain passes from the link that the digit is for.                     *)
ChainAt(p, q, z, s, v, x, a, j, n) ==
    /\ q = p + 24 /\ z = p + 27 /\ s \in Stacks /\ v \in Elements /\ x \in Elements
    /\ j \in Int /\ n \in 0 .. 3 /\ x.kind = "num" /\ x.n = n
    /\ Block(p, Hashes) /\ Block(q, ChainEnd(j)) /\ Trace[p] = State(s ++ v ++ x, a, <<>>)

(* The hashes below a digit reach the end of the chain exactly from the    *)
(* link of that digit.                                                     *)
LEMMA ChainRuns ==
    ASSUME NEW p, NEW q, NEW z, NEW s, NEW v, NEW x, NEW a, NEW j, NEW n,
           ChainAt(p, q, z, s, v, x, a, j, n)
    PROVE  /\ v = Link(j, n) => Trace[z] = State(s, a, <<>>)
           /\ v = Link(j, n) \/ Rejected(z)
<1>0. /\ q = p + 24 /\ z = p + 27 /\ s \in Stacks /\ v \in Elements /\ x \in Elements
      /\ j \in Int /\ n \in 0 .. 3 /\ x.kind = "num" /\ x.n = n
      /\ Block(p, Hashes) /\ Block(q, ChainEnd(j)) /\ Trace[p] = State(s ++ v ++ x, a, <<>>)
    BY DEF ChainAt
<1> USE <1>0
<1>1. /\ Block(p, HashBelow(0)) /\ Block(p + 8, HashBelow(1)) /\ Block(p + 16, HashBelow(2))
      /\ p \in Nat \ {0}
    BY HashesAre DEF Block
<1> DEFINE one == IF x.n <= 0 THEN Sha256Of(v) ELSE v
<1> DEFINE two == IF x.n <= 1 THEN Sha256Of(one) ELSE one
<1> DEFINE three == IF x.n <= 2 THEN Sha256Of(two) ELSE two
<1>3. one \in Elements /\ two \in Elements /\ three \in Elements
    BY ShaType
<1>4. Trace[p + 8] = State(s ++ one ++ x, a, <<>>)
  <2> DEFINE t == 0
  <2>1. t \in Int /\ Block(p, HashBelow(t))
      BY <1>1
  <2>2. one = IF x.n <= t THEN Sha256Of(v) ELSE v
      OBVIOUS
  <2> HIDE DEF t, one
  <2> QED BY <2>1, <2>2, HashBelowRuns
<1>5. Trace[p + 16] = State(s ++ two ++ x, a, <<>>)
  <2> DEFINE t == 1
  <2> DEFINE k == p + 8
  <2>1. t \in Int /\ Block(k, HashBelow(t)) /\ k + 8 = p + 16
        /\ Trace[k] = State(s ++ one ++ x, a, <<>>)
      BY <1>1, <1>4
  <2>2. two = IF x.n <= t THEN Sha256Of(one) ELSE one
      OBVIOUS
  <2> HIDE DEF t, one, two, k
  <2>3. Trace[k + 8] = State(s ++ (IF x.n <= t THEN Sha256Of(one) ELSE one) ++ x, a, <<>>)
      BY <1>3, <2>1, HashBelowRuns
  <2> QED BY <2>1, <2>2, <2>3
<1>6. Trace[p + 24] = State(s ++ three ++ x, a, <<>>)
  <2> DEFINE t == 2
  <2> DEFINE k == p + 16
  <2>1. t \in Int /\ Block(k, HashBelow(t)) /\ k + 8 = p + 24
        /\ Trace[k] = State(s ++ two ++ x, a, <<>>)
      BY <1>1, <1>5
  <2>2. three = IF x.n <= t THEN Sha256Of(two) ELSE two
      OBVIOUS
  <2> HIDE DEF t, two, three, k
  <2>3. Trace[k + 8] = State(s ++ (IF x.n <= t THEN Sha256Of(two) ELSE two) ++ x, a, <<>>)
      BY <1>3, <2>1, HashBelowRuns
  <2> QED BY <2>1, <2>2, <2>3
<1>7. three = Link(j, Radix - 1) <=> v = Link(j, n)
  <2> DEFINE m == x.n
  <2>1. /\ one = IF m <= 0 THEN Sha256Of(v) ELSE v
        /\ two = IF m <= 1 THEN Sha256Of(one) ELSE one
        /\ three = IF m <= 2 THEN Sha256Of(two) ELSE two
        /\ m \in 0 .. 3
      OBVIOUS
  <2> HIDE DEF m, one, two, three
  <2>2. three = Link(j, 3) <=> v = Link(j, m)
      BY <2>1, HashedIs
  <2>3. Radix - 1 = 3
      BY DEF Radix
  <2> QED BY <2>2, <2>3 DEF m
<1> HIDE DEF one, two, three
<1>8. /\ Block(q, ChainEnd(j))
      /\ Trace[q] = State(s ++ three ++ x, a, <<>>) /\ z = q + 3
    BY <1>1, <1>6
<1>9. /\ Block(q, ChainEnd(j))
      /\ Trace[q] = State(s ++ three ++ x, a, <<>>)
      /\ s \in Stacks /\ three \in Elements /\ x \in Elements /\ j \in Int /\ z = q + 3
    BY <1>3, <1>8
<1>10. /\ three = Link(j, Radix - 1) => Trace[z] = State(s, a, <<>>)
       /\ three = Link(j, Radix - 1) \/ Rejected(z)
  <2>1. /\ three = Link(j, Radix - 1) => Trace[q + 3] = State(s, a, <<>>)
        /\ three = Link(j, Radix - 1) \/ Rejected(q + 3)
      BY ONLY <1>9, LinkRuns
  <2> QED BY ONLY <1>9, <2>1
<1> QED BY <1>7, <1>8, <1>10

-----------------------------------------------------------------------------
(* Sums and numbers of any digits are integers.                            *)
LEMMA SumType ==
    ASSUME NEW n \in Nat, NEW d, \A i \in 1 .. n : d[i] \in Int
    PROVE  \A k \in 0 .. n : Lacks(d, k) \in Int
<1> DEFINE G == {k \in Nat : Lacks(d, k) \in Int}
<1>1. 0 \in G
    BY SumNext
<1>2. ASSUME NEW k \in 0 .. n - 1, k \in G
      PROVE  k + 1 \in G
  <2>1. Lacks(d, k + 1) = Lacks(d, k) + (4 - 1 - d[(k + 1)])
      BY SumNext DEF Radix
  <2>2. Lacks(d, k) \in Int /\ k + 1 \in 1 .. n /\ d[(k + 1)] \in Int
      BY <1>2
  <2> QED BY <2>1, <2>2
<1> HIDE DEF G
<1>3. \A k \in 0 .. n : k \in G
    BY <1>1, <1>2, Upto
<1> QED BY <1>3 DEF G

(* The number digits write is a number.                                    *)
LEMMA HornerType ==
    ASSUME NEW n \in Nat, NEW c, \A i \in 1 .. n : c[i] \in Int
    PROVE  \A k \in 0 .. n : Horner(c, k) \in Int
<1> DEFINE G == {k \in Nat : Horner(c, k) \in Int}
<1>1. 0 \in G
    BY HornerNext
<1>2. ASSUME NEW k \in 0 .. n - 1, k \in G
      PROVE  k + 1 \in G
  <2>1. Horner(c, k + 1) = 4 * Horner(c, k) + c[(k + 1)]
      BY HornerNext DEF Radix
  <2>2. Horner(c, k) \in Int /\ k + 1 \in 1 .. n /\ c[(k + 1)] \in Int
      BY <1>2
  <2> QED BY <2>1, <2>2
<1> HIDE DEF G
<1>3. \A k \in 0 .. n : k \in G
    BY <1>1, <1>2, Upto
<1> QED BY <1>3 DEF G

-----------------------------------------------------------------------------
(* The four parts of a digit's code.                                       *)
LEMMA DigitBlocks ==
    ASSUME NEW j \in Int, NEW count \in Int, NEW b, NEW n \in {4, 8},
           n = IF j <= count THEN 4 ELSE 8, b = IF j <= count THEN AddDigit ELSE HornerStep
    PROVE  /\ WotsDigit(j, count) \in Codes /\ Len(WotsDigit(j, count)) = n + 32
           /\ \A p : Block(p, WotsDigit(j, count)) =>
                 /\ Block(p, InTable(Radix)) /\ Block(p + 5, b) /\ Block(p + (n + 5), Hashes)
                 /\ Block(p + (n + 29), ChainEnd(j)) /\ p \in Nat
<1> DEFINE a == InRange
<1> DEFINE h == Hashes
<1> DEFINE e == ChainEnd(j)
<1>1. a \in Codes /\ Len(a) = 5 /\ h \in Codes /\ Len(h) = 24 /\ e \in Codes /\ Len(e) = 3
    BY CandidateCodes, HashesAre
<1>2. b \in Codes /\ Len(b) = n
    BY CandidateCodes
<1>3. WotsDigit(j, count) = a \o b \o h \o e
    BY DEF WotsDigit, Hashes, ChainEnd
<1>4. a = InTable(Radix)
    BY DEF InRange, InTable
<1> HIDE DEF a, h, e
<1> DEFINE ab == a \o b
<1> DEFINE abh == ab \o h
<1>5. ab \in Codes /\ Len(ab) = n + 5
  <2>1. a \in Seq(Instructions) /\ b \in Seq(Instructions)
      BY <1>1, <1>2 DEF Codes
  <2>2. a \o b \in Seq(Instructions) /\ Len(a \o b) = Len(a) + Len(b)
      BY ONLY <2>1, ConcatProperties
  <2> QED BY <1>1, <1>2, <2>2 DEF Codes
<1>6. WotsDigit(j, count) = abh \o e
    BY <1>3
<1> HIDE DEF ab
<1>7. abh \in Codes /\ Len(abh) = n + 29
  <2>1. ab \in Seq(Instructions) /\ h \in Seq(Instructions)
      BY <1>1, <1>5 DEF Codes
  <2>2. ab \o h \in Seq(Instructions) /\ Len(ab \o h) = Len(ab) + Len(h)
      BY ONLY <2>1, ConcatProperties
  <2>3. (n + 5) + 24 = n + 29
      OBVIOUS
  <2> QED BY <1>1, <1>5, <2>2, <2>3 DEF Codes
<1>8. abh = ab \o h
    OBVIOUS
<1> HIDE DEF abh
<1>9. abh \o e \in Codes /\ Len(abh \o e) = n + 32
  <2>1. abh \in Seq(Instructions) /\ e \in Seq(Instructions)
      BY <1>1, <1>7 DEF Codes
  <2>2. abh \o e \in Seq(Instructions) /\ Len(abh \o e) = Len(abh) + Len(e)
      BY ONLY <2>1, ConcatProperties
  <2>3. (n + 29) + 3 = n + 32
      OBVIOUS
  <2> QED BY <1>1, <1>7, <2>2, <2>3 DEF Codes
<1>10. ASSUME NEW p, Block(p, WotsDigit(j, count))
       PROVE  /\ Block(p, a) /\ Block(p + 5, b) /\ Block(p + (n + 5), h)
              /\ Block(p + (n + 29), e) /\ p \in Nat
  <2>1. Block(p, abh \o e) /\ abh \in Codes /\ e \in Codes
      BY <1>1, <1>6, <1>7, <1>10
  <2>2. Block(p, abh) /\ Block(p + Len(abh), e)
      BY ONLY <2>1, BlockSplits
  <2>3. Block(p, ab \o h) /\ ab \in Codes /\ h \in Codes
      BY <1>1, <1>5, <1>8, <2>2
  <2>4. Block(p, ab) /\ Block(p + Len(ab), h)
      BY ONLY <2>3, BlockSplits
  <2>5. Block(p, a \o b) /\ a \in Codes /\ b \in Codes
      BY <1>1, <1>2, <2>4 DEF ab
  <2>6. Block(p, a) /\ Block(p + Len(a), b)
      BY ONLY <2>5, BlockSplits
  <2>7. Len(a) = 5 /\ Len(ab) = n + 5 /\ Len(abh) = n + 29
      BY <1>1, <1>5, <1>7
  <2>8. p \in Nat
      BY <1>10 DEF Block
  <2> QED BY ONLY <2>2, <2>4, <2>6, <2>7, <2>8
<1> QED BY <1>4, <1>6, <1>9, <1>10 DEF h, e

-----------------------------------------------------------------------------
(* A digit and its value that the script lets pass.                        *)
Suits(j, v, x) == x.kind = "num" /\ x.n \in 0 .. 3 /\ v = Link(j, x.n)

(* A digit of the message is added to the sum.                             *)
LEMMA SumDigitRuns ==
    ASSUME NEW p, NEW s \in Stacks, NEW v \in Elements, NEW x \in Elements, NEW a \in Stacks,
           NEW y \in Elements, y.kind = "num", NEW j \in Int, NEW count \in Int, j <= count,
           Block(p, WotsDigit(j, count)),
           Trace[p] = State(s ++ v ++ x, a ++ y, <<>>)
    PROVE  /\ Suits(j, v, x) => Trace[p + 36] = State(s, a ++ Num(x.n + y.n), <<>>)
           /\ Suits(j, v, x) \/ Rejected(p + 36)
<1> DEFINE r == s ++ v
<1> DEFINE t == a ++ y
<1> DEFINE u == a ++ Num(x.n + y.n)
<1>1. r \in Stacks
    BY Grows
<1>2. /\ Block(p, InTable(Radix)) /\ Block(p + 5, AddDigit) /\ Block(p + 9, Hashes)
      /\ Block(p + 33, ChainEnd(j)) /\ p \in Nat \ {0} /\ Len(Script) \in Nat
      /\ p + 35 <= Len(Script)
  <2> DEFINE n == 4
  <2> DEFINE b == AddDigit
  <2>1. n \in {4, 8} /\ n = (IF j <= count THEN 4 ELSE 8)
        /\ b = IF j <= count THEN AddDigit ELSE HornerStep
      OBVIOUS
  <2>2. n + 5 = 9 /\ n + 29 = 33 /\ n + 32 = 36
      OBVIOUS
  <2> HIDE DEF n, b
  <2>3. /\ Len(WotsDigit(j, count)) = n + 32
        /\ \A q : Block(q, WotsDigit(j, count)) =>
              /\ Block(q, InTable(Radix)) /\ Block(q + 5, b) /\ Block(q + (n + 5), Hashes)
              /\ Block(q + (n + 29), ChainEnd(j)) /\ q \in Nat
      BY <2>1, DigitBlocks
  <2>4. /\ Block(p, InTable(Radix)) /\ Block(p + 5, b) /\ Block(p + 9, Hashes)
        /\ Block(p + 33, ChainEnd(j)) /\ Len(WotsDigit(j, count)) = 36
      BY <2>2, <2>3
  <2>5. p \in Nat \ {0} /\ Len(Script) \in Nat /\ p + 36 - 1 <= Len(Script)
      BY <2>4 DEF Block
  <2> QED BY <2>4, <2>5 DEF b
<1>3. Trace[p] = State(r ++ x, t, <<>>)
    OBVIOUS
<1> HIDE DEF r, t, u
<1> DEFINE e == x.kind = "num" /\ x.n \in 0 .. 3
<1>4. IF e THEN Trace[p + 5] = State(r ++ x, t, <<>>) ELSE Rejected(p + 5)
  <2> DEFINE n == Radix
  <2>1. n \in Int /\ Block(p, InTable(n)) /\ n - 1 = 3
      BY <1>2 DEF Radix
  <2> HIDE DEF n
  <2>2. IF x.kind = "num" /\ x.n \in 0 .. n - 1
        THEN Trace[p + 5] = State(r ++ x, t, <<>>) ELSE Rejected(p + 5)
      BY <1>1, <1>3, <2>1, InTableRuns
  <2> QED BY <2>1, <2>2
<1>5. CASE e
  <2> DEFINE q == p + 5
  <2> DEFINE k == p + 9
  <2> DEFINE n == x.n
  <2> DEFINE m == p + 33
  <2> DEFINE z == p + 36
  <2>1. Block(q, AddDigit) /\ Trace[q] = State(r ++ x, a ++ y, <<>>) /\ q + 4 = k
      BY <1>2, <1>4, <1>5 DEF t
  <2> HIDE DEF q
  <2>2. Trace[q + 4] = State(r ++ x, a ++ Num(x.n + y.n), <<>>)
      BY <1>1, <1>5, <2>1, AddDigitRuns
  <2>3. /\ Trace[k] = State(s ++ v ++ x, u, <<>>) /\ Block(k, Hashes) /\ Block(m, ChainEnd(j))
        /\ m = k + 24 /\ z = k + 27
      BY <1>2, <2>1, <2>2 DEF r, u
  <2>4. /\ m = k + 24 /\ z = k + 27 /\ Block(k, Hashes) /\ Block(m, ChainEnd(j))
           /\ Trace[k] = State(s ++ v ++ x, u, <<>>)
        /\ s \in Stacks /\ v \in Elements /\ x \in Elements /\ j \in Int
        /\ x.kind = "num" /\ x.n = n /\ n \in 0 .. 3
      BY <1>5, <2>3
  <2> HIDE DEF k, e, m, n, z
  <2>5. /\ v = Link(j, n) => Trace[z] = State(s, u, <<>>)
        /\ v = Link(j, n) \/ Rejected(z)
    <3>1. ChainAt(k, m, z, s, v, x, u, j, n)
        BY ONLY <2>4 DEF ChainAt
    <3> QED BY ONLY <3>1, ChainRuns
  <2> QED BY <2>3, <2>4, <2>5 DEF Suits, u, z, n
<1>6. CASE ~e
  <2>1. p + 5 \in 1 .. Len(Script) + 1 /\ p + 36 \in p + 5 .. Len(Script) + 1
      BY <1>2
  <2>2. Rejected(p + 5)
      BY <1>4, <1>6
  <2>3. Rejected(p + 36)
      BY <1>2, <2>1, <2>2, RejectedStays
  <2>4. ~Suits(j, v, x)
      BY <1>6 DEF Suits
  <2> QED BY <2>3, <2>4
<1> QED BY <1>5, <1>6

(* A digit of the checksum extends its number.                             *)
LEMMA CheckDigitRuns ==
    ASSUME NEW p, NEW s \in Stacks, NEW v \in Elements, NEW x \in Elements, NEW a \in Stacks,
           NEW y \in Elements, y.kind = "num", NEW j \in Int, NEW count \in Int, ~(j <= count),
           Block(p, WotsDigit(j, count)),
           Trace[p] = State(s ++ v ++ x, a ++ y, <<>>)
    PROVE  /\ Suits(j, v, x) => Trace[p + 40] = State(s, a ++ Num(4 * y.n + x.n), <<>>)
           /\ Suits(j, v, x) \/ Rejected(p + 40)
<1> DEFINE r == s ++ v
<1> DEFINE t == a ++ y
<1> DEFINE u == a ++ Num(4 * y.n + x.n)
<1>1. r \in Stacks
    BY Grows
<1>2. /\ Block(p, InTable(Radix)) /\ Block(p + 5, HornerStep) /\ Block(p + 13, Hashes)
      /\ Block(p + 37, ChainEnd(j)) /\ p \in Nat \ {0} /\ Len(Script) \in Nat
      /\ p + 39 <= Len(Script)
  <2> DEFINE n == 8
  <2> DEFINE b == HornerStep
  <2>1. n \in {4, 8} /\ n = (IF j <= count THEN 4 ELSE 8)
        /\ b = IF j <= count THEN AddDigit ELSE HornerStep
      OBVIOUS
  <2>2. n + 5 = 13 /\ n + 29 = 37 /\ n + 32 = 40
      OBVIOUS
  <2> HIDE DEF n, b
  <2>3. /\ Len(WotsDigit(j, count)) = n + 32
        /\ \A q : Block(q, WotsDigit(j, count)) =>
              /\ Block(q, InTable(Radix)) /\ Block(q + 5, b) /\ Block(q + (n + 5), Hashes)
              /\ Block(q + (n + 29), ChainEnd(j)) /\ q \in Nat
      BY <2>1, DigitBlocks
  <2>4. /\ Block(p, InTable(Radix)) /\ Block(p + 5, b) /\ Block(p + 13, Hashes)
        /\ Block(p + 37, ChainEnd(j)) /\ Len(WotsDigit(j, count)) = 40
      BY <2>2, <2>3
  <2>5. p \in Nat \ {0} /\ Len(Script) \in Nat /\ p + 40 - 1 <= Len(Script)
      BY <2>4 DEF Block
  <2> QED BY <2>4, <2>5 DEF b
<1>3. Trace[p] = State(r ++ x, t, <<>>)
    OBVIOUS
<1> HIDE DEF r, t, u
<1> DEFINE e == x.kind = "num" /\ x.n \in 0 .. 3
<1>4. IF e THEN Trace[p + 5] = State(r ++ x, t, <<>>) ELSE Rejected(p + 5)
  <2> DEFINE n == Radix
  <2>1. n \in Int /\ Block(p, InTable(n)) /\ n - 1 = 3
      BY <1>2 DEF Radix
  <2> HIDE DEF n
  <2>2. IF x.kind = "num" /\ x.n \in 0 .. n - 1
        THEN Trace[p + 5] = State(r ++ x, t, <<>>) ELSE Rejected(p + 5)
      BY <1>1, <1>3, <2>1, InTableRuns
  <2> QED BY <2>1, <2>2
<1>5. CASE e
  <2> DEFINE q == p + 5
  <2> DEFINE k == p + 13
  <2> DEFINE n == x.n
  <2> DEFINE m == p + 37
  <2> DEFINE z == p + 40
  <2> DEFINE twice == Num(y.n + y.n)
  <2> DEFINE four == Num(twice.n + twice.n)
  <2>1. Block(q, HornerStep) /\ Trace[q] = State(r ++ x, a ++ y, <<>>) /\ q + 8 = k
      BY <1>2, <1>4, <1>5 DEF t
  <2>2. /\ twice \in Elements /\ four \in Elements /\ four.n + x.n = 4 * y.n + x.n
    <3>1. y.n \in Int /\ x.n \in Int
        BY DEF Elements
    <3>2. y.n + y.n \in Int
        BY <3>1
    <3>3. twice \in Elements /\ twice.n = y.n + y.n
        BY <3>2, NumberIs
    <3>4. twice.n + twice.n \in Int
        BY <3>2, <3>3
    <3>5. four \in Elements /\ four.n = twice.n + twice.n
        BY <3>4, NumberIs
    <3> HIDE DEF twice, four
    <3> QED BY <3>1, <3>3, <3>5
  <2>3. twice = Num(y.n + y.n) /\ four = Num(twice.n + twice.n)
      OBVIOUS
  <2> HIDE DEF q, twice, four
  <2>4. Trace[q + 8] = State(r ++ x, a ++ Num(four.n + x.n), <<>>)
      BY <1>1, <1>5, <2>1, <2>2, <2>3, HornerRuns
  <2>5. /\ Trace[k] = State(s ++ v ++ x, u, <<>>) /\ Block(k, Hashes) /\ Block(m, ChainEnd(j))
        /\ m = k + 24 /\ z = k + 27
      BY <1>2, <2>1, <2>2, <2>4 DEF r, u
  <2>6. /\ m = k + 24 /\ z = k + 27 /\ Block(k, Hashes) /\ Block(m, ChainEnd(j))
           /\ Trace[k] = State(s ++ v ++ x, u, <<>>)
        /\ s \in Stacks /\ v \in Elements /\ x \in Elements /\ j \in Int
        /\ x.kind = "num" /\ x.n = n /\ n \in 0 .. 3
      BY <1>5, <2>5
  <2> HIDE DEF k, e, m, n, z
  <2>7. /\ v = Link(j, n) => Trace[z] = State(s, u, <<>>)
        /\ v = Link(j, n) \/ Rejected(z)
    <3>1. ChainAt(k, m, z, s, v, x, u, j, n)
        BY ONLY <2>6 DEF ChainAt
    <3> QED BY ONLY <3>1, ChainRuns
  <2> QED BY <2>5, <2>6, <2>7 DEF Suits, u, z, n
<1>6. CASE ~e
  <2>1. p + 5 \in 1 .. Len(Script) + 1 /\ p + 40 \in p + 5 .. Len(Script) + 1
      BY <1>2
  <2>2. Rejected(p + 5)
      BY <1>4, <1>6
  <2>3. Rejected(p + 40)
      BY <1>2, <2>1, <2>2, RejectedStays
  <2>4. ~Suits(j, v, x)
      BY <1>6 DEF Suits
  <2> QED BY <2>3, <2>4
<1> QED BY <1>5, <1>6

-----------------------------------------------------------------------------
(* The digits a Winternitz spend shows, of the message and of the checksum,*)
(* and the alternate stack after k of them.                                *)
Shown == [i \in 1 .. Len(signed) |-> SuppliedDigit(i).n]
ShownSum(n) == [i \in 1 .. Len(signed) |-> SuppliedDigit(n + i).n]
AltAt(n, k) ==
    IF k <= n THEN <<>> ++ Num(3 * k - Lacks(Shown, k))
              ELSE <<>> ++ Num(3 * n - Lacks(Shown, n)) ++ Num(Horner(ShownSum(n), k - n))
PlaceCode(n, k) == (IF k = n + 1 THEN StartSum ELSE <<>>) \o WotsDigit(k, n)

(* Sums and numbers of what is shown.                                      *)
LEMMA ShownIs ==
    ASSUME CandidateGiven, NEW n \in Nat, n <= Len(signed)
    PROVE  /\ \A k \in 0 .. n : Lacks(Shown, k) \in Int
           /\ \A k \in 1 .. n : Lacks(Shown, k) = Lacks(Shown, k - 1) + (3 - SuppliedDigit(k).n)
           /\ \A k \in 0 .. Len(signed) - n : Horner(ShownSum(n), k) \in Int
           /\ \A k \in 1 .. Len(signed) - n :
                 Horner(ShownSum(n), k) = 4 * Horner(ShownSum(n), k - 1) + SuppliedDigit(n + k).n
           /\ Lacks(Shown, 0) = 0 /\ Horner(ShownSum(n), 0) = 0
<1>1. Len(signed) \in Nat
    BY LenProperties DEF CandidateGiven
<1>2. \A i \in 1 .. Len(signed) : SuppliedDigit(i).n \in Int
    BY PlaceIs DEF Elements
<1> DEFINE d == Shown
<1> DEFINE e == ShownSum(n)
<1> DEFINE m == Len(signed) - n
<1>3. /\ m \in Nat /\ \A i \in 1 .. n : d[i] = SuppliedDigit(i).n /\ d[i] \in Int
      /\ \A i \in 1 .. m : e[i] = SuppliedDigit(n + i).n /\ e[i] \in Int
  <2>1. m \in Nat
      BY <1>1
  <2>2. ASSUME NEW i \in 1 .. n
        PROVE  d[i] = SuppliedDigit(i).n /\ d[i] \in Int
    <3>1. i \in 1 .. Len(signed)
        BY <1>1
    <3> QED BY <1>2, <3>1 DEF Shown
  <2>3. ASSUME NEW i \in 1 .. m
        PROVE  e[i] = SuppliedDigit(n + i).n /\ e[i] \in Int
    <3>1. i \in 1 .. Len(signed) /\ n + i \in 1 .. Len(signed)
        BY <1>1
    <3> QED BY <1>2, <3>1 DEF ShownSum
  <2> QED BY <2>1, <2>2, <2>3
<1> HIDE DEF d, e, m
<1>4. \A k \in 0 .. n : Lacks(d, k) \in Int
    BY <1>3, SumType
<1>5. \A k \in 0 .. m : Horner(e, k) \in Int
    BY <1>3, HornerType
<1>6. ASSUME NEW k \in 1 .. n
      PROVE  Lacks(d, k) = Lacks(d, k - 1) + (3 - SuppliedDigit(k).n)
  <2> DEFINE i == k - 1
  <2>1. i \in Nat /\ i + 1 = k
      OBVIOUS
  <2> HIDE DEF i
  <2>2. Lacks(d, i + 1) = Lacks(d, i) + (4 - 1 - d[(i + 1)])
      BY <2>1, SumNext DEF Radix
  <2>3. Lacks(d, k) = Lacks(d, i) + (4 - 1 - SuppliedDigit(k).n)
      BY <1>3, <2>1, <2>2
  <2>4. 4 - 1 = 3
      OBVIOUS
  <2> QED BY <2>3, <2>4 DEF i
<1>7. ASSUME NEW k \in 1 .. m
      PROVE  Horner(e, k) = 4 * Horner(e, k - 1) + SuppliedDigit(n + k).n
  <2> DEFINE i == k - 1
  <2>1. i \in Nat /\ i + 1 = k
      BY <1>3
  <2> HIDE DEF i
  <2>2. Horner(e, i + 1) = 4 * Horner(e, i) + e[(i + 1)]
      BY <2>1, HornerNext DEF Radix
  <2>3. Horner(e, k) = 4 * Horner(e, i) + SuppliedDigit(n + k).n
      BY <1>3, <2>1, <2>2
  <2> QED BY <2>3 DEF i
<1>8. Lacks(d, 0) = 0 /\ Horner(e, 0) = 0
    BY SumNext, HornerNext
<1> QED BY <1>4, <1>5, <1>6, <1>7, <1>8 DEF d, e, m

(* The code of a place.                                                    *)
LEMMA PlaceCodeIs ==
    ASSUME NEW n \in Nat, NEW k \in Nat \ {0}
    PROVE  /\ PlaceCode(n, k) \in Codes
           /\ k = n + 1 => /\ Len(PlaceCode(n, k)) = 42
                           /\ \A p : Block(p, PlaceCode(n, k)) =>
                                 Block(p, StartSum) /\ Block(p + 2, WotsDigit(k, n)) /\ p \in Nat
           /\ k # n + 1 => PlaceCode(n, k) = WotsDigit(k, n)
           /\ Len(WotsDigit(k, n)) = IF k <= n THEN 36 ELSE 40
<1> DEFINE w == WotsDigit(k, n)
<1>1. w \in Codes /\ Len(w) = IF k <= n THEN 36 ELSE 40
  <2> DEFINE m == IF k <= n THEN 4 ELSE 8
  <2> DEFINE b == IF k <= n THEN AddDigit ELSE HornerStep
  <2>1. m \in {4, 8} /\ m = (IF k <= n THEN 4 ELSE 8) /\ b = IF k <= n THEN AddDigit ELSE HornerStep
      OBVIOUS
  <2>2. k \in Int /\ n \in Int
      OBVIOUS
  <2> HIDE DEF m, b
  <2>3. WotsDigit(k, n) \in Codes /\ Len(WotsDigit(k, n)) = m + 32
      BY <2>1, <2>2, DigitBlocks
  <2> QED BY <2>1, <2>3
<1> HIDE DEF w
<1>2. CASE k = n + 1
  <2> DEFINE b == StartSum
  <2>1. b \in Codes /\ Len(b) = 2 /\ PlaceCode(n, k) = b \o w
      BY <1>2, CandidateCodes DEF PlaceCode, w
  <2> HIDE DEF b
  <2>2. b \in Seq(Instructions) /\ w \in Seq(Instructions)
      BY <1>1, <2>1 DEF Codes
  <2>3. b \o w \in Seq(Instructions) /\ Len(b \o w) = Len(b) + Len(w)
      BY ONLY <2>2, ConcatProperties
  <2>4. Len(w) = 40
      BY <1>1, <1>2
  <2>5. b \o w \in Codes /\ Len(b \o w) = 42
      BY <2>1, <2>3, <2>4 DEF Codes
  <2>6. ASSUME NEW p, Block(p, PlaceCode(n, k))
        PROVE  Block(p, b) /\ Block(p + 2, w) /\ p \in Nat
    <3>1. Block(p, b \o w) /\ b \in Codes /\ w \in Codes
        BY <1>1, <2>1, <2>6
    <3>2. Block(p, b) /\ Block(p + Len(b), w)
        BY ONLY <3>1, BlockSplits
    <3> QED BY <2>1, <3>2 DEF Block
  <2> QED BY <1>1, <1>2, <2>1, <2>5, <2>6 DEF b, w
<1>3. CASE k # n + 1
  <2>1. PlaceCode(n, k) = <<>> \o w
      BY <1>3 DEF PlaceCode, w
  <2>2. w \in Seq(Instructions)
      BY <1>1 DEF Codes
  <2>3. PlaceCode(n, k) = w
      BY <2>1, <2>2, ConcatEmptySeq
  <2> QED BY <1>1, <1>3, <2>3 DEF w
<1> QED BY <1>2, <1>3

-----------------------------------------------------------------------------
(* One place of a Winternitz spend.                                        *)
PlaceAt(n, k, q, z) ==
    /\ CandidateGiven /\ n \in Nat /\ n <= Len(signed) /\ k \in 1 .. Len(signed)
    /\ Block(q, PlaceCode(n, k)) /\ z = q + Len(PlaceCode(n, k))
    /\ Trace[q] = State(Rest(k - 1), AltAt(n, k - 1), <<>>)
PlacePasses(n, k, z) ==
    /\ Suits(k, SuppliedValue(k), SuppliedDigit(k)) =>
          Trace[z] = State(Rest(k), AltAt(n, k), <<>>)
    /\ Suits(k, SuppliedValue(k), SuppliedDigit(k)) \/ Rejected(z)

(* The next digit of the message.                                          *)
LEMMA SumPlace ==
    ASSUME NEW n, NEW k, NEW q, NEW z, PlaceAt(n, k, q, z), k <= n
    PROVE  PlacePasses(n, k, z)
<1> DEFINE s == Rest(k)
<1> DEFINE v == SuppliedValue(k)
<1> DEFINE x == SuppliedDigit(k)
<1> DEFINE e == 3 * (k - 1) - Lacks(Shown, k - 1)
<1> DEFINE none == <<>>
<1> DEFINE y == Num(e)
<1>1. /\ CandidateGiven /\ n \in Nat /\ n <= Len(signed) /\ k \in 1 .. Len(signed)
      /\ Len(signed) \in Nat
    BY LenProperties DEF PlaceAt, CandidateGiven
<1>2. /\ s \in Stacks /\ v \in Elements /\ x \in Elements /\ Rest(k - 1) = s ++ v ++ x
      /\ none \in Stacks /\ k \in Int /\ n \in Int /\ x.n \in Int
  <2>1. s \in Stacks /\ v \in Elements /\ x \in Elements /\ Rest(k - 1) = s ++ v ++ x
      BY <1>1, PlaceIs
  <2>2. none \in Stacks /\ k \in Int /\ n \in Int
      BY <1>1 DEF Stacks
  <2> HIDE DEF s, v, x, none
  <2>3. x.n \in Int
      BY <2>1 DEF Elements
  <2> QED BY <2>1, <2>2, <2>3
<1>3. /\ k \in 1 .. n /\ k - 1 \in 0 .. n /\ k \in 0 .. n /\ k - 1 <= n /\ k # n + 1
         /\ k \in Nat \ {0}
    BY <1>1
<1>4. /\ Lacks(Shown, k - 1) \in Int /\ Lacks(Shown, k) = Lacks(Shown, k - 1) + (3 - x.n)
    BY <1>1, <1>3, ShownIs
<1>5. e \in Int /\ x.n + e = 3 * k - Lacks(Shown, k)
  <2> DEFINE b == Lacks(Shown, k - 1)
  <2> DEFINE c == Lacks(Shown, k)
  <2> DEFINE f == x.n
  <2>1. b \in Int /\ c = b + (3 - f) /\ f \in Int /\ k \in Int
      BY <1>2, <1>4
  <2> HIDE DEF b, c, f
  <2>2. 3 * (k - 1) - b \in Int /\ f + (3 * (k - 1) - b) = 3 * k - c
      BY ONLY <2>1
  <2> QED BY <2>2 DEF b, c, f
<1>6. y \in Elements /\ y.kind = "num" /\ y.n = e
    BY <1>5, NumberIs
<1>7. AltAt(n, k - 1) = none ++ y /\ AltAt(n, k) = none ++ Num(x.n + y.n)
  <2>1. AltAt(n, k - 1) = none ++ y
      BY <1>3 DEF AltAt
  <2>2. AltAt(n, k) = none ++ Num(3 * k - Lacks(Shown, k))
      BY <1>3 DEF AltAt
  <2> QED BY <1>5, <1>6, <2>1, <2>2
<1>8. PlaceCode(n, k) = WotsDigit(k, n) /\ Len(WotsDigit(k, n)) = 36
    BY <1>1, <1>3, PlaceCodeIs
<1>9. z = q + 36 /\ Block(q, WotsDigit(k, n))
      /\ Trace[q] = State(Rest(k - 1), AltAt(n, k - 1), <<>>)
    BY <1>8 DEF PlaceAt
<1> HIDE DEF s, v, x, e, none, y
<1> DEFINE t == AltAt(n, k)
<1>10. Trace[q] = State(s ++ v ++ x, none ++ y, <<>>)
    BY <1>2, <1>7, <1>9
<1>11. /\ Suits(k, v, x) => Trace[q + 36] = State(s, none ++ Num(x.n + y.n), <<>>)
       /\ Suits(k, v, x) \/ Rejected(q + 36)
    BY <1>2, <1>3, <1>6, <1>9, <1>10, SumDigitRuns
<1> QED BY <1>7, <1>9, <1>11 DEF PlacePasses, s, v, x

(* The next digit of the checksum.                                         *)
LEMMA CheckPlace ==
    ASSUME NEW n, NEW k, NEW q, NEW z, PlaceAt(n, k, q, z), ~(k <= n)
    PROVE  PlacePasses(n, k, z)
<1> DEFINE s == Rest(k)
<1> DEFINE v == SuppliedValue(k)
<1> DEFINE x == SuppliedDigit(k)
<1> DEFINE sum == Num(3 * n - Lacks(Shown, n))
<1> DEFINE e == Horner(ShownSum(n), (k - n) - 1)
<1> DEFINE none == <<>>
<1> DEFINE a == none ++ sum
<1> DEFINE y == Num(e)
<1>1. /\ CandidateGiven /\ n \in Nat /\ n <= Len(signed) /\ k \in 1 .. Len(signed)
      /\ Len(signed) \in Nat
    BY LenProperties DEF PlaceAt, CandidateGiven
<1>2. /\ s \in Stacks /\ v \in Elements /\ x \in Elements /\ Rest(k - 1) = s ++ v ++ x
      /\ none \in Stacks /\ k \in Int /\ n \in Int /\ x.n \in Int
  <2>1. s \in Stacks /\ v \in Elements /\ x \in Elements /\ Rest(k - 1) = s ++ v ++ x
      BY <1>1, PlaceIs
  <2>2. none \in Stacks /\ k \in Int /\ n \in Int
      BY <1>1 DEF Stacks
  <2> HIDE DEF s, v, x, none
  <2>3. x.n \in Int
      BY <2>1 DEF Elements
  <2> QED BY <2>1, <2>2, <2>3
<1>3. /\ k - n \in 1 .. Len(signed) - n /\ (k - n) - 1 \in 0 .. Len(signed) - n /\ n \in 0 .. n
      /\ n + (k - n) = k /\ k \in Nat \ {0}
    BY <1>1
<1>4. /\ e \in Int /\ Horner(ShownSum(n), k - n) = 4 * e + x.n /\ Lacks(Shown, n) \in Int
      /\ Lacks(Shown, 0) = 0 /\ Horner(ShownSum(n), 0) = 0
  <2> DEFINE m == k - n
  <2>1. m \in 1 .. Len(signed) - n /\ m - 1 \in 0 .. Len(signed) - n /\ n + m = k
      BY <1>3
  <2> HIDE DEF m
  <2>2. Horner(ShownSum(n), m) = 4 * Horner(ShownSum(n), m - 1) + SuppliedDigit(n + m).n
      BY <1>1, <2>1, ShownIs
  <2>3. Horner(ShownSum(n), m - 1) \in Int /\ Lacks(Shown, n) \in Int
      BY <1>1, <1>3, <2>1, ShownIs
  <2>4. Lacks(Shown, 0) = 0 /\ Horner(ShownSum(n), 0) = 0
      BY <1>1, ShownIs
  <2> QED BY <2>1, <2>2, <2>3, <2>4 DEF m
<1>5. y \in Elements /\ y.kind = "num" /\ y.n = e /\ sum \in Elements /\ a \in Stacks
  <2>1. 3 * n - Lacks(Shown, n) \in Int
      BY <1>1, <1>4
  <2>2. sum \in Elements
      BY <2>1, NumberIs
  <2>3. a \in Stacks
    <3> HIDE DEF sum, none
    <3> QED BY <1>2, <2>2, Grows
  <2> QED BY <1>4, <2>2, <2>3, NumberIs
<1>6. AltAt(n, k) = a ++ Num(4 * y.n + x.n)
  <2>1. AltAt(n, k) = a ++ Num(Horner(ShownSum(n), k - n))
      BY DEF AltAt
  <2> QED BY <1>4, <1>5, <2>1
<1>7. k = n + 1 => AltAt(n, k - 1) = a /\ y = Num(0)
  <2> HAVE k = n + 1
  <2>1. k - 1 = n /\ (k - n) - 1 = 0 /\ n <= n
      BY <1>1
  <2>2. AltAt(n, k - 1) = a
      BY <2>1 DEF AltAt
  <2> QED BY <1>4, <2>1, <2>2
<1>8. k # n + 1 => AltAt(n, k - 1) = a ++ y
  <2> HAVE k # n + 1
  <2>1. ~(k - 1 <= n) /\ (k - 1) - n = (k - n) - 1
      BY <1>1
  <2>2. AltAt(n, k - 1) = a ++ Num(Horner(ShownSum(n), (k - 1) - n))
      BY <2>1 DEF AltAt
  <2> QED BY <2>1, <2>2
<1>9. /\ k = n + 1 => /\ Len(PlaceCode(n, k)) = 42
                      /\ Block(q, StartSum) /\ Block(q + 2, WotsDigit(k, n)) /\ q \in Nat
      /\ k # n + 1 => PlaceCode(n, k) = WotsDigit(k, n) /\ Len(PlaceCode(n, k)) = 40
      /\ Block(q, PlaceCode(n, k)) /\ z = q + Len(PlaceCode(n, k))
      /\ Trace[q] = State(Rest(k - 1), AltAt(n, k - 1), <<>>)
  <2>1. Block(q, PlaceCode(n, k))
      BY DEF PlaceAt
  <2>2. k = n + 1 => /\ Len(PlaceCode(n, k)) = 42
                     /\ Block(q, StartSum) /\ Block(q + 2, WotsDigit(k, n)) /\ q \in Nat
      BY <1>1, <1>3, <2>1, PlaceCodeIs
  <2>3. k # n + 1 => PlaceCode(n, k) = WotsDigit(k, n) /\ Len(PlaceCode(n, k)) = 40
      BY <1>1, <1>3, PlaceCodeIs
  <2> QED BY <2>1, <2>2, <2>3 DEF PlaceAt
<1> DEFINE p == IF k = n + 1 THEN q + 2 ELSE q
<1> HIDE DEF s, v, x, e, none, y, a
<1>10. /\ Block(p, WotsDigit(k, n)) /\ Trace[p] = State(s ++ v ++ x, a ++ y, <<>>) /\ p + 40 = z
  <2>1. CASE k = n + 1
    <3> DEFINE r == s ++ v ++ x
    <3>1. r \in Stacks /\ Trace[q] = State(r, a, <<>>) /\ Block(q, StartSum)
        BY <1>2, <1>7, <1>9, <2>1, Grows
    <3> HIDE DEF r
    <3>2. Trace[q + 2] = State(r, a ++ Num(0), <<>>)
        BY <3>1, StartSumRuns
    <3>3. p = q + 2 /\ p + 40 = z
      <4>1. p = q + 2 /\ q \in Nat /\ z = q + 42
          BY <1>9, <2>1
      <4> HIDE DEF p
      <4> QED BY ONLY <4>1
    <3> QED BY <1>7, <1>9, <2>1, <3>2, <3>3 DEF r
  <2>2. CASE k # n + 1
    <3>1. p = q /\ z = p + 40
        BY <1>9, <2>2
    <3> QED BY <1>2, <1>8, <1>9, <2>2, <3>1
  <2> QED BY <2>1, <2>2
<1> HIDE DEF p
<1>11. /\ Suits(k, v, x) => Trace[p + 40] = State(s, a ++ Num(4 * y.n + x.n), <<>>)
       /\ Suits(k, v, x) \/ Rejected(p + 40)
    BY <1>2, <1>5, <1>10, CheckDigitRuns
<1> QED BY <1>6, <1>10, <1>11 DEF PlacePasses, s, v, x

(* A place of the message or of the checksum passes exactly if its digit   *)
(* and value suit.                                                         *)
LEMMA PlaceRuns ==
    ASSUME NEW n, NEW k, NEW q, NEW z, PlaceAt(n, k, q, z)
    PROVE  PlacePasses(n, k, z)
BY SumPlace, CheckPlace

-----------------------------------------------------------------------------
(* A Winternitz spend passes when all its digits do, and the checksum is   *)
(* what the message lacks.                                                 *)
Balanced(n) == Horner(ShownSum(n), Len(signed) - n) + (3 * n - Lacks(Shown, n)) = n * 3
AllSuit == \A k \in 1 .. Len(signed) : Suits(k, SuppliedValue(k), SuppliedDigit(k))

(* The places, and the stacks between them.                                *)
WotsPlaces(n) == [j \in 1 .. Len(signed) |-> PlaceCode(n, j)]
WotsStates(n) == [k \in 0 .. Len(signed) |-> State(Rest(k), AltAt(n, k), <<>>)]
WotsGood == {k \in 1 .. Len(signed) : Suits(k, SuppliedValue(k), SuppliedDigit(k))}

(* The places of a Winternitz script, from state to state.                 *)
LEMMA WotsLeads ==
    ASSUME CandidateGiven, NEW n \in Nat, n <= Len(signed)
    PROVE  /\ WotsPlaces(n) \in Seq(Codes) /\ Len(WotsPlaces(n)) = Len(signed)
           /\ Leads(WotsPlaces(n), WotsStates(n), WotsGood)
<1> DEFINE s == WotsPlaces(n)
<1> DEFINE S == WotsStates(n)
<1> DEFINE m == Len(signed)
<1>1. m \in Nat
    BY LenProperties DEF CandidateGiven
<1>2. s \in Seq(Codes) /\ Len(s) = m /\ \A k \in 1 .. m : s[k] = PlaceCode(n, k)
  <2>1. s = [j \in 1 .. m |-> PlaceCode(n, j)]
      BY DEF WotsPlaces
  <2>2. \A j \in 1 .. m : PlaceCode(n, j) \in Codes
    <3> TAKE j \in 1 .. m
    <3>1. j \in Nat \ {0}
        BY <1>1
    <3> QED BY <3>1, PlaceCodeIs
  <2> HIDE DEF s, m
  <2> QED BY <1>1, <2>1, <2>2
<1>3. \A k \in 0 .. m : S[k] = State(Rest(k), AltAt(n, k), <<>>)
    BY DEF WotsStates
<1>4. \A k \in 1 .. m : k \in WotsGood <=> Suits(k, SuppliedValue(k), SuppliedDigit(k))
    BY DEF WotsGood
<1> HIDE DEF s, S
<1>5. Leads(s, S, WotsGood)
  <2> SUFFICES ASSUME NEW k \in 1 .. Len(s), NEW q, Block(q, s[k]), Trace[q] = S[k - 1]
               PROVE  IF k \in WotsGood THEN Trace[q + Len(s[k])] = S[k]
                                        ELSE Rejected(q + Len(s[k]))
      BY DEF Leads
  <2>1. k \in 1 .. m /\ k - 1 \in 0 .. m /\ k \in 0 .. m
      BY <1>1, <1>2
  <2> DEFINE z == q + Len(s[k])
  <2>2. PlaceAt(n, k, q, z)
      BY <1>2, <1>3, <2>1 DEF PlaceAt
  <2> HIDE DEF z
  <2>3. PlacePasses(n, k, z)
      BY <2>2, PlaceRuns
  <2>4. IF k \in WotsGood THEN Trace[z] = S[k] ELSE Rejected(z)
      BY <1>3, <1>4, <2>1, <2>3 DEF PlacePasses
  <2> QED BY <2>4 DEF z
<1> QED BY <1>2, <1>5 DEF s, S

(* The parts of the code.                                                  *)
LEMMA WotsBlocks ==
    ASSUME CandidateGiven, NEW n \in Nat, n <= Len(signed), Len(signed) = WotsLength(n)
    PROVE  /\ WotsDigits(n) \in Codes
           /\ Len(WotsDigits(n)) = 2 + Len(FlattenSeq(WotsPlaces(n))) + 5
           /\ Len(FlattenSeq(WotsPlaces(n))) \in Nat
           /\ \A p : Block(p, WotsDigits(n)) =>
                 /\ Block(p, StartSum) /\ Block(p + 2, FlattenSeq(WotsPlaces(n)))
                 /\ Block(p + (2 + Len(FlattenSeq(WotsPlaces(n)))), Total(n)) /\ p \in Nat \ {0}
<1> DEFINE a == StartSum
<1> DEFINE b == FlattenSeq(WotsPlaces(n))
<1> DEFINE c == Total(n)
<1>1. a \in Codes /\ Len(a) = 2 /\ c \in Codes /\ Len(c) = 5
    BY CandidateCodes
<1>2. b \in Codes
  <2>1. WotsPlaces(n) \in Seq(Seq(Instructions))
      BY WotsLeads DEF Codes
  <2> QED BY <2>1, FlattenType DEF Codes
<1>3. WotsDigits(n) = a \o b \o c
    BY DEF WotsDigits, WotsPlaces, PlaceCode
<1> HIDE DEF a, b, c
<1> DEFINE ab == a \o b
<1>4. ab \in Codes /\ Len(ab) = 2 + Len(b) /\ Len(b) \in Nat
  <2>1. a \in Seq(Instructions) /\ b \in Seq(Instructions)
      BY <1>1, <1>2 DEF Codes
  <2>2. a \o b \in Seq(Instructions) /\ Len(a \o b) = Len(a) + Len(b)
      BY ONLY <2>1, ConcatProperties
  <2> QED BY <1>1, <2>1, <2>2, LenProperties DEF Codes
<1>5. WotsDigits(n) = ab \o c
    BY <1>3
<1>6. ab = a \o b
    OBVIOUS
<1> HIDE DEF ab
<1>7. ab \o c \in Codes /\ Len(ab \o c) = 2 + Len(b) + 5
  <2>1. ab \in Seq(Instructions) /\ c \in Seq(Instructions)
      BY <1>1, <1>4 DEF Codes
  <2>2. ab \o c \in Seq(Instructions) /\ Len(ab \o c) = Len(ab) + Len(c)
      BY ONLY <2>1, ConcatProperties
  <2> QED BY <1>1, <1>4, <2>2 DEF Codes
<1>8. ASSUME NEW p, Block(p, WotsDigits(n))
      PROVE  /\ Block(p, a) /\ Block(p + 2, b) /\ Block(p + (2 + Len(b)), c) /\ p \in Nat \ {0}
  <2>1. Block(p, ab \o c) /\ ab \in Codes /\ c \in Codes
      BY <1>1, <1>4, <1>5, <1>8
  <2>2. Block(p, ab) /\ Block(p + Len(ab), c)
      BY ONLY <2>1, BlockSplits
  <2>3. Block(p, a \o b) /\ a \in Codes /\ b \in Codes
      BY <1>1, <1>2, <1>6, <2>2
  <2>4. Block(p, a) /\ Block(p + Len(a), b)
      BY ONLY <2>3, BlockSplits
  <2>5. Len(a) = 2 /\ Len(ab) = 2 + Len(b)
      BY <1>1, <1>4
  <2>6. p \in Nat \ {0}
      BY <1>8 DEF Block
  <2> QED BY ONLY <2>2, <2>4, <2>5, <2>6
<1> QED BY <1>4, <1>5, <1>7, <1>8 DEF a, b, c

(* The Winternitz code passes exactly if all places suit and the sums      *)
(* balance.                                                                *)
LEMMA WotsRuns ==
    ASSUME CandidateGiven, NEW n \in Nat, n < Len(signed), Len(signed) = WotsLength(n),
           NEW p, NEW z, Block(p, WotsDigits(n)), Trace[p] = State(witness, <<>>, <<>>),
           z = p + Len(WotsDigits(n))
    PROVE  /\ AllSuit /\ Balanced(n) => Trace[z] = State(<<>> ++ witness[1], <<>>, <<>>)
           /\ (AllSuit /\ Balanced(n)) \/ Rejected(z)
<1> DEFINE b == FlattenSeq(WotsPlaces(n))
<1> DEFINE s == WotsPlaces(n)
<1> DEFINE S == WotsStates(n)
<1> DEFINE m == Len(signed)
<1> DEFINE none == <<>>
<1>1. /\ m \in Nat /\ n \in 0 .. m /\ n < m /\ n <= m /\ n \in 0 .. n /\ m - n \in 0 .. m - n
      /\ witness \in Stacks /\ Len(witness) = 2 * m + 1 /\ none \in Stacks
    BY LenProperties DEF CandidateGiven, Stacks
<1>2. /\ Len(WotsDigits(n)) = 2 + Len(b) + 5 /\ Len(b) \in Nat
      /\ Block(p, StartSum) /\ Block(p + 2, b) /\ Block(p + (2 + Len(b)), Total(n))
         /\ p \in Nat \ {0}
    BY <1>1, WotsBlocks
<1>3. Rest(0) = witness /\ witness[1] \in Elements /\ Rest(m) = <<>> ++ witness[1]
    BY <1>1, RestStarts
<1>4. Lacks(Shown, 0) = 0 /\ Lacks(Shown, n) \in Int /\ Horner(ShownSum(n), m - n) \in Int
    BY <1>1, ShownIs
<1>5. Trace[p + 2] = S[0]
  <2>1. S[0] = State(Rest(0), AltAt(n, 0), <<>>)
      BY <1>1 DEF WotsStates
  <2>2. AltAt(n, 0) = none ++ Num(0)
    <3>1. 3 * 0 - 0 = 0 /\ 0 <= n
        BY <1>1
    <3> QED BY <1>4, <3>1 DEF AltAt
  <2>3. Trace[p] = State(witness, none, <<>>)
      OBVIOUS
  <2> HIDE DEF none
  <2>4. Trace[p + 2] = State(witness, none ++ Num(0), <<>>)
      BY <1>1, <1>2, <2>3, StartSumRuns
  <2> QED BY <1>3, <2>1, <2>2, <2>4
<1>6. S[m] = State(Rest(m), AltAt(n, m), <<>>)
    BY <1>1 DEF WotsStates
<1>7. s \in Seq(Codes) /\ Len(s) = m /\ Leads(s, S, WotsGood)
    BY <1>1, WotsLeads
<1>8. AllSuit <=> 1 .. m \subseteq WotsGood
    BY DEF AllSuit, WotsGood
<1> DEFINE q == p + 2
<1> DEFINE y == q + Len(b)
<1>9. Block(q, b) /\ Trace[q] = S[0] /\ b = FlattenSeq(s)
    BY <1>2, <1>5
<1>10. Block(y, Total(n)) /\ y + 5 = z /\ Len(Script) \in Nat /\ y \in 1 .. Len(Script) + 1
       /\ z \in y .. Len(Script) + 1
  <2> DEFINE l == Len(b)
  <2> DEFINE e == Len(WotsDigits(n))
  <2>1. l \in Nat /\ p \in Nat \ {0} /\ e = 2 + l + 5 /\ z = p + e
      BY <1>2
  <2>2. p + (2 + l) = (p + 2) + l /\ (p + 2) + l + 5 = z
    <3> HIDE DEF l, e
    <3> QED BY ONLY <2>1
  <2>3. Len(Script) \in Nat /\ p + e - 1 <= Len(Script)
      BY DEF Block
  <2>4. (p + 2) + l \in 1 .. Len(Script) + 1 /\ z \in (p + 2) + l .. Len(Script) + 1
    <3> HIDE DEF l, e
    <3> QED BY ONLY <2>1, <2>3
  <2>5. Block((p + 2) + l, Total(n))
      BY <1>2, <2>2
  <2> QED BY <2>2, <2>3, <2>4, <2>5
<1> HIDE DEF b, s, S, q
<1>11. IF 1 .. m \subseteq WotsGood THEN Trace[y] = S[m] ELSE Rejected(y)
  <2>1. Block(q, FlattenSeq(s)) /\ Trace[q] = S[0] /\ s \in Seq(Codes) /\ Leads(s, S, WotsGood)
      BY <1>7, <1>9
  <2>2. IF 1 .. Len(s) \subseteq WotsGood
        THEN Trace[q + Len(FlattenSeq(s))] = S[Len(s)]
        ELSE Rejected(q + Len(FlattenSeq(s)))
      BY ONLY <2>1, BlocksRun
  <2> QED BY <1>7, <1>9, <2>2
<1> DEFINE sum == Num(3 * n - Lacks(Shown, n))
<1> DEFINE num == Num(Horner(ShownSum(n), m - n))
<1>12. /\ sum \in Elements /\ sum.kind = "num" /\ num \in Elements /\ num.kind = "num"
       /\ (Num(num.n + sum.n) = Num(n * (Radix - 1)) <=> Balanced(n))
  <2> DEFINE e == 3 * n - Lacks(Shown, n)
  <2> DEFINE h == Horner(ShownSum(n), m - n)
  <2>1. e \in Int /\ h \in Int /\ n * 3 \in Int /\ Radix - 1 = 3
      BY <1>4 DEF Radix
  <2>2. Balanced(n) <=> h + e = n * 3
      BY DEF Balanced
  <2>3. sum = Num(e) /\ num = Num(h)
      OBVIOUS
  <2> HIDE DEF e, h, sum, num
  <2>4. sum \in Elements /\ sum.kind = "num" /\ sum.n = e
      BY <2>1, <2>3, NumberIs
  <2>5. num \in Elements /\ num.kind = "num" /\ num.n = h
      BY <2>1, <2>3, NumberIs
  <2>6. h + e \in Int
      BY <2>1
  <2>7. Num(h + e).n = h + e /\ Num(n * 3).n = n * 3
      BY <2>1, <2>6, NumberIs
  <2> QED BY <2>1, <2>2, <2>4, <2>5, <2>7
<1>13. AltAt(n, m) = none ++ sum ++ num
  <2>1. ~(m <= n)
      BY <1>1
  <2> QED BY <2>1 DEF AltAt
<1>14. CASE AllSuit
  <2> DEFINE r == Rest(m)
  <2>1. Trace[y] = State(r, none ++ sum ++ num, <<>>)
      BY <1>6, <1>8, <1>11, <1>13, <1>14
  <2>2. r \in Stacks
    <3> DEFINE x == witness[1]
    <3>1. none ++ x = r /\ x \in Elements
        BY <1>3
    <3> HIDE DEF none, x, r
    <3>2. none ++ x \in Stacks
        BY <1>1, <3>1, Grows
    <3> QED BY <3>1, <3>2
  <2>3. n \in Int
      OBVIOUS
  <2> HIDE DEF none, sum, num, y, r
  <2>4. /\ Num(num.n + sum.n) = Num(n * (Radix - 1)) => Trace[y + 5] = State(r, none, <<>>)
        /\ Num(num.n + sum.n) = Num(n * (Radix - 1)) \/ Rejected(y + 5)
      BY <1>1, <1>10, <1>12, <2>1, <2>2, <2>3, TotalRuns
  <2>5. /\ Balanced(n) => Trace[z] = State(r, none, <<>>)
        /\ Balanced(n) \/ Rejected(z)
      BY <1>10, <1>12, <2>4
  <2> QED BY <1>3, <1>14, <2>5 DEF none, r
<1>15. CASE ~AllSuit
  <2>1. Rejected(y)
      BY <1>8, <1>11, <1>15
  <2> HIDE DEF y
  <2>2. Rejected(z)
      BY <1>10, <2>1, RejectedStays
  <2> QED BY <1>15, <2>2
<1> QED BY <1>14, <1>15

-----------------------------------------------------------------------------
(* The digits of a message and of its checksum.                            *)
SignsMessage(n, message) ==
    /\ n \in Nat \ {0} /\ DOMAIN message = 1 .. n /\ Len(message) = n
    /\ \A i \in 1 .. n : message[i] \in 0 .. 3
    /\ Len(signed) = n + ChecksumDigits(n)
    /\ \A i \in 1 .. n : signed[i] = message[i]
    /\ \A i \in 1 .. ChecksumDigits(n) :
          signed[n + i] = (Lacks(message, n) \div Power(ChecksumDigits(n) - i)) % 4

SignedSum(n) == [i \in 1 .. Len(signed) |-> signed[n + i]]

(* They write what the message lacks.                                      *)
LEMMA SignedWrites ==
    ASSUME NEW n, NEW message, SignsMessage(n, message)
    PROVE  /\ Lacks(message, n) \in Nat
           /\ Horner(SignedSum(n), ChecksumDigits(n)) = Lacks(message, n)
           /\ ChecksumDigits(n) \in Nat \ {0} /\ ChecksumDigits(n) = Len(signed) - n
           /\ \A i \in 1 .. ChecksumDigits(n) : SignedSum(n)[i] \in 0 .. 3
           /\ \A i \in 1 .. ChecksumDigits(n) : SignedSum(n)[i] = signed[n + i]
           /\ \A i \in 1 .. n : signed[i] \in 0 .. 3
<1> DEFINE m == ChecksumDigits(n)
<1> DEFINE a == Lacks(message, n)
<1> DEFINE c == SignedSum(n)
<1>1. /\ n \in Nat \ {0} /\ \A i \in 1 .. n : message[i] \in 0 .. 3
      /\ Len(signed) = n + m /\ \A i \in 1 .. n : signed[i] = message[i]
      /\ \A i \in 1 .. m : signed[n + i] = (a \div Power(m - i)) % 4
    BY DEF SignsMessage
<1>2. m \in 1 .. n + 1 /\ Power(m) > n * 3
    BY <1>1, ChecksumDigitsIs
<1>3. a \in Nat /\ a <= 3 * n
  <2>1. n \in Nat /\ n \in 0 .. n /\ \A i \in 1 .. n : message[i] \in 0 .. 3
      BY <1>1
  <2>2. \A k \in 0 .. n : Lacks(message, k) \in Nat /\ Lacks(message, k) <= 3 * k
      BY ONLY <2>1, SumBounds
  <2> QED BY ONLY <2>1, <2>2
<1>4. \A k \in Nat : Power(k) \in Nat /\ Power(k) >= 3 * k + 1
    BY PowerIs
<1> HIDE DEF a, m
<1>5. a < Power(m) /\ m \in Nat \ {0} /\ m = Len(signed) - n
  <2>1. m \in Nat \ {0} /\ m = Len(signed) - n
      BY <1>1, <1>2
  <2> DEFINE d == Power(m)
  <2>2. d \in Nat /\ d > n * 3 /\ a <= 3 * n /\ a \in Nat /\ n \in Nat
      BY <1>1, <1>2, <1>3, <1>4, <2>1
  <2> HIDE DEF d
  <2>3. a < d
      BY ONLY <2>2
  <2> QED BY <2>1, <2>3 DEF d
<1>6. \A i \in 1 .. m : c[i] = signed[n + i]
  <2>1. \A i \in 1 .. m : i \in 1 .. Len(signed)
      BY <1>1, <1>5
  <2> QED BY <2>1 DEF SignedSum
<1> HIDE DEF c
<1>7. \A i \in 1 .. m : c[i] = (a \div Power(m - i)) % 4
    BY <1>1, <1>6
<1>8. Horner(c, m) = a
    BY <1>3, <1>5, <1>7, HornerWrites
<1>9. \A i \in 1 .. m : c[i] \in 0 .. 3
  <2> TAKE i \in 1 .. m
  <2> DEFINE d == Power(m - i)
  <2>1. m - i \in Nat
      BY <1>5
  <2>2. d \in Nat \ {0}
    <3> DEFINE k == m - i
    <3>1. k \in Nat
        BY <2>1
    <3> HIDE DEF k
    <3>2. Power(k) \in Nat /\ Power(k) >= 3 * k + 1
        BY <1>4, <3>1
    <3>3. Power(k) # 0
        BY <3>1, <3>2
    <3> QED BY <3>2, <3>3 DEF k
  <2>3. c[i] = (a \div d) % 4
      BY <1>7
  <2> HIDE DEF d
  <2>4. a \div d \in Nat
      BY <1>3, <2>2, Quotient
  <2> QED BY <2>3, <2>4
<1>10. \A i \in 1 .. n : signed[i] \in 0 .. 3
    BY <1>1
<1> QED BY <1>3, <1>5, <1>6, <1>8, <1>9, <1>10 DEF a, c, m

(* What fits shows no less than was signed, and the message signed if no   *)
(* more.                                                                   *)
LEMMA PlaceSigns ==
    ASSUME CandidateGiven, instance.family = "winternitz", NEW k \in 1 .. Len(signed),
           signed[k] \in 0 .. 3
    PROVE  /\ Suits(k, SuppliedValue(k), SuppliedDigit(k)) =>
                 SuppliedDigit(k).n \in 0 .. 3 /\ SuppliedDigit(k).n >= signed[k]
           /\ SignsAgain(k) <=> /\ Suits(k, SuppliedValue(k), SuppliedDigit(k))
                                /\ SuppliedDigit(k).n = signed[k]
<1> DEFINE v == SuppliedValue(k)
<1> DEFINE x == SuppliedDigit(k)
<1> DEFINE e == signed[k]
<1>1. k \in DOMAIN signed /\ k \in Int /\ Discloses(v) /\ Numeral(x) /\ e \in 0 .. 3
    BY PlaceIs
<1>2. SignsAgain(k) <=> v = Link(k, e) /\ x = Num(e)
  <2>1. Derived(instance.family, signed, k, signed[k]) = Link(k, e)
      BY <1>1 DEF Derived
  <2> QED BY <2>1 DEF SignsAgain
<1>3. x.n \in Int
    BY PlaceIs DEF Elements
<1> HIDE DEF v, x
<1>4. Suits(k, v, x) => x.n \in 0 .. 3 /\ x.n >= e
    BY <1>1, <1>3 DEF Suits, Discloses
<1>5. ASSUME Suits(k, v, x), x.n = e
      PROVE  v = Link(k, e) /\ x = Num(e)
    BY <1>1, <1>5 DEF Suits, Numeral
<1>6. ASSUME v = Link(k, e), x = Num(e)
      PROVE  Suits(k, v, x) /\ x.n = e
  <2>1. Num(e).kind = "num" /\ Num(e).n = e
      BY <1>1, NumberIs
  <2> QED BY <1>1, <1>6, <2>1 DEF Suits
<1> QED BY <1>2, <1>4, <1>5, <1>6 DEF v, x

(* The checksum: no message but the one signed balances.                   *)
LEMMA BalanceSigns ==
    ASSUME CandidateGiven, instance.family = "winternitz",
           NEW n, NEW message, SignsMessage(n, message)
    PROVE  AllSuit /\ Balanced(n) <=> \A j \in DOMAIN signed : SignsAgain(j)
<1> DEFINE m == ChecksumDigits(n)
<1> DEFINE w == Len(signed)
<1> DEFINE a == Lacks(message, n)
<1> DEFINE c == SignedSum(n)
<1> DEFINE d == Shown
<1> DEFINE e == ShownSum(n)
<1>1. /\ a \in Nat /\ Horner(c, m) = a /\ m \in Nat \ {0} /\ m = w - n /\ n \in Nat /\ w \in Nat
      /\ \A i \in 1 .. m : c[i] \in 0 .. 3 /\ c[i] = signed[n + i]
      /\ \A i \in 1 .. n : message[i] \in 0 .. 3 /\ signed[i] = message[i]
  <2>1. /\ a \in Nat /\ Horner(c, m) = a /\ m \in Nat \ {0} /\ m = w - n
        /\ \A i \in 1 .. m : c[i] \in 0 .. 3 /\ c[i] = signed[n + i]
      BY SignedWrites
  <2>2. n \in Nat /\ \A i \in 1 .. n : message[i] \in 0 .. 3 /\ signed[i] = message[i]
      BY DEF SignsMessage
  <2>3. w \in Nat
      BY LenProperties DEF CandidateGiven
  <2> QED BY ONLY <2>1, <2>2, <2>3
<1>2. DOMAIN signed = 1 .. w
    BY LenProperties DEF CandidateGiven
<1>3. \A k \in 1 .. w : signed[k] \in 0 .. 3
  <2> TAKE k \in 1 .. w
  <2>1. CASE k \in 1 .. n
      BY <1>1, <2>1
  <2>2. CASE k \notin 1 .. n
    <3>1. k - n \in 1 .. m /\ n + (k - n) = k
        BY <1>1, <2>2
    <3> DEFINE i == k - n
    <3>2. i \in 1 .. m /\ n + i = k
        BY <3>1
    <3> HIDE DEF i
    <3> QED BY <1>1, <3>2
  <2> QED BY <2>1, <2>2
<1>4. \A k \in 1 .. w :
         /\ Suits(k, SuppliedValue(k), SuppliedDigit(k)) =>
               SuppliedDigit(k).n \in 0 .. 3 /\ SuppliedDigit(k).n >= signed[k]
         /\ SignsAgain(k) <=> /\ Suits(k, SuppliedValue(k), SuppliedDigit(k))
                              /\ SuppliedDigit(k).n = signed[k]
    BY <1>3, PlaceSigns
<1>5. /\ \A i \in 1 .. n : i \in 1 .. w /\ d[i] = SuppliedDigit(i).n
      /\ \A i \in 1 .. m : n + i \in 1 .. w /\ e[i] = SuppliedDigit(n + i).n
  <2>1. ASSUME NEW i \in 1 .. n
        PROVE  i \in 1 .. w /\ d[i] = SuppliedDigit(i).n
    <3>1. i \in 1 .. w
        BY <1>1
    <3> QED BY <3>1 DEF Shown
  <2>2. ASSUME NEW i \in 1 .. m
        PROVE  n + i \in 1 .. w /\ e[i] = SuppliedDigit(n + i).n
    <3>1. i \in 1 .. w /\ n + i \in 1 .. w
        BY <1>1
    <3> QED BY <3>1 DEF ShownSum
  <2> QED BY <2>1, <2>2
<1>6. Balanced(n) <=> Horner(e, m) + (3 * n - Lacks(d, n)) = n * 3
    BY <1>1 DEF Balanced
<1>7. AllSuit <=> \A k \in 1 .. w : Suits(k, SuppliedValue(k), SuppliedDigit(k))
    BY DEF AllSuit
<1> HIDE DEF a, c, d, e, m, w
<1>8. ASSUME AllSuit
      PROVE  Balanced(n) <=> \A k \in 1 .. w : SuppliedDigit(k).n = signed[k]
  <2>1. /\ \A i \in 1 .. n : d[i] \in 0 .. 3 /\ d[i] >= message[i]
        /\ \A i \in 1 .. m : e[i] \in 0 .. 3 /\ e[i] >= c[i]
      BY <1>1, <1>4, <1>5, <1>7, <1>8
  <2>2. Lacks(d, n) \in Nat
      BY <1>1, <2>1, SumBounds
  <2>3. Horner(e, m) \in Nat
      BY <1>1, <2>1, HornerBounds
  <2>4. Lacks(d, n) <= a /\ (Lacks(d, n) = a => \A i \in 1 .. n : d[i] = message[i])
    <3>1. /\ \A i \in 1 .. n : d[i] \in 0 .. 3
          /\ \A i \in 1 .. n : message[i] \in 0 .. 3
          /\ \A i \in 1 .. n : d[i] >= message[i]
        BY <1>1, <2>1
    <3> QED BY <1>1, <3>1, SumCompares DEF a
  <2>5. Horner(e, m) >= a /\ (Horner(e, m) = a => \A i \in 1 .. m : e[i] = c[i])
    <3>1. /\ \A i \in 1 .. m : e[i] \in 0 .. 3
          /\ \A i \in 1 .. m : c[i] \in 0 .. 3
          /\ \A i \in 1 .. m : e[i] >= c[i]
        BY <1>1, <2>1
    <3>2. /\ Horner(e, m) >= Horner(c, m)
          /\ Horner(e, m) = Horner(c, m) => \A i \in 1 .. m : e[i] = c[i]
        BY <1>1, <3>1, HornerCompares
    <3> QED BY <1>1, <3>2
  <2> DEFINE l == Lacks(d, n)
  <2> DEFINE h == Horner(e, m)
  <2>6. Balanced(n) <=> l = a /\ h = a
    <3>1. /\ l \in Nat /\ h \in Nat /\ a \in Nat /\ n \in Nat /\ l <= a /\ h >= a
        BY <1>1, <2>2, <2>3, <2>4, <2>5
    <3>2. Balanced(n) <=> h + (3 * n - l) = n * 3
        BY <1>6
    <3> HIDE DEF l, h
    <3>3. h + (3 * n - l) = n * 3 <=> l = a /\ h = a
        BY ONLY <3>1
    <3> QED BY <3>2, <3>3
  <2>7. ASSUME l = a, h = a, NEW k \in 1 .. w
        PROVE  SuppliedDigit(k).n = signed[k]
    <3>1. CASE k \in 1 .. n
        BY <1>1, <1>5, <2>4, <2>7, <3>1
    <3>2. CASE k \notin 1 .. n
      <4> DEFINE i == k - n
      <4>1. i \in 1 .. m /\ n + i = k
          BY <1>1, <3>2
      <4> HIDE DEF i
      <4>2. e[i] = c[i]
          BY <2>5, <2>7, <4>1
      <4> QED BY <1>1, <1>5, <4>1, <4>2
    <3> QED BY <3>1, <3>2
  <2>8. ASSUME \A k \in 1 .. w : SuppliedDigit(k).n = signed[k]
        PROVE  l = a /\ h = a
    <3>1. /\ \A i \in 1 .. n : d[i] = message[i]
          /\ \A i \in 1 .. m : e[i] = c[i]
        BY <1>1, <1>5, <2>8
    <3>2. /\ \A i \in 1 .. n : d[i] \in 0 .. 3
          /\ \A i \in 1 .. n : message[i] \in 0 .. 3
          /\ \A i \in 1 .. n : message[i] >= d[i]
        BY <1>1, <2>1, <3>1
    <3>3. a <= Lacks(d, n)
        BY <1>1, <3>2, SumCompares DEF a
    <3>4. /\ \A i \in 1 .. m : e[i] \in 0 .. 3
          /\ \A i \in 1 .. m : c[i] \in 0 .. 3
          /\ \A i \in 1 .. m : c[i] >= e[i]
        BY <1>1, <2>1, <3>1
    <3>5. Horner(c, m) >= Horner(e, m)
        BY <1>1, <3>4, HornerCompares
    <3>6. /\ l \in Nat /\ h \in Nat /\ a \in Nat /\ l <= a /\ h >= a /\ a <= l /\ a >= h
        BY <1>1, <2>2, <2>3, <2>4, <2>5, <3>3, <3>5
    <3> HIDE DEF l, h
    <3> QED BY ONLY <3>6
  <2> QED BY <2>6, <2>7, <2>8
<1>9. (\A j \in 1 .. w : SignsAgain(j)) <=>
         AllSuit /\ \A k \in 1 .. w : SuppliedDigit(k).n = signed[k]
    BY <1>4, <1>7
<1> QED BY <1>2, <1>8, <1>9

-----------------------------------------------------------------------------
(* A Winternitz script ends as the spend deserves.                         *)
LEMMA WotsEnds ==
    ASSUME CandidateGiven, instance.family = "winternitz", NEW n, NEW message,
           SignsMessage(n, message), Script = WotsDigits(n) \o Check
    PROVE  Script \in Codes /\ Ends
<1> DEFINE c == WotsDigits(n)
<1>1. n \in Nat /\ n <= Len(signed) /\ n < Len(signed) /\ Len(signed) = WotsLength(n)
  <2>1. n \in Nat /\ ChecksumDigits(n) \in Nat \ {0} /\ Len(signed) = n + ChecksumDigits(n)
      BY SignedWrites DEF SignsMessage
  <2> DEFINE d == ChecksumDigits(n)
  <2>2. n <= n + d /\ n < n + d
      BY <2>1
  <2> QED BY <2>1, <2>2 DEF WotsLength
<1>2. c \in Codes
    BY <1>1, WotsBlocks
<1>3. /\ Trace[1] = State(witness, <<>>, <<>>) /\ Script \in Codes
      /\ Block(1, c) /\ Script = c \o Check /\ Len(c) \in Nat
    BY <1>2, PreludeIs
<1> DEFINE p == 1
<1> DEFINE z == 1 + Len(c)
<1> DEFINE good == AllSuit /\ Balanced(n)
<1>4. /\ good => Trace[z] = State(<<>> ++ witness[1], <<>>, <<>>)
      /\ good \/ Rejected(z)
  <2>1. /\ Block(p, WotsDigits(n)) /\ Trace[p] = State(witness, <<>>, <<>>)
        /\ z = p + Len(WotsDigits(n))
      BY <1>3
  <2> HIDE DEF p, z, c
  <2> QED BY <1>1, <2>1, WotsRuns
<1>5. Cleared <=> good
  <2>1. Cleared <=> \A j \in DOMAIN signed : SignsAgain(j)
      BY DEF Cleared
  <2> QED BY <2>1, BalanceSigns
<1> DEFINE x == witness[1]
<1>6. x \in Elements
    BY RestStarts DEF CandidateGiven
<1> HIDE DEF c, x, good
<1>7. CASE Cleared
  <2>1. Trace[1 + Len(c)] = State(<<>> ++ x, <<>>, <<>>)
      BY <1>4, <1>5, <1>7 DEF x
  <2>2. Trace[Len(Script) + 1] = State(<<>> ++ Truth(x = Key(Spend, {})), <<>>, <<>>)
      BY <1>2, <1>3, <1>6, <2>1, PreludePasses
  <2> QED BY <1>3, <1>7, <2>2 DEF Ends, x
<1>8. CASE ~Cleared
  <2>1. Rejected(1 + Len(c))
      BY <1>4, <1>5, <1>8
  <2>2. Rejected(Len(Script) + 1)
      BY <1>2, <1>3, <2>1, PreludeRejects
  <2> QED BY <1>3, <1>8, <2>2 DEF Ends
<1> QED BY <1>7, <1>8

-----------------------------------------------------------------------------
(* What a spend can be made of.                                            *)
Allowed == {e \in Elements : Discloses(e) /\ Numeral(e)}

(* What spends are made of is allowed.                                     *)
LEMMA AllowedAre ==
    ASSUME signed \in Seq(Nat)
    PROVE  /\ \A tx \in Txs : Key(tx, {}) \in Allowed
           /\ Fixed \in Allowed /\ Junk \in Allowed /\ \A k \in Int : Num(k) \in Allowed
           /\ \A f, j, d : j \in DOMAIN signed /\ d \in Int => Derived(f, signed, j, d) \in Allowed
<1>1. DOMAIN signed = 1 .. Len(signed) /\ \A j \in DOMAIN signed : j \in Int /\ signed[j] \in Nat
    BY LenProperties, ElementOfSeq
<1>2. ASSUME NEW e \in Elements, e.kind \notin {"secret", "link", "num"}
      PROVE  e \in Allowed
  <2>1. \A j \in Int, m \in Int : e # Secret(j, m) /\ e # Link(j, m)
      BY <1>2, PlacesDiffer
  <2> QED BY <1>1, <1>2, <2>1 DEF Allowed, Discloses, Numeral
<1>3. ASSUME NEW tx \in Txs PROVE Key(tx, {}) \in Allowed
  <2>1. Key(tx, {}) \in Elements /\ Key(tx, {}).kind = "key"
    <3>1. "key" \in Kinds /\ tx \in Int /\ {} \in SUBSET Int
        BY DEF Kinds, Txs, Spend
    <3> QED BY <3>1, ElementIs DEF Key
  <2> QED BY <1>2, <2>1
<1>4. Fixed \in Allowed /\ Junk \in Allowed
    BY <1>2, Constants
<1>5. ASSUME NEW k \in Int PROVE Num(k) \in Allowed
  <2>1. Num(k) \in Elements /\ Num(k).kind = "num" /\ Num(k).n = k
      BY NumberIs
  <2>2. \A j \in Int, m \in Int : Num(k) # Secret(j, m) /\ Num(k) # Link(j, m)
      BY <2>1, PlacesDiffer
  <2> QED BY <1>1, <2>1, <2>2 DEF Allowed, Discloses, Numeral
<1>6. ASSUME NEW f, NEW j, NEW d, j \in DOMAIN signed, d \in Int
      PROVE  Derived(f, signed, j, d) \in Allowed
  <2> DEFINE m == signed[j]
  <2>1. j \in Int /\ m \in Int
      BY <1>1, <1>6
  <2>2. CASE f = "lamport"
    <3> DEFINE e == Secret(j, m)
    <3>1. Derived(f, signed, j, d) = e
        BY <2>2 DEF Derived
    <3>2. e \in Elements /\ e.kind = "secret"
      <4>1. "secret" \in Kinds /\ {j} \in SUBSET Int
          BY <2>1 DEF Kinds
      <4> QED BY <2>1, <4>1, ElementIs DEF Secret
    <3>3. \A i \in Int, n \in Int : (e = Secret(i, n) => i = j /\ n = m) /\ e # Link(i, n)
        BY <2>1, PlacesDiffer
    <3> HIDE DEF e
    <3>4. Discloses(e)
        BY <1>1, <3>3 DEF Discloses
    <3>5. Numeral(e)
        BY <3>2 DEF Numeral
    <3> QED BY <3>1, <3>2, <3>4, <3>5 DEF Allowed
  <2>3. CASE f # "lamport"
    <3> DEFINE l == IF d > m THEN d ELSE m
    <3> DEFINE e == Link(j, l)
    <3>0. l \in Int /\ l >= m
        BY <1>6, <2>1
    <3>1. Derived(f, signed, j, d) = e
        BY <2>3 DEF Derived
    <3> HIDE DEF l
    <3>2. e \in Elements /\ e.kind = "link"
      <4>1. "link" \in Kinds /\ {j} \in SUBSET Int
          BY <2>1 DEF Kinds
      <4> QED BY <2>1, <3>0, <4>1, ElementIs DEF Link
    <3>3. \A i \in Int, n \in Int : (e = Link(i, n) => i = j /\ n = l) /\ e # Secret(i, n)
        BY <2>1, <3>0, PlacesDiffer
    <3> HIDE DEF e
    <3>4. Discloses(e)
        BY <1>1, <3>0, <3>3 DEF Discloses
    <3>5. Numeral(e)
        BY <3>2 DEF Numeral
    <3> QED BY <3>1, <3>2, <3>4, <3>5 DEF Allowed
  <2> QED BY <2>2, <2>3
<1> QED BY <1>3, <1>4, <1>5, <1>6

(* A witness of allowed values and their digits.                           *)
LEMMA SignedWitnessIs ==
    ASSUME NEW key \in Allowed, NEW n \in Nat, NEW values, NEW digits, DOMAIN digits = 1 .. n,
           \A j \in 1 .. n : values[j] \in Allowed /\ Num(digits[j]) \in Allowed
    PROVE  /\ SignedWitness(key, values, digits) \in Seq(Allowed)
           /\ Len(SignedWitness(key, values, digits)) = 2 * n + 1
<1> DEFINE S == Seq(Allowed)
<1> DEFINE m == [j \in 1 .. n |-> <<values[j], Num(digits[j])>>]
<1> DEFINE r == Reverse(m)
<1> DEFINE k == <<key>>
<1>1. SignedWitness(key, values, digits) = k \o FlattenSeq(r)
    BY DEF SignedWitness
<1>2. \A j \in 1 .. n : m[j] \in Seq(Allowed) /\ Len(m[j]) = 2
    OBVIOUS
<1>3. m \in Seq(S) /\ Len(m) = n
  <2>1. \A j \in 1 .. n : m[j] \in S
      BY <1>2
  <2>2. m = [j \in 1 .. n |-> m[j]]
      OBVIOUS
  <2> HIDE DEF m, S
  <2> QED BY <2>1, <2>2
<1>4. k \in Seq(Allowed) /\ Len(k) = 1
    OBVIOUS
<1> HIDE DEF m, r, S, k
<1>5. r \in Seq(S) /\ Len(r) = n /\ \A i \in 1 .. n : r[i] = m[n - i + 1]
    BY <1>3, ReverseIs DEF r
<1>6. \A i \in 1 .. Len(r) : Len(r[i]) = 2
  <2>1. \A i \in 1 .. n : n - i + 1 \in 1 .. n
      OBVIOUS
  <2> QED BY <1>2, <1>5, <2>1
<1>7. FlattenSeq(r) \in Seq(Allowed) /\ Len(FlattenSeq(r)) = 2 * n
    BY <1>5, <1>6, PairsJoined DEF S
<1> DEFINE b == FlattenSeq(r)
<1> HIDE DEF b
<1>8. k \o b \in Seq(Allowed) /\ Len(k \o b) = 2 * n + 1
  <2>1. k \in Seq(Allowed) /\ b \in Seq(Allowed)
      BY <1>4, <1>7 DEF b
  <2>2. k \o b \in Seq(Allowed) /\ Len(k \o b) = Len(k) + Len(b)
      BY ONLY <2>1, ConcatProperties
  <2>3. Len(k) = 1 /\ Len(b) = 2 * n /\ 1 + 2 * n = 2 * n + 1
      BY <1>4, <1>7 DEF b
  <2> QED BY <2>2, <2>3
<1> QED BY <1>1, <1>8 DEF b

-----------------------------------------------------------------------------
(* What a candidate is an instance of.                                     *)
LEMMA CandidateInstance ==
    ASSUME instance \in Instances, ~Hors
    PROVE  /\ Script = CompileCandidate(instance.family, N)
           /\ \/ instance.family \in {"lamport", "winternitz"} /\ N \in Nat \ {0}
              \/ instance.family \in {"direct", "whole_key"}
<1>1. \/ \E p \in Params, z \in Puzzles : instance = Instance("hors", p[1], p[2], z)
      \/ \E n \in Bits : instance = Instance("lamport", n, 0, "none")
      \/ \E n \in Digits : instance = Instance("winternitz", n, 0, "none")
      \/ \E f \in {"direct", "whole_key"} : instance = Instance(f, 0, 0, "none")
    BY DEF Instances
<1>2. instance.family # "hors"
    BY DEF Hors
<1> DEFINE Right == \/ instance.family \in {"lamport", "winternitz"} /\ N \in Nat \ {0}
                    \/ instance.family \in {"direct", "whole_key"}
<1>3. ASSUME NEW n \in Bits \union Digits, NEW f \in {"lamport", "winternitz"},
             instance = Instance(f, n, 0, "none")
      PROVE  Right
    BY <1>3, CandidatesAssumption DEF Instance, N
<1>4. ASSUME NEW f \in {"direct", "whole_key"}, instance = Instance(f, 0, 0, "none")
      PROVE  Right
    BY <1>4 DEF Instance
<1>5. ASSUME NEW p, NEW z, instance = Instance("hors", p[1], p[2], z)
      PROVE  FALSE
    BY <1>2, <1>5 DEF Instance
<1>6. Right
  <2> HIDE DEF Right
  <2> QED BY <1>1, <1>3, <1>4, <1>5
<1>7. Script = CompileCandidate(instance.family, instance.n)
    BY <1>2 DEF Script, Scripts
<1> QED BY <1>6, <1>7 DEF N

(* The digits of a signed message.                                         *)
LEMMA SignedDigitsAre ==
    ASSUME NEW n \in Nat \ {0}, NEW message \in [1 .. n -> 0 .. 3],
           signed = SignedDigits(message)
    PROVE  signed \in Seq(Nat) /\ SignsMessage(n, message)
<1> DEFINE m == ChecksumDigits(n)
<1> DEFINE a == Lacks(message, n)
<1> DEFINE c == [i \in 1 .. m |-> (a \div Power(m - i)) % 4]
<1>1. /\ message \in Seq(Nat) /\ Len(message) = n /\ DOMAIN message = 1 .. n
      /\ \A i \in 1 .. n : message[i] \in 0 .. 3
    OBVIOUS
<1>2. signed = message \o c
  <2>1. Checksum(message) = a
      BY <1>1 DEF Checksum, Lacks
  <2>2. signed = message \o [i \in 1 .. m |-> (Checksum(message) \div Power(m - i)) % Radix]
      BY <1>1 DEF SignedDigits
  <2> QED BY <2>1, <2>2 DEF Radix
<1>3. m \in Nat
    BY ChecksumDigitsIs
<1>4. a \in Nat
    BY <1>1, SumBounds
<1> HIDE DEF a, m
<1>5. \A i \in 1 .. m : c[i] = (a \div Power(m - i)) % 4 /\ c[i] \in Nat
  <2> TAKE i \in 1 .. m
  <2> DEFINE k == m - i
  <2>1. k \in Nat
      BY <1>3
  <2>2. c[i] = (a \div Power(k)) % 4
      OBVIOUS
  <2> HIDE DEF k
  <2> DEFINE d == Power(k)
  <2>3. d \in Nat \ {0}
    <3>1. Power(k) \in Nat /\ Power(k) >= 3 * k + 1
        BY <2>1, PowerIs
    <3> HIDE DEF d
    <3>2. Power(k) # 0
        BY <2>1, <3>1
    <3> QED BY <3>1, <3>2 DEF d
  <2> HIDE DEF d
  <2>4. a \div d \in Nat
      BY <1>4, <2>3, Quotient
  <2>5. (a \div d) % 4 \in Nat
      BY <2>4
  <2> QED BY <2>2, <2>5 DEF d, k
<1>6. c \in Seq(Nat) /\ Len(c) = m
  <2>1. c = [i \in 1 .. m |-> c[i]]
      OBVIOUS
  <2> HIDE DEF c
  <2> QED BY <1>3, <1>5, <2>1
<1> HIDE DEF c
<1>7. /\ message \o c \in Seq(Nat) /\ Len(message \o c) = n + m
      /\ \A i \in 1 .. n + m : (message \o c)[i] = IF i <= n THEN message[i] ELSE c[i - n]
  <2>1. message \in Seq(Nat) /\ c \in Seq(Nat) /\ Len(message) = n /\ Len(c) = m
      BY <1>1, <1>6
  <2>2. /\ message \o c \in Seq(Nat) /\ Len(message \o c) = Len(message) + Len(c)
        /\ \A i \in 1 .. Len(message) + Len(c) : (message \o c)[i] =
              IF i <= Len(message) THEN message[i] ELSE c[i - Len(message)]
      BY ONLY <2>1, ConcatProperties
  <2> HIDE DEF m
  <2> DEFINE d == message \o c
  <2>3. /\ d \in Seq(Nat) /\ Len(d) = Len(message) + Len(c)
        /\ \A i \in 1 .. Len(message) + Len(c) : d[i] =
              IF i <= Len(message) THEN message[i] ELSE c[i - Len(message)]
      BY ONLY <2>2
  <2> HIDE DEF d
  <2>4. /\ d \in Seq(Nat) /\ Len(d) = n + m
        /\ \A i \in 1 .. n + m : d[i] = IF i <= n THEN message[i] ELSE c[i - n]
      BY ONLY <2>1, <2>3
  <2> QED BY ONLY <2>4 DEF d
<1>8. /\ \A i \in 1 .. n : signed[i] = message[i]
      /\ \A i \in 1 .. m : signed[n + i] = c[i]
  <2>1. ASSUME NEW i \in 1 .. n
        PROVE  signed[i] = message[i]
    <3>1. i \in 1 .. n + m /\ i <= n
        BY <1>3
    <3> QED BY <1>2, <1>7, <3>1
  <2>2. ASSUME NEW i \in 1 .. m
        PROVE  signed[n + i] = c[i]
    <3>1. n + i \in 1 .. n + m /\ ~(n + i <= n) /\ (n + i) - n = i
        BY <1>3
    <3> QED BY <1>2, <1>7, <3>1
  <2> QED BY <2>1, <2>2
<1> QED BY <1>1, <1>2, <1>5, <1>7, <1>8 DEF SignsMessage, a, m

-----------------------------------------------------------------------------
(* The messages a candidate's key can have signed.                         *)
SignedOnes ==
    \/ instance.family = "lamport" /\ Len(signed) = N /\ \A j \in 1 .. N : signed[j] \in 0 .. 1
    \/ instance.family = "winternitz" /\ \E message : SignsMessage(N, message)
    \/ instance.family \in {"direct", "whole_key"} /\ Len(signed) = 0

(* What a candidate has signed is a sequence of digits of its family.      *)
LEMMA SignedIs ==
    ASSUME Given, ~Hors
    PROVE  signed \in Seq(Nat) /\ SignedOnes
<1>1. /\ \/ instance.family \in {"lamport", "winternitz"} /\ N \in Nat \ {0}
         \/ instance.family \in {"direct", "whole_key"}
      /\ signed \in Messages(instance.family, N)
    BY CandidateInstance DEF Given, InitCandidate
<1>2. CASE instance.family = "lamport"
  <2>1. signed \in [1 .. N -> 0 .. 1] /\ N \in Nat
      BY <1>1, <1>2 DEF Messages
  <2>2. signed \in Seq(Nat) /\ Len(signed) = N /\ \A j \in 1 .. N : signed[j] \in 0 .. 1
      BY <2>1
  <2> QED BY <1>2, <2>2 DEF SignedOnes
<1>3. CASE instance.family = "winternitz"
  <2>1. signed \in {SignedDigits(m) : m \in [1 .. N -> 0 .. Radix - 1]} /\ N \in Nat \ {0}
      BY <1>1, <1>3 DEF Messages
  <2>2. PICK m \in [1 .. N -> 0 .. 3] : signed = SignedDigits(m)
      BY <2>1 DEF Radix
  <2> DEFINE n == N
  <2>3. n \in Nat \ {0} /\ m \in [1 .. n -> 0 .. 3]
      BY <2>1, <2>2
  <2> HIDE DEF n
  <2>4. signed \in Seq(Nat) /\ SignsMessage(n, m)
      BY <2>2, <2>3, SignedDigitsAre
  <2> QED BY <1>3, <2>4 DEF SignedOnes, n
<1>4. CASE instance.family \in {"direct", "whole_key"}
  <2>1. signed = <<>>
      BY <1>1, <1>4 DEF Messages
  <2> QED BY <1>4, <2>1 DEF SignedOnes
<1> QED BY <1>1, <1>2, <1>3, <1>4

(* What a candidate's spend supplies.                                      *)
LEMMA SpendIs ==
    ASSUME Given, ~Hors
    PROVE  CandidateGiven
<1> DEFINE f == instance.family
<1> DEFINE l == Len(signed)
<1> DEFINE key == Key(Spend, {})
<1>1. signed \in Seq(Nat) /\ witness \in CandidateWitnesses(f, N, signed)
    BY SignedIs DEF Given, InitCandidate
<1>2. l \in Nat /\ DOMAIN signed = 1 .. l /\ \A j \in 1 .. l : signed[j] \in Nat
    BY <1>1, LenProperties, ElementOfSeq
<1>3. /\ key \in Allowed /\ Fixed \in Allowed /\ Junk \in Allowed
         /\ \A k \in Int : Num(k) \in Allowed
      /\ \A j \in 1 .. l, d \in Int : Derived(f, signed, j, d) \in Allowed
      /\ \A tx \in Txs : Key(tx, {}) \in Allowed
  <2>1. Spend \in Txs
      BY DEF Txs
  <2> QED BY <1>1, <1>2, <2>1, AllowedAre
<1> HIDE DEF key, f
<1>4. ASSUME NEW digits, DOMAIN digits = 1 .. l, \A j \in 1 .. l : digits[j] \in Int
      PROVE  /\ SignedWitness(key, DerivedAll(f, signed, digits), digits) \in Seq(Allowed)
             /\ Len(SignedWitness(key, DerivedAll(f, signed, digits), digits)) = 2 * l + 1
  <2> DEFINE values == DerivedAll(f, signed, digits)
  <2>1. \A j \in 1 .. l : values[j] \in Allowed /\ Num(digits[j]) \in Allowed
      BY <1>3, <1>4 DEF DerivedAll
  <2> HIDE DEF values, l
  <2>2. /\ SignedWitness(key, values, digits) \in Seq(Allowed)
        /\ Len(SignedWitness(key, values, digits)) = 2 * l + 1
      BY <1>2, <1>3, <1>4, <2>1, SignedWitnessIs
  <2> QED BY <2>2 DEF values
<1> DEFINE own == SignedWitness(key, DerivedAll(f, signed, signed), signed)
<1>5. own \in Seq(Allowed) /\ Len(own) = 2 * l + 1
    BY <1>2, <1>4
<1> DEFINE base == IF f = "lamport" THEN 2 ELSE Radix
<1>6. \/ \E digits \in [1 .. l -> 0 .. base - 1] :
            witness = SignedWitness(key, DerivedAll(f, signed, digits), digits)
      \/ \E k \in DOMAIN own, e \in CandidateForgeries(f, signed) : witness = [own EXCEPT ![k] = e]
  <2> DEFINE Ones == {SignedWitness(key, DerivedAll(f, signed, digits), digits) :
                         digits \in [DOMAIN signed -> 0 .. base - 1]}
  <2> DEFINE Others == {[own EXCEPT ![k] = e] : k \in DOMAIN own,
             e \in CandidateForgeries(f, signed)}
  <2>1. CandidateWitnesses(f, N, signed) = Ones \union Others
      BY DEF CandidateWitnesses, key
  <2>2. witness \in Ones \/ witness \in Others
      BY <1>1, <2>1
  <2> HIDE DEF base, own
  <2> QED BY <1>2, <2>2
<1>7. \A e \in CandidateForgeries(f, signed) : e \in Allowed
  <2> TAKE e \in CandidateForgeries(f, signed)
  <2>1. \/ e = Fixed \/ e = Junk
        \/ \E tx \in Txs : e = Key(tx, {})
        \/ \E k \in -1 .. Radix : e = Num(k)
        \/ \E j \in DOMAIN signed, d \in 0 .. Radix : e = Derived(f, signed, j, d)
      BY DEF CandidateForgeries
  <2> QED BY <1>2, <1>3, <2>1 DEF Radix
<1> HIDE DEF own
<1>8. witness \in Seq(Allowed) /\ Len(witness) = 2 * l + 1
  <2>1. CASE \E digits \in [1 .. l -> 0 .. base - 1] :
                witness = SignedWitness(key, DerivedAll(f, signed, digits), digits)
    <3>1. base \in Nat
        BY DEF Radix
    <3> HIDE DEF base
    <3>2. PICK digits \in [1 .. l -> 0 .. base - 1] :
                witness = SignedWitness(key, DerivedAll(f, signed, digits), digits)
        BY <2>1
    <3>3. DOMAIN digits = 1 .. l /\ \A j \in 1 .. l : digits[j] \in Int
        BY <3>1, <3>2
    <3> QED BY <1>4, <3>2, <3>3
  <2>2. CASE \E k \in DOMAIN own, e \in CandidateForgeries(f, signed) :
                witness = [own EXCEPT ![k] = e]
    <3>1. PICK k \in DOMAIN own, e \in CandidateForgeries(f, signed) :
                witness = [own EXCEPT ![k] = e]
        BY <2>2
    <3>2. k \in 1 .. Len(own) /\ e \in Allowed
        BY <1>5, <1>7, LenProperties
    <3> QED BY <1>5, <3>1, <3>2, ExceptSeq
  <2> QED BY <1>6, <2>1, <2>2
<1>9. /\ \A i \in 1 .. Len(witness) : witness[i] \in Allowed
      /\ witness \in Seq(Elements)
  <2>1. \A i \in 1 .. Len(witness) : witness[i] \in Allowed
      BY <1>8, ElementOfSeq
  <2>2. Allowed \subseteq Elements
      BY DEF Allowed
  <2>3. witness \in Seq(Elements)
    <3> HIDE DEF l
    <3> QED BY <1>8, <2>2
  <2> QED BY <2>1, <2>3
<1> QED BY <1>1, <1>8, <1>9 DEF CandidateGiven, Stacks, Allowed

(* A candidate's script ends as its spend deserves.                        *)
LEMMA CandidateEnds ==
    ASSUME Given, ~Hors
    PROVE  Script \in Codes /\ Ends
<1>1. CandidateGiven /\ SignedOnes /\ Script = CompileCandidate(instance.family, N)
    BY SpendIs, SignedIs, CandidateInstance DEF Given
<1>2. \/ instance.family \in {"lamport", "winternitz"} /\ N \in Nat \ {0}
      \/ instance.family \in {"direct", "whole_key"}
    BY CandidateInstance DEF Given
<1>3. CASE instance.family = "lamport"
  <2> DEFINE n == N
  <2>1. /\ n \in Nat /\ Len(signed) = n /\ \A j \in 1 .. n : signed[j] \in 0 .. 1
        /\ Script = LamportBits(n) \o Check
      BY <1>1, <1>2, <1>3 DEF SignedOnes, CompileCandidate
  <2> HIDE DEF n
  <2> QED BY <1>1, <1>3, <2>1, LamportEnds
<1>4. CASE instance.family = "winternitz"
  <2> DEFINE n == N
  <2>1. PICK message : SignsMessage(n, message)
      BY <1>1, <1>4 DEF SignedOnes
  <2>2. Script = WotsDigits(n) \o Check
      BY <1>1, <1>4 DEF CompileCandidate
  <2> HIDE DEF n
  <2> QED BY <1>1, <1>4, <2>1, <2>2, WotsEnds
<1>5. CASE instance.family = "direct"
  <2>1. Len(signed) = 0 /\ Script = <<>> \o Check
      BY <1>1, <1>5 DEF SignedOnes, CompileCandidate
  <2> QED BY <1>1, <1>5, <2>1, DirectEnds
<1>6. CASE instance.family = "whole_key"
  <2>1. Len(signed) = 0 /\ Script = WholeKey \o Check
      BY <1>1, <1>6 DEF SignedOnes, CompileCandidate
  <2> QED BY <1>1, <1>6, <2>1, WholeKeyEnds
<1> QED BY <1>2, <1>3, <1>4, <1>5, <1>6

-----------------------------------------------------------------------------
(* The lone element a cleared candidate leaves.                            *)
LEMMA Lone ==
    ASSUME NEW x \in Elements
    PROVE  /\ <<>> \in Stacks
           /\ Len(<<>> ++ x) = 1
           /\ \A m : m = State(<<>> ++ x, <<>>, <<>>) => m.end = "none" /\ m.stack = <<>> ++ x
<1> DEFINE none == <<>>
<1>1. none \in Stacks /\ Len(none) = 0
    BY DEF Stacks
<1> HIDE DEF none
<1>2. Len(none ++ x) = 1
  <2>1. Len(none ++ x) = Len(none) + 1
      BY <1>1, OneOn
  <2> DEFINE a == Len(none)
  <2> DEFINE b == Len(none ++ x)
  <2>2. a = 0 /\ b = a + 1
      BY <1>1, <2>1
  <2> HIDE DEF a, b
  <2>3. b = 1
      BY ONLY <2>2
  <2> QED BY <2>3 DEF b
<1> DEFINE r == none ++ x
<1>3. \A m : m = State(r, <<>>, <<>>) => m.end = "none" /\ m.stack = r
  <2> HIDE DEF r
  <2> QED BY StateIs
<1> QED BY <1>1, <1>2, <1>3 DEF none

(* A candidate's run never starves.                                        *)
LEMMA CandidateSound ==
    ASSUME Given, ~Hors
    PROVE  Sound
<1>1. Script \in Codes /\ Ends
    BY CandidateEnds
<1>2. Len(Script) \in Nat
    BY <1>1, LenProperties DEF Codes
<1> DEFINE x == Truth(witness[1] = Key(Spend, {}))
<1>3. x \in Elements
  <2> DEFINE b == witness[1] = Key(Spend, {})
  <2>1. b \in BOOLEAN
      OBVIOUS
  <2> HIDE DEF b
  <2> QED BY <2>1, TruthIs
<1>4. Trace[Len(Script) + 1] = State(<<>> ++ x, <<>>, <<>>) \/ Rejected(Len(Script) + 1)
    BY <1>1 DEF Ends
<1> HIDE DEF x
<1>5. Trace[Len(Script) + 1].end # "underflow"
  <2>1. CASE Trace[Len(Script) + 1] = State(<<>> ++ x, <<>>, <<>>)
    <3>1. Trace[Len(Script) + 1].end = "none"
        BY <1>3, <2>1, Lone
    <3> QED BY <3>1
  <2>2. CASE Rejected(Len(Script) + 1)
      BY <2>2 DEF Rejected
  <2> QED BY <1>4, <2>1, <2>2
<1> QED BY <1>2, <1>5 DEF Sound

(* No candidate checks several signatures at once.                         *)
LEMMA CandidateTallied ==
    ASSUME Given, ~Hors
    PROVE  Tallied
<1>1. Script \in Seq(Instructions)
    BY CandidateEnds DEF Codes
<1>2. DOMAIN Script = 1 .. Len(Script) /\ \A k \in 1 .. Len(Script) : Script[k] \in Instructions
    BY <1>1, LenProperties, ElementOfSeq
<1>3. \A k \in 1 .. Len(Script) : Script[k].op # "CHECKMULTISIGVERIFY"
  <2> TAKE k \in 1 .. Len(Script)
  <2>1. Script[k].op \in Plain
      BY <1>2 DEF Instructions
  <2> QED BY <2>1 DEF Plain
<1> QED BY <1>2, <1>3 DEF Tallied

(* What a candidate's run ends with, as the variables have it.             *)
LEMMA CandidateAccepted ==
    ASSUME Given, ~Hors, Follows, status = "accepted"
    PROVE  /\ Cleared /\ witness[1] = Key(Spend, {})
           /\ Len(stack) = 1
<1>1. Script \in Codes /\ Ends /\ Sound
    BY CandidateEnds, CandidateSound
<1>2. Len(Script) \in Nat /\ pc = Len(Script) + 1 /\ Trace[Len(Script) + 1] = Now /\ Verdict
    BY <1>1 DEF Follows, Sound
<1>3. Now.end = "none" /\ Now.stack = stack
    BY StateIs DEF Now
<1>4. Cleared
    BY <1>1, <1>2, <1>3 DEF Ends, Rejected
<1> DEFINE b == witness[1] = Key(Spend, {})
<1> DEFINE x == Truth(b)
<1>5. b \in BOOLEAN
    OBVIOUS
<1>6. Now = State(<<>> ++ x, <<>>, <<>>)
    BY <1>1, <1>2, <1>4 DEF Ends
<1>7. x \in Elements /\ (IsTrue(x) <=> b)
  <2> HIDE DEF b
  <2> QED BY <1>5, TruthIs
<1> HIDE DEF b, x
<1>8. stack = <<>> ++ x /\ Len(stack) = 1
    BY <1>3, <1>6, <1>7, Lone
<1>9. Top(0) = x
  <2> DEFINE none == <<>>
  <2>1. none \in Stacks /\ stack = none ++ x
      BY <1>7, <1>8, Lone
  <2> HIDE DEF none
  <2>2. From(none ++ x, 0) = x
      BY <1>7, <2>1, OneOn
  <2> QED BY <2>1, <2>2 DEF From, Top
<1>10. IsTrue(x)
    BY <1>2, <1>9 DEF Verdict
<1> QED BY <1>4, <1>7, <1>8, <1>10 DEF b

(* A rejected spend of a candidate was not cleared or has not the key of   *)
(* this transaction.                                                       *)
LEMMA CandidateRejected ==
    ASSUME Given, ~Hors, Follows, status = "rejected"
    PROVE  ~(Cleared /\ witness[1] = Key(Spend, {}))
<1>1. Script \in Codes /\ Ends /\ Sound
    BY CandidateEnds, CandidateSound
<1> SUFFICES ASSUME Cleared
             PROVE  witness[1] # Key(Spend, {})
    OBVIOUS
<1> DEFINE b == witness[1] = Key(Spend, {})
<1> DEFINE x == Truth(b)
<1> DEFINE s == <<>>
<1>2. b \in BOOLEAN
    OBVIOUS
<1>3. Trace[Len(Script) + 1] = State(s ++ x, <<>>, <<>>)
    BY <1>1 DEF Ends
<1>4. x \in Elements /\ (IsTrue(x) <=> b)
  <2> HIDE DEF b
  <2> QED BY <1>2, TruthIs
<1>5. s \in Stacks /\ Len(Script) \in Nat
    BY <1>1 DEF Stacks, Sound
<1> HIDE DEF b, x, s
<1>6. ~IsTrue(x)
    BY <1>3, <1>4, <1>5, FollowsVerdict
<1> QED BY <1>4, <1>6 DEF b

(* One signature of a candidate authorises one message.                    *)
LEMMA CandidateSigns ==
    ASSUME Given, Follows
    PROVE  OneSignatureOneMessage
<1> SUFFICES ASSUME ~Hors, status # "running"
             PROVE  status = "accepted" <=> /\ instance.family # "whole_key"
                                            /\ witness[1] = Key(Spend, {})
                                            /\ \A j \in DOMAIN signed : SignsAgain(j)
    BY DEF OneSignatureOneMessage
<1>1. status = "accepted" \/ status = "rejected"
    BY DEF Follows
<1>2. status = "accepted" <=> Cleared /\ witness[1] = Key(Spend, {})
    BY <1>1, CandidateAccepted, CandidateRejected
<1>3. CASE instance.family # "whole_key"
    BY <1>2, <1>3 DEF Cleared
<1>4. CASE instance.family = "whole_key"
  <2>1. Cleared <=> Sha256Of(witness[1]) = KeyImage(Committed)
      BY <1>4 DEF Cleared
  <2>2. witness[1] \in Elements
    <3>1. CandidateGiven
        BY SpendIs
    <3>2. 1 \in 1 .. Len(witness) /\ witness \in Seq(Elements)
        BY <3>1, LenProperties DEF CandidateGiven, Stacks
    <3> QED BY <3>2, ElementOfSeq
  <2>3. Committed \in Int /\ Key(Committed, {}) # Key(Spend, {})
      BY Constants DEF Committed, Spend, Key, Element
  <2> DEFINE v == witness[1]
  <2> DEFINE n == Committed
  <2>4. v \in Elements /\ n \in Int
      BY <2>2, <2>3
  <2> HIDE DEF v, n
  <2>5. Sha256Of(v) = KeyImage(n) <=> v = Key(n, {})
      BY <2>4, ShaIs
  <2> QED BY <1>2, <1>4, <2>1, <2>3, <2>5 DEF v, n
<1> QED BY <1>3, <1>4

(* An accepted spend of a candidate has counted the opcodes of its script. *)
LEMMA CandidateOpcodes ==
    ASSUME Given, ~Hors, Follows, Counts
    PROVE  OpcodesAsCounted
<1> SUFFICES ASSUME status = "accepted"
             PROVE  opCount = StaticOpcodes(Script) /\ Len(stack) = 1
    BY DEF OpcodesAsCounted
<1>1. Sound /\ Tallied
    BY CandidateSound, CandidateTallied
<1>2. opCount = StaticOpcodes(Script)
    BY <1>1, CountsEnd
<1> QED BY <1>2, CandidateAccepted

-----------------------------------------------------------------------------
(* The inductive invariant.  What Init chose is still there, the variables *)
(* are where the trace of the script has them, and the opcodes counted are *)
(* those passed.  That the trace can neither starve nor miscount is no     *)
(* part of it: it follows from what was chosen alone (Founded).            *)
IInv == Given /\ Follows /\ Counts

(* No script starves or miscounts on what Init gives it.                   *)
LEMMA Founded ==
    ASSUME Given
    PROVE  Sound /\ Tallied
BY TableSound, TableTallied, CandidateSound, CandidateTallied

(* Stuttering changes nothing.                                             *)
LEMMA Unchanging ==
    ASSUME IInv, UNCHANGED vars
    PROVE  IInv'
<1>1. UNCHANGED given /\ UNCHANGED <<pc, stack, alt, taken, opCount, status, why>>
    BY DEF vars, given
<1>2. /\ Script' = Script /\ Trace' = Trace /\ T' = T /\ (Hors' <=> Hors)
    BY <1>1, GivenFixes, TraceFixed
<1>3. Given'
    BY <1>1, GivenStays DEF IInv
<1>4. Follows'
  <2>1. Now' = Now /\ (Verdict' <=> Verdict) /\ (Rejected(pc + 1)' <=> Rejected(pc + 1))
      BY <1>1, <1>2 DEF Now, Verdict, Holds, Top, Rejected
  <2> QED BY <1>1, <1>2, <2>1 DEF IInv, Follows
<1>5. Counts'
    BY <1>1, <1>2 DEF IInv, Counts, Passed, KeysPast
<1> QED BY <1>3, <1>4, <1>5 DEF IInv

(* Every execution stays where the trace of its script has it.             *)
THEOREM Invariance == Spec => []IInv
<1>1. Init => IInv
  <2> SUFFICES ASSUME Init
               PROVE  IInv
      OBVIOUS
  <2>1. Given
      BY DEF Init, Given
  <2> QED BY <2>1, Founded, FollowsInit, CountsInit DEF IInv
<1>2. IInv /\ [Next]_vars => IInv'
  <2>1. CASE Next
    <3> SUFFICES ASSUME IInv
                 PROVE  IInv'
        BY <2>1
    <3>1. UNCHANGED given
        BY <2>1, RunningSteps
    <3>2. Given'
        BY <3>1, GivenStays DEF IInv
    <3>3. Follows' /\ Counts'
        BY <2>1, Founded, FollowsNext, CountsNext DEF IInv
    <3> QED BY <3>2, <3>3 DEF IInv
  <2>2. CASE UNCHANGED vars
      BY <2>2, Unchanging
  <2> QED BY <2>1, <2>2
<1> QED BY <1>1, <1>2, PTL DEF Spec

(* AcceptsTheAuthorized: for every table size, selection count, puzzle and *)
(* oracle, whatever witness of those considered is supplied, the script of *)
(* compile() accepts exactly the authorised spends.                        *)
THEOREM Accepts == Spec => []AcceptsTheAuthorized
<1>1. IInv => AcceptsTheAuthorized
    BY FollowsAuthorized DEF IInv
<1> QED BY <1>1, Invariance, PTL

(* RollsFetchTheirElement: the stack positions compile() counts are those  *)
(* execution meets, for every script, and no opcode lacks an operand.      *)
THEOREM Fetches == Spec => []RollsFetchTheirElement
<1>1. IInv => RollsFetchTheirElement
    BY Founded, FollowsRolls DEF IInv
<1> QED BY <1>1, Invariance, PTL

(* OpcodesAsCounted: what an accepted spend incurs is what Instance and    *)
(* limits() count before funding, and only table and result stay behind.   *)
THEOREM CountsRight == Spec => []OpcodesAsCounted
<1>1. IInv => OpcodesAsCounted
    BY TableOpcodes, CandidateOpcodes DEF IInv
<1> QED BY <1>1, Invariance, PTL

(* OneSignatureOneMessage: for every message length one signature of a     *)
(* one-time key yields no other, and the checksum of a Winternitz message  *)
(* leaves no digit to raise.                                               *)
THEOREM SignsOnce == Spec => []OneSignatureOneMessage
<1>1. IInv => OneSignatureOneMessage
    BY CandidateSigns DEF IInv
<1> QED BY <1>1, Invariance, PTL
=============================================================================
