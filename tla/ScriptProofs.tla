---------------------------- MODULE ScriptProofs ----------------------------
(***************************************************************************)
(* Proofs about ScriptExecution for every table size, number of            *)
(* selections, puzzle, oracle and witness: what the script compile()       *)
(* writes does to what a spend supplies.                                   *)
(*                                                                         *)
(* A script without loops turns its witness into a fixed sequence of       *)
(* executions, its trace: a function of instance and witness, defined here *)
(* without the variables (Exec, Trace).  Every action does to the          *)
(* variables what Exec does to the trace (ExecActs), so that the verdict   *)
(* is that of the last execution of the trace, and everything else is      *)
(* about codes: where a code stands in the script (Block), and what it     *)
(* makes of a stack (the lemmas named Run... for one opcode and ...Runs    *)
(* for a piece of code).                                                   *)
(*                                                                         *)
(* compile() keeps the names of the stack while it writes, as Keeps says   *)
(* of a compiler state: the names of the witness elements not yet fetched, *)
(* under as many others as the stack has.  A roll by that depth fetches    *)
(* the element of that name (RollCodeRuns), which gives each stage of      *)
(* compile() its effect, and the whole script its verdict (HorsRuns).      *)
(* CandidateProofs does the same for the other scripts and states the      *)
(* theorems.                                                               *)
(***************************************************************************)
EXTENDS ScriptExecution, FiniteSetTheorems, SequenceTheorems, TLAPS

-----------------------------------------------------------------------------
(* Stacks.  Elements are pushed one by one: s ++ e is s with e on top.     *)
Kinds == {"num", "fixed", "junk", "key", "keyhash", "keyimage", "proofkey", "proofsig",
          "dummy", "dummykey", "preimage", "commitment", "secret", "image", "link"}
Elements == [kind : Kinds, n : Int, s : SUBSET Int]
Stacks == Seq(Elements)
s ++ e == Append(s, e)

(* The top of a stack and what is below it.                                *)
LEMMA Pushed ==
    ASSUME NEW s \in Stacks, NEW e \in Elements
    PROVE  /\ s ++ e \in Stacks
           /\ Len(s ++ e) = Len(s) + 1
           /\ (s ++ e)[Len(s) + 1] = e
           /\ \A k \in 1 .. Len(s) : (s ++ e)[k] = s[k]
           /\ SubSeq(s ++ e, 1, Len(s)) = s
<1>1. /\ s ++ e \in Stacks
      /\ Len(s ++ e) = Len(s) + 1
      /\ (s ++ e)[Len(s) + 1] = e
      /\ \A k \in 1 .. Len(s) : (s ++ e)[k] = s[k]
    BY AppendProperties DEF ++, Stacks
<1>2. SubSeq(s ++ e, 1, Len(s)) \in Stacks /\ Len(SubSeq(s ++ e, 1, Len(s))) = Len(s)
    BY <1>1, SubSeqProperties, LenProperties DEF Stacks
<1> QED BY <1>1, <1>2, SeqEqual, LenProperties, SubSeqProperties DEF Stacks

(* A stack cut off at some height is cut off there however high it was.    *)
LEMMA CutLower ==
    ASSUME NEW s \in Stacks, NEW e \in Elements, NEW k \in 0 .. Len(s)
    PROVE  SubSeq(s ++ e, 1, k) = SubSeq(s, 1, k)
<1>0. Len(s) \in Nat /\ \A i \in 1 .. Len(s) : s[i] \in Elements
    BY LenProperties, ElementOfSeq DEF Stacks
<1>1. \A i \in 1 .. k : (s ++ e)[i] = s[i] /\ s[i] \in Elements
    BY <1>0, Pushed
<1>2. /\ SubSeq(s ++ e, 1, k) \in Seq(Elements) /\ SubSeq(s, 1, k) \in Seq(Elements)
      /\ Len(SubSeq(s ++ e, 1, k)) = k /\ Len(SubSeq(s, 1, k)) = k
      /\ \A i \in 1 .. k : SubSeq(s ++ e, 1, k)[i] = SubSeq(s, 1, k)[i]
    BY <1>0, <1>1, SubSeqProperties
<1> QED BY <1>2, SeqEqual

(* Two and three elements on top.                                          *)
LEMMA PushedTwo ==
    ASSUME NEW s \in Stacks, NEW a \in Elements, NEW b \in Elements
    PROVE  /\ s ++ a \in Stacks /\ s ++ a ++ b \in Stacks
           /\ Len(s ++ a ++ b) = Len(s) + 2 /\ Len(s) \in Nat
           /\ (s ++ a ++ b)[Len(s) + 2] = b
           /\ (s ++ a ++ b)[Len(s) + 1] = a
           /\ SubSeq(s ++ a ++ b, 1, Len(s) + 1) = s ++ a
           /\ SubSeq(s ++ a ++ b, 1, Len(s)) = s
<1> DEFINE t == s ++ a
<1>1. /\ t \in Stacks /\ Len(t) = Len(s) + 1 /\ Len(s) \in Nat
      /\ t[Len(s) + 1] = a /\ SubSeq(t, 1, Len(s)) = s
    BY Pushed, LenProperties DEF Stacks
<1> HIDE DEF t
<1>2. /\ t ++ b \in Stacks /\ Len(t ++ b) = Len(t) + 1 /\ (t ++ b)[Len(t) + 1] = b
      /\ \A k \in 1 .. Len(t) : (t ++ b)[k] = t[k]
      /\ SubSeq(t ++ b, 1, Len(t)) = t
    BY <1>1, Pushed
<1>3. SubSeq(t ++ b, 1, Len(s)) = SubSeq(t, 1, Len(s))
  <2>1. Len(s) \in 0 .. Len(t)
      BY <1>1
  <2> QED BY <1>1, <2>1, CutLower
<1>4. (t ++ b)[Len(s) + 1] = a
    BY <1>1, <1>2
<1> QED BY <1>1, <1>2, <1>3, <1>4 DEF t

(* Three elements pushed.                                                  *)
LEMMA PushedThree ==
    ASSUME NEW s \in Stacks, NEW a \in Elements, NEW b \in Elements, NEW c \in Elements
    PROVE  /\ s ++ a ++ b ++ c \in Stacks
           /\ Len(s ++ a ++ b ++ c) = Len(s) + 3 /\ Len(s) \in Nat
           /\ (s ++ a ++ b ++ c)[Len(s) + 3] = c
           /\ (s ++ a ++ b ++ c)[Len(s) + 2] = b
           /\ (s ++ a ++ b ++ c)[Len(s) + 1] = a
           /\ SubSeq(s ++ a ++ b ++ c, 1, Len(s)) = s
<1> DEFINE t == s ++ a ++ b
<1>1. /\ t \in Stacks /\ Len(t) = Len(s) + 2 /\ Len(s) \in Nat
      /\ t[Len(s) + 2] = b /\ t[Len(s) + 1] = a /\ SubSeq(t, 1, Len(s)) = s
    BY PushedTwo
<1> HIDE DEF t
<1>2. /\ t ++ c \in Stacks /\ Len(t ++ c) = Len(t) + 1 /\ (t ++ c)[Len(t) + 1] = c
      /\ \A k \in 1 .. Len(t) : (t ++ c)[k] = t[k]
    BY <1>1, Pushed
<1>3. SubSeq(t ++ c, 1, Len(s)) = SubSeq(t, 1, Len(s))
  <2>1. Len(s) \in 0 .. Len(t)
      BY <1>1
  <2> QED BY <1>1, <2>1, CutLower
<1>4. (t ++ c)[Len(s) + 1] = a /\ (t ++ c)[Len(s) + 2] = b
    BY <1>1, <1>2
<1> QED BY <1>1, <1>2, <1>3, <1>4 DEF t

(* Results pushed together or one by one.                                  *)
LEMMA PushedNone ==
    ASSUME NEW s \in Stacks
    PROVE  s \o <<>> = s
BY ConcatEmptySeq DEF Stacks

(* Concatenation of a few elements is pushing them.                        *)
LEMMA PushedOnce ==
    ASSUME NEW s \in Stacks, NEW x \in Elements
    PROVE  s \o <<x>> = s ++ x
BY AppendIsConcat DEF Stacks, ++

(* The same for two elements.                                              *)
LEMMA PushedTwice ==
    ASSUME NEW s \in Stacks, NEW x \in Elements, NEW y \in Elements
    PROVE  s \o <<x, y>> = s ++ x ++ y
<1>1. s ++ x \in Stacks
    BY Pushed
<1>2. <<x, y>> = <<x>> \o <<y>>
  <2>1. <<x, y>> = Append(<<x>>, y)
      OBVIOUS
  <2>2. <<x>> \in Seq(Elements)
      OBVIOUS
  <2> QED BY <2>1, <2>2, AppendIsConcat
<1>3. s \in Seq(Elements) /\ <<x>> \in Seq(Elements) /\ <<y>> \in Seq(Elements)
    BY DEF Stacks
<1>4. s \o (<<x>> \o <<y>>) = (s \o <<x>>) \o <<y>>
    BY <1>3, ConcatAssociative
<1>5. s \o <<x>> = s ++ x
    BY PushedOnce
<1>6. (s ++ x) \o <<y>> = s ++ x ++ y
    BY <1>1, PushedOnce
<1> QED BY <1>2, <1>4, <1>5, <1>6

(* The same for three elements.                                            *)
LEMMA PushedThrice ==
    ASSUME NEW s \in Stacks, NEW x \in Elements, NEW y \in Elements, NEW z \in Elements
    PROVE  s \o <<x, y, z>> = s ++ x ++ y ++ z
<1>1. s ++ x \in Stacks /\ s ++ x ++ y \in Stacks
    BY Pushed
<1>2. <<x, y, z>> = <<x, y>> \o <<z>>
    OBVIOUS
<1>3. s \in Seq(Elements) /\ <<x, y>> \in Seq(Elements) /\ <<z>> \in Seq(Elements)
    BY DEF Stacks
<1>4. s \o (<<x, y>> \o <<z>>) = (s \o <<x, y>>) \o <<z>>
    BY <1>3, ConcatAssociative
<1>5. s \o <<x, y>> = s ++ x ++ y
    BY PushedTwice
<1>6. (s ++ x ++ y) \o <<z>> = s ++ x ++ y ++ z
    BY <1>1, PushedOnce
<1> QED BY <1>2, <1>4, <1>5, <1>6

(* An element is known by its parts.                                       *)
LEMMA ElementIs ==
    ASSUME NEW k \in Kinds, NEW n \in Int, NEW d \in SUBSET Int
    PROVE  /\ Element(k, n, d) \in Elements
           /\ Element(k, n, d).kind = k /\ Element(k, n, d).n = n /\ Element(k, n, d).s = d
           /\ \A e \in Elements : e.kind = k /\ e.n = n /\ e.s = d => e = Element(k, n, d)
BY DEF Element, Elements

(* Constants are elements.                                                 *)
LEMMA NumberIs ==
    ASSUME NEW k \in Int
    PROVE  Num(k) \in Elements /\ Num(k).kind = "num" /\ Num(k).n = k
<1>1. "num" \in Kinds /\ {} \in SUBSET Int
    BY DEF Kinds
<1>2. Num(k) = Element("num", k, {})
    BY DEF Num
<1> QED BY <1>1, <1>2, ElementIs

(* The number that stands for a truth value.                               *)
LEMMA TruthIs ==
    ASSUME NEW b \in BOOLEAN
    PROVE  /\ Truth(b) \in Elements /\ Truth(b).kind = "num"
           /\ IsTrue(Truth(b)) <=> b
<1>1. Num(1) # Num(0)
    BY NumberIs
<1>2. CASE b
    BY <1>1, <1>2, NumberIs DEF Truth, IsTrue
<1>3. CASE ~b
    BY <1>3, NumberIs DEF Truth, IsTrue
<1> QED BY <1>2, <1>3

(* The elements every script pushes.                                       *)
LEMMA Constants ==
    Junk \in Elements /\ Junk.kind = "junk" /\ Fixed \in Elements /\ Fixed.kind = "fixed"
<1>1. "junk" \in Kinds /\ "fixed" \in Kinds /\ 0 \in Int /\ {} \in SUBSET Int
    BY DEF Kinds
<1> QED BY <1>1, ElementIs DEF Junk, Fixed

-----------------------------------------------------------------------------
(* The machine as a function.  An execution is alive with its two stacks   *)
(* and its open branches, or has ended for a reason.                       *)
State(s, a, b) == [stack |-> s, alt |-> a, taken |-> b, end |-> "none"]
Dead(reason) == [stack |-> <<>>, alt |-> <<>>, taken |-> <<>>, end |-> reason]

From(s, k) == s[Len(s) - k]
Cut(s, k) == SubSeq(s, 1, Len(s) - k)
Numbered(s, k) == Len(s) >= k /\ \A i \in 0 .. k - 1 : From(s, i).kind = "num"
Replaced(m, k, n, results) ==
    IF Len(m.stack) >= k /\ Numbered(m.stack, n)
    THEN State(Cut(m.stack, k) \o results, m.alt, m.taken)
    ELSE Dead(IF Len(m.stack) >= k THEN "not a number" ELSE "underflow")
Hashed(e, source, image) == IF e.kind = source THEN [e EXCEPT !.kind = image] ELSE Junk

Deep(s) == Numbered(s, 1) /\ From(s, 0).n >= 0 /\ Len(s) >= From(s, 0).n + 2
Copied(m) ==
    IF Deep(m.stack)
    THEN State(Append(Cut(m.stack, 1), From(m.stack, From(m.stack, 0).n + 1)), m.alt, m.taken)
    ELSE Dead("underflow")
(* A roll that does not fetch what it is named for counts as starved.      *)
Rolled(m, name) ==
    IF Deep(m.stack) /\ (name = NoName \/ From(m.stack, From(m.stack, 0).n + 1) = Supplied(name))
    THEN State(Append(RemoveAt(Cut(m.stack, 1), Len(m.stack) - 1 - From(m.stack, 0).n),
                      From(m.stack, From(m.stack, 0).n + 1)), m.alt, m.taken)
    ELSE Dead("underflow")

Checked(m, k, passes, reason) ==
    IF Len(m.stack) >= k
    THEN IF passes THEN State(Cut(m.stack, k), m.alt, m.taken) ELSE Dead(reason)
    ELSE Dead("underflow")

Fits(s) ==
    /\ Numbered(s, 1)
    /\ From(s, 0).n > 0
    /\ Len(s) >= 2 * From(s, 0).n + 3
    /\ From(s, From(s, 0).n + 1) = Num(From(s, 0).n)
Unlocked(s) ==
    LET k == From(s, 0).n
        deleted == {From(s, k + 1 + i).n : i \in {j \in 1 .. k : From(s, k + 1 + j).kind = "dummy"}}
    IN  \A i \in 1 .. k : Verifies(From(s, k + 1 + i), From(s, i), deleted)

Executed(ins, m) ==
    LET s == m.stack
    IN  CASE ins.op = "PUSH" -> State(Append(s, ins.arg), m.alt, m.taken)
          [] ins.op = "DUP" -> Replaced(m, 1, 0, <<From(s, 0), From(s, 0)>>)
          [] ins.op = "DROP" -> Replaced(m, 1, 0, <<>>)
          [] ins.op = "OVER" -> Replaced(m, 2, 0, <<From(s, 1), From(s, 0), From(s, 1)>>)
          [] ins.op = "SWAP" -> Replaced(m, 2, 0, <<From(s, 0), From(s, 1)>>)
          [] ins.op = "ADD" -> Replaced(m, 2, 2, <<Num(From(s, 1).n + From(s, 0).n)>>)
          [] ins.op = "GREATERTHAN" -> Replaced(m, 2, 2, <<Truth(From(s, 1).n > From(s, 0).n)>>)
          [] ins.op = "LESSTHANOREQUAL" ->
                Replaced(m, 2, 2, <<Truth(From(s, 1).n <= From(s, 0).n)>>)
          [] ins.op = "WITHIN" ->
                Replaced(m, 3, 3,
                    <<Truth(From(s, 1).n <= From(s, 2).n /\ From(s, 2).n < From(s, 0).n)>>)
          [] ins.op = "HASH160" ->
                Replaced(m, 1, 0, <<Hashed(From(s, 0), "preimage", "commitment")>>)
          [] ins.op = "RIPEMD160" -> Replaced(m, 1, 0, <<Hashed(From(s, 0), "key", "keyhash")>>)
          [] ins.op = "SHA256" -> Replaced(m, 1, 0, <<Sha256Of(From(s, 0))>>)
          [] ins.op = "SIZE" -> Replaced(m, 1, 0, <<From(s, 0), Num(SizeOf(From(s, 0)))>>)
          [] ins.op = "PICK" -> Copied(m)
          [] ins.op = "ROLL" -> Rolled(m, ins.name)
          [] ins.op = "TOALT" ->
                IF Len(s) >= 1 THEN State(Cut(s, 1), Append(m.alt, From(s, 0)), m.taken)
                               ELSE Dead("underflow")
          [] ins.op = "FROMALT" ->
                IF m.alt # <<>> THEN State(Append(s, Last(m.alt)), Front(m.alt), m.taken)
                                ELSE Dead("underflow")
          [] ins.op = "VERIFY" -> Checked(m, 1, IsTrue(From(s, 0)), "verify")
          [] ins.op = "EQUALVERIFY" -> Checked(m, 2, From(s, 0) = From(s, 1), "equalverify")
          [] ins.op = "CHECKSIGVERIFY" ->
                Checked(m, 2, Verifies(From(s, 1), From(s, 0), {}), "checksig")
          [] ins.op = "CHECKSIG" ->
                Replaced(m, 2, 0, <<Truth(Verifies(From(s, 1), From(s, 0), {}))>>)
          [] ins.op = "CHECKMULTISIGVERIFY" ->
                IF Fits(s) THEN Checked(m, 2 * From(s, 0).n + 3, Unlocked(s), "checksig")
                           ELSE Dead("underflow")
          [] ins.op = "CODESEPARATOR" -> m
          [] ins.op = "IF" ->
                IF Len(s) >= 1 THEN State(Cut(s, 1), m.alt, Append(m.taken, IsTrue(From(s, 0))))
                               ELSE Dead("underflow")
          [] OTHER -> m

Exec(ins, m) ==
    IF m.end # "none" THEN m
    ELSE IF ins.op = "ELSE" THEN State(m.stack, m.alt, Append(Front(m.taken), ~Last(m.taken)))
    ELSE IF ins.op = "ENDIF" THEN State(m.stack, m.alt, Front(m.taken))
    ELSE IF \A i \in DOMAIN m.taken : m.taken[i] THEN Executed(ins, m) ELSE m

(* Trace[p] is the execution before instruction p.                         *)
Traces(n, f) ==
    f = [p \in 1 .. n |-> IF p = 1 THEN State(witness, <<>>, <<>>)
                                   ELSE Exec(Script[p - 1], f[p - 1])]
Trace == CHOOSE f : Traces(Len(Script) + 1, f)

(* A nonempty set of naturals has a least member.                          *)
LEMMA LeastMember ==
    ASSUME NEW U \in SUBSET Nat, U # {}
    PROVE  \E m \in U : \A n \in U : m <= n
<1> DEFINE R == OpToRel(<, Nat)
<1>1. IsWellFoundedOn(R, Nat)
    BY NatLessThanWellFounded
<1>2. \A n, m \in U : <<n, m>> \in R <=> n < m
    BY DEF OpToRel
<1> HIDE DEF R
<1>3. PICK m \in U : \A n \in U : ~(<<n, m>> \in R)
    BY <1>1, WFMin
<1>4. \A n \in U : ~(n < m)
    BY <1>2, <1>3
<1>5. \A n \in U : m <= n
    BY <1>4
<1> QED BY <1>5

(* A trace exists for every length.                                        *)
LEMMA TracesExist ==
    ASSUME NEW n \in Nat
    PROVE  \E f : Traces(n, f)
<1> DEFINE Bad == {k \in Nat : ~\E f : Traces(k, f)}
<1>1. CASE Bad # {}
  <2>1. PICK m \in Bad : \A k \in Bad : m <= k
      BY <1>1, LeastMember
  <2>2. m # 0
    <3>1. Traces(0, [i \in 1 .. 0 |-> i])
        BY DEF Traces
    <3> QED BY <2>1, <3>1
  <2>3. PICK f : Traces(m - 1, f)
      BY <2>1, <2>2
  <2> DEFINE S(i, g) == IF i = 1 THEN State(witness, <<>>, <<>>) ELSE Exec(Script[i - 1], g[i - 1])
  <2>4. f = [i \in 1 .. m - 1 |-> S(i, f)]
      BY <2>3 DEF Traces
  <2> DEFINE g == [i \in 1 .. m |-> S(i, f)]
  <2>7. m \in Nat /\ m - 1 \in Nat
      BY <2>1, <2>2
  <2>5. \A i \in 1 .. m - 1 : g[i] = f[i]
    <3>1. \A i \in 1 .. m - 1 : i \in 1 .. m
        BY <2>7
    <3> HIDE DEF S
    <3>2. \A i \in 1 .. m - 1 : f[i] = S(i, f)
        BY <2>4
    <3> QED BY <3>1, <3>2
  <2>6. g = [i \in 1 .. m |-> S(i, g)]
    <3>1. ASSUME NEW i \in 1 .. m
          PROVE S(i, f) = S(i, g)
      <4>1. CASE i = 1
          BY <4>1
      <4>2. CASE i # 1
        <5>1. i - 1 \in 1 .. m - 1
            BY <2>7, <4>2
        <5>2. g[i - 1] = f[i - 1]
            BY <2>5, <5>1
        <5> HIDE DEF g
        <5> QED BY <4>2, <5>2
      <4> QED BY <4>1, <4>2
    <3> HIDE DEF S
    <3> QED BY <3>1
  <2>8. Traces(m, g)
      BY <2>6 DEF Traces
  <2> QED BY <2>1, <2>8
<1>2. CASE Bad = {}
    BY <1>2
<1> QED BY <1>1, <1>2

(* The trace starts at the witness and takes one instruction at a time.    *)
LEMMA TraceSteps ==
    ASSUME Len(Script) \in Nat
    PROVE  /\ Trace[1] = State(witness, <<>>, <<>>)
           /\ \A p \in 1 .. Len(Script) : Trace[p + 1] = Exec(Script[p], Trace[p])
<1>1. \E f : Traces(Len(Script) + 1, f)
    BY TracesExist
<1>2. Traces(Len(Script) + 1, Trace)
    BY <1>1 DEF Trace
<1> DEFINE S(i, g) == IF i = 1 THEN State(witness, <<>>, <<>>) ELSE Exec(Script[i - 1], g[i - 1])
<1>3. Trace = [p \in 1 .. Len(Script) + 1 |-> S(p, Trace)]
    BY <1>2 DEF Traces
<1>4. \A p \in 1 .. Len(Script) + 1 : Trace[p] = S(p, Trace)
  <2> HIDE DEF S
  <2> QED BY <1>3
<1>5. Trace[1] = S(1, Trace)
    BY <1>4
<1>6. ASSUME NEW p \in 1 .. Len(Script)
      PROVE Trace[p + 1] = Exec(Script[p], Trace[p])
  <2>1. Trace[p + 1] = S(p + 1, Trace) /\ p + 1 # 1 /\ (p + 1) - 1 = p
      BY <1>4
  <2> QED BY <2>1
<1> QED BY <1>5, <1>6

-----------------------------------------------------------------------------
(* The actions execute what Exec computes.                                 *)
Counters == pc \in Nat /\ Len(Script) \in Nat
Now == State(stack, alt, taken)
Opcodes ==
    {"PUSH", "DUP", "DROP", "OVER", "SWAP", "ADD", "GREATERTHAN", "LESSTHANOREQUAL", "WITHIN",
    "HASH160", "RIPEMD160", "SHA256", "SIZE", "PICK", "ROLL", "TOALT", "FROMALT", "VERIFY",
    "EQUALVERIFY", "CHECKSIGVERIFY", "CHECKSIG", "CHECKMULTISIGVERIFY", "CODESEPARATOR", "IF"}

(* The state after an instruction that ends an execution, or does not.     *)
Outcome(m) ==
    /\ UNCHANGED given
    /\ IF m.end = "none"
       THEN /\ stack' = m.stack /\ alt' = m.alt /\ taken' = m.taken
            /\ pc' = pc + 1 /\ status' = "running" /\ why' = why
       ELSE /\ UNCHANGED <<pc, stack, alt, taken>>
            /\ status' = "rejected" /\ why' = m.end

(* The instruction at pc is executed by the action of its opcode.          *)
LEMMA Dispatch ==
    ASSUME Next, Counters, Running
    PROVE  /\ Executing =>
              /\ Current.op = "PUSH" => PushData
              /\ Current.op = "DUP" => Dup
              /\ Current.op = "DROP" => Drop
              /\ Current.op = "OVER" => Over
              /\ Current.op = "SWAP" => Swap
              /\ Current.op = "ADD" => Add
              /\ Current.op = "GREATERTHAN" => GreaterThan
              /\ Current.op = "LESSTHANOREQUAL" => LessThanOrEqual
              /\ Current.op = "WITHIN" => Within
              /\ Current.op = "HASH160" => Hash160
              /\ Current.op = "RIPEMD160" => Ripemd160
              /\ Current.op = "SHA256" => Sha256
              /\ Current.op = "SIZE" => Size
              /\ Current.op = "PICK" => Pick
              /\ Current.op = "ROLL" => RollUp
              /\ Current.op = "TOALT" => ToAlt
              /\ Current.op = "FROMALT" => FromAlt
              /\ Current.op = "VERIFY" => Verify
              /\ Current.op = "EQUALVERIFY" => EqualVerify
              /\ Current.op = "CHECKSIGVERIFY" => CheckSigVerify
              /\ Current.op = "CHECKSIG" => CheckSig
              /\ Current.op = "CHECKMULTISIGVERIFY" => CheckMultisigVerify
              /\ Current.op = "CODESEPARATOR" => CodeSeparator
              /\ Current.op = "IF" => If
              /\ Current.op \in Opcodes \union {"ELSE", "ENDIF"}
           /\ Current.op = "ELSE" => Else
           /\ Current.op = "ENDIF" => EndIf
           /\ ~Executing => Current.op \in {"ELSE", "ENDIF"} \/ Skip
<1>1. ~Finish
    BY DEF Finish, Counters, Running
<1>2. \/ Executing /\ Current.op \notin {"ELSE", "ENDIF"} /\ ~Skip /\ ~Else /\ ~EndIf
      \/ ~Executing /\ Current.op \notin {"ELSE", "ENDIF"} /\ ~Else /\ ~EndIf
      \/ Current.op = "ELSE"
      \/ Current.op = "ENDIF"
    BY DEF Skip, Else, EndIf, Branch
<1> QED BY <1>1, <1>2 DEF Next, At, Stackwise, Skip, Else, EndIf, Branch, Opcodes,
        PushData, Dup, Drop, Over, Swap, Add, GreaterThan, LessThanOrEqual, Within, Hash160,
        Ripemd160, Sha256, Size, Pick, RollUp, ToAlt, FromAlt, Verify, EqualVerify, CheckSigVerify,
        CheckSig, CheckMultisigVerify, CodeSeparator, If

(* A state is what it was made of.                                         *)
LEMMA StateIs ==
    ASSUME NEW s, NEW a, NEW b
    PROVE  /\ State(s, a, b).stack = s /\ State(s, a, b).alt = a
           /\ State(s, a, b).taken = b /\ State(s, a, b).end = "none"
BY DEF State

(* An execution that has ended is not alive.                               *)
LEMMA DeadIs ==
    ASSUME NEW reason
    PROVE  Dead(reason).end = reason
BY DEF Dead

(* An action that moves on has the outcome of a living execution.          *)
LEMMA OutcomeAlive ==
    ASSUME Running, NEW s, NEW a, NEW n, Moves(s, a, n)
    PROVE  Outcome(State(s, a, taken))
BY StateIs DEF Outcome, Moves, Counted, Running

(* An action that rejects has the outcome of a dead one.                   *)
LEMMA OutcomeDead ==
    ASSUME NEW reason, reason # "none", Rejects(reason)
    PROVE  Outcome(Dead(reason))
BY DeadIs DEF Outcome, Rejects

(* Actions that replace the top of the stack.                              *)
LEMMA ReplacedActs ==
    ASSUME Running, NEW k, NEW n, NEW results,
           IF Can(k, n) THEN Goes(Below(k) \o results) ELSE Starved(k, n)
    PROVE  Outcome(Replaced(Now, k, n, results))
<1>1. Now.stack = stack /\ Now.alt = alt /\ Now.taken = taken
    BY StateIs DEF Now
<1>2. Can(k, n) <=> Len(stack) >= k /\ Numbered(stack, n)
    BY DEF Can, Holds, AreNumbers, Numbered, From, Top
<1>3. CASE Can(k, n)
  <2>1. Replaced(Now, k, n, results) = State(Below(k) \o results, alt, taken)
      BY <1>1, <1>2, <1>3 DEF Replaced, Cut, Below
  <2>2. Moves(Below(k) \o results, alt, 1)
      BY <1>3 DEF Goes
  <2> QED BY <2>1, <2>2, OutcomeAlive
<1>4. CASE ~Can(k, n)
  <2> DEFINE reason == IF Holds(k) THEN "not a number" ELSE "underflow"
  <2>1. Replaced(Now, k, n, results) = Dead(reason)
      BY <1>1, <1>2, <1>4 DEF Replaced, Holds
  <2>2. Rejects(reason)
      BY <1>4 DEF Starved
  <2>3. reason # "none"
      OBVIOUS
  <2> HIDE DEF reason
  <2> QED BY <2>1, <2>2, <2>3, OutcomeDead
<1> QED BY <1>3, <1>4

(* Actions that test the top of the stack and drop it.                     *)
LEMMA CheckedActs ==
    ASSUME Running, NEW k, NEW passes, NEW reason, reason # "none",
           IF ~Holds(k) THEN Rejects("underflow")
           ELSE IF passes THEN Goes(Below(k)) ELSE Rejects(reason)
    PROVE  Outcome(Checked(Now, k, passes, reason))
<1>1. Now.stack = stack /\ Now.alt = alt /\ Now.taken = taken
    BY StateIs DEF Now
<1>2. CASE ~Holds(k)
  <2>1. Checked(Now, k, passes, reason) = Dead("underflow")
      BY <1>1, <1>2 DEF Checked, Holds
  <2>2. Rejects("underflow") /\ "underflow" # "none"
      BY <1>2
  <2> QED BY <2>1, <2>2, OutcomeDead
<1>3. CASE Holds(k) /\ passes
  <2>1. Checked(Now, k, passes, reason) = State(Below(k), alt, taken)
      BY <1>1, <1>3 DEF Checked, Holds, Cut, Below
  <2>2. Moves(Below(k), alt, 1)
      BY <1>3 DEF Goes
  <2> QED BY <2>1, <2>2, OutcomeAlive
<1>4. CASE Holds(k) /\ ~passes
  <2>1. Checked(Now, k, passes, reason) = Dead(reason)
      BY <1>1, <1>4 DEF Checked, Holds
  <2>2. Rejects(reason)
      BY <1>4
  <2> QED BY <2>1, <2>2, OutcomeDead
<1> QED BY <1>2, <1>3, <1>4

(* An instruction that is executed does to the state what Executed says.   *)
LEMMA ExecutingActs ==
    ASSUME Next, Counters, Running, Executing, Current.op \notin {"ELSE", "ENDIF"},
           Executed(Current, Now).end # "underflow"
    PROVE  Outcome(Executed(Current, Now))
<1>1. Now.stack = stack /\ Now.alt = alt /\ Now.taken = taken /\ Now.end = "none"
    BY StateIs DEF Now
<1>2. Current.op \in Opcodes
    BY Dispatch
<1>3. \A k : From(stack, k) = Top(k) /\ Cut(stack, k) = Below(k)
    BY DEF From, Top, Cut, Below
<1>4. CASE Current.op = "PUSH"
  <2>1. PushData
      BY <1>4, Dispatch
  <2>2. Executed(Current, Now) = State(Append(stack, Current.arg), alt, taken)
      BY <1>1, <1>4 DEF Executed
  <2> QED BY <2>1, <2>2, OutcomeAlive DEF PushData
<1>5. CASE Current.op = "DUP"
  <2>1. Dup
      BY <1>5, Dispatch
  <2>2. Executed(Current, Now) = Replaced(Now, 1, 0, <<Top(0), Top(0)>>)
      BY <1>1, <1>3, <1>5 DEF Executed
  <2>3. IF Can(1, 0) THEN Goes(Below(1) \o <<Top(0), Top(0)>>)
        ELSE Starved(1, 0)
      BY <2>1 DEF Dup, Stackwise
  <2> QED BY <2>2, <2>3, ReplacedActs
<1>6. CASE Current.op = "DROP"
  <2>1. Drop
      BY <1>6, Dispatch
  <2>2. Executed(Current, Now) = Replaced(Now, 1, 0, <<>>)
      BY <1>1, <1>3, <1>6 DEF Executed
  <2>3. IF Can(1, 0) THEN Goes(Below(1) \o <<>>)
        ELSE Starved(1, 0)
      BY <2>1 DEF Drop, Stackwise
  <2> QED BY <2>2, <2>3, ReplacedActs
<1>7. CASE Current.op = "OVER"
  <2>1. Over
      BY <1>7, Dispatch
  <2>2. Executed(Current, Now) = Replaced(Now, 2, 0, <<Top(1), Top(0), Top(1)>>)
      BY <1>1, <1>3, <1>7 DEF Executed
  <2>3. IF Can(2, 0) THEN Goes(Below(2) \o <<Top(1), Top(0), Top(1)>>)
        ELSE Starved(2, 0)
      BY <2>1 DEF Over, Stackwise
  <2> QED BY <2>2, <2>3, ReplacedActs
<1>8. CASE Current.op = "SWAP"
  <2>1. Swap
      BY <1>8, Dispatch
  <2>2. Executed(Current, Now) = Replaced(Now, 2, 0, <<Top(0), Top(1)>>)
      BY <1>1, <1>3, <1>8 DEF Executed
  <2>3. IF Can(2, 0) THEN Goes(Below(2) \o <<Top(0), Top(1)>>)
        ELSE Starved(2, 0)
      BY <2>1 DEF Swap, Stackwise
  <2> QED BY <2>2, <2>3, ReplacedActs
<1>9. CASE Current.op = "ADD"
  <2>1. Add
      BY <1>9, Dispatch
  <2>2. Executed(Current, Now) = Replaced(Now, 2, 2, <<Num(Top(1).n + Top(0).n)>>)
      BY <1>1, <1>3, <1>9 DEF Executed
  <2>3. IF Can(2, 2) THEN Goes(Below(2) \o <<Num(Top(1).n + Top(0).n)>>)
        ELSE Starved(2, 2)
      BY <2>1 DEF Add, Stackwise
  <2> QED BY <2>2, <2>3, ReplacedActs
<1>10. CASE Current.op = "GREATERTHAN"
  <2>1. GreaterThan
      BY <1>10, Dispatch
  <2>2. Executed(Current, Now) = Replaced(Now, 2, 2, <<Truth(Top(1).n > Top(0).n)>>)
      BY <1>1, <1>3, <1>10 DEF Executed
  <2>3. IF Can(2, 2) THEN Goes(Below(2) \o <<Truth(Top(1).n > Top(0).n)>>)
        ELSE Starved(2, 2)
      BY <2>1 DEF GreaterThan, Stackwise
  <2> QED BY <2>2, <2>3, ReplacedActs
<1>11. CASE Current.op = "LESSTHANOREQUAL"
  <2>1. LessThanOrEqual
      BY <1>11, Dispatch
  <2>2. Executed(Current, Now) = Replaced(Now, 2, 2, <<Truth(Top(1).n <= Top(0).n)>>)
      BY <1>1, <1>3, <1>11 DEF Executed
  <2>3. IF Can(2, 2) THEN Goes(Below(2) \o <<Truth(Top(1).n <= Top(0).n)>>)
        ELSE Starved(2, 2)
      BY <2>1 DEF LessThanOrEqual, Stackwise
  <2> QED BY <2>2, <2>3, ReplacedActs
<1>12. CASE Current.op = "WITHIN"
  <2>1. Within
      BY <1>12, Dispatch
  <2>2. Executed(Current, Now) = Replaced(Now, 3, 3,
                <<Truth(Top(1).n <= Top(2).n /\ Top(2).n < Top(0).n)>>)
      BY <1>1, <1>3, <1>12 DEF Executed
  <2>3. IF Can(3, 3) THEN Goes(Below(3) \o <<Truth(Top(1).n <= Top(2).n /\ Top(2).n < Top(0).n)>>)
        ELSE Starved(3, 3)
      BY <2>1 DEF Within, Stackwise
  <2> QED BY <2>2, <2>3, ReplacedActs
<1>13. CASE Current.op = "HASH160"
  <2>1. Hash160
      BY <1>13, Dispatch
  <2>2. Executed(Current, Now) = Replaced(Now, 1, 0, <<HashWith("preimage", "commitment")>>)
      BY <1>1, <1>3, <1>13 DEF Executed, Hashed, HashWith
  <2>3. IF Can(1, 0) THEN Goes(Below(1) \o <<HashWith("preimage", "commitment")>>)
        ELSE Starved(1, 0)
      BY <2>1 DEF Hash160, Stackwise
  <2> QED BY <2>2, <2>3, ReplacedActs
<1>14. CASE Current.op = "RIPEMD160"
  <2>1. Ripemd160
      BY <1>14, Dispatch
  <2>2. Executed(Current, Now) = Replaced(Now, 1, 0, <<HashWith("key", "keyhash")>>)
      BY <1>1, <1>3, <1>14 DEF Executed, Hashed, HashWith
  <2>3. IF Can(1, 0) THEN Goes(Below(1) \o <<HashWith("key", "keyhash")>>)
        ELSE Starved(1, 0)
      BY <2>1 DEF Ripemd160, Stackwise
  <2> QED BY <2>2, <2>3, ReplacedActs
<1>15. CASE Current.op = "SHA256"
  <2>1. Sha256
      BY <1>15, Dispatch
  <2>2. Executed(Current, Now) = Replaced(Now, 1, 0, <<Sha256Of(Top(0))>>)
      BY <1>1, <1>3, <1>15 DEF Executed
  <2>3. IF Can(1, 0) THEN Goes(Below(1) \o <<Sha256Of(Top(0))>>)
        ELSE Starved(1, 0)
      BY <2>1 DEF Sha256, Stackwise
  <2> QED BY <2>2, <2>3, ReplacedActs
<1>16. CASE Current.op = "SIZE"
  <2>1. Size
      BY <1>16, Dispatch
  <2>2. Executed(Current, Now) = Replaced(Now, 1, 0, <<Top(0), Num(SizeOf(Top(0)))>>)
      BY <1>1, <1>3, <1>16 DEF Executed
  <2>3. IF Can(1, 0) THEN Goes(Below(1) \o <<Top(0), Num(SizeOf(Top(0)))>>)
        ELSE Starved(1, 0)
      BY <2>1 DEF Size, Stackwise
  <2> QED BY <2>2, <2>3, ReplacedActs
<1>17. CASE Current.op = "PICK"
  <2>1. Pick
      BY <1>17, Dispatch
  <2>2. Executed(Current, Now) = Copied(Now)
      BY <1>17 DEF Executed
  <2>3. Deep(stack) <=> Reaches
      BY <1>3 DEF Deep, Reaches, Numbered, AreNumbers, Holds
  <2>4. Dead("underflow").end = "underflow"
      BY DeadIs
  <2>5. /\ Reaches
        /\ Executed(Current, Now) = State(Append(Below(1), Top(Top(0).n + 1)), alt, taken)
      BY <1>1, <1>3, <2>2, <2>3, <2>4 DEF Copied
  <2>6. Moves(Append(Below(1), Top(Top(0).n + 1)), alt, 1)
      BY <2>1, <2>5 DEF Pick, Goes
  <2> QED BY <2>5, <2>6, OutcomeAlive
<1>18. CASE Current.op = "ROLL"
  <2>1. RollUp
      BY <1>18, Dispatch
  <2>2. Executed(Current, Now) = Rolled(Now, Current.name)
      BY <1>18 DEF Executed
  <2>3. Deep(stack) <=> Reaches
      BY <1>3 DEF Deep, Reaches, Numbered, AreNumbers, Holds
  <2>4. Dead("underflow").end = "underflow"
      BY DeadIs
  <2>5. /\ Reaches
        /\ Executed(Current,
           Now) = State(Append(RemoveAt(Below(1), Len(stack) - 1 - Top(0).n), Top(Top(0).n + 1)),
           alt, taken)
      BY <1>1, <1>3, <2>2, <2>3, <2>4 DEF Rolled
  <2>6. Moves(Append(RemoveAt(Below(1), Len(stack) - 1 - Top(0).n), Top(Top(0).n + 1)), alt, 1)
      BY <2>1, <2>5 DEF RollUp, Goes
  <2> QED BY <2>5, <2>6, OutcomeAlive
<1>19. CASE Current.op = "TOALT"
  <2>1. ToAlt
      BY <1>19, Dispatch
  <2>2. Executed(Current, Now) =
          IF Len(stack) >= 1 THEN State(Below(1), Append(alt, Top(0)), taken) ELSE Dead("underflow")
      BY <1>1, <1>3, <1>19 DEF Executed
  <2>3. Dead("underflow").end = "underflow"
      BY DeadIs
  <2>4. Holds(1) /\ Executed(Current, Now) = State(Below(1), Append(alt, Top(0)), taken)
      BY <2>2, <2>3 DEF Holds
  <2> QED BY <2>1, <2>4, OutcomeAlive DEF ToAlt
<1>20. CASE Current.op = "FROMALT"
  <2>1. FromAlt
      BY <1>20, Dispatch
  <2>2. Executed(Current, Now) =
          IF alt # <<>> THEN State(Append(stack, Last(alt)), Front(alt), taken)
          ELSE Dead("underflow")
      BY <1>1, <1>20 DEF Executed
  <2>3. Dead("underflow").end = "underflow"
      BY DeadIs
  <2>4. alt # <<>> /\ Executed(Current, Now) = State(Append(stack, Last(alt)), Front(alt), taken)
      BY <2>2, <2>3
  <2> QED BY <2>1, <2>4, OutcomeAlive DEF FromAlt
<1>21. CASE Current.op = "VERIFY"
  <2> DEFINE passes == IsTrue(Top(0))
  <2>1. Verify
      BY <1>21, Dispatch
  <2>2. Executed(Current, Now) = Checked(Now, 1, IsTrue(Top(0)), "verify")
      BY <1>1, <1>3, <1>21 DEF Executed
  <2>3. IF ~Holds(1) THEN Rejects("underflow")
        ELSE IF IsTrue(Top(0)) THEN Goes(Below(1)) ELSE Rejects("verify")
      BY <2>1 DEF Verify
  <2>4. "verify" # "none"
      OBVIOUS
  <2>5. Executed(Current, Now) = Checked(Now, 1, passes, "verify")
      BY <2>2
  <2>6. IF ~Holds(1) THEN Rejects("underflow")
        ELSE IF passes THEN Goes(Below(1)) ELSE Rejects("verify")
      BY <2>3
  <2> HIDE DEF passes
  <2>7. Outcome(Checked(Now, 1, passes, "verify"))
      BY <2>4, <2>6, CheckedActs
  <2> QED BY <2>5, <2>7
<1>22. CASE Current.op = "EQUALVERIFY"
  <2> DEFINE passes == Top(0) = Top(1)
  <2>1. EqualVerify
      BY <1>22, Dispatch
  <2>2. Executed(Current, Now) = Checked(Now, 2, Top(0) = Top(1), "equalverify")
      BY <1>1, <1>3, <1>22 DEF Executed
  <2>3. IF ~Holds(2) THEN Rejects("underflow")
        ELSE IF Top(0) = Top(1) THEN Goes(Below(2)) ELSE Rejects("equalverify")
      BY <2>1 DEF EqualVerify
  <2>4. "equalverify" # "none"
      OBVIOUS
  <2>5. Executed(Current, Now) = Checked(Now, 2, passes, "equalverify")
      BY <2>2
  <2>6. IF ~Holds(2) THEN Rejects("underflow")
        ELSE IF passes THEN Goes(Below(2)) ELSE Rejects("equalverify")
      BY <2>3
  <2> HIDE DEF passes
  <2>7. Outcome(Checked(Now, 2, passes, "equalverify"))
      BY <2>4, <2>6, CheckedActs
  <2> QED BY <2>5, <2>7
<1>23. CASE Current.op = "CHECKSIGVERIFY"
  <2> DEFINE passes == Verifies(Top(1), Top(0), {})
  <2>1. CheckSigVerify
      BY <1>23, Dispatch
  <2>2. Executed(Current, Now) = Checked(Now, 2, Verifies(Top(1), Top(0), {}), "checksig")
      BY <1>1, <1>3, <1>23 DEF Executed
  <2>3. IF ~Holds(2) THEN Rejects("underflow")
        ELSE IF Verifies(Top(1), Top(0), {}) THEN Goes(Below(2)) ELSE Rejects("checksig")
      BY <2>1 DEF CheckSigVerify
  <2>4. "checksig" # "none"
      OBVIOUS
  <2>5. Executed(Current, Now) = Checked(Now, 2, passes, "checksig")
      BY <2>2
  <2>6. IF ~Holds(2) THEN Rejects("underflow")
        ELSE IF passes THEN Goes(Below(2)) ELSE Rejects("checksig")
      BY <2>3
  <2> HIDE DEF passes
  <2>7. Outcome(Checked(Now, 2, passes, "checksig"))
      BY <2>4, <2>6, CheckedActs
  <2> QED BY <2>5, <2>7
<1>24. CASE Current.op = "CHECKSIG"
  <2>1. CheckSig
      BY <1>24, Dispatch
  <2>2. Executed(Current, Now) = Replaced(Now, 2, 0, <<Truth(Verifies(Top(1), Top(0), {}))>>)
      BY <1>1, <1>3, <1>24 DEF Executed
  <2>3. IF Can(2, 0) THEN Goes(Below(2) \o <<Truth(Verifies(Top(1), Top(0), {}))>>)
        ELSE Starved(2, 0)
      BY <2>1 DEF CheckSig, Stackwise
  <2> QED BY <2>2, <2>3, ReplacedActs
<1>25. CASE Current.op = "CHECKMULTISIGVERIFY"
  <2>1. CheckMultisigVerify
      BY <1>25, Dispatch
  <2>2. Executed(Current, Now) =
          IF Fits(stack) THEN Checked(Now, 2 * Top(0).n + 3, Unlocked(stack), "checksig")
                         ELSE Dead("underflow")
      BY <1>1, <1>3, <1>25 DEF Executed
  <2>3. Dead("underflow").end = "underflow"
      BY DeadIs
  <2>4. Fits(stack) <=> MultisigFits
      BY <1>3 DEF Fits, MultisigFits, Numbered, AreNumbers, Holds
  <2>5. Unlocked(stack) <=> MultisigVerifies
      BY <1>3 DEF Unlocked, MultisigVerifies
  <2>6. /\ MultisigFits
        /\ Executed(Current, Now) = Checked(Now, 2 * Top(0).n + 3, Unlocked(stack), "checksig")
      BY <2>2, <2>3, <2>4
  <2>7. Holds(2 * Top(0).n + 3)
      BY <2>6 DEF MultisigFits
  <2>8. CASE MultisigVerifies
    <3>1. Executed(Current, Now) = State(Below(2 * Top(0).n + 3), alt, taken)
        BY <1>1, <1>3, <2>5, <2>6, <2>7, <2>8 DEF Checked, Holds
    <3> QED BY <2>1, <2>6, <2>8, <3>1, OutcomeAlive DEF CheckMultisigVerify
  <2>9. CASE ~MultisigVerifies
    <3>1. Executed(Current, Now) = Dead("checksig")
        BY <1>1, <2>5, <2>6, <2>7, <2>9 DEF Checked, Holds
    <3>2. Rejects("checksig") /\ "checksig" # "none"
        BY <2>1, <2>6, <2>9 DEF CheckMultisigVerify
    <3> QED BY <3>1, <3>2, OutcomeDead
  <2> QED BY <2>8, <2>9
<1>26. CASE Current.op = "CODESEPARATOR"
  <2>1. CodeSeparator
      BY <1>26, Dispatch
  <2>2. Executed(Current, Now) = State(stack, alt, taken)
      BY <1>26 DEF Executed, Now
  <2> QED BY <2>1, <2>2, OutcomeAlive DEF CodeSeparator, Goes
<1>27. CASE Current.op = "IF"
  <2>1. If
      BY <1>27, Dispatch
  <2>2. Executed(Current, Now) =
          IF Len(stack) >= 1 THEN State(Below(1), alt, Append(taken, IsTrue(Top(0))))
                             ELSE Dead("underflow")
      BY <1>1, <1>3, <1>27 DEF Executed
  <2>3. Dead("underflow").end = "underflow"
      BY DeadIs
  <2>4. Holds(1) /\ Executed(Current, Now) = State(Below(1), alt, Append(taken, IsTrue(Top(0))))
      BY <2>2, <2>3 DEF Holds
  <2>5. /\ taken' = Append(taken, IsTrue(Top(0))) /\ stack' = Below(1) /\ pc' = pc + 1
        /\ UNCHANGED <<given, alt, status, why>>
      BY <2>1, <2>4 DEF If, Counted
  <2> DEFINE b == Append(taken, IsTrue(Top(0)))
  <2>6. taken' = b /\ Executed(Current, Now) = State(Below(1), alt, b)
      BY <2>4, <2>5
  <2> HIDE DEF b
  <2> QED BY <2>5, <2>6, StateIs DEF Outcome, Running
<1> QED BY <1>2, <1>4, <1>5, <1>6, <1>7, <1>8, <1>9, <1>10, <1>11, <1>12, <1>13, <1>14, <1>15,
           <1>16, <1>17, <1>18, <1>19, <1>20, <1>21, <1>22, <1>23, <1>24, <1>25, <1>26,
           <1>27 DEF Opcodes

(* Every instruction does to the state what Exec says.                     *)
LEMMA ExecActs ==
    ASSUME Next, Counters, Running, Exec(Current, Now).end # "underflow"
    PROVE  Outcome(Exec(Current, Now))
<1>1. Now.stack = stack /\ Now.alt = alt /\ Now.taken = taken /\ Now.end = "none"
    BY StateIs DEF Now
<1>2. CASE Current.op = "ELSE"
  <2>1. Exec(Current, Now) = State(stack, alt, Append(Front(taken), ~Last(taken)))
      BY <1>1, <1>2 DEF Exec
  <2>2. Else
      BY <1>2, Dispatch
  <2> DEFINE b == Append(Front(taken), ~Last(taken))
  <2>3. Branch("ELSE", b) /\ Exec(Current, Now) = State(stack, alt, b)
      BY <2>1, <2>2 DEF Else
  <2> HIDE DEF b
  <2> QED BY <2>3, StateIs DEF Branch, Outcome, Counted, Running
<1>3. CASE Current.op = "ENDIF"
  <2>1. Exec(Current, Now) = State(stack, alt, Front(taken))
      BY <1>1, <1>3 DEF Exec
  <2>2. EndIf
      BY <1>3, Dispatch
  <2> QED BY <2>1, <2>2, StateIs DEF EndIf, Branch, Outcome, Counted, Running
<1>4. CASE Current.op \notin {"ELSE", "ENDIF"} /\ Executing
  <2>1. Exec(Current, Now) = Executed(Current, Now)
      BY <1>1, <1>4 DEF Exec, Executing
  <2> QED BY <1>4, <2>1, ExecutingActs
<1>5. CASE Current.op \notin {"ELSE", "ENDIF"} /\ ~Executing
  <2>1. Exec(Current, Now) = State(stack, alt, taken)
      BY <1>1, <1>5 DEF Exec, Executing, Now
  <2>2. Skip
      BY <1>5, Dispatch
  <2> QED BY <2>1, <2>2, StateIs DEF Skip, Outcome, Counted, Running
<1> QED BY <1>2, <1>3, <1>4, <1>5

-----------------------------------------------------------------------------
(* The operands on top of a stack.                                         *)
LEMMA OneOn ==
    ASSUME NEW s \in Stacks, NEW x \in Elements
    PROVE  /\ Len(s) \in Nat /\ Len(s ++ x) = Len(s) + 1 /\ Len(s ++ x) >= 1
           /\ From(s ++ x, 0) = x /\ Cut(s ++ x, 1) = s
           /\ Numbered(s ++ x, 0)
           /\ Numbered(s ++ x, 1) <=> x.kind = "num"
<1>1. Len(s) \in Nat
    BY LenProperties DEF Stacks
<1> DEFINE r == s ++ x
<1>2. Len(r) = Len(s) + 1 /\ r[Len(s) + 1] = x /\ SubSeq(r, 1, Len(s)) = s
    BY Pushed
<1> HIDE DEF r
<1>3. Len(r) - 0 = Len(s) + 1 /\ Len(r) - 1 = Len(s) /\ Len(r) >= 1 /\ Len(r) >= 0
    BY <1>1, <1>2
<1>4. From(r, 0) = x /\ Cut(r, 1) = s
    BY <1>2, <1>3 DEF From, Cut
<1>5. (\A i \in 0 .. 1 - 1 : i = 0) /\ 0 \in 0 .. 1 - 1 /\ 0 .. 0 - 1 = {}
    OBVIOUS
<1>6. Numbered(r, 0) /\ (Numbered(r, 1) <=> x.kind = "num")
    BY <1>3, <1>4, <1>5 DEF Numbered
<1> QED BY <1>1, <1>2, <1>3, <1>4, <1>6 DEF r

(* Two elements on a stack.                                                *)
LEMMA TwoOn ==
    ASSUME NEW s \in Stacks, NEW x \in Elements, NEW y \in Elements
    PROVE  /\ Len(s ++ x ++ y) >= 2
           /\ From(s ++ x ++ y, 0) = y /\ From(s ++ x ++ y, 1) = x /\ Cut(s ++ x ++ y, 2) = s
           /\ Numbered(s ++ x ++ y, 0)
           /\ Numbered(s ++ x ++ y, 2) <=> x.kind = "num" /\ y.kind = "num"
<1> DEFINE r == s ++ x ++ y
<1>1. /\ Len(s) \in Nat /\ Len(r) = Len(s) + 2
      /\ r[Len(s) + 2] = y /\ r[Len(s) + 1] = x /\ SubSeq(r, 1, Len(s)) = s
    BY PushedTwo
<1> HIDE DEF r
<1>2. /\ Len(r) - 0 = Len(s) + 2 /\ Len(r) - 1 = Len(s) + 1 /\ Len(r) - 2 = Len(s)
      /\ Len(r) >= 2 /\ Len(r) >= 0
    BY <1>1
<1>3. From(r, 0) = y /\ From(r, 1) = x /\ Cut(r, 2) = s
    BY <1>1, <1>2 DEF From, Cut
<1>4. /\ 0 \in 0 .. 2 - 1 /\ 1 \in 0 .. 2 - 1 /\ 0 .. 0 - 1 = {}
      /\ \A i \in 0 .. 2 - 1 : i = 0 \/ i = 1
    OBVIOUS
<1>5. Numbered(r, 0) /\ (Numbered(r, 2) <=> x.kind = "num" /\ y.kind = "num")
    BY <1>2, <1>3, <1>4 DEF Numbered
<1> QED BY <1>2, <1>3, <1>5 DEF r

(* Three elements on a stack.                                              *)
LEMMA ThreeOn ==
    ASSUME NEW s \in Stacks, NEW x \in Elements, NEW y \in Elements, NEW z \in Elements
    PROVE  /\ Len(s ++ x ++ y ++ z) >= 3
           /\ From(s ++ x ++ y ++ z, 0) = z /\ From(s ++ x ++ y ++ z, 1) = y
           /\ From(s ++ x ++ y ++ z, 2) = x /\ Cut(s ++ x ++ y ++ z, 3) = s
           /\ Numbered(s ++ x ++ y ++ z, 3)
                <=> x.kind = "num" /\ y.kind = "num" /\ z.kind = "num"
<1> DEFINE r == s ++ x ++ y ++ z
<1>1. Len(s) \in Nat /\ Len(r) = Len(s) + 3 /\ r[Len(s) + 3] = z
    BY PushedThree
<1>2. r[Len(s) + 2] = y
    BY PushedThree
<1>3. r[Len(s) + 1] = x
    BY PushedThree
<1>4. SubSeq(r, 1, Len(s)) = s
    BY PushedThree
<1> HIDE DEF r
<1>5. /\ Len(r) - 0 = Len(s) + 3 /\ Len(r) - 1 = Len(s) + 2 /\ Len(r) - 2 = Len(s) + 1
      /\ Len(r) - 3 = Len(s) /\ Len(r) >= 3
    BY <1>1
<1>6. From(r, 0) = z /\ From(r, 1) = y /\ From(r, 2) = x /\ Cut(r, 3) = s
    BY <1>1, <1>2, <1>3, <1>4, <1>5 DEF From, Cut
<1>7. /\ 0 \in 0 .. 3 - 1 /\ 1 \in 0 .. 3 - 1 /\ 2 \in 0 .. 3 - 1
      /\ \A i \in 0 .. 3 - 1 : i = 0 \/ i = 1 \/ i = 2
    OBVIOUS
<1>8. Numbered(r, 3) <=> x.kind = "num" /\ y.kind = "num" /\ z.kind = "num"
    BY <1>5, <1>6, <1>7 DEF Numbered
<1> QED BY <1>5, <1>6, <1>8 DEF r

(* The stack grows by elements.                                            *)
LEMMA Grows ==
    \A s \in Stacks : \A x \in Elements : s ++ x \in Stacks
BY Pushed

-----------------------------------------------------------------------------
(* An instruction of the script, and the branches that let it execute.     *)
Reads(p, op) == Len(Script) \in Nat /\ p \in 1 .. Len(Script) /\ Script[p].op = op
On(b) == \A i \in DOMAIN b : b[i]

(* The next state of a trace, and that of an instruction executed.         *)
LEMMA Steps ==
    ASSUME NEW p, NEW op, Reads(p, op), op \notin {"ELSE", "ENDIF"},
           NEW s, NEW a, NEW b, On(b), Trace[p] = State(s, a, b)
    PROVE  Trace[p + 1] = Executed(Script[p], State(s, a, b))
<1>1. Trace[p + 1] = Exec(Script[p], Trace[p])
    BY TraceSteps DEF Reads
<1> QED BY <1>1, StateIs DEF Exec, Reads, On

(* What replacing comes to when the operands are there.                    *)
LEMMA ReplacedIs ==
    ASSUME NEW r, NEW a, NEW b, NEW k, NEW n, NEW results, Len(r) >= k, Numbered(r, n)
    PROVE  Replaced(State(r, a, b), k, n, results) = State(Cut(r, k) \o results, a, b)
<1> DEFINE m == State(r, a, b)
<1>1. m.stack = r /\ m.alt = a /\ m.taken = b
    BY StateIs
<1> HIDE DEF m
<1>2. Replaced(m, k, n, results) = State(Cut(r, k) \o results, a, b)
    BY <1>1 DEF Replaced
<1> QED BY <1>2 DEF m

(* What checking comes to when the operands are there.                     *)
LEMMA CheckedIs ==
    ASSUME NEW r, NEW a, NEW b, NEW k, NEW passes, NEW reason, Len(r) >= k
    PROVE  Checked(State(r, a, b), k, passes, reason) =
             IF passes THEN State(Cut(r, k), a, b) ELSE Dead(reason)
BY StateIs DEF Checked

(* Outside every branch instructions are executed.                         *)
LEMMA NoneOn == On(<<>>)
BY DEF On

(* Hashes are elements.                                                    *)
LEMMA HashedType ==
    ASSUME NEW e \in Elements, NEW source \in Kinds, NEW image \in Kinds
    PROVE  /\ Hashed(e, source, image) \in Elements
           /\ e.kind = source => Hashed(e, source, image) = Element(image, e.n, e.s)
<1>1. CASE e.kind = source
  <2>1. [e EXCEPT !.kind = image] = Element(image, e.n, e.s)
      BY DEF Element, Elements
  <2>2. e.n \in Int /\ e.s \in SUBSET Int
      BY DEF Elements
  <2> QED BY <1>1, <2>1, <2>2, ElementIs DEF Hashed
<1>2. CASE e.kind # source
    BY <1>2, Constants DEF Hashed
<1> QED BY <1>1, <1>2

(* Sha256 of an element is an element.                                     *)
LEMMA ShaType ==
    ASSUME NEW e \in Elements
    PROVE  Sha256Of(e) \in Elements
<1>1. e.n \in Int /\ e.s \in SUBSET Int /\ e.n + 1 \in Int /\ {} \in SUBSET Int
    BY DEF Elements
<1>2. CASE e.kind = "link"
  <2>1. Sha256Of(e) = Element("link", e.n + 1, e.s)
      BY <1>2 DEF Sha256Of, Element, Elements
  <2> QED BY <1>1, <2>1, ElementIs DEF Kinds
<1>3. CASE e.kind = "key" /\ e.s = {}
  <2>1. Sha256Of(e) = Element("keyimage", e.n, {})
      BY <1>3 DEF Sha256Of, KeyImage
  <2> QED BY <1>1, <2>1, ElementIs DEF Kinds
<1>4. CASE e.kind = "secret"
  <2>1. Sha256Of(e) = Element("image", e.n, e.s)
      BY <1>4 DEF Sha256Of, Element, Elements
  <2> QED BY <1>1, <2>1, ElementIs DEF Kinds
<1>5. CASE e.kind \notin {"link", "secret"} /\ ~(e.kind = "key" /\ e.s = {})
  <2>1. Sha256Of(e) = Junk
      BY <1>5 DEF Sha256Of
  <2> QED BY <2>1, Constants
<1> QED BY <1>2, <1>3, <1>4, <1>5

(* DUP                                                                     *)
LEMMA RunDup ==
    ASSUME NEW p, Reads(p, "DUP"), NEW s \in Stacks, NEW x \in Elements,
           NEW a, NEW b, On(b), Trace[p] = State(s ++ x, a, b)
    PROVE  Trace[p + 1] = State(s ++ x ++ x, a, b)
<1> DEFINE r == s ++ x
<1>1. Trace[p + 1] = Executed(Script[p], State(r, a, b))
    BY Steps
<1>2. Len(r) >= 1 /\ From(r, 0) = x /\ Cut(r, 1) = s /\ Numbered(r, 0)
    BY OneOn
<1> HIDE DEF r
<1>3. Trace[p + 1] = Replaced(State(r, a, b), 1, 0, <<x, x>>)
    BY <1>1, <1>2, StateIs DEF Reads, Executed
<1>4. Trace[p + 1] = State(s \o <<x, x>>, a, b)
    BY <1>2, <1>3, ReplacedIs
<1>5. s \o <<x, x>> = s ++ x ++ x
    BY PushedTwice
<1> QED BY <1>4, <1>5 DEF r

(* DROP                                                                    *)
LEMMA RunDrop ==
    ASSUME NEW p, Reads(p, "DROP"), NEW s \in Stacks, NEW x \in Elements,
           NEW a, NEW b, On(b), Trace[p] = State(s ++ x, a, b)
    PROVE  Trace[p + 1] = State(s, a, b)
<1> DEFINE r == s ++ x
<1>1. Trace[p + 1] = Executed(Script[p], State(r, a, b))
    BY Steps
<1>2. Len(r) >= 1 /\ From(r, 0) = x /\ Cut(r, 1) = s /\ Numbered(r, 0)
    BY OneOn
<1> HIDE DEF r
<1>3. Trace[p + 1] = Replaced(State(r, a, b), 1, 0, <<>>)
    BY <1>1, <1>2, StateIs DEF Reads, Executed
<1>4. Trace[p + 1] = State(s \o <<>>, a, b)
  <2> DEFINE none == <<>>
  <2>1. Trace[p + 1] = Replaced(State(r, a, b), 1, 0, none)
      BY <1>3
  <2> HIDE DEF none
  <2>2. Trace[p + 1] = State(s \o none, a, b)
      BY <1>2, <2>1, ReplacedIs
  <2> QED BY <2>2 DEF none
<1>5. s \o <<>> = s
    BY PushedNone
<1> QED BY <1>4, <1>5 DEF r

(* OVER                                                                    *)
LEMMA RunOver ==
    ASSUME NEW p, Reads(p, "OVER"), NEW s \in Stacks, NEW x \in Elements, NEW y \in Elements,
           NEW a, NEW b, On(b), Trace[p] = State(s ++ x ++ y, a, b)
    PROVE  Trace[p + 1] = State(s ++ x ++ y ++ x, a, b)
<1> DEFINE r == s ++ x ++ y
<1>1. Trace[p + 1] = Executed(Script[p], State(r, a, b))
    BY Steps
<1>2. Len(r) >= 2 /\ From(r, 1) = x /\ From(r, 0) = y /\ Cut(r, 2) = s /\ Numbered(r, 0)
    BY TwoOn
<1> HIDE DEF r
<1>3. Trace[p + 1] = Replaced(State(r, a, b), 2, 0, <<x, y, x>>)
    BY <1>1, <1>2, StateIs DEF Reads, Executed
<1>4. Trace[p + 1] = State(s \o <<x, y, x>>, a, b)
    BY <1>2, <1>3, ReplacedIs
<1>5. s \o <<x, y, x>> = s ++ x ++ y ++ x
    BY PushedThrice
<1> QED BY <1>4, <1>5 DEF r

(* SWAP                                                                    *)
LEMMA RunSwap ==
    ASSUME NEW p, Reads(p, "SWAP"), NEW s \in Stacks, NEW x \in Elements, NEW y \in Elements,
           NEW a, NEW b, On(b), Trace[p] = State(s ++ x ++ y, a, b)
    PROVE  Trace[p + 1] = State(s ++ y ++ x, a, b)
<1> DEFINE r == s ++ x ++ y
<1>1. Trace[p + 1] = Executed(Script[p], State(r, a, b))
    BY Steps
<1>2. Len(r) >= 2 /\ From(r, 1) = x /\ From(r, 0) = y /\ Cut(r, 2) = s /\ Numbered(r, 0)
    BY TwoOn
<1> HIDE DEF r
<1>3. Trace[p + 1] = Replaced(State(r, a, b), 2, 0, <<y, x>>)
    BY <1>1, <1>2, StateIs DEF Reads, Executed
<1>4. Trace[p + 1] = State(s \o <<y, x>>, a, b)
    BY <1>2, <1>3, ReplacedIs
<1>5. s \o <<y, x>> = s ++ y ++ x
    BY PushedTwice
<1> QED BY <1>4, <1>5 DEF r

(* ADD                                                                     *)
LEMMA RunAdd ==
    ASSUME NEW p, Reads(p, "ADD"), NEW s \in Stacks, NEW x \in Elements, NEW y \in Elements,
           NEW a, NEW b, On(b), Trace[p] = State(s ++ x ++ y, a, b),
           x.kind = "num",
           y.kind = "num"
    PROVE  Trace[p + 1] = State(s ++ Num(x.n + y.n), a, b)
<1> DEFINE r == s ++ x ++ y
<1>1. Trace[p + 1] = Executed(Script[p], State(r, a, b))
    BY Steps
<1>2. Len(r) >= 2 /\ From(r, 1) = x /\ From(r, 0) = y /\ Cut(r, 2) = s /\ Numbered(r, 2)
    BY TwoOn
<1> HIDE DEF r
<1>3. Trace[p + 1] = Replaced(State(r, a, b), 2, 2, <<Num(x.n + y.n)>>)
    BY <1>1, <1>2, StateIs DEF Reads, Executed
<1>4. Trace[p + 1] = State(s \o <<Num(x.n + y.n)>>, a, b)
    BY <1>2, <1>3, ReplacedIs
<1> DEFINE e == Num(x.n + y.n)
<1>6. e \in Elements
    BY NumberIs DEF Elements
<1> HIDE DEF e
<1>7. s \o <<e>> = s ++ e
    BY <1>6, PushedOnce
<1>5. s \o <<Num(x.n + y.n)>> = s ++ Num(x.n + y.n)
    BY <1>7 DEF e
<1> QED BY <1>4, <1>5 DEF r

(* GREATERTHAN                                                             *)
LEMMA RunGreater ==
    ASSUME NEW p, Reads(p, "GREATERTHAN"), NEW s \in Stacks, NEW x \in Elements, NEW y \in Elements,
           NEW a, NEW b, On(b), Trace[p] = State(s ++ x ++ y, a, b),
           x.kind = "num",
           y.kind = "num"
    PROVE  Trace[p + 1] = State(s ++ Truth(x.n > y.n), a, b)
<1> DEFINE r == s ++ x ++ y
<1>1. Trace[p + 1] = Executed(Script[p], State(r, a, b))
    BY Steps
<1>2. Len(r) >= 2 /\ From(r, 1) = x /\ From(r, 0) = y /\ Cut(r, 2) = s /\ Numbered(r, 2)
    BY TwoOn
<1> HIDE DEF r
<1>3. Trace[p + 1] = Replaced(State(r, a, b), 2, 2, <<Truth(x.n > y.n)>>)
    BY <1>1, <1>2, StateIs DEF Reads, Executed
<1>4. Trace[p + 1] = State(s \o <<Truth(x.n > y.n)>>, a, b)
    BY <1>2, <1>3, ReplacedIs
<1> DEFINE e == Truth(x.n > y.n)
<1>6. e \in Elements
    BY NumberIs DEF Truth
<1> HIDE DEF e
<1>7. s \o <<e>> = s ++ e
    BY <1>6, PushedOnce
<1>5. s \o <<Truth(x.n > y.n)>> = s ++ Truth(x.n > y.n)
    BY <1>7 DEF e
<1> QED BY <1>4, <1>5 DEF r

(* LESSTHANOREQUAL                                                         *)
LEMMA RunLess ==
    ASSUME NEW p, Reads(p, "LESSTHANOREQUAL"), NEW s \in Stacks, NEW x \in Elements,
           NEW y \in Elements,
           NEW a, NEW b, On(b), Trace[p] = State(s ++ x ++ y, a, b),
           x.kind = "num",
           y.kind = "num"
    PROVE  Trace[p + 1] = State(s ++ Truth(x.n <= y.n), a, b)
<1> DEFINE r == s ++ x ++ y
<1>1. Trace[p + 1] = Executed(Script[p], State(r, a, b))
    BY Steps
<1>2. Len(r) >= 2 /\ From(r, 1) = x /\ From(r, 0) = y /\ Cut(r, 2) = s /\ Numbered(r, 2)
    BY TwoOn
<1> HIDE DEF r
<1>3. Trace[p + 1] = Replaced(State(r, a, b), 2, 2, <<Truth(x.n <= y.n)>>)
    BY <1>1, <1>2, StateIs DEF Reads, Executed
<1>4. Trace[p + 1] = State(s \o <<Truth(x.n <= y.n)>>, a, b)
    BY <1>2, <1>3, ReplacedIs
<1> DEFINE e == Truth(x.n <= y.n)
<1>6. e \in Elements
    BY NumberIs DEF Truth
<1> HIDE DEF e
<1>7. s \o <<e>> = s ++ e
    BY <1>6, PushedOnce
<1>5. s \o <<Truth(x.n <= y.n)>> = s ++ Truth(x.n <= y.n)
    BY <1>7 DEF e
<1> QED BY <1>4, <1>5 DEF r

(* WITHIN                                                                  *)
LEMMA RunWithin ==
    ASSUME NEW p, Reads(p, "WITHIN"), NEW s \in Stacks, NEW x \in Elements, NEW y \in Elements,
           NEW z \in Elements,
           NEW a, NEW b, On(b), Trace[p] = State(s ++ x ++ y ++ z, a, b),
           x.kind = "num",
           y.kind = "num",
           z.kind = "num"
    PROVE  Trace[p + 1] = State(s ++ Truth(y.n <= x.n /\ x.n < z.n), a, b)
<1> DEFINE r == s ++ x ++ y ++ z
<1>1. Trace[p + 1] = Executed(Script[p], State(r, a, b))
    BY Steps
<1>6. Len(r) >= 3 /\ From(r, 0) = z
    BY ThreeOn
<1>7. From(r, 1) = y /\ From(r, 2) = x
    BY ThreeOn
<1>8. Cut(r, 3) = s
    BY ThreeOn
<1>9. Numbered(r, 3)
    BY ThreeOn
<1>2. /\ Len(r) >= 3 /\ From(r, 2) = x /\ From(r, 1) = y /\ From(r, 0) = z
      /\ Cut(r, 3) = s /\ Numbered(r, 3)
    BY <1>6, <1>7, <1>8, <1>9
<1> HIDE DEF r
<1>3. Trace[p + 1] = Replaced(State(r, a, b), 3, 3, <<Truth(y.n <= x.n /\ x.n < z.n)>>)
    BY <1>1, <1>2, StateIs DEF Reads, Executed
<1>4. Trace[p + 1] = State(s \o <<Truth(y.n <= x.n /\ x.n < z.n)>>, a, b)
    BY <1>2, <1>3, ReplacedIs
<1> DEFINE e == Truth(y.n <= x.n /\ x.n < z.n)
<1>10. e \in Elements
    BY NumberIs DEF Truth
<1> HIDE DEF e
<1>11. s \o <<e>> = s ++ e
    BY <1>10, PushedOnce
<1>5. s \o <<Truth(y.n <= x.n /\ x.n < z.n)>> = s ++ Truth(y.n <= x.n /\ x.n < z.n)
    BY <1>11 DEF e
<1> QED BY <1>4, <1>5 DEF r

(* HASH160                                                                 *)
LEMMA RunHash ==
    ASSUME NEW p, Reads(p, "HASH160"), NEW s \in Stacks, NEW x \in Elements,
           NEW a, NEW b, On(b), Trace[p] = State(s ++ x, a, b)
    PROVE  Trace[p + 1] = State(s ++ Hashed(x, "preimage", "commitment"), a, b)
<1> DEFINE r == s ++ x
<1>1. Trace[p + 1] = Executed(Script[p], State(r, a, b))
    BY Steps
<1>2. Len(r) >= 1 /\ From(r, 0) = x /\ Cut(r, 1) = s /\ Numbered(r, 0)
    BY OneOn
<1> HIDE DEF r
<1>3. Trace[p + 1] = Replaced(State(r, a, b), 1, 0, <<Hashed(x, "preimage", "commitment")>>)
    BY <1>1, <1>2, StateIs DEF Reads, Executed
<1>4. Trace[p + 1] = State(s \o <<Hashed(x, "preimage", "commitment")>>, a, b)
    BY <1>2, <1>3, ReplacedIs
<1> DEFINE e == Hashed(x, "preimage", "commitment")
<1>6. e \in Elements
    BY HashedType DEF Kinds
<1> HIDE DEF e
<1>7. s \o <<e>> = s ++ e
    BY <1>6, PushedOnce
<1>5. s \o <<Hashed(x, "preimage", "commitment")>> = s ++ Hashed(x, "preimage", "commitment")
    BY <1>7 DEF e
<1> QED BY <1>4, <1>5 DEF r

(* RIPEMD160                                                               *)
LEMMA RunRipemd ==
    ASSUME NEW p, Reads(p, "RIPEMD160"), NEW s \in Stacks, NEW x \in Elements,
           NEW a, NEW b, On(b), Trace[p] = State(s ++ x, a, b)
    PROVE  Trace[p + 1] = State(s ++ Hashed(x, "key", "keyhash"), a, b)
<1> DEFINE r == s ++ x
<1>1. Trace[p + 1] = Executed(Script[p], State(r, a, b))
    BY Steps
<1>2. Len(r) >= 1 /\ From(r, 0) = x /\ Cut(r, 1) = s /\ Numbered(r, 0)
    BY OneOn
<1> HIDE DEF r
<1>3. Trace[p + 1] = Replaced(State(r, a, b), 1, 0, <<Hashed(x, "key", "keyhash")>>)
    BY <1>1, <1>2, StateIs DEF Reads, Executed
<1>4. Trace[p + 1] = State(s \o <<Hashed(x, "key", "keyhash")>>, a, b)
    BY <1>2, <1>3, ReplacedIs
<1> DEFINE e == Hashed(x, "key", "keyhash")
<1>6. e \in Elements
    BY HashedType DEF Kinds
<1> HIDE DEF e
<1>7. s \o <<e>> = s ++ e
    BY <1>6, PushedOnce
<1>5. s \o <<Hashed(x, "key", "keyhash")>> = s ++ Hashed(x, "key", "keyhash")
    BY <1>7 DEF e
<1> QED BY <1>4, <1>5 DEF r

(* SHA256                                                                  *)
LEMMA RunSha ==
    ASSUME NEW p, Reads(p, "SHA256"), NEW s \in Stacks, NEW x \in Elements,
           NEW a, NEW b, On(b), Trace[p] = State(s ++ x, a, b)
    PROVE  Trace[p + 1] = State(s ++ Sha256Of(x), a, b)
<1> DEFINE r == s ++ x
<1>1. Trace[p + 1] = Executed(Script[p], State(r, a, b))
    BY Steps
<1>2. Len(r) >= 1 /\ From(r, 0) = x /\ Cut(r, 1) = s /\ Numbered(r, 0)
    BY OneOn
<1> HIDE DEF r
<1>3. Trace[p + 1] = Replaced(State(r, a, b), 1, 0, <<Sha256Of(x)>>)
    BY <1>1, <1>2, StateIs DEF Reads, Executed
<1>4. Trace[p + 1] = State(s \o <<Sha256Of(x)>>, a, b)
    BY <1>2, <1>3, ReplacedIs
<1> DEFINE e == Sha256Of(x)
<1>6. e \in Elements
    BY ShaType
<1> HIDE DEF e
<1>7. s \o <<e>> = s ++ e
    BY <1>6, PushedOnce
<1>5. s \o <<Sha256Of(x)>> = s ++ Sha256Of(x)
    BY <1>7 DEF e
<1> QED BY <1>4, <1>5 DEF r

(* SIZE                                                                    *)
LEMMA RunSize ==
    ASSUME NEW p, Reads(p, "SIZE"), NEW s \in Stacks, NEW x \in Elements,
           NEW a, NEW b, On(b), Trace[p] = State(s ++ x, a, b)
    PROVE  Trace[p + 1] = State(s ++ x ++ Num(SizeOf(x)), a, b)
<1> DEFINE r == s ++ x
<1>1. Trace[p + 1] = Executed(Script[p], State(r, a, b))
    BY Steps
<1>2. Len(r) >= 1 /\ From(r, 0) = x /\ Cut(r, 1) = s /\ Numbered(r, 0)
    BY OneOn
<1> HIDE DEF r
<1>3. Trace[p + 1] = Replaced(State(r, a, b), 1, 0, <<x, Num(SizeOf(x))>>)
    BY <1>1, <1>2, StateIs DEF Reads, Executed
<1>4. Trace[p + 1] = State(s \o <<x, Num(SizeOf(x))>>, a, b)
    BY <1>2, <1>3, ReplacedIs
<1>6. Num(SizeOf(x)) \in Elements
    BY NumberIs DEF SizeOf, SignatureBytes
<1>5. s \o <<x, Num(SizeOf(x))>> = s ++ x ++ Num(SizeOf(x))
    BY <1>6, PushedTwice
<1> QED BY <1>4, <1>5 DEF r

(* CHECKSIG                                                                *)
LEMMA RunCheckSig ==
    ASSUME NEW p, Reads(p, "CHECKSIG"), NEW s \in Stacks, NEW x \in Elements, NEW y \in Elements,
           NEW a, NEW b, On(b), Trace[p] = State(s ++ x ++ y, a, b)
    PROVE  Trace[p + 1] = State(s ++ Truth(Verifies(x, y, {})), a, b)
<1> DEFINE r == s ++ x ++ y
<1>1. Trace[p + 1] = Executed(Script[p], State(r, a, b))
    BY Steps
<1>2. Len(r) >= 2 /\ From(r, 1) = x /\ From(r, 0) = y /\ Cut(r, 2) = s /\ Numbered(r, 0)
    BY TwoOn
<1> HIDE DEF r
<1>3. Trace[p + 1] = Replaced(State(r, a, b), 2, 0, <<Truth(Verifies(x, y, {}))>>)
    BY <1>1, <1>2, StateIs DEF Reads, Executed
<1>4. Trace[p + 1] = State(s \o <<Truth(Verifies(x, y, {}))>>, a, b)
    BY <1>2, <1>3, ReplacedIs
<1> DEFINE e == Truth(Verifies(x, y, {}))
<1>6. e \in Elements
    BY TruthIs DEF Verifies
<1> HIDE DEF e
<1>7. s \o <<e>> = s ++ e
    BY <1>6, PushedOnce
<1>5. s \o <<Truth(Verifies(x, y, {}))>> = s ++ Truth(Verifies(x, y, {}))
    BY <1>7 DEF e
<1> QED BY <1>4, <1>5 DEF r

(* PUSH                                                                    *)
LEMMA RunPush ==
    ASSUME NEW p, Reads(p, "PUSH"), NEW s \in Stacks, NEW x \in Elements,
           NEW a, NEW b, On(b), Trace[p] = State(s, a, b), Script[p].arg = x
    PROVE  Trace[p + 1] = State(s ++ x, a, b)
<1>1. Trace[p + 1] = Executed(Script[p], State(s, a, b))
    BY Steps
<1> QED BY <1>1, StateIs DEF Reads, Executed, ++

(* CODESEPARATOR                                                           *)
LEMMA RunSeparator ==
    ASSUME NEW p, Reads(p, "CODESEPARATOR"), NEW s, NEW a, NEW b, On(b), Trace[p] = State(s, a, b)
    PROVE  Trace[p + 1] = State(s, a, b)
<1>1. Trace[p + 1] = Executed(Script[p], State(s, a, b))
    BY Steps
<1> QED BY <1>1 DEF Reads, Executed

(* PICK                                                                    *)
LEMMA RunPick ==
    ASSUME NEW p, Reads(p, "PICK"), NEW s \in Stacks, NEW x \in Elements,
           NEW a, NEW b, On(b), Trace[p] = State(s ++ x, a, b),
           x.kind = "num", x.n \in 0 .. Len(s) - 1
    PROVE  Trace[p + 1] = State(s ++ s[Len(s) - x.n], a, b)
<1> DEFINE r == s ++ x
<1>1. Trace[p + 1] = Executed(Script[p], State(r, a, b))
    BY Steps
<1>2. Len(r) = Len(s) + 1 /\ From(r, 0) = x /\ Cut(r, 1) = s /\ Numbered(r, 1) /\ Len(s) \in Nat
    BY OneOn
<1>3. r[Len(s) - x.n] = s[Len(s) - x.n]
  <2>1. Len(s) - x.n \in 1 .. Len(s)
      BY <1>2
  <2> QED BY <2>1, Pushed
<1> HIDE DEF r
<1>4. Deep(r) /\ From(r, From(r, 0).n + 1) = s[Len(s) - x.n]
  <2>1. Len(r) - (x.n + 1) = Len(s) - x.n /\ x.n >= 0 /\ Len(r) >= x.n + 2
      BY <1>2
  <2> QED BY <1>2, <1>3, <2>1 DEF Deep, From
<1>5. Trace[p + 1] = Copied(State(r, a, b))
    BY <1>1 DEF Reads, Executed
<1> QED BY <1>2, <1>4, <1>5, StateIs DEF Copied, ++

(* ROLL of the element that it is named for, or of an unnamed one.         *)
LEMMA RunRoll ==
    ASSUME NEW p, Reads(p, "ROLL"), NEW s \in Stacks, NEW x \in Elements,
           NEW a, NEW b, On(b), Trace[p] = State(s ++ x, a, b),
           x.kind = "num", x.n \in 0 .. Len(s) - 1,
           Script[p].name = NoName \/ s[Len(s) - x.n] = Supplied(Script[p].name)
    PROVE  Trace[p + 1] = State(RemoveAt(s, Len(s) - x.n) ++ s[Len(s) - x.n], a, b)
<1> DEFINE r == s ++ x
<1>1. Trace[p + 1] = Executed(Script[p], State(r, a, b))
    BY Steps
<1>2. Len(r) = Len(s) + 1 /\ From(r, 0) = x /\ Cut(r, 1) = s /\ Numbered(r, 1) /\ Len(s) \in Nat
    BY OneOn
<1>3. r[Len(s) - x.n] = s[Len(s) - x.n]
  <2>1. Len(s) - x.n \in 1 .. Len(s)
      BY <1>2
  <2> QED BY <2>1, Pushed
<1> HIDE DEF r
<1>4. Deep(r) /\ From(r, From(r, 0).n + 1) = s[Len(s) - x.n]
      /\ Len(r) - 1 - From(r, 0).n = Len(s) - x.n
  <2>1. /\ Len(r) - (x.n + 1) = Len(s) - x.n /\ x.n >= 0 /\ Len(r) >= x.n + 2
        /\ Len(r) - 1 - x.n = Len(s) - x.n
      BY <1>2
  <2> QED BY <1>2, <1>3, <2>1 DEF Deep, From
<1>5. Trace[p + 1] = Rolled(State(r, a, b), Script[p].name)
    BY <1>1 DEF Reads, Executed
<1> QED BY <1>2, <1>4, <1>5, StateIs DEF Rolled, ++

(* TOALT and FROMALT                                                       *)
LEMMA RunToAlt ==
    ASSUME NEW p, Reads(p, "TOALT"), NEW s \in Stacks, NEW x \in Elements,
           NEW a, NEW b, On(b), Trace[p] = State(s ++ x, a, b)
    PROVE  Trace[p + 1] = State(s, a ++ x, b)
<1> DEFINE r == s ++ x
<1>1. Trace[p + 1] = Executed(Script[p], State(r, a, b))
    BY Steps
<1>2. Len(r) >= 1 /\ From(r, 0) = x /\ Cut(r, 1) = s
    BY OneOn
<1> HIDE DEF r
<1> QED BY <1>1, <1>2, StateIs DEF Reads, Executed, ++

(* FROMALT takes from the other stack.                                     *)
LEMMA RunFromAlt ==
    ASSUME NEW p, Reads(p, "FROMALT"), NEW s, NEW x \in Elements,
           NEW a \in Stacks, NEW b, On(b), Trace[p] = State(s, a ++ x, b)
    PROVE  Trace[p + 1] = State(s ++ x, a, b)
<1> DEFINE r == a ++ x
<1>1. Trace[p + 1] = Executed(Script[p], State(s, r, b))
    BY Steps
<1>2. Len(r) = Len(a) + 1 /\ r[Len(a) + 1] = x /\ SubSeq(r, 1, Len(a)) = a /\ Len(a) \in Nat
    BY Pushed, OneOn
<1> HIDE DEF r
<1>3. Len(r) - 1 = Len(a)
    BY <1>2
<1>4. Last(r) = x /\ Front(r) = a
    BY <1>2, <1>3 DEF Last, Front
<1>5. r # <<>>
    BY <1>2
<1> QED BY <1>1, <1>4, <1>5, StateIs DEF Reads, Executed, ++

-----------------------------------------------------------------------------
(* An execution that has ended otherwise than by starving.                 *)
Rejected(p) == Trace[p].end \notin {"none", "underflow"}

(* It has ended for good.                                                  *)
LEMMA EndedStays ==
    ASSUME Len(Script) \in Nat, NEW p \in 1 .. Len(Script) + 1, NEW q \in p .. Len(Script) + 1,
           Trace[p].end # "none"
    PROVE  Trace[q] = Trace[p]
<1> DEFINE Bad == {k \in Nat : p + k <= Len(Script) + 1 /\ Trace[p + k] # Trace[p]}
<1>1. CASE Bad # {}
  <2>1. PICK m \in Bad : \A k \in Bad : m <= k
      BY <1>1, LeastMember
  <2>2. m # 0
      BY <2>1
  <2>3. m - 1 \in Nat /\ ~(m <= m - 1) /\ p + (m - 1) <= Len(Script) + 1
      BY <2>1, <2>2
  <2>4. Trace[p + (m - 1)] = Trace[p]
      BY <2>1, <2>3
  <2>5. p + (m - 1) \in 1 .. Len(Script) /\ (p + (m - 1)) + 1 = p + m
      BY <2>1, <2>2
  <2>6. Trace[p + m] = Exec(Script[p + (m - 1)], Trace[p + (m - 1)])
      BY <2>5, TraceSteps
  <2>7. Trace[p + m] = Trace[p]
      BY <2>4, <2>6 DEF Exec
  <2> QED BY <2>1, <2>7
<1>2. CASE Bad = {}
  <2>1. q - p \in Nat /\ p + (q - p) = q /\ q <= Len(Script) + 1
      OBVIOUS
  <2> HIDE DEF Bad
  <2>2. q - p \notin Bad
      BY <1>2
  <2> QED BY <2>1, <2>2 DEF Bad
<1> QED BY <1>1, <1>2

(* A rejected execution stays rejected.                                    *)
LEMMA RejectedStays ==
    ASSUME Len(Script) \in Nat, NEW p \in 1 .. Len(Script) + 1, NEW q \in p .. Len(Script) + 1,
           Rejected(p)
    PROVE  Rejected(q)
BY EndedStays DEF Rejected

(* Reasons other than starving.                                            *)
LEMMA Reasons ==
    ASSUME NEW p, NEW reason \in {"not a number", "verify", "equalverify", "checksig"},
           Trace[p] = Dead(reason)
    PROVE  Rejected(p)
BY DeadIs DEF Rejected

(* WITHIN, of what is no number                                            *)
LEMMA RunWithout ==
    ASSUME NEW p, Reads(p, "WITHIN"), NEW s \in Stacks, NEW x \in Elements, NEW y \in Elements,
           NEW z \in Elements, NEW a, NEW b, On(b), Trace[p] = State(s ++ x ++ y ++ z, a, b),
           x.kind # "num"
    PROVE  Rejected(p + 1)
<1> DEFINE r == s ++ x ++ y ++ z
<1>1. Trace[p + 1] = Executed(Script[p], State(r, a, b))
    BY Steps
<1>2. Len(r) >= 3 /\ ~Numbered(r, 3)
  <2>1. /\ Len(s ++ x ++ y ++ z) >= 3
        /\ Numbered(s ++ x ++ y ++ z, 3) <=> x.kind = "num" /\ y.kind = "num" /\ z.kind = "num"
      BY ThreeOn
  <2> QED BY <2>1
<1>3. ~Numbered(r, 3)
    BY <1>2
<1> DEFINE within == <<Truth(From(r, 1).n <= From(r, 2).n /\ From(r, 2).n < From(r, 0).n)>>
<1> HIDE DEF r
<1>4. Trace[p + 1] = Replaced(State(r, a, b), 3, 3, within)
    BY <1>1, <1>2, StateIs DEF Reads, Executed
<1> HIDE DEF within
<1> DEFINE m == State(r, a, b)
<1>6. m.stack = r /\ Trace[p + 1] = Replaced(m, 3, 3, within)
    BY <1>4, StateIs
<1> HIDE DEF m
<1>5. Trace[p + 1] = Dead("not a number")
    BY <1>2, <1>3, <1>6 DEF Replaced
<1> QED BY <1>5, Reasons

(* VERIFY, EQUALVERIFY and CHECKSIGVERIFY                                  *)
LEMMA RunVerify ==
    ASSUME NEW p, Reads(p, "VERIFY"), NEW s \in Stacks, NEW x \in Elements,
           NEW a, NEW b, On(b), Trace[p] = State(s ++ x, a, b)
    PROVE  IF IsTrue(x) THEN Trace[p + 1] = State(s, a, b) ELSE Rejected(p + 1)
<1> DEFINE r == s ++ x
<1>1. Trace[p + 1] = Executed(Script[p], State(r, a, b))
    BY Steps
<1>2. Len(r) >= 1 /\ From(r, 0) = x /\ Cut(r, 1) = s
    BY OneOn
<1> DEFINE passes == IsTrue(x)
<1> HIDE DEF r
<1>3. Trace[p + 1] = Checked(State(r, a, b), 1, passes, "verify")
    BY <1>1, <1>2, StateIs DEF Reads, Executed
<1> HIDE DEF passes
<1>4. Trace[p + 1] = IF passes THEN State(s, a, b) ELSE Dead("verify")
    BY <1>2, <1>3, CheckedIs
<1> QED BY <1>4, Reasons DEF passes

(* EQUALVERIFY of two elements.                                            *)
LEMMA RunEqual ==
    ASSUME NEW p, Reads(p, "EQUALVERIFY"), NEW s \in Stacks, NEW x \in Elements,
           NEW y \in Elements, NEW a, NEW b, On(b), Trace[p] = State(s ++ x ++ y, a, b)
    PROVE  IF x = y THEN Trace[p + 1] = State(s, a, b) ELSE Rejected(p + 1)
<1> DEFINE r == s ++ x ++ y
<1>1. Trace[p + 1] = Executed(Script[p], State(r, a, b))
    BY Steps
<1>2. Len(r) >= 2 /\ From(r, 0) = y /\ From(r, 1) = x /\ Cut(r, 2) = s
    BY TwoOn
<1> DEFINE passes == y = x
<1> HIDE DEF r
<1>3. Trace[p + 1] = Checked(State(r, a, b), 2, passes, "equalverify")
    BY <1>1, <1>2, StateIs DEF Reads, Executed
<1> HIDE DEF passes
<1>4. Trace[p + 1] = IF passes THEN State(s, a, b) ELSE Dead("equalverify")
    BY <1>2, <1>3, CheckedIs
<1> QED BY <1>4, Reasons DEF passes

(* CHECKSIGVERIFY of a signature and a key.                                *)
LEMMA RunCheckSigVerify ==
    ASSUME NEW p, Reads(p, "CHECKSIGVERIFY"), NEW s \in Stacks, NEW x \in Elements,
           NEW y \in Elements, NEW a, NEW b, On(b), Trace[p] = State(s ++ x ++ y, a, b)
    PROVE  IF Verifies(x, y, {}) THEN Trace[p + 1] = State(s, a, b) ELSE Rejected(p + 1)
<1> DEFINE r == s ++ x ++ y
<1>1. Trace[p + 1] = Executed(Script[p], State(r, a, b))
    BY Steps
<1>2. Len(r) >= 2 /\ From(r, 0) = y /\ From(r, 1) = x /\ Cut(r, 2) = s
    BY TwoOn
<1> DEFINE passes == Verifies(x, y, {})
<1> HIDE DEF r
<1>3. Trace[p + 1] = Checked(State(r, a, b), 2, passes, "checksig")
    BY <1>1, <1>2, StateIs DEF Reads, Executed
<1> HIDE DEF passes
<1>4. Trace[p + 1] = IF passes THEN State(s, a, b) ELSE Dead("checksig")
    BY <1>2, <1>3, CheckedIs
<1> QED BY <1>4, Reasons DEF passes

-----------------------------------------------------------------------------
(* IF, ELSE, ENDIF, and what is skipped between them.                      *)
LEMMA RunIf ==
    ASSUME NEW p, Reads(p, "IF"), NEW s \in Stacks, NEW x \in Elements,
           NEW a, Trace[p] = State(s ++ x, a, <<>>)
    PROVE  Trace[p + 1] = State(s, a, <<IsTrue(x)>>)
<1> DEFINE r == s ++ x
<1> DEFINE none == <<>>
<1>1. Trace[p + 1] = Executed(Script[p], State(r, a, none))
    BY Steps, NoneOn
<1>2. Len(r) >= 1 /\ From(r, 0) = x /\ Cut(r, 1) = s
    BY OneOn
<1> HIDE DEF r, none
<1>3. Trace[p + 1] = State(s, a, Append(none, IsTrue(x)))
    BY <1>1, <1>2, StateIs DEF Reads, Executed
<1>4. Append(none, IsTrue(x)) = <<IsTrue(x)>>
    BY DEF none
<1> QED BY <1>3, <1>4

(* ELSE turns the branch over.                                             *)
LEMMA RunElse ==
    ASSUME NEW p, Reads(p, "ELSE"), NEW s, NEW a, NEW e \in BOOLEAN, Trace[p] = State(s, a, <<e>>)
    PROVE  Trace[p + 1] = State(s, a, <<~e>>)
<1>1. Trace[p + 1] = Exec(Script[p], Trace[p])
    BY TraceSteps DEF Reads
<1>2. Trace[p + 1] = State(s, a, Append(Front(<<e>>), ~Last(<<e>>)))
    BY <1>1, StateIs DEF Exec, Reads
<1>3. Front(<<e>>) = <<>> /\ Last(<<e>>) = e
    BY DEF Front, Last
<1> QED BY <1>2, <1>3

(* ENDIF leaves the branch.                                                *)
LEMMA RunEndIf ==
    ASSUME NEW p, Reads(p, "ENDIF"), NEW s, NEW a, NEW e, Trace[p] = State(s, a, <<e>>)
    PROVE  Trace[p + 1] = State(s, a, <<>>)
<1>1. Trace[p + 1] = Exec(Script[p], Trace[p])
    BY TraceSteps DEF Reads
<1>2. Trace[p + 1] = State(s, a, Front(<<e>>))
    BY <1>1, StateIs DEF Exec, Reads
<1>3. Front(<<e>>) = <<>>
    BY DEF Front
<1> QED BY <1>2, <1>3

(* Nothing happens in a branch that is not taken.                          *)
LEMMA RunSkip ==
    ASSUME NEW p, NEW op, Reads(p, op), op \notin {"ELSE", "ENDIF"},
           NEW s, NEW a, Trace[p] = State(s, a, <<FALSE>>)
    PROVE  Trace[p + 1] = State(s, a, <<FALSE>>)
<1>1. Trace[p + 1] = Exec(Script[p], Trace[p])
    BY TraceSteps DEF Reads
<1>2. ~\A i \in DOMAIN <<FALSE>> : <<FALSE>>[i]
  <2>1. 1 \in DOMAIN <<FALSE>> /\ <<FALSE>>[1] = FALSE
      OBVIOUS
  <2> QED BY <2>1, Zenon
<1> QED BY <1>1, <1>2, StateIs DEF Exec, Reads

(* An executed branch.                                                     *)
LEMMA TakenOn == On(<<TRUE>>)
<1>1. \A i \in DOMAIN <<TRUE>> : <<TRUE>>[i] = TRUE
  <2>1. \A i \in DOMAIN <<TRUE>> : i = 1
      OBVIOUS
  <2>2. <<TRUE>>[1] = TRUE
      OBVIOUS
  <2> QED BY <2>1, <2>2, Zenon
<1> QED BY <1>1, Zenon DEF On

-----------------------------------------------------------------------------
(* Code without a multisig check, and where in the script it stands.       *)
NameKinds == {"none", "digest_proof", "digest_key", "pin_proof", "pin_key", "pub", "pre", "index"}
Plain ==
    {"PUSH", "DUP", "DROP", "OVER", "SWAP", "ADD", "GREATERTHAN", "LESSTHANOREQUAL", "WITHIN",
     "HASH160", "RIPEMD160", "SHA256", "SIZE", "PICK", "ROLL", "TOALT", "FROMALT", "VERIFY",
     "EQUALVERIFY", "CHECKSIGVERIFY", "CHECKSIG", "CODESEPARATOR", "IF", "ELSE", "ENDIF"}
Named == NameKinds \X Int
Instructions == [op : Plain, arg : Elements, name : Named]
Codes == Seq(Instructions)

Block(p, code) ==
    /\ Len(Script) \in Nat /\ p \in Nat \ {0} /\ p + Len(code) - 1 <= Len(Script)
    /\ \A k \in 1 .. Len(code) : Script[p + k - 1] = code[k]

(* The fields of an instruction.                                           *)
LEMMA InstructionIs ==
    ASSUME NEW op \in Plain, NEW e \in Elements, NEW name \in Named
    PROVE  /\ Instruction(op, e, name) \in Instructions
           /\ Instruction(op, e, name).op = op /\ Instruction(op, e, name).arg = e
           /\ Instruction(op, e, name).name = name
BY DEF Instruction, Instructions

(* The name of an element no roll fetches.                                 *)
LEMMA NoNameIs == NoName \in Named
<1>1. "none" \in NameKinds
    BY DEF NameKinds
<1> QED BY <1>1 DEF NoName, Named

(* An opcode as an instruction.                                            *)
LEMMA OpIs ==
    ASSUME NEW op \in Plain
    PROVE  Op(op) \in Instructions /\ Op(op).op = op /\ Op(op).name = NoName
BY InstructionIs, NoNameIs, Constants DEF Op

(* A push as an instruction.                                               *)
LEMMA PushIs ==
    ASSUME NEW e \in Elements
    PROVE  Push(e) \in Instructions /\ Push(e).op = "PUSH" /\ Push(e).arg = e
<1>1. "PUSH" \in Plain
    BY DEF Plain
<1> QED BY <1>1, InstructionIs, NoNameIs DEF Push

(* The push of a number as an instruction.                                 *)
LEMMA PushNumIs ==
    ASSUME NEW n \in Int
    PROVE  PushNum(n) \in Instructions /\ PushNum(n).op = "PUSH" /\ PushNum(n).arg = Num(n)
BY PushIs, NumberIs DEF PushNum

(* A block of joined code is two blocks.                                   *)
LEMMA BlockSplits ==
    ASSUME NEW p, NEW c \in Codes, NEW d \in Codes, Block(p, c \o d)
    PROVE  /\ Block(p, c) /\ Block(p + Len(c), d)
           /\ c \o d \in Codes /\ Len(c \o d) = Len(c) + Len(d) /\ Len(c) \in Nat /\ Len(d) \in Nat
<1>1. /\ Len(c) \in Nat /\ Len(d) \in Nat /\ c \o d \in Codes /\ Len(c \o d) = Len(c) + Len(d)
      /\ \A i \in 1 .. Len(c) + Len(d) : (c \o d)[i] = IF i <= Len(c) THEN c[i] ELSE d[i - Len(c)]
    BY ConcatProperties, LenProperties DEF Codes
<1>2. /\ Len(Script) \in Nat /\ p \in Nat \ {0} /\ p + (Len(c) + Len(d)) - 1 <= Len(Script)
      /\ \A k \in 1 .. Len(c) + Len(d) : Script[p + k - 1] = (c \o d)[k]
    BY <1>1 DEF Block
<1>3. \A k \in 1 .. Len(c) : Script[p + k - 1] = c[k]
  <2> TAKE k \in 1 .. Len(c)
  <2>1. k \in 1 .. Len(c) + Len(d) /\ k <= Len(c)
      BY <1>1
  <2> QED BY <1>1, <1>2, <2>1
<1>4. \A k \in 1 .. Len(d) : Script[(p + Len(c)) + k - 1] = d[k]
  <2> TAKE k \in 1 .. Len(d)
  <2>1. /\ Len(c) + k \in 1 .. Len(c) + Len(d) /\ ~(Len(c) + k <= Len(c))
           /\ (Len(c) + k) - Len(c) = k
        /\ p + (Len(c) + k) - 1 = (p + Len(c)) + k - 1
      BY <1>1, <1>2
  <2> QED BY <1>1, <1>2, <2>1
<1>5. p + Len(c) - 1 <= Len(Script) /\ p + Len(c) \in Nat \ {0}
      /\ (p + Len(c)) + Len(d) - 1 <= Len(Script)
    BY <1>1, <1>2
<1> QED BY <1>1, <1>2, <1>3, <1>4, <1>5 DEF Block

(* Where its instructions are.                                             *)
LEMMA BlockReads ==
    ASSUME NEW p, NEW code, Block(p, code), NEW k \in 1 .. Len(code), NEW q, q = p + k - 1
    PROVE  Script[q] = code[k] /\ Reads(q, code[k].op)
BY DEF Block, Reads

(* The index is a number in the table.                                     *)
LEMMA InTableRuns ==
    ASSUME NEW p, NEW n \in Int, NEW s \in Stacks, NEW x \in Elements, NEW a,
           Block(p, InTable(n)),
           Trace[p] = State(s ++ x, a, <<>>)
    PROVE  IF x.kind = "num" /\ x.n \in 0 .. n - 1
           THEN Trace[p + 5] = State(s ++ x, a, <<>>)
           ELSE Rejected(p + 5)
<1>1. /\ p \in Nat \ {0} /\ Len(Script) \in Nat /\ p + 4 <= Len(Script)
      /\ Reads(p, "DUP")
      /\ Reads(p + 1, "PUSH") /\ Script[p + 1].arg = Num(0)
      /\ Reads(p + 2, "PUSH") /\ Script[p + 2].arg = Num(n)
      /\ Reads(p + 3, "WITHIN")
      /\ Reads(p + 4, "VERIFY")
  <2> DEFINE code == InTable(n)
  <2>1. /\ Len(code) = 5
        /\ code[1] = Op("DUP")
        /\ code[2] = PushNum(0)
        /\ code[3] = PushNum(n)
        /\ code[4] = Op("WITHIN")
        /\ code[5] = Op("VERIFY")
      BY DEF InTable
  <2>2. Op("DUP").op = "DUP" /\ Op("VERIFY").op = "VERIFY" /\ Op("WITHIN").op = "WITHIN"
      BY OpIs DEF Plain
  <2>7. Block(p, code)
      OBVIOUS
  <2> HIDE DEF code
  <2>3. /\ p \in Nat \ {0} /\ Len(Script) \in Nat /\ p + 4 <= Len(Script)
        /\ \A k \in 1 .. 5 : Script[p + k - 1] = code[k]
      BY <2>1, <2>7 DEF Block
  <2>4. /\ PushNum(0).op = "PUSH" /\ PushNum(0).arg = Num(0)
        /\ PushNum(n).op = "PUSH" /\ PushNum(n).arg = Num(n)
      BY PushNumIs, PushIs
  <2>9. /\ Script[p] = code[1]
        /\ Script[p + 1] = code[2]
        /\ Script[p + 2] = code[3]
        /\ Script[p + 3] = code[4]
        /\ Script[p + 4] = code[5]
      BY ONLY <2>3
  <2>5. /\ Script[p] = Op("DUP")
        /\ Script[p + 1] = PushNum(0)
        /\ Script[p + 2] = PushNum(n)
        /\ Script[p + 3] = Op("WITHIN")
        /\ Script[p + 4] = Op("VERIFY")
      BY ONLY <2>1, <2>9
  <2>8. p \in Nat \ {0} /\ Len(Script) \in Nat /\ p + 4 <= Len(Script)
      BY ONLY <2>3
  <2>6. /\ p \in 1 .. Len(Script)
        /\ p + 1 \in 1 .. Len(Script)
        /\ p + 2 \in 1 .. Len(Script)
        /\ p + 3 \in 1 .. Len(Script)
        /\ p + 4 \in 1 .. Len(Script)
      BY ONLY <2>8
  <2> QED BY ONLY <2>2, <2>3, <2>4, <2>5, <2>6 DEF Reads
<1> DEFINE Cond == x.kind = "num" /\ x.n \in 0 .. n - 1
<1> DEFINE Ends == Trace[p + 5] = State(s ++ x, a, <<>>)
<1>2. SUFFICES ASSUME Cond \/ ~Rejected(p + 5) PROVE Cond /\ Ends
    OBVIOUS
<1>3. Num(0) \in Elements /\ Num(n) \in Elements
    BY NumberIs
<1>4. Trace[p + 1] = State(s ++ x ++ x, a, <<>>)
    BY <1>1, <1>3, NoneOn, RunDup, Grows
<1>5. Trace[p + 2] = State(s ++ x ++ x ++ Num(0), a, <<>>)
    BY <1>1, <1>3, <1>4, NoneOn, RunPush, Grows
<1>6. Trace[p + 3] = State(s ++ x ++ x ++ Num(0) ++ Num(n), a, <<>>)
    BY <1>1, <1>3, <1>5, NoneOn, RunPush, Grows
<1>7. x.kind = "num"
  <2>1. CASE x.kind # "num"
    <3>1. Rejected(p + 4)
        BY <1>1, <1>3, <1>6, <2>1, NoneOn, RunWithout, Grows
    <3>2. p + 4 \in 1 .. Len(Script) + 1 /\ p + 5 \in p + 4 .. Len(Script) + 1
        BY <1>1
    <3>3. Rejected(p + 5)
        BY <1>1, <3>1, <3>2, RejectedStays
    <3> QED BY <1>2, <3>3
  <2> QED BY <2>1
<1>8. Num(0).kind = "num" /\ Num(0).n = 0 /\ Num(n).kind = "num" /\ Num(n).n = n
    BY NumberIs
<1>9. Trace[p + 4] = State(s ++ x ++ Truth(0 <= x.n /\ x.n < n), a, <<>>)
    BY <1>1, <1>3, <1>6, <1>7, <1>8, NoneOn, RunWithin, Grows
<1>10. Truth(0 <= x.n /\ x.n < n) \in Elements
    BY NumberIs DEF Truth
<1>11. IsTrue(Truth(0 <= x.n /\ x.n < n)) <=> 0 <= x.n /\ x.n < n
    BY TruthIs
<1>12. (IsTrue(Truth(0 <= x.n /\ x.n < n))) /\ Trace[p + 5] = State(s ++ x, a, <<>>)
  <2>1. IF IsTrue(Truth(0 <= x.n /\ x.n < n))
        THEN Trace[p + 5] = State(s ++ x, a, <<>>) ELSE Rejected(p + 5)
      BY <1>1, <1>3, <1>9, <1>10, NoneOn, RunVerify, Grows
  <2>2. CASE ~Rejected(p + 5)
    <3>1. p + 5 \in 1 .. Len(Script) + 1 /\ p + 5 \in p + 5 .. Len(Script) + 1
        BY <1>1
    <3>2. ~Rejected(p + 5)
        BY <1>1, <2>2, <3>1, RejectedStays
    <3> QED BY <2>1, <3>2
  <2>3. CASE Cond
    <3>1. IsTrue(Truth(0 <= x.n /\ x.n < n))
        BY <2>3, <1>11
    <3> QED BY <2>1, <3>1
  <2> QED BY <2>2, <2>3, <1>2
<1>13. x.n \in Int
    BY DEF Elements
<1> QED BY <1>7, <1>12, <1>11, <1>13, <1>12

(* The index is larger than the one before.                                *)
LEMMA AscendingRuns ==
    ASSUME NEW p, NEW s \in Stacks, NEW x \in Elements, NEW y \in Elements, NEW a \in Stacks,
           x.kind = "num", y.kind = "num",
           Block(p, Ascending),
           Trace[p] = State(s ++ x, a ++ y, <<>>)
    PROVE  IF x.n > y.n
           THEN Trace[p + 6] = State(s ++ x, a ++ x, <<>>)
           ELSE Rejected(p + 6)
<1>1. /\ p \in Nat \ {0} /\ Len(Script) \in Nat /\ p + 5 <= Len(Script)
      /\ Reads(p, "DUP")
      /\ Reads(p + 1, "FROMALT")
      /\ Reads(p + 2, "GREATERTHAN")
      /\ Reads(p + 3, "VERIFY")
      /\ Reads(p + 4, "DUP")
      /\ Reads(p + 5, "TOALT")
  <2> DEFINE code == Ascending
  <2>1. /\ Len(code) = 6
        /\ code[1] = Op("DUP")
        /\ code[2] = Op("FROMALT")
        /\ code[3] = Op("GREATERTHAN")
        /\ code[4] = Op("VERIFY")
        /\ code[5] = Op("DUP")
        /\ code[6] = Op("TOALT")
      BY DEF Ascending
  <2>2. /\ Op("DUP").op = "DUP" /\ Op("FROMALT").op = "FROMALT"
           /\ Op("GREATERTHAN").op = "GREATERTHAN"
        /\ Op("TOALT").op = "TOALT" /\ Op("VERIFY").op = "VERIFY"
      BY OpIs DEF Plain
  <2>7. Block(p, code)
      OBVIOUS
  <2> HIDE DEF code
  <2>3. /\ p \in Nat \ {0} /\ Len(Script) \in Nat /\ p + 5 <= Len(Script)
        /\ \A k \in 1 .. 6 : Script[p + k - 1] = code[k]
      BY <2>1, <2>7 DEF Block
  <2>9. /\ Script[p] = code[1]
        /\ Script[p + 1] = code[2]
        /\ Script[p + 2] = code[3]
        /\ Script[p + 3] = code[4]
        /\ Script[p + 4] = code[5]
        /\ Script[p + 5] = code[6]
      BY ONLY <2>3
  <2>5. /\ Script[p] = Op("DUP")
        /\ Script[p + 1] = Op("FROMALT")
        /\ Script[p + 2] = Op("GREATERTHAN")
        /\ Script[p + 3] = Op("VERIFY")
        /\ Script[p + 4] = Op("DUP")
        /\ Script[p + 5] = Op("TOALT")
      BY ONLY <2>1, <2>9
  <2>8. p \in Nat \ {0} /\ Len(Script) \in Nat /\ p + 5 <= Len(Script)
      BY ONLY <2>3
  <2>6. /\ p \in 1 .. Len(Script)
        /\ p + 1 \in 1 .. Len(Script)
        /\ p + 2 \in 1 .. Len(Script)
        /\ p + 3 \in 1 .. Len(Script)
        /\ p + 4 \in 1 .. Len(Script)
        /\ p + 5 \in 1 .. Len(Script)
      BY ONLY <2>8
  <2> QED BY ONLY <2>2, <2>3, <2>5, <2>6 DEF Reads
<1> DEFINE Cond == x.n > y.n
<1> DEFINE Ends == Trace[p + 6] = State(s ++ x, a ++ x, <<>>)
<1>2. SUFFICES ASSUME Cond \/ ~Rejected(p + 6) PROVE Cond /\ Ends
    OBVIOUS
<1>3. Trace[p + 1] = State(s ++ x ++ x, a ++ y, <<>>)
    BY <1>1, NoneOn, RunDup, Grows
<1>4. Trace[p + 2] = State(s ++ x ++ x ++ y, a, <<>>)
    BY <1>1, <1>3, NoneOn, RunFromAlt, Grows
<1>5. Trace[p + 3] = State(s ++ x ++ Truth(x.n > y.n), a, <<>>)
    BY <1>1, <1>4, NoneOn, RunGreater, Grows
<1>6. Truth(x.n > y.n) \in Elements
    BY NumberIs DEF Truth
<1>7. IsTrue(Truth(x.n > y.n)) <=> x.n > y.n
  <2> DEFINE q == x.n > y.n
  <2>1. q \in BOOLEAN
      OBVIOUS
  <2> HIDE DEF q
  <2>2. IsTrue(Truth(q)) <=> q
      BY <2>1, TruthIs
  <2> QED BY <2>2 DEF q
<1>8. (IsTrue(Truth(x.n > y.n))) /\ Trace[p + 4] = State(s ++ x, a, <<>>)
  <2>1. IF IsTrue(Truth(x.n > y.n))
        THEN Trace[p + 4] = State(s ++ x, a, <<>>) ELSE Rejected(p + 4)
      BY <1>1, <1>5, <1>6, NoneOn, RunVerify, Grows
  <2>2. CASE ~Rejected(p + 6)
    <3>1. p + 4 \in 1 .. Len(Script) + 1 /\ p + 6 \in p + 4 .. Len(Script) + 1
        BY <1>1
    <3>2. ~Rejected(p + 4)
        BY <1>1, <2>2, <3>1, RejectedStays
    <3> QED BY <2>1, <3>2
  <2>3. CASE Cond
    <3>1. IsTrue(Truth(x.n > y.n))
        BY <2>3, <1>7
    <3> QED BY <2>1, <3>1
  <2> QED BY <2>2, <2>3, <1>2
<1>9. Trace[p + 5] = State(s ++ x ++ x, a, <<>>)
    BY <1>1, <1>8, NoneOn, RunDup, Grows
<1>10. Trace[p + 6] = State(s ++ x, a ++ x, <<>>)
    BY <1>1, <1>9, NoneOn, RunToAlt, Grows
<1> QED BY <1>8, <1>7, <1>10

(* The index is doubled, and copied.                                       *)
LEMMA TwiceRuns ==
    ASSUME NEW p, NEW s \in Stacks, NEW x \in Elements, NEW a, x.kind = "num",
           Block(p, Twice),
           Trace[p] = State(s ++ x, a, <<>>)
    PROVE  Trace[p + 3] = State(s ++ Num(x.n + x.n) ++ Num(x.n + x.n), a, <<>>)
<1>1. /\ p \in Nat \ {0} /\ Len(Script) \in Nat /\ p + 2 <= Len(Script)
      /\ Reads(p, "DUP")
      /\ Reads(p + 1, "ADD")
      /\ Reads(p + 2, "DUP")
  <2> DEFINE code == Twice
  <2>1. /\ Len(code) = 3
        /\ code[1] = Op("DUP")
        /\ code[2] = Op("ADD")
        /\ code[3] = Op("DUP")
      BY DEF Twice
  <2>2. Op("ADD").op = "ADD" /\ Op("DUP").op = "DUP"
      BY OpIs DEF Plain
  <2>7. Block(p, code)
      OBVIOUS
  <2> HIDE DEF code
  <2>3. /\ p \in Nat \ {0} /\ Len(Script) \in Nat /\ p + 2 <= Len(Script)
        /\ \A k \in 1 .. 3 : Script[p + k - 1] = code[k]
      BY <2>1, <2>7 DEF Block
  <2>9. /\ Script[p] = code[1]
        /\ Script[p + 1] = code[2]
        /\ Script[p + 2] = code[3]
      BY ONLY <2>3
  <2>5. /\ Script[p] = Op("DUP")
        /\ Script[p + 1] = Op("ADD")
        /\ Script[p + 2] = Op("DUP")
      BY ONLY <2>1, <2>9
  <2>8. p \in Nat \ {0} /\ Len(Script) \in Nat /\ p + 2 <= Len(Script)
      BY ONLY <2>3
  <2>6. /\ p \in 1 .. Len(Script)
        /\ p + 1 \in 1 .. Len(Script)
        /\ p + 2 \in 1 .. Len(Script)
      BY ONLY <2>8
  <2> QED BY ONLY <2>2, <2>3, <2>5, <2>6 DEF Reads
<1>2. Num(x.n + x.n) \in Elements
    BY NumberIs DEF Elements
<1>3. Trace[p + 1] = State(s ++ x ++ x, a, <<>>)
    BY <1>1, <1>2, NoneOn, RunDup, Grows
<1>4. Trace[p + 2] = State(s ++ Num(x.n + x.n), a, <<>>)
    BY <1>1, <1>2, <1>3, NoneOn, RunAdd, Grows
<1>5. Trace[p + 3] = State(s ++ Num(x.n + x.n) ++ Num(x.n + x.n), a, <<>>)
    BY <1>1, <1>2, <1>4, NoneOn, RunDup, Grows
<1> QED BY <1>5

(* An entry of the table is copied from below.                             *)
LEMMA LookupRuns ==
    ASSUME NEW p, NEW s \in Stacks, NEW x \in Elements, NEW a, NEW j \in Int, x.kind = "num",
           x.n + (j + 1) \in 0 .. Len(s) - 1,
           Block(p, Lookup(j)),
           Trace[p] = State(s ++ x, a, <<>>)
    PROVE  Trace[p + 3] = State(s ++ s[Len(s) - (x.n + (j + 1))], a, <<>>)
<1>1. /\ p \in Nat \ {0} /\ Len(Script) \in Nat /\ p + 2 <= Len(Script)
      /\ Reads(p, "PUSH") /\ Script[p].arg = Num(j + 1)
      /\ Reads(p + 1, "ADD")
      /\ Reads(p + 2, "PICK")
  <2> DEFINE code == Lookup(j)
  <2>1. /\ Len(code) = 3
        /\ code[1] = PushNum(j + 1)
        /\ code[2] = Op("ADD")
        /\ code[3] = Op("PICK")
      BY DEF Lookup
  <2>2. Op("ADD").op = "ADD" /\ Op("PICK").op = "PICK"
      BY OpIs DEF Plain
  <2>7. Block(p, code)
      OBVIOUS
  <2> HIDE DEF code
  <2>3. /\ p \in Nat \ {0} /\ Len(Script) \in Nat /\ p + 2 <= Len(Script)
        /\ \A k \in 1 .. 3 : Script[p + k - 1] = code[k]
      BY <2>1, <2>7 DEF Block
  <2>4. PushNum(j + 1).op = "PUSH" /\ PushNum(j + 1).arg = Num(j + 1)
      BY PushNumIs, PushIs
  <2>9. /\ Script[p] = code[1]
        /\ Script[p + 1] = code[2]
        /\ Script[p + 2] = code[3]
      BY ONLY <2>3
  <2>5. /\ Script[p] = PushNum(j + 1)
        /\ Script[p + 1] = Op("ADD")
        /\ Script[p + 2] = Op("PICK")
      BY ONLY <2>1, <2>9
  <2>8. p \in Nat \ {0} /\ Len(Script) \in Nat /\ p + 2 <= Len(Script)
      BY ONLY <2>3
  <2>6. /\ p \in 1 .. Len(Script)
        /\ p + 1 \in 1 .. Len(Script)
        /\ p + 2 \in 1 .. Len(Script)
      BY ONLY <2>8
  <2> QED BY ONLY <2>2, <2>3, <2>4, <2>5, <2>6 DEF Reads
<1>2. Num(j + 1) \in Elements /\ Num(x.n + (j + 1)) \in Elements
    BY NumberIs DEF Elements
<1>3. Trace[p + 1] = State(s ++ x ++ Num(j + 1), a, <<>>)
    BY <1>1, <1>2, NoneOn, RunPush, Grows
<1>4. Num(j + 1).kind = "num" /\ Num(j + 1).n = j + 1
    BY NumberIs
<1>5. Num(x.n + (j + 1)).kind = "num" /\ Num(x.n + (j + 1)).n = x.n + (j + 1)
    BY NumberIs DEF Elements
<1>6. Trace[p + 2] = State(s ++ Num(x.n + (j + 1)), a, <<>>)
    BY <1>1, <1>2, <1>3, <1>4, NoneOn, RunAdd, Grows
<1>7. Trace[p + 3] = State(s ++ s[Len(s) - (x.n + (j + 1))], a, <<>>)
    BY <1>1, <1>2, <1>6, <1>5, NoneOn, RunPick, Grows
<1> QED BY <1>7

(* A disclosed preimage is that of the commitment.                         *)
LEMMA OpenedRuns ==
    ASSUME NEW p, NEW s \in Stacks, NEW c \in Elements, NEW x \in Elements, NEW a,
           Block(p, Opened),
           Trace[p] = State(s ++ c ++ x, a, <<>>)
    PROVE  IF c = Hashed(x, "preimage", "commitment")
           THEN Trace[p + 2] = State(s, a, <<>>)
           ELSE Rejected(p + 2)
<1>1. /\ p \in Nat \ {0} /\ Len(Script) \in Nat /\ p + 1 <= Len(Script)
      /\ Reads(p, "HASH160")
      /\ Reads(p + 1, "EQUALVERIFY")
  <2> DEFINE code == Opened
  <2>1. /\ Len(code) = 2
        /\ code[1] = Op("HASH160")
        /\ code[2] = Op("EQUALVERIFY")
      BY DEF Opened
  <2>2. Op("EQUALVERIFY").op = "EQUALVERIFY" /\ Op("HASH160").op = "HASH160"
      BY OpIs DEF Plain
  <2>7. Block(p, code)
      OBVIOUS
  <2> HIDE DEF code
  <2>3. /\ p \in Nat \ {0} /\ Len(Script) \in Nat /\ p + 1 <= Len(Script)
        /\ \A k \in 1 .. 2 : Script[p + k - 1] = code[k]
      BY <2>1, <2>7 DEF Block
  <2>9. /\ Script[p] = code[1]
        /\ Script[p + 1] = code[2]
      BY ONLY <2>3
  <2>5. /\ Script[p] = Op("HASH160")
        /\ Script[p + 1] = Op("EQUALVERIFY")
      BY ONLY <2>1, <2>9
  <2>8. p \in Nat \ {0} /\ Len(Script) \in Nat /\ p + 1 <= Len(Script)
      BY ONLY <2>3
  <2>6. /\ p \in 1 .. Len(Script)
        /\ p + 1 \in 1 .. Len(Script)
      BY ONLY <2>8
  <2> QED BY ONLY <2>2, <2>3, <2>5, <2>6 DEF Reads
<1> DEFINE Cond == c = Hashed(x, "preimage", "commitment")
<1> DEFINE Ends == Trace[p + 2] = State(s, a, <<>>)
<1>2. SUFFICES ASSUME Cond \/ ~Rejected(p + 2) PROVE Cond /\ Ends
    OBVIOUS
<1>3. Hashed(x, "preimage", "commitment") \in Elements
    BY HashedType DEF Kinds
<1>4. Trace[p + 1] = State(s ++ c ++ Hashed(x, "preimage", "commitment"), a, <<>>)
    BY <1>1, <1>3, NoneOn, RunHash, Grows
<1>5. (c = Hashed(x, "preimage", "commitment")) /\ Trace[p + 2] = State(s, a, <<>>)
  <2>1. IF c = Hashed(x, "preimage", "commitment")
        THEN Trace[p + 2] = State(s, a, <<>>) ELSE Rejected(p + 2)
      BY <1>1, <1>3, <1>4, NoneOn, RunEqual, Grows
  <2>2. CASE ~Rejected(p + 2)
    <3>1. p + 2 \in 1 .. Len(Script) + 1 /\ p + 2 \in p + 2 .. Len(Script) + 1
        BY <1>1
    <3>2. ~Rejected(p + 2)
        BY <1>1, <2>2, <3>1, RejectedStays
    <3> QED BY <2>1, <3>2
  <2>3. CASE Cond
    <3>1. c = Hashed(x, "preimage", "commitment")
        BY <2>3
    <3> QED BY <2>1, <3>1
  <2> QED BY <2>2, <2>3, <1>2
<1> QED BY <1>5, <1>5

(* The key on top verifies the fixed signature.                            *)
LEMMA FixedRuns ==
    ASSUME NEW p, NEW s \in Stacks, NEW x \in Elements, NEW a,
           Block(p, <<Push(Fixed), Op("OVER"), Op("CHECKSIGVERIFY")>>),
           Trace[p] = State(s ++ x, a, <<>>)
    PROVE  IF Verifies(Fixed, x, {})
           THEN Trace[p + 3] = State(s ++ x, a, <<>>)
           ELSE Rejected(p + 3)
<1>1. /\ p \in Nat \ {0} /\ Len(Script) \in Nat /\ p + 2 <= Len(Script)
      /\ Reads(p, "PUSH") /\ Script[p].arg = Fixed
      /\ Reads(p + 1, "OVER")
      /\ Reads(p + 2, "CHECKSIGVERIFY")
  <2> DEFINE code == <<Push(Fixed), Op("OVER"), Op("CHECKSIGVERIFY")>>
  <2>1. /\ Len(code) = 3
        /\ code[1] = Push(Fixed)
        /\ code[2] = Op("OVER")
        /\ code[3] = Op("CHECKSIGVERIFY")
      BY DEF Codes
  <2>2. Op("CHECKSIGVERIFY").op = "CHECKSIGVERIFY" /\ Op("OVER").op = "OVER"
      BY OpIs DEF Plain
  <2>7. Block(p, code)
      OBVIOUS
  <2> HIDE DEF code
  <2>3. /\ p \in Nat \ {0} /\ Len(Script) \in Nat /\ p + 2 <= Len(Script)
        /\ \A k \in 1 .. 3 : Script[p + k - 1] = code[k]
      BY <2>1, <2>7 DEF Block
  <2>4. Push(Fixed).op = "PUSH" /\ Push(Fixed).arg = Fixed
      BY PushNumIs, PushIs, Constants
  <2>9. /\ Script[p] = code[1]
        /\ Script[p + 1] = code[2]
        /\ Script[p + 2] = code[3]
      BY ONLY <2>3
  <2>5. /\ Script[p] = Push(Fixed)
        /\ Script[p + 1] = Op("OVER")
        /\ Script[p + 2] = Op("CHECKSIGVERIFY")
      BY ONLY <2>1, <2>9
  <2>8. p \in Nat \ {0} /\ Len(Script) \in Nat /\ p + 2 <= Len(Script)
      BY ONLY <2>3
  <2>6. /\ p \in 1 .. Len(Script)
        /\ p + 1 \in 1 .. Len(Script)
        /\ p + 2 \in 1 .. Len(Script)
      BY ONLY <2>8
  <2> QED BY ONLY <2>2, <2>3, <2>4, <2>5, <2>6 DEF Reads
<1> DEFINE Cond == Verifies(Fixed, x, {})
<1> DEFINE Ends == Trace[p + 3] = State(s ++ x, a, <<>>)
<1>2. SUFFICES ASSUME Cond \/ ~Rejected(p + 3) PROVE Cond /\ Ends
    OBVIOUS
<1>3. Fixed \in Elements
    BY Constants
<1>4. Trace[p + 1] = State(s ++ x ++ Fixed, a, <<>>)
    BY <1>1, <1>3, NoneOn, RunPush, Grows
<1>5. Trace[p + 2] = State(s ++ x ++ Fixed ++ x, a, <<>>)
    BY <1>1, <1>3, <1>4, NoneOn, RunOver, Grows
<1>6. (Verifies(Fixed, x, {})) /\ Trace[p + 3] = State(s ++ x, a, <<>>)
  <2>1. IF Verifies(Fixed, x, {})
        THEN Trace[p + 3] = State(s ++ x, a, <<>>) ELSE Rejected(p + 3)
      BY <1>1, <1>3, <1>5, NoneOn, RunCheckSigVerify, Grows
  <2>2. CASE ~Rejected(p + 3)
    <3>1. p + 3 \in 1 .. Len(Script) + 1 /\ p + 3 \in p + 3 .. Len(Script) + 1
        BY <1>1
    <3>2. ~Rejected(p + 3)
        BY <1>1, <2>2, <3>1, RejectedStays
    <3> QED BY <2>1, <3>2
  <2>3. CASE Cond
    <3>1. Verifies(Fixed, x, {})
        BY <2>3
    <3> QED BY <2>1, <3>1
  <2> QED BY <2>2, <2>3, <1>2
<1> QED BY <1>6, <1>6

(* Sizes are numbers.                                                      *)
LEMMA SizeIs ==
    ASSUME NEW e
    PROVE  SizeOf(e) \in Int /\ SignatureBytes \in Int
BY DEF SizeOf, SignatureBytes

(* The surrogate puzzle: a proof of the wanted size verifies under the key.*)
LEMMA SurrogateRuns ==
    ASSUME NEW p, NEW s \in Stacks, NEW y \in Elements, NEW x \in Elements, NEW a,
           Block(p, PuzzleCode("signature-size-surrogate")),
           Trace[p] = State(s ++ y ++ x, a, <<>>)
    PROVE  IF SizeOf(y) = SignatureBytes /\ Verifies(y, x, {})
           THEN Trace[p + 6] = State(s ++ x, a, <<>>)
           ELSE Rejected(p + 6)
<1>1. /\ p \in Nat \ {0} /\ Len(Script) \in Nat /\ p + 5 <= Len(Script)
      /\ Reads(p, "SWAP")
      /\ Reads(p + 1, "SIZE")
      /\ Reads(p + 2, "PUSH") /\ Script[p + 2].arg = Num(SignatureBytes)
      /\ Reads(p + 3, "EQUALVERIFY")
      /\ Reads(p + 4, "OVER")
      /\ Reads(p + 5, "CHECKSIGVERIFY")
  <2> DEFINE code == PuzzleCode("signature-size-surrogate")
  <2>1. /\ Len(code) = 6
        /\ code[1] = Op("SWAP")
        /\ code[2] = Op("SIZE")
        /\ code[3] = PushNum(SignatureBytes)
        /\ code[4] = Op("EQUALVERIFY")
        /\ code[5] = Op("OVER")
        /\ code[6] = Op("CHECKSIGVERIFY")
      BY DEF PuzzleCode
  <2>2. /\ Op("CHECKSIGVERIFY").op = "CHECKSIGVERIFY" /\ Op("EQUALVERIFY").op = "EQUALVERIFY"
           /\ Op("OVER").op = "OVER"
        /\ Op("SIZE").op = "SIZE" /\ Op("SWAP").op = "SWAP"
      BY OpIs DEF Plain
  <2>7. Block(p, code)
      OBVIOUS
  <2> HIDE DEF code
  <2>3. /\ p \in Nat \ {0} /\ Len(Script) \in Nat /\ p + 5 <= Len(Script)
        /\ \A k \in 1 .. 6 : Script[p + k - 1] = code[k]
      BY <2>1, <2>7 DEF Block
  <2>4. PushNum(SignatureBytes).op = "PUSH" /\ PushNum(SignatureBytes).arg = Num(SignatureBytes)
      BY PushNumIs, PushIs, SizeIs
  <2>9. /\ Script[p] = code[1]
        /\ Script[p + 1] = code[2]
        /\ Script[p + 2] = code[3]
        /\ Script[p + 3] = code[4]
        /\ Script[p + 4] = code[5]
        /\ Script[p + 5] = code[6]
      BY ONLY <2>3
  <2>5. /\ Script[p] = Op("SWAP")
        /\ Script[p + 1] = Op("SIZE")
        /\ Script[p + 2] = PushNum(SignatureBytes)
        /\ Script[p + 3] = Op("EQUALVERIFY")
        /\ Script[p + 4] = Op("OVER")
        /\ Script[p + 5] = Op("CHECKSIGVERIFY")
      BY ONLY <2>1, <2>9
  <2>8. p \in Nat \ {0} /\ Len(Script) \in Nat /\ p + 5 <= Len(Script)
      BY ONLY <2>3
  <2>6. /\ p \in 1 .. Len(Script)
        /\ p + 1 \in 1 .. Len(Script)
        /\ p + 2 \in 1 .. Len(Script)
        /\ p + 3 \in 1 .. Len(Script)
        /\ p + 4 \in 1 .. Len(Script)
        /\ p + 5 \in 1 .. Len(Script)
      BY ONLY <2>8
  <2> QED BY ONLY <2>2, <2>3, <2>4, <2>5, <2>6 DEF Reads
<1> DEFINE Cond == SizeOf(y) = SignatureBytes /\ Verifies(y, x, {})
<1> DEFINE Ends == Trace[p + 6] = State(s ++ x, a, <<>>)
<1>2. SUFFICES ASSUME Cond \/ ~Rejected(p + 6) PROVE Cond /\ Ends
    OBVIOUS
<1>3. Num(SizeOf(y)) \in Elements /\ Num(SignatureBytes) \in Elements
    BY NumberIs, SizeIs
<1>4. Num(SizeOf(y)) = Num(SignatureBytes) <=> SizeOf(y) = SignatureBytes
    BY NumberIs, SizeIs
<1>5. Trace[p + 1] = State(s ++ x ++ y, a, <<>>)
    BY <1>1, <1>3, NoneOn, RunSwap, Grows
<1>6. Trace[p + 2] = State(s ++ x ++ y ++ Num(SizeOf(y)), a, <<>>)
    BY <1>1, <1>3, <1>5, NoneOn, RunSize, Grows
<1>7. Trace[p + 3] = State(s ++ x ++ y ++ Num(SizeOf(y)) ++ Num(SignatureBytes), a, <<>>)
    BY <1>1, <1>3, <1>6, NoneOn, RunPush, Grows
<1>8. (Num(SizeOf(y)) = Num(SignatureBytes)) /\ Trace[p + 4] = State(s ++ x ++ y, a, <<>>)
  <2>1. IF Num(SizeOf(y)) = Num(SignatureBytes)
        THEN Trace[p + 4] = State(s ++ x ++ y, a, <<>>) ELSE Rejected(p + 4)
      BY <1>1, <1>3, <1>7, NoneOn, RunEqual, Grows
  <2>2. CASE ~Rejected(p + 6)
    <3>1. p + 4 \in 1 .. Len(Script) + 1 /\ p + 6 \in p + 4 .. Len(Script) + 1
        BY <1>1
    <3>2. ~Rejected(p + 4)
        BY <1>1, <2>2, <3>1, RejectedStays
    <3> QED BY <2>1, <3>2
  <2>3. CASE Cond
    <3>1. Num(SizeOf(y)) = Num(SignatureBytes)
        BY <2>3, <1>4
    <3> QED BY <2>1, <3>1
  <2> QED BY <2>2, <2>3, <1>2
<1>9. Trace[p + 5] = State(s ++ x ++ y ++ x, a, <<>>)
    BY <1>1, <1>3, <1>8, NoneOn, RunOver, Grows
<1>10. (Verifies(y, x, {})) /\ Trace[p + 6] = State(s ++ x, a, <<>>)
  <2>1. IF Verifies(y, x, {})
        THEN Trace[p + 6] = State(s ++ x, a, <<>>) ELSE Rejected(p + 6)
      BY <1>1, <1>3, <1>9, NoneOn, RunCheckSigVerify, Grows
  <2>2. CASE ~Rejected(p + 6)
    <3>1. p + 6 \in 1 .. Len(Script) + 1 /\ p + 6 \in p + 6 .. Len(Script) + 1
        BY <1>1
    <3>2. ~Rejected(p + 6)
        BY <1>1, <2>2, <3>1, RejectedStays
    <3> QED BY <2>1, <3>2
  <2>3. CASE Cond
    <3>1. Verifies(y, x, {})
        BY <2>3
    <3> QED BY <2>1, <3>1
  <2> QED BY <2>2, <2>3, <1>2
<1> QED BY <1>8, <1>4, <1>10, <1>10

(* The third of a stack is rolled up.                                      *)
LEMMA ThirdRolled ==
    ASSUME NEW s \in Stacks, NEW x \in Elements, NEW y \in Elements, NEW z \in Elements
    PROVE  /\ RemoveAt(s ++ x ++ y ++ z, Len(s ++ x ++ y ++ z) - 2) = s ++ y ++ z
           /\ (s ++ x ++ y ++ z)[Len(s ++ x ++ y ++ z) - 2] = x
           /\ 2 \in 0 .. Len(s ++ x ++ y ++ z) - 1
<1> DEFINE r == s ++ x ++ y ++ z
<1>1. Len(s) \in Nat /\ Len(r) = Len(s) + 3 /\ r[Len(s) + 3] = z
    BY PushedThree
<1>2. r[Len(s) + 2] = y
    BY PushedThree
<1>3. r[Len(s) + 1] = x
    BY PushedThree
<1>4. SubSeq(r, 1, Len(s)) = s
    BY PushedThree
<1>5. r \in Stacks
    BY PushedThree
<1> HIDE DEF r
<1>6. Len(r) - 2 = Len(s) + 1 /\ 2 \in 0 .. Len(r) - 1
    BY <1>1
<1>7. RemoveAt(r, Len(s) + 1) = SubSeq(r, 1, Len(s)) \o SubSeq(r, Len(s) + 2, Len(r))
  <2>1. (Len(s) + 1) - 1 = Len(s) /\ (Len(s) + 1) + 1 = Len(s) + 2
      BY <1>1
  <2> QED BY <2>1 DEF RemoveAt
<1>8. SubSeq(r, Len(s) + 2, Len(r)) = <<y, z>>
  <2>1. SubSeq(r, Len(s) + 2, Len(s) + 3) = [i \in 1 .. 2 |-> r[(Len(s) + 2) + i - 1]]
      BY <1>1
  <2>2. <<y, z>> = [i \in 1 .. 2 |-> IF i = 1 THEN y ELSE z]
      OBVIOUS
  <2>3. \A i \in 1 .. 2 : r[(Len(s) + 2) + i - 1] = IF i = 1 THEN y ELSE z
    <3>1. \A i \in 1 .. 2 : i = 1 \/ i = 2
        OBVIOUS
    <3>2. (Len(s) + 2) + 1 - 1 = Len(s) + 2 /\ (Len(s) + 2) + 2 - 1 = Len(s) + 3
        BY <1>1
    <3> QED BY <1>1, <1>2, <3>1, <3>2
  <2> QED BY <1>1, <2>1, <2>2, <2>3
<1>9. s \o <<y, z>> = s ++ y ++ z
    BY PushedTwice
<1> QED BY <1>3, <1>4, <1>6, <1>7, <1>8, <1>9 DEF r

(* The hash-to-der puzzle: the proof verifies the hash of the key.         *)
LEMMA HashRuns ==
    ASSUME NEW p, NEW s \in Stacks, NEW y \in Elements, NEW x \in Elements, NEW a,
           Block(p, PuzzleCode("hash-to-der")),
           Trace[p] = State(s ++ y ++ x, a, <<>>)
    PROVE  IF Verifies(Hashed(x, "key", "keyhash"), y, {})
           THEN Trace[p + 5] = State(s ++ x, a, <<>>)
           ELSE Rejected(p + 5)
<1>1. /\ p \in Nat \ {0} /\ Len(Script) \in Nat /\ p + 4 <= Len(Script)
      /\ Reads(p, "DUP")
      /\ Reads(p + 1, "RIPEMD160")
      /\ Reads(p + 2, "PUSH") /\ Script[p + 2].arg = Num(2)
      /\ Reads(p + 3, "ROLL") /\ Script[p + 3].name = NoName
      /\ Reads(p + 4, "CHECKSIGVERIFY")
  <2> DEFINE code == PuzzleCode("hash-to-der")
  <2>1. /\ Len(code) = 5
        /\ code[1] = Op("DUP")
        /\ code[2] = Op("RIPEMD160")
        /\ code[3] = PushNum(2)
        /\ code[4] = Op("ROLL")
        /\ code[5] = Op("CHECKSIGVERIFY")
      BY DEF PuzzleCode
  <2>2. /\ Op("CHECKSIGVERIFY").op = "CHECKSIGVERIFY" /\ Op("DUP").op = "DUP"
           /\ Op("RIPEMD160").op = "RIPEMD160"
        /\ Op("ROLL").op = "ROLL" /\ Op("ROLL").name = NoName
      BY OpIs DEF Plain
  <2>7. Block(p, code)
      OBVIOUS
  <2> HIDE DEF code
  <2>3. /\ p \in Nat \ {0} /\ Len(Script) \in Nat /\ p + 4 <= Len(Script)
        /\ \A k \in 1 .. 5 : Script[p + k - 1] = code[k]
      BY <2>1, <2>7 DEF Block
  <2>4. PushNum(2).op = "PUSH" /\ PushNum(2).arg = Num(2)
      BY PushNumIs, PushIs
  <2>9. /\ Script[p] = code[1]
        /\ Script[p + 1] = code[2]
        /\ Script[p + 2] = code[3]
        /\ Script[p + 3] = code[4]
        /\ Script[p + 4] = code[5]
      BY ONLY <2>3
  <2>5. /\ Script[p] = Op("DUP")
        /\ Script[p + 1] = Op("RIPEMD160")
        /\ Script[p + 2] = PushNum(2)
        /\ Script[p + 3] = Op("ROLL")
        /\ Script[p + 4] = Op("CHECKSIGVERIFY")
      BY ONLY <2>1, <2>9
  <2>8. p \in Nat \ {0} /\ Len(Script) \in Nat /\ p + 4 <= Len(Script)
      BY ONLY <2>3
  <2>6. /\ p \in 1 .. Len(Script)
        /\ p + 1 \in 1 .. Len(Script)
        /\ p + 2 \in 1 .. Len(Script)
        /\ p + 3 \in 1 .. Len(Script)
        /\ p + 4 \in 1 .. Len(Script)
      BY ONLY <2>8
  <2> QED BY ONLY <2>2, <2>3, <2>4, <2>5, <2>6 DEF Reads
<1> DEFINE Cond == Verifies(Hashed(x, "key", "keyhash"), y, {})
<1> DEFINE Ends == Trace[p + 5] = State(s ++ x, a, <<>>)
<1>2. SUFFICES ASSUME Cond \/ ~Rejected(p + 5) PROVE Cond /\ Ends
    OBVIOUS
<1>3. Hashed(x, "key", "keyhash") \in Elements /\ Num(2) \in Elements
    BY NumberIs, HashedType DEF Kinds
<1>4. Trace[p + 1] = State(s ++ y ++ x ++ x, a, <<>>)
    BY <1>1, <1>3, NoneOn, RunDup, Grows
<1>5. Trace[p + 2] = State(s ++ y ++ x ++ Hashed(x, "key", "keyhash"), a, <<>>)
    BY <1>1, <1>3, <1>4, NoneOn, RunRipemd, Grows
<1>6. Trace[p + 3] = State(s ++ y ++ x ++ Hashed(x, "key", "keyhash") ++ Num(2), a, <<>>)
    BY <1>1, <1>3, <1>5, NoneOn, RunPush, Grows
<1>7. Trace[p + 4] = State(s ++ x ++ Hashed(x, "key", "keyhash") ++ y, a, <<>>)
  <2> DEFINE h == Hashed(x, "key", "keyhash")
  <2> DEFINE r == s ++ y ++ x ++ h
  <2>1. r \in Stacks /\ Trace[p + 3] = State(r ++ Num(2), a, <<>>)
      BY <1>3, <1>6, Grows
  <2>2. RemoveAt(r, Len(r) - 2) = s ++ x ++ h /\ r[Len(r) - 2] = y /\ 2 \in 0 .. Len(r) - 1
    <3>1. h \in Elements
        BY <1>3
    <3> HIDE DEF h
    <3> QED BY <3>1, ThirdRolled
  <2>3. Num(2).kind = "num" /\ Num(2).n = 2
      BY NumberIs
  <2> DEFINE q == p + 3
  <2> DEFINE e == Num(2)
  <2> DEFINE none == <<>>
  <2>6. /\ Reads(q, "ROLL") /\ Script[q].name = NoName /\ r \in Stacks /\ e \in Elements
        /\ On(none) /\ Trace[q] = State(r ++ e, a, none) /\ e.kind = "num" /\ e.n = 2
        /\ e.n \in 0 .. Len(r) - 1
      BY <1>1, <1>3, <2>1, <2>2, <2>3, NoneOn
  <2> HIDE DEF r, q, e, none
  <2>7. Trace[q + 1] = State(RemoveAt(r, Len(r) - e.n) ++ r[Len(r) - e.n], a, none)
      BY ONLY <2>6, RunRoll
  <2>4. Trace[(p + 3) + 1] = State(RemoveAt(r, Len(r) - 2) ++ r[Len(r) - 2], a, <<>>)
      BY <2>6, <2>7 DEF q, none
  <2>5. (p + 3) + 1 = p + 4
      BY <1>1
  <2> QED BY <2>2, <2>4, <2>5
<1>8. (Verifies(Hashed(x, "key", "keyhash"), y, {})) /\ Trace[p + 5] = State(s ++ x, a, <<>>)
  <2>1. IF Verifies(Hashed(x, "key", "keyhash"), y, {})
        THEN Trace[p + 5] = State(s ++ x, a, <<>>) ELSE Rejected(p + 5)
    <3> DEFINE h == Hashed(x, "key", "keyhash")
    <3>1. /\ Reads(p + 4, "CHECKSIGVERIFY") /\ s ++ x \in Stacks /\ h \in Elements
          /\ y \in Elements /\ (p + 4) + 1 = p + 5
          /\ Trace[p + 4] = State(s ++ x ++ h ++ y, a, <<>>)
        BY <1>1, <1>3, <1>7, Grows
    <3> HIDE DEF h
    <3>2. IF Verifies(h, y, {}) THEN Trace[(p + 4) + 1] = State(s ++ x, a, <<>>)
                                ELSE Rejected((p + 4) + 1)
        BY ONLY <3>1, NoneOn, RunCheckSigVerify
    <3> QED BY ONLY <3>1, <3>2 DEF h
  <2>2. CASE ~Rejected(p + 5)
    <3>1. p + 5 \in 1 .. Len(Script) + 1 /\ p + 5 \in p + 5 .. Len(Script) + 1
        BY <1>1
    <3>2. ~Rejected(p + 5)
        BY <1>1, <2>2, <3>1, RejectedStays
    <3> QED BY <2>1, <3>2
  <2>3. CASE Cond
    <3>1. Verifies(Hashed(x, "key", "keyhash"), y, {})
        BY <2>3
    <3> QED BY <2>1, <3>1
  <2> QED BY <2>2, <2>3, <1>2
<1> QED BY <1>8, <1>8

-----------------------------------------------------------------------------
(* f[i] is the first i of the sequences seqs, one after another.           *)
Flattens(seqs, n, f) ==
    f = [i \in 1 .. n |-> IF i = 1 THEN seqs[i] ELSE f[i - 1] \o seqs[i]]

(* FlattenSeq is the last of those.                                        *)
LEMMA FlattenIs ==
    ASSUME NEW seqs, Len(seqs) # 0
    PROVE  FlattenSeq(seqs) = (CHOOSE f : Flattens(seqs, Len(seqs), f))[Len(seqs)]
BY DEF FlattenSeq, Flattens

(* There is such a function, or a least n for which there is none.         *)
LEMMA FlattenExists ==
    ASSUME NEW seqs, NEW n \in Nat
    PROVE  \E f : Flattens(seqs, n, f)
<1> DEFINE Bad == {k \in Nat : ~\E f : Flattens(seqs, k, f)}
<1>1. CASE Bad # {}
  <2>1. PICK m \in Bad : \A k \in Bad : m <= k
      BY <1>1, LeastMember
  <2>2. m # 0
    <3>1. Flattens(seqs, 0, [i \in 1 .. 0 |-> i])
        BY DEF Flattens
    <3> QED BY <2>1, <3>1
  <2>3. PICK f : Flattens(seqs, m - 1, f)
      BY <2>1, <2>2
  <2>4. \A i \in 1 .. m - 1 : f[i] = IF i = 1 THEN seqs[i] ELSE f[i - 1] \o seqs[i]
      BY <2>3 DEF Flattens
  <2> DEFINE g == [i \in 1 .. m |-> IF i = 1 THEN seqs[i] ELSE f[i - 1] \o seqs[i]]
  <2>5. ASSUME NEW i \in 1 .. m - 1 PROVE g[i] = f[i]
      BY <2>4, <2>5
  <2>7. m \in Nat /\ m - 1 \in Nat
      BY <2>1, <2>2
  <2>6. g = [i \in 1 .. m |-> IF i = 1 THEN seqs[i] ELSE g[i - 1] \o seqs[i]]
    <3>1. ASSUME NEW i \in 1 .. m
          PROVE (IF i = 1 THEN seqs[i] ELSE f[i - 1] \o seqs[i])
                = (IF i = 1 THEN seqs[i] ELSE g[i - 1] \o seqs[i])
      <4>1. CASE i = 1
          BY <4>1
      <4>2. CASE i # 1
        <5>1. i - 1 \in 1 .. m - 1
            BY <4>2, <2>7, <3>1
        <5>2. g[i - 1] = f[i - 1]
            BY <5>1, <2>5
        <5> QED BY <4>2, <5>2
      <4> QED BY <4>1, <4>2
    <3> QED BY <3>1
  <2> HIDE DEF g
  <2>8. Flattens(seqs, m, g)
      BY <2>6 DEF Flattens
  <2> QED BY <2>1, <2>8
<1> QED BY <1>1

(* On their common part two lists of sequences are flattened alike.        *)
LEMMA FlattenAgree ==
    ASSUME NEW s, NEW t, NEW f, NEW g, NEW n \in Nat, NEW m \in Nat, n <= m,
           Flattens(s, n, f), Flattens(t, m, g), \A i \in 1 .. n : s[i] = t[i]
    PROVE  \A i \in 1 .. n : f[i] = g[i]
<1>1. \A i \in 1 .. n : f[i] = IF i = 1 THEN s[i] ELSE f[i - 1] \o s[i]
    BY DEF Flattens
<1>2. \A i \in 1 .. m : g[i] = IF i = 1 THEN t[i] ELSE g[i - 1] \o t[i]
    BY DEF Flattens
<1> DEFINE Bad == {i \in 1 .. n : f[i] # g[i]}
<1>3. CASE Bad # {}
  <2>0. Bad \in SUBSET Nat
      OBVIOUS
  <2>1. PICK b \in Bad : \A k \in Bad : b <= k
      BY <1>3, <2>0, LeastMember
  <2>2. b \in 1 .. n /\ b \in 1 .. m /\ s[b] = t[b]
      BY <2>1
  <2>3. b # 1
      BY <1>1, <1>2, <2>1, <2>2
  <2>4. b - 1 \in 1 .. n /\ b - 1 \notin Bad
      BY <2>1, <2>2, <2>3
  <2>5. f[b - 1] = g[b - 1]
      BY <2>4
  <2>6. f[b] = f[b - 1] \o s[b] /\ g[b] = g[b - 1] \o t[b]
      BY <1>1, <1>2, <2>2, <2>3
  <2> QED BY <2>1, <2>2, <2>5, <2>6
<1> QED BY <1>3

(* One more sequence goes after what the others give.                      *)
LEMMA FlattenNext ==
    ASSUME NEW s, NEW t, NEW n \in Nat, NEW m \in Nat, n # 0, m = n + 1,
           Len(s) = n, Len(t) = m, \A i \in 1 .. n : s[i] = t[i]
    PROVE  FlattenSeq(t) = FlattenSeq(s) \o t[m]
<1>1. n <= m /\ n \in 1 .. n /\ m \in 1 .. m /\ m # 1 /\ m # 0 /\ m - 1 = n
    OBVIOUS
<1>2. PICK f : Flattens(s, n, f) /\ FlattenSeq(s) = f[n]
  <2> DEFINE h == CHOOSE x : Flattens(s, Len(s), x)
  <2>1. Flattens(s, Len(s), h) /\ Len(s) # 0
      BY FlattenExists
  <2>2. FlattenSeq(s) = h[Len(s)]
      BY <2>1, FlattenIs
  <2> QED BY <2>1, <2>2
<1>3. PICK g : Flattens(t, m, g) /\ FlattenSeq(t) = g[m]
  <2> DEFINE h == CHOOSE x : Flattens(t, Len(t), x)
  <2>1. Flattens(t, Len(t), h) /\ Len(t) # 0
      BY <1>1, FlattenExists
  <2>2. FlattenSeq(t) = h[Len(t)]
      BY <2>1, FlattenIs
  <2> QED BY <2>1, <2>2
<1>4. \A i \in 1 .. n : f[i] = g[i]
    BY <1>1, <1>2, <1>3, FlattenAgree
<1>5. g[m] = g[n] \o t[m]
  <2>1. \A i \in 1 .. m : g[i] = IF i = 1 THEN t[i] ELSE g[i - 1] \o t[i]
      BY <1>3 DEF Flattens
  <2> QED BY <1>1, <2>1
<1> QED BY <1>1, <1>2, <1>3, <1>4, <1>5

(* A single sequence is flattened to itself.                               *)
LEMMA FlattenOne ==
    ASSUME NEW s, Len(s) = 1
    PROVE  FlattenSeq(s) = s[1]
<1> DEFINE f == CHOOSE x : Flattens(s, Len(s), x)
<1>0. Len(s) \in Nat /\ Len(s) # 0
    OBVIOUS
<1>1. Flattens(s, Len(s), f)
    BY <1>0, FlattenExists
<1>2. FlattenSeq(s) = f[Len(s)]
    BY <1>0, FlattenIs
<1> HIDE DEF f
<1>3. \A i \in 1 .. Len(s) : f[i] = IF i = 1 THEN s[i] ELSE f[i - 1] \o s[i]
    BY <1>1 DEF Flattens
<1> QED BY <1>2, <1>3

(* What is flattened is as its parts are.                                  *)
LEMMA FlattenType ==
    ASSUME NEW S, NEW s \in Seq(Seq(S))
    PROVE  FlattenSeq(s) \in Seq(S)
<1>1. CASE Len(s) = 0
  <2>1. s = <<>>
      BY <1>1, EmptySeq
  <2>2. FlattenSeq(s) = <<>>
      BY <1>1, <2>1 DEF FlattenSeq
  <2> QED BY <2>2, EmptySeq
<1>2. CASE Len(s) # 0
  <2> DEFINE f == CHOOSE x : Flattens(s, Len(s), x)
  <2>0. Len(s) \in Nat /\ Len(s) # 0
      BY <1>2
  <2>1. Flattens(s, Len(s), f)
      BY <2>0, FlattenExists
  <2>2. FlattenSeq(s) = f[Len(s)]
      BY <2>0, FlattenIs
  <2> HIDE DEF f
  <2>3. \A i \in 1 .. Len(s) : f[i] = IF i = 1 THEN s[i] ELSE f[i - 1] \o s[i]
      BY <2>1 DEF Flattens
  <2> DEFINE Bad == {i \in 1 .. Len(s) : f[i] \notin Seq(S)}
  <2>4. CASE Bad # {}
    <3>0. Bad \in SUBSET Nat
        OBVIOUS
    <3>1. PICK m \in Bad : \A k \in Bad : m <= k
        BY <2>4, <3>0, LeastMember
    <3>2. s[m] \in Seq(S)
        BY <3>1, ElementOfSeq
    <3>3. m # 1
        BY <2>3, <3>1, <3>2
    <3>4. m - 1 \in 1 .. Len(s) /\ m - 1 \notin Bad
        BY <3>1, <3>3
    <3>5. f[m - 1] \in Seq(S)
        BY <3>4
    <3>6. f[m] = f[m - 1] \o s[m]
        BY <2>3, <3>1, <3>3
    <3>7. f[m] \in Seq(S)
        BY <3>2, <3>5, <3>6, ConcatProperties
    <3> QED BY <3>1, <3>7
  <2>5. Len(s) \in 1 .. Len(s)
      BY <2>0
  <2> QED BY <2>2, <2>4, <2>5
<1> QED BY <1>1, <1>2

(* None are flattened to none.                                             *)
LEMMA FlattenNone == FlattenSeq(<<>>) = <<>>
<1>1. Len(<<>>) = 0
    OBVIOUS
<1> QED BY <1>1 DEF FlattenSeq

(* One more goes behind the others.                                        *)
LEMMA FlattenGrows ==
    ASSUME NEW S, NEW s \in Seq(Seq(S)), NEW t \in Seq(Seq(S)),
           Len(t) = Len(s) + 1, \A i \in 1 .. Len(s) : s[i] = t[i]
    PROVE  FlattenSeq(t) = FlattenSeq(s) \o t[Len(t)]
<1>1. CASE Len(s) = 0
  <2>1. s = <<>> /\ Len(t) = 1
      BY <1>1, EmptySeq
  <2>2. FlattenSeq(s) = <<>>
      BY <2>1, FlattenNone
  <2>3. FlattenSeq(t) = t[1]
      BY <2>1, FlattenOne
  <2>4. t[1] \in Seq(S)
      BY <2>1, ElementOfSeq
  <2> QED BY <2>1, <2>2, <2>3, <2>4, ConcatEmptySeq
<1>2. CASE Len(s) # 0
  <2>1. PICK n \in Nat, m \in Nat : n = Len(s) /\ m = Len(t) /\ m = n + 1 /\ n # 0
      BY <1>2
  <2>2. FlattenSeq(t) = FlattenSeq(s) \o t[m]
      BY <2>1, FlattenNext
  <2> QED BY <2>1, <2>2
<1> QED BY <1>1, <1>2

(* The first k of the sequences, one after another.                        *)
Joined(s, k) == FlattenSeq(SubSeq(s, 1, k))

(* Joining all the parts of a sequence flattens it.                        *)
LEMMA JoinedIs ==
    ASSUME NEW S, NEW s \in Seq(Seq(S))
    PROVE  /\ Joined(s, 0) = <<>> /\ Joined(s, Len(s)) = FlattenSeq(s)
           /\ \A k \in 0 .. Len(s) : Joined(s, k) \in Seq(S)
           /\ \A k \in 1 .. Len(s) : Joined(s, k) = Joined(s, k - 1) \o s[k] /\ s[k] \in Seq(S)
<1>0. Len(s) \in Nat
    BY LenProperties
<1>1. ASSUME NEW k \in 0 .. Len(s)
      PROVE  /\ SubSeq(s, 1, k) \in Seq(Seq(S)) /\ Len(SubSeq(s, 1, k)) = k
             /\ \A i \in 1 .. k : SubSeq(s, 1, k)[i] = s[i]
  <2>1. \A i \in 1 .. k : s[i] \in Seq(S)
      BY <1>0, ElementOfSeq
  <2>2. 1 \in 1 .. Len(s) + 1 /\ k \in 1 - 1 .. Len(s) /\ k - 1 + 1 = k
      BY <1>0
  <2> QED BY <1>0, <2>1, <2>2, SubSeqProperties
<1>2. Joined(s, 0) = <<>>
  <2>1. SubSeq(s, 1, 0) = <<>>
      BY <1>0, <1>1, EmptySeq
  <2> QED BY <2>1, FlattenNone DEF Joined
<1>3. Joined(s, Len(s)) = FlattenSeq(s)
  <2>1. Len(s) \in 0 .. Len(s)
      BY <1>0
  <2>2. SubSeq(s, 1, Len(s)) = s
      BY <1>1, <2>1, SeqEqual
  <2> QED BY <2>2 DEF Joined
<1>4. \A k \in 0 .. Len(s) : Joined(s, k) \in Seq(S)
    BY <1>1, FlattenType DEF Joined
<1>5. ASSUME NEW k \in 1 .. Len(s)
      PROVE  Joined(s, k) = Joined(s, k - 1) \o s[k] /\ s[k] \in Seq(S)
  <2> DEFINE u == SubSeq(s, 1, k - 1)
  <2> DEFINE v == SubSeq(s, 1, k)
  <2>1. k - 1 \in 0 .. Len(s) /\ k \in 0 .. Len(s) /\ (k - 1) + 1 = k /\ k \in 1 .. k
      BY <1>0
  <2>2. /\ u \in Seq(Seq(S)) /\ Len(u) = k - 1 /\ \A i \in 1 .. k - 1 : u[i] = s[i]
        /\ v \in Seq(Seq(S)) /\ Len(v) = k /\ \A i \in 1 .. k : v[i] = s[i]
      BY <1>1, <2>1
  <2> HIDE DEF u, v
  <2>3. \A i \in 1 .. Len(u) : u[i] = v[i]
    <3>1. \A i \in 1 .. k - 1 : i \in 1 .. k
        BY <2>1
    <3> QED BY <2>2, <3>1
  <2>4. FlattenSeq(v) = FlattenSeq(u) \o v[Len(v)]
      BY <2>1, <2>2, <2>3, FlattenGrows
  <2>5. v[Len(v)] = s[k]
      BY <2>1, <2>2
  <2>6. s[k] \in Seq(S)
      BY ElementOfSeq
  <2> QED BY <2>4, <2>5, <2>6 DEF Joined, u, v
<1> QED BY <1>2, <1>3, <1>4, <1>5

(* Pairs one after another.                                                *)
LEMMA PairsJoined ==
    ASSUME NEW S, NEW s \in Seq(Seq(S)), \A i \in 1 .. Len(s) : Len(s[i]) = 2
    PROVE  /\ FlattenSeq(s) \in Seq(S) /\ Len(FlattenSeq(s)) = 2 * Len(s)
           /\ \A i \in 1 .. Len(s) : /\ FlattenSeq(s)[2 * i - 1] = s[i][1]
                                     /\ FlattenSeq(s)[2 * i] = s[i][2]
<1> DEFINE Good(k) == /\ Len(Joined(s, k)) = 2 * k
                      /\ \A i \in 1 .. k : /\ Joined(s, k)[2 * i - 1] = s[i][1]
                                           /\ Joined(s, k)[2 * i] = s[i][2]
<1> DEFINE Bad == {k \in 0 .. Len(s) : ~Good(k)}
<1>0. Len(s) \in Nat
    BY LenProperties
<1>1. CASE Bad # {}
  <2>0. Bad \in SUBSET Nat
      BY <1>0
  <2>1. PICK m \in Bad : \A k \in Bad : m <= k
      BY <1>1, <2>0, LeastMember
  <2>2. m \in 0 .. Len(s) /\ ~Good(m)
      BY <2>1
  <2>3. m # 0
    <3>1. Good(0)
      <4>1. Joined(s, 0) = <<>>
          BY JoinedIs
      <4> QED BY <4>1
    <3> QED BY <2>2, <3>1
  <2>4. m - 1 \in 0 .. Len(s) /\ m \in 1 .. Len(s) /\ m - 1 \notin Bad
      BY <1>0, <2>1, <2>2, <2>3
  <2>5. Good(m - 1)
      BY <2>4
  <2> DEFINE u == Joined(s, m - 1)
  <2> DEFINE v == Joined(s, m)
  <2>6. v = u \o s[m] /\ u \in Seq(S) /\ s[m] \in Seq(S)
      BY <2>4, JoinedIs
  <2>7. Len(u) = 2 * (m - 1) /\ Len(s[m]) = 2
      BY <2>4, <2>5
  <2>8. \A i \in 1 .. m - 1 : u[2 * i - 1] = s[i][1] /\ u[2 * i] = s[i][2]
      BY <2>5
  <2> HIDE DEF u, v
  <2>9. /\ Len(v) = 2 * m
        /\ \A i \in 1 .. 2 * m : v[i] = IF i <= 2 * (m - 1) THEN u[i] ELSE s[m][i - 2 * (m - 1)]
    <3>1. /\ Len(v) = Len(u) + Len(s[m])
          /\ \A i \in 1 .. Len(u) + Len(s[m]) : v[i] = IF i <= Len(u) THEN u[i]
             ELSE s[m][i - Len(u)]
        BY <2>6, ConcatProperties
    <3>2. Len(u) + Len(s[m]) = 2 * m
        BY <2>4, <2>7
    <3> QED BY <2>7, <3>1, <3>2
  <2>10. ASSUME NEW i \in 1 .. m
         PROVE  v[2 * i - 1] = s[i][1] /\ v[2 * i] = s[i][2]
    <3>1. CASE i = m
      <4>1. /\ 2 * m - 1 \in 1 .. 2 * m /\ 2 * m \in 1 .. 2 * m
            /\ ~(2 * m - 1 <= 2 * (m - 1)) /\ ~(2 * m <= 2 * (m - 1))
            /\ (2 * m - 1) - 2 * (m - 1) = 1 /\ 2 * m - 2 * (m - 1) = 2
          BY <2>4
      <4> QED BY <2>9, <3>1, <4>1
    <3>2. CASE i # m
      <4>1. /\ i \in 1 .. m - 1 /\ 2 * i - 1 \in 1 .. 2 * m /\ 2 * i \in 1 .. 2 * m
            /\ 2 * i - 1 <= 2 * (m - 1) /\ 2 * i <= 2 * (m - 1)
        <5>1. i \in Nat /\ m \in Nat /\ 1 <= i /\ i <= m - 1
            BY <1>0, <2>2, <3>2
        <5> QED BY ONLY <5>1
      <4>2. v[2 * i - 1] = u[2 * i - 1] /\ v[2 * i] = u[2 * i]
          BY ONLY <2>9, <4>1
      <4>3. u[2 * i - 1] = s[i][1] /\ u[2 * i] = s[i][2]
          BY ONLY <2>8, <4>1
      <4> QED BY ONLY <4>2, <4>3
    <3> QED BY <3>1, <3>2
  <2>11. Good(m)
      BY <2>9, <2>10 DEF v
  <2> QED BY <2>2, <2>11
<1>2. CASE Bad = {}
  <2>1. Len(s) \in 0 .. Len(s)
      BY <1>0
  <2>2. Len(s) \notin Bad
      BY <1>2
  <2>3. Good(Len(s))
      BY <2>1, <2>2
  <2> QED BY <1>0, <2>3, JoinedIs, FlattenType
<1> QED BY <1>1, <1>2

(* Code written in parts stands part by part.                              *)
LEMMA JoinedBlocks ==
    ASSUME NEW p, NEW s \in Seq(Codes), Block(p, FlattenSeq(s))
    PROVE  /\ Len(Joined(s, 0)) = 0
           /\ \A k \in 1 .. Len(s) :
                 /\ Block(p + Len(Joined(s, k - 1)), s[k])
                 /\ Len(Joined(s, k)) = Len(Joined(s, k - 1)) + Len(s[k])
                 /\ Len(Joined(s, k - 1)) \in Nat
<1> DEFINE Bad == {j \in Nat : j <= Len(s) /\ ~Block(p, Joined(s, Len(s) - j))}
<1>0. Len(s) \in Nat /\ s \in Seq(Seq(Instructions))
    BY LenProperties DEF Codes
<1>1. CASE Bad # {}
  <2>1. PICK m \in Bad : \A k \in Bad : m <= k
      BY <1>1, LeastMember
  <2>2. m \in Nat /\ m <= Len(s) /\ ~Block(p, Joined(s, Len(s) - m))
      BY <2>1
  <2>3. m # 0
    <3>1. Joined(s, Len(s) - 0) = FlattenSeq(s)
      <4>1. Len(s) - 0 = Len(s)
          BY <1>0
      <4> QED BY <1>0, <4>1, JoinedIs
    <3> QED BY <2>2, <3>1
  <2>4. m - 1 \in Nat /\ m - 1 <= Len(s) /\ m - 1 \notin Bad
    <3>1. m - 1 \in Nat /\ m - 1 <= Len(s) /\ ~(m <= m - 1)
        BY <1>0, <2>2, <2>3
    <3> HIDE DEF Bad
    <3> QED BY <2>1, <3>1
  <2>5. Block(p, Joined(s, Len(s) - (m - 1)))
      BY <2>4
  <2> DEFINE k == Len(s) - (m - 1)
  <2>6. k \in 1 .. Len(s) /\ k - 1 = Len(s) - m /\ k - 1 \in 0 .. Len(s)
      BY <1>0, <2>2, <2>3
  <2>7. Block(p, Joined(s, k))
      BY <2>5
  <2> HIDE DEF k
  <2>8. Joined(s, k) = Joined(s, k - 1) \o s[k] /\ s[k] \in Codes /\ Joined(s, k - 1) \in Codes
      BY <1>0, <2>6, JoinedIs DEF Codes
  <2>9. Block(p, Joined(s, k - 1))
      BY <2>7, <2>8, BlockSplits
  <2> QED BY <2>2, <2>6, <2>9
<1>2. CASE Bad = {}
  <2>1. ASSUME NEW k \in 0 .. Len(s)
        PROVE  Block(p, Joined(s, k))
    <3>1. Len(s) - k \in Nat /\ Len(s) - k <= Len(s) /\ Len(s) - (Len(s) - k) = k
        BY <1>0
    <3>2. Len(s) - k \notin Bad
        BY <1>2
    <3> QED BY <3>1, <3>2
  <2>2. Len(Joined(s, 0)) = 0
    <3>1. Joined(s, 0) = <<>>
        BY <1>0, JoinedIs
    <3> QED BY <3>1
  <2>3. ASSUME NEW k \in 1 .. Len(s)
        PROVE  /\ Block(p + Len(Joined(s, k - 1)), s[k])
               /\ Len(Joined(s, k)) = Len(Joined(s, k - 1)) + Len(s[k])
               /\ Len(Joined(s, k - 1)) \in Nat
    <3>1. k - 1 \in 0 .. Len(s) /\ k \in 0 .. Len(s)
        BY <1>0
    <3>2. Joined(s, k) = Joined(s, k - 1) \o s[k] /\ s[k] \in Codes /\ Joined(s, k - 1) \in Codes
        BY <1>0, <3>1, JoinedIs DEF Codes
    <3> DEFINE c == Joined(s, k - 1)
    <3> DEFINE d == s[k]
    <3>3. c \in Codes /\ d \in Codes /\ Block(p, c \o d) /\ Joined(s, k) = c \o d
        BY <2>1, <3>1, <3>2
    <3> HIDE DEF c, d
    <3>4. Block(p + Len(c), d) /\ Len(c \o d) = Len(c) + Len(d) /\ Len(c) \in Nat
        BY <3>3, BlockSplits
    <3> QED BY <3>3, <3>4 DEF c, d
  <2> QED BY <2>2, <2>3
<1> QED BY <1>1, <1>2

(* An entry of joined sequences.                                           *)
LEMMA JoinEntries ==
    ASSUME NEW S, NEW u \in Seq(S), NEW v \in Seq(S)
    PROVE  /\ u \o v \in Seq(S) /\ Len(u \o v) = Len(u) + Len(v)
           /\ Len(u) \in Nat /\ Len(v) \in Nat
           /\ \A i \in 1 .. Len(u) : (u \o v)[i] = u[i]
           /\ \A i \in 1 .. Len(v) : (u \o v)[Len(u) + i] = v[i]
<1>1. /\ u \o v \in Seq(S) /\ Len(u \o v) = Len(u) + Len(v) /\ Len(u) \in Nat /\ Len(v) \in Nat
      /\ \A i \in 1 .. Len(u) + Len(v) : (u \o v)[i] = IF i <= Len(u) THEN u[i] ELSE v[i - Len(u)]
    BY ConcatProperties, LenProperties
<1>2. ASSUME NEW i \in 1 .. Len(u) PROVE (u \o v)[i] = u[i]
  <2>1. i \in 1 .. Len(u) + Len(v) /\ i <= Len(u)
      BY <1>1
  <2> QED BY <1>1, <2>1
<1>3. ASSUME NEW i \in 1 .. Len(v) PROVE (u \o v)[Len(u) + i] = v[i]
  <2>1. Len(u) + i \in 1 .. Len(u) + Len(v) /\ ~(Len(u) + i <= Len(u)) /\ (Len(u) + i) - Len(u) = i
      BY <1>1
  <2> QED BY <1>1, <2>1
<1> QED BY <1>1, <1>2, <1>3

(* Names of different kinds or numbers are different names.                *)
LEMMA NameIs ==
    ASSUME NEW k \in NameKinds, NEW i \in Int
    PROVE  <<k, i>> \in Named /\ <<k, i>>[1] = k /\ <<k, i>>[2] = i
BY DEF Named

(* The names of a witness, place by place.                                 *)
LEMMA NamesAre ==
    ASSUME NEW t \in Nat
    PROVE  /\ Names(t) \in Seq(Named) /\ Len(Names(t)) = 3 * t + 4
           /\ Names(t)[1] = <<"digest_proof", 0>> /\ Names(t)[2] = <<"digest_key", 0>>
           /\ \A i \in 1 .. t : /\ Names(t)[2 + i] = <<"pub", t - i>>
                                /\ Names(t)[1 + t + 2 * i] = <<"pre", t - i>>
                                /\ Names(t)[2 + t + 2 * i] = <<"index", t - i>>
           /\ Names(t)[3 * t + 3] = <<"pin_proof", 0>> /\ Names(t)[3 * t + 4] = <<"pin_key", 0>>
<1> DEFINE A == <<<<"digest_proof", 0>>, <<"digest_key", 0>>>>
<1> DEFINE B == [i \in 1 .. t |-> <<"pub", t - i>>]
<1> DEFINE F == [i \in 1 .. t |-> <<<<"pre", t - i>>, <<"index", t - i>>>>]
<1> DEFINE C == FlattenSeq(F)
<1> DEFINE D == <<<<"pin_proof", 0>>, <<"pin_key", 0>>>>
<1>0. /\ "digest_proof" \in NameKinds /\ "digest_key" \in NameKinds /\ "pub" \in NameKinds
      /\ "pre" \in NameKinds /\ "index" \in NameKinds /\ "pin_proof" \in NameKinds
      /\ "pin_key" \in NameKinds /\ 0 \in Int /\ \A i \in 1 .. t : t - i \in Int
    BY DEF NameKinds
<1>1. /\ A \in Seq(Named) /\ Len(A) = 2 /\ A[1] = <<"digest_proof", 0>>
         /\ A[2] = <<"digest_key", 0>>
      /\ D \in Seq(Named) /\ Len(D) = 2 /\ D[1] = <<"pin_proof", 0>> /\ D[2] = <<"pin_key", 0>>
  <2>1. /\ <<"digest_proof", 0>> \in Named /\ <<"digest_key", 0>> \in Named
        /\ <<"pin_proof", 0>> \in Named /\ <<"pin_key", 0>> \in Named
      BY <1>0, NameIs
  <2> QED BY <2>1
<1>2. /\ B \in Seq(Named) /\ Len(B) = t /\ \A i \in 1 .. t : B[i] = <<"pub", t - i>>
  <2>1. \A i \in 1 .. t : <<"pub", t - i>> \in Named
      BY <1>0, NameIs
  <2> QED BY <2>1
<1>3. /\ C \in Seq(Named) /\ Len(C) = 2 * t
      /\ \A i \in 1 .. t : C[2 * i - 1] = <<"pre", t - i>> /\ C[2 * i] = <<"index", t - i>>
  <2>1. \A i \in 1 .. t : <<"pre", t - i>> \in Named /\ <<"index", t - i>> \in Named
      BY <1>0, NameIs
  <2> DEFINE pair(i) == <<<<"pre", t - i>>, <<"index", t - i>>>>
  <2>3. \A i \in 1 .. t : /\ pair(i) \in Seq(Named) /\ Len(pair(i)) = 2
                          /\ pair(i)[1] = <<"pre", t - i>> /\ pair(i)[2] = <<"index", t - i>>
      BY <2>1
  <2>4. F = [i \in 1 .. t |-> pair(i)]
      OBVIOUS
  <2> HIDE DEF pair, F
  <2>2. /\ F \in Seq(Seq(Named)) /\ Len(F) = t
        /\ \A i \in 1 .. t : F[i][1] = <<"pre", t - i>> /\ F[i][2] = <<"index", t - i>>
           /\ Len(F[i]) = 2
      BY <2>3, <2>4
  <2> HIDE DEF F
  <2> QED BY <2>2, PairsJoined
<1>4. Names(t) = ((A \o B) \o C) \o D
    BY DEF Names
<1> HIDE DEF A, B, C, D, F
<1> DEFINE AB == A \o B
<1>5. /\ AB \in Seq(Named) /\ Len(AB) = 2 + t
      /\ AB[1] = A[1] /\ AB[2] = A[2] /\ \A i \in 1 .. t : AB[2 + i] = B[i]
  <2>0. A \in Seq(Named) /\ B \in Seq(Named)
      BY <1>1, <1>2
  <2>1. /\ AB \in Seq(Named) /\ Len(AB) = Len(A) + Len(B)
        /\ \A i \in 1 .. Len(A) : AB[i] = A[i]
        /\ \A i \in 1 .. Len(B) : AB[Len(A) + i] = B[i]
      BY ONLY <2>0, JoinEntries
  <2> HIDE DEF AB
  <2>2. 1 \in 1 .. 2 /\ 2 \in 1 .. 2
      OBVIOUS
  <2> QED BY <1>1, <1>2, <2>1, <2>2
<1> HIDE DEF AB
<1> DEFINE ABC == AB \o C
<1>6. /\ ABC \in Seq(Named) /\ Len(ABC) = 2 + t + 2 * t
      /\ \A i \in 1 .. 2 + t : ABC[i] = AB[i]
      /\ \A i \in 1 .. 2 * t : ABC[2 + t + i] = C[i]
  <2>0. AB \in Seq(Named) /\ C \in Seq(Named)
      BY <1>3, <1>5
  <2>1. /\ ABC \in Seq(Named) /\ Len(ABC) = Len(AB) + Len(C)
        /\ \A i \in 1 .. Len(AB) : ABC[i] = AB[i]
        /\ \A i \in 1 .. Len(C) : ABC[Len(AB) + i] = C[i]
      BY ONLY <2>0, JoinEntries
  <2> HIDE DEF ABC
  <2> QED BY <1>3, <1>5, <2>1
<1> HIDE DEF ABC
<1>7. Names(t) = ABC \o D
    BY <1>4 DEF AB, ABC
<1>8. /\ Names(t) \in Seq(Named) /\ Len(Names(t)) = 2 + t + 2 * t + 2
      /\ \A i \in 1 .. 2 + t + 2 * t : Names(t)[i] = ABC[i]
      /\ \A i \in 1 .. 2 : Names(t)[2 + t + 2 * t + i] = D[i]
  <2> DEFINE E == ABC \o D
  <2>0. ABC \in Seq(Named) /\ D \in Seq(Named)
      BY <1>1, <1>6
  <2>1. /\ E \in Seq(Named) /\ Len(E) = Len(ABC) + Len(D)
        /\ \A i \in 1 .. Len(ABC) : E[i] = ABC[i]
        /\ \A i \in 1 .. Len(D) : E[Len(ABC) + i] = D[i]
      BY ONLY <2>0, JoinEntries
  <2>2. Names(t) = E
      BY <1>7
  <2> HIDE DEF E
  <2> QED BY <1>1, <1>6, <2>1, <2>2
<1>9. Names(t)[1] = A[1] /\ Names(t)[2] = A[2]
  <2>1. 1 \in 1 .. 2 + t /\ 2 \in 1 .. 2 + t /\ 1 \in 1 .. 2 + t + 2 * t /\ 2 \in 1 .. 2 + t + 2 * t
      OBVIOUS
  <2> QED BY <1>5, <1>6, <1>8, <2>1
<1>10. ASSUME NEW i \in 1 .. t
       PROVE  /\ Names(t)[2 + i] = <<"pub", t - i>>
              /\ Names(t)[1 + t + 2 * i] = <<"pre", t - i>>
              /\ Names(t)[2 + t + 2 * i] = <<"index", t - i>>
  <2>1. /\ 2 + i \in 1 .. 2 + t /\ 2 + i \in 1 .. 2 + t + 2 * t
        /\ 2 * i - 1 \in 1 .. 2 * t /\ 2 * i \in 1 .. 2 * t
        /\ 1 + t + 2 * i \in 1 .. 2 + t + 2 * t /\ 2 + t + 2 * i \in 1 .. 2 + t + 2 * t
        /\ 2 + t + (2 * i - 1) = 1 + t + 2 * i
      OBVIOUS
  <2>2. Names(t)[2 + i] = B[i]
    <3>1. Names(t)[2 + i] = ABC[2 + i]
        BY ONLY <1>8, <2>1
    <3>2. ABC[2 + i] = AB[2 + i]
        BY ONLY <1>6, <2>1
    <3>3. AB[2 + i] = B[i]
        BY <1>5
    <3> QED BY ONLY <3>1, <3>2, <3>3
  <2>3. ABC[2 + t + (2 * i - 1)] = C[2 * i - 1] /\ ABC[2 + t + 2 * i] = C[2 * i]
      BY <1>6, <2>1
  <2> QED BY <1>2, <1>3, <1>8, <2>1, <2>2, <2>3
<1>11. Names(t)[3 * t + 3] = D[1] /\ Names(t)[3 * t + 4] = D[2] /\ Len(Names(t)) = 3 * t + 4
  <2>1. /\ 2 + t + 2 * t + 1 = 3 * t + 3 /\ 2 + t + 2 * t + 2 = 3 * t + 4
        /\ 1 \in 1 .. 2 /\ 2 \in 1 .. 2
      OBVIOUS
  <2> QED BY <1>8, <2>1
<1> QED BY <1>1, <1>8, <1>9, <1>10, <1>11

(* The place of a name in the witness.                                     *)
PlaceOf(name, t) ==
    CASE name[1] = "digest_proof" -> 1
      [] name[1] = "digest_key" -> 2
      [] name[1] = "pub" -> 2 + t - name[2]
      [] name[1] = "pre" -> 1 + t + 2 * (t - name[2])
      [] name[1] = "index" -> 2 + t + 2 * (t - name[2])
      [] name[1] = "pin_proof" -> 3 * t + 3
      [] name[1] = "pin_key" -> 3 * t + 4

(* No name occurs twice.                                                   *)
LEMMA NamesPlaced ==
    ASSUME NEW t \in Nat, NEW h \in 1 .. 3 * t + 4
    PROVE  PlaceOf(Names(t)[h], t) = h
<1>1. \/ h = 1 \/ h = 2 \/ h = 3 * t + 3 \/ h = 3 * t + 4
      \/ \E i \in 1 .. t : h = 2 + i \/ h = 1 + t + 2 * i \/ h = 2 + t + 2 * i
  <2>1. CASE h > 2 /\ h <= t + 2
    <3>1. h - 2 \in 1 .. t /\ h = 2 + (h - 2)
        BY <2>1
    <3> QED BY <3>1
  <2>2. CASE h > t + 2 /\ h <= 3 * t + 2
    <3>1. PICK m \in Nat : h - (t + 2) = 2 * m \/ h - (t + 2) = 2 * m + 1
      <4> DEFINE d == h - (t + 2)
      <4>1. d \in Nat
          BY <2>2
      <4> HIDE DEF d
      <4>2. d \div 2 \in Nat /\ (d = 2 * (d \div 2) \/ d = 2 * (d \div 2) + 1)
          BY <4>1
      <4> QED BY <4>2 DEF d
    <3>2. CASE h - (t + 2) = 2 * m
      <4>1. m \in 1 .. t /\ h = 2 + t + 2 * m
          BY <2>2, <3>2
      <4> QED BY <4>1
    <3>3. CASE h - (t + 2) = 2 * m + 1
      <4>1. m + 1 \in 1 .. t /\ h = 1 + t + 2 * (m + 1)
          BY <2>2, <3>3
      <4> QED BY <4>1
    <3> QED BY <3>1, <3>2, <3>3
  <2> QED BY <2>1, <2>2
<1>2. CASE \E i \in 1 .. t : h = 2 + i \/ h = 1 + t + 2 * i \/ h = 2 + t + 2 * i
  <2>1. PICK i \in 1 .. t : h = 2 + i \/ h = 1 + t + 2 * i \/ h = 2 + t + 2 * i
      BY <1>2
  <2>2. t - i \in Int /\ t - (t - i) = i /\ 2 + t - (t - i) = 2 + i
      OBVIOUS
  <2>3. PlaceOf(<<"pub", t - i>>, t) = 2 + i
      BY <2>2 DEF PlaceOf
  <2>4. PlaceOf(<<"pre", t - i>>, t) = 1 + t + 2 * i
      BY <2>2 DEF PlaceOf
  <2>5. PlaceOf(<<"index", t - i>>, t) = 2 + t + 2 * i
      BY <2>2 DEF PlaceOf
  <2> QED BY <2>1, <2>3, <2>4, <2>5, NamesAre
<1>3. CASE h = 1
    BY <1>3, NamesAre DEF PlaceOf
<1>4. CASE h = 2
    BY <1>4, NamesAre DEF PlaceOf
<1>5. CASE h = 3 * t + 3
    BY <1>5, NamesAre DEF PlaceOf
<1>6. CASE h = 3 * t + 4
    BY <1>6, NamesAre DEF PlaceOf
<1> QED BY <1>1, <1>2, <1>3, <1>4, <1>5, <1>6

(* The first place of x in a list, as SelectInSeq finds it.                *)
FirstAt(s, x) ==
    LET I == {i \in 1 .. Len(s) : s[i] = x}
    IN  IF I # {} THEN Min(I) ELSE 0

(* Where the first occurrence of a name is.                                *)
LEMMA FirstIs ==
    ASSUME NEW s, Len(s) \in Nat, NEW x, NEW k \in 1 .. Len(s), s[k] = x,
           \A i \in 1 .. k - 1 : s[i] # x
    PROVE  FirstAt(s, x) = k
<1> DEFINE I == {i \in 1 .. Len(s) : s[i] = x}
<1>1. k \in I /\ \A i \in I : k <= i
    OBVIOUS
<1>2. I # {} /\ FirstAt(s, x) = Min(I)
    BY <1>1 DEF FirstAt
<1>3. Min(I) \in I /\ \A i \in I : Min(I) <= i
    BY <1>1 DEF Min
<1>4. Min(I) \in Int /\ k <= Min(I) /\ Min(I) <= k
    BY <1>1, <1>3
<1> HIDE DEF I
<1>5. Min(I) = k
    BY <1>4
<1> QED BY <1>2, <1>5

(* Compiler and spend both look for first occurrences.                     *)
LEMMA FirstFound ==
    /\ \A name : Supplied(name) = witness[FirstAt(Names(T), name)]
    /\ \A c, name : Position(c, name) = FirstAt(c.stack, name)
BY DEF Supplied, Position, SelectInSeq, FirstAt

(* What the witness supplies under a name is what stands in its place.     *)
LEMMA SuppliedIs ==
    ASSUME T \in Nat, NEW h \in 1 .. 3 * T + 4
    PROVE  Supplied(Names(T)[h]) = witness[h]
<1>1. Len(Names(T)) = 3 * T + 4
    BY NamesAre
<1>2. \A i \in 1 .. h - 1 : Names(T)[i] # Names(T)[h]
  <2> TAKE i \in 1 .. h - 1
  <2>1. i \in 1 .. 3 * T + 4 /\ i # h
      OBVIOUS
  <2>2. PlaceOf(Names(T)[i], T) = i /\ PlaceOf(Names(T)[h], T) = h
      BY <2>1, NamesPlaced
  <2> QED BY <2>1, <2>2
<1> DEFINE names == Names(T)
<1> DEFINE x == names[h]
<1>3. Len(names) \in Nat /\ h \in 1 .. Len(names) /\ names[h] = x
      /\ \A i \in 1 .. h - 1 : names[i] # x
    BY <1>1, <1>2
<1> HIDE DEF names, x
<1>4. FirstAt(names, x) = h
    BY <1>3, FirstIs
<1> QED BY <1>4, FirstFound DEF names, x

-----------------------------------------------------------------------------
(* What a compiler state keeps of the witness: the names from lo to hi, at *)
(* the bottom of a stack of that length.                                   *)
Labels ==
    (NameKinds \union {"preserved_key", "offset", "selected_commitment", "selected", "dummy",
                       "commit", "null_dummy", "fixed_signature", "sig_count"}) \X Int
Compilers == [script : Codes, stack : Seq(Labels)]

Keeps(c, lo, hi, len) ==
    /\ T \in Nat /\ c \in Compilers /\ len \in Nat /\ Len(c.stack) = len
    /\ lo \in Nat \ {0} /\ hi \in Nat /\ hi <= 3 * T + 4 /\ hi >= lo - 1 /\ len >= hi - lo + 1
    /\ \A i \in 1 .. hi - lo + 1 : c.stack[i] = Names(T)[lo + i - 1]

(* Code is written behind code.                                            *)
LEMMA KeepsEmit ==
    ASSUME NEW c, NEW lo, NEW hi, NEW len, Keeps(c, lo, hi, len), NEW code \in Codes
    PROVE  Keeps(Emit(c, code), lo, hi, len) /\ Emit(c, code).script = c.script \o code
<1>1. c \in Compilers
    BY DEF Keeps
<1>2. c.script \o code \in Codes
    BY <1>1, ConcatProperties DEF Codes, Compilers
<1>3. /\ Emit(c, code) \in Compilers /\ Emit(c, code).script = c.script \o code
      /\ Emit(c, code).stack = c.stack
    BY <1>1, <1>2 DEF Emit, Compilers
<1> QED BY <1>3 DEF Keeps

(* The names above those of the witness are exchanged.                     *)
LEMMA KeepsRenamed ==
    ASSUME NEW c, NEW lo, NEW hi, NEW len, Keeps(c, lo, hi, len),
           NEW n \in Nat, n <= len - (hi - lo + 1), NEW names \in Seq(Labels)
    PROVE  /\ Keeps(Renamed(c, n, names), lo, hi, (len - n) + Len(names))
           /\ Renamed(c, n, names).script = c.script
<1> DEFINE u == SubSeq(c.stack, 1, Len(c.stack) - n)
<1> DEFINE v == u \o names
<1>1. /\ c \in Compilers /\ len \in Nat /\ Len(c.stack) = len /\ lo \in Nat /\ hi \in Nat
      /\ hi >= lo - 1 /\ c.stack \in Seq(Labels)
    BY DEF Keeps, Compilers
<1>2. Len(c.stack) - n \in 0 .. Len(c.stack) /\ len - n \in Nat /\ hi - lo + 1 <= len - n
    BY <1>1
<1>3. u \in Seq(Labels) /\ Len(u) = len - n /\ \A i \in 1 .. len - n : u[i] = c.stack[i]
    BY <1>1, <1>2, SubSeqProperties
<1>4. Renamed(c, n, names) = [c EXCEPT !.stack = v]
    BY DEF Renamed
<1> HIDE DEF u
<1>5. /\ u \o names \in Seq(Labels) /\ Len(u \o names) = Len(u) + Len(names) /\ Len(names) \in Nat
      /\ \A i \in 1 .. Len(u) : (u \o names)[i] = u[i]
    BY ONLY <1>3, JoinEntries
<1> HIDE DEF v
<1>6. /\ Renamed(c, n, names) \in Compilers /\ Renamed(c, n, names).script = c.script
      /\ Renamed(c, n, names).stack = v
    BY <1>1, <1>4, <1>5 DEF Compilers, v
<1>7. \A i \in 1 .. hi - lo + 1 : v[i] = c.stack[i]
  <2> TAKE i \in 1 .. hi - lo + 1
  <2>1. i \in 1 .. len - n
      BY <1>1, <1>2
  <2> QED BY <1>3, <1>5, <2>1 DEF v
<1>8. Len(v) = (len - n) + Len(names) /\ (len - n) + Len(names) \in Nat
      /\ (len - n) + Len(names) >= hi - lo + 1
    BY <1>1, <1>2, <1>3, <1>5 DEF v
<1> HIDE DEF Renamed
<1> QED BY <1>6, <1>7, <1>8 DEF Keeps

(* Where a name of the witness is.                                         *)
LEMMA KeptAt ==
    ASSUME NEW c, NEW lo, NEW hi, NEW len, Keeps(c, lo, hi, len), NEW h \in lo .. hi
    PROVE  /\ Position(c, Names(T)[h]) = h - lo + 1
           /\ Depth(c, Names(T)[h]) = len - (h - lo + 1)
<1> DEFINE k == h - lo + 1
<1>1. /\ T \in Nat /\ len \in Nat /\ Len(c.stack) = len /\ lo \in Nat \ {0} /\ hi \in Nat
      /\ hi <= 3 * T + 4 /\ len >= hi - lo + 1
      /\ \A i \in 1 .. hi - lo + 1 : c.stack[i] = Names(T)[lo + i - 1]
    BY DEF Keeps
<1>2. /\ k \in 1 .. hi - lo + 1 /\ k \in 1 .. Len(c.stack) /\ lo + k - 1 = h
      /\ h \in 1 .. 3 * T + 4 /\ k \in Nat
    BY <1>1
<1>3. c.stack[k] = Names(T)[h]
    BY <1>1, <1>2
<1>4. \A i \in 1 .. k - 1 : c.stack[i] # Names(T)[h]
  <2> TAKE i \in 1 .. k - 1
  <2>1. i \in 1 .. hi - lo + 1 /\ lo + i - 1 \in 1 .. 3 * T + 4 /\ lo + i - 1 # h
      BY <1>1, <1>2
  <2>2. PlaceOf(Names(T)[lo + i - 1], T) = lo + i - 1 /\ PlaceOf(Names(T)[h], T) = h
      BY <1>1, <1>2, <2>1, NamesPlaced
  <2>3. c.stack[i] = Names(T)[lo + i - 1]
      BY <1>1, <2>1
  <2> QED BY <2>1, <2>2, <2>3
<1> HIDE DEF k
<1> DEFINE x == Names(T)[h]
<1> DEFINE z == c.stack
<1>5. Len(z) \in Nat /\ k \in 1 .. Len(z) /\ z[k] = x /\ \A i \in 1 .. k - 1 : z[i] # x
    BY <1>1, <1>2, <1>3, <1>4
<1> HIDE DEF x, z
<1>6. FirstAt(z, x) = k
    BY <1>5, FirstIs
<1>7. Position(c, Names(T)[h]) = k
    BY <1>6, FirstFound DEF x, z
<1>8. Depth(c, Names(T)[h]) = len - k
    BY <1>1, <1>7 DEF Depth
<1> QED BY <1>7, <1>8 DEF k

(* A name of a witness element is put on top.                              *)
RollCode(depth, name) == <<PushNum(depth), Instruction("ROLL", Junk, name)>>

(* The code of a roll, from where the compiler has the name.               *)
LEMMA RollScript ==
    ASSUME NEW c, NEW lo, NEW hi, NEW len, Keeps(c, lo, hi, len), NEW h \in lo .. hi
    PROVE  /\ Roll(c, Names(T)[h]).script = c.script \o RollCode(len - (h - lo + 1), Names(T)[h])
           /\ RollCode(len - (h - lo + 1), Names(T)[h]) \in Codes
<1> DEFINE name == Names(T)[h]
<1> DEFINE k == h - lo + 1
<1> DEFINE roll == RollCode(len - k, name)
<1>1. /\ T \in Nat /\ c \in Compilers /\ len \in Nat /\ Len(c.stack) = len /\ lo \in Nat \ {0}
      /\ hi \in Nat /\ hi <= 3 * T + 4 /\ len >= hi - lo + 1
    BY DEF Keeps
<1> HIDE DEF name
<1>2. k \in 1 .. len /\ h \in 1 .. 3 * T + 4 /\ len - k \in Int
    BY <1>1
<1>3. Position(c, name) = k /\ Depth(c, name) = len - k
    BY KeptAt DEF name
<1> HIDE DEF k
<1>4. name \in Named
  <2>1. Names(T) \in Seq(Named) /\ Len(Names(T)) = 3 * T + 4
      BY <1>1, NamesAre
  <2> QED BY <1>2, <2>1, ElementOfSeq DEF name
<1>5. roll \in Codes
  <2>1. PushNum(len - k) \in Instructions
      BY <1>2, PushNumIs
  <2>2. Instruction("ROLL", Junk, name) \in Instructions
      BY <1>4, InstructionIs, Constants DEF Plain
  <2> QED BY <2>1, <2>2 DEF Codes, RollCode
<1>8. Roll(c, name).script = c.script \o roll
    BY <1>3 DEF Roll, RollCode
<1> QED BY <1>5, <1>8 DEF name, roll, k

(* A sequence without its k-th entry.                                      *)
LEMMA RemovedIs ==
    ASSUME NEW S, NEW z \in Seq(S), NEW k \in 1 .. Len(z)
    PROVE  /\ RemoveAt(z, k) \in Seq(S) /\ Len(RemoveAt(z, k)) = Len(z) - 1
           /\ \A i \in 1 .. k - 1 : RemoveAt(z, k)[i] = z[i]
           /\ \A i \in k .. Len(z) - 1 : RemoveAt(z, k)[i] = z[i + 1]
<1> DEFINE len == Len(z)
<1>0. len \in Nat /\ k \in 1 .. len /\ z \in Seq(S) /\ len = Len(z)
    BY LenProperties
<1> HIDE DEF len
<1> DEFINE u == SubSeq(z, 1, k - 1)
<1> DEFINE v == SubSeq(z, k + 1, len)
<1>1. u \in Seq(S) /\ Len(u) = k - 1 /\ \A i \in 1 .. k - 1 : u[i] = z[i]
  <2>1. k - 1 \in 0 .. Len(z)
      BY <1>0
  <2> QED BY <1>0, <2>1, SubSeqProperties
<1>2. v \in Seq(S) /\ Len(v) = len - k /\ \A i \in 1 .. len - k : v[i] = z[k + i]
  <2>1. k + 1 \in 1 .. len + 1 /\ len \in 0 .. len /\ len - (k + 1) + 1 = len - k
      BY <1>0
  <2>2. \A i \in 1 .. len - k : (k + 1) + i - 1 = k + i
      BY <1>0
  <2>3. k + 1 \in Int /\ len \in Int /\ \A i \in k + 1 .. len : z[i] \in S
    <3>1. \A i \in k + 1 .. len : i \in 1 .. Len(z)
        BY <1>0
    <3>2. \A i \in 1 .. Len(z) : z[i] \in S
        BY <1>0, ElementOfSeq
    <3> QED BY <1>0, <3>1, <3>2
  <2>4. /\ v \in Seq(S) /\ Len(v) = IF k + 1 <= len THEN len - (k + 1) + 1 ELSE 0
        /\ \A i \in 1 .. len - (k + 1) + 1 : v[i] = z[(k + 1) + i - 1]
      BY ONLY <2>3, SubSeqProperties
  <2> HIDE DEF v
  <2>5. (IF k + 1 <= len THEN len - (k + 1) + 1 ELSE 0) = len - k
      BY <1>0
  <2> QED BY <2>1, <2>2, <2>4, <2>5
<1>3. RemoveAt(z, k) = u \o v
    BY <1>0 DEF RemoveAt
<1>8. k - 1 \in Nat /\ len - k \in Nat
    BY <1>0
<1> HIDE DEF u, v
<1>4. /\ u \o v \in Seq(S) /\ Len(u \o v) = Len(u) + Len(v)
      /\ \A i \in 1 .. Len(u) : (u \o v)[i] = u[i]
      /\ \A i \in 1 .. Len(v) : (u \o v)[Len(u) + i] = v[i]
  <2>1. u \in Seq(S) /\ v \in Seq(S)
      BY <1>1, <1>2
  <2> QED BY ONLY <2>1, JoinEntries
<1> DEFINE y == u \o v
<1>7. /\ y \in Seq(S) /\ Len(y) = (k - 1) + (len - k)
      /\ \A i \in 1 .. k - 1 : y[i] = u[i]
      /\ \A i \in 1 .. len - k : y[(k - 1) + i] = v[i]
    BY <1>1, <1>2, <1>4
<1> HIDE DEF y
<1>5. ASSUME NEW i \in k .. len - 1
      PROVE  y[i] = z[i + 1]
  <2>1. i - (k - 1) \in 1 .. len - k /\ (k - 1) + (i - (k - 1)) = i /\ k + (i - (k - 1)) = i + 1
      BY <1>0
  <2>2. y[(k - 1) + (i - (k - 1))] = v[i - (k - 1)]
      BY <1>7, <2>1
  <2>3. v[i - (k - 1)] = z[k + (i - (k - 1))]
      BY <1>2, <2>1
  <2> QED BY <2>1, <2>2, <2>3
<1>6. (k - 1) + (len - k) = len - 1
    BY <1>0
<1> QED BY <1>0, <1>1, <1>3, <1>5, <1>6, <1>7 DEF y

(* The others keep their order below it.                                   *)
LEMMA RollNames ==
    ASSUME NEW c, NEW lo, NEW hi, NEW len, Keeps(c, lo, hi, len), NEW h \in lo .. hi
    PROVE  /\ Roll(c, Names(T)[h]) \in Compilers
           /\ Len(Roll(c, Names(T)[h]).stack) = len
           /\ \A i \in 1 .. (h - lo + 1) - 1 : Roll(c, Names(T)[h]).stack[i] = c.stack[i]
           /\ \A i \in h - lo + 1 .. len - 1 : Roll(c, Names(T)[h]).stack[i] = c.stack[i + 1]
<1> DEFINE name == Names(T)[h]
<1> DEFINE k == h - lo + 1
<1> DEFINE roll == RollCode(len - k, name)
<1> DEFINE z == c.stack
<1>1. /\ T \in Nat /\ c \in Compilers /\ len \in Nat /\ Len(c.stack) = len /\ lo \in Nat \ {0}
      /\ hi \in Nat /\ hi <= 3 * T + 4 /\ len >= hi - lo + 1
    BY DEF Keeps
<1> HIDE DEF name
<1>2. k \in 1 .. len /\ h \in 1 .. 3 * T + 4 /\ len - k \in Int
    BY <1>1
<1>3. Position(c, name) = k /\ Depth(c, name) = len - k
    BY KeptAt DEF name
<1> HIDE DEF k
<1>4. name \in Named
  <2>1. Names(T) \in Seq(Named) /\ Len(Names(T)) = 3 * T + 4
      BY <1>1, NamesAre
  <2> QED BY <1>2, <2>1, ElementOfSeq DEF name
<1>5. roll \in Codes
  <2>1. PushNum(len - k) \in Instructions
      BY <1>2, PushNumIs
  <2>2. Instruction("ROLL", Junk, name) \in Instructions
      BY <1>4, InstructionIs, Constants DEF Plain
  <2> QED BY <2>1, <2>2 DEF Codes, RollCode
<1>6. name \in Labels
    BY <1>4 DEF Named, Labels
<1>7. z \in Seq(Labels) /\ Len(z) = len
    BY <1>1 DEF Compilers
<1>8. Roll(c, name) = [script |-> c.script \o roll, stack |-> Append(RemoveAt(z, k), name)]
    BY <1>3 DEF Roll, RollCode
<1> HIDE DEF z, roll
<1>9. /\ RemoveAt(z, k) \in Seq(Labels) /\ Len(RemoveAt(z, k)) = len - 1
      /\ \A i \in 1 .. k - 1 : RemoveAt(z, k)[i] = z[i]
      /\ \A i \in k .. len - 1 : RemoveAt(z, k)[i] = z[i + 1]
  <2>1. k \in 1 .. Len(z) /\ z \in Seq(Labels)
      BY <1>2, <1>7
  <2>2. /\ RemoveAt(z, k) \in Seq(Labels) /\ Len(RemoveAt(z, k)) = Len(z) - 1
        /\ \A i \in 1 .. k - 1 : RemoveAt(z, k)[i] = z[i]
        /\ \A i \in k .. Len(z) - 1 : RemoveAt(z, k)[i] = z[i + 1]
      BY ONLY <2>1, RemovedIs
  <2> QED BY <1>7, <2>2
<1>10. /\ Append(RemoveAt(z, k), name) \in Seq(Labels) /\ Len(Append(RemoveAt(z, k), name)) = len
       /\ \A i \in 1 .. len - 1 : Append(RemoveAt(z, k), name)[i] = RemoveAt(z, k)[i]
  <2>1. (len - 1) + 1 = len
      BY <1>1
  <2> QED BY <1>6, <1>9, <2>1, AppendProperties
<1>11. c.script \o roll \in Codes
    BY <1>1, <1>5, ConcatProperties DEF Codes, Compilers
<1>12. /\ Roll(c, name).script = c.script \o roll /\ Roll(c, name) \in Compilers
       /\ Roll(c, name).stack = Append(RemoveAt(z, k), name)
    BY <1>8, <1>10, <1>11 DEF Compilers
<1>13. /\ \A i \in 1 .. k - 1 : i \in 1 .. len - 1
       /\ \A i \in k .. len - 1 : i \in 1 .. len - 1
    BY <1>1, <1>2
<1> QED BY <1>5, <1>9, <1>10, <1>12, <1>13 DEF z, roll, name, k

(* The topmost of the names kept, or the lowest, is put on top.            *)
LEMMA KeepsRollTop ==
    ASSUME NEW c, NEW lo, NEW hi, NEW len, Keeps(c, lo, hi, len), hi >= lo
    PROVE  /\ Keeps(Roll(c, Names(T)[hi]), lo, hi - 1, len)
           /\ RollCode(len - (hi - lo + 1), Names(T)[hi]) \in Codes
           /\ Roll(c, Names(T)[hi]).script =
                c.script \o RollCode(len - (hi - lo + 1), Names(T)[hi])
<1>1. /\ T \in Nat /\ len \in Nat /\ lo \in Nat \ {0} /\ hi \in Nat /\ hi <= 3 * T + 4
      /\ len >= hi - lo + 1
      /\ \A i \in 1 .. hi - lo + 1 : c.stack[i] = Names(T)[lo + i - 1]
    BY DEF Keeps
<1>2. hi \in lo .. hi
    BY <1>1
<1> DEFINE name == Names(T)[hi]
<1> DEFINE k == hi - lo + 1
<1>8. name = Names(T)[hi] /\ k = hi - lo + 1
    OBVIOUS
<1> DEFINE d == Roll(c, name)
<1>3. /\ d \in Compilers /\ Len(d.stack) = len
      /\ \A i \in 1 .. k - 1 : d.stack[i] = c.stack[i]
    BY <1>2, RollNames
<1>4. d.script = c.script \o RollCode(len - k, name) /\ RollCode(len - k, name) \in Codes
    BY <1>2, RollScript
<1> HIDE DEF d, name, k
<1>5. \A i \in 1 .. (hi - 1) - lo + 1 : d.stack[i] = Names(T)[lo + i - 1]
  <2> TAKE i \in 1 .. (hi - 1) - lo + 1
  <2>1. i \in 1 .. k - 1 /\ i \in 1 .. hi - lo + 1
      BY <1>1, <1>8
  <2> QED BY <1>1, <1>3, <2>1
<1>6. hi - 1 \in Nat /\ hi - 1 <= 3 * T + 4 /\ hi - 1 >= lo - 1 /\ len >= (hi - 1) - lo + 1
    BY <1>1
<1>7. Keeps(d, lo, hi - 1, len)
    BY <1>1, <1>3, <1>5, <1>6 DEF Keeps
<1> QED BY <1>4, <1>7, <1>8 DEF d

(* A roll from the bottom of the witness part keeps the compiler state.    *)
LEMMA KeepsRollLow ==
    ASSUME NEW c, NEW lo, NEW hi, NEW len, Keeps(c, lo, hi, len), hi >= lo
    PROVE  /\ Keeps(Roll(c, Names(T)[lo]), lo + 1, hi, len)
           /\ RollCode(len - 1, Names(T)[lo]) \in Codes
           /\ Roll(c, Names(T)[lo]).script = c.script \o RollCode(len - 1, Names(T)[lo])
<1>1. /\ T \in Nat /\ len \in Nat /\ lo \in Nat \ {0} /\ hi \in Nat /\ hi <= 3 * T + 4
      /\ len >= hi - lo + 1
      /\ \A i \in 1 .. hi - lo + 1 : c.stack[i] = Names(T)[lo + i - 1]
    BY DEF Keeps
<1>2. lo \in lo .. hi /\ 1 = lo - lo + 1
    BY <1>1
<1> DEFINE name == Names(T)[lo]
<1> DEFINE k == lo - lo + 1
<1>8. name = Names(T)[lo] /\ k = 1
    BY <1>1
<1> DEFINE d == Roll(c, name)
<1>3. /\ d \in Compilers /\ Len(d.stack) = len
      /\ \A i \in k .. len - 1 : d.stack[i] = c.stack[i + 1]
    BY <1>2, RollNames
<1>4. d.script = c.script \o RollCode(len - k, name) /\ RollCode(len - k, name) \in Codes
    BY <1>2, RollScript
<1> HIDE DEF d, name, k
<1>5. \A i \in 1 .. hi - (lo + 1) + 1 : d.stack[i] = Names(T)[(lo + 1) + i - 1]
  <2> TAKE i \in 1 .. hi - (lo + 1) + 1
  <2>1. i \in k .. len - 1 /\ i + 1 \in 1 .. hi - lo + 1 /\ lo + (i + 1) - 1 = (lo + 1) + i - 1
      BY <1>1, <1>8
  <2> QED BY <1>1, <1>3, <2>1
<1>6. lo + 1 \in Nat \ {0} /\ hi >= (lo + 1) - 1 /\ len >= hi - (lo + 1) + 1
    BY <1>1
<1>7. Keeps(d, lo + 1, hi, len)
    BY <1>1, <1>3, <1>5, <1>6 DEF Keeps
<1> QED BY <1>4, <1>7, <1>8 DEF d

-----------------------------------------------------------------------------
(* The compiler states of the selections, one after another.               *)
Selects(n, t, z, k, f) ==
    f = [j \in 0 .. k |-> IF j = 0 THEN Tabled(n, t, z) ELSE Selection(f[j - 1], j - 1, n)]

(* The selections of compile() have a sequence of states.                  *)
LEMMA SelectExists ==
    ASSUME NEW n, NEW t, NEW z, NEW k \in Nat
    PROVE  \E f : Selects(n, t, z, k, f)
<1> DEFINE Bad == {i \in Nat : ~\E f : Selects(n, t, z, i, f)}
<1> SUFFICES ASSUME Bad # {} PROVE FALSE
    OBVIOUS
<1>1. PICK m \in Bad : \A i \in Bad : m <= i
    BY LeastMember
<1>2. m # 0
  <2> DEFINE b == Tabled(n, t, z)
  <2> HIDE DEF b
  <2> DEFINE f == [j \in 0 .. 0 |-> b]
  <2>1. f = [j \in 0 .. 0 |-> IF j = 0 THEN b ELSE Selection(f[j - 1], j - 1, n)]
      OBVIOUS
  <2> HIDE DEF f
  <2>2. Selects(n, t, z, 0, f)
      BY <2>1 DEF Selects, b
  <2> QED BY <1>1, <2>2
<1>3. m \in Nat /\ m - 1 \in Nat
    BY <1>1, <1>2
<1>4. PICK f : Selects(n, t, z, m - 1, f)
    BY <1>1, <1>3
<1> DEFINE S(i, h) == IF i = 0 THEN Tabled(n, t, z) ELSE Selection(h[i - 1], i - 1, n)
<1>5. f = [i \in 0 .. m - 1 |-> S(i, f)]
    BY <1>4 DEF Selects
<1> DEFINE g == [i \in 0 .. m |-> S(i, f)]
<1>6. \A i \in 0 .. m - 1 : g[i] = f[i]
  <2>1. \A i \in 0 .. m - 1 : i \in 0 .. m
      BY <1>3
  <2> HIDE DEF S
  <2>2. \A i \in 0 .. m - 1 : f[i] = S(i, f)
      BY <1>5
  <2> QED BY <2>1, <2>2
<1>7. g = [i \in 0 .. m |-> S(i, g)]
  <2>1. ASSUME NEW i \in 0 .. m
        PROVE S(i, f) = S(i, g)
    <3>1. CASE i = 0
        BY <3>1
    <3>2. CASE i # 0
      <4>1. i - 1 \in 0 .. m - 1
          BY <1>3, <3>2
      <4>2. g[i - 1] = f[i - 1]
          BY <1>6, <4>1
      <4> HIDE DEF g
      <4> QED BY <3>2, <4>2
    <3> QED BY <3>1, <3>2
  <2> HIDE DEF S
  <2> QED BY <2>1
<1>8. Selects(n, t, z, m, g)
    BY <1>7 DEF Selects
<1> QED BY <1>1, <1>8

(* Two such sequences agree as far as both go.                             *)
LEMMA SelectAgree ==
    ASSUME NEW n, NEW t, NEW z, NEW k \in Nat, NEW m \in Nat, k <= m, NEW f, NEW g,
           Selects(n, t, z, k, f), Selects(n, t, z, m, g)
    PROVE  \A i \in 0 .. k : f[i] = g[i]
<1> DEFINE S(i, h) == IF i = 0 THEN Tabled(n, t, z) ELSE Selection(h[i - 1], i - 1, n)
<1>1. \A i \in 0 .. k : f[i] = S(i, f)
  <2>1. f = [i \in 0 .. k |-> S(i, f)]
      BY DEF Selects
  <2> HIDE DEF S
  <2> QED BY <2>1
<1>2. \A i \in 0 .. m : g[i] = S(i, g)
  <2>1. g = [i \in 0 .. m |-> S(i, g)]
      BY DEF Selects
  <2> HIDE DEF S
  <2> QED BY <2>1
<1> DEFINE Bad == {i \in 0 .. k : f[i] # g[i]}
<1> SUFFICES ASSUME Bad # {} PROVE FALSE
    OBVIOUS
<1>3. Bad \in SUBSET Nat
    OBVIOUS
<1>4. PICK i \in Bad : \A j \in Bad : i <= j
  <2> HIDE DEF Bad
  <2> QED BY <1>3, LeastMember
<1>5. i \in 0 .. k /\ i \in 0 .. m /\ f[i] # g[i]
    BY <1>4
<1>6. S(i, f) = S(i, g)
  <2>1. CASE i = 0
      BY <2>1
  <2>2. CASE i # 0
    <3>1. i - 1 \in 0 .. k /\ ~(i <= i - 1)
        BY <1>5, <2>2
    <3>2. f[i - 1] = g[i - 1]
        BY <1>4, <3>1
    <3> QED BY <2>2, <3>2
  <2> QED BY <2>1, <2>2
<1> HIDE DEF S
<1> QED BY <1>1, <1>2, <1>5, <1>6

(* One selection more.                                                     *)
LEMMA SelectNext ==
    ASSUME NEW n, NEW t, NEW z, NEW k \in Nat
    PROVE  /\ Selected(n, t, z, 0) = Tabled(n, t, z)
           /\ Selected(n, t, z, k + 1) = Selection(Selected(n, t, z, k), (k + 1) - 1, n)
<1> DEFINE S(i, h) == IF i = 0 THEN Tabled(n, t, z) ELSE Selection(h[i - 1], i - 1, n)
<1> DEFINE F(i) == CHOOSE f : Selects(n, t, z, i, f)
<1>1. \A i \in Nat : Selects(n, t, z, i, F(i))
    BY SelectExists
<1>2. \A i \in Nat : Selected(n, t, z, i) = F(i)[i]
    BY DEF Selects, Selected
<1> HIDE DEF F
<1>3. \A i \in Nat : \A j \in 0 .. i : F(i)[j] = S(j, F(i))
  <2> TAKE i \in Nat
  <2>1. F(i) = [j \in 0 .. i |-> S(j, F(i))]
      BY <1>1 DEF Selects
  <2> HIDE DEF S
  <2> QED BY <2>1
<1>4. F(k)[k] = F(k + 1)[k]
  <2>1. k + 1 \in Nat /\ k <= k + 1 /\ k \in 0 .. k
      OBVIOUS
  <2>2. Selects(n, t, z, k, F(k)) /\ Selects(n, t, z, k + 1, F(k + 1))
      BY <1>1, <2>1
  <2> QED BY <2>1, <2>2, SelectAgree
<1>5. F(0)[0] = S(0, F(0)) /\ F(k + 1)[k + 1] = S(k + 1, F(k + 1))
  <2>1. 0 \in Nat /\ 0 \in 0 .. 0 /\ k + 1 \in Nat /\ k + 1 \in 0 .. k + 1
      OBVIOUS
  <2> HIDE DEF S
  <2> QED BY <1>3, <2>1
<1>6. k + 1 # 0 /\ (k + 1) - 1 = k /\ k + 1 \in Nat
    OBVIOUS
<1> QED BY <1>2, <1>4, <1>5, <1>6

(* The compiler states of the keys fetched, one after another.             *)
Keys(n, t, z, k, f) ==
    f = [j \in 0 .. k |-> IF j = 0 THEN SigsCounted(n, t, z) ELSE Roll(f[j - 1], <<"pub", j - 1>>)]

(* The keys compile() fetches have a sequence of states.                   *)
LEMMA KeyExists ==
    ASSUME NEW n, NEW t, NEW z, NEW k \in Nat
    PROVE  \E f : Keys(n, t, z, k, f)
<1> DEFINE Bad == {i \in Nat : ~\E f : Keys(n, t, z, i, f)}
<1> SUFFICES ASSUME Bad # {} PROVE FALSE
    OBVIOUS
<1>1. PICK m \in Bad : \A i \in Bad : m <= i
    BY LeastMember
<1>2. m # 0
  <2> DEFINE b == SigsCounted(n, t, z)
  <2> HIDE DEF b
  <2> DEFINE f == [j \in 0 .. 0 |-> b]
  <2>1. f = [j \in 0 .. 0 |-> IF j = 0 THEN b ELSE Roll(f[j - 1], <<"pub", j - 1>>)]
      OBVIOUS
  <2> HIDE DEF f
  <2>2. Keys(n, t, z, 0, f)
      BY <2>1 DEF Keys, b
  <2> QED BY <1>1, <2>2
<1>3. m \in Nat /\ m - 1 \in Nat
    BY <1>1, <1>2
<1>4. PICK f : Keys(n, t, z, m - 1, f)
    BY <1>1, <1>3
<1> DEFINE S(i, h) == IF i = 0 THEN SigsCounted(n, t, z) ELSE Roll(h[i - 1], <<"pub", i - 1>>)
<1>5. f = [i \in 0 .. m - 1 |-> S(i, f)]
    BY <1>4 DEF Keys
<1> DEFINE g == [i \in 0 .. m |-> S(i, f)]
<1>6. \A i \in 0 .. m - 1 : g[i] = f[i]
  <2>1. \A i \in 0 .. m - 1 : i \in 0 .. m
      BY <1>3
  <2> HIDE DEF S
  <2>2. \A i \in 0 .. m - 1 : f[i] = S(i, f)
      BY <1>5
  <2> QED BY <2>1, <2>2
<1>7. g = [i \in 0 .. m |-> S(i, g)]
  <2>1. ASSUME NEW i \in 0 .. m
        PROVE S(i, f) = S(i, g)
    <3>1. CASE i = 0
        BY <3>1
    <3>2. CASE i # 0
      <4>1. i - 1 \in 0 .. m - 1
          BY <1>3, <3>2
      <4>2. g[i - 1] = f[i - 1]
          BY <1>6, <4>1
      <4> HIDE DEF g
      <4> QED BY <3>2, <4>2
    <3> QED BY <3>1, <3>2
  <2> HIDE DEF S
  <2> QED BY <2>1
<1>8. Keys(n, t, z, m, g)
    BY <1>7 DEF Keys
<1> QED BY <1>1, <1>8

(* Two such sequences agree as far as both go.                             *)
LEMMA KeyAgree ==
    ASSUME NEW n, NEW t, NEW z, NEW k \in Nat, NEW m \in Nat, k <= m, NEW f, NEW g,
           Keys(n, t, z, k, f), Keys(n, t, z, m, g)
    PROVE  \A i \in 0 .. k : f[i] = g[i]
<1> DEFINE S(i, h) == IF i = 0 THEN SigsCounted(n, t, z) ELSE Roll(h[i - 1], <<"pub", i - 1>>)
<1>1. \A i \in 0 .. k : f[i] = S(i, f)
  <2>1. f = [i \in 0 .. k |-> S(i, f)]
      BY DEF Keys
  <2> HIDE DEF S
  <2> QED BY <2>1
<1>2. \A i \in 0 .. m : g[i] = S(i, g)
  <2>1. g = [i \in 0 .. m |-> S(i, g)]
      BY DEF Keys
  <2> HIDE DEF S
  <2> QED BY <2>1
<1> DEFINE Bad == {i \in 0 .. k : f[i] # g[i]}
<1> SUFFICES ASSUME Bad # {} PROVE FALSE
    OBVIOUS
<1>3. Bad \in SUBSET Nat
    OBVIOUS
<1>4. PICK i \in Bad : \A j \in Bad : i <= j
  <2> HIDE DEF Bad
  <2> QED BY <1>3, LeastMember
<1>5. i \in 0 .. k /\ i \in 0 .. m /\ f[i] # g[i]
    BY <1>4
<1>6. S(i, f) = S(i, g)
  <2>1. CASE i = 0
      BY <2>1
  <2>2. CASE i # 0
    <3>1. i - 1 \in 0 .. k /\ ~(i <= i - 1)
        BY <1>5, <2>2
    <3>2. f[i - 1] = g[i - 1]
        BY <1>4, <3>1
    <3> QED BY <2>2, <3>2
  <2> QED BY <2>1, <2>2
<1> HIDE DEF S
<1> QED BY <1>1, <1>2, <1>5, <1>6

(* One key more.                                                           *)
LEMMA KeyNext ==
    ASSUME NEW n, NEW t, NEW z, NEW k \in Nat
    PROVE  /\ Keyed(n, t, z, 0) = SigsCounted(n, t, z)
           /\ Keyed(n, t, z, k + 1) = Roll(Keyed(n, t, z, k), <<"pub", (k + 1) - 1>>)
<1> DEFINE S(i, h) == IF i = 0 THEN SigsCounted(n, t, z) ELSE Roll(h[i - 1], <<"pub", i - 1>>)
<1> DEFINE F(i) == CHOOSE f : Keys(n, t, z, i, f)
<1>1. \A i \in Nat : Keys(n, t, z, i, F(i))
    BY KeyExists
<1>2. \A i \in Nat : Keyed(n, t, z, i) = F(i)[i]
    BY DEF Keys, Keyed
<1> HIDE DEF F
<1>3. \A i \in Nat : \A j \in 0 .. i : F(i)[j] = S(j, F(i))
  <2> TAKE i \in Nat
  <2>1. F(i) = [j \in 0 .. i |-> S(j, F(i))]
      BY <1>1 DEF Keys
  <2> HIDE DEF S
  <2> QED BY <2>1
<1>4. F(k)[k] = F(k + 1)[k]
  <2>1. k + 1 \in Nat /\ k <= k + 1 /\ k \in 0 .. k
      OBVIOUS
  <2>2. Keys(n, t, z, k, F(k)) /\ Keys(n, t, z, k + 1, F(k + 1))
      BY <1>1, <2>1
  <2> QED BY <2>1, <2>2, KeyAgree
<1>5. F(0)[0] = S(0, F(0)) /\ F(k + 1)[k + 1] = S(k + 1, F(k + 1))
  <2>1. 0 \in Nat /\ 0 \in 0 .. 0 /\ k + 1 \in Nat /\ k + 1 \in 0 .. k + 1
      OBVIOUS
  <2> HIDE DEF S
  <2> QED BY <1>3, <2>1
<1>6. k + 1 # 0 /\ (k + 1) - 1 = k /\ k + 1 \in Nat
    OBVIOUS
<1> QED BY <1>2, <1>4, <1>5, <1>6

-----------------------------------------------------------------------------
(* The script begins with what a compiler state has written; the rest      *)
(* starts at EndOf(c).                                                     *)
Written(c) == Block(1, c.script)
EndOf(c) == Len(c.script) + 1

(* Two codes written one after the other.                                  *)
LEMMA WrittenJoin ==
    ASSUME NEW u \in Codes, NEW code \in Codes, Block(1, u \o code)
    PROVE  /\ Block(1, u) /\ Block(Len(u) + 1, code) /\ Len(u) \in Nat /\ Len(code) \in Nat
           /\ Len(u \o code) + 1 = (Len(u) + 1) + Len(code)
           /\ Len(u \o code) + 1 \in 1 .. Len(Script) + 1
<1> DEFINE p == 1
<1>1. Block(p, u \o code)
    OBVIOUS
<1>2. /\ Block(p, u) /\ Block(p + Len(u), code) /\ u \o code \in Codes
      /\ Len(u \o code) = Len(u) + Len(code) /\ Len(u) \in Nat /\ Len(code) \in Nat
  <2> HIDE DEF p
  <2> QED BY <1>1, BlockSplits
<1>3. p + Len(u) = Len(u) + 1
    BY <1>2
<1>4. Len(Script) \in Nat /\ 1 + Len(u \o code) - 1 <= Len(Script)
    BY DEF Block
<1> QED BY <1>2, <1>3, <1>4

(* Code emitted stands where the code before it ends.                      *)
LEMMA WrittenEmit ==
    ASSUME NEW c, NEW lo, NEW hi, NEW len, Keeps(c, lo, hi, len), NEW code \in Codes,
           Written(Emit(c, code))
    PROVE  /\ Written(c) /\ Block(EndOf(c), code) /\ EndOf(c) \in Nat \ {0} /\ Len(code) \in Nat
           /\ EndOf(Emit(c, code)) = EndOf(c) + Len(code)
           /\ EndOf(Emit(c, code)) \in 1 .. Len(Script) + 1
<1>1. c.script \in Codes
    BY DEF Keeps, Compilers
<1>2. Emit(c, code).script = c.script \o code
    BY KeepsEmit
<1> DEFINE u == c.script
<1>3. Block(1, u \o code)
    BY <1>2 DEF Written
<1> HIDE DEF u
<1>4. u \in Codes
    BY <1>1 DEF u
<1>5. /\ Block(1, u) /\ Block(Len(u) + 1, code) /\ Len(u) \in Nat /\ Len(code) \in Nat
      /\ Len(u \o code) + 1 = (Len(u) + 1) + Len(code)
      /\ Len(u \o code) + 1 \in 1 .. Len(Script) + 1
    BY <1>3, <1>4, WrittenJoin
<1>6. Len(u) + 1 \in Nat \ {0}
    BY <1>5
<1> QED BY <1>2, <1>5, <1>6 DEF Written, EndOf, u

(* So does the code of a roll.                                             *)
LEMMA WrittenRoll ==
    ASSUME NEW c, NEW lo, NEW hi, NEW len, Keeps(c, lo, hi, len), NEW h \in lo .. hi,
           Written(Roll(c, Names(T)[h]))
    PROVE  /\ Written(c) /\ Block(EndOf(c), RollCode(len - (h - lo + 1), Names(T)[h]))
           /\ EndOf(c) \in Nat \ {0} /\ EndOf(Roll(c, Names(T)[h])) = EndOf(c) + 2
           /\ EndOf(Roll(c, Names(T)[h])) \in 1 .. Len(Script) + 1
<1>1. c.script \in Codes
    BY DEF Keeps, Compilers
<1> DEFINE code == RollCode(len - (h - lo + 1), Names(T)[h])
<1>2. Roll(c, Names(T)[h]).script = c.script \o code /\ code \in Codes
    BY RollScript
<1>7. Len(code) = 2
    BY DEF RollCode
<1> HIDE DEF code
<1> DEFINE u == c.script
<1>3. Block(1, u \o code)
    BY <1>2 DEF Written
<1> HIDE DEF u
<1>4. u \in Codes
    BY <1>1 DEF u
<1>5. /\ Block(1, u) /\ Block(Len(u) + 1, code) /\ Len(u) \in Nat /\ Len(code) \in Nat
      /\ Len(u \o code) + 1 = (Len(u) + 1) + Len(code)
      /\ Len(u \o code) + 1 \in 1 .. Len(Script) + 1
    BY <1>2, <1>3, <1>4, WrittenJoin
<1>6. Len(u) + 1 \in Nat \ {0}
    BY <1>5
<1> QED BY <1>2, <1>5, <1>6, <1>7 DEF Written, EndOf, u, code

(* Renaming writes nothing.                                                *)
LEMMA WrittenRenamed ==
    ASSUME NEW c, NEW lo, NEW hi, NEW len, Keeps(c, lo, hi, len),
           NEW n \in Nat, n <= len - (hi - lo + 1), NEW names \in Seq(Labels)
    PROVE  /\ Written(Renamed(c, n, names)) <=> Written(c)
           /\ EndOf(Renamed(c, n, names)) = EndOf(c)
BY KeepsRenamed DEF Written, EndOf

(* Fewer names are kept.                                                   *)
LEMMA KeepsLess ==
    ASSUME NEW c, NEW lo, NEW hi, NEW len, Keeps(c, lo, hi, len), NEW h \in lo - 1 .. hi
    PROVE  Keeps(c, lo, h, len)
<1>1. /\ lo \in Nat \ {0} /\ hi \in Nat /\ len \in Nat /\ hi >= lo - 1 /\ len >= hi - lo + 1
      /\ T \in Nat /\ hi <= 3 * T + 4
    BY DEF Keeps
<1>2. /\ h \in Nat /\ h >= lo - 1 /\ h <= 3 * T + 4 /\ len >= h - lo + 1
      /\ \A i \in 1 .. h - lo + 1 : i \in 1 .. hi - lo + 1
    BY <1>1
<1> QED BY <1>2 DEF Keeps

-----------------------------------------------------------------------------
(* What a table's spend supplies, and a stack on elements of it.           *)
HorsGiven == /\ N \in Nat /\ T \in Nat \ {0} /\ witness \in Stacks /\ Len(witness) = 3 * T + 4
             /\ Puzzle \in {"hash-to-der", "signature-size-surrogate"}
Under(lo, hi, r) == SubSeq(witness, lo, hi) \o r
Spans(lo, hi) == lo \in Nat \ {0} /\ hi \in Nat /\ hi >= lo - 1 /\ hi <= 3 * T + 4

(* The stack as part of the witness with other elements on it.             *)
LEMMA UnderIs ==
    ASSUME HorsGiven, NEW lo, NEW hi, Spans(lo, hi), NEW r \in Stacks
    PROVE  /\ Under(lo, hi, r) \in Stacks /\ Len(Under(lo, hi, r)) = (hi - lo + 1) + Len(r)
           /\ Len(r) \in Nat /\ hi - lo + 1 \in Nat
           /\ \A i \in 1 .. hi - lo + 1 : Under(lo, hi, r)[i] = witness[lo + i - 1]
           /\ \A i \in 1 .. Len(r) : Under(lo, hi, r)[(hi - lo + 1) + i] = r[i]
<1> DEFINE u == SubSeq(witness, lo, hi)
<1>1. /\ T \in Nat /\ witness \in Seq(Elements) /\ Len(witness) = 3 * T + 4
      /\ lo \in Nat \ {0} /\ hi \in Nat /\ hi >= lo - 1 /\ hi <= 3 * T + 4
    BY DEF HorsGiven, Spans, Stacks
<1>2. \A i \in lo .. hi : witness[i] \in Elements
  <2> TAKE i \in lo .. hi
  <2>1. i \in 1 .. Len(witness)
      BY <1>1
  <2> QED BY <1>1, <2>1, ElementOfSeq
<1>3. /\ u \in Seq(Elements) /\ Len(u) = IF lo <= hi THEN hi - lo + 1 ELSE 0
      /\ \A i \in 1 .. hi - lo + 1 : u[i] = witness[lo + i - 1]
  <2>1. lo \in Int /\ hi \in Int
      BY <1>1
  <2> QED BY ONLY <1>2, <2>1, SubSeqProperties
<1> HIDE DEF u
<1>4. Len(u) = hi - lo + 1 /\ hi - lo + 1 \in Nat
    BY <1>1, <1>3
<1>5. /\ u \o r \in Seq(Elements) /\ Len(u \o r) = Len(u) + Len(r) /\ Len(r) \in Nat
      /\ \A i \in 1 .. Len(u) : (u \o r)[i] = u[i]
      /\ \A i \in 1 .. Len(r) : (u \o r)[Len(u) + i] = r[i]
  <2>1. u \in Seq(Elements) /\ r \in Seq(Elements)
      BY <1>3 DEF Stacks
  <2> QED BY ONLY <2>1, JoinEntries
<1>6. Under(lo, hi, r) = u \o r
    BY DEF Under, u
<1> DEFINE y == u \o r
<1> HIDE DEF y
<1>7. Under(lo, hi, r) = y
    BY <1>6 DEF y
<1>8. /\ y \in Stacks /\ Len(y) = (hi - lo + 1) + Len(r) /\ Len(r) \in Nat
      /\ \A i \in 1 .. hi - lo + 1 : y[i] = u[i]
      /\ \A i \in 1 .. Len(r) : y[(hi - lo + 1) + i] = r[i]
    BY <1>4, <1>5 DEF y, Stacks
<1> QED BY <1>3, <1>4, <1>7, <1>8

(* Pushing on such a stack.                                                *)
LEMMA UnderPush ==
    ASSUME HorsGiven, NEW lo, NEW hi, Spans(lo, hi), NEW r \in Stacks, NEW x \in Elements
    PROVE  Under(lo, hi, r ++ x) = Under(lo, hi, r) ++ x
<1> DEFINE u == SubSeq(witness, lo, hi)
<1>1. r \in Seq(Elements) /\ <<x>> \in Seq(Elements)
    BY DEF Stacks
<1>2. u \in Seq(Elements)
  <2>1. \A i \in lo .. hi : witness[i] \in Elements
    <3> TAKE i \in lo .. hi
    <3>1. i \in 1 .. Len(witness) /\ witness \in Seq(Elements)
        BY DEF HorsGiven, Spans, Stacks
    <3> QED BY <3>1, ElementOfSeq
  <2>2. lo \in Int /\ hi \in Int
      BY DEF Spans
  <2> QED BY ONLY <2>1, <2>2, SubSeqProperties
<1> HIDE DEF u
<1>3. r ++ x = r \o <<x>>
    BY PushedOnce
<1>4. u \o (r \o <<x>>) = (u \o r) \o <<x>>
    BY <1>1, <1>2, ConcatAssociative
<1>5. u \o r \in Stacks
    BY <1>1, <1>2, ConcatProperties DEF Stacks
<1>6. (u \o r) \o <<x>> = (u \o r) ++ x
    BY <1>5, PushedOnce
<1> QED BY <1>3, <1>4, <1>6 DEF Under, u

(* A named element is fetched from where the script counts it.             *)
LEMMA RollCodeRuns ==
    ASSUME NEW p, NEW d, NEW name \in Named, Block(p, RollCode(d, name)),
           NEW s \in Stacks, NEW a, d \in 0 .. Len(s) - 1, s[Len(s) - d] = Supplied(name),
           Trace[p] = State(s, a, <<>>)
    PROVE  Trace[p + 2] = State(RemoveAt(s, Len(s) - d) ++ s[Len(s) - d], a, <<>>)
<1>1. Len(s) \in Nat /\ d \in Int
    BY LenProperties DEF Stacks
<1> DEFINE code == RollCode(d, name)
<1>2. Len(code) = 2 /\ code[1] = PushNum(d) /\ code[2] = Instruction("ROLL", Junk, name)
    BY DEF RollCode
<1>3. Block(p, code)
    OBVIOUS
<1> HIDE DEF code
<1>4. PushNum(d).op = "PUSH" /\ PushNum(d).arg = Num(d) /\ Num(d) \in Elements
      /\ Num(d).kind = "num" /\ Num(d).n = d
    BY <1>1, PushNumIs, NumberIs
<1>5. /\ Instruction("ROLL", Junk, name).op = "ROLL" /\ Instruction("ROLL", Junk, name).name = name
  <2>1. "ROLL" \in Plain
      BY DEF Plain
  <2> QED BY <2>1, InstructionIs, Constants
<1>6. p \in Nat /\ 1 \in 1 .. 2 /\ 2 \in 1 .. 2 /\ p = p + 1 - 1 /\ p + 1 = p + 2 - 1
      /\ (p + 1) + 1 = p + 2
    BY <1>3 DEF Block
<1>7. Script[p] = PushNum(d) /\ Reads(p, "PUSH")
  <2>1. Script[p] = code[1] /\ Reads(p, code[1].op)
      BY <1>2, <1>3, <1>6, BlockReads
  <2> QED BY <1>2, <1>4, <2>1
<1>8. Script[p + 1] = Instruction("ROLL", Junk, name) /\ Reads(p + 1, "ROLL")
  <2>1. Script[p + 1] = code[2] /\ Reads(p + 1, code[2].op)
      BY <1>2, <1>3, <1>6, BlockReads
  <2> QED BY <1>2, <1>5, <2>1
<1>9. Trace[p + 1] = State(s ++ Num(d), a, <<>>)
    BY <1>4, <1>7, NoneOn, RunPush
<1>10. Trace[(p + 1) + 1] = State(RemoveAt(s, Len(s) - d) ++ s[Len(s) - d], a, <<>>)
    BY <1>4, <1>5, <1>8, <1>9, NoneOn, RunRoll
<1> QED BY <1>6, <1>10

(* An element of the witness is taken from under others: the highest,      *)
(* or the lowest.                                                          *)
LEMMA UnderRemoved ==
    ASSUME HorsGiven, NEW lo, NEW hi, Spans(lo, hi), hi >= lo, NEW r \in Stacks
    PROVE  /\ RemoveAt(Under(lo, hi, r), hi - lo + 1) = Under(lo, hi - 1, r)
           /\ RemoveAt(Under(lo, hi, r), 1) = Under(lo + 1, hi, r)
           /\ Under(lo, hi, r)[hi - lo + 1] = witness[hi] /\ Under(lo, hi, r)[1] = witness[lo]
           /\ Spans(lo, hi - 1) /\ Spans(lo + 1, hi)
<1>1. lo \in Nat \ {0} /\ hi \in Nat /\ hi >= lo - 1 /\ hi <= 3 * T + 4 /\ T \in Nat
    BY DEF Spans, HorsGiven
<1>2. Spans(lo, hi - 1) /\ Spans(lo + 1, hi)
    BY <1>1 DEF Spans
<1> DEFINE y == Under(lo, hi, r)
<1> DEFINE u == Under(lo, hi - 1, r)
<1> DEFINE v == Under(lo + 1, hi, r)
<1>15. Len(r) \in Nat /\ hi - lo + 1 \in Nat
    BY UnderIs
<1>3. /\ y \in Stacks /\ Len(y) = (hi - lo + 1) + Len(r)
      /\ \A i \in 1 .. hi - lo + 1 : y[i] = witness[lo + i - 1]
      /\ \A i \in 1 .. Len(r) : y[(hi - lo + 1) + i] = r[i]
    BY UnderIs
<1>4. /\ u \in Stacks /\ Len(u) = ((hi - 1) - lo + 1) + Len(r)
      /\ \A i \in 1 .. (hi - 1) - lo + 1 : u[i] = witness[lo + i - 1]
      /\ \A i \in 1 .. Len(r) : u[((hi - 1) - lo + 1) + i] = r[i]
    BY <1>2, UnderIs
<1>5. /\ v \in Stacks /\ Len(v) = (hi - (lo + 1) + 1) + Len(r)
      /\ \A i \in 1 .. hi - (lo + 1) + 1 : v[i] = witness[(lo + 1) + i - 1]
      /\ \A i \in 1 .. Len(r) : v[(hi - (lo + 1) + 1) + i] = r[i]
    BY <1>2, UnderIs
<1> HIDE DEF y, u, v
<1> DEFINE d == hi - lo
<1> DEFINE m == Len(r)
<1>6. d \in Nat /\ hi - lo + 1 = d + 1 /\ (hi - 1) - lo + 1 = d /\ hi - (lo + 1) + 1 = d
      /\ m \in Nat
    BY <1>1, <1>15
<1>7. Len(y) = d + 1 + m /\ Len(u) = d + m /\ Len(v) = d + m
    BY <1>3, <1>4, <1>5, <1>6
<1>8. /\ y[d + 1] = witness[hi] /\ y[1] = witness[lo]
  <2>1. d + 1 \in 1 .. hi - lo + 1 /\ 1 \in 1 .. hi - lo + 1 /\ lo + (d + 1) - 1 = hi
        /\ lo + 1 - 1 = lo
      BY <1>1, <1>6
  <2> QED BY <1>3, <2>1
<1>9. /\ RemoveAt(y, d + 1) \in Seq(Elements) /\ Len(RemoveAt(y, d + 1)) = d + m
      /\ \A i \in 1 .. (d + 1) - 1 : RemoveAt(y, d + 1)[i] = y[i]
      /\ \A i \in d + 1 .. d + m : RemoveAt(y, d + 1)[i] = y[i + 1]
  <2>1. y \in Seq(Elements) /\ d + 1 \in 1 .. Len(y) /\ Len(y) - 1 = d + m
      BY <1>3, <1>6, <1>7 DEF Stacks
  <2> DEFINE k == d + 1
  <2> HIDE DEF k
  <2>2. k \in 1 .. Len(y)
      BY <2>1 DEF k
  <2>3. /\ RemoveAt(y, k) \in Seq(Elements) /\ Len(RemoveAt(y, k)) = Len(y) - 1
        /\ \A i \in 1 .. k - 1 : RemoveAt(y, k)[i] = y[i]
        /\ \A i \in k .. Len(y) - 1 : RemoveAt(y, k)[i] = y[i + 1]
      BY ONLY <2>1, <2>2, RemovedIs
  <2> QED BY <2>1, <2>3 DEF k
<1>10. /\ RemoveAt(y, 1) \in Seq(Elements) /\ Len(RemoveAt(y, 1)) = d + m
       /\ \A i \in 1 .. d + m : RemoveAt(y, 1)[i] = y[i + 1]
  <2>1. y \in Seq(Elements) /\ Len(y) - 1 = d + m
      BY <1>3, <1>6, <1>7 DEF Stacks
  <2> DEFINE k == 1
  <2>2. k \in 1 .. Len(y)
      BY <1>6, <1>7
  <2> HIDE DEF k
  <2>3. /\ RemoveAt(y, k) \in Seq(Elements) /\ Len(RemoveAt(y, k)) = Len(y) - 1
        /\ \A i \in k .. Len(y) - 1 : RemoveAt(y, k)[i] = y[i + 1]
      BY ONLY <2>1, <2>2, RemovedIs
  <2> QED BY <2>1, <2>3 DEF k
<1>11. \A i \in 1 .. d + m : RemoveAt(y, d + 1)[i] = u[i]
  <2> TAKE i \in 1 .. d + m
  <2>1. CASE i <= d
    <3>1. i \in 1 .. (d + 1) - 1 /\ i \in 1 .. hi - lo + 1 /\ i \in 1 .. (hi - 1) - lo + 1
        BY <1>6, <2>1
    <3> QED BY <1>3, <1>4, <1>9, <3>1
  <2>2. CASE i > d
    <3>1. i \in d + 1 .. d + m /\ i - d \in 1 .. Len(r) /\ (d + 1) + (i - d) = i + 1
          /\ d + (i - d) = i
        BY <1>6, <2>2
    <3>2. y[(d + 1) + (i - d)] = r[i - d]
        BY <1>3, <1>6, <3>1
    <3>3. u[d + (i - d)] = r[i - d]
        BY <1>4, <1>6, <3>1
    <3> QED BY <1>9, <3>1, <3>2, <3>3
  <2> QED BY <1>6, <2>1, <2>2
<1>12. \A i \in 1 .. d + m : RemoveAt(y, 1)[i] = v[i]
  <2> TAKE i \in 1 .. d + m
  <2>1. CASE i <= d
    <3>1. i + 1 \in 1 .. hi - lo + 1 /\ i \in 1 .. hi - (lo + 1) + 1
          /\ lo + (i + 1) - 1 = (lo + 1) + i - 1
        BY <1>1, <1>6, <2>1
    <3>2. y[i + 1] = witness[lo + (i + 1) - 1] /\ v[i] = witness[(lo + 1) + i - 1]
        BY <1>3, <1>5, <3>1
    <3> QED BY <1>10, <3>1, <3>2
  <2>2. CASE i > d
    <3>1. i - d \in 1 .. Len(r) /\ (d + 1) + (i - d) = i + 1 /\ d + (i - d) = i
        BY <1>6, <2>2
    <3>2. y[(d + 1) + (i - d)] = r[i - d]
        BY <1>3, <1>6, <3>1
    <3>3. v[d + (i - d)] = r[i - d]
        BY <1>5, <1>6, <3>1
    <3> QED BY <1>10, <3>1, <3>2, <3>3
  <2> QED BY <1>6, <2>1, <2>2
<1>13. RemoveAt(y, d + 1) = u /\ RemoveAt(y, 1) = v
  <2>1. u \in Seq(Elements) /\ v \in Seq(Elements)
      BY <1>4, <1>5 DEF Stacks
  <2> HIDE DEF d, m
  <2>2. RemoveAt(y, d + 1) = u
      BY <1>7, <1>9, <1>11, <2>1, SeqEqual
  <2>3. RemoveAt(y, 1) = v
      BY <1>7, <1>10, <1>12, <2>1, SeqEqual
  <2> QED BY <2>2, <2>3
<1> HIDE DEF d, m
<1>14. RemoveAt(y, hi - lo + 1) = u /\ y[hi - lo + 1] = witness[hi]
    BY <1>6, <1>8, <1>13
<1> QED BY <1>2, <1>8, <1>13, <1>14 DEF y, u, v

(* The elements of a witness.                                              *)
LEMMA WitnessIs ==
    ASSUME HorsGiven, NEW h \in 1 .. 3 * T + 4
    PROVE  witness[h] \in Elements
<1>1. witness \in Seq(Elements) /\ h \in 1 .. Len(witness)
    BY DEF HorsGiven, Stacks
<1> QED BY <1>1, ElementOfSeq

(* A roll() of the compiler fetches the highest, or the lowest, element    *)
(* that is left of the witness.                                            *)
LEMMA RollTopRuns ==
    ASSUME HorsGiven, NEW c, NEW lo, NEW hi, NEW len, Keeps(c, lo, hi, len), hi >= lo,
           Written(Roll(c, Names(T)[hi])), NEW r \in Stacks, len = (hi - lo + 1) + Len(r),
           NEW a, Trace[EndOf(c)] = State(Under(lo, hi, r), a, <<>>)
    PROVE  Trace[EndOf(Roll(c, Names(T)[hi]))] =
             State(Under(lo, hi - 1, r ++ witness[hi]), a, <<>>)
<1>1. /\ T \in Nat /\ len \in Nat /\ lo \in Nat \ {0} /\ hi \in Nat /\ hi <= 3 * T + 4
      /\ len >= hi - lo + 1 /\ Len(r) \in Nat /\ hi >= lo - 1
    BY LenProperties DEF Keeps, Stacks
<1>2. hi \in lo .. hi /\ hi \in 1 .. 3 * T + 4 /\ Spans(lo, hi)
    BY <1>1 DEF Spans
<1>3. /\ Block(EndOf(c), RollCode(len - (hi - lo + 1), Names(T)[hi]))
      /\ EndOf(Roll(c, Names(T)[hi])) = EndOf(c) + 2
    BY <1>2, WrittenRoll
<1>4. Names(T)[hi] \in Named
  <2>1. Names(T) \in Seq(Named) /\ hi \in 1 .. Len(Names(T))
      BY <1>1, <1>2, NamesAre
  <2> QED BY <2>1, ElementOfSeq
<1>5. witness[hi] = Supplied(Names(T)[hi]) /\ witness[hi] \in Elements
    BY <1>1, <1>2, SuppliedIs, WitnessIs
<1> DEFINE s == Under(lo, hi, r)
<1> DEFINE d == len - (hi - lo + 1)
<1>6. s \in Stacks /\ Len(s) = (hi - lo + 1) + Len(r)
    BY <1>2, UnderIs
<1>7. /\ RemoveAt(s, hi - lo + 1) = Under(lo, hi - 1, r) /\ s[hi - lo + 1] = witness[hi]
      /\ Spans(lo, hi - 1)
    BY <1>2, UnderRemoved
<1>11. Trace[EndOf(c)] = State(s, a, <<>>) /\ Block(EndOf(c), RollCode(d, Names(T)[hi]))
    BY <1>3
<1> HIDE DEF s
<1>8. d \in 0 .. Len(s) - 1 /\ Len(s) - d = hi - lo + 1
    BY <1>1, <1>6
<1> HIDE DEF d
<1>9. Trace[EndOf(c) + 2] = State(RemoveAt(s, Len(s) - d) ++ s[Len(s) - d], a, <<>>)
  <2>1. s[Len(s) - d] = Supplied(Names(T)[hi])
      BY <1>5, <1>7, <1>8
  <2> QED BY <1>4, <1>6, <1>8, <1>11, <2>1, RollCodeRuns
<1>10. Under(lo, hi - 1, r ++ witness[hi]) = Under(lo, hi - 1, r) ++ witness[hi]
    BY <1>5, <1>7, UnderPush
<1> QED BY <1>3, <1>7, <1>8, <1>9, <1>10

(* A roll fetches the lowest element of the witness part.                  *)
LEMMA RollLowRuns ==
    ASSUME HorsGiven, NEW c, NEW lo, NEW hi, NEW len, Keeps(c, lo, hi, len), hi >= lo,
           Written(Roll(c, Names(T)[lo])), NEW r \in Stacks, len = (hi - lo + 1) + Len(r),
           NEW a, Trace[EndOf(c)] = State(Under(lo, hi, r), a, <<>>)
    PROVE  Trace[EndOf(Roll(c, Names(T)[lo]))] =
             State(Under(lo + 1, hi, r ++ witness[lo]), a, <<>>)
<1>1. /\ T \in Nat /\ len \in Nat /\ lo \in Nat \ {0} /\ hi \in Nat /\ hi <= 3 * T + 4
      /\ len >= hi - lo + 1 /\ Len(r) \in Nat /\ hi >= lo - 1
    BY LenProperties DEF Keeps, Stacks
<1>2. lo \in lo .. hi /\ lo \in 1 .. 3 * T + 4 /\ Spans(lo, hi)
    BY <1>1 DEF Spans
<1>3. /\ Block(EndOf(c), RollCode(len - (lo - lo + 1), Names(T)[lo]))
      /\ EndOf(Roll(c, Names(T)[lo])) = EndOf(c) + 2
    BY <1>2, WrittenRoll
<1>4. Names(T)[lo] \in Named
  <2>1. Names(T) \in Seq(Named) /\ lo \in 1 .. Len(Names(T))
      BY <1>1, <1>2, NamesAre
  <2> QED BY <2>1, ElementOfSeq
<1>5. witness[lo] = Supplied(Names(T)[lo]) /\ witness[lo] \in Elements
    BY <1>1, <1>2, SuppliedIs, WitnessIs
<1> DEFINE s == Under(lo, hi, r)
<1> DEFINE d == len - (lo - lo + 1)
<1>6. s \in Stacks /\ Len(s) = (hi - lo + 1) + Len(r)
    BY <1>2, UnderIs
<1>7. RemoveAt(s, 1) = Under(lo + 1, hi, r) /\ s[1] = witness[lo] /\ Spans(lo + 1, hi)
    BY <1>2, UnderRemoved
<1>11. Trace[EndOf(c)] = State(s, a, <<>>) /\ Block(EndOf(c), RollCode(d, Names(T)[lo]))
    BY <1>3
<1> HIDE DEF s
<1>8. d \in 0 .. Len(s) - 1 /\ Len(s) - d = 1
    BY <1>1, <1>6
<1> HIDE DEF d
<1>9. Trace[EndOf(c) + 2] = State(RemoveAt(s, Len(s) - d) ++ s[Len(s) - d], a, <<>>)
  <2>1. s[Len(s) - d] = Supplied(Names(T)[lo])
      BY <1>5, <1>7, <1>8
  <2> QED BY <1>4, <1>6, <1>8, <1>11, <2>1, RollCodeRuns
<1>10. Under(lo + 1, hi, r ++ witness[lo]) = Under(lo + 1, hi, r) ++ witness[lo]
    BY <1>5, <1>7, UnderPush
<1> QED BY <1>3, <1>7, <1>8, <1>9, <1>10

-----------------------------------------------------------------------------
(* One more of a sequence.                                                 *)
LEMMA OneMore ==
    ASSUME NEW s \in Stacks, NEW e \in Stacks, NEW k \in 1 .. Len(e)
    PROVE  s \o SubSeq(e, 1, k) = (s \o SubSeq(e, 1, k - 1)) ++ e[k]
<1>1. /\ e \in Seq(Elements) /\ Len(e) \in Nat /\ \A i \in 1 .. Len(e) : e[i] \in Elements
    BY LenProperties, ElementOfSeq DEF Stacks
<1> DEFINE u == SubSeq(e, 1, k - 1)
<1> DEFINE v == SubSeq(e, 1, k)
<1>2. k - 1 \in 0 .. Len(e) /\ k \in 0 .. Len(e) /\ k \in Nat
    BY <1>1
<1>3. u \in Seq(Elements) /\ Len(u) = k - 1 /\ \A i \in 1 .. k - 1 : u[i] = e[i]
    BY <1>1, <1>2, SubSeqProperties
<1>4. v \in Seq(Elements) /\ Len(v) = k /\ \A i \in 1 .. k : v[i] = e[i]
    BY <1>1, <1>2, SubSeqProperties
<1> HIDE DEF u, v
<1>5. v = u ++ e[k]
  <2>1. /\ u ++ e[k] \in Stacks /\ Len(u ++ e[k]) = k /\ (u ++ e[k])[k] = e[k]
        /\ \A i \in 1 .. k - 1 : (u ++ e[k])[i] = u[i]
    <3> DEFINE x == e[k]
    <3>1. x \in Elements /\ u \in Stacks /\ (k - 1) + 1 = k
        BY <1>1, <1>2, <1>3 DEF Stacks
    <3> HIDE DEF x
    <3>2. /\ u ++ x \in Stacks /\ Len(u ++ x) = Len(u) + 1 /\ (u ++ x)[Len(u) + 1] = x
          /\ \A i \in 1 .. Len(u) : (u ++ x)[i] = u[i]
        BY <3>1, Pushed
    <3> QED BY <1>3, <3>1, <3>2 DEF x
  <2> DEFINE y == u ++ e[k]
  <2> HIDE DEF y
  <2>2. y \in Seq(Elements) /\ Len(y) = k /\ \A i \in 1 .. k : y[i] = v[i]
    <3>1. y \in Seq(Elements) /\ Len(y) = k /\ y[k] = e[k] /\ \A i \in 1 .. k - 1 : y[i] = u[i]
        BY <2>1 DEF y, Stacks
    <3>2. \A i \in 1 .. k : i = k \/ i \in 1 .. k - 1
        BY <1>2
    <3> QED BY <1>3, <1>4, <3>1, <3>2
  <2>3. y = v
      BY <1>4, <2>2, SeqEqual
  <2> QED BY <2>3 DEF y
<1>6. s \o (u \o <<e[k]>>) = (s \o u) \o <<e[k]>>
  <2>1. s \in Seq(Elements) /\ <<e[k]>> \in Seq(Elements)
      BY <1>1 DEF Stacks
  <2> QED BY <1>3, <2>1, ConcatAssociative
<1>7. u \o <<e[k]>> = u ++ e[k] /\ (s \o u) \o <<e[k]>> = (s \o u) ++ e[k]
  <2>1. u \in Stacks /\ s \o u \in Stacks /\ e[k] \in Elements
      BY <1>1, <1>3, ConcatProperties DEF Stacks
  <2> QED BY <2>1, PushedOnce
<1> QED BY <1>5, <1>6, <1>7 DEF u, v

(* All and nothing of a sequence.                                          *)
LEMMA NoMore ==
    ASSUME NEW s \in Stacks, NEW e \in Stacks
    PROVE  /\ SubSeq(e, 1, 0) = <<>> /\ s \o SubSeq(e, 1, 0) = s
           /\ s \o SubSeq(e, 1, Len(e)) = s \o e /\ SubSeq(e, 1, Len(e)) = e
<1>1. SubSeq(e, 1, 0) = <<>>
    BY SubSeqEmpty
<1>2. s \o SubSeq(e, 1, 0) = s
    BY <1>1, PushedNone
<1>3. SubSeq(e, 1, Len(e)) = e
    BY SubSeqFull DEF Stacks
<1> QED BY <1>1, <1>2, <1>3

(* Code that only pushes.                                                  *)
LEMMA PushesRun ==
    ASSUME NEW p, NEW code, NEW e \in Stacks, Len(code) = Len(e), Block(p, code),
           \A i \in 1 .. Len(e) : code[i].op = "PUSH" /\ code[i].arg = e[i],
           NEW s \in Stacks, NEW a, Trace[p] = State(s, a, <<>>)
    PROVE  Trace[p + Len(code)] = State(s \o e, a, <<>>)
<1>1. /\ Len(e) \in Nat /\ \A i \in 1 .. Len(e) : e[i] \in Elements
      /\ p \in Nat \ {0}
    BY LenProperties, ElementOfSeq DEF Stacks, Block
<1> DEFINE Good(k) == Trace[p + k] = State(s \o SubSeq(e, 1, k), a, <<>>)
<1>2. Good(0)
  <2>1. p + 0 = p
      BY <1>1
  <2> QED BY <2>1, NoMore
<1>3. ASSUME NEW k \in 1 .. Len(e), Good(k - 1)
      PROVE  Good(k)
  <2>1. k \in 1 .. Len(code) /\ p + (k - 1) = p + k - 1 /\ (p + (k - 1)) + 1 = p + k
      BY <1>1
  <2>2. Script[p + (k - 1)] = code[k] /\ Reads(p + (k - 1), code[k].op)
      BY <2>1, BlockReads
  <2>3. Reads(p + (k - 1), "PUSH") /\ Script[p + (k - 1)].arg = e[k] /\ e[k] \in Elements
      BY <1>1, <2>2
  <2>4. s \o SubSeq(e, 1, k - 1) \in Stacks
    <3>1. \A i \in 1 .. k - 1 : e[i] \in Elements
        BY <1>1
    <3>2. SubSeq(e, 1, k - 1) \in Seq(Elements)
        BY <1>1, <3>1, SubSeqProperties
    <3> QED BY <3>2, ConcatProperties DEF Stacks
  <2>5. Trace[(p + (k - 1)) + 1] = State((s \o SubSeq(e, 1, k - 1)) ++ e[k], a, <<>>)
      BY <1>3, <2>3, <2>4, NoneOn, RunPush
  <2> QED BY <2>1, <2>5, OneMore
<1>4. \A k \in 0 .. Len(e) : Good(k)
  <2> DEFINE Bad == {k \in 0 .. Len(e) : ~Good(k)}
  <2> HIDE DEF Good
  <2> SUFFICES ASSUME Bad # {} PROVE FALSE
      OBVIOUS
  <2>1. Bad \in SUBSET Nat
      BY <1>1
  <2>2. PICK k \in Bad : \A i \in Bad : k <= i
    <3> HIDE DEF Bad
    <3> QED BY <2>1, LeastMember
  <2>3. k # 0 /\ k \in 1 .. Len(e) /\ k - 1 \in 0 .. Len(e) /\ ~(k <= k - 1)
      BY <1>1, <1>2, <2>2
  <2>4. Good(k - 1)
      BY <2>2, <2>3
  <2> QED BY <1>3, <2>2, <2>3, <2>4
<1>5. Good(Len(e))
    BY <1>1, <1>4
<1> QED BY <1>5, NoMore

(* The elements that a table pushes.                                       *)
Entries(n) == FlattenSeq([i \in 1 .. n |-> <<Dummy(n - i), Commitment(n - i)>>])

(* The elements of the table.                                              *)
LEMMA EntryIs ==
    ASSUME NEW n \in Int
    PROVE  Dummy(n) \in Elements /\ Commitment(n) \in Elements
<1>1. "dummy" \in Kinds /\ "commitment" \in Kinds /\ {} \in SUBSET Int
    BY DEF Kinds
<1> QED BY <1>1, ElementIs DEF Dummy, Commitment

(* The table on the stack: dummies below their commitments.                *)
LEMMA EntriesAre ==
    ASSUME NEW n \in Nat
    PROVE  /\ Entries(n) \in Stacks /\ Len(Entries(n)) = 2 * n
           /\ \A i \in 1 .. n : /\ Entries(n)[2 * i - 1] = Dummy(n - i)
                                /\ Entries(n)[2 * i] = Commitment(n - i)
<1> DEFINE F == [i \in 1 .. n |-> <<Dummy(n - i), Commitment(n - i)>>]
<1>1. \A i \in 1 .. n : Dummy(n - i) \in Elements /\ Commitment(n - i) \in Elements
  <2>1. \A i \in 1 .. n : n - i \in Int
      OBVIOUS
  <2> QED BY <2>1, EntryIs
<1>2. /\ F \in Seq(Seq(Elements)) /\ Len(F) = n
      /\ \A i \in 1 .. n : /\ F[i][1] = Dummy(n - i) /\ F[i][2] = Commitment(n - i)
                           /\ Len(F[i]) = 2
    BY <1>1
<1>3. Entries(n) = FlattenSeq(F)
    BY DEF Entries
<1> HIDE DEF F
<1>4. /\ FlattenSeq(F) \in Seq(Elements) /\ Len(FlattenSeq(F)) = 2 * Len(F)
      /\ \A i \in 1 .. Len(F) : /\ FlattenSeq(F)[2 * i - 1] = F[i][1]
                                /\ FlattenSeq(F)[2 * i] = F[i][2]
    BY <1>2, PairsJoined
<1> QED BY <1>2, <1>3, <1>4 DEF Stacks

(* Even and odd places.                                                    *)
LEMMA Halves ==
    ASSUME NEW n \in Nat, NEW k \in 1 .. 2 * n
    PROVE  \E i \in 1 .. n : k = 2 * i - 1 \/ k = 2 * i
<1>1. k \div 2 \in Nat /\ (k = 2 * (k \div 2) \/ k = 2 * (k \div 2) + 1)
    OBVIOUS
<1>2. CASE k = 2 * (k \div 2)
  <2>1. k \div 2 \in 1 .. n
      BY <1>1, <1>2
  <2> QED BY <1>2, <2>1
<1>3. CASE k = 2 * (k \div 2) + 1
  <2>1. (k \div 2) + 1 \in 1 .. n /\ k = 2 * ((k \div 2) + 1) - 1
      BY <1>1, <1>3
  <2> QED BY <2>1
<1> QED BY <1>1, <1>2, <1>3

(* The code that pushes the table.                                         *)
LEMMA TableIs ==
    ASSUME NEW n \in Nat
    PROVE  /\ Table(n) \in Codes /\ Len(Table(n)) = 2 * n
           /\ \A k \in 1 .. 2 * n : Table(n)[k].op = "PUSH" /\ Table(n)[k].arg = Entries(n)[k]
           /\ TableNames(n) \in Seq(Labels) /\ Len(TableNames(n)) = 2 * n
<1> DEFINE F == [i \in 1 .. n |-> <<Push(Dummy(n - i)), Push(Commitment(n - i))>>]
<1> DEFINE G == [i \in 1 .. n |-> <<<<"dummy", n - i>>, <<"commit", n - i>>>>]
<1>1. \A i \in 1 .. n : /\ n - i \in Int
                        /\ Dummy(n - i) \in Elements /\ Commitment(n - i) \in Elements
  <2>1. \A i \in 1 .. n : n - i \in Int
      OBVIOUS
  <2> QED BY <2>1, EntryIs
<1>2. \A i \in 1 .. n : /\ Push(Dummy(n - i)) \in Instructions
                        /\ Push(Dummy(n - i)).op = "PUSH"
                        /\ Push(Dummy(n - i)).arg = Dummy(n - i)
                        /\ Push(Commitment(n - i)) \in Instructions
                        /\ Push(Commitment(n - i)).op = "PUSH"
                        /\ Push(Commitment(n - i)).arg = Commitment(n - i)
    BY <1>1, PushIs
<1>3. /\ F \in Seq(Seq(Instructions)) /\ Len(F) = n
      /\ \A i \in 1 .. n : /\ F[i][1] = Push(Dummy(n - i)) /\ F[i][2] = Push(Commitment(n - i))
                           /\ Len(F[i]) = 2
    BY <1>2
<1>4. Table(n) = FlattenSeq(F) /\ TableNames(n) = FlattenSeq(G)
    BY DEF Table, TableNames
<1>5. /\ G \in Seq(Seq(Labels)) /\ Len(G) = n /\ \A i \in 1 .. n : Len(G[i]) = 2
  <2>1. \A i \in 1 .. n : <<"dummy", n - i>> \in Labels /\ <<"commit", n - i>> \in Labels
      BY <1>1 DEF Labels
  <2> QED BY <2>1
<1> HIDE DEF F, G
<1>6. /\ FlattenSeq(F) \in Seq(Instructions) /\ Len(FlattenSeq(F)) = 2 * Len(F)
      /\ \A i \in 1 .. Len(F) : /\ FlattenSeq(F)[2 * i - 1] = F[i][1]
                                /\ FlattenSeq(F)[2 * i] = F[i][2]
    BY <1>3, PairsJoined
<1>7. FlattenSeq(G) \in Seq(Labels) /\ Len(FlattenSeq(G)) = 2 * Len(G)
    BY <1>5, PairsJoined
<1>8. \A k \in 1 .. 2 * n : Table(n)[k].op = "PUSH" /\ Table(n)[k].arg = Entries(n)[k]
  <2> TAKE k \in 1 .. 2 * n
  <2>1. PICK i \in 1 .. n : k = 2 * i - 1 \/ k = 2 * i
      BY Halves
  <2>2. /\ Table(n)[2 * i - 1] = Push(Dummy(n - i)) /\ Table(n)[2 * i] = Push(Commitment(n - i))
      BY <1>3, <1>4, <1>6
  <2> QED BY <1>2, <2>1, <2>2, EntriesAre
<1> QED BY <1>3, <1>4, <1>5, <1>6, <1>7, <1>8 DEF Codes

-----------------------------------------------------------------------------
(* Elements are put aside one by one, and put back.                        *)
Backwards(e) == [i \in 1 .. Len(e) |-> e[(Len(e) + 1) - i]]
Repeated(op, n) == [i \in 1 .. n |-> Op(op)]

(* A stack upside down.                                                    *)
LEMMA BackwardsIs ==
    ASSUME NEW e \in Stacks
    PROVE  /\ Backwards(e) \in Stacks /\ Len(Backwards(e)) = Len(e) /\ Len(e) \in Nat
           /\ \A i \in 1 .. Len(e) : Backwards(e)[i] = e[(Len(e) + 1) - i]
<1>1. Len(e) \in Nat /\ \A i \in 1 .. Len(e) : e[i] \in Elements
    BY LenProperties, ElementOfSeq DEF Stacks
<1>2. \A i \in 1 .. Len(e) : (Len(e) + 1) - i \in 1 .. Len(e)
    BY <1>1
<1>3. \A i \in 1 .. Len(e) : e[(Len(e) + 1) - i] \in Elements
    BY <1>1, <1>2
<1> DEFINE m == Len(e)
<1> DEFINE b == [i \in 1 .. m |-> e[(m + 1) - i]]
<1>4. b \in Seq(Elements) /\ Len(b) = m /\ \A i \in 1 .. m : b[i] = e[(m + 1) - i]
  <2>1. m \in Nat /\ \A i \in 1 .. m : e[(m + 1) - i] \in Elements
      BY <1>1, <1>3
  <2> HIDE DEF m
  <2> QED BY <2>1
<1> QED BY <1>1, <1>4 DEF Backwards, Stacks

(* One opcode, many times.                                                 *)
LEMMA RepeatedIs ==
    ASSUME NEW op \in Plain, NEW n \in Nat
    PROVE  /\ Repeated(op, n) \in Codes /\ Len(Repeated(op, n)) = n
           /\ \A i \in 1 .. n : Repeated(op, n)[i].op = op
<1>1. Op(op) \in Instructions /\ Op(op).op = op
    BY OpIs
<1> DEFINE x == Op(op)
<1>2. x \in Instructions /\ x.op = op
    BY <1>1
<1>3. Repeated(op, n) = [i \in 1 .. n |-> x]
    BY DEF Repeated
<1> HIDE DEF x
<1> QED BY <1>2, <1>3 DEF Codes

(* A stack with some of another on it.                                     *)
LEMMA CutIs ==
    ASSUME NEW s \in Stacks, NEW e \in Stacks, NEW k \in 0 .. Len(e)
    PROVE  s \o SubSeq(e, 1, k) \in Stacks
<1>1. Len(e) \in Nat /\ \A i \in 1 .. Len(e) : e[i] \in Elements
    BY LenProperties, ElementOfSeq DEF Stacks
<1>2. \A i \in 1 .. k : e[i] \in Elements
    BY <1>1
<1>3. SubSeq(e, 1, k) \in Seq(Elements)
    BY <1>1, <1>2, SubSeqProperties
<1> QED BY <1>3, ConcatProperties DEF Stacks

(* As many TOALT as there are elements put them aside upside down.         *)
LEMMA ToAltsRun ==
    ASSUME NEW p, NEW s \in Stacks, NEW a \in Stacks, NEW e \in Stacks,
           Block(p, Repeated("TOALT", Len(e))), Trace[p] = State(s \o e, a, <<>>)
    PROVE  Trace[p + Len(e)] = State(s, a \o Backwards(e), <<>>)
<1> DEFINE b == Backwards(e)
<1> DEFINE t == Len(e)
<1> DEFINE code == Repeated("TOALT", Len(e))
<1>1. /\ b \in Stacks /\ Len(b) = t /\ t \in Nat /\ \A i \in 1 .. t : b[i] = e[(t + 1) - i]
    BY BackwardsIs
<1>2. code \in Codes /\ Len(code) = t /\ \A i \in 1 .. t : code[i].op = "TOALT"
  <2>1. "TOALT" \in Plain
      BY DEF Plain
  <2> QED BY <1>1, <2>1, RepeatedIs
<1>3. Block(p, code) /\ p \in Nat
    BY DEF Block
<1>4. \A i \in 1 .. t : e[i] \in Elements
    BY ElementOfSeq DEF Stacks
<1>9. t = Len(e)
    OBVIOUS
<1> HIDE DEF b, t, code
<1> DEFINE Good(k) ==
        Trace[p + k] = State(s \o SubSeq(e, 1, t - k), a \o SubSeq(b, 1, k), <<>>)
<1>5. Good(0)
  <2>1. p + 0 = p /\ t - 0 = t
      BY <1>1, <1>3
  <2>2. s \o SubSeq(e, 1, t) = s \o e /\ a \o SubSeq(b, 1, 0) = a
      BY <1>1, <1>9, NoMore
  <2> QED BY <2>1, <2>2
<1>6. ASSUME NEW k \in 1 .. t, Good(k - 1)
      PROVE  Good(k)
  <2> DEFINE m == (t + 1) - k
  <2>1. /\ m \in 1 .. t /\ t - (k - 1) = m /\ m - 1 = t - k /\ t - k \in 0 .. t /\ k - 1 \in 0 .. t
        /\ p + (k - 1) = p + k - 1 /\ (p + (k - 1)) + 1 = p + k
      BY <1>1, <1>3
  <2>2. Reads(p + (k - 1), "TOALT")
    <3>1. k \in 1 .. Len(code)
        BY <1>2
    <3>2. Reads(p + (k - 1), code[k].op)
        BY <1>3, <2>1, <3>1, BlockReads
    <3> QED BY <1>2, <3>2
  <2> HIDE DEF m
  <2>3. s \o SubSeq(e, 1, m) = (s \o SubSeq(e, 1, m - 1)) ++ e[m]
      BY <1>9, <2>1, OneMore
  <2>4. a \o SubSeq(b, 1, k) = (a \o SubSeq(b, 1, k - 1)) ++ b[k]
      BY <1>1, OneMore
  <2>5. b[k] = e[m] /\ e[m] \in Elements
      BY <1>1, <1>4, <2>1 DEF m
  <2>6. s \o SubSeq(e, 1, t - k) \in Stacks
      BY <1>9, <2>1, CutIs
  <2>7. Trace[p + (k - 1)] = State((s \o SubSeq(e, 1, t - k)) ++ e[m], a \o SubSeq(b, 1, k - 1),
        <<>>)
      BY <1>6, <2>1, <2>3
  <2>8. Trace[(p + (k - 1)) + 1] = State(s \o SubSeq(e, 1, t - k),
        (a \o SubSeq(b, 1, k - 1)) ++ e[m], <<>>)
      BY <2>2, <2>5, <2>6, <2>7, NoneOn, RunToAlt
  <2> QED BY <2>1, <2>4, <2>5, <2>8
<1>7. \A k \in 0 .. t : Good(k)
  <2> DEFINE Bad == {k \in 0 .. t : ~Good(k)}
  <2> HIDE DEF Good
  <2> SUFFICES ASSUME Bad # {} PROVE FALSE
      OBVIOUS
  <2>1. Bad \in SUBSET Nat
      BY <1>1
  <2>2. PICK k \in Bad : \A i \in Bad : k <= i
    <3> HIDE DEF Bad
    <3> QED BY <2>1, LeastMember
  <2>3. k # 0 /\ k \in 1 .. t /\ k - 1 \in 0 .. t /\ ~(k <= k - 1)
      BY <1>1, <1>5, <2>2
  <2>4. Good(k - 1)
      BY <2>2, <2>3
  <2> QED BY <1>6, <2>2, <2>3, <2>4
<1>8. Good(t) /\ t - t = 0
    BY <1>1, <1>7
<1>10. s \o SubSeq(e, 1, 0) = s /\ a \o SubSeq(b, 1, t) = a \o b
    BY <1>1, NoMore
<1> QED BY <1>8, <1>9, <1>10 DEF b

(* As many FROMALT bring them back.                                        *)
LEMMA FromAltsRun ==
    ASSUME NEW p, NEW s \in Stacks, NEW a \in Stacks, NEW e \in Stacks,
           Block(p, Repeated("FROMALT", Len(e))), Trace[p] = State(s, a \o Backwards(e), <<>>)
    PROVE  Trace[p + Len(e)] = State(s \o e, a, <<>>)
<1> DEFINE b == Backwards(e)
<1> DEFINE t == Len(e)
<1> DEFINE code == Repeated("FROMALT", Len(e))
<1>1. /\ b \in Stacks /\ Len(b) = t /\ t \in Nat /\ \A i \in 1 .. t : b[i] = e[(t + 1) - i]
    BY BackwardsIs
<1>2. code \in Codes /\ Len(code) = t /\ \A i \in 1 .. t : code[i].op = "FROMALT"
  <2>1. "FROMALT" \in Plain
      BY DEF Plain
  <2> QED BY <1>1, <2>1, RepeatedIs
<1>3. Block(p, code) /\ p \in Nat
    BY DEF Block
<1>4. \A i \in 1 .. t : e[i] \in Elements
    BY ElementOfSeq DEF Stacks
<1>9. t = Len(e)
    OBVIOUS
<1>11. Trace[p] = State(s, a \o b, <<>>)
    OBVIOUS
<1> HIDE DEF b, t, code
<1> DEFINE Good(k) ==
        Trace[p + k] = State(s \o SubSeq(e, 1, k), a \o SubSeq(b, 1, t - k), <<>>)
<1>5. Good(0)
  <2>1. p + 0 = p /\ t - 0 = t
      BY <1>1, <1>3
  <2>2. s \o SubSeq(e, 1, 0) = s /\ a \o SubSeq(b, 1, t) = a \o b
      BY <1>1, NoMore
  <2> QED BY <1>11, <2>1, <2>2
<1>6. ASSUME NEW k \in 1 .. t, Good(k - 1)
      PROVE  Good(k)
  <2> DEFINE m == (t + 1) - k
  <2>1. /\ m \in 1 .. t /\ t - (k - 1) = m /\ m - 1 = t - k /\ t - k \in 0 .. t /\ k - 1 \in 0 .. t
        /\ p + (k - 1) = p + k - 1 /\ (p + (k - 1)) + 1 = p + k /\ (t + 1) - m = k
      BY <1>1, <1>3
  <2>2. Reads(p + (k - 1), "FROMALT")
    <3>1. k \in 1 .. Len(code)
        BY <1>2
    <3>2. Reads(p + (k - 1), code[k].op)
        BY <1>3, <2>1, <3>1, BlockReads
    <3> QED BY <1>2, <3>2
  <2> HIDE DEF m
  <2>3. s \o SubSeq(e, 1, k) = (s \o SubSeq(e, 1, k - 1)) ++ e[k]
      BY <1>9, OneMore
  <2>4. a \o SubSeq(b, 1, m) = (a \o SubSeq(b, 1, m - 1)) ++ b[m]
      BY <1>1, <2>1, OneMore
  <2>5. b[m] = e[k] /\ e[k] \in Elements
      BY <1>1, <1>4, <2>1
  <2>6. a \o SubSeq(b, 1, t - k) \in Stacks
      BY <1>1, <2>1, CutIs
  <2>7. Trace[p + (k - 1)] = State(s \o SubSeq(e, 1, k - 1), (a \o SubSeq(b, 1, t - k)) ++ e[k],
        <<>>)
      BY <1>6, <2>1, <2>4, <2>5
  <2>8. Trace[(p + (k - 1)) + 1] = State((s \o SubSeq(e, 1, k - 1)) ++ e[k],
        a \o SubSeq(b, 1, t - k), <<>>)
      BY <2>2, <2>5, <2>6, <2>7, NoneOn, RunFromAlt
  <2> QED BY <2>1, <2>3, <2>8
<1>7. \A k \in 0 .. t : Good(k)
  <2> DEFINE Bad == {k \in 0 .. t : ~Good(k)}
  <2> HIDE DEF Good
  <2> SUFFICES ASSUME Bad # {} PROVE FALSE
      OBVIOUS
  <2>1. Bad \in SUBSET Nat
      BY <1>1
  <2>2. PICK k \in Bad : \A i \in Bad : k <= i
    <3> HIDE DEF Bad
    <3> QED BY <2>1, LeastMember
  <2>3. k # 0 /\ k \in 1 .. t /\ k - 1 \in 0 .. t /\ ~(k <= k - 1)
      BY <1>1, <1>5, <2>2
  <2>4. Good(k - 1)
      BY <2>2, <2>3
  <2> QED BY <1>6, <2>2, <2>3, <2>4
<1>8. Good(t) /\ t - t = 0
    BY <1>1, <1>7
<1>10. s \o SubSeq(e, 1, t) = s \o e /\ a \o SubSeq(b, 1, 0) = a
    BY <1>1, <1>9, NoMore
<1> QED BY <1>8, <1>9, <1>10

(* The code written for an entry's selection.                              *)
LEMMA SelectionCodes ==
    ASSUME NEW n \in Int, NEW j \in Int
    PROVE  /\ InTable(n) \in Codes /\ Len(InTable(n)) = 5
           /\ Ascending \in Codes /\ Len(Ascending) = 6
           /\ Twice \in Codes /\ Len(Twice) = 3
           /\ Lookup(j) \in Codes /\ Len(Lookup(j)) = 3
           /\ Opened \in Codes /\ Len(Opened) = 2
<1>1. /\ Op("DUP") \in Instructions /\ Op("WITHIN") \in Instructions
         /\ Op("VERIFY") \in Instructions
      /\ Op("FROMALT") \in Instructions /\ Op("GREATERTHAN") \in Instructions
      /\ Op("TOALT") \in Instructions /\ Op("ADD") \in Instructions /\ Op("PICK") \in Instructions
      /\ Op("HASH160") \in Instructions /\ Op("EQUALVERIFY") \in Instructions
    BY OpIs DEF Plain
<1>2. /\ PushNum(0) \in Instructions /\ PushNum(n) \in Instructions
      /\ PushNum(j + 1) \in Instructions
    BY PushNumIs
<1>3. InTable(n) \in Codes /\ Len(InTable(n)) = 5
    BY <1>1, <1>2 DEF InTable, Codes
<1>4. Ascending \in Codes /\ Len(Ascending) = 6
    BY <1>1 DEF Ascending, Codes
<1>5. Twice \in Codes /\ Len(Twice) = 3
    BY <1>1 DEF Twice, Codes
<1>6. Lookup(j) \in Codes /\ Len(Lookup(j)) = 3
    BY <1>1, <1>2 DEF Lookup, Codes
<1>7. Opened \in Codes /\ Len(Opened) = 2
    BY <1>1 DEF Opened, Codes
<1> QED BY <1>3, <1>4, <1>5, <1>6, <1>7

(* The names compile() gives to stack elements.                            *)
LEMMA LabelIs ==
    ASSUME NEW k \in NameKinds \union {"preserved_key", "offset", "selected_commitment", "selected",
                       "dummy", "commit", "null_dummy", "fixed_signature", "sig_count"},
           NEW i \in Int
    PROVE  <<k, i>> \in Labels
BY DEF Labels

(* Only its preimage opens a commitment.                                   *)
LEMMA OpensIs ==
    ASSUME NEW n \in Int, NEW z \in Elements
    PROVE  Commitment(n) = Hashed(z, "preimage", "commitment") <=> z = Preimage(n)
<1>1. "preimage" \in Kinds /\ "commitment" \in Kinds /\ "junk" \in Kinds /\ {} \in SUBSET Int
    BY DEF Kinds
<1>2. /\ Commitment(n).kind = "commitment" /\ Commitment(n).n = n /\ Commitment(n).s = {}
      /\ Preimage(n).kind = "preimage" /\ Preimage(n).n = n /\ Preimage(n).s = {}
      /\ \A e \in Elements : e.kind = "preimage" /\ e.n = n /\ e.s = {} => e = Preimage(n)
  <2>1. /\ Element("commitment", n, {}).kind = "commitment" /\ Element("commitment", n, {}).n = n
        /\ Element("commitment", n, {}).s = {}
      BY <1>1, ElementIs
  <2>2. /\ Element("preimage", n, {}).kind = "preimage" /\ Element("preimage", n, {}).n = n
        /\ Element("preimage", n, {}).s = {}
      BY <1>1, ElementIs
  <2>3. \A e \in Elements : e.kind = "preimage" /\ e.n = n /\ e.s = {} =>
           e = Element("preimage", n, {})
      BY DEF Elements, Element
  <2> QED BY <2>1, <2>2, <2>3 DEF Commitment, Preimage
<1>3. z.n \in Int /\ z.s \in SUBSET Int
    BY DEF Elements
<1>4. CASE z.kind = "preimage"
  <2>1. Hashed(z, "preimage", "commitment") = Element("commitment", z.n, z.s)
      BY <1>1, <1>4, HashedType
  <2>2. /\ Element("commitment", z.n, z.s).n = z.n /\ Element("commitment", z.n, z.s).s = z.s
      BY <1>1, <1>3, ElementIs
  <2>3. CASE z = Preimage(n)
    <3>1. z.n = n /\ z.s = {}
        BY <1>2, <2>3
    <3> QED BY <2>1, <2>3, <3>1 DEF Commitment
  <2>4. CASE Commitment(n) = Hashed(z, "preimage", "commitment")
    <3>1. z.n = n /\ z.s = {}
        BY <1>2, <2>1, <2>2, <2>4
    <3> QED BY <1>2, <1>4, <2>4, <3>1
  <2> QED BY <2>3, <2>4
<1>5. CASE z.kind # "preimage"
  <2>1. Hashed(z, "preimage", "commitment") = Junk
      BY <1>5 DEF Hashed
  <2> QED BY <1>2, <1>5, <2>1, Constants
<1> QED BY <1>4, <1>5

(* The names of index, preimage and key of the j-th selection.             *)
LEMMA PlacesAre ==
    ASSUME HorsGiven, NEW j \in 0 .. T - 1
    PROVE  /\ Names(T)[2 + T + 2 * (T - j)] = <<"index", j>>
           /\ Names(T)[1 + T + 2 * (T - j)] = <<"pre", j>>
           /\ Names(T)[2 + (T - j)] = <<"pub", j>>
           /\ Supplied(<<"index", j>>) = witness[2 + T + 2 * (T - j)]
           /\ Supplied(<<"pre", j>>) = witness[1 + T + 2 * (T - j)]
           /\ Supplied(<<"pub", j>>) = witness[2 + (T - j)]
<1>1. T \in Nat /\ T - j \in 1 .. T /\ T - (T - j) = j
    BY DEF HorsGiven
<1>2. /\ 2 + T + 2 * (T - j) \in 1 .. 3 * T + 4 /\ 1 + T + 2 * (T - j) \in 1 .. 3 * T + 4
      /\ 2 + (T - j) \in 1 .. 3 * T + 4
    BY <1>1
<1>3. /\ Names(T)[2 + T + 2 * (T - j)] = <<"index", j>>
      /\ Names(T)[1 + T + 2 * (T - j)] = <<"pre", j>>
      /\ Names(T)[2 + (T - j)] = <<"pub", j>>
  <2> DEFINE i == T - j
  <2>1. i \in 1 .. T /\ T - i = j
      BY <1>1
  <2> HIDE DEF i
  <2>2. /\ Names(T)[2 + i] = <<"pub", T - i>> /\ Names(T)[1 + T + 2 * i] = <<"pre", T - i>>
        /\ Names(T)[2 + T + 2 * i] = <<"index", T - i>>
      BY <1>1, <2>1, NamesAre
  <2> QED BY <2>1, <2>2 DEF i
<1>4. \A h \in 1 .. 3 * T + 4 : Supplied(Names(T)[h]) = witness[h]
    BY <1>1, SuppliedIs
<1>5. /\ Supplied(Names(T)[2 + T + 2 * (T - j)]) = witness[2 + T + 2 * (T - j)]
      /\ Supplied(Names(T)[1 + T + 2 * (T - j)]) = witness[1 + T + 2 * (T - j)]
      /\ Supplied(Names(T)[2 + (T - j)]) = witness[2 + (T - j)]
    BY <1>2, <1>4
<1> QED BY <1>3, <1>5

-----------------------------------------------------------------------------
(* The compiler's part of a selection.                                     *)
SelectionHi(j) == 2 + T + 2 * (T - j)

(* The compiler state through the stages of a selection.                   *)
LEMMA SelectionKeeps ==
    ASSUME HorsGiven, NEW j \in 0 .. T - 1, NEW n \in Int, NEW c, NEW len,
           Keeps(c, 1, SelectionHi(j), len)
    PROVE  LET s1 == Roll(c, <<"index", j>>)
               s2 == Emit(s1, InTable(n))
               s3 == IndexChecked(c, j, n)
               s4 == Emit(s3, Twice)
               s5 == Emit(s4, Lookup(j))
               s6 == CommitmentFound(c, j, n)
               s7 == Roll(s6, <<"pre", j>>)
               s8 == Emit(s7, Opened)
               s9 == PreimageChecked(c, j, n)
               s10 == Emit(s9, Lookup(j))
               s11 == Selection(c, j, n)
           IN  /\ Keeps(s1, 1, SelectionHi(j) - 1, len) /\ Keeps(s2, 1, SelectionHi(j) - 1, len)
               /\ Keeps(s3, 1, SelectionHi(j) - 1, len) /\ Keeps(s4, 1, SelectionHi(j) - 1, len)
               /\ Keeps(s5, 1, SelectionHi(j) - 1, len) /\ Keeps(s6, 1, SelectionHi(j) - 1, len + 1)
               /\ Keeps(s7, 1, SelectionHi(j) - 2, len + 1)
               /\ Keeps(s8, 1, SelectionHi(j) - 2, len + 1)
               /\ Keeps(s9, 1, SelectionHi(j) - 2, len - 1)
               /\ Keeps(s10, 1, SelectionHi(j) - 2, len - 1)
               /\ Keeps(s11, 1, SelectionHi(j) - 2, len - 1)
<1> DEFINE hi == SelectionHi(j)
<1> DEFINE s1 == Roll(c, <<"index", j>>)
<1> DEFINE s2 == Emit(s1, InTable(n))
<1> DEFINE s3 == IndexChecked(c, j, n)
<1> DEFINE s4 == Emit(s3, Twice)
<1> DEFINE s5 == Emit(s4, Lookup(j))
<1> DEFINE s6 == CommitmentFound(c, j, n)
<1> DEFINE s7 == Roll(s6, <<"pre", j>>)
<1> DEFINE s8 == Emit(s7, Opened)
<1> DEFINE s9 == PreimageChecked(c, j, n)
<1> DEFINE s10 == Emit(s9, Lookup(j))
<1> DEFINE s11 == Selection(c, j, n)
<1>1. T \in Nat /\ hi \in Nat /\ hi - 1 \in Nat /\ hi >= 4 + T /\ len \in Nat /\ len >= hi
      /\ j \in Int
  <2>1. T \in Nat /\ j \in 0 .. T - 1 /\ hi = 2 + T + 2 * (T - j)
      BY DEF HorsGiven, SelectionHi
  <2>2. len \in Nat /\ len >= hi - 1 + 1
      BY DEF Keeps
  <2> HIDE DEF hi
  <2> QED BY ONLY <2>1, <2>2
<1>2. Names(T)[hi] = <<"index", j>> /\ Names(T)[hi - 1] = <<"pre", j>>
  <2>1. hi = 2 + T + 2 * (T - j) /\ hi - 1 = 1 + T + 2 * (T - j)
      BY <1>1 DEF SelectionHi
  <2> QED BY <2>1, PlacesAre
<1>3. /\ InTable(n) \in Codes /\ Ascending \in Codes /\ Twice \in Codes /\ Lookup(j) \in Codes
      /\ Opened \in Codes
    BY <1>1, SelectionCodes
<1>4. /\ s3 = Emit(s2, Ascending)
      /\ s6 = Renamed(s5, 1, <<<<"offset", 0>>, <<"selected_commitment", 0>>>>)
      /\ s9 = Renamed(s8, 2, <<>>)
      /\ s11 = Renamed(s10, 1, <<<<"selected", j>>>>)
    BY DEF IndexChecked, CommitmentFound, PreimageChecked, Selection
<1> HIDE DEF hi, s1, s2, s3, s4, s5, s6, s7, s8, s9, s10, s11
<1>5. Keeps(s1, 1, hi - 1, len)
  <2>1. Keeps(c, 1, hi, len) /\ hi >= 1
      BY <1>1 DEF hi
  <2> QED BY <1>2, <2>1, KeepsRollTop DEF s1
<1>6. Keeps(s2, 1, hi - 1, len)
    BY <1>3, <1>5, KeepsEmit DEF s2
<1>7. Keeps(s3, 1, hi - 1, len)
    BY <1>3, <1>4, <1>6, KeepsEmit
<1>8. Keeps(s4, 1, hi - 1, len)
    BY <1>3, <1>7, KeepsEmit DEF s4
<1>9. Keeps(s5, 1, hi - 1, len)
    BY <1>3, <1>8, KeepsEmit DEF s5
<1>10. Keeps(s6, 1, hi - 1, len + 1)
  <2> DEFINE names == <<<<"offset", 0>>, <<"selected_commitment", 0>>>>
  <2>1. names \in Seq(Labels) /\ Len(names) = 2
    <3>1. <<"offset", 0>> \in Labels /\ <<"selected_commitment", 0>> \in Labels
        BY LabelIs
    <3> QED BY <3>1
  <2>2. s6 = Renamed(s5, 1, names)
      BY <1>4
  <2> HIDE DEF names
  <2>3. 1 \in Nat /\ 1 <= len - ((hi - 1) - 1 + 1) /\ (len - 1) + 2 = len + 1
      BY <1>1
  <2>4. Keeps(s6, 1, hi - 1, (len - 1) + Len(names))
      BY <1>9, <2>1, <2>2, <2>3, KeepsRenamed
  <2> QED BY <2>1, <2>3, <2>4
<1>11. Keeps(s7, 1, hi - 2, len + 1)
  <2>1. hi - 1 >= 1 /\ (hi - 1) - 1 = hi - 2
      BY <1>1
  <2>2. Keeps(Roll(s6, Names(T)[hi - 1]), 1, (hi - 1) - 1, len + 1)
      BY <1>10, <2>1, KeepsRollTop
  <2> QED BY <1>2, <2>1, <2>2 DEF s7
<1>12. Keeps(s8, 1, hi - 2, len + 1)
    BY <1>3, <1>11, KeepsEmit DEF s8
<1>13. Keeps(s9, 1, hi - 2, len - 1)
  <2> DEFINE names == <<>>
  <2>1. names \in Seq(Labels) /\ Len(names) = 0
      OBVIOUS
  <2>2. s9 = Renamed(s8, 2, names)
      BY <1>4
  <2> HIDE DEF names
  <2>3. 2 \in Nat /\ 2 <= (len + 1) - ((hi - 2) - 1 + 1) /\ ((len + 1) - 2) + 0 = len - 1
      BY <1>1
  <2>4. Keeps(s9, 1, hi - 2, ((len + 1) - 2) + Len(names))
      BY <1>12, <2>1, <2>2, <2>3, KeepsRenamed
  <2> QED BY <2>1, <2>3, <2>4
<1>14. Keeps(s10, 1, hi - 2, len - 1)
    BY <1>3, <1>13, KeepsEmit DEF s10
<1>15. Keeps(s11, 1, hi - 2, len - 1)
  <2> DEFINE names == <<<<"selected", j>>>>
  <2>1. names \in Seq(Labels) /\ Len(names) = 1
    <3>1. <<"selected", j>> \in Labels
        BY <1>1, LabelIs
    <3> QED BY <3>1
  <2>2. s11 = Renamed(s10, 1, names)
      BY <1>4
  <2> HIDE DEF names
  <2>3. 1 \in Nat /\ 1 <= (len - 1) - ((hi - 2) - 1 + 1) /\ ((len - 1) - 1) + 1 = len - 1
      BY <1>1
  <2>4. Keeps(s11, 1, hi - 2, ((len - 1) - 1) + Len(names))
      BY <1>14, <2>1, <2>2, <2>3, KeepsRenamed
  <2> QED BY <2>1, <2>3, <2>4
<1> QED BY <1>5, <1>6, <1>7, <1>8, <1>9, <1>10, <1>11, <1>12, <1>13, <1>14, <1>15
        DEF hi, s1, s2, s3, s4, s5, s6, s7, s8, s9, s10, s11

(* Where the code of a selection stands.                                   *)
Selecting(p, j, n, len) ==
    /\ p \in Nat \ {0} /\ Len(Script) \in Nat /\ p + 26 <= Len(Script) + 1
    /\ Block(p, RollCode(len - SelectionHi(j), <<"index", j>>))
    /\ Block(p + 2, InTable(n))
    /\ Block(p + 7, Ascending)
    /\ Block(p + 13, Twice)
    /\ Block(p + 16, Lookup(j))
    /\ Block(p + 19, RollCode((len + 1) - (SelectionHi(j) - 1), <<"pre", j>>))
    /\ Block(p + 21, Opened)
    /\ Block(p + 23, Lookup(j))

(* The code of a selection, roll by roll and lookup by lookup.             *)
LEMMA SelectionWritten ==
    ASSUME HorsGiven, NEW j \in 0 .. T - 1, NEW n \in Int, NEW c, NEW len,
           Keeps(c, 1, SelectionHi(j), len), Written(Selection(c, j, n))
    PROVE  /\ Written(c) /\ Selecting(EndOf(c), j, n, len)
           /\ EndOf(Selection(c, j, n)) = EndOf(c) + 26
<1> DEFINE hi == SelectionHi(j)
<1> DEFINE s1 == Roll(c, <<"index", j>>)
<1> DEFINE s2 == Emit(s1, InTable(n))
<1> DEFINE s3 == IndexChecked(c, j, n)
<1> DEFINE s4 == Emit(s3, Twice)
<1> DEFINE s5 == Emit(s4, Lookup(j))
<1> DEFINE s6 == CommitmentFound(c, j, n)
<1> DEFINE s7 == Roll(s6, <<"pre", j>>)
<1> DEFINE s8 == Emit(s7, Opened)
<1> DEFINE s9 == PreimageChecked(c, j, n)
<1> DEFINE s10 == Emit(s9, Lookup(j))
<1> DEFINE s11 == Selection(c, j, n)
<1>1. T \in Nat /\ hi \in Nat /\ hi - 1 \in Nat /\ hi >= 4 + T /\ len \in Nat /\ len >= hi
      /\ j \in Int
  <2>1. T \in Nat /\ j \in 0 .. T - 1 /\ hi = 2 + T + 2 * (T - j)
      BY DEF HorsGiven, SelectionHi
  <2>2. len \in Nat /\ len >= hi - 1 + 1
      BY DEF Keeps
  <2> HIDE DEF hi
  <2> QED BY ONLY <2>1, <2>2
<1>2. Names(T)[hi] = <<"index", j>> /\ Names(T)[hi - 1] = <<"pre", j>>
  <2>1. hi = 2 + T + 2 * (T - j) /\ hi - 1 = 1 + T + 2 * (T - j)
      BY <1>1 DEF SelectionHi
  <2> QED BY <2>1, PlacesAre
<1>3. /\ InTable(n) \in Codes /\ Ascending \in Codes /\ Twice \in Codes /\ Lookup(j) \in Codes
      /\ Opened \in Codes
      /\ Len(InTable(n)) = 5 /\ Len(Ascending) = 6 /\ Len(Twice) = 3 /\ Len(Lookup(j)) = 3
      /\ Len(Opened) = 2
    BY <1>1, SelectionCodes
<1>4. /\ s3 = Emit(s2, Ascending)
      /\ s6 = Renamed(s5, 1, <<<<"offset", 0>>, <<"selected_commitment", 0>>>>)
      /\ s9 = Renamed(s8, 2, <<>>)
      /\ s11 = Renamed(s10, 1, <<<<"selected", j>>>>)
    BY DEF IndexChecked, CommitmentFound, PreimageChecked, Selection
<1>5. /\ Keeps(s1, 1, hi - 1, len) /\ Keeps(s2, 1, hi - 1, len)
      /\ Keeps(s3, 1, hi - 1, len) /\ Keeps(s4, 1, hi - 1, len)
      /\ Keeps(s5, 1, hi - 1, len) /\ Keeps(s6, 1, hi - 1, len + 1)
      /\ Keeps(s7, 1, hi - 2, len + 1)
      /\ Keeps(s8, 1, hi - 2, len + 1)
      /\ Keeps(s9, 1, hi - 2, len - 1)
      /\ Keeps(s10, 1, hi - 2, len - 1)
    BY SelectionKeeps
<1>6. Keeps(c, 1, hi, len) /\ Written(s11)
    OBVIOUS
<1>a. Selecting(EndOf(c), j, n, len) <=>
      /\ EndOf(c) \in Nat \ {0} /\ Len(Script) \in Nat /\ EndOf(c) + 26 <= Len(Script) + 1
      /\ Block(EndOf(c), RollCode(len - hi, <<"index", j>>))
      /\ Block(EndOf(c) + 2, InTable(n))
      /\ Block(EndOf(c) + 7, Ascending)
      /\ Block(EndOf(c) + 13, Twice)
      /\ Block(EndOf(c) + 16, Lookup(j))
      /\ Block(EndOf(c) + 19, RollCode((len + 1) - (hi - 1), <<"pre", j>>))
      /\ Block(EndOf(c) + 21, Opened)
      /\ Block(EndOf(c) + 23, Lookup(j))
    BY DEF Selecting
<1> HIDE DEF hi, s1, s2, s3, s4, s5, s6, s7, s8, s9, s10, s11
<1>7. Written(s10) /\ EndOf(s11) = EndOf(s10)
  <2> DEFINE names == <<<<"selected", j>>>>
  <2>1. names \in Seq(Labels)
    <3>1. <<"selected", j>> \in Labels
        BY <1>1, LabelIs
    <3> QED BY <3>1
  <2>2. s11 = Renamed(s10, 1, names)
      BY <1>4
  <2> HIDE DEF names
  <2>3. 1 \in Nat /\ 1 <= (len - 1) - ((hi - 2) - 1 + 1)
      BY <1>1
  <2> QED BY <1>5, <1>6, <2>1, <2>2, <2>3, WrittenRenamed
<1>8. /\ Written(s9) /\ Block(EndOf(s9), Lookup(j)) /\ EndOf(s10) = EndOf(s9) + 3
      /\ EndOf(s10) \in 1 .. Len(Script) + 1
  <2>1. Keeps(s9, 1, hi - 2, len - 1) /\ Lookup(j) \in Codes /\ Written(Emit(s9, Lookup(j)))
      BY <1>3, <1>5, <1>7 DEF s10
  <2>2. /\ Written(s9) /\ Block(EndOf(s9), Lookup(j))
        /\ EndOf(Emit(s9, Lookup(j))) = EndOf(s9) + Len(Lookup(j))
        /\ EndOf(Emit(s9, Lookup(j))) \in 1 .. Len(Script) + 1
      BY ONLY <2>1, WrittenEmit
  <2> QED BY <1>3, <2>2 DEF s10
<1>9. Written(s8) /\ EndOf(s9) = EndOf(s8)
  <2> DEFINE names == <<>>
  <2>1. names \in Seq(Labels)
      OBVIOUS
  <2>2. s9 = Renamed(s8, 2, names)
      BY <1>4
  <2> HIDE DEF names
  <2>3. 2 \in Nat /\ 2 <= (len + 1) - ((hi - 2) - 1 + 1)
      BY <1>1
  <2> QED BY <1>5, <1>8, <2>1, <2>2, <2>3, WrittenRenamed
<1>10. Written(s7) /\ Block(EndOf(s7), Opened) /\ EndOf(s8) = EndOf(s7) + 2
  <2>1. Keeps(s7, 1, hi - 2, len + 1) /\ Opened \in Codes /\ Written(Emit(s7, Opened))
      BY <1>3, <1>5, <1>9 DEF s8
  <2>2. /\ Written(s7) /\ Block(EndOf(s7), Opened)
        /\ EndOf(Emit(s7, Opened)) = EndOf(s7) + Len(Opened)
      BY ONLY <2>1, WrittenEmit
  <2> QED BY <1>3, <2>2 DEF s8
<1>11. /\ Written(s6) /\ EndOf(s7) = EndOf(s6) + 2
       /\ Block(EndOf(s6), RollCode((len + 1) - (hi - 1), <<"pre", j>>))
  <2>1. /\ Keeps(s6, 1, hi - 1, len + 1) /\ hi - 1 \in 1 .. hi - 1
        /\ Written(Roll(s6, Names(T)[hi - 1]))
      BY <1>1, <1>2, <1>5, <1>10 DEF s7
  <2>2. /\ Written(s6)
        /\ Block(EndOf(s6), RollCode((len + 1) - ((hi - 1) - 1 + 1), Names(T)[hi - 1]))
        /\ EndOf(Roll(s6, Names(T)[hi - 1])) = EndOf(s6) + 2
      BY ONLY <2>1, WrittenRoll
  <2>3. (hi - 1) - 1 + 1 = hi - 1
      BY <1>1
  <2> QED BY <1>2, <2>2, <2>3 DEF s7
<1>12. Written(s5) /\ EndOf(s6) = EndOf(s5)
  <2> DEFINE names == <<<<"offset", 0>>, <<"selected_commitment", 0>>>>
  <2>1. names \in Seq(Labels)
    <3>1. <<"offset", 0>> \in Labels /\ <<"selected_commitment", 0>> \in Labels
        BY LabelIs
    <3> QED BY <3>1
  <2>2. s6 = Renamed(s5, 1, names)
      BY <1>4
  <2> HIDE DEF names
  <2>3. 1 \in Nat /\ 1 <= len - ((hi - 1) - 1 + 1)
      BY <1>1
  <2> QED BY <1>5, <1>11, <2>1, <2>2, <2>3, WrittenRenamed
<1>13. Written(s4) /\ Block(EndOf(s4), Lookup(j)) /\ EndOf(s5) = EndOf(s4) + 3
  <2>1. Keeps(s4, 1, hi - 1, len) /\ Lookup(j) \in Codes /\ Written(Emit(s4, Lookup(j)))
      BY <1>3, <1>5, <1>12 DEF s5
  <2>2. /\ Written(s4) /\ Block(EndOf(s4), Lookup(j))
        /\ EndOf(Emit(s4, Lookup(j))) = EndOf(s4) + Len(Lookup(j))
      BY ONLY <2>1, WrittenEmit
  <2> QED BY <1>3, <2>2 DEF s5
<1>14. Written(s3) /\ Block(EndOf(s3), Twice) /\ EndOf(s4) = EndOf(s3) + 3
  <2>1. Keeps(s3, 1, hi - 1, len) /\ Twice \in Codes /\ Written(Emit(s3, Twice))
      BY <1>3, <1>5, <1>13 DEF s4
  <2>2. /\ Written(s3) /\ Block(EndOf(s3), Twice)
        /\ EndOf(Emit(s3, Twice)) = EndOf(s3) + Len(Twice)
      BY ONLY <2>1, WrittenEmit
  <2> QED BY <1>3, <2>2 DEF s4
<1>15. Written(s2) /\ Block(EndOf(s2), Ascending) /\ EndOf(s3) = EndOf(s2) + 6
  <2>1. Keeps(s2, 1, hi - 1, len) /\ Ascending \in Codes /\ Written(Emit(s2, Ascending))
      BY <1>3, <1>4, <1>5, <1>14
  <2>2. /\ Written(s2) /\ Block(EndOf(s2), Ascending)
        /\ EndOf(Emit(s2, Ascending)) = EndOf(s2) + Len(Ascending)
      BY ONLY <2>1, WrittenEmit
  <2> QED BY <1>3, <1>4, <2>2
<1>16. Written(s1) /\ Block(EndOf(s1), InTable(n)) /\ EndOf(s2) = EndOf(s1) + 5
  <2>1. Keeps(s1, 1, hi - 1, len) /\ InTable(n) \in Codes /\ Written(Emit(s1, InTable(n)))
      BY <1>3, <1>5, <1>15 DEF s2
  <2>2. /\ Written(s1) /\ Block(EndOf(s1), InTable(n))
        /\ EndOf(Emit(s1, InTable(n))) = EndOf(s1) + Len(InTable(n))
      BY ONLY <2>1, WrittenEmit
  <2> QED BY <1>3, <2>2 DEF s2
<1>17. /\ Written(c) /\ EndOf(s1) = EndOf(c) + 2 /\ EndOf(c) \in Nat \ {0}
       /\ Block(EndOf(c), RollCode(len - hi, <<"index", j>>))
  <2>1. Keeps(c, 1, hi, len) /\ hi \in 1 .. hi /\ Written(Roll(c, Names(T)[hi]))
      BY <1>1, <1>2, <1>6, <1>16 DEF s1
  <2>2. /\ Written(c) /\ EndOf(c) \in Nat \ {0}
        /\ Block(EndOf(c), RollCode(len - (hi - 1 + 1), Names(T)[hi]))
        /\ EndOf(Roll(c, Names(T)[hi])) = EndOf(c) + 2
      BY ONLY <2>1, WrittenRoll
  <2>3. hi - 1 + 1 = hi
      BY <1>1
  <2> QED BY <1>2, <2>2, <2>3 DEF s1
<1> DEFINE p == EndOf(c)
<1>18. p \in Nat \ {0} /\ Len(Script) \in Nat
    BY <1>17 DEF Block
<1>19. /\ EndOf(s1) = p + 2 /\ EndOf(s2) = p + 7 /\ EndOf(s3) = p + 13 /\ EndOf(s4) = p + 16
       /\ EndOf(s6) = p + 19 /\ EndOf(s7) = p + 21 /\ EndOf(s9) = p + 23 /\ EndOf(s11) = p + 26
       /\ p + 26 <= Len(Script) + 1
  <2> HIDE DEF p
  <2>1. EndOf(s1) = p + 2
      BY <1>17 DEF p
  <2>2. EndOf(s2) = p + 7
      BY <1>16, <1>18, <2>1
  <2>3. EndOf(s3) = p + 13
      BY <1>15, <1>18, <2>2
  <2>4. EndOf(s4) = p + 16
      BY <1>14, <1>18, <2>3
  <2>5. EndOf(s6) = p + 19
      BY <1>12, <1>13, <1>18, <2>4
  <2>6. EndOf(s7) = p + 21
      BY <1>11, <1>18, <2>5
  <2>7. EndOf(s9) = p + 23
      BY <1>9, <1>10, <1>18, <2>6
  <2>8. EndOf(s11) = p + 26 /\ EndOf(s10) = p + 26
      BY <1>7, <1>8, <1>18, <2>7
  <2>9. p + 26 <= Len(Script) + 1
      BY <1>8, <1>18, <2>8
  <2> QED BY <2>1, <2>2, <2>3, <2>4, <2>5, <2>6, <2>7, <2>8, <2>9
<1> HIDE DEF p
<1>20. /\ Block(p, RollCode(len - hi, <<"index", j>>)) /\ Block(p + 2, InTable(n))
       /\ Block(p + 7, Ascending) /\ Block(p + 13, Twice) /\ Block(p + 16, Lookup(j))
       /\ Block(p + 19, RollCode((len + 1) - (hi - 1), <<"pre", j>>))
       /\ Block(p + 21, Opened) /\ Block(p + 23, Lookup(j))
    BY <1>8, <1>10, <1>11, <1>13, <1>14, <1>15, <1>16, <1>17, <1>19 DEF p
<1> QED BY <1>a, <1>17, <1>18, <1>19, <1>20 DEF p, s11

(* An entry is selected: what the spend supplies for the j-th selection is *)
(* a larger index than the one before, and its preimage.                   *)
Chooses(j, y) ==
    /\ witness[SelectionHi(j)].kind = "num" /\ witness[SelectionHi(j)].n \in 0 .. N - 1
    /\ witness[SelectionHi(j)].n > y.n
    /\ witness[SelectionHi(j) - 1] = Preimage(witness[SelectionHi(j)].n)

(* Where the table's elements are, under others.                           *)
LEMMA EntryFound ==
    ASSUME HorsGiven, NEW h, Spans(1, h), NEW r \in Stacks, Len(r) >= 2 * N,
           \A i \in 1 .. 2 * N : r[i] = Entries(N)[i], NEW v \in 0 .. N - 1
    PROVE  /\ Under(1, h, r)[h + (2 * (N - v) - 1)] = Dummy(v)
           /\ Under(1, h, r)[h + 2 * (N - v)] = Commitment(v)
<1>1. N \in Nat /\ h \in Nat /\ Len(r) \in Nat /\ h - 1 + 1 = h
    BY LenProperties DEF HorsGiven, Spans, Stacks
<1> DEFINE i == N - v
<1>2. i \in 1 .. N /\ N - i = v
    BY <1>1
<1>3. Entries(N)[2 * i - 1] = Dummy(N - i) /\ Entries(N)[2 * i] = Commitment(N - i)
    BY <1>1, <1>2, EntriesAre
<1> HIDE DEF i
<1>4. /\ 2 * i - 1 \in 1 .. 2 * N /\ 2 * i \in 1 .. 2 * N
      /\ 2 * i - 1 \in 1 .. Len(r) /\ 2 * i \in 1 .. Len(r)
    BY <1>1, <1>2
<1>5. \A k \in 1 .. Len(r) : Under(1, h, r)[(h - 1 + 1) + k] = r[k]
    BY UnderIs
<1>6. \A k \in 1 .. Len(r) : Under(1, h, r)[h + k] = r[k]
    BY <1>1, <1>5
<1>7. Under(1, h, r)[h + (2 * i - 1)] = r[2 * i - 1] /\ Under(1, h, r)[h + 2 * i] = r[2 * i]
    BY <1>4, <1>6
<1>8. Under(1, h, r)[h + (2 * i - 1)] = Dummy(v) /\ Under(1, h, r)[h + 2 * i] = Commitment(v)
    BY <1>2, <1>3, <1>4, <1>7
<1> QED BY <1>8 DEF i

(* A selection passes exactly if index, order and preimage are right, and  *)
(* leaves the dummy of the entry.                                          *)
LEMMA SelectionRuns ==
    ASSUME HorsGiven, NEW j \in 0 .. T - 1, NEW p, NEW r \in Stacks, Len(r) = 2 * N + j,
           \A i \in 1 .. 2 * N : r[i] = Entries(N)[i],
           Selecting(p, j, N, SelectionHi(j) + Len(r)),
           NEW a \in Stacks, NEW y \in Elements, y.kind = "num",
           Trace[p] = State(Under(1, SelectionHi(j), r), a ++ y, <<>>)
    PROVE  IF Chooses(j, y)
           THEN Trace[p + 26] =
                  State(Under(1, SelectionHi(j) - 2, r ++ Dummy(witness[SelectionHi(j)].n)),
                        a ++ witness[SelectionHi(j)], <<>>)
           ELSE Rejected(p + 26)
<1> DEFINE hi == SelectionHi(j)
<1> DEFINE len == SelectionHi(j) + Len(r)
<1> DEFINE x == witness[hi]
<1> DEFINE z == witness[hi - 1]
<1> DEFINE done == Chooses(j, y)
<1> DEFINE v == x.n
<1>1. /\ T \in Nat \ {0} /\ N \in Nat /\ j \in Int /\ hi \in Nat /\ hi >= 4 + T /\ hi <= 2 + 3 * T
      /\ Len(r) \in Nat /\ len = hi + Len(r) /\ len \in Nat /\ Len(r) = 2 * N + j /\ j \in Nat
  <2> DEFINE l == Len(r)
  <2>1. T \in Nat \ {0} /\ N \in Nat
      BY DEF HorsGiven
  <2>2. l \in Nat /\ l = 2 * N + j
      BY LenProperties DEF Stacks
  <2>3. hi = 2 + T + 2 * (T - j) /\ len = hi + l /\ j \in 0 .. T - 1
      BY DEF SelectionHi
  <2> HIDE DEF l, hi, len
  <2>4. /\ j \in Int /\ j \in Nat /\ hi \in Nat /\ hi >= 4 + T /\ hi <= 2 + 3 * T
        /\ len \in Nat
      BY ONLY <2>1, <2>2, <2>3
  <2> QED BY <2>1, <2>2, <2>3, <2>4 DEF l
<1>2. x \in Elements /\ z \in Elements
  <2>1. hi \in 1 .. 3 * T + 4 /\ hi - 1 \in 1 .. 3 * T + 4
      BY <1>1
  <2> QED BY <2>1, WitnessIs
<1>3. /\ Names(T)[hi] = <<"index", j>> /\ Names(T)[hi - 1] = <<"pre", j>>
      /\ Supplied(<<"index", j>>) = x /\ Supplied(<<"pre", j>>) = z
  <2>1. hi = 2 + T + 2 * (T - j) /\ hi - 1 = 1 + T + 2 * (T - j)
      BY <1>1 DEF SelectionHi
  <2> QED BY <2>1, PlacesAre
<1>4. <<"index", j>> \in Named /\ <<"pre", j>> \in Named
    BY <1>1 DEF Named, NameKinds
<1>5. /\ done <=> x.kind = "num" /\ v \in 0 .. N - 1 /\ v > y.n /\ z = Preimage(v)
      /\ done \in BOOLEAN
    BY DEF Chooses
<1>6. /\ p \in Nat \ {0} /\ Len(Script) \in Nat /\ p + 26 <= Len(Script) + 1
      /\ Block(p, RollCode(len - hi, <<"index", j>>)) /\ Block(p + 2, InTable(N))
      /\ Block(p + 7, Ascending) /\ Block(p + 13, Twice) /\ Block(p + 16, Lookup(j))
      /\ Block(p + 19, RollCode((len + 1) - (hi - 1), <<"pre", j>>))
      /\ Block(p + 21, Opened) /\ Block(p + 23, Lookup(j))
    BY DEF Selecting
<1>7. Trace[p] = State(Under(1, hi, r), a ++ y, <<>>)
    OBVIOUS
<1>8. Spans(1, hi) /\ Spans(1, hi - 1) /\ Spans(1, hi - 2)
    BY <1>1 DEF Spans
<1> DEFINE goal == IF done THEN Trace[p + 26] = State(Under(1, hi - 2, r ++ Dummy(v)), a ++ x, <<>>)
                           ELSE Rejected(p + 26)
<1> SUFFICES goal
    OBVIOUS
<1> HIDE DEF hi, len, x, z, done, v
<1> DEFINE u == Under(1, hi - 1, r)
<1> DEFINE w == Under(1, hi - 2, r)
<1>9. /\ u \in Stacks /\ Len(u) = hi - 1 + Len(r)
      /\ w \in Stacks /\ Len(w) = hi - 2 + Len(r)
  <2>1. /\ u \in Stacks /\ Len(u) = (hi - 1) - 1 + 1 + Len(r)
        /\ w \in Stacks /\ Len(w) = (hi - 2) - 1 + 1 + Len(r)
      BY <1>8, UnderIs
  <2> HIDE DEF u, w
  <2> QED BY <1>1, <2>1
<1> HIDE DEF u, w
<1>10. Trace[p + 2] = State(u ++ x, a ++ y, <<>>)
  <2> DEFINE s == Under(1, hi, r)
  <2>1. s \in Stacks /\ Len(s) = (hi - 1 + 1) + Len(r)
      BY <1>8, UnderIs
  <2>2. hi >= 1 /\ hi - 1 + 1 = hi
      BY <1>1
  <2>3. RemoveAt(s, hi - 1 + 1) = u /\ s[hi - 1 + 1] = witness[hi]
      BY <1>8, <2>2, UnderRemoved DEF u
  <2>4. /\ len - hi \in 0 .. Len(s) - 1 /\ Len(s) - (len - hi) = hi
    <3> HIDE DEF s
    <3> QED BY ONLY <1>1, <2>1
  <2>5. s[Len(s) - (len - hi)] = x /\ RemoveAt(s, Len(s) - (len - hi)) = u
      BY <2>2, <2>3, <2>4 DEF x
  <2>6. /\ Block(p, RollCode(len - hi, <<"index", j>>)) /\ <<"index", j>> \in Named
        /\ s[Len(s) - (len - hi)] = Supplied(<<"index", j>>)
        /\ Trace[p] = State(s, a ++ y, <<>>)
      BY <1>3, <1>4, <1>6, <1>7, <2>5
  <2> HIDE DEF s
  <2>7. Trace[p + 2] =
          State(RemoveAt(s, Len(s) - (len - hi)) ++ s[Len(s) - (len - hi)], a ++ y, <<>>)
    <3> DEFINE alt2 == a ++ y
    <3>1. Trace[p] = State(s, alt2, <<>>)
        BY <2>6
    <3> HIDE DEF alt2
    <3> DEFINE d == len - hi
    <3> DEFINE name == <<"index", j>>
    <3>2. /\ Block(p, RollCode(d, name)) /\ name \in Named /\ s \in Stacks
          /\ s[Len(s) - d] = Supplied(name) /\ d \in 0 .. Len(s) - 1
        BY <2>1, <2>4, <2>6
    <3> HIDE DEF d, name
    <3>3. Trace[p + 2] = State(RemoveAt(s, Len(s) - d) ++ s[Len(s) - d], alt2, <<>>)
        BY ONLY <3>1, <3>2, RollCodeRuns
    <3> QED BY <3>3 DEF alt2, d
  <2> QED BY <2>5, <2>7
<1>11. \A q \in 1 .. Len(Script) + 1 : q <= p + 26 /\ Rejected(q) => Rejected(p + 26)
  <2> TAKE q \in 1 .. Len(Script) + 1
  <2> HAVE q <= p + 26 /\ Rejected(q)
  <2>1. p + 26 \in q .. Len(Script) + 1
      BY <1>6
  <2> QED BY <1>6, <2>1, RejectedStays
<1>12. p + 7 \in 1 .. Len(Script) + 1 /\ p + 13 \in 1 .. Len(Script) + 1
       /\ p + 23 \in 1 .. Len(Script) + 1 /\ p + 7 <= p + 26 /\ p + 13 <= p + 26 /\ p + 23 <= p + 26
    BY <1>6
<1>13. IF x.kind = "num" /\ v \in 0 .. N - 1 THEN Trace[p + 7] = State(u ++ x, a ++ y, <<>>)
                                             ELSE Rejected(p + 7)
  <2> DEFINE alt2 == a ++ y
  <2> DEFINE q == p + 2
  <2>1. /\ Block(q, InTable(N)) /\ Trace[q] = State(u ++ x, alt2, <<>>) /\ N \in Int
        /\ q + 5 = p + 7
      BY <1>1, <1>6, <1>10
  <2> HIDE DEF alt2, q
  <2>2. IF x.kind = "num" /\ x.n \in 0 .. N - 1 THEN Trace[q + 5] = State(u ++ x, alt2, <<>>)
                                                 ELSE Rejected(q + 5)
      BY <1>2, <1>9, <2>1, InTableRuns
  <2> QED BY <2>1, <2>2 DEF v, alt2
<1> SUFFICES ASSUME done \/ ~Rejected(p + 26)
             PROVE  done /\ Trace[p + 26] = State(Under(1, hi - 2, r ++ Dummy(v)), a ++ x, <<>>)
    BY <1>5
<1>14. x.kind = "num" /\ v \in 0 .. N - 1 /\ Trace[p + 7] = State(u ++ x, a ++ y, <<>>)
    BY <1>5, <1>11, <1>12, <1>13
<1>15. IF v > y.n THEN Trace[p + 13] = State(u ++ x, a ++ x, <<>>) ELSE Rejected(p + 13)
  <2> DEFINE q == p + 7
  <2>1. Block(q, Ascending) /\ Trace[q] = State(u ++ x, a ++ y, <<>>) /\ q + 6 = p + 13
      BY <1>6, <1>14
  <2> HIDE DEF q
  <2>2. IF x.n > y.n THEN Trace[q + 6] = State(u ++ x, a ++ x, <<>>) ELSE Rejected(q + 6)
      BY <1>2, <1>9, <1>14, <2>1, AscendingRuns
  <2> QED BY <2>1, <2>2 DEF v
<1>16. v > y.n /\ Trace[p + 13] = State(u ++ x, a ++ x, <<>>)
    BY <1>5, <1>11, <1>12, <1>15
<1> DEFINE alt2 == a ++ x
<1> DEFINE x2 == Num(v + v)
<1> DEFINE cm == Commitment(v)
<1>17. x2 \in Elements /\ x2.kind = "num" /\ x2.n = v + v /\ cm \in Elements /\ v \in Int
  <2>1. v \in Int /\ v + v \in Int
      BY <1>14
  <2> QED BY <2>1, NumberIs, EntryIs
<1>18. Trace[p + 16] = State(u ++ x2 ++ x2, alt2, <<>>)
  <2> DEFINE q == p + 13
  <2>1. Block(q, Twice) /\ Trace[q] = State(u ++ x, alt2, <<>>) /\ q + 3 = p + 16
      BY <1>6, <1>16
  <2> HIDE DEF q, alt2
  <2>2. Trace[q + 3] = State(u ++ Num(x.n + x.n) ++ Num(x.n + x.n), alt2, <<>>)
      BY <1>2, <1>9, <1>14, <2>1, TwiceRuns
  <2> QED BY <2>1, <2>2 DEF v
<1>19. Trace[p + 19] = State(u ++ x2 ++ cm, alt2, <<>>)
  <2> DEFINE q == p + 16
  <2> DEFINE s == u ++ x2
  <2>1. Block(q, Lookup(j)) /\ Trace[q] = State(s ++ x2, alt2, <<>>) /\ q + 3 = p + 19
      BY <1>6, <1>18
  <2>2. /\ s \in Stacks /\ Len(s) = Len(u) + 1
        /\ \A k \in 1 .. Len(u) : s[k] = u[k]
    <3> HIDE DEF x2
    <3> QED BY <1>9, <1>17, Pushed
  <2>3. Len(s) = hi + (2 * N + j)
    <3> HIDE DEF s
    <3> QED BY ONLY <1>1, <1>9, <2>2
  <2>4. /\ x2.n + (j + 1) \in 0 .. Len(s) - 1
        /\ Len(s) - (x2.n + (j + 1)) = (hi - 1) + 2 * (N - v)
        /\ (hi - 1) + 2 * (N - v) \in 1 .. Len(u)
    <3> HIDE DEF s, x2
    <3>1. N \in Nat /\ j \in Nat /\ hi \in Nat /\ hi >= 4 /\ v \in 0 .. N - 1 /\ x2.n = v + v
          /\ Len(u) = hi - 1 + (2 * N + j) /\ Len(s) = hi + (2 * N + j)
        BY <1>1, <1>9, <1>14, <1>17, <2>3
    <3> DEFINE n == N
    <3> DEFINE k == Len(s)
    <3> DEFINE m == x2.n
    <3> DEFINE o == Len(u)
    <3>2. n \in Nat /\ j \in Nat /\ hi \in Nat /\ hi >= 4 /\ v \in 0 .. n - 1 /\ m = v + v
          /\ o = hi - 1 + (2 * n + j) /\ k = hi + (2 * n + j)
        BY <3>1
    <3> HIDE DEF n, k, m, o
    <3>3. /\ m + (j + 1) \in 0 .. k - 1 /\ k - (m + (j + 1)) = (hi - 1) + 2 * (n - v)
          /\ (hi - 1) + 2 * (n - v) \in 1 .. o
        BY ONLY <3>2
    <3> QED BY <3>3 DEF n, k, m, o
  <2>5. u[(hi - 1) + 2 * (N - v)] = cm
    <3>1. Len(r) >= 2 * N
        BY <1>1
    <3> QED BY <1>8, <1>14, <3>1, EntryFound DEF u
  <2>6. s[Len(s) - (x2.n + (j + 1))] = cm
    <3> HIDE DEF s, x2, cm
    <3> QED BY <2>2, <2>4, <2>5
  <2> HIDE DEF q, s, alt2, x2, cm
  <2>a. /\ s \in Stacks /\ x2 \in Elements /\ j \in Int /\ x2.kind = "num"
        /\ x2.n + (j + 1) \in 0 .. Len(s) - 1
        /\ Block(q, Lookup(j)) /\ Trace[q] = State(s ++ x2, alt2, <<>>)
      BY <1>1, <1>17, <2>1, <2>2, <2>4
  <2>7. Trace[q + 3] = State(s ++ s[Len(s) - (x2.n + (j + 1))], alt2, <<>>)
      BY ONLY <2>a, LookupRuns
  <2> QED BY <2>1, <2>6, <2>7 DEF s
<1>20. Trace[p + 21] = State(w ++ x2 ++ cm ++ z, alt2, <<>>)
  <2> DEFINE q == p + 19
  <2> DEFINE rr == r ++ x2 ++ cm
  <2> DEFINE s == Under(1, hi - 1, rr)
  <2> DEFINE d == (len + 1) - (hi - 1)
  <2>1. rr \in Stacks /\ Len(rr) = Len(r) + 2 /\ r ++ x2 \in Stacks
    <3> HIDE DEF x2, cm
    <3>1. x2 \in Elements /\ cm \in Elements /\ r \in Stacks
        BY <1>17
    <3> QED BY ONLY <3>1, PushedTwo
  <2>2. s = u ++ x2 ++ cm /\ Under(1, hi - 2, rr) = w ++ x2 ++ cm
    <3> HIDE DEF x2, cm
    <3> DEFINE rx == r ++ x2
    <3>1. Under(1, hi - 1, rx) = u ++ x2 /\ Under(1, hi - 2, rx) = w ++ x2
        BY <1>8, <1>17, UnderPush DEF u, w
    <3>2. rx \in Stacks
        BY <2>1
    <3> HIDE DEF rx
    <3>3. Under(1, hi - 1, rx ++ cm) = Under(1, hi - 1, rx) ++ cm
          /\ Under(1, hi - 2, rx ++ cm) = Under(1, hi - 2, rx) ++ cm
        BY <1>8, <1>17, <3>2, UnderPush
    <3> QED BY <3>1, <3>3 DEF rx
  <2>3. Block(q, RollCode(d, <<"pre", j>>)) /\ Trace[q] = State(s, alt2, <<>>) /\ q + 2 = p + 21
      BY <1>6, <1>19, <2>2
  <2> HIDE DEF rr
  <2>4. s \in Stacks /\ Len(s) = ((hi - 1) - 1 + 1) + Len(rr)
    <3>1. HorsGiven /\ Spans(1, hi - 1) /\ rr \in Stacks
        BY <1>8, <2>1
    <3>2. Under(1, hi - 1, rr) \in Stacks
          /\ Len(Under(1, hi - 1, rr)) = ((hi - 1) - 1 + 1) + Len(rr)
        BY ONLY <3>1, UnderIs
    <3> QED BY ONLY <3>2
  <2>5. hi - 1 >= 1 /\ (hi - 1) - 1 + 1 = hi - 1 /\ (hi - 1) - 1 = hi - 2
      BY <1>1
  <2>6. RemoveAt(s, (hi - 1) - 1 + 1) = Under(1, (hi - 1) - 1, rr)
        /\ s[(hi - 1) - 1 + 1] = witness[hi - 1]
      BY <1>8, <2>1, <2>5, UnderRemoved
  <2>7. d \in 0 .. Len(s) - 1 /\ Len(s) - d = hi - 1
    <3> DEFINE l == Len(r)
    <3> DEFINE m == Len(s)
    <3>1. hi \in Nat /\ hi >= 5 /\ l \in Nat /\ m = (hi - 1) + (l + 2)
          /\ d = (hi + l + 1) - (hi - 1)
      <4> HIDE DEF s, rr, hi, len, l, m
      <4>1. hi \in Nat /\ T \in Nat \ {0} /\ hi >= 4 + T /\ len = hi + l /\ l \in Nat
          BY <1>1 DEF l
      <4>2. Len(rr) = l + 2 /\ m = ((hi - 1) - 1 + 1) + Len(rr) /\ (hi - 1) - 1 + 1 = hi - 1
          BY <2>1, <2>4, <2>5 DEF l, m
      <4> QED BY ONLY <4>1, <4>2 DEF d
    <3> HIDE DEF m, l, d, hi
    <3>2. d \in 0 .. m - 1 /\ m - d = hi - 1
        BY ONLY <3>1
    <3> QED BY ONLY <3>2 DEF m
  <2>8. s[Len(s) - d] = z /\ RemoveAt(s, Len(s) - d) = Under(1, hi - 2, rr)
      BY <2>5, <2>6, <2>7 DEF z
  <2>9. s[Len(s) - d] = Supplied(<<"pre", j>>)
      BY <1>3, <2>8
  <2> HIDE DEF q, s, d, alt2
  <2> DEFINE name == <<"pre", j>>
  <2>a. /\ s \in Stacks /\ d \in 0 .. Len(s) - 1 /\ name \in Named
        /\ Block(q, RollCode(d, name)) /\ s[Len(s) - d] = Supplied(name)
        /\ Trace[q] = State(s, alt2, <<>>)
      BY <1>4, <2>3, <2>4, <2>7, <2>9
  <2> HIDE DEF name
  <2>10. Trace[q + 2] = State(RemoveAt(s, Len(s) - d) ++ s[Len(s) - d], alt2, <<>>)
      BY ONLY <2>a, RollCodeRuns
  <2> QED BY <2>2, <2>3, <2>8, <2>10
<1>21. IF z = Preimage(v) THEN Trace[p + 23] = State(w ++ x2, alt2, <<>>) ELSE Rejected(p + 23)
  <2> DEFINE q == p + 21
  <2> DEFINE s == w ++ x2
  <2>1. Block(q, Opened) /\ Trace[q] = State(s ++ cm ++ z, alt2, <<>>) /\ q + 2 = p + 23
      BY <1>6, <1>20
  <2>2. s \in Stacks
    <3> HIDE DEF x2
    <3> QED BY <1>9, <1>17, Pushed
  <2>3. cm = Hashed(z, "preimage", "commitment") <=> z = Preimage(v)
      BY <1>2, <1>17, OpensIs
  <2> HIDE DEF q, s, alt2, cm
  <2>4. IF cm = Hashed(z, "preimage", "commitment")
        THEN Trace[q + 2] = State(s, alt2, <<>>) ELSE Rejected(q + 2)
      BY <1>2, <1>17, <2>1, <2>2, OpenedRuns
  <2> QED BY <2>1, <2>3, <2>4 DEF s
<1>22. z = Preimage(v) /\ Trace[p + 23] = State(w ++ x2, alt2, <<>>)
    BY <1>5, <1>11, <1>12, <1>21
<1>23. done
    BY <1>5, <1>14, <1>16, <1>22
<1>24. Trace[p + 26] = State(w ++ Dummy(v), alt2, <<>>)
  <2> DEFINE q == p + 23
  <2>1. Block(q, Lookup(j)) /\ Trace[q] = State(w ++ x2, alt2, <<>>) /\ q + 3 = p + 26
      BY <1>6, <1>22
  <2>2. /\ x2.n + (j + 1) \in 0 .. Len(w) - 1
        /\ Len(w) - (x2.n + (j + 1)) = (hi - 2) + (2 * (N - v) - 1)
    <3> HIDE DEF x2
    <3>1. N \in Nat /\ j \in Nat /\ hi \in Nat /\ hi >= 4 /\ v \in 0 .. N - 1 /\ x2.n = v + v
          /\ Len(w) = hi - 2 + (2 * N + j)
        BY ONLY <1>1, <1>9, <1>14, <1>17
    <3> DEFINE n == N
    <3> DEFINE k == Len(w)
    <3> DEFINE m == x2.n
    <3>2. n \in Nat /\ j \in Nat /\ hi \in Nat /\ hi >= 4 /\ v \in 0 .. n - 1 /\ m = v + v
          /\ k = hi - 2 + (2 * n + j)
        BY <3>1
    <3> HIDE DEF n, k, m
    <3>3. m + (j + 1) \in 0 .. k - 1 /\ k - (m + (j + 1)) = (hi - 2) + (2 * (n - v) - 1)
        BY ONLY <3>2
    <3> QED BY <3>3 DEF n, k, m
  <2>3. w[(hi - 2) + (2 * (N - v) - 1)] = Dummy(v)
    <3>1. Len(r) >= 2 * N
        BY <1>1
    <3> QED BY <1>8, <1>14, <3>1, EntryFound DEF w
  <2>4. w[Len(w) - (x2.n + (j + 1))] = Dummy(v)
    <3> HIDE DEF x2
    <3> QED BY <2>2, <2>3
  <2> HIDE DEF q, alt2, x2
  <2>a. /\ w \in Stacks /\ x2 \in Elements /\ j \in Int /\ x2.kind = "num"
        /\ x2.n + (j + 1) \in 0 .. Len(w) - 1
        /\ Block(q, Lookup(j)) /\ Trace[q] = State(w ++ x2, alt2, <<>>)
      BY <1>1, <1>9, <1>17, <2>1, <2>2
  <2>5. Trace[q + 3] = State(w ++ w[Len(w) - (x2.n + (j + 1))], alt2, <<>>)
      BY ONLY <2>a, LookupRuns
  <2> QED BY <2>1, <2>4, <2>5
<1>25. Under(1, hi - 2, r ++ Dummy(v)) = w ++ Dummy(v)
    BY <1>8, <1>17, EntryIs, UnderPush DEF w
<1> QED BY <1>23, <1>24, <1>25

-----------------------------------------------------------------------------
(* A key's puzzle is solved, as its code sees it.                          *)
Solved(x, y) ==
    IF Puzzle = "hash-to-der" THEN Verifies(Hashed(x, "key", "keyhash"), y, {})
                              ELSE SizeOf(y) = SignatureBytes /\ Verifies(y, x, {})

(* A puzzle check passes exactly if the proof is that of the key.          *)
LEMMA PuzzleRuns ==
    ASSUME HorsGiven, NEW p, NEW s \in Stacks, NEW y \in Elements, NEW x \in Elements, NEW a,
           Block(p, PuzzleCode(Puzzle)), Trace[p] = State(s ++ y ++ x, a, <<>>)
    PROVE  /\ Len(PuzzleCode(Puzzle)) \in Nat
           /\ IF Solved(x, y) THEN Trace[p + Len(PuzzleCode(Puzzle))] = State(s ++ x, a, <<>>)
                              ELSE Rejected(p + Len(PuzzleCode(Puzzle)))
<1>1. CASE Puzzle = "hash-to-der"
  <2>1. Len(PuzzleCode(Puzzle)) = 5
      BY <1>1 DEF PuzzleCode
  <2>2. Block(p, PuzzleCode("hash-to-der"))
      BY <1>1
  <2>3. IF Verifies(Hashed(x, "key", "keyhash"), y, {})
        THEN Trace[p + 5] = State(s ++ x, a, <<>>) ELSE Rejected(p + 5)
      BY <2>2, HashRuns
  <2>4. p + Len(PuzzleCode(Puzzle)) = p + 5 /\ Len(PuzzleCode(Puzzle)) \in Nat
      BY <2>1
  <2>5. Solved(x, y) <=> Verifies(Hashed(x, "key", "keyhash"), y, {})
      BY <1>1 DEF Solved
  <2> DEFINE q == p + 5
  <2> DEFINE done == State(s ++ x, a, <<>>)
  <2>6. IF Solved(x, y) THEN Trace[q] = done ELSE Rejected(q)
      BY <2>3, <2>5
  <2> HIDE DEF done
  <2>7. IF Solved(x, y) THEN Trace[p + Len(PuzzleCode(Puzzle))] = done
                        ELSE Rejected(p + Len(PuzzleCode(Puzzle)))
      BY <2>4, <2>6
  <2> QED BY <2>4, <2>7 DEF done
<1>2. CASE Puzzle = "signature-size-surrogate"
  <2>1. Len(PuzzleCode(Puzzle)) = 6
      BY <1>2 DEF PuzzleCode
  <2>2. Block(p, PuzzleCode("signature-size-surrogate"))
      BY <1>2
  <2>3. IF SizeOf(y) = SignatureBytes /\ Verifies(y, x, {})
        THEN Trace[p + 6] = State(s ++ x, a, <<>>) ELSE Rejected(p + 6)
      BY <2>2, SurrogateRuns
  <2>4. p + Len(PuzzleCode(Puzzle)) = p + 6 /\ Len(PuzzleCode(Puzzle)) \in Nat
      BY <2>1
  <2>5. Solved(x, y) <=> SizeOf(y) = SignatureBytes /\ Verifies(y, x, {})
      BY <1>2 DEF Solved
  <2> DEFINE q == p + 6
  <2> DEFINE done == State(s ++ x, a, <<>>)
  <2>6. IF Solved(x, y) THEN Trace[q] = done ELSE Rejected(q)
      BY <2>3, <2>5
  <2> HIDE DEF done
  <2>7. IF Solved(x, y) THEN Trace[p + Len(PuzzleCode(Puzzle))] = done
                        ELSE Rejected(p + Len(PuzzleCode(Puzzle)))
      BY <2>4, <2>6
  <2> QED BY <2>4, <2>7 DEF done
<1> QED BY <1>1, <1>2 DEF HorsGiven

(* The code of a puzzle check.                                             *)
LEMMA PuzzleCodes ==
    ASSUME HorsGiven
    PROVE  PuzzleCode(Puzzle) \in Codes
<1>1. /\ Op("DUP") \in Instructions /\ Op("RIPEMD160") \in Instructions
      /\ Op("ROLL") \in Instructions /\ Op("CHECKSIGVERIFY") \in Instructions
      /\ Op("SWAP") \in Instructions /\ Op("SIZE") \in Instructions
      /\ Op("EQUALVERIFY") \in Instructions /\ Op("OVER") \in Instructions
    BY OpIs DEF Plain
<1>2. PushNum(2) \in Instructions /\ PushNum(SignatureBytes) \in Instructions
    BY PushNumIs, SizeIs
<1> QED BY <1>1, <1>2 DEF PuzzleCode, Codes, HorsGiven

(* A key of this transaction verifies the fixed signature, and nothing else*)
(* does.                                                                   *)
LEMMA FixedVerifies ==
    ASSUME NEW x, NEW d
    PROVE  Verifies(Fixed, x, d) <=> x = Key(Spend, d)
<1>1. Fixed.kind = "fixed"
    BY Constants
<1> QED BY <1>1 DEF Verifies

(* A dummy verifies under its own key only.                                *)
LEMMA DummyVerifies ==
    ASSUME NEW n \in Int, NEW x, NEW d
    PROVE  Verifies(Dummy(n), x, d) <=> x = DummyKey(n)
<1>1. "dummy" \in Kinds /\ {} \in SUBSET Int
    BY DEF Kinds
<1>2. Element("dummy", n, {}).kind = "dummy" /\ Element("dummy", n, {}).n = n
    BY <1>1, ElementIs
<1>3. Dummy(n).kind = "dummy" /\ Dummy(n).n = n
    BY <1>2 DEF Dummy
<1>4. Dummy(n) # Fixed
    BY <1>3, Constants
<1> QED BY <1>3, <1>4 DEF Verifies

(* The puzzle of a key of this transaction is solved by the key's proof, if*)
(* there is one.                                                           *)
LEMMA PuzzleSolved ==
    ASSUME HorsGiven, NEW d \in SUBSET Int, NEW y \in Elements
    PROVE  Solved(Key(Spend, d), y) <=> y = Proof(Puzzle, Spend, d) /\ <<Spend, d>> \in hits
<1>1. /\ "key" \in Kinds /\ "keyhash" \in Kinds /\ "proofsig" \in Kinds /\ "proofkey" \in Kinds
      /\ Spend \in Int
    BY DEF Kinds, Spend
<1>2. /\ Key(Spend, d) \in Elements /\ Key(Spend, d).kind = "key" /\ Key(Spend, d).n = Spend
      /\ Key(Spend, d).s = d
  <2>1. /\ Element("key", Spend, d) \in Elements /\ Element("key", Spend, d).kind = "key"
        /\ Element("key", Spend, d).n = Spend /\ Element("key", Spend, d).s = d
      BY <1>1, ElementIs
  <2> QED BY <2>1 DEF Key
<1>3. CASE Puzzle = "hash-to-der"
  <2> DEFINE h == Element("keyhash", Spend, d)
  <2>1. h.kind = "keyhash" /\ h.n = Spend /\ h.s = d
      BY <1>1, ElementIs
  <2>2. Hashed(Key(Spend, d), "key", "keyhash") = h
    <3>1. Hashed(Key(Spend, d), "key", "keyhash")
            = Element("keyhash", Key(Spend, d).n, Key(Spend, d).s)
        BY <1>1, <1>2, HashedType
    <3> QED BY <1>2, <3>1
  <2> HIDE DEF h
  <2>3. h # Fixed
      BY <2>1, Constants
  <2>4. Verifies(h, y, {}) <=> <<Spend, d>> \in hits /\ y = Proof("hash-to-der", Spend, d)
      BY <2>1, <2>3 DEF Verifies
  <2> QED BY <1>3, <2>2, <2>4 DEF Solved
<1>4. CASE Puzzle = "signature-size-surrogate"
  <2>1. SizeOf(y) = SignatureBytes <=> y.kind = "proofsig" /\ <<y.n, y.s>> \in hits
      BY DEF SizeOf, SignatureBytes
  <2>2. ASSUME y.kind = "proofsig"
        PROVE  Verifies(y, Key(Spend, d), {}) <=> y.n = Spend /\ y.s = d
    <3>1. y # Fixed
        BY <2>2, Constants
    <3>2. Verifies(y, Key(Spend, d), {}) <=> Key(Spend, d) = Key(y.n, y.s)
        BY <2>2, <3>1 DEF Verifies
    <3>3. y.n \in Int /\ y.s \in SUBSET Int
        BY DEF Elements
    <3>4. Element("key", y.n, y.s).n = y.n /\ Element("key", y.n, y.s).s = y.s
        BY <1>1, <3>3, ElementIs
    <3>5. Key(y.n, y.s).n = y.n /\ Key(y.n, y.s).s = y.s
        BY <3>4 DEF Key
    <3> QED BY <1>2, <3>2, <3>5
  <2> DEFINE e == Element("proofsig", Spend, d)
  <2>3. /\ e.kind = "proofsig" /\ e.n = Spend /\ e.s = d
        /\ \A x \in Elements : x.kind = "proofsig" /\ x.n = Spend /\ x.s = d => x = e
    <3>1. e.kind = "proofsig" /\ e.n = Spend /\ e.s = d
        BY <1>1, ElementIs
    <3>2. \A x \in Elements : x.kind = "proofsig" /\ x.n = Spend /\ x.s = d => x = e
        BY DEF Elements, Element
    <3> QED BY <3>1, <3>2
  <2>4. Proof(Puzzle, Spend, d) = e
      BY <1>4 DEF Proof
  <2> HIDE DEF e
  <2>5. y = e <=> y.kind = "proofsig" /\ y.n = Spend /\ y.s = d
      BY <2>3
  <2>6. Solved(Key(Spend, d), y) <=>
          y.kind = "proofsig" /\ <<y.n, y.s>> \in hits /\ Verifies(y, Key(Spend, d), {})
      BY <1>4, <2>1 DEF Solved
  <2> QED BY <2>2, <2>4, <2>5, <2>6
<1> QED BY <1>3, <1>4 DEF HorsGiven

(* Fixed signature and puzzle together are what Passes says.               *)
LEMMA KeyPasses ==
    ASSUME HorsGiven, NEW d \in SUBSET Int, NEW y \in Elements, NEW x
    PROVE  Passes(x, y, d) <=> Verifies(Fixed, x, d) /\ Solved(x, y)
<1>1. CASE x = Key(Spend, d)
    BY <1>1, PuzzleSolved, FixedVerifies DEF Passes
<1>2. CASE x # Key(Spend, d)
    BY <1>2, FixedVerifies DEF Passes
<1> QED BY <1>1, <1>2

-----------------------------------------------------------------------------
(* compile() checks a puzzle.                                              *)
LEMMA PuzzleKeeps ==
    ASSUME HorsGiven, NEW c, NEW lo, NEW hi, NEW len, Keeps(c, lo, hi, len),
           2 <= len - (hi - lo + 1)
    PROVE  /\ Keeps(PuzzleCheck(c, Puzzle), lo, hi, len - 1)
           /\ Written(PuzzleCheck(c, Puzzle)) =>
                /\ Written(c) /\ Block(EndOf(c), PuzzleCode(Puzzle)) /\ EndOf(c) \in Nat \ {0}
                /\ EndOf(PuzzleCheck(c, Puzzle)) = EndOf(c) + Len(PuzzleCode(Puzzle))
                /\ EndOf(PuzzleCheck(c, Puzzle)) \in 1 .. Len(Script) + 1
<1> DEFINE names == <<<<"preserved_key", 0>>>>
<1> DEFINE code == PuzzleCode(Puzzle)
<1> DEFINE e == Emit(c, code)
<1> DEFINE d == PuzzleCheck(c, Puzzle)
<1>1. names \in Seq(Labels) /\ Len(names) = 1
  <2>1. <<"preserved_key", 0>> \in Labels
      BY LabelIs
  <2> QED BY <2>1
<1>2. code \in Codes
    BY PuzzleCodes
<1>3. d = Renamed(e, 2, names)
    BY DEF PuzzleCheck
<1> HIDE DEF names, code, d
<1>4. Keeps(e, lo, hi, len)
    BY <1>2, KeepsEmit
<1>5. /\ len \in Nat /\ lo \in Nat /\ hi \in Nat /\ 2 \in Nat
      /\ (len - 2) + 1 = len - 1
    BY DEF Keeps
<1>6. Keeps(d, lo, hi, (len - 2) + Len(names)) /\ (Written(d) <=> Written(e)) /\ EndOf(d) = EndOf(e)
  <2> HIDE DEF e
  <2> QED BY <1>1, <1>3, <1>4, <1>5, KeepsRenamed, WrittenRenamed
<1>7. Written(e) => /\ Written(c) /\ Block(EndOf(c), code) /\ EndOf(c) \in Nat \ {0}
                    /\ EndOf(e) = EndOf(c) + Len(code)
                    /\ EndOf(e) \in 1 .. Len(Script) + 1
    BY <1>2, WrittenEmit
<1> QED BY <1>1, <1>5, <1>6, <1>7 DEF code, d

(* A puzzle check as a stage of the compiler.                              *)
LEMMA PuzzleStage ==
    ASSUME HorsGiven, NEW c, NEW lo, NEW hi, NEW len, Keeps(c, lo, hi, len),
           2 <= len - (hi - lo + 1), Written(PuzzleCheck(c, Puzzle)),
           NEW s \in Stacks, NEW y \in Elements, NEW x \in Elements, NEW a,
           Trace[EndOf(c)] = State(s ++ y ++ x, a, <<>>)
    PROVE  IF Solved(x, y) THEN Trace[EndOf(PuzzleCheck(c, Puzzle))] = State(s ++ x, a, <<>>)
                           ELSE Rejected(EndOf(PuzzleCheck(c, Puzzle)))
<1>1. /\ Block(EndOf(c), PuzzleCode(Puzzle))
      /\ EndOf(PuzzleCheck(c, Puzzle)) = EndOf(c) + Len(PuzzleCode(Puzzle))
    BY PuzzleKeeps
<1> DEFINE p == EndOf(c)
<1>2. Block(p, PuzzleCode(Puzzle)) /\ Trace[p] = State(s ++ y ++ x, a, <<>>)
    BY <1>1
<1> HIDE DEF p
<1>3. IF Solved(x, y) THEN Trace[p + Len(PuzzleCode(Puzzle))] = State(s ++ x, a, <<>>)
                      ELSE Rejected(p + Len(PuzzleCode(Puzzle)))
    BY <1>2, PuzzleRuns
<1> QED BY <1>1, <1>3 DEF p

-----------------------------------------------------------------------------
(* compile() begins with the pinned key.                                   *)
Opening(t) == [script |-> <<Push(Fixed), Op("OVER"), Op("CHECKSIGVERIFY")>>, stack |-> Names(t)]

(* The compiler state the script opens with.                               *)
LEMMA OpeningKeeps ==
    ASSUME HorsGiven
    PROVE  /\ Keeps(Opening(T), 1, 3 * T + 2, 3 * T + 4)
           /\ EndOf(Opening(T)) = 4
           /\ Written(Opening(T)) =>
                Block(1, <<Push(Fixed), Op("OVER"), Op("CHECKSIGVERIFY")>>)
<1>1. /\ Opening(T).script = <<Push(Fixed), Op("OVER"), Op("CHECKSIGVERIFY")>>
      /\ Opening(T).stack = Names(T)
    BY DEF Opening
<1>2. /\ Push(Fixed) \in Instructions /\ Op("OVER") \in Instructions
      /\ Op("CHECKSIGVERIFY") \in Instructions
    BY PushIs, OpIs, Constants DEF Plain
<1>3. Opening(T).script \in Codes /\ Len(Opening(T).script) = 3
    BY <1>1, <1>2 DEF Codes
<1>4. T \in Nat /\ Names(T) \in Seq(Named) /\ Len(Names(T)) = 3 * T + 4
    BY NamesAre DEF HorsGiven
<1>5. Named \subseteq Labels
    BY DEF Named, Labels
<1>6. Names(T) \in Seq(Labels)
  <2> DEFINE s == Names(T)
  <2>1. s \in Seq(Named)
      BY <1>4
  <2> HIDE DEF s
  <2>2. s \in Seq(Labels)
      BY <1>5, <2>1
  <2> QED BY <2>2 DEF s
<1>7. Opening(T) \in Compilers
    BY <1>1, <1>3, <1>6 DEF Compilers, Opening
<1>8. Keeps(Opening(T), 1, 3 * T + 4, 3 * T + 4)
  <2>1. \A i \in 1 .. 3 * T + 4 : Opening(T).stack[i] = Names(T)[i]
      BY <1>1
  <2>2. \A i \in 1 .. 3 * T + 4 - 1 + 1 : i \in 1 .. 3 * T + 4 /\ 1 + i - 1 = i
      BY <1>4
  <2>3. \A i \in 1 .. 3 * T + 4 - 1 + 1 : Opening(T).stack[i] = Names(T)[1 + i - 1]
      BY <2>1, <2>2
  <2>4. /\ 1 \in Nat \ {0} /\ 3 * T + 4 \in Nat /\ 3 * T + 4 <= 3 * T + 4 /\ 3 * T + 4 >= 1 - 1
        /\ 3 * T + 4 >= 3 * T + 4 - 1 + 1 /\ Len(Opening(T).stack) = 3 * T + 4
      BY <1>1, <1>4
  <2> QED BY <1>4, <1>7, <2>3, <2>4 DEF Keeps
<1>9. Keeps(Opening(T), 1, 3 * T + 2, 3 * T + 4)
  <2>1. 3 * T + 2 \in 1 - 1 .. 3 * T + 4
      BY <1>4
  <2> QED BY <1>8, <2>1, KeepsLess
<1> QED BY <1>1, <1>3, <1>9 DEF EndOf, Written

(* The compiler state after the pinning check.                             *)
LEMMA PinnedKeeps ==
    ASSUME HorsGiven
    PROVE  /\ Keeps(Pinned(T, Puzzle), 1, 3 * T + 2, 3 * T + 2)
           /\ Written(Pinned(T, Puzzle)) =>
                /\ Written(PuzzleCheck(Opening(T), Puzzle))
                /\ Block(EndOf(PuzzleCheck(Opening(T), Puzzle)), <<Op("DROP")>>)
                /\ EndOf(PuzzleCheck(Opening(T), Puzzle)) \in Nat \ {0}
                /\ EndOf(Pinned(T, Puzzle)) = EndOf(PuzzleCheck(Opening(T), Puzzle)) + 1
                /\ EndOf(Pinned(T, Puzzle)) \in 1 .. Len(Script) + 1
<1> DEFINE c == PuzzleCheck(Opening(T), Puzzle)
<1> DEFINE hi == 3 * T + 2
<1> DEFINE code == <<Op("DROP")>>
<1> DEFINE names == <<>>
<1> DEFINE e == Emit(c, code)
<1> DEFINE d == Pinned(T, Puzzle)
<1>1. d = Renamed(e, 1, names)
    BY DEF Pinned, Opening
<1>2. code \in Codes /\ Len(code) = 1
  <2>1. Op("DROP") \in Instructions
      BY OpIs DEF Plain
  <2> QED BY <2>1 DEF Codes
<1>3. names \in Seq(Labels) /\ Len(names) = 0
    OBVIOUS
<1>4. T \in Nat /\ hi \in Nat /\ 3 * T + 4 = hi + 2
    BY DEF HorsGiven
<1>5. Keeps(c, 1, hi, hi + 1)
  <2>1. Keeps(Opening(T), 1, hi, hi + 2)
      BY <1>4, OpeningKeeps
  <2>2. 2 <= (hi + 2) - (hi - 1 + 1) /\ (hi + 2) - 1 = hi + 1
      BY <1>4
  <2> HIDE DEF hi
  <2>3. Keeps(c, 1, hi, (hi + 2) - 1)
      BY <2>1, <2>2, PuzzleKeeps
  <2> QED BY <2>2, <2>3
<1> HIDE DEF c, hi, code, names, d
<1>6. Keeps(e, 1, hi, hi + 1)
    BY <1>2, <1>5, KeepsEmit
<1>7. 1 \in Nat /\ 1 <= (hi + 1) - (hi - 1 + 1) /\ ((hi + 1) - 1) + 0 = hi
    BY <1>4
<1>8. /\ Keeps(d, 1, hi, ((hi + 1) - 1) + Len(names))
      /\ (Written(d) <=> Written(e)) /\ EndOf(d) = EndOf(e)
  <2> HIDE DEF e
  <2> QED BY <1>1, <1>3, <1>6, <1>7, KeepsRenamed, WrittenRenamed
<1>9. Written(e) => /\ Written(c) /\ Block(EndOf(c), code) /\ EndOf(c) \in Nat \ {0}
                    /\ EndOf(e) = EndOf(c) + Len(code)
                    /\ EndOf(e) \in 1 .. Len(Script) + 1
    BY <1>2, <1>5, WrittenEmit
<1> QED BY <1>2, <1>3, <1>7, <1>8, <1>9 DEF c, d, code, hi

(* The witness is its two topmost elements on the others.                  *)
LEMMA WitnessSplits ==
    ASSUME HorsGiven
    PROVE  /\ witness = Under(1, 3 * T + 2, <<>>) ++ witness[3 * T + 3] ++ witness[3 * T + 4]
           /\ Under(1, 3 * T + 2, <<>>) \in Stacks
<1> DEFINE h == 3 * T + 2
<1> DEFINE r == <<>>
<1> DEFINE s == Under(1, h, r)
<1> DEFINE y == witness[h + 1]
<1> DEFINE x == witness[h + 2]
<1>1. T \in Nat /\ h \in Nat /\ h + 1 = 3 * T + 3 /\ h + 2 = 3 * T + 4 /\ Len(witness) = h + 2
    BY DEF HorsGiven
<1>2. r \in Stacks /\ Len(r) = 0
    BY DEF Stacks
<1>3. Spans(1, h)
    BY <1>1 DEF Spans
<1> HIDE DEF h, r
<1>4. s \in Stacks /\ Len(s) = (h - 1 + 1) + Len(r)
    BY <1>2, <1>3, UnderIs
<1>4a. \A i \in 1 .. h - 1 + 1 : s[i] = witness[1 + i - 1]
  <2>1. HorsGiven
      OBVIOUS
  <2> DEFINE lo == 1
  <2>2. Spans(lo, h)
      BY <1>3
  <2> HIDE DEF lo
  <2>3. \A i \in 1 .. h - lo + 1 : Under(lo, h, r)[i] = witness[lo + i - 1]
      BY ONLY <1>2, <2>1, <2>2, UnderIs
  <2> QED BY <2>3 DEF lo
<1> HIDE DEF s
<1>5. Len(s) = h /\ \A i \in 1 .. h : s[i] = witness[i]
  <2>1. h - 1 + 1 = h
      BY <1>1
  <2>2. \A i \in 1 .. h : 1 + i - 1 = i
      BY <1>1
  <2> QED BY <1>2, <1>4, <1>4a, <2>1, <2>2, <1>1
<1>6. y \in Elements /\ x \in Elements
  <2>1. h + 1 \in 1 .. 3 * T + 4 /\ h + 2 \in 1 .. 3 * T + 4
      BY <1>1
  <2> QED BY <2>1, WitnessIs
<1> HIDE DEF y, x
<1>7. /\ s ++ y \in Stacks /\ Len(s ++ y) = h + 1 /\ (s ++ y)[h + 1] = y
      /\ \A i \in 1 .. h : (s ++ y)[i] = s[i]
    BY <1>4, <1>5, <1>6, Pushed
<1> DEFINE u == s ++ y
<1> HIDE DEF u
<1>8. /\ u \in Stacks /\ Len(u) = h + 1 /\ u[h + 1] = y /\ \A i \in 1 .. h : u[i] = s[i]
    BY <1>7 DEF u
<1>9. /\ u ++ x \in Stacks /\ Len(u ++ x) = (h + 1) + 1 /\ (u ++ x)[(h + 1) + 1] = x
      /\ \A i \in 1 .. h + 1 : (u ++ x)[i] = u[i]
  <2>1. u \in Stacks /\ x \in Elements /\ Len(u) = h + 1
      BY <1>6, <1>8
  <2>2. /\ u ++ x \in Stacks /\ Len(u ++ x) = Len(u) + 1 /\ (u ++ x)[Len(u) + 1] = x
        /\ \A i \in 1 .. Len(u) : (u ++ x)[i] = u[i]
      BY ONLY <2>1, Pushed
  <2> QED BY <2>1, <2>2
<1> DEFINE v == u ++ x
<1> HIDE DEF v
<1>10. v \in Seq(Elements) /\ Len(v) = h + 2 /\ witness \in Seq(Elements)
  <2>1. (h + 1) + 1 = h + 2
      BY <1>1
  <2> QED BY <1>9, <2>1 DEF v, Stacks, HorsGiven
<1>11. \A i \in 1 .. h + 2 : witness[i] = v[i]
  <2> TAKE i \in 1 .. h + 2
  <2>1. CASE i \in 1 .. h
      BY <1>1, <1>5, <1>8, <1>9, <2>1 DEF v
  <2>2. CASE i = h + 1
    <3>1. i \in 1 .. h + 1
        BY <1>1, <2>2
    <3> QED BY <1>8, <1>9, <2>2, <3>1 DEF v, y
  <2>3. CASE i = h + 2
    <3>1. (h + 1) + 1 = h + 2
        BY <1>1
    <3> QED BY <1>9, <2>3, <3>1 DEF v, x
  <2> QED BY <1>1, <2>1, <2>2, <2>3
<1>12. witness = v
    BY <1>1, <1>10, <1>11, SeqEqual
<1> QED BY <1>1, <1>4, <1>12 DEF v, u, s, y, x, h, r

(* The pinning check passes exactly for the key and proof of this          *)
(* transaction.                                                            *)
LEMMA PinnedRuns ==
    ASSUME HorsGiven, Written(Pinned(T, Puzzle))
    PROVE  IF Passes(witness[3 * T + 4], witness[3 * T + 3], {})
           THEN Trace[EndOf(Pinned(T, Puzzle))] = State(Under(1, 3 * T + 2, <<>>), <<>>, <<>>)
           ELSE Rejected(EndOf(Pinned(T, Puzzle)))
<1> DEFINE c == PuzzleCheck(Opening(T), Puzzle)
<1> DEFINE s == Under(1, 3 * T + 2, <<>>)
<1> DEFINE y == witness[3 * T + 3]
<1> DEFINE x == witness[3 * T + 4]
<1> DEFINE d == Pinned(T, Puzzle)
<1> DEFINE code == <<Push(Fixed), Op("OVER"), Op("CHECKSIGVERIFY")>>
<1> DEFINE none == <<>>
<1>1. T \in Nat /\ 2 <= (3 * T + 4) - (3 * T + 2 - 1 + 1)
    BY DEF HorsGiven
<1>2. /\ Written(c) /\ Block(EndOf(c), <<Op("DROP")>>) /\ EndOf(c) \in Nat \ {0}
      /\ EndOf(d) = EndOf(c) + 1 /\ EndOf(d) \in 1 .. Len(Script) + 1
    BY PinnedKeeps
<1>3. Keeps(Opening(T), 1, 3 * T + 2, 3 * T + 4) /\ EndOf(Opening(T)) = 4
    BY OpeningKeeps
<1>4. /\ Written(Opening(T)) /\ EndOf(c) \in 1 .. Len(Script) + 1
      /\ EndOf(c) = 4 + Len(PuzzleCode(Puzzle))
  <2> DEFINE o == Opening(T)
  <2> DEFINE hi == 3 * T + 2
  <2> DEFINE len == 3 * T + 4
  <2> DEFINE lo == 1
  <2>1. /\ Keeps(o, lo, hi, len) /\ 2 <= len - (hi - lo + 1) /\ Written(PuzzleCheck(o, Puzzle))
        /\ EndOf(o) = 4
      BY <1>1, <1>2, <1>3
  <2> HIDE DEF o, hi, len, lo
  <2>2. /\ Written(o) /\ EndOf(PuzzleCheck(o, Puzzle)) \in 1 .. Len(Script) + 1
        /\ EndOf(PuzzleCheck(o, Puzzle)) = EndOf(o) + Len(PuzzleCode(Puzzle))
      BY <2>1, PuzzleKeeps
  <2> QED BY <2>1, <2>2 DEF o
<1>5. Block(1, code)
    BY <1>4, OpeningKeeps
<1>6. x \in Elements /\ y \in Elements /\ s \in Stacks /\ witness = s ++ y ++ x
  <2>1. 3 * T + 3 \in 1 .. 3 * T + 4 /\ 3 * T + 4 \in 1 .. 3 * T + 4
      BY <1>1
  <2> QED BY <2>1, WitnessIs, WitnessSplits
<1>7. Len(Script) \in Nat
    BY <1>5 DEF Block
<1>8. Trace[1] = State(s ++ y ++ x, none, none)
    BY <1>6, <1>7, TraceSteps
<1>9. IF Verifies(Fixed, x, {}) THEN Trace[4] = State(s ++ y ++ x, none, none) ELSE Rejected(4)
  <2> DEFINE u == s ++ y
  <2>1. u \in Stacks
    <3> HIDE DEF s, y
    <3> QED BY <1>6, Pushed
  <2>2. Trace[1] = State(u ++ x, none, <<>>)
        /\ Block(1, <<Push(Fixed), Op("OVER"), Op("CHECKSIGVERIFY")>>)
      BY <1>5, <1>8
  <2> DEFINE p == 1
  <2>3. Trace[p] = State(u ++ x, none, <<>>)
        /\ Block(p, <<Push(Fixed), Op("OVER"), Op("CHECKSIGVERIFY")>>)
        /\ p + 3 = 4
      BY <2>2
  <2> HIDE DEF u, x, p, none
  <2>4. IF Verifies(Fixed, x, {}) THEN Trace[p + 3] = State(u ++ x, none, <<>>) ELSE Rejected(p + 3)
      BY <1>6, <2>1, <2>3, FixedRuns
  <2> QED BY <2>3, <2>4 DEF u, none
<1> DEFINE done == Passes(x, y, {})
<1>10. done <=> Verifies(Fixed, x, {}) /\ Solved(x, y)
  <2> DEFINE e == {}
  <2>1. e \in SUBSET Int
      OBVIOUS
  <2> HIDE DEF e
  <2>2. Passes(x, y, e) <=> Verifies(Fixed, x, e) /\ Solved(x, y)
      BY <1>6, <2>1, KeyPasses
  <2> QED BY <2>2 DEF e
<1>11. done \in BOOLEAN
    BY DEF Passes
<1>12. \A q \in 1 .. Len(Script) + 1 : q <= EndOf(d) /\ Rejected(q) => Rejected(EndOf(d))
  <2> TAKE q \in 1 .. Len(Script) + 1
  <2> HAVE q <= EndOf(d) /\ Rejected(q)
  <2> DEFINE m == EndOf(d)
  <2>1. m \in q .. Len(Script) + 1
      BY <1>2, <1>7
  <2> HIDE DEF m
  <2>2. Rejected(m)
      BY <1>7, <2>1, RejectedStays
  <2> QED BY <2>2 DEF m
<1>13. 4 \in 1 .. Len(Script) + 1 /\ 4 <= EndOf(d) /\ EndOf(c) <= EndOf(d)
  <2>1. Len(PuzzleCode(Puzzle)) \in Nat
    <3>1. PuzzleCode(Puzzle) \in Seq(Instructions)
        BY PuzzleCodes DEF Codes
    <3> QED BY <3>1, LenProperties
  <2>2. EndOf(c) = 4 + Len(PuzzleCode(Puzzle))
      BY <1>4
  <2> QED BY <1>2, <1>4, <1>7, <2>1, <2>2
<1>14. ASSUME Verifies(Fixed, x, {})
       PROVE  IF Solved(x, y) THEN Trace[EndOf(c)] = State(s ++ x, none, none)
                              ELSE Rejected(EndOf(c))
  <2> DEFINE o == Opening(T)
  <2>1. Trace[EndOf(o)] = State(s ++ y ++ x, none, <<>>)
      BY <1>3, <1>9, <1>14
  <2>2. /\ Keeps(o, 1, 3 * T + 2, 3 * T + 4) /\ Written(PuzzleCheck(o, Puzzle))
      BY <1>2, <1>3
  <2> DEFINE l == PuzzleCheck(o, Puzzle)
  <2> HIDE DEF o, s, x, y, none
  <2>3. IF Solved(x, y) THEN Trace[EndOf(l)] = State(s ++ x, none, <<>>) ELSE Rejected(EndOf(l))
      BY <1>1, <1>6, <2>1, <2>2, PuzzleStage
  <2> QED BY <2>3 DEF o, none
<1>15. ASSUME done
       PROVE  Trace[EndOf(d)] = State(s, none, none)
  <2> DEFINE p == EndOf(c)
  <2>1. Trace[p] = State(s ++ x, none, <<>>)
      BY <1>10, <1>14, <1>15
  <2>2. Reads(p, "DROP")
    <3> DEFINE block == <<Op("DROP")>>
    <3>1. Block(p, block) /\ 1 \in 1 .. Len(block) /\ block[1] = Op("DROP") /\ p = p + 1 - 1
        BY <1>2
    <3> HIDE DEF p, block
    <3>2. Reads(p, block[1].op)
        BY <3>1, BlockReads
    <3>3. Op("DROP").op = "DROP"
        BY OpIs DEF Plain
    <3> QED BY <3>1, <3>2, <3>3
  <2>3. On(<<>>)
      BY NoneOn
  <2> DEFINE b == <<>>
  <2>4. On(b) /\ Trace[p] = State(s ++ x, none, b)
      BY <2>1, <2>3
  <2> HIDE DEF p, s, x, none, b
  <2>5. Trace[p + 1] = State(s, none, b)
      BY <1>6, <2>2, <2>4, RunDrop
  <2> QED BY <1>2, <2>5 DEF p, b, none
<1>16. ASSUME ~done
       PROVE  Rejected(EndOf(d))
    BY <1>4, <1>9, <1>10, <1>12, <1>13, <1>14, <1>16
<1> HIDE DEF done
<1>17. IF done THEN Trace[EndOf(d)] = State(s, none, none) ELSE Rejected(EndOf(d))
    BY <1>15, <1>16
<1> QED BY <1>17 DEF done

-----------------------------------------------------------------------------
(* compile() pushes the table.                                             *)
LEMMA TabledKeeps ==
    ASSUME HorsGiven
    PROVE  /\ Keeps(Tabled(N, T, Puzzle), 1, 3 * T + 2, 3 * T + 2 + 2 * N)
           /\ Written(Tabled(N, T, Puzzle)) =>
                /\ Written(Pinned(T, Puzzle)) /\ Block(EndOf(Pinned(T, Puzzle)), Table(N))
                /\ EndOf(Pinned(T, Puzzle)) \in Nat \ {0}
                /\ Block(EndOf(Pinned(T, Puzzle)) + 2 * N, <<PushNum(-1), Op("TOALT")>>)
                /\ EndOf(Tabled(N, T, Puzzle)) = EndOf(Pinned(T, Puzzle)) + 2 * N + 2
                /\ EndOf(Tabled(N, T, Puzzle)) \in 1 .. Len(Script) + 1
<1> DEFINE c == Pinned(T, Puzzle)
<1> DEFINE hi == 3 * T + 2
<1> DEFINE code == <<PushNum(-1), Op("TOALT")>>
<1> DEFINE names == TableNames(N)
<1> DEFINE table == Table(N)
<1> DEFINE e == Emit(c, table)
<1> DEFINE f == Emit(e, code)
<1> DEFINE d == Tabled(N, T, Puzzle)
<1>1. d = Renamed(f, 0, names)
    BY DEF Tabled
<1>2. code \in Codes /\ Len(code) = 2
  <2>1. Op("TOALT") \in Instructions /\ PushNum(-1) \in Instructions
      BY OpIs, PushNumIs DEF Plain
  <2> QED BY <2>1 DEF Codes
<1>3. T \in Nat /\ N \in Nat /\ hi \in Nat
    BY DEF HorsGiven
<1>4. /\ names \in Seq(Labels) /\ Len(names) = 2 * N /\ table \in Codes /\ Len(table) = 2 * N
    BY <1>3, TableIs
<1>5. Keeps(c, 1, hi, hi)
    BY PinnedKeeps
<1> HIDE DEF c, hi, code, names, d, table
<1>6. Keeps(e, 1, hi, hi)
    BY <1>4, <1>5, KeepsEmit
<1> HIDE DEF e
<1>7. Keeps(f, 1, hi, hi)
    BY <1>2, <1>6, KeepsEmit
<1>8. 0 \in Nat /\ 0 <= hi - (hi - 1 + 1) /\ (hi - 0) + 2 * N = hi + 2 * N
    BY <1>3
<1>9. /\ Keeps(d, 1, hi, (hi - 0) + Len(names))
      /\ (Written(d) <=> Written(f)) /\ EndOf(d) = EndOf(f)
  <2> HIDE DEF f
  <2> QED BY <1>1, <1>4, <1>7, <1>8, KeepsRenamed, WrittenRenamed
<1>10. Written(f) => /\ Written(e) /\ Block(EndOf(e), code) /\ EndOf(f) = EndOf(e) + Len(code)
                     /\ EndOf(f) \in 1 .. Len(Script) + 1
    BY <1>2, <1>6, WrittenEmit
<1>11. Written(e) => /\ Written(c) /\ Block(EndOf(c), table) /\ EndOf(c) \in Nat \ {0}
                     /\ EndOf(e) = EndOf(c) + Len(table)
    BY <1>4, <1>5, WrittenEmit DEF e
<1>12. Keeps(d, 1, hi, hi + 2 * N)
    BY <1>4, <1>8, <1>9
<1>13. Written(d) => /\ Written(c) /\ Block(EndOf(c), table) /\ EndOf(c) \in Nat \ {0}
                     /\ Block(EndOf(c) + 2 * N, code) /\ EndOf(d) = EndOf(c) + 2 * N + 2
                     /\ EndOf(d) \in 1 .. Len(Script) + 1
    BY <1>2, <1>4, <1>9, <1>10, <1>11
<1> QED BY <1>12, <1>13 DEF c, hi, d, code, table

(* Nothing on top of what is left of the witness.                          *)
LEMMA UnderNone ==
    ASSUME HorsGiven, NEW lo, NEW hi, Spans(lo, hi), NEW r \in Stacks
    PROVE  Under(lo, hi, <<>>) \o r = Under(lo, hi, r)
<1>1. SubSeq(witness, lo, hi) \in Stacks
  <2>1. \A i \in lo .. hi : witness[i] \in Elements
    <3> TAKE i \in lo .. hi
    <3>1. i \in 1 .. Len(witness) /\ witness \in Seq(Elements)
        BY DEF HorsGiven, Spans, Stacks
    <3> QED BY <3>1, ElementOfSeq
  <2>2. lo \in Int /\ hi \in Int
      BY DEF Spans
  <2>3. SubSeq(witness, lo, hi) \in Seq(Elements)
      BY ONLY <2>1, <2>2, SubSeqProperties
  <2> QED BY <2>3 DEF Stacks
<1>2. SubSeq(witness, lo, hi) \o <<>> = SubSeq(witness, lo, hi)
    BY <1>1, PushedNone
<1> QED BY <1>2 DEF Under

(* The table is pushed on what the witness has left.                       *)
LEMMA TabledRuns ==
    ASSUME HorsGiven, Written(Tabled(N, T, Puzzle)),
           Trace[EndOf(Pinned(T, Puzzle))] = State(Under(1, 3 * T + 2, <<>>), <<>>, <<>>)
    PROVE  Trace[EndOf(Tabled(N, T, Puzzle))] =
             State(Under(1, 3 * T + 2, Entries(N)), <<>> ++ Num(-1), <<>>)
<1> DEFINE p == EndOf(Pinned(T, Puzzle))
<1> DEFINE code == <<PushNum(-1), Op("TOALT")>>
<1> DEFINE table == Table(N)
<1> DEFINE r == Entries(N)
<1> DEFINE s == Under(1, 3 * T + 2, <<>>)
<1> DEFINE none == <<>>
<1> DEFINE x == Num(-1)
<1>1. /\ Block(p, table) /\ p \in Nat \ {0} /\ Block(p + 2 * N, code)
      /\ EndOf(Tabled(N, T, Puzzle)) = p + 2 * N + 2
    BY TabledKeeps
<1>2. N \in Nat /\ T \in Nat /\ Spans(1, 3 * T + 2)
    BY DEF HorsGiven, Spans
<1>3. r \in Stacks /\ Len(r) = 2 * N
    BY <1>2, EntriesAre
<1>4. Len(table) = 2 * N /\ \A k \in 1 .. 2 * N : table[k].op = "PUSH" /\ table[k].arg = r[k]
    BY <1>2, TableIs
<1>5. s \in Stacks /\ s \o r = Under(1, 3 * T + 2, r)
    BY <1>2, <1>3, UnderNone, WitnessSplits
<1>6. Trace[p] = State(s, none, none)
    OBVIOUS
<1>7. Trace[p + 2 * N] = State(s \o r, none, none)
  <2>1. Trace[p] = State(s, none, <<>>)
      BY <1>6
  <2> HIDE DEF p, table, r, s, none
  <2>a. /\ r \in Stacks /\ s \in Stacks /\ Len(table) = Len(r) /\ Block(p, table)
        /\ \A i \in 1 .. Len(r) : table[i].op = "PUSH" /\ table[i].arg = r[i]
      BY <1>1, <1>3, <1>4, <1>5
  <2>2. Trace[p + Len(table)] = State(s \o r, none, <<>>)
      BY ONLY <2>1, <2>a, PushesRun
  <2> QED BY <1>4, <2>2 DEF none
<1> DEFINE q == p + 2 * N
<1> DEFINE u == Under(1, 3 * T + 2, r)
<1>8. q \in Nat \ {0} /\ q + 1 = p + 2 * N + 1 /\ (q + 1) + 1 = p + 2 * N + 2
    BY <1>1, <1>2
<1>9. Trace[q] = State(u, none, none) /\ u \in Stacks /\ Block(q, code)
    BY <1>1, <1>2, <1>3, <1>5, <1>7, UnderIs
<1>10. /\ Script[q] = PushNum(-1) /\ Reads(q, "PUSH")
       /\ Reads(q + 1, "TOALT")
  <2>1. /\ code[1] = PushNum(-1) /\ code[2] = Op("TOALT") /\ 1 \in 1 .. Len(code)
           /\ 2 \in 1 .. Len(code)
        /\ q = q + 1 - 1 /\ q + 1 = q + 2 - 1 /\ Block(q, code)
      BY <1>8, <1>9
  <2>2. PushNum(-1).op = "PUSH" /\ Op("TOALT").op = "TOALT"
      BY PushNumIs, OpIs DEF Plain
  <2> HIDE DEF code, q
  <2>3. Script[q] = code[1] /\ Reads(q, code[1].op)
      BY <2>1, BlockReads
  <2>4. Reads(q + 1, code[2].op)
      BY <2>1, BlockReads
  <2> QED BY <2>1, <2>2, <2>3, <2>4
<1>11. x \in Elements /\ PushNum(-1).arg = x
    BY NumberIs, PushNumIs
<1> DEFINE b == <<>>
<1>12. On(b) /\ Trace[q] = State(u, none, b) /\ none \in Stacks
    BY <1>9, NoneOn DEF Stacks
<1> HIDE DEF q, u, none, x, b
<1>13. Trace[q + 1] = State(u ++ x, none, b)
    BY <1>9, <1>10, <1>11, <1>12, RunPush
<1>14. Trace[(q + 1) + 1] = State(u, none ++ x, b)
  <2> DEFINE o == q + 1
  <2>1. Reads(o, "TOALT") /\ Trace[o] = State(u ++ x, none, b)
      BY <1>10, <1>13
  <2> HIDE DEF o
  <2>2. Trace[o + 1] = State(u, none ++ x, b)
      BY <1>9, <1>11, <1>12, <2>1, RunToAlt
  <2> QED BY <2>2 DEF o
<1> QED BY <1>1, <1>8, <1>14 DEF u, none, x, b, q

-----------------------------------------------------------------------------
(* compile() selects one entry after another.                              *)
Choosing(k) == Selected(N, T, Puzzle, k)

(* One selection more, for the parameters of the script.                   *)
LEMMA ChoosingNext ==
    ASSUME HorsGiven, NEW k \in Nat
    PROVE  /\ Choosing(0) = Tabled(N, T, Puzzle)
           /\ Choosing(k + 1) = Selection(Choosing(k), k, N)
<1>1. (k + 1) - 1 = k
    OBVIOUS
<1>2. /\ Selected(N, T, Puzzle, 0) = Tabled(N, T, Puzzle)
      /\ Selected(N, T, Puzzle, k + 1) = Selection(Selected(N, T, Puzzle, k), (k + 1) - 1, N)
    BY SelectNext
<1> QED BY <1>1, <1>2 DEF Choosing

(* The compiler state after k selections.                                  *)
LEMMA ChoosingKeeps ==
    ASSUME HorsGiven, NEW k \in 0 .. T
    PROVE  Keeps(Choosing(k), 1, SelectionHi(k), SelectionHi(k) + 2 * N + k)
<1> DEFINE Good(i) == Keeps(Choosing(i), 1, SelectionHi(i), SelectionHi(i) + 2 * N + i)
<1> DEFINE Bad == {i \in 0 .. T : ~Good(i)}
<1>1. T \in Nat /\ N \in Nat
    BY DEF HorsGiven
<1> SUFFICES ASSUME Bad # {} PROVE FALSE
    OBVIOUS
<1>2. Bad \in SUBSET Nat
    BY <1>1
<1> HIDE DEF Bad
<1>3. PICK m \in Bad : \A i \in Bad : m <= i
    BY <1>2, LeastMember
<1> USE DEF Bad
<1>4. Good(0)
  <2>1. SelectionHi(0) = 3 * T + 2 /\ SelectionHi(0) + 2 * N + 0 = 3 * T + 2 + 2 * N
      BY <1>1 DEF SelectionHi
  <2>2. Choosing(0) = Tabled(N, T, Puzzle)
    <3>1. 0 \in Nat
        OBVIOUS
    <3> QED BY <3>1, ChoosingNext
  <2> QED BY <2>1, <2>2, TabledKeeps
<1>5. m \in 1 .. T
    BY <1>1, <1>3, <1>4
<1> DEFINE j == m - 1
<1>6. j \in 0 .. T - 1 /\ j \in Nat /\ j \in 0 .. T /\ j + 1 = m /\ ~(m <= j)
    BY <1>1, <1>5
<1>7. Good(j)
    BY <1>3, <1>6
<1>8. Choosing(m) = Selection(Choosing(j), j, N)
  <2> HIDE DEF j
  <2>1. Choosing(j + 1) = Selection(Choosing(j), j, N)
      BY <1>6, ChoosingNext
  <2> QED BY <1>6, <2>1
<1>9. Keeps(Selection(Choosing(j), j, N), 1, SelectionHi(j) - 2, (SelectionHi(j) + 2 * N + j) - 1)
  <2> DEFINE c == Choosing(j)
  <2> DEFINE len == SelectionHi(j) + 2 * N + j
  <2>1. Keeps(c, 1, SelectionHi(j), len) /\ N \in Int /\ j \in 0 .. T - 1
      BY <1>1, <1>6, <1>7
  <2> HIDE DEF c, len, j, Good
  <2>2. Keeps(Selection(c, j, N), 1, SelectionHi(j) - 2, len - 1)
      BY <2>1, SelectionKeeps
  <2> QED BY <2>2 DEF c, len
<1>10. SelectionHi(m) = SelectionHi(j) - 2
       /\ SelectionHi(m) + 2 * N + m = (SelectionHi(j) + 2 * N + j) - 1
    BY <1>1, <1>5 DEF SelectionHi
<1>11. Good(m)
    BY <1>8, <1>9, <1>10
<1> QED BY <1>3, <1>11

(* The code of the next selection stands after that of the ones before.    *)
LEMMA ChoosingWritten ==
    ASSUME HorsGiven, NEW k \in 0 .. T - 1, Written(Choosing(k + 1))
    PROVE  /\ Written(Choosing(k)) /\ EndOf(Choosing(k + 1)) = EndOf(Choosing(k)) + 26
           /\ Selecting(EndOf(Choosing(k)), k, N, SelectionHi(k) + 2 * N + k)
<1>1. T \in Nat /\ N \in Int /\ k \in Nat /\ k \in 0 .. T
    BY DEF HorsGiven
<1>2. Choosing(k + 1) = Selection(Choosing(k), k, N)
    BY <1>1, ChoosingNext
<1> DEFINE c == Choosing(k)
<1> DEFINE len == SelectionHi(k) + 2 * N + k
<1>3. Keeps(c, 1, SelectionHi(k), len)
    BY <1>1, ChoosingKeeps
<1>4. Written(Selection(c, k, N))
    BY <1>2
<1> HIDE DEF c, len
<1>5. /\ Written(c) /\ Selecting(EndOf(c), k, N, len)
      /\ EndOf(Selection(c, k, N)) = EndOf(c) + 26
    BY <1>1, <1>3, <1>4, SelectionWritten
<1> QED BY <1>2, <1>5 DEF c, len

(* With all selections written each one is.                                *)
LEMMA AllWritten ==
    ASSUME HorsGiven, Written(Choosing(T)), NEW k \in 0 .. T
    PROVE  Written(Choosing(k))
<1> DEFINE Bad == {i \in 0 .. T : ~Written(Choosing(T - i))}
<1>1. T \in Nat
    BY DEF HorsGiven
<1>2. Bad = {}
  <2> SUFFICES ASSUME Bad # {} PROVE FALSE
      OBVIOUS
  <2>1. Bad \in SUBSET Nat
      BY <1>1
  <2> HIDE DEF Bad
  <2>2. PICK m \in Bad : \A i \in Bad : m <= i
      BY <2>1, LeastMember
  <2> USE DEF Bad
  <2>3. T - 0 = T
      BY <1>1
  <2>4. m \in 1 .. T
    <3>1. m # 0
        BY <2>2, <2>3
    <3> QED BY <1>1, <2>2, <3>1
  <2>5. m - 1 \in 0 .. T /\ ~(m <= m - 1) /\ T - (m - 1) = (T - m) + 1 /\ T - m \in 0 .. T - 1
      BY <1>1, <2>4
  <2>6. Written(Choosing((T - m) + 1))
      BY <2>2, <2>5
  <2>7. Written(Choosing(T - m))
      BY <2>5, <2>6, ChoosingWritten
  <2> QED BY <2>2, <2>7
<1>3. T - k \in 0 .. T /\ T - (T - k) = k
    BY <1>1
<1>4. T - k \notin Bad
    BY <1>2
<1> QED BY <1>3, <1>4

-----------------------------------------------------------------------------
(* Running it: the index before the k-th, and what k selections leave.     *)
Before(k) == IF k = 0 THEN Num(-1) ELSE witness[SelectionHi(k - 1)]
Picked(k) == [i \in 1 .. k |-> Dummy(witness[SelectionHi(i - 1)].n)]
Chosen(k) == \A j \in 0 .. k - 1 : Chooses(j, Before(j))

(* The dummies picked by k selections, and the index the next must exceed. *)
LEMMA PickedIs ==
    ASSUME HorsGiven, NEW k \in 0 .. T, Chosen(k)
    PROVE  /\ Picked(k) \in Stacks /\ Len(Picked(k)) = k
           /\ Before(k) \in Elements /\ Before(k).kind = "num"
<1>1. T \in Nat /\ k \in Nat /\ N \in Nat
    BY DEF HorsGiven
<1>2. \A j \in 0 .. k - 1 : /\ witness[SelectionHi(j)].n \in Int
                            /\ witness[SelectionHi(j)].kind = "num"
    BY <1>1 DEF Chosen, Chooses
<1>3. \A j \in 0 .. k - 1 : witness[SelectionHi(j)] \in Elements
  <2> TAKE j \in 0 .. k - 1
  <2>1. SelectionHi(j) \in 1 .. 3 * T + 4
      BY <1>1 DEF SelectionHi
  <2> QED BY <2>1, WitnessIs
<1>4. \A i \in 1 .. k : Dummy(witness[SelectionHi(i - 1)].n) \in Elements
  <2> TAKE i \in 1 .. k
  <2>1. i - 1 \in 0 .. k - 1
      BY <1>1
  <2>2. witness[SelectionHi(i - 1)].n \in Int
      BY <1>2, <2>1
  <2> QED BY <2>2, EntryIs
<1>5. Picked(k) \in Stacks /\ Len(Picked(k)) = k
    BY <1>1, <1>4 DEF Picked, Stacks
<1>6. CASE k = 0
  <2>1. Num(-1) \in Elements /\ Num(-1).kind = "num"
      BY NumberIs
  <2> QED BY <1>5, <1>6, <2>1 DEF Before
<1>7. CASE k # 0
  <2>1. k - 1 \in 0 .. k - 1
      BY <1>1, <1>7
  <2> QED BY <1>2, <1>3, <1>5, <1>7, <2>1 DEF Before
<1> QED BY <1>6, <1>7

(* One more is selected.                                                   *)
LEMMA PickedNext ==
    ASSUME HorsGiven, NEW k \in 0 .. T - 1
    PROVE  /\ Chosen(k + 1) <=> Chosen(k) /\ Chooses(k, Before(k))
           /\ Before(k + 1) = witness[SelectionHi(k)]
           /\ Chosen(k + 1) => Entries(N) \o Picked(k + 1) =
                                 (Entries(N) \o Picked(k)) ++ Dummy(witness[SelectionHi(k)].n)
<1>1. T \in Nat /\ N \in Nat /\ k \in Nat /\ k + 1 \in 0 .. T /\ (k + 1) - 1 = k /\ k + 1 # 0
    BY DEF HorsGiven
<1>2. 0 .. (k + 1) - 1 = (0 .. k - 1) \union {k}
    BY <1>1
<1>3. Chosen(k + 1) <=> Chosen(k) /\ Chooses(k, Before(k))
    BY <1>2 DEF Chosen
<1>4. Before(k + 1) = witness[SelectionHi(k)]
    BY <1>1 DEF Before
<1>5. ASSUME Chosen(k + 1)
      PROVE  Entries(N) \o Picked(k + 1) = (Entries(N) \o Picked(k)) ++ Dummy(witness[SelectionHi(k)].n)
  <2> DEFINE s == Entries(N)
  <2> DEFINE e == Picked(k + 1)
  <2> DEFINE x == Dummy(witness[SelectionHi(k)].n)
  <2> DEFINE h == k + 1
  <2>1. s \in Stacks
      BY <1>1, EntriesAre
  <2>2. e \in Stacks /\ Len(e) = h
      BY <1>1, <1>5, PickedIs
  <2>3. e[h] = x /\ h \in 1 .. h /\ h - 1 = k
    <3>1. h \in 1 .. k + 1 /\ h - 1 = k
        BY <1>1
    <3>2. e[h] = Dummy(witness[SelectionHi(h - 1)].n)
      <4> HIDE DEF h
      <4>1. h = k + 1
          BY DEF h
      <4>2. e = [i \in 1 .. h |-> Dummy(witness[SelectionHi(i - 1)].n)]
          BY <4>1 DEF Picked
      <4> QED BY <3>1, <4>1, <4>2
    <3> QED BY <3>1, <3>2
  <2>4. Picked(k) = SubSeq(e, 1, k)
    <3>1. Picked(k) \in Seq(Elements) /\ Len(Picked(k)) = k
      <4>1. Chosen(k) /\ k \in 0 .. T
          BY <1>1, <1>3, <1>5
      <4> QED BY <4>1, PickedIs DEF Stacks
    <3>2. \A i \in 1 .. k : e[i] \in Elements
      <4>1. \A i \in 1 .. Len(e) : e[i] \in Elements
          BY <2>2, ElementOfSeq DEF Stacks
      <4> HIDE DEF e
      <4> QED BY <1>1, <2>2, <4>1
    <3>3. /\ SubSeq(e, 1, k) \in Seq(Elements) /\ Len(SubSeq(e, 1, k)) = k
          /\ \A i \in 1 .. k : SubSeq(e, 1, k)[i] = e[i]
      <4> HIDE DEF e
      <4>1. /\ SubSeq(e, 1, k) \in Seq(Elements)
               /\ Len(SubSeq(e, 1, k)) = IF 1 <= k THEN k - 1 + 1 ELSE 0
            /\ \A i \in 1 .. k - 1 + 1 : SubSeq(e, 1, k)[i] = e[1 + i - 1]
        <5>1. 1 \in Int /\ k \in Int /\ \A i \in 1 .. k : e[i] \in Elements
            BY <1>1, <3>2
        <5> QED BY ONLY <5>1, SubSeqProperties
      <4>2. k - 1 + 1 = k /\ \A i \in 1 .. k : 1 + i - 1 = i
          BY <1>1
      <4> QED BY <1>1, <4>1, <4>2
    <3>4. \A i \in 1 .. k : Picked(k)[i] = e[i]
      <4> TAKE i \in 1 .. k
      <4>1. i \in 1 .. k + 1
          BY <1>1
      <4> QED BY <4>1 DEF Picked
    <3> HIDE DEF e
    <3>5. \A i \in 1 .. k : Picked(k)[i] = SubSeq(e, 1, k)[i]
        BY <3>3, <3>4
    <3> QED BY <3>1, <3>3, <3>5, SeqEqual
  <2> HIDE DEF s, e, x, h
  <2>5. s \o SubSeq(e, 1, h) = (s \o SubSeq(e, 1, h - 1)) ++ e[h]
      BY <2>1, <2>2, <2>3, OneMore
  <2>6. s \o SubSeq(e, 1, Len(e)) = s \o e
      BY <2>1, <2>2, NoMore
  <2>7. s \o e = (s \o Picked(k)) ++ x
      BY <2>2, <2>3, <2>4, <2>5, <2>6
  <2> QED BY <2>7 DEF s, e, x
<1> QED BY <1>3, <1>4, <1>5

(* The table and what has been selected from it.                           *)
LEMMA Gathered ==
    ASSUME HorsGiven, NEW k \in 0 .. T, Chosen(k)
    PROVE  /\ Entries(N) \o Picked(k) \in Stacks /\ Len(Entries(N) \o Picked(k)) = 2 * N + k
           /\ \A i \in 1 .. 2 * N : (Entries(N) \o Picked(k))[i] = Entries(N)[i]
<1> DEFINE s == Entries(N)
<1> DEFINE e == Picked(k)
<1>1. s \in Stacks /\ Len(s) = 2 * N /\ e \in Stacks /\ Len(e) = k
    BY EntriesAre, PickedIs DEF HorsGiven
<1> HIDE DEF s, e
<1>2. s \in Seq(Elements) /\ e \in Seq(Elements)
    BY <1>1 DEF Stacks
<1>3. s \o e \in Seq(Elements) /\ Len(s \o e) = Len(s) + Len(e)
    BY <1>2, ConcatProperties
<1>4. \A i \in 1 .. Len(s) : (s \o e)[i] = s[i]
    BY ONLY <1>2, JoinEntries
<1>5. s \o e \in Stacks /\ Len(s \o e) = 2 * N + k /\ \A i \in 1 .. 2 * N : (s \o e)[i] = s[i]
    BY <1>1, <1>3, <1>4 DEF Stacks
<1> QED BY <1>5 DEF s, e

(* One selection more in the run.                                          *)
LEMMA ChoosingStep ==
    ASSUME HorsGiven, NEW k \in 0 .. T - 1, Written(Choosing(k + 1)),
           IF Chosen(k) THEN Trace[EndOf(Choosing(k))] =
                               State(Under(1, SelectionHi(k), Entries(N) \o Picked(k)),
                                     <<>> ++ Before(k), <<>>)
                        ELSE Rejected(EndOf(Choosing(k)))
    PROVE  IF Chosen(k + 1) THEN Trace[EndOf(Choosing(k + 1))] =
                               State(Under(1, SelectionHi(k + 1), Entries(N) \o Picked(k + 1)),
                                     <<>> ++ Before(k + 1), <<>>)
                            ELSE Rejected(EndOf(Choosing(k + 1)))
<1> DEFINE p == EndOf(Choosing(k))
<1> DEFINE q == EndOf(Choosing(k + 1))
<1> DEFINE r == Entries(N) \o Picked(k)
<1> DEFINE hi == SelectionHi(k)
<1> DEFINE x == witness[hi]
<1> DEFINE y == Before(k)
<1> DEFINE a == <<>>
<1> DEFINE done == Chosen(k + 1)
<1> DEFINE end == State(Under(1, SelectionHi(k + 1), Entries(N) \o Picked(k + 1)),
                        a ++ Before(k + 1), <<>>)
<1>1. T \in Nat /\ N \in Nat /\ k \in 0 .. T
    BY DEF HorsGiven
<1>2. q = p + 26 /\ Selecting(p, k, N, hi + 2 * N + k)
    BY ChoosingWritten
<1>3. p \in Nat \ {0} /\ Len(Script) \in Nat /\ p + 26 <= Len(Script) + 1
    BY <1>2 DEF Selecting
<1>4. /\ done <=> Chosen(k) /\ Chooses(k, y)
      /\ Before(k + 1) = x
      /\ done => Entries(N) \o Picked(k + 1) = r ++ Dummy(x.n)
    BY PickedNext
<1>5. done \in BOOLEAN
    BY DEF Chosen
<1>6. ASSUME ~Chosen(k)
      PROVE  Rejected(q)
  <2>1. Rejected(p)
      BY <1>6
  <2>2. p \in 1 .. Len(Script) + 1 /\ p + 26 \in p .. Len(Script) + 1
      BY <1>3
  <2> HIDE DEF p, q
  <2>3. Rejected(p + 26)
      BY <1>3, <2>1, <2>2, RejectedStays
  <2> QED BY <1>2, <2>3
<1>7. ASSUME Chosen(k)
      PROVE  IF Chooses(k, y)
             THEN Trace[q] = State(Under(1, hi - 2, r ++ Dummy(x.n)), a ++ x, <<>>)
             ELSE Rejected(q)
  <2>1. r \in Stacks /\ Len(r) = 2 * N + k /\ \A i \in 1 .. 2 * N : r[i] = Entries(N)[i]
      BY <1>1, <1>7, Gathered
  <2>2. y \in Elements /\ y.kind = "num"
      BY <1>1, <1>7, PickedIs
  <2>3. Trace[p] = State(Under(1, hi, r), a ++ y, <<>>)
      BY <1>7
  <2>4. a \in Stacks
      BY DEF Stacks
  <2>5. hi \in Int
      BY <1>1 DEF SelectionHi
  <2> HIDE DEF p, q, r, y, a
  <2>6. hi + 2 * N + k = hi + Len(r)
    <3> HIDE DEF hi
    <3> QED BY ONLY <1>1, <2>1, <2>5
  <2>7. /\ HorsGiven /\ k \in 0 .. T - 1 /\ Selecting(p, k, N, SelectionHi(k) + Len(r))
        /\ Trace[p] = State(Under(1, SelectionHi(k), r), a ++ y, <<>>)
      BY <1>2, <2>3, <2>6
  <2>8. IF Chooses(k, y)
        THEN Trace[p + 26] = State(Under(1, SelectionHi(k) - 2, r ++ Dummy(witness[SelectionHi(k)].n)),
                                   a ++ witness[SelectionHi(k)], <<>>)
        ELSE Rejected(p + 26)
      BY ONLY <2>1, <2>2, <2>4, <2>7, SelectionRuns
  <2> QED BY <1>2, <2>8
<1>8. hi - 2 = SelectionHi(k + 1)
    BY <1>1 DEF SelectionHi
<1>9. ASSUME done PROVE Trace[q] = end
  <2>1. Trace[q] = State(Under(1, hi - 2, r ++ Dummy(x.n)), a ++ x, <<>>)
      BY <1>4, <1>7, <1>9
  <2>2. end = State(Under(1, SelectionHi(k + 1), r ++ Dummy(x.n)), a ++ x, <<>>)
      BY <1>4, <1>9
  <2> HIDE DEF end, q, r, x, hi, a, done
  <2> QED BY <1>8, <2>1, <2>2
<1>10. ASSUME ~done PROVE Rejected(q)
    BY <1>4, <1>6, <1>7, <1>10
<1> HIDE DEF done, end, q
<1>11. IF done THEN Trace[q] = end ELSE Rejected(q)
    BY <1>9, <1>10
<1> QED BY <1>11 DEF done, end, q, a

(* k selections pass exactly if the first k indices and preimages are      *)
(* right.                                                                  *)
LEMMA ChoosingRuns ==
    ASSUME HorsGiven, Written(Choosing(T)), NEW k \in 0 .. T,
           Trace[EndOf(Choosing(0))] =
             State(Under(1, 3 * T + 2, Entries(N)), <<>> ++ Num(-1), <<>>)
    PROVE  IF Chosen(k) THEN Trace[EndOf(Choosing(k))] =
                               State(Under(1, SelectionHi(k), Entries(N) \o Picked(k)),
                                     <<>> ++ Before(k), <<>>)
                        ELSE Rejected(EndOf(Choosing(k)))
<1> DEFINE Good(i) ==
        IF Chosen(i) THEN Trace[EndOf(Choosing(i))] =
                            State(Under(1, SelectionHi(i), Entries(N) \o Picked(i)),
                                  <<>> ++ Before(i), <<>>)
                     ELSE Rejected(EndOf(Choosing(i)))
<1> DEFINE Bad == {i \in 0 .. T : ~Good(i)}
<1>1. T \in Nat /\ N \in Nat
    BY DEF HorsGiven
<1> SUFFICES ASSUME Bad # {} PROVE FALSE
    OBVIOUS
<1>2. Bad \in SUBSET Nat
    BY <1>1
<1> HIDE DEF Bad
<1>3. PICK m \in Bad : \A i \in Bad : m <= i
    BY <1>2, LeastMember
<1> USE DEF Bad
<1>4. Good(0)
  <2>1. Chosen(0)
      BY DEF Chosen
  <2>2. SelectionHi(0) = 3 * T + 2
      BY <1>1 DEF SelectionHi
  <2>3. Before(0) = Num(-1)
      BY DEF Before
  <2>4. Picked(0) = <<>>
      BY DEF Picked
  <2>5. Entries(N) \o Picked(0) = Entries(N)
    <3>1. Entries(N) \in Stacks
        BY <1>1, EntriesAre
    <3> QED BY <2>4, <3>1, PushedNone
  <2> QED BY <2>1, <2>2, <2>3, <2>5
<1>5. m \in 1 .. T
  <2>1. m # 0 /\ m \in 0 .. T
      BY <1>3, <1>4
  <2> QED BY ONLY <1>1, <2>1
<1> DEFINE j == m - 1
<1>6. j \in 0 .. T - 1 /\ j \in 0 .. T /\ j + 1 = m /\ ~(m <= j)
    BY ONLY <1>1, <1>5
<1>7. Good(j)
    BY <1>3, <1>6
<1>8. Good(j + 1)
  <2>1. Written(Choosing(j + 1))
      BY <1>5, <1>6, AllWritten
  <2> HIDE DEF j
  <2> QED BY <1>6, <1>7, <2>1, ChoosingStep
<1>9. Good(m)
  <2> HIDE DEF j, Good
  <2> QED BY <1>6, <1>8
<1> QED BY <1>3, <1>9

-----------------------------------------------------------------------------
(* compile() puts what it selected aside, and back above the fixed         *)
(* signature.                                                              *)
LEMMA StashedKeeps ==
    ASSUME HorsGiven
    PROVE  /\ Keeps(Stashed(N, T, Puzzle), 1, T + 2, T + 2 + 2 * N)
           /\ Written(Stashed(N, T, Puzzle)) =>
                /\ Written(Choosing(T)) /\ EndOf(Choosing(T)) \in Nat \ {0}
                /\ Block(EndOf(Choosing(T)), <<Op("FROMALT"), Op("DROP")>>)
                /\ Block(EndOf(Choosing(T)) + 2, Repeated("TOALT", T))
                /\ EndOf(Stashed(N, T, Puzzle)) = EndOf(Choosing(T)) + 2 + T
                /\ EndOf(Stashed(N, T, Puzzle)) \in 1 .. Len(Script) + 1
<1> DEFINE c == Choosing(T)
<1> DEFINE hi == T + 2
<1> DEFINE code == <<Op("FROMALT"), Op("DROP")>>
<1> DEFINE names == <<>>
<1> DEFINE moves == Repeated("TOALT", T)
<1> DEFINE e == Emit(c, code)
<1> DEFINE f == Emit(e, moves)
<1> DEFINE d == Stashed(N, T, Puzzle)
<1>1. d = Renamed(f, T, names)
    BY DEF Stashed, Choosing, Repeated
<1>2. code \in Codes /\ Len(code) = 2
  <2>1. Op("FROMALT") \in Instructions /\ Op("DROP") \in Instructions
      BY OpIs DEF Plain
  <2> QED BY <2>1 DEF Codes
<1>3. T \in Nat /\ N \in Nat /\ hi \in Nat
    BY DEF HorsGiven
<1>4. names \in Seq(Labels) /\ Len(names) = 0 /\ moves \in Codes /\ Len(moves) = T
    BY <1>3, RepeatedIs DEF Plain
<1>5. Keeps(c, 1, hi, hi + 2 * N + T)
  <2>1. SelectionHi(T) = hi /\ T \in 0 .. T
      BY <1>3 DEF SelectionHi
  <2> QED BY <2>1, ChoosingKeeps
<1> HIDE DEF c, hi, code, names, d, moves
<1>6. Keeps(e, 1, hi, hi + 2 * N + T)
    BY <1>2, <1>5, KeepsEmit
<1> HIDE DEF e
<1>7. Keeps(f, 1, hi, hi + 2 * N + T)
    BY <1>4, <1>6, KeepsEmit
<1>8. /\ T \in Nat /\ T <= (hi + 2 * N + T) - (hi - 1 + 1)
      /\ ((hi + 2 * N + T) - T) + 0 = hi + 2 * N
    BY <1>3
<1>9. /\ Keeps(d, 1, hi, ((hi + 2 * N + T) - T) + Len(names))
      /\ (Written(d) <=> Written(f)) /\ EndOf(d) = EndOf(f)
  <2> HIDE DEF f
  <2> DEFINE len == hi + 2 * N + T
  <2> DEFINE t == T
  <2>1. /\ Keeps(f, 1, hi, len) /\ t \in Nat /\ t <= len - (hi - 1 + 1) /\ d = Renamed(f, t, names)
      BY <1>1, <1>7, <1>8
  <2> HIDE DEF len, t
  <2>2. Keeps(d, 1, hi, (len - t) + Len(names)) /\ (Written(d) <=> Written(f))
        /\ EndOf(d) = EndOf(f)
      BY <1>4, <2>1, KeepsRenamed, WrittenRenamed
  <2> QED BY <2>2 DEF len, t
<1>10. Written(f) => /\ Written(e) /\ Block(EndOf(e), moves) /\ EndOf(f) = EndOf(e) + Len(moves)
                     /\ EndOf(f) \in 1 .. Len(Script) + 1
    BY <1>4, <1>6, WrittenEmit
<1>11. Written(e) => /\ Written(c) /\ Block(EndOf(c), code) /\ EndOf(c) \in Nat \ {0}
                     /\ EndOf(e) = EndOf(c) + Len(code)
    BY <1>2, <1>5, WrittenEmit DEF e
<1>12. Keeps(d, 1, hi, hi + 2 * N)
    BY <1>4, <1>8, <1>9
<1>13. Written(d) => /\ Written(c) /\ Block(EndOf(c), code) /\ EndOf(c) \in Nat \ {0}
                     /\ Block(EndOf(c) + 2, moves) /\ EndOf(d) = EndOf(c) + 2 + T
                     /\ EndOf(d) \in 1 .. Len(Script) + 1
    BY <1>2, <1>4, <1>9, <1>10, <1>11
<1> QED BY <1>12, <1>13 DEF c, hi, d, code, moves

(* The compiler state when the signatures are in place.                    *)
LEMMA SignaturesKeep ==
    ASSUME HorsGiven
    PROVE  /\ Keeps(Signatures(N, T, Puzzle), 1, T + 2, T + 2 + 2 * N + (2 + T))
           /\ Written(Signatures(N, T, Puzzle)) =>
                /\ Written(Stashed(N, T, Puzzle)) /\ EndOf(Stashed(N, T, Puzzle)) \in Nat \ {0}
                /\ Block(EndOf(Stashed(N, T, Puzzle)), <<PushNum(0), Push(Fixed)>>)
                /\ Block(EndOf(Stashed(N, T, Puzzle)) + 2, Repeated("FROMALT", T))
                /\ EndOf(Signatures(N, T, Puzzle)) = EndOf(Stashed(N, T, Puzzle)) + 2 + T
                /\ EndOf(Signatures(N, T, Puzzle)) \in 1 .. Len(Script) + 1
<1> DEFINE c == Stashed(N, T, Puzzle)
<1> DEFINE hi == T + 2
<1> DEFINE code == <<PushNum(0), Push(Fixed)>>
<1> DEFINE two == <<<<"null_dummy", 0>>, <<"fixed_signature", 0>>>>
<1> DEFINE many == [i \in 1 .. T |-> <<"selected", i - 1>>]
<1> DEFINE names == two \o many
<1> DEFINE moves == Repeated("FROMALT", T)
<1> DEFINE e == Emit(c, code)
<1> DEFINE f == Emit(e, moves)
<1> DEFINE d == Signatures(N, T, Puzzle)
<1>1. d = Renamed(f, 0, names)
    BY DEF Signatures, Repeated
<1>2. code \in Codes /\ Len(code) = 2
  <2>1. PushNum(0) \in Instructions /\ Push(Fixed) \in Instructions
      BY PushNumIs, PushIs, Constants
  <2> QED BY <2>1 DEF Codes
<1>3. T \in Nat /\ N \in Nat /\ hi \in Nat
    BY DEF HorsGiven
<1>4. moves \in Codes /\ Len(moves) = T
    BY <1>3, RepeatedIs DEF Plain
<1>4a. names \in Seq(Labels) /\ Len(names) = 2 + T
  <2>1. two \in Seq(Labels) /\ Len(two) = 2
    <3>1. <<"null_dummy", 0>> \in Labels /\ <<"fixed_signature", 0>> \in Labels
        BY LabelIs
    <3> QED BY <3>1
  <2>2. many \in Seq(Labels) /\ Len(many) = T
    <3>1. \A i \in 1 .. T : <<"selected", i - 1>> \in Labels
        BY <1>3, LabelIs
    <3> QED BY <1>3, <3>1
  <2> HIDE DEF two, many
  <2>3. two \o many \in Seq(Labels) /\ Len(two \o many) = Len(two) + Len(many)
      BY ONLY <2>1, <2>2, ConcatProperties
  <2> QED BY <2>1, <2>2, <2>3
<1>5. Keeps(c, 1, hi, hi + 2 * N)
    BY StashedKeeps
<1> HIDE DEF c, hi, code, names, d, moves
<1>6. Keeps(e, 1, hi, hi + 2 * N)
    BY <1>2, <1>5, KeepsEmit
<1> HIDE DEF e
<1>7. Keeps(f, 1, hi, hi + 2 * N)
    BY <1>4, <1>6, KeepsEmit
<1>8. /\ 0 \in Nat /\ 0 <= (hi + 2 * N) - (hi - 1 + 1)
      /\ ((hi + 2 * N) - 0) + (2 + T) = hi + 2 * N + (2 + T)
    BY <1>3
<1>9. /\ Keeps(d, 1, hi, ((hi + 2 * N) - 0) + Len(names))
      /\ (Written(d) <=> Written(f)) /\ EndOf(d) = EndOf(f)
  <2> HIDE DEF f
  <2> DEFINE len == hi + 2 * N
  <2>1. Keeps(f, 1, hi, len) /\ 0 <= len - (hi - 1 + 1)
      BY <1>7, <1>8
  <2> HIDE DEF len
  <2>2. Keeps(d, 1, hi, (len - 0) + Len(names)) /\ (Written(d) <=> Written(f))
        /\ EndOf(d) = EndOf(f)
      BY <1>1, <1>4a, <1>8, <2>1, KeepsRenamed, WrittenRenamed
  <2> QED BY <2>2 DEF len
<1>10. Written(f) => /\ Written(e) /\ Block(EndOf(e), moves) /\ EndOf(f) = EndOf(e) + Len(moves)
                     /\ EndOf(f) \in 1 .. Len(Script) + 1
    BY <1>4, <1>6, WrittenEmit
<1>11. Written(e) => /\ Written(c) /\ Block(EndOf(c), code) /\ EndOf(c) \in Nat \ {0}
                     /\ EndOf(e) = EndOf(c) + Len(code)
    BY <1>2, <1>5, WrittenEmit DEF e
<1>12. Keeps(d, 1, hi, hi + 2 * N + (2 + T))
    BY <1>4a, <1>8, <1>9
<1>13. Written(d) => /\ Written(c) /\ Block(EndOf(c), code) /\ EndOf(c) \in Nat \ {0}
                     /\ Block(EndOf(c) + 2, moves) /\ EndOf(d) = EndOf(c) + 2 + T
                     /\ EndOf(d) \in 1 .. Len(Script) + 1
    BY <1>2, <1>4, <1>9, <1>10, <1>11
<1> QED BY <1>12, <1>13 DEF c, hi, d, code, moves

(* Several elements on the witness part.                                   *)
LEMMA UnderJoin ==
    ASSUME HorsGiven, NEW lo, NEW hi, Spans(lo, hi), NEW r \in Stacks, NEW e \in Stacks
    PROVE  Under(lo, hi, r) \o e = Under(lo, hi, r \o e)
<1>1. SubSeq(witness, lo, hi) \in Seq(Elements)
  <2>1. \A i \in lo .. hi : witness[i] \in Elements
    <3> TAKE i \in lo .. hi
    <3>1. i \in 1 .. Len(witness) /\ witness \in Seq(Elements)
        BY DEF HorsGiven, Spans, Stacks
    <3> QED BY <3>1, ElementOfSeq
  <2>2. lo \in Int /\ hi \in Int
      BY DEF Spans
  <2> QED BY ONLY <2>1, <2>2, SubSeqProperties
<1> DEFINE u == SubSeq(witness, lo, hi)
<1>2. Under(lo, hi, r) = u \o r /\ Under(lo, hi, r \o e) = u \o (r \o e)
    BY DEF Under
<1>3. u \in Seq(Elements) /\ r \in Seq(Elements) /\ e \in Seq(Elements)
    BY <1>1 DEF Stacks
<1> HIDE DEF u
<1>4. (u \o r) \o e = u \o (r \o e)
    BY ONLY <1>3, ConcatAssociative
<1> QED BY <1>2, <1>4

(* The picked dummies end up above the fixed signature, in order.          *)
LEMMA SignaturesRun ==
    ASSUME HorsGiven, Written(Signatures(N, T, Puzzle)), NEW r \in Stacks, NEW e \in Stacks,
           Len(e) = T, NEW y \in Elements,
           Trace[EndOf(Choosing(T))] = State(Under(1, T + 2, r \o e), <<>> ++ y, <<>>)
    PROVE  Trace[EndOf(Signatures(N, T, Puzzle))] =
             State(Under(1, T + 2, (r ++ Num(0) ++ Fixed) \o e), <<>>, <<>>)
<1> DEFINE c == Choosing(T)
<1> DEFINE p == EndOf(c)
<1> DEFINE q == EndOf(Stashed(N, T, Puzzle))
<1> DEFINE hi == T + 2
<1> DEFINE u == Under(1, hi, r \o e)
<1> DEFINE w == Under(1, hi, r)
<1> DEFINE a == <<>>
<1> DEFINE b == <<>>
<1> DEFINE z == Num(0)
<1> DEFINE first == <<Op("FROMALT"), Op("DROP")>>
<1> DEFINE second == <<PushNum(0), Push(Fixed)>>
<1> DEFINE back == Backwards(e)
<1>1. T \in Nat /\ Spans(1, hi)
    BY DEF HorsGiven, Spans
<1>2. /\ Written(Stashed(N, T, Puzzle)) /\ q \in Nat \ {0}
      /\ Block(q, second) /\ Block(q + 2, Repeated("FROMALT", Len(e)))
      /\ EndOf(Signatures(N, T, Puzzle)) = q + 2 + T
    BY SignaturesKeep
<1>3. /\ p \in Nat \ {0} /\ Block(p, first)
      /\ Block(p + 2, Repeated("TOALT", Len(e))) /\ q = p + 2 + T
    BY <1>2, StashedKeeps
<1>4. r \o e \in Stacks /\ w \in Stacks /\ w \o e = u /\ u \in Stacks
  <2>1. r \o e \in Stacks
      BY ConcatProperties DEF Stacks
  <2> HIDE DEF hi
  <2>2. w \in Stacks /\ u \in Stacks
      BY <1>1, <2>1, UnderIs
  <2>3. w \o e = u
      BY <1>1, UnderJoin
  <2> QED BY <2>1, <2>2, <2>3
<1>5. On(b) /\ a \in Stacks /\ Trace[p] = State(u, a ++ y, b)
    BY NoneOn DEF Stacks
<1>6. z \in Elements /\ Fixed \in Elements /\ PushNum(0).arg = z /\ Push(Fixed).arg = Fixed
    BY NumberIs, Constants, PushNumIs, PushIs
<1>7. Reads(p, "FROMALT") /\ Reads(p + 1, "DROP")
  <2>1. /\ first[1] = Op("FROMALT") /\ first[2] = Op("DROP") /\ 1 \in 1 .. Len(first)
        /\ 2 \in 1 .. Len(first) /\ p = p + 1 - 1 /\ p + 1 = p + 2 - 1
      BY <1>3
  <2>2. Op("FROMALT").op = "FROMALT" /\ Op("DROP").op = "DROP"
      BY OpIs DEF Plain
  <2> HIDE DEF first, p
  <2>3. Reads(p, first[1].op) /\ Reads(p + 1, first[2].op)
      BY <1>3, <2>1, BlockReads
  <2> QED BY <2>1, <2>2, <2>3
<1>8. /\ Reads(q, "PUSH") /\ Script[q].arg = z
      /\ Reads(q + 1, "PUSH") /\ Script[q + 1].arg = Fixed
  <2>1. /\ second[1] = PushNum(0) /\ second[2] = Push(Fixed) /\ 1 \in 1 .. Len(second)
        /\ 2 \in 1 .. Len(second) /\ q = q + 1 - 1 /\ q + 1 = q + 2 - 1
      BY <1>2
  <2>2. PushNum(0).op = "PUSH" /\ Push(Fixed).op = "PUSH"
      BY PushNumIs, PushIs, Constants
  <2> HIDE DEF second, q, z
  <2>3. /\ Reads(q, second[1].op) /\ Reads(q + 1, second[2].op)
        /\ Script[q] = second[1] /\ Script[q + 1] = second[2]
      BY <1>2, <2>1, BlockReads
  <2> QED BY <1>6, <2>1, <2>2, <2>3
<1>9. /\ Block(p + 2, Repeated("TOALT", Len(e))) /\ (p + 1) + 1 = p + 2
      /\ p + 2 + Len(e) = q
    BY <1>3
<1>10. /\ Block(q + 2, Repeated("FROMALT", Len(e))) /\ (q + 1) + 1 = q + 2
       /\ EndOf(Signatures(N, T, Puzzle)) = (q + 2) + Len(e)
    BY <1>2
<1> HIDE DEF p, q, hi, u, w, a, b, z, back
<1>11. Trace[p + 1] = State(u ++ y, a, b)
    BY <1>5, <1>7, RunFromAlt
<1>12. Trace[p + 2] = State(u, a, b)
  <2> DEFINE o == p + 1
  <2>1. Reads(o, "DROP") /\ Trace[o] = State(u ++ y, a, b)
      BY <1>7, <1>11
  <2> HIDE DEF o
  <2>2. Trace[o + 1] = State(u, a, b)
      BY <1>4, <1>5, <2>1, RunDrop
  <2> QED BY <1>9, <2>2 DEF o
<1>13. Trace[q] = State(w, a \o back, b)
  <2> DEFINE o == p + 2
  <2>1. Block(o, Repeated("TOALT", Len(e))) /\ Trace[o] = State(w \o e, a, <<>>)
      BY <1>4, <1>9, <1>12 DEF b
  <2> HIDE DEF o
  <2>a. w \in Stacks /\ a \in Stacks /\ e \in Stacks
      BY <1>4, <1>5
  <2>2. Trace[o + Len(e)] = State(w, a \o Backwards(e), <<>>)
      BY ONLY <2>1, <2>a, ToAltsRun
  <2> QED BY <1>9, <2>2 DEF o, b, back
<1> DEFINE a2 == a \o back
<1> HIDE DEF a2
<1>14. Trace[q + 1] = State(w ++ z, a2, b)
  <2>1. Trace[q] = State(w, a2, b)
      BY <1>13 DEF a2
  <2> QED BY <1>4, <1>5, <1>6, <1>8, <2>1, RunPush
<1>15. w ++ z \in Stacks /\ w ++ z ++ Fixed \in Stacks /\ r ++ z \in Stacks
       /\ r ++ z ++ Fixed \in Stacks
    BY <1>4, <1>6, PushedTwo
<1>16. Trace[q + 2] = State(w ++ z ++ Fixed, a2, b)
  <2> DEFINE o == q + 1
  <2> DEFINE v == w ++ z
  <2>1. Reads(o, "PUSH") /\ Trace[o] = State(v, a2, b) /\ Script[o].arg = Fixed /\ v \in Stacks
      BY <1>8, <1>14, <1>15
  <2> HIDE DEF o, v
  <2>2. Trace[o + 1] = State(v ++ Fixed, a2, b)
      BY <1>5, <1>6, <2>1, RunPush
  <2> QED BY <1>10, <2>2 DEF o, v
<1>17. w ++ z ++ Fixed = Under(1, hi, r ++ z ++ Fixed)
  <2>1. Under(1, hi, r ++ z) = w ++ z
      BY <1>1, <1>6, UnderPush DEF w
  <2> DEFINE rz == r ++ z
  <2>2. rz \in Stacks /\ Under(1, hi, rz) = w ++ z
      BY <1>15, <2>1
  <2> HIDE DEF rz
  <2>3. Under(1, hi, rz ++ Fixed) = Under(1, hi, rz) ++ Fixed
      BY <1>1, <1>6, <2>2, UnderPush
  <2> QED BY <2>2, <2>3 DEF rz
<1>18. Trace[(q + 2) + Len(e)] = State((w ++ z ++ Fixed) \o e, a, b)
  <2> DEFINE o == q + 2
  <2> DEFINE v == w ++ z ++ Fixed
  <2>1. /\ Block(o, Repeated("FROMALT", Len(e))) /\ Trace[o] = State(v, a \o Backwards(e), <<>>)
        /\ v \in Stacks
      BY <1>10, <1>15, <1>16 DEF b, a2, back
  <2> HIDE DEF o, v
  <2>2. Trace[o + Len(e)] = State(v \o e, a, <<>>)
      BY <1>5, <2>1, FromAltsRun
  <2> QED BY <2>2 DEF o, v, b
<1>19. Under(1, hi, r ++ z ++ Fixed) \o e = Under(1, hi, (r ++ z ++ Fixed) \o e)
  <2> DEFINE v == r ++ z ++ Fixed
  <2>1. v \in Stacks
      BY <1>15
  <2> HIDE DEF v
  <2>a. HorsGiven /\ Spans(1, hi) /\ v \in Stacks /\ e \in Stacks
      BY <1>1, <2>1
  <2>2. Under(1, hi, v) \o e = Under(1, hi, v \o e)
      BY ONLY <2>a, UnderJoin
  <2> QED BY <2>2 DEF v
<1> QED BY <1>10, <1>17, <1>18, <1>19 DEF hi, a, b, z

-----------------------------------------------------------------------------
(* compile() fetches the digest key and its proof, and checks its puzzle.  *)
Fetched == Roll(Signatures(N, T, Puzzle), <<"digest_proof", 0>>)
Posed == Roll(Fetched, <<"digest_key", 0>>)
Depths == T + 2 + 2 * N + (2 + T)

(* The names left when the digest key is due, and where it is.             *)
LEMMA LowNames ==
    ASSUME HorsGiven
    PROVE  /\ Names(T)[1] = <<"digest_proof", 0>> /\ Names(T)[2] = <<"digest_key", 0>>
           /\ T \in Nat \ {0} /\ N \in Nat /\ Depths \in Nat
           /\ witness[1] \in Elements /\ witness[2] \in Elements
<1>1. T \in Nat \ {0} /\ N \in Nat
    BY DEF HorsGiven
<1>2. 1 \in 1 .. 3 * T + 4 /\ 2 \in 1 .. 3 * T + 4
    BY <1>1
<1>3. witness[1] \in Elements /\ witness[2] \in Elements
    BY <1>2, WitnessIs
<1>4. Names(T)[1] = <<"digest_proof", 0>> /\ Names(T)[2] = <<"digest_key", 0>>
  <2> DEFINE t == T
  <2>1. t \in Nat
      BY <1>1
  <2> HIDE DEF t
  <2>2. Names(t)[1] = <<"digest_proof", 0>> /\ Names(t)[2] = <<"digest_key", 0>>
      BY <2>1, NamesAre
  <2> QED BY <2>2 DEF t
<1>5. Depths \in Nat
    BY ONLY <1>1 DEF Depths
<1> QED BY <1>1, <1>3, <1>4, <1>5

(* The compiler state once digest proof and key are fetched.               *)
LEMMA PosedKeeps ==
    ASSUME HorsGiven
    PROVE  Keeps(Fetched, 2, T + 2, Depths) /\ Keeps(Posed, 3, T + 2, Depths)
<1> DEFINE s == Signatures(N, T, Puzzle)
<1> DEFINE h == T + 2
<1> DEFINE len == Depths
<1>1. Keeps(s, 1, h, len)
    BY SignaturesKeep DEF Depths
<1>2. h >= 1 /\ h >= 2 /\ 1 + 1 = 2 /\ 2 + 1 = 3
    BY LowNames
<1> HIDE DEF s, h, len
<1>3. Keeps(Roll(s, Names(T)[1]), 1 + 1, h, len)
    BY <1>1, <1>2, KeepsRollLow
<1>4. Fetched = Roll(s, Names(T)[1]) /\ Posed = Roll(Fetched, Names(T)[2])
    BY LowNames DEF Fetched, Posed, s
<1>5. Keeps(Fetched, 2, h, len)
    BY <1>2, <1>3, <1>4
<1>6. Keeps(Roll(Fetched, Names(T)[2]), 2 + 1, h, len)
    BY <1>2, <1>5, KeepsRollLow
<1> QED BY <1>2, <1>4, <1>5, <1>6 DEF h, len

(* The codes of the two rolls that fetch them.                             *)
LEMMA PosedWritten ==
    ASSUME HorsGiven, Written(Posed)
    PROVE  Written(Fetched) /\ Written(Signatures(N, T, Puzzle))
<1> DEFINE s == Signatures(N, T, Puzzle)
<1> DEFINE h == T + 2
<1> DEFINE len == Depths
<1>1. Keeps(s, 1, h, len) /\ Keeps(Fetched, 2, h, len)
    BY SignaturesKeep, PosedKeeps DEF Depths
<1>2. 1 \in 1 .. h /\ 2 \in 2 .. h
    BY LowNames
<1>3. Fetched = Roll(s, Names(T)[1]) /\ Posed = Roll(Fetched, Names(T)[2])
    BY LowNames DEF Fetched, Posed
<1> HIDE DEF s, h, len
<1>4. Written(Fetched)
    BY <1>1, <1>2, <1>3, WrittenRoll
<1>5. Written(s)
    BY <1>1, <1>2, <1>3, <1>4, WrittenRoll
<1> QED BY <1>4, <1>5 DEF s

(* The two rolls fetch the digest proof and the digest key.                *)
LEMMA PosedRuns ==
    ASSUME HorsGiven, Written(Posed), NEW r \in Stacks, Len(r) = 2 * N + 2 + T, NEW a,
           Trace[EndOf(Signatures(N, T, Puzzle))] = State(Under(1, T + 2, r), a, <<>>)
    PROVE  Trace[EndOf(Posed)] =
             State(Under(3, T + 2, r) ++ witness[1] ++ witness[2], a, <<>>)
<1> DEFINE s == Signatures(N, T, Puzzle)
<1> DEFINE h == T + 2
<1> DEFINE len == Depths
<1>1. Keeps(s, 1, h, len) /\ Keeps(Fetched, 2, h, len)
    BY SignaturesKeep, PosedKeeps DEF Depths
<1>2. /\ h >= 1 /\ h >= 2 /\ 1 + 1 = 2 /\ 2 + 1 = 3 /\ Spans(3, h)
      /\ len = (h - 1 + 1) + Len(r) /\ len = (h - 2 + 1) + (Len(r) + 1)
  <2>1. T \in Nat \ {0} /\ N \in Nat /\ Len(r) = 2 * N + 2 + T
      BY LowNames
  <2> QED BY ONLY <2>1 DEF Spans, h, len, Depths
<1>3. Fetched = Roll(s, Names(T)[1]) /\ Posed = Roll(Fetched, Names(T)[2])
    BY LowNames DEF Fetched, Posed
<1>4. Written(Fetched)
    BY PosedWritten
<1>5. Trace[EndOf(s)] = State(Under(1, h, r), a, <<>>)
    OBVIOUS
<1> DEFINE x == witness[1]
<1> DEFINE y == witness[2]
<1>6. x \in Elements /\ y \in Elements
    BY LowNames
<1> HIDE DEF s, h, len
<1>7. Trace[EndOf(Fetched)] = State(Under(2, h, r ++ x), a, <<>>)
  <2> DEFINE lo == 1
  <2>1. /\ HorsGiven /\ Keeps(s, lo, h, len) /\ h >= lo /\ Written(Roll(s, Names(T)[lo]))
        /\ r \in Stacks /\ len = (h - lo + 1) + Len(r)
        /\ Trace[EndOf(s)] = State(Under(lo, h, r), a, <<>>) /\ lo + 1 = 2
      BY <1>1, <1>2, <1>3, <1>4, <1>5
  <2>2. witness[lo] = x /\ Fetched = Roll(s, Names(T)[lo])
      BY <1>3
  <2> HIDE DEF lo, x
  <2>3. Trace[EndOf(Roll(s, Names(T)[lo]))] = State(Under(lo + 1, h, r ++ witness[lo]), a, <<>>)
      BY ONLY <2>1, RollLowRuns
  <2> QED BY <2>1, <2>2, <2>3
<1>8. Trace[EndOf(Posed)] = State(Under(3, h, r ++ x ++ y), a, <<>>)
  <2> DEFINE lo == 2
  <2> DEFINE rx == r ++ x
  <2>0. rx \in Stacks /\ Len(rx) = Len(r) + 1
    <3> HIDE DEF x
    <3> QED BY <1>6, Pushed
  <2>1. /\ HorsGiven /\ Keeps(Fetched, lo, h, len) /\ h >= lo
           /\ Written(Roll(Fetched, Names(T)[lo]))
        /\ rx \in Stacks /\ len = (h - lo + 1) + Len(rx)
        /\ Trace[EndOf(Fetched)] = State(Under(lo, h, rx), a, <<>>) /\ lo + 1 = 3
      BY <1>1, <1>2, <1>3, <1>7, <2>0
  <2>2. witness[lo] = y /\ Posed = Roll(Fetched, Names(T)[lo])
      BY <1>3
  <2> HIDE DEF lo, rx, y
  <2>3. Trace[EndOf(Roll(Fetched, Names(T)[lo]))]
          = State(Under(lo + 1, h, rx ++ witness[lo]), a, <<>>)
      BY ONLY <2>1, RollLowRuns
  <2> QED BY <2>1, <2>2, <2>3 DEF rx
<1>9. Under(3, h, r ++ x ++ y) = Under(3, h, r) ++ x ++ y
  <2> HIDE DEF x, y
  <2> DEFINE rx == r ++ x
  <2>1. rx \in Stacks
      BY <1>6, Pushed
  <2>2. Under(3, h, rx) = Under(3, h, r) ++ x
      BY <1>2, <1>6, UnderPush
  <2> HIDE DEF rx
  <2>3. Under(3, h, rx ++ y) = Under(3, h, rx) ++ y
      BY <1>2, <1>6, <2>1, UnderPush
  <2> QED BY <2>2, <2>3 DEF rx
<1> QED BY <1>8, <1>9 DEF h

-----------------------------------------------------------------------------
(* The compiler state after the digest check.                              *)
LEMMA CountedKeeps ==
    ASSUME HorsGiven
    PROVE  /\ Keeps(SigsCounted(N, T, Puzzle), 3, T + 2, Depths)
           /\ Written(SigsCounted(N, T, Puzzle)) =>
                /\ Written(Digest(N, T, Puzzle)) /\ Written(Posed)
                /\ EndOf(Digest(N, T, Puzzle)) \in Nat \ {0}
                /\ EndOf(Digest(N, T, Puzzle)) \in 1 .. Len(Script) + 1
                /\ Block(EndOf(Digest(N, T, Puzzle)), <<PushNum(T + 1), Op("SWAP")>>)
                /\ EndOf(SigsCounted(N, T, Puzzle)) = EndOf(Digest(N, T, Puzzle)) + 2
                /\ EndOf(SigsCounted(N, T, Puzzle)) \in 1 .. Len(Script) + 1
<1> DEFINE c == Digest(N, T, Puzzle)
<1> DEFINE hi == T + 2
<1> DEFINE len == Depths
<1> DEFINE code == <<PushNum(T + 1), Op("SWAP")>>
<1> DEFINE names == <<<<"sig_count", 0>>, <<"preserved_key", 0>>>>
<1> DEFINE e == Emit(c, code)
<1> DEFINE d == SigsCounted(N, T, Puzzle)
<1>1. d = Renamed(e, 1, names)
    BY DEF SigsCounted
<1>2. code \in Codes /\ Len(code) = 2
  <2>1. T + 1 \in Int
      BY LowNames
  <2>2. PushNum(T + 1) \in Instructions /\ Op("SWAP") \in Instructions
      BY <2>1, OpIs, PushNumIs DEF Plain
  <2> QED BY <2>2 DEF Codes
<1>3. /\ T \in Nat /\ N \in Nat /\ hi \in Nat /\ len \in Nat
      /\ 2 <= len - (hi - 3 + 1) /\ 1 <= (len - 1) - (hi - 3 + 1)
      /\ ((len - 1) - 1) + 2 = len
  <2>1. T \in Nat \ {0} /\ N \in Nat
      BY LowNames
  <2> QED BY ONLY <2>1 DEF Depths, hi, len
<1>4. names \in Seq(Labels) /\ Len(names) = 2
  <2>1. <<"sig_count", 0>> \in Labels /\ <<"preserved_key", 0>> \in Labels
      BY LabelIs
  <2> QED BY <2>1
<1>5. c = PuzzleCheck(Posed, Puzzle)
    BY DEF Digest, Posed, Fetched
<1>6. Keeps(Posed, 3, hi, len)
    BY PosedKeeps
<1> HIDE DEF c, hi, code, names, d, len
<1>7. /\ Keeps(c, 3, hi, len - 1)
      /\ Written(c) => Written(Posed) /\ EndOf(c) \in 1 .. Len(Script) + 1
    BY <1>3, <1>5, <1>6, PuzzleKeeps
<1>8. Keeps(e, 3, hi, len - 1)
    BY <1>2, <1>7, KeepsEmit
<1>9. /\ Keeps(d, 3, hi, ((len - 1) - 1) + Len(names))
      /\ (Written(d) <=> Written(e)) /\ EndOf(d) = EndOf(e)
  <2> HIDE DEF e
  <2> DEFINE m == len - 1
  <2>1. Keeps(e, 3, hi, m) /\ 1 \in Nat /\ 1 <= m - (hi - 3 + 1)
      BY <1>3, <1>8
  <2> HIDE DEF m
  <2>2. /\ Keeps(d, 3, hi, (m - 1) + Len(names)) /\ (Written(d) <=> Written(e))
        /\ EndOf(d) = EndOf(e)
      BY <1>1, <1>4, <2>1, KeepsRenamed, WrittenRenamed
  <2> QED BY <2>2 DEF m
<1>10. Written(e) => /\ Written(c) /\ Block(EndOf(c), code) /\ EndOf(c) \in Nat \ {0}
                     /\ EndOf(e) = EndOf(c) + Len(code)
                     /\ EndOf(e) \in 1 .. Len(Script) + 1
    BY <1>2, <1>7, WrittenEmit
<1>11. Keeps(d, 3, hi, len)
    BY <1>3, <1>4, <1>9
<1>12. Written(d) =>
         /\ Written(c) /\ Written(Posed) /\ EndOf(c) \in Nat \ {0}
         /\ EndOf(c) \in 1 .. Len(Script) + 1
         /\ Block(EndOf(c), code) /\ EndOf(d) = EndOf(c) + 2 /\ EndOf(d) \in 1 .. Len(Script) + 1
    BY <1>2, <1>7, <1>9, <1>10
<1> QED BY <1>11, <1>12 DEF c, hi, d, code, len

(* The digest check passes exactly for the proof of the supplied key.      *)
LEMMA CountedRuns ==
    ASSUME HorsGiven, Written(SigsCounted(N, T, Puzzle)), NEW r \in Stacks,
           Len(r) = 2 * N + 2 + T, NEW a,
           Trace[EndOf(Signatures(N, T, Puzzle))] = State(Under(1, T + 2, r), a, <<>>)
    PROVE  IF Solved(witness[2], witness[1])
           THEN Trace[EndOf(SigsCounted(N, T, Puzzle))] =
                  State(Under(3, T + 2, r ++ Num(T + 1) ++ witness[2]), a, <<>>)
           ELSE Rejected(EndOf(SigsCounted(N, T, Puzzle)))
<1> DEFINE p == EndOf(Digest(N, T, Puzzle))
<1> DEFINE q == EndOf(SigsCounted(N, T, Puzzle))
<1> DEFINE h == T + 2
<1> DEFINE s == Under(3, h, r)
<1> DEFINE y == witness[1]
<1> DEFINE x == witness[2]
<1> DEFINE n == Num(T + 1)
<1> DEFINE code == <<PushNum(T + 1), Op("SWAP")>>
<1> DEFINE done == Solved(x, y)
<1> DEFINE end == State(Under(3, h, r ++ n ++ x), a, <<>>)
<1>1. /\ Written(Digest(N, T, Puzzle)) /\ Written(Posed) /\ p \in Nat \ {0}
      /\ p \in 1 .. Len(Script) + 1 /\ Block(p, code) /\ q = p + 2 /\ q \in 1 .. Len(Script) + 1
    BY CountedKeeps
<1>2. T \in Nat \ {0} /\ N \in Nat /\ x \in Elements /\ y \in Elements /\ Spans(3, h)
    BY LowNames DEF Spans
<1>3. s \in Stacks
  <2> HIDE DEF h
  <2> QED BY <1>2, UnderIs
<1>4. IF done THEN Trace[p] = State(s ++ x, a, <<>>) ELSE Rejected(p)
  <2>1. Trace[EndOf(Posed)] = State(s ++ y ++ x, a, <<>>)
      BY <1>1, PosedRuns
  <2> DEFINE len == Depths
  <2>2. Digest(N, T, Puzzle) = PuzzleCheck(Posed, Puzzle)
      BY DEF Digest, Posed, Fetched
  <2>3. /\ HorsGiven /\ Keeps(Posed, 3, h, len) /\ 2 <= len - (h - 3 + 1)
        /\ Written(PuzzleCheck(Posed, Puzzle))
    <3>1. 2 <= len - (h - 3 + 1)
        BY ONLY <1>2 DEF len, Depths, h
    <3> QED BY <1>1, <2>2, <3>1, PosedKeeps
  <2> HIDE DEF len, s, x, y, h
  <2>4. IF Solved(x, y) THEN Trace[EndOf(PuzzleCheck(Posed, Puzzle))] = State(s ++ x, a, <<>>)
                        ELSE Rejected(EndOf(PuzzleCheck(Posed, Puzzle)))
      BY <1>2, <1>3, <2>1, <2>3, PuzzleStage
  <2> QED BY <2>2, <2>4
<1>5. n \in Elements /\ PushNum(T + 1).arg = n /\ PushNum(T + 1).op = "PUSH"
    BY <1>2, NumberIs, PushNumIs
<1>6. Len(Script) \in Nat
    BY <1>1 DEF Block
<1>7. Reads(p, "PUSH") /\ Script[p].arg = n /\ Reads(p + 1, "SWAP")
  <2>1. /\ code[1] = PushNum(T + 1) /\ code[2] = Op("SWAP") /\ 1 \in 1 .. Len(code)
        /\ 2 \in 1 .. Len(code) /\ p = p + 1 - 1 /\ p + 1 = p + 2 - 1
      BY <1>1
  <2>2. Op("SWAP").op = "SWAP"
      BY OpIs DEF Plain
  <2>3. Block(p, code)
      BY <1>1
  <2> HIDE DEF code, p, n
  <2>4. Reads(p, code[1].op) /\ Reads(p + 1, code[2].op) /\ Script[p] = code[1]
      BY <2>1, <2>3, BlockReads
  <2> QED BY <1>5, <2>1, <2>2, <2>4
<1>8. ASSUME done PROVE Trace[q] = end
  <2> DEFINE b == <<>>
  <2>1. On(b) /\ Trace[p] = State(s ++ x, a, b)
      BY <1>4, <1>8, NoneOn
  <2>2. (p + 1) + 1 = q
      BY <1>1
  <2>3. Under(3, h, r ++ n ++ x) = s ++ n ++ x
    <3> HIDE DEF n, x, h
    <3> DEFINE rn == r ++ n
    <3>1. rn \in Stacks
        BY <1>5, Pushed
    <3>2. Under(3, h, rn) = s ++ n
        BY <1>2, <1>5, UnderPush
    <3> HIDE DEF rn
    <3>3. Under(3, h, rn ++ x) = Under(3, h, rn) ++ x
        BY <1>2, <3>1, UnderPush
    <3> QED BY <3>2, <3>3 DEF rn
  <2>4. end = State(s ++ n ++ x, a, b)
      BY <2>3
  <2> HIDE DEF b, s, x, n, p, q, end
  <2>5. s ++ x \in Stacks
      BY <1>2, <1>3, Pushed
  <2>6. Trace[p + 1] = State(s ++ x ++ n, a, b)
    <3> DEFINE u == s ++ x
    <3>1. u \in Stacks /\ Trace[p] = State(u, a, b)
        BY <2>1, <2>5
    <3> HIDE DEF u
    <3>2. Trace[p + 1] = State(u ++ n, a, b)
        BY <1>5, <1>7, <2>1, <3>1, RunPush
    <3> QED BY <3>2 DEF u
  <2>7. Trace[(p + 1) + 1] = State(s ++ n ++ x, a, b)
    <3> DEFINE o == p + 1
    <3>1. Reads(o, "SWAP") /\ Trace[o] = State(s ++ x ++ n, a, b)
        BY <1>7, <2>6
    <3> HIDE DEF o
    <3>2. Trace[o + 1] = State(s ++ n ++ x, a, b)
        BY <1>2, <1>3, <1>5, <2>1, <3>1, RunSwap
    <3> QED BY <3>2 DEF o
  <2> QED BY <2>2, <2>4, <2>7
<1>9. ASSUME ~done PROVE Rejected(q)
  <2>1. Rejected(p)
      BY <1>4, <1>9
  <2>2. q \in p .. Len(Script) + 1
      BY <1>1, <1>6
  <2> HIDE DEF p, q
  <2> QED BY <1>1, <1>6, <2>1, <2>2, RejectedStays
<1> HIDE DEF done, end, q
<1>10. IF done THEN Trace[q] = end ELSE Rejected(q)
    BY <1>8, <1>9
<1> QED BY <1>10 DEF done, end, q

-----------------------------------------------------------------------------
(* compile() fetches the keys of the dummies.                              *)
Fetching(k) == Keyed(N, T, Puzzle, k)
Pubs(k) == [i \in 1 .. k |-> witness[2 + (T - (i - 1))]]

(* One key more, for the parameters of the script.                         *)
LEMMA FetchingNext ==
    ASSUME HorsGiven, NEW k \in 0 .. T - 1
    PROVE  /\ Fetching(0) = SigsCounted(N, T, Puzzle)
           /\ Fetching(k + 1) = Roll(Fetching(k), Names(T)[T + 2 - k])
           /\ T + 2 - k \in Nat /\ T + 2 - k >= 3 /\ (T + 2 - k) - 1 = T + 2 - (k + 1)
           /\ k \in 0 .. T /\ k \in Nat
<1>1. T \in Nat \ {0} /\ k \in Nat /\ (k + 1) - 1 = k /\ 2 + (T - k) = T + 2 - k
    BY LowNames
<1>2. /\ Keyed(N, T, Puzzle, 0) = SigsCounted(N, T, Puzzle)
      /\ Keyed(N, T, Puzzle, k + 1) = Roll(Keyed(N, T, Puzzle, k), <<"pub", (k + 1) - 1>>)
    BY <1>1, KeyNext
<1>3. Names(T)[2 + (T - k)] = <<"pub", k>>
    BY PlacesAre
<1>4. Fetching(k + 1) = Roll(Fetching(k), Names(T)[T + 2 - k])
    BY <1>1, <1>2, <1>3 DEF Fetching
<1>5. Fetching(0) = SigsCounted(N, T, Puzzle)
    BY <1>2 DEF Fetching
<1>6. T + 2 - k \in Nat /\ T + 2 - k >= 3 /\ (T + 2 - k) - 1 = T + 2 - (k + 1) /\ k \in 0 .. T
    BY ONLY <1>1, k \in 0 .. T - 1
<1> QED BY <1>1, <1>4, <1>5, <1>6

(* The keys are fetched after the digest check.                            *)
LEMMA FetchingStarts ==
    ASSUME HorsGiven
    PROVE  Fetching(0) = SigsCounted(N, T, Puzzle)
<1>1. 0 \in 0 .. T - 1
    BY LowNames
<1> QED BY <1>1, FetchingNext

(* The compiler state after k keys.                                        *)
LEMMA FetchingKeeps ==
    ASSUME HorsGiven, NEW k \in 0 .. T
    PROVE  Keeps(Fetching(k), 3, T + 2 - k, Depths)
<1> DEFINE Good(i) == Keeps(Fetching(i), 3, T + 2 - i, Depths)
<1> DEFINE Bad == {i \in 0 .. T : ~Good(i)}
<1>1. T \in Nat \ {0}
    BY LowNames
<1> SUFFICES ASSUME Bad # {} PROVE FALSE
    OBVIOUS
<1>2. Bad \in SUBSET Nat
    BY <1>1
<1> HIDE DEF Bad
<1>3. PICK m \in Bad : \A i \in Bad : m <= i
    BY <1>2, LeastMember
<1> USE DEF Bad
<1>4. Good(0)
  <2>1. T + 2 - 0 = T + 2
      BY <1>1
  <2> QED BY <2>1, FetchingStarts, CountedKeeps
<1>5. m \in 1 .. T
  <2>1. m # 0 /\ m \in 0 .. T
      BY <1>3, <1>4
  <2> QED BY ONLY <1>1, <2>1
<1> DEFINE j == m - 1
<1>6. j \in 0 .. T - 1 /\ j \in 0 .. T /\ j + 1 = m /\ ~(m <= j)
    BY ONLY <1>1, <1>5
<1>7. Good(j)
    BY <1>3, <1>6
<1>8. Good(j + 1)
  <2> HIDE DEF j
  <2> DEFINE h == T + 2 - j
  <2>1. Fetching(j + 1) = Roll(Fetching(j), Names(T)[h]) /\ h >= 3 /\ h - 1 = T + 2 - (j + 1)
      BY <1>6, FetchingNext
  <2>2. Keeps(Fetching(j), 3, h, Depths)
      BY <1>7
  <2> HIDE DEF h
  <2>3. Keeps(Roll(Fetching(j), Names(T)[h]), 3, h - 1, Depths)
      BY <2>1, <2>2, KeepsRollTop
  <2> QED BY <2>1, <2>3
<1>9. Good(m)
  <2> HIDE DEF j, Good
  <2> QED BY <1>6, <1>8
<1> QED BY <1>3, <1>9

(* The roll of the next key stands after those of the keys before.         *)
LEMMA FetchingWritten ==
    ASSUME HorsGiven, NEW k \in 0 .. T - 1, Written(Fetching(k + 1))
    PROVE  /\ Written(Fetching(k)) /\ EndOf(Fetching(k)) \in Nat \ {0}
           /\ EndOf(Fetching(k + 1)) = EndOf(Fetching(k)) + 2
           /\ EndOf(Fetching(k + 1)) \in 1 .. Len(Script) + 1
<1> DEFINE h == T + 2 - k
<1> DEFINE c == Fetching(k)
<1>1. Fetching(k + 1) = Roll(c, Names(T)[h]) /\ h >= 3 /\ h \in Nat /\ k \in 0 .. T
    BY FetchingNext
<1>2. Keeps(c, 3, h, Depths) /\ h \in 3 .. h
    BY <1>1, FetchingKeeps
<1>3. Written(Roll(c, Names(T)[h]))
    BY <1>1
<1> HIDE DEF h, c
<1>4. /\ Written(c) /\ EndOf(c) \in Nat \ {0} /\ EndOf(Roll(c, Names(T)[h])) = EndOf(c) + 2
      /\ EndOf(Roll(c, Names(T)[h])) \in 1 .. Len(Script) + 1
    BY <1>2, <1>3, WrittenRoll
<1> QED BY <1>1, <1>4 DEF c

(* With all rolls written each one is.                                     *)
LEMMA AllFetched ==
    ASSUME HorsGiven, Written(Fetching(T)), NEW k \in 0 .. T
    PROVE  Written(Fetching(k))
<1> DEFINE Bad == {i \in 0 .. T : ~Written(Fetching(T - i))}
<1>1. T \in Nat
    BY DEF HorsGiven
<1>2. Bad = {}
  <2> SUFFICES ASSUME Bad # {} PROVE FALSE
      OBVIOUS
  <2>1. Bad \in SUBSET Nat
      BY <1>1
  <2> HIDE DEF Bad
  <2>2. PICK m \in Bad : \A i \in Bad : m <= i
      BY <2>1, LeastMember
  <2> USE DEF Bad
  <2>3. T - 0 = T
      BY <1>1
  <2>4. m \in 1 .. T
    <3>1. m # 0
        BY <2>2, <2>3
    <3> QED BY <1>1, <2>2, <3>1
  <2>5. m - 1 \in 0 .. T /\ ~(m <= m - 1) /\ T - (m - 1) = (T - m) + 1 /\ T - m \in 0 .. T - 1
      BY <1>1, <2>4
  <2>6. Written(Fetching((T - m) + 1))
      BY <2>2, <2>5
  <2>7. Written(Fetching(T - m))
      BY <2>5, <2>6, FetchingWritten
  <2> QED BY <2>2, <2>7
<1>3. T - k \in 0 .. T /\ T - (T - k) = k
    BY <1>1
<1>4. T - k \notin Bad
    BY <1>2
<1> QED BY <1>3, <1>4

-----------------------------------------------------------------------------
(* The keys fetched so far.                                                *)
LEMMA PubsAre ==
    ASSUME HorsGiven, NEW k \in 0 .. T
    PROVE  /\ Pubs(k) \in Stacks /\ Len(Pubs(k)) = k
           /\ \A i \in 1 .. k : Pubs(k)[i] = witness[2 + (T - (i - 1))]
<1>1. T \in Nat /\ k \in Nat
    BY LowNames
<1>2. \A i \in 1 .. k : witness[2 + (T - (i - 1))] \in Elements
  <2> TAKE i \in 1 .. k
  <2>1. 2 + (T - (i - 1)) \in 1 .. 3 * T + 4
      BY <1>1
  <2> QED BY <2>1, WitnessIs
<1> QED BY <1>1, <1>2 DEF Pubs, Stacks

(* One key more on the stack.                                              *)
LEMMA PubsNext ==
    ASSUME HorsGiven, NEW k \in 0 .. T - 1, NEW r \in Stacks
    PROVE  r \o Pubs(k + 1) = (r \o Pubs(k)) ++ witness[T + 2 - k]
<1> DEFINE e == Pubs(k + 1)
<1> DEFINE h == k + 1
<1>1. T \in Nat /\ k \in Nat /\ h \in 0 .. T /\ k \in 0 .. T /\ h \in 1 .. h /\ h - 1 = k
    BY LowNames
<1>2. /\ e \in Stacks /\ Len(e) = h
      /\ \A i \in 1 .. h : e[i] = witness[2 + (T - (i - 1))]
    BY <1>1, PubsAre
<1>3. /\ Pubs(k) \in Seq(Elements) /\ Len(Pubs(k)) = k
      /\ \A i \in 1 .. k : Pubs(k)[i] = witness[2 + (T - (i - 1))]
    BY <1>1, PubsAre DEF Stacks
<1> HIDE DEF e
<1>4. e[h] = witness[T + 2 - k]
  <2>1. 2 + (T - (h - 1)) = T + 2 - k
      BY <1>1
  <2> QED BY <1>1, <1>2, <2>1
<1>5. /\ SubSeq(e, 1, k) \in Seq(Elements) /\ Len(SubSeq(e, 1, k)) = k
      /\ \A i \in 1 .. k : SubSeq(e, 1, k)[i] = e[i]
  <2>1. /\ SubSeq(e, 1, k) \in Seq(Elements)
           /\ Len(SubSeq(e, 1, k)) = IF 1 <= k THEN k - 1 + 1 ELSE 0
        /\ \A i \in 1 .. k - 1 + 1 : SubSeq(e, 1, k)[i] = e[1 + i - 1]
    <3>1. \A i \in 1 .. Len(e) : e[i] \in Elements
        BY <1>2, ElementOfSeq DEF Stacks
    <3>2. 1 \in Int /\ k \in Int /\ \A i \in 1 .. k : e[i] \in Elements
        BY <1>1, <1>2, <3>1
    <3> QED BY ONLY <3>2, SubSeqProperties
  <2>2. k - 1 + 1 = k /\ \A i \in 1 .. k : 1 + i - 1 = i
      BY <1>1
  <2> QED BY <1>1, <2>1, <2>2
<1>6. \A i \in 1 .. k : i \in 1 .. h
    BY <1>1
<1>7. \A i \in 1 .. k : Pubs(k)[i] = SubSeq(e, 1, k)[i]
    BY <1>2, <1>3, <1>5, <1>6
<1>8. Pubs(k) = SubSeq(e, 1, k)
    BY <1>3, <1>5, <1>7, SeqEqual
<1> HIDE DEF h
<1>9. r \o SubSeq(e, 1, h) = (r \o SubSeq(e, 1, h - 1)) ++ e[h]
    BY <1>1, <1>2, OneMore
<1>10. r \o SubSeq(e, 1, Len(e)) = r \o e
    BY <1>2, NoMore
<1> QED BY <1>1, <1>2, <1>4, <1>8, <1>9, <1>10 DEF e

(* One key more in the run.                                                *)
LEMMA FetchingStep ==
    ASSUME HorsGiven, NEW k \in 0 .. T - 1, Written(Fetching(k + 1)), NEW r \in Stacks,
           Len(r) = 2 * N + 4 + T, NEW a,
           Trace[EndOf(Fetching(k))] = State(Under(3, T + 2 - k, r \o Pubs(k)), a, <<>>)
    PROVE  Trace[EndOf(Fetching(k + 1))] =
             State(Under(3, T + 2 - (k + 1), r \o Pubs(k + 1)), a, <<>>)
<1> DEFINE h == T + 2 - k
<1> DEFINE c == Fetching(k)
<1> DEFINE v == r \o Pubs(k)
<1> DEFINE lo == 3
<1>1. /\ Fetching(k + 1) = Roll(c, Names(T)[h]) /\ h >= lo /\ h \in Nat /\ k \in 0 .. T
      /\ h - 1 = T + 2 - (k + 1)
    BY FetchingNext
<1>2. Keeps(c, lo, h, Depths)
    BY <1>1, FetchingKeeps
<1>3. v \in Stacks /\ Len(v) = 2 * N + 4 + T + k
  <2> DEFINE e == Pubs(k)
  <2>1. e \in Stacks /\ Len(e) = k
      BY <1>1, PubsAre
  <2> HIDE DEF e
  <2>2. r \in Seq(Elements) /\ e \in Seq(Elements)
      BY <2>1 DEF Stacks
  <2>3. r \o e \in Seq(Elements) /\ Len(r \o e) = Len(r) + Len(e)
      BY ONLY <2>2, ConcatProperties
  <2>4. Len(r \o e) = 2 * N + 4 + T + k /\ r \o e \in Stacks
      BY <2>1, <2>3 DEF Stacks
  <2> QED BY <2>4 DEF v, e
<1>4. Depths = (h - lo + 1) + Len(v)
  <2> HIDE DEF v
  <2>1. T \in Nat /\ N \in Nat /\ k \in Nat /\ Len(v) = 2 * N + 4 + T + k
      BY <1>3, LowNames
  <2> QED BY ONLY <2>1 DEF Depths, h
<1>5. /\ HorsGiven /\ Written(Roll(c, Names(T)[h]))
      /\ Trace[EndOf(c)] = State(Under(lo, h, v), a, <<>>)
    BY <1>1
<1>6. r \o Pubs(k + 1) = v ++ witness[h]
    BY PubsNext
<1> HIDE DEF h, c, v, lo
<1>7. Trace[EndOf(Roll(c, Names(T)[h]))] = State(Under(lo, h - 1, v ++ witness[h]), a, <<>>)
    BY ONLY <1>1, <1>2, <1>3, <1>4, <1>5, RollTopRuns
<1> QED BY <1>1, <1>6, <1>7 DEF lo

(* The rolls fetch the keys in the order of the signatures.                *)
LEMMA FetchingRuns ==
    ASSUME HorsGiven, Written(Fetching(T)), NEW r \in Stacks, Len(r) = 2 * N + 4 + T, NEW a,
           NEW done \in BOOLEAN,
           IF done THEN Trace[EndOf(Fetching(0))] = State(Under(3, T + 2, r), a, <<>>)
                   ELSE Rejected(EndOf(Fetching(0)))
    PROVE  IF done THEN Trace[EndOf(Fetching(T))] = State(r \o Pubs(T), a, <<>>)
                   ELSE Rejected(EndOf(Fetching(T)))
<1> DEFINE Good(i) ==
        IF done THEN Trace[EndOf(Fetching(i))] = State(Under(3, T + 2 - i, r \o Pubs(i)), a, <<>>)
                ELSE Rejected(EndOf(Fetching(i)))
<1> DEFINE Bad == {i \in 0 .. T : ~Good(i)}
<1>1. T \in Nat \ {0}
    BY LowNames
<1>2. Good(0)
  <2>1. T + 2 - 0 = T + 2
      BY <1>1
  <2>2. r \o Pubs(0) = r
    <3>1. Pubs(0) = <<>>
        BY DEF Pubs
    <3> QED BY <3>1, PushedNone
  <2> QED BY <2>1, <2>2
<1>3. Bad = {}
  <2> SUFFICES ASSUME Bad # {} PROVE FALSE
      OBVIOUS
  <2>1. Bad \in SUBSET Nat
      BY <1>1
  <2> HIDE DEF Bad
  <2>2. PICK m \in Bad : \A i \in Bad : m <= i
      BY <2>1, LeastMember
  <2> USE DEF Bad
  <2>3. m \in 1 .. T
    <3>1. m # 0 /\ m \in 0 .. T
        BY <1>2, <2>2
    <3> QED BY ONLY <1>1, <3>1
  <2> DEFINE j == m - 1
  <2>4. j \in 0 .. T - 1 /\ j \in 0 .. T /\ j + 1 = m /\ ~(m <= j)
      BY ONLY <1>1, <2>3
  <2>5. Good(j)
      BY <2>2, <2>4
  <2>6. Good(j + 1)
    <3>1. Written(Fetching(j + 1))
        BY <2>3, <2>4, AllFetched
    <3> HIDE DEF j
    <3>2. CASE done
        BY <2>4, <2>5, <3>1, <3>2, FetchingStep
    <3>3. CASE ~done
      <4> DEFINE p == EndOf(Fetching(j))
      <4> DEFINE q == EndOf(Fetching(j + 1))
      <4>1. p \in Nat \ {0} /\ q = p + 2 /\ q \in 1 .. Len(Script) + 1 /\ Written(Fetching(j))
          BY <2>4, <3>1, FetchingWritten
      <4>2. Len(Script) \in Nat
          BY <3>1 DEF Written, Block
      <4>3. p \in 1 .. Len(Script) + 1 /\ q \in p .. Len(Script) + 1
        <5> HIDE DEF p, q
        <5> QED BY <4>1, <4>2
      <4>4. Rejected(p)
          BY <2>5, <3>3
      <4> HIDE DEF p, q
      <4>5. Rejected(q)
          BY <4>2, <4>3, <4>4, RejectedStays
      <4> QED BY <3>3, <4>5 DEF q
    <3> QED BY <3>2, <3>3
  <2>7. Good(m)
    <3> HIDE DEF j, Good
    <3> QED BY <2>4, <2>6
  <2> QED BY <2>2, <2>7
<1>4. Good(T)
  <2>1. T \in 0 .. T
      BY <1>1
  <2> QED BY <1>3, <2>1
<1>5. Under(3, T + 2 - T, r \o Pubs(T)) = r \o Pubs(T)
  <2> DEFINE v == r \o Pubs(T)
  <2>1. v \in Seq(Elements)
    <3> DEFINE e == Pubs(T)
    <3>1. e \in Stacks
      <4>1. T \in 0 .. T
          BY <1>1
      <4> QED BY <4>1, PubsAre
    <3> HIDE DEF e
    <3>2. r \in Seq(Elements) /\ e \in Seq(Elements)
        BY <3>1 DEF Stacks
    <3>3. r \o e \in Seq(Elements)
        BY ONLY <3>2, ConcatProperties
    <3> QED BY <3>3 DEF e
  <2> HIDE DEF v
  <2>2. T + 2 - T = 2
      BY <1>1
  <2>3. SubSeq(witness, 3, 2) = <<>>
    <3> DEFINE w == SubSeq(witness, 3, 2)
    <3>1. 3 \in Int /\ 2 \in Int /\ \A i \in 3 .. 2 : witness[i] \in Elements
        OBVIOUS
    <3>2. w \in Seq(Elements) /\ Len(w) = IF 3 <= 2 THEN 2 - 3 + 1 ELSE 0
        BY ONLY <3>1, SubSeqProperties
    <3> HIDE DEF w
    <3>3. Len(w) = 0
        BY <3>2
    <3>4. w = <<>>
        BY <3>2, <3>3, EmptySeq
    <3> QED BY <3>4 DEF w
  <2>4. <<>> \o v = v
      BY <2>1, ConcatEmptySeq
  <2> QED BY <2>2, <2>3, <2>4 DEF Under, v
<1> QED BY <1>4, <1>5

-----------------------------------------------------------------------------
(* The multisig check, on the operands above a stack.                      *)
Unwanted(u, k) == {u[k + 2 - i].n : i \in {j \in 1 .. k : u[k + 2 - j].kind = "dummy"}}
Matching(u, k) == \A i \in 1 .. k : Verifies(u[k + 2 - i], u[2 * k + 3 - i], Unwanted(u, k))

(* What lies on a stack, counted from its top.                             *)
LEMMA FromIs ==
    ASSUME NEW s \in Stacks, NEW u \in Stacks, NEW i \in 0 .. Len(u) - 1
    PROVE  From(s \o u, i) = u[Len(u) - i]
<1>1. /\ Len(s \o u) = Len(s) + Len(u) /\ Len(s) \in Nat /\ Len(u) \in Nat
      /\ \A j \in 1 .. Len(u) : (s \o u)[Len(s) + j] = u[j]
  <2>1. s \in Seq(Elements) /\ u \in Seq(Elements)
      BY DEF Stacks
  <2> QED BY ONLY <2>1, JoinEntries, LenProperties
<1> DEFINE r == s \o u
<1> DEFINE j == Len(u) - i
<1>2. j \in 1 .. Len(u) /\ Len(s) + Len(u) - i = Len(s) + j
    BY <1>1
<1>3. Len(r) - i = Len(s) + j
    BY <1>1, <1>2
<1>4. r[Len(s) + j] = u[j]
    BY <1>1, <1>2
<1> HIDE DEF r, j
<1>5. From(r, i) = u[j]
    BY <1>3, <1>4 DEF From
<1> QED BY <1>5 DEF r, j

(* What a multisig check of k keys consumes is the null dummy, the         *)
(* signatures, their number, the keys and their number.                    *)
LEMMA RunMultisig ==
    ASSUME NEW p, Reads(p, "CHECKMULTISIGVERIFY"), NEW s \in Stacks, NEW u \in Stacks,
           NEW k \in Nat \ {0}, Len(u) = 2 * k + 3, u[2 * k + 3] = Num(k), u[k + 2] = Num(k),
           NEW a, NEW b, On(b), Trace[p] = State(s \o u, a, b)
    PROVE  IF Matching(u, k) THEN Trace[p + 1] = State(s, a, b) ELSE Rejected(p + 1)
<1> DEFINE r == s \o u
<1> DEFINE m == State(r, a, b)
<1>0. Trace[p] = State(r, a, b)
    OBVIOUS
<1>1. /\ r \in Seq(Elements) /\ Len(r) = Len(s) + (2 * k + 3) /\ Len(s) \in Nat
      /\ \A j \in 1 .. Len(s) : r[j] = s[j]
  <2>1. s \in Seq(Elements) /\ u \in Seq(Elements)
      BY DEF Stacks
  <2>2. /\ s \o u \in Seq(Elements) /\ Len(s \o u) = Len(s) + Len(u) /\ Len(s) \in Nat
        /\ \A j \in 1 .. Len(s) : (s \o u)[j] = s[j]
      BY ONLY <2>1, JoinEntries, LenProperties
  <2> QED BY <2>2
<1>2. \A i \in 0 .. 2 * k + 2 : From(r, i) = u[2 * k + 3 - i]
  <2> TAKE i \in 0 .. 2 * k + 2
  <2>1. i \in 0 .. Len(u) - 1
      OBVIOUS
  <2> QED BY <2>1, FromIs
<1>4. SubSeq(r, 1, Len(s)) = s
  <2> HIDE DEF r
  <2>1. \A j \in 1 .. Len(s) : r[j] \in Elements
    <3> TAKE j \in 1 .. Len(s)
    <3>1. j \in 1 .. Len(r)
        BY <1>1
    <3> QED BY <1>1, <3>1, ElementOfSeq
  <2>2. 1 \in Int /\ Len(s) \in Int
      BY <1>1
  <2>3. /\ SubSeq(r, 1, Len(s)) \in Seq(Elements)
        /\ Len(SubSeq(r, 1, Len(s))) = IF 1 <= Len(s) THEN Len(s) - 1 + 1 ELSE 0
        /\ \A j \in 1 .. Len(s) - 1 + 1 : SubSeq(r, 1, Len(s))[j] = r[1 + j - 1]
      BY ONLY <2>1, <2>2, SubSeqProperties
  <2>4. Len(SubSeq(r, 1, Len(s))) = Len(s)
      BY <1>1, <2>3
  <2>5. \A j \in 1 .. Len(s) : SubSeq(r, 1, Len(s))[j] = s[j]
    <3> TAKE j \in 1 .. Len(s)
    <3>1. j \in 1 .. Len(s) - 1 + 1 /\ 1 + j - 1 = j
        BY <1>1
    <3> QED BY <1>1, <2>3, <3>1
  <2>6. s \in Seq(Elements)
      BY DEF Stacks
  <2> QED BY <2>3, <2>4, <2>5, <2>6, SeqEqual
<1>5. m.stack = r /\ m.alt = a /\ m.taken = b
  <2> HIDE DEF r
  <2> QED BY StateIs
<1>6. Trace[p + 1] = Executed(Script[p], m)
  <2> HIDE DEF r
  <2> QED BY <1>0, Steps
<1> HIDE DEF r, m
<1>7. From(r, 0) = Num(k) /\ From(r, 0).n = k /\ From(r, 0).kind = "num"
  <2>1. 0 \in 0 .. 2 * k + 2 /\ 2 * k + 3 - 0 = 2 * k + 3
      OBVIOUS
  <2>2. From(r, 0) = Num(k)
      BY <1>2, <2>1
  <2> QED BY <2>2, NumberIs
<1>8. Fits(r)
  <2>1. k + 1 \in 0 .. 2 * k + 2 /\ 2 * k + 3 - (k + 1) = k + 2
      OBVIOUS
  <2>2. From(r, k + 1) = Num(k)
      BY <1>2, <2>1
  <2>3. Numbered(r, 1)
    <3>1. Len(r) >= 1 /\ \A i \in 0 .. 1 - 1 : i = 0
        BY <1>1
    <3> QED BY <1>7, <3>1 DEF Numbered
  <2>4. Len(r) >= 2 * k + 3 /\ k > 0
      BY <1>1
  <2> QED BY <1>7, <2>2, <2>3, <2>4 DEF Fits
<1>9. Unlocked(r) <=> Matching(u, k)
  <2>1. \A i \in 1 .. k : From(r, k + 1 + i) = u[k + 2 - i] /\ From(r, i) = u[2 * k + 3 - i]
    <3> TAKE i \in 1 .. k
    <3>1. k + 1 + i \in 0 .. 2 * k + 2 /\ i \in 0 .. 2 * k + 2
          /\ 2 * k + 3 - (k + 1 + i) = k + 2 - i
        OBVIOUS
    <3> QED BY <1>2, <3>1
  <2> DEFINE deleted == {From(r, k + 1 + i).n : i \in {j \in 1 .. k :
             From(r, k + 1 + j).kind = "dummy"}}
  <2>2. deleted = Unwanted(u, k)
      BY <2>1 DEF Unwanted
  <2>3. Unlocked(r) <=> \A i \in 1 .. k : Verifies(From(r, k + 1 + i), From(r, i), deleted)
      BY <1>7 DEF Unlocked
  <2> HIDE DEF deleted
  <2> QED BY <2>1, <2>2, <2>3 DEF Matching
<1>10. Cut(r, 2 * k + 3) = s /\ Len(r) >= 2 * k + 3
  <2> DEFINE lr == Len(r)
  <2> DEFINE ls == Len(s)
  <2> DEFINE lu == Len(u)
  <2>2. lr = ls + lu /\ ls \in Nat /\ lu = 2 * k + 3 /\ k \in Nat
      BY <1>1
  <2> HIDE DEF lr, ls, lu
  <2>3. lr - (2 * k + 3) = ls /\ lr >= 2 * k + 3
      BY ONLY <2>2
  <2>1. Len(r) - (2 * k + 3) = Len(s) /\ Len(r) >= 2 * k + 3
      BY <2>3 DEF lr, ls
  <2> QED BY <1>4, <2>1 DEF Cut
<1>11. Executed(Script[p], m) = Checked(m, 2 * k + 3, Unlocked(r), "checksig")
    BY <1>5, <1>7, <1>8 DEF Executed, Reads
<1>12. Checked(m, 2 * k + 3, Unlocked(r), "checksig") =
         IF Unlocked(r) THEN State(s, a, b) ELSE Dead("checksig")
    BY <1>5, <1>10 DEF Checked
<1>13. CASE Matching(u, k)
    BY <1>6, <1>9, <1>11, <1>12, <1>13
<1>14. CASE ~Matching(u, k)
  <2>1. Trace[p + 1] = Dead("checksig")
      BY <1>6, <1>9, <1>11, <1>12, <1>14
  <2> QED BY <1>14, <2>1, Reasons
<1> QED BY <1>13, <1>14

-----------------------------------------------------------------------------
(* The end of a table's script, the only place of a multisig check.        *)
Closing == <<PushNum(T + 1), Op("CHECKMULTISIGVERIFY"), PushNum(1)>>
Endings == Instructions \union {Op("CHECKMULTISIGVERIFY")}

(* The last three instructions.                                            *)
LEMMA ClosingIs ==
    ASSUME HorsGiven
    PROVE  /\ Closing \in Seq(Endings) /\ Len(Closing) = 3
           /\ Closing[1].op = "PUSH" /\ Closing[1].arg = Num(T + 1)
           /\ Closing[2].op = "CHECKMULTISIGVERIFY"
           /\ Closing[3].op = "PUSH" /\ Closing[3].arg = Num(1)
<1>1. T + 1 \in Int /\ 1 \in Int
    BY DEF HorsGiven
<1>2. /\ PushNum(T + 1) \in Instructions /\ PushNum(T + 1).op = "PUSH"
      /\ PushNum(T + 1).arg = Num(T + 1)
    BY <1>1, PushNumIs
<1>3. PushNum(1) \in Instructions /\ PushNum(1).op = "PUSH" /\ PushNum(1).arg = Num(1)
    BY <1>1, PushNumIs
<1>4. Op("CHECKMULTISIGVERIFY").op = "CHECKMULTISIGVERIFY"
    BY DEF Op, Instruction
<1> DEFINE x == PushNum(T + 1)
<1> DEFINE y == Op("CHECKMULTISIGVERIFY")
<1> DEFINE z == PushNum(1)
<1>5. Closing = <<x, y, z>>
    BY DEF Closing
<1>6. x \in Endings /\ y \in Endings /\ z \in Endings
    BY <1>2, <1>3 DEF Endings
<1> HIDE DEF x, y, z
<1>7. <<x, y, z>> \in Seq(Endings) /\ Len(<<x, y, z>>) = 3
    BY <1>6
<1>8. Closing[1] = x /\ Closing[2] = y /\ Closing[3] = z
    BY <1>5
<1> QED BY <1>2, <1>3, <1>4, <1>5, <1>7, <1>8 DEF x, y, z

(* The script of a table is what its compiler wrote.                       *)
LEMMA CompiledIs ==
    ASSUME HorsGiven, Script = Compile(N, T, Puzzle)
    PROVE  /\ Len(Script) \in Nat /\ DOMAIN Script = 1 .. Len(Script)
           /\ Written(Fetching(T)) /\ EndOf(Fetching(T)) \in Nat \ {0}
           /\ Block(EndOf(Fetching(T)), Closing) /\ Len(Script) = EndOf(Fetching(T)) + 2
           /\ \A k \in 1 .. Len(Script) :
                 Script[k].op = "CHECKMULTISIGVERIFY" <=> k = Len(Script) - 1
<1> DEFINE c == Fetching(T)
<1> DEFINE hi == T + 2 - T
<1> DEFINE lo == 3
<1>1. Keeps(c, lo, hi, Depths)
  <2>1. T \in 0 .. T
      BY DEF HorsGiven
  <2> QED BY <2>1, FetchingKeeps
<1>2. Script = Emit(c, Closing).script
    BY DEF Compile, Closing, Fetching
<1> HIDE DEF c, hi, lo
<1>3. /\ Closing \in Seq(Endings) /\ Len(Closing) = 3
      /\ Closing[1].op = "PUSH" /\ Closing[2].op = "CHECKMULTISIGVERIFY" /\ Closing[3].op = "PUSH"
    BY ClosingIs
<1> DEFINE u == c.script
<1> DEFINE w == Closing
<1>4. u \in Codes /\ c = [script |-> u, stack |-> c.stack]
    BY <1>1 DEF Keeps, Compilers
<1>5. Script = u \o w
    BY <1>2, <1>4 DEF Emit
<1>6. u \in Seq(Endings)
  <2>1. Instructions \subseteq Endings
      BY DEF Endings
  <2>2. u \in Seq(Instructions)
      BY <1>4 DEF Codes
  <2> HIDE DEF u
  <2>3. Len(u) \in Nat /\ u = [i \in 1 .. Len(u) |-> u[i]]
        /\ \A i \in 1 .. Len(u) : u[i] \in Endings
      BY ONLY <2>1, <2>2, ElementOfSeq, LenProperties, SeqDef
  <2> QED BY <2>3
<1> DEFINE l == Len(u)
<1>7. \A i \in 1 .. Len(u) : u[i] \in Instructions
  <2> HIDE DEF u
  <2> QED BY <1>4, ElementOfSeq DEF Codes
<1> HIDE DEF u, w
<1>8. /\ Len(Script) = l + 3 /\ l \in Nat
      /\ \A i \in 1 .. l : Script[i] = u[i]
      /\ \A i \in 1 .. 3 : Script[l + i] = w[i]
  <2>1. Len(w) = 3 /\ w \in Seq(Endings)
      BY <1>3 DEF w
  <2> DEFINE S == Endings
  <2>2. u \in Seq(S) /\ w \in Seq(S)
      BY <1>6, <2>1
  <2> HIDE DEF S
  <2>3. /\ Len(u \o w) = Len(u) + Len(w) /\ Len(u) \in Nat
        /\ \A i \in 1 .. Len(u) : (u \o w)[i] = u[i]
        /\ \A i \in 1 .. Len(w) : (u \o w)[Len(u) + i] = w[i]
      BY ONLY <2>2, JoinEntries
  <2> QED BY <1>5, <2>1, <2>3
<1> HIDE DEF l
<1>9. Block(1, u)
  <2>1. \A i \in 1 .. l : 1 + i - 1 = i
      BY <1>8
  <2> QED BY <1>8, <2>1 DEF Block, l
<1>10. Block(l + 1, w)
  <2>1. Len(w) = 3
      BY <1>3 DEF w
  <2>2. \A i \in 1 .. 3 : (l + 1) + i - 1 = l + i
      BY <1>8
  <2> QED BY <1>8, <2>1, <2>2 DEF Block
<1>11. ASSUME NEW k \in 1 .. Len(Script)
       PROVE  Script[k].op = "CHECKMULTISIGVERIFY" <=> k = Len(Script) - 1
  <2>1. CASE k <= l
    <3>1. k \in 1 .. l /\ k # Len(Script) - 1
        BY <1>8, <2>1
    <3>2. u[k] \in Instructions /\ Script[k] = u[k]
        BY <1>7, <1>8, <3>1 DEF l
    <3>3. Script[k].op # "CHECKMULTISIGVERIFY"
        BY <3>2 DEF Instructions, Plain
    <3> QED BY <3>1, <3>3
  <2>2. CASE k > l
    <3>1. k \in {l + 1, l + 2, l + 3}
        BY <1>8, <2>2
    <3>2. Script[l + 1] = w[1] /\ Script[l + 2] = w[2] /\ Script[l + 3] = w[3]
        BY <1>8
    <3>3. /\ Script[l + 1].op = "PUSH" /\ Script[l + 2].op = "CHECKMULTISIGVERIFY"
          /\ Script[l + 3].op = "PUSH"
        BY <1>3, <3>2 DEF w
    <3>4. Len(Script) - 1 = l + 2 /\ l + 1 # l + 2 /\ l + 3 # l + 2
        BY <1>8
    <3> QED BY <3>1, <3>3, <3>4
  <2>3. k <= l \/ k > l
      BY <1>8
  <2> QED BY <2>1, <2>2, <2>3
<1>13. DOMAIN Script = 1 .. Len(Script)
  <2> DEFINE S == Endings
  <2> DEFINE v == u \o w
  <2>1. v \in Seq(S)
    <3>1. u \in Seq(S) /\ w \in Seq(S)
        BY <1>3, <1>6 DEF w
    <3> HIDE DEF S
    <3>2. u \o w \in Seq(S)
        BY ONLY <3>1, ConcatProperties
    <3> QED BY <3>2
  <2> HIDE DEF S, v
  <2>2. DOMAIN v = 1 .. Len(v)
      BY <2>1, LenProperties
  <2> QED BY <1>5, <2>2 DEF v
<1>12. Len(Script) \in Nat /\ Len(Script) = (l + 1) + 2 /\ l + 1 \in Nat \ {0}
    BY <1>8
<1> QED BY <1>9, <1>10, <1>11, <1>12, <1>13 DEF u, w, l, c, Written, EndOf

(* A stack below what is pushed on the stack above it.                     *)
LEMMA JoinPush ==
    ASSUME NEW s \in Stacks, NEW w \in Stacks, NEW x \in Elements
    PROVE  s \o (w ++ x) = (s \o w) ++ x
<1>1. s \in Seq(Elements) /\ w \in Seq(Elements) /\ <<x>> \in Seq(Elements)
    BY DEF Stacks
<1>2. s \o (w \o <<x>>) = (s \o w) \o <<x>> /\ s \o w \in Seq(Elements)
    BY ONLY <1>1, ConcatAssociative, ConcatProperties
<1>3. w ++ x = w \o <<x>> /\ w ++ x \in Stacks
    BY PushedOnce, Pushed
<1> DEFINE v == s \o w
<1>4. v \in Stacks
    BY <1>2 DEF Stacks
<1> HIDE DEF v
<1>5. v \o <<x>> = v ++ x
    BY <1>4, PushedOnce
<1> QED BY <1>2, <1>3, <1>4, <1>5 DEF v

-----------------------------------------------------------------------------
(* The operands of the multisig check, bottom to top: the null dummy and   *)
(* the signatures, their number, the keys, their number.                   *)
Arranged(w, e, x, y, f, z) == ((((w \o e) ++ x) ++ y) \o f) ++ z
Lies(u, w, e, x, y, f, z, t) ==
    /\ u[2] = w[2] /\ \A i \in 1 .. t : u[2 + i] = e[i]
    /\ u[t + 3] = x /\ u[t + 4] = y
    /\ \A i \in 1 .. t : u[t + 4 + i] = f[i]
    /\ u[2 * t + 5] = z

(* Where each of them lies, and that they lie so on any stack.             *)
LEMMA ArrangedIs ==
    ASSUME NEW w \in Stacks, NEW e \in Stacks, NEW f \in Stacks, NEW x \in Elements,
           NEW y \in Elements, NEW z \in Elements, NEW t \in Nat,
           Len(w) = 2, Len(e) = t, Len(f) = t, NEW u, u = Arranged(w, e, x, y, f, z)
    PROVE  u \in Stacks /\ Len(u) = 2 * t + 5 /\ Lies(u, w, e, x, y, f, z, t)
<1> DEFINE a == w \o e
<1> DEFINE b == a ++ x
<1> DEFINE c == b ++ y
<1> DEFINE d == c \o f
<1> DEFINE g == d ++ z
<1>1. /\ a \in Stacks /\ Len(a) = t + 2 /\ a[2] = w[2] /\ \A i \in 1 .. t : a[2 + i] = e[i]
  <2>1. w \in Seq(Elements) /\ e \in Seq(Elements)
      BY DEF Stacks
  <2>2. /\ w \o e \in Seq(Elements) /\ Len(w \o e) = Len(w) + Len(e)
        /\ \A i \in 1 .. Len(w) : (w \o e)[i] = w[i]
        /\ \A i \in 1 .. Len(e) : (w \o e)[Len(w) + i] = e[i]
      BY ONLY <2>1, JoinEntries
  <2> HIDE DEF a
  <2>3. a = w \o e
      BY DEF a
  <2>4. 2 \in 1 .. Len(w)
      OBVIOUS
  <2> QED BY <2>2, <2>3, <2>4 DEF Stacks
<1> HIDE DEF a
<1>2. b \in Stacks /\ Len(b) = t + 3 /\ b[t + 3] = x /\ \A i \in 1 .. t + 2 : b[i] = a[i]
  <2>1. /\ a ++ x \in Stacks /\ Len(a ++ x) = Len(a) + 1 /\ (a ++ x)[Len(a) + 1] = x
        /\ \A i \in 1 .. Len(a) : (a ++ x)[i] = a[i]
      BY <1>1, Pushed
  <2>2. Len(a) + 1 = t + 3
      BY <1>1
  <2> QED BY <1>1, <2>1, <2>2
<1> HIDE DEF b
<1>3. c \in Stacks /\ Len(c) = t + 4 /\ c[t + 4] = y /\ \A i \in 1 .. t + 3 : c[i] = b[i]
  <2>1. /\ b ++ y \in Stacks /\ Len(b ++ y) = Len(b) + 1 /\ (b ++ y)[Len(b) + 1] = y
        /\ \A i \in 1 .. Len(b) : (b ++ y)[i] = b[i]
      BY <1>2, Pushed
  <2>2. Len(b) + 1 = t + 4
      BY <1>2
  <2> QED BY <1>2, <2>1, <2>2
<1> HIDE DEF c
<1>4. /\ d \in Stacks /\ Len(d) = 2 * t + 4 /\ \A i \in 1 .. t + 4 : d[i] = c[i]
      /\ \A i \in 1 .. t : d[t + 4 + i] = f[i]
  <2>1. c \in Seq(Elements) /\ f \in Seq(Elements)
      BY <1>3 DEF Stacks
  <2>2. /\ c \o f \in Seq(Elements) /\ Len(c \o f) = Len(c) + Len(f)
        /\ \A i \in 1 .. Len(c) : (c \o f)[i] = c[i]
        /\ \A i \in 1 .. Len(f) : (c \o f)[Len(c) + i] = f[i]
      BY ONLY <2>1, JoinEntries
  <2>3. Len(c) + Len(f) = 2 * t + 4
      BY <1>3
  <2> HIDE DEF d
  <2>4. d = c \o f
      BY DEF d
  <2> QED BY <1>3, <2>2, <2>3, <2>4 DEF Stacks
<1> HIDE DEF d
<1>5. /\ g \in Stacks /\ Len(g) = 2 * t + 5 /\ g[2 * t + 5] = z
         /\ \A i \in 1 .. 2 * t + 4 : g[i] = d[i]
  <2>1. /\ d ++ z \in Stacks /\ Len(d ++ z) = Len(d) + 1 /\ (d ++ z)[Len(d) + 1] = z
        /\ \A i \in 1 .. Len(d) : (d ++ z)[i] = d[i]
      BY <1>4, Pushed
  <2>2. Len(d) + 1 = 2 * t + 5
      BY <1>4
  <2> QED BY <1>4, <2>1, <2>2
<1> HIDE DEF g
<1>6. \A i \in 1 .. t + 2 : g[i] = a[i]
  <2> TAKE i \in 1 .. t + 2
  <2>1. i \in 1 .. 2 * t + 4 /\ i \in 1 .. t + 4 /\ i \in 1 .. t + 3
      OBVIOUS
  <2> QED BY <1>2, <1>3, <1>4, <1>5, <2>1
<1>7. g[2] = w[2]
  <2>1. 2 \in 1 .. t + 2
      OBVIOUS
  <2> QED BY <1>1, <1>6, <2>1
<1>8. \A i \in 1 .. t : g[2 + i] = e[i]
  <2> TAKE i \in 1 .. t
  <2>1. 2 + i \in 1 .. t + 2
      OBVIOUS
  <2> QED BY <1>1, <1>6, <2>1
<1>9. g[t + 3] = x
  <2>1. t + 3 \in 1 .. 2 * t + 4 /\ t + 3 \in 1 .. t + 4 /\ t + 3 \in 1 .. t + 3
      OBVIOUS
  <2> QED BY <1>2, <1>3, <1>4, <1>5, <2>1
<1>10. g[t + 4] = y
  <2>1. t + 4 \in 1 .. 2 * t + 4 /\ t + 4 \in 1 .. t + 4
      OBVIOUS
  <2> QED BY <1>3, <1>4, <1>5, <2>1
<1>11. \A i \in 1 .. t : g[t + 4 + i] = f[i]
  <2> TAKE i \in 1 .. t
  <2>1. t + 4 + i \in 1 .. 2 * t + 4
      OBVIOUS
  <2> QED BY <1>4, <1>5, <2>1
<1>12. u = g
    BY DEF Arranged, a, b, c, d, g
<1> QED BY <1>5, <1>7, <1>8, <1>9, <1>10, <1>11, <1>12 DEF Lies

-----------------------------------------------------------------------------
(* The entries whose preimages a spend discloses, and the keys it supplies *)
(* for their dummies.                                                      *)
Choice == {witness[SelectionHi(j)].n : j \in 0 .. T - 1}
KeysMatch == \A j \in 0 .. T - 1 : witness[2 + (T - j)] = DummyKey(witness[SelectionHi(j)].n)
Operands == Arranged(<<Num(0), Fixed>>, Picked(T), Num(T + 1), witness[2], Pubs(T), Num(T + 1))

(* What the multisig check finds on the stack.                             *)
LEMMA OperandsAre ==
    ASSUME HorsGiven, Chosen(T)
    PROVE  /\ Operands \in Stacks /\ Len(Operands) = 2 * T + 5
           /\ Operands[2] = Fixed
           /\ \A i \in 1 .. T : Operands[2 + i] = Dummy(witness[SelectionHi(i - 1)].n)
           /\ Operands[T + 3] = Num(T + 1) /\ Operands[T + 4] = witness[2]
           /\ \A i \in 1 .. T : Operands[T + 4 + i] = witness[2 + (T - (i - 1))]
           /\ Operands[2 * T + 5] = Num(T + 1)
<1> DEFINE w == <<Num(0), Fixed>>
<1> DEFINE e == Picked(T)
<1> DEFINE f == Pubs(T)
<1> DEFINE x == Num(T + 1)
<1> DEFINE y == witness[2]
<1>1. T \in Nat /\ T \in 0 .. T /\ y \in Elements
    BY LowNames
<1>2. w \in Stacks /\ Len(w) = 2 /\ w[2] = Fixed
    BY NumberIs, Constants DEF Stacks
<1>3. e \in Stacks /\ Len(e) = T
    BY <1>1, PickedIs
<1>4. \A i \in 1 .. T : e[i] = Dummy(witness[SelectionHi(i - 1)].n)
    BY DEF Picked
<1>5. f \in Stacks /\ Len(f) = T /\ \A i \in 1 .. T : f[i] = witness[2 + (T - (i - 1))]
    BY <1>1, PubsAre
<1>6. x \in Elements
    BY <1>1, NumberIs
<1>7. Operands = Arranged(w, e, x, y, f, x)
    BY DEF Operands
<1> HIDE DEF w, e, f, x, y
<1> DEFINE g == Arranged(w, e, x, y, f, x)
<1>8. /\ g \in Stacks /\ Len(g) = 2 * T + 5 /\ g[2] = w[2] /\ \A i \in 1 .. T : g[2 + i] = e[i]
      /\ g[T + 3] = x /\ g[T + 4] = y /\ \A i \in 1 .. T : g[T + 4 + i] = f[i]
      /\ g[2 * T + 5] = x
  <2> DEFINE t == T
  <2>1. /\ t \in Nat /\ w \in Stacks /\ Len(w) = 2 /\ e \in Stacks /\ Len(e) = t
        /\ f \in Stacks /\ Len(f) = t /\ x \in Elements /\ y \in Elements
        /\ g = Arranged(w, e, x, y, f, x)
      BY <1>1, <1>2, <1>3, <1>5, <1>6
  <2> HIDE DEF t, g
  <2>2. g \in Stacks /\ Len(g) = 2 * t + 5 /\ Lies(g, w, e, x, y, f, x, t)
      BY ONLY <2>1, ArrangedIs
  <2> QED BY <2>2 DEF t, Lies
<1> HIDE DEF g
<1>9. Operands = g
    BY <1>7 DEF g
<1>10. \A i \in 1 .. T : g[2 + i] = Dummy(witness[SelectionHi(i - 1)].n)
    BY <1>4, <1>8
<1>11. \A i \in 1 .. T : g[T + 4 + i] = witness[2 + (T - (i - 1))]
    BY <1>5, <1>8
<1> QED BY <1>2, <1>8, <1>9, <1>10, <1>11 DEF x, y

(* The multisig check passes if the digest key is recovered without        *)
(* exactly the chosen dummies and each key is that of its dummy.           *)
LEMMA MatchingIs ==
    ASSUME HorsGiven, Chosen(T)
    PROVE  Matching(Operands, T + 1) <=> Verifies(Fixed, witness[2], Choice) /\ KeysMatch
<1> DEFINE u == Operands
<1> DEFINE k == T + 1
<1> DEFINE d(j) == witness[SelectionHi(j)].n
<1>1. T \in Nat \ {0} /\ N \in Nat
    BY LowNames
<1>2. \A j \in 0 .. T - 1 : d(j) \in Int
    BY DEF Chosen, Chooses
<1>3. /\ u[2] = Fixed /\ u[T + 4] = witness[2]
      /\ \A i \in 1 .. T : u[2 + i] = Dummy(d(i - 1))
      /\ \A i \in 1 .. T : u[T + 4 + i] = witness[2 + (T - (i - 1))]
    BY OperandsAre
<1> HIDE DEF u
<1>4. u[k + 2 - k] = Fixed /\ u[2 * k + 3 - k] = witness[2]
  <2>1. k + 2 - k = 2 /\ 2 * k + 3 - k = T + 4
      BY <1>1
  <2> QED BY <1>3, <2>1
<1>5. \A i \in 1 .. T : /\ u[k + 2 - i] = Dummy(d(T - i)) /\ T - i \in 0 .. T - 1
                        /\ u[2 * k + 3 - i] = witness[2 + (T - (T - i))]
  <2> TAKE i \in 1 .. T
  <2> HIDE DEF d
  <2> DEFINE h == T + 1 - i
  <2>1. /\ h \in 1 .. T /\ 2 + h = k + 2 - i /\ T + 4 + h = 2 * k + 3 - i /\ h - 1 = T - i
        /\ T - i \in 0 .. T - 1
      BY <1>1
  <2> HIDE DEF h, k
  <2>2. u[2 + h] = Dummy(d(h - 1)) /\ u[T + 4 + h] = witness[2 + (T - (h - 1))]
      BY <1>3, <2>1
  <2> QED BY <2>1, <2>2
<1>6. \A i \in 1 .. k : i = k \/ i \in 1 .. T
    BY <1>1
<1>7. k \in 1 .. k /\ \A i \in 1 .. T : i \in 1 .. k
    BY <1>1
<1>8. \A n \in Int : Dummy(n).kind = "dummy" /\ Dummy(n).n = n
  <2> TAKE n \in Int
  <2>1. "dummy" \in Kinds /\ {} \in SUBSET Int
      BY DEF Kinds
  <2> QED BY <2>1, ElementIs DEF Dummy
<1>9. Fixed.kind # "dummy"
    BY Constants
<1>10. \A j \in 0 .. T - 1 : T - j \in 1 .. T /\ T - (T - j) = j
    BY <1>1
<1> HIDE DEF k, d
<1>11. Unwanted(u, k) = Choice
  <2>1. ASSUME NEW n \in Unwanted(u, k)
        PROVE  n \in Choice
    <3>1. PICK i \in 1 .. k : u[k + 2 - i].kind = "dummy" /\ n = u[k + 2 - i].n
        BY <2>1 DEF Unwanted
    <3>2. i \in 1 .. T
        BY <1>4, <1>6, <1>9, <3>1
    <3>3. n = d(T - i) /\ T - i \in 0 .. T - 1
        BY <1>2, <1>5, <1>8, <3>1, <3>2
    <3> QED BY <3>3 DEF Choice, d
  <2>2. ASSUME NEW n \in Choice
        PROVE  n \in Unwanted(u, k)
    <3>1. PICK j \in 0 .. T - 1 : n = d(j)
        BY <2>2 DEF Choice, d
    <3> DEFINE i == T - j
    <3>2. i \in 1 .. T /\ T - i = j /\ i \in 1 .. k
        BY <1>7, <1>10
    <3> HIDE DEF i
    <3>3. u[k + 2 - i] = Dummy(n) /\ n \in Int
        BY <1>2, <1>5, <3>1, <3>2
    <3>4. u[k + 2 - i].kind = "dummy" /\ n = u[k + 2 - i].n
        BY <1>8, <3>3
    <3> QED BY <3>2, <3>4 DEF Unwanted
  <2> QED BY <2>1, <2>2
<1>12. Matching(u, k) <=> \A i \in 1 .. k : Verifies(u[k + 2 - i], u[2 * k + 3 - i], Choice)
    BY <1>11 DEF Matching
<1>13. ASSUME NEW i \in 1 .. T
       PROVE  Verifies(u[k + 2 - i], u[2 * k + 3 - i], Choice) <=>
                witness[2 + (T - (T - i))] = DummyKey(d(T - i))
  <2>1. d(T - i) \in Int
      BY <1>2, <1>5
  <2> DEFINE n == d(T - i)
  <2> HIDE DEF n
  <2>2. n \in Int /\ u[k + 2 - i] = Dummy(n)
      BY <1>5, <2>1 DEF n
  <2>3. Verifies(Dummy(n), u[2 * k + 3 - i], Choice) <=> u[2 * k + 3 - i] = DummyKey(n)
      BY <2>2, DummyVerifies
  <2> QED BY <1>5, <2>2, <2>3 DEF n
<1>14. KeysMatch <=> \A i \in 1 .. T : witness[2 + (T - (T - i))] = DummyKey(d(T - i))
  <2>1. KeysMatch <=> \A j \in 0 .. T - 1 : witness[2 + (T - j)] = DummyKey(d(j))
      BY DEF KeysMatch, d
  <2>2. \A i \in 1 .. T : T - i \in 0 .. T - 1
      BY <1>5
  <2>3. ASSUME KeysMatch, NEW i \in 1 .. T
        PROVE  witness[2 + (T - (T - i))] = DummyKey(d(T - i))
      BY <2>1, <2>2, <2>3
  <2>4. ASSUME \A i \in 1 .. T : witness[2 + (T - (T - i))] = DummyKey(d(T - i)),
               NEW j \in 0 .. T - 1
        PROVE  witness[2 + (T - j)] = DummyKey(d(j))
    <3> DEFINE i == T - j
    <3>1. i \in 1 .. T /\ T - i = j
        BY <1>10
    <3> HIDE DEF i
    <3>2. witness[2 + (T - (T - i))] = DummyKey(d(T - i))
        BY <2>4, <3>1
    <3> QED BY <3>1, <3>2
  <2> QED BY <2>1, <2>3, <2>4
<1> DEFINE P(i) == Verifies(u[k + 2 - i], u[2 * k + 3 - i], Choice)
<1> DEFINE Q(i) == witness[2 + (T - (T - i))] = DummyKey(d(T - i))
<1>15. (\A i \in 1 .. k : P(i)) <=> P(k) /\ \A i \in 1 .. T : P(i)
  <2> HIDE DEF P
  <2> QED BY <1>6, <1>7
<1>16. P(k) <=> Verifies(Fixed, witness[2], Choice)
    BY <1>4
<1>17. \A i \in 1 .. T : P(i) <=> Q(i)
    BY <1>13
<1>18. (\A i \in 1 .. T : P(i)) <=> KeysMatch
  <2>1. KeysMatch <=> \A i \in 1 .. T : Q(i)
      BY <1>14
  <2> HIDE DEF P, Q
  <2> QED BY <1>17, <2>1
<1>19. Matching(u, k) <=> \A i \in 1 .. k : P(i)
    BY <1>12
<1> HIDE DEF P
<1> QED BY <1>15, <1>16, <1>18, <1>19 DEF u, k

(* The stages of compile() stand one behind another in the script.         *)
LEMMA StagesWritten ==
    ASSUME HorsGiven, Script = Compile(N, T, Puzzle)
    PROVE  /\ Written(Fetching(T)) /\ Written(SigsCounted(N, T, Puzzle))
           /\ Written(Signatures(N, T, Puzzle)) /\ Written(Choosing(T))
           /\ Written(Tabled(N, T, Puzzle)) /\ Written(Pinned(T, Puzzle))
           /\ Choosing(0) = Tabled(N, T, Puzzle) /\ Fetching(0) = SigsCounted(N, T, Puzzle)
           /\ EndOf(Pinned(T, Puzzle)) \in 1 .. Len(Script) + 1
           /\ EndOf(Choosing(T)) \in 1 .. Len(Script) + 1
           /\ EndOf(Fetching(T)) \in 1 .. Len(Script) + 1
<1>1. T \in Nat \ {0} /\ 0 \in 0 .. T /\ 0 \in Nat
    BY LowNames
<1>2. Written(Fetching(T)) /\ EndOf(Fetching(T)) \in Nat \ {0}
      /\ Len(Script) = EndOf(Fetching(T)) + 2
    BY CompiledIs
<1>3. Written(Fetching(0)) /\ Fetching(0) = SigsCounted(N, T, Puzzle)
    BY <1>1, <1>2, AllFetched, FetchingStarts
<1>4. Written(Posed)
    BY <1>3, CountedKeeps
<1>5. Written(Signatures(N, T, Puzzle))
    BY <1>4, PosedWritten
<1>6. /\ Written(Stashed(N, T, Puzzle))
      /\ EndOf(Stashed(N, T, Puzzle)) \in Nat
    BY <1>5, SignaturesKeep
<1>7. /\ Written(Choosing(T)) /\ EndOf(Choosing(T)) \in Nat \ {0}
      /\ EndOf(Stashed(N, T, Puzzle)) = EndOf(Choosing(T)) + 2 + T
      /\ EndOf(Stashed(N, T, Puzzle)) \in 1 .. Len(Script) + 1
    BY <1>6, StashedKeeps
<1>8. Written(Choosing(0)) /\ Choosing(0) = Tabled(N, T, Puzzle)
    BY <1>1, <1>7, AllWritten, ChoosingNext
<1>9. Written(Pinned(T, Puzzle))
    BY <1>8, TabledKeeps
<1>10. EndOf(Pinned(T, Puzzle)) \in 1 .. Len(Script) + 1
    BY <1>9, PinnedKeeps
<1>11. Len(Script) \in Nat
    BY CompiledIs
<1> DEFINE p == EndOf(Choosing(T))
<1> DEFINE q == EndOf(Stashed(N, T, Puzzle))
<1> DEFINE o == EndOf(Fetching(T))
<1>12. p \in Nat \ {0} /\ q = p + 2 + T /\ q \in 1 .. Len(Script) + 1 /\ o \in Nat \ {0}
       /\ Len(Script) = o + 2
    BY <1>2, <1>7
<1> HIDE DEF p, q, o
<1>13. p \in 1 .. Len(Script) + 1 /\ o \in 1 .. Len(Script) + 1
    BY ONLY <1>1, <1>11, <1>12
<1> QED BY <1>2, <1>3, <1>5, <1>7, <1>8, <1>9, <1>10, <1>13 DEF p, o

(* What the machine makes of a table's script: it stops inside, but never  *)
(* for want of an operand, or it ends with the table and the result.       *)
Unlocks ==
    /\ Passes(witness[3 * T + 4], witness[3 * T + 3], {})
    /\ Chosen(T)
    /\ Solved(witness[2], witness[1])
    /\ Verifies(Fixed, witness[2], Choice) /\ KeysMatch

(* The stack before the keys are fetched.                                  *)
SigsUp == (Entries(N) ++ Num(0) ++ Fixed) \o Picked(T)

(* The stack below the keys.                                               *)
LEMMA SigsUpIs ==
    ASSUME HorsGiven, Chosen(T)
    PROVE  /\ SigsUp \in Stacks /\ Len(SigsUp) = 2 * N + 2 + T
           /\ SigsUp ++ Num(T + 1) ++ witness[2] \in Stacks
           /\ Len(SigsUp ++ Num(T + 1) ++ witness[2]) = 2 * N + 4 + T
           /\ Entries(N) \o Operands = ((SigsUp ++ Num(T + 1) ++ witness[2]) \o Pubs(T)) ++ Num(T + 1)
<1>1. T \in Nat /\ T \in 0 .. T /\ N \in Nat /\ witness[2] \in Elements
    BY LowNames
<1> DEFINE s == Entries(N)
<1> DEFINE e == Picked(T)
<1> DEFINE f == Pubs(T)
<1> DEFINE x == Num(T + 1)
<1> DEFINE y == witness[2]
<1> DEFINE z == Num(0)
<1> DEFINE w == <<z, Fixed>>
<1>2. /\ s \in Stacks /\ Len(s) = 2 * N /\ e \in Stacks /\ Len(e) = T /\ f \in Stacks
      /\ x \in Elements /\ y \in Elements /\ z \in Elements /\ Fixed \in Elements
    BY <1>1, EntriesAre, PickedIs, PubsAre, NumberIs, Constants
<1>3. Operands = Arranged(w, e, x, y, f, x)
    BY DEF Operands
<1>4. SigsUp = (s ++ z ++ Fixed) \o e
    BY DEF SigsUp
<1> HIDE DEF s, e, f, x, y, z
<1>5. w \in Stacks /\ s \o w = s ++ z ++ Fixed
  <2>1. w \in Stacks
      BY <1>2 DEF Stacks
  <2> QED BY <1>2, <2>1, PushedTwice
<1>6. s \o Operands = Arranged(s \o w, e, x, y, f, x)
  <2> HIDE DEF w
  <2>1. /\ s \in Stacks /\ w \in Stacks /\ e \in Stacks /\ f \in Stacks
        /\ x \in Elements /\ y \in Elements
      BY <1>2, <1>5
  <2> DEFINE a == w \o e
  <2> DEFINE b == a ++ x
  <2> DEFINE c == b ++ y
  <2> DEFINE d == c \o f
  <2>2. a \in Stacks /\ s \o a = (s \o w) \o e
    <3>1. s \in Seq(Elements) /\ w \in Seq(Elements) /\ e \in Seq(Elements)
        BY <2>1 DEF Stacks
    <3>2. s \o (w \o e) = (s \o w) \o e
        BY ONLY <3>1, ConcatAssociative
    <3>3. w \o e \in Seq(Elements)
        BY ONLY <3>1, ConcatProperties
    <3> QED BY <3>2, <3>3 DEF Stacks
  <2> HIDE DEF a
  <2>3. b \in Stacks /\ s \o b = (s \o a) ++ x
    <3>1. b \in Stacks
        BY <2>1, <2>2, Grows
    <3>2. s \o (a ++ x) = (s \o a) ++ x
        BY ONLY <2>1, <2>2, JoinPush
    <3> QED BY <3>1, <3>2
  <2> HIDE DEF b
  <2>4. c \in Stacks /\ s \o c = (s \o b) ++ y
    <3>1. c \in Stacks
        BY <2>1, <2>3, Grows
    <3>2. s \o (b ++ y) = (s \o b) ++ y
        BY ONLY <2>1, <2>3, JoinPush
    <3> QED BY <3>1, <3>2
  <2> HIDE DEF c
  <2>5. d \in Stacks /\ s \o d = (s \o c) \o f
    <3>1. s \in Seq(Elements) /\ c \in Seq(Elements) /\ f \in Seq(Elements)
        BY <2>1, <2>4 DEF Stacks
    <3>2. s \o (c \o f) = (s \o c) \o f
        BY ONLY <3>1, ConcatAssociative
    <3>3. c \o f \in Seq(Elements)
        BY ONLY <3>1, ConcatProperties
    <3> QED BY <3>2, <3>3 DEF Stacks
  <2> HIDE DEF d
  <2>6. s \o (d ++ x) = (s \o d) ++ x
      BY ONLY <2>1, <2>5, JoinPush
  <2>7. Arranged(w, e, x, y, f, x) = d ++ x
      BY DEF Arranged, a, b, c, d
  <2>8. Arranged(s \o w, e, x, y, f, x) = (((((s \o w) \o e) ++ x) ++ y) \o f) ++ x
      BY DEF Arranged
  <2> QED BY <1>3, <2>2, <2>3, <2>4, <2>5, <2>6, <2>7, <2>8
<1> DEFINE v == s ++ z ++ Fixed
<1>7. v \in Stacks /\ Len(v) = 2 * N + 2
  <2>1. s \in Stacks /\ z \in Elements /\ Fixed \in Elements
      BY <1>2
  <2>2. v \in Stacks /\ Len(v) = Len(s) + 2
      BY ONLY <2>1, PushedTwo
  <2> QED BY <1>2, <2>2
<1> HIDE DEF v, w
<1>8. SigsUp = v \o e
    BY <1>4 DEF v
<1>9. v \o e \in Stacks /\ Len(v \o e) = 2 * N + 2 + T
  <2>1. v \in Seq(Elements) /\ e \in Seq(Elements)
      BY <1>2, <1>7 DEF Stacks
  <2>2. v \o e \in Seq(Elements) /\ Len(v \o e) = Len(v) + Len(e)
      BY ONLY <2>1, ConcatProperties
  <2>3. v \o e \in Stacks
      BY <2>2 DEF Stacks
  <2> QED BY <1>2, <1>7, <2>2, <2>3
<1>10. SigsUp \in Stacks /\ Len(SigsUp) = 2 * N + 2 + T
    BY <1>8, <1>9
<1>11. SigsUp ++ x ++ y \in Stacks /\ Len(SigsUp ++ x ++ y) = 2 * N + 4 + T
  <2> DEFINE r == SigsUp
  <2>1. r \in Stacks /\ Len(r) = 2 * N + 2 + T /\ x \in Elements /\ y \in Elements
      BY <1>2, <1>10
  <2> HIDE DEF r
  <2>5. r \in Stacks /\ x \in Elements /\ y \in Elements
      BY <2>1
  <2>2. r ++ x ++ y \in Stacks /\ Len(r ++ x ++ y) = Len(r) + 2
      BY ONLY <2>5, PushedTwo
  <2>3. (2 * N + 2 + T) + 2 = 2 * N + 4 + T
      BY <1>1
  <2>4. r ++ x ++ y \in Stacks /\ Len(r ++ x ++ y) = 2 * N + 4 + T
      BY <2>1, <2>2, <2>3
  <2> QED BY <2>4 DEF r
<1>12. s \o Operands = ((SigsUp ++ x ++ y) \o f) ++ x
    BY <1>5, <1>6, <1>8 DEF Arranged, v
<1> QED BY <1>10, <1>11, <1>12 DEF s, f, x, y

(* The last stage: all signatures are verified at once.                    *)
LEMMA ClosingRuns ==
    ASSUME HorsGiven, Script = Compile(N, T, Puzzle), Chosen(T),
           Trace[EndOf(Fetching(T))] =
             State((SigsUp ++ Num(T + 1) ++ witness[2]) \o Pubs(T), <<>>, <<>>)
    PROVE  IF Verifies(Fixed, witness[2], Choice) /\ KeysMatch
           THEN Trace[Len(Script) + 1] = State(Entries(N) ++ Num(1), <<>>, <<>>)
           ELSE Rejected(Len(Script) + 1)
<1> DEFINE p == EndOf(Fetching(T))
<1> DEFINE v == (SigsUp ++ Num(T + 1) ++ witness[2]) \o Pubs(T)
<1> DEFINE s == Entries(N)
<1> DEFINE u == Operands
<1> DEFINE x == Num(T + 1)
<1> DEFINE none == <<>>
<1> DEFINE k == T + 1
<1> DEFINE good == Verifies(Fixed, witness[2], Choice) /\ KeysMatch
<1>1. T \in Nat /\ T \in 0 .. T /\ N \in Nat
    BY LowNames
<1>2. Block(p, Closing) /\ p \in Nat \ {0} /\ Len(Script) = p + 2 /\ Len(Script) \in Nat
    BY CompiledIs
<1>3. /\ Len(Closing) = 3 /\ Closing[1].op = "PUSH" /\ Closing[1].arg = Num(T + 1)
      /\ Closing[2].op = "CHECKMULTISIGVERIFY"
      /\ Closing[3].op = "PUSH" /\ Closing[3].arg = Num(1)
    BY ClosingIs
<1>4. v \in Stacks
  <2> DEFINE w == SigsUp ++ Num(T + 1) ++ witness[2]
  <2> DEFINE f == Pubs(T)
  <2>1. w \in Stacks /\ f \in Stacks
      BY <1>1, SigsUpIs, PubsAre
  <2> HIDE DEF w, f
  <2>2. w \in Seq(Elements) /\ f \in Seq(Elements)
      BY <2>1 DEF Stacks
  <2>3. w \o f \in Seq(Elements)
      BY ONLY <2>2, ConcatProperties
  <2> QED BY <2>3 DEF Stacks, w, f
<1>5. /\ u \in Stacks /\ Len(u) = 2 * T + 5 /\ u[T + 3] = x /\ u[2 * T + 5] = x
      /\ s \o u = v ++ x
    BY OperandsAre, SigsUpIs
<1>6. x \in Elements /\ Num(1) \in Elements /\ s \in Stacks /\ x = Num(k)
    BY <1>1, NumberIs, EntriesAre
<1>7. Matching(u, k) <=> good
    BY MatchingIs
<1>8. On(none)
    BY NoneOn
<1>9. Trace[p] = State(v, none, none)
    OBVIOUS
<1>10. Len(Script) \in Nat
    BY <1>2
<1>20. k \in Nat \ {0} /\ 2 * k + 3 = 2 * T + 5 /\ k + 2 = T + 3
    BY <1>1
<1> HIDE DEF p, v, s, u, x, none, k, good
<1>11. /\ Reads(p, "PUSH") /\ Script[p].arg = x /\ Reads(p + 1, "CHECKMULTISIGVERIFY")
       /\ Reads(p + 2, "PUSH") /\ Script[p + 2].arg = Num(1)
  <2>1. /\ 1 \in 1 .. Len(Closing) /\ 2 \in 1 .. Len(Closing) /\ 3 \in 1 .. Len(Closing)
        /\ p = p + 1 - 1 /\ p + 1 = p + 2 - 1 /\ p + 2 = p + 3 - 1
      BY <1>2, <1>3
  <2> DEFINE code == Closing
  <2>2. Block(p, code)
      BY <1>2
  <2> HIDE DEF code
  <2>3. \A i \in 1 .. Len(code) : \A q : q = p + i - 1 => Script[q] = code[i]
        /\ Reads(q, code[i].op)
      BY <2>2, BlockReads
  <2> QED BY <1>3, <2>1, <2>3 DEF code, x
<1>12. Trace[p + 1] = State(s \o u, none, none)
  <2>1. Trace[p + 1] = State(v ++ x, none, none)
      BY <1>4, <1>6, <1>8, <1>9, <1>11, RunPush
  <2> QED BY <1>5, <2>1
<1> DEFINE q == p + 1
<1>13. IF good THEN Trace[q + 1] = State(s, none, none) ELSE Rejected(q + 1)
  <2>1. /\ Reads(q, "CHECKMULTISIGVERIFY") /\ s \in Stacks /\ u \in Stacks /\ k \in Nat \ {0}
        /\ Len(u) = 2 * k + 3 /\ u[2 * k + 3] = Num(k) /\ u[k + 2] = Num(k)
        /\ On(none) /\ Trace[q] = State(s \o u, none, none)
      BY <1>5, <1>6, <1>8, <1>11, <1>12, <1>20
  <2> HIDE DEF q
  <2>2. IF Matching(u, k) THEN Trace[q + 1] = State(s, none, none) ELSE Rejected(q + 1)
      BY ONLY <2>1, RunMultisig
  <2> QED BY <1>7, <2>2
<1> DEFINE o == p + 2
<1>14. q + 1 = o /\ o + 1 = Len(Script) + 1 /\ o = Len(Script)
    BY <1>2
<1>15. CASE good
  <2>1. Trace[o] = State(s, none, none) /\ Reads(o, "PUSH") /\ Script[o].arg = Num(1)
      BY <1>11, <1>13, <1>14, <1>15
  <2> HIDE DEF o
  <2>2. Trace[o + 1] = State(s ++ Num(1), none, none)
      BY <1>6, <1>8, <2>1, RunPush
  <2> QED BY <1>14, <1>15, <2>2 DEF s, none, good
<1>16. CASE ~good
  <2>1. Rejected(o)
      BY <1>13, <1>14, <1>16
  <2> HIDE DEF o
  <2>2. o \in 1 .. Len(Script) + 1 /\ Len(Script) + 1 \in o .. Len(Script) + 1
    <3>1. o \in Nat /\ o >= 1
        BY <1>2 DEF o
    <3> QED BY <1>14, <3>1
  <2> DEFINE e == Len(Script) + 1
  <2>3. e \in o .. Len(Script) + 1
      BY <2>2
  <2> HIDE DEF e
  <2>4. Rejected(e)
      BY <1>10, <2>1, <2>2, <2>3, RejectedStays
  <2> QED BY <1>16, <2>4 DEF e, good
<1> QED BY <1>15, <1>16

(* Where an execution is rejected, the script's end does not see it.       *)
LEMMA RejectedAtEnd ==
    ASSUME Len(Script) \in Nat, NEW p \in 1 .. Len(Script) + 1, Rejected(p)
    PROVE  Rejected(Len(Script) + 1)
<1> DEFINE e == Len(Script) + 1
<1>1. e \in p .. Len(Script) + 1
    OBVIOUS
<1> HIDE DEF e
<1>2. Rejected(e)
    BY <1>1, RejectedStays
<1> QED BY <1>2 DEF e

(* An authorised spend runs to the table and the result, any other is      *)
(* rejected on the way.                                                    *)
LEMMA HorsRuns ==
    ASSUME HorsGiven, Script = Compile(N, T, Puzzle)
    PROVE  IF Unlocks
           THEN /\ Trace[EndOf(Fetching(T))] =
                     State((SigsUp ++ Num(T + 1) ++ witness[2]) \o Pubs(T), <<>>, <<>>)
                /\ Trace[Len(Script) + 1] = State(Entries(N) ++ Num(1), <<>>, <<>>)
           ELSE Rejected(Len(Script) + 1)
<1>1. /\ Written(Fetching(T)) /\ Written(SigsCounted(N, T, Puzzle))
      /\ Written(Signatures(N, T, Puzzle)) /\ Written(Choosing(T))
      /\ Written(Tabled(N, T, Puzzle)) /\ Written(Pinned(T, Puzzle))
      /\ Choosing(0) = Tabled(N, T, Puzzle) /\ Fetching(0) = SigsCounted(N, T, Puzzle)
      /\ EndOf(Pinned(T, Puzzle)) \in 1 .. Len(Script) + 1
      /\ EndOf(Choosing(T)) \in 1 .. Len(Script) + 1
      /\ EndOf(Fetching(T)) \in 1 .. Len(Script) + 1
    BY StagesWritten
<1>2. T \in Nat \ {0} /\ T \in 0 .. T /\ N \in Nat
    BY LowNames
<1>3. Len(Script) \in Nat
    BY CompiledIs
<1> DEFINE pinned == Passes(witness[3 * T + 4], witness[3 * T + 3], {})
<1> DEFINE solved == Solved(witness[2], witness[1])
<1> DEFINE last == Verifies(Fixed, witness[2], Choice) /\ KeysMatch
<1>4. Unlocks <=> pinned /\ Chosen(T) /\ solved /\ last
    BY DEF Unlocks
<1>5. CASE ~pinned
  <2>1. Rejected(EndOf(Pinned(T, Puzzle)))
      BY <1>1, <1>5, PinnedRuns
  <2>2. Rejected(Len(Script) + 1)
      BY <1>1, <1>3, <2>1, RejectedAtEnd
  <2> HIDE DEF pinned
  <2> QED BY <1>4, <1>5, <2>2
<1>6. ASSUME pinned
      PROVE  IF Chosen(T) THEN Trace[EndOf(Choosing(T))] =
                                 State(Under(1, SelectionHi(T), Entries(N) \o Picked(T)),
                                       <<>> ++ Before(T), <<>>)
                          ELSE Rejected(EndOf(Choosing(T)))
  <2>1. Trace[EndOf(Pinned(T, Puzzle))] = State(Under(1, 3 * T + 2, <<>>), <<>>, <<>>)
      BY <1>1, <1>6, PinnedRuns
  <2>2. Trace[EndOf(Choosing(0))] =
          State(Under(1, 3 * T + 2, Entries(N)), <<>> ++ Num(-1), <<>>)
      BY <1>1, <2>1, TabledRuns
  <2> QED BY <1>1, <1>2, <2>2, ChoosingRuns
<1>7. CASE pinned /\ ~Chosen(T)
  <2>1. Rejected(EndOf(Choosing(T)))
      BY <1>6, <1>7
  <2>2. Rejected(Len(Script) + 1)
      BY <1>1, <1>3, <2>1, RejectedAtEnd
  <2> HIDE DEF pinned
  <2> QED BY <1>4, <1>7, <2>2
<1>8. CASE pinned /\ Chosen(T)
  <2>1. Trace[EndOf(Choosing(T))] =
          State(Under(1, SelectionHi(T), Entries(N) \o Picked(T)), <<>> ++ Before(T), <<>>)
      BY <1>6, <1>8
  <2>2. SelectionHi(T) = T + 2
      BY <1>2 DEF SelectionHi
  <2>3. Entries(N) \in Stacks /\ Picked(T) \in Stacks /\ Len(Picked(T)) = T
        /\ Before(T) \in Elements
      BY <1>2, <1>8, EntriesAre, PickedIs
  <2>4. Trace[EndOf(Signatures(N, T, Puzzle))] = State(Under(1, T + 2, SigsUp), <<>>, <<>>)
    <3> DEFINE r == Entries(N)
    <3> DEFINE e == Picked(T)
    <3> DEFINE y == Before(T)
    <3>1. /\ HorsGiven /\ Written(Signatures(N, T, Puzzle)) /\ r \in Stacks /\ e \in Stacks
          /\ Len(e) = T /\ y \in Elements
          /\ Trace[EndOf(Choosing(T))] = State(Under(1, T + 2, r \o e), <<>> ++ y, <<>>)
        BY <1>1, <2>1, <2>2, <2>3
    <3> HIDE DEF r, e, y
    <3>2. Trace[EndOf(Signatures(N, T, Puzzle))] =
            State(Under(1, T + 2, (r ++ Num(0) ++ Fixed) \o e), <<>>, <<>>)
        BY ONLY <3>1, SignaturesRun
    <3> QED BY <3>2 DEF SigsUp, r, e
  <2> DEFINE w == SigsUp ++ Num(T + 1) ++ witness[2]
  <2>5. /\ SigsUp \in Stacks /\ Len(SigsUp) = 2 * N + 2 + T
        /\ w \in Stacks /\ Len(w) = 2 * N + 4 + T
      BY <1>8, SigsUpIs
  <2> DEFINE none == <<>>
  <2>6. IF solved THEN Trace[EndOf(Fetching(0))] = State(Under(3, T + 2, w), none, <<>>)
                  ELSE Rejected(EndOf(Fetching(0)))
    <3> DEFINE r == SigsUp
    <3>1. /\ HorsGiven /\ Written(SigsCounted(N, T, Puzzle)) /\ r \in Stacks
          /\ Len(r) = 2 * N + 2 + T
          /\ Trace[EndOf(Signatures(N, T, Puzzle))] = State(Under(1, T + 2, r), none, <<>>)
        BY <1>1, <2>4, <2>5
    <3> HIDE DEF r, none
    <3>2. IF Solved(witness[2], witness[1])
          THEN Trace[EndOf(SigsCounted(N, T, Puzzle))] =
                 State(Under(3, T + 2, r ++ Num(T + 1) ++ witness[2]), none, <<>>)
          ELSE Rejected(EndOf(SigsCounted(N, T, Puzzle)))
        BY ONLY <3>1, CountedRuns
    <3> QED BY <1>1, <3>2 DEF r
  <2>7. solved \in BOOLEAN
    <3>1. \A x, y : Solved(x, y) \in BOOLEAN
        BY DEF Solved, Verifies
    <3> QED BY <3>1
  <2> HIDE DEF solved, w
  <2>8. IF solved THEN Trace[EndOf(Fetching(T))] = State(w \o Pubs(T), none, <<>>)
                  ELSE Rejected(EndOf(Fetching(T)))
    <3> HIDE DEF none
    <3> DEFINE done == solved
    <3>1. /\ HorsGiven /\ Written(Fetching(T)) /\ w \in Stacks /\ Len(w) = 2 * N + 4 + T
          /\ done \in BOOLEAN
          /\ IF done THEN Trace[EndOf(Fetching(0))] = State(Under(3, T + 2, w), none, <<>>)
                     ELSE Rejected(EndOf(Fetching(0)))
        BY <1>1, <2>5, <2>6, <2>7
    <3> HIDE DEF done
    <3>2. IF done THEN Trace[EndOf(Fetching(T))] = State(w \o Pubs(T), none, <<>>)
                  ELSE Rejected(EndOf(Fetching(T)))
        BY ONLY <3>1, FetchingRuns
    <3> QED BY <3>2 DEF done
  <2>9. CASE ~solved
    <3>1. Rejected(Len(Script) + 1)
        BY <1>1, <1>3, <2>8, <2>9, RejectedAtEnd
    <3> HIDE DEF last
    <3> QED BY <1>4, <2>9, <3>1
  <2>10. CASE solved
    <3>1. Trace[EndOf(Fetching(T))] = State((SigsUp ++ Num(T + 1) ++ witness[2]) \o Pubs(T), <<>>,
          <<>>)
        BY <2>8, <2>10 DEF w
    <3> DEFINE good == Trace[Len(Script) + 1] = State(Entries(N) ++ Num(1), <<>>, <<>>)
    <3> DEFINE bad == Rejected(Len(Script) + 1)
    <3>2. IF last THEN good ELSE bad
        BY <1>8, <3>1, ClosingRuns
    <3> DEFINE came == Trace[EndOf(Fetching(T))] =
                        State((SigsUp ++ Num(T + 1) ++ witness[2]) \o Pubs(T), <<>>, <<>>)
    <3>5. came
        BY <3>1
    <3> HIDE DEF last, good, bad, came
    <3>3. Unlocks <=> last
        BY <1>4, <1>8, <2>10
    <3>4. IF Unlocks THEN came /\ good ELSE bad
        BY <3>2, <3>3, <3>5
    <3> QED BY <3>4 DEF came, good, bad
  <2> QED BY <2>9, <2>10
<1> QED BY <1>5, <1>7, <1>8

-----------------------------------------------------------------------------
(* What the machine checks is what authorises a spend.                     *)
LEMMA OrderIs ==
    ASSUME HorsGiven, \A j \in 0 .. T - 1 : witness[SelectionHi(j)].n \in 0 .. N - 1,
           NEW j \in 0 .. T - 1
    PROVE  witness[SelectionHi(j)].n > Before(j).n <=>
             (j > 0 => witness[SelectionHi(j - 1)].n < witness[SelectionHi(j)].n)
<1>1. T \in Nat /\ N \in Nat /\ j \in Nat
    BY LowNames
<1>2. CASE j = 0
  <2>1. Before(j) = Num(-1) /\ Num(-1).n = -1 /\ ~(j > 0)
      BY <1>2, NumberIs DEF Before
  <2>2. witness[SelectionHi(j)].n \in 0 .. N - 1
      OBVIOUS
  <2>3. witness[SelectionHi(j)].n > -1
      BY <1>1, <2>2
  <2> QED BY <2>1, <2>3
<1>3. CASE j # 0
  <2>1. j > 0 /\ j - 1 \in 0 .. T - 1
      BY <1>1, <1>3
  <2>2. Before(j) = witness[SelectionHi(j - 1)]
      BY <1>3 DEF Before
  <2> DEFINE x == witness[SelectionHi(j)].n
  <2> DEFINE y == witness[SelectionHi(j - 1)].n
  <2>3. x \in 0 .. N - 1 /\ y \in 0 .. N - 1
      BY <2>1
  <2>4. Before(j).n = y
      BY <2>2
  <2> HIDE DEF x, y
  <2>5. x > y <=> y < x
      BY <1>1, <2>3
  <2> QED BY <2>1, <2>4, <2>5 DEF x, y
<1> QED BY <1>2, <1>3

(* Authorized, said over the positions of the witness.                     *)
LEMMA AuthorizedIs ==
    ASSUME HorsGiven
    PROVE  Authorized <=> Unlocks
<1> DEFINE d(j) == witness[SelectionHi(j)]
<1> DEFINE e(j) == witness[SelectionHi(j) - 1]
<1> DEFINE f(j) == witness[2 + (T - j)]
<1>1. T \in Nat \ {0} /\ N \in Nat /\ witness[1] \in Elements
    BY LowNames
<1>2. \A j \in 0 .. T - 1 :
        Supplied(<<"index", j>>) = d(j) /\ Supplied(<<"pre", j>>) = e(j)
        /\ Supplied(<<"pub", j>>) = f(j)
  <2> TAKE j \in 0 .. T - 1
  <2>1. SelectionHi(j) = 2 + T + 2 * (T - j) /\ SelectionHi(j) - 1 = 1 + T + 2 * (T - j)
      BY <1>1 DEF SelectionHi
  <2>2. /\ Supplied(<<"index", j>>) = witness[2 + T + 2 * (T - j)]
        /\ Supplied(<<"pre", j>>) = witness[1 + T + 2 * (T - j)]
        /\ Supplied(<<"pub", j>>) = witness[2 + (T - j)]
      BY PlacesAre
  <2> QED BY <2>1, <2>2
<1>3. /\ Supplied(<<"pin_key", 0>>) = witness[3 * T + 4]
      /\ Supplied(<<"pin_proof", 0>>) = witness[3 * T + 3]
      /\ Supplied(<<"digest_key", 0>>) = witness[2] /\ Supplied(<<"digest_proof", 0>>) = witness[1]
  <2>1. /\ Names(T)[1] = <<"digest_proof", 0>> /\ Names(T)[2] = <<"digest_key", 0>>
        /\ Names(T)[3 * T + 3] = <<"pin_proof", 0>> /\ Names(T)[3 * T + 4] = <<"pin_key", 0>>
      BY <1>1, NamesAre
  <2>2. /\ 1 \in 1 .. 3 * T + 4 /\ 2 \in 1 .. 3 * T + 4 /\ 3 * T + 3 \in 1 .. 3 * T + 4
        /\ 3 * T + 4 \in 1 .. 3 * T + 4
      BY <1>1
  <2>3. \A h \in 1 .. 3 * T + 4 : Supplied(Names(T)[h]) = witness[h]
      BY <1>1, SuppliedIs
  <2> QED BY <2>1, <2>2, <2>3
<1> DEFINE numbered == \A j \in 0 .. T - 1 : d(j).kind = "num" /\ d(j).n \in 0 .. N - 1
<1> DEFINE opened == \A j \in 0 .. T - 1 : e(j) = Preimage(d(j).n)
<1> DEFINE ordered == \A j \in 0 .. T - 1 : j > 0 => d(j - 1).n < d(j).n
<1> DEFINE pinned == Passes(witness[3 * T + 4], witness[3 * T + 3], {})
<1> DEFINE kept == Passes(witness[2], witness[1], Choice)
<1>4. KeysMatch <=> \A j \in 0 .. T - 1 : f(j) = DummyKey(d(j).n)
    BY DEF KeysMatch
<1>5. Authorized <=> pinned /\ numbered /\ opened /\ KeysMatch /\ ordered /\ kept
  <2> DEFINE index == [j \in 0 .. T - 1 |-> Supplied(<<"index", j>>)]
  <2> DEFINE chosen == {index[j].n : j \in 0 .. T - 1}
  <2>1. \A j \in 0 .. T - 1 : index[j] = d(j)
      BY <1>2
  <2>2. \A j \in 0 .. T - 1 : j > 0 => j - 1 \in 0 .. T - 1
      BY <1>1
  <2>3. chosen = Choice
      BY <2>1 DEF Choice
  <2>4. Authorized <=>
          /\ Passes(Supplied(<<"pin_key", 0>>), Supplied(<<"pin_proof", 0>>), {})
          /\ \A j \in 0 .. T - 1 :
                /\ index[j].kind = "num" /\ index[j].n \in 0 .. N - 1
                /\ Supplied(<<"pre", j>>) = Preimage(index[j].n)
                /\ Supplied(<<"pub", j>>) = DummyKey(index[j].n)
                /\ j > 0 => index[j - 1].n < index[j].n
          /\ Passes(Supplied(<<"digest_key", 0>>), Supplied(<<"digest_proof", 0>>), chosen)
      BY DEF Authorized
  <2> HIDE DEF index, chosen
  <2>5. (\A j \in 0 .. T - 1 :
            /\ index[j].kind = "num" /\ index[j].n \in 0 .. N - 1
            /\ Supplied(<<"pre", j>>) = Preimage(index[j].n)
            /\ Supplied(<<"pub", j>>) = DummyKey(index[j].n)
            /\ j > 0 => index[j - 1].n < index[j].n)
         <=> \A j \in 0 .. T - 1 :
               /\ d(j).kind = "num" /\ d(j).n \in 0 .. N - 1
               /\ e(j) = Preimage(d(j).n)
               /\ f(j) = DummyKey(d(j).n)
               /\ j > 0 => d(j - 1).n < d(j).n
    <3> HIDE DEF d, e, f
    <3> QED BY <1>2, <2>1, <2>2
  <2>6. (\A j \in 0 .. T - 1 :
               /\ d(j).kind = "num" /\ d(j).n \in 0 .. N - 1
               /\ e(j) = Preimage(d(j).n)
               /\ f(j) = DummyKey(d(j).n)
               /\ j > 0 => d(j - 1).n < d(j).n)
         <=> numbered /\ opened /\ KeysMatch /\ ordered
    <3> HIDE DEF d, e, f
    <3> QED BY <1>4
  <2> HIDE DEF d, e, f, numbered, opened, ordered
  <2> QED BY <1>3, <2>3, <2>4, <2>5, <2>6
<1>6. Chosen(T) <=> numbered /\ opened /\ ordered
  <2> DEFINE over == \A j \in 0 .. T - 1 : d(j).n > Before(j).n
  <2>1. Chosen(T) <=> numbered /\ over /\ opened
      BY DEF Chosen, Chooses
  <2>2. ASSUME numbered
        PROVE  over <=> ordered
    <3>1. \A j \in 0 .. T - 1 : d(j).n > Before(j).n <=> (j > 0 => d(j - 1).n < d(j).n)
        BY <2>2, OrderIs
    <3> DEFINE P(j) == d(j).n > Before(j).n
    <3> DEFINE Q(j) == j > 0 => d(j - 1).n < d(j).n
    <3>2. \A j \in 0 .. T - 1 : P(j) <=> Q(j)
        BY <3>1
    <3> HIDE DEF P, Q
    <3>3. (\A j \in 0 .. T - 1 : P(j)) <=> \A j \in 0 .. T - 1 : Q(j)
        BY <3>2
    <3> QED BY <3>3 DEF P, Q
  <2> HIDE DEF numbered, opened, ordered, over
  <2> QED BY <2>1, <2>2
<1>7. ASSUME numbered
      PROVE  kept <=> Verifies(Fixed, witness[2], Choice) /\ Solved(witness[2], witness[1])
  <2>1. Choice \in SUBSET Int
      BY <1>7 DEF Choice
  <2> QED BY <1>1, <2>1, KeyPasses
<1>8. Unlocks <=> pinned /\ Chosen(T) /\ Solved(witness[2], witness[1])
                   /\ Verifies(Fixed, witness[2], Choice) /\ KeysMatch
    BY DEF Unlocks
<1> HIDE DEF d, e, f, numbered, opened, ordered, pinned, kept
<1> QED BY <1>5, <1>6, <1>7, <1>8

-----------------------------------------------------------------------------
(* An authorised spend meets the multisig check with as many keys as the   *)
(* compiler counted.                                                       *)
LEMMA KeysCounted ==
    ASSUME HorsGiven, Script = Compile(N, T, Puzzle), Unlocks
    PROVE  /\ Len(Script) - 1 \in 1 .. Len(Script)
           /\ On(Trace[Len(Script) - 1].taken)
           /\ From(Trace[Len(Script) - 1].stack, 0).n = T + 1
<1> DEFINE p == EndOf(Fetching(T))
<1> DEFINE w == SigsUp ++ Num(T + 1) ++ witness[2]
<1> DEFINE f == Pubs(T)
<1> DEFINE v == w \o f
<1> DEFINE x == Num(T + 1)
<1> DEFINE none == <<>>
<1>1. T \in Nat /\ T \in 0 .. T /\ T + 1 \in Int /\ Chosen(T)
    BY LowNames DEF Unlocks
<1>2. Block(p, Closing) /\ p \in Nat \ {0} /\ Len(Script) = p + 2 /\ Len(Script) \in Nat
    BY CompiledIs
<1>3. Len(Closing) = 3 /\ Closing[1].op = "PUSH" /\ Closing[1].arg = x
    BY ClosingIs
<1>4. w \in Stacks /\ f \in Stacks
    BY <1>1, SigsUpIs, PubsAre
<1>5. x \in Elements /\ x.n = T + 1
    BY <1>1, NumberIs
<1>6. Trace[p] = State(v, none, none)
    BY HorsRuns
<1>7. On(none)
    BY NoneOn
<1> HIDE DEF p, w, f, x, none
<1>8. v \in Stacks
  <2>1. w \in Seq(Elements) /\ f \in Seq(Elements)
      BY <1>4 DEF Stacks
  <2>2. w \o f \in Seq(Elements)
      BY ONLY <2>1, ConcatProperties
  <2> QED BY <2>2 DEF Stacks
<1> HIDE DEF v
<1>9. Reads(p, "PUSH") /\ Script[p].arg = x
  <2> DEFINE code == Closing
  <2>1. Block(p, code) /\ 1 \in 1 .. Len(code) /\ p = p + 1 - 1
      BY <1>2, <1>3
  <2> HIDE DEF code
  <2>2. Script[p] = code[1] /\ Reads(p, code[1].op)
      BY <2>1, BlockReads
  <2> QED BY <1>3, <2>2 DEF code
<1>10. Trace[p + 1] = State(v ++ x, none, none)
    BY <1>5, <1>6, <1>7, <1>8, <1>9, RunPush
<1>11. Len(Script) - 1 = p + 1 /\ p + 1 \in 1 .. Len(Script)
    BY <1>2
<1> DEFINE q == p + 1
<1> DEFINE r == v ++ x
<1>12. From(r, 0) = x
    BY <1>5, <1>8, OneOn
<1> HIDE DEF q, r
<1>13. Trace[q].stack = r /\ Trace[q].taken = none
  <2>1. Trace[q] = State(r, none, none)
      BY <1>10 DEF q, r
  <2> QED BY <2>1, StateIs
<1> QED BY <1>5, <1>7, <1>11, <1>12, <1>13 DEF q

-----------------------------------------------------------------------------
(* What a spend is given.                                                  *)
Given ==
    /\ instance \in Instances
    /\ IF Hors THEN InitHors ELSE InitCandidate

(* The parameters of a table are those of its instance.                    *)
LEMMA TableInstance ==
    ASSUME instance \in Instances, Hors
    PROVE  /\ N \in Nat \ {0} /\ T \in Nat \ {0} /\ T <= N
           /\ Puzzle \in {"hash-to-der", "signature-size-surrogate"}
           /\ Script = Compile(N, T, Puzzle)
<1>1. PICK p \in Params, z \in Puzzles : instance = Instance("hors", p[1], p[2], z)
  <2>1. \/ \E p \in Params, z \in Puzzles : instance = Instance("hors", p[1], p[2], z)
        \/ \E n \in Bits : instance = Instance("lamport", n, 0, "none")
        \/ \E n \in Digits : instance = Instance("winternitz", n, 0, "none")
        \/ \E f \in {"direct", "whole_key"} : instance = Instance(f, 0, 0, "none")
      BY DEF Instances
  <2>2. instance.family = "hors"
      BY DEF Hors
  <2> QED BY <2>1, <2>2 DEF Instance
<1>2. p[1] \in 2 .. 64 /\ p[2] \in 1 .. 6 /\ p[2] <= p[1]
    BY ParamsAssumption
<1>3. z \in {"hash-to-der", "signature-size-surrogate"}
    BY ParamsAssumption
<1>4. N = p[1] /\ T = p[2] /\ Puzzle = z
    BY <1>1 DEF Instance, N, T, Puzzle
<1>5. Script = Compile(instance.n, instance.t, instance.puzzle)
    BY DEF Script, Scripts, Hors
<1>6. Script = Compile(N, T, Puzzle)
    BY <1>5 DEF N, T, Puzzle
<1> QED BY <1>2, <1>3, <1>4, <1>6

(* A sequence turned round.                                                *)
LEMMA ReverseIs ==
    ASSUME NEW S, NEW s \in Seq(S)
    PROVE  /\ Reverse(s) \in Seq(S) /\ Len(Reverse(s)) = Len(s)
           /\ \A i \in 1 .. Len(s) : Reverse(s)[i] = s[Len(s) - i + 1]
<1> DEFINE n == Len(s)
<1>1. n \in Nat
    BY LenProperties
<1>2. \A i \in 1 .. n : s[i] \in S
    BY ElementOfSeq
<1>3. Reverse(s) = [i \in 1 .. n |-> s[(n - i) + 1]]
    BY DEF Reverse
<1> HIDE DEF n
<1>4. ASSUME NEW i \in 1 .. n
      PROVE  s[(n - i) + 1] \in S
  <2>1. (n - i) + 1 \in 1 .. n
      BY <1>1
  <2> QED BY <1>2, <2>1
<1>5. Reverse(s) \in Seq(S) /\ Len(Reverse(s)) = n
    BY <1>1, <1>3, <1>4
<1> QED BY <1>3, <1>5 DEF n

(* The elements of a table's witness.                                      *)
LEMMA TableElements ==
    /\ \A d \in Txs, e \in SUBSET Int : Key(d, e) \in Elements
    /\ \A p \in {"hash-to-der", "signature-size-surrogate"}, d \in Txs, e \in SUBSET Int :
          Proof(p, d, e) \in Elements
    /\ \A i \in Int : /\ DummyKey(i) \in Elements /\ Preimage(i) \in Elements
                      /\ Num(i) \in Elements
    /\ Fixed \in Elements /\ Junk \in Elements
<1>1. \A k \in Kinds, n \in Int, d \in SUBSET Int : Element(k, n, d) \in Elements
    BY ElementIs
<1>2. /\ "key" \in Kinds /\ "proofkey" \in Kinds /\ "proofsig" \in Kinds /\ "dummykey" \in Kinds
      /\ "preimage" \in Kinds /\ "num" \in Kinds
    BY DEF Kinds
<1>3. Txs \subseteq Int /\ {} \in SUBSET Int
    BY DEF Txs, Spend
<1> QED BY <1>1, <1>2, <1>3, Constants DEF Key, Proof, DummyKey, Preimage, Num

(* A spend of a table supplies three elements for each selection, and the  *)
(* two pairs of a proof and a key.                                         *)
Supplies(n, t, puzzle, pin, tx, deleted, entries, w) ==
    /\ n \in Nat /\ t \in Nat /\ puzzle \in {"hash-to-der", "signature-size-surrogate"}
    /\ pin \in Txs /\ tx \in Txs /\ deleted \in SUBSET Int /\ entries \in [1 .. t -> 0 .. n - 1]
    /\ w = Witness(puzzle, pin, tx, deleted, entries)

(* What witness() builds is a stack as long as its names.                  *)
LEMMA WitnessBuilt ==
    ASSUME NEW n, NEW t, NEW puzzle, NEW pin, NEW tx, NEW deleted, NEW entries, NEW w,
           Supplies(n, t, puzzle, pin, tx, deleted, entries, w)
    PROVE  w \in Stacks /\ Len(w) = 3 * t + 4
<1>0. /\ n \in Nat /\ t \in Nat /\ puzzle \in {"hash-to-der", "signature-size-surrogate"}
      /\ pin \in Txs /\ tx \in Txs /\ deleted \in SUBSET Int /\ entries \in [1 .. t -> 0 .. n - 1]
      /\ w = Witness(puzzle, pin, tx, deleted, entries)
    BY DEF Supplies
<1> DEFINE a == <<Proof(puzzle, tx, deleted), Key(tx, deleted)>>
<1> DEFINE l == [i \in 1 .. t |-> DummyKey(entries[i])]
<1> DEFINE b == Reverse(l)
<1> DEFINE m == [i \in 1 .. t |-> <<Preimage(entries[i]), Num(entries[i])>>]
<1> DEFINE c == FlattenSeq(Reverse(m))
<1> DEFINE d == <<Proof(puzzle, pin, {}), Key(pin, {})>>
<1>1. w = a \o b \o c \o d
  <2>1. DOMAIN entries = 1 .. t
      BY <1>0
  <2> QED BY <1>0, <2>1 DEF Witness, Pairs
<1>2. \A i \in 1 .. t : entries[i] \in Int
    BY <1>0
<1>3. a \in Seq(Elements) /\ Len(a) = 2 /\ d \in Seq(Elements) /\ Len(d) = 2
  <2>1. /\ Proof(puzzle, tx, deleted) \in Elements /\ Key(tx, deleted) \in Elements
        /\ Proof(puzzle, pin, {}) \in Elements /\ Key(pin, {}) \in Elements
      BY <1>0, TableElements
  <2> QED BY <2>1
<1>4. b \in Seq(Elements) /\ Len(b) = t
  <2>1. l \in Seq(Elements) /\ Len(l) = t
      BY <1>0, <1>2, TableElements
  <2> HIDE DEF l
  <2> QED BY <2>1, ReverseIs
<1>5. c \in Seq(Elements) /\ Len(c) = 2 * t
  <2>1. \A i \in 1 .. t : m[i] \in Seq(Elements) /\ Len(m[i]) = 2
      BY <1>2, TableElements
  <2>2. m \in Seq(Seq(Elements)) /\ Len(m) = t
    <3>1. \A i \in 1 .. t : m[i] \in Seq(Elements)
        BY <2>1
    <3>2. m = [i \in 1 .. t |-> m[i]] /\ t \in Nat
        BY <1>0
    <3> HIDE DEF m
    <3> QED BY <3>1, <3>2
  <2> HIDE DEF m
  <2> DEFINE r == Reverse(m)
  <2> DEFINE S == Seq(Elements)
  <2>3. m \in Seq(S)
      BY <2>2
  <2> HIDE DEF S
  <2>4. r \in Seq(S) /\ Len(r) = t /\ \A i \in 1 .. t : r[i] = m[t - i + 1]
      BY <2>2, <2>3, ReverseIs
  <2>5. \A i \in 1 .. Len(r) : Len(r[i]) = 2
    <3>1. \A i \in 1 .. t : t - i + 1 \in 1 .. t
        BY <1>0
    <3> HIDE DEF r
    <3> QED BY <2>1, <2>4, <3>1
  <2> HIDE DEF r
  <2>6. FlattenSeq(r) \in Seq(Elements) /\ Len(FlattenSeq(r)) = 2 * Len(r)
      BY <2>4, <2>5, PairsJoined DEF S
  <2> QED BY <2>4, <2>6 DEF r
<1> HIDE DEF a, b, c, d
<1>6. a \o b \in Seq(Elements) /\ Len(a \o b) = 2 + t
  <2>1. a \in Seq(Elements) /\ b \in Seq(Elements)
      BY <1>3, <1>4
  <2>2. a \o b \in Seq(Elements) /\ Len(a \o b) = Len(a) + Len(b)
      BY ONLY <2>1, ConcatProperties
  <2> QED BY <1>3, <1>4, <2>2
<1> DEFINE u == a \o b
<1> HIDE DEF u
<1>7. u \o c \in Seq(Elements) /\ Len(u \o c) = 2 + t + 2 * t
  <2>1. u \in Seq(Elements) /\ c \in Seq(Elements)
      BY <1>5, <1>6 DEF u
  <2>2. u \o c \in Seq(Elements) /\ Len(u \o c) = Len(u) + Len(c)
      BY ONLY <2>1, ConcatProperties
  <2> QED BY <1>5, <1>6, <2>2 DEF u
<1> DEFINE v == u \o c
<1> HIDE DEF v
<1>8. v \o d \in Seq(Elements) /\ Len(v \o d) = 2 + t + 2 * t + 2
  <2>1. v \in Seq(Elements) /\ d \in Seq(Elements)
      BY <1>3, <1>7 DEF v
  <2>2. v \o d \in Seq(Elements) /\ Len(v \o d) = Len(v) + Len(d)
      BY ONLY <2>1, ConcatProperties
  <2> QED BY <1>3, <1>7, <2>2 DEF v
<1>9. 2 + t + 2 * t + 2 = 3 * t + 4
    BY <1>0
<1> QED BY <1>1, <1>8, <1>9 DEF Stacks, u, v

(* What the machine's run on a table supposes, and what the table's script *)
(* is.                                                                     *)
LEMMA TableGiven ==
    ASSUME Given, Hors
    PROVE  HorsGiven /\ Script = Compile(N, T, Puzzle)
<1>1. /\ N \in Nat \ {0} /\ T \in Nat \ {0} /\ T <= N
      /\ Puzzle \in {"hash-to-der", "signature-size-surrogate"}
      /\ Script = Compile(N, T, Puzzle)
    BY TableInstance DEF Given
<1>2. witness \in Witnesses(N, T, Puzzle)
    BY DEF Given, InitHors
<1>3. Orders(N, T) = [1 .. T -> 0 .. N - 1]
    BY DEF Orders
<1>4. Spend \in Txs
    BY DEF Txs
<1>5. CASE \E d \in Txs \X Txs \X Subsets(N, T), e \in Orders(N, T) :
              witness = Witness(Puzzle, d[1], d[2], d[3], e)
  <2> DEFINE n == N
  <2> DEFINE t == T
  <2> DEFINE own == witness
  <2> DEFINE p == Puzzle
  <2>1. \E x \in Txs, y \in Txs, z \in SUBSET Int, e \in [1 .. t -> 0 .. n - 1] :
           own = Witness(p, x, y, z, e)
    <3>1. PICK d \in Txs \X Txs \X Subsets(N, T), e \in Orders(N, T) :
                witness = Witness(Puzzle, d[1], d[2], d[3], e)
        BY <1>5
    <3>2. d[1] \in Txs /\ d[2] \in Txs /\ d[3] \in SUBSET Int
        BY <1>1 DEF Subsets
    <3> QED BY <1>3, <3>1, <3>2
  <2>2. n \in Nat /\ t \in Nat /\ p \in {"hash-to-der", "signature-size-surrogate"}
      BY <1>1
  <2> HIDE DEF n, t, own, p
  <2>3. PICK x \in Txs, y \in Txs, z \in SUBSET Int, e \in [1 .. t -> 0 .. n - 1] :
           own = Witness(p, x, y, z, e)
      BY <2>1
  <2>4. own \in Stacks /\ Len(own) = 3 * t + 4
    <3>1. Supplies(n, t, p, x, y, z, e, own)
        BY <2>2, <2>3 DEF Supplies
    <3> QED BY <3>1, WitnessBuilt
  <2> QED BY <1>1, <2>4 DEF HorsGiven, t, own
<1>6. CASE \E e \in Orders(N, T), k \in DOMAIN Names(T), f \in Forgeries(N, T, Puzzle) :
              witness = [Witness(Puzzle, Spend, Spend, ToSet(e), e) EXCEPT ![k] = f]
  <2>1. PICK e \in Orders(N, T), k \in DOMAIN Names(T), f \in Forgeries(N, T, Puzzle) :
              witness = [Witness(Puzzle, Spend, Spend, ToSet(e), e) EXCEPT ![k] = f]
      BY <1>6
  <2> DEFINE own == Witness(Puzzle, Spend, Spend, ToSet(e), e)
  <2>2. ToSet(e) \in SUBSET Int
      BY <1>1, <1>3 DEF ToSet
  <2>3. own \in Stacks /\ Len(own) = 3 * T + 4
    <3> DEFINE z == ToSet(e)
    <3> DEFINE n == N
    <3> DEFINE t == T
    <3>1. /\ Spend \in Txs /\ z \in SUBSET Int /\ own = Witness(Puzzle, Spend, Spend, z, e)
          /\ n \in Nat /\ t \in Nat /\ e \in [1 .. t -> 0 .. n - 1]
          /\ Puzzle \in {"hash-to-der", "signature-size-surrogate"}
        BY <1>1, <1>3, <1>4, <2>2
    <3> HIDE DEF own, z, n, t
    <3>2. own \in Stacks /\ Len(own) = 3 * t + 4
      <4>1. Supplies(n, t, Puzzle, Spend, Spend, z, e, own)
          BY ONLY <3>1 DEF Supplies
      <4> QED BY ONLY <4>1, WitnessBuilt
    <3> QED BY <3>2 DEF t
  <2>4. k \in 1 .. 3 * T + 4
      BY <1>1, NamesAre, LenProperties
  <2>5. f \in Elements
    <3>1. \A d \in Digests(N, T) : d[1] \in Txs /\ d[2] \in SUBSET Int
        BY <1>1 DEF Digests, Subsets
    <3>2. \/ f = Fixed \/ f = Junk
          \/ \E i \in -1 .. N : f = Num(i)
          \/ \E i \in 0 .. N : f = Preimage(i)
          \/ \E i \in 0 .. N - 1 : f = DummyKey(i)
          \/ \E d \in Digests(N, T) : f = Key(d[1], d[2])
          \/ \E d \in Digests(N, T) : f = Proof(Puzzle, d[1], d[2])
        BY <2>1 DEF Forgeries
    <3> QED BY <1>1, <3>1, <3>2, TableElements
  <2> HIDE DEF own
  <2>6. [own EXCEPT ![k] = f] \in Seq(Elements) /\ Len([own EXCEPT ![k] = f]) = Len(own)
      BY <2>3, <2>4, <2>5, ExceptSeq DEF Stacks
  <2> QED BY <1>1, <2>1, <2>3, <2>6 DEF HorsGiven, Stacks, own
<1> QED BY <1>2, <1>5, <1>6, <1>1 DEF Witnesses

-----------------------------------------------------------------------------
(* What is given fixes the machine's run.                                  *)
LEMMA GivenFixes ==
    ASSUME UNCHANGED given
    PROVE  /\ Script' = Script /\ N' = N /\ T' = T /\ Puzzle' = Puzzle /\ (Hors' <=> Hors)
           /\ witness' = witness /\ hits' = hits /\ signed' = signed /\ instance' = instance
           /\ \A e : SizeOf(e)' = SizeOf(e)
           /\ \A sig, key, deleted : Verifies(sig, key, deleted)' <=> Verifies(sig, key, deleted)
           /\ \A name : Supplied(name)' = Supplied(name)
<1>1. instance' = instance /\ witness' = witness /\ hits' = hits /\ signed' = signed
    BY DEF given
<1>2. Script' = Script /\ N' = N /\ T' = T /\ Puzzle' = Puzzle /\ (Hors' <=> Hors)
    BY <1>1 DEF Script, N, T, Puzzle, Hors
<1>3. ASSUME NEW e PROVE SizeOf(e)' = SizeOf(e)
    BY <1>1 DEF SizeOf
<1>4. ASSUME NEW sig, NEW key, NEW deleted
      PROVE  Verifies(sig, key, deleted)' <=> Verifies(sig, key, deleted)
    BY <1>1 DEF Verifies
<1>5. ASSUME NEW name PROVE Supplied(name)' = Supplied(name)
  <2>1. Supplied(name) = witness[FirstAt(Names(T), name)]
      BY DEF Supplied, SelectInSeq, FirstAt
  <2>2. Supplied(name)' = witness'[FirstAt(Names(T'), name)]
      BY DEF Supplied, SelectInSeq, FirstAt
  <2> QED BY <1>1, <1>2, <2>1, <2>2
<1> QED BY <1>1, <1>2, <1>3, <1>4, <1>5

(* What an instruction does depends on what is given only.                 *)
LEMMA ExecFixed ==
    ASSUME UNCHANGED given, NEW ins, NEW m
    PROVE  Exec(ins, m)' = Exec(ins, m)
<1>1. /\ \A e : SizeOf(e)' = SizeOf(e)
      /\ \A sig, key, deleted : Verifies(sig, key, deleted)' <=> Verifies(sig, key, deleted)
      /\ \A name : Supplied(name)' = Supplied(name)
    BY GivenFixes
<1>2. \A s : Unlocked(s)' <=> Unlocked(s)
    BY <1>1 DEF Unlocked
<1>3. \A name : Rolled(m, name)' = Rolled(m, name)
    BY <1>1 DEF Rolled
<1>4. Executed(ins, m)' = Executed(ins, m)
    BY <1>1, <1>2, <1>3 DEF Executed
<1> QED BY <1>4 DEF Exec

(* So does the trace.                                                      *)
LEMMA TraceFixed ==
    ASSUME UNCHANGED given
    PROVE  Trace' = Trace
<1>1. Script' = Script /\ witness' = witness
    BY GivenFixes
<1>2. \A ins, m : Exec(ins, m)' = Exec(ins, m)
    BY ExecFixed
<1>3. ASSUME NEW n, NEW f
      PROVE  Traces(n, f)' <=> Traces(n, f)
    BY <1>1, <1>2 DEF Traces
<1> QED BY <1>1, <1>3 DEF Trace

-----------------------------------------------------------------------------
(* Instructions make executions of executions.                             *)
Formed(m) == m = [stack |-> m.stack, alt |-> m.alt, taken |-> m.taken, end |-> m.end]

(* Executions, alive and dead, are records of four fields.                 *)
LEMMA FormedIs ==
    /\ \A s, a, b : Formed(State(s, a, b))
    /\ \A reason : Formed(Dead(reason))
BY DEF Formed, State, Dead

(* A living execution is its stacks and branches.                          *)
LEMMA AliveIs ==
    ASSUME NEW m, Formed(m), m.end = "none"
    PROVE  m = State(m.stack, m.alt, m.taken)
BY DEF Formed, State

(* An instruction makes an execution of an execution.                      *)
LEMMA ExecForms ==
    ASSUME NEW ins, NEW m, Formed(m)
    PROVE  Formed(Exec(ins, m))
<1>1. \A k, n, results : Formed(Replaced(m, k, n, results))
    BY FormedIs DEF Replaced
<1>2. \A k, passes, reason : Formed(Checked(m, k, passes, reason))
    BY FormedIs DEF Checked
<1>3. Formed(Copied(m)) /\ \A name : Formed(Rolled(m, name))
    BY FormedIs DEF Copied, Rolled
<1>4. Formed(Executed(ins, m))
    BY <1>1, <1>2, <1>3, FormedIs DEF Executed
<1> QED BY <1>4, FormedIs DEF Exec

(* The trace consists of executions.                                       *)
LEMMA TraceForms ==
    ASSUME Len(Script) \in Nat, NEW p \in 1 .. Len(Script) + 1
    PROVE  Formed(Trace[p])
<1> DEFINE Bad == {k \in Nat : k + 1 <= Len(Script) + 1 /\ ~Formed(Trace[k + 1])}
<1>1. CASE Bad # {}
  <2>1. PICK m \in Bad : \A k \in Bad : m <= k
      BY <1>1, LeastMember
  <2>2. Formed(Trace[1])
      BY TraceSteps, FormedIs
  <2>3. m # 0
      BY <2>1, <2>2
  <2>4. m - 1 \in Nat /\ ~(m <= m - 1) /\ (m - 1) + 1 <= Len(Script) + 1 /\ (m - 1) + 1 = m
      BY <2>1, <2>3
  <2>7. m - 1 \notin Bad
    <3> HIDE DEF Bad
    <3> QED BY <2>1, <2>4
  <2>8. m \in 1 .. Len(Script)
    <3>1. m \in Nat /\ m + 1 <= Len(Script) + 1
        BY <2>1
    <3> QED BY <2>3, <3>1
  <2>5. Formed(Trace[m])
    <3>1. Formed(Trace[(m - 1) + 1])
        BY <2>4, <2>7
    <3> QED BY <2>4, <3>1
  <2>6. Trace[m + 1] = Exec(Script[m], Trace[m])
      BY <2>8, TraceSteps
  <2> QED BY <2>1, <2>5, <2>6, ExecForms
<1>2. CASE Bad = {}
  <2>1. p - 1 \in Nat /\ (p - 1) + 1 = p /\ p <= Len(Script) + 1
      OBVIOUS
  <2> HIDE DEF Bad
  <2>2. p - 1 \notin Bad
      BY <1>2
  <2> QED BY <2>1, <2>2 DEF Bad
<1> QED BY <1>1, <1>2

-----------------------------------------------------------------------------
(* A script that never starves on what it is given, ...                    *)
Sound == Len(Script) \in Nat /\ Trace[Len(Script) + 1].end # "underflow"

(* ... so nowhere.                                                         *)
LEMMA NeverStarves ==
    ASSUME Sound, NEW p \in 1 .. Len(Script) + 1
    PROVE  Trace[p].end # "underflow"
<1> DEFINE q == Len(Script) + 1
<1>1. Len(Script) \in Nat /\ q \in p .. Len(Script) + 1 /\ Trace[q].end # "underflow"
    BY DEF Sound
<1> HIDE DEF q
<1> QED BY <1>1, EndedStays

(* The variables follow the trace, and a verdict is the trace's.           *)
Verdict == Holds(1) /\ IsTrue(Top(0))
Follows ==
    /\ pc \in 1 .. Len(Script) + 1
    /\ Trace[pc] = Now
    /\ status \in {"running", "accepted", "rejected"}
    /\ status # "rejected" => why = "none"
    /\ status = "accepted" => pc = Len(Script) + 1 /\ Verdict
    /\ status = "rejected" =>
          /\ why # "underflow"
          /\ \/ pc \in 1 .. Len(Script) /\ Rejected(pc + 1)
             \/ pc = Len(Script) + 1 /\ ~Verdict

(* The variables start with the trace.                                     *)
LEMMA FollowsInit ==
    ASSUME Init, Sound
    PROVE  Follows
<1>1. Len(Script) \in Nat
    BY DEF Sound
<1>2. Trace[1] = State(witness, <<>>, <<>>)
    BY <1>1, TraceSteps
<1> QED BY <1>1, <1>2 DEF Init, Follows, Now

(* Only a running execution goes on.                                       *)
LEMMA RunningSteps ==
    ASSUME Next
    PROVE  status = "running" /\ UNCHANGED given
<1>1. \A op, k, m, results : Stackwise(op, k, m, results) => Running /\ UNCHANGED given
    BY DEF Stackwise, At, Goes, Moves, Starved, Rejects
<1>2. \A op, b : Branch(op, b) => Running /\ UNCHANGED given
    BY DEF Branch
<1>3. Skip \/ If \/ CodeSeparator \/ PushData \/ ToAlt \/ FromAlt => Running /\ UNCHANGED given
    BY DEF Skip, If, CodeSeparator, PushData, ToAlt, FromAlt, At, Goes, Moves, Rejects
<1>4. Pick \/ RollUp \/ Verify \/ EqualVerify \/ CheckSigVerify \/ CheckMultisigVerify =>
          Running /\ UNCHANGED given
    BY DEF Pick, RollUp, Verify, EqualVerify, CheckSigVerify, CheckMultisigVerify, At, Goes, Moves,
           Rejects
<1>5. Finish => status = "running" /\ UNCHANGED given
    BY DEF Finish, Rejects
<1>6. Dup \/ Drop \/ Over \/ Swap \/ Add \/ GreaterThan \/ LessThanOrEqual \/ Within \/ Hash160
      \/ Ripemd160 \/ Sha256 \/ Size \/ CheckSig => Running /\ UNCHANGED given
    BY <1>1 DEF Dup, Drop, Over, Swap, Add, GreaterThan, LessThanOrEqual, Within, Hash160,
                Ripemd160, Sha256, Size, CheckSig
<1>7. Else \/ EndIf => Running /\ UNCHANGED given
    BY <1>2 DEF Else, EndIf
<1>8. Running => status = "running"
    BY DEF Running
<1> QED BY <1>3, <1>4, <1>5, <1>6, <1>7, <1>8 DEF Next

(* A step of a running execution inside its script.                        *)
LEMMA StepIs ==
    ASSUME Next, Sound, Follows, pc <= Len(Script)
    PROVE  /\ pc \in 1 .. Len(Script) /\ Running /\ Counters
           /\ Trace[pc + 1] = Exec(Current, Now) /\ Outcome(Trace[pc + 1])
           /\ Trace[pc + 1].end # "underflow"
<1>1. Len(Script) \in Nat /\ pc \in 1 .. Len(Script) /\ Trace[pc] = Now
    BY DEF Sound, Follows
<1>2. Running /\ Counters
    BY <1>1, RunningSteps DEF Running, Counters
<1>3. Trace[pc + 1] = Exec(Current, Now)
  <2>1. Trace[pc + 1] = Exec(Script[pc], Trace[pc])
      BY <1>1, TraceSteps
  <2> QED BY <1>1, <2>1 DEF Current
<1>4. Trace[pc + 1].end # "underflow"
  <2> DEFINE q == pc + 1
  <2>1. q \in 1 .. Len(Script) + 1
      BY <1>1
  <2> HIDE DEF q
  <2>2. Trace[q].end # "underflow"
      BY <2>1, NeverStarves
  <2> QED BY <2>2 DEF q
<1>5. Outcome(Exec(Current, Now))
    BY <1>2, <1>3, <1>4, ExecActs
<1> QED BY <1>1, <1>2, <1>3, <1>4, <1>5

(* Every step follows the trace.                                           *)
LEMMA FollowsNext ==
    ASSUME Next, Sound, Follows
    PROVE  Follows'
<1>1. status = "running" /\ UNCHANGED given
    BY RunningSteps
<1>2. Script' = Script /\ Trace' = Trace
    BY <1>1, GivenFixes, TraceFixed
<1>3. Len(Script) \in Nat /\ pc \in 1 .. Len(Script) + 1 /\ Trace[pc] = Now /\ why = "none"
    BY <1>1 DEF Sound, Follows
<1>4. CASE pc <= Len(Script)
  <2> DEFINE m == Trace[pc + 1]
  <2>1. pc \in 1 .. Len(Script) /\ Outcome(m) /\ m.end # "underflow"
      BY <1>4, StepIs
  <2>2. Formed(m)
    <3> DEFINE q == pc + 1
    <3>1. q \in 1 .. Len(Script) + 1
        BY <1>3, <2>1
    <3> HIDE DEF q
    <3>2. Formed(Trace[q])
        BY <1>3, <3>1, TraceForms
    <3> QED BY <3>2 DEF q
  <2>3. CASE m.end = "none"
    <3>1. m = State(m.stack, m.alt, m.taken)
        BY <2>2, <2>3, AliveIs
    <3>2. /\ stack' = m.stack /\ alt' = m.alt /\ taken' = m.taken
          /\ pc' = pc + 1 /\ status' = "running" /\ why' = "none"
        BY <1>3, <2>1, <2>3 DEF Outcome
    <3>3. Trace'[pc'] = Now'
        BY <1>2, <3>1, <3>2 DEF Now
    <3>4. pc' \in 1 .. Len(Script') + 1
        BY <1>2, <2>1, <3>2
    <3> QED BY <3>2, <3>3, <3>4 DEF Follows
  <2>4. CASE m.end # "none"
    <3>1. /\ UNCHANGED <<pc, stack, alt, taken>> /\ status' = "rejected" /\ why' = m.end
        BY <2>1, <2>4 DEF Outcome
    <3>2. Trace'[pc'] = Now'
        BY <1>2, <1>3, <3>1 DEF Now
    <3>3. Rejected(pc + 1)
        BY <2>1, <2>4 DEF Rejected
    <3>4. pc' \in 1 .. Len(Script') /\ pc' \in 1 .. Len(Script') + 1 /\ Rejected(pc + 1)'
        BY <1>2, <1>3, <2>1, <3>1, <3>3 DEF Rejected
    <3> QED BY <2>1, <3>1, <3>2, <3>4 DEF Follows
  <2> QED BY <2>3, <2>4
<1>5. CASE ~(pc <= Len(Script))
  <2>1. pc = Len(Script) + 1
      BY <1>3, <1>5
  <2>2. Finish
    <3>1. \A op : ~At(op)
        BY <1>5 DEF At, Running
    <3> QED BY <1>5, <3>1 DEF Next, Stackwise, Skip, Else, EndIf, Branch, Running,
          PushData, Dup, Drop, Over, Swap, Add, GreaterThan, LessThanOrEqual, Within, Hash160,
          Ripemd160, Sha256, Size, Pick, RollUp, ToAlt, FromAlt, Verify, EqualVerify,
          CheckSigVerify, CheckSig, CheckMultisigVerify, CodeSeparator, If
  <2>3. /\ UNCHANGED <<pc, stack, alt, taken>>
        /\ \/ Verdict /\ status' = "accepted" /\ why' = why
           \/ ~Verdict /\ status' = "rejected" /\ why' = "verify"
      BY <2>2 DEF Finish, Rejects, Verdict
  <2>4. Trace'[pc'] = Now' /\ (Verdict' <=> Verdict) /\ pc' = Len(Script') + 1
      BY <1>2, <1>3, <2>1, <2>3 DEF Now, Verdict, Holds, Top
  <2>5. pc' \in 1 .. Len(Script') + 1
      BY <1>2, <1>3, <2>4
  <2> QED BY <1>3, <2>3, <2>4, <2>5 DEF Follows
<1> QED BY <1>4, <1>5

-----------------------------------------------------------------------------
(* Where no execution starves, rolls fetch what they are named for.        *)
LEMMA FollowsRolls ==
    ASSUME Sound, Follows
    PROVE  RollsFetchTheirElement
<1>1. why # "underflow"
    BY DEF Follows
<1>2. ASSUME At("ROLL"), Current.name # NoName
      PROVE  Top(Top(0).n + 1) = Supplied(Current.name)
  <2>1. pc \in 1 .. Len(Script) /\ Len(Script) \in Nat /\ Trace[pc] = Now
      BY <1>2 DEF At, Running, Sound, Follows
  <2>2. Trace[pc + 1] = Exec(Current, Now)
    <3>1. Trace[pc + 1] = Exec(Script[pc], Trace[pc])
        BY <2>1, TraceSteps
    <3> QED BY <2>1, <3>1 DEF Current
  <2>3. Trace[pc + 1].end # "underflow"
    <3> DEFINE q == pc + 1
    <3>1. q \in 1 .. Len(Script) + 1
        BY <2>1
    <3> HIDE DEF q
    <3>2. Trace[q].end # "underflow"
        BY <3>1, NeverStarves
    <3> QED BY <3>2 DEF q
  <2>4. Now.stack = stack /\ Now.taken = taken /\ Now.end = "none"
      BY StateIs DEF Now
  <2>5. Exec(Current, Now) = Rolled(Now, Current.name)
    <3>1. Current.op = "ROLL" /\ \A i \in DOMAIN taken : taken[i]
        BY <1>2 DEF At, Executing
    <3>2. Exec(Current, Now) = Executed(Current, Now)
        BY <2>4, <3>1 DEF Exec
    <3> QED BY <3>1, <3>2 DEF Executed
  <2>6. From(stack, From(stack, 0).n + 1) = Supplied(Current.name)
      BY <1>2, <2>2, <2>3, <2>4, <2>5, DeadIs DEF Rolled
  <2> QED BY <2>6 DEF From, Top
<1> QED BY <1>1, <1>2 DEF RollsFetchTheirElement

(* A table's run never starves.                                            *)
LEMMA TableSound ==
    ASSUME Given, Hors
    PROVE  Sound
<1>1. HorsGiven /\ Script = Compile(N, T, Puzzle)
    BY TableGiven
<1>2. Len(Script) \in Nat
    BY <1>1, CompiledIs
<1>3. CASE Unlocks
    BY <1>1, <1>2, <1>3, HorsRuns, StateIs DEF Sound
<1>4. CASE ~Unlocks
    BY <1>1, <1>2, <1>4, HorsRuns DEF Sound, Rejected
<1> QED BY <1>3, <1>4

(* What the trace comes to is what the variables come to.                  *)
LEMMA FollowsVerdict ==
    ASSUME Len(Script) \in Nat, Follows, NEW s \in Stacks, NEW x \in Elements
    PROVE  /\ status = "accepted" => ~Rejected(Len(Script) + 1) /\ Trace[Len(Script) + 1] = Now
           /\ status = "rejected"
              /\ Trace[Len(Script) + 1] = State(s ++ x, <<>>, <<>>) => ~IsTrue(x)
<1>1. ASSUME status = "accepted"
      PROVE  ~Rejected(Len(Script) + 1) /\ Trace[Len(Script) + 1] = Now
    BY <1>1, StateIs DEF Follows, Rejected, Now
<1>2. ASSUME status = "rejected", Trace[Len(Script) + 1] = State(s ++ x, <<>>, <<>>)
      PROVE  ~IsTrue(x)
  <2>1. CASE pc \in 1 .. Len(Script) /\ Rejected(pc + 1)
    <3> DEFINE q == pc + 1
    <3>1. q \in 1 .. Len(Script) + 1 /\ Rejected(q)
        BY <2>1
    <3> HIDE DEF q
    <3>2. Rejected(Len(Script) + 1)
        BY <3>1, RejectedAtEnd
    <3>3. FALSE
        BY <1>2, <3>2, StateIs DEF Rejected
    <3> QED BY <3>3
  <2>2. CASE pc = Len(Script) + 1 /\ ~Verdict
    <3>1. Trace[pc] = Now /\ Trace[pc] = State(s ++ x, <<>>, <<>>)
        BY <1>2, <2>2 DEF Follows
    <3>2. stack = s ++ x
      <4> DEFINE r == s ++ x
      <4>1. Now = State(r, <<>>, <<>>)
          BY <3>1
      <4> HIDE DEF r
      <4>2. Now.stack = r
          BY <4>1, StateIs
      <4>3. Now.stack = stack
          BY StateIs DEF Now
      <4> QED BY <4>2, <4>3 DEF r
    <3>3. Len(s ++ x) >= 1 /\ From(s ++ x, 0) = x
        BY OneOn
    <3>4. Holds(1) /\ Top(0) = x
        BY <3>2, <3>3 DEF Holds, Top, From
    <3> QED BY <2>2, <3>4 DEF Verdict
  <2> QED BY <1>2, <2>1, <2>2 DEF Follows
<1> QED BY <1>1, <1>2

(* A table accepts exactly the authorised spends.                          *)
LEMMA FollowsAuthorized ==
    ASSUME Given, Hors => Follows
    PROVE  AcceptsTheAuthorized
<1> SUFFICES ASSUME Hors
             PROVE  /\ status = "accepted" => Authorized
                    /\ status = "rejected" => ~Authorized
    BY DEF AcceptsTheAuthorized
<1>1. HorsGiven /\ Script = Compile(N, T, Puzzle)
    BY TableGiven
<1>2. Len(Script) \in Nat
    BY <1>1, CompiledIs
<1>3. Authorized <=> Unlocks
    BY <1>1, AuthorizedIs
<1> DEFINE s == Entries(N)
<1> DEFINE x == Num(1)
<1>4. s \in Stacks /\ x \in Elements /\ IsTrue(x)
  <2>1. N \in Nat
      BY <1>1 DEF HorsGiven
  <2>2. Num(1) \in Elements /\ Num(1).n = 1 /\ Num(0).n = 0
      BY NumberIs
  <2> QED BY <1>1, <2>1, <2>2, EntriesAre DEF IsTrue
<1>5. IF Unlocks THEN Trace[Len(Script) + 1] = State(s ++ x, <<>>, <<>>)
                 ELSE Rejected(Len(Script) + 1)
    BY <1>1, HorsRuns
<1> HIDE DEF s, x
<1>6. /\ status = "accepted" => ~Rejected(Len(Script) + 1)
      /\ status = "rejected" /\ Trace[Len(Script) + 1] = State(s ++ x, <<>>, <<>>) => ~IsTrue(x)
    BY <1>2, <1>4, FollowsVerdict
<1> QED BY <1>3, <1>4, <1>5, <1>6

-----------------------------------------------------------------------------
(* What an instruction adds to the count of opcodes.                       *)
Cost(ins, m) ==
    IF ins.op = "PUSH" THEN 0
    ELSE IF ins.op = "CHECKMULTISIGVERIFY" /\ On(m.taken) THEN 1 + From(m.stack, 0).n
    ELSE 1

(* Every step counts what its instruction costs.                           *)
LEMMA CostIs ==
    ASSUME Next, Running, Counters, status' = "running"
    PROVE  opCount' = opCount + Cost(Current, Now)
<1>1. Now.stack = stack /\ Now.taken = taken /\ (On(Now.taken) <=> Executing)
    BY StateIs DEF Now, On, Executing
<1>2. \A reason : ~Rejects(reason)
    BY DEF Rejects
<1>3. \A op, k, m, results : Stackwise(op, k, m, results) => opCount' = opCount + 1
    BY <1>2 DEF Stackwise, Goes, Moves, Counted, Starved
<1>4. CASE Current.op \in {"ELSE", "ENDIF"}
  <2>1. Else \/ EndIf
      BY <1>4, Dispatch
  <2> QED BY <1>4, <2>1 DEF Else, EndIf, Branch, Counted, Cost
<1>5. CASE Current.op \notin {"ELSE", "ENDIF"} /\ ~Executing
  <2>1. Skip
      BY <1>5, Dispatch
  <2> QED BY <1>1, <1>5, <2>1 DEF Skip, Counted, Cost
<1>6. CASE Current.op \notin {"ELSE", "ENDIF"} /\ Executing
  <2>1. CASE Current.op = "PUSH"
    <3>1. PushData
        BY <1>6, <2>1, Dispatch
    <3> QED BY <2>1, <3>1 DEF PushData, Moves, Counted, Cost
  <2>2. CASE Current.op = "CHECKMULTISIGVERIFY"
    <3>1. CheckMultisigVerify
        BY <1>6, <2>2, Dispatch
    <3>2. opCount' = opCount + (1 + Top(0).n)
        BY <1>2, <3>1 DEF CheckMultisigVerify, Moves, Counted
    <3> QED BY <1>1, <1>6, <2>2, <3>2 DEF Cost, From, Top
  <2>3. CASE Current.op \in {"DUP", "DROP", "OVER", "SWAP", "ADD", "GREATERTHAN",
                             "LESSTHANOREQUAL", "WITHIN", "HASH160", "RIPEMD160", "SHA256", "SIZE",
                             "CHECKSIG"}
    <3>1. Dup \/ Drop \/ Over \/ Swap \/ Add \/ GreaterThan \/ LessThanOrEqual \/ Within \/ Hash160
          \/ Ripemd160 \/ Sha256 \/ Size \/ CheckSig
        BY <1>6, <2>3, Dispatch
    <3>2. opCount' = opCount + 1
        BY <1>3, <3>1 DEF Dup, Drop, Over, Swap, Add, GreaterThan, LessThanOrEqual, Within,
              Hash160, Ripemd160, Sha256, Size, CheckSig
    <3> QED BY <2>3, <3>2 DEF Cost
  <2>4. CASE Current.op \in {"PICK", "ROLL", "TOALT", "FROMALT", "VERIFY", "EQUALVERIFY",
                             "CHECKSIGVERIFY", "CODESEPARATOR", "IF"}
    <3>1. Pick \/ RollUp \/ ToAlt \/ FromAlt \/ Verify \/ EqualVerify \/ CheckSigVerify
          \/ CodeSeparator \/ If
        BY <1>6, <2>4, Dispatch
    <3>2. opCount' = opCount + 1
        BY <1>2, <3>1 DEF Pick, RollUp, ToAlt, FromAlt, Verify, EqualVerify, CheckSigVerify,
              CodeSeparator, If, Goes, Moves, Counted
    <3> QED BY <2>4, <3>2 DEF Cost
  <2>5. Current.op \in Opcodes
      BY <1>6, Dispatch
  <2> QED BY <2>1, <2>2, <2>3, <2>4, <2>5 DEF Opcodes
<1> QED BY <1>4, <1>5, <1>6

-----------------------------------------------------------------------------
(* The opcodes of the first p - 1 instructions, and the keys of the        *)
(* multisig check once it is behind.                                       *)
Passed(p) == {k \in 1 .. p - 1 : Script[k].op # "PUSH"}
KeysPast(p) == IF Hors /\ p > Len(Script) - 1 THEN T + 1 ELSE 0
Counts == Trace[Len(Script) + 1].end = "none" => opCount = Cardinality(Passed(pc)) + KeysPast(pc)

(* The only multisig check of a script is where a table's script has it,   *)
(* and in a run that ends well it has the keys the compiler counted.       *)
Tallied ==
    /\ DOMAIN Script = 1 .. Len(Script) /\ (Hors => T \in Nat /\ Len(Script) >= 3)
    /\ \A k \in 1 .. Len(Script) :
          Script[k].op = "CHECKMULTISIGVERIFY" <=> Hors /\ k = Len(Script) - 1
    /\ Hors /\ Trace[Len(Script) + 1].end = "none" =>
          /\ On(Trace[Len(Script) - 1].taken)
          /\ From(Trace[Len(Script) - 1].stack, 0).n = T + 1

(* A table's script checks several signatures once, with the keys          *)
(* compile() counts.                                                       *)
LEMMA TableTallied ==
    ASSUME Given, Hors
    PROVE  Tallied
<1>1. HorsGiven /\ Script = Compile(N, T, Puzzle)
    BY TableGiven
<1>2. /\ Len(Script) \in Nat /\ DOMAIN Script = 1 .. Len(Script)
      /\ \A k \in 1 .. Len(Script) :
            Script[k].op = "CHECKMULTISIGVERIFY" <=> k = Len(Script) - 1
    BY <1>1, CompiledIs
<1>3. ASSUME Trace[Len(Script) + 1].end = "none"
      PROVE  /\ On(Trace[Len(Script) - 1].taken)
             /\ From(Trace[Len(Script) - 1].stack, 0).n = T + 1
  <2>1. Unlocks
      BY <1>1, <1>3, HorsRuns DEF Rejected
  <2> QED BY <1>1, <2>1, KeysCounted
<1>4. T \in Nat /\ Len(Script) >= 3
  <2> DEFINE e == EndOf(Fetching(T))
  <2>1. e \in Nat \ {0} /\ Len(Script) = e + 2
      BY <1>1, CompiledIs
  <2> HIDE DEF e
  <2> QED BY <1>1, <2>1 DEF HorsGiven
<1> QED BY <1>2, <1>3, <1>4 DEF Tallied

(* The count starts at nothing.                                            *)
LEMMA CountsInit ==
    ASSUME Init, Sound, Tallied
    PROVE  Counts
<1>1. pc = 1 /\ opCount = 0 /\ Len(Script) \in Nat
    BY DEF Init, Sound
<1>2. Passed(pc) = {} /\ Cardinality({}) = 0
    BY <1>1, FS_EmptySet DEF Passed
<1>3. KeysPast(pc) = 0
  <2>1. Hors => Len(Script) >= 3
      BY DEF Tallied
  <2>2. Len(Script) >= 3 => ~(1 > Len(Script) - 1)
      BY <1>1
  <2> QED BY <1>1, <2>1, <2>2 DEF KeysPast
<1> QED BY <1>1, <1>2, <1>3 DEF Counts

(* One instruction more.                                                   *)
LEMMA PassedNext ==
    ASSUME NEW p \in Nat \ {0}
    PROVE  /\ Cardinality(Passed(p)) \in Nat
           /\ Cardinality(Passed(p + 1)) =
                  Cardinality(Passed(p)) + IF Script[p].op = "PUSH" THEN 0 ELSE 1
<1>1. IsFiniteSet(1 .. p - 1)
    BY FS_Interval
<1>2. IsFiniteSet(Passed(p)) /\ Cardinality(Passed(p)) \in Nat
  <2>1. Passed(p) \subseteq 1 .. p - 1
      BY DEF Passed
  <2> QED BY <1>1, <2>1, FS_Subset, FS_CardinalityType
<1>3. p \notin Passed(p)
    BY DEF Passed
<1>4. CASE Script[p].op = "PUSH"
  <2>1. Passed(p + 1) = Passed(p)
      BY <1>4 DEF Passed
  <2> QED BY <1>2, <1>4, <2>1
<1>5. CASE Script[p].op # "PUSH"
  <2>1. Passed(p + 1) = Passed(p) \union {p}
      BY <1>5 DEF Passed
  <2> DEFINE S == Passed(p)
  <2>2. IsFiniteSet(S) /\ p \notin S
      BY <1>2, <1>3
  <2> HIDE DEF S
  <2>3. Cardinality(S \union {p}) = Cardinality(S) + 1
      BY ONLY <2>2, FS_AddElement
  <2> QED BY <1>2, <1>5, <2>1, <2>3 DEF S
<1> QED BY <1>4, <1>5

(* Every step keeps the count.                                             *)
LEMMA CountsNext ==
    ASSUME Next, Sound, Follows, Tallied, Counts
    PROVE  Counts'
<1>1. status = "running" /\ UNCHANGED given
    BY RunningSteps
<1>2. /\ Script' = Script /\ Trace' = Trace /\ T' = T /\ (Hors' <=> Hors)
      /\ \A p : Passed(p)' = Passed(p) /\ KeysPast(p)' = KeysPast(p)
  <2>1. Script' = Script /\ Trace' = Trace /\ T' = T /\ (Hors' <=> Hors)
      BY <1>1, GivenFixes, TraceFixed
  <2> QED BY <2>1 DEF Passed, KeysPast
<1> SUFFICES ASSUME Trace[Len(Script) + 1].end = "none"
             PROVE  opCount' = Cardinality(Passed(pc')) + KeysPast(pc')
  <2>1. Counts' = (Trace'[Len(Script') + 1].end = "none" =>
                      opCount' = Cardinality(Passed(pc)') + KeysPast(pc)')
      BY DEF Counts
  <2>2. Passed(pc)' = Passed(pc') /\ KeysPast(pc)' = KeysPast(pc')
      BY <1>2 DEF Passed, KeysPast
  <2> QED BY <1>2, <2>1, <2>2
<1>3. Len(Script) \in Nat /\ pc \in 1 .. Len(Script) + 1
    BY DEF Sound, Follows
<1>4. opCount = Cardinality(Passed(pc)) + KeysPast(pc)
    BY DEF Counts
<1>5. CASE pc <= Len(Script)
  <2>1. /\ pc \in 1 .. Len(Script) /\ Running /\ Counters /\ Outcome(Trace[pc + 1])
      BY <1>5, StepIs
  <2>2. Trace[pc + 1].end = "none"
    <3> DEFINE q == pc + 1
    <3> DEFINE e == Len(Script) + 1
    <3>1. q \in 1 .. Len(Script) + 1 /\ e \in q .. Len(Script) + 1 /\ Trace[e].end = "none"
        BY <1>3, <2>1
    <3> HIDE DEF q, e
    <3>2. Trace[q].end # "none" => Trace[e] = Trace[q]
        BY <1>3, <3>1, EndedStays
    <3> QED BY <3>1, <3>2 DEF q
  <2>3. pc' = pc + 1 /\ status' = "running"
      BY <2>1, <2>2 DEF Outcome
  <2>4. opCount' = opCount + Cost(Current, Now)
      BY <2>1, <2>3, CostIs
  <2>5. Trace[pc] = Now /\ Current = Script[pc]
      BY DEF Follows, Current
  <2>6. /\ Cardinality(Passed(pc)) \in Nat
        /\ Cardinality(Passed(pc + 1)) =
               Cardinality(Passed(pc)) + IF Script[pc].op = "PUSH" THEN 0 ELSE 1
    <3> DEFINE p == pc
    <3>1. p \in Nat \ {0}
        BY <1>3, <2>1
    <3> HIDE DEF p
    <3>2. /\ Cardinality(Passed(p)) \in Nat
          /\ Cardinality(Passed(p + 1)) =
                 Cardinality(Passed(p)) + IF Script[p].op = "PUSH" THEN 0 ELSE 1
        BY <3>1, PassedNext
    <3> QED BY <3>2 DEF p
  <2>7. CASE Hors /\ pc = Len(Script) - 1
    <3>1. T \in Nat /\ Len(Script) >= 3 /\ Script[pc].op = "CHECKMULTISIGVERIFY"
        BY <2>1, <2>7 DEF Tallied
    <3>2. On(Trace[pc].taken) /\ From(Trace[pc].stack, 0).n = T + 1
        BY <2>7 DEF Tallied
    <3>3. Cost(Current, Now) = 1 + (T + 1)
        BY <2>5, <3>1, <3>2 DEF Cost
    <3>4. KeysPast(pc) = 0 /\ KeysPast(pc + 1) = T + 1
        BY <1>3, <2>1, <2>7 DEF KeysPast
    <3>5. Script[pc].op # "PUSH"
        BY <3>1
    <3> HIDE DEF KeysPast
    <3> DEFINE a == Cardinality(Passed(pc))
    <3> DEFINE b == Cardinality(Passed(pc + 1))
    <3>6. /\ opCount = a + 0 /\ a \in Nat /\ b = a + 1 /\ opCount' = opCount + (1 + (T + 1))
          /\ T \in Nat
        BY <1>4, <2>4, <2>6, <3>1, <3>3, <3>4, <3>5
    <3> HIDE DEF a, b
    <3>7. opCount' = b + (T + 1)
        BY ONLY <3>6
    <3> QED BY <2>3, <3>4, <3>7 DEF b
  <2>8. CASE ~(Hors /\ pc = Len(Script) - 1)
    <3>1. Script[pc].op # "CHECKMULTISIGVERIFY"
        BY <2>1, <2>8 DEF Tallied
    <3>2. Cost(Current, Now) = IF Script[pc].op = "PUSH" THEN 0 ELSE 1
        BY <2>5, <3>1 DEF Cost
    <3>3. KeysPast(pc + 1) = KeysPast(pc) /\ KeysPast(pc) \in Nat
      <4>1. Hors => T \in Nat
          BY DEF Tallied
      <4>2. pc + 1 > Len(Script) - 1 <=> pc > Len(Script) - 1 \/ pc = Len(Script) - 1
          BY <1>3, <2>1
      <4>3. T \in Nat => T + 1 \in Nat
          OBVIOUS
      <4> QED BY <2>8, <4>1, <4>2, <4>3 DEF KeysPast
    <3> DEFINE a == Cardinality(Passed(pc))
    <3> DEFINE b == Cardinality(Passed(pc + 1))
    <3> DEFINE c == IF Script[pc].op = "PUSH" THEN 0 ELSE 1
    <3> DEFINE d == KeysPast(pc)
    <3>4. opCount = a + d /\ a \in Nat /\ d \in Nat /\ b = a + c /\ opCount' = opCount + c
          /\ c \in Nat
        BY <1>4, <2>4, <2>6, <3>2, <3>3
    <3> HIDE DEF a, b, c, d
    <3>5. opCount' = b + d
        BY ONLY <3>4
    <3> QED BY <2>3, <3>3, <3>5 DEF b, d
  <2> QED BY <2>7, <2>8
<1>6. CASE ~(pc <= Len(Script))
  <2>1. \A op : ~At(op)
      BY <1>6 DEF At, Running
  <2>2. Finish
      BY <1>6, <2>1 DEF Next, Stackwise, Skip, Else, EndIf, Branch, Running,
          PushData, Dup, Drop, Over, Swap, Add, GreaterThan, LessThanOrEqual, Within, Hash160,
          Ripemd160, Sha256, Size, Pick, RollUp, ToAlt, FromAlt, Verify, EqualVerify,
          CheckSigVerify, CheckSig, CheckMultisigVerify, CodeSeparator, If
  <2>3. pc' = pc /\ opCount' = opCount
      BY <2>2 DEF Finish, Rejects
  <2> QED BY <1>4, <2>3
<1> QED BY <1>5, <1>6

-----------------------------------------------------------------------------
(* What an accepted spend has counted.                                     *)
LEMMA CountsEnd ==
    ASSUME Sound, Follows, Tallied, Counts, status = "accepted"
    PROVE  /\ Trace[Len(Script) + 1] = Now
           /\ opCount = IF Hors THEN CountedOpcodes(Script, T) ELSE StaticOpcodes(Script)
<1>1. pc = Len(Script) + 1 /\ Trace[Len(Script) + 1] = Now /\ Len(Script) \in Nat
    BY DEF Follows, Sound
<1>2. Now.end = "none"
    BY StateIs DEF Now
<1>3. opCount = Cardinality(Passed(pc)) + KeysPast(pc)
    BY <1>1, <1>2 DEF Counts
<1>4. Cardinality(Passed(pc)) = StaticOpcodes(Script)
  <2>1. pc - 1 = Len(Script)
      BY <1>1
  <2>3. DOMAIN Script = 1 .. Len(Script)
      BY DEF Tallied
  <2>2. Passed(pc) = {k \in DOMAIN Script : Script[k].op # "PUSH"}
      BY <2>1, <2>3 DEF Passed
  <2> QED BY <2>2 DEF StaticOpcodes
<1>5. Cardinality(Passed(pc)) \in Nat
  <2> DEFINE p == pc
  <2>1. p \in Nat \ {0}
      BY <1>1
  <2> HIDE DEF p
  <2>2. Cardinality(Passed(p)) \in Nat
      BY <2>1, PassedNext
  <2> QED BY <2>2 DEF p
<1> DEFINE a == StaticOpcodes(Script)
<1>6. a \in Nat
    BY <1>4, <1>5
<1>7. CASE Hors
  <2>1. KeysPast(pc) = T + 1 /\ T \in Nat
    <3>1. pc > Len(Script) - 1
        BY <1>1
    <3> QED BY <1>7, <3>1 DEF KeysPast, Tallied
  <2>2. opCount = a + (T + 1)
      BY <1>3, <1>4, <2>1
  <2> HIDE DEF a
  <2>3. opCount = a + T + 1
      BY <1>6, <2>1, <2>2
  <2> QED BY <1>1, <1>7, <2>3 DEF a, CountedOpcodes
<1>8. CASE ~Hors
  <2>1. KeysPast(pc) = 0
      BY <1>8 DEF KeysPast
  <2>2. opCount = a + 0
      BY <1>3, <1>4, <2>1
  <2> HIDE DEF a
  <2>3. opCount = a
      BY <1>6, <2>2
  <2> QED BY <1>1, <1>8, <2>3 DEF a
<1> QED BY <1>7, <1>8

(* An accepted spend of a table has counted what limits() counts.          *)
LEMMA TableOpcodes ==
    ASSUME Given, Hors, Follows, Counts
    PROVE  OpcodesAsCounted
<1> SUFFICES ASSUME status = "accepted"
             PROVE  /\ opCount = CountedOpcodes(Script, T)
                    /\ Len(stack) = 2 * N + 1
    BY DEF OpcodesAsCounted
<1>1. HorsGiven /\ Script = Compile(N, T, Puzzle)
    BY TableGiven
<1>2. Sound /\ Tallied
    BY TableSound, TableTallied
<1>3. Trace[Len(Script) + 1] = Now /\ opCount = CountedOpcodes(Script, T)
    BY <1>2, CountsEnd
<1>4. Now.stack = stack /\ Now.end = "none"
    BY StateIs DEF Now
<1> DEFINE s == Entries(N)
<1> DEFINE x == Num(1)
<1>5. N \in Nat /\ s \in Stacks /\ Len(s) = 2 * N /\ x \in Elements
    BY <1>1, EntriesAre, NumberIs DEF HorsGiven
<1>6. Now = State(s ++ x, <<>>, <<>>)
    BY <1>1, <1>3, <1>4, HorsRuns DEF Rejected
<1> DEFINE r == s ++ x
<1> HIDE DEF s, x
<1>7. Len(r) = 2 * N + 1
    BY <1>5, OneOn
<1>8. Now = State(r, <<>>, <<>>)
    BY <1>6
<1> HIDE DEF r
<1>9. stack = r
    BY <1>4, <1>8, StateIs
<1> QED BY <1>3, <1>7, <1>9

-----------------------------------------------------------------------------
(* What is given stays given.                                              *)
LEMMA GivenStays ==
    ASSUME Given, UNCHANGED given
    PROVE  Given'
<1>1. N' = N /\ T' = T /\ Puzzle' = Puzzle /\ (Hors' <=> Hors)
      /\ witness' = witness /\ hits' = hits /\ signed' = signed /\ instance' = instance
    BY GivenFixes
<1>2. InitHors' <=> InitHors
    BY <1>1 DEF InitHors
<1>3. InitCandidate' <=> InitCandidate
    BY <1>1 DEF InitCandidate
<1> QED BY <1>1, <1>2, <1>3 DEF Given
=============================================================================
