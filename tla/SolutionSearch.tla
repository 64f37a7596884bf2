--------------------------- MODULE SolutionSearch ---------------------------
(***************************************************************************)
(* What a two-stage puzzle search promises, whatever loop produces it.     *)
(*                                                                         *)
(* A solution is a pair <<c, s>>: the transaction variant (sequence        *)
(* counter) c satisfies the pinning puzzle and the s-th subset, in         *)
(* lexicographic order, satisfies the digest puzzle of that same variant.  *)
(* The search ends once, with the least solution, with an admission that   *)
(* the whole counter space holds none, or with an exhausted budget; it     *)
(* never ends with something that is not a solution.                       *)
(***************************************************************************)
EXTENDS Naturals

CONSTANTS
    Space,      \* number of transaction variants
    NSubsets    \* number of subsets of the public table

Counters == 0 .. Space - 1
SubsetIdx == 0 .. NSubsets - 1

VARIABLES
    pinHits,    \* the counters whose digest passes the pinning puzzle
    subHits,    \* the <<counter, subset>> pairs that pass the digest puzzle
    status,     \* "searching", "found", "budget" or "space"
    solution    \* the <<counter, subset>> pair found; <<>> without one

oracle == <<pinHits, subHits>>
vars == <<pinHits, subHits, status, solution>>

IsSolution(c, s) == c \in pinHits /\ <<c, s>> \in subHits

(* Counter first, then the lexicographic rank of the subset. *)
Precedes(c, s, d, t) == c < d \/ (c = d /\ s < t)

IsLeastSolution(c, s) ==
    /\ IsSolution(c, s)
    /\ \A d \in Counters, t \in SubsetIdx :
          Precedes(d, t, c, s) => ~IsSolution(d, t)

Init ==
    /\ pinHits \in SUBSET Counters
    /\ subHits \in SUBSET (pinHits \X SubsetIdx)
    /\ status = "searching"
    /\ solution = <<>>

Find ==
    /\ status = "searching"
    /\ \E c \in Counters, s \in SubsetIdx :
          IsLeastSolution(c, s) /\ solution' = <<c, s>>
    /\ status' = "found"
    /\ UNCHANGED oracle

AdmitNone ==
    /\ status = "searching"
    /\ \A c \in Counters, s \in SubsetIdx : ~IsSolution(c, s)
    /\ status' = "space"
    /\ UNCHANGED <<oracle, solution>>

GiveUp ==
    /\ status = "searching"
    /\ status' = "budget"
    /\ UNCHANGED <<oracle, solution>>

Next == Find \/ AdmitNone \/ GiveUp

Spec == Init /\ [][Next]_vars
=============================================================================
