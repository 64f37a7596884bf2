-------------------------- MODULE OutputDirectory --------------------------
(***************************************************************************)
(* What the runs leave in their output directory (btc_pq/phase2.py,        *)
(* phase3.py, toy.py, experiments.py).  A run writes its fixtures -- the   *)
(* setup blocks, the funding transaction, then the transaction and block   *)
(* of each case -- one file after the other, and last results.json, which  *)
(* names them for a later replay.  A failed run leaves partial-results.json*)
(* behind, and the next run may start in the same directory.               *)
(*                                                                         *)
(* Path.write_text() truncates the file and then fills it: a run that is   *)
(* killed, or that fails (a full disk, an interrupt), in between leaves a  *)
(* torn file.  One run at a time uses a directory.                         *)
(***************************************************************************)
EXTENDS Naturals

CONSTANTS
    NSetup,     \* fixtures written before the first search
    NFixtures,  \* all the fixtures results.json names
    MaxRuns     \* bound: runs started in this directory

ASSUME FixtureAssumption ==
    /\ NFixtures \in Nat
    /\ NSetup \in 1 .. NFixtures - 1
ASSUME RunAssumption == MaxRuns \in Nat \ {0}

Fixtures == 1 .. NFixtures
Runs == 1 .. MaxRuns
Drivers == {"phase2", "phase3", "toy", "experiments"}

VARIABLES
    driver,     \* the module whose run() uses the directory
    made,       \* the directory has its blocks/ subdirectory
    fixtures,   \* the content of each fixture
    results,    \* the content of results.json
    partial,    \* the content of partial-results.json
    run,        \* the current or latest run
    pos,        \* the fixture it writes next
    stage       \* where it is

dirVars == <<driver, made, fixtures, results, partial, run, pos, stage>>

(* A file is absent, or carries the run that wrote it and is whole or torn.*)
Absent == [run |-> 0, whole |-> FALSE]
Torn == [run |-> run, whole |-> FALSE]
Whole == [run |-> run, whole |-> TRUE]

DirInit ==
    /\ driver \in Drivers
    /\ made = FALSE
    /\ fixtures = [f \in Fixtures |-> Absent]
    /\ results = Absent
    /\ partial = Absent
    /\ run = 0
    /\ pos = 1
    /\ stage = "idle"

-----------------------------------------------------------------------------
(* phase 2 and 3 refuse a directory that holds results.json, the toy run   *)
(* one that holds anything; experiments.run() looks at nothing.            *)
RefusesPartial ==                   \* mutant: looks for the wrong file
    \/ driver \in {"phase2", "phase3"} /\ partial # Absent
    \/ driver = "toy" /\ made
Refuses ==
    \/ driver \in {"phase2", "phase3"} /\ results # Absent
    \/ driver = "toy" /\ made

Begin ==
    /\ stage = "idle"
    /\ run < MaxRuns
    /\ ~Refuses
    /\ made' = TRUE
    /\ run' = run + 1
    /\ pos' = 1
    /\ stage' = "write"
    /\ UNCHANGED <<driver, fixtures, results, partial>>

Written == pos > NFixtures

Truncate ==
    /\ stage = "write"
    /\ ~Written
    /\ fixtures' = [fixtures EXCEPT ![pos] = Torn]
    /\ stage' = "fill"
    /\ UNCHANGED <<driver, made, results, partial, run, pos>>

(* phase 2 and the toy run save their progress before the first case.      *)
SavesAtEndOnly == FALSE             \* mutant: only failures are saved
SavesProgress == driver \in {"phase2", "toy"} /\ pos = NSetup

Fill ==
    /\ stage = "fill"
    /\ fixtures' = [fixtures EXCEPT ![pos] = Whole]
    /\ pos' = pos + 1
    /\ stage' = IF SavesProgress THEN "progress" ELSE "write"
    /\ UNCHANGED <<driver, made, results, partial, run>>

(* After the run's own replay has read the fixtures back, results.json is  *)
(* written, and partial-results.json removed where the code removes it.    *)
TruncateResults ==
    /\ stage = "write"
    /\ Written
    /\ results' = Torn
    /\ stage' = "results"
    /\ UNCHANGED <<driver, made, fixtures, partial, run, pos>>

FillResults ==
    /\ stage = "results"
    /\ results' = Whole
    /\ stage' = IF driver = "experiments" THEN "idle" ELSE "unlink"
    /\ UNCHANGED <<driver, made, fixtures, partial, run, pos>>

Unlink ==
    /\ stage = "unlink"
    /\ partial' = Absent
    /\ stage' = "idle"
    /\ UNCHANGED <<driver, made, fixtures, results, run, pos>>

(* An exception at any point: phase 2, phase 3 and the toy run save their  *)
(* result as incomplete and re-raise; experiments.run() just raises, unless*)
(* a case's verdict was not the expected one.                              *)
Reports == driver # "experiments" \/ (stage = "write" /\ pos > NSetup)

Fail ==
    /\ stage \notin {"idle", "report"}
    /\ Reports
    /\ stage' = "report"
    /\ UNCHANGED <<driver, made, fixtures, results, partial, run, pos>>

TruncatePartial ==
    /\ stage \in {"progress", "report"}
    /\ partial # Torn
    /\ partial' = Torn
    /\ UNCHANGED <<driver, made, fixtures, results, run, pos, stage>>

FillPartial ==
    /\ stage \in {"progress", "report"}
    /\ partial = Torn
    /\ partial' = Whole
    /\ stage' = IF stage = "progress" THEN "write" ELSE "idle"
    /\ UNCHANGED <<driver, made, fixtures, results, run, pos>>

(* SIGKILL, a power cut, or an exception nothing handles: the run is over. *)
Kill ==
    /\ stage # "idle"
    /\ stage' = "idle"
    /\ UNCHANGED <<driver, made, fixtures, results, partial, run, pos>>

DirNext ==
    \/ Begin \/ Truncate \/ Fill
    \/ TruncateResults \/ FillResults \/ Unlink
    \/ Fail \/ TruncatePartial \/ FillPartial \/ Kill

DirSpec == DirInit /\ [][DirNext]_dirVars

-----------------------------------------------------------------------------
Content == [run : 0 .. MaxRuns, whole : BOOLEAN]

(* The state is well formed: every file is absent or written by a run that *)
(* has begun.                                                              *)
DirTypeOK ==
    /\ driver \in Drivers
    /\ made \in BOOLEAN
    /\ fixtures \in [Fixtures -> Content]
    /\ results \in Content
    /\ partial \in Content
    /\ run \in 0 .. MaxRuns
    /\ pos \in 1 .. NFixtures + 1
    /\ stage \in {"idle", "write", "fill", "progress", "results", "unlink", "report"}

(* replay() of the directory succeeds: every fixture results.json names is *)
(* whole and from the run that wrote it.                                   *)
Replays ==
    \A f \in Fixtures : fixtures[f] = results

(* Once results.json can be read, the saved chain can be replayed: no later*)
(* run, however it ends, has touched a fixture it names.                   *)
GuardedResultsReplay ==
    driver # "experiments" /\ results.whole => Replays

(* A readable results.json is final: no run starts over it.                *)
ResultsAreFinal ==
    [][driver # "experiments" /\ results.whole => results' = results]_dirVars

(* A partial-results.json beside results.json is not the leftover of an    *)
(* earlier run: a run that completes has saved its own progress before.    *)
PartialIsOwn ==
    driver \in {"phase2", "toy"} /\ results.whole /\ partial # Absent
        => partial.run = results.run

(* What "replay the saved chain in a fresh isolated node" (cli.py) needs of*)
(* every driver.  experiments.run() overwrites the fixtures of a finished  *)
(* run, and when it does not finish itself the old results.json stays.     *)
SavedChainReplays == stage = "idle" /\ results.whole => Replays
=============================================================================
