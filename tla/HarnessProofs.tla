--------------------------- MODULE HarnessProofs ---------------------------
(* What surrounds every run: the node process, for any number of polls and *)
(* calls and any node (CoreLifecycle), and the output directory, for any   *)
(* number of files and of runs (OutputDirectory).  The two share no state  *)
(* and are proved one after the other.                                     *)
EXTENDS CoreLifecycle, OutputDirectory, TLAPS

USE LifecycleAssumption, FixtureAssumption, RunAssumption

-----------------------------------------------------------------------------
(* What each stage of the statement knows of the process and the files: no *)
(* process before Popen, none once wait() has returned, the directory      *)
(* removed only after that, and the stop call answered only by __exit__.   *)
StageInv ==
    /\ pc = "enter" => node.run = "none"
    /\ pc = "cleanup" => ~Alive(node.run)
    /\ pc \in Entering \union {"body", "stop"} => stopAnswer = "none"
    /\ pc \in Leaving \ {"stop"} => stopAnswer # "garbled"
    /\ datadir = "removed" => pc = "left"

(* A poll that is under way is one of those allowed.                       *)
PollInv == pc = "ask" => tries < Polls

Inv == TypeOK /\ StageInv /\ PollInv /\ NothingOutlives

RunStates == {"none", "starting", "warming", "serving", "stopping", "dead"}
Nodes == [run : RunStates, loaded : BOOLEAN]

-----------------------------------------------------------------------------
(* What a call may come to is one of the five outcomes, and only an        *)
(* unreadable answer is none that __exit__ handles.                        *)
LEMMA AnswersHandled ==
    ASSUME NEW answer \in StopOutcomes
    PROVE  /\ answer \in {"ok", "refused", "error", "garbled", "unread"}
           /\ answer = "ok" \/ Handles(answer) \/ answer = "garbled"
<1>1. \A r : Answers(r) \subseteq {"ok", "refused", "error", "garbled"}
    BY DEF Answers
<1> QED BY <1>1 DEF StopOutcomes, Handles

(* Nothing has been started yet.                                           *)
LEMMA InitInv == Init => Inv
<1> SUFFICES ASSUME Init PROVE Inv
    OBVIOUS
<1>1. TypeOK
  <2>1. 0 \in 0 .. Polls /\ 0 \in 0 .. Calls
      OBVIOUS
  <2> QED BY <2>1 DEF Init, TypeOK, Entering
<1>2. StageInv /\ PollInv /\ NothingOutlives
    BY DEF Init, StageInv, PollInv, NothingOutlives, Entering, Leaving
<1> QED BY <1>1, <1>2 DEF Inv

(* The node, whatever it does, comes back to life at no stage.             *)
LEMMA NodeKeepsInv == Inv /\ NodeStep => Inv'
<1> SUFFICES ASSUME Inv, NodeStep PROVE Inv'
    OBVIOUS
<1>1. /\ node' \in Nodes /\ Alive(node.run)
      /\ UNCHANGED <<config, python, files>>
    BY DEF NodeStep, Inv, TypeOK, Nodes, RunStates, Alive
<1>2. TypeOK' /\ PollInv'
    BY <1>1 DEF Inv, TypeOK, PollInv, Nodes, RunStates, python, files
<1>3. pc \notin {"enter", "cleanup"} /\ datadir # "removed"
      /\ (pc = "left" => stopAnswer = "garbled")
    BY <1>1 DEF Inv, StageInv, NothingOutlives, Alive
<1> QED BY <1>1, <1>2, <1>3 DEF Inv, StageInv, NothingOutlives, python, files

(* Starting a node, asking it and setting it up: no stop call yet.         *)
LEMMA EnterKeepsInv == Inv /\ Enter => Inv'
<1> SUFFICES ASSUME Inv, Enter PROVE Inv'
    OBVIOUS
<1> USE DEF Inv, TypeOK, StageInv, PollInv, NothingOutlives, Entering, Leaving, Stays,
            config, files
<1>1. CASE Launch
    BY <1>1 DEF Launch
<1>2. CASE LaunchFails
    BY <1>2 DEF LaunchFails, Alive
<1>3. CASE PollAlive
    BY <1>3 DEF PollAlive, PollsLeft
<1>4. CASE PollFails
    BY <1>4 DEF PollFails, Raise, LeaveBy
<1>5. CASE AskNoCookie
    BY <1>5 DEF AskNoCookie
<1>6. CASE Ask
  <2>1. /\ pc = "ask" /\ auth' = TRUE /\ tries < Polls
        /\ UNCHANGED <<calls, address, wallet, stopAnswer, config, files, node>>
      BY <1>6 DEF Ask
  <2>2. \/ pc' = "version" /\ UNCHANGED <<tries, raised>>
        \/ pc' = "poll" /\ tries' = tries + 1 /\ UNCHANGED raised
        \/ pc' = "stop" /\ raised' = TRUE /\ UNCHANGED tries
      BY <1>6 DEF Ask, LeaveBy
  <2>3. tries' \in 0 .. Polls
      BY <2>1, <2>2
  <2>4. raised' \in BOOLEAN /\ pc' \in {"version", "poll", "stop"}
      BY <2>2
  <2> QED BY <2>1, <2>3, <2>4
<1>7. CASE CheckVersion
    BY <1>7 DEF CheckVersion, LeaveBy
<1>8. CASE CreateWallet
    BY <1>8 DEF CreateWallet, LeaveBy
<1>9. CASE GetAddress
    BY <1>9 DEF GetAddress, LeaveBy
<1> QED BY <1>1, <1>2, <1>3, <1>4, <1>5, <1>6, <1>7, <1>8, <1>9 DEF Enter

(* Stopping: past wait() the process has ended, and only then is the       *)
(* directory removed.                                                      *)
LEMMA ExitKeepsInv == Inv /\ Exit => Inv'
<1> SUFFICES ASSUME Inv, Exit PROVE Inv'
    OBVIOUS
<1> USE DEF Inv, TypeOK, StageInv, PollInv, NothingOutlives, Entering, Leaving, Stays,
            config, files
<1>1. CASE Stop
  <2>1. PICK answer \in StopOutcomes :
          /\ stopAnswer' = answer
          /\ \/ node' = [node EXCEPT !.run = "stopping"]
             \/ UNCHANGED node
          /\ \/ /\ answer = "ok" \/ Handles(answer)
                /\ pc' \in {"wait", "terminate"} /\ UNCHANGED <<raised, files>>
             \/ /\ answer = "garbled"
                /\ Escape
    <3>1. PICK answer \in StopOutcomes :
            /\ stopAnswer' = answer
            /\ \/ answer = "ok" /\ node' = [node EXCEPT !.run = "stopping"]
               \/ MayHaveActed(answer) /\ node' = [node EXCEPT !.run = "stopping"]
               \/ answer # "ok" /\ UNCHANGED node
            /\ CASE answer = "ok" -> pc' = "wait" /\ UNCHANGED <<raised, files>>
                 [] Handles(answer) -> pc' = "terminate" /\ UNCHANGED <<raised, files>>
                 [] OTHER -> Escape
        BY <1>1 DEF Stop
    <3>2. answer = "ok" \/ Handles(answer) \/ answer = "garbled"
        BY <3>1, AnswersHandled
    <3>3. CASE answer = "ok"
        BY <3>1, <3>3 DEF Handles
    <3>4. CASE Handles(answer)
        BY <3>1, <3>4 DEF Handles
    <3>5. CASE answer = "garbled"
        BY <3>1, <3>5 DEF Handles
    <3> QED BY <3>2, <3>3, <3>4, <3>5
  <2>2. /\ answer \in {"ok", "refused", "error", "garbled", "unread"}
        /\ answer = "ok" \/ Handles(answer) => answer # "garbled"
      BY AnswersHandled DEF Handles
  <2>3. UNCHANGED <<tries, calls, auth, address, wallet>> /\ pc = "stop" /\ datadir # "removed"
      BY <1>1 DEF Stop
  <2> QED BY <2>1, <2>2, <2>3 DEF Escape
<1>2. CASE Terminate
    BY <1>2 DEF Terminate
<1>3. CASE WaitEnds
    BY <1>3 DEF WaitEnds
<1>4. CASE WaitExpires
    BY <1>4 DEF WaitExpires, Killed
<1>5. CASE Reap
    BY <1>5 DEF Reap
<1>6. CASE Cleanup
    BY <1>6 DEF Cleanup
<1> QED BY <1>1, <1>2, <1>3, <1>4, <1>5, <1>6 DEF Exit

(* Every step keeps the invariant.                                         *)
LEMMA StepInv == Inv /\ [Next]_vars => Inv'
<1> SUFFICES ASSUME Inv, [Next]_vars PROVE Inv'
    OBVIOUS
<1>1. CASE Body \/ Interrupt
  <2>1. /\ pc \in (Entering \ {"enter"}) \union {"body"}
        /\ UNCHANGED <<tries, auth, address, wallet, stopAnswer, config, files, node>>
        /\ calls' \in 0 .. Calls
        /\ pc' = pc \/ pc' = "stop"
        /\ raised' \in BOOLEAN
    <3> USE DEF Inv, TypeOK, Stays
    <3>1. CASE BodyCall
      <4>1. /\ calls < Calls /\ calls' = calls + 1 /\ pc = "body"
            /\ UNCHANGED <<tries, auth, address, wallet, stopAnswer, config, files, node>>
          BY <3>1 DEF BodyCall
      <4>2. (pc' = pc /\ raised' = raised) \/ (pc' = "stop" /\ raised' = TRUE)
          BY <3>1 DEF BodyCall, LeaveBy
      <4>3. calls' \in 0 .. Calls
          BY <4>1
      <4>4. raised' \in BOOLEAN
          BY <4>2
      <4> QED BY <4>1, <4>2, <4>3, <4>4
    <3>2. CASE BodyEnds
        BY <1>1, <3>2 DEF BodyEnds, LeaveBy
    <3>3. CASE Interrupt
        BY <1>1, <3>3 DEF Interrupt, Raise, LeaveBy
    <3> QED BY <1>1, <3>1, <3>2, <3>3 DEF Body
  <2> QED BY <2>1 DEF Inv, TypeOK, StageInv, PollInv, NothingOutlives, Entering, Leaving,
                      config, files
<1>2. CASE UNCHANGED vars
    BY <1>2 DEF vars, config, python, files, Inv, TypeOK, StageInv, PollInv, NothingOutlives
<1> QED BY <1>1, <1>2, NodeKeepsInv, EnterKeepsInv, ExitKeepsInv DEF Next, Python

-----------------------------------------------------------------------------
(* The invariant holds throughout.                                         *)
THEOREM Invariance == Spec => []Inv
BY InitInv, StepInv, PTL DEF Spec

(* The state stays well formed, and the polls within their limit.          *)
THEOREM TypeCorrect == Spec => []TypeOK
<1>1. Inv => TypeOK BY DEF Inv
<1> QED BY <1>1, Invariance, PTL

(* However the statement is left, no process outlives it and no directory  *)
(* stays, but for the exceptions the property names.                       *)
THEOREM Outlives == Spec => []NothingOutlives
<1>1. Inv => NothingOutlives BY DEF Inv
<1> QED BY <1>1, Invariance, PTL

-----------------------------------------------------------------------------
Guarded == driver # "experiments"
Saves == driver \in {"phase2", "toy"}

(* A run in progress has begun in this directory, and the fixtures before  *)
(* pos are its own.                                                        *)
RunInv ==
    /\ stage # "idle" => made /\ run >= 1
    /\ ~made => results = Absent
    /\ stage = "fill" => pos <= NFixtures
    /\ stage = "progress" => pos = NSetup + 1
    /\ stage \in {"results", "unlink"} => pos = NFixtures + 1
    /\ stage \in {"write", "fill", "progress", "results", "unlink"} =>
         \A f \in Fixtures : f < pos => fixtures[f] = Whole

(* A guarded driver's results.json is the current run's, and nothing is    *)
(* written once it is whole.                                               *)
ResultsInv ==
    Guarded =>
        /\ stage \in {"write", "fill", "progress"} => results = Absent
        /\ stage = "results" => results = Torn
        /\ stage = "unlink" => results = Whole
        /\ results.whole => results = Whole /\ Replays

(* A run that saves its progress has done so once it is past the setup.    *)
PartialInv ==
    Saves =>
        /\ stage \in {"write", "fill", "results", "unlink"} /\ pos > NSetup => partial.run = run
        /\ results.whole => partial = Absent \/ partial.run = run

DirInv == DirTypeOK /\ RunInv /\ ResultsInv /\ PartialInv

(* The empty directory satisfies the invariant.                            *)
LEMMA DirInitInv == DirInit => DirInv
<1> SUFFICES ASSUME DirInit PROVE DirInv
    OBVIOUS
<1> USE DEF DirInit, Absent
<1>1. DirTypeOK
  <2>1. Absent \in Content
      BY DEF Content
  <2>2. pos \in 1 .. NFixtures + 1 /\ run \in 0 .. MaxRuns
      OBVIOUS
  <2>3. fixtures \in [Fixtures -> Content]
      BY <2>1
  <2> QED BY <2>1, <2>2, <2>3 DEF DirTypeOK, Drivers
<1>2. RunInv BY DEF RunInv
<1>3. ResultsInv BY DEF ResultsInv
<1>4. PartialInv BY DEF PartialInv
<1> QED BY <1>1, <1>2, <1>3, <1>4 DEF DirInv

(* Type correctness is inductive together with the run's own invariant.    *)
LEMMA StepTypes == DirTypeOK /\ RunInv /\ [DirNext]_dirVars => DirTypeOK'
<1> SUFFICES ASSUME DirTypeOK, RunInv, [DirNext]_dirVars PROVE DirTypeOK'
    OBVIOUS
<1> USE DEF DirTypeOK, Content, Absent, Torn, Whole, Fixtures, Drivers
<1>1. CASE Begin BY <1>1 DEF Begin
<1>2. CASE Truncate BY <1>2 DEF Truncate
<1>3. CASE Fill BY <1>3 DEF Fill, RunInv
<1>4. CASE TruncateResults BY <1>4 DEF TruncateResults
<1>5. CASE FillResults BY <1>5 DEF FillResults
<1>6. CASE Unlink BY <1>6 DEF Unlink
<1>7. CASE Fail BY <1>7 DEF Fail
<1>8. CASE TruncatePartial BY <1>8 DEF TruncatePartial
<1>9. CASE FillPartial BY <1>9 DEF FillPartial
<1>10. CASE Kill BY <1>10 DEF Kill
<1>11. CASE UNCHANGED dirVars BY <1>11 DEF dirVars
<1> QED BY <1>1, <1>2, <1>3, <1>4, <1>5, <1>6, <1>7, <1>8, <1>9, <1>10, <1>11 DEF DirNext

(* Every action keeps what a run in progress has written.                  *)
LEMMA StepRun == DirInv /\ [DirNext]_dirVars => RunInv'
<1> SUFFICES ASSUME DirInv, [DirNext]_dirVars PROVE RunInv'
    OBVIOUS
<1> USE DEF DirInv, DirTypeOK, RunInv, Content, Absent, Torn, Whole, Fixtures
<1>1. CASE Begin BY <1>1 DEF Begin
<1>2. CASE Truncate
  <2>1. \A f \in Fixtures : f < pos => fixtures'[f] = fixtures[f]
      BY <1>2 DEF Truncate
  <2>2. \A f \in Fixtures : f < pos' => fixtures'[f] = Whole'
    <3>1. \A f \in Fixtures : f < pos => fixtures[f] = Whole
        BY <1>2 DEF Truncate
    <3>2. pos' = pos /\ Whole' = Whole
        BY <1>2 DEF Truncate
    <3> HIDE DEF DirInv, DirTypeOK, RunInv, Whole
    <3> QED BY <2>1, <3>1, <3>2
  <2>3. stage' = "fill" /\ pos' <= NFixtures /\ made' /\ run' >= 1 /\ UNCHANGED <<made, results>>
      BY <1>2 DEF Truncate, Written
  <2> HIDE DEF DirInv, DirTypeOK, Whole
  <2> QED BY <2>2, <2>3
<1>3. CASE Fill
  <2>1. /\ pos \in Fixtures /\ pos' = pos + 1
        /\ fixtures'[pos] = Whole
        /\ \A f \in Fixtures : f # pos => fixtures'[f] = fixtures[f]
      BY <1>3 DEF Fill
  <2>2. \A f \in Fixtures : f < pos' => fixtures'[f] = Whole'
    <3>1. \A f \in Fixtures : f < pos => fixtures[f] = Whole
        BY <1>3 DEF Fill
    <3>2. Whole' = Whole
        BY <1>3 DEF Fill
    <3>3. \A f \in Fixtures : f < pos + 1 => f < pos \/ f = pos
        BY <2>1
    <3> HIDE DEF DirInv, DirTypeOK, RunInv, Whole, Fixtures
    <3> QED BY <2>1, <3>1, <3>2, <3>3
  <2>3. stage' = "progress" => pos = NSetup
      BY <1>3 DEF Fill, SavesProgress
  <2>4. stage' \in {"progress", "write"} /\ made /\ run >= 1 /\ UNCHANGED <<made, results, run>>
      BY <1>3 DEF Fill
  <2> QED BY <2>1, <2>2, <2>3, <2>4
<1>4. CASE TruncateResults BY <1>4 DEF TruncateResults, Written
<1>5. CASE FillResults BY <1>5 DEF FillResults
<1>6. CASE Unlink BY <1>6 DEF Unlink
<1>7. CASE Fail BY <1>7 DEF Fail
<1>8. CASE TruncatePartial BY <1>8 DEF TruncatePartial
<1>9. CASE FillPartial BY <1>9 DEF FillPartial
<1>10. CASE Kill BY <1>10 DEF Kill
<1>11. CASE UNCHANGED dirVars BY <1>11 DEF dirVars
<1> QED BY <1>1, <1>2, <1>3, <1>4, <1>5, <1>6, <1>7, <1>8, <1>9, <1>10, <1>11 DEF DirNext

(* Every action keeps a whole results.json and the fixtures it names.      *)
LEMMA StepResults == DirInv /\ [DirNext]_dirVars => ResultsInv'
<1> SUFFICES ASSUME DirInv, [DirNext]_dirVars, Guarded' PROVE ResultsInv'
    BY DEF ResultsInv
<1>0. Guarded
    BY DEF Guarded, DirNext, Begin, Truncate, Fill, TruncateResults, FillResults,
           Unlink, Fail, TruncatePartial, FillPartial, Kill, dirVars
<1> USE <1>0 DEF DirInv, DirTypeOK, RunInv, ResultsInv, Replays, Content, Absent,
                 Torn, Whole, Fixtures, Drivers
<1>1. CASE Begin BY <1>1 DEF Begin, Refuses, Guarded
<1>2. CASE Truncate BY <1>2 DEF Truncate
<1>3. CASE Fill BY <1>3 DEF Fill
<1>4. CASE TruncateResults BY <1>4 DEF TruncateResults
<1>5. CASE FillResults BY <1>5 DEF FillResults, Guarded
<1>6. CASE Unlink BY <1>6 DEF Unlink
<1>7. CASE Fail BY <1>7 DEF Fail
<1>8. CASE TruncatePartial BY <1>8 DEF TruncatePartial
<1>9. CASE FillPartial BY <1>9 DEF FillPartial
<1>10. CASE Kill BY <1>10 DEF Kill
<1>11. CASE UNCHANGED dirVars BY <1>11 DEF dirVars
<1> QED BY <1>1, <1>2, <1>3, <1>4, <1>5, <1>6, <1>7, <1>8, <1>9, <1>10, <1>11 DEF DirNext

(* Every action keeps the ownership of partial-results.json.               *)
LEMMA StepPartial == DirInv /\ [DirNext]_dirVars => PartialInv'
<1> SUFFICES ASSUME DirInv, [DirNext]_dirVars, Saves' PROVE PartialInv'
    BY DEF PartialInv
<1>0. Saves
    BY DEF Saves, DirNext, Begin, Truncate, Fill, TruncateResults, FillResults,
           Unlink, Fail, TruncatePartial, FillPartial, Kill, dirVars
<1> USE <1>0 DEF DirInv, DirTypeOK, RunInv, ResultsInv, PartialInv, Content, Absent,
                 Torn, Whole, Fixtures, Guarded, Saves
<1>1. CASE Begin BY <1>1 DEF Begin, Refuses
<1>2. CASE Truncate BY <1>2 DEF Truncate
<1>3. CASE Fill BY <1>3 DEF Fill, SavesProgress
<1>4. CASE TruncateResults BY <1>4 DEF TruncateResults, Written
<1>5. CASE FillResults BY <1>5 DEF FillResults
<1>6. CASE Unlink BY <1>6 DEF Unlink
<1>7. CASE Fail BY <1>7 DEF Fail
<1>8. CASE TruncatePartial BY <1>8 DEF TruncatePartial
<1>9. CASE FillPartial BY <1>9 DEF FillPartial
<1>10. CASE Kill BY <1>10 DEF Kill
<1>11. CASE UNCHANGED dirVars BY <1>11 DEF dirVars
<1> QED BY <1>1, <1>2, <1>3, <1>4, <1>5, <1>6, <1>7, <1>8, <1>9, <1>10, <1>11 DEF DirNext

(* The invariant holds throughout.                                         *)
THEOREM DirInvariance == DirSpec => []DirInv
<1>1. DirInv /\ [DirNext]_dirVars => DirInv'
    BY StepTypes, StepRun, StepResults, StepPartial DEF DirInv
<1> QED BY <1>1, DirInitInv, PTL DEF DirSpec

(* The state stays well formed.                                            *)
THEOREM DirTypeCorrect == DirSpec => []DirTypeOK
<1>1. DirInv => DirTypeOK BY DEF DirInv
<1> QED BY <1>1, DirInvariance, PTL

(* A readable results.json of phase 2, phase 3 or the toy run names only   *)
(* whole fixtures of the run that wrote it, whatever was killed, failed or *)
(* started since.                                                          *)
THEOREM GuardedReplay == DirSpec => []GuardedResultsReplay
<1>1. DirInv => GuardedResultsReplay
    BY DEF DirInv, ResultsInv, GuardedResultsReplay, Guarded
<1> QED BY <1>1, DirInvariance, PTL

(* A partial-results.json beside it is the same run's.                     *)
THEOREM PartialOwned == DirSpec => []PartialIsOwn
<1>1. DirInv => PartialIsOwn
    BY DEF DirInv, ResultsInv, PartialInv, PartialIsOwn, Saves, Guarded, Whole
<1> QED BY <1>1, DirInvariance, PTL

(* No step changes a readable results.json.                                *)
THEOREM ResultsFinal == DirSpec => ResultsAreFinal
<1>1. DirInv /\ [DirNext]_dirVars => [driver # "experiments" /\ results.whole => results' = results]_dirVars
  <2> SUFFICES ASSUME DirInv, DirNext, driver # "experiments", results.whole PROVE results' = results
      OBVIOUS
  <2>1. stage \notin {"write", "results"}
      BY DEF DirInv, ResultsInv, Guarded, Absent, Torn
  <2> QED BY <2>1 DEF DirNext, Begin, Truncate, Fill, TruncateResults, FillResults, Unlink,
                     Fail, TruncatePartial, FillPartial, Kill
<1> QED BY <1>1, DirInvariance, PTL DEF DirSpec, ResultsAreFinal
=============================================================================
