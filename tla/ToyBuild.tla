------------------------------ MODULE ToyBuild ------------------------------
(***************************************************************************)
(* The build cache of the modified node (btc_pq/toy_build.py, build()) and *)
(* the test toy.py makes of it before each run (check_build()).            *)
(*                                                                         *)
(* build() hashes its inputs, replaces the patched copy of the Core tree   *)
(* when its stamp names other inputs, has Ninja compile what was out of    *)
(* date, and records the hashes of inputs and binaries in a manifest.  It  *)
(* may fail or be killed between any two steps, and the inputs are files   *)
(* that people edit.                                                       *)
(*                                                                         *)
(* Ninja compares modification times: an object is compiled again if it is *)
(* missing or its source is newer.  A file unpacked from git archive has   *)
(* the time of the commit, one touched by the patch the current time.      *)
(***************************************************************************)
EXTENDS Integers, FiniteSets

CONSTANTS
    Versions,       \* contents the patch may have: a range of numbers from 1
    OwnVersions,    \* contents native/toy_search.cpp may have, likewise
    Files,          \* Core source files some version of the patch touches
    Touches,        \* the files each version of the patch touches
    Own             \* the object compiled from native/toy_search.cpp

ASSUME BuildAssumption ==
    /\ Versions \subseteq Nat \ {0} /\ OwnVersions \subseteq Nat \ {0}
    /\ 1 \in Versions \intersect OwnVersions
    /\ Touches \in [Versions -> SUBSET Files]
    /\ Own \notin Files

Pristine == 0       \* content of a Core file no patch has touched
Missing == -1       \* no such file, object or stamp
Torn == -2          \* a stamp that was created but not written

Objects == Files \union {Own}

VARIABLES
    reverts,    \* how the inputs are edited, see Edit
    inputs,     \* [patch, own]: the versions of the input files now
    pc,         \* the next step of build(), or "idle"
    hashes,     \* the versions build() hashed when it started
    source,     \* SOURCE: [exists, files, stamp]
    work,       \* the objects Ninja has still to compile
    newer,      \* objects whose source has a later modification time
    objects,    \* what each object was compiled from
    binaries,   \* what was linked into the binaries, object by object
    manifest    \* [state, inputs, binaries]: the hashes check_build() reads

cache == <<source, newer, objects, binaries, manifest>>
buildVars == <<reverts, work, inputs, pc, hashes, cache>>

Nowhere == [exists |-> FALSE, files |-> [f \in Files |-> Missing], stamp |-> Missing]
Nothing == [o \in Objects |-> Missing]
FirstInputs == [patch |-> 1, own |-> 1]
NoHashes == [patch |-> Missing, own |-> Missing]     \* out of build()

BuildInit ==
    /\ reverts \in BOOLEAN
    /\ inputs = FirstInputs
    /\ pc = "idle"
    /\ hashes = NoHashes
    /\ source = Nowhere
    /\ work = {}
    /\ newer = {}
    /\ objects = Nothing
    /\ binaries = Nothing
    /\ manifest = [state |-> "missing", inputs |-> NoHashes, binaries |-> Nothing]

-----------------------------------------------------------------------------
(* Someone edits an input.  Either the edits, among them reverts to an     *)
(* earlier content, keep out of a running build, or they come at any time  *)
(* but never bring a content back.  With both, a content that was replaced *)
(* while a build ran and put back after it would go unnoticed.             *)
Edit ==
    /\ \E name \in {"patch", "own"}, v \in Versions \union OwnVersions :
          /\ v \in IF name = "own" THEN OwnVersions ELSE Versions
          /\ IF reverts THEN pc = "idle" /\ v # inputs[name] ELSE v > inputs[name]
          /\ inputs' = [inputs EXCEPT ![name] = v]
          /\ newer' = IF name = "own" THEN newer \union {Own} ELSE newer
    /\ UNCHANGED <<reverts, work, pc, hashes, source, objects, binaries, manifest>>

-----------------------------------------------------------------------------
(* build(): hash the inputs, then look at the stamp.                       *)
StartBuild ==
    /\ pc = "idle"
    /\ hashes' = inputs
    /\ pc' = "source"
    /\ UNCHANGED <<reverts, work, inputs, cache>>

Stamped(v) == source.stamp = v

KeptAnyStamp == source.exists /\ source.stamp \notin {Missing, Torn}  \* mutant
Kept == source.exists /\ Stamped(hashes.patch)

KeepSource ==
    /\ pc = "source"
    /\ Kept
    /\ pc' = "plan"
    /\ UNCHANGED <<reverts, work, inputs, hashes, cache>>

(* 'unrecognized toy source directory', or a stamp json cannot read.       *)
RefuseSource ==
    /\ pc = "source"
    /\ source.exists /\ source.stamp \in {Missing, Torn}
    /\ pc' = "idle" /\ hashes' = NoHashes
    /\ UNCHANGED <<reverts, work, inputs, cache>>

OtherSource ==
    /\ pc = "source"
    /\ source.exists /\ source.stamp \notin {Missing, Torn} /\ ~Kept
    /\ pc' = "remove"
    /\ UNCHANGED <<reverts, work, inputs, hashes, cache>>

(* shutil.rmtree() in whatever order the directory lists its entries. *)
RemoveEntry ==
    /\ pc = "remove"
    /\ \/ \E f \in Files : /\ source.files[f] # Missing
                          /\ source' = [source EXCEPT !.files[f] = Missing]
       \/ /\ source.stamp # Missing
          /\ source' = [source EXCEPT !.stamp = Missing]
    /\ UNCHANGED <<reverts, work, inputs, pc, hashes, newer, objects, binaries, manifest>>

Removed == source.stamp = Missing /\ \A f \in Files : source.files[f] = Missing

RemoveDirectory ==
    /\ pc = "remove"
    /\ Removed
    /\ source' = Nowhere
    /\ pc' = "source"
    /\ UNCHANGED <<reverts, work, inputs, hashes, newer, objects, binaries, manifest>>

StampAtOnce == hashes.patch                 \* mutant: stamped before it is made
NewStamp == Missing

MakeDirectory ==
    /\ pc = "source"
    /\ ~source.exists
    /\ source' = [source EXCEPT !.exists = TRUE, !.stamp = NewStamp]
    /\ pc' = "unpack"
    /\ UNCHANGED <<reverts, work, inputs, hashes, newer, objects, binaries, manifest>>

(* tar.extractall() sets the time of the commit, before that of any object.*)
Unpack ==
    /\ pc = "unpack"
    /\ source' = [source EXCEPT !.files = [f \in Files |-> Pristine]]
    /\ newer' = newer \ Files
    /\ pc' = "apply"
    /\ UNCHANGED <<reverts, work, inputs, hashes, objects, binaries, manifest>>

(* git apply and copyfile read the patch as it is by now. *)
Apply ==
    /\ pc = "apply"
    /\ LET v == inputs.patch
       IN  /\ source' = [source EXCEPT
                            !.files = [f \in Files |-> IF f \in Touches[v] THEN v ELSE @[f]]]
           /\ newer' = newer \union Touches[v]
    /\ pc' = "stamp"
    /\ UNCHANGED <<reverts, work, inputs, hashes, objects, binaries, manifest>>

(* The stamp names the inputs as they were hashed; write_text() truncates. *)
TruncateStamp ==
    /\ pc = "stamp"
    /\ source' = [source EXCEPT !.stamp = Torn]
    /\ pc' = "fill_stamp"
    /\ UNCHANGED <<reverts, work, inputs, hashes, newer, objects, binaries, manifest>>

FillStamp ==
    /\ pc = "fill_stamp"
    /\ source' = [source EXCEPT !.stamp = hashes.patch]
    /\ pc' = "plan"
    /\ UNCHANGED <<reverts, work, inputs, hashes, newer, objects, binaries, manifest>>

-----------------------------------------------------------------------------
(* Ninja looks once at what is out of date, and a missing source file is an*)
(* error.  What is edited after that waits for the next build.             *)
OutOfDate(o) == objects[o] = Missing \/ o \in newer
Complete == \A f \in Files : source.files[f] # Missing
Content(o) == IF o = Own THEN inputs.own ELSE source.files[o]

Plan ==
    /\ pc = "plan"
    /\ Complete
    /\ work' = {o \in Objects : OutOfDate(o)}
    /\ pc' = "compile"
    /\ UNCHANGED <<reverts, inputs, hashes, cache>>

Compile ==
    /\ pc = "compile"
    /\ \E o \in work :
          /\ objects' = [objects EXCEPT ![o] = Content(o)]
          /\ newer' = newer \ {o}
          /\ work' = work \ {o}
    /\ UNCHANGED <<reverts, inputs, pc, hashes, source, binaries, manifest>>

Link ==
    /\ pc = "compile"
    /\ work = {}
    /\ binaries' = objects
    /\ pc' = "manifest"
    /\ UNCHANGED <<reverts, work, inputs, hashes, source, newer, objects, manifest>>

(* The inputs as hashed at the start, the binaries as they are now. *)
TruncateManifest ==
    /\ pc = "manifest"
    /\ manifest' = [manifest EXCEPT !.state = "torn"]
    /\ pc' = "fill_manifest"
    /\ UNCHANGED <<reverts, work, inputs, hashes, source, newer, objects, binaries>>

RecordedInputsNow == inputs                 \* mutant: hashed again at the end
RecordedInputs == hashes

FillManifest ==
    /\ pc = "fill_manifest"
    /\ manifest' = [state |-> "whole", inputs |-> RecordedInputs, binaries |-> binaries]
    /\ pc' = "idle" /\ hashes' = NoHashes
    /\ UNCHANGED <<reverts, work, inputs, source, newer, objects, binaries>>

(* A command fails, or the build is killed. *)
Abandon ==
    /\ pc # "idle"
    /\ pc' = "idle" /\ hashes' = NoHashes /\ work' = {}
    /\ UNCHANGED <<reverts, inputs, cache>>

Build ==
    \/ StartBuild \/ KeepSource \/ RefuseSource \/ OtherSource
    \/ RemoveEntry \/ RemoveDirectory \/ MakeDirectory \/ Unpack \/ Apply
    \/ TruncateStamp \/ FillStamp \/ Plan \/ Compile \/ Link
    \/ TruncateManifest \/ FillManifest

BuildNext == Build \/ Edit \/ Abandon

BuildSpec == BuildInit /\ [][BuildNext]_buildVars

-----------------------------------------------------------------------------
(* check_build() finds the hashes of all inputs and binaries unchanged.    *)
CheckPasses ==
    /\ manifest.state = "whole"
    /\ manifest.inputs = inputs
    /\ manifest.binaries = binaries

(* What check_build() lets a run use was compiled from the inputs as they  *)
(* are: the search, and every Core file the current patch touches, across  *)
(* edits, failed builds and builds killed between any two steps.  A file   *)
(* that only an earlier patch touched is left out: unpacked again it looks *)
(* older than its object, which Ninja keeps (README, section 5).           *)
AcceptedBuildIsCurrent ==
    CheckPasses => /\ binaries[Own] = inputs.own
                   /\ \A f \in Touches[inputs.patch] : binaries[f] = inputs.patch

(* A stamp can be believed: while no build runs, each file of a tree       *)
(* stamped v is there as version v of the patch left it, or gone.  (An edit*)
(* during the build may give a tree a stamp older than its files.)         *)
StampTellsSource ==
    pc = "idle" /\ reverts /\ source.stamp \in Versions =>
        \A f \in Files :
            source.files[f] \in
                {Missing, IF f \in Touches[source.stamp] THEN source.stamp ELSE Pristine}
=============================================================================
