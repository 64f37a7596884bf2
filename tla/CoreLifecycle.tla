--------------------------- MODULE CoreLifecycle ---------------------------
(***************************************************************************)
(* The context manager that owns a regtest node (btc_pq/core.py, Core):    *)
(* start bitcoind in a temporary data directory, poll it until it answers, *)
(* check its version, make a wallet, run the body of the with statement,   *)
(* and stop the process and remove the directory whatever happened.        *)
(*                                                                         *)
(* The node moves on its own: it may die, hang or answer late at any time, *)
(* also between two steps of one method, and a call that timed out may     *)
(* still have had its effect.                                              *)
(***************************************************************************)
EXTENDS Naturals

CONSTANTS
    Polls,      \* 300: attempts to reach a node that is starting
    Calls       \* bound: RPC calls the body makes

ASSUME LifecycleAssumption == Polls \in Nat \ {0} /\ Calls \in Nat

VARIABLES
    createWallet,   \* the constructor's create_wallet
    goodVersion,    \* the binary is Core 31.1
    pc,             \* where Python is in __enter__, the body or __exit__
    tries,          \* polls done
    calls,          \* calls the body has made
    auth,           \* self.auth is set: the cookie has been read
    address,        \* self.address is set: coinbases can be mined to it
    wallet,         \* self.wallet: calls go to the wallet's URL
    raised,         \* an exception is on its way out of the with statement
    stopAnswer,     \* what became of the call that stops the node
    logOpen,        \* startup.log is open
    datadir,        \* "none", "present", "removed", "abandoned"
    node            \* [run, loaded]: the bitcoind process and its wallet

python == <<pc, tries, calls, auth, address, wallet, raised, stopAnswer>>
files == <<logOpen, datadir>>
config == <<createWallet, goodVersion>>
vars == <<config, python, files, node>>

Entering == {"enter", "poll", "ask", "version", "wallet", "address"}
Leaving == {"stop", "terminate", "wait", "reap", "cleanup"}
Alive(run) == run \in {"starting", "warming", "serving", "stopping"}

Init ==
    /\ createWallet \in BOOLEAN
    /\ goodVersion \in BOOLEAN
    /\ pc = "enter"
    /\ tries = 0 /\ calls = 0
    /\ address \in BOOLEAN
    /\ auth = FALSE /\ wallet = FALSE /\ raised = FALSE
    /\ stopAnswer = "none"
    /\ logOpen = FALSE
    /\ datadir = "none"
    /\ node = [run |-> "none", loaded |-> FALSE]

-----------------------------------------------------------------------------
(* The node by itself.  An HTTP server with a cookie comes before RPC      *)
(* answers; only a node told to stop stops in good order.                  *)
NodeStep ==
    /\ \/ node.run = "starting" /\ node' = [node EXCEPT !.run = "warming"]
       \/ node.run = "warming" /\ node' = [node EXCEPT !.run = "serving"]
       \/ Alive(node.run) /\ node' = [node EXCEPT !.run = "dead"]
    /\ UNCHANGED <<config, python, files>>

(* What one rpc() call comes to.  "refused" stands for every OSError: no   *)
(* connection, a reset or the 60 second timeout.  "error" is an RPCError.  *)
(* "garbled" is an answer cut off or not JSON, as an HTTP server that is   *)
(* being interrupted sends it: neither of the two.                         *)
Answers(run) ==
    CASE run = "serving" -> {"ok", "refused", "error", "garbled"}
      [] run \in {"warming", "stopping"} -> {"refused", "error", "garbled"}
      [] OTHER -> {"refused"}

(* An unanswered call may have been carried out. *)
MayHaveActed(answer) == node.run = "serving" /\ answer \in {"refused", "garbled"}

Stays == UNCHANGED <<config, files, node>>

(* except BaseException: self.__exit__(...); raise                         *)
LeaveBy(exception) == pc' = "stop" /\ raised' = exception

Raise ==
    /\ LeaveBy(TRUE)
    /\ UNCHANGED <<tries, calls, auth, address, wallet, stopAnswer>>

-----------------------------------------------------------------------------
(* __enter__ up to Popen stands outside the try: a bitcoind that cannot be *)
(* started leaves the directory and the log to the garbage collector.      *)
Launch ==
    /\ pc = "enter"
    /\ pc' = "poll"
    /\ logOpen' = TRUE /\ datadir' = "present"
    /\ node' = [node EXCEPT !.run = "starting"]
    /\ UNCHANGED <<config, tries, calls, auth, address, wallet, raised, stopAnswer>>

LaunchFails ==
    /\ pc = "enter"
    /\ pc' = "left" /\ raised' = TRUE
    /\ logOpen' = TRUE /\ datadir' = "abandoned"
    /\ UNCHANGED <<config, tries, calls, auth, address, wallet, stopAnswer, node>>

(* for _ in range(300): self.proc.poll() sees a process that has ended.    *)
PollsLeft == tries < Polls

PollAlive ==
    /\ pc = "poll"
    /\ PollsLeft
    /\ Alive(node.run)
    /\ pc' = "ask"
    /\ UNCHANGED <<tries, calls, auth, address, wallet, raised, stopAnswer>>
    /\ Stays

PollFails ==
    /\ pc = "poll"
    /\ ~PollsLeft \/ ~Alive(node.run)
    /\ Raise
    /\ Stays

(* except (OSError, RPCError): time.sleep(.1), also for a missing cookie.  *)
RetriesOn(answer) == answer \in {"refused", "error"}

AskNoCookie ==
    /\ pc = "ask"
    /\ node.run = "starting" \/ (node.run = "dead" /\ ~auth)
    /\ pc' = "poll" /\ tries' = tries + 1
    /\ UNCHANGED <<calls, auth, address, wallet, raised, stopAnswer>>
    /\ Stays

Ask ==
    /\ pc = "ask"
    /\ node.run # "starting"
    /\ auth' = TRUE
    /\ \E answer \in Answers(node.run) :
          \/ /\ answer = "ok"
             /\ pc' = "version" /\ UNCHANGED <<tries, raised>>
          \/ /\ RetriesOn(answer)
             /\ pc' = "poll" /\ tries' = tries + 1 /\ UNCHANGED raised
          \/ /\ answer # "ok" /\ ~RetriesOn(answer)
             /\ LeaveBy(TRUE) /\ UNCHANGED tries
    /\ UNCHANGED <<calls, address, wallet, stopAnswer>>
    /\ Stays

(* Core 31.1, and without a wallet a mining address from the caller.       *)
CheckVersion ==
    /\ pc = "version"
    /\ IF goodVersion /\ (createWallet \/ address)
       THEN pc' = (IF createWallet THEN "wallet" ELSE "body") /\ UNCHANGED raised
       ELSE LeaveBy(TRUE)
    /\ UNCHANGED <<tries, calls, auth, address, wallet, stopAnswer>>
    /\ Stays

(* createwallet: only an answer in good order sets self.wallet.            *)
CreateWallet ==
    /\ pc = "wallet"
    /\ \E answer \in Answers(node.run) :
          /\ \/ answer = "ok" /\ node' = [node EXCEPT !.loaded = TRUE]
             \/ MayHaveActed(answer) /\ node' = [node EXCEPT !.loaded = TRUE]
             \/ answer # "ok" /\ UNCHANGED node
          /\ IF answer = "ok"
             THEN pc' = "address" /\ wallet' = TRUE /\ UNCHANGED raised
             ELSE LeaveBy(TRUE) /\ UNCHANGED wallet
    /\ UNCHANGED <<config, files, tries, calls, auth, address, stopAnswer>>

GetAddress ==
    /\ pc = "address"
    /\ \E answer \in Answers(node.run) :
          IF answer = "ok"
          THEN pc' = "body" /\ address' = TRUE /\ UNCHANGED raised
          ELSE LeaveBy(TRUE) /\ UNCHANGED address
    /\ UNCHANGED <<tries, calls, auth, wallet, stopAnswer>>
    /\ Stays

-----------------------------------------------------------------------------
(* The body: it may take an RPCError for an outcome, nothing else.         *)
BodyCall ==
    /\ pc = "body"
    /\ calls < Calls
    /\ calls' = calls + 1
    /\ \E answer \in Answers(node.run) :
          \/ answer \in {"ok", "error"} /\ UNCHANGED <<pc, raised>>
          \/ answer # "ok" /\ LeaveBy(TRUE)
    /\ UNCHANGED <<tries, auth, address, wallet, stopAnswer>>
    /\ Stays

BodyEnds ==
    /\ pc = "body"
    /\ LeaveBy(FALSE)
    /\ UNCHANGED <<tries, calls, auth, address, wallet, stopAnswer>>
    /\ Stays

(* KeyboardInterrupt or a failed assertion, wherever a handler stands.     *)
Interrupt ==
    /\ pc \in (Entering \ {"enter"}) \union {"body"}
    /\ Raise
    /\ Stays

-----------------------------------------------------------------------------
(* __exit__.  Without a cookie rpc() raises AttributeError.                *)
StopOutcomes == IF auth THEN Answers(node.run) ELSE {"unread"}

HandlesNoAttribute(answer) == answer \in {"refused", "error"}   \* mutant
Handles(answer) == answer \in {"refused", "error", "unread"}

(* Out of __exit__ by an exception of its own: nothing else is done.       *)
Escape ==
    /\ pc' = "left" /\ raised' = TRUE
    /\ datadir' = "abandoned" /\ UNCHANGED logOpen

Stop ==
    /\ pc = "stop"
    /\ \E answer \in StopOutcomes :
          /\ stopAnswer' = answer
          /\ \/ answer = "ok" /\ node' = [node EXCEPT !.run = "stopping"]
             \/ MayHaveActed(answer) /\ node' = [node EXCEPT !.run = "stopping"]
             \/ answer # "ok" /\ UNCHANGED node
          /\ CASE answer = "ok" -> pc' = "wait" /\ UNCHANGED <<raised, files>>
               [] Handles(answer) -> pc' = "terminate" /\ UNCHANGED <<raised, files>>
               [] OTHER -> Escape
    /\ UNCHANGED <<config, tries, calls, auth, address, wallet>>

(* SIGTERM; a process that has ended already is left alone.                *)
Terminate ==
    /\ pc = "terminate"
    /\ pc' = "wait"
    /\ node' = IF Alive(node.run) THEN [node EXCEPT !.run = "stopping"] ELSE node
    /\ UNCHANGED <<config, files, tries, calls, auth, address, wallet, raised,
                   stopAnswer>>

WaitEnds ==
    /\ pc = "wait"
    /\ ~Alive(node.run)
    /\ pc' = "cleanup"
    /\ UNCHANGED <<tries, calls, auth, address, wallet, raised, stopAnswer>>
    /\ Stays

(* wait(timeout=20) expires on a node that does not stop: SIGKILL.         *)
NoKill == node                                                  \* mutant
Killed == [node EXCEPT !.run = "dead"]

WaitExpires ==
    /\ pc = "wait"
    /\ Alive(node.run)
    /\ pc' = "reap"
    /\ node' = Killed
    /\ UNCHANGED <<config, files, tries, calls, auth, address, wallet, raised,
                   stopAnswer>>

(* The second wait() has no timeout. *)
Reap ==
    /\ pc = "reap"
    /\ ~Alive(node.run)
    /\ pc' = "cleanup"
    /\ UNCHANGED <<tries, calls, auth, address, wallet, raised, stopAnswer>>
    /\ Stays

Cleanup ==
    /\ pc = "cleanup"
    /\ pc' = "left"
    /\ logOpen' = FALSE /\ datadir' = "removed"
    /\ UNCHANGED <<config, node, tries, calls, auth, address, wallet, raised,
                   stopAnswer>>

Enter == Launch \/ LaunchFails \/ PollAlive \/ PollFails \/ AskNoCookie \/ Ask
         \/ CheckVersion \/ CreateWallet \/ GetAddress
Body == BodyCall \/ BodyEnds
Exit == Stop \/ Terminate \/ WaitEnds \/ WaitExpires \/ Reap \/ Cleanup
Python == Enter \/ Body \/ Exit

Next == Python \/ Interrupt \/ NodeStep

Spec == Init /\ [][Next]_vars

(* Every call, poll and wait of Core has a time limit, so Python goes on;  *)
(* nothing is assumed of the node.                                         *)
FairSpec == Spec /\ WF_vars(Python)

-----------------------------------------------------------------------------
(* Types; the polls stay within their limit.                              *)
TypeOK ==
    /\ pc \in Entering \union Leaving \union {"body", "left"}
    /\ tries \in 0 .. Polls /\ calls \in 0 .. Calls
    /\ {auth, address, wallet, raised, logOpen} \subseteq BOOLEAN
    /\ stopAnswer \in {"none", "ok", "refused", "error", "garbled", "unread"}
    /\ datadir \in {"none", "present", "removed", "abandoned"}
    /\ node \in [run : {"none", "starting", "warming", "serving", "stopping", "dead"},
                 loaded : BOOLEAN]

(* Nothing outlives the with statement: however it is left, by its end, an *)
(* exception, a timeout or an interrupt, at whatever stage of the node's   *)
(* start, the process has ended and the directory is gone.  The exceptions *)
(* are a bitcoind that could not be started, which leaves no process, and  *)
(* an unreadable answer to the stop call, which __exit__ does not handle.  *)
NothingOutlives ==
    /\ pc = "left" /\ stopAnswer # "garbled" => ~Alive(node.run)
    /\ pc = "left" /\ stopAnswer \notin {"none", "garbled"} =>
          datadir = "removed" /\ ~logOpen
    /\ datadir = "removed" => ~Alive(node.run)

(* The statement is always left, also with a node that hangs for good.     *)
Leaves == <>(pc = "left")
=============================================================================
