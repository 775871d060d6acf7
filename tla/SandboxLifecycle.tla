---------------------------- MODULE SandboxLifecycle ----------------------------
(***************************************************************************)
(* The control plane of the server: the sandbox map of the API server, the *)
(* lifecycle of each sandbox object (Running, Closing, Closed), the gate   *)
(* that lets /exec in, the teardown shared by /destroy and by the shutdown *)
(* of main, and the mutex around the cached agent connection.              *)
(*                                                                         *)
(* Source: cmd/server/{handlers,sandbox,sandbox_lifecycle,main}.go.        *)
(*                                                                         *)
(* A process is an HTTP handler goroutine or the main goroutine.  A        *)
(* critical section of s.mu or of sb.lifecycleMu is one step; agentMu is   *)
(* held across the steps of an RPC, so it is a variable.  How a sandbox is *)
(* built is module SandboxCreate; what travels on the agent connection is  *)
(* module AgentChannel.                                                    *)
(***************************************************************************)
EXTENDS Naturals, FiniteSets

CONSTANTS
  Handlers,       \* handler goroutines, that is, requests served at once
  Main,           \* the main goroutine
  Free,           \* agentMu is not held
  MaxSandboxes    \* bound: create requests in one life of the server

ASSUME LifecycleAssumption ==
  /\ IsFiniteSet(Handlers)
  /\ Main \notin Handlers
  /\ Free \notin Handlers
  /\ MaxSandboxes \in Nat

VARIABLES
  pc,             \* where each process is
  cur,            \* the sandbox each process works on, NoId when none
  nextSandboxID,  \* s.nextSandboxID
  sandboxes,      \* ids in the map s.sandboxes
  todo,           \* sandboxes destroyAll has taken and not reached yet
  graceful,       \* httpServer.Shutdown returned without an error
  state,          \* sb.state, "none" before the object exists
  inFlightExec,   \* sb.inFlightExec
  drained,        \* waitForExecDrain returned true for this sandbox
  agentMu,        \* the holder of sb.agentMu, or Free
  agent,          \* sb.Agent # nil
  vm,             \* the Firecracker process of the sandbox
  netns,          \* sb.Netns: "none" before the object exists, then held, then nil
  releases,       \* calls of releaseNetns with this sandbox's netns
  transport       \* cfg.ExecTransport, which never changes

Ids   == 1..MaxSandboxes
NoId  == 0
Procs == Handlers \cup {Main}

CreatePcs  == {"creating", "publish"}
ExecPcs    == {"execReq", "sshDial", "sshRun", "reply", "execDone", "execLock", "dial1", "call1",
               "dial2", "call2", "agentReply"}
DestroyPcs == {"begin", "drain", "cleanup", "kill", "wait", "release", "clear", "finish"}
HandlerPcs == {"idle", "execGate"} \cup CreatePcs \cup ExecPcs \cup DestroyPcs
MainPcs    == {"serve", "shutdown", "next", "exited"} \cup DestroyPcs

serverVars  == <<nextSandboxID, sandboxes, todo, graceful>>
lifeVars    == <<state, inFlightExec, drained>>
agentVars   == <<agentMu, agent>>
hostVars    == <<vm, netns, releases>>
vars        == <<pc, cur, serverVars, lifeVars, agentVars, hostVars, transport>>

(* The listener accepts requests until main gets its signal. *)
Serving == pc[Main] = "serve"

(* Goroutines run until main returns and takes the process down. *)
ServerUp == pc[Main] # "exited"

Goto(p, l) == pc' = [pc EXCEPT ![p] = l]

(* The handler has written its response and its goroutine ends. *)
Return(h) ==
  /\ pc'  = [pc EXCEPT ![h] = "idle"]
  /\ cur' = [cur EXCEPT ![h] = NoId]

Init ==
  /\ pc = [p \in Procs |-> IF p = Main THEN "serve" ELSE "idle"]
  /\ cur = [p \in Procs |-> NoId]
  /\ nextSandboxID = 0
  /\ sandboxes = {}
  /\ todo = {}
  /\ graceful = FALSE
  /\ state = [id \in Ids |-> "none"]
  /\ inFlightExec = [id \in Ids |-> 0]
  /\ drained = [id \in Ids |-> FALSE]
  /\ agentMu = [id \in Ids |-> Free]
  /\ agent = [id \in Ids |-> FALSE]
  /\ vm = [id \in Ids |-> "none"]
  /\ netns = [id \in Ids |-> "none"]
  /\ releases = [id \in Ids |-> 0]
  /\ transport \in {"agent", "ssh"}

-----------------------------------------------------------------------------
(* POST /create, and the part of POST /snapshot/restore after its checks.  *)

(* Variant: the id is the counter before the increment. *)
CreateStartOldValue(h) ==
  /\ Serving
  /\ pc[h] = "idle"
  /\ nextSandboxID < MaxSandboxes
  /\ nextSandboxID' = nextSandboxID + 1
  /\ cur' = [cur EXCEPT ![h] = nextSandboxID]
  /\ Goto(h, "creating")
  /\ UNCHANGED <<sandboxes, todo, graceful, lifeVars, agentVars, hostVars>>

(* atomic.AddUint64 hands out the id. *)
CreateStart(h) ==
  /\ Serving
  /\ pc[h] = "idle"
  /\ nextSandboxID < MaxSandboxes
  /\ nextSandboxID' = nextSandboxID + 1
  /\ cur' = [cur EXCEPT ![h] = nextSandboxID + 1]
  /\ Goto(h, "creating")
  /\ UNCHANGED <<sandboxes, todo, graceful, lifeVars, agentVars, hostVars>>

(* createSandbox returned an error; it has undone what it had set up. *)
CreateFail(h) ==
  /\ ServerUp
  /\ pc[h] = "creating"
  /\ Return(h)
  /\ UNCHANGED <<serverVars, lifeVars, agentVars, hostVars>>

(* createSandbox returned the object: a VM, its netns and an agent connection. *)
CreateReady(h) ==
  /\ ServerUp
  /\ pc[h] = "creating"
  /\ state' = [state EXCEPT ![cur[h]] = "Running"]
  /\ agent' = [agent EXCEPT ![cur[h]] = TRUE]
  /\ vm'    = [vm EXCEPT ![cur[h]] = "alive"]
  /\ netns' = [netns EXCEPT ![cur[h]] = "held"]
  /\ Goto(h, "publish")
  /\ UNCHANGED <<cur, serverVars, inFlightExec, drained, agentMu, releases>>

(* Under s.mu the object enters the map; from here clients can name it. *)
CreatePublish(h) ==
  /\ ServerUp
  /\ pc[h] = "publish"
  /\ sandboxes' = sandboxes \cup {cur[h]}
  /\ Return(h)
  /\ UNCHANGED <<nextSandboxID, todo, graceful, lifeVars, agentVars, hostVars>>

-----------------------------------------------------------------------------
(* POST /exec.  A request for an id that is not in the map is answered 404  *)
(* and changes nothing.                                                     *)

ExecLookup(h, id) ==
  /\ Serving
  /\ pc[h] = "idle"
  /\ id \in sandboxes
  /\ cur' = [cur EXCEPT ![h] = id]
  /\ Goto(h, "execGate")
  /\ UNCHANGED <<serverVars, lifeVars, agentVars, hostVars>>

(* Variant: the gate no longer looks at the lifecycle state. *)
tryStartExecUngated(h) ==
  /\ ServerUp
  /\ pc[h] = "execGate"
  /\ inFlightExec' = [inFlightExec EXCEPT ![cur[h]] = @ + 1]
  /\ Goto(h, "execReq")
  /\ UNCHANGED <<cur, serverVars, state, drained, agentVars, hostVars>>

(* Under lifecycleMu: refuse (409) unless Running, else count the exec. *)
tryStartExec(h) ==
  /\ ServerUp
  /\ pc[h] = "execGate"
  /\ \/ /\ state[cur[h]] = "Running"
        /\ inFlightExec' = [inFlightExec EXCEPT ![cur[h]] = @ + 1]
        /\ Goto(h, "execReq")
        /\ UNCHANGED cur
     \/ /\ state[cur[h]] # "Running"
        /\ Return(h)
        /\ UNCHANGED inFlightExec
  /\ UNCHANGED <<serverVars, state, drained, agentVars, hostVars>>

(* The checks of command, argv, use_shell and transport: an answer of 400, or on to
   the transport. *)
ExecCheck(h) ==
  /\ ServerUp
  /\ pc[h] = "execReq"
  /\ \/ Goto(h, "reply")
     \/ Goto(h, IF transport = "ssh" THEN "sshDial" ELSE "execLock")
  /\ UNCHANGED <<cur, serverVars, lifeVars, agentVars, hostVars>>

(* The ssh transport takes no lock: waitForExecSSH dials until it works or its
   deadline passes.  The deadline covers the connect, not the handshake. *)
ExecSSHDial(h) ==
  /\ ServerUp
  /\ pc[h] = "sshDial"
  /\ \/ vm[cur[h]] = "alive" /\ Goto(h, "sshRun")
     \/ Goto(h, "reply")
  /\ UNCHANGED <<cur, serverVars, lifeVars, agentVars, hostVars>>

(* NewSession and runSSHCommand: the command has a timeout, the requests to the ssh
   server before it have none. *)
ExecSSHRun(h) ==
  /\ ServerUp
  /\ pc[h] = "sshRun"
  /\ Goto(h, "reply")
  /\ UNCHANGED <<cur, serverVars, lifeVars, agentVars, hostVars>>

(* sb.agentMu.Lock(); the cached connection is used when there is one. *)
ExecLockAgent(h) ==
  /\ ServerUp
  /\ pc[h] = "execLock"
  /\ agentMu[cur[h]] = Free
  /\ agentMu' = [agentMu EXCEPT ![cur[h]] = h]
  /\ Goto(h, IF agent[cur[h]] THEN "call1" ELSE "dial1")
  /\ UNCHANGED <<cur, serverVars, lifeVars, agent, hostVars>>

(* dialAgent, before the first call or before the retry.  It can only succeed
   while the VM runs, and it may always fail. *)
ExecDial(h) ==
  /\ ServerUp
  /\ pc[h] \in {"dial1", "dial2"}
  /\ \/ /\ vm[cur[h]] = "alive"
        /\ agent' = [agent EXCEPT ![cur[h]] = TRUE]
        /\ Goto(h, IF pc[h] = "dial1" THEN "call1" ELSE "call2")
     \/ Goto(h, "agentReply") /\ UNCHANGED agent
  /\ UNCHANGED <<cur, serverVars, lifeVars, agentMu, hostVars>>

(* Variant: the retry is not limited to one. *)
ExecCallFailsForever(h) ==
  /\ ServerUp
  /\ pc[h] \in {"call1", "call2"}
  /\ agent' = [agent EXCEPT ![cur[h]] = FALSE]
  /\ Goto(h, "dial2")
  /\ UNCHANGED <<cur, serverVars, lifeVars, agentMu, hostVars>>

(* The first call failed: close the connection and dial again. *)
ExecCallFails(h) ==
  /\ ServerUp
  /\ pc[h] = "call1"
  /\ agent' = [agent EXCEPT ![cur[h]] = FALSE]
  /\ Goto(h, "dial2")
  /\ UNCHANGED <<cur, serverVars, lifeVars, agentMu, hostVars>>

(* A call answered, or the retry failed: either way sb.Agent stays cached. *)
ExecReply(h) ==
  /\ ServerUp
  /\ pc[h] \in {"call1", "call2"}
  /\ Goto(h, "agentReply")
  /\ UNCHANGED <<cur, serverVars, lifeVars, agentVars, hostVars>>

(* writeJSON, with agentMu held and the exec still counted: it returns when the client
   has taken the response or its connection is gone, and the server sets no write
   timeout.  The deferred unlock follows. *)
WriteAgentReply(h) ==
  /\ ServerUp
  /\ pc[h] = "agentReply"
  /\ agentMu' = [agentMu EXCEPT ![cur[h]] = Free]
  /\ Goto(h, "execDone")
  /\ UNCHANGED <<cur, serverVars, lifeVars, agent, hostVars>>

(* The same for an answer that is not given under agentMu. *)
WriteReply(h) ==
  /\ ServerUp
  /\ pc[h] = "reply"
  /\ Goto(h, "execDone")
  /\ UNCHANGED <<cur, serverVars, lifeVars, agentVars, hostVars>>

(* Variant: an early return that skips the deferred finishExec. *)
finishExecSkipped(h) ==
  /\ ServerUp
  /\ pc[h] = "execDone"
  /\ Return(h)
  /\ UNCHANGED <<serverVars, lifeVars, agentVars, hostVars>>

(* finishExec, deferred on every path behind the gate. *)
finishExec(h) ==
  /\ ServerUp
  /\ pc[h] = "execDone"
  /\ inFlightExec' = [inFlightExec EXCEPT ![cur[h]] = IF @ > 0 THEN @ - 1 ELSE @]
  /\ Return(h)
  /\ UNCHANGED <<serverVars, state, drained, agentVars, hostVars>>

-----------------------------------------------------------------------------
(* POST /destroy and the teardown it shares with destroyAll.                *)

(* Variant: the map entry survives the lookup. *)
DestroyLookupKeepsEntry(h, id) ==
  /\ Serving
  /\ pc[h] = "idle"
  /\ id \in sandboxes
  /\ cur' = [cur EXCEPT ![h] = id]
  /\ Goto(h, "begin")
  /\ UNCHANGED <<serverVars, lifeVars, agentVars, hostVars>>

(* Lookup and delete in one critical section of s.mu. *)
DestroyLookup(h, id) ==
  /\ Serving
  /\ pc[h] = "idle"
  /\ id \in sandboxes
  /\ sandboxes' = sandboxes \ {id}
  /\ cur' = [cur EXCEPT ![h] = id]
  /\ Goto(h, "begin")
  /\ UNCHANGED <<nextSandboxID, todo, graceful, lifeVars, agentVars, hostVars>>

(* beginDestroy.  When the sandbox is no longer Running a handler answers 409,
   whereas destroyAll goes on to the cleanup. *)
beginDestroy(p) ==
  /\ ServerUp
  /\ pc[p] = "begin"
  /\ \/ /\ state[cur[p]] = "Running"
        /\ state' = [state EXCEPT ![cur[p]] = "Closing"]
        /\ Goto(p, "drain")
        /\ UNCHANGED cur
     \/ /\ state[cur[p]] # "Running"
        /\ IF p = Main THEN Goto(p, "cleanup") /\ UNCHANGED cur ELSE Return(p)
        /\ UNCHANGED state
  /\ UNCHANGED <<serverVars, inFlightExec, drained, agentVars, hostVars>>

(* Variant: the poll compares against one exec instead of none. *)
waitForExecDrainOffByOne(p) ==
  /\ ServerUp
  /\ pc[p] = "drain"
  /\ drained' = [drained EXCEPT ![cur[p]] = (inFlightExec[cur[p]] <= 1)]
  /\ Goto(p, "cleanup")
  /\ UNCHANGED <<cur, serverVars, state, inFlightExec, agentVars, hostVars>>

(* waitForExecDrain: true once the count is zero, false after the deadline. *)
waitForExecDrain(p) ==
  /\ ServerUp
  /\ pc[p] = "drain"
  /\ drained' = [drained EXCEPT ![cur[p]] = (inFlightExec[cur[p]] = 0)]
  /\ Goto(p, "cleanup")
  /\ UNCHANGED <<cur, serverVars, state, inFlightExec, agentVars, hostVars>>

(* Variant: the teardown leaves the cached connection open. *)
CloseAgentKeeps(p) ==
  /\ ServerUp
  /\ pc[p] = "cleanup"
  /\ agentMu[cur[p]] = Free
  /\ Goto(p, "kill")
  /\ UNCHANGED <<cur, serverVars, lifeVars, agentVars, hostVars>>

(* cleanupSandbox: close the cached connection under agentMu. *)
CloseAgent(p) ==
  /\ ServerUp
  /\ pc[p] = "cleanup"
  /\ agentMu[cur[p]] = Free
  /\ agent' = [agent EXCEPT ![cur[p]] = FALSE]
  /\ Goto(p, "kill")
  /\ UNCHANGED <<cur, serverVars, lifeVars, agentMu, hostVars>>

(* SIGKILL to the cgroup and to the process group. *)
KillVM(p) ==
  /\ ServerUp
  /\ pc[p] = "kill"
  /\ vm' = [vm EXCEPT ![cur[p]] = IF @ = "alive" THEN "dying" ELSE @]
  /\ Goto(p, "wait")
  /\ UNCHANGED <<cur, serverVars, lifeVars, agentVars, netns, releases>>

(* Process.Wait returned, or its five seconds are over. *)
WaitVM(p) ==
  /\ ServerUp
  /\ pc[p] = "wait"
  /\ Goto(p, "release")
  /\ UNCHANGED <<cur, serverVars, lifeVars, agentVars, hostVars>>

(* releaseNetns(sb.Netns), which ignores nil. *)
ReleaseNetns(p) ==
  /\ ServerUp
  /\ pc[p] = "release"
  /\ releases' = [releases EXCEPT ![cur[p]] = IF netns[cur[p]] = "held" THEN @ + 1 ELSE @]
  /\ Goto(p, "clear")
  /\ UNCHANGED <<cur, serverVars, lifeVars, agentVars, vm, netns>>

(* sb.Netns = nil, then the sandbox directory is removed. *)
ClearNetns(p) ==
  /\ ServerUp
  /\ pc[p] = "clear"
  /\ netns' = [netns EXCEPT ![cur[p]] = "nil"]
  /\ Goto(p, "finish")
  /\ UNCHANGED <<cur, serverVars, lifeVars, agentVars, vm, releases>>

(* finishDestroy; the handler then answers, main takes the next sandbox. *)
finishDestroy(p) ==
  /\ ServerUp
  /\ pc[p] = "finish"
  /\ state' = [state EXCEPT ![cur[p]] = "Closed"]
  /\ pc'  = [pc EXCEPT ![p] = IF p = Main THEN "next" ELSE "idle"]
  /\ cur' = [cur EXCEPT ![p] = NoId]
  /\ UNCHANGED <<serverVars, inFlightExec, drained, agentVars, hostVars>>

-----------------------------------------------------------------------------
(* Shutdown of main.                                                        *)

Signal ==
  /\ Serving
  /\ Goto(Main, "shutdown")
  /\ UNCHANGED <<cur, serverVars, lifeVars, agentVars, hostVars>>

(* Variant: destroyAll replaces the map before it has copied it. *)
ShutdownForgetsMap ==
  /\ pc[Main] = "shutdown"
  /\ graceful' = \A h \in Handlers : pc[h] = "idle"
  /\ todo' = {}
  /\ sandboxes' = {}
  /\ Goto(Main, "next")
  /\ UNCHANGED <<cur, nextSandboxID, lifeVars, agentVars, hostVars>>

(* httpServer.Shutdown returns: nil when no request is left, an error when its
   twenty seconds end first.  Then destroyAll takes the whole map. *)
ShutdownReturns ==
  /\ pc[Main] = "shutdown"
  /\ graceful' = \A h \in Handlers : pc[h] = "idle"
  /\ todo' = sandboxes
  /\ sandboxes' = {}
  /\ Goto(Main, "next")
  /\ UNCHANGED <<cur, nextSandboxID, lifeVars, agentVars, hostVars>>

(* The loop of destroyAll. *)
DestroyAllNext(id) ==
  /\ pc[Main] = "next"
  /\ id \in todo
  /\ todo' = todo \ {id}
  /\ cur' = [cur EXCEPT ![Main] = id]
  /\ Goto(Main, "begin")
  /\ UNCHANGED <<nextSandboxID, sandboxes, graceful, lifeVars, agentVars, hostVars>>

(* Variant: the loop ends after its first sandbox. *)
MainReturnsEarly ==
  /\ pc[Main] = "next"
  /\ Goto(Main, "exited")
  /\ UNCHANGED <<cur, serverVars, lifeVars, agentVars, hostVars>>

(* main returns; every goroutine left dies with the process. *)
MainReturns ==
  /\ pc[Main] = "next"
  /\ todo = {}
  /\ Goto(Main, "exited")
  /\ UNCHANGED <<cur, serverVars, lifeVars, agentVars, hostVars>>

-----------------------------------------------------------------------------
(* The environment.                                                         *)

(* A killed VM goes away, or a guest panic ends a VM nobody has killed. *)
VMExits(id) ==
  /\ vm[id] \in {"alive", "dying"}
  /\ vm' = [vm EXCEPT ![id] = "gone"]
  /\ UNCHANGED <<pc, cur, serverVars, lifeVars, agentVars, netns, releases>>

(* The process has ended and stays ended. *)
Ended ==
  /\ pc[Main] = "exited"
  /\ UNCHANGED vars

DestroyStep(p) ==
  \/ beginDestroy(p) \/ waitForExecDrain(p) \/ CloseAgent(p) \/ KillVM(p)
  \/ WaitVM(p) \/ ReleaseNetns(p) \/ ClearNetns(p) \/ finishDestroy(p)

(* What an accepted request does in the server's own time. *)
ServerStep(h) ==
  \/ CreateFail(h) \/ CreateReady(h) \/ CreatePublish(h)
  \/ tryStartExec(h) \/ ExecCheck(h) \/ ExecLockAgent(h)
  \/ ExecDial(h) \/ ExecCallFails(h) \/ ExecReply(h) \/ finishExec(h)
  \/ DestroyStep(h)

(* What takes as long as the client that reads the answer, or the ssh server, likes. *)
PeerStep(h) ==
  \/ ExecSSHDial(h) \/ ExecSSHRun(h) \/ WriteReply(h) \/ WriteAgentReply(h)

HandlerStep(h) == ServerStep(h) \/ PeerStep(h)

MainStep ==
  \/ ShutdownReturns
  \/ \E id \in Ids : DestroyAllNext(id)
  \/ MainReturns
  \/ DestroyStep(Main)

Request(h) ==
  \/ CreateStart(h)
  \/ \E id \in Ids : ExecLookup(h, id) \/ DestroyLookup(h, id)

Next ==
  /\ \/ \E h \in Handlers : Request(h) \/ HandlerStep(h)
     \/ Signal
     \/ MainStep
     \/ \E id \in Ids : VMExits(id)
     \/ Ended
  /\ UNCHANGED transport

Spec == Init /\ [][Next]_vars

(* Dials, calls, the drain and the waits of the teardown have deadlines, so those
   steps come; sync.Mutex queues its waiters, so one that finds agentMu free again
   and again gets it.  Clients that read an answer, ssh servers, signals and guests
   owe nothing: no fairness for PeerStep. *)
Fairness ==
  /\ \A h \in Handlers : /\ WF_vars(ServerStep(h) /\ UNCHANGED transport)
                         /\ SF_vars(ExecLockAgent(h) /\ UNCHANGED transport)
  /\ WF_vars(MainStep /\ UNCHANGED transport)

FairSpec == Spec /\ Fairness

-----------------------------------------------------------------------------
TypeOK ==
  /\ pc \in [Procs -> HandlerPcs \cup MainPcs]
  /\ pc[Main] \in MainPcs
  /\ \A h \in Handlers : pc[h] \in HandlerPcs
  /\ cur \in [Procs -> Ids \cup {NoId}]
  /\ nextSandboxID \in 0..MaxSandboxes
  /\ sandboxes \in SUBSET Ids
  /\ todo \in SUBSET Ids
  /\ graceful \in BOOLEAN
  /\ state \in [Ids -> {"none", "Running", "Closing", "Closed"}]
  /\ inFlightExec \in [Ids -> Nat]
  /\ drained \in [Ids -> BOOLEAN]
  /\ agentMu \in [Ids -> Handlers \cup {Free}]
  /\ agent \in [Ids -> BOOLEAN]
  /\ vm \in [Ids -> {"none", "alive", "dying", "gone"}]
  /\ netns \in [Ids -> {"none", "held", "nil"}]
  /\ releases \in [Ids -> Nat]
  /\ transport \in {"agent", "ssh"}

(* p has the sandbox to itself: it builds it, or it tears it down. *)
Owns(p, id) == cur[p] = id /\ pc[p] \in CreatePcs \cup DestroyPcs

(* The map, the list of destroyAll and the owning processes never overlap: a
   sandbox is in one place only, so no two goroutines ever build or tear down
   the same one (handleDestroy's delete under s.mu against destroyAll's swap of
   the map). *)
SingleOwner ==
  /\ sandboxes \cap todo = {}
  /\ \A p \in Procs, id \in Ids : Owns(p, id) => id \notin sandboxes \cup todo
  /\ \A p, q \in Procs, id \in Ids : Owns(p, id) /\ Owns(q, id) => p = q

(* No sandbox that is Running or Closing is lost: it is in the map, on
   destroyAll's list, or in the hands of a goroutine. *)
NoneLost ==
  \A id \in Ids : state[id] \in {"Running", "Closing"} =>
    id \in sandboxes \cup todo \/ \E p \in Procs : Owns(p, id)

(* A sandbox's netns goes back once: releaseNetns is never called twice with
   the same netns, which would put one pool slot into the pool twice. *)
ReleasedOnce == \A id \in Ids : releases[id] <= 1

(* Handlers past the gate that have not run finishExec. *)
InExec(id) == {h \in Handlers : cur[h] = id /\ pc[h] \in ExecPcs}

(* inFlightExec counts exactly the execs between tryStartExec and finishExec, so
   the poll of waitForExecDrain decides on the truth and the guard of finishExec
   never hides a lost count. *)
InFlightExact == \A id \in Ids : inFlightExec[id] = Cardinality(InExec(id))

(* Once the drain of a sandbox has succeeded no exec is, or ever gets, inside
   it while it is torn down. *)
DrainedStaysQuiet == \A id \in Ids : drained[id] => InExec(id) = {}

(* A drained teardown leaves no cached connection behind: a late exec cannot
   dial again between the close and the kill. *)
DrainedClosesAgent ==
  \A id \in Ids : drained[id] /\ state[id] = "Closed" => ~agent[id]

(* When Shutdown returned without an error, the process leaves no sandbox with a
   VM it has not killed or a netns it has not released. *)
GracefulExitLeavesNothing ==
  pc[Main] = "exited" /\ graceful =>
    \A id \in Ids : vm[id] # "alive" /\ netns[id] # "held"

(* What stands for the variables of SandboxAPI: the state of the object, and the
   execs between the gate and finishExec. *)
BoxOf(s) ==
  CASE s = "none" -> "absent" [] s = "Running" -> "live" [] s = "Closing" -> "closing"
    [] s = "Closed" -> "gone"

boxBar == [id \in Ids |-> BoxOf(state[id])]

insideBar == [id \in Ids |-> InExec(id)]

API == INSTANCE SandboxAPI WITH
  Clients <- Handlers, box <- boxBar, inside <- insideBar, freed <- releases, up <- ServerUp

(* The goroutines of the server together keep the promise of the API: whatever they
   interleave, an exec enters a live sandbox only, a close is final, and the slot
   goes back once, before the sandbox is gone. *)
ImplementsAPI == API!Spec

(* Somebody's answer is being written under the agentMu of the sandbox. *)
AnswerUnread(id) == \E h \in Handlers : agentMu[id] = h /\ pc[h] = "agentReply"

(* An exec held up by its own client or ssh server, or by the client of the exec that
   has agentMu. *)
HeldUp(h) ==
  \/ pc[h] \in {"sshDial", "sshRun", "reply", "agentReply"}
  \/ pc[h] = "execLock" /\ AnswerUnread(cur[h])

(* handleExec writes its answer before its deferred unlock, so one client that never
   reads can hold up a sandbox.  It is the only thing that can: a teardown that has
   begun ends, and an exec that passed the gate leaves again, whatever the other execs,
   the VM and the agent do, unless an unread answer keeps agentMu (or the exec's own
   client or ssh server stalls) from some point on for ever. *)
OnlyPeersHoldUp ==
  /\ \A id \in Ids : state[id] = "Closing" ~>
       (state[id] = "Closed" \/ ~ServerUp \/ []AnswerUnread(id))
  /\ \A h \in Handlers : pc[h] \in ExecPcs ~> (pc[h] \notin ExecPcs \/ ~ServerUp \/ []HeldUp(h))

(* After a signal the process ends, unless destroyAll waits for ever for an agentMu
   under which an answer is written that nobody reads. *)
ShutdownCompletes ==
  pc[Main] = "shutdown" ~>
    (pc[Main] = "exited" \/ [](pc[Main] = "cleanup" /\ AnswerUnread(cur[Main])))
=============================================================================
