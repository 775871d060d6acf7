------------------------ MODULE SandboxLifecycleProofs ------------------------
(***************************************************************************)
(* Proofs about module SandboxLifecycle for every set of handlers, every   *)
(* number of sandboxes and both transports.                                *)
(***************************************************************************)
EXTENDS SandboxLifecycle, FiniteSetTheorems, TLAPS

-----------------------------------------------------------------------------
(* Type correctness.  The control part (where a process is and on which     *)
(* sandbox) and the data part are carried separately.                       *)

(* A process in the middle of a request has a sandbox to work on. *)
BusyPcs == {"execGate"} \cup CreatePcs \cup ExecPcs \cup DestroyPcs
CurOK == \A p \in Procs : pc[p] \in BusyPcs => cur[p] \in Ids

PcsOf(p) == IF p = Main THEN MainPcs ELSE HandlerPcs

ControlInv ==
  /\ pc \in [Procs -> HandlerPcs \cup MainPcs]
  /\ \A p \in Procs : pc[p] \in PcsOf(p)
  /\ cur \in [Procs -> Ids \cup {NoId}]
  /\ CurOK

DataInv ==
  /\ nextSandboxID \in 0..MaxSandboxes
  /\ sandboxes \in SUBSET Ids
  /\ todo \in SUBSET Ids
  /\ graceful \in BOOLEAN
  /\ state \in [Ids -> {"none", "Running", "Closing", "Closed"}]
  /\ inFlightExec \in [Ids -> Nat]
  /\ drained \in [Ids -> BOOLEAN]
  /\ agentMu \in [Ids -> Handlers \cup {Free}]
  /\ agent \in [Ids -> BOOLEAN]
  /\ vm \in [Ids -> {"none", "alive", "dying", "gone"}]
  /\ netns \in [Ids -> {"none", "held", "nil"}]
  /\ releases \in [Ids -> Nat]

TypeInv == ControlInv /\ DataInv

(* The configuration is read once. *)
TransportInv == transport \in {"agent", "ssh"}

LEMMA TypeInvImplies == TypeInv /\ TransportInv => TypeOK
BY LifecycleAssumption DEF TypeInv, ControlInv, DataInv, TransportInv, TypeOK, PcsOf, Procs

(* One process moves to a place of its own kind, with a sandbox if it needs one. *)
LEMMA Move ==
  ASSUME ControlInv, NEW p \in Procs, NEW l, NEW c \in Ids \cup {NoId},
         l \in PcsOf(p), l \in BusyPcs => c \in Ids,
         pc' = [pc EXCEPT ![p] = l], cur' = [cur EXCEPT ![p] = c]
  PROVE  ControlInv'
<1>1. l \in HandlerPcs \cup MainPcs BY DEF PcsOf
<1> QED BY <1>1 DEF ControlInv, CurOK

LEMMA Stay ==
  ASSUME ControlInv, NEW p \in Procs, NEW l, l \in PcsOf(p),
         l \in BusyPcs => cur[p] \in Ids, pc' = [pc EXCEPT ![p] = l], cur' = cur
  PROVE  ControlInv'
<1>1. l \in HandlerPcs \cup MainPcs BY DEF PcsOf
<1> QED BY <1>1 DEF ControlInv, CurOK

LEMMA PcFacts ==
  /\ DestroyPcs \subseteq HandlerPcs /\ DestroyPcs \subseteq MainPcs
  /\ CreatePcs \subseteq HandlerPcs /\ ExecPcs \subseteq HandlerPcs
  /\ {"idle", "execGate"} \subseteq HandlerPcs
  /\ {"serve", "shutdown", "next", "exited"} \subseteq MainPcs
  /\ DestroyPcs \cup CreatePcs \cup ExecPcs \cup {"execGate"} \subseteq BusyPcs
  /\ "idle" \notin BusyPcs
  /\ \A l \in {"serve", "shutdown", "next", "exited"} : l \notin BusyPcs
BY DEF BusyPcs, HandlerPcs, MainPcs, DestroyPcs, CreatePcs, ExecPcs

(* A step of the teardown keeps the types, whoever takes it. *)
LEMMA DestroyTypes ==
  ASSUME TypeInv, NEW p \in Procs, DestroyStep(p)
  PROVE  TypeInv'
<1> USE LifecycleAssumption DEF ServerUp, Goto, Return, serverVars, lifeVars, agentVars, hostVars
<1>0. /\ NoId \in Ids \cup {NoId}
      /\ p # Main => p \in Handlers
      /\ \A l \in DestroyPcs : l \in PcsOf(p) /\ (pc[p] = l => cur[p] \in Ids)
      /\ (IF p = Main THEN "next" ELSE "idle") \in PcsOf(p) \ BusyPcs
      /\ p # Main => "idle" \in PcsOf(p) \ BusyPcs
  BY PcFacts DEF TypeInv, ControlInv, CurOK, PcsOf, Procs
<1>1. DataInv'
  <2> USE DEF TypeInv, DataInv
  <2>1. CASE beginDestroy(p) BY <2>1 DEF beginDestroy
  <2>2. CASE waitForExecDrain(p) BY <2>2 DEF waitForExecDrain
  <2>3. CASE CloseAgent(p) BY <2>3 DEF CloseAgent
  <2>4. CASE KillVM(p) BY <2>4 DEF KillVM
  <2>5. CASE WaitVM(p) BY <2>5 DEF WaitVM
  <2>6. CASE ReleaseNetns(p)
    <3>1. CASE netns[cur[p]] = "held"
      <4>1. releases' = [releases EXCEPT ![cur[p]] = releases[cur[p]] + 1]
        BY <2>6, <3>1 DEF ReleaseNetns
      <4>2. cur[p] \in Ids BY <1>0, <2>6 DEF ReleaseNetns, DestroyPcs
      <4>3. releases' \in [Ids -> Nat] BY <4>1, <4>2
      <4> QED BY <2>6, <4>3 DEF ReleaseNetns
    <3>2. CASE netns[cur[p]] # "held" BY <2>6, <3>2 DEF ReleaseNetns
    <3> QED BY <3>1, <3>2
  <2>7. CASE ClearNetns(p) BY <2>7 DEF ClearNetns
  <2>8. CASE finishDestroy(p) BY <2>8 DEF finishDestroy
  <2> QED BY <2>1, <2>2, <2>3, <2>4, <2>5, <2>6, <2>7, <2>8 DEF DestroyStep
<1>2. ControlInv'
  <2>1. CASE beginDestroy(p)
    <3>1. cur[p] \in Ids BY <1>0, <2>1 DEF beginDestroy, DestroyPcs
    <3>2. CASE cur' = cur /\ Goto(p, "drain")
      BY <1>0, <2>1, <3>1, <3>2, Stay DEF DestroyPcs, TypeInv
    <3>3. CASE cur' = cur /\ Goto(p, "cleanup")
      BY <1>0, <2>1, <3>1, <3>3, Stay DEF DestroyPcs, TypeInv
    <3>4. CASE p # Main /\ Return(p)
      BY <1>0, <3>4, Move DEF TypeInv
    <3> QED BY <2>1, <3>2, <3>3, <3>4 DEF beginDestroy
  <2>2. CASE finishDestroy(p)
    BY <1>0, <2>2, Move DEF finishDestroy, TypeInv
  <2>3. ASSUME NEW l \in DestroyPcs, pc[p] \in DestroyPcs, cur' = cur, Goto(p, l) PROVE ControlInv'
    BY <1>0, <2>3, Stay DEF TypeInv
  <2> QED BY <2>1, <2>2, <2>3 DEF DestroyPcs, DestroyStep, waitForExecDrain, CloseAgent, KillVM, WaitVM,
     ReleaseNetns, ClearNetns
<1> QED BY <1>1, <1>2 DEF TypeInv

(* So does a step of a handler. *)
LEMMA HandlerTypes ==
  ASSUME TypeInv, NEW h \in Handlers, Request(h) \/ HandlerStep(h)
  PROVE  TypeInv'
<1> USE LifecycleAssumption DEF ServerUp, Serving, Goto, Return,
      serverVars, lifeVars, agentVars, hostVars
<1>0. /\ h \in Procs /\ NoId \in Ids \cup {NoId}
      /\ \A l \in HandlerPcs : l \in PcsOf(h) /\ (l \in BusyPcs /\ pc[h] = l => cur[h] \in Ids)
  BY DEF TypeInv, ControlInv, CurOK, PcsOf, Procs
<1>1. CASE DestroyStep(h) BY <1>0, <1>1, DestroyTypes
<1>2. ASSUME ~DestroyStep(h) PROVE DataInv'
  <2> USE DEF TypeInv, DataInv
  <2>1. CASE CreateStart(h) BY <2>1 DEF CreateStart
  <2>2. CASE CreateFail(h) BY <2>2 DEF CreateFail
  <2>3. CASE CreateReady(h) BY <2>3 DEF CreateReady
  <2>4. CASE CreatePublish(h)
    <3>1. cur[h] \in Ids BY <1>0, <2>4, PcFacts DEF CreatePublish, CreatePcs
    <3> QED BY <2>4, <3>1 DEF CreatePublish
  <2>5. CASE tryStartExec(h) BY <2>5 DEF tryStartExec
  <2>6. CASE ExecCheck(h) \/ PeerStep(h)
    BY <2>6 DEF ExecCheck, PeerStep, ExecSSHDial, ExecSSHRun, WriteReply, WriteAgentReply
  <2>7. CASE ExecLockAgent(h) BY <2>7 DEF ExecLockAgent
  <2>8. CASE ExecDial(h) BY <2>8 DEF ExecDial
  <2>9. CASE ExecCallFails(h) BY <2>9 DEF ExecCallFails
  <2>10. CASE ExecReply(h) BY <2>10 DEF ExecReply
  <2>11. CASE finishExec(h)
    <3>1. \A n \in Nat : (IF n > 0 THEN n - 1 ELSE n) \in Nat OBVIOUS
    <3>2. inFlightExec' \in [Ids -> Nat] BY <2>11, <3>1 DEF finishExec
    <3> QED BY <2>11, <3>2 DEF finishExec
  <2>12. ASSUME NEW id \in Ids, ExecLookup(h, id) \/ DestroyLookup(h, id) PROVE DataInv'
    BY <2>12 DEF ExecLookup, DestroyLookup
  <2> QED BY <1>2, <2>1, <2>2, <2>3, <2>4, <2>5, <2>6, <2>7, <2>8, <2>9, <2>10, <2>11, <2>12
      DEF Request, HandlerStep, ServerStep
<1>3. ASSUME ~DestroyStep(h) PROVE ControlInv'
  <2>1. ASSUME NEW l \in HandlerPcs, pc[h] \in BusyPcs, cur' = cur, Goto(h, l) PROVE ControlInv'
    BY <1>0, <2>1, Stay DEF TypeInv, ControlInv, CurOK
  <2>2. CASE Return(h) BY <1>0, <2>2, PcFacts, Move DEF TypeInv
  <2>3. ASSUME NEW l \in HandlerPcs, NEW c \in Ids, Goto(h, l), cur' = [cur EXCEPT ![h] = c]
        PROVE  ControlInv'
    BY <1>0, <2>3, Move DEF TypeInv
  <2>4. CASE CreateStart(h)
    <3>1. nextSandboxID + 1 \in Ids BY <2>4 DEF CreateStart, TypeInv, DataInv, Ids
    <3> QED BY <2>3, <2>4, <3>1, PcFacts DEF CreateStart, CreatePcs
  <2>5. ASSUME NEW id \in Ids, ExecLookup(h, id) \/ DestroyLookup(h, id) PROVE ControlInv'
    BY <2>3, <2>5, PcFacts DEF ExecLookup, DestroyLookup, DestroyPcs
  <2>6. CASE CreateFail(h) \/ CreatePublish(h) \/ finishExec(h)
    BY <2>2, <2>6 DEF CreateFail, CreatePublish, finishExec
  <2>7. CASE CreateReady(h) BY <2>1, <2>7, PcFacts DEF CreateReady, CreatePcs
  <2>8. CASE tryStartExec(h) BY <2>1, <2>2, <2>8, PcFacts DEF tryStartExec, ExecPcs
  <2>9. ASSUME NEW l \in ExecPcs, pc[h] \in ExecPcs, cur' = cur, Goto(h, l) PROVE ControlInv'
    BY <2>1, <2>9, PcFacts
  <2>10. CASE ExecCheck(h) \/ PeerStep(h)
    BY <2>9, <2>10 DEF ExecCheck, PeerStep, ExecSSHDial, ExecSSHRun, WriteReply, WriteAgentReply,
     ExecPcs
  <2>11. CASE ExecLockAgent(h) BY <2>9, <2>11 DEF ExecLockAgent, ExecPcs
  <2>12. CASE ExecDial(h) BY <2>9, <2>12 DEF ExecDial, ExecPcs
  <2>13. CASE ExecCallFails(h) \/ ExecReply(h) BY <2>9, <2>13 DEF ExecCallFails, ExecReply, ExecPcs
  <2> QED BY <1>3, <2>4, <2>5, <2>6, <2>7, <2>8, <2>10, <2>11, <2>12, <2>13 DEF Request, HandlerStep, ServerStep
<1> QED BY <1>1, <1>2, <1>3 DEF TypeInv

(* Every step keeps the types. *)
LEMMA NextTypes ==
  ASSUME TypeInv, [Next]_vars
  PROVE  TypeInv'
<1> USE LifecycleAssumption DEF Goto, serverVars, lifeVars, agentVars, hostVars
<1>0. /\ Main \in Procs /\ \A h \in Handlers : h \in Procs
      /\ \A l \in MainPcs : l \in PcsOf(Main)
  BY DEF Procs, PcsOf
<1>1. ASSUME NEW l \in MainPcs \ BusyPcs, Goto(Main, l), cur' = cur PROVE ControlInv'
  BY <1>0, <1>1, Stay DEF TypeInv
<1>2. CASE Signal
  BY <1>1, <1>2, PcFacts DEF Signal, TypeInv, DataInv
<1>3. CASE ShutdownReturns
  BY <1>1, <1>3, PcFacts DEF ShutdownReturns, TypeInv, DataInv
<1>4. ASSUME NEW id \in Ids, DestroyAllNext(id) PROVE TypeInv'
  <2>1. ControlInv' BY <1>0, <1>4, PcFacts, Move DEF DestroyAllNext, TypeInv, DestroyPcs
  <2>2. DataInv' BY <1>4 DEF DestroyAllNext, TypeInv, DataInv
  <2> QED BY <2>1, <2>2 DEF TypeInv
<1>5. CASE MainReturns
  BY <1>1, <1>5, PcFacts DEF MainReturns, TypeInv, DataInv
<1>6. ASSUME NEW id \in Ids, VMExits(id) PROVE TypeInv'
  BY <1>6 DEF VMExits, TypeInv, ControlInv, CurOK, DataInv
<1>7. CASE UNCHANGED vars
  BY <1>7 DEF vars, TypeInv, ControlInv, CurOK, DataInv
<1> QED BY <1>0, <1>2, <1>3, <1>4, <1>5, <1>6, <1>7, HandlerTypes, DestroyTypes
       DEF Next, MainStep, Ended

LEMMA InitTypes == Init => TypeInv
<1> SUFFICES ASSUME Init PROVE TypeInv OBVIOUS
<1>1. \A p \in Procs : pc[p] \in PcsOf(p) /\ pc[p] \notin BusyPcs
  BY PcFacts DEF Init, PcsOf
<1>2. ControlInv
  BY <1>1, PcFacts DEF Init, ControlInv, CurOK
<1>3. DataInv
  <2>1. 0 \in 0..MaxSandboxes BY LifecycleAssumption
  <2> QED BY <2>1, Zenon DEF Init, DataInv
<1> QED BY <1>2, <1>3 DEF TypeInv

(* Every variable keeps its type in every reachable state of the server. *)
THEOREM TypeCorrect == Spec => []TypeOK
<1>1. Spec => []TypeInv BY InitTypes, NextTypes, PTL DEF Spec
<1>2. Spec => []TransportInv
  <2>1. Init => TransportInv BY DEF Init, TransportInv
  <2>2. TransportInv /\ [Next]_vars => TransportInv' BY DEF Next, vars, TransportInv
  <2> QED BY <2>1, <2>2, PTL DEF Spec
<1> QED BY <1>1, <1>2, TypeInvImplies, PTL

-----------------------------------------------------------------------------
(* Ownership.  What a sandbox looks like follows from the place it is in:    *)
(* not built yet, in the map or on the list, in the hands of a goroutine at  *)
(* a given step, or torn down.                                               *)

Fresh(id)  == netns[id] = "none" /\ releases[id] = 0 /\ vm[id] = "none"
Intact(id) == netns[id] = "held" /\ releases[id] = 0
Gone(id)   == netns[id] = "nil" /\ releases[id] = 1 /\ vm[id] # "alive"

OwnerPcs == CreatePcs \cup DestroyPcs

(* The step of the owner decides what its sandbox looks like. *)
Stage(p) ==
  /\ pc[p] \in OwnerPcs => cur[p] \in 1..nextSandboxID
  /\ pc[p] = "creating" => state[cur[p]] = "none"
  /\ pc[p] \in {"publish", "begin"} => state[cur[p]] = "Running" /\ Intact(cur[p])
  /\ pc[p] \in {"drain", "cleanup", "kill"} => state[cur[p]] = "Closing" /\ Intact(cur[p])
  /\ pc[p] \in {"wait", "release"} =>
       state[cur[p]] = "Closing" /\ Intact(cur[p]) /\ vm[cur[p]] # "alive"
  /\ pc[p] = "clear" =>
       state[cur[p]] = "Closing" /\ netns[cur[p]] = "held" /\ releases[cur[p]] = 1
         /\ vm[cur[p]] # "alive"
  /\ pc[p] = "finish" => state[cur[p]] = "Closing" /\ Gone(cur[p])

StageOK == \A p \in Procs : Stage(p)

(* A sandbox clients can still name, or main has still to reach, is untouched. *)
KeptOK == \A id \in sandboxes \cup todo : state[id] = "Running" /\ Intact(id)

(* Ids not handed out, failed creates and finished teardowns. *)
EndsOK ==
  \A id \in Ids :
    /\ id > nextSandboxID => state[id] = "none"
    /\ state[id] = "none" => Fresh(id)
    /\ state[id] = "Closed" => Gone(id)

(* Main's list is in use only while destroyAll runs; after a graceful shutdown
   no handler is left to publish anything. *)
MainOK ==
  /\ pc[Main] \in {"serve", "shutdown", "exited"} => todo = {}
  /\ graceful =>
       /\ pc[Main] \notin {"serve", "shutdown"}
       /\ sandboxes = {}
       /\ \A h \in Handlers : pc[h] = "idle"

OwnInv == SingleOwner /\ NoneLost /\ StageOK /\ KeptOK /\ EndsOK /\ MainOK

(* A step of an exec that is past its lookup touches nothing that is owned. *)
LEMMA ExecKeepsOwn ==
  ASSUME TypeInv, OwnInv, NEW h \in Handlers, ~graceful, NEW l, NEW c,
         l \notin OwnerPcs, pc[h] \notin OwnerPcs,
         pc' = [pc EXCEPT ![h] = l], cur' = [cur EXCEPT ![h] = c],
         UNCHANGED <<nextSandboxID, sandboxes, todo, graceful, state, vm, netns, releases>>
  PROVE  OwnInv'
<1> USE LifecycleAssumption DEF TypeInv, ControlInv, DataInv, OwnInv
<1>1. h # Main /\ h \in Procs BY DEF Procs
<1>2. \A p \in Procs : p # h => pc'[p] = pc[p] /\ cur'[p] = cur[p] OBVIOUS
<1>3. pc'[h] \notin OwnerPcs /\ pc'[Main] = pc[Main] BY <1>1 DEF Procs
<1>4. \A p \in Procs, id \in Ids : Owns(p, id)' <=> Owns(p, id)
  BY <1>2, <1>3 DEF Owns, OwnerPcs
<1>5. SingleOwner' BY <1>4 DEF SingleOwner
<1>6. NoneLost' BY <1>4 DEF NoneLost
<1>7. StageOK'
  <2>1. Stage(h)' BY <1>3 DEF Stage, OwnerPcs, CreatePcs, DestroyPcs
  <2>2. \A p \in Procs : p # h => Stage(p)' BY <1>2 DEF StageOK, Stage, Intact, Gone
  <2> QED BY <2>1, <2>2 DEF StageOK
<1>8. KeptOK' BY DEF KeptOK, Intact
<1>9. EndsOK' BY DEF EndsOK, Fresh, Gone
<1>10. MainOK' BY <1>3 DEF MainOK
<1> QED BY <1>5, <1>6, <1>7, <1>8, <1>9, <1>10

(* An owner that keeps its sandbox only answers for its own stage. *)
LEMMA OwnerKeepsOwn ==
  ASSUME TypeInv, TypeInv', OwnInv, NEW p \in Procs, NEW l \in OwnerPcs,
         pc[p] \in OwnerPcs, pc' = [pc EXCEPT ![p] = l], cur' = cur,
         UNCHANGED <<nextSandboxID, sandboxes, todo, graceful>>,
         \A id \in Ids : id # cur[p] =>
           state'[id] = state[id] /\ vm'[id] = vm[id] /\ netns'[id] = netns[id]
             /\ releases'[id] = releases[id],
         state'[cur[p]] \in {"Running", "Closing"},
         Stage(p)'
  PROVE  OwnInv'
<1> USE LifecycleAssumption DEF TypeInv, ControlInv, DataInv, OwnInv
<1>0. cur[p] \in Ids /\ Owns(p, cur[p])
  BY DEF CurOK, BusyPcs, OwnerPcs, Owns
<1>1. \A q \in Procs : q # p => pc'[q] = pc[q] OBVIOUS
<1>2. pc'[p] = l OBVIOUS
<1>3. \A q \in Procs, id \in Ids : Owns(q, id)' <=> Owns(q, id)
  BY <1>1, <1>2 DEF Owns, OwnerPcs
<1>4. cur[p] \notin sandboxes \cup todo BY <1>0 DEF SingleOwner
<1>5. SingleOwner' BY <1>3 DEF SingleOwner
<1>6. NoneLost' BY <1>0, <1>3 DEF NoneLost
<1>7. StageOK'
  <2>1. SUFFICES ASSUME NEW q \in Procs, q # p PROVE Stage(q)' BY DEF StageOK
  <2>2. Stage(q) BY DEF StageOK
  <2>3. pc'[q] = pc[q] BY <1>1, <2>1
  <2>4. CASE pc[q] \in OwnerPcs
    <3>1. cur[q] \in Ids /\ Owns(q, cur[q]) BY <2>4 DEF CurOK, BusyPcs, OwnerPcs, Owns
    <3>2. cur[q] # cur[p] BY <1>0, <2>1, <3>1 DEF SingleOwner
    <3> QED BY <2>2, <2>3, <3>1, <3>2 DEF Stage, Intact, Gone
  <2>5. CASE pc[q] \notin OwnerPcs
    BY <2>3, <2>5 DEF Stage, OwnerPcs, CreatePcs, DestroyPcs
  <2> QED BY <2>4, <2>5
<1>8. KeptOK' BY <1>4 DEF KeptOK, Intact
<1>9. EndsOK'
  <2>1. cur[p] \in 1..nextSandboxID BY DEF StageOK, Stage
  <2>2. SUFFICES ASSUME NEW id \in Ids
                 PROVE  /\ id > nextSandboxID' => state'[id] = "none"
                        /\ state'[id] = "none" => Fresh(id)'
                        /\ state'[id] = "Closed" => Gone(id)'
    BY DEF EndsOK
  <2>3. CASE id = cur[p] BY <2>1, <2>3, SMTT(30) DEF Ids
  <2>4. CASE id # cur[p] BY <2>4 DEF EndsOK, Fresh, Gone
  <2> QED BY <2>3, <2>4
<1>10. MainOK'
  <2>1. l \notin {"serve", "shutdown", "exited", "idle"} BY DEF OwnerPcs, CreatePcs, DestroyPcs
  <2>2. CASE p = Main BY <1>1, <1>2, <2>1, <2>2 DEF MainOK, Procs
  <2>3. CASE p # Main
    <3>1. p \in Handlers /\ pc[p] # "idle" BY <2>3 DEF Procs, OwnerPcs, CreatePcs, DestroyPcs
    <3> QED BY <1>1, <2>3, <3>1 DEF MainOK, Procs
  <2> QED BY <2>2, <2>3
<1> QED BY <1>5, <1>6, <1>7, <1>8, <1>9, <1>10

(* The teardown up to its last step stays with its owner. *)
LEMMA DestroyKeepsOwn ==
  ASSUME TypeInv, TypeInv', OwnInv, NEW p \in Procs, DestroyStep(p), ~finishDestroy(p)
  PROVE  OwnInv'
<1> USE LifecycleAssumption DEF TypeInv, ControlInv, DataInv, Goto, ServerUp,
      serverVars, lifeVars, agentVars, hostVars
<1>0. Stage(p) BY DEF OwnInv, StageOK
<1>1. ASSUME NEW k \in DestroyPcs, NEW l \in DestroyPcs, pc[p] = k
      PROVE  l \in OwnerPcs /\ pc[p] \in OwnerPcs /\ cur[p] \in Ids
  BY <1>1 DEF OwnerPcs, CurOK, BusyPcs
<1>2. CASE beginDestroy(p)
  <2>1. state[cur[p]] = "Running" BY <1>0, <1>2 DEF beginDestroy, Stage
  <2>2. Stage(p)' BY <1>0, <1>1, <1>2, <2>1 DEF beginDestroy, Stage, Intact, DestroyPcs
  <2> QED BY <1>1, <1>2, <2>1, <2>2, OwnerKeepsOwn DEF beginDestroy, DestroyPcs
<1>3. CASE waitForExecDrain(p)
  <2>1. Stage(p)' BY <1>0, <1>1, <1>3 DEF waitForExecDrain, Stage, Intact, DestroyPcs
  <2>2. state'[cur[p]] = "Closing" BY <1>0, <1>3 DEF waitForExecDrain, Stage
  <2> QED BY <1>1, <1>3, <2>1, <2>2, OwnerKeepsOwn DEF waitForExecDrain, DestroyPcs
<1>4. CASE CloseAgent(p)
  <2>1. Stage(p)' BY <1>0, <1>1, <1>4 DEF CloseAgent, Stage, Intact, DestroyPcs
  <2>2. state'[cur[p]] = "Closing" BY <1>0, <1>4 DEF CloseAgent, Stage
  <2> QED BY <1>1, <1>4, <2>1, <2>2, OwnerKeepsOwn DEF CloseAgent, DestroyPcs
<1>5. CASE KillVM(p)
  <2>1. Stage(p)' BY <1>0, <1>1, <1>5 DEF KillVM, Stage, Intact, DestroyPcs
  <2>2. state'[cur[p]] = "Closing" BY <1>0, <1>5 DEF KillVM, Stage
  <2> QED BY <1>1, <1>5, <2>1, <2>2, OwnerKeepsOwn DEF KillVM, DestroyPcs
<1>6. CASE WaitVM(p)
  <2>1. Stage(p)' BY <1>0, <1>1, <1>6 DEF WaitVM, Stage, Intact, DestroyPcs
  <2>2. state'[cur[p]] = "Closing" BY <1>0, <1>6 DEF WaitVM, Stage
  <2> QED BY <1>1, <1>6, <2>1, <2>2, OwnerKeepsOwn DEF WaitVM, DestroyPcs
<1>7. CASE ReleaseNetns(p)
  <2>1. Stage(p)' BY <1>0, <1>1, <1>7 DEF ReleaseNetns, Stage, Intact, DestroyPcs
  <2>2. state'[cur[p]] = "Closing" BY <1>0, <1>7 DEF ReleaseNetns, Stage
  <2> QED BY <1>1, <1>7, <2>1, <2>2, OwnerKeepsOwn DEF ReleaseNetns, DestroyPcs
<1>8. CASE ClearNetns(p)
  <2>1. Stage(p)' BY <1>0, <1>1, <1>8 DEF ClearNetns, Stage, Gone, DestroyPcs
  <2>2. state'[cur[p]] = "Closing" BY <1>0, <1>8 DEF ClearNetns, Stage
  <2> QED BY <1>1, <1>8, <2>1, <2>2, OwnerKeepsOwn DEF ClearNetns, DestroyPcs
<1> QED BY <1>2, <1>3, <1>4, <1>5, <1>6, <1>7, <1>8 DEF DestroyStep

(* An owner may let go of a sandbox that was never built or is torn down. *)
LEMMA LeaveKeepsOwn ==
  ASSUME TypeInv, TypeInv', OwnInv, NEW p \in Procs, NEW l, pc[p] \in OwnerPcs,
         l \notin OwnerPcs, p = Main => l = "next",
         pc' = [pc EXCEPT ![p] = l], cur' = [cur EXCEPT ![p] = NoId],
         UNCHANGED <<nextSandboxID, sandboxes, todo, graceful, vm, netns, releases>>,
         \A id \in Ids : id # cur[p] => state'[id] = state[id],
         state'[cur[p]] \in {"none", "Closed"},
         state'[cur[p]] = "none" => Fresh(cur[p]),
         state'[cur[p]] = "Closed" => Gone(cur[p])
  PROVE  OwnInv'
<1> USE LifecycleAssumption DEF TypeInv, ControlInv, DataInv, OwnInv
<1>0. cur[p] \in Ids /\ Owns(p, cur[p]) /\ cur[p] \in 1..nextSandboxID
  BY DEF CurOK, BusyPcs, OwnerPcs, Owns, StageOK, Stage
<1>1. \A q \in Procs : q # p => pc'[q] = pc[q] /\ cur'[q] = cur[q] OBVIOUS
<1>2. pc'[p] \notin OwnerPcs OBVIOUS
<1>3. \A q \in Procs, id \in Ids : Owns(q, id)' <=> Owns(q, id) /\ q # p
  BY <1>1, <1>2 DEF Owns, OwnerPcs
<1>4. cur[p] \notin sandboxes \cup todo BY <1>0 DEF SingleOwner
<1>5. SingleOwner' BY <1>3 DEF SingleOwner
<1>6. NoneLost'
  <2>1. \A q \in Procs, id \in Ids : id # cur[p] => (Owns(q, id)' <=> Owns(q, id))
    BY <1>3 DEF Owns
  <2> QED BY <2>1 DEF NoneLost
<1>7. StageOK'
  <2>1. Stage(p)' BY <1>2 DEF Stage, OwnerPcs, CreatePcs, DestroyPcs
  <2>2. SUFFICES ASSUME NEW q \in Procs, q # p PROVE Stage(q)' BY <2>1 DEF StageOK
  <2>3. Stage(q) BY DEF StageOK
  <2>4. pc'[q] = pc[q] /\ cur'[q] = cur[q] BY <1>1, <2>2
  <2>5. CASE pc[q] \in OwnerPcs
    <3>1. cur[q] \in Ids /\ Owns(q, cur[q]) BY <2>5 DEF CurOK, BusyPcs, OwnerPcs, Owns
    <3>2. cur[q] # cur[p] BY <1>0, <2>2, <3>1 DEF SingleOwner
    <3> QED BY <2>3, <2>4, <3>1, <3>2 DEF Stage, Intact, Gone
  <2>6. CASE pc[q] \notin OwnerPcs
    BY <2>4, <2>6 DEF Stage, OwnerPcs, CreatePcs, DestroyPcs
  <2> QED BY <2>5, <2>6
<1>8. KeptOK' BY <1>4 DEF KeptOK, Intact
<1>9. EndsOK'
  <2>1. SUFFICES ASSUME NEW id \in Ids
                 PROVE  /\ id > nextSandboxID' => state'[id] = "none"
                        /\ state'[id] = "none" => Fresh(id)'
                        /\ state'[id] = "Closed" => Gone(id)'
    BY DEF EndsOK
  <2>2. CASE id = cur[p] BY <1>0, <2>2 DEF Ids, Fresh, Gone
  <2>3. CASE id # cur[p] BY <2>3 DEF EndsOK, Fresh, Gone
  <2> QED BY <2>2, <2>3
<1>10. MainOK'
  <2>1. CASE p = Main BY <1>1, <2>1 DEF MainOK, Procs
  <2>2. CASE p # Main
    <3>1. p \in Handlers /\ pc[p] # "idle" BY <2>2 DEF Procs, OwnerPcs, CreatePcs, DestroyPcs
    <3> QED BY <1>1, <2>2, <3>1 DEF MainOK, Procs
  <2> QED BY <2>1, <2>2
<1> QED BY <1>5, <1>6, <1>7, <1>8, <1>9, <1>10

(* A process takes an intact sandbox out of the map or off main's list. *)
LEMMA TakeKeepsOwn ==
  ASSUME TypeInv, TypeInv', OwnInv, NEW p \in Procs, NEW id \in sandboxes \cup todo,
         pc[p] \notin OwnerPcs, p # Main => ~graceful, pc[Main] # "exited",
         sandboxes' = sandboxes \ {id}, todo' = todo \ {id},
         pc' = [pc EXCEPT ![p] = "begin"], cur' = [cur EXCEPT ![p] = id],
         UNCHANGED <<nextSandboxID, graceful, state, vm, netns, releases>>
  PROVE  OwnInv'
<1> USE LifecycleAssumption DEF TypeInv, ControlInv, DataInv, OwnInv
<1>0. id \in Ids /\ state[id] = "Running" /\ Intact(id) BY DEF KeptOK
<1>1. \A q \in Procs : q # p => pc'[q] = pc[q] /\ cur'[q] = cur[q] OBVIOUS
<1>2. pc'[p] = "begin" /\ cur'[p] = id /\ Owns(p, id)'
  BY <1>0 DEF Owns, DestroyPcs
<1>3. \A q \in Procs, i \in Ids : Owns(q, i)' <=> Owns(q, i) \/ (q = p /\ i = id)
  BY <1>1, <1>2 DEF Owns, OwnerPcs
<1>4. \A q \in Procs : ~Owns(q, id) BY <1>0 DEF SingleOwner
<1>5. SingleOwner'
  <2>1. \A q, r \in Procs, i \in Ids : Owns(q, i)' /\ Owns(r, i)' => q = r
    BY <1>3, <1>4 DEF SingleOwner
  <2>2. \A q \in Procs, i \in Ids : Owns(q, i)' => i \notin sandboxes' \cup todo'
    BY <1>3 DEF SingleOwner
  <2>3. sandboxes' \cap todo' = {} BY DEF SingleOwner
  <2> QED BY <2>1, <2>2, <2>3 DEF SingleOwner
<1>6. NoneLost'
  <2>1. SUFFICES ASSUME NEW i \in Ids, state[i] \in {"Running", "Closing"}
                 PROVE  i \in sandboxes' \cup todo' \/ \E q \in Procs : Owns(q, i)'
    BY DEF NoneLost
  <2>2. CASE i = id BY <1>2, <2>2
  <2>3. CASE i # id BY <1>3, <2>1, <2>3 DEF NoneLost
  <2> QED BY <2>2, <2>3
<1>7. StageOK'
  <2>1. id \in 1..nextSandboxID BY <1>0 DEF EndsOK, Ids
  <2>2. Stage(p)' BY <1>0, <1>2, <2>1 DEF Stage, Intact
  <2>3. \A q \in Procs : q # p => Stage(q)' BY <1>1 DEF StageOK, Stage, Intact, Gone
  <2> QED BY <2>2, <2>3 DEF StageOK
<1>8. KeptOK' BY DEF KeptOK, Intact
<1>9. EndsOK' BY DEF EndsOK, Fresh, Gone
<1>10. MainOK'
  <2>1. CASE p = Main BY <1>1, <1>2, <2>1 DEF MainOK, Procs
  <2>2. CASE p # Main BY <1>1, <2>2 DEF MainOK, Procs
  <2> QED BY <2>1, <2>2
<1> QED BY <1>5, <1>6, <1>7, <1>8, <1>9, <1>10

(* A create starts with an id nobody has seen. *)
LEMMA CreateStartKeepsOwn ==
  ASSUME TypeInv, TypeInv', OwnInv, NEW h \in Handlers, CreateStart(h)
  PROVE  OwnInv'
<1> USE LifecycleAssumption DEF TypeInv, ControlInv, DataInv, OwnInv, Goto, Serving,
      serverVars, lifeVars, agentVars, hostVars, CreateStart
<1> DEFINE n == nextSandboxID + 1
<1>0. h \in Procs /\ h # Main /\ n \in Ids /\ n \in 1..nextSandboxID' /\ n > nextSandboxID
  BY DEF Procs, Ids
<1>1. \A q \in Procs : q # h => pc'[q] = pc[q] /\ cur'[q] = cur[q] OBVIOUS
<1>2. pc'[h] = "creating" /\ cur'[h] = n /\ pc[h] \notin OwnerPcs
  BY <1>0 DEF OwnerPcs, CreatePcs, DestroyPcs
<1>3. state[n] = "none" /\ n \notin sandboxes \cup todo
  BY <1>0 DEF EndsOK, KeptOK
<1>4. \A q \in Procs : ~Owns(q, n)
  BY <1>0 DEF StageOK, Stage, Owns, OwnerPcs
<1>5. \A q \in Procs, i \in Ids : Owns(q, i)' <=> Owns(q, i) \/ (q = h /\ i = n)
  BY <1>1, <1>2 DEF Owns, OwnerPcs, CreatePcs
<1>6. SingleOwner' BY <1>3, <1>4, <1>5 DEF SingleOwner
<1>7. NoneLost' BY <1>5 DEF NoneLost
<1>8. StageOK'
  <2>1. Stage(h)' BY <1>0, <1>2, <1>3 DEF Stage
  <2>2. \A q \in Procs : q # h => Stage(q)' BY <1>1 DEF StageOK, Stage, Intact, Gone
  <2> QED BY <2>1, <2>2 DEF StageOK
<1>9. KeptOK' BY DEF KeptOK, Intact
<1>10. EndsOK' BY DEF EndsOK, Fresh, Gone, Ids
<1>11. MainOK' BY <1>0, <1>1 DEF MainOK, Procs
<1> QED BY <1>6, <1>7, <1>8, <1>9, <1>10, <1>11

(* Publishing hands the sandbox from its builder to the map. *)
LEMMA CreatePublishKeepsOwn ==
  ASSUME TypeInv, TypeInv', OwnInv, NEW h \in Handlers, CreatePublish(h)
  PROVE  OwnInv'
<1> USE LifecycleAssumption DEF TypeInv, ControlInv, DataInv, OwnInv, Return, ServerUp,
      serverVars, lifeVars, agentVars, hostVars, CreatePublish
<1> DEFINE id == cur[h]
<1>0. h \in Procs /\ h # Main /\ id \in Ids /\ Owns(h, id) /\ state[id] = "Running" /\ Intact(id)
  BY DEF Procs, CurOK, BusyPcs, CreatePcs, Owns, StageOK, Stage
<1>1. \A q \in Procs : q # h => pc'[q] = pc[q] /\ cur'[q] = cur[q] OBVIOUS
<1>2. pc'[h] = "idle" /\ pc'[h] \notin OwnerPcs
  BY <1>0 DEF OwnerPcs, CreatePcs, DestroyPcs
<1>3. \A q \in Procs, i \in Ids : Owns(q, i)' <=> Owns(q, i) /\ q # h
  BY <1>1, <1>2 DEF Owns, OwnerPcs
<1>4. id \notin sandboxes \cup todo BY <1>0 DEF SingleOwner
<1>5. SingleOwner'
  <2>1. \A q \in Procs, i \in Ids : Owns(q, i)' => i \notin sandboxes' \cup todo'
    BY <1>0, <1>3 DEF SingleOwner
  <2> QED BY <1>3, <1>4, <2>1 DEF SingleOwner
<1>6. NoneLost'
  <2>1. \A q \in Procs, i \in Ids : i # id => (Owns(q, i)' <=> Owns(q, i))
    BY <1>3 DEF Owns
  <2> QED BY <2>1 DEF NoneLost
<1>7. StageOK'
  <2>1. Stage(h)' BY <1>2 DEF Stage, OwnerPcs
  <2>2. \A q \in Procs : q # h => Stage(q)' BY <1>1 DEF StageOK, Stage, Intact, Gone
  <2> QED BY <2>1, <2>2 DEF StageOK
<1>8. KeptOK' BY <1>0 DEF KeptOK, Intact
<1>9. EndsOK' BY DEF EndsOK, Fresh, Gone
<1>10. MainOK' BY <1>0, <1>1 DEF MainOK, Procs
<1> QED BY <1>5, <1>6, <1>7, <1>8, <1>9, <1>10

(* destroyAll takes the whole map. *)
LEMMA ShutdownKeepsOwn ==
  ASSUME TypeInv, OwnInv, ShutdownReturns
  PROVE  OwnInv'
<1> USE LifecycleAssumption DEF TypeInv, ControlInv, DataInv, OwnInv, Goto,
      serverVars, lifeVars, agentVars, hostVars, ShutdownReturns
<1>0. Main \in Procs /\ todo = {} BY DEF Procs, MainOK
<1>1. \A q \in Procs : q # Main => pc'[q] = pc[q] OBVIOUS
<1>2. pc'[Main] = "next" /\ pc'[Main] \notin OwnerPcs /\ pc[Main] \notin OwnerPcs
  BY <1>0 DEF OwnerPcs, CreatePcs, DestroyPcs
<1>3. \A q \in Procs, i \in Ids : Owns(q, i)' <=> Owns(q, i)
  BY <1>1, <1>2 DEF Owns, OwnerPcs
<1>4. SingleOwner' BY <1>0, <1>3 DEF SingleOwner
<1>5. NoneLost' BY <1>0, <1>3 DEF NoneLost
<1>6. StageOK'
  <2>1. Stage(Main)' BY <1>2 DEF Stage, OwnerPcs
  <2>2. \A q \in Procs : q # Main => Stage(q)' BY <1>1 DEF StageOK, Stage, Intact, Gone
  <2> QED BY <2>1, <2>2 DEF StageOK
<1>7. KeptOK' BY DEF KeptOK, Intact
<1>8. EndsOK' BY DEF EndsOK, Fresh, Gone
<1>9. MainOK' BY <1>1, <1>2 DEF MainOK, Procs
<1> QED BY <1>4, <1>5, <1>6, <1>7, <1>8, <1>9

(* A process that only changes its own place outside the owning steps. *)
LEMMA HandlerKeepsOwn ==
  ASSUME TypeInv, TypeInv', OwnInv, NEW h \in Handlers, Request(h) \/ HandlerStep(h)
  PROVE  OwnInv'
<1> USE LifecycleAssumption DEF Goto, Return, ServerUp, Serving,
      serverVars, lifeVars, agentVars, hostVars
<1>0. h \in Procs /\ h # Main BY DEF Procs
<1>1. /\ pc[h] # "idle" => ~graceful
      /\ pc[Main] = "serve" => ~graceful
  BY DEF OwnInv, MainOK
<1>2. /\ {"idle", "execGate"} \cap OwnerPcs = {}
      /\ ExecPcs \cap OwnerPcs = {}
  BY DEF OwnerPcs, CreatePcs, DestroyPcs, ExecPcs
<1>3. /\ cur = [cur EXCEPT ![h] = cur[h]]
      /\ pc \in [Procs -> HandlerPcs \cup MainPcs]
  BY <1>0 DEF TypeInv, ControlInv
<1>4. CASE CreateStart(h) BY <1>4, CreateStartKeepsOwn
<1>5. CASE CreateFail(h)
  <2>1. state[cur[h]] = "none" /\ cur[h] \in Ids /\ pc[h] \in OwnerPcs
    BY <1>0, <1>5 DEF CreateFail, OwnInv, StageOK, Stage, TypeInv, ControlInv, CurOK, BusyPcs,
       CreatePcs, OwnerPcs
  <2>2. Fresh(cur[h]) BY <2>1 DEF OwnInv, EndsOK
  <2> QED BY <1>0, <1>2, <1>5, <2>1, <2>2, LeaveKeepsOwn DEF CreateFail
<1>6. CASE CreateReady(h)
  <2>1. /\ state[cur[h]] = "none" /\ cur[h] \in Ids /\ cur[h] \in 1..nextSandboxID
        /\ pc[h] \in OwnerPcs /\ "publish" \in OwnerPcs
    BY <1>0, <1>6 DEF CreateReady, OwnInv, StageOK, Stage, TypeInv, ControlInv, CurOK, BusyPcs,
       CreatePcs, OwnerPcs
  <2>2. Fresh(cur[h]) BY <2>1 DEF OwnInv, EndsOK
  <2>3. Stage(h)' BY <1>0, <1>3, <1>6, <2>1, <2>2
    DEF CreateReady, Stage, Intact, Fresh, TypeInv, DataInv, OwnerPcs
  <2>4. state'[cur[h]] = "Running" BY <1>6, <2>1 DEF CreateReady, TypeInv, DataInv
  <2> QED BY <1>0, <1>6, <2>1, <2>3, <2>4, OwnerKeepsOwn DEF CreateReady, TypeInv, DataInv
<1>7. CASE CreatePublish(h) BY <1>7, CreatePublishKeepsOwn
<1>8. ASSUME NEW id \in Ids, ExecLookup(h, id) PROVE OwnInv'
  BY <1>1, <1>2, <1>8, ExecKeepsOwn DEF ExecLookup
<1>9. ASSUME NEW id \in Ids, DestroyLookup(h, id) PROVE OwnInv'
  <2>1. todo = {} BY <1>9 DEF DestroyLookup, OwnInv, MainOK
  <2> QED BY <1>0, <1>1, <1>2, <1>9, <2>1, TakeKeepsOwn DEF DestroyLookup
<1>10. ASSUME NEW l, NEW c, l \notin OwnerPcs, pc[h] \in ExecPcs \cup {"execGate"},
              Goto(h, l), cur' = [cur EXCEPT ![h] = c],
              UNCHANGED <<serverVars, state, hostVars>>
       PROVE  OwnInv'
  <2>1. pc[h] # "idle" BY <1>10 DEF ExecPcs
  <2> QED BY <1>1, <1>2, <1>10, <2>1, ExecKeepsOwn
<1>11. CASE tryStartExec(h)
  <2>1. "execReq" \notin OwnerPcs /\ "idle" \notin OwnerPcs BY <1>2 DEF ExecPcs
  <2> QED BY <1>3, <1>10, <1>11, <2>1 DEF tryStartExec
<1>12. ASSUME NEW l \in ExecPcs, pc[h] \in ExecPcs, cur' = cur, Goto(h, l),
              UNCHANGED <<serverVars, state, hostVars>>
       PROVE  OwnInv'
  BY <1>2, <1>3, <1>10, <1>12
<1>13. CASE ExecCheck(h) \/ PeerStep(h)
  BY <1>12, <1>13 DEF ExecCheck, PeerStep, ExecSSHDial, ExecSSHRun, WriteReply, WriteAgentReply,
     ExecPcs
<1>14. CASE ExecLockAgent(h) BY <1>12, <1>14 DEF ExecLockAgent, ExecPcs
<1>15. CASE ExecDial(h) BY <1>12, <1>15 DEF ExecDial, ExecPcs
<1>16. CASE ExecCallFails(h) \/ ExecReply(h)
  BY <1>12, <1>16 DEF ExecCallFails, ExecReply, ExecPcs
<1>17. CASE finishExec(h) BY <1>2, <1>10, <1>17 DEF finishExec, ExecPcs
<1>18. CASE finishDestroy(h)
  <2>1. Gone(cur[h]) /\ cur[h] \in Ids /\ pc[h] \in OwnerPcs
    BY <1>0, <1>18 DEF finishDestroy, OwnInv, StageOK, Stage, TypeInv, ControlInv, CurOK, BusyPcs,
       DestroyPcs, OwnerPcs
  <2>2. state'[cur[h]] = "Closed" BY <1>18, <2>1 DEF finishDestroy, TypeInv, DataInv
  <2> QED BY <1>0, <1>2, <1>18, <2>1, <2>2, LeaveKeepsOwn DEF finishDestroy, TypeInv, DataInv
<1>19. CASE DestroyStep(h) /\ ~finishDestroy(h) BY <1>0, <1>19, DestroyKeepsOwn
<1> QED BY <1>4, <1>5, <1>6, <1>7, <1>8, <1>9, <1>11, <1>13, <1>14, <1>15, <1>16, <1>17, <1>18, <1>19
       DEF Request, HandlerStep, ServerStep

(* Every step keeps the ownership invariant. *)
LEMMA NextKeepsOwn ==
  ASSUME TypeInv, TypeInv', OwnInv, [Next]_vars
  PROVE  OwnInv'
<1> USE LifecycleAssumption DEF Goto, serverVars, lifeVars, agentVars, hostVars
<1>0. Main \in Procs BY DEF Procs
<1>1. CASE UNCHANGED vars
  BY <1>1 DEF vars, OwnInv, SingleOwner, Owns, NoneLost, StageOK, Stage, KeptOK, EndsOK, MainOK,
     Intact, Fresh, Gone
<1>2. ASSUME NEW id \in Ids, VMExits(id) PROVE OwnInv'
  <2> USE <1>2 DEF VMExits, OwnInv, TypeInv, ControlInv, DataInv
  <2>1. \A i \in Ids : vm'[i] = vm[i] \/ (vm[i] # "none" /\ vm'[i] = "gone") OBVIOUS
  <2>2. SingleOwner' /\ NoneLost' /\ KeptOK' /\ MainOK'
    BY DEF SingleOwner, Owns, NoneLost, KeptOK, Intact, MainOK
  <2>3. EndsOK' BY <2>1 DEF EndsOK, Fresh, Gone
  <2>4. StageOK'
    <3>1. SUFFICES ASSUME NEW q \in Procs PROVE Stage(q)' BY DEF StageOK
    <3>2. Stage(q) BY DEF StageOK
    <3>3. CASE pc[q] \in OwnerPcs
      <4>1. cur[q] \in Ids BY <3>3 DEF CurOK, BusyPcs, OwnerPcs
      <4> QED BY <2>1, <3>2, <4>1 DEF Stage, Intact, Gone
    <3>4. CASE pc[q] \notin OwnerPcs BY <3>4 DEF Stage, OwnerPcs, CreatePcs, DestroyPcs
    <3> QED BY <3>3, <3>4
  <2> QED BY <2>2, <2>3, <2>4
<1>3. ASSUME NEW l \in {"shutdown", "exited"}, pc[Main] \notin OwnerPcs, Goto(Main, l), todo = {},
             l = "shutdown" => ~graceful,
             UNCHANGED <<cur, serverVars, lifeVars, agentVars, hostVars>>
      PROVE  OwnInv'
  <2> USE <1>0, <1>3 DEF OwnInv, TypeInv, ControlInv
  <2>1. \A q \in Procs : q # Main => pc'[q] = pc[q] OBVIOUS
  <2>2. pc'[Main] = l /\ pc'[Main] \notin OwnerPcs
    BY DEF OwnerPcs, CreatePcs, DestroyPcs
  <2>3. \A q \in Procs, i \in Ids : Owns(q, i)' <=> Owns(q, i)
    BY <2>1, <2>2 DEF Owns, OwnerPcs
  <2>4. SingleOwner' /\ NoneLost' BY <2>3 DEF SingleOwner, NoneLost
  <2>5. KeptOK' /\ EndsOK' BY DEF KeptOK, EndsOK, Intact, Fresh, Gone
  <2>6. MainOK' BY <2>1, <2>2 DEF MainOK, Procs
  <2>7. Stage(Main)' BY <2>2 DEF Stage, OwnerPcs, CreatePcs, DestroyPcs
  <2>8. \A q \in Procs : q # Main => Stage(q)' BY <2>1 DEF StageOK, Stage, Intact, Gone
  <2> QED BY <2>4, <2>5, <2>6, <2>7, <2>8 DEF StageOK
<1>4. pc[Main] \in {"serve", "next", "shutdown"} => pc[Main] \notin OwnerPcs
  BY DEF OwnerPcs, CreatePcs, DestroyPcs
<1>5. CASE Signal BY <1>3, <1>4, <1>5 DEF Signal, Serving, OwnInv, MainOK
<1>6. CASE MainReturns BY <1>3, <1>4, <1>6 DEF MainReturns
<1>7. CASE ShutdownReturns BY <1>7, ShutdownKeepsOwn
<1>8. ASSUME NEW id \in Ids, DestroyAllNext(id) PROVE OwnInv'
  <2>1. id \notin sandboxes BY <1>8 DEF DestroyAllNext, OwnInv, SingleOwner
  <2> QED BY <1>0, <1>4, <1>8, <2>1, TakeKeepsOwn DEF DestroyAllNext
<1>9. CASE finishDestroy(Main)
  <2>1. Gone(cur[Main]) /\ cur[Main] \in Ids /\ pc[Main] \in OwnerPcs /\ "next" \notin OwnerPcs
    BY <1>0, <1>9 DEF finishDestroy, OwnInv, StageOK, Stage, TypeInv, ControlInv, CurOK, BusyPcs,
       CreatePcs, DestroyPcs, OwnerPcs
  <2>2. state'[cur[Main]] = "Closed" BY <1>9, <2>1 DEF finishDestroy, TypeInv, DataInv
  <2> QED BY <1>0, <1>9, <2>1, <2>2, LeaveKeepsOwn DEF finishDestroy, TypeInv, DataInv
<1>10. CASE DestroyStep(Main) /\ ~finishDestroy(Main) BY <1>0, <1>10, DestroyKeepsOwn
<1>11. ASSUME NEW h \in Handlers, Request(h) \/ HandlerStep(h) PROVE OwnInv'
  BY <1>11, HandlerKeepsOwn
<1> QED BY <1>1, <1>2, <1>5, <1>6, <1>7, <1>8, <1>9, <1>10, <1>11 DEF Next, MainStep, Ended

LEMMA InitOwn == Init => OwnInv
BY LifecycleAssumption
   DEF Init, OwnInv, SingleOwner, Owns, NoneLost, StageOK, Stage, KeptOK, EndsOK, MainOK, Fresh,
       Procs, CreatePcs, DestroyPcs, OwnerPcs

LEMMA OwnInvAlways == Spec => [](TypeInv /\ OwnInv)
<1>1. TypeInv /\ OwnInv /\ [Next]_vars => (TypeInv /\ OwnInv)'
  BY NextTypes, NextKeepsOwn
<1> QED BY <1>1, InitTypes, InitOwn, PTL DEF Spec

(* No two goroutines ever build or tear down the same sandbox, and none of them
   holds one that clients can still name. *)
THEOREM OneOwner == Spec => []SingleOwner
BY OwnInvAlways, PTL DEF OwnInv

(* A sandbox that is not torn down is always in the map, on destroyAll's list or
   in the hands of a goroutine. *)
THEOREM NoSandboxLost == Spec => []NoneLost
BY OwnInvAlways, PTL DEF OwnInv

(* A sandbox's netns is released at most once, however /destroy requests and the
   shutdown of main interleave. *)
THEOREM NetnsReleasedOnce == Spec => []ReleasedOnce
<1>1. TypeInv /\ OwnInv => ReleasedOnce
  <2> SUFFICES ASSUME TypeInv, OwnInv, NEW id \in Ids PROVE releases[id] <= 1
    BY DEF ReleasedOnce
  <2> USE DEF TypeInv, DataInv, OwnInv
  <2>1. CASE state[id] = "none" BY <2>1 DEF EndsOK, Fresh
  <2>2. CASE state[id] = "Closed" BY <2>2 DEF EndsOK, Gone
  <2>3. CASE id \in sandboxes \cup todo BY <2>3 DEF KeptOK, Intact
  <2>4. ASSUME NEW p \in Procs, Owns(p, id), state[id] \in {"Running", "Closing"}
        PROVE  releases[id] <= 1
    BY <2>4 DEF Owns, StageOK, Stage, Intact, Gone, CreatePcs, DestroyPcs
  <2> QED BY <2>1, <2>2, <2>3, <2>4 DEF NoneLost
<1> QED BY <1>1, OwnInvAlways, PTL

(* A process that shut down without an error leaves no running VM and no held
   netns. *)
THEOREM GracefulExit == Spec => []GracefulExitLeavesNothing
<1>1. TypeInv /\ OwnInv => GracefulExitLeavesNothing
  <2> SUFFICES ASSUME TypeInv, OwnInv, pc[Main] = "exited", graceful, NEW id \in Ids
               PROVE  vm[id] # "alive" /\ netns[id] # "held"
    BY DEF GracefulExitLeavesNothing
  <2> USE DEF TypeInv, DataInv, OwnInv
  <2>1. sandboxes \cup todo = {} BY DEF MainOK
  <2>2. \A p \in Procs : ~Owns(p, id) BY DEF MainOK, Procs, Owns, CreatePcs, DestroyPcs
  <2>3. state[id] \in {"none", "Closed"} BY <2>1, <2>2 DEF NoneLost
  <2> QED BY <2>3 DEF EndsOK, Fresh, Gone
<1> QED BY <1>1, OwnInvAlways, PTL

-----------------------------------------------------------------------------
(* The exec gate.  On top of ownership: only a sandbox whose teardown began   *)
(* is drained, and its connection stays closed once the teardown closed it.   *)

LatePcs == {"kill", "wait", "release", "clear", "finish"}

DrainInv ==
  /\ DrainedStaysQuiet
  /\ DrainedClosesAgent
  /\ \A id \in Ids : drained[id] => state[id] \in {"Closing", "Closed"}
  /\ \A p \in Procs : pc[p] \in LatePcs /\ drained[cur[p]] => ~agent[cur[p]]

ExecInv == InFlightExact /\ DrainInv

(* A step of p neither takes it into an exec nor out of one. *)
LEMMA SameInExec ==
  ASSUME TypeInv, NEW p \in Procs, NEW l, pc' = [pc EXCEPT ![p] = l],
         \A q \in Procs : q # p => cur'[q] = cur[q],
         \/ p = Main
         \/ pc[p] \notin ExecPcs /\ l \notin ExecPcs
         \/ pc[p] \in ExecPcs /\ l \in ExecPcs /\ cur'[p] = cur[p]
  PROVE  \A id \in Ids : InExec(id)' = InExec(id)
<1>1. \A h \in Handlers : h \in Procs /\ h # Main BY LifecycleAssumption DEF Procs
<1>2. pc \in [Procs -> HandlerPcs \cup MainPcs] BY DEF TypeInv, ControlInv
<1> QED BY <1>1, <1>2 DEF InExec

LEMMA SameCount ==
  ASSUME InFlightExact, inFlightExec' = inFlightExec, \A id \in Ids : InExec(id)' = InExec(id)
  PROVE  InFlightExact'
BY DEF InFlightExact

(* What a step may do without disturbing a drained sandbox. *)
LEMMA DrainKept ==
  ASSUME TypeInv, DrainInv, drained' = drained,
         \A id \in Ids : drained[id] =>
           /\ InExec(id)' \subseteq InExec(id)
           /\ agent'[id] => agent[id]
           /\ state'[id] = state[id] \/ (state'[id] = "Closed" /\ ~agent[id]),
         \A q \in Procs : pc'[q] \in LatePcs =>
           /\ cur'[q] = cur[q] /\ cur[q] \in Ids
           /\ pc[q] \in LatePcs \/ ~agent'[cur[q]]
  PROVE  DrainInv'
<1> USE DEF DrainInv
<1>1. DrainedStaysQuiet' BY DEF DrainedStaysQuiet
<1>2. DrainedClosesAgent' BY DEF DrainedClosesAgent
<1>3. \A id \in Ids : drained'[id] => state'[id] \in {"Closing", "Closed"} OBVIOUS
<1>4. \A p \in Procs : pc'[p] \in LatePcs /\ drained'[cur'[p]] => ~agent'[cur'[p]] OBVIOUS
<1> QED BY <1>1, <1>2, <1>3, <1>4

(* The teardown: its drain decides on an exact count, its close comes before
   the late steps, its end finds the connection closed. *)
LEMMA DestroyKeepsExec ==
  ASSUME TypeInv, TypeInv', OwnInv, ExecInv, NEW p \in Procs, DestroyStep(p)
  PROVE  ExecInv'
<1> USE LifecycleAssumption DEF Goto, Return, ServerUp, serverVars, lifeVars, agentVars, hostVars
<1>0. /\ pc[p] \in DestroyPcs => cur[p] \in Ids
      /\ DestroyPcs \cap ExecPcs = {} /\ "idle" \notin ExecPcs /\ "next" \notin ExecPcs
      /\ \A q \in Procs : pc[q] \in LatePcs => cur[q] \in Ids
      /\ LatePcs \subseteq DestroyPcs
      /\ \A l \in {"drain", "cleanup", "idle", "next"} : l \notin LatePcs
  BY DEF TypeInv, ControlInv, CurOK, BusyPcs, DestroyPcs, ExecPcs, LatePcs
<1>1. /\ pc[p] \in DestroyPcs
      /\ \E l : l \notin ExecPcs /\ pc' = [pc EXCEPT ![p] = l]
      /\ \A q \in Procs : q # p => cur'[q] = cur[q] /\ pc'[q] = pc[q]
      /\ inFlightExec' = inFlightExec
  BY <1>0 DEF TypeInv, ControlInv, DestroyStep, beginDestroy, waitForExecDrain, CloseAgent, KillVM,
     WaitVM, ReleaseNetns, ClearNetns, finishDestroy, DestroyPcs
<1>2. \A id \in Ids : InExec(id)' = InExec(id)
  BY <1>0, <1>1, SameInExec
<1>3. InFlightExact' BY <1>1, <1>2, SameCount DEF ExecInv
<1>4. DrainInv'
  <2> USE <1>0, <1>1, <1>2 DEF ExecInv, TypeInv, ControlInv, DataInv
  <2>1. CASE beginDestroy(p)
    <3>1. state[cur[p]] = "Running" BY <2>1 DEF beginDestroy, OwnInv, StageOK, Stage
    <3>2. ~drained[cur[p]] BY <3>1 DEF DrainInv
    <3>3. pc'[p] \notin LatePcs BY <2>1, <3>1 DEF beginDestroy
    <3> QED BY <2>1, <3>1, <3>2, <3>3, DrainKept DEF beginDestroy
  <2>2. CASE waitForExecDrain(p)
    <3> USE <2>2 DEF waitForExecDrain
    <3>1. \A id \in Ids : id # cur[p] => drained'[id] = drained[id] OBVIOUS
    <3>2. drained'[cur[p]] => InExec(cur[p]) = {}
      <4>1. drained'[cur[p]] => inFlightExec[cur[p]] = 0 BY ZenonT(40)
      <4>2. inFlightExec[cur[p]] = Cardinality(InExec(cur[p])) BY DEF InFlightExact
      <4>3. IsFiniteSet(InExec(cur[p])) BY FS_Subset DEF InExec
      <4> QED BY <4>1, <4>2, <4>3, FS_EmptySet
    <3>3. state[cur[p]] = "Closing" BY DEF OwnInv, StageOK, Stage
    <3>4. DrainedStaysQuiet' BY <3>1, <3>2 DEF DrainInv, DrainedStaysQuiet
    <3>5. DrainedClosesAgent' BY <3>1, <3>3 DEF DrainInv, DrainedClosesAgent
    <3>6. \A id \in Ids : drained'[id] => state'[id] \in {"Closing", "Closed"}
      BY <3>1, <3>3 DEF DrainInv
    <3>7. ASSUME NEW q \in Procs, pc'[q] \in LatePcs, drained'[cur'[q]] PROVE ~agent'[cur'[q]]
      <4>1. q # p /\ pc[q] \in LatePcs BY <3>7
      <4>2. cur[q] # cur[p] BY <4>1 DEF OwnInv, SingleOwner, Owns
      <4> QED BY <3>1, <3>7, <4>1, <4>2 DEF DrainInv
    <3> QED BY <3>4, <3>5, <3>6, <3>7 DEF DrainInv
  <2>3. CASE CloseAgent(p)
    BY <2>3, DrainKept DEF CloseAgent
  <2>4. CASE KillVM(p) \/ WaitVM(p) \/ ReleaseNetns(p) \/ ClearNetns(p)
    <3>1. pc[p] \in LatePcs BY <2>4 DEF KillVM, WaitVM, ReleaseNetns, ClearNetns, LatePcs
    <3>2. UNCHANGED <<drained, agent, state, cur>> BY <2>4 DEF KillVM, WaitVM, ReleaseNetns, ClearNetns
    <3> QED BY <3>1, <3>2, DrainKept
  <2>5. CASE finishDestroy(p)
    <3>1. pc[p] \in LatePcs BY <2>5 DEF finishDestroy, LatePcs
    <3>2. drained[cur[p]] => ~agent[cur[p]] BY <3>1 DEF DrainInv
    <3>3. pc'[p] \notin LatePcs BY <2>5 DEF finishDestroy
    <3> QED BY <2>5, <3>2, <3>3, DrainKept DEF finishDestroy
  <2> QED BY <2>1, <2>2, <2>3, <2>4, <2>5 DEF DestroyStep
<1> QED BY <1>3, <1>4 DEF ExecInv

(* Requests: the gate lets in only what a teardown has not reached, and counts
   it; an exec can dial again only inside a sandbox that is not drained. *)
LEMMA HandlerKeepsExec ==
  ASSUME TypeInv, TypeInv', OwnInv, ExecInv, NEW h \in Handlers, Request(h) \/ HandlerStep(h)
  PROVE  ExecInv'
<1> USE LifecycleAssumption DEF Goto, Return, ServerUp, Serving,
      serverVars, lifeVars, agentVars, hostVars
<1>0. /\ h \in Procs /\ h # Main
      /\ \A q \in Procs : pc[q] \in LatePcs => cur[q] \in Ids
      /\ pc[h] \in ExecPcs \cup CreatePcs \cup {"execGate"} => cur[h] \in Ids
      /\ \A l \in {"idle", "execGate", "begin", "creating", "publish"} : l \notin ExecPcs
      /\ \A l \in {"idle", "execGate", "begin", "creating", "publish"} : l \notin LatePcs
      /\ ExecPcs \cap LatePcs = {}
  BY DEF Procs, TypeInv, ControlInv, CurOK, BusyPcs, DestroyPcs, CreatePcs, ExecPcs, LatePcs
<1>1. ASSUME NEW l, pc' = [pc EXCEPT ![h] = l], l \notin LatePcs,
             \A q \in Procs : q # h => cur'[q] = cur[q]
      PROVE  \A q \in Procs : pc'[q] \in LatePcs =>
               cur'[q] = cur[q] /\ cur[q] \in Ids /\ pc[q] \in LatePcs
  BY <1>0, <1>1 DEF TypeInv, ControlInv
<1>2. \A id \in Ids : /\ drained[id] => state[id] \in {"Closing", "Closed"}
                      /\ drained[id] => InExec(id) = {}
  BY DEF ExecInv, DrainInv, DrainedStaysQuiet
<1>3. CASE DestroyStep(h) BY <1>0, <1>3, DestroyKeepsExec
(* Steps that touch neither the counters nor the connection. *)
<1>4. ASSUME NEW l, pc' = [pc EXCEPT ![h] = l], l \notin LatePcs,
             \A q \in Procs : q # h => cur'[q] = cur[q],
             \/ pc[h] \notin ExecPcs /\ l \notin ExecPcs
             \/ pc[h] \in ExecPcs /\ l \in ExecPcs /\ cur'[h] = cur[h],
             UNCHANGED <<inFlightExec, drained>>,
             \A id \in Ids : drained[id] => state'[id] = state[id] /\ (agent'[id] => agent[id])
      PROVE  ExecInv'
  <2>1. \A id \in Ids : InExec(id)' = InExec(id) BY <1>0, <1>4, SameInExec
  <2>2. InFlightExact' BY <1>4, <2>1, SameCount DEF ExecInv
  <2>3. \A q \in Procs : pc'[q] \in LatePcs =>
          cur'[q] = cur[q] /\ cur[q] \in Ids /\ pc[q] \in LatePcs
    BY <1>1, <1>4
  <2>4. DrainInv' BY <1>4, <2>1, <2>3, DrainKept DEF ExecInv
  <2> QED BY <2>2, <2>4 DEF ExecInv
<1>5. \A q \in Procs : \A c : q # h => [cur EXCEPT ![h] = c][q] = cur[q]
  BY DEF TypeInv, ControlInv
<1>6. CASE CreateStart(h) \/ CreateFail(h) \/ CreatePublish(h)
  BY <1>0, <1>4, <1>5, <1>6 DEF CreateStart, CreateFail, CreatePublish
<1>7. CASE CreateReady(h)
  <2>1. cur[h] \in Ids /\ state[cur[h]] = "none"
    BY <1>0, <1>7 DEF CreateReady, OwnInv, StageOK, Stage, CreatePcs
  <2>2. ~drained[cur[h]] BY <1>2, <2>1
  <2>3. \A id \in Ids : drained[id] => state'[id] = state[id] /\ (agent'[id] => agent[id])
    BY <1>7, <2>2 DEF CreateReady, TypeInv, DataInv
  <2> QED BY <1>0, <1>4, <1>7, <2>3 DEF CreateReady
<1>8. ASSUME NEW id \in Ids, ExecLookup(h, id) \/ DestroyLookup(h, id) PROVE ExecInv'
  BY <1>0, <1>4, <1>5, <1>8 DEF ExecLookup, DestroyLookup
<1>9. CASE tryStartExec(h) /\ state[cur[h]] # "Running"
  <2>1. /\ pc[h] = "execGate" /\ pc' = [pc EXCEPT ![h] = "idle"]
        /\ cur' = [cur EXCEPT ![h] = NoId]
        /\ UNCHANGED <<inFlightExec, drained, state, agent>>
    BY <1>9 DEF tryStartExec
  <2>2. \A q \in Procs : q # h => cur'[q] = cur[q] BY <1>5, <2>1
  <2> QED BY <1>0, <1>4, <2>1, <2>2
<1>10. CASE tryStartExec(h) /\ state[cur[h]] = "Running"
  <2> DEFINE c == cur[h]
  <2> USE <1>10 DEF tryStartExec
  <2>1. c \in Ids /\ ~drained[c] /\ h \notin InExec(c) BY <1>0, <1>2 DEF InExec
  <2>2. /\ pc' = [pc EXCEPT ![h] = "execReq"] /\ cur' = cur
        /\ inFlightExec' = [inFlightExec EXCEPT ![c] = inFlightExec[c] + 1]
    OBVIOUS
  <2>3. InExec(c)' = InExec(c) \cup {h}
    BY <1>0, <2>2 DEF InExec, ExecPcs, TypeInv, ControlInv, Procs
  <2>4. \A id \in Ids : id # c => InExec(id)' = InExec(id)
    BY <1>0, <2>2 DEF InExec, TypeInv, ControlInv, Procs
  <2>5. IsFiniteSet(InExec(c)) BY FS_Subset DEF InExec
  <2>6. InFlightExact'
    <3>1. Cardinality(InExec(c)') = Cardinality(InExec(c)) + 1
      BY <2>1, <2>3, <2>5, FS_AddElement
    <3> QED BY <2>1, <2>2, <2>4, <3>1 DEF ExecInv, InFlightExact, TypeInv, DataInv
  <2>7. \A q \in Procs : pc'[q] \in LatePcs =>
          cur'[q] = cur[q] /\ cur[q] \in Ids /\ pc[q] \in LatePcs
    BY <1>0, <1>1, <2>2 DEF ExecPcs
  <2>8. DrainInv' BY <2>1, <2>4, <2>7, DrainKept DEF ExecInv
  <2> QED BY <2>6, <2>8 DEF ExecInv
<1>11. ASSUME NEW l \in ExecPcs, pc[h] \in ExecPcs, Goto(h, l), cur' = cur,
              UNCHANGED <<inFlightExec, drained, state>>,
              \A id \in Ids : drained[id] => (agent'[id] => agent[id])
       PROVE  ExecInv'
  BY <1>0, <1>4, <1>11
<1>12. CASE ExecCheck(h) \/ PeerStep(h)
  BY <1>11, <1>12 DEF ExecCheck, PeerStep, ExecSSHDial, ExecSSHRun, WriteReply, WriteAgentReply,
     ExecPcs
<1>13. CASE ExecLockAgent(h) BY <1>11, <1>13 DEF ExecLockAgent, ExecPcs
<1>14. CASE ExecDial(h)
  <2>1. pc[h] \in ExecPcs BY <1>14 DEF ExecDial, ExecPcs
  <2>2. h \in InExec(cur[h]) /\ cur[h] \in Ids BY <1>0, <2>1 DEF InExec
  <2>3. ~drained[cur[h]] BY <1>2, <2>2
  <2>4. \A id \in Ids : drained[id] => (agent'[id] => agent[id])
    BY <1>14, <2>3 DEF ExecDial, TypeInv, DataInv
  <2> QED BY <1>11, <1>14, <2>4 DEF ExecDial, ExecPcs
<1>15. CASE ExecCallFails(h)
  <2>1. \A id \in Ids : drained[id] => (agent'[id] => agent[id])
    BY <1>15 DEF ExecCallFails, TypeInv, DataInv
  <2> QED BY <1>11, <1>15, <2>1 DEF ExecCallFails, ExecPcs
<1>16. CASE ExecReply(h) BY <1>11, <1>16 DEF ExecReply, ExecPcs
<1>17. CASE finishExec(h)
  <2> USE <1>17 DEF finishExec
  <2>0. PICK c \in Ids : c = cur[h] BY <1>0 DEF ExecPcs
  <2>1. h \in InExec(c) BY <2>0 DEF InExec, ExecPcs
  <2>2. InExec(c)' = InExec(c) \ {h}
    BY <1>0, <2>0 DEF InExec, ExecPcs, TypeInv, ControlInv, Procs
  <2>3. \A id \in Ids : id # c => InExec(id)' = InExec(id)
    BY <1>0, <2>0 DEF InExec, TypeInv, ControlInv, Procs
  <2>4. IsFiniteSet(InExec(c)) BY FS_Subset DEF InExec
  <2>5. InFlightExact'
    <3>1. Cardinality(InExec(c)') = Cardinality(InExec(c)) - 1
      BY <2>1, <2>2, <2>4, FS_RemoveElement
    <3>2. Cardinality(InExec(c)) # 0 BY <2>1, <2>4, FS_EmptySet
    <3>3. inFlightExec[c] = Cardinality(InExec(c)) /\ inFlightExec[c] \in Nat
      BY <2>1 DEF ExecInv, InFlightExact, TypeInv, DataInv
    <3>4. inFlightExec[c] > 0 BY <3>2, <3>3
    <3>5. inFlightExec' = [inFlightExec EXCEPT ![c] = inFlightExec[c] - 1]
      BY <2>0, <3>4
    <3> QED BY <2>1, <2>3, <3>1, <3>3, <3>5 DEF ExecInv, InFlightExact, TypeInv, DataInv
  <2>6. \A q \in Procs : pc'[q] \in LatePcs =>
          cur'[q] = cur[q] /\ cur[q] \in Ids /\ pc[q] \in LatePcs
    BY <1>0, <1>1, <1>5
  <2>7. \A id \in Ids : InExec(id)' \subseteq InExec(id) BY <2>2, <2>3
  <2>8. DrainInv' BY <2>6, <2>7, DrainKept DEF ExecInv
  <2> QED BY <2>5, <2>8 DEF ExecInv
<1> QED BY <1>3, <1>6, <1>7, <1>8, <1>9, <1>10, <1>12, <1>13, <1>14, <1>15, <1>16, <1>17
       DEF Request, HandlerStep, ServerStep

(* Every step keeps the exec invariant. *)
LEMMA NextKeepsExec ==
  ASSUME TypeInv, TypeInv', OwnInv, ExecInv, [Next]_vars
  PROVE  ExecInv'
<1> USE LifecycleAssumption DEF Goto, serverVars, lifeVars, agentVars, hostVars
<1>0. /\ Main \in Procs
      /\ \A q \in Procs : pc[q] \in LatePcs => cur[q] \in Ids
  BY DEF Procs, TypeInv, ControlInv, CurOK, BusyPcs, DestroyPcs, LatePcs
<1>1. CASE pc' = pc /\ cur' = cur /\ UNCHANGED <<lifeVars, agentVars>>
  BY <1>1 DEF ExecInv, InFlightExact, InExec, DrainInv, DrainedStaysQuiet, DrainedClosesAgent
<1>2. ASSUME NEW l, l \notin LatePcs, pc' = [pc EXCEPT ![Main] = l],
             \A q \in Procs : q # Main => cur'[q] = cur[q], UNCHANGED <<lifeVars, agentVars>>
      PROVE  ExecInv'
  <2>1. \A id \in Ids : InExec(id)' = InExec(id) BY <1>0, <1>2, SameInExec
  <2>2. InFlightExact' BY <1>2, <2>1, SameCount DEF ExecInv
  <2>3. \A q \in Procs : pc'[q] \in LatePcs =>
          cur'[q] = cur[q] /\ cur[q] \in Ids /\ pc[q] \in LatePcs
    BY <1>0, <1>2 DEF TypeInv, ControlInv
  <2>4. DrainInv' BY <1>2, <2>1, <2>3, DrainKept DEF ExecInv
  <2> QED BY <2>2, <2>4 DEF ExecInv
<1>3. CASE Signal \/ ShutdownReturns \/ MainReturns
  BY <1>2, <1>3 DEF Signal, ShutdownReturns, MainReturns, LatePcs
<1>4. ASSUME NEW id \in Ids, DestroyAllNext(id) PROVE ExecInv'
  BY <1>2, <1>4 DEF DestroyAllNext, LatePcs, TypeInv, ControlInv
<1>5. ASSUME NEW id \in Ids, VMExits(id) PROVE ExecInv' BY <1>1, <1>5 DEF VMExits
<1>6. CASE UNCHANGED vars BY <1>1, <1>6 DEF vars
<1>7. CASE DestroyStep(Main) BY <1>0, <1>7, DestroyKeepsExec
<1>8. ASSUME NEW h \in Handlers, Request(h) \/ HandlerStep(h) PROVE ExecInv'
  BY <1>8, HandlerKeepsExec
<1> QED BY <1>3, <1>4, <1>5, <1>6, <1>7, <1>8 DEF Next, MainStep, Ended

LEMMA InitExec == Init => ExecInv
<1> SUFFICES ASSUME Init PROVE ExecInv OBVIOUS
<1>1. \A id \in Ids : InExec(id) = {}
  BY LifecycleAssumption DEF Init, InExec, Procs, ExecPcs
<1>2. InFlightExact BY <1>1, FS_EmptySet DEF Init, InFlightExact
<1>3. DrainInv
  BY LifecycleAssumption DEF Init, DrainInv, DrainedStaysQuiet, DrainedClosesAgent, LatePcs, Procs
<1> QED BY <1>2, <1>3 DEF ExecInv

LEMMA ExecInvAlways == Spec => [](TypeInv /\ OwnInv /\ ExecInv)
<1>1. TypeInv /\ OwnInv /\ ExecInv /\ [Next]_vars => (TypeInv /\ OwnInv /\ ExecInv)'
  BY NextTypes, NextKeepsOwn, NextKeepsExec
<1> QED BY <1>1, InitTypes, InitOwn, InitExec, PTL DEF Spec

(* inFlightExec always equals the number of execs between tryStartExec and
   finishExec. *)
THEOREM CountIsExact == Spec => []InFlightExact
BY ExecInvAlways, PTL DEF ExecInv

(* After a successful drain no exec is inside the sandbox, ever. *)
THEOREM DrainedIsQuiet == Spec => []DrainedStaysQuiet
BY ExecInvAlways, PTL DEF ExecInv, DrainInv

(* A sandbox torn down after a successful drain has no cached connection. *)
THEOREM DrainedIsClosed == Spec => []DrainedClosesAgent
BY ExecInvAlways, PTL DEF ExecInv, DrainInv
=============================================================================
