---------------------------- MODULE SandboxAPIProofs ----------------------------
(***************************************************************************)
(* SandboxLifecycle implements SandboxAPI, for every set of handlers and   *)
(* every number of sandboxes.                                              *)
(***************************************************************************)
EXTENDS SandboxLifecycleProofs

Inv == TypeInv /\ OwnInv /\ ExecInv

(* A step that changes neither what a sandbox is nor who is inside is a stutter. *)
LEMMA Stutters ==
  ASSUME UNCHANGED <<state, releases>>, ServerUp' = ServerUp,
         \A id \in Ids : InExec(id)' = InExec(id)
  PROVE  UNCHANGED API!apiVars
<1>1. boxBar' = boxBar BY DEF boxBar
<1>2. insideBar' = insideBar BY DEF insideBar
<1> QED BY <1>1, <1>2 DEF API!apiVars

(* One sandbox changes from one state to another and nobody enters or leaves. *)
LEMMA OneMoves ==
  ASSUME TypeInv, NEW id \in Ids, NEW v \in {"Running", "Closing", "Closed"},
         state' = [state EXCEPT ![id] = v], \A i \in Ids : InExec(i)' = InExec(i)
  PROVE  /\ insideBar' = insideBar
         /\ v = "Running" => boxBar' = [boxBar EXCEPT ![id] = "live"]
         /\ v = "Closing" => boxBar' = [boxBar EXCEPT ![id] = "closing"]
         /\ v = "Closed" => boxBar' = [boxBar EXCEPT ![id] = "gone"]
<1>1. insideBar' = insideBar BY DEF insideBar
<1>2. \A i \in Ids : state'[i] = IF i = id THEN v ELSE state[i] BY DEF TypeInv, DataInv
<1>3. boxBar' = [i \in Ids |-> IF i = id THEN BoxOf(v) ELSE boxBar[i]]
  <2>1. boxBar' = [i \in Ids |-> BoxOf(state'[i])] BY DEF boxBar
  <2>2. \A i \in Ids : BoxOf(state'[i]) = IF i = id THEN BoxOf(v) ELSE boxBar[i]
    <3>1. TAKE i \in Ids
    <3>2. boxBar[i] = BoxOf(state[i]) BY <3>1 DEF boxBar
    <3>3. CASE i = id
      <4>1. state'[i] = v BY <1>2, <3>1, <3>3
      <4> QED BY <3>3, <4>1
    <3>4. CASE i # id
      <4>1. state'[i] = state[i] BY <1>2, <3>1, <3>4
      <4> QED BY <3>2, <3>4, <4>1
    <3> QED BY <3>3, <3>4
  <2> QED BY <2>1, <2>2
<1>4. \A x : [boxBar EXCEPT ![id] = x] = [i \in Ids |-> IF i = id THEN x ELSE boxBar[i]]
  BY DEF boxBar
<1>5. boxBar' = [boxBar EXCEPT ![id] = BoxOf(v)] BY <1>3, <1>4
<1>6. /\ BoxOf("Running") = "live" /\ BoxOf("Closing") = "closing"
      /\ BoxOf("Closed") = "gone"
  BY DEF BoxOf
<1> QED BY <1>1, <1>5, <1>6

LEMMA BoxIs ==
  ASSUME NEW id \in Ids
  PROVE  /\ state[id] = "none" => boxBar[id] = "absent"
         /\ state[id] = "Running" => boxBar[id] = "live"
         /\ state[id] = "Closing" => boxBar[id] = "closing"
BY DEF boxBar, BoxOf

(* Somebody enters or leaves one sandbox. *)
LEMMA InsideChanges ==
  ASSUME NEW c \in Ids, NEW S, InExec(c)' = S, \A id \in Ids : id # c => InExec(id)' = InExec(id)
  PROVE  insideBar' = [insideBar EXCEPT ![c] = S]
<1>1. insideBar' = [id \in Ids |-> IF id = c THEN S ELSE InExec(id)]
  <2>1. insideBar' = [id \in Ids |-> InExec(id)'] BY DEF insideBar
  <2>2. \A id \in Ids : InExec(id)' = IF id = c THEN S ELSE InExec(id) BY Zenon
  <2> QED BY <2>1, <2>2
<1>2. [insideBar EXCEPT ![c] = S] = [id \in Ids |-> IF id = c THEN S ELSE InExec(id)]
  BY DEF insideBar
<1> QED BY <1>1, <1>2

(* Places of a process that are not inside an exec. *)
LEMMA OutsideStays ==
  ASSUME TypeInv, NEW p \in Procs, NEW l, l \notin ExecPcs, pc[p] \notin ExecPcs,
         pc' = [pc EXCEPT ![p] = l], \A q \in Procs : q # p => cur'[q] = cur[q]
  PROVE  \A id \in Ids : InExec(id)' = InExec(id)
BY DEF TypeInv, ControlInv, InExec, Procs

(* The teardown: begin is Close, the release is GiveBack, the end is Finish. *)
LEMMA DestroySimulates ==
  ASSUME Inv, NEW p \in Procs, DestroyStep(p)
  PROVE  API!Next \/ UNCHANGED API!apiVars
<1> USE DEF Goto, Return, ServerUp, serverVars, lifeVars, agentVars, hostVars, Inv
<1>0. /\ pc[p] \in DestroyPcs => cur[p] \in Ids
      /\ Stage(p)
      /\ \A l \in DestroyPcs \cup {"idle", "next"} : l \notin ExecPcs
      /\ pc[p] \in DestroyPcs
  BY DEF TypeInv, ControlInv, CurOK, BusyPcs, OwnInv, StageOK, DestroyPcs, ExecPcs,
     DestroyStep, beginDestroy, waitForExecDrain, CloseAgent, KillVM, WaitVM, ReleaseNetns,
     ClearNetns, finishDestroy
<1>1. pc[Main] # "exited" /\ pc'[Main] # "exited"
  <2>1. pc[Main] # "exited"
    BY DEF DestroyStep, beginDestroy, waitForExecDrain, CloseAgent, KillVM, WaitVM, ReleaseNetns,
     ClearNetns, finishDestroy
  <2>2. \E l \in DestroyPcs \cup {"idle", "next"} : pc' = [pc EXCEPT ![p] = l]
    BY DEF DestroyStep, beginDestroy, waitForExecDrain, CloseAgent, KillVM, WaitVM, ReleaseNetns,
     ClearNetns, finishDestroy, DestroyPcs
  <2> QED BY <2>1, <2>2 DEF DestroyPcs, TypeInv, ControlInv
<1>2. \A id \in Ids : InExec(id)' = InExec(id)
  <2>1. \E l \in DestroyPcs \cup {"idle", "next"} : pc' = [pc EXCEPT ![p] = l]
    BY DEF DestroyStep, beginDestroy, waitForExecDrain, CloseAgent, KillVM, WaitVM, ReleaseNetns,
     ClearNetns, finishDestroy, DestroyPcs
  <2>2. \A q \in Procs : q # p => cur'[q] = cur[q]
    BY DEF DestroyStep, beginDestroy, waitForExecDrain, CloseAgent, KillVM, WaitVM, ReleaseNetns,
     ClearNetns, finishDestroy, TypeInv, ControlInv
  <2>3. pc[p] \notin ExecPcs BY <1>0
  <2> QED BY <1>0, <2>1, <2>2, <2>3, OutsideStays
<1>3. CASE beginDestroy(p) /\ state[cur[p]] = "Running"
  <2>1. state' = [state EXCEPT ![cur[p]] = "Closing"] /\ releases' = releases
    BY <1>3 DEF beginDestroy
  <2>2. cur[p] \in Ids BY <1>0
  <2>3. /\ insideBar' = insideBar /\ boxBar[cur[p]] = "live"
        /\ boxBar' = [boxBar EXCEPT ![cur[p]] = "closing"]
    BY <1>2, <1>3, <2>1, <2>2, OneMoves, BoxIs
  <2>4. API!Close(cur[p]) BY <1>1, <2>1, <2>3 DEF API!Close, API!Moves
  <2> QED BY <1>1, <2>2, <2>4 DEF API!Next
<1>4. CASE ReleaseNetns(p)
  <2>1. /\ cur[p] \in Ids /\ state[cur[p]] = "Closing" /\ netns[cur[p]] = "held"
        /\ releases[cur[p]] = 0
    BY <1>0, <1>4 DEF ReleaseNetns, Stage, Intact
  <2>2. releases' = [releases EXCEPT ![cur[p]] = 1] /\ state' = state
    BY <1>4, <2>1 DEF ReleaseNetns
  <2>3. insideBar' = insideBar /\ boxBar' = boxBar BY <1>2, <2>2 DEF insideBar, boxBar
  <2>4. API!GiveBack(cur[p]) BY <1>1, <2>1, <2>2, <2>3, BoxIs DEF API!GiveBack
  <2> QED BY <1>1, <2>1, <2>4 DEF API!Next
<1>5. CASE finishDestroy(p)
  <2>1. cur[p] \in Ids /\ state[cur[p]] = "Closing" /\ releases[cur[p]] = 1
    BY <1>0, <1>5 DEF finishDestroy, Stage, Gone
  <2>2. state' = [state EXCEPT ![cur[p]] = "Closed"] /\ releases' = releases
    BY <1>5 DEF finishDestroy
  <2>3. /\ insideBar' = insideBar /\ boxBar[cur[p]] = "closing"
        /\ boxBar' = [boxBar EXCEPT ![cur[p]] = "gone"]
    BY <1>2, <2>1, <2>2, OneMoves, BoxIs
  <2>4. API!Finish(cur[p]) BY <1>1, <2>1, <2>2, <2>3 DEF API!Finish, API!Moves
  <2> QED BY <1>1, <2>1, <2>4 DEF API!Next
<1>6. CASE UNCHANGED <<state, releases>> BY <1>1, <1>2, <1>6, Stutters
<1> QED BY <1>3, <1>4, <1>5, <1>6 DEF DestroyStep, beginDestroy, waitForExecDrain, CloseAgent,
     KillVM, WaitVM, ClearNetns

(* Requests: a built object is Create, passing the gate is Enter, finishExec is Leave. *)
LEMMA HandlerSimulates ==
  ASSUME Inv, NEW h \in Handlers, Request(h) \/ HandlerStep(h)
  PROVE  API!Next \/ UNCHANGED API!apiVars
<1> USE LifecycleAssumption DEF Goto, Return, serverVars, lifeVars, agentVars,
      hostVars, Inv
<1>0. /\ h \in Procs /\ h # Main /\ Main \in Procs
      /\ pc[h] \in CreatePcs \cup ExecPcs \cup {"execGate"} => cur[h] \in Ids
      /\ \A l \in CreatePcs \cup {"idle", "execGate", "begin"} : l \notin ExecPcs
      /\ Stage(h)
  BY DEF Procs, TypeInv, ControlInv, CurOK, BusyPcs, CreatePcs, ExecPcs, OwnInv, StageOK
<1>1. CASE DestroyStep(h) BY <1>0, <1>1, DestroySimulates
<1>2. ASSUME NEW l, pc' = [pc EXCEPT ![h] = l] PROVE ServerUp' = ServerUp
  BY <1>0, <1>2 DEF ServerUp, TypeInv, ControlInv
<1>3. \A q \in Procs : \A c : q # h => [cur EXCEPT ![h] = c][q] = cur[q]
  BY DEF TypeInv, ControlInv
(* Steps outside an exec, and steps within one. *)
<1>4. ASSUME NEW l, pc' = [pc EXCEPT ![h] = l], l \notin ExecPcs, pc[h] \notin ExecPcs,
             \A q \in Procs : q # h => cur'[q] = cur[q], UNCHANGED <<state, releases>>
      PROVE  UNCHANGED API!apiVars
  BY <1>0, <1>2, <1>4, OutsideStays, Stutters
<1>5. ASSUME NEW l, pc' = [pc EXCEPT ![h] = l], l \in ExecPcs, pc[h] \in ExecPcs,
             cur' = cur, UNCHANGED <<state, releases>>
      PROVE  UNCHANGED API!apiVars
  <2>1. \A id \in Ids : InExec(id)' = InExec(id) BY <1>0, <1>5, SameInExec
  <2> QED BY <1>2, <1>5, <2>1, Stutters
<1>6. CASE CreateStart(h)
  <2>1. /\ pc' = [pc EXCEPT ![h] = "creating"] /\ pc[h] = "idle" /\ UNCHANGED <<state, releases>>
        /\ cur' = [cur EXCEPT ![h] = nextSandboxID + 1]
    BY <1>6 DEF CreateStart
  <2> QED BY <1>0, <1>3, <1>4, <2>1 DEF CreatePcs
<1>7. CASE CreateFail(h) \/ CreatePublish(h)
  <2>1. /\ pc' = [pc EXCEPT ![h] = "idle"] /\ pc[h] \in CreatePcs /\ UNCHANGED <<state, releases>>
        /\ cur' = [cur EXCEPT ![h] = NoId]
    BY <1>7 DEF CreateFail, CreatePublish, CreatePcs
  <2> QED BY <1>0, <1>3, <1>4, <2>1
<1>8. CASE CreateReady(h)
  <2>1. /\ pc' = [pc EXCEPT ![h] = "publish"] /\ pc[h] = "creating" /\ cur' = cur
        /\ state' = [state EXCEPT ![cur[h]] = "Running"] /\ releases' = releases /\ ServerUp
    BY <1>8 DEF CreateReady
  <2>2. cur[h] \in Ids /\ state[cur[h]] = "none" BY <1>0, <2>1 DEF CreatePcs, Stage
  <2>3. \A id \in Ids : InExec(id)' = InExec(id) BY <1>0, <2>1, OutsideStays DEF CreatePcs
  <2>4. /\ insideBar' = insideBar /\ boxBar[cur[h]] = "absent"
        /\ boxBar' = [boxBar EXCEPT ![cur[h]] = "live"]
    BY <2>1, <2>2, <2>3, OneMoves, BoxIs
  <2>5. ServerUp' = ServerUp BY <1>2, <2>1
  <2>6. API!Create(cur[h]) BY <2>1, <2>4, <2>5 DEF API!Create, API!Moves
  <2> QED BY <2>1, <2>2, <2>6 DEF API!Next
<1>9. ASSUME NEW id \in Ids, ExecLookup(h, id) \/ DestroyLookup(h, id)
      PROVE  UNCHANGED API!apiVars
  <2>1. /\ \E l \in {"execGate", "begin"} : pc' = [pc EXCEPT ![h] = l]
        /\ pc[h] = "idle" /\ UNCHANGED <<state, releases>>
        /\ cur' = [cur EXCEPT ![h] = id]
    BY <1>9 DEF ExecLookup, DestroyLookup
  <2> QED BY <1>0, <1>3, <1>4, <2>1
<1>10. CASE tryStartExec(h) /\ state[cur[h]] # "Running"
  <2>1. /\ pc' = [pc EXCEPT ![h] = "idle"] /\ pc[h] = "execGate" /\ UNCHANGED <<state, releases>>
        /\ cur' = [cur EXCEPT ![h] = NoId]
    BY <1>10 DEF tryStartExec
  <2> QED BY <1>0, <1>3, <1>4, <2>1
<1>11. CASE tryStartExec(h) /\ state[cur[h]] = "Running"
  <2>1. /\ pc' = [pc EXCEPT ![h] = "execReq"] /\ pc[h] = "execGate" /\ cur' = cur
        /\ UNCHANGED <<state, releases>> /\ ServerUp
    BY <1>11 DEF tryStartExec
  <2>2. PICK c \in Ids : c = cur[h] BY <1>0, <2>1
  <2>3. h \notin InExec(c) BY <1>0, <2>1 DEF InExec
  <2>4. InExec(c)' = InExec(c) \cup {h} /\ \A id \in Ids : id # c => InExec(id)' = InExec(id)
    BY <1>0, <2>1, <2>2 DEF InExec, ExecPcs, TypeInv, ControlInv
  <2>5. boxBar' = boxBar /\ boxBar[c] = "live" /\ insideBar[c] = InExec(c)
    BY <1>11, <2>1, <2>2, BoxIs DEF boxBar, insideBar
  <2>6. insideBar' = [insideBar EXCEPT ![c] = insideBar[c] \cup {h}]
    BY <2>2, <2>4, <2>5, InsideChanges
  <2>7. ServerUp' = ServerUp BY <1>2, <2>1
  <2>8. API!Enter(h, c) BY <2>1, <2>3, <2>5, <2>6, <2>7 DEF API!Enter
  <2> QED BY <2>1, <2>2, <2>8 DEF API!Next
<1>12. CASE finishExec(h)
  <2>1. /\ pc' = [pc EXCEPT ![h] = "idle"] /\ pc[h] = "execDone"
        /\ cur' = [cur EXCEPT ![h] = NoId] /\ UNCHANGED <<state, releases>> /\ ServerUp
    BY <1>12 DEF finishExec
  <2>2. PICK c \in Ids : c = cur[h] BY <1>0, <2>1 DEF ExecPcs
  <2>3. h \in InExec(c) BY <1>0, <2>1, <2>2 DEF InExec, ExecPcs
  <2>4. InExec(c)' = InExec(c) \ {h} /\ \A id \in Ids : id # c => InExec(id)' = InExec(id)
    <3>1. \A q \in Handlers : q # h => pc'[q] = pc[q] /\ cur'[q] = cur[q]
      BY <1>3, <2>1 DEF TypeInv, ControlInv, Procs
    <3>2. pc'[h] \notin ExecPcs BY <1>0, <2>1 DEF TypeInv, ControlInv
    <3> QED BY <2>2, <3>1, <3>2 DEF InExec
  <2>5. boxBar' = boxBar /\ insideBar[c] = InExec(c) BY <2>1, <2>2 DEF boxBar, insideBar
  <2>6. insideBar' = [insideBar EXCEPT ![c] = insideBar[c] \ {h}]
    BY <2>2, <2>4, <2>5, InsideChanges
  <2>7. ServerUp' = ServerUp BY <1>2, <2>1
  <2>8. API!Leave(h, c) BY <2>1, <2>3, <2>5, <2>6, <2>7 DEF API!Leave
  <2> QED BY <2>1, <2>2, <2>8 DEF API!Next
<1>13. CASE ExecCheck(h) \/ ExecLockAgent(h) \/ PeerStep(h)
  BY <1>5, <1>13 DEF ExecCheck, ExecLockAgent, PeerStep, ExecSSHDial, ExecSSHRun, WriteReply,
     WriteAgentReply, ExecPcs
<1>14. CASE ExecDial(h) \/ ExecCallFails(h) \/ ExecReply(h)
  BY <1>5, <1>14 DEF ExecDial, ExecCallFails, ExecReply, ExecPcs
<1> QED BY <1>1, <1>6, <1>7, <1>8, <1>9, <1>10, <1>11, <1>12, <1>13, <1>14
       DEF Request, HandlerStep, ServerStep

(* Every step of the server is a step of the API or a stutter; main's return is Exit. *)
LEMMA NextSimulates ==
  ASSUME Inv, [Next]_vars
  PROVE  API!Next \/ UNCHANGED API!apiVars
<1> USE LifecycleAssumption DEF Goto, serverVars, lifeVars, agentVars, hostVars, Inv
<1>0. /\ Main \in Procs /\ Main \notin Handlers
      /\ \A l \in {"serve", "shutdown", "next", "begin", "exited"} : l \notin ExecPcs
  BY DEF Procs, ExecPcs
<1>1. ASSUME NEW l, pc' = [pc EXCEPT ![Main] = l], \A q \in Procs : q # Main => cur'[q] = cur[q]
      PROVE  \A id \in Ids : InExec(id)' = InExec(id)
  BY <1>0, <1>1, SameInExec
<1>2. ASSUME NEW l, pc' = [pc EXCEPT ![Main] = l], l # "exited", pc[Main] # "exited",
             \A q \in Procs : q # Main => cur'[q] = cur[q], UNCHANGED <<state, releases>>
      PROVE  UNCHANGED API!apiVars
  <2>1. ServerUp' = ServerUp BY <1>0, <1>2 DEF ServerUp, TypeInv, ControlInv
  <2> QED BY <1>1, <1>2, <2>1, Stutters
<1>3. CASE Signal \/ ShutdownReturns BY <1>2, <1>3 DEF Signal, Serving, ShutdownReturns
<1>4. ASSUME NEW id \in Ids, DestroyAllNext(id) PROVE UNCHANGED API!apiVars
  <2>1. /\ pc' = [pc EXCEPT ![Main] = "begin"] /\ pc[Main] = "next"
        /\ cur' = [cur EXCEPT ![Main] = id] /\ UNCHANGED <<state, releases>>
    BY <1>4 DEF DestroyAllNext
  <2>2. \A q \in Procs : q # Main => cur'[q] = cur[q] BY <2>1 DEF TypeInv, ControlInv
  <2> QED BY <1>2, <2>1, <2>2
<1>5. CASE MainReturns
  <2>1. /\ pc' = [pc EXCEPT ![Main] = "exited"] /\ pc[Main] = "next" /\ cur' = cur
        /\ UNCHANGED <<state, releases>>
    BY <1>5 DEF MainReturns
  <2>2. ServerUp = TRUE /\ ServerUp' = FALSE
    BY <1>0, <2>1 DEF ServerUp, TypeInv, ControlInv
  <2>3. boxBar' = boxBar /\ insideBar' = insideBar BY <1>1, <2>1 DEF boxBar, insideBar
  <2>4. API!Exit BY <2>1, <2>2, <2>3 DEF API!Exit
  <2> QED BY <2>2, <2>4 DEF API!Next
<1>6. ASSUME NEW id \in Ids, VMExits(id) PROVE UNCHANGED API!apiVars
  <2>1. pc' = pc /\ cur' = cur /\ UNCHANGED <<state, releases>> BY <1>6 DEF VMExits
  <2> QED BY <2>1, Stutters DEF ServerUp, InExec
<1>7. CASE UNCHANGED vars BY <1>7, Stutters DEF vars, ServerUp, InExec
<1> QED BY <1>0, <1>3, <1>4, <1>5, <1>6, <1>7, HandlerSimulates, DestroySimulates
       DEF Next, MainStep, Ended

LEMMA InitSimulates == Init => API!Init
<1> SUFFICES ASSUME Init PROVE API!Init OBVIOUS
<1>1. boxBar = [id \in Ids |-> "absent"] BY DEF Init, boxBar, BoxOf
<1>2. insideBar = [id \in Ids |-> {}]
  BY LifecycleAssumption DEF Init, insideBar, InExec, Procs, ExecPcs
<1>3. ServerUp = TRUE BY DEF Init, ServerUp, Procs
<1> QED BY <1>1, <1>2, <1>3 DEF Init, API!Init

(* The server of handlers.go, sandbox_lifecycle.go and main.go keeps the promise of
   the API: execs enter live sandboxes only, closing is final, and the slot of a
   sandbox goes back exactly once before the sandbox is gone. *)
THEOREM LifecycleImplementsAPI == Spec => ImplementsAPI
<1>1. Spec => []Inv BY ExecInvAlways DEF Inv
<1>2. Inv /\ [Next]_vars => [API!Next]_(API!apiVars) BY NextSimulates
<1> QED BY <1>1, <1>2, InitSimulates, PTL DEF Spec, ImplementsAPI, API!Spec
=============================================================================
