------------------------------ MODULE SnapshotStream ------------------------------
(***************************************************************************)
(* A user snapshot taken of a sandbox while execs use its agent: the close *)
(* of the cached connection under agentMu, the pause, the capture of the   *)
(* guest's memory with the vsock streams in it, and the resume, composed   *)
(* with the RPC of module AgentChannel.                                    *)
(*                                                                         *)
(* Source: cmd/server/{user_snapshot,firecracker_api}.go.  What becomes of *)
(* the files is module UserSnapshots, how a destroy closes the connection  *)
(* is module SandboxLifecycle.                                             *)
(***************************************************************************)
EXTENDS AgentChannel

VARIABLES
  snap,      \* where createUserSnapshotFromSandbox is
  paused,    \* the VM is paused
  captured   \* connections whose guest end is in the captured memory

snapVars   == <<snap, paused, captured>>
streamVars == <<vars, snapVars>>

SnapPcs == {"new", "pause", "capture", "resume", "failed", "done"}

StreamInit ==
  /\ Init
  /\ snap = "new"
  /\ paused = FALSE
  /\ captured = {}

(* agentMu is taken, the cached connection closed and forgotten, agentMu released. *)
SnapLock ==
  /\ snap = "new"
  /\ agentMu = Free
  /\ open' = open \ {agent}
  /\ agent' = NoConn
  /\ snap' = "pause"
  /\ UNCHANGED <<pc, agentMu, answer, retryLost, dialed, up, down, guestVars, paused, captured>>

(* Execs may have dialed again by now. *)
SnapPause ==
  /\ snap = "pause"
  /\ paused' = TRUE
  /\ snap' = "capture"
  /\ UNCHANGED <<vars, captured>>

(* createFullSnapshot: guest ends that are open are captured as they are.  The copy of
   the disk and the metadata follow before the resume. *)
SnapCapture ==
  /\ snap = "capture"
  /\ captured' = {c \in Conns : guest[c] \in {"reading", "running"}}
  /\ snap' = "resume"
  /\ UNCHANGED <<vars, paused>>

(* A call, the copy or the metadata fails, or ten seconds end.  Before the pause is
   confirmed that is the end, and a VM whose answer came too late stays paused;
   after it the deferred resume runs. *)
SnapFails ==
  /\ \/ snap = "pause" /\ paused' \in BOOLEAN /\ snap' = "done"
     \/ snap \in {"capture", "resume"} /\ snap' = "failed" /\ UNCHANGED paused
  /\ UNCHANGED <<vars, captured>>

(* resumeVM, at the end or deferred; one that fails at the end is tried once more by
   the deferred call, whose error nobody sees. *)
SnapResume ==
  /\ \/ snap \in {"resume", "failed"} /\ paused' = FALSE
     \/ snap = "failed" /\ UNCHANGED paused
  /\ snap' = "done"
  /\ captured' = {}
  /\ UNCHANGED vars

SnapStep == SnapPause \/ SnapCapture \/ SnapFails \/ SnapResume

(* A paused guest runs nothing and accepts no connection. *)
WhileRunning ==
  \/ \E e \in Execs : DialOK(e)
  \/ \E c \in Conns : GuestStep(c)
  \/ AgentDies

StreamNext ==
  \/ SnapLock \/ SnapStep
  \/ /\ \/ \E e \in Execs : Lock(e) \/ DialFails(e) \/ WriteMessage(e) \/ ReadMessage(e)
                            \/ FirstCallFails(e) \/ RetryFails(e) \/ WriteReply(e)
        \/ ~paused /\ WhileRunning
        \/ Quiet
     /\ UNCHANGED snapVars

StreamSpec == StreamInit /\ [][StreamNext]_streamVars

(* What ends by itself: dials and calls have deadlines.  The write of the response has
   none and is not among these steps. *)
ExecStep(e) ==
  /\ \/ ~paused /\ DialOK(e)
     \/ DialFails(e) \/ WriteMessage(e) \/ ReadMessage(e) \/ FirstCallFails(e) \/ RetryFails(e)
  /\ UNCHANGED snapVars

(* sync.Mutex serves its waiters in turn whenever it is released.  The guest and the
   snapshot owe the execs nothing: answers may never come, the VM may stay paused. *)
StreamFairSpec ==
  /\ StreamSpec
  /\ \A e \in Execs : WF_streamVars(ExecStep(e)) /\ SF_streamVars(Lock(e) /\ UNCHANGED snapVars)

-----------------------------------------------------------------------------
StreamTypeOK ==
  /\ TypeOK
  /\ snap \in SnapPcs
  /\ paused \in BOOLEAN
  /\ captured \subseteq Conns

(* user_snapshot.go: "Avoid snapshotting an active host<->guest agent stream": no
   connection in the captured memory is in use on the host when the capture ends. *)
NoActiveStream == snap = "resume" => captured \cap open = {}
=============================================================================
