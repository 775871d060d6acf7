------------------------------- MODULE GuestAgent -------------------------------
(***************************************************************************)
(* The agent inside the guest on one connection: the request that sets the *)
(* guest's network, and one exec with the goroutines and processes behind  *)
(* it: two readers of pipes, the goroutine in Wait, the timeout, and the   *)
(* command with the background processes it starts.                        *)
(*                                                                         *)
(* Source: cmd/agent/main.go.  The connection is module AgentChannel.      *)
(*                                                                         *)
(* Output is counted in units.  A pipe is a queue, so what a reader has is *)
(* a prefix of what was written and the counts say all.                    *)
(***************************************************************************)
EXTENDS Naturals, FiniteSets

CONSTANTS
  Kids,       \* background processes the command may start
  Streams,    \* stdout and stderr
  OldAddrs,   \* addresses the image or the snapshot brought along
  Own,        \* the address, and gateway, of this sandbox's slot
  MaxOut,     \* req.MaxOutputBytes
  PipeSize,   \* what a pipe holds
  MaxWrites   \* bound: writes to one stream

ASSUME AgentAssumption ==
  /\ Own \notin OldAddrs
  /\ MaxOut \in Nat /\ PipeSize \in Nat /\ MaxWrites \in Nat

VARIABLES
  pc,        \* where serveConn is
  link,      \* the interface is up
  addrs,     \* its addresses
  gateway,   \* of the default route
  netReply,  \* the answer to the net request
  leader,    \* the command: none, running, zombie or reaped
  status,    \* how it ended: none, ok, error or killed
  kid,       \* each background process: none, group, away or gone
  writers,   \* background processes that kept the write ends
  pipe,      \* units in each pipe
  written,   \* units ever written to it
  owed,      \* units written to it when the command ended
  buf,       \* units its reader has stored
  reader,    \* the goroutine that reads it
  closed,    \* the read ends are closed
  waiter,    \* the goroutine in cmd.Wait
  timedOut,  \* the local variable of runExec
  reply      \* the answer to the exec

netVars  == <<link, addrs, gateway, netReply>>
procVars == <<leader, status, kid, writers>>
ioVars   == <<pipe, written, owed, buf, reader, closed>>
ctlVars  == <<waiter, timedOut, reply>>
vars     == <<pc, netVars, procVars, ioVars, ctlVars>>

NetPcs  == {"netUp", "netClear", "netAdd", "netRoute"}
ExecPcs == {"start", "select", "killed", "join"}
NoReply == [ok |-> FALSE, exit |-> "none", late |-> FALSE]

Zero == [s \in Streams |-> 0]

Init ==
  /\ pc = "read"
  /\ link \in BOOLEAN
  /\ addrs \in SUBSET OldAddrs
  /\ gateway \in OldAddrs \cup {"none"}
  /\ netReply = "none"
  /\ leader = "none" /\ status = "none"
  /\ kid = [k \in Kids |-> "none"]
  /\ writers = {}
  /\ pipe = Zero /\ written = Zero /\ owed = Zero /\ buf = Zero
  /\ reader = [s \in Streams |-> "none"]
  /\ closed = FALSE
  /\ waiter = "none"
  /\ timedOut = FALSE
  /\ reply = NoReply

-----------------------------------------------------------------------------
(* configureNetwork.                                                         *)

(* The host asks once, before it takes any exec. *)
NetRequest ==
  /\ pc = "read"
  /\ netReply = "none"
  /\ pc' = "netUp"
  /\ UNCHANGED <<netVars, procVars, ioVars, ctlVars>>

LinkSetUp ==
  /\ pc = "netUp"
  /\ link' = TRUE
  /\ pc' = "netClear"
  /\ UNCHANGED <<addrs, gateway, netReply, procVars, ioVars, ctlVars>>

(* Variant: the address that is there is left alone. *)
AddrDelSkipped(a) ==
  /\ pc = "netClear"
  /\ a \in addrs
  /\ pc' = "netAdd"
  /\ UNCHANGED <<netVars, procVars, ioVars, ctlVars>>

AddrDel(a) ==
  /\ pc = "netClear"
  /\ addrs' = addrs \ {a}
  /\ a \in addrs
  /\ UNCHANGED <<pc, link, gateway, netReply, procVars, ioVars, ctlVars>>

AddrsCleared ==
  /\ pc = "netClear"
  /\ addrs = {}
  /\ pc' = "netAdd"
  /\ UNCHANGED <<netVars, procVars, ioVars, ctlVars>>

AddrAdd ==
  /\ pc = "netAdd"
  /\ addrs' = addrs \cup {Own}
  /\ pc' = "netRoute"
  /\ UNCHANGED <<link, gateway, netReply, procVars, ioVars, ctlVars>>

(* The route is replaced and the response written; resolv.conf is best effort. *)
RouteReplace ==
  /\ pc = "netRoute"
  /\ gateway' = Own
  /\ netReply' = "configured"
  /\ pc' = "read"
  /\ UNCHANGED <<link, addrs, procVars, ioVars, ctlVars>>

(* A payload that does not parse, or a netlink call that fails, answers the error
   and leaves what was done. *)
NetFails ==
  /\ pc \in NetPcs
  /\ netReply' = "failed"
  /\ pc' = "read"
  /\ UNCHANGED <<link, addrs, gateway, procVars, ioVars, ctlVars>>

-----------------------------------------------------------------------------
(* runExec.                                                                  *)

(* A sandbox whose network could not be set gets no execs. *)
ExecRequest ==
  /\ pc = "read"
  /\ netReply = "configured"
  /\ reply = NoReply
  /\ pc' = "start"
  /\ UNCHANGED <<netVars, procVars, ioVars, ctlVars>>

(* normalizeArgv, a pipe or Start fails: 2, 1 or 127 with ok=false. *)
StartFails ==
  /\ pc = "start"
  /\ \E x \in {"2", "1", "127"} : reply' = [ok |-> FALSE, exit |-> x, late |-> FALSE]
  /\ pc' = "read"
  /\ UNCHANGED <<netVars, procVars, ioVars, waiter, timedOut>>

(* The command runs in a process group of its own; three goroutines start. *)
StartCommand ==
  /\ pc = "start"
  /\ leader' = "running"
  /\ reader' = [s \in Streams |-> "reading"]
  /\ waiter' = "waiting"
  /\ pc' = "select"
  /\ UNCHANGED <<netVars, status, kid, writers, pipe, written, owed, buf, closed, timedOut, reply>>

(* case waitErr = <-waitCh. *)
CommandEnded ==
  /\ pc = "select"
  /\ waiter = "sent"
  /\ pc' = "join"
  /\ UNCHANGED <<netVars, procVars, ioVars, ctlVars>>

(* Variant: only the command itself is killed. *)
TimerFiresLeaderOnly ==
  /\ pc = "select"
  /\ timedOut' = TRUE
  /\ leader' = IF leader = "running" THEN "zombie" ELSE leader
  /\ status' = IF leader = "running" THEN "killed" ELSE status
  /\ owed' = IF leader = "running" THEN written ELSE owed
  /\ pc' = "killed"
  /\ UNCHANGED <<netVars, kid, writers, pipe, written, buf, reader, closed, waiter, reply>>

(* case <-time.After(timeout): killProcessGroup, at any time, also when the command
   has just ended. *)
TimerFires ==
  /\ pc = "select"
  /\ timedOut' = TRUE
  /\ leader' = IF leader = "running" THEN "zombie" ELSE leader
  /\ status' = IF leader = "running" THEN "killed" ELSE status
  /\ owed' = IF leader = "running" THEN written ELSE owed
  /\ kid' = [k \in Kids |-> IF kid[k] = "group" THEN "gone" ELSE kid[k]]
  /\ pc' = "killed"
  /\ UNCHANGED <<netVars, writers, pipe, written, buf, reader, closed, waiter, reply>>

KilledEnded ==
  /\ pc = "killed"
  /\ waiter = "sent"
  /\ pc' = "join"
  /\ UNCHANGED <<netVars, procVars, ioVars, ctlVars>>

(* Variant: the outcome of the wait decides, and the kill counts as success. *)
exitCodeUntimed == IF timedOut \/ status = "ok" THEN "0" ELSE "other"

(* 124 after a timeout, else what the command ended with (-1 after a signal). *)
exitCode ==
  IF timedOut THEN "124" ELSE IF status = "ok" THEN "0" ELSE "other"

(* Variant: one of the two readers is enough. *)
ReplyAfterOne ==
  /\ pc = "join"
  /\ \E s \in Streams : reader[s] = "done"
  /\ reply' = [ok |-> TRUE, exit |-> exitCode, late |-> timedOut]
  /\ pc' = "read"
  /\ UNCHANGED <<netVars, procVars, ioVars, waiter, timedOut>>

(* Both readers are awaited.  When waiting for the command failed, the answer is 1
   with ok=false. *)
Reply ==
  /\ pc = "join"
  /\ \A s \in Streams : reader[s] = "done"
  /\ \/ reply' = [ok |-> TRUE, exit |-> exitCode, late |-> timedOut]
     \/ ~timedOut /\ reply' = [ok |-> FALSE, exit |-> "1", late |-> FALSE]
  /\ pc' = "read"
  /\ UNCHANGED <<netVars, procVars, ioVars, waiter, timedOut>>

-----------------------------------------------------------------------------
(* The goroutines of runExec.                                                *)

(* Somebody could still write. *)
WriteEndOpen ==
  leader = "running" \/ \E k \in writers : kid[k] \in {"group", "away"}

(* Variant: nothing limits what is stored. *)
ReadUnlimited(s) ==
  /\ reader[s] = "reading"
  /\ ~closed
  /\ \E n \in 1..PipeSize :
       /\ n <= pipe[s]
       /\ pipe' = [pipe EXCEPT ![s] = @ - n]
       /\ buf' = [buf EXCEPT ![s] = @ + n]
  /\ UNCHANGED <<pc, netVars, procVars, written, owed, reader, closed, ctlVars>>

(* io.Copy from a LimitReader: some of what is there, never beyond the limit. *)
Read(s) ==
  /\ reader[s] = "reading"
  /\ ~closed
  /\ \E n \in 1..PipeSize :
       /\ n <= pipe[s] /\ buf[s] + n <= MaxOut
       /\ pipe' = [pipe EXCEPT ![s] = @ - n]
       /\ buf' = [buf EXCEPT ![s] = @ + n]
  /\ UNCHANGED <<pc, netVars, procVars, written, owed, reader, closed, ctlVars>>

(* End of file, the limit, or the closed read end ends the copy. *)
ReaderEnds(s) ==
  /\ reader[s] = "reading"
  /\ closed \/ buf[s] = MaxOut \/ (pipe[s] = 0 /\ ~WriteEndOpen)
  /\ reader' = [reader EXCEPT ![s] = "done"]
  /\ UNCHANGED <<pc, netVars, procVars, pipe, written, owed, buf, closed, ctlVars>>

(* cmd.Wait: the exit status is collected, *)
WaitReaps ==
  /\ waiter = "waiting"
  /\ leader = "zombie"
  /\ leader' = "reaped"
  /\ waiter' = "closing"
  /\ UNCHANGED <<pc, netVars, status, kid, writers, ioVars, timedOut, reply>>

(* Variant: the pipes stay open until their writers are gone. *)
WaitClosesNot ==
  /\ waiter = "closing"
  /\ waiter' = "sent"
  /\ UNCHANGED <<pc, netVars, procVars, ioVars, timedOut, reply>>

(* the read ends are closed whether they are drained or not, the result is sent. *)
WaitCloses ==
  /\ waiter = "closing"
  /\ closed' = TRUE
  /\ waiter' = "sent"
  /\ UNCHANGED <<pc, netVars, procVars, pipe, written, owed, buf, reader, timedOut, reply>>

-----------------------------------------------------------------------------
(* The command and its background processes.                                 *)

Alive == leader = "running" \/ \E k \in Kids : kid[k] = "group"

(* A background process keeps the output or has redirected it. *)
Fork(k) ==
  /\ Alive
  /\ kid[k] = "none"
  /\ kid' = [kid EXCEPT ![k] = "group"]
  /\ writers' \in {writers, writers \cup {k}}
  /\ UNCHANGED <<pc, netVars, leader, status, ioVars, ctlVars>>

(* setsid or setpgid. *)
LeaveGroup(k) ==
  /\ kid[k] = "group"
  /\ kid' = [kid EXCEPT ![k] = "away"]
  /\ UNCHANGED <<pc, netVars, leader, status, writers, ioVars, ctlVars>>

(* A write waits while the pipe is full. *)
Write(s) ==
  /\ WriteEndOpen
  /\ ~closed
  /\ pipe[s] < PipeSize
  /\ written[s] < MaxWrites
  /\ pipe' = [pipe EXCEPT ![s] = @ + 1]
  /\ written' = [written EXCEPT ![s] = @ + 1]
  /\ UNCHANGED <<pc, netVars, procVars, owed, buf, reader, closed, ctlVars>>

(* A background process ends, by itself or at a write to a closed pipe. *)
KidExits(k) ==
  /\ kid[k] \in {"group", "away"}
  /\ kid' = [kid EXCEPT ![k] = "gone"]
  /\ UNCHANGED <<pc, netVars, leader, status, writers, ioVars, ctlVars>>

LeaderExits ==
  /\ leader = "running"
  /\ leader' = "zombie"
  /\ status' \in {"ok", "error"}
  /\ owed' = written
  /\ UNCHANGED <<pc, netVars, kid, writers, pipe, written, buf, reader, closed, ctlVars>>

-----------------------------------------------------------------------------
NetStep ==
  \/ LinkSetUp \/ (\E a \in OldAddrs : AddrDel(a)) \/ AddrsCleared
  \/ AddrAdd \/ RouteReplace \/ NetFails

RunExecStep == StartFails \/ StartCommand \/ CommandEnded \/ TimerFires \/ KilledEnded \/ Reply
ReaderStep(s) == Read(s) \/ ReaderEnds(s)
WaiterStep == WaitReaps \/ WaitCloses

CommandStep ==
  \/ \E k \in Kids : Fork(k) \/ LeaveGroup(k) \/ KidExits(k)
  \/ \E s \in Streams : Write(s)
  \/ LeaderExits

(* The host sends nothing more. *)
Quiet == pc = "read" /\ UNCHANGED vars

Next ==
  \/ NetRequest \/ NetStep
  \/ ExecRequest \/ RunExecStep \/ WaiterStep
  \/ \E s \in Streams : ReaderStep(s)
  \/ CommandStep
  \/ Quiet

Spec == Init /\ [][Next]_vars

(* The agent's goroutines are scheduled and the timer fires.  The command owes
   nothing: it may hang, never stop writing or leave its children behind. *)
FairSpec ==
  /\ Spec
  /\ WF_vars(NetStep) /\ WF_vars(RunExecStep) /\ WF_vars(WaiterStep)
  /\ \A s \in Streams : WF_vars(ReaderStep(s))

-----------------------------------------------------------------------------
Counts == [Streams -> 0..MaxWrites]

TypeOK ==
  /\ pc \in {"read"} \cup NetPcs \cup ExecPcs
  /\ link \in BOOLEAN /\ addrs \subseteq OldAddrs \cup {Own}
  /\ gateway \in OldAddrs \cup {Own, "none"}
  /\ netReply \in {"none", "configured", "failed"}
  /\ leader \in {"none", "running", "zombie", "reaped"}
  /\ status \in {"none", "ok", "error", "killed"}
  /\ kid \in [Kids -> {"none", "group", "away", "gone"}]
  /\ writers \subseteq Kids
  /\ written \in Counts /\ owed \in Counts
  /\ pipe \in [Streams -> 0..PipeSize] /\ buf \in [Streams -> 0..MaxOut]
  /\ reader \in [Streams -> {"none", "reading", "done"}]
  /\ closed \in BOOLEAN /\ timedOut \in BOOLEAN
  /\ waiter \in {"none", "waiting", "closing", "sent"}
  /\ reply.exit \in {"none", "0", "1", "2", "127", "124", "other"}

(* "Configured" is the truth: the addresses the image or the snapshot brought are
   gone, so a restored guest never answers for another sandbox's address. *)
GuestAddressed ==
  netReply = "configured" => link /\ addrs = {Own} /\ gateway = Own

(* An answered exec leaves nothing of the agent's behind: the command is reaped,
   the pipes are closed and no goroutine is left, even when a background process
   still holds the other ends. *)
ReplyLeavesNothing ==
  reply.ok => /\ leader = "reaped" /\ closed /\ waiter = "sent"
              /\ \A s \in Streams : reader[s] = "done"

(* main.go: "so we can SIGKILL the whole tree".  After a timeout nothing runs on in
   the process group, the children the command left behind at its own end included. *)
TimedOutKillsGroup == reply.late => \A k \in Kids : kid[k] # "group"

(* The exit code tells how the command ended, whether or not its end races with
   the timeout: 0 only if it ended well, and never 0 after a kill. *)
ExitFaithful ==
  reply.ok => /\ reply.exit = "0" => status = "ok"
              /\ reply.exit = "other" => status = "error"
              /\ status = "killed" => reply.exit = "124"

(* Every exec is answered: a command that hangs, that writes past the limit into a
   full pipe, or that leaves a writer behind is cut off by the timeout. *)
ExecEnds == pc = "start" ~> pc = "read"

(* architecture.md: the agent "runs the command and returns stdout/stderr/exit
   code": what a command wrote before it ended well is returned, up to the limit. *)
OutputWhole ==
  reply.exit = "0" => \A s \in Streams : buf[s] >= owed[s] \/ buf[s] = MaxOut
=============================================================================
