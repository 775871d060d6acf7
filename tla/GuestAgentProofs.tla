---------------------------- MODULE GuestAgentProofs ----------------------------
(***************************************************************************)
(* Proofs about module GuestAgent for every number of background           *)
(* processes, streams and old addresses, every size of the pipes and every *)
(* limit of the output.                                                    *)
(***************************************************************************)
EXTENDS GuestAgent, TLAPS

Exits   == {"none", "0", "1", "2", "127", "124", "other"}
Replies == [ok : BOOLEAN, exit : Exits, late : BOOLEAN]

(* What is needed of the types beyond TypeOK: the answer is a whole record. *)
TypeInv == TypeOK /\ reply \in Replies

(* The stages of configureNetwork: each has done what the ones before it do, and
   nothing has been answered yet. *)
NetInv ==
  /\ pc \in NetPcs => netReply = "none"
  /\ pc = "netClear" => link
  /\ pc = "netAdd" => link /\ addrs = {}
  /\ pc = "netRoute" => link /\ addrs = {Own}
  /\ GuestAddressed

(* The command, the goroutine in Wait and the read ends go together. *)
WaitInv ==
  /\ waiter = "none" <=> leader = "none"
  /\ waiter = "waiting" => leader \in {"running", "zombie"}
  /\ waiter \in {"closing", "sent"} => leader = "reaped"
  /\ waiter = "sent" => closed
  /\ leader \in {"none", "running"} <=> status = "none"

(* Where runExec is: before the start there is no command, in the select there was
   no timeout, after it the result of the wait was received. *)
StageInv ==
  /\ reply = NoReply /\ pc \notin {"select", "killed", "join"} => leader = "none" /\ ~timedOut
  /\ pc \in {"start", "select", "killed", "join"} => reply = NoReply
  /\ pc \in {"select", "killed", "join"} => leader # "none"
  /\ pc = "select" => ~timedOut
  /\ pc = "killed" => timedOut
  /\ pc = "join" => waiter = "sent"

(* A timeout has killed what was in the group, and nobody is left to fork into it. *)
KillInv ==
  /\ timedOut => ~Alive
  /\ status = "killed" => timedOut

(* An answer with ok=true is the outcome of a wait that is over. *)
ReplyInv ==
  /\ reply.late => timedOut
  /\ reply.ok => /\ waiter = "sent" /\ reply.exit = exitCode
                 /\ \A s \in Streams : reader[s] = "done"

IInv == TypeInv /\ NetInv /\ WaitInv /\ StageInv /\ KillInv /\ ReplyInv

-----------------------------------------------------------------------------
(* What an exec can be answered with. *)
LEMMA ExitCodes == exitCode \in Exits
BY DEF exitCode, Exits

LEMMA InitInv == Init => IInv
<1> SUFFICES ASSUME Init PROVE IInv OBVIOUS
<1>1. TypeInv
  <2>1. /\ Zero \in Counts /\ Zero \in [Streams -> 0..PipeSize] /\ Zero \in [Streams -> 0..MaxOut]
    BY AgentAssumption DEF Zero, Counts
  <2>2. reply \in Replies BY DEF Init, Replies, Exits, NoReply
  <2> QED BY <2>1, <2>2 DEF Init, TypeInv, TypeOK, Replies, Exits
<1>2. NetInv BY DEF Init, NetInv, NetPcs, GuestAddressed
<1>3. WaitInv /\ StageInv BY DEF Init, WaitInv, StageInv
<1>4. KillInv /\ ReplyInv BY DEF Init, KillInv, Alive, ReplyInv, NoReply
<1> QED BY <1>1, <1>2, <1>3, <1>4 DEF IInv

(* Every step keeps the types. *)
LEMMA NextTypes == TypeInv /\ [Next]_vars => TypeInv'
<1> SUFFICES ASSUME TypeInv, [Next]_vars PROVE TypeInv' OBVIOUS
<1> USE AgentAssumption DEF TypeInv, TypeOK, netVars, procVars, ioVars, ctlVars
<1>1. CASE NetRequest BY <1>1 DEF NetRequest, NetPcs
<1>2. CASE LinkSetUp BY <1>2 DEF LinkSetUp, NetPcs
<1>3. CASE AddrsCleared BY <1>3 DEF AddrsCleared, NetPcs
<1>4. CASE AddrAdd BY <1>4 DEF AddrAdd, NetPcs
<1>5. CASE RouteReplace BY <1>5 DEF RouteReplace
<1>6. CASE NetFails BY <1>6 DEF NetFails
<1>7. CASE ExecRequest BY <1>7 DEF ExecRequest, ExecPcs
<1>8. CASE StartFails BY <1>8 DEF StartFails, Replies, Exits
<1>9. CASE StartCommand BY <1>9 DEF StartCommand, ExecPcs
<1>10. CASE CommandEnded BY <1>10 DEF CommandEnded, ExecPcs
<1>11. CASE TimerFires BY <1>11 DEF TimerFires, ExecPcs
<1>12. CASE KilledEnded BY <1>12 DEF KilledEnded, ExecPcs
<1>13. CASE Reply
  <2>1. reply' \in Replies
    <3>1. CASE reply' = [ok |-> TRUE, exit |-> exitCode, late |-> timedOut]
      BY <3>1, ExitCodes DEF Replies
    <3>2. CASE reply' = [ok |-> FALSE, exit |-> "1", late |-> FALSE]
      BY <3>2 DEF Replies, Exits
    <3> QED BY <1>13, <3>1, <3>2 DEF Reply
  <2> QED BY <1>13, <2>1 DEF Reply, Replies, Exits
<1>14. CASE WaitReaps BY <1>14 DEF WaitReaps
<1>15. CASE WaitCloses BY <1>15 DEF WaitCloses
<1>16. CASE LeaderExits BY <1>16 DEF LeaderExits
<1>17. CASE Quiet BY <1>17 DEF Quiet, vars
<1>18. ASSUME NEW a \in OldAddrs, AddrDel(a) PROVE TypeInv'
  BY <1>18 DEF AddrDel
<1>19. ASSUME NEW s \in Streams, Read(s) PROVE TypeInv'
  BY <1>19 DEF Read
<1>20. ASSUME NEW s \in Streams, ReaderEnds(s) PROVE TypeInv'
  BY <1>20 DEF ReaderEnds
<1>21. ASSUME NEW s \in Streams, Write(s) PROVE TypeInv'
  BY <1>21 DEF Write, Counts
<1>22. ASSUME NEW k \in Kids, Fork(k) \/ LeaveGroup(k) \/ KidExits(k) PROVE TypeInv'
  BY <1>22 DEF Fork, LeaveGroup, KidExits
<1>23. CASE UNCHANGED vars BY <1>23 DEF vars
<1> QED BY <1>1, <1>2, <1>3, <1>4, <1>5, <1>6, <1>7, <1>8, <1>9, <1>10, <1>11, <1>12, <1>13, <1>14, <1>15, <1>16,
    <1>17, <1>18, <1>19, <1>20, <1>21, <1>22, <1>23 DEF Next, NetStep, RunExecStep, WaiterStep, ReaderStep,
    CommandStep

(* The inductive step.  Steps that leave the parts of an invariant alone come first. *)
LEMMA NextInv == IInv /\ [Next]_vars => IInv'
<1> SUFFICES ASSUME IInv, [Next]_vars PROVE IInv' OBVIOUS
<1> USE DEF netVars, procVars, ioVars, ctlVars
<1>1. TypeInv' BY NextTypes DEF IInv
<1>2. NetInv'
  <2> USE DEF IInv, NetInv, NetPcs, GuestAddressed
  <2>1. CASE NetRequest BY <2>1 DEF NetRequest
  <2>2. CASE LinkSetUp BY <2>2 DEF LinkSetUp
  <2>3. ASSUME NEW a \in OldAddrs, AddrDel(a) PROVE NetInv' BY <2>3 DEF AddrDel
  <2>4. CASE AddrsCleared BY <2>4 DEF AddrsCleared
  <2>5. CASE AddrAdd BY <2>5 DEF AddrAdd
  <2>6. CASE RouteReplace BY <2>6 DEF RouteReplace
  <2>7. CASE NetFails BY <2>7 DEF NetFails
  <2>8. CASE ExecRequest BY <2>8 DEF ExecRequest
  <2>9. CASE RunExecStep
    BY <2>9 DEF RunExecStep, StartFails, StartCommand, CommandEnded, TimerFires, KilledEnded, Reply
  <2>10. CASE UNCHANGED <<netVars, pc>> BY <2>10
  <2> QED BY <2>1, <2>2, <2>3, <2>4, <2>5, <2>6, <2>7, <2>8, <2>9, <2>10
     DEF Next, NetStep, WaiterStep, WaitReaps, WaitCloses, ReaderStep, Read, ReaderEnds, CommandStep, Fork,
       LeaveGroup, KidExits, Write, LeaderExits, Quiet, vars
<1>3. WaitInv'
  <2> USE DEF IInv, WaitInv, TypeInv, TypeOK
  <2>1. CASE StartCommand BY <2>1 DEF StartCommand, StageInv, NoReply
  <2>2. CASE TimerFires BY <2>2 DEF TimerFires
  <2>3. CASE WaitReaps BY <2>3 DEF WaitReaps
  <2>4. CASE WaitCloses BY <2>4 DEF WaitCloses
  <2>5. CASE LeaderExits BY <2>5 DEF LeaderExits
  <2>6. CASE UNCHANGED <<waiter, leader, closed, status>> BY <2>6
  <2> QED BY <2>1, <2>2, <2>3, <2>4, <2>5, <2>6
     DEF Next, NetRequest, NetStep, LinkSetUp, AddrDel, AddrsCleared, AddrAdd, RouteReplace, NetFails,
       ExecRequest, RunExecStep, StartFails, CommandEnded, KilledEnded, Reply, WaiterStep, ReaderStep, Read,
       ReaderEnds, CommandStep, Fork, LeaveGroup, KidExits, Write, Quiet, vars
<1>4. StageInv'
  <2> USE DEF IInv, StageInv, WaitInv
  <2>1. CASE NetRequest \/ NetStep
    BY <2>1 DEF NetRequest, NetStep, LinkSetUp, AddrDel, AddrsCleared, AddrAdd, RouteReplace, NetFails, NetPcs
  <2>2. CASE ExecRequest BY <2>2 DEF ExecRequest
  <2>3. CASE StartFails BY <2>3 DEF StartFails, NoReply
  <2>4. CASE StartCommand BY <2>4 DEF StartCommand
  <2>5. CASE CommandEnded \/ KilledEnded BY <2>5 DEF CommandEnded, KilledEnded
  <2>6. CASE TimerFires BY <2>6 DEF TimerFires
  <2>7. CASE Reply BY <2>7 DEF Reply, NoReply
  <2>8. CASE WaitReaps \/ WaitCloses BY <2>8 DEF WaitReaps, WaitCloses
  <2>9. CASE LeaderExits BY <2>9 DEF LeaderExits
  <2>10. CASE UNCHANGED <<pc, leader, ctlVars>> BY <2>10
  <2> QED BY <2>1, <2>2, <2>3, <2>4, <2>5, <2>6, <2>7, <2>8, <2>9, <2>10
     DEF Next, RunExecStep, WaiterStep, ReaderStep, Read, ReaderEnds, CommandStep, Fork,
       LeaveGroup, KidExits, Write, Quiet, vars
<1>5. KillInv'
  <2> USE DEF IInv, KillInv, Alive
  <2>1. CASE StartCommand BY <2>1 DEF StartCommand, StageInv
  <2>2. CASE TimerFires BY <2>2 DEF TimerFires, TypeInv, TypeOK
  <2>3. ASSUME NEW k \in Kids, Fork(k) \/ LeaveGroup(k) \/ KidExits(k) PROVE KillInv'
    BY <2>3 DEF Fork, LeaveGroup, KidExits, TypeInv, TypeOK
  <2>4. CASE LeaderExits BY <2>4 DEF LeaderExits
  <2>5. CASE WaitReaps BY <2>5 DEF WaitReaps
  <2>6. CASE UNCHANGED <<leader, status, kid, timedOut>> BY <2>6
  <2> QED BY <2>1, <2>2, <2>3, <2>4, <2>5, <2>6
     DEF Next, NetRequest, NetStep, LinkSetUp, AddrDel, AddrsCleared, AddrAdd, RouteReplace, NetFails,
       ExecRequest, RunExecStep, StartFails, CommandEnded, KilledEnded, Reply, WaiterStep, WaitCloses,
       ReaderStep, Read, ReaderEnds, CommandStep, Write, Quiet, vars
<1>6. ReplyInv'
  <2> USE DEF IInv, ReplyInv, exitCode
  <2>1. CASE StartFails BY <2>1 DEF StartFails
  <2>2. CASE StartCommand BY <2>2 DEF StartCommand, StageInv, NoReply
  <2>3. CASE TimerFires BY <2>3 DEF TimerFires, StageInv, NoReply
  <2>4. CASE Reply BY <2>4 DEF Reply, StageInv
  <2>5. CASE WaitReaps \/ WaitCloses BY <2>5 DEF WaitReaps, WaitCloses
  <2>6. ASSUME NEW s \in Streams, ReaderEnds(s) PROVE ReplyInv' BY <2>6 DEF ReaderEnds, TypeInv, TypeOK
  <2>7. CASE LeaderExits BY <2>7 DEF LeaderExits, WaitInv
  <2>8. CASE UNCHANGED <<reply, waiter, timedOut, status, reader>> BY <2>8
  <2> QED BY <2>1, <2>2, <2>3, <2>4, <2>5, <2>6, <2>7, <2>8
     DEF Next, NetRequest, NetStep, LinkSetUp, AddrDel, AddrsCleared, AddrAdd, RouteReplace, NetFails,
       ExecRequest, RunExecStep, CommandEnded, KilledEnded, WaiterStep, ReaderStep, Read, CommandStep,
       Fork, LeaveGroup, KidExits, Write, Quiet, vars
<1> QED BY <1>1, <1>2, <1>3, <1>4, <1>5, <1>6 DEF IInv

-----------------------------------------------------------------------------
(* The inductive invariant holds in every state of every run. *)
LEMMA Invariance == Spec => []IInv
BY InitInv, NextInv, PTL DEF Spec

(* Type correctness of the agent: counts stay within the pipes and the limit. *)
THEOREM AgentTypes == Spec => []TypeOK
<1>1. IInv => TypeOK BY DEF IInv, TypeInv
<1> QED BY <1>1, Invariance, PTL

(* configureNetwork: when the host is told "configured" the guest has its own
   address and gateway and none that the image or the snapshot brought, for any
   number of old addresses and wherever an earlier call failed. *)
THEOREM ConfiguredIsTrue == Spec => []GuestAddressed
<1>1. IInv => GuestAddressed BY DEF IInv, NetInv
<1> QED BY <1>1, Invariance, PTL

(* runExec: an answer with ok=true leaves no process unreaped, no goroutine and no
   open pipe of the agent, whatever the background processes do. *)
THEOREM AnsweredIsOver == Spec => []ReplyLeavesNothing
<1>1. IInv => ReplyLeavesNothing BY DEF IInv, ReplyInv, WaitInv, ReplyLeavesNothing
<1> QED BY <1>1, Invariance, PTL

(* killProcessGroup: an exec answered as timed out has no process left in the group
   of its command, for any number of children and whenever they were forked. *)
THEOREM GroupIsKilled == Spec => []TimedOutKillsGroup
<1>1. IInv => TimedOutKillsGroup BY DEF IInv, ReplyInv, KillInv, Alive, TimedOutKillsGroup
<1> QED BY <1>1, Invariance, PTL

(* The exit code of runExec is the outcome of the command: 0 only for success, 124
   for a kill, however its end races with the timer. *)
THEOREM ExitIsFaithful == Spec => []ExitFaithful
<1>1. IInv => ExitFaithful
  BY DEF IInv, ReplyInv, WaitInv, KillInv, TypeInv, TypeOK, exitCode, ExitFaithful
<1> QED BY <1>1, Invariance, PTL
=============================================================================
