------------------------------ MODULE SandboxCreate ------------------------------
(***************************************************************************)
(* How a sandbox is built and taken down on the host: the parallel         *)
(* preparation of disk and network slot, the start of Firecracker, its     *)
(* cgroup, the boot or the snapshot restore, the undoing of a create that  *)
(* fails, the teardown of one that succeeded, and what a new server finds  *)
(* after a crash.  Slots are those of HostNetns.                           *)
(*                                                                         *)
(* Source: cmd/server/{sandbox,restore,cgroup,preflight,procutil}.go.      *)
(***************************************************************************)
EXTENDS HostNetns

CONSTANTS
  EnableSnapshots,     \* cfg.EnableSnapshots: /create restores the golden snapshot
  KeepFailedSandboxes, \* cfg.KeepFailedSandboxes
  EnableCgroups        \* cfg.EnableCgroups, on a host that has cgroup v2

ASSUME CreateAssumption ==
  EnableSnapshots \in BOOLEAN /\ KeepFailedSandboxes \in BOOLEAN /\ EnableCgroups \in BOOLEAN

VARIABLES
  pc,      \* where each worker is in the create or the teardown
  cur,     \* the sandbox it works on, NoId when none
  kind,    \* how that sandbox is made
  clone,   \* its goroutine that materializes the disk: none, running, ok, failed
  cgPath,  \* the workers whose cgroupPath (sb.CgroupPath) is not empty
  dirs,    \* sandboxes that have a directory
  cgDirs,  \* sandboxes that have a cgroup directory
  vms      \* the Firecracker processes of the host

createVars == <<pc, cur, kind, clone, cgPath, dirs, cgDirs, vms>>
hostVars   == <<dirs, cgDirs, vms>>
allVars    == <<netVars, createVars>>

NoId       == 0
SandboxIds == 1..MaxSandboxes

(* /create boots or restores the golden snapshot; /snapshot/restore a user's. *)
Kinds == {IF EnableSnapshots THEN "golden" ELSE "cold", "user"}

(* A process, in which life of the server and for which sandbox it was started,
   in which namespace; whether it is in its cgroup; whether it was sent SIGKILL. *)
VMs == [life : 0..MaxRestarts, id : SandboxIds, ns : Names, cg : BOOLEAN, killed : BOOLEAN]

(* From the start of Firecracker to a ready sandbox. *)
BootPcs(k) == IF k = "cold" THEN <<"attach", "agent", "guestnet">>
                            ELSE <<"socket", "attach", "load", "agent", "guestnet">>
WaitPcs    == {"socket", "load", "agent", "guestnet"}
CreatePcs  == {"idle", "prep", "start", "attach", "undo", "running", "wait", "free"} \cup WaitPcs

Moves(p, l) == pc' = [pc EXCEPT ![p] = l]

(* The step after pc[p] of a boot that goes well. *)
BootMoves(p) ==
  LET seq == BootPcs(kind[p])
  IN  \E i \in DOMAIN seq :
        /\ pc[p] = seq[i]
        /\ Moves(p, IF i = Len(seq) THEN "running" ELSE seq[i + 1])

(* The process p started for its sandbox, if it still exists. *)
Own(p, v) == v.life = restarts /\ v.id = cur[p]

(* SIGKILL to the process group and to the cgroup of the sandbox of p, in which
   nobody else is (CgroupReachesItsVM). *)
Kill(p) == vms' = {IF Own(p, v) THEN [v EXCEPT !.killed = TRUE] ELSE v : v \in vms}

CreateInit ==
  /\ NetInit
  /\ pc = [p \in Workers |-> "idle"]
  /\ cur = [p \in Workers |-> NoId]
  /\ kind = [p \in Workers |-> "none"]
  /\ clone = [p \in Workers |-> "none"]
  /\ cgPath = {}
  /\ dirs = {}
  /\ cgDirs = {}
  /\ vms = {}

-----------------------------------------------------------------------------
(* Preparation.                                                              *)

(* The sandbox directory is made and both goroutines are started. *)
PrepStart(p) ==
  /\ pc[p] = "idle"
  /\ acquireNetns(p)
  /\ cur' = [cur EXCEPT ![p] = nextSandboxID + 1]
  /\ \E k \in Kinds : kind' = [kind EXCEPT ![p] = k]
  /\ dirs' = dirs \cup {nextSandboxID + 1}
  /\ clone' = [clone EXCEPT ![p] = "running"]
  /\ Moves(p, "prep")
  /\ UNCHANGED <<cgPath, cgDirs, vms>>

(* A snapshot file is not there, or the directory cannot be made: the create is
   answered with an error and has used up its id. *)
PrepRefused(p) ==
  /\ pc[p] = "idle"
  /\ phase = "serving"
  /\ nextSandboxID < MaxSandboxes
  /\ nextSandboxID' = nextSandboxID + 1
  /\ UNCHANGED <<kernelVars, serverVars, nextSubnet, all, ch, step, nc, createVars>>

(* materializeSandboxRootfs ends. *)
CloneEnds(p) ==
  /\ clone[p] = "running"
  /\ \E r \in {"ok", "failed"} : clone' = [clone EXCEPT ![p] = r]
  /\ UNCHANGED <<netVars, pc, cur, kind, cgPath, hostVars>>

(* acquireNetns runs beside it. *)
NetnsStep(p) ==
  /\ pc[p] = "prep"
  /\ AcquirePooled(p) \/ AcquireOnDemand(p) \/ SetupStep(p)
  /\ UNCHANGED createVars

(* The worker is done with its sandbox. *)
WorkerDone(p) ==
  /\ cur' = [cur EXCEPT ![p] = NoId]
  /\ kind' = [kind EXCEPT ![p] = "none"]
  /\ clone' = [clone EXCEPT ![p] = "none"]
  /\ cgPath' = cgPath \ {p}
  /\ Moves(p, "idle")

(* The deferred removal of the directory of a create that failed.  Only /create from
   the golden snapshot can be told to keep it.  A cgroup directory stays. *)
CreateReturnsError(p) ==
  /\ dirs' = IF kind[p] = "golden" /\ KeepFailedSandboxes THEN dirs ELSE dirs \ {cur[p]}
  /\ WorkerDone(p)

Joined(p) == pc[p] = "prep" /\ clone[p] \in {"ok", "failed"}

PrepOK(p) ==
  /\ Joined(p)
  /\ clone[p] = "ok"
  /\ step[p] = "held"
  /\ Moves(p, "start")
  /\ UNCHANGED <<netVars, cur, kind, clone, cgPath, hostVars>>

(* Variant: an error of the clone returns at once and forgets the slot. *)
PrepFailsForgets(p) ==
  /\ Joined(p)
  /\ \/ /\ step[p] = "held" /\ clone[p] = "failed"
        /\ Goto(p, "idle")
        /\ nc' = [nc EXCEPT ![p] = NoConfig]
        /\ UNCHANGED <<kernelVars, poolVars, serverVars>>
     \/ SetupFailed(p)
  /\ CreateReturnsError(p)
  /\ UNCHANGED <<cgDirs, vms>>

(* Both results are awaited; a slot that was acquired goes back. *)
PrepFails(p) ==
  /\ Joined(p)
  /\ \/ clone[p] = "failed" /\ releaseNetns(p)
     \/ SetupFailed(p)
  /\ CreateReturnsError(p)
  /\ UNCHANGED <<cgDirs, vms>>

-----------------------------------------------------------------------------
(* Boot or restore.                                                          *)

(* Variant: a directory that is there already will do. *)
prepareSandboxCgroupShared(p) ==
  \/ /\ EnableCgroups
     /\ cgDirs' = cgDirs \cup {cur[p]}
     /\ cgPath' = cgPath \cup {p}
  \/ UNCHANGED <<cgDirs, cgPath>>

(* prepareSandboxCgroup: without a directory of its own, which Mkdir refuses when
   one is left over, the sandbox goes on without a cgroup. *)
prepareSandboxCgroup(p) ==
  \/ /\ EnableCgroups
     /\ cur[p] \notin cgDirs
     /\ cgDirs' = cgDirs \cup {cur[p]}
     /\ cgPath' = cgPath \cup {p}
  \/ UNCHANGED <<cgDirs, cgPath>>

(* "ip netns exec NS firecracker" starts in the slot. *)
StartVM(p) ==
  /\ pc[p] = "start"
  /\ prepareSandboxCgroup(p)
  /\ vms' = vms \cup {[life |-> restarts, id |-> cur[p], ns |-> nc[p].ns, cg |-> FALSE, killed |-> FALSE]}
  /\ Moves(p, BootPcs(kind[p])[1])
  /\ UNCHANGED <<netVars, cur, kind, clone, dirs>>

(* The VM config or the log file cannot be written, or, after the cgroup is made,
   the process does not start: the deferred release and the deferred removal run. *)
StartFails(p) ==
  /\ pc[p] = "start"
  /\ releaseNetns(p)
  /\ cgDirs' \in {cgDirs} \cup {c \in {cgDirs \cup {cur[p]}} : EnableCgroups}
  /\ CreateReturnsError(p)
  /\ UNCHANGED vms

(* The rmdir of a cgroup, at once or with retries: it fails while a process is in it,
   and may fail otherwise. *)
removeCgroupDir(id) ==
  \/ /\ \A v \in vms : ~(v.cg /\ v.id = id)
     /\ cgDirs' = cgDirs \ {id}
  \/ UNCHANGED cgDirs

(* attachSandboxProcessToCgroup, right after the start of a cold boot and after the
   API socket of a restore.  A failure removes the empty cgroup and is no error. *)
Attach(p) ==
  /\ pc[p] = "attach"
  /\ \/ /\ p \in cgPath
        /\ \E v \in vms : Own(p, v)
        /\ vms' = {IF Own(p, v) THEN [v EXCEPT !.cg = TRUE] ELSE v : v \in vms}
        /\ UNCHANGED <<cgPath, cgDirs>>
     \/ /\ p \in cgPath
        /\ cgPath' = cgPath \ {p}
        /\ removeCgroupDir(cur[p])
        /\ UNCHANGED vms
     \/ p \notin cgPath /\ UNCHANGED <<cgPath, cgDirs, vms>>
  /\ BootMoves(p)
  /\ UNCHANGED <<netVars, cur, kind, clone, dirs>>

(* The API socket answers, the snapshot is loaded, the agent answers, the guest
   network is set; the last one makes the sandbox. *)
BootAdvances(p) ==
  /\ pc[p] \in WaitPcs
  /\ \E v \in vms : Own(p, v)
  /\ BootMoves(p)
  /\ UNCHANGED <<netVars, cur, kind, clone, cgPath, hostVars>>

(* Variant: the failure path does not kill the VM. *)
BootFailsNoKill(p) ==
  /\ pc[p] \in WaitPcs
  /\ Moves(p, "undo")
  /\ UNCHANGED <<netVars, cur, kind, clone, cgPath, hostVars>>

(* One of them times out or answers an error: SIGKILL, and no wait for the exit. *)
BootFails(p) ==
  /\ pc[p] \in WaitPcs
  /\ Kill(p)
  /\ Moves(p, "undo")
  /\ UNCHANGED <<netVars, cur, kind, clone, cgPath, dirs, cgDirs>>

(* After a failed restore the slot is released; after a failed cold boot it is
   taken apart, even when it came from the pool. *)
Undo(p) ==
  /\ pc[p] = "undo"
  /\ \/ kind[p] # "cold" /\ releaseNetns(p)
     \/ kind[p] = "cold" /\ DiscardNetns(p)
  /\ CreateReturnsError(p)
  /\ UNCHANGED <<cgDirs, vms>>

-----------------------------------------------------------------------------
(* cleanupSandbox of a sandbox that was returned.                            *)

(* Variant: the kill is skipped. *)
TeardownKillSkipped(p) ==
  /\ pc[p] = "running"
  /\ Moves(p, "wait")
  /\ UNCHANGED <<netVars, cur, kind, clone, cgPath, hostVars>>

TeardownKill(p) ==
  /\ pc[p] = "running"
  /\ Kill(p)
  /\ Moves(p, "wait")
  /\ UNCHANGED <<netVars, cur, kind, clone, cgPath, dirs, cgDirs>>

(* Process.Wait returned, or five seconds have passed. *)
TeardownWait(p) ==
  /\ pc[p] = "wait"
  /\ Moves(p, "free")
  /\ UNCHANGED <<netVars, cur, kind, clone, cgPath, hostVars>>

TeardownFree(p) ==
  /\ pc[p] = "free"
  /\ \/ p \in cgPath /\ removeCgroupDir(cur[p])
     \/ p \notin cgPath /\ UNCHANGED cgDirs
  /\ releaseNetns(p)
  /\ dirs' = dirs \ {cur[p]}
  /\ WorkerDone(p)
  /\ UNCHANGED vms

-----------------------------------------------------------------------------
(* The life of the process.                                                  *)

(* A killed VM disappears; a VM may also end by itself. *)
VMExits ==
  /\ \E v \in vms : vms' = vms \ {v}
  /\ UNCHANGED <<netVars, pc, cur, kind, clone, cgPath, dirs, cgDirs>>

(* The pool is filled before the server listens. *)
PoolStep ==
  /\ PoolInitSlot \/ SetupStep(Main) \/ Serve \/ NamelessNsDies
  /\ UNCHANGED createVars

(* The server is gone; the VMs, in process groups of their own, go on. *)
ServerEnds ==
  /\ Crash \/ PoolInitFailed
  /\ pc' = [p \in Workers |-> "idle"]
  /\ cur' = [p \in Workers |-> NoId]
  /\ kind' = [p \in Workers |-> "none"]
  /\ clone' = [p \in Workers |-> "none"]
  /\ cgPath' = {}
  /\ UNCHANGED hostVars

(* scavengeCgroups, unless cgroups are disabled or their root cannot be made or read:
   for each directory the kill may fail, the processes may be gone in time or not, and
   the removal may fail even then. *)
scavengeCgroups ==
  \/ /\ EnableCgroups
     /\ \E hit, stuck \in SUBSET cgDirs :
          \E exits \in SUBSET {v \in vms : v.cg /\ v.id \in hit} :
            /\ vms' = {[v EXCEPT !.killed = @ \/ (v.cg /\ v.id \in hit)] : v \in vms \ exits}
            /\ cgDirs' = {id \in cgDirs : id \in stuck \/ \E v \in vms \ exits : v.cg /\ v.id = id}
  \/ UNCHANGED <<cgDirs, vms>>

(* A new server: ensurePreflight scavenges before anything is created. *)
ServerRestarts ==
  /\ Restart
  /\ scavengeCgroups
  /\ UNCHANGED <<pc, cur, kind, clone, cgPath, dirs>>

CreateStep(p) ==
  \/ CloneEnds(p) \/ NetnsStep(p) \/ PrepOK(p) \/ PrepFails(p)
  \/ StartVM(p) \/ StartFails(p) \/ Attach(p) \/ BootAdvances(p) \/ BootFails(p) \/ Undo(p)

TeardownStep(p) == TeardownWait(p) \/ TeardownFree(p)

(* All ids of the bound are used and every sandbox is taken down, or nobody starts
   the server again. *)
Quiet ==
  /\ \/ nextSandboxID = MaxSandboxes /\ \A p \in Workers : pc[p] = "idle"
     \/ phase = "down"
  /\ UNCHANGED allVars

CreateNext ==
  \/ PoolStep
  \/ \E p \in Workers : PrepStart(p) \/ PrepRefused(p) \/ CreateStep(p) \/ TeardownKill(p) \/ TeardownStep(p)
  \/ VMExits \/ ServerEnds \/ ServerRestarts \/ Quiet

CreateSpec == CreateInit /\ [][CreateNext]_allVars

-----------------------------------------------------------------------------
CreateTypeOK ==
  /\ NetTypeOK
  /\ pc \in [Workers -> CreatePcs]
  /\ cur \in [Workers -> SandboxIds \cup {NoId}]
  /\ kind \in [Workers -> Kinds \cup {"none"}]
  /\ clone \in [Workers -> {"none", "running", "ok", "failed"}]
  /\ cgPath \subseteq Workers
  /\ dirs \subseteq SandboxIds
  /\ cgDirs \subseteq SandboxIds
  /\ vms \subseteq VMs

Working(id) == \E p \in Workers : cur[p] = id /\ pc[p] # "idle"

(* The processes of this life of the server that nobody has killed. *)
Alive == {v \in vms : v.life = restarts /\ ~v.killed}

(* Whatever fails and whenever, a create leaves no directory and no VM behind that
   nobody has killed, and neither does a teardown: only a crash does. *)
NothingLeftBehind ==
  phase # "down" =>
    /\ \A v \in Alive : Working(v.id)
    /\ restarts = 0 /\ ~KeepFailedSandboxes => \A id \in dirs : Working(id)

(* No slot of the pool is forgotten: it is ready, with a sandbox, or, after a cold
   boot that failed, taken apart together with its veth. *)
PoolConserved ==
  phase = "serving" =>
    \A c \in all : \/ \E i \in 1..Len(ch) : ch[i] = c
                   \/ \E p \in Workers : step[p] = "held" /\ nc[p] = c
                   \/ c.ns \notin nss /\ \A s \in Subnets : veth[s] # c.ns

(* A slot in the pool is not in use: every VM started in it by this server has been
   killed. *)
FreeSlotVMsKilled ==
  \A i \in 1..Len(ch) : \A v \in Alive : v.ns # ch[i].ns

(* A VM that is in a cgroup can be reached through it for as long as it lives, by its
   teardown, by the undo of its create and by every later scavenge: the directory stays,
   and the VM is alone in it, although the ids of a new server start at sb-1 again and
   a scavenge can fail at each step. *)
CgroupReachesItsVM ==
  \A v \in vms : v.cg =>
    /\ v.id \in cgDirs
    /\ \A w \in vms : w.cg /\ w.id = v.id => w = v
=============================================================================
