----------------------------- MODULE GoldenSnapshot -----------------------------
(***************************************************************************)
(* The golden snapshot every /create restores: ensureSnapshot, which the   *)
(* preflight of a starting server and every create run without a lock, the *)
(* files under snapshot/, the golden VM, and what a crash, a reboot or     *)
(* another rootfs leaves for the next life of the server.                  *)
(*                                                                         *)
(* Source: cmd/server/{snapshot,preflight,config,restore,main}.go, with    *)
(* cfg.EnableSnapshots set.                                                *)
(*                                                                         *)
(* A file is named by the build that wrote it and by the number of writes  *)
(* the golden guest had made to its disk when it was written.  Names in    *)
(* the kernel and the golden VM outlive the server process, not a reboot.  *)
(***************************************************************************)
EXTENDS Naturals, FiniteSets

CONSTANTS
  Creates,     \* handlers of POST /create
  Main,        \* the main goroutine
  Lineages,    \* hashes of the base rootfs
  MaxLives,    \* bound: starts of the server
  MaxBuilds,   \* bound: builds begun
  MaxWrites    \* bound: writes of one golden guest to its disk

ASSUME GoldenAssumption ==
  /\ Main \notin Creates
  /\ <<>> \notin Lineages   \* a hash is not the mark for a missing file
  /\ MaxLives \in Nat /\ MaxBuilds \in Nat /\ MaxWrites \in Nat

VARIABLES
  phase,     \* of the server: down, preflight or serving
  lives,     \* starts so far
  rootfs,    \* cfg.BaseRootfsLineageID
  pc,        \* where each caller is in ensureSnapshot
  builds,    \* builds begun
  root,      \* the rootfs each build copied
  base,      \* snapshot/base/rootfs.ext4
  state,     \* snapshot/state.snap
  mem,       \* snapshot/mem.snap
  meta,      \* the lineage in snapshot/meta.json
  ns,        \* the namespace manta-snapshot exists
  vm,        \* the golden VM
  vmBuild,   \* the build that started it
  onBase,    \* its disk is still the file base
  used,      \* history: what the last create restored
  resetCut,  \* history: some removal of the directory has stopped half way
  left       \* history: a crash, or a setup that failed, left the namespace behind

serverVars == <<phase, lives, rootfs, pc>>
fileVars   == <<base, state, mem, meta>>
vmVars     == <<ns, vm, vmBuild, onBase>>
histVars   == <<builds, root, used, resetCut, left>>
vars       == <<serverVars, fileVars, vmVars, histVars>>

Callers == Creates \cup {Main}
Builds  == 1..MaxBuilds
None    == <<>>
Torn    == MaxWrites + 1
Files   == [build : Builds, at : 0..Torn] \cup {None}

(* Where a failure must undo the namespace and the VM. *)
VMPcs    == {"start", "agent", "pause", "create", "dump", "kill", "meta"}
BuildPcs == {"reset", "copy", "copying", "netns", "clean", "cleanErr"} \cup VMPcs
Pcs      == {"idle", "check", "use", "refused"} \cup BuildPcs

Init ==
  /\ phase = "down" /\ lives = 0
  /\ rootfs \in Lineages
  /\ pc = [p \in Callers |-> "idle"]
  /\ builds = 0
  /\ root = [b \in Builds |-> rootfs]
  /\ base = None /\ state = None /\ mem = None /\ meta = None
  /\ ns = FALSE /\ vm = "none" /\ vmBuild = 0 /\ onBase = FALSE
  /\ used = None
  /\ resetCut = FALSE /\ left = FALSE

Goto(p, l) == pc' = [pc EXCEPT ![p] = l] /\ UNCHANGED <<phase, lives, rootfs>>

(* ensureSnapshot returns: the preflight goes on to serve or ends the process
   (log.Fatalf), a create goes on to the restore or answers an error. *)
Succeed(p) ==
  /\ pc' = [pc EXCEPT ![p] = IF p = Main THEN "idle" ELSE "use"]
  /\ phase' = IF p = Main THEN "serving" ELSE phase
  /\ UNCHANGED <<lives, rootfs>>

(* Variant: the preflight only logs the error. *)
FailServes(p) ==
  /\ pc' = [pc EXCEPT ![p] = "idle"]
  /\ phase' = IF p = Main THEN "serving" ELSE phase
  /\ UNCHANGED <<lives, rootfs>>

Fail(p) ==
  /\ pc' = [pc EXCEPT ![p] = "idle"]
  /\ phase' = IF p = Main THEN "down" ELSE phase
  /\ UNCHANGED <<lives, rootfs>>

-----------------------------------------------------------------------------
(* What is there already.                                                    *)

FilesExist == state # None /\ mem # None /\ base # None

(* Variant: the metadata only has to be there. *)
validateAnyMeta == meta # None

(* validateSnapshotMeta: readable and of the rootfs configured now. *)
validateSnapshotMeta == meta = rootfs

Accept(p) ==
  /\ pc[p] = "check"
  /\ FilesExist /\ validateSnapshotMeta
  /\ Succeed(p)
  /\ UNCHANGED <<fileVars, vmVars, histVars>>

(* A file is missing: build over what is there.  All files are there and the
   metadata does not fit: remove everything first. *)
Rebuild(p) ==
  /\ pc[p] = "check"
  /\ ~(FilesExist /\ validateSnapshotMeta)
  /\ Goto(p, IF FilesExist THEN "reset" ELSE "copy")
  /\ UNCHANGED <<fileVars, vmVars, histVars>>

(* resetSnapshotDir: os.RemoveAll takes the entries in any order. *)
ResetEntry(p) ==
  /\ pc[p] = "reset"
  /\ \/ base' = None /\ onBase' = FALSE /\ UNCHANGED <<state, mem, meta>>
     \/ state' = None /\ UNCHANGED <<base, mem, meta, onBase>>
     \/ mem' = None /\ UNCHANGED <<base, state, meta, onBase>>
     \/ meta' = None /\ UNCHANGED <<base, state, mem, onBase>>
  /\ UNCHANGED <<serverVars, ns, vm, vmBuild, histVars>>

Empty == base = None /\ state = None /\ mem = None /\ meta = None

ResetDone(p) ==
  /\ pc[p] = "reset"
  /\ Empty
  /\ Goto(p, "copy")
  /\ UNCHANGED <<fileVars, vmVars, histVars>>

ResetFails(p) ==
  /\ pc[p] = "reset"
  /\ resetCut' = (resetCut \/ ~Empty)
  /\ Fail(p)
  /\ UNCHANGED <<fileVars, vmVars, builds, root, used, left>>

-----------------------------------------------------------------------------
(* The build.                                                                *)

(* Variant: the file is named after the build before. *)
CopyStartOldValue(p) ==
  /\ pc[p] = "copy"
  /\ builds < MaxBuilds
  /\ builds' = builds + 1
  /\ root' = [root EXCEPT ![builds + 1] = rootfs]
  /\ base' = [build |-> builds, at |-> Torn]
  /\ Goto(p, "copying")
  /\ UNCHANGED <<state, mem, meta, vmVars, used, resetCut, left>>

(* materializeSandboxRootfs: cp writes into the file that is there. *)
CopyStart(p) ==
  /\ pc[p] = "copy"
  /\ builds < MaxBuilds
  /\ builds' = builds + 1
  /\ root' = [root EXCEPT ![builds + 1] = rootfs]
  /\ base' = [build |-> builds + 1, at |-> Torn]
  /\ Goto(p, "copying")
  /\ UNCHANGED <<state, mem, meta, vmVars, used, resetCut, left>>

CopyEnds(p) ==
  /\ pc[p] = "copying"
  /\ base # None
  /\ base' = [base EXCEPT !.at = 0]
  /\ Goto(p, "netns")
  /\ UNCHANGED <<state, mem, meta, vmVars, histVars>>

(* mkdir or cp fails. *)
CopyFails(p) ==
  /\ pc[p] \in {"copy", "copying"}
  /\ Fail(p)
  /\ UNCHANGED <<fileVars, vmVars, histVars>>

(* setupSandboxNetnsAndRouting("snapshot", 250): the name must be free. *)
SetupNetns(p) ==
  /\ pc[p] = "netns"
  /\ ~ns
  /\ ns' = TRUE
  /\ Goto(p, "start")
  /\ UNCHANGED <<fileVars, vm, vmBuild, onBase, histVars>>

NetnsRefused(p) ==
  /\ pc[p] = "netns"
  /\ ns
  /\ Goto(p, "refused")
  /\ UNCHANGED <<fileVars, vmVars, histVars>>

(* It fails in between, where some of its errors leave the namespace behind. *)
NetnsFails(p) ==
  /\ \/ pc[p] = "netns" /\ ~ns /\ ns' \in BOOLEAN
     \/ pc[p] = "refused" /\ UNCHANGED ns
  /\ left' = (left \/ ns')
  /\ Fail(p)
  /\ UNCHANGED <<fileVars, vm, vmBuild, onBase, builds, root, used, resetCut>>

(* The VM config is written, stale sockets are removed, Firecracker starts. *)
StartGoldenVM(p) ==
  /\ pc[p] = "start"
  /\ vm' = "running" /\ vmBuild' = builds /\ onBase' = TRUE
  /\ Goto(p, "agent")
  /\ UNCHANGED <<fileVars, ns, histVars>>

WaitForAgent(p) ==
  /\ pc[p] = "agent"
  /\ vm # "none"
  /\ Goto(p, "pause")
  /\ UNCHANGED <<fileVars, vmVars, histVars>>

PauseGoldenVM(p) ==
  /\ pc[p] = "pause"
  /\ vm = "running"
  /\ vm' = "paused"
  /\ Goto(p, "create")
  /\ UNCHANGED <<fileVars, ns, vmBuild, onBase, histVars>>

(* The old files are removed and PUT /snapshot/create is sent. *)
CreateFullSnapshot(p) ==
  /\ pc[p] = "create"
  /\ state' = None /\ mem' = None
  /\ vm' = IF vm = "paused" THEN "dumping" ELSE vm
  /\ Goto(p, "dump")
  /\ UNCHANGED <<base, meta, ns, vmBuild, onBase, histVars>>

(* Firecracker answers that both files are written. *)
DumpAnswered(p) ==
  /\ pc[p] = "dump"
  /\ vm = "dumped"
  /\ Goto(p, "kill")
  /\ UNCHANGED <<fileVars, vmVars, histVars>>

KillGoldenVM(p) ==
  /\ pc[p] = "kill"
  /\ vm' = "none"
  /\ Goto(p, "meta")
  /\ UNCHANGED <<fileVars, ns, vmBuild, onBase, histVars>>

(* writeSnapshotMeta: a temporary file and a rename. *)
writeSnapshotMeta(p) ==
  /\ pc[p] = "meta"
  /\ meta' = rootfs
  /\ Goto(p, "clean")
  /\ UNCHANGED <<base, state, mem, vmVars, histVars>>

(* Variant: the request for the dump has no timeout. *)
BuildFailsNotDump(p) ==
  /\ pc[p] \in VMPcs \ {"dump"}
  /\ vm' = "none"
  /\ Goto(p, "cleanErr")
  /\ UNCHANGED <<fileVars, ns, vmBuild, onBase, histVars>>

(* Any of these steps fails or runs out of time: the deferred kill and wait. *)
BuildFails(p) ==
  /\ pc[p] \in VMPcs
  /\ vm' = "none"
  /\ Goto(p, "cleanErr")
  /\ UNCHANGED <<fileVars, ns, vmBuild, onBase, histVars>>

(* Variant: only a build that worked cleans up. *)
CleanOnSuccess(p) ==
  /\ \/ pc[p] = "clean" /\ ns' = FALSE /\ Succeed(p)
     \/ pc[p] = "cleanErr" /\ UNCHANGED ns /\ Fail(p)
  /\ UNCHANGED <<fileVars, vm, vmBuild, onBase, histVars>>

(* The deferred cleanup of the namespace is the last thing that runs. *)
Clean(p) ==
  /\ ns' = FALSE
  /\ \/ pc[p] = "clean" /\ Succeed(p)
     \/ pc[p] = "cleanErr" /\ Fail(p)
  /\ UNCHANGED <<fileVars, vm, vmBuild, onBase, histVars>>

-----------------------------------------------------------------------------
(* The golden VM, with or without the server that started it.               *)

GuestWrites ==
  /\ vm = "running"
  /\ onBase /\ base # None /\ base.at < MaxWrites
  /\ base' = [base EXCEPT !.at = IF base.build = vmBuild THEN @ + 1 ELSE Torn]
  /\ UNCHANGED <<serverVars, state, mem, meta, vmVars, histVars>>

(* Firecracker writes the state file and then the memory file. *)
DiskSeen == IF onBase /\ base # None THEN base.at ELSE Torn

DumpState ==
  /\ vm = "dumping"
  /\ vm' = "dumpingMem"
  /\ state' = [build |-> vmBuild, at |-> DiskSeen]
  /\ mem' = [build |-> vmBuild, at |-> Torn]
  /\ UNCHANGED <<serverVars, base, meta, ns, vmBuild, onBase, histVars>>

DumpMem ==
  /\ vm = "dumpingMem"
  /\ vm' = "dumped"
  /\ mem' = IF mem = None THEN None ELSE [mem EXCEPT !.at = DiskSeen]
  /\ UNCHANGED <<serverVars, base, state, meta, ns, vmBuild, onBase, histVars>>

VMExits ==
  /\ vm # "none"
  /\ vm' = "none"
  /\ UNCHANGED <<serverVars, fileVars, ns, vmBuild, onBase, histVars>>

-----------------------------------------------------------------------------
(* The server.                                                               *)

(* loadConfig hashes the rootfs it finds; ensurePreflight calls ensureSnapshot. *)
Start(l) ==
  /\ phase = "down"
  /\ lives < MaxLives
  /\ lives' = lives + 1
  /\ phase' = "preflight"
  /\ rootfs' = l
  /\ pc' = [pc EXCEPT ![Main] = "check"]
  /\ UNCHANGED <<fileVars, vmVars, histVars>>

CreateBegins(p) ==
  /\ phase = "serving"
  /\ pc[p] = "idle"
  /\ Goto(p, "check")
  /\ UNCHANGED <<fileVars, vmVars, histVars>>

(* restoreSandboxFromArtifacts clones the disk and loads the two files. *)
Restore(p) ==
  /\ pc[p] = "use"
  /\ used' = [base |-> base, state |-> state, mem |-> mem, rootfs |-> rootfs]
  /\ Goto(p, "idle")
  /\ UNCHANGED <<fileVars, vmVars, builds, root, resetCut, left>>

(* The process dies.  With the whole host the namespace and the VM go too. *)
ProcessEnds ==
  /\ phase' = "down"
  /\ pc' = [p \in Callers |-> "idle"]
  /\ resetCut' = (resetCut \/ (~Empty /\ \E p \in Callers : pc[p] = "reset"))
  /\ UNCHANGED <<lives, rootfs, fileVars, builds, root, used>>

Crash ==
  /\ phase # "down"
  /\ ProcessEnds
  /\ left' = (left \/ ns)
  /\ UNCHANGED vmVars

Reboot ==
  /\ phase # "down" \/ ns \/ vm # "none"
  /\ ProcessEnds
  /\ ns' = FALSE /\ vm' = "none" /\ vmBuild' = 0 /\ onBase' = FALSE
  /\ left' = FALSE

(* Nobody starts it again. *)
StaysDown == phase = "down" /\ UNCHANGED vars

EnsureStep(p) ==
  \/ Accept(p) \/ Rebuild(p) \/ ResetEntry(p) \/ ResetDone(p) \/ ResetFails(p)
  \/ CopyStart(p) \/ CopyEnds(p) \/ CopyFails(p)
  \/ SetupNetns(p) \/ NetnsRefused(p) \/ NetnsFails(p)
  \/ StartGoldenVM(p) \/ WaitForAgent(p) \/ PauseGoldenVM(p) \/ CreateFullSnapshot(p)
  \/ DumpAnswered(p) \/ KillGoldenVM(p) \/ writeSnapshotMeta(p) \/ BuildFails(p) \/ Clean(p)

Next ==
  \/ \E p \in Callers : EnsureStep(p)
  \/ \E p \in Creates : CreateBegins(p) \/ Restore(p)
  \/ GuestWrites \/ DumpState \/ DumpMem \/ VMExits
  \/ \E l \in Lineages : Start(l)
  \/ Crash \/ Reboot \/ StaysDown

Spec == Init /\ [][Next]_vars

(* Every call of the build returns or has a deadline. *)
FairSpec == Spec /\ WF_vars(EnsureStep(Main))

-----------------------------------------------------------------------------
TypeOK ==
  /\ phase \in {"down", "preflight", "serving"}
  /\ lives \in 0..MaxLives
  /\ rootfs \in Lineages
  /\ pc \in [Callers -> Pcs]
  /\ builds \in 0..MaxBuilds
  /\ root \in [Builds -> Lineages]
  /\ base \in Files /\ state \in Files /\ mem \in Files
  /\ meta \in Lineages \cup {None}
  /\ ns \in BOOLEAN /\ onBase \in BOOLEAN /\ resetCut \in BOOLEAN /\ left \in BOOLEAN
  /\ vm \in {"none", "running", "paused", "dumping", "dumpingMem", "dumped"}
  /\ vmBuild \in 0..MaxBuilds

(* Disk, device state and memory are whole, of one build, of one moment. *)
Whole(s) ==
  /\ s.base # None /\ s.base.at # Torn
  /\ s.state = s.base /\ s.mem = s.base

(* What a create restores is one whole build of the rootfs configured now,
   wherever earlier builds failed or crashed and whatever rootfs they were of,
   unless a removal of the old snapshot was cut short. *)
UsedIsWhole ==
  used # None /\ ~resetCut => Whole(used) /\ root[used.base.build] = used.rootfs

(* snapshot.go: "these files are shared read-only across all restored VMs, and must
   remain immutable".  While the server serves, neither a create, which runs the
   whole of ensureSnapshot without a lock, nor a golden VM of an earlier life
   changes the disk, the state or the memory. *)
ServedIsImmutable ==
  [][phase = "serving" /\ phase' = "serving" /\ ~resetCut => UNCHANGED <<base, state, mem>>]_vars

(* A start ends: the server serves or gives up. *)
StartEnds == phase = "preflight" ~> phase # "preflight"

(* A build that fails undoes its namespace, wherever it fails: only a crash in the
   middle of one, or a setup that could not undo itself, makes a later start give up
   because the name manta-snapshot is taken. *)
RefusedOnlyIfLeft == (\E p \in Callers : pc[p] = "refused") => left
=============================================================================
