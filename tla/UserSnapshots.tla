------------------------------ MODULE UserSnapshots ------------------------------
(***************************************************************************)
(* User snapshots: POST /snapshot/create, /snapshot/restore and            *)
(* /snapshot/delete, the files they share under user-snapshots/, the pause *)
(* and resume of the source VM, and restarts of the server.                *)
(*                                                                         *)
(* Source: cmd/server/{user_snapshot,restore,firecracker_api,config}.go.   *)
(*                                                                         *)
(* What a guest holds in memory and on disk is one version number that     *)
(* grows while it runs; a file holds the version it was copied from.       *)
(* state.snap and mem.snap are written by one call and are one file here.  *)
(* The list request only reads what Listed says.                           *)
(***************************************************************************)
EXTENDS Naturals, FiniteSets

CONSTANTS
  Handlers,         \* snapshot requests served at once
  Sandboxes,        \* sandboxes that may exist, each in one life of the server
  Lineages,         \* hashes of the base rootfs
  NoLineage,        \* the empty lineage id
  EnableSnapshots,  \* cfg.EnableSnapshots: only then a lineage is computed
  MaxSnapshots,     \* bound: snapshot creates in one life of the server
  MaxRequests,      \* bound: snapshot requests in all lives
  MaxWrites,        \* bound: times each guest changes its memory and disk
  MaxRestarts       \* bound: lives of the server after the first

ASSUME SnapshotAssumption ==
  /\ IsFiniteSet(Handlers) /\ IsFiniteSet(Sandboxes)
  /\ NoLineage \notin Lineages
  /\ EnableSnapshots \in BOOLEAN
  /\ MaxSnapshots \in Nat /\ MaxRequests \in Nat /\ MaxWrites \in Nat /\ MaxRestarts \in Nat

VARIABLES
  pc,              \* where each handler is
  src,             \* the sandbox a snapshot create works on
  id,              \* the snapshot a handler works on
  copy,            \* the disk a restore has cloned
  sandboxes,       \* s.sandboxes
  vm,              \* the source VM: none, running, paused or gone
  version,         \* what its memory and disk hold
  base,            \* the rootfs it descends from
  stuck,           \* VMs on which a pause or a resume was answered by an error
  nextSnapshotID,  \* s.nextSnapshotID
  rootfs,          \* the lineage of the configured rootfs
  restarts,        \* how often the server was started again
  requests,        \* snapshot requests so far
  dirs,            \* snapshot directories
  mem, disk, meta, \* their files
  acked,           \* history: the memory of a snapshot when its create was answered 200
  restored,        \* history: the sandbox the last successful restore made
  disturbed,       \* history: snapshots whose id was in use before, or made beside another one of the same VM
  deleted          \* history: snapshots somebody asked to delete

reqVars   == <<pc, src, id, copy>>
vmVars    == <<vm, version, stuck>>
fileVars  == <<dirs, mem, disk, meta>>
histVars  == <<acked, restored, disturbed, deleted>>
lifeVars  == <<sandboxes, base, nextSnapshotID, rootfs, restarts>>
worldVars == <<lifeVars, requests>>
snapVars  == <<reqVars, vmVars, fileVars, histVars, worldVars>>

Ids      == 1..MaxSnapshots
NoId     == 0
None     == <<>>
Contents == Sandboxes \X (0..MaxWrites)

(* After a successful pause the deferred resume is armed. *)
ArmedPcs   == {"remove", "full", "disk", "meta", "resume", "undo"}
CreatePcs  == {"mkdir", "pause"} \cup ArmedPcs
RestorePcs == {"exists", "clone", "load"}
Pcs        == {"idle", "delete"} \cup CreatePcs \cup RestorePcs

SnapInit ==
  /\ pc = [h \in Handlers |-> "idle"]
  /\ src = [h \in Handlers |-> None]
  /\ id = [h \in Handlers |-> NoId]
  /\ copy = [h \in Handlers |-> None]
  /\ sandboxes = {}
  /\ vm = [s \in Sandboxes |-> "none"]
  /\ version = [s \in Sandboxes |-> 0]
  /\ base = [s \in Sandboxes |-> NoLineage]
  /\ stuck = {}
  /\ nextSnapshotID = 0
  /\ rootfs \in Lineages
  /\ restarts = 0
  /\ requests = 0
  /\ dirs = {}
  /\ mem = [i \in Ids |-> None]
  /\ disk = [i \in Ids |-> None]
  /\ meta = [i \in Ids |-> None]
  /\ acked = [i \in Ids |-> None]
  /\ restored = None
  /\ disturbed = {}
  /\ deleted = {}

(* cfg.BaseRootfsLineageID. *)
BaseRootfsLineageID == IF EnableSnapshots THEN rootfs ELSE NoLineage

Goto(h, l) == pc' = [pc EXCEPT ![h] = l] /\ UNCHANGED <<src, id, copy>>

(* A request arrives. *)
Accept(h) == pc[h] = "idle" /\ requests < MaxRequests /\ requests' = requests + 1

(* The response is written and the handler ends. *)
Return(h) ==
  /\ pc'   = [pc EXCEPT ![h] = "idle"]
  /\ src'  = [src EXCEPT ![h] = None]
  /\ id'   = [id EXCEPT ![h] = NoId]
  /\ copy' = [copy EXCEPT ![h] = None]

-----------------------------------------------------------------------------
(* POST /snapshot/create.  The close of the cached agent connection that      *)
(* comes first is CloseAgent of module AgentChannel.                          *)

(* Creates of the same sandbox that are under way. *)
Overlapping(s) == {g \in Handlers : pc[g] \in CreatePcs /\ src[g] = s}

(* Variant: the id is the counter before the increment. *)
SnapshotStartOldValue(h, s) ==
  /\ Accept(h)
  /\ s \in sandboxes
  /\ nextSnapshotID < MaxSnapshots
  /\ nextSnapshotID' = nextSnapshotID + 1
  /\ pc'  = [pc EXCEPT ![h] = "mkdir"]
  /\ src' = [src EXCEPT ![h] = s]
  /\ id'  = [id EXCEPT ![h] = nextSnapshotID]
  /\ UNCHANGED <<copy, vmVars, fileVars, histVars, sandboxes, base, rootfs, restarts>>

(* Lookup in the map, then atomic.AddUint64 hands out the id. *)
SnapshotStart(h, s) ==
  LET i == nextSnapshotID + 1
  IN  /\ Accept(h)
      /\ s \in sandboxes
      /\ nextSnapshotID < MaxSnapshots
      /\ nextSnapshotID' = i
      /\ pc'  = [pc EXCEPT ![h] = "mkdir"]
      /\ src' = [src EXCEPT ![h] = s]
      /\ id'  = [id EXCEPT ![h] = i]
      /\ disturbed' = disturbed \cup ({i} \cap (dirs \cup deleted))
                        \cup {j \in {i} \cup {id[g] : g \in Overlapping(s)} : Overlapping(s) # {}}
      /\ UNCHANGED <<copy, vmVars, fileVars, acked, restored, deleted, sandboxes, base, rootfs, restarts>>

MakeDir(h) ==
  /\ pc[h] = "mkdir"
  /\ \/ dirs' = dirs \cup {id[h]} /\ Goto(h, "pause")
     \/ Return(h) /\ UNCHANGED dirs
  /\ UNCHANGED <<vmVars, mem, disk, meta, histVars, worldVars>>

(* A call to Firecracker may fail, and a failed one may have had its effect. *)
Pause(h) ==
  /\ pc[h] = "pause"
  /\ \/ /\ vm[src[h]] \in {"running", "paused"}
        /\ vm' = [vm EXCEPT ![src[h]] = "paused"]
        /\ \/ Goto(h, "remove") /\ UNCHANGED stuck
           \/ Return(h) /\ stuck' = stuck \cup {src[h]}
     \/ Return(h) /\ UNCHANGED <<vm, stuck>>
  /\ UNCHANGED <<version, fileVars, histVars, worldVars>>

RemoveOld(h) ==
  /\ pc[h] = "remove"
  /\ mem'  = [mem EXCEPT ![id[h]] = None]
  /\ disk' = [disk EXCEPT ![id[h]] = None]
  /\ Goto(h, "full")
  /\ UNCHANGED <<vmVars, dirs, meta, histVars, worldVars>>

(* Variant: the VM is resumed before its disk is copied. *)
CreateFullResumes(h) ==
  /\ pc[h] = "full"
  /\ vm[src[h]] = "paused"
  /\ id[h] \in dirs
  /\ mem' = [mem EXCEPT ![id[h]] = <<src[h], version[src[h]]>>]
  /\ vm' = [vm EXCEPT ![src[h]] = "running"]
  /\ Goto(h, "disk")
  /\ UNCHANGED <<version, stuck, dirs, disk, meta, histVars, worldVars>>

(* createFullSnapshot: Firecracker refuses unless the VM is paused. *)
CreateFull(h) ==
  /\ pc[h] = "full"
  /\ vm[src[h]] = "paused"
  /\ id[h] \in dirs
  /\ mem' = [mem EXCEPT ![id[h]] = <<src[h], version[src[h]]>>]
  /\ Goto(h, "disk")
  /\ UNCHANGED <<vmVars, dirs, disk, meta, histVars, worldVars>>

(* materializeSandboxRootfs copies the disk of the sandbox, paused or not. *)
PersistDisk(h) ==
  /\ pc[h] = "disk"
  /\ vm[src[h]] # "gone"
  /\ id[h] \in dirs
  /\ disk' = [disk EXCEPT ![id[h]] = <<src[h], version[src[h]]>>]
  /\ Goto(h, "meta")
  /\ UNCHANGED <<vmVars, dirs, mem, meta, histVars, worldVars>>

(* writeUserSnapshotMeta: a temporary file and a rename publish the snapshot. *)
writeUserSnapshotMeta(h) ==
  /\ pc[h] = "meta"
  /\ id[h] \in dirs
  /\ meta' = [meta EXCEPT ![id[h]] = BaseRootfsLineageID]
  /\ Goto(h, "resume")
  /\ UNCHANGED <<vmVars, dirs, mem, disk, histVars, worldVars>>

(* Variant: an error returns without the deferred resume. *)
SnapshotFailsPaused(h) ==
  /\ pc[h] \in {"full", "disk", "meta"}
  /\ Return(h)
  /\ UNCHANGED <<vmVars, fileVars, histVars, worldVars>>

(* Any of the three may fail; the deferred resume is next. *)
SnapshotFails(h) ==
  /\ pc[h] \in {"full", "disk", "meta"}
  /\ Goto(h, "undo")
  /\ UNCHANGED <<vmVars, fileVars, histVars, worldVars>>

(* resumeVM worked. *)
Resumed(s) == vm' = [vm EXCEPT ![s] = IF @ = "paused" THEN "running" ELSE @]

Resume(h) ==
  /\ pc[h] = "resume"
  /\ vm[src[h]] # "gone"
  /\ Resumed(src[h])
  /\ acked' = [acked EXCEPT ![id[h]] = mem[id[h]]]
  /\ Return(h)
  /\ UNCHANGED <<version, stuck, fileVars, restored, disturbed, deleted, worldVars>>

(* It failed: the request is answered with an error after the deferred second try. *)
ResumeFails(h) ==
  /\ pc[h] = "resume"
  /\ Goto(h, "undo")
  /\ UNCHANGED <<vmVars, fileVars, histVars, worldVars>>

DeferredResume(h) ==
  /\ pc[h] = "undo"
  /\ \/ Resumed(src[h]) /\ UNCHANGED stuck
     \/ stuck' = stuck \cup {src[h]} /\ UNCHANGED vm
  /\ Return(h)
  /\ UNCHANGED <<version, fileVars, histVars, worldVars>>

-----------------------------------------------------------------------------
(* POST /snapshot/restore.                                                   *)

(* Variant: the lineage is not compared. *)
RestoreStartUnchecked(h, i) ==
  /\ Accept(h)
  /\ meta[i] # None
  /\ pc' = [pc EXCEPT ![h] = "exists"]
  /\ id' = [id EXCEPT ![h] = i]
  /\ UNCHANGED <<src, copy, vmVars, fileVars, histVars, lifeVars>>

(* The metadata is read and its lineage compared: 404 and 409 change nothing. *)
RestoreStart(h, i) ==
  /\ Accept(h)
  /\ meta[i] # None
  /\ BaseRootfsLineageID # NoLineage => meta[i] = BaseRootfsLineageID
  /\ pc' = [pc EXCEPT ![h] = "exists"]
  /\ id' = [id EXCEPT ![h] = i]
  /\ UNCHANGED <<src, copy, vmVars, fileVars, histVars, lifeVars>>

(* createSandboxFromUserSnapshot looks for the artifacts first. *)
ArtifactsExist(h) ==
  /\ pc[h] = "exists"
  /\ mem[id[h]] # None /\ disk[id[h]] # None
  /\ Goto(h, "clone")
  /\ UNCHANGED <<vmVars, fileVars, histVars, worldVars>>

CloneDisk(h) ==
  /\ pc[h] = "clone"
  /\ disk[id[h]] # None
  /\ copy' = [copy EXCEPT ![h] = disk[id[h]]]
  /\ pc' = [pc EXCEPT ![h] = "load"]
  /\ UNCHANGED <<src, id, vmVars, fileVars, histVars, worldVars>>

(* loadSnapshot opens the memory file; the rest of the create is SandboxCreate. *)
LoadSnapshot(h) ==
  /\ pc[h] = "load"
  /\ mem[id[h]] # None
  /\ restored' = [from |-> id[h], mem |-> mem[id[h]], disk |-> copy[h], rootfs |-> rootfs]
  /\ Return(h)
  /\ UNCHANGED <<vmVars, fileVars, acked, disturbed, deleted, worldVars>>

(* An artifact is missing, or something else fails. *)
RestoreFails(h) ==
  /\ pc[h] \in RestorePcs
  /\ Return(h)
  /\ UNCHANGED <<vmVars, fileVars, histVars, worldVars>>

-----------------------------------------------------------------------------
(* POST /snapshot/delete: os.RemoveAll, one entry at a time in any order.    *)

DeleteStart(h, i) ==
  /\ Accept(h)
  /\ i \in dirs
  /\ pc' = [pc EXCEPT ![h] = "delete"]
  /\ id' = [id EXCEPT ![h] = i]
  /\ deleted' = deleted \cup {i}
  /\ UNCHANGED <<src, copy, vmVars, fileVars, acked, restored, disturbed, lifeVars>>

DeleteEntry(h) ==
  /\ pc[h] = "delete"
  /\ \/ mem'  = [mem EXCEPT ![id[h]] = None] /\ UNCHANGED <<disk, meta>>
     \/ disk' = [disk EXCEPT ![id[h]] = None] /\ UNCHANGED <<mem, meta>>
     \/ meta' = [meta EXCEPT ![id[h]] = None] /\ UNCHANGED <<mem, disk>>
  /\ UNCHANGED <<reqVars, dirs, vmVars, histVars, worldVars>>

Empty(i) == mem[i] = None /\ disk[i] = None /\ meta[i] = None

(* The directory goes when it is empty; an error ends the request half done. *)
DeleteEnds(h) ==
  /\ pc[h] = "delete"
  /\ \/ Empty(id[h]) /\ dirs' = dirs \ {id[h]}
     \/ UNCHANGED dirs
  /\ Return(h)
  /\ UNCHANGED <<vmVars, mem, disk, meta, histVars, worldVars>>

-----------------------------------------------------------------------------
(* The rest of the server, the guests and the process.                       *)

SandboxCreated(s) ==
  /\ vm[s] = "none"
  /\ vm' = [vm EXCEPT ![s] = "running"]
  /\ base' = [base EXCEPT ![s] = rootfs]
  /\ sandboxes' = sandboxes \cup {s}
  /\ UNCHANGED <<reqVars, version, stuck, fileVars, histVars, nextSnapshotID, rootfs, restarts, requests>>

(* /destroy does not wait for snapshot requests that hold the sandbox. *)
SandboxDestroyed(s) ==
  /\ s \in sandboxes
  /\ sandboxes' = sandboxes \ {s}
  /\ vm' = [vm EXCEPT ![s] = "gone"]
  /\ UNCHANGED <<reqVars, version, stuck, fileVars, histVars, base, nextSnapshotID, rootfs, restarts, requests>>

GuestWrites(s) ==
  /\ vm[s] = "running"
  /\ version[s] < MaxWrites
  /\ version' = [version EXCEPT ![s] = @ + 1]
  /\ UNCHANGED <<reqVars, vm, stuck, fileVars, histVars, worldVars>>

(* The process crashes and is started again, maybe with another rootfs: the files
   stay, the map, the requests and the counter do not. *)
ServerRestarts(l) ==
  /\ restarts < MaxRestarts
  /\ restarts' = restarts + 1
  /\ rootfs' = l
  /\ nextSnapshotID' = 0
  /\ sandboxes' = {}
  /\ pc' = [h \in Handlers |-> "idle"]
  /\ src' = [h \in Handlers |-> None]
  /\ id' = [h \in Handlers |-> NoId]
  /\ copy' = [h \in Handlers |-> None]
  /\ UNCHANGED <<vmVars, base, fileVars, histVars, requests>>

HandlerStep(h) ==
  \/ MakeDir(h) \/ Pause(h) \/ RemoveOld(h) \/ CreateFull(h) \/ PersistDisk(h)
  \/ writeUserSnapshotMeta(h) \/ SnapshotFails(h) \/ Resume(h) \/ ResumeFails(h) \/ DeferredResume(h)
  \/ ArtifactsExist(h) \/ CloneDisk(h) \/ LoadSnapshot(h) \/ RestoreFails(h)
  \/ DeleteEntry(h) \/ DeleteEnds(h)

Request(h) ==
  \/ \E s \in Sandboxes : SnapshotStart(h, s)
  \/ \E i \in Ids : RestoreStart(h, i) \/ DeleteStart(h, i)

(* No request is under way. *)
Quiet == (\A h \in Handlers : pc[h] = "idle") /\ UNCHANGED snapVars

SnapNext ==
  \/ \E h \in Handlers : Request(h) \/ HandlerStep(h)
  \/ \E s \in Sandboxes : SandboxCreated(s) \/ SandboxDestroyed(s) \/ GuestWrites(s)
  \/ \E l \in Lineages : ServerRestarts(l)
  \/ Quiet

SnapSpec == SnapInit /\ [][SnapNext]_snapVars

-----------------------------------------------------------------------------
SnapTypeOK ==
  /\ pc \in [Handlers -> Pcs]
  /\ src \in [Handlers -> Sandboxes \cup {None}]
  /\ \A h \in Handlers : IF pc[h] = "idle" THEN id[h] = NoId ELSE id[h] \in Ids
  /\ copy \in [Handlers -> Contents \cup {None}]
  /\ sandboxes \subseteq Sandboxes
  /\ vm \in [Sandboxes -> {"none", "running", "paused", "gone"}]
  /\ version \in [Sandboxes -> 0..MaxWrites]
  /\ base \in [Sandboxes -> Lineages \cup {NoLineage}]
  /\ stuck \subseteq Sandboxes
  /\ nextSnapshotID \in 0..MaxSnapshots
  /\ rootfs \in Lineages
  /\ restarts \in 0..MaxRestarts
  /\ requests \in 0..MaxRequests
  /\ dirs \subseteq Ids /\ disturbed \subseteq Ids /\ deleted \subseteq Ids
  /\ mem \in [Ids -> Contents \cup {None}]
  /\ disk \in [Ids -> Contents \cup {None}]
  /\ acked \in [Ids -> Contents \cup {None}]
  /\ meta \in [Ids -> Lineages \cup {NoLineage, None}]

(* What the list request shows. *)
Listed == {i \in Ids : meta[i] # None}

(* A listed snapshot is whole: memory and disk are there and of the same moment of
   the guest, wherever its create failed or the server crashed, unless it was
   disturbed or somebody is deleting it. *)
ListedIsWhole ==
  \A i \in Listed \ (disturbed \cup deleted) : mem[i] # None /\ mem[i] = disk[i]

(* A restore gives memory and disk of one moment of a guest that descends from the
   rootfs configured now, or an error, even while the snapshot is being deleted and
   across restarts with another rootfs. *)
RestoreConsistent ==
  restored # None /\ restored.from \notin disturbed =>
    restored.mem = restored.disk /\ base[restored.mem[1]] = restored.rootfs

(* A VM in the map is paused only while a request that will resume it is under
   way, unless Firecracker answered a pause or a resume with an error. *)
PausedHasResumer ==
  \A s \in sandboxes : vm[s] = "paused" /\ s \notin stuck =>
    \E h \in Handlers : pc[h] \in ArmedPcs /\ src[h] = s

(* user-snapshots-design.md: "Allow users to persist and restore sandbox state
   reliably".  A snapshot whose create was answered with its id keeps its state
   until somebody deletes it. *)
AckedIsKept == \A i \in Ids \ deleted : acked[i] # None => mem[i] = acked[i]
=============================================================================
