-------------------------- MODULE UserSnapshotsProofs --------------------------
(***************************************************************************)
(* Proofs about module UserSnapshots for every set of handlers, sandboxes  *)
(* and lineages and every bound.                                           *)
(***************************************************************************)
EXTENDS UserSnapshots, TLAPS

Results == [from : Ids, mem : Contents, disk : Contents, rootfs : Lineages]

TypeInv ==
  /\ SnapTypeOK
  /\ id \in [Handlers -> Ids \cup {NoId}]
  /\ restored \in Results \cup {None}
  /\ \A h \in Handlers : pc[h] \in CreatePcs => src[h] \in Sandboxes
  /\ \A h \in Handlers : pc[h] = "load" => copy[h] # None

(* The ids of one life of the server are distinct; two creates of one sandbox that
   overlap are known to be disturbed. *)
IdInv ==
  /\ \A h \in Handlers : pc[h] \in CreatePcs => id[h] <= nextSnapshotID
  /\ \A g, h \in Handlers : pc[g] \in CreatePcs /\ pc[h] \in CreatePcs /\ id[g] = id[h] => g = h
  /\ \A g, h \in Handlers : pc[g] \in CreatePcs /\ pc[h] \in CreatePcs /\ g # h /\ src[g] = src[h]
       => id[h] \in disturbed

(* Files are in directories, and a directory goes only after a delete was asked for. *)
DirInv ==
  /\ \A i \in Ids : i \notin dirs => Empty(i)
  /\ \A h \in Handlers : pc[h] \in RestorePcs => id[h] \in dirs \cup deleted
  /\ \A h \in Handlers : pc[h] = "delete" => id[h] \in deleted

(* The VMs of this life descend from its rootfs; the source of an undisturbed create
   does not run once the pause is confirmed. *)
VMInv ==
  /\ \A s \in sandboxes : vm[s] # "none" /\ base[s] = rootfs
  /\ \A h \in Handlers : pc[h] \in CreatePcs => vm[src[h]] # "none" /\ base[src[h]] = rootfs
  /\ \A h \in Handlers : pc[h] \in ArmedPcs /\ id[h] \notin disturbed => vm[src[h]] \in {"paused", "gone"}

(* x is in the files of snapshot i, or in the clone of a restore of i. *)
Holds(i, x) ==
  /\ x # None
  /\ \/ mem[i] = x \/ disk[i] = x
     \/ \E g \in Handlers : pc[g] = "load" /\ id[g] = i /\ copy[g] = x

(* What a create captures. *)
Capture(h) == <<src[h], version[src[h]]>>

(* Whatever is there of an undisturbed snapshot is one moment of one guest. *)
ContentInv ==
  \A i \in Ids \ disturbed : \A x, y \in Contents :
    Holds(i, x) => vm[x[1]] # "none" /\ (Holds(i, y) => x = y)

(* A create adds it. *)
Added(i, x) ==
  \E g \in Handlers : id[g] = i /\ x = Capture(g) /\ (CreateFull(g) \/ PersistDisk(g))

(* While the create is under way, it is the moment of the pause. *)
CaptureInv ==
  \A h \in Handlers : pc[h] \in CreatePcs /\ id[h] \notin disturbed =>
    \A x \in Contents : Holds(id[h], x) => x = Capture(h) /\ pc[h] \notin {"mkdir", "pause"}

(* The create of w goes on with what it has. *)
GoesOn(w) ==
  /\ pc[w] \in CreatePcs /\ id'[w] = id[w] /\ src'[w] = src[w] /\ id[w] \in Ids
  /\ pc'[w] \in {"mkdir", "pause"} => pc[w] \in {"mkdir", "pause"}
  /\ pc[w] \in ArmedPcs /\ id[w] \notin disturbed => Capture(w)' = Capture(w)

(* The metadata come last, and until somebody deletes the snapshot what was written
   before them stays. *)
BeforeMeta == {"mkdir", "pause", "remove", "full", "disk", "meta"}
WriterInv ==
  \A h \in Handlers : id[h] \notin disturbed =>
    /\ pc[h] \in BeforeMeta => meta[id[h]] = None
    /\ pc[h] \in {"disk", "meta"} /\ id[h] \notin deleted => mem[id[h]] # None
    /\ pc[h] = "meta" /\ id[h] \notin deleted => disk[id[h]] # None

(* The metadata name the rootfs of that guest, and a restore that is under way has
   compared it with the configured one. *)
LineageInv ==
  EnableSnapshots =>
    \A i \in Ids \ disturbed : \A x \in Contents : Holds(i, x) =>
      /\ meta[i] # None => base[x[1]] = meta[i]
      /\ \A g \in Handlers : pc[g] \in RestorePcs /\ id[g] = i => base[x[1]] = rootfs

(* What the last restore has made. *)
RestoredInv ==
  restored # None /\ restored.from \notin disturbed =>
    /\ restored.mem = restored.disk
    /\ vm[restored.mem[1]] # "none"
    /\ EnableSnapshots => base[restored.mem[1]] = restored.rootfs

IInv ==
  /\ TypeInv /\ IdInv /\ DirInv /\ VMInv
  /\ ContentInv /\ CaptureInv /\ WriterInv /\ LineageInv /\ RestoredInv
  /\ ListedIsWhole /\ PausedHasResumer

-----------------------------------------------------------------------------
(* Facts about the places and the contents.                                  *)

LEMMA PcFacts ==
  /\ CreatePcs = {"mkdir", "pause", "remove", "full", "disk", "meta", "resume", "undo"}
  /\ Pcs = {"idle", "delete", "mkdir", "pause", "remove", "full", "disk", "meta", "resume", "undo",
            "exists", "clone", "load"}
BY DEF CreatePcs, Pcs, ArmedPcs, RestorePcs

LEMMA ContentFacts ==
  /\ None \notin Contents /\ None \notin Results
  /\ NoId \notin Ids
  /\ \A s \in Sandboxes, v \in 0..MaxWrites : <<s, v>> \in Contents /\ <<s, v>>[1] = s
  /\ \A x \in Contents : x[1] \in Sandboxes
<1>1. None \notin Contents BY DEF None, Contents
<1>2. None \notin Results
  <2>1. \A r \in Results : DOMAIN r = {"from", "mem", "disk", "rootfs"} BY DEF Results
  <2>2. DOMAIN None = {} BY DEF None
  <2> QED BY <2>1, <2>2
<1> QED BY <1>1, <1>2, SnapshotAssumption DEF Contents, NoId, Ids

(* Types. *)
LEMMA NextTypes ==
  ASSUME TypeInv, [SnapNext]_snapVars
  PROVE  TypeInv'
<1> USE SnapshotAssumption, PcFacts, ContentFacts DEF reqVars, vmVars, fileVars, histVars, lifeVars,
    worldVars, Goto, Return, TypeInv, SnapTypeOK, RestorePcs, ArmedPcs
<1>1. ASSUME NEW h \in Handlers, NEW s \in Sandboxes, SnapshotStart(h, s) PROVE TypeInv'
  <2>1. nextSnapshotID + 1 \in Ids BY <1>1 DEF SnapshotStart, Accept, Ids
  <2>2. \A g \in Overlapping(s) : id[g] \in Ids BY DEF Overlapping
  <2>3. disturbed' \subseteq Ids BY <1>1, <2>1, <2>2 DEF SnapshotStart, Accept
  <2>4. \A g \in Handlers : IF pc'[g] = "idle" THEN id'[g] = NoId ELSE id'[g] \in Ids
    BY <1>1, <2>1 DEF SnapshotStart, Accept
  <2>5. id' \in [Handlers -> Ids \cup {NoId}] /\ nextSnapshotID' \in 0..MaxSnapshots
    BY <1>1, <2>1 DEF SnapshotStart, Accept
  <2> QED BY <1>1, <2>3, <2>4, <2>5 DEF SnapshotStart, Accept
<1>2. ASSUME NEW h \in Handlers, NEW i \in Ids, RestoreStart(h, i) PROVE TypeInv'
  BY <1>2 DEF RestoreStart, Accept
<1>3. ASSUME NEW h \in Handlers, NEW i \in Ids, DeleteStart(h, i) PROVE TypeInv'
  BY <1>3 DEF DeleteStart, Accept
<1>4. ASSUME NEW h \in Handlers, MakeDir(h) PROVE TypeInv'
  BY <1>4 DEF MakeDir
<1>5. ASSUME NEW h \in Handlers, Pause(h) PROVE TypeInv'
  BY <1>5, SMTT(30) DEF Pause
<1>6. ASSUME NEW h \in Handlers, RemoveOld(h) PROVE TypeInv'
  BY <1>6 DEF RemoveOld
<1>7. ASSUME NEW h \in Handlers, CreateFull(h) PROVE TypeInv'
  BY <1>7 DEF CreateFull
<1>8. ASSUME NEW h \in Handlers, PersistDisk(h) PROVE TypeInv'
  BY <1>8 DEF PersistDisk
<1>9. ASSUME NEW h \in Handlers, writeUserSnapshotMeta(h) PROVE TypeInv'
  BY <1>9 DEF writeUserSnapshotMeta, BaseRootfsLineageID
<1>10. ASSUME NEW h \in Handlers, SnapshotFails(h) PROVE TypeInv'
  BY <1>10 DEF SnapshotFails
<1>11. ASSUME NEW h \in Handlers, Resume(h) PROVE TypeInv'
  BY <1>11 DEF Resume, Resumed
<1>12. ASSUME NEW h \in Handlers, ResumeFails(h) PROVE TypeInv'
  BY <1>12 DEF ResumeFails
<1>13. ASSUME NEW h \in Handlers, DeferredResume(h) PROVE TypeInv'
  BY <1>13 DEF DeferredResume, Resumed
<1>14. ASSUME NEW h \in Handlers, ArtifactsExist(h) PROVE TypeInv'
  BY <1>14 DEF ArtifactsExist
<1>15. ASSUME NEW h \in Handlers, CloneDisk(h) PROVE TypeInv'
  BY <1>15 DEF CloneDisk
<1>16. ASSUME NEW h \in Handlers, LoadSnapshot(h) PROVE TypeInv'
  <2>1. mem[id[h]] \in Contents /\ copy[h] \in Contents /\ id[h] \in Ids /\ rootfs \in Lineages
    BY <1>16 DEF LoadSnapshot
  <2>2. restored' \in Results BY <1>16, <2>1 DEF LoadSnapshot, Results
  <2> QED BY <1>16, <2>2 DEF LoadSnapshot
<1>17. ASSUME NEW h \in Handlers, RestoreFails(h) PROVE TypeInv'
  BY <1>17 DEF RestoreFails
<1>18. ASSUME NEW h \in Handlers, DeleteEntry(h) PROVE TypeInv'
  BY <1>18 DEF DeleteEntry
<1>19. ASSUME NEW h \in Handlers, DeleteEnds(h) PROVE TypeInv'
  BY <1>19 DEF DeleteEnds
<1>20. ASSUME NEW s \in Sandboxes, SandboxCreated(s) PROVE TypeInv'
  BY <1>20 DEF SandboxCreated
<1>21. ASSUME NEW s \in Sandboxes, SandboxDestroyed(s) PROVE TypeInv'
  BY <1>21 DEF SandboxDestroyed
<1>22. ASSUME NEW s \in Sandboxes, GuestWrites(s) PROVE TypeInv'
  BY <1>22 DEF GuestWrites
<1>23. ASSUME NEW l \in Lineages, ServerRestarts(l) PROVE TypeInv'
  BY <1>23 DEF ServerRestarts
<1>24. CASE UNCHANGED snapVars
  BY <1>24 DEF snapVars
<1> QED BY <1>1, <1>2, <1>3, <1>4, <1>5, <1>6, <1>7, <1>8, <1>9, <1>10, <1>11, <1>12, <1>13, <1>14,
    <1>15, <1>16, <1>17, <1>18, <1>19, <1>20, <1>21, <1>22, <1>23, <1>24 DEF SnapNext, Request,
    HandlerStep, Quiet

-----------------------------------------------------------------------------
(* Which create works on what.                                               *)

(* The counter hands out each id once in a life of the server. *)
LEMMA NextIds ==
  ASSUME TypeInv, IdInv, [SnapNext]_snapVars
  PROVE  IdInv'
<1> USE SnapshotAssumption, PcFacts, ContentFacts DEF reqVars, vmVars, fileVars, histVars, lifeVars,
    worldVars, Goto, Return, TypeInv, SnapTypeOK, RestorePcs, ArmedPcs, IdInv
<1>1. ASSUME NEW h \in Handlers, NEW s \in Sandboxes, SnapshotStart(h, s) PROVE IdInv'
  <2>1. \A g \in Handlers : pc'[g] = (IF g = h THEN "mkdir" ELSE pc[g]) /\ src'[g] = (IF g = h THEN s ELSE src[g])
                            /\ id'[g] = (IF g = h THEN nextSnapshotID + 1 ELSE id[g])
    BY <1>1 DEF SnapshotStart, Accept
  <2>2. \A g \in Handlers : pc[g] \in CreatePcs => id[g] <= nextSnapshotID /\ id[g] \in Nat BY DEF Ids
  <2>3. \A g \in Handlers : pc[g] \in CreatePcs /\ src[g] = s =>
          id[g] \in disturbed' /\ nextSnapshotID + 1 \in disturbed'
    BY <1>1 DEF SnapshotStart, Accept, Overlapping
  <2>4. disturbed \subseteq disturbed' /\ nextSnapshotID' = nextSnapshotID + 1 /\ nextSnapshotID \in Nat
    BY <1>1 DEF SnapshotStart, Accept
  <2>5. ~ pc[h] \in CreatePcs BY <1>1 DEF SnapshotStart, Accept
  <2> QED BY <2>1, <2>2, <2>3, <2>4, <2>5
<1>2. ASSUME NEW h \in Handlers, NEW i \in Ids, RestoreStart(h, i) PROVE IdInv'
  BY <1>2 DEF RestoreStart, Accept
<1>3. ASSUME NEW h \in Handlers, NEW i \in Ids, DeleteStart(h, i) PROVE IdInv'
  BY <1>3 DEF DeleteStart, Accept
<1>4. ASSUME NEW h \in Handlers, MakeDir(h) PROVE IdInv'
  BY <1>4 DEF MakeDir
<1>5. ASSUME NEW h \in Handlers, Pause(h) PROVE IdInv'
  BY <1>5, SMTT(30) DEF Pause
<1>6. ASSUME NEW h \in Handlers, RemoveOld(h) PROVE IdInv'
  BY <1>6 DEF RemoveOld
<1>7. ASSUME NEW h \in Handlers, CreateFull(h) PROVE IdInv'
  BY <1>7 DEF CreateFull
<1>8. ASSUME NEW h \in Handlers, PersistDisk(h) PROVE IdInv'
  BY <1>8 DEF PersistDisk
<1>9. ASSUME NEW h \in Handlers, writeUserSnapshotMeta(h) PROVE IdInv'
  BY <1>9 DEF writeUserSnapshotMeta
<1>10. ASSUME NEW h \in Handlers, SnapshotFails(h) PROVE IdInv'
  BY <1>10 DEF SnapshotFails
<1>11. ASSUME NEW h \in Handlers, Resume(h) PROVE IdInv'
  BY <1>11 DEF Resume, Resumed
<1>12. ASSUME NEW h \in Handlers, ResumeFails(h) PROVE IdInv'
  BY <1>12 DEF ResumeFails
<1>13. ASSUME NEW h \in Handlers, DeferredResume(h) PROVE IdInv'
  BY <1>13 DEF DeferredResume, Resumed
<1>14. ASSUME NEW h \in Handlers, ArtifactsExist(h) PROVE IdInv'
  BY <1>14 DEF ArtifactsExist
<1>15. ASSUME NEW h \in Handlers, CloneDisk(h) PROVE IdInv'
  BY <1>15 DEF CloneDisk
<1>16. ASSUME NEW h \in Handlers, LoadSnapshot(h) PROVE IdInv'
  BY <1>16 DEF LoadSnapshot
<1>17. ASSUME NEW h \in Handlers, RestoreFails(h) PROVE IdInv'
  BY <1>17 DEF RestoreFails
<1>18. ASSUME NEW h \in Handlers, DeleteEntry(h) PROVE IdInv'
  BY <1>18 DEF DeleteEntry
<1>19. ASSUME NEW h \in Handlers, DeleteEnds(h) PROVE IdInv'
  BY <1>19 DEF DeleteEnds
<1>20. ASSUME NEW s \in Sandboxes, SandboxCreated(s) PROVE IdInv'
  BY <1>20 DEF SandboxCreated
<1>21. ASSUME NEW s \in Sandboxes, SandboxDestroyed(s) PROVE IdInv'
  BY <1>21 DEF SandboxDestroyed
<1>22. ASSUME NEW s \in Sandboxes, GuestWrites(s) PROVE IdInv'
  BY <1>22 DEF GuestWrites
<1>23. ASSUME NEW l \in Lineages, ServerRestarts(l) PROVE IdInv'
  BY <1>23 DEF ServerRestarts
<1>24. CASE UNCHANGED snapVars
  BY <1>24 DEF snapVars
<1> QED BY <1>1, <1>2, <1>3, <1>4, <1>5, <1>6, <1>7, <1>8, <1>9, <1>10, <1>11, <1>12, <1>13, <1>14,
    <1>15, <1>16, <1>17, <1>18, <1>19, <1>20, <1>21, <1>22, <1>23, <1>24 DEF SnapNext, Request,
    HandlerStep, Quiet

(* Files are in directories. *)
LEMMA NextDirs ==
  ASSUME TypeInv, DirInv, [SnapNext]_snapVars
  PROVE  DirInv'
<1> USE SnapshotAssumption, PcFacts, ContentFacts DEF reqVars, vmVars, fileVars, histVars, lifeVars,
    worldVars, Goto, Return, TypeInv, SnapTypeOK, RestorePcs, ArmedPcs, DirInv, Empty
<1>1. ASSUME NEW h \in Handlers, NEW s \in Sandboxes, SnapshotStart(h, s) PROVE DirInv'
  BY <1>1 DEF SnapshotStart, Accept
<1>2. ASSUME NEW h \in Handlers, NEW i \in Ids, RestoreStart(h, i) PROVE DirInv'
  BY <1>2 DEF RestoreStart, Accept
<1>3. ASSUME NEW h \in Handlers, NEW i \in Ids, DeleteStart(h, i) PROVE DirInv'
  BY <1>3 DEF DeleteStart, Accept
<1>4. ASSUME NEW h \in Handlers, MakeDir(h) PROVE DirInv'
  BY <1>4 DEF MakeDir
<1>5. ASSUME NEW h \in Handlers, Pause(h) PROVE DirInv'
  BY <1>5 DEF Pause
<1>6. ASSUME NEW h \in Handlers, RemoveOld(h) PROVE DirInv'
  BY <1>6 DEF RemoveOld
<1>7. ASSUME NEW h \in Handlers, CreateFull(h) PROVE DirInv'
  BY <1>7 DEF CreateFull
<1>8. ASSUME NEW h \in Handlers, PersistDisk(h) PROVE DirInv'
  BY <1>8 DEF PersistDisk
<1>9. ASSUME NEW h \in Handlers, writeUserSnapshotMeta(h) PROVE DirInv'
  BY <1>9 DEF writeUserSnapshotMeta
<1>10. ASSUME NEW h \in Handlers, SnapshotFails(h) PROVE DirInv'
  BY <1>10 DEF SnapshotFails
<1>11. ASSUME NEW h \in Handlers, Resume(h) PROVE DirInv'
  BY <1>11 DEF Resume, Resumed
<1>12. ASSUME NEW h \in Handlers, ResumeFails(h) PROVE DirInv'
  BY <1>12 DEF ResumeFails
<1>13. ASSUME NEW h \in Handlers, DeferredResume(h) PROVE DirInv'
  BY <1>13 DEF DeferredResume, Resumed
<1>14. ASSUME NEW h \in Handlers, ArtifactsExist(h) PROVE DirInv'
  BY <1>14 DEF ArtifactsExist
<1>15. ASSUME NEW h \in Handlers, CloneDisk(h) PROVE DirInv'
  BY <1>15 DEF CloneDisk
<1>16. ASSUME NEW h \in Handlers, LoadSnapshot(h) PROVE DirInv'
  BY <1>16 DEF LoadSnapshot
<1>17. ASSUME NEW h \in Handlers, RestoreFails(h) PROVE DirInv'
  BY <1>17 DEF RestoreFails
<1>18. ASSUME NEW h \in Handlers, DeleteEntry(h) PROVE DirInv'
  BY <1>18 DEF DeleteEntry
<1>19. ASSUME NEW h \in Handlers, DeleteEnds(h) PROVE DirInv'
  BY <1>19 DEF DeleteEnds
<1>20. ASSUME NEW s \in Sandboxes, SandboxCreated(s) PROVE DirInv'
  BY <1>20 DEF SandboxCreated
<1>21. ASSUME NEW s \in Sandboxes, SandboxDestroyed(s) PROVE DirInv'
  BY <1>21 DEF SandboxDestroyed
<1>22. ASSUME NEW s \in Sandboxes, GuestWrites(s) PROVE DirInv'
  BY <1>22 DEF GuestWrites
<1>23. ASSUME NEW l \in Lineages, ServerRestarts(l) PROVE DirInv'
  BY <1>23 DEF ServerRestarts
<1>24. CASE UNCHANGED snapVars
  BY <1>24 DEF snapVars
<1> QED BY <1>1, <1>2, <1>3, <1>4, <1>5, <1>6, <1>7, <1>8, <1>9, <1>10, <1>11, <1>12, <1>13, <1>14,
    <1>15, <1>16, <1>17, <1>18, <1>19, <1>20, <1>21, <1>22, <1>23, <1>24 DEF SnapNext, Request,
    HandlerStep, Quiet

(* The source of an undisturbed create stays as the pause left it. *)
LEMMA NextVMs ==
  ASSUME TypeInv, IdInv, VMInv, [SnapNext]_snapVars
  PROVE  VMInv'
<1> USE SnapshotAssumption, PcFacts, ContentFacts DEF reqVars, vmVars, fileVars, histVars, lifeVars,
    worldVars, Goto, Return, TypeInv, SnapTypeOK, RestorePcs, ArmedPcs, IdInv, VMInv
<1>1. ASSUME NEW h \in Handlers, NEW s \in Sandboxes, SnapshotStart(h, s) PROVE VMInv'
  BY <1>1 DEF SnapshotStart, Accept
<1>2. ASSUME NEW h \in Handlers, NEW i \in Ids, RestoreStart(h, i) PROVE VMInv'
  BY <1>2 DEF RestoreStart, Accept
<1>3. ASSUME NEW h \in Handlers, NEW i \in Ids, DeleteStart(h, i) PROVE VMInv'
  BY <1>3 DEF DeleteStart, Accept
<1>4. ASSUME NEW h \in Handlers, MakeDir(h) PROVE VMInv'
  BY <1>4 DEF MakeDir
<1>5. ASSUME NEW h \in Handlers, Pause(h) PROVE VMInv'
  BY <1>5 DEF Pause
<1>6. ASSUME NEW h \in Handlers, RemoveOld(h) PROVE VMInv'
  BY <1>6 DEF RemoveOld
<1>7. ASSUME NEW h \in Handlers, CreateFull(h) PROVE VMInv'
  BY <1>7 DEF CreateFull
<1>8. ASSUME NEW h \in Handlers, PersistDisk(h) PROVE VMInv'
  BY <1>8 DEF PersistDisk
<1>9. ASSUME NEW h \in Handlers, writeUserSnapshotMeta(h) PROVE VMInv'
  BY <1>9 DEF writeUserSnapshotMeta
<1>10. ASSUME NEW h \in Handlers, SnapshotFails(h) PROVE VMInv'
  BY <1>10 DEF SnapshotFails
<1>11. ASSUME NEW h \in Handlers, Resume(h) PROVE VMInv'
  BY <1>11 DEF Resume, Resumed
<1>12. ASSUME NEW h \in Handlers, ResumeFails(h) PROVE VMInv'
  BY <1>12 DEF ResumeFails
<1>13. ASSUME NEW h \in Handlers, DeferredResume(h) PROVE VMInv'
  BY <1>13 DEF DeferredResume, Resumed
<1>14. ASSUME NEW h \in Handlers, ArtifactsExist(h) PROVE VMInv'
  BY <1>14 DEF ArtifactsExist
<1>15. ASSUME NEW h \in Handlers, CloneDisk(h) PROVE VMInv'
  BY <1>15 DEF CloneDisk
<1>16. ASSUME NEW h \in Handlers, LoadSnapshot(h) PROVE VMInv'
  BY <1>16 DEF LoadSnapshot
<1>17. ASSUME NEW h \in Handlers, RestoreFails(h) PROVE VMInv'
  BY <1>17 DEF RestoreFails
<1>18. ASSUME NEW h \in Handlers, DeleteEntry(h) PROVE VMInv'
  BY <1>18 DEF DeleteEntry
<1>19. ASSUME NEW h \in Handlers, DeleteEnds(h) PROVE VMInv'
  BY <1>19 DEF DeleteEnds
<1>20. ASSUME NEW s \in Sandboxes, SandboxCreated(s) PROVE VMInv'
  BY <1>20 DEF SandboxCreated
<1>21. ASSUME NEW s \in Sandboxes, SandboxDestroyed(s) PROVE VMInv'
  BY <1>21 DEF SandboxDestroyed
<1>22. ASSUME NEW s \in Sandboxes, GuestWrites(s) PROVE VMInv'
  BY <1>22 DEF GuestWrites
<1>23. ASSUME NEW l \in Lineages, ServerRestarts(l) PROVE VMInv'
  BY <1>23 DEF ServerRestarts
<1>24. CASE UNCHANGED snapVars
  BY <1>24 DEF snapVars
<1> QED BY <1>1, <1>2, <1>3, <1>4, <1>5, <1>6, <1>7, <1>8, <1>9, <1>10, <1>11, <1>12, <1>13, <1>14,
    <1>15, <1>16, <1>17, <1>18, <1>19, <1>20, <1>21, <1>22, <1>23, <1>24 DEF SnapNext, Request,
    HandlerStep, Quiet

(* A paused VM has a request that resumes it. *)
LEMMA NextPaused ==
  ASSUME TypeInv, PausedHasResumer, [SnapNext]_snapVars
  PROVE  PausedHasResumer'
<1> USE SnapshotAssumption, PcFacts, ContentFacts DEF reqVars, vmVars, fileVars, histVars, lifeVars,
    worldVars, Goto, Return, TypeInv, SnapTypeOK, RestorePcs, ArmedPcs, PausedHasResumer
<1>1. ASSUME NEW h \in Handlers, NEW s \in Sandboxes, SnapshotStart(h, s) PROVE PausedHasResumer'
  BY <1>1 DEF SnapshotStart, Accept
<1>2. ASSUME NEW h \in Handlers, NEW i \in Ids, RestoreStart(h, i) PROVE PausedHasResumer'
  BY <1>2 DEF RestoreStart, Accept
<1>3. ASSUME NEW h \in Handlers, NEW i \in Ids, DeleteStart(h, i) PROVE PausedHasResumer'
  BY <1>3 DEF DeleteStart, Accept
<1>4. ASSUME NEW h \in Handlers, MakeDir(h) PROVE PausedHasResumer'
  BY <1>4 DEF MakeDir
<1>5. ASSUME NEW h \in Handlers, Pause(h) PROVE PausedHasResumer'
  BY <1>5 DEF Pause
<1>6. ASSUME NEW h \in Handlers, RemoveOld(h) PROVE PausedHasResumer'
  BY <1>6 DEF RemoveOld
<1>7. ASSUME NEW h \in Handlers, CreateFull(h) PROVE PausedHasResumer'
  BY <1>7 DEF CreateFull
<1>8. ASSUME NEW h \in Handlers, PersistDisk(h) PROVE PausedHasResumer'
  BY <1>8 DEF PersistDisk
<1>9. ASSUME NEW h \in Handlers, writeUserSnapshotMeta(h) PROVE PausedHasResumer'
  BY <1>9 DEF writeUserSnapshotMeta
<1>10. ASSUME NEW h \in Handlers, SnapshotFails(h) PROVE PausedHasResumer'
  BY <1>10 DEF SnapshotFails
<1>11. ASSUME NEW h \in Handlers, Resume(h) PROVE PausedHasResumer'
  BY <1>11 DEF Resume, Resumed
<1>12. ASSUME NEW h \in Handlers, ResumeFails(h) PROVE PausedHasResumer'
  BY <1>12 DEF ResumeFails
<1>13. ASSUME NEW h \in Handlers, DeferredResume(h) PROVE PausedHasResumer'
  BY <1>13 DEF DeferredResume, Resumed
<1>14. ASSUME NEW h \in Handlers, ArtifactsExist(h) PROVE PausedHasResumer'
  BY <1>14 DEF ArtifactsExist
<1>15. ASSUME NEW h \in Handlers, CloneDisk(h) PROVE PausedHasResumer'
  BY <1>15 DEF CloneDisk
<1>16. ASSUME NEW h \in Handlers, LoadSnapshot(h) PROVE PausedHasResumer'
  BY <1>16 DEF LoadSnapshot
<1>17. ASSUME NEW h \in Handlers, RestoreFails(h) PROVE PausedHasResumer'
  BY <1>17 DEF RestoreFails
<1>18. ASSUME NEW h \in Handlers, DeleteEntry(h) PROVE PausedHasResumer'
  BY <1>18 DEF DeleteEntry
<1>19. ASSUME NEW h \in Handlers, DeleteEnds(h) PROVE PausedHasResumer'
  BY <1>19 DEF DeleteEnds
<1>20. ASSUME NEW s \in Sandboxes, SandboxCreated(s) PROVE PausedHasResumer'
  BY <1>20 DEF SandboxCreated
<1>21. ASSUME NEW s \in Sandboxes, SandboxDestroyed(s) PROVE PausedHasResumer'
  BY <1>21 DEF SandboxDestroyed
<1>22. ASSUME NEW s \in Sandboxes, GuestWrites(s) PROVE PausedHasResumer'
  BY <1>22 DEF GuestWrites
<1>23. ASSUME NEW l \in Lineages, ServerRestarts(l) PROVE PausedHasResumer'
  BY <1>23 DEF ServerRestarts
<1>24. CASE UNCHANGED snapVars
  BY <1>24 DEF snapVars
<1> QED BY <1>1, <1>2, <1>3, <1>4, <1>5, <1>6, <1>7, <1>8, <1>9, <1>10, <1>11, <1>12, <1>13, <1>14,
    <1>15, <1>16, <1>17, <1>18, <1>19, <1>20, <1>21, <1>22, <1>23, <1>24 DEF SnapNext, Request,
    HandlerStep, Quiet

-----------------------------------------------------------------------------
(* What is in the files.                                                     *)

(* Only a create that captures its VM adds something new. *)
LEMMA HoldsGrows ==
  ASSUME TypeInv, NEW j \in Ids, NEW x \in Contents, Holds(j, x)', [SnapNext]_snapVars
  PROVE  Holds(j, x) \/ Added(j, x)
<1> USE SnapshotAssumption, PcFacts, ContentFacts DEF reqVars, vmVars, fileVars, histVars, lifeVars,
    worldVars, Goto, Return, TypeInv, SnapTypeOK, RestorePcs, ArmedPcs, Holds
<1>1. ASSUME NEW h \in Handlers, NEW s \in Sandboxes, SnapshotStart(h, s) PROVE Holds(j, x) \/ Added(j, x)
  BY <1>1 DEF SnapshotStart, Accept
<1>2. ASSUME NEW h \in Handlers, NEW i \in Ids, RestoreStart(h, i) PROVE Holds(j, x) \/ Added(j, x)
  BY <1>2 DEF RestoreStart, Accept
<1>3. ASSUME NEW h \in Handlers, NEW i \in Ids, DeleteStart(h, i) PROVE Holds(j, x) \/ Added(j, x)
  BY <1>3 DEF DeleteStart, Accept
<1>4. ASSUME NEW h \in Handlers, MakeDir(h) PROVE Holds(j, x) \/ Added(j, x)
  BY <1>4 DEF MakeDir
<1>5. ASSUME NEW h \in Handlers, Pause(h) PROVE Holds(j, x) \/ Added(j, x)
  BY <1>5 DEF Pause
<1>6. ASSUME NEW h \in Handlers, RemoveOld(h) PROVE Holds(j, x) \/ Added(j, x)
  BY <1>6 DEF RemoveOld
<1>7. ASSUME NEW h \in Handlers, CreateFull(h) PROVE Holds(j, x) \/ Added(j, x)
  BY <1>7 DEF CreateFull, Added, Capture
<1>8. ASSUME NEW h \in Handlers, PersistDisk(h) PROVE Holds(j, x) \/ Added(j, x)
  BY <1>8 DEF PersistDisk, Added, Capture
<1>9. ASSUME NEW h \in Handlers, writeUserSnapshotMeta(h) PROVE Holds(j, x) \/ Added(j, x)
  BY <1>9 DEF writeUserSnapshotMeta
<1>10. ASSUME NEW h \in Handlers, SnapshotFails(h) PROVE Holds(j, x) \/ Added(j, x)
  BY <1>10 DEF SnapshotFails
<1>11. ASSUME NEW h \in Handlers, Resume(h) PROVE Holds(j, x) \/ Added(j, x)
  BY <1>11 DEF Resume, Resumed
<1>12. ASSUME NEW h \in Handlers, ResumeFails(h) PROVE Holds(j, x) \/ Added(j, x)
  BY <1>12 DEF ResumeFails
<1>13. ASSUME NEW h \in Handlers, DeferredResume(h) PROVE Holds(j, x) \/ Added(j, x)
  BY <1>13 DEF DeferredResume, Resumed
<1>14. ASSUME NEW h \in Handlers, ArtifactsExist(h) PROVE Holds(j, x) \/ Added(j, x)
  BY <1>14 DEF ArtifactsExist
<1>15. ASSUME NEW h \in Handlers, CloneDisk(h) PROVE Holds(j, x) \/ Added(j, x)
  BY <1>15 DEF CloneDisk
<1>16. ASSUME NEW h \in Handlers, LoadSnapshot(h) PROVE Holds(j, x) \/ Added(j, x)
  BY <1>16 DEF LoadSnapshot
<1>17. ASSUME NEW h \in Handlers, RestoreFails(h) PROVE Holds(j, x) \/ Added(j, x)
  BY <1>17 DEF RestoreFails
<1>18. ASSUME NEW h \in Handlers, DeleteEntry(h) PROVE Holds(j, x) \/ Added(j, x)
  BY <1>18 DEF DeleteEntry
<1>19. ASSUME NEW h \in Handlers, DeleteEnds(h) PROVE Holds(j, x) \/ Added(j, x)
  BY <1>19 DEF DeleteEnds
<1>20. ASSUME NEW s \in Sandboxes, SandboxCreated(s) PROVE Holds(j, x) \/ Added(j, x)
  BY <1>20 DEF SandboxCreated
<1>21. ASSUME NEW s \in Sandboxes, SandboxDestroyed(s) PROVE Holds(j, x) \/ Added(j, x)
  BY <1>21 DEF SandboxDestroyed
<1>22. ASSUME NEW s \in Sandboxes, GuestWrites(s) PROVE Holds(j, x) \/ Added(j, x)
  BY <1>22 DEF GuestWrites
<1>23. ASSUME NEW l \in Lineages, ServerRestarts(l) PROVE Holds(j, x) \/ Added(j, x)
  BY <1>23 DEF ServerRestarts
<1>24. CASE UNCHANGED snapVars
  BY <1>24 DEF snapVars
<1> QED BY <1>1, <1>2, <1>3, <1>4, <1>5, <1>6, <1>7, <1>8, <1>9, <1>10, <1>11, <1>12, <1>13, <1>14,
    <1>15, <1>16, <1>17, <1>18, <1>19, <1>20, <1>21, <1>22, <1>23, <1>24 DEF SnapNext, Request,
    HandlerStep, Quiet

(* What is known of guests and snapshots stays known. *)
LEMMA Monotone ==
  ASSUME TypeInv, [SnapNext]_snapVars
  PROVE  /\ disturbed \subseteq disturbed' /\ deleted \subseteq deleted'
         /\ \A v \in Sandboxes : vm[v] # "none" => vm'[v] # "none" /\ base'[v] = base[v]
<1> DEFINE Goal ==
      /\ disturbed \subseteq disturbed' /\ deleted \subseteq deleted'
      /\ \A v \in Sandboxes : vm[v] # "none" => vm'[v] # "none" /\ base'[v] = base[v]
<1> USE SnapshotAssumption, PcFacts, ContentFacts DEF reqVars, vmVars, fileVars, histVars, lifeVars,
    worldVars, Goto, Return, TypeInv, SnapTypeOK, RestorePcs, ArmedPcs
<1>1. ASSUME NEW h \in Handlers, NEW s \in Sandboxes, SnapshotStart(h, s) PROVE Goal
  BY <1>1 DEF SnapshotStart, Accept
<1>2. ASSUME NEW h \in Handlers, NEW i \in Ids, RestoreStart(h, i) PROVE Goal
  BY <1>2 DEF RestoreStart, Accept
<1>3. ASSUME NEW h \in Handlers, NEW i \in Ids, DeleteStart(h, i) PROVE Goal
  BY <1>3 DEF DeleteStart, Accept
<1>4. ASSUME NEW h \in Handlers, MakeDir(h) PROVE Goal
  BY <1>4 DEF MakeDir
<1>5. ASSUME NEW h \in Handlers, Pause(h) PROVE Goal
  BY <1>5 DEF Pause
<1>6. ASSUME NEW h \in Handlers, RemoveOld(h) PROVE Goal
  BY <1>6 DEF RemoveOld
<1>7. ASSUME NEW h \in Handlers, CreateFull(h) PROVE Goal
  BY <1>7 DEF CreateFull
<1>8. ASSUME NEW h \in Handlers, PersistDisk(h) PROVE Goal
  BY <1>8 DEF PersistDisk
<1>9. ASSUME NEW h \in Handlers, writeUserSnapshotMeta(h) PROVE Goal
  BY <1>9 DEF writeUserSnapshotMeta
<1>10. ASSUME NEW h \in Handlers, SnapshotFails(h) PROVE Goal
  BY <1>10 DEF SnapshotFails
<1>11. ASSUME NEW h \in Handlers, Resume(h) PROVE Goal
  BY <1>11 DEF Resume, Resumed
<1>12. ASSUME NEW h \in Handlers, ResumeFails(h) PROVE Goal
  BY <1>12 DEF ResumeFails
<1>13. ASSUME NEW h \in Handlers, DeferredResume(h) PROVE Goal
  BY <1>13 DEF DeferredResume, Resumed
<1>14. ASSUME NEW h \in Handlers, ArtifactsExist(h) PROVE Goal
  BY <1>14 DEF ArtifactsExist
<1>15. ASSUME NEW h \in Handlers, CloneDisk(h) PROVE Goal
  BY <1>15 DEF CloneDisk
<1>16. ASSUME NEW h \in Handlers, LoadSnapshot(h) PROVE Goal
  BY <1>16 DEF LoadSnapshot
<1>17. ASSUME NEW h \in Handlers, RestoreFails(h) PROVE Goal
  BY <1>17 DEF RestoreFails
<1>18. ASSUME NEW h \in Handlers, DeleteEntry(h) PROVE Goal
  BY <1>18 DEF DeleteEntry
<1>19. ASSUME NEW h \in Handlers, DeleteEnds(h) PROVE Goal
  BY <1>19 DEF DeleteEnds
<1>20. ASSUME NEW s \in Sandboxes, SandboxCreated(s) PROVE Goal
  BY <1>20 DEF SandboxCreated
<1>21. ASSUME NEW s \in Sandboxes, SandboxDestroyed(s) PROVE Goal
  BY <1>21 DEF SandboxDestroyed
<1>22. ASSUME NEW s \in Sandboxes, GuestWrites(s) PROVE Goal
  BY <1>22 DEF GuestWrites
<1>23. ASSUME NEW l \in Lineages, ServerRestarts(l) PROVE Goal
  BY <1>23 DEF ServerRestarts
<1>24. CASE UNCHANGED snapVars
  BY <1>24 DEF snapVars
<1> QED BY <1>1, <1>2, <1>3, <1>4, <1>5, <1>6, <1>7, <1>8, <1>9, <1>10, <1>11, <1>12, <1>13, <1>14,
    <1>15, <1>16, <1>17, <1>18, <1>19, <1>20, <1>21, <1>22, <1>23, <1>24 DEF SnapNext, Request,
    HandlerStep, Quiet

(* Metadata are only written by a create. *)
LEMMA MetaGrows ==
  ASSUME TypeInv, NEW j \in Ids, meta'[j] # None, [SnapNext]_snapVars
  PROVE  meta'[j] = meta[j] \/ \E g \in Handlers : id[g] = j /\ writeUserSnapshotMeta(g)
<1> DEFINE Goal == meta'[j] = meta[j] \/ \E g \in Handlers : id[g] = j /\ writeUserSnapshotMeta(g)
<1> USE SnapshotAssumption, PcFacts, ContentFacts DEF reqVars, vmVars, fileVars, histVars, lifeVars,
    worldVars, Goto, Return, TypeInv, SnapTypeOK, RestorePcs, ArmedPcs
<1>1. ASSUME NEW h \in Handlers, NEW s \in Sandboxes, SnapshotStart(h, s) PROVE Goal
  BY <1>1 DEF SnapshotStart, Accept
<1>2. ASSUME NEW h \in Handlers, NEW i \in Ids, RestoreStart(h, i) PROVE Goal
  BY <1>2 DEF RestoreStart, Accept
<1>3. ASSUME NEW h \in Handlers, NEW i \in Ids, DeleteStart(h, i) PROVE Goal
  BY <1>3 DEF DeleteStart, Accept
<1>4. ASSUME NEW h \in Handlers, MakeDir(h) PROVE Goal
  BY <1>4 DEF MakeDir
<1>5. ASSUME NEW h \in Handlers, Pause(h) PROVE Goal
  BY <1>5 DEF Pause
<1>6. ASSUME NEW h \in Handlers, RemoveOld(h) PROVE Goal
  BY <1>6 DEF RemoveOld
<1>7. ASSUME NEW h \in Handlers, CreateFull(h) PROVE Goal
  BY <1>7 DEF CreateFull
<1>8. ASSUME NEW h \in Handlers, PersistDisk(h) PROVE Goal
  BY <1>8 DEF PersistDisk
<1>9. ASSUME NEW h \in Handlers, writeUserSnapshotMeta(h) PROVE Goal
  BY <1>9 DEF writeUserSnapshotMeta
<1>10. ASSUME NEW h \in Handlers, SnapshotFails(h) PROVE Goal
  BY <1>10 DEF SnapshotFails
<1>11. ASSUME NEW h \in Handlers, Resume(h) PROVE Goal
  BY <1>11 DEF Resume, Resumed
<1>12. ASSUME NEW h \in Handlers, ResumeFails(h) PROVE Goal
  BY <1>12 DEF ResumeFails
<1>13. ASSUME NEW h \in Handlers, DeferredResume(h) PROVE Goal
  BY <1>13 DEF DeferredResume, Resumed
<1>14. ASSUME NEW h \in Handlers, ArtifactsExist(h) PROVE Goal
  BY <1>14 DEF ArtifactsExist
<1>15. ASSUME NEW h \in Handlers, CloneDisk(h) PROVE Goal
  BY <1>15 DEF CloneDisk
<1>16. ASSUME NEW h \in Handlers, LoadSnapshot(h) PROVE Goal
  BY <1>16 DEF LoadSnapshot
<1>17. ASSUME NEW h \in Handlers, RestoreFails(h) PROVE Goal
  BY <1>17 DEF RestoreFails
<1>18. ASSUME NEW h \in Handlers, DeleteEntry(h) PROVE Goal
  BY <1>18 DEF DeleteEntry
<1>19. ASSUME NEW h \in Handlers, DeleteEnds(h) PROVE Goal
  BY <1>19 DEF DeleteEnds
<1>20. ASSUME NEW s \in Sandboxes, SandboxCreated(s) PROVE Goal
  BY <1>20 DEF SandboxCreated
<1>21. ASSUME NEW s \in Sandboxes, SandboxDestroyed(s) PROVE Goal
  BY <1>21 DEF SandboxDestroyed
<1>22. ASSUME NEW s \in Sandboxes, GuestWrites(s) PROVE Goal
  BY <1>22 DEF GuestWrites
<1>23. ASSUME NEW l \in Lineages, ServerRestarts(l) PROVE Goal
  BY <1>23 DEF ServerRestarts
<1>24. CASE UNCHANGED snapVars
  BY <1>24 DEF snapVars
<1> QED BY <1>1, <1>2, <1>3, <1>4, <1>5, <1>6, <1>7, <1>8, <1>9, <1>10, <1>11, <1>12, <1>13, <1>14,
    <1>15, <1>16, <1>17, <1>18, <1>19, <1>20, <1>21, <1>22, <1>23, <1>24 DEF SnapNext, Request,
    HandlerStep, Quiet

(* Files go when they are deleted or a create begins to write. *)
LEMMA FilesStay ==
  ASSUME TypeInv, DirInv, NEW j \in Ids, j \notin deleted, [SnapNext]_snapVars
  PROVE  \/ (mem[j] # None => mem'[j] # None) /\ (disk[j] # None => disk'[j] # None)
         \/ \E g \in Handlers : id[g] = j /\ RemoveOld(g)
<1> DEFINE Goal ==
      \/ (mem[j] # None => mem'[j] # None) /\ (disk[j] # None => disk'[j] # None)
      \/ \E g \in Handlers : id[g] = j /\ RemoveOld(g)
<1> USE SnapshotAssumption, PcFacts, ContentFacts DEF reqVars, vmVars, fileVars, histVars, lifeVars,
    worldVars, Goto, Return, TypeInv, SnapTypeOK, RestorePcs, ArmedPcs, DirInv
<1>1. ASSUME NEW h \in Handlers, NEW s \in Sandboxes, SnapshotStart(h, s) PROVE Goal
  BY <1>1 DEF SnapshotStart, Accept
<1>2. ASSUME NEW h \in Handlers, NEW i \in Ids, RestoreStart(h, i) PROVE Goal
  BY <1>2 DEF RestoreStart, Accept
<1>3. ASSUME NEW h \in Handlers, NEW i \in Ids, DeleteStart(h, i) PROVE Goal
  BY <1>3 DEF DeleteStart, Accept
<1>4. ASSUME NEW h \in Handlers, MakeDir(h) PROVE Goal
  BY <1>4 DEF MakeDir
<1>5. ASSUME NEW h \in Handlers, Pause(h) PROVE Goal
  BY <1>5 DEF Pause
<1>6. ASSUME NEW h \in Handlers, RemoveOld(h) PROVE Goal
  BY <1>6 DEF RemoveOld
<1>7. ASSUME NEW h \in Handlers, CreateFull(h) PROVE Goal
  BY <1>7 DEF CreateFull
<1>8. ASSUME NEW h \in Handlers, PersistDisk(h) PROVE Goal
  BY <1>8 DEF PersistDisk
<1>9. ASSUME NEW h \in Handlers, writeUserSnapshotMeta(h) PROVE Goal
  BY <1>9 DEF writeUserSnapshotMeta
<1>10. ASSUME NEW h \in Handlers, SnapshotFails(h) PROVE Goal
  BY <1>10 DEF SnapshotFails
<1>11. ASSUME NEW h \in Handlers, Resume(h) PROVE Goal
  BY <1>11 DEF Resume, Resumed
<1>12. ASSUME NEW h \in Handlers, ResumeFails(h) PROVE Goal
  BY <1>12 DEF ResumeFails
<1>13. ASSUME NEW h \in Handlers, DeferredResume(h) PROVE Goal
  BY <1>13 DEF DeferredResume, Resumed
<1>14. ASSUME NEW h \in Handlers, ArtifactsExist(h) PROVE Goal
  BY <1>14 DEF ArtifactsExist
<1>15. ASSUME NEW h \in Handlers, CloneDisk(h) PROVE Goal
  BY <1>15 DEF CloneDisk
<1>16. ASSUME NEW h \in Handlers, LoadSnapshot(h) PROVE Goal
  BY <1>16 DEF LoadSnapshot
<1>17. ASSUME NEW h \in Handlers, RestoreFails(h) PROVE Goal
  BY <1>17 DEF RestoreFails
<1>18. ASSUME NEW h \in Handlers, DeleteEntry(h) PROVE Goal
  BY <1>18 DEF DeleteEntry
<1>19. ASSUME NEW h \in Handlers, DeleteEnds(h) PROVE Goal
  BY <1>19 DEF DeleteEnds
<1>20. ASSUME NEW s \in Sandboxes, SandboxCreated(s) PROVE Goal
  BY <1>20 DEF SandboxCreated
<1>21. ASSUME NEW s \in Sandboxes, SandboxDestroyed(s) PROVE Goal
  BY <1>21 DEF SandboxDestroyed
<1>22. ASSUME NEW s \in Sandboxes, GuestWrites(s) PROVE Goal
  BY <1>22 DEF GuestWrites
<1>23. ASSUME NEW l \in Lineages, ServerRestarts(l) PROVE Goal
  BY <1>23 DEF ServerRestarts
<1>24. CASE UNCHANGED snapVars
  BY <1>24 DEF snapVars
<1> QED BY <1>1, <1>2, <1>3, <1>4, <1>5, <1>6, <1>7, <1>8, <1>9, <1>10, <1>11, <1>12, <1>13, <1>14,
    <1>15, <1>16, <1>17, <1>18, <1>19, <1>20, <1>21, <1>22, <1>23, <1>24 DEF SnapNext, Request,
    HandlerStep, Quiet

(* A create goes on, or it begins. *)
LEMMA CreateGoesOn ==
  ASSUME TypeInv, VMInv, NEW w \in Handlers, pc'[w] \in CreatePcs, [SnapNext]_snapVars
  PROVE  GoesOn(w) \/ \E t \in Sandboxes : SnapshotStart(w, t)
<1> DEFINE Goal == GoesOn(w) \/ \E t \in Sandboxes : SnapshotStart(w, t)
<1> USE SnapshotAssumption, PcFacts, ContentFacts DEF reqVars, vmVars, fileVars, histVars, lifeVars,
    worldVars, Goto, Return, TypeInv, SnapTypeOK, RestorePcs, ArmedPcs, VMInv, Capture, GoesOn
<1>1. ASSUME NEW h \in Handlers, NEW s \in Sandboxes, SnapshotStart(h, s) PROVE Goal
  BY <1>1 DEF SnapshotStart, Accept
<1>2. ASSUME NEW h \in Handlers, NEW i \in Ids, RestoreStart(h, i) PROVE Goal
  BY <1>2 DEF RestoreStart, Accept
<1>3. ASSUME NEW h \in Handlers, NEW i \in Ids, DeleteStart(h, i) PROVE Goal
  BY <1>3 DEF DeleteStart, Accept
<1>4. ASSUME NEW h \in Handlers, MakeDir(h) PROVE Goal
  BY <1>4 DEF MakeDir
<1>5. ASSUME NEW h \in Handlers, Pause(h) PROVE Goal
  BY <1>5 DEF Pause
<1>6. ASSUME NEW h \in Handlers, RemoveOld(h) PROVE Goal
  BY <1>6 DEF RemoveOld
<1>7. ASSUME NEW h \in Handlers, CreateFull(h) PROVE Goal
  BY <1>7 DEF CreateFull
<1>8. ASSUME NEW h \in Handlers, PersistDisk(h) PROVE Goal
  BY <1>8 DEF PersistDisk
<1>9. ASSUME NEW h \in Handlers, writeUserSnapshotMeta(h) PROVE Goal
  BY <1>9 DEF writeUserSnapshotMeta
<1>10. ASSUME NEW h \in Handlers, SnapshotFails(h) PROVE Goal
  BY <1>10 DEF SnapshotFails
<1>11. ASSUME NEW h \in Handlers, Resume(h) PROVE Goal
  BY <1>11 DEF Resume, Resumed
<1>12. ASSUME NEW h \in Handlers, ResumeFails(h) PROVE Goal
  BY <1>12 DEF ResumeFails
<1>13. ASSUME NEW h \in Handlers, DeferredResume(h) PROVE Goal
  BY <1>13 DEF DeferredResume, Resumed
<1>14. ASSUME NEW h \in Handlers, ArtifactsExist(h) PROVE Goal
  BY <1>14 DEF ArtifactsExist
<1>15. ASSUME NEW h \in Handlers, CloneDisk(h) PROVE Goal
  BY <1>15 DEF CloneDisk
<1>16. ASSUME NEW h \in Handlers, LoadSnapshot(h) PROVE Goal
  BY <1>16 DEF LoadSnapshot
<1>17. ASSUME NEW h \in Handlers, RestoreFails(h) PROVE Goal
  BY <1>17 DEF RestoreFails
<1>18. ASSUME NEW h \in Handlers, DeleteEntry(h) PROVE Goal
  BY <1>18 DEF DeleteEntry
<1>19. ASSUME NEW h \in Handlers, DeleteEnds(h) PROVE Goal
  BY <1>19 DEF DeleteEnds
<1>20. ASSUME NEW s \in Sandboxes, SandboxCreated(s) PROVE Goal
  BY <1>20 DEF SandboxCreated
<1>21. ASSUME NEW s \in Sandboxes, SandboxDestroyed(s) PROVE Goal
  BY <1>21 DEF SandboxDestroyed
<1>22. ASSUME NEW s \in Sandboxes, GuestWrites(s) PROVE Goal
  BY <1>22 DEF GuestWrites
<1>23. ASSUME NEW l \in Lineages, ServerRestarts(l) PROVE Goal
  BY <1>23 DEF ServerRestarts
<1>24. CASE UNCHANGED snapVars
  BY <1>24 DEF snapVars
<1> HIDE DEF TypeInv, SnapTypeOK, VMInv, Capture, ArmedPcs, RestorePcs, GoesOn
<1> QED BY <1>1, <1>2, <1>3, <1>4, <1>5, <1>6, <1>7, <1>8, <1>9, <1>10, <1>11, <1>12, <1>13, <1>14,
    <1>15, <1>16, <1>17, <1>18, <1>19, <1>20, <1>21, <1>22, <1>23, <1>24 DEF SnapNext, Request,
    HandlerStep, Quiet

(* A restore goes on, or it begins. *)
LEMMA RestoreGoesOn ==
  ASSUME TypeInv, NEW w \in Handlers, pc'[w] \in RestorePcs, [SnapNext]_snapVars
  PROVE  /\ rootfs' = rootfs /\ id'[w] \in Ids
         /\ \/ pc[w] \in RestorePcs /\ id'[w] = id[w]
            \/ RestoreStart(w, id'[w])
<1> DEFINE Goal ==
      /\ rootfs' = rootfs /\ id'[w] \in Ids
      /\ \/ pc[w] \in RestorePcs /\ id'[w] = id[w]
         \/ RestoreStart(w, id'[w])
<1> USE SnapshotAssumption, PcFacts, ContentFacts DEF reqVars, vmVars, fileVars, histVars, lifeVars,
    worldVars, Goto, Return, TypeInv, SnapTypeOK, RestorePcs, ArmedPcs
<1>1. ASSUME NEW h \in Handlers, NEW s \in Sandboxes, SnapshotStart(h, s) PROVE Goal
  BY <1>1 DEF SnapshotStart, Accept
<1>2. ASSUME NEW h \in Handlers, NEW i \in Ids, RestoreStart(h, i) PROVE Goal
  BY <1>2 DEF RestoreStart, Accept
<1>3. ASSUME NEW h \in Handlers, NEW i \in Ids, DeleteStart(h, i) PROVE Goal
  BY <1>3 DEF DeleteStart, Accept
<1>4. ASSUME NEW h \in Handlers, MakeDir(h) PROVE Goal
  BY <1>4 DEF MakeDir
<1>5. ASSUME NEW h \in Handlers, Pause(h) PROVE Goal
  BY <1>5 DEF Pause
<1>6. ASSUME NEW h \in Handlers, RemoveOld(h) PROVE Goal
  BY <1>6 DEF RemoveOld
<1>7. ASSUME NEW h \in Handlers, CreateFull(h) PROVE Goal
  BY <1>7 DEF CreateFull
<1>8. ASSUME NEW h \in Handlers, PersistDisk(h) PROVE Goal
  BY <1>8 DEF PersistDisk
<1>9. ASSUME NEW h \in Handlers, writeUserSnapshotMeta(h) PROVE Goal
  BY <1>9 DEF writeUserSnapshotMeta
<1>10. ASSUME NEW h \in Handlers, SnapshotFails(h) PROVE Goal
  BY <1>10 DEF SnapshotFails
<1>11. ASSUME NEW h \in Handlers, Resume(h) PROVE Goal
  BY <1>11 DEF Resume, Resumed
<1>12. ASSUME NEW h \in Handlers, ResumeFails(h) PROVE Goal
  BY <1>12 DEF ResumeFails
<1>13. ASSUME NEW h \in Handlers, DeferredResume(h) PROVE Goal
  BY <1>13 DEF DeferredResume, Resumed
<1>14. ASSUME NEW h \in Handlers, ArtifactsExist(h) PROVE Goal
  BY <1>14 DEF ArtifactsExist
<1>15. ASSUME NEW h \in Handlers, CloneDisk(h) PROVE Goal
  BY <1>15 DEF CloneDisk
<1>16. ASSUME NEW h \in Handlers, LoadSnapshot(h) PROVE Goal
  BY <1>16 DEF LoadSnapshot
<1>17. ASSUME NEW h \in Handlers, RestoreFails(h) PROVE Goal
  BY <1>17 DEF RestoreFails
<1>18. ASSUME NEW h \in Handlers, DeleteEntry(h) PROVE Goal
  BY <1>18 DEF DeleteEntry
<1>19. ASSUME NEW h \in Handlers, DeleteEnds(h) PROVE Goal
  BY <1>19 DEF DeleteEnds
<1>20. ASSUME NEW s \in Sandboxes, SandboxCreated(s) PROVE Goal
  BY <1>20 DEF SandboxCreated
<1>21. ASSUME NEW s \in Sandboxes, SandboxDestroyed(s) PROVE Goal
  BY <1>21 DEF SandboxDestroyed
<1>22. ASSUME NEW s \in Sandboxes, GuestWrites(s) PROVE Goal
  BY <1>22 DEF GuestWrites
<1>23. ASSUME NEW l \in Lineages, ServerRestarts(l) PROVE Goal
  BY <1>23 DEF ServerRestarts
<1>24. CASE UNCHANGED snapVars
  BY <1>24 DEF snapVars
<1> QED BY <1>1, <1>2, <1>3, <1>4, <1>5, <1>6, <1>7, <1>8, <1>9, <1>10, <1>11, <1>12, <1>13, <1>14,
    <1>15, <1>16, <1>17, <1>18, <1>19, <1>20, <1>21, <1>22, <1>23, <1>24 DEF SnapNext, Request,
    HandlerStep, Quiet

(* The metadata come last. *)
LEMMA NextWriter ==
  ASSUME TypeInv, IdInv, DirInv, WriterInv, [SnapNext]_snapVars
  PROVE  WriterInv'
<1> USE SnapshotAssumption, PcFacts, ContentFacts DEF reqVars, vmVars, fileVars, histVars, lifeVars,
    worldVars, Goto, Return, TypeInv, SnapTypeOK, RestorePcs, ArmedPcs, IdInv, DirInv, Empty,
    WriterInv, BeforeMeta
<1>1. ASSUME NEW h \in Handlers, NEW s \in Sandboxes, SnapshotStart(h, s) PROVE WriterInv'
  <2>1. \A g \in Handlers : pc'[g] = (IF g = h THEN "mkdir" ELSE pc[g])
                            /\ id'[g] = (IF g = h THEN nextSnapshotID + 1 ELSE id[g])
    BY <1>1 DEF SnapshotStart, Accept
  <2>2. disturbed \subseteq disturbed' /\ deleted' = deleted /\ UNCHANGED fileVars BY <1>1 DEF SnapshotStart, Accept
  <2>3. nextSnapshotID + 1 \in Ids BY <1>1 DEF SnapshotStart, Accept, Ids
  <2>4. nextSnapshotID + 1 \notin disturbed' => nextSnapshotID + 1 \notin dirs BY <1>1 DEF SnapshotStart, Accept
  <2> QED BY <2>1, <2>2, <2>3, <2>4
<1>2. ASSUME NEW h \in Handlers, NEW i \in Ids, RestoreStart(h, i) PROVE WriterInv'
  BY <1>2 DEF RestoreStart, Accept
<1>3. ASSUME NEW h \in Handlers, NEW i \in Ids, DeleteStart(h, i) PROVE WriterInv'
  BY <1>3 DEF DeleteStart, Accept
<1>4. ASSUME NEW h \in Handlers, MakeDir(h) PROVE WriterInv'
  BY <1>4 DEF MakeDir
<1>5. ASSUME NEW h \in Handlers, Pause(h) PROVE WriterInv'
  BY <1>5 DEF Pause
<1>6. ASSUME NEW h \in Handlers, RemoveOld(h) PROVE WriterInv'
  BY <1>6 DEF RemoveOld
<1>7. ASSUME NEW h \in Handlers, CreateFull(h) PROVE WriterInv'
  BY <1>7 DEF CreateFull
<1>8. ASSUME NEW h \in Handlers, PersistDisk(h) PROVE WriterInv'
  BY <1>8 DEF PersistDisk
<1>9. ASSUME NEW h \in Handlers, writeUserSnapshotMeta(h) PROVE WriterInv'
  BY <1>9 DEF writeUserSnapshotMeta
<1>10. ASSUME NEW h \in Handlers, SnapshotFails(h) PROVE WriterInv'
  BY <1>10 DEF SnapshotFails
<1>11. ASSUME NEW h \in Handlers, Resume(h) PROVE WriterInv'
  BY <1>11 DEF Resume, Resumed
<1>12. ASSUME NEW h \in Handlers, ResumeFails(h) PROVE WriterInv'
  BY <1>12 DEF ResumeFails
<1>13. ASSUME NEW h \in Handlers, DeferredResume(h) PROVE WriterInv'
  BY <1>13 DEF DeferredResume, Resumed
<1>14. ASSUME NEW h \in Handlers, ArtifactsExist(h) PROVE WriterInv'
  BY <1>14 DEF ArtifactsExist
<1>15. ASSUME NEW h \in Handlers, CloneDisk(h) PROVE WriterInv'
  BY <1>15 DEF CloneDisk
<1>16. ASSUME NEW h \in Handlers, LoadSnapshot(h) PROVE WriterInv'
  BY <1>16 DEF LoadSnapshot
<1>17. ASSUME NEW h \in Handlers, RestoreFails(h) PROVE WriterInv'
  BY <1>17 DEF RestoreFails
<1>18. ASSUME NEW h \in Handlers, DeleteEntry(h) PROVE WriterInv'
  BY <1>18 DEF DeleteEntry
<1>19. ASSUME NEW h \in Handlers, DeleteEnds(h) PROVE WriterInv'
  BY <1>19 DEF DeleteEnds
<1>20. ASSUME NEW s \in Sandboxes, SandboxCreated(s) PROVE WriterInv'
  BY <1>20 DEF SandboxCreated
<1>21. ASSUME NEW s \in Sandboxes, SandboxDestroyed(s) PROVE WriterInv'
  BY <1>21 DEF SandboxDestroyed
<1>22. ASSUME NEW s \in Sandboxes, GuestWrites(s) PROVE WriterInv'
  BY <1>22 DEF GuestWrites
<1>23. ASSUME NEW l \in Lineages, ServerRestarts(l) PROVE WriterInv'
  BY <1>23 DEF ServerRestarts
<1>24. CASE UNCHANGED snapVars
  BY <1>24 DEF snapVars
<1> QED BY <1>1, <1>2, <1>3, <1>4, <1>5, <1>6, <1>7, <1>8, <1>9, <1>10, <1>11, <1>12, <1>13, <1>14,
    <1>15, <1>16, <1>17, <1>18, <1>19, <1>20, <1>21, <1>22, <1>23, <1>24 DEF SnapNext, Request,
    HandlerStep, Quiet

(* The clone of a restore and the files of one snapshot are of one moment. *)
LEMMA NextContent ==
  ASSUME TypeInv, IdInv, VMInv, ContentInv, CaptureInv, [SnapNext]_snapVars
  PROVE  ContentInv'
<1> SUFFICES ASSUME NEW i \in Ids \ disturbed', NEW x \in Contents, NEW y \in Contents, Holds(i, x)'
             PROVE  vm'[x[1]] # "none" /\ (Holds(i, y)' => x = y)
  BY DEF ContentInv
<1>1. i \in Ids \ disturbed BY Monotone
<1>2. ASSUME NEW z \in Contents, NEW g \in Handlers, id[g] = i, z = Capture(g), CreateFull(g) \/ PersistDisk(g)
      PROVE /\ pc[g] \in CreatePcs /\ src[g] \in Sandboxes /\ z[1] = src[g]
            /\ \A u \in Contents : Holds(i, u) => z = u
  <2>1. pc[g] \in CreatePcs BY <1>2, PcFacts DEF CreateFull, PersistDisk
  <2>2. src[g] \in Sandboxes /\ version[src[g]] \in 0..MaxWrites BY <2>1 DEF TypeInv, SnapTypeOK
  <2> QED BY <1>1, <1>2, <2>1, <2>2, ContentFacts DEF CaptureInv, Capture
<1>3. ASSUME NEW z \in Contents, Added(i, z) PROVE \A u \in Contents : Holds(i, u) \/ Added(i, u) => z = u
  <2>1. PICK g \in Handlers : id[g] = i /\ z = Capture(g) /\ (CreateFull(g) \/ PersistDisk(g)) BY <1>3 DEF Added
  <2>2. ASSUME NEW u \in Contents, Added(i, u) PROVE z = u
    <3>1. PICK k \in Handlers : id[k] = i /\ u = Capture(k) /\ (CreateFull(k) \/ PersistDisk(k)) BY <2>2 DEF Added
    <3>2. k = g BY <1>2, <2>1, <3>1 DEF IdInv
    <3> QED BY <2>1, <3>1, <3>2
  <2> QED BY <1>2, <2>1, <2>2
<1>4. Holds(i, x) \/ Added(i, x) BY HoldsGrows
<1>5. Holds(i, y)' => Holds(i, y) \/ Added(i, y) BY HoldsGrows
<1>6. Holds(i, y)' => x = y
  BY <1>1, <1>3, <1>4, <1>5 DEF ContentInv
<1>7. vm[x[1]] # "none"
  <2>1. CASE Holds(i, x) BY <1>1, <2>1 DEF ContentInv
  <2>2. CASE Added(i, x)
    <3>1. PICK g \in Handlers : id[g] = i /\ x = Capture(g) /\ (CreateFull(g) \/ PersistDisk(g)) BY <2>2 DEF Added
    <3>2. x[1] = src[g] BY <1>2, <3>1
    <3> QED BY <1>2, <3>1, <3>2 DEF VMInv
  <2> QED BY <1>4, <2>1, <2>2
<1> QED BY <1>6, <1>7, Monotone, ContentFacts

(* A snapshot that begins finds nothing, and nobody who restores what was there. *)
LEMMA BeginsEmpty ==
  ASSUME TypeInv, DirInv, NEW h \in Handlers, NEW s \in Sandboxes, SnapshotStart(h, s), id'[h] \notin disturbed'
  PROVE  /\ id'[h] \in Ids /\ pc'[h] = "mkdir"
         /\ \A x \in Contents : ~ Holds(id'[h], x)
<1>1. id'[h] = nextSnapshotID + 1 /\ pc'[h] = "mkdir" BY DEF TypeInv, SnapTypeOK, SnapshotStart
<1>2. id'[h] \in Ids BY <1>1, SnapshotAssumption DEF SnapshotStart, Ids, TypeInv, SnapTypeOK
<1>3. id'[h] \notin dirs /\ id'[h] \notin deleted BY <1>1 DEF SnapshotStart
<1>4. mem[id'[h]] = None /\ disk[id'[h]] = None BY <1>2, <1>3 DEF DirInv, Empty
<1>5. \A g \in Handlers : pc[g] = "load" => id[g] # id'[h] BY <1>3 DEF DirInv, RestorePcs
<1> QED BY <1>1, <1>2, <1>4, <1>5 DEF Holds

(* The captured moment does not change under a create. *)
LEMMA NextCapture ==
  ASSUME TypeInv, IdInv, DirInv, VMInv, ContentInv, CaptureInv, [SnapNext]_snapVars
  PROVE  CaptureInv'
<1> SUFFICES ASSUME NEW h \in Handlers, pc'[h] \in CreatePcs, id'[h] \notin disturbed',
                    NEW x \in Contents, NEW j, j = id'[h], Holds(j, x)'
             PROVE  x = Capture(h)' /\ pc'[h] \notin {"mkdir", "pause"}
  BY DEF CaptureInv, Holds
<1>1. CASE GoesOn(h)
  <2>1. j = id[h] /\ j \in Ids /\ j \notin disturbed /\ pc[h] \in CreatePcs BY <1>1, Monotone DEF GoesOn
  <2>2. x = Capture(h) /\ pc[h] \in ArmedPcs
    <3>1. CASE Holds(j, x) BY <2>1, <3>1, PcFacts DEF CaptureInv, ArmedPcs
    <3>2. CASE Added(j, x)
      <4>1. PICK g \in Handlers : id[g] = j /\ x = Capture(g) /\ (CreateFull(g) \/ PersistDisk(g)) BY <3>2 DEF Added
      <4>2. pc[g] \in {"full", "disk"} BY <4>1 DEF CreateFull, PersistDisk
      <4>3. g = h BY <2>1, <4>1, <4>2, PcFacts DEF IdInv
      <4> QED BY <4>1, <4>2, <4>3 DEF ArmedPcs
    <3> QED BY <2>1, <3>1, <3>2, HoldsGrows
  <2> QED BY <1>1, <2>1, <2>2 DEF GoesOn, ArmedPcs
<1>2. ASSUME NEW s \in Sandboxes, SnapshotStart(h, s) PROVE FALSE
  <2>1. j \in Ids /\ ~ Holds(j, x) BY <1>2, BeginsEmpty
  <2>2. ~ Added(j, x)
    <3>1. \A g \in Handlers : ~ CreateFull(g) /\ ~ PersistDisk(g)
      <4>1. fileVars' = fileVars /\ requests' = requests + 1 /\ requests \in Nat
        BY <1>2 DEF SnapshotStart, Accept, TypeInv, SnapTypeOK
      <4> QED BY <4>1 DEF CreateFull, PersistDisk, worldVars
    <3> QED BY <3>1 DEF Added
  <2> QED BY <2>1, <2>2, HoldsGrows
<1> QED BY <1>1, <1>2, CreateGoesOn

-----------------------------------------------------------------------------
(* What a restore makes of it.                                               *)

LEMMA NextLineage ==
  ASSUME TypeInv, IdInv, VMInv, ContentInv, CaptureInv, WriterInv, LineageInv, [SnapNext]_snapVars
  PROVE  LineageInv'
<1> SUFFICES ASSUME EnableSnapshots, NEW i \in Ids \ disturbed', NEW x \in Contents, Holds(i, x)'
             PROVE  /\ meta'[i] # None => base'[x[1]] = meta'[i]
                    /\ \A g \in Handlers : pc'[g] \in RestorePcs /\ id'[g] = i => base'[x[1]] = rootfs'
  BY DEF LineageInv
<1>1. i \in Ids \ disturbed BY Monotone
<1>2. Holds(i, x) \/ Added(i, x) BY HoldsGrows
<1>3. BaseRootfsLineageID = rootfs /\ rootfs # NoLineage
  BY SnapshotAssumption DEF BaseRootfsLineageID, TypeInv, SnapTypeOK
<1>4. CASE Holds(i, x)
  <2>1. base'[x[1]] = base[x[1]] BY <1>1, <1>4, Monotone, ContentFacts DEF ContentInv
  <2>2. ASSUME meta'[i] # None PROVE base[x[1]] = meta'[i]
    <3>1. CASE meta'[i] = meta[i] BY <1>1, <1>4, <2>2, <3>1 DEF LineageInv
    <3>2. ASSUME NEW g \in Handlers, id[g] = i, writeUserSnapshotMeta(g) PROVE base[x[1]] = meta'[i]
      <4>1. pc[g] = "meta" /\ meta'[i] = rootfs
        BY <1>3, <3>2 DEF writeUserSnapshotMeta, TypeInv, SnapTypeOK
      <4>2. pc[g] \in CreatePcs BY <4>1, PcFacts
      <4>3. x = Capture(g) BY <1>1, <1>4, <3>2, <4>2 DEF CaptureInv
      <4>4. x[1] = src[g] BY <4>3 DEF Capture
      <4> QED BY <4>1, <4>2, <4>4 DEF VMInv
    <3> QED BY <2>2, <3>1, <3>2, MetaGrows
  <2>3. ASSUME NEW g \in Handlers, pc'[g] \in RestorePcs, id'[g] = i PROVE base[x[1]] = rootfs /\ rootfs' = rootfs
    <3>1. rootfs' = rootfs /\ ((pc[g] \in RestorePcs /\ id[g] = i) \/ RestoreStart(g, i))
      BY <2>3, RestoreGoesOn
    <3>2. CASE pc[g] \in RestorePcs /\ id[g] = i BY <1>1, <1>4, <3>1, <3>2 DEF LineageInv
    <3>3. CASE RestoreStart(g, i)
      <4>1. meta[i] # None /\ meta[i] = rootfs BY <1>3, <3>3 DEF RestoreStart
      <4> QED BY <1>1, <1>4, <3>1, <4>1 DEF LineageInv
    <3> QED BY <3>1, <3>2, <3>3
  <2> QED BY <2>1, <2>2, <2>3
<1>5. CASE Added(i, x)
  <2>1. PICK g \in Handlers : id[g] = i /\ x = Capture(g) /\ (CreateFull(g) \/ PersistDisk(g)) BY <1>5 DEF Added
  <2>2. pc[g] \in {"full", "disk"} /\ meta' = meta /\ rootfs' = rootfs /\ base' = base
    BY <2>1 DEF CreateFull, PersistDisk, worldVars, lifeVars
  <2>3. meta'[i] = None BY <1>1, <2>1, <2>2 DEF WriterInv, BeforeMeta
  <2>4. x[1] = src[g] BY <2>1 DEF Capture
  <2>5. base'[x[1]] = rootfs' BY <2>2, <2>4, PcFacts DEF VMInv
  <2> QED BY <2>3, <2>5
<1> QED BY <1>2, <1>4, <1>5

(* Only a successful restore makes a sandbox. *)
LEMMA RestoredOnlyByLoad ==
  ASSUME TypeInv, [SnapNext]_snapVars
  PROVE  restored' = restored \/ \E g \in Handlers : LoadSnapshot(g)
<1> DEFINE Goal == restored' = restored \/ \E g \in Handlers : LoadSnapshot(g)
<1> USE DEF histVars
<1>1. ASSUME NEW h \in Handlers, NEW s \in Sandboxes, SnapshotStart(h, s) PROVE Goal
  BY <1>1 DEF SnapshotStart, Accept
<1>2. ASSUME NEW h \in Handlers, NEW i \in Ids, RestoreStart(h, i) PROVE Goal
  BY <1>2 DEF RestoreStart, Accept
<1>3. ASSUME NEW h \in Handlers, NEW i \in Ids, DeleteStart(h, i) PROVE Goal
  BY <1>3 DEF DeleteStart, Accept
<1>4. ASSUME NEW h \in Handlers, MakeDir(h) PROVE Goal
  BY <1>4 DEF MakeDir
<1>5. ASSUME NEW h \in Handlers, Pause(h) PROVE Goal
  BY <1>5 DEF Pause
<1>6. ASSUME NEW h \in Handlers, RemoveOld(h) PROVE Goal
  BY <1>6 DEF RemoveOld
<1>7. ASSUME NEW h \in Handlers, CreateFull(h) PROVE Goal
  BY <1>7 DEF CreateFull
<1>8. ASSUME NEW h \in Handlers, PersistDisk(h) PROVE Goal
  BY <1>8 DEF PersistDisk
<1>9. ASSUME NEW h \in Handlers, writeUserSnapshotMeta(h) PROVE Goal
  BY <1>9 DEF writeUserSnapshotMeta
<1>10. ASSUME NEW h \in Handlers, SnapshotFails(h) PROVE Goal
  BY <1>10 DEF SnapshotFails
<1>11. ASSUME NEW h \in Handlers, Resume(h) PROVE Goal
  BY <1>11 DEF Resume, Resumed
<1>12. ASSUME NEW h \in Handlers, ResumeFails(h) PROVE Goal
  BY <1>12 DEF ResumeFails
<1>13. ASSUME NEW h \in Handlers, DeferredResume(h) PROVE Goal
  BY <1>13 DEF DeferredResume, Resumed
<1>14. ASSUME NEW h \in Handlers, ArtifactsExist(h) PROVE Goal
  BY <1>14 DEF ArtifactsExist
<1>15. ASSUME NEW h \in Handlers, CloneDisk(h) PROVE Goal
  BY <1>15 DEF CloneDisk
<1>16. ASSUME NEW h \in Handlers, LoadSnapshot(h) PROVE Goal
  BY <1>16 DEF LoadSnapshot
<1>17. ASSUME NEW h \in Handlers, RestoreFails(h) PROVE Goal
  BY <1>17 DEF RestoreFails
<1>18. ASSUME NEW h \in Handlers, DeleteEntry(h) PROVE Goal
  BY <1>18 DEF DeleteEntry
<1>19. ASSUME NEW h \in Handlers, DeleteEnds(h) PROVE Goal
  BY <1>19 DEF DeleteEnds
<1>20. ASSUME NEW s \in Sandboxes, SandboxCreated(s) PROVE Goal
  BY <1>20 DEF SandboxCreated
<1>21. ASSUME NEW s \in Sandboxes, SandboxDestroyed(s) PROVE Goal
  BY <1>21 DEF SandboxDestroyed
<1>22. ASSUME NEW s \in Sandboxes, GuestWrites(s) PROVE Goal
  BY <1>22 DEF GuestWrites
<1>23. ASSUME NEW l \in Lineages, ServerRestarts(l) PROVE Goal
  BY <1>23 DEF ServerRestarts
<1>24. CASE UNCHANGED snapVars
  BY <1>24 DEF snapVars
<1> QED BY <1>1, <1>2, <1>3, <1>4, <1>5, <1>6, <1>7, <1>8, <1>9, <1>10, <1>11, <1>12, <1>13, <1>14,
    <1>15, <1>16, <1>17, <1>18, <1>19, <1>20, <1>21, <1>22, <1>23, <1>24 DEF SnapNext, Request,
    HandlerStep, Quiet

LEMMA NextRestored ==
  ASSUME TypeInv, ContentInv, LineageInv, RestoredInv, [SnapNext]_snapVars
  PROVE  RestoredInv'
<1>1. CASE restored' = restored
  <2> SUFFICES ASSUME restored # None, restored.from \notin disturbed'
               PROVE  /\ restored.mem = restored.disk
                      /\ vm'[restored.mem[1]] # "none"
                      /\ EnableSnapshots => base'[restored.mem[1]] = restored.rootfs
    BY <1>1 DEF RestoredInv
  <2>1. restored.mem[1] \in Sandboxes BY ContentFacts DEF TypeInv, Results
  <2>2. restored.from \notin disturbed BY Monotone
  <2> QED BY <2>1, <2>2, Monotone DEF RestoredInv
<1>2. ASSUME NEW h \in Handlers, LoadSnapshot(h) PROVE RestoredInv'
  <2>1. /\ restored' = [from |-> id[h], mem |-> mem[id[h]], disk |-> copy[h], rootfs |-> rootfs]
        /\ pc[h] = "load" /\ mem[id[h]] # None /\ vm' = vm /\ base' = base /\ disturbed' = disturbed
    BY <1>2 DEF LoadSnapshot, vmVars, worldVars, lifeVars
  <2>2. id[h] \in Ids /\ copy[h] # None BY <2>1 DEF TypeInv, SnapTypeOK
  <2>3. mem[id[h]] \in Contents /\ copy[h] \in Contents BY <2>1, <2>2 DEF TypeInv, SnapTypeOK
  <2>4. Holds(id[h], mem[id[h]]) /\ Holds(id[h], copy[h]) BY <2>1, <2>2 DEF Holds
  <2>5. ASSUME id[h] \notin disturbed
        PROVE  /\ mem[id[h]] = copy[h] /\ vm[mem[id[h]][1]] # "none"
               /\ EnableSnapshots => base[mem[id[h]][1]] = rootfs
    <3>1. mem[id[h]] = copy[h] /\ vm[mem[id[h]][1]] # "none"
      BY <2>2, <2>3, <2>4, <2>5 DEF ContentInv
    <3>2. EnableSnapshots => base[mem[id[h]][1]] = rootfs
      BY <2>1, <2>2, <2>3, <2>4, <2>5 DEF LineageInv, RestorePcs
    <3> QED BY <3>1, <3>2
  <2> QED BY <2>1, <2>5 DEF RestoredInv
<1> QED BY <1>1, <1>2, RestoredOnlyByLoad

(* What is listed has both files, and they are of one moment. *)
LEMMA NextListed ==
  ASSUME TypeInv, TypeInv', IdInv, DirInv, WriterInv, ContentInv', ListedIsWhole, [SnapNext]_snapVars
  PROVE  ListedIsWhole'
<1> SUFFICES ASSUME NEW i \in Ids, meta'[i] # None, i \notin disturbed', i \notin deleted'
             PROVE  mem'[i] # None /\ mem'[i] = disk'[i]
  BY DEF ListedIsWhole, Listed
<1>1. i \notin disturbed /\ i \notin deleted BY Monotone
<1>2. mem'[i] # None /\ disk'[i] # None
  <2>1. ASSUME NEW g \in Handlers, id[g] = i, writeUserSnapshotMeta(g) PROVE mem'[i] # None /\ disk'[i] # None
    <3>1. pc[g] = "meta" /\ mem' = mem /\ disk' = disk BY <2>1 DEF writeUserSnapshotMeta
    <3> QED BY <1>1, <2>1, <3>1 DEF WriterInv
  <2>2. CASE meta'[i] = meta[i]
    <3>1. mem[i] # None /\ disk[i] # None BY <1>1, <2>2 DEF ListedIsWhole, Listed
    <3>2. ASSUME NEW g \in Handlers, id[g] = i, RemoveOld(g) PROVE FALSE
      <4>1. pc[g] = "remove" BY <3>2 DEF RemoveOld
      <4> QED BY <1>1, <2>2, <3>2, <4>1 DEF WriterInv, BeforeMeta
    <3> QED BY <1>1, <3>1, <3>2, FilesStay
  <2> QED BY <2>1, <2>2, MetaGrows
<1>3. mem'[i] \in Contents /\ disk'[i] \in Contents BY <1>2 DEF TypeInv, SnapTypeOK
<1>4. PICK m \in Contents, d \in Contents : m = mem'[i] /\ d = disk'[i] BY <1>3
<1>5. Holds(i, m)' /\ Holds(i, d)' BY <1>2, <1>4 DEF Holds
<1>6. m = d BY <1>5 DEF ContentInv
<1> QED BY <1>2, <1>4, <1>6

-----------------------------------------------------------------------------
(* The theorems.                                                             *)

LEMMA InitIInv == SnapInit => IInv
<1> SUFFICES ASSUME SnapInit PROVE IInv OBVIOUS
<1> USE SnapshotAssumption, PcFacts, ContentFacts DEF SnapInit
<1>1. TypeInv BY DEF TypeInv, SnapTypeOK
<1>2. IdInv /\ DirInv /\ VMInv BY DEF IdInv, DirInv, VMInv, RestorePcs, ArmedPcs, Empty
<1>3. \A i \in Ids, x \in Contents : ~ Holds(i, x) BY DEF Holds
<1>4. ContentInv /\ CaptureInv /\ LineageInv BY <1>3 DEF ContentInv, CaptureInv, LineageInv
<1>5. WriterInv BY DEF WriterInv, BeforeMeta
<1>6. RestoredInv /\ ListedIsWhole /\ PausedHasResumer
  BY DEF RestoredInv, ListedIsWhole, Listed, PausedHasResumer
<1> QED BY <1>1, <1>2, <1>4, <1>5, <1>6 DEF IInv

LEMMA NextIInv == IInv /\ [SnapNext]_snapVars => IInv'
<1> SUFFICES ASSUME IInv, [SnapNext]_snapVars PROVE IInv' OBVIOUS
<1> USE DEF IInv
<1>1. TypeInv' BY NextTypes
<1>2. IdInv' /\ DirInv' /\ VMInv' BY NextIds, NextDirs, NextVMs
<1>3. ContentInv' BY NextContent
<1>4. CaptureInv' /\ WriterInv' BY NextCapture, NextWriter
<1>5. LineageInv' /\ RestoredInv' BY NextLineage, NextRestored
<1>6. ListedIsWhole' BY <1>1, <1>3, NextListed
<1>7. PausedHasResumer' BY NextPaused
<1> QED BY <1>1, <1>2, <1>3, <1>4, <1>5, <1>6, <1>7

(* The invariant of the snapshot requests, over all lives of the server. *)
THEOREM SnapshotInvariance == SnapSpec => []IInv
<1>1. SnapInit => IInv BY InitIInv
<1>2. IInv /\ [SnapNext]_snapVars => IInv' BY NextIInv
<1> QED BY <1>1, <1>2, PTL DEF SnapSpec

(* Every step keeps the types; a handler has a snapshot id exactly while it is busy. *)
THEOREM SnapshotTypes == SnapSpec => []SnapTypeOK
<1>1. IInv => SnapTypeOK BY DEF IInv, TypeInv
<1> QED BY <1>1, SnapshotInvariance, PTL

(* What /snapshot/list shows has memory and disk of one moment of one guest, wherever a
   create failed or the server crashed. *)
THEOREM ListShowsWhole == SnapSpec => []ListedIsWhole
<1>1. IInv => ListedIsWhole BY DEF IInv
<1> QED BY <1>1, SnapshotInvariance, PTL

(* With snapshots enabled, so that a lineage is known, a restore gives memory and disk
   of one moment of a guest made from the configured rootfs, or an error. *)
THEOREM RestoreIsConsistent ==
  ASSUME EnableSnapshots
  PROVE  SnapSpec => []RestoreConsistent
<1>1. IInv => RestoreConsistent BY DEF IInv, RestoredInv, RestoreConsistent
<1> QED BY <1>1, SnapshotInvariance, PTL

(* A VM in the map that is paused will be resumed by a request under way, unless
   Firecracker answered a pause or a resume with an error. *)
THEOREM PausedIsResumed == SnapSpec => []PausedHasResumer
<1>1. IInv => PausedHasResumer BY DEF IInv
<1> QED BY <1>1, SnapshotInvariance, PTL
=============================================================================
