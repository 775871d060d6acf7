-------------------------- MODULE GoldenSnapshotProofs --------------------------
(***************************************************************************)
(* Proofs about module GoldenSnapshot for every number of creates, rootfs  *)
(* images, lives of the server, builds and writes of the golden guest.     *)
(***************************************************************************)
EXTENDS GoldenSnapshot, TLAPS

Written  == [build : Builds, at : 0..Torn]
Restores == [base : Files, state : Files, mem : Files, rootfs : Lineages]

(* Types, with what a create restored; a golden VM is of a build. *)
TypeInv ==
  /\ TypeOK
  /\ used \in Restores \cup {None}
  /\ vm # "none" => vmBuild \in Builds

(* Where the build has the namespace to itself. *)
OwnPcs == VMPcs \cup {"clean", "cleanErr"}

(* Only the preflight builds: once the server serves, the files are there and the
   metadata fits, so that every create goes from the check to the restore. *)
PhaseInv ==
  /\ phase = "down" => \A p \in Callers : pc[p] = "idle"
  /\ phase = "preflight" => pc[Main] \in BuildPcs \cup {"check", "refused"}
  /\ phase = "preflight" => \A p \in Creates : pc[p] = "idle"
  /\ phase = "serving" => pc[Main] = "idle"
  /\ phase = "serving" => \A p \in Creates : pc[p] \in {"idle", "check", "use"}
  /\ phase = "serving" => FilesExist /\ validateSnapshotMeta

(* The namespace exists because the build under way made it, or because something
   left it behind; no VM runs outside of it. *)
NsInv ==
  /\ ns => left \/ pc[Main] \in OwnPcs
  /\ pc[Main] \in OwnPcs => ns
  /\ pc[Main] = "refused" => left
  /\ vm # "none" => ns
  /\ pc[Main] \in {"start", "meta", "clean", "cleanErr"} => vm = "none"

(* The build in the namespace owns the golden VM and the file under it. *)
VMInv ==
  /\ pc[Main] \in {"agent", "pause"} => vm \in {"none", "running"}
  /\ pc[Main] = "create" => vm \in {"none", "paused"}
  /\ pc[Main] = "dump" => vm \in {"none", "dumping", "dumpingMem", "dumped"}
  /\ pc[Main] = "kill" => vm \in {"none", "dumped"}
  /\ pc[Main] \in OwnPcs \ {"cleanErr"} /\ vm # "none" => vmBuild = builds /\ onBase

(* How far the files of the build are. *)
BuildInv ==
  /\ pc[Main] \in {"copying", "netns"} \cup (OwnPcs \ {"cleanErr"}) =>
       base # None /\ base.build = builds /\ root[builds] = rootfs
  /\ pc[Main] = "netns" /\ ~ns => base.at # Torn
  /\ pc[Main] \in OwnPcs \ {"cleanErr"} => base.at # Torn
  /\ pc[Main] = "dump" /\ vm = "dumpingMem" => state = base /\ mem # None /\ mem.build = builds
  /\ pc[Main] = "dump" /\ vm = "dumped" => state = base /\ mem = base
  /\ pc[Main] \in {"kill", "meta", "clean"} => state = base /\ mem = base
  /\ pc[Main] = "clean" => meta = rootfs

(* Files are of builds that have begun. *)
BegunInv ==
  /\ base # None => base.build <= builds
  /\ used # None /\ used.base # None => used.base.build <= builds

(* What the metadata says is so, and while it is there nothing but a removal can
   touch the files: as long as no removal has been cut short. *)
MetaInv ==
  ~resetCut =>
    /\ meta # None /\ pc[Main] # "reset" =>
         base # None /\ base.at # Torn /\ state = base /\ mem = base /\ root[base.build] = meta
    /\ vm # "none" => meta = None
    /\ pc[Main] \in {"copy", "copying", "netns", "refused", "cleanErr"} \cup VMPcs => meta = None

IInv == TypeInv /\ PhaseInv /\ NsInv /\ VMInv /\ BuildInv /\ BegunInv /\ MetaInv /\ UsedIsWhole

-----------------------------------------------------------------------------
(* A file that was written is there. *)
LEMMA WrittenIsSomething == \A f \in Written : f # None
<1> SUFFICES ASSUME NEW f \in Written PROVE DOMAIN f # DOMAIN None BY DEF None
<1> QED BY DEF Written, None

LEMMA RestoredIsSomething == \A r \in Restores : r # None
<1> SUFFICES ASSUME NEW r \in Restores PROVE DOMAIN r # DOMAIN None BY DEF None
<1> QED BY DEF Restores, None

(* Writing the disk changes how far the file is, not whose it is. *)
LEMMA WrittenAt ==
  ASSUME NEW f \in Written, NEW a \in 0..Torn
  PROVE  /\ [f EXCEPT !.at = a] \in Written
         /\ [f EXCEPT !.at = a].build = f.build
         /\ [f EXCEPT !.at = a].at = a
         /\ [f EXCEPT !.at = a] = [build |-> f.build, at |-> a]
BY DEF Written

LEMMA WrittenIs == \A f \in Written : f = [build |-> f.build, at |-> f.at]
BY DEF Written

LEMMA FileFacts == Files = Written \cup {None} /\ 0 \in 0..Torn /\ Torn \in 0..Torn
BY GoldenAssumption DEF Files, Written, Torn

(* All places, and the groups of them, spelt out. *)
LEMMA PcFacts ==
  /\ VMPcs = {"start", "agent", "pause", "create", "dump", "kill", "meta"}
  /\ OwnPcs = {"start", "agent", "pause", "create", "dump", "kill", "meta", "clean", "cleanErr"}
  /\ BuildPcs = {"reset", "copy", "copying", "netns", "start", "agent", "pause", "create", "dump", "kill",
                  "meta", "clean", "cleanErr"}
  /\ Pcs = {"idle", "check", "use", "refused", "reset", "copy", "copying", "netns", "start", "agent",
             "pause", "create", "dump", "kill", "meta", "clean", "cleanErr"}
BY DEF VMPcs, OwnPcs, BuildPcs, Pcs

(* The steps that can happen at all: everything but the check is the preflight's. *)
MainStep ==
  \/ Rebuild(Main) \/ ResetEntry(Main) \/ ResetDone(Main) \/ ResetFails(Main)
  \/ CopyStart(Main) \/ CopyEnds(Main) \/ CopyFails(Main) \/ SetupNetns(Main)
  \/ NetnsRefused(Main) \/ NetnsFails(Main) \/ StartGoldenVM(Main) \/ WaitForAgent(Main)
  \/ PauseGoldenVM(Main) \/ CreateFullSnapshot(Main) \/ DumpAnswered(Main) \/ KillGoldenVM(Main)
  \/ writeSnapshotMeta(Main) \/ BuildFails(Main) \/ Clean(Main)

OtherStep ==
  \/ \E p \in Callers : Accept(p)
  \/ \E p \in Creates : CreateBegins(p) \/ Restore(p)
  \/ GuestWrites \/ DumpState \/ DumpMem \/ VMExits
  \/ \E l \in Lineages : Start(l)
  \/ Crash \/ Reboot

LEMMA OnlyMainBuilds ==
  ASSUME TypeInv, PhaseInv, Next
  PROVE  MainStep \/ OtherStep \/ UNCHANGED vars
<1>1. ASSUME NEW p \in Callers, EnsureStep(p) PROVE MainStep \/ OtherStep
  <2>1. CASE p = Main BY <1>1, <2>1 DEF EnsureStep, MainStep, OtherStep
  <2>2. CASE p \in Creates
    <3>1. pc[p] \in {"idle", "check", "use"} /\ (pc[p] = "check" => FilesExist /\ validateSnapshotMeta)
      BY <2>2 DEF TypeInv, TypeOK, PhaseInv, Callers
    <3>2. Accept(p)
      BY <1>1, <3>1 DEF EnsureStep, Rebuild, ResetEntry, ResetDone, ResetFails, CopyStart, CopyEnds, CopyFails,
        SetupNetns, NetnsRefused, NetnsFails, StartGoldenVM, WaitForAgent, PauseGoldenVM, CreateFullSnapshot,
        DumpAnswered, KillGoldenVM, writeSnapshotMeta, BuildFails, Clean, VMPcs
    <3> QED BY <3>2 DEF OtherStep, Callers
  <2> QED BY <2>1, <2>2 DEF Callers
<1> QED BY <1>1 DEF Next, OtherStep, StaysDown

(* Every step keeps the types. *)
LEMMA NextTypes ==
  ASSUME TypeInv, PhaseInv, BuildInv, Next
  PROVE  TypeInv'
<1> USE GoldenAssumption, PcFacts DEF serverVars, fileVars, vmVars, histVars, Goto, Succeed, Fail, TypeInv, TypeOK,
    Callers
<1>1. CASE Rebuild(Main) BY <1>1 DEF Rebuild
<1>2. CASE ResetEntry(Main)
  BY <1>2, FileFacts, ZenonT(40) DEF ResetEntry
<1>3. CASE ResetDone(Main) BY <1>3 DEF ResetDone
<1>4. CASE ResetFails(Main) BY <1>4 DEF ResetFails
<1>5. CASE CopyStart(Main)
  <2>1. builds + 1 \in Builds /\ root' \in [Builds -> Lineages] /\ base' \in Written
    BY <1>5, FileFacts DEF CopyStart, Builds, Written
  <2> QED BY <1>5, <2>1, FileFacts DEF CopyStart, Builds
<1>6. CASE CopyEnds(Main)
  <2>1. base \in Written BY <1>6, FileFacts DEF CopyEnds
  <2>2. base' \in Written BY <1>6, <2>1, FileFacts, WrittenAt DEF CopyEnds
  <2> QED BY <1>6, <2>2, FileFacts DEF CopyEnds
<1>7. CASE CopyFails(Main) BY <1>7 DEF CopyFails
<1>8. CASE SetupNetns(Main) BY <1>8 DEF SetupNetns
<1>9. CASE NetnsRefused(Main) BY <1>9 DEF NetnsRefused
<1>10. CASE NetnsFails(Main) BY <1>10 DEF NetnsFails
<1>11. CASE StartGoldenVM(Main)
  <2>1. builds \in Builds
    <3>1. base \in Written /\ base.build = builds BY <1>11, FileFacts DEF StartGoldenVM, BuildInv
    <3> QED BY <3>1 DEF Written
  <2> QED BY <1>11, <2>1 DEF StartGoldenVM
<1>12. CASE WaitForAgent(Main) BY <1>12 DEF WaitForAgent
<1>13. CASE PauseGoldenVM(Main) BY <1>13 DEF PauseGoldenVM
<1>14. CASE CreateFullSnapshot(Main)
  BY <1>14, FileFacts DEF CreateFullSnapshot
<1>15. CASE DumpAnswered(Main) BY <1>15 DEF DumpAnswered
<1>16. CASE KillGoldenVM(Main) BY <1>16 DEF KillGoldenVM
<1>17. CASE writeSnapshotMeta(Main) BY <1>17 DEF writeSnapshotMeta
<1>18. CASE BuildFails(Main) BY <1>18 DEF BuildFails
<1>19. CASE Clean(Main) BY <1>19 DEF Clean
<1>20. ASSUME NEW p \in Callers, Accept(p) PROVE TypeInv' BY <1>20 DEF Accept
<1>21. ASSUME NEW p \in Creates, CreateBegins(p) PROVE TypeInv' BY <1>21 DEF CreateBegins
<1>22. ASSUME NEW p \in Creates, Restore(p) PROVE TypeInv'
  <2>1. used' \in Restores BY <1>22 DEF Restore, Restores
  <2> QED BY <1>22, <2>1 DEF Restore
<1>23. CASE GuestWrites
  <2>1. base \in Written BY <1>23, FileFacts DEF GuestWrites
  <2>2. base.at + 1 \in 0..Torn BY <1>23, <2>1 DEF GuestWrites, Written, Torn
  <2>3. base' \in Written BY <1>23, <2>1, <2>2, FileFacts, WrittenAt DEF GuestWrites
  <2> QED BY <1>23, <2>3, FileFacts DEF GuestWrites
<1>24. CASE DumpState
  <2>1. DiskSeen \in 0..Torn BY FileFacts DEF DiskSeen, Written
  <2>2. vmBuild \in Builds BY <1>24 DEF DumpState
  <2>3. state' \in Written /\ mem' \in Written BY <1>24, <2>1, <2>2, FileFacts DEF DumpState, Written
  <2> QED BY <1>24, <2>3, FileFacts DEF DumpState
<1>25. CASE DumpMem
  <2>1. DiskSeen \in 0..Torn BY FileFacts DEF DiskSeen, Written
  <2>2. mem' \in Files BY <1>25, <2>1, FileFacts, WrittenAt DEF DumpMem
  <2> QED BY <1>25, <2>2, FileFacts DEF DumpMem
<1>26. CASE VMExits BY <1>26 DEF VMExits
<1>27. ASSUME NEW l \in Lineages, Start(l) PROVE TypeInv' BY <1>27 DEF Start
<1>28. CASE Crash BY <1>28 DEF Crash, ProcessEnds
<1>29. CASE Reboot
  <2>1. resetCut' \in BOOLEAN BY <1>29 DEF Reboot, ProcessEnds
  <2>2. ns' \in BOOLEAN /\ onBase' \in BOOLEAN /\ left' \in BOOLEAN BY <1>29 DEF Reboot
  <2>3. vm' = "none" /\ vmBuild' \in 0..MaxBuilds BY <1>29 DEF Reboot
  <2>4. pc' \in [Callers -> Pcs] BY <1>29 DEF Reboot, ProcessEnds
  <2>5. phase' = "down" /\ UNCHANGED <<lives, rootfs, base, state, mem, meta, builds, root, used>>
    BY <1>29 DEF Reboot, ProcessEnds
  <2> QED BY <2>1, <2>2, <2>3, <2>4, <2>5
<1>30. CASE UNCHANGED vars BY <1>30 DEF vars
<1> QED
  BY OnlyMainBuilds, <1>1, <1>2, <1>3, <1>4, <1>5, <1>6, <1>7, <1>8, <1>9, <1>10, <1>11, <1>12,
    <1>13, <1>14, <1>15, <1>16, <1>17, <1>18, <1>19, <1>20, <1>21, <1>22, <1>23, <1>24, <1>25,
    <1>26, <1>27, <1>28, <1>29, <1>30 DEF MainStep, OtherStep

(* Who can be where. *)
LEMMA NextPhase ==
  ASSUME TypeInv, PhaseInv, BuildInv, Next
  PROVE  PhaseInv'
<1> USE GoldenAssumption, PcFacts DEF serverVars, fileVars, vmVars, histVars, Goto, Succeed, Fail, PhaseInv, TypeInv,
    TypeOK, Callers, FilesExist, validateSnapshotMeta
<1>1. CASE Rebuild(Main) BY <1>1 DEF Rebuild
<1>2. CASE ResetEntry(Main) BY <1>2 DEF ResetEntry
<1>3. CASE ResetDone(Main) BY <1>3 DEF ResetDone
<1>4. CASE ResetFails(Main) BY <1>4 DEF ResetFails
<1>5. CASE CopyStart(Main) BY <1>5 DEF CopyStart
<1>6. CASE CopyEnds(Main) BY <1>6 DEF CopyEnds
<1>7. CASE CopyFails(Main) BY <1>7 DEF CopyFails
<1>8. CASE SetupNetns(Main) BY <1>8 DEF SetupNetns
<1>9. CASE NetnsRefused(Main) BY <1>9 DEF NetnsRefused
<1>10. CASE NetnsFails(Main) BY <1>10 DEF NetnsFails
<1>11. CASE StartGoldenVM(Main) BY <1>11 DEF StartGoldenVM
<1>12. CASE WaitForAgent(Main) BY <1>12 DEF WaitForAgent
<1>13. CASE PauseGoldenVM(Main) BY <1>13 DEF PauseGoldenVM
<1>14. CASE CreateFullSnapshot(Main) BY <1>14 DEF CreateFullSnapshot
<1>15. CASE DumpAnswered(Main) BY <1>15 DEF DumpAnswered
<1>16. CASE KillGoldenVM(Main) BY <1>16 DEF KillGoldenVM
<1>17. CASE writeSnapshotMeta(Main) BY <1>17 DEF writeSnapshotMeta
<1>18. CASE BuildFails(Main) BY <1>18 DEF BuildFails
<1>19. CASE Clean(Main)
  BY <1>19 DEF Clean, BuildInv
<1>20. ASSUME NEW p \in Callers, Accept(p) PROVE PhaseInv' BY <1>20 DEF Accept
<1>21. ASSUME NEW p \in Creates, CreateBegins(p) PROVE PhaseInv' BY <1>21 DEF CreateBegins
<1>22. ASSUME NEW p \in Creates, Restore(p) PROVE PhaseInv' BY <1>22 DEF Restore
<1>23. CASE GuestWrites
  <2>1. base \in Written BY <1>23, FileFacts DEF GuestWrites
  <2>2. base' \in Written BY <1>23, <2>1, FileFacts DEF GuestWrites, Written, Torn
  <2> QED BY <1>23, <2>2, WrittenIsSomething DEF GuestWrites
<1>24. CASE DumpState
  <2>1. DiskSeen \in 0..Torn BY FileFacts DEF DiskSeen, Written
  <2>2. vmBuild \in Builds BY <1>24 DEF DumpState
  <2>3. state' \in Written /\ mem' \in Written BY <1>24, <2>1, <2>2, FileFacts DEF DumpState, Written
  <2> QED BY <1>24, <2>3, WrittenIsSomething DEF DumpState
<1>25. CASE DumpMem
  <2>1. DiskSeen \in 0..Torn BY FileFacts DEF DiskSeen, Written
  <2>2. mem # None => mem' # None BY <1>25, <2>1, FileFacts, WrittenAt, WrittenIsSomething DEF DumpMem
  <2> QED BY <1>25, <2>2 DEF DumpMem
<1>26. CASE VMExits BY <1>26 DEF VMExits
<1>27. ASSUME NEW l \in Lineages, Start(l) PROVE PhaseInv' BY <1>27 DEF Start
<1>28. CASE Crash BY <1>28 DEF Crash, ProcessEnds
<1>29. CASE Reboot BY <1>29 DEF Reboot, ProcessEnds
<1>30. CASE UNCHANGED vars BY <1>30 DEF vars
<1> QED
  BY OnlyMainBuilds, <1>1, <1>2, <1>3, <1>4, <1>5, <1>6, <1>7, <1>8, <1>9, <1>10, <1>11, <1>12,
    <1>13, <1>14, <1>15, <1>16, <1>17, <1>18, <1>19, <1>20, <1>21, <1>22, <1>23, <1>24, <1>25,
    <1>26, <1>27, <1>28, <1>29, <1>30 DEF MainStep, OtherStep

(* Whose the namespace and the VM are. *)
LEMMA NextNs ==
  ASSUME TypeInv, PhaseInv, NsInv, VMInv, BuildInv, Next
  PROVE  NsInv' /\ VMInv'
<1> USE GoldenAssumption, PcFacts DEF serverVars, fileVars, vmVars, histVars, Goto, Succeed, Fail, PhaseInv, NsInv,
    VMInv, TypeInv, TypeOK, Callers
<1>1. CASE Rebuild(Main) BY <1>1 DEF Rebuild
<1>2. CASE ResetEntry(Main) BY <1>2 DEF ResetEntry
<1>3. CASE ResetDone(Main) BY <1>3 DEF ResetDone
<1>4. CASE ResetFails(Main) BY <1>4 DEF ResetFails
<1>5. CASE CopyStart(Main) BY <1>5 DEF CopyStart
<1>6. CASE CopyEnds(Main) BY <1>6 DEF CopyEnds
<1>7. CASE CopyFails(Main) BY <1>7 DEF CopyFails
<1>8. CASE SetupNetns(Main) BY <1>8 DEF SetupNetns
<1>9. CASE NetnsRefused(Main) BY <1>9 DEF NetnsRefused
<1>10. CASE NetnsFails(Main) BY <1>10 DEF NetnsFails
<1>11. CASE StartGoldenVM(Main) BY <1>11 DEF StartGoldenVM
<1>12. CASE WaitForAgent(Main) BY <1>12 DEF WaitForAgent
<1>13. CASE PauseGoldenVM(Main) BY <1>13 DEF PauseGoldenVM
<1>14. CASE CreateFullSnapshot(Main) BY <1>14 DEF CreateFullSnapshot
<1>15. CASE DumpAnswered(Main) BY <1>15 DEF DumpAnswered
<1>16. CASE KillGoldenVM(Main) BY <1>16 DEF KillGoldenVM
<1>17. CASE writeSnapshotMeta(Main) BY <1>17 DEF writeSnapshotMeta
<1>18. CASE BuildFails(Main) BY <1>18 DEF BuildFails
<1>19. CASE Clean(Main) BY <1>19 DEF Clean
<1>20. ASSUME NEW p \in Callers, Accept(p) PROVE NsInv' /\ VMInv' BY <1>20 DEF Accept
<1>21. ASSUME NEW p \in Creates, CreateBegins(p) PROVE NsInv' /\ VMInv' BY <1>21 DEF CreateBegins
<1>22. ASSUME NEW p \in Creates, Restore(p) PROVE NsInv' /\ VMInv' BY <1>22 DEF Restore
<1>23. CASE GuestWrites BY <1>23 DEF GuestWrites
<1>24. CASE DumpState BY <1>24 DEF DumpState
<1>25. CASE DumpMem BY <1>25 DEF DumpMem
<1>26. CASE VMExits BY <1>26 DEF VMExits
<1>27. ASSUME NEW l \in Lineages, Start(l) PROVE NsInv' /\ VMInv' BY <1>27 DEF Start
<1>28. CASE Crash BY <1>28 DEF Crash, ProcessEnds
<1>29. CASE Reboot BY <1>29 DEF Reboot, ProcessEnds
<1>30. CASE UNCHANGED vars BY <1>30 DEF vars
<1> QED
  BY OnlyMainBuilds, <1>1, <1>2, <1>3, <1>4, <1>5, <1>6, <1>7, <1>8, <1>9, <1>10, <1>11, <1>12,
    <1>13, <1>14, <1>15, <1>16, <1>17, <1>18, <1>19, <1>20, <1>21, <1>22, <1>23, <1>24, <1>25,
    <1>26, <1>27, <1>28, <1>29, <1>30 DEF MainStep, OtherStep

(* How far a build is. *)
LEMMA NextBuild ==
  ASSUME TypeInv, PhaseInv, NsInv, VMInv, BuildInv, BegunInv, Next
  PROVE  BuildInv' /\ BegunInv'
<1> USE GoldenAssumption, PcFacts DEF serverVars, fileVars, vmVars, histVars, Goto, Succeed, Fail, PhaseInv, NsInv,
    VMInv, BuildInv, BegunInv, TypeInv, TypeOK, Callers
<1>1. CASE Rebuild(Main) BY <1>1 DEF Rebuild
<1>2. CASE ResetEntry(Main) BY <1>2 DEF ResetEntry
<1>3. CASE ResetDone(Main) BY <1>3 DEF ResetDone
<1>4. CASE ResetFails(Main) BY <1>4 DEF ResetFails
<1>5. CASE CopyStart(Main)
  <2>1. /\ base' \in Written /\ base' # None /\ base'.build = builds + 1
        /\ builds' = builds + 1 /\ builds + 1 \in Builds /\ pc'[Main] = "copying"
    BY <1>5, FileFacts, WrittenIsSomething DEF CopyStart, Written, Builds
  <2>2. root'[builds + 1] = rootfs /\ rootfs' = rootfs BY <1>5, <2>1 DEF CopyStart
  <2>3. BuildInv' BY <2>1, <2>2
  <2>4. used # None /\ used.base # None => used.base.build \in Nat
    BY FileFacts DEF Restores, Written, Builds
  <2>5. BegunInv' BY <1>5, <2>1, <2>4 DEF CopyStart
  <2> QED BY <2>3, <2>5
<1>6. CASE CopyEnds(Main)
  <2>1. base \in Written BY <1>6, FileFacts DEF CopyEnds
  <2>2. base' # None /\ base'.build = base.build /\ base'.at = 0
    BY <1>6, <2>1, FileFacts, WrittenAt, WrittenIsSomething DEF CopyEnds
  <2> QED BY <1>6, <2>2 DEF CopyEnds, Torn
<1>7. CASE CopyFails(Main) BY <1>7 DEF CopyFails
<1>8. CASE SetupNetns(Main) BY <1>8 DEF SetupNetns
<1>9. CASE NetnsRefused(Main) BY <1>9 DEF NetnsRefused
<1>10. CASE NetnsFails(Main) BY <1>10 DEF NetnsFails
<1>11. CASE StartGoldenVM(Main) BY <1>11 DEF StartGoldenVM
<1>12. CASE WaitForAgent(Main) BY <1>12 DEF WaitForAgent
<1>13. CASE PauseGoldenVM(Main) BY <1>13 DEF PauseGoldenVM
<1>14. CASE CreateFullSnapshot(Main) BY <1>14 DEF CreateFullSnapshot
<1>15. CASE DumpAnswered(Main) BY <1>15 DEF DumpAnswered
<1>16. CASE KillGoldenVM(Main) BY <1>16 DEF KillGoldenVM
<1>17. CASE writeSnapshotMeta(Main) BY <1>17 DEF writeSnapshotMeta
<1>18. CASE BuildFails(Main) BY <1>18 DEF BuildFails
<1>19. CASE Clean(Main) BY <1>19 DEF Clean
<1>20. ASSUME NEW p \in Callers, Accept(p) PROVE BuildInv' /\ BegunInv' BY <1>20 DEF Accept
<1>21. ASSUME NEW p \in Creates, CreateBegins(p) PROVE BuildInv' /\ BegunInv' BY <1>21 DEF CreateBegins
<1>22. ASSUME NEW p \in Creates, Restore(p) PROVE BuildInv' /\ BegunInv' BY <1>22 DEF Restore
<1>23. CASE GuestWrites
  <2>1. base \in Written /\ base.at + 1 \in 0..Torn BY <1>23, FileFacts DEF GuestWrites, Written, Torn
  <2> DEFINE at == IF base.build = vmBuild THEN base.at + 1 ELSE Torn
  <2>a. base' = [base EXCEPT !.at = at] /\ at \in 0..Torn BY <1>23, <2>1, FileFacts DEF GuestWrites
  <2>2. base' # None /\ base'.build = base.build
    BY <2>1, <2>a, WrittenAt, WrittenIsSomething, ZenonT(40)
  <2>3. base.build = vmBuild => base'.at # Torn
    BY <1>23, <2>1, FileFacts, WrittenAt DEF GuestWrites, Torn, Written
  <2>4. pc[Main] \in OwnPcs \ {"cleanErr"} => pc[Main] \in {"agent", "pause"} /\ base.build = vmBuild
    BY <1>23 DEF GuestWrites
  <2>5. pc[Main] = "netns" => ns BY <1>23 DEF GuestWrites
  <2> QED BY <1>23, <2>2, <2>3, <2>4, <2>5 DEF GuestWrites
<1>24. CASE DumpState
  <2>1. DiskSeen \in 0..Torn /\ vmBuild \in Builds BY <1>24, FileFacts DEF DumpState, DiskSeen, Written
  <2>2. mem' # None /\ mem'.build = vmBuild BY <1>24, <2>1, FileFacts, WrittenIsSomething DEF DumpState, Written
  <2>3. pc[Main] = "dump" => state' = base
    <3>1. SUFFICES ASSUME pc[Main] = "dump" PROVE state' = base OBVIOUS
    <3>2. base \in Written /\ base.build = vmBuild /\ DiskSeen = base.at
      BY <1>24, <3>1, FileFacts DEF DumpState, DiskSeen
    <3> QED BY <1>24, <3>2, WrittenIs DEF DumpState
  <2>4. pc[Main] \in OwnPcs \ {"cleanErr"} => pc[Main] = "dump" BY <1>24 DEF DumpState
  <2> QED BY <1>24, <2>2, <2>3, <2>4 DEF DumpState
<1>25. CASE DumpMem
  <2>1. DiskSeen \in 0..Torn BY FileFacts DEF DiskSeen, Written
  <2>2. pc[Main] = "dump" => mem' = base
    <3>1. SUFFICES ASSUME pc[Main] = "dump" PROVE mem' = base OBVIOUS
    <3>2. base \in Written /\ mem \in Written /\ mem.build = base.build /\ DiskSeen = base.at
      BY <1>25, <3>1, FileFacts DEF DumpMem, DiskSeen
    <3>3. mem' = [build |-> base.build, at |-> base.at] BY <1>25, <2>1, <3>1, <3>2, WrittenAt DEF DumpMem
    <3> QED BY <3>2, <3>3, WrittenIs
  <2>3. pc[Main] \in OwnPcs \ {"cleanErr"} => pc[Main] = "dump" BY <1>25 DEF DumpMem
  <2> QED BY <1>25, <2>2, <2>3 DEF DumpMem
<1>26. CASE VMExits BY <1>26 DEF VMExits
<1>27. ASSUME NEW l \in Lineages, Start(l) PROVE BuildInv' /\ BegunInv' BY <1>27 DEF Start
<1>28. CASE Crash BY <1>28 DEF Crash, ProcessEnds
<1>29. CASE Reboot BY <1>29 DEF Reboot, ProcessEnds
<1>30. CASE UNCHANGED vars BY <1>30 DEF vars
<1> QED
  BY OnlyMainBuilds, <1>1, <1>2, <1>3, <1>4, <1>5, <1>6, <1>7, <1>8, <1>9, <1>10, <1>11, <1>12,
    <1>13, <1>14, <1>15, <1>16, <1>17, <1>18, <1>19, <1>20, <1>21, <1>22, <1>23, <1>24, <1>25,
    <1>26, <1>27, <1>28, <1>29, <1>30 DEF MainStep, OtherStep

(* What the metadata vouches for. *)
LEMMA NextMeta ==
  ASSUME TypeInv, PhaseInv, NsInv, VMInv, BuildInv, BegunInv, MetaInv, Next
  PROVE  MetaInv'
<1> USE GoldenAssumption, PcFacts DEF serverVars, fileVars, vmVars, histVars, Goto, Succeed, Fail, PhaseInv, NsInv,
    VMInv, BuildInv, BegunInv, MetaInv, TypeInv, TypeOK, Callers, FilesExist, validateSnapshotMeta, Empty
<1>1. CASE Rebuild(Main) BY <1>1 DEF Rebuild
<1>2. CASE ResetEntry(Main) BY <1>2 DEF ResetEntry
<1>3. CASE ResetDone(Main) BY <1>3 DEF ResetDone
<1>4. CASE ResetFails(Main) BY <1>4 DEF ResetFails
<1>5. CASE CopyStart(Main) BY <1>5 DEF CopyStart
<1>6. CASE CopyEnds(Main) BY <1>6 DEF CopyEnds
<1>7. CASE CopyFails(Main) BY <1>7 DEF CopyFails
<1>8. CASE SetupNetns(Main) BY <1>8 DEF SetupNetns
<1>9. CASE NetnsRefused(Main) BY <1>9 DEF NetnsRefused
<1>10. CASE NetnsFails(Main) BY <1>10 DEF NetnsFails
<1>11. CASE StartGoldenVM(Main) BY <1>11 DEF StartGoldenVM
<1>12. CASE WaitForAgent(Main) BY <1>12 DEF WaitForAgent
<1>13. CASE PauseGoldenVM(Main) BY <1>13 DEF PauseGoldenVM
<1>14. CASE CreateFullSnapshot(Main) BY <1>14 DEF CreateFullSnapshot
<1>15. CASE DumpAnswered(Main) BY <1>15 DEF DumpAnswered
<1>16. CASE KillGoldenVM(Main) BY <1>16 DEF KillGoldenVM
<1>17. CASE writeSnapshotMeta(Main) BY <1>17 DEF writeSnapshotMeta
<1>18. CASE BuildFails(Main) BY <1>18 DEF BuildFails
<1>19. CASE Clean(Main) BY <1>19 DEF Clean
<1>20. ASSUME NEW p \in Callers, Accept(p) PROVE MetaInv' BY <1>20 DEF Accept
<1>21. ASSUME NEW p \in Creates, CreateBegins(p) PROVE MetaInv' BY <1>21 DEF CreateBegins
<1>22. ASSUME NEW p \in Creates, Restore(p) PROVE MetaInv' BY <1>22 DEF Restore
<1>23. CASE GuestWrites BY <1>23 DEF GuestWrites
<1>24. CASE DumpState BY <1>24 DEF DumpState
<1>25. CASE DumpMem BY <1>25 DEF DumpMem
<1>26. CASE VMExits BY <1>26 DEF VMExits
<1>27. ASSUME NEW l \in Lineages, Start(l) PROVE MetaInv' BY <1>27 DEF Start
<1>28. CASE Crash BY <1>28 DEF Crash, ProcessEnds
<1>29. CASE Reboot BY <1>29 DEF Reboot, ProcessEnds
<1>30. CASE UNCHANGED vars BY <1>30 DEF vars
<1> QED
  BY OnlyMainBuilds, <1>1, <1>2, <1>3, <1>4, <1>5, <1>6, <1>7, <1>8, <1>9, <1>10, <1>11, <1>12,
    <1>13, <1>14, <1>15, <1>16, <1>17, <1>18, <1>19, <1>20, <1>21, <1>22, <1>23, <1>24, <1>25,
    <1>26, <1>27, <1>28, <1>29, <1>30 DEF MainStep, OtherStep

(* What a create has restored. *)
LEMMA NextUsed ==
  ASSUME TypeInv, PhaseInv, NsInv, VMInv, BuildInv, BegunInv, MetaInv, UsedIsWhole, Next
  PROVE  UsedIsWhole'
<1> USE GoldenAssumption, PcFacts DEF serverVars, fileVars, vmVars, histVars, Goto, Succeed, Fail, PhaseInv, NsInv,
    BegunInv, MetaInv, UsedIsWhole, Whole, TypeInv, TypeOK, Callers, FilesExist, validateSnapshotMeta, Empty
<1>1. CASE Rebuild(Main) BY <1>1 DEF Rebuild
<1>2. CASE ResetEntry(Main) BY <1>2 DEF ResetEntry
<1>3. CASE ResetDone(Main) BY <1>3 DEF ResetDone
<1>4. CASE ResetFails(Main) BY <1>4 DEF ResetFails
<1>5. CASE CopyStart(Main) BY <1>5 DEF CopyStart
<1>6. CASE CopyEnds(Main) BY <1>6 DEF CopyEnds
<1>7. CASE CopyFails(Main) BY <1>7 DEF CopyFails
<1>8. CASE SetupNetns(Main) BY <1>8 DEF SetupNetns
<1>9. CASE NetnsRefused(Main) BY <1>9 DEF NetnsRefused
<1>10. CASE NetnsFails(Main) BY <1>10 DEF NetnsFails
<1>11. CASE StartGoldenVM(Main) BY <1>11 DEF StartGoldenVM
<1>12. CASE WaitForAgent(Main) BY <1>12 DEF WaitForAgent
<1>13. CASE PauseGoldenVM(Main) BY <1>13 DEF PauseGoldenVM
<1>14. CASE CreateFullSnapshot(Main) BY <1>14 DEF CreateFullSnapshot
<1>15. CASE DumpAnswered(Main) BY <1>15 DEF DumpAnswered
<1>16. CASE KillGoldenVM(Main) BY <1>16 DEF KillGoldenVM
<1>17. CASE writeSnapshotMeta(Main) BY <1>17 DEF writeSnapshotMeta
<1>18. CASE BuildFails(Main) BY <1>18 DEF BuildFails
<1>19. CASE Clean(Main) BY <1>19 DEF Clean
<1>20. ASSUME NEW p \in Callers, Accept(p) PROVE UsedIsWhole' BY <1>20 DEF Accept
<1>21. ASSUME NEW p \in Creates, CreateBegins(p) PROVE UsedIsWhole' BY <1>21 DEF CreateBegins
<1>22. ASSUME NEW p \in Creates, Restore(p) PROVE UsedIsWhole'
  <2>1. pc[p] = "use" /\ p \in Callers /\ rootfs # None BY <1>22 DEF Restore, None
  <2>2. phase = "serving" /\ meta = rootfs /\ pc[Main] # "reset" BY <1>22, <2>1
  <2>3. /\ used'.base = base /\ used'.state = state /\ used'.mem = mem /\ used'.rootfs = rootfs
        /\ root' = root /\ resetCut' = resetCut
    BY <1>22 DEF Restore
  <2> QED BY <2>1, <2>2, <2>3
<1>23. CASE GuestWrites BY <1>23 DEF GuestWrites
<1>24. CASE DumpState BY <1>24 DEF DumpState
<1>25. CASE DumpMem BY <1>25 DEF DumpMem
<1>26. CASE VMExits BY <1>26 DEF VMExits
<1>27. ASSUME NEW l \in Lineages, Start(l) PROVE UsedIsWhole' BY <1>27 DEF Start
<1>28. CASE Crash BY <1>28 DEF Crash, ProcessEnds
<1>29. CASE Reboot BY <1>29 DEF Reboot, ProcessEnds
<1>30. CASE UNCHANGED vars BY <1>30 DEF vars
<1> QED
  BY OnlyMainBuilds, <1>1, <1>2, <1>3, <1>4, <1>5, <1>6, <1>7, <1>8, <1>9, <1>10, <1>11, <1>12,
    <1>13, <1>14, <1>15, <1>16, <1>17, <1>18, <1>19, <1>20, <1>21, <1>22, <1>23, <1>24, <1>25,
    <1>26, <1>27, <1>28, <1>29, <1>30 DEF MainStep, OtherStep

-----------------------------------------------------------------------------
LEMMA InitInv == Init => IInv
<1> SUFFICES ASSUME Init PROVE IInv OBVIOUS
<1> USE GoldenAssumption, PcFacts DEF Init, Callers
<1>1. TypeInv
  <2>1. ns \in BOOLEAN /\ onBase \in BOOLEAN /\ resetCut \in BOOLEAN /\ left \in BOOLEAN OBVIOUS
  <2>2. pc \in [Callers -> Pcs] /\ root \in [Builds -> Lineages] OBVIOUS
  <2> QED BY <2>1, <2>2, FileFacts DEF TypeInv, TypeOK
<1>2. PhaseInv /\ NsInv /\ VMInv /\ BuildInv BY DEF PhaseInv, NsInv, VMInv, BuildInv
<1>3. BegunInv /\ MetaInv /\ UsedIsWhole BY DEF BegunInv, MetaInv, UsedIsWhole
<1> QED BY <1>1, <1>2, <1>3 DEF IInv

LEMMA NextInv == IInv /\ [Next]_vars => IInv'
<1> SUFFICES ASSUME IInv, [Next]_vars PROVE IInv' OBVIOUS
<1>1. CASE Next
  BY <1>1, NextTypes, NextPhase, NextNs, NextBuild, NextMeta, NextUsed DEF IInv
<1>2. CASE UNCHANGED vars
  BY <1>2 DEF IInv, TypeInv, TypeOK, PhaseInv, NsInv, VMInv, BuildInv, BegunInv, MetaInv, UsedIsWhole, FilesExist,
    validateSnapshotMeta, Whole, vars, serverVars, fileVars, vmVars, histVars
<1> QED BY <1>1, <1>2

(* The inductive invariant holds in every state of every run. *)
LEMMA Invariance == Spec => []IInv
BY InitInv, NextInv, PTL DEF Spec

(* Type correctness of the golden snapshot's files, VM and callers. *)
THEOREM GoldenTypes == Spec => []TypeOK
<1>1. IInv => TypeOK BY DEF IInv, TypeInv
<1> QED BY <1>1, Invariance, PTL

(* ensureSnapshot and restoreSandboxFromArtifacts: what a create restores is whole, of
   one build and of the configured rootfs, after any number of failed builds, crashes,
   reboots and changes of the rootfs, as long as no removal was cut short. *)
THEOREM RestoredIsWhole == Spec => []UsedIsWhole
<1>1. IInv => UsedIsWhole BY DEF IInv
<1> QED BY <1>1, Invariance, PTL

(* setupSandboxNetnsAndRouting("snapshot"): the name manta-snapshot is taken only if a
   crash or a failed setup left it behind; the build's own undo never does. *)
THEOREM RefusedOnlyByLeftover == Spec => []RefusedOnlyIfLeft
<1>1. IInv => RefusedOnlyIfLeft
  <2> SUFFICES ASSUME IInv, NEW p \in Callers, pc[p] = "refused" PROVE left BY DEF RefusedOnlyIfLeft
  <2>1. p = Main BY PcFacts DEF IInv, TypeInv, TypeOK, PhaseInv, Callers
  <2> QED BY <2>1 DEF IInv, NsInv
<1> QED BY <1>1, Invariance, PTL

(* While the server serves, no step of it and no golden VM changes the files every
   sandbox shares. *)
THEOREM ServedNeverChanges == Spec => ServedIsImmutable
<1>1. IInv /\ [Next]_vars =>
        [phase = "serving" /\ phase' = "serving" /\ ~resetCut => UNCHANGED <<base, state, mem>>]_vars
  <2> SUFFICES ASSUME IInv, Next, phase = "serving", phase' = "serving", ~resetCut
               PROVE  UNCHANGED <<base, state, mem>>
    OBVIOUS
  <2> USE DEF serverVars, fileVars, vmVars, histVars
  <2>1. meta # None /\ pc[Main] = "idle"
    BY GoldenAssumption DEF IInv, PhaseInv, validateSnapshotMeta, TypeInv, TypeOK, None
  <2>2. vm = "none" BY <2>1 DEF IInv, MetaInv
  <2>3. ~MainStep
    BY <2>1, PcFacts DEF MainStep, Rebuild, ResetEntry, ResetDone, ResetFails, CopyStart, CopyEnds, CopyFails,
      SetupNetns, NetnsRefused, NetnsFails, StartGoldenVM, WaitForAgent, PauseGoldenVM, CreateFullSnapshot,
      DumpAnswered, KillGoldenVM, writeSnapshotMeta, BuildFails, Clean
  <2>4. OtherStep \/ UNCHANGED vars BY <2>3, OnlyMainBuilds DEF IInv
  <2> QED BY <2>2, <2>4 DEF OtherStep, Accept, CreateBegins, Restore, GuestWrites, DumpState, DumpMem, VMExits,
       Start, Crash, Reboot, ProcessEnds, vars
<1> QED BY <1>1, Invariance, PTL DEF Spec, ServedIsImmutable
=============================================================================
