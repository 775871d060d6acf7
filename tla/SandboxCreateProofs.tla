-------------------------- MODULE SandboxCreateProofs --------------------------
(***************************************************************************)
(* Proofs about module SandboxCreate for every set of workers, every pool, *)
(* every configuration and every bound.  The slots are those of HostNetns  *)
(* and their invariant is the one of HostNetnsProofs.                      *)
(***************************************************************************)
EXTENDS SandboxCreate, HostNetnsProofs

CreateTypes ==
  /\ pc \in [Workers -> CreatePcs]
  /\ cur \in [Workers -> SandboxIds \cup {NoId}]
  /\ kind \in [Workers -> Kinds \cup {"none"}]
  /\ clone \in [Workers -> {"none", "running", "ok", "failed"}]
  /\ cgPath \subseteq Workers
  /\ dirs \subseteq SandboxIds
  /\ cgDirs \subseteq SandboxIds
  /\ vms \subseteq VMs

(* The places of a worker whose VM was started and not yet killed, and all places
   with a slot in hand. *)
VMPcs   == {"socket", "attach", "load", "agent", "guestnet", "running"}
SlotPcs == VMPcs \cup {"start", "undo", "wait", "free"}

(* A worker that has a sandbox has its id to itself, and from the end of the
   preparation to the end of the sandbox a slot. *)
WorkInv ==
  /\ \A p \in Workers : pc[p] = "idle" <=> step[p] = "idle"
  /\ \A p \in Workers : pc[p] = "idle" <=> cur[p] = NoId
  /\ \A p \in Workers : pc[p] \in SlotPcs => step[p] = "held"
  /\ \A p \in Workers : pc[p] # "idle" => kind[p] \in Kinds
  /\ \A p \in Workers : cur[p] <= nextSandboxID
  /\ \A p, q \in Workers : pc[p] # "idle" /\ cur[p] = cur[q] => p = q

(* A VM of this life that nobody has killed belongs to a worker that will. *)
OwnedBy(v, p) == cur[p] = v.id /\ pc[p] \in VMPcs /\ nc[p].ns = v.ns
VMInv ==
  /\ \A v \in vms : v.life <= restarts
  /\ phase # "down" => \A v \in Alive : \E p \in Workers : OwnedBy(v, p)

(* A directory of the first life belongs to a worker that removes it. *)
DirInv ==
  phase # "down" /\ restarts = 0 /\ ~KeepFailedSandboxes => \A i \in dirs : Working(i)

(* While the pool is filled every slot of it is ready. *)
FillInv == phase = "init" => \A c \in all : \E i \in 1..Len(ch) : ch[i] = c

(* In one life of the server a sandbox has one process, and an id no process before. *)
UniqueInv ==
  /\ \A v, w \in vms : v.life = w.life /\ v.id = w.id => v = w
  /\ phase # "down" => \A v \in vms : v.life = restarts => v.id <= nextSandboxID
  /\ \A p \in Workers : pc[p] \in {"prep", "start"} => \A v \in vms : ~Own(p, v)

(* A worker that has a cgroup made it, and nobody is in it before its own process. *)
CgInv ==
  /\ \A p \in cgPath : pc[p] \notin {"idle", "prep", "start"} /\ cur[p] \in cgDirs
  /\ \A p \in cgPath : pc[p] \in {"socket", "attach"} => \A v \in vms : v.cg => v.id # cur[p]
  /\ CgroupReachesItsVM

CreateInv ==
  /\ NetInv /\ CreateTypes /\ WorkInv /\ VMInv /\ DirInv
  /\ FillInv /\ PoolConserved /\ UniqueInv /\ CgInv

-----------------------------------------------------------------------------
(* What the pool keeps.                                                      *)

(* The names of pool slots are no sandbox's. *)
LEMMA PoolNames ==
  ASSUME NetInv, NEW p \in Workers, Demand(p)
  PROVE  \A c \in all : c.ns # nc[p].ns
<1>1. PICK n \in 0..PoolSize : Filled(n) BY DEF NetInv, SlotInv
<1>2. PICK k : nc[p].ns = SandboxName(k) BY DEF NetInv, DemandInv
<1> QED BY <1>1, <1>2, SlotFacts, NameFacts DEF Filled

(* A step of p that frees no slot, and makes or links no name but its own. *)
LEMMA ConservedFromOthers ==
  ASSUME PoolConserved, phase' = phase, all' = all, ch' = ch, NEW p \in Workers, ~Pooled(p),
         \A c \in all : c.pooled,
         \A q \in Workers \ {p} : step'[q] = step[q] /\ nc'[q] = nc[q],
         NEW n, \A c \in all : c.ns # n, nss' \subseteq nss \cup {n},
         \A s \in Subnets : veth'[s] \in {veth[s], Absent, Root, n},
         \A c \in all : c.ns \in Names
  PROVE  PoolConserved'
<1> SUFFICES ASSUME phase = "serving", NEW c \in all
             PROVE  \/ \E i \in 1..Len(ch) : ch[i] = c
                    \/ \E q \in Workers : step'[q] = "held" /\ nc'[q] = c
                    \/ c.ns \notin nss' /\ \A s \in Subnets : veth'[s] # c.ns
  BY DEF PoolConserved
<1>1. CASE \E i \in 1..Len(ch) : ch[i] = c BY <1>1
<1>2. CASE \E q \in Workers : step[q] = "held" /\ nc[q] = c
  <2>1. PICK q \in Workers : step[q] = "held" /\ nc[q] = c BY <1>2
  <2>2. q # p BY <2>1 DEF Pooled
  <2> QED BY <2>1, <2>2
<1>3. CASE c.ns \notin nss /\ \A s \in Subnets : veth[s] # c.ns
  BY <1>3, NameFacts
<1> QED BY <1>1, <1>2, <1>3 DEF PoolConserved

(* The slots of the pool are pooled and have names. *)
LEMMA PoolSlots ==
  ASSUME NetInv
  PROVE  \A c \in all : c.pooled /\ c.ns \in Names
<1>1. PICK n \in 0..PoolSize : Filled(n) BY DEF NetInv, SlotInv
<1>2. all \subseteq Configs BY DEF NetInv, TypeInv, PoolTypes
<1> QED BY <1>1, <1>2, SlotFacts, ConfigFacts DEF Filled

(* While the pool is filled, only the main goroutine changes it. *)
LEMMA NextFill ==
  ASSUME NetInv, FillInv, [NetNext]_netVars
  PROVE  FillInv'
<1> USE DEF NetInv, TypeInv, PoolTypes, StepTypes
<1> SUFFICES ASSUME phase' = "init", NEW c \in all' PROVE \E i \in 1..Len(ch') : ch'[i] = c BY DEF FillInv
<1>1. CASE all' = all /\ ch' = ch /\ phase = "init" BY <1>1 DEF FillInv
<1>2. CASE SetupDone(Main)
  <2>1. /\ all' = all \cup {nc[Main]} /\ ch' = Append(ch, nc[Main]) /\ phase = "init"
        /\ step[Main] \in {"config", "away"}
    BY <1>2 DEF SetupDone, MayStray, At
  <2>2. nc[Main] \in Configs BY <2>1, StepFacts
  <2>3. /\ \A i \in 1..Len(ch) : i \in 1..Len(ch') /\ ch'[i] = ch[i]
        /\ Len(ch) + 1 \in 1..Len(ch') /\ ch'[Len(ch) + 1] = nc[Main]
    BY <2>1, <2>2, ChannelFacts, LenProperties
  <2> QED BY <2>1, <2>3 DEF FillInv
<1>3. CASE Restart BY <1>3 DEF Restart, PhaseInv, poolVars
<1>4. CASE ProcessEnds BY <1>4 DEF ProcessEnds
<1>5. ASSUME NEW p \in Workers, WorkerStep(p), phase = "init" PROVE FALSE
  <2>1. step[p] = "idle" /\ phase = "init" BY <1>5 DEF PhaseInv
  <2> QED BY <1>5, <2>1, StepFacts DEF WorkerStep, SetupStep, acquireNetns, AcquirePooled, AcquireOnDemand,
        releaseNetns, DiscardNetns, SetupName, SetupLink, SetupMove, SetupRange, SetupDone, SetupIOError,
        SetupFailed, At
<1>6. ASSUME NEW p \in Workers, WorkerStep(p) PROVE phase = "init"
  BY <1>6 DEF WorkerStep, SetupStep, acquireNetns, AcquirePooled, AcquireOnDemand, releaseNetns, DiscardNetns,
     SetupName, SetupLink, SetupMove, SetupRange, SetupDone, SetupIOError, SetupFailed, MayStray, serverVars
<1>7. CASE SetupStep(Main) /\ ~SetupDone(Main)
  BY <1>1, <1>7 DEF SetupStep, SetupName, SetupLink, SetupMove, SetupRange, SetupIOError, MayStray,
     poolVars, serverVars
<1>8. CASE PoolInitSlot BY <1>1, <1>8 DEF PoolInitSlot, poolVars, serverVars
<1>9. CASE Serve BY <1>9 DEF Serve
<1>10. CASE PoolDestroy BY <1>10 DEF PoolDestroy
<1>11. CASE UNCHANGED netVars BY <1>1, <1>11 DEF netVars, poolVars, serverVars
<1>12. CASE NamelessNsDies BY <1>1, <1>12 DEF NamelessNsDies, poolVars, serverVars
<1> QED BY <1>2, <1>3, <1>4, <1>5, <1>6, <1>7, <1>8, <1>9, <1>10, <1>11, <1>12
        DEF NetNext, PoolInitFailed, Crash, StaysDown

(* While the server serves, no step loses a slot of the pool. *)
LEMMA NextConserved ==
  ASSUME NetInv, FillInv, PoolConserved, [NetNext]_netVars
  PROVE  PoolConserved'
<1> USE PoolSlots
<1> SUFFICES ASSUME phase' = "serving" PROVE PoolConserved' BY DEF PoolConserved
<1>1. CASE UNCHANGED netVars
  BY <1>1 DEF netVars, kernelVars, poolVars, serverVars, PoolConserved
<1>2. CASE Serve
  BY <1>2 DEF Serve, FillInv, poolVars, PoolConserved
<1>3. ASSUME NEW p \in Goroutines, SetupStep(p) \/ SetupFailed(p) PROVE PoolConserved'
  <2>1. phase = "serving" /\ phase # "down"
    BY <1>3 DEF SetupStep, SetupName, SetupLink, SetupMove, SetupRange, SetupDone, SetupIOError, SetupFailed,
       MayStray, serverVars
  <2>2. step[Main] = "idle" BY <2>1 DEF NetInv, PhaseInv
  <2>3. p # Main
    BY <1>3, <2>2, StepFacts DEF SetupStep, SetupName, SetupLink, SetupMove, SetupRange, SetupDone, SetupIOError,
       SetupFailed, At
  <2>4. p \in Workers BY <2>3 DEF Goroutines
  <2>5. /\ phase' = phase /\ all' = all /\ ch' = ch /\ \A q \in Workers \ {p} : step'[q] = step[q] /\ nc'[q] = nc[q]
    BY <1>3, <2>3, StepFacts DEF SetupStep, SetupName, SetupLink, SetupMove, SetupRange, SetupDone, SetupIOError,
       SetupFailed, MayStray, serverVars, poolVars, Goto, NetInv, TypeInv, StepTypes
  <2>6. /\ step[p] \in SetupSteps \cup FailedSteps /\ (SetupFailed(p) \/ step[p] \in SetupSteps)
    BY <1>3, StepFacts DEF SetupStep, SetupName, SetupLink, SetupMove, SetupRange, SetupDone, SetupIOError,
       SetupFailed, At
  <2>7. ~Pooled(p) BY <2>6, StepFacts DEF Pooled
  <2>8. CASE SetupFailed(p)
    <3>1. /\ nss' = nss /\ veth' = veth BY <2>8 DEF SetupFailed, kernelVars
    <3>2. \A c \in all : c.ns # Absent BY NameFacts
    <3> QED BY <2>4, <2>5, <2>7, <3>1, <3>2, ConservedFromOthers
  <2>9. CASE ~SetupFailed(p)
    <3>1. \A c \in all : c.ns # nc[p].ns BY <2>4, <2>6, <2>9, PoolNames DEF Demand
    <3>2. nss' \subseteq nss \cup {nc[p].ns}
      BY <1>3, <2>9 DEF SetupStep, SetupName, SetupLink, SetupMove, SetupRange, SetupDone, SetupIOError, TakeApart,
         kernelVars
    <3>3. \A s \in Subnets : veth'[s] \in {veth[s], Absent, Root, nc[p].ns}
      BY <1>3, <2>9 DEF SetupStep, SetupName, SetupLink, SetupMove, SetupRange, SetupDone, SetupIOError, TakeApart,
         DeleteNs, kernelVars, NetInv, TypeInv, KernelTypes
    <3> QED BY <2>4, <2>5, <2>7, <3>1, <3>2, <3>3, ConservedFromOthers
  <2> QED BY <2>8, <2>9
<1>4. ASSUME NEW p \in Workers, acquireNetns(p) \/ AcquireOnDemand(p) PROVE PoolConserved'
  <2>1. /\ phase' = phase /\ all' = all /\ ch' = ch /\ nss' = nss /\ veth' = veth /\ step[p] # "held"
        /\ \A q \in Workers \ {p} : step'[q] = step[q] /\ nc'[q] = nc[q]
    BY <1>4, StepFacts DEF acquireNetns, AcquireOnDemand, kernelVars, serverVars, At, Goto, NetInv, TypeInv, StepTypes
  <2>2. \A c \in all : c.ns # Absent BY NameFacts
  <2> QED BY <2>1, <2>2, ConservedFromOthers DEF Pooled
<1>5. ASSUME NEW p \in Workers, AcquirePooled(p) PROVE PoolConserved'
  <2>1. PICK c \in Configs : c = Head(ch) /\ c = ch[1]
    BY <1>5, ChannelFacts DEF AcquirePooled, NetInv, TypeInv, PoolTypes
  <2>2. /\ nc'[p] = c /\ step[p] = "acquire" /\ step'[p] = "held" /\ ch' = Tail(ch)
        /\ \A q \in Workers \ {p} : step'[q] = step[q] /\ nc'[q] = nc[q]
        /\ UNCHANGED <<nss, veth, phase, all>>
    BY <1>5, <2>1, StepFacts DEF AcquirePooled, At, Goto, kernelVars, serverVars, NetInv, TypeInv, StepTypes
  <2>3. \A i \in 1..Len(ch) : ch[i] = c \/ \E j \in 1..Len(ch') : ch'[j] = ch[i]
    <3>1. ch # <<>> /\ ch \in Seq(Configs) BY <1>5 DEF AcquirePooled, NetInv, TypeInv, PoolTypes
    <3>2. \A i \in 1..Len(ch) : i = 1 \/ (i - 1 \in 1..Len(Tail(ch)) /\ Tail(ch)[i - 1] = ch[i])
      BY <3>1, ChannelFacts
    <3> QED BY <2>1, <2>2, <3>2
  <2>4. ASSUME NEW d \in all PROVE \/ d = c \/ \E i \in 1..Len(ch') : ch'[i] = d
                                   \/ \E q \in Workers \ {p} : step[q] = "held" /\ nc[q] = d
                                   \/ d.ns \notin nss /\ \A s \in Subnets : veth[s] # d.ns
    BY <2>2, <2>3 DEF PoolConserved
  <2> QED BY <2>2, <2>4 DEF PoolConserved
<1>6. ASSUME NEW p \in Workers, releaseNetns(p) \/ DiscardNetns(p) PROVE PoolConserved'
  <2>1. /\ phase' = phase /\ all' = all /\ step[p] = "held"
        /\ \A q \in Workers \ {p} : step'[q] = step[q] /\ nc'[q] = nc[q]
    BY <1>6, StepFacts DEF releaseNetns, DiscardNetns, poolVars, serverVars, At, Goto, NetInv, TypeInv, StepTypes
  <2>2. nc[p] \in Configs /\ nc[p].ns \in Names BY <2>1, StepFacts, ConfigFacts DEF NetInv, TypeInv, StepTypes
  <2>3. CASE nc[p].pooled /\ ch' = Append(ch, nc[p]) /\ UNCHANGED kernelVars
    <3>1. /\ \A i \in 1..Len(ch) : i \in 1..Len(ch') /\ ch'[i] = ch[i]
          /\ Len(ch) + 1 \in 1..Len(ch') /\ ch'[Len(ch) + 1] = nc[p]
      BY <2>2, <2>3, ChannelFacts, LenProperties DEF NetInv, TypeInv, PoolTypes
    <3> QED BY <2>1, <2>3, <3>1 DEF PoolConserved, kernelVars
  <2>4. CASE ch' = ch /\ Cleanup(nc[p].ns, nc[p].subnet)
    <3>1. nss' \subseteq nss /\ nc[p].ns \notin nss' BY <2>4 DEF Cleanup
    <3>2. \A s \in Subnets : veth'[s] \in {veth[s], Absent, Lost} /\ veth'[s] # nc[p].ns
      BY <2>2, <2>4, NameFacts DEF Cleanup, NetInv, TypeInv, KernelTypes
    <3>3. ASSUME NEW c \in all PROVE \/ c = nc[p] \/ \E i \in 1..Len(ch) : ch[i] = c
                                     \/ \E q \in Workers \ {p} : step[q] = "held" /\ nc[q] = c
                                     \/ c.ns \notin nss /\ \A s \in Subnets : veth[s] # c.ns
      BY <2>1 DEF PoolConserved
    <3>4. \A c \in all : c.ns # Absent /\ c.ns # Lost BY NameFacts
    <3> QED BY <2>1, <2>4, <3>1, <3>2, <3>3, <3>4 DEF PoolConserved
  <2> QED BY <1>6, <2>3, <2>4 DEF releaseNetns, DiscardNetns, poolVars
<1>7. CASE PoolInitSlot \/ PoolDestroy \/ ProcessEnds \/ Restart
  BY <1>7 DEF PoolInitSlot, PoolDestroy, ProcessEnds, Restart, serverVars
<1>8. CASE NamelessNsDies
  <2>1. UNCHANGED <<nss, phase, all, ch, step, nc>> BY <1>8 DEF NamelessNsDies, poolVars, serverVars
  <2>2. \A s \in Subnets : veth'[s] \in {veth[s], Absent}
    BY <1>8 DEF NamelessNsDies, NetInv, TypeInv, KernelTypes
  <2>3. \A c \in all : c.ns # Absent BY NameFacts
  <2> QED BY <2>1, <2>2, <2>3 DEF PoolConserved
<1> QED BY <1>1, <1>2, <1>3, <1>4, <1>5, <1>6, <1>7, <1>8, StepFacts
        DEF NetNext, WorkerStep, PoolInitFailed, Crash, StaysDown

-----------------------------------------------------------------------------
(* The slots, under the steps of creates and teardowns.                      *)

(* A refused create uses up an id and nothing else. *)
IdSpent ==
  /\ phase = "serving" /\ nextSandboxID < MaxSandboxes
  /\ nextSandboxID' = nextSandboxID + 1
  /\ UNCHANGED <<kernelVars, serverVars, nextSubnet, all, ch, step, nc>>

(* Every other step is one of HostNetns, or leaves the slots alone. *)
LEMMA CreateIsNet ==
  ASSUME [CreateNext]_allVars
  PROVE  [NetNext]_netVars \/ IdSpent
<1> USE StepFacts
<1>1. CASE PoolStep
  BY <1>1 DEF PoolStep, NetNext, SetupStep
<1>2. ASSUME NEW p \in Workers, PrepStart(p) PROVE NetNext BY <1>2 DEF PrepStart, NetNext, WorkerStep
<1>3. ASSUME NEW p \in Workers, PrepRefused(p) PROVE IdSpent BY <1>3 DEF PrepRefused, IdSpent
<1>4. ASSUME NEW p \in Workers, NetnsStep(p) PROVE NetNext
  BY <1>4 DEF NetnsStep, NetNext, WorkerStep, SetupStep
<1>5. ASSUME NEW p \in Workers, PrepFails(p) \/ StartFails(p) \/ Undo(p) \/ TeardownFree(p) PROVE NetNext
  BY <1>5 DEF PrepFails, StartFails, Undo, TeardownFree, NetNext, WorkerStep, SetupStep
<1>6. ASSUME NEW p \in Workers,
             \/ CloneEnds(p) \/ PrepOK(p) \/ StartVM(p) \/ Attach(p) \/ BootAdvances(p) \/ BootFails(p)
             \/ TeardownKill(p) \/ TeardownWait(p)
      PROVE  UNCHANGED netVars
  BY <1>6 DEF CloneEnds, PrepOK, StartVM, Attach, BootAdvances, BootFails, TeardownKill, TeardownWait
<1>7. CASE VMExits BY <1>7 DEF VMExits
<1>8. CASE ServerEnds BY <1>8 DEF ServerEnds, NetNext
<1>9. CASE ServerRestarts BY <1>9 DEF ServerRestarts, NetNext
<1>10. CASE UNCHANGED allVars BY <1>10 DEF allVars
<1> QED BY <1>1, <1>2, <1>3, <1>4, <1>5, <1>6, <1>7, <1>8, <1>9, <1>10
        DEF CreateNext, CreateStep, TeardownStep, Quiet

LEMMA SpentNetInv ==
  ASSUME NetInv, IdSpent
  PROVE  NetInv'
<1> USE DEF NetInv, IdSpent, kernelVars, serverVars
<1>1. TypeInv' BY NetnsAssumption DEF TypeInv, KernelTypes, PoolTypes, StepTypes
<1>2. PhaseInv' BY DEF PhaseInv
<1>3. SlotInv' BY DEF SlotInv, Filled, Pooled
<1>4. DemandInv'
  <2>1. nextSandboxID \in Nat BY NetnsAssumption DEF TypeInv, PoolTypes
  <2>2. 1..nextSandboxID \subseteq 1..nextSandboxID' BY <2>1
  <2> QED BY <2>2 DEF DemandInv, Demand
<1>5. KernelInv' BY DEF KernelInv, VethInv
<1>6. NoStrayVeth' BY DEF NoStrayVeth
<1> QED BY <1>1, <1>2, <1>3, <1>4, <1>5, <1>6

(* The slots are as HostNetns says, and none is lost. *)
LEMMA NextSlotsKept ==
  ASSUME NetInv, FillInv, PoolConserved, [CreateNext]_allVars
  PROVE  NetInv' /\ FillInv' /\ PoolConserved'
<1>1. CASE [NetNext]_netVars BY <1>1, NextNetInv, NextFill, NextConserved
<1>2. CASE IdSpent
  <2>1. FillInv' /\ PoolConserved' BY <1>2 DEF IdSpent, kernelVars, serverVars, FillInv, PoolConserved
  <2> QED BY <1>2, <2>1, SpentNetInv
<1> QED BY <1>1, <1>2, CreateIsNet

-----------------------------------------------------------------------------
(* What the steps of a worker do to its slot.                                *)

(* A worker gives up its slot, or a setup that failed. *)
Frees(p) ==
  /\ step' = [step EXCEPT ![p] = "idle"] /\ nc' = [nc EXCEPT ![p] = NoConfig]
  /\ UNCHANGED <<phase, restarts, nextSandboxID>> /\ phase # "down"

LEMMA FreesSlot ==
  ASSUME NEW p \in Workers, releaseNetns(p) \/ DiscardNetns(p) \/ SetupFailed(p)
  PROVE  Frees(p)
BY DEF releaseNetns, DiscardNetns, SetupFailed, Frees, At, Goto, serverVars, poolVars

(* A worker goes on with the slot it has or is getting. *)
Goes(p) ==
  /\ \E l \in Steps \ {"idle"} : step' = [step EXCEPT ![p] = l]
  /\ nc' \in [Goroutines -> RawConfigs] /\ \A q \in Workers \ {p} : nc'[q] = nc[q]
  /\ UNCHANGED <<phase, restarts, nextSandboxID>> /\ phase # "down"

LEMMA GoesOn ==
  ASSUME NetInv, NetInv', NEW p \in Workers, NetnsStep(p)
  PROVE  Goes(p)
<1> USE StepFacts DEF At, Goto
<1>1. \E l \in Steps \ {"idle"} : step' = [step EXCEPT ![p] = l]
  BY DEF NetnsStep, SetupStep, AcquirePooled, AcquireOnDemand, SetupName, SetupLink, SetupMove, SetupRange, SetupDone,
      SetupIOError
<1>2. nc' \in [Goroutines -> RawConfigs] BY DEF NetInv, TypeInv, StepTypes
<1>3. \A q \in Workers \ {p} : nc'[q] = nc[q]
  BY DEF NetnsStep, SetupStep, AcquirePooled, AcquireOnDemand, SetupName, SetupLink, SetupMove, SetupRange, SetupDone,
     SetupIOError, NetInv, TypeInv, StepTypes
<1>4. UNCHANGED <<phase, restarts, nextSandboxID>> /\ phase # "down"
  BY DEF NetnsStep, SetupStep, AcquirePooled, AcquireOnDemand, SetupName, SetupLink, SetupMove, SetupRange, SetupDone,
     SetupIOError, MayStray, serverVars, poolVars
<1> QED BY <1>1, <1>2, <1>3, <1>4 DEF Goes

(* The pool is filled while nobody works. *)
Fills ==
  /\ \A p \in Workers : step'[p] = step[p] /\ nc'[p] = nc[p]
  /\ phase = "init" /\ phase' \in {"init", "serving"} /\ UNCHANGED <<restarts, nextSandboxID>>

LEMMA PoolFills ==
  ASSUME NetInv, PoolStep
  PROVE  Fills \/ NamelessNsDies
<1> USE StepFacts DEF At, Goto, NetInv, TypeInv, StepTypes, PhaseInv, serverVars, poolVars, Fills, PoolTypes
<1>1. CASE PoolInitSlot BY <1>1 DEF PoolInitSlot
<1>2. CASE Serve BY <1>2 DEF Serve
<1>3. CASE SetupName(Main) BY <1>3 DEF SetupName
<1>4. CASE SetupLink(Main) BY <1>4 DEF SetupLink
<1>5. CASE SetupMove(Main) BY <1>5 DEF SetupMove
<1>6. CASE SetupDone(Main) BY <1>6 DEF SetupDone, MayStray
<1>7. CASE SetupRange(Main) BY <1>7 DEF SetupRange
<1>8. CASE SetupIOError(Main) BY <1>8 DEF SetupIOError, MayStray
<1> QED BY <1>1, <1>2, <1>3, <1>4, <1>5, <1>6, <1>7, <1>8 DEF PoolStep, SetupStep

(* The steps of a boot. *)
LEMMA BootFacts ==
  /\ \A k \in Kinds : BootPcs(k)[1] \in {"attach", "socket"}
  /\ \A k \in Kinds : k \in {"golden", "cold", "user"}
  /\ CreatePcs = {"idle", "prep", "start", "attach", "undo", "running", "wait", "free",
                  "socket", "load", "agent", "guestnet"}
  /\ WaitPcs \subseteq VMPcs /\ VMPcs \subseteq SlotPcs /\ SlotPcs \subseteq CreatePcs \ {"idle", "prep"}
  /\ {"start", "undo", "wait", "free"} \subseteq SlotPcs \ VMPcs /\ {"attach", "socket", "running"} \subseteq VMPcs
<1>1. \A k : BootPcs(k)[1] \in {"attach", "socket"} BY DEF BootPcs
<1>2. \A k \in Kinds : k \in {"golden", "cold", "user"} BY DEF Kinds
<1>3. CreatePcs = {"idle", "prep", "start", "attach", "undo", "running", "wait", "free",
                   "socket", "load", "agent", "guestnet"}
  BY DEF CreatePcs, WaitPcs
<1> QED BY <1>1, <1>2, <1>3 DEF WaitPcs, VMPcs, SlotPcs

LEMMA BootAdvance ==
  ASSUME NEW p \in Workers, BootMoves(p)
  PROVE  \E l \in VMPcs : pc' = [pc EXCEPT ![p] = l]
<1> DEFINE q == BootPcs(kind[p])
<1>1. PICK i \in DOMAIN q : pc' = [pc EXCEPT ![p] = IF i = Len(q) THEN "running" ELSE q[i + 1]]
  BY DEF BootMoves, Moves
<1>2. Len(q) \in Nat /\ DOMAIN q = 1..Len(q) /\ \A j \in 1..Len(q) : q[j] \in VMPcs
  <2>1. CASE q = <<"attach", "agent", "guestnet">> BY <2>1 DEF VMPcs
  <2>2. CASE q = <<"socket", "attach", "load", "agent", "guestnet">> BY <2>2 DEF VMPcs
  <2> QED BY <2>1, <2>2 DEF BootPcs
<1>3. i # Len(q) => i + 1 \in 1..Len(q)
  <2> HIDE DEF q
  <2> QED BY <1>2
<1>4. (IF i = Len(q) THEN "running" ELSE q[i + 1]) \in VMPcs
  <2>1. "running" \in VMPcs BY DEF VMPcs
  <2> HIDE DEF q
  <2> QED BY <1>2, <1>3, <2>1
<1> QED BY <1>1, <1>4

(* A process of the host is a record of these fields. *)
LEMMA VMFacts ==
  ASSUME NEW v \in VMs
  PROVE  /\ v.life \in 0..MaxRestarts /\ v.id \in SandboxIds /\ v.ns \in Names
         /\ v.cg \in BOOLEAN /\ v.killed \in BOOLEAN
         /\ [v EXCEPT !.cg = TRUE] \in VMs
         /\ \A b \in BOOLEAN : /\ [v EXCEPT !.killed = b] \in VMs
                               /\ [v EXCEPT !.killed = b].life = v.life
                               /\ [v EXCEPT !.killed = b].id = v.id
                               /\ [v EXCEPT !.killed = b].ns = v.ns /\ [v EXCEPT !.killed = b].cg = v.cg
                               /\ [v EXCEPT !.killed = b].killed = b
         /\ [v EXCEPT !.cg = TRUE].life = v.life /\ [v EXCEPT !.cg = TRUE].id = v.id
         /\ [v EXCEPT !.cg = TRUE].ns = v.ns /\ [v EXCEPT !.cg = TRUE].killed = v.killed
         /\ [v EXCEPT !.cg = TRUE].cg
<1>1. v.life \in 0..MaxRestarts /\ v.id \in SandboxIds /\ v.ns \in Names /\ v.cg \in BOOLEAN /\ v.killed \in BOOLEAN
  BY DEF VMs
<1>2. \A b \in BOOLEAN :
        [v EXCEPT !.killed = b] = [life |-> v.life, id |-> v.id, ns |-> v.ns, cg |-> v.cg, killed |-> b]
  BY DEF VMs
<1>3. \A b \in BOOLEAN :
        [v EXCEPT !.cg = b] = [life |-> v.life, id |-> v.id, ns |-> v.ns, cg |-> b, killed |-> v.killed]
  BY DEF VMs
<1>4. \A b, c \in BOOLEAN : [life |-> v.life, id |-> v.id, ns |-> v.ns, cg |-> c, killed |-> b] \in VMs
  BY <1>1 DEF VMs
<1>5. [v EXCEPT !.cg = TRUE] \in VMs BY <1>1, <1>3, <1>4
<1>6. \A b \in BOOLEAN : [v EXCEPT !.killed = b] \in VMs BY <1>1, <1>2, <1>4
<1>9. \A b \in BOOLEAN : /\ [v EXCEPT !.killed = b].life = v.life /\ [v EXCEPT !.killed = b].id = v.id
                         /\ [v EXCEPT !.killed = b].ns = v.ns /\ [v EXCEPT !.killed = b].cg = v.cg
                         /\ [v EXCEPT !.killed = b].killed = b
  BY <1>2
<1>10. /\ [v EXCEPT !.cg = TRUE].life = v.life /\ [v EXCEPT !.cg = TRUE].id = v.id
       /\ [v EXCEPT !.cg = TRUE].ns = v.ns /\ [v EXCEPT !.cg = TRUE].killed = v.killed
       /\ [v EXCEPT !.cg = TRUE].cg
  BY <1>3
<1> QED BY <1>1, <1>5, <1>6, <1>9, <1>10

-----------------------------------------------------------------------------
(* Workers, their sandboxes and the directories.                             *)

(* A worker that has its slot goes on to another place, and leaves the places of a VM
   only with a kill. *)
Advances(p) ==
  /\ step[p] = "held" /\ pc[p] # "idle" /\ phase # "down"
  /\ \E l \in SlotPcs : pc' = [pc EXCEPT ![p] = l] /\ (pc[p] \in VMPcs => l \in VMPcs \/ Kill(p))
                         /\ (l = "start" => pc[p] = "prep")
  /\ UNCHANGED <<netVars, cur, kind, dirs>>

(* A worker ends, and with it its sandbox and its slot. *)
EndsWork(p) ==
  /\ pc[p] \notin {"idle"} \cup VMPcs /\ Frees(p)
  /\ pc' = [pc EXCEPT ![p] = "idle"] /\ cur' = [cur EXCEPT ![p] = NoId] /\ kind' = [kind EXCEPT ![p] = "none"]
  /\ dirs' = dirs \ {cur[p]} \/ (KeepFailedSandboxes /\ dirs' = dirs)
  /\ vms' = vms

(* Everything of the workers is as it was. *)
Stays ==
  /\ UNCHANGED <<step, nc, phase, restarts, pc, cur, kind, dirs>>
  /\ nextSandboxID' \in {nextSandboxID, nextSandboxID + 1}

LEMMA WorkerAdvances ==
  ASSUME NetInv, CreateTypes, WorkInv, NEW p \in Workers,
         \/ PrepOK(p) \/ StartVM(p) \/ Attach(p) \/ BootAdvances(p) \/ BootFails(p) \/ TeardownKill(p)
         \/ TeardownWait(p)
  PROVE  Advances(p)
<1>1. step[p] = "held" /\ pc[p] # "idle" /\ UNCHANGED <<netVars, cur, kind, dirs>>
  <2>1. pc[p] \in SlotPcs \/ (pc[p] = "prep" /\ step[p] = "held")
    BY BootFacts DEF PrepOK, Joined, StartVM, Attach, BootAdvances, BootFails, TeardownKill, TeardownWait
  <2>2. UNCHANGED <<netVars, cur, kind, dirs>>
    BY DEF PrepOK, StartVM, Attach, BootAdvances, BootFails, TeardownKill, TeardownWait, hostVars
  <2> QED BY <2>1, <2>2, BootFacts DEF WorkInv
<1>2. phase # "down"
  BY <1>1, StepFacts DEF NetInv, PhaseInv
<1>3. CASE StartVM(p)
  <2>1. kind[p] \in Kinds BY <1>1 DEF WorkInv
  <2> QED BY <1>1, <1>2, <1>3, <2>1, BootFacts DEF StartVM, Moves, Advances, VMPcs
<1>4. CASE Attach(p) \/ BootAdvances(p)
  BY <1>1, <1>2, <1>4, BootAdvance, BootFacts DEF Attach, BootAdvances, Advances
<1>5. CASE PrepOK(p) \/ BootFails(p) \/ TeardownKill(p) \/ TeardownWait(p)
  BY <1>1, <1>2, <1>5, BootFacts DEF PrepOK, Joined, BootFails, TeardownKill, TeardownWait, Moves, Advances, VMPcs
<1> QED BY <1>3, <1>4, <1>5

LEMMA WorkerEnds ==
  ASSUME NEW p \in Workers, PrepFails(p) \/ StartFails(p) \/ Undo(p) \/ TeardownFree(p)
  PROVE  EndsWork(p)
<1>1. Frees(p) BY FreesSlot DEF PrepFails, StartFails, Undo, TeardownFree
<1>2. pc[p] \notin {"idle"} \cup VMPcs BY BootFacts DEF PrepFails, Joined, StartFails, Undo, TeardownFree, VMPcs
<1>3. WorkerDone(p) /\ vms' = vms BY DEF PrepFails, StartFails, Undo, TeardownFree, CreateReturnsError
<1>4. dirs' = dirs \ {cur[p]} \/ (KeepFailedSandboxes /\ dirs' = dirs)
  BY DEF PrepFails, StartFails, Undo, TeardownFree, CreateReturnsError
<1> QED BY <1>1, <1>2, <1>3, <1>4 DEF EndsWork, WorkerDone, Moves

(* Every step, as the workers see it. *)
LEMMA WorkCases ==
  ASSUME NetInv, NetInv', CreateTypes, WorkInv, [CreateNext]_allVars
  PROVE  \/ Fills /\ UNCHANGED createVars
         \/ \E p \in Workers : PrepStart(p)
         \/ \E p \in Workers : pc[p] = "prep" /\ Goes(p) /\ UNCHANGED createVars
         \/ \E p \in Workers : Advances(p)
         \/ \E p \in Workers : EndsWork(p)
         \/ Stays \/ ServerEnds \/ ServerRestarts
<1>1. CASE PoolStep
  <2>1. NamelessNsDies => Stays BY <1>1 DEF PoolStep, NamelessNsDies, Stays, createVars, serverVars, poolVars
  <2> QED BY <1>1, <2>1, PoolFills DEF PoolStep
<1>2. ASSUME NEW p \in Workers, PrepRefused(p) PROVE Stays
  BY <1>2 DEF PrepRefused, Stays, createVars, serverVars
<1>3. ASSUME NEW p \in Workers, CloneEnds(p) PROVE Stays
  BY <1>3 DEF CloneEnds, Stays, hostVars, netVars, serverVars, poolVars
<1>4. ASSUME NEW p \in Workers, NetnsStep(p) PROVE pc[p] = "prep" /\ Goes(p) /\ UNCHANGED createVars
  BY <1>4, GoesOn DEF NetnsStep
<1>5. CASE VMExits BY <1>5 DEF VMExits, Stays, netVars, serverVars, poolVars
<1>6. CASE UNCHANGED allVars BY <1>6 DEF allVars, createVars, Stays, netVars, serverVars, poolVars
<1> QED BY <1>1, <1>2, <1>3, <1>4, <1>5, <1>6, WorkerAdvances, WorkerEnds
        DEF CreateNext, CreateStep, TeardownStep, Quiet

WorkTypes ==
  /\ pc \in [Workers -> CreatePcs]
  /\ cur \in [Workers -> SandboxIds \cup {NoId}]
  /\ kind \in [Workers -> Kinds \cup {"none"}]
  /\ dirs \subseteq SandboxIds

(* A worker has its own sandbox, and from the preparation on its slot. *)
LEMMA NextWork ==
  ASSUME NetInv, NetInv', CreateTypes, WorkInv, [CreateNext]_allVars
  PROVE  WorkTypes' /\ WorkInv'
<1> USE StepFacts, BootFacts DEF CreateTypes
<1>a. /\ nextSandboxID \in Nat /\ MaxSandboxes \in Nat /\ step \in [Goroutines -> Steps]
      /\ \A i \in SandboxIds : i \in Nat /\ i # NoId
  BY NetnsAssumption DEF NetInv, TypeInv, PoolTypes, StepTypes, SandboxIds, NoId
<1>1. CASE Fills /\ UNCHANGED createVars BY <1>1 DEF Fills, createVars, WorkTypes, WorkInv
<1>2. ASSUME NEW p \in Workers, PrepStart(p) PROVE WorkTypes' /\ WorkInv'
  <2>1. PICK n : n = nextSandboxID + 1 OBVIOUS
  <2>2. /\ n \in SandboxIds /\ nextSandboxID' = n /\ n > nextSandboxID /\ n \in Nat
    BY <1>2, <1>a, <2>1 DEF PrepStart, acquireNetns, SandboxIds
  <2>3. PICK k \in Kinds : kind' = [kind EXCEPT ![p] = k] BY <1>2 DEF PrepStart
  <2>4. /\ pc' = [pc EXCEPT ![p] = "prep"] /\ cur' = [cur EXCEPT ![p] = n] /\ dirs' = dirs \cup {n}
        /\ step' = [step EXCEPT ![p] = "acquire"] /\ pc[p] = "idle"
    BY <1>2, <2>1 DEF PrepStart, acquireNetns, Goto, Moves
  <2>5. WorkTypes' BY <2>2, <2>3, <2>4 DEF WorkTypes
  <2>6. /\ pc'[p] = "prep" /\ cur'[p] = n /\ step'[p] = "acquire" /\ kind'[p] = k
        /\ \A q \in Workers \ {p} : pc'[q] = pc[q] /\ cur'[q] = cur[q] /\ step'[q] = step[q] /\ kind'[q] = kind[q]
    BY <1>a, <2>3, <2>4
  <2>7. \A q \in Workers : cur[q] <= nextSandboxID /\ cur[q] \in Nat BY <1>a DEF WorkInv, NoId
  <2>8. n # NoId /\ \A q \in Workers : cur[q] < n /\ cur[q] # n BY <1>a, <2>2, <2>7
  <2>9. \A q \in Workers : cur'[q] <= n BY <2>2, <2>6, <2>7, <2>8
  <2>10. \A q, r \in Workers : pc'[q] # "idle" /\ cur'[q] = cur'[r] => q = r BY <2>6, <2>8 DEF WorkInv
  <2>11. \A q \in Workers : (pc'[q] = "idle" <=> step'[q] = "idle") /\ (pc'[q] = "idle" <=> cur'[q] = NoId)
    BY <2>6, <2>8 DEF WorkInv
  <2>12. \A q \in Workers : /\ pc'[q] \in SlotPcs => step'[q] = "held"
                            /\ pc'[q] # "idle" => kind'[q] \in Kinds
    BY <2>6 DEF WorkInv
  <2>13. WorkInv' BY <2>2, <2>9, <2>10, <2>11, <2>12 DEF WorkInv
  <2> QED BY <2>5, <2>13
<1>3. ASSUME NEW p \in Workers, pc[p] = "prep", Goes(p), UNCHANGED createVars PROVE WorkTypes' /\ WorkInv'
  <2>1. step'[p] # "idle" /\ \A q \in Workers \ {p} : step'[q] = step[q] BY <1>3, <1>a DEF Goes
  <2> QED BY <1>3, <2>1 DEF Goes, createVars, WorkTypes, WorkInv
<1>4. ASSUME NEW p \in Workers, Advances(p) PROVE WorkTypes' /\ WorkInv'
  <2>1. PICK l \in SlotPcs : pc' = [pc EXCEPT ![p] = l] BY <1>4 DEF Advances
  <2>2. pc'[p] = l /\ \A q \in Workers \ {p} : pc'[q] = pc[q] BY <2>1
  <2>3. UNCHANGED <<step, nextSandboxID, cur, kind, dirs>> /\ step[p] = "held" /\ pc[p] # "idle"
    BY <1>4 DEF Advances, netVars, poolVars
  <2> QED BY <2>1, <2>2, <2>3 DEF WorkTypes, WorkInv
<1>5. ASSUME NEW p \in Workers, EndsWork(p) PROVE WorkTypes' /\ WorkInv'
  <2>1. WorkTypes' BY <1>5 DEF EndsWork, WorkTypes
  <2>2. /\ pc'[p] = "idle" /\ cur'[p] = NoId /\ step'[p] = "idle" /\ nextSandboxID' = nextSandboxID
        /\ \A q \in Workers \ {p} : pc'[q] = pc[q] /\ cur'[q] = cur[q] /\ step'[q] = step[q] /\ kind'[q] = kind[q]
    BY <1>5, <1>a DEF EndsWork, Frees
  <2>3. NoId <= nextSandboxID BY <1>a DEF NoId
  <2> QED BY <2>1, <2>2, <2>3 DEF WorkInv
<1>6. CASE Stays
  <2>1. \A q \in Workers : cur[q] \in Nat BY <1>a DEF NoId
  <2> QED BY <1>6, <1>a, <2>1 DEF Stays, WorkTypes, WorkInv
<1>7. CASE ServerEnds
  <2>1. /\ pc' = [p \in Workers |-> "idle"] /\ cur' = [p \in Workers |-> NoId]
        /\ kind' = [p \in Workers |-> "none"] /\ dirs' = dirs
        /\ step' = [p \in Goroutines |-> "idle"] /\ nextSandboxID' = 0
    BY <1>7 DEF ServerEnds, hostVars, Crash, PoolInitFailed, ProcessEnds
  <2> QED BY <2>1 DEF WorkTypes, WorkInv, NoId
<1>8. CASE ServerRestarts
  BY <1>8 DEF ServerRestarts, Restart, poolVars, WorkTypes, WorkInv
<1> HIDE DEF CreateTypes
<1> QED BY <1>1, <1>2, <1>3, <1>4, <1>5, <1>6, <1>7, <1>8, WorkCases

(* In the first life of the server a directory has a worker that removes it. *)
LEMMA NextDirs ==
  ASSUME NetInv, NetInv', CreateTypes, WorkInv, DirInv, [CreateNext]_allVars
  PROVE  DirInv'
<1> SUFFICES ASSUME phase' # "down", restarts' = 0, ~KeepFailedSandboxes, NEW i \in dirs'
             PROVE  \E q \in Workers : cur'[q] = i /\ pc'[q] # "idle"
  BY DEF DirInv, Working
<1>a. pc \in [Workers -> CreatePcs] /\ cur \in [Workers -> SandboxIds \cup {NoId}] BY DEF CreateTypes
<1>b. phase # "down" /\ restarts = 0 => \A j \in dirs : \E q \in Workers : cur[q] = j /\ pc[q] # "idle"
  BY DEF DirInv, Working
<1>1. CASE Fills /\ UNCHANGED createVars BY <1>1, <1>b DEF Fills, createVars
<1>2. ASSUME NEW p \in Workers, PrepStart(p) PROVE \E q \in Workers : cur'[q] = i /\ pc'[q] # "idle"
  <2>1. PICK n : n = nextSandboxID + 1 OBVIOUS
  <2>2. /\ pc' = [pc EXCEPT ![p] = "prep"] /\ cur' = [cur EXCEPT ![p] = n] /\ dirs' = dirs \cup {n}
        /\ pc[p] = "idle" /\ phase = "serving" /\ restarts' = restarts
    BY <1>2, <2>1 DEF PrepStart, acquireNetns, Moves, serverVars
  <2> QED BY <1>a, <1>b, <2>2
<1>3. ASSUME NEW p \in Workers, pc[p] = "prep", Goes(p), UNCHANGED createVars
      PROVE  \E q \in Workers : cur'[q] = i /\ pc'[q] # "idle"
  BY <1>3, <1>b DEF Goes, createVars
<1>4. ASSUME NEW p \in Workers, Advances(p) PROVE \E q \in Workers : cur'[q] = i /\ pc'[q] # "idle"
  <2>1. PICK l \in SlotPcs : pc' = [pc EXCEPT ![p] = l] BY <1>4 DEF Advances
  <2>2. UNCHANGED <<cur, dirs, phase, restarts>> BY <1>4 DEF Advances, netVars, serverVars
  <2>3. \A q \in Workers : pc[q] # "idle" => pc'[q] # "idle" BY <1>a, <2>1, BootFacts
  <2> QED BY <1>b, <2>2, <2>3
<1>5. ASSUME NEW p \in Workers, EndsWork(p) PROVE \E q \in Workers : cur'[q] = i /\ pc'[q] # "idle"
  <2>1. i \in dirs /\ i # cur[p] /\ phase' = phase /\ restarts' = restarts BY <1>5 DEF EndsWork, Frees
  <2>2. PICK q \in Workers : cur[q] = i /\ pc[q] # "idle" BY <1>b, <2>1
  <2>3. cur'[q] = cur[q] /\ pc'[q] = pc[q] BY <1>5, <1>a, <2>1, <2>2 DEF EndsWork
  <2> QED BY <2>2, <2>3
<1>6. CASE Stays BY <1>6, <1>b DEF Stays
<1>7. CASE ServerEnds BY <1>7 DEF ServerEnds, Crash, PoolInitFailed, ProcessEnds
<1>8. CASE ServerRestarts
  <2>1. restarts \in Nat BY NetnsAssumption DEF NetInv, TypeInv, PoolTypes
  <2> QED BY <1>8, <2>1 DEF ServerRestarts, Restart
<1> QED BY <1>1, <1>2, <1>3, <1>4, <1>5, <1>6, <1>7, <1>8, WorkCases

-----------------------------------------------------------------------------
(* The processes.                                                            *)

(* What a step makes of the processes: they stay, a worker starts one, puts its own
   into its cgroup or kills it, one ends, or a new server scavenges. *)
LEMMA VMCases ==
  ASSUME [CreateNext]_allVars
  PROVE  \/ vms' = vms
         \/ \E p \in Workers : StartVM(p)
         \/ \E p \in Workers : /\ Attach(p)
                               /\ vms' = {IF Own(p, v) THEN [v EXCEPT !.cg = TRUE] ELSE v : v \in vms}
         \/ \E p \in Workers : BootFails(p) \/ TeardownKill(p)
         \/ VMExits \/ ServerRestarts
BY DEF CreateNext, CreateStep, TeardownStep, PoolStep, PrepStart, PrepRefused, CloneEnds, NetnsStep, PrepOK,
    PrepFails,
   StartFails, Attach, BootAdvances, Undo, TeardownWait, TeardownFree, ServerEnds, Quiet, allVars, createVars, hostVars

(* The other variables of the host and the workers have their types. *)
HostTypes ==
  /\ clone \in [Workers -> {"none", "running", "ok", "failed"}]
  /\ cgPath \subseteq Workers
  /\ cgDirs \subseteq SandboxIds
  /\ vms \subseteq VMs

(* What a scavenge makes of the processes and the directories: some processes have
   exited, some were sent SIGKILL, and every directory that is not empty stays. *)
LEMMA Scavenged ==
  ASSUME scavengeCgroups, vms' # vms \/ cgDirs' # cgDirs
  PROVE  \E kept \in SUBSET vms : \E f \in [kept -> BOOLEAN] :
           /\ \A v \in kept : v.killed => f[v]
           /\ vms' = {[v EXCEPT !.killed = f[v]] : v \in kept}
           /\ cgDirs' \subseteq cgDirs
           /\ \A v \in kept : v.cg /\ v.id \in cgDirs => v.id \in cgDirs'
<1>1. PICK hit \in SUBSET cgDirs, stuck \in SUBSET cgDirs, exits \in SUBSET vms :
        /\ vms' = {[v EXCEPT !.killed = v.killed \/ (v.cg /\ v.id \in hit)] : v \in vms \ exits}
        /\ cgDirs' = {i \in cgDirs : i \in stuck \/ \E v \in vms \ exits : v.cg /\ v.id = i}
  <2>1. PICK hit \in SUBSET cgDirs, stuck \in SUBSET cgDirs :
          \E exits \in SUBSET {v \in vms : v.cg /\ v.id \in hit} :
            /\ vms' = {[v EXCEPT !.killed = @ \/ (v.cg /\ v.id \in hit)] : v \in vms \ exits}
            /\ cgDirs' = {i \in cgDirs : i \in stuck \/ \E v \in vms \ exits : v.cg /\ v.id = i}
    BY Zenon DEF scavengeCgroups
  <2>2. PICK exits \in SUBSET vms :
            /\ vms' = {[v EXCEPT !.killed = @ \/ (v.cg /\ v.id \in hit)] : v \in vms \ exits}
            /\ cgDirs' = {i \in cgDirs : i \in stuck \/ \E v \in vms \ exits : v.cg /\ v.id = i}
    BY <2>1
  <2> QED BY <2>2, ZenonT(40)
<1> DEFINE kept == vms \ exits
           f == [v \in kept |-> v.killed \/ (v.cg /\ v.id \in hit)]
<1>2. f \in [kept -> BOOLEAN] /\ \A v \in kept : f[v] = (v.killed \/ (v.cg /\ v.id \in hit)) OBVIOUS
<1>3. vms' = {[v EXCEPT !.killed = f[v]] : v \in kept} BY <1>1
<1>4. \A v \in kept : v.killed => f[v] BY <1>2
<1>5. cgDirs' \subseteq cgDirs /\ \A v \in kept : v.cg /\ v.id \in cgDirs => v.id \in cgDirs' BY <1>1
<1>6. kept \in SUBSET vms OBVIOUS
<1> HIDE DEF kept, f
<1> QED BY <1>2, <1>3, <1>4, <1>5, <1>6

LEMMA NextVMTypes ==
  ASSUME NetInv, CreateTypes, WorkInv, [CreateNext]_allVars
  PROVE  vms' \subseteq VMs
<1>a. vms \subseteq VMs BY DEF CreateTypes
<1>1. CASE vms' = vms BY <1>1, <1>a
<1>2. ASSUME NEW p \in Workers, StartVM(p) PROVE vms' \subseteq VMs
  <2>1. pc[p] = "start" /\ step[p] = "held" /\ p \in Goroutines BY <1>2, BootFacts, StepFacts DEF StartVM, WorkInv
  <2>2. nc[p].ns \in Names BY <2>1, StepFacts, ConfigFacts DEF NetInv, TypeInv, StepTypes
  <2>3. cur[p] \in SandboxIds BY <2>1 DEF CreateTypes, WorkInv
  <2>4. restarts \in 0..MaxRestarts BY DEF NetInv, TypeInv, PoolTypes
  <2>5. [life |-> restarts, id |-> cur[p], ns |-> nc[p].ns, cg |-> FALSE, killed |-> FALSE] \in VMs
    BY <2>2, <2>3, <2>4 DEF VMs
  <2> QED BY <1>2, <1>a, <2>5 DEF StartVM
<1>3. ASSUME NEW p \in Workers, vms' = {IF Own(p, v) THEN [v EXCEPT !.cg = TRUE] ELSE v : v \in vms}
      PROVE  vms' \subseteq VMs
  <2> SUFFICES ASSUME NEW w \in vms' PROVE w \in VMs OBVIOUS
  <2>1. PICK v \in vms : w = v \/ w = [v EXCEPT !.cg = TRUE] BY <1>3
  <2>2. v \in VMs BY <1>a
  <2>3. [v EXCEPT !.cg = TRUE] \in VMs BY <2>2, VMFacts
  <2> QED BY <2>1, <2>2, <2>3
<1>4. ASSUME NEW p \in Workers, BootFails(p) \/ TeardownKill(p) PROVE vms' \subseteq VMs
  <2> SUFFICES ASSUME NEW w \in vms' PROVE w \in VMs OBVIOUS
  <2>1. PICK v \in vms : w = v \/ w = [v EXCEPT !.killed = TRUE] BY <1>4 DEF BootFails, TeardownKill, Kill
  <2>2. v \in VMs BY <1>a
  <2>3. [v EXCEPT !.killed = TRUE] \in VMs BY <2>2, VMFacts
  <2> QED BY <2>1, <2>2, <2>3
<1>5. CASE VMExits BY <1>5, <1>a DEF VMExits
<1>6. CASE ServerRestarts
  <2>1. CASE vms' = vms BY <2>1, <1>a
  <2>2. ASSUME vms' # vms, NEW w \in vms' PROVE w \in VMs
    <3>1. PICK v \in vms, b \in BOOLEAN : w = [v EXCEPT !.killed = b] BY <1>6, <2>2, Scavenged DEF ServerRestarts
    <3>2. v \in VMs BY <1>a
    <3> QED BY <3>1, <3>2, VMFacts
  <2> QED BY <2>1, <2>2
<1> QED BY <1>1, <1>2, <1>3, <1>4, <1>5, <1>6, VMCases

LEMMA NextHostTypes ==
  ASSUME NetInv, CreateTypes, WorkInv, [CreateNext]_allVars
  PROVE  HostTypes'
<1>a. /\ clone \in [Workers -> {"none", "running", "ok", "failed"}] /\ cgPath \subseteq Workers
      /\ cgDirs \subseteq SandboxIds
  BY DEF CreateTypes
<1>1. clone' \in [Workers -> {"none", "running", "ok", "failed"}]
  BY <1>a DEF CreateNext, CreateStep, TeardownStep, PoolStep, PrepStart, PrepRefused, CloneEnds, NetnsStep, PrepOK,
     PrepFails, StartVM, StartFails, Attach, BootAdvances, BootFails, Undo, TeardownKill, TeardownWait, TeardownFree,
     CreateReturnsError, WorkerDone, VMExits, ServerEnds, ServerRestarts, Quiet, allVars, createVars
<1>2. cgPath' \subseteq Workers
  BY <1>a DEF CreateNext, CreateStep, TeardownStep, PoolStep, PrepStart, PrepRefused, CloneEnds, NetnsStep, PrepOK,
     PrepFails, StartVM, StartFails, Attach, BootAdvances, BootFails, Undo, TeardownKill, TeardownWait, TeardownFree,
     CreateReturnsError, WorkerDone, VMExits, ServerEnds, ServerRestarts, Quiet, allVars, createVars,
     prepareSandboxCgroup
<1>3. cgDirs' \subseteq SandboxIds
  <2>1. ASSUME NEW p \in Workers, StartVM(p) \/ StartFails(p) PROVE cgDirs' \subseteq SandboxIds
    <3>1. pc[p] = "start" BY <2>1 DEF StartVM, StartFails
    <3>2. cur[p] \in SandboxIds BY <3>1 DEF CreateTypes, WorkInv
    <3> QED BY <1>a, <2>1, <3>2 DEF StartVM, StartFails, prepareSandboxCgroup
  <2>2. ASSUME ~\E p \in Workers : StartVM(p) \/ StartFails(p) PROVE cgDirs' \subseteq cgDirs
    BY <2>2 DEF CreateNext, CreateStep, TeardownStep, PoolStep, PrepStart, PrepRefused, CloneEnds, NetnsStep, PrepOK,
       PrepFails, Attach, BootAdvances, BootFails, Undo, TeardownKill, TeardownWait, TeardownFree, removeCgroupDir,
       VMExits, ServerEnds, ServerRestarts, scavengeCgroups, Quiet, allVars, createVars, hostVars
  <2> QED BY <1>a, <2>1, <2>2
<1> QED BY <1>1, <1>2, <1>3, NextVMTypes DEF HostTypes

(* A worker with a VM keeps its sandbox and its slot, or kills the VM, or goes with the
   server. *)
LEMMA OwnersKept ==
  ASSUME NetInv, NetInv', CreateTypes, WorkInv, [CreateNext]_allVars, phase' # "down",
         NEW q \in Workers, pc[q] \in VMPcs
  PROVE  cur'[q] = cur[q] /\ nc'[q] = nc[q] /\ (pc'[q] \in VMPcs \/ Kill(q))
<1> DEFINE Kept == cur'[q] = cur[q] /\ nc'[q] = nc[q] /\ (pc'[q] \in VMPcs \/ Kill(q))
<1>a. pc \in [Workers -> CreatePcs] /\ cur \in [Workers -> SandboxIds \cup {NoId}] BY DEF CreateTypes
<1>b. nc \in [Goroutines -> RawConfigs] /\ q \in Goroutines BY StepFacts DEF NetInv, TypeInv, StepTypes
<1>c. pc[q] \notin {"idle", "prep"} BY BootFacts
<1>1. ASSUME Fills, UNCHANGED createVars PROVE Kept BY <1>1 DEF Fills, createVars
<1>2. ASSUME NEW p \in Workers, PrepStart(p) PROVE Kept
  BY <1>2, <1>a, <1>b, <1>c DEF PrepStart, acquireNetns, Moves
<1>3. ASSUME NEW p \in Workers, pc[p] = "prep", Goes(p), UNCHANGED createVars PROVE Kept
  BY <1>3, <1>c DEF Goes, createVars
<1>4. ASSUME NEW p \in Workers, Advances(p) PROVE Kept
  <2>1. PICK l \in SlotPcs : pc' = [pc EXCEPT ![p] = l] /\ (pc[p] \in VMPcs => l \in VMPcs \/ Kill(p))
    BY <1>4 DEF Advances
  <2>2. cur' = cur /\ nc' = nc BY <1>4 DEF Advances, netVars
  <2> QED BY <1>a, <2>1, <2>2
<1>5. ASSUME NEW p \in Workers, EndsWork(p) PROVE Kept
  BY <1>5, <1>a, <1>b DEF EndsWork, Frees
<1>6. ASSUME Stays PROVE Kept BY <1>6 DEF Stays
<1>7. ASSUME ServerEnds PROVE Kept BY <1>7 DEF ServerEnds, Crash, PoolInitFailed, ProcessEnds
<1>8. ASSUME ServerRestarts PROVE Kept BY <1>8 DEF ServerRestarts, Restart
<1> HIDE DEF Kept
<1>9. Kept BY <1>1, <1>2, <1>3, <1>4, <1>5, <1>6, <1>7, <1>8, WorkCases
<1> QED BY <1>9 DEF Kept

(* Every process but a new one was there before, for the same sandbox in the same slot. *)
Was(w, v) ==
  /\ w.life = v.life /\ w.id = v.id /\ w.ns = v.ns
  /\ v.killed => w.killed

LEMMA VMOrigin ==
  ASSUME NetInv, CreateTypes, [CreateNext]_allVars, NEW w \in vms'
  PROVE  \/ \E v \in vms : Was(w, v)
         \/ \E p \in Workers : /\ StartVM(p) /\ w.life = restarts /\ w.id = cur[p] /\ w.ns = nc[p].ns
                               /\ ~w.cg /\ ~w.killed
<1>a. vms \subseteq VMs BY DEF CreateTypes
<1>1. CASE vms' = vms BY <1>1 DEF Was
<1>2. ASSUME NEW p \in Workers, StartVM(p)
      PROVE  \/ w \in vms
             \/ w.life = restarts /\ w.id = cur[p] /\ w.ns = nc[p].ns /\ ~w.cg /\ ~w.killed
  BY <1>2 DEF StartVM
<1>3. ASSUME NEW p \in Workers, vms' = {IF Own(p, v) THEN [v EXCEPT !.cg = TRUE] ELSE v : v \in vms}
      PROVE  \E v \in vms : Was(w, v)
  <2>1. PICK v \in vms : w = v \/ w = [v EXCEPT !.cg = TRUE] BY <1>3
  <2>2. v \in VMs BY <1>a
  <2>3. LET u == [v EXCEPT !.cg = TRUE] IN u.life = v.life /\ u.id = v.id /\ u.ns = v.ns /\ u.killed = v.killed
    BY <2>2, VMFacts
  <2> QED BY <2>1, <2>3 DEF Was
<1>4. ASSUME NEW p \in Workers, BootFails(p) \/ TeardownKill(p) PROVE \E v \in vms : Was(w, v)
  <2>1. PICK v \in vms : w = v \/ w = [v EXCEPT !.killed = TRUE] BY <1>4 DEF BootFails, TeardownKill, Kill
  <2>2. v \in VMs BY <1>a
  <2>3. LET u == [v EXCEPT !.killed = TRUE] IN u.life = v.life /\ u.id = v.id /\ u.ns = v.ns /\ u.killed
    BY <2>2, VMFacts
  <2> QED BY <2>1, <2>3 DEF Was
<1>5. CASE VMExits BY <1>5 DEF VMExits, Was
<1>6. CASE ServerRestarts
  <2>1. CASE vms' # vms
    <3>1. PICK v \in vms, b \in BOOLEAN : w = [v EXCEPT !.killed = b] /\ (v.killed => b)
      BY <1>6, <2>1, Scavenged DEF ServerRestarts
    <3>2. v \in VMs BY <1>a
    <3>3. w.life = v.life /\ w.id = v.id /\ w.ns = v.ns /\ w.killed = b BY <3>1, <3>2, VMFacts
    <3> QED BY <3>1, <3>3 DEF Was
  <2> QED BY <1>1, <2>1
<1>7. ASSUME NEW p \in Workers, StartVM(p), w \in vms PROVE \E v \in vms : Was(w, v) BY <1>7 DEF Was
<1> QED BY <1>1, <1>2, <1>3, <1>4, <1>5, <1>6, <1>7, VMCases

(* Only a new server begins a new life, and only a server that ends is down. *)
LEMMA LifeKept ==
  ASSUME NetInv, NetInv', CreateTypes, WorkInv, [CreateNext]_allVars
  PROVE  \/ restarts' = restarts /\ (phase = "down" => phase' = "down")
         \/ ServerRestarts /\ restarts' = restarts + 1
<1>1. ASSUME NEW p \in Workers, PrepStart(p) PROVE restarts' = restarts /\ phase # "down"
  BY <1>1 DEF PrepStart, acquireNetns, serverVars
<1>2. CASE ServerEnds BY <1>2 DEF ServerEnds, Crash, PoolInitFailed, ProcessEnds
<1>3. CASE ServerRestarts BY <1>3 DEF ServerRestarts, Restart
<1>4. ASSUME NEW p \in Workers, Goes(p) \/ Advances(p) \/ EndsWork(p) PROVE restarts' = restarts /\ phase # "down"
  BY <1>4 DEF Goes, Advances, EndsWork, Frees, netVars, serverVars
<1>5. CASE Fills \/ Stays BY <1>5 DEF Fills, Stays
<1> QED BY <1>1, <1>2, <1>3, <1>4, <1>5, WorkCases

(* A VM nobody has killed has a worker that will kill it. *)
LEMMA NextVMs ==
  ASSUME NetInv, NetInv', CreateTypes, CreateTypes', WorkInv, VMInv, [CreateNext]_allVars
  PROVE  VMInv'
<1>a. restarts \in Nat /\ \A v \in vms : v.life \in Nat
  <2>1. restarts \in Nat BY NetnsAssumption DEF NetInv, TypeInv, PoolTypes
  <2>2. \A v \in vms : v.life \in Nat BY NetnsAssumption DEF CreateTypes, VMs
  <2> QED BY <2>1, <2>2
<1>1. ASSUME NEW w \in vms' PROVE w.life <= restarts
  <2>1. CASE \E v \in vms : Was(w, v) BY <2>1 DEF Was, VMInv
  <2>2. CASE w.life = restarts BY <1>a, <2>2
  <2> QED BY <2>1, <2>2, <1>1, VMOrigin
<1>2. \A w \in vms' : w.life <= restarts'
  <2>1. restarts' = restarts \/ restarts' = restarts + 1 BY LifeKept
  <2>2. \A w \in vms' : w.life \in Nat BY NetnsAssumption DEF CreateTypes, VMs
  <2> QED BY <1>a, <1>1, <2>1, <2>2
<1>3. ASSUME phase' # "down", NEW w \in vms', w.life = restarts', ~w.killed
      PROVE  \E q \in Workers : cur'[q] = w.id /\ pc'[q] \in VMPcs /\ nc'[q].ns = w.ns
  <2>1. restarts' = restarts /\ phase # "down"
    <3>1. restarts' # restarts + 1 BY <1>a, <1>1, <1>3
    <3> QED BY <1>3, <3>1, LifeKept
  <2>2. CASE \E v \in vms : Was(w, v)
    <3>1. PICK v \in vms : Was(w, v) BY <2>2
    <3>2. v \in Alive BY <1>3, <2>1, <3>1 DEF Was, Alive
    <3>3. PICK q \in Workers : cur[q] = v.id /\ pc[q] \in VMPcs /\ nc[q].ns = v.ns BY <2>1, <3>2 DEF VMInv, OwnedBy
    <3>4. cur'[q] = cur[q] /\ nc'[q] = nc[q] /\ (pc'[q] \in VMPcs \/ Kill(q)) BY <1>3, <3>3, OwnersKept
    <3>5. ASSUME Kill(q) PROVE FALSE
      <4>1. PICK u \in vms : w = IF Own(q, u) THEN [u EXCEPT !.killed = TRUE] ELSE u BY <3>5 DEF Kill
      <4>2. u \in VMs BY DEF CreateTypes
      <4>3. LET z == [u EXCEPT !.killed = TRUE] IN z.killed BY <4>2, VMFacts
      <4>4. w = u /\ ~Own(q, u) BY <1>3, <4>1, <4>3
      <4>5. u.life = restarts /\ u.id = cur[q] BY <1>3, <2>1, <3>1, <3>3, <4>4 DEF Was
      <4> QED BY <4>4, <4>5 DEF Own
    <3> QED BY <3>1, <3>3, <3>4, <3>5 DEF Was
  <2>3. ASSUME NEW p \in Workers, StartVM(p), w.id = cur[p], w.ns = nc[p].ns
        PROVE  cur'[p] = w.id /\ pc'[p] \in VMPcs /\ nc'[p].ns = w.ns
    <3>1. kind[p] \in Kinds BY <2>3 DEF StartVM, WorkInv
    <3>2. pc' = [pc EXCEPT ![p] = BootPcs(kind[p])[1]] /\ cur' = cur /\ nc' = nc BY <2>3 DEF StartVM, Moves, netVars
    <3>3. pc \in [Workers -> CreatePcs] BY DEF CreateTypes
    <3> QED BY <2>3, <3>1, <3>2, <3>3, BootFacts
  <2> QED BY <1>3, <2>2, <2>3, VMOrigin
<1> QED BY <1>2, <1>3 DEF VMInv, Alive, OwnedBy

(* A step that maps processes to processes of the same sandboxes keeps them apart. *)
LEMMA UniqueImage ==
  ASSUME \A v, w \in vms : v.life = w.life /\ v.id = w.id => v = w,
         NEW S \in SUBSET vms, NEW f, vms' = {f[v] : v \in S},
         \A v \in S : f[v].life = v.life /\ f[v].id = v.id
  PROVE  \A v, w \in vms' : v.life = w.life /\ v.id = w.id => v = w
<1> SUFFICES ASSUME NEW x \in vms', NEW y \in vms', x.life = y.life, x.id = y.id PROVE x = y OBVIOUS
<1>1. PICK v \in S, w \in S : x = f[v] /\ y = f[w] OBVIOUS
<1>2. v.life = w.life /\ v.id = w.id BY <1>1
<1>3. v = w BY <1>2
<1> QED BY <1>1, <1>3

(* A process of the running server was started by it. *)
LEMMA SameLife ==
  ASSUME NetInv, NetInv', CreateTypes, WorkInv, VMInv, [CreateNext]_allVars, phase' # "down",
         NEW w \in vms', w.life = restarts'
  PROVE  restarts' = restarts /\ phase # "down"
<1>1. restarts \in Nat BY NetnsAssumption DEF NetInv, TypeInv, PoolTypes
<1>2. w.life <= restarts
  <2>1. CASE \E v \in vms : Was(w, v) BY <2>1 DEF Was, VMInv
  <2>2. CASE w.life = restarts BY <1>1, <2>2
  <2> QED BY <2>1, <2>2, VMOrigin
<1>3. restarts' # restarts + 1 BY <1>1, <1>2
<1> QED BY <1>3, LifeKept

(* A worker that has no process yet was that far, or has just drawn a new id. *)
LEMMA PrepOrigin ==
  ASSUME NetInv, NetInv', CreateTypes, WorkInv, [CreateNext]_allVars,
         NEW q \in Workers, pc'[q] \in {"prep", "start"}
  PROVE  PrepStart(q) \/ (pc[q] \in {"prep", "start"} /\ cur'[q] = cur[q])
<1> DEFINE Kept == pc[q] \in {"prep", "start"} /\ cur'[q] = cur[q]
<1>a. pc \in [Workers -> CreatePcs] /\ cur \in [Workers -> SandboxIds \cup {NoId}] BY DEF CreateTypes
<1>2. ASSUME NEW p \in Workers, PrepStart(p), p # q PROVE Kept BY <1>2, <1>a DEF PrepStart, Moves
<1>3. ASSUME UNCHANGED createVars PROVE Kept BY <1>3 DEF createVars
<1>4. ASSUME NEW p \in Workers, Advances(p) PROVE Kept
  <2>1. PICK l \in SlotPcs : pc' = [pc EXCEPT ![p] = l] /\ (l = "start" => pc[p] = "prep") BY <1>4 DEF Advances
  <2>2. cur' = cur BY <1>4 DEF Advances
  <2> QED BY <1>a, <2>1, <2>2, BootFacts
<1>5. ASSUME NEW p \in Workers, EndsWork(p) PROVE Kept BY <1>5, <1>a DEF EndsWork
<1>6. ASSUME Stays PROVE Kept BY <1>6 DEF Stays
<1>7. ASSUME ServerEnds PROVE FALSE BY <1>7 DEF ServerEnds
<1>8. ASSUME ServerRestarts PROVE Kept BY <1>8 DEF ServerRestarts
<1> HIDE DEF Kept
<1>9. PrepStart(q) \/ Kept BY <1>2, <1>3, <1>4, <1>5, <1>6, <1>7, <1>8, WorkCases
<1> QED BY <1>9 DEF Kept

(* The ids of one life only grow. *)
LEMMA IdsGrow ==
  ASSUME NetInv, NetInv', CreateTypes, WorkInv, [CreateNext]_allVars, phase # "down", phase' # "down"
  PROVE  nextSandboxID <= nextSandboxID' /\ nextSandboxID \in Nat /\ nextSandboxID' \in Nat
<1>1. nextSandboxID \in Nat /\ nextSandboxID' \in Nat BY NetnsAssumption DEF NetInv, TypeInv, PoolTypes
<1>2. ASSUME NEW p \in Workers, PrepStart(p) PROVE nextSandboxID' = nextSandboxID + 1
  BY <1>2 DEF PrepStart, acquireNetns
<1>3. ASSUME NEW p \in Workers, Goes(p) \/ Advances(p) \/ EndsWork(p) PROVE nextSandboxID' = nextSandboxID
  BY <1>3 DEF Goes, Advances, EndsWork, Frees, netVars, poolVars
<1>4. CASE ServerEnds BY <1>4 DEF ServerEnds, Crash, PoolInitFailed, ProcessEnds
<1>5. CASE ServerRestarts BY <1>5 DEF ServerRestarts, Restart
<1>6. CASE Fills \/ Stays BY <1>1, <1>6 DEF Fills, Stays
<1> QED BY <1>1, <1>2, <1>3, <1>4, <1>5, <1>6, WorkCases

(* A sandbox of one life has one process. *)
LEMMA NextUnique ==
  ASSUME NetInv, NetInv', CreateTypes, WorkInv, WorkInv', VMInv, UniqueInv, [CreateNext]_allVars
  PROVE  UniqueInv'
<1>a. vms \subseteq VMs BY DEF CreateTypes
<1>b. \A v, w \in vms : v.life = w.life /\ v.id = w.id => v = w BY DEF UniqueInv
<1> DEFINE Apart == \A v, w \in vms' : v.life = w.life /\ v.id = w.id => v = w
<1>1. Apart
  <2>1. CASE vms' = vms BY <1>b, <2>1
  <2>2. ASSUME NEW p \in Workers, StartVM(p) PROVE Apart
    <3>1. pc[p] = "start" BY <2>2 DEF StartVM
    <3>2. \A v \in vms : ~(v.life = restarts /\ v.id = cur[p]) BY <3>1 DEF UniqueInv, Own
    <3>3. PICK n : n = [life |-> restarts, id |-> cur[p], ns |-> nc[p].ns, cg |-> FALSE, killed |-> FALSE] OBVIOUS
    <3>4. vms' = vms \cup {n} /\ n.life = restarts /\ n.id = cur[p] BY <2>2, <3>3 DEF StartVM
    <3> QED BY <1>b, <3>2, <3>4
  <2>3. ASSUME NEW p \in Workers, vms' = {IF Own(p, v) THEN [v EXCEPT !.cg = TRUE] ELSE v : v \in vms} PROVE Apart
    <3> DEFINE f == [v \in vms |-> IF Own(p, v) THEN [v EXCEPT !.cg = TRUE] ELSE v]
    <3>1. vms' = {f[v] : v \in vms} BY <2>3
    <3>2. \A v \in vms : LET u == [v EXCEPT !.cg = TRUE] IN u.life = v.life /\ u.id = v.id BY <1>a, VMFacts
    <3>3. \A v \in vms : f[v].life = v.life /\ f[v].id = v.id BY <3>2
    <3> HIDE DEF f
    <3> QED BY <1>b, <3>1, <3>3, UniqueImage
  <2>4. ASSUME NEW p \in Workers, BootFails(p) \/ TeardownKill(p) PROVE Apart
    <3> DEFINE f == [v \in vms |-> IF Own(p, v) THEN [v EXCEPT !.killed = TRUE] ELSE v]
    <3>1. vms' = {f[v] : v \in vms} BY <2>4 DEF BootFails, TeardownKill, Kill
    <3>2. \A v \in vms : LET u == [v EXCEPT !.killed = TRUE] IN u.life = v.life /\ u.id = v.id BY <1>a, VMFacts
    <3>3. \A v \in vms : f[v].life = v.life /\ f[v].id = v.id BY <3>2
    <3> HIDE DEF f
    <3> QED BY <1>b, <3>1, <3>3, UniqueImage
  <2>5. CASE VMExits BY <1>b, <2>5 DEF VMExits
  <2>6. CASE ServerRestarts /\ vms' # vms
    <3>0. PICK kept \in SUBSET vms : \E g \in [kept -> BOOLEAN] : vms' = {[v EXCEPT !.killed = g[v]] : v \in kept}
      BY <2>6, Scavenged DEF ServerRestarts
    <3>1. PICK g \in [kept -> BOOLEAN] : vms' = {[v EXCEPT !.killed = g[v]] : v \in kept} BY <3>0
    <3> DEFINE f == [v \in kept |-> [v EXCEPT !.killed = g[v]]]
    <3>2. vms' = {f[v] : v \in kept} BY <3>1
    <3>3. \A v \in kept : \A b \in BOOLEAN : LET u == [v EXCEPT !.killed = b] IN u.life = v.life /\ u.id = v.id
      BY <1>a, VMFacts
    <3>4. \A v \in kept : f[v].life = v.life /\ f[v].id = v.id BY <3>3
    <3> HIDE DEF f
    <3> QED BY <1>b, <3>2, <3>4, UniqueImage
  <2> HIDE DEF Apart
  <2> QED BY <2>1, <2>2, <2>3, <2>4, <2>5, <2>6, VMCases
<1>2. ASSUME phase' # "down", NEW w \in vms', w.life = restarts' PROVE w.id <= nextSandboxID'
  <2>1. restarts' = restarts /\ phase # "down" BY <1>2, SameLife
  <2>2. nextSandboxID <= nextSandboxID' /\ nextSandboxID \in Nat /\ nextSandboxID' \in Nat BY <1>2, <2>1, IdsGrow
  <2>3. w.id <= nextSandboxID /\ w.id \in Nat
    <3>1. CASE \E v \in vms : Was(w, v)
      <4>1. PICK v \in vms : Was(w, v) BY <3>1
      <4>2. v.id <= nextSandboxID BY <1>2, <2>1, <4>1 DEF Was, UniqueInv
      <4>3. v.id \in Nat
        <5>1. v \in VMs BY <1>a
        <5>2. v.id \in SandboxIds BY <5>1, VMFacts
        <5> QED BY <5>2 DEF SandboxIds
      <4> QED BY <4>1, <4>2, <4>3 DEF Was
    <3>2. CASE \E p \in Workers : w.id = cur[p] BY <3>2 DEF WorkInv, CreateTypes, SandboxIds, NoId
    <3> QED BY <1>2, <3>1, <3>2, VMOrigin
  <2> QED BY <2>2, <2>3
<1>3. ASSUME NEW q \in Workers, pc'[q] \in {"prep", "start"}, NEW w \in vms', w.life = restarts', w.id = cur'[q]
      PROVE  FALSE
  <2>1. phase' # "down" BY <1>3, StepFacts DEF WorkInv, NetInv, PhaseInv
  <2>2. restarts' = restarts /\ phase # "down" BY <1>3, <2>1, SameLife
  <2>3. CASE PrepStart(q)
    <3>1. cur'[q] = nextSandboxID + 1 /\ vms' = vms BY <2>3 DEF PrepStart, CreateTypes
    <3>2. w.id <= nextSandboxID BY <1>3, <2>2, <3>1 DEF UniqueInv
    <3>3. nextSandboxID \in Nat BY NetnsAssumption DEF NetInv, TypeInv, PoolTypes
    <3> QED BY <1>3, <3>1, <3>2, <3>3
  <2>4. CASE pc[q] \in {"prep", "start"} /\ cur'[q] = cur[q]
    <3>1. CASE \E v \in vms : Was(w, v) BY <1>3, <2>2, <2>4, <3>1 DEF Was, UniqueInv, Own
    <3>2. ASSUME NEW p \in Workers, StartVM(p), w.id = cur[p] PROVE FALSE
      <4>1. p = q BY <1>3, <2>4, <3>2 DEF WorkInv
      <4>2. kind[p] \in Kinds BY <3>2 DEF StartVM, WorkInv
      <4>3. pc'[p] \in {"attach", "socket"} BY <3>2, <4>2, BootFacts DEF StartVM, Moves, CreateTypes
      <4> QED BY <1>3, <4>1, <4>3
    <3> QED BY <1>3, <3>1, <3>2, VMOrigin
  <2> QED BY <1>3, <2>3, <2>4, PrepOrigin
<1> QED BY <1>1, <1>2, <1>3 DEF UniqueInv, Own

-----------------------------------------------------------------------------
(* The cgroups.                                                              *)

(* The order of the steps of a boot. *)
LEMMA BootOrder ==
  ASSUME CreateTypes, NEW p \in Workers, BootMoves(p)
  PROVE  /\ pc'[p] \in {"attach", "load", "agent", "guestnet", "running"}
         /\ pc'[p] = "attach" => pc[p] = "socket"
         /\ \A q \in Workers \ {p} : pc'[q] = pc[q]
<1>1. PICK i \in DOMAIN BootPcs(kind[p]) :
        /\ pc[p] = BootPcs(kind[p])[i]
        /\ pc' = [pc EXCEPT ![p] = IF i = Len(BootPcs(kind[p])) THEN "running" ELSE BootPcs(kind[p])[i + 1]]
  BY DEF BootMoves, Moves
<1>2. pc \in [Workers -> CreatePcs] BY DEF CreateTypes
<1>3. CASE BootPcs(kind[p]) = <<"attach", "agent", "guestnet">>
  <2>1. i \in 1..3 BY <1>1, <1>3
  <2>2. i = 1 \/ i = 2 \/ i = 3 BY <2>1
  <2> QED BY <1>1, <1>2, <1>3, <2>2
<1>4. CASE BootPcs(kind[p]) = <<"socket", "attach", "load", "agent", "guestnet">>
  <2>1. i \in 1..5 BY <1>1, <1>4
  <2>2. i = 1 \/ i = 2 \/ i = 3 \/ i = 4 \/ i = 5 BY <2>1
  <2> QED BY <1>1, <1>2, <1>4, <2>2
<1> QED BY <1>3, <1>4 DEF BootPcs

(* The workers keep their cgroups, and no process gets into one. *)
LEMMA CgFromOthers ==
  ASSUME CgInv, CreateTypes, NEW S \in SUBSET vms, NEW f, vms' = {f[v] : v \in S},
         \A v \in S : f[v].id = v.id /\ f[v].cg = v.cg,
         \A v \in S : v.cg => v.id \in cgDirs',
         cgPath' \subseteq cgPath,
         \A q \in cgPath' : /\ cur'[q] = cur[q] /\ pc'[q] \notin {"idle", "prep", "start"} /\ cur[q] \in cgDirs'
                            /\ pc'[q] \in {"socket", "attach"} => pc[q] \in {"socket", "attach"}
  PROVE  CgInv'
<1>1. \A w \in vms' : \E v \in S : w = f[v] OBVIOUS
<1>2. ASSUME NEW w \in vms', w.cg PROVE w.id \in cgDirs' BY <1>1, <1>2
<1>3. ASSUME NEW x \in vms', NEW y \in vms', x.cg, y.cg, x.id = y.id PROVE x = y
  <2>1. PICK v \in S : x = f[v] BY <1>1
  <2>2. PICK w \in S : y = f[w] BY <1>1
  <2>3. v = w BY <1>3, <2>1, <2>2 DEF CgInv, CgroupReachesItsVM
  <2> QED BY <2>1, <2>2, <2>3
<1>4. ASSUME NEW q \in cgPath', pc'[q] \in {"socket", "attach"}, NEW w \in vms', w.cg PROVE w.id # cur'[q]
  <2>1. PICK v \in S : w = f[v] BY <1>1
  <2>2. q \in cgPath /\ v \in vms /\ v.cg /\ w.id = v.id BY <1>4, <2>1
  <2> QED BY <1>4, <2>2 DEF CgInv
<1>5. CgroupReachesItsVM' BY <1>2, <1>3 DEF CgroupReachesItsVM
<1> QED BY <1>4, <1>5 DEF CgInv

(* The same when no process changes. *)
LEMMA CgFromWorkers ==
  ASSUME CgInv, CreateTypes, vms' \subseteq vms, \A v \in vms : v.cg => v.id \in cgDirs',
         cgPath' \subseteq cgPath,
         \A q \in cgPath' : /\ cur'[q] = cur[q] /\ pc'[q] \notin {"idle", "prep", "start"} /\ cur[q] \in cgDirs'
                            /\ pc'[q] \in {"socket", "attach"} => pc[q] \in {"socket", "attach"}
  PROVE  CgInv'
<1>1. \A v \in vms' : v \in vms OBVIOUS
<1>2. ASSUME NEW v \in vms', v.cg
      PROVE  v.id \in cgDirs' /\ \A w \in vms' : w.cg /\ w.id = v.id => w = v
  <2>1. v \in vms BY <1>1
  <2>2. \A w \in vms : w.cg /\ w.id = v.id => w = v BY <1>2, <2>1 DEF CgInv, CgroupReachesItsVM
  <2> QED BY <1>1, <1>2, <2>1, <2>2
<1>3. ASSUME NEW q \in cgPath', pc'[q] \in {"socket", "attach"}, NEW w \in vms', w.cg PROVE w.id # cur'[q]
  <2>1. q \in cgPath /\ w \in vms BY <1>1
  <2> QED BY <1>3, <2>1 DEF CgInv
<1>4. CgroupReachesItsVM' BY <1>2 DEF CgroupReachesItsVM
<1> QED BY <1>3, <1>4 DEF CgInv

(* A process in a cgroup is alone in it, and the cgroup stays. *)
LEMMA NextCg ==
  ASSUME NetInv, CreateTypes, WorkInv, UniqueInv, CgInv, [CreateNext]_allVars
  PROVE  CgInv'
<1>a. /\ pc \in [Workers -> CreatePcs] /\ cur \in [Workers -> SandboxIds \cup {NoId}] /\ cgPath \subseteq Workers
      /\ vms \subseteq VMs
  BY DEF CreateTypes
<1>b. \A q \in cgPath : q \in Workers /\ pc[q] \notin {"idle", "prep", "start"} /\ cur[q] \in cgDirs
  BY <1>a DEF CgInv
<1>c. \A v \in vms : v.cg => v.id \in cgDirs BY DEF CgInv, CgroupReachesItsVM
<1>d. \A p, q \in Workers : pc[p] # "idle" /\ cur[p] = cur[q] => p = q BY DEF WorkInv
<1>1. ASSUME UNCHANGED <<vms, cgDirs, cgPath>>,
             \A q \in cgPath : /\ cur'[q] = cur[q] /\ pc'[q] \notin {"idle", "prep", "start"}
                               /\ pc'[q] \in {"socket", "attach"} => pc[q] \in {"socket", "attach"}
      PROVE  CgInv'
  BY <1>1, <1>b, <1>c, CgFromWorkers
<1>2. CASE PoolStep \/ Quiet \/ UNCHANGED allVars \/ \E p \in Workers : PrepRefused(p) \/ CloneEnds(p) \/ NetnsStep(p)
  BY <1>1, <1>2, <1>b DEF PoolStep, Quiet, PrepRefused, CloneEnds, NetnsStep, allVars, createVars, hostVars
<1>3. ASSUME NEW p \in Workers, PrepStart(p) \/ PrepOK(p) PROVE CgInv'
  <2>1. p \notin cgPath BY <1>3, <1>b DEF PrepStart, PrepOK, Joined
  <2>2. UNCHANGED <<vms, cgDirs, cgPath>> BY <1>3 DEF PrepStart, PrepOK, hostVars
  <2>3. \A q \in Workers \ {p} : pc'[q] = pc[q] /\ cur'[q] = cur[q] BY <1>3, <1>a DEF PrepStart, PrepOK, Moves
  <2> QED BY <1>1, <1>b, <2>1, <2>2, <2>3
<1>4. ASSUME NEW p \in Workers, BootAdvances(p) PROVE CgInv'
  <2>1. UNCHANGED <<vms, cgDirs, cgPath, cur>> BY <1>4 DEF BootAdvances, hostVars
  <2>2. /\ pc'[p] \in {"attach", "load", "agent", "guestnet", "running"} /\ (pc'[p] = "attach" => pc[p] = "socket")
        /\ \A q \in Workers \ {p} : pc'[q] = pc[q]
    BY <1>4, BootOrder DEF BootAdvances
  <2> QED BY <1>1, <1>b, <2>1, <2>2
<1>5. ASSUME NEW p \in Workers, TeardownWait(p) PROVE CgInv'
  <2>1. UNCHANGED <<vms, cgDirs, cgPath, cur>> BY <1>5 DEF TeardownWait, hostVars
  <2>2. pc'[p] = "free" /\ \A q \in Workers \ {p} : pc'[q] = pc[q] BY <1>5, <1>a DEF TeardownWait, Moves
  <2> QED BY <1>1, <1>b, <2>1, <2>2
<1>6. ASSUME NEW p \in Workers, BootFails(p) \/ TeardownKill(p) PROVE CgInv'
  <2> DEFINE f == [v \in vms |-> IF Own(p, v) THEN [v EXCEPT !.killed = TRUE] ELSE v]
  <2>1. UNCHANGED <<cgDirs, cgPath, cur>> BY <1>6 DEF BootFails, TeardownKill
  <2>2. pc'[p] \in {"undo", "wait"} /\ \A q \in Workers \ {p} : pc'[q] = pc[q]
    BY <1>6, <1>a DEF BootFails, TeardownKill, Moves
  <2>3. vms' = {f[v] : v \in vms} BY <1>6 DEF BootFails, TeardownKill, Kill
  <2>4. \A v \in vms : LET u == [v EXCEPT !.killed = TRUE] IN u.id = v.id /\ u.cg = v.cg BY <1>a, VMFacts
  <2>5. \A v \in vms : f[v].id = v.id /\ f[v].cg = v.cg BY <2>4
  <2>6. \A q \in cgPath : /\ cur'[q] = cur[q] /\ pc'[q] \notin {"idle", "prep", "start"} /\ cur[q] \in cgDirs'
                          /\ pc'[q] \in {"socket", "attach"} => pc[q] \in {"socket", "attach"}
    BY <1>b, <2>1, <2>2
  <2> HIDE DEF f
  <2> QED BY <1>c, <2>1, <2>3, <2>5, <2>6, CgFromOthers
<1>7. ASSUME NEW p \in Workers, PrepFails(p) \/ StartFails(p) \/ Undo(p) \/ TeardownFree(p) PROVE CgInv'
  <2>1. /\ cgPath' = cgPath \ {p} /\ vms' = vms
        /\ \A q \in Workers \ {p} : pc'[q] = pc[q] /\ cur'[q] = cur[q]
    BY <1>7, <1>a DEF PrepFails, StartFails, Undo, TeardownFree, CreateReturnsError, WorkerDone, Moves
  <2>2. \/ cgDirs \subseteq cgDirs'
        \/ cgDirs' = cgDirs \ {cur[p]} /\ p \in cgPath /\ \A v \in vms : ~(v.cg /\ v.id = cur[p])
    BY <1>7 DEF PrepFails, StartFails, Undo, TeardownFree, removeCgroupDir
  <2>3. \A v \in vms : v.cg => v.id \in cgDirs' BY <1>c, <2>2
  <2>4. \A q \in cgPath \ {p} : cur[q] \in cgDirs' BY <1>b, <1>d, <2>2
  <2> QED BY <1>b, <2>1, <2>3, <2>4, CgFromWorkers
<1>8. ASSUME NEW p \in Workers, StartVM(p) PROVE CgInv'
  <2>1. pc[p] = "start" /\ p \notin cgPath /\ cur' = cur BY <1>8, <1>b DEF StartVM
  <2>2. kind[p] \in Kinds BY <2>1 DEF WorkInv
  <2>3. pc'[p] \in {"attach", "socket"} /\ \A q \in Workers \ {p} : pc'[q] = pc[q]
    BY <1>8, <1>a, <2>2, BootFacts DEF StartVM, Moves
  <2>4. PICK n : n = [life |-> restarts, id |-> cur[p], ns |-> nc[p].ns, cg |-> FALSE, killed |-> FALSE] OBVIOUS
  <2>9. vms' = vms \cup {n} /\ ~n.cg BY <1>8, <2>4 DEF StartVM
  <2>5. /\ cgDirs \subseteq cgDirs'
        /\ \A q \in cgPath' : q \in cgPath \/ (q = p /\ cur[p] \notin cgDirs /\ cur[p] \in cgDirs')
    BY <1>8 DEF StartVM, prepareSandboxCgroup
  <2>6. CgroupReachesItsVM' BY <2>5, <2>9 DEF CgInv, CgroupReachesItsVM
  <2>7. \A q \in cgPath' : pc'[q] \notin {"idle", "prep", "start"} /\ cur'[q] \in cgDirs'
    BY <1>b, <2>1, <2>3, <2>5
  <2>8. ASSUME NEW q \in cgPath', pc'[q] \in {"socket", "attach"}, NEW v \in vms', v.cg PROVE v.id # cur'[q]
    <3>1. v \in vms /\ v.id \in cgDirs BY <1>c, <2>8, <2>9
    <3>2. CASE q \in cgPath BY <1>b, <2>1, <2>3, <2>8, <3>1, <3>2 DEF CgInv
    <3>3. CASE cur[q] \notin cgDirs BY <2>1, <3>1, <3>3
    <3> QED BY <2>5, <2>8, <3>2, <3>3
  <2> QED BY <2>6, <2>7, <2>8 DEF CgInv
<1>9. ASSUME NEW p \in Workers, Attach(p) PROVE CgInv'
  <2>1. /\ pc[p] = "attach" /\ cur' = cur
        /\ pc'[p] \in {"load", "agent", "guestnet", "running"} /\ \A q \in Workers \ {p} : pc'[q] = pc[q]
    BY <1>9, BootOrder DEF Attach
  <2>2. CASE /\ p \in cgPath /\ UNCHANGED <<cgPath, cgDirs>>
             /\ vms' = {IF Own(p, v) THEN [v EXCEPT !.cg = TRUE] ELSE v : v \in vms}
    <3>1. \A w \in vms' : \/ w \in vms /\ ~Own(p, w)
                          \/ \E v \in vms : Own(p, v) /\ w = [v EXCEPT !.cg = TRUE]
      BY <2>2
    <3>2. \A v \in vms : LET u == [v EXCEPT !.cg = TRUE] IN u.id = v.id BY <1>a, VMFacts
    <3>3. \A w \in vms' : w.cg => w \in vms \/ w.id = cur[p] BY <3>1, <3>2 DEF Own
    <3>4. \A w \in vms' : w.cg /\ w.id = cur[p] => \E v \in vms : Own(p, v) /\ w = [v EXCEPT !.cg = TRUE]
      <4>1. \A v \in vms : v.cg => v.id # cur[p] BY <2>1, <2>2 DEF CgInv
      <4> QED BY <3>1, <4>1
    <3>5. \A v, w \in vms : Own(p, v) /\ Own(p, w) => v = w BY DEF UniqueInv, Own
    <3>6. ASSUME NEW x \in vms', NEW y \in vms', x.cg, y.cg, x.id = y.id PROVE x = y
      <4>1. CASE x.id = cur[p]
        <5>1. PICK v \in vms : Own(p, v) /\ x = [v EXCEPT !.cg = TRUE] BY <3>4, <3>6, <4>1
        <5>2. PICK w \in vms : Own(p, w) /\ y = [w EXCEPT !.cg = TRUE] BY <3>4, <3>6, <4>1
        <5>3. v = w BY <3>5, <5>1, <5>2
        <5> QED BY <5>1, <5>2, <5>3
      <4>2. CASE x.id # cur[p]
        <5>1. x \in vms /\ y \in vms BY <3>3, <3>6, <4>2
        <5> QED BY <3>6, <5>1 DEF CgInv, CgroupReachesItsVM
      <4> QED BY <4>1, <4>2
    <3>7. \A w \in vms' : w.cg => w.id \in cgDirs' BY <1>b, <1>c, <2>2, <3>3
    <3>8. CgroupReachesItsVM' BY <3>6, <3>7 DEF CgroupReachesItsVM
    <3>9. \A q \in cgPath' : pc'[q] \notin {"idle", "prep", "start"} /\ cur'[q] \in cgDirs' BY <1>b, <2>1, <2>2
    <3>10. ASSUME NEW q \in cgPath', pc'[q] \in {"socket", "attach"}, NEW w \in vms', w.cg PROVE w.id # cur'[q]
      <4>1. q \in cgPath /\ q # p /\ q \in Workers /\ pc'[q] = pc[q] /\ cur'[q] = cur[q] BY <1>b, <2>1, <2>2, <3>10
      <4>2. cur[q] # cur[p] BY <1>d, <2>1, <4>1
      <4> QED BY <3>3, <3>10, <4>1, <4>2 DEF CgInv
    <3> QED BY <3>8, <3>9, <3>10 DEF CgInv
  <2>3. CASE p \in cgPath /\ cgPath' = cgPath \ {p} /\ removeCgroupDir(cur[p]) /\ vms' = vms
    <3>1. \A v \in vms : v.cg => v.id \in cgDirs' BY <1>c, <2>3 DEF removeCgroupDir
    <3>2. \A q \in cgPath \ {p} : cur[q] \in cgDirs' BY <1>b, <1>d, <2>3 DEF removeCgroupDir
    <3> QED BY <1>b, <2>1, <2>3, <3>1, <3>2, CgFromWorkers
  <2>4. CASE UNCHANGED <<cgPath, cgDirs, vms>> BY <1>1, <1>b, <2>1, <2>4
  <2> QED BY <1>9, <2>2, <2>3, <2>4 DEF Attach
<1>10. CASE VMExits
  <2>1. vms' \subseteq vms /\ UNCHANGED <<pc, cur, cgPath, cgDirs>> BY <1>10 DEF VMExits
  <2> QED BY <1>b, <1>c, <2>1, CgFromWorkers
<1>11. CASE ServerEnds
  BY <1>11, <1>c, CgFromWorkers DEF ServerEnds, hostVars
<1>12. CASE ServerRestarts
  <2>1. \A p \in Workers : pc[p] = "idle" BY <1>12, StepFacts DEF ServerRestarts, Restart, NetInv, PhaseInv, WorkInv
  <2>2. cgPath' = {} BY <1>12, <1>b, <2>1 DEF ServerRestarts
  <2>3. CASE UNCHANGED <<vms, cgDirs>> BY <1>c, <2>2, <2>3, CgFromWorkers
  <2>4. CASE vms' # vms \/ cgDirs' # cgDirs
    <3>0. PICK kept \in SUBSET vms :
            /\ \E g \in [kept -> BOOLEAN] : vms' = {[v EXCEPT !.killed = g[v]] : v \in kept}
            /\ \A v \in kept : v.cg /\ v.id \in cgDirs => v.id \in cgDirs'
      BY <1>12, <2>4, Scavenged DEF ServerRestarts
    <3>1. PICK g \in [kept -> BOOLEAN] : vms' = {[v EXCEPT !.killed = g[v]] : v \in kept} BY <3>0
    <3> DEFINE f == [v \in kept |-> [v EXCEPT !.killed = g[v]]]
    <3>2. vms' = {f[v] : v \in kept} BY <3>1
    <3>3. \A v \in kept : \A b \in BOOLEAN : LET u == [v EXCEPT !.killed = b] IN u.id = v.id /\ u.cg = v.cg
      BY <1>a, VMFacts
    <3>4. \A v \in kept : f[v].id = v.id /\ f[v].cg = v.cg BY <3>3
    <3>5. \A v \in kept : v.cg => v.id \in cgDirs' BY <1>c, <3>0
    <3> HIDE DEF f
    <3> QED BY <2>2, <3>2, <3>4, <3>5, CgFromOthers
  <2> QED BY <2>3, <2>4
<1> QED BY <1>2, <1>3, <1>4, <1>5, <1>6, <1>7, <1>8, <1>9, <1>10, <1>11, <1>12
        DEF CreateNext, CreateStep, TeardownStep

-----------------------------------------------------------------------------
(* The theorems.                                                             *)

LEMMA InitCreateInv == CreateInit => CreateInv
<1> SUFFICES ASSUME CreateInit PROVE CreateInv OBVIOUS
<1>1. NetInv BY InitNetInv DEF CreateInit
<1>2. CreateTypes BY BootFacts DEF CreateInit, CreateTypes
<1>3. WorkInv BY BootFacts, StepFacts DEF CreateInit, NetInit, WorkInv, NoId
<1>4. VMInv /\ DirInv /\ UniqueInv /\ CgInv
  BY DEF CreateInit, VMInv, DirInv, UniqueInv, CgInv, CgroupReachesItsVM, Alive
<1>5. FillInv /\ PoolConserved BY DEF CreateInit, NetInit, FillInv, PoolConserved
<1> QED BY <1>1, <1>2, <1>3, <1>4, <1>5 DEF CreateInv

LEMMA NextCreateInv == CreateInv /\ [CreateNext]_allVars => CreateInv'
<1> SUFFICES ASSUME CreateInv, [CreateNext]_allVars PROVE CreateInv' OBVIOUS
<1> USE DEF CreateInv
<1>1. NetInv' /\ FillInv' /\ PoolConserved' BY NextSlotsKept
<1>2. WorkTypes' /\ WorkInv' BY <1>1, NextWork
<1>3. CreateTypes' BY <1>2, NextHostTypes DEF CreateTypes, WorkTypes, HostTypes
<1>4. DirInv' /\ UniqueInv' /\ CgInv' BY <1>1, <1>2, NextDirs, NextUnique, NextCg
<1>5. VMInv' BY <1>1, <1>3, NextVMs
<1> QED BY <1>1, <1>2, <1>3, <1>4, <1>5

(* The invariant of workers, slots, processes and directories. *)
THEOREM CreateInvariance == CreateSpec => []CreateInv
<1>1. CreateInit => CreateInv BY InitCreateInv
<1>2. CreateInv /\ [CreateNext]_allVars => CreateInv' BY NextCreateInv
<1> QED BY <1>1, <1>2, PTL DEF CreateSpec

LEMMA CreateInvImplies ==
  ASSUME CreateInv
  PROVE  /\ CreateTypeOK /\ NothingLeftBehind /\ PoolConserved /\ FreeSlotVMsKilled /\ CgroupReachesItsVM
         /\ HeldIsConfigured /\ SlotExclusive
<1> USE DEF CreateInv
<1>1. CreateTypeOK BY NetInvImplies DEF CreateTypeOK, CreateTypes
<1>2. NothingLeftBehind
  <2>1. phase # "down" => \A v \in Alive : Working(v.id) BY BootFacts DEF VMInv, OwnedBy, Working
  <2> QED BY <2>1 DEF NothingLeftBehind, DirInv
<1>3. FreeSlotVMsKilled
  <2> SUFFICES ASSUME NEW i \in 1..Len(ch), NEW v \in Alive PROVE v.ns # ch[i].ns BY DEF FreeSlotVMsKilled
  <2>1. phase # "down" BY DEF NetInv, PhaseInv
  <2>2. PICK q \in Workers : pc[q] \in VMPcs /\ nc[q].ns = v.ns BY <2>1 DEF VMInv, OwnedBy
  <2>3. step[q] = "held" /\ q \in Goroutines BY <2>2, BootFacts, StepFacts DEF WorkInv
  <2> QED BY <2>2, <2>3, StepFacts, DistinctNames DEF NetInv
<1>4. HeldIsConfigured /\ SlotExclusive /\ CgroupReachesItsVM BY NetInvImplies DEF CgInv
<1> QED BY <1>1, <1>2, <1>3, <1>4

(* Every step keeps the types of slots, workers and processes. *)
THEOREM CreateTyped == CreateSpec => []CreateTypeOK
BY CreateInvariance, CreateInvImplies, PTL

(* Whatever fails and whenever: a VM of this server that nobody has killed, and in the
   first life a sandbox directory, belongs to a create or a sandbox still at work. *)
THEOREM CreateCleansUp == CreateSpec => []NothingLeftBehind
BY CreateInvariance, CreateInvImplies, PTL

(* No way through create, undo and teardown loses a slot of the pool. *)
THEOREM PoolIsConserved == CreateSpec => []PoolConserved
BY CreateInvariance, CreateInvImplies, PTL

(* releaseNetns puts no slot back in which a VM of this server was not sent SIGKILL. *)
THEOREM FreeSlotsAreDead == CreateSpec => []FreeSlotVMsKilled
BY CreateInvariance, CreateInvImplies, PTL

(* A VM in a cgroup can be reached through it for as long as it lives, and alone: the
   directory stays until the VM is gone, and no other VM, of this server or of an
   earlier one whose ids are given again, gets into it. *)
THEOREM CgroupsReachTheirVMs == CreateSpec => []CgroupReachesItsVM
BY CreateInvariance, CreateInvImplies, PTL

(* The slots of sandboxes keep their namespaces, and as long as no set-up left a thread
   outside the root namespace their veths and subnets, in the composed system too. *)
THEOREM SandboxSlotsHold == CreateSpec => [](HeldIsConfigured /\ SlotExclusive)
BY CreateInvariance, CreateInvImplies, PTL
=============================================================================
