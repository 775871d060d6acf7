---------------------------- MODULE HostNetnsProofs ----------------------------
(***************************************************************************)
(* Proofs about module HostNetns for every pool size, every set of workers *)
(* and every bound.                                                        *)
(***************************************************************************)
EXTENDS HostNetns, FunctionTheorems, FiniteSetTheorems, SequenceTheorems, TLAPS

(* The goroutines that have a config, and those whose setup or use of it has got to
   the namespace and to the veth. *)
ConfigSteps == SetupSteps \cup {"held"}
NamedSteps  == {"link", "move", "config", "away", "held"}
LinkedSteps == {"config", "held"}

RawConfigs == [ns : Names \cup {Absent}, subnet : Subnets \cup {0}, pooled : BOOLEAN]

KernelTypes == nss \subseteq Names /\ veth \in [Subnets -> Names \cup {Absent, Root, Lost}]

PoolTypes ==
  /\ phase \in {"init", "serving", "closing", "down"}
  /\ restarts \in 0..MaxRestarts
  /\ stray \in BOOLEAN
  /\ nextSandboxID \in 0..MaxSandboxes
  /\ nextSubnet \in 0..MaxSubnet
  /\ all \subseteq Configs
  /\ ch \in Seq(Configs)

StepTypes ==
  /\ step \in [Goroutines -> Steps]
  /\ nc \in [Goroutines -> RawConfigs]
  /\ \A p \in Goroutines : step[p] \in ConfigSteps => nc[p] \in Configs
  /\ \A p \in Goroutines : step[p] = "acquire" => nc[p].ns \in Names

TypeInv == KernelTypes /\ PoolTypes /\ StepTypes

(* Nobody serves before the pool is filled; a set-up outside the root namespace runs
   on a thread that was left there. *)
PhaseInv ==
  /\ phase = "init" => \A p \in Workers : step[p] = "idle"
  /\ phase # "init" => step[Main] = "idle"
  /\ phase = "down" => ch = <<>> /\ all = {} /\ \A p \in Goroutines : step[p] = "idle"
  /\ step[Main] \notin {"acquire", "held"}
  /\ \A p \in Goroutines : step[p] = "away" => stray

(* The slots of the pool are the first so many; each is ready once, or held once, or
   was discarded. *)
Slot(i) == [ns |-> PoolName(i), subnet |-> i, pooled |-> TRUE]
Filled(n) == all = {Slot(i) : i \in 1..n}
Pooled(p) == step[p] = "held" /\ nc[p].pooled
SlotInv ==
  /\ \E n \in 0..PoolSize :
       Filled(n) /\ (step[Main] \in SetupSteps => n < PoolSize /\ nc[Main] = Slot(n + 1))
  /\ \A i \in 1..Len(ch) : ch[i] \in all
  /\ \A i, j \in 1..Len(ch) : ch[i] = ch[j] => i = j
  /\ \A p \in Workers : Pooled(p) => nc[p] \in all /\ \A i \in 1..Len(ch) : ch[i] # nc[p]
  /\ \A p, q \in Workers : Pooled(p) /\ Pooled(q) /\ nc[p] = nc[q] => p = q

(* An on-demand config has the name of the one sandbox it is for. *)
Demand(p) == step[p] \in {"acquire"} \cup SetupSteps \/ (step[p] = "held" /\ ~nc[p].pooled)
DemandInv ==
  /\ \A p \in Workers : Demand(p) =>
       ~nc[p].pooled /\ \E k \in 1..nextSandboxID : nc[p].ns = SandboxName(k)
  /\ \A p, q \in Workers : Demand(p) /\ Demand(q) /\ nc[p].ns = nc[q].ns => p = q

(* While the server is not closing, the kernel has the names of the configs, and while
   every thread is in the root namespace, their veths too. *)
VethInv ==
  /\ \A p \in Goroutines : step[p] \in LinkedSteps => veth[nc[p].subnet] = nc[p].ns
  /\ \A p \in Goroutines : step[p] = "move" => veth[nc[p].subnet] = Root
  /\ \A p, q \in Goroutines : step[p] = "move" /\ step[q] = "move" => p = q
  /\ \A i \in 1..Len(ch) : veth[ch[i].subnet] = ch[i].ns
KernelInv ==
  phase \in {"init", "serving"} =>
    /\ \A p \in Goroutines : step[p] \in NamedSteps => nc[p].ns \in nss
    /\ \A i \in 1..Len(ch) : ch[i].ns \in nss
    /\ ~stray => VethInv

(* A step of p leaves the kernel state of all others alone. *)
OthersKept(p) ==
  /\ \A q \in Goroutines \ {p} : step[q] \in NamedSteps => nc[q].ns \in nss'
  /\ \A i \in 1..Len(ch) : ch[i].ns \in nss'
  /\ ~stray' =>
       /\ \A q \in Goroutines \ {p} :
            /\ step[q] \in LinkedSteps => veth'[nc[q].subnet] = nc[q].ns
            /\ step[q] = "move" => veth'[nc[q].subnet] = Root
       /\ \A i \in 1..Len(ch) : veth'[ch[i].subnet] = ch[i].ns

NetInv == TypeInv /\ PhaseInv /\ SlotInv /\ DemandInv /\ KernelInv /\ NoStrayVeth
-----------------------------------------------------------------------------
(* Facts about steps, names and configs.                                     *)

LEMMA StepFacts ==
  /\ Steps = {"idle", "acquire", "held", "name", "link", "move", "config", "away",
              "failedExists", "failedRange", "failedIO"}
  /\ ConfigSteps = {"name", "link", "move", "config", "away", "held"}
  /\ SetupSteps = {"name", "link", "move", "config", "away"}
  /\ FailedSteps = {"failedExists", "failedRange", "failedIO"}
  /\ Main \notin Workers /\ Main \in Goroutines /\ Workers \subseteq Goroutines
BY NetnsAssumption DEF Steps, ConfigSteps, SetupSteps, FailedSteps, Goroutines

LEMMA StrayStays ==
  ASSUME stray \in BOOLEAN, MayStray
  PROVE  phase' = phase /\ restarts' = restarts /\ (stray => stray') /\ stray' \in BOOLEAN
<1>1. stray' = stray \/ stray' = TRUE BY DEF MayStray
<1> QED BY <1>1 DEF MayStray

LEMMA NameFacts ==
  /\ Absent \notin Names /\ Root \notin Names /\ Lost \notin Names
  /\ Absent # Root /\ Absent # Lost /\ Lost # Root
  /\ \A i, j : (PoolName(i) = PoolName(j) => i = j) /\ PoolName(i) # SandboxName(j)
  /\ \A i, j : SandboxName(i) = SandboxName(j) => i = j
  /\ \A i \in 1..PoolSize : PoolName(i) \in Names /\ i \in Subnets
  /\ \A i \in 1..MaxSandboxes : SandboxName(i) \in Names
<1>1. Absent \notin Names /\ Root \notin Names /\ Lost \notin Names BY DEF Absent, Root, Lost, Names
<1>2. Absent # Root /\ Absent # Lost /\ Lost # Root BY DEF Absent, Root, Lost
<1>3. \A i \in 1..PoolSize : i \in Subnets BY NetnsAssumption DEF Subnets
<1>4. \A i, j : (PoolName(i) = PoolName(j) => i = j) /\ PoolName(i) # SandboxName(j) BY DEF PoolName, SandboxName
<1>5. \A i, j : SandboxName(i) = SandboxName(j) => i = j BY DEF SandboxName
<1>6. \A i \in 1..PoolSize : PoolName(i) \in Names BY DEF PoolName, Names
<1>7. \A i \in 1..MaxSandboxes : SandboxName(i) \in Names BY DEF SandboxName, Names
<1> QED BY <1>1, <1>2, <1>3, <1>4, <1>5, <1>6, <1>7

LEMMA SlotFacts ==
  /\ \A i \in 1..PoolSize : Slot(i) \in Configs
  /\ \A i : Slot(i).ns = PoolName(i) /\ Slot(i).subnet = i /\ Slot(i).pooled
  /\ \A i, j : Slot(i) = Slot(j) => i = j
<1>1. \A i : Slot(i).ns = PoolName(i) /\ Slot(i).subnet = i /\ Slot(i).pooled BY DEF Slot
<1>2. \A i \in 1..PoolSize : Slot(i) \in Configs BY NameFacts DEF Slot, Configs
<1> QED BY <1>1, <1>2

(* The number of slots in the pool is the number of the last one. *)
LEMMA FilledCount ==
  ASSUME NEW n \in 0..PoolSize, Filled(n)
  PROVE  Cardinality(all) = n /\ IsFiniteSet(all)
<1> DEFINE f == [i \in 1..n |-> Slot(i)]
<1>1. f \in Bijection(1..n, all)
  <2>1. f \in [1..n -> all] BY DEF Filled
  <2>2. \A i, j \in 1..n : f[i] = f[j] => i = j BY SlotFacts
  <2>3. \A c \in all : \E i \in 1..n : f[i] = c BY DEF Filled
  <2> QED BY <2>1, <2>2, <2>3, Fun_IsBij
<1>2. IsFiniteSet(1..n) /\ Cardinality(1..n) = n
  <2>1. n \in Nat BY NetnsAssumption
  <2> QED BY <2>1, FS_Interval
<1>3. ExistsBijection(1..n, all) BY <1>1 DEF ExistsBijection
<1> QED BY <1>2, <1>3, FS_Bijection

(* The head of the channel and what stays in it; what a send adds. *)
LEMMA ChannelFacts ==
  ASSUME ch \in Seq(Configs)
  PROVE  /\ ch # <<>> => /\ Len(ch) \in Nat /\ Len(ch) > 0 /\ Head(ch) = ch[1] /\ Head(ch) \in Configs
                         /\ Tail(ch) \in Seq(Configs) /\ Len(Tail(ch)) = Len(ch) - 1
                         /\ \A i \in 1..Len(Tail(ch)) : i + 1 \in 1..Len(ch) /\ Tail(ch)[i] = ch[i + 1]
                         /\ \A i \in 1..Len(ch) : i = 1 \/ (i - 1 \in 1..Len(Tail(ch)) /\ Tail(ch)[i - 1] = ch[i])
         /\ \A c \in Configs : /\ Append(ch, c) \in Seq(Configs) /\ Len(Append(ch, c)) = Len(ch) + 1
                               /\ Append(ch, c)[Len(ch) + 1] = c
                               /\ \A i \in 1..Len(ch) : Append(ch, c)[i] = ch[i]
<1>1. ch # <<>> => Len(ch) \in Nat /\ Len(ch) > 0 /\ Head(ch) = ch[1] /\ Head(ch) \in Configs
                     /\ Tail(ch) \in Seq(Configs) /\ Len(Tail(ch)) = Len(ch) - 1
  BY HeadTailProperties, EmptySeq, LenProperties
<1>2. ch # <<>> => \A i \in 1..Len(Tail(ch)) : Tail(ch)[i] = ch[i + 1] BY HeadTailProperties
<1>3. \A c \in Configs : /\ Append(ch, c) \in Seq(Configs) /\ Len(Append(ch, c)) = Len(ch) + 1
                         /\ Append(ch, c)[Len(ch) + 1] = c
                         /\ \A i \in 1..Len(ch) : Append(ch, c)[i] = ch[i]
  BY AppendProperties
<1> QED BY <1>1, <1>2, <1>3

(* A channel without a slot twice stays so. *)
LEMMA AppendDistinct ==
  ASSUME ch \in Seq(Configs), NEW c \in Configs, \A i \in 1..Len(ch) : ch[i] # c,
         \A i, j \in 1..Len(ch) : ch[i] = ch[j] => i = j
  PROVE  /\ \A i, j \in 1..Len(Append(ch, c)) : Append(ch, c)[i] = Append(ch, c)[j] => i = j
         /\ \A i \in 1..Len(Append(ch, c)) : Append(ch, c)[i] = c \/ \E j \in 1..Len(ch) : Append(ch, c)[i] = ch[j]
<1>1. PICK q : q = Append(ch, c) OBVIOUS
<1>2. /\ Len(q) = Len(ch) + 1 /\ q[Len(ch) + 1] = c /\ Len(ch) \in Nat
      /\ \A i \in 1..Len(ch) : q[i] = ch[i]
  BY <1>1, ChannelFacts, LenProperties
<1>3. \A i \in 1..Len(q) : i \in 1..Len(ch) \/ i = Len(ch) + 1 BY <1>2
<1>4. ASSUME NEW i \in 1..Len(q), NEW j \in 1..Len(q), q[i] = q[j] PROVE i = j
  <2>1. CASE i \in 1..Len(ch) /\ j \in 1..Len(ch) BY <1>2, <1>4, <2>1
  <2>2. CASE i \in 1..Len(ch) /\ j = Len(ch) + 1 BY <1>2, <1>4, <2>2
  <2>3. CASE i = Len(ch) + 1 /\ j \in 1..Len(ch) BY <1>2, <1>4, <2>3
  <2> QED BY <1>3, <2>1, <2>2, <2>3
<1>5. \A i \in 1..Len(q) : q[i] = c \/ \E j \in 1..Len(ch) : q[i] = ch[j] BY <1>2, <1>3
<1> QED BY <1>1, <1>4, <1>5

LEMMA TailDistinct ==
  ASSUME ch \in Seq(Configs), ch # <<>>, \A i, j \in 1..Len(ch) : ch[i] = ch[j] => i = j
  PROVE  /\ \A i, j \in 1..Len(Tail(ch)) : Tail(ch)[i] = Tail(ch)[j] => i = j
         /\ \A i \in 1..Len(Tail(ch)) : Tail(ch)[i] # ch[1] /\ \E j \in 1..Len(ch) : Tail(ch)[i] = ch[j]
<1>1. PICK q : q = Tail(ch) OBVIOUS
<1>2. 1 \in 1..Len(ch) /\ \A i \in 1..Len(q) : i + 1 \in 1..Len(ch) /\ q[i] = ch[i + 1] BY <1>1, ChannelFacts
<1>3. ASSUME NEW i \in 1..Len(q), NEW j \in 1..Len(q), q[i] = q[j] PROVE i = j
  <2>1. ch[i + 1] = ch[j + 1] /\ i + 1 \in 1..Len(ch) /\ j + 1 \in 1..Len(ch) BY <1>2, <1>3
  <2>2. i + 1 = j + 1 BY <2>1
  <2> QED BY <2>2
<1>4. ASSUME NEW i \in 1..Len(q) PROVE q[i] # ch[1] /\ \E j \in 1..Len(ch) : q[i] = ch[j]
  <2>1. i + 1 # 1 OBVIOUS
  <2> QED BY <1>2, <2>1
<1> QED BY <1>1, <1>3, <1>4

LEMMA ConfigFacts ==
  /\ NoConfig \in RawConfigs /\ Configs \subseteq RawConfigs
  /\ \A c \in Configs : c.ns \in Names /\ c.subnet \in Subnets /\ c.pooled \in BOOLEAN
  /\ \A n \in Names : /\ [NoConfig EXCEPT !.ns = n] \in RawConfigs
                      /\ [NoConfig EXCEPT !.ns = n].ns = n /\ ~[NoConfig EXCEPT !.ns = n].pooled
  /\ \A c \in RawConfigs, s \in Subnets :
       /\ c.ns \in Names => [c EXCEPT !.subnet = s] \in Configs
       /\ [c EXCEPT !.subnet = s].ns = c.ns /\ [c EXCEPT !.subnet = s].pooled = c.pooled
       /\ [c EXCEPT !.subnet = s].subnet = s
<1>1. NoConfig \in RawConfigs /\ Configs \subseteq RawConfigs BY DEF NoConfig, RawConfigs, Configs
<1>2. ASSUME NEW n \in Names
      PROVE [NoConfig EXCEPT !.ns = n] = [ns |-> n, subnet |-> 0, pooled |-> FALSE]
  <2>1. ASSUME NEW c \in RawConfigs PROVE [c EXCEPT !.ns = n] = [ns |-> n, subnet |-> c.subnet, pooled |-> c.pooled]
    BY <2>1 DEF RawConfigs
  <2>2. NoConfig.subnet = 0 /\ NoConfig.pooled = FALSE BY DEF NoConfig
  <2> QED BY <1>1, <2>1, <2>2
<1>3. \A n \in Names : [ns |-> n, subnet |-> 0, pooled |-> FALSE] \in RawConfigs BY DEF RawConfigs
<1>4. ASSUME NEW c \in RawConfigs, NEW s \in Subnets
      PROVE [c EXCEPT !.subnet = s] = [ns |-> c.ns, subnet |-> s, pooled |-> c.pooled]
  BY <1>4 DEF RawConfigs
<1>5. \A c \in RawConfigs : c.pooled \in BOOLEAN BY DEF RawConfigs
<1>6. ASSUME NEW c \in RawConfigs, NEW s \in Subnets, c.ns \in Names PROVE [c EXCEPT !.subnet = s] \in Configs
  <2>1. [ns |-> c.ns, subnet |-> s, pooled |-> c.pooled] \in Configs BY <1>5, <1>6 DEF Configs
  <2> QED BY <1>4, <2>1
<1>8. ASSUME NEW c \in RawConfigs, NEW s \in Subnets
      PROVE /\ [c EXCEPT !.subnet = s].ns = c.ns /\ [c EXCEPT !.subnet = s].pooled = c.pooled
            /\ [c EXCEPT !.subnet = s].subnet = s
  BY <1>4
<1>9. ASSUME NEW n \in Names
      PROVE /\ [NoConfig EXCEPT !.ns = n] \in RawConfigs
            /\ [NoConfig EXCEPT !.ns = n].ns = n /\ ~[NoConfig EXCEPT !.ns = n].pooled
  <2> HIDE DEF NoConfig
  <2> QED BY <1>2, <1>3
<1>7. \A c \in Configs : c.ns \in Names /\ c.subnet \in Subnets /\ c.pooled \in BOOLEAN BY DEF Configs
<1> QED BY <1>1, <1>6, <1>7, <1>8, <1>9

(* The slot that Init sets up next. *)
LEMMA NextSlot ==
  ASSUME SlotInv, PoolInitSlot
  PROVE  \E n \in 0..PoolSize : /\ Filled(n) /\ Cardinality(all) = n /\ n < PoolSize
                                /\ Slot(n + 1) \in Configs
                                /\ nc' = [nc EXCEPT ![Main] = Slot(n + 1)]
                                /\ Cleanup(PoolName(n + 1), n + 1)
<1>1. PICK n \in 0..PoolSize : Filled(n) BY DEF SlotInv
<1>2. Cardinality(all) = n BY <1>1, FilledCount
<1>3. n + 1 <= PoolSize /\ n \in Nat BY <1>2, NetnsAssumption DEF PoolInitSlot
<1>4. Slot(n + 1) \in Configs BY <1>3, SlotFacts, NetnsAssumption
<1>5. /\ Cleanup(PoolName(Cardinality(all) + 1), Cardinality(all) + 1)
      /\ nc' = [nc EXCEPT ![Main] = Slot(Cardinality(all) + 1)]
  BY DEF PoolInitSlot, Slot
<1>6. Cleanup(PoolName(n + 1), n + 1) /\ nc' = [nc EXCEPT ![Main] = Slot(n + 1)] BY <1>2, <1>5
<1>7. n < PoolSize BY <1>3, NetnsAssumption
<1> WITNESS n \in 0..PoolSize
<1> QED BY <1>1, <1>2, <1>4, <1>6, <1>7

-----------------------------------------------------------------------------
(* Types and the phases of the server.                                       *)

(* Nobody serves before the pool is filled. *)
LEMMA NextPhase ==
  ASSUME TypeInv, PhaseInv, [NetNext]_netVars
  PROVE  PhaseInv'
<1> USE NetnsAssumption, StepFacts, NameFacts DEF kernelVars, poolVars, serverVars, At, Goto,
    TypeInv, KernelTypes, PoolTypes, StepTypes, PhaseInv
<1>1. ASSUME NEW p \in Goroutines, SetupName(p) PROVE PhaseInv'
  BY <1>1 DEF SetupName
<1>2. ASSUME NEW p \in Goroutines, SetupLink(p) PROVE PhaseInv'
  BY <1>2 DEF SetupLink, DeleteNs
<1>3. ASSUME NEW p \in Goroutines, SetupMove(p) PROVE PhaseInv'
  BY <1>3 DEF SetupMove
<1>4. ASSUME NEW p \in Goroutines, SetupRange(p) PROVE PhaseInv'
  BY <1>4 DEF SetupRange, TakeApart, DeleteNs
<1>5. ASSUME NEW p \in Goroutines, SetupDone(p) PROVE PhaseInv'
  <2>1. /\ phase' = phase /\ (stray => stray')
        /\ step' = [step EXCEPT ![p] = IF p = Main THEN "idle" ELSE "held"]
    BY <1>5, StrayStays DEF SetupDone
  <2>2. phase # "down" /\ (p # Main => p \in Workers /\ phase # "init")
    BY <1>5 DEF SetupDone, Goroutines
  <2> QED BY <2>1, <2>2
<1>6. ASSUME NEW p \in Goroutines, SetupIOError(p) PROVE PhaseInv'
  BY <1>6 DEF SetupIOError, TakeApart, DeleteNs, MayStray
<1>7. ASSUME NEW p \in Goroutines, SetupFailed(p) PROVE PhaseInv'
  BY <1>7 DEF SetupFailed
<1>8. ASSUME NEW p \in Workers, acquireNetns(p) PROVE PhaseInv'
  BY <1>8 DEF acquireNetns
<1>9. ASSUME NEW p \in Workers, AcquirePooled(p) PROVE PhaseInv'
  BY <1>9 DEF AcquirePooled
<1>10. ASSUME NEW p \in Workers, AcquireOnDemand(p) PROVE PhaseInv'
  BY <1>10 DEF AcquireOnDemand
<1>11. ASSUME NEW p \in Workers, releaseNetns(p) PROVE PhaseInv'
  BY <1>11 DEF releaseNetns, Cleanup
<1>12. ASSUME NEW p \in Workers, DiscardNetns(p) PROVE PhaseInv'
  BY <1>12 DEF DiscardNetns, Cleanup
<1>13. CASE PoolInitSlot
  BY <1>13 DEF PoolInitSlot, Cleanup
<1>14. CASE Serve
  BY <1>14 DEF Serve
<1>15. CASE PoolDestroy
  BY <1>15 DEF PoolDestroy
<1>16. CASE ProcessEnds
  BY <1>16 DEF ProcessEnds
<1>17. CASE Restart
  BY <1>17 DEF Restart
<1>18. CASE UNCHANGED netVars
  BY <1>18 DEF netVars
<1>19. CASE NamelessNsDies
  BY <1>19 DEF NamelessNsDies
<1> QED BY <1>1, <1>2, <1>3, <1>4, <1>5, <1>6, <1>7, <1>8, <1>9, <1>10, <1>11, <1>12, <1>13, <1>14,
    <1>15, <1>16, <1>17, <1>18, <1>19 DEF NetNext, SetupStep, WorkerStep, Goroutines, PoolInitFailed,
    Crash, StaysDown

(* Names. *)
LEMMA NextKernelTypes ==
  ASSUME TypeInv, PhaseInv, SlotInv, [NetNext]_netVars
  PROVE  KernelTypes'
<1> USE NetnsAssumption, StepFacts, NameFacts DEF kernelVars, poolVars, serverVars, At, Goto,
    TypeInv, KernelTypes, PoolTypes, StepTypes, Configs
<1>1. ASSUME NEW p \in Goroutines, SetupName(p) PROVE KernelTypes'
  BY <1>1 DEF SetupName
<1>2. ASSUME NEW p \in Goroutines, SetupLink(p) PROVE KernelTypes'
  BY <1>2 DEF SetupLink, DeleteNs
<1>3. ASSUME NEW p \in Goroutines, SetupMove(p) PROVE KernelTypes'
  BY <1>3 DEF SetupMove
<1>4. ASSUME NEW p \in Goroutines, SetupRange(p) PROVE KernelTypes'
  BY <1>4 DEF SetupRange, TakeApart, DeleteNs
<1>5. ASSUME NEW p \in Goroutines, SetupDone(p) PROVE KernelTypes'
  BY <1>5 DEF SetupDone, MayStray
<1>6. ASSUME NEW p \in Goroutines, SetupIOError(p) PROVE KernelTypes'
  BY <1>6 DEF SetupIOError, TakeApart, DeleteNs, MayStray
<1>7. ASSUME NEW p \in Goroutines, SetupFailed(p) PROVE KernelTypes'
  BY <1>7 DEF SetupFailed
<1>8. ASSUME NEW p \in Workers, acquireNetns(p) PROVE KernelTypes'
  BY <1>8 DEF acquireNetns
<1>9. ASSUME NEW p \in Workers, AcquirePooled(p) PROVE KernelTypes'
  BY <1>9 DEF AcquirePooled
<1>10. ASSUME NEW p \in Workers, AcquireOnDemand(p) PROVE KernelTypes'
  BY <1>10 DEF AcquireOnDemand
<1>11. ASSUME NEW p \in Workers, releaseNetns(p) PROVE KernelTypes'
  BY <1>11 DEF releaseNetns, Cleanup
<1>12. ASSUME NEW p \in Workers, DiscardNetns(p) PROVE KernelTypes'
  BY <1>12 DEF DiscardNetns, Cleanup
<1>13. CASE PoolInitSlot
  BY <1>13 DEF PoolInitSlot, Cleanup
<1>14. CASE Serve
  BY <1>14 DEF Serve
<1>15. CASE PoolDestroy
  BY <1>15 DEF PoolDestroy
<1>16. CASE ProcessEnds
  BY <1>16 DEF ProcessEnds
<1>17. CASE Restart
  BY <1>17 DEF Restart
<1>18. CASE UNCHANGED netVars
  BY <1>18 DEF netVars
<1>19. CASE NamelessNsDies
  BY <1>19 DEF NamelessNsDies
<1> QED BY <1>1, <1>2, <1>3, <1>4, <1>5, <1>6, <1>7, <1>8, <1>9, <1>10, <1>11, <1>12, <1>13, <1>14,
    <1>15, <1>16, <1>17, <1>18, <1>19 DEF NetNext, SetupStep, WorkerStep, Goroutines, PoolInitFailed,
    Crash, StaysDown

(* The pool and the counters. *)
LEMMA NextPoolTypes ==
  ASSUME TypeInv, PhaseInv, SlotInv, [NetNext]_netVars
  PROVE  PoolTypes'
<1> USE NetnsAssumption, StepFacts, NameFacts DEF kernelVars, poolVars, serverVars, At, Goto,
    TypeInv, KernelTypes, PoolTypes, StepTypes
<1>1. ASSUME NEW p \in Goroutines, SetupName(p) PROVE PoolTypes'
  BY <1>1 DEF SetupName
<1>2. ASSUME NEW p \in Goroutines, SetupLink(p) PROVE PoolTypes'
  BY <1>2 DEF SetupLink, DeleteNs
<1>3. ASSUME NEW p \in Goroutines, SetupMove(p) PROVE PoolTypes'
  BY <1>3 DEF SetupMove
<1>4. ASSUME NEW p \in Goroutines, SetupRange(p) PROVE PoolTypes'
  BY <1>4 DEF SetupRange, TakeApart, DeleteNs
<1>5. ASSUME NEW p \in Goroutines, SetupDone(p) PROVE PoolTypes'
  <2>1. nc[p] \in Configs BY <1>5 DEF SetupDone, MayStray
  <2>2. Append(ch, nc[p]) \in Seq(Configs) BY <2>1, ChannelFacts
  <2>3. (all' = all /\ ch' = ch) \/ (all' = all \cup {nc[p]} /\ ch' = Append(ch, nc[p])) BY <1>5 DEF SetupDone, MayStray
  <2>4. all' \subseteq Configs /\ ch' \in Seq(Configs) BY <2>1, <2>2, <2>3
  <2> QED BY <1>5, <2>4 DEF SetupDone, MayStray
<1>6. ASSUME NEW p \in Goroutines, SetupIOError(p) PROVE PoolTypes'
  BY <1>6 DEF SetupIOError, TakeApart, DeleteNs, MayStray
<1>7. ASSUME NEW p \in Goroutines, SetupFailed(p) PROVE PoolTypes'
  BY <1>7 DEF SetupFailed
<1>8. ASSUME NEW p \in Workers, acquireNetns(p) PROVE PoolTypes'
  BY <1>8 DEF acquireNetns
<1>9. ASSUME NEW p \in Workers, AcquirePooled(p) PROVE PoolTypes'
  BY <1>9 DEF AcquirePooled
<1>10. ASSUME NEW p \in Workers, AcquireOnDemand(p) PROVE PoolTypes'
  BY <1>10 DEF AcquireOnDemand
<1>11. ASSUME NEW p \in Workers, releaseNetns(p) PROVE PoolTypes'
  BY <1>11 DEF releaseNetns, Cleanup
<1>12. ASSUME NEW p \in Workers, DiscardNetns(p) PROVE PoolTypes'
  BY <1>12 DEF DiscardNetns, Cleanup
<1>13. CASE PoolInitSlot
  BY <1>13 DEF PoolInitSlot, Cleanup
<1>14. CASE Serve
  BY <1>14 DEF Serve
<1>15. CASE PoolDestroy
  BY <1>15 DEF PoolDestroy
<1>16. CASE ProcessEnds
  <2>1. all' = {} /\ ch' = <<>> /\ ch' \in Seq(Configs) BY <1>16, EmptySeq DEF ProcessEnds
  <2>2. stray' \in BOOLEAN BY <1>16 DEF ProcessEnds
  <2> QED BY <1>16, <2>1, <2>2 DEF ProcessEnds
<1>17. CASE Restart
  BY <1>17 DEF Restart
<1>18. CASE UNCHANGED netVars
  BY <1>18 DEF netVars
<1>19. CASE NamelessNsDies
  BY <1>19 DEF NamelessNsDies
<1> QED BY <1>1, <1>2, <1>3, <1>4, <1>5, <1>6, <1>7, <1>8, <1>9, <1>10, <1>11, <1>12, <1>13, <1>14,
    <1>15, <1>16, <1>17, <1>18, <1>19 DEF NetNext, SetupStep, WorkerStep, Goroutines, PoolInitFailed,
    Crash, StaysDown

(* Goroutines and their configs. *)
LEMMA NextStepTypes ==
  ASSUME TypeInv, PhaseInv, SlotInv, [NetNext]_netVars
  PROVE  StepTypes'
<1> USE NetnsAssumption, StepFacts, NameFacts DEF kernelVars, poolVars, serverVars, At, Goto,
    TypeInv, KernelTypes, PoolTypes, StepTypes
<1>1. ASSUME NEW p \in Goroutines, SetupName(p) PROVE StepTypes'
  BY <1>1 DEF SetupName
<1>2. ASSUME NEW p \in Goroutines, SetupLink(p) PROVE StepTypes'
  BY <1>2 DEF SetupLink, DeleteNs
<1>3. ASSUME NEW p \in Goroutines, SetupMove(p) PROVE StepTypes'
  BY <1>3 DEF SetupMove
<1>4. ASSUME NEW p \in Goroutines, SetupRange(p) PROVE StepTypes'
  BY <1>4 DEF SetupRange, TakeApart, DeleteNs
<1>5. ASSUME NEW p \in Goroutines, SetupDone(p) PROVE StepTypes'
  <2>1. CASE p = Main
    <3>1. nc' = [nc EXCEPT ![p] = NoConfig] /\ step' = [step EXCEPT ![p] = "idle"] BY <1>5, <2>1 DEF SetupDone, MayStray
    <3> QED BY <3>1, ConfigFacts
  <2>2. CASE p # Main
    <3>1. nc' = nc /\ step' = [step EXCEPT ![p] = "held"] BY <1>5, <2>2 DEF SetupDone, MayStray
    <3> QED BY <1>5, <3>1 DEF SetupDone, MayStray
  <2> QED BY <2>1, <2>2
<1>6. ASSUME NEW p \in Goroutines, SetupIOError(p) PROVE StepTypes'
  BY <1>6 DEF SetupIOError, TakeApart, DeleteNs, MayStray
<1>7. ASSUME NEW p \in Goroutines, SetupFailed(p) PROVE StepTypes'
  <2>1. nc' = [nc EXCEPT ![p] = NoConfig] /\ step' = [step EXCEPT ![p] = "idle"] BY <1>7 DEF SetupFailed
  <2> QED BY <2>1, ConfigFacts
<1>8. ASSUME NEW p \in Workers, acquireNetns(p) PROVE StepTypes'
  <2>1. PICK n : n = SandboxName(nextSandboxID + 1) OBVIOUS
  <2>2. n \in Names BY <1>8, <2>1 DEF acquireNetns
  <2>3. nc' = [nc EXCEPT ![p] = [NoConfig EXCEPT !.ns = n]] /\ step' = [step EXCEPT ![p] = "acquire"]
    BY <1>8, <2>1 DEF acquireNetns
  <2> QED BY <2>2, <2>3, ConfigFacts
<1>9. ASSUME NEW p \in Workers, AcquirePooled(p) PROVE StepTypes'
  <2>1. PICK c \in Configs : c = Head(ch) BY <1>9, ChannelFacts DEF AcquirePooled
  <2>2. nc' = [nc EXCEPT ![p] = c] /\ step' = [step EXCEPT ![p] = "held"] BY <1>9, <2>1 DEF AcquirePooled
  <2> QED BY <2>2, ConfigFacts
<1>10. ASSUME NEW p \in Workers, AcquireOnDemand(p) PROVE StepTypes'
  <2>1. PICK c \in RawConfigs : c = nc[p] OBVIOUS
  <2>2. nextSubnet + 1 \in Subnets /\ c.ns \in Names BY <1>10, <2>1 DEF AcquireOnDemand, Subnets
  <2>3. nc' = [nc EXCEPT ![p] = [c EXCEPT !.subnet = nextSubnet + 1]] /\ step' = [step EXCEPT ![p] = "name"]
    BY <1>10, <2>1 DEF AcquireOnDemand
  <2> QED BY <2>2, <2>3, ConfigFacts
<1>11. ASSUME NEW p \in Workers, releaseNetns(p) PROVE StepTypes'
  <2>1. nc' = [nc EXCEPT ![p] = NoConfig] /\ step' = [step EXCEPT ![p] = "idle"]
    BY <1>11 DEF releaseNetns, Cleanup
  <2> QED BY <2>1, ConfigFacts
<1>12. ASSUME NEW p \in Workers, DiscardNetns(p) PROVE StepTypes'
  <2>1. nc' = [nc EXCEPT ![p] = NoConfig] /\ step' = [step EXCEPT ![p] = "idle"]
    BY <1>12 DEF DiscardNetns, Cleanup
  <2> QED BY <2>1, ConfigFacts
<1>13. CASE PoolInitSlot
  <2>1. PICK n \in 0..PoolSize : Slot(n + 1) \in Configs /\ nc' = [nc EXCEPT ![Main] = Slot(n + 1)] BY <1>13, NextSlot
  <2>2. step' = [step EXCEPT ![Main] = "name"] BY <1>13 DEF PoolInitSlot
  <2> QED BY <2>1, <2>2, ConfigFacts
<1>14. CASE Serve
  BY <1>14 DEF Serve
<1>15. CASE PoolDestroy
  BY <1>15 DEF PoolDestroy
<1>16. CASE ProcessEnds
  <2>1. nc' = [p \in Goroutines |-> NoConfig] /\ step' = [p \in Goroutines |-> "idle"] BY <1>16 DEF ProcessEnds
  <2> QED BY <2>1, ConfigFacts
<1>17. CASE Restart
  BY <1>17 DEF Restart
<1>18. CASE UNCHANGED netVars
  BY <1>18 DEF netVars
<1>19. CASE NamelessNsDies
  BY <1>19 DEF NamelessNsDies
<1> QED BY <1>1, <1>2, <1>3, <1>4, <1>5, <1>6, <1>7, <1>8, <1>9, <1>10, <1>11, <1>12, <1>13, <1>14,
    <1>15, <1>16, <1>17, <1>18, <1>19 DEF NetNext, SetupStep, WorkerStep, Goroutines, PoolInitFailed,
    Crash, StaysDown

-----------------------------------------------------------------------------
(* Which slot is where.                                                      *)

(* Each slot of the pool is at one place. *)
LEMMA NextSlots ==
  ASSUME TypeInv, PhaseInv, SlotInv, DemandInv, [NetNext]_netVars
  PROVE  SlotInv'
<1> USE NetnsAssumption, StepFacts, NameFacts DEF kernelVars, poolVars, serverVars, At, Goto,
    TypeInv, KernelTypes, PoolTypes, StepTypes, PhaseInv, SlotInv, DemandInv, Filled, Pooled,
    Demand
<1>1. ASSUME NEW p \in Goroutines, SetupName(p) PROVE SlotInv'
  <2>1. all' = all /\ ch' = ch /\ nc' = nc /\ step[p] \in SetupSteps BY <1>1 DEF SetupName
  <2>2. /\ \A q \in Goroutines : q # p => step'[q] = step[q]
        /\ step'[p] # "held"
    BY <1>1 DEF SetupName
  <2>3. \A q \in Workers : Pooled(q)' => Pooled(q) /\ nc'[q] = nc[q] BY <2>1, <2>2
  <2>4. step'[Main] \in SetupSteps => step[Main] \in SetupSteps BY <2>1, <2>2
  <2>5. \A n \in 0..PoolSize : Filled(n) => Filled(n)' BY <2>1
  <2> HIDE DEF Pooled, Filled
  <2> QED BY <2>1, <2>3, <2>4, <2>5
<1>2. ASSUME NEW p \in Goroutines, SetupLink(p) PROVE SlotInv'
  <2>1. all' = all /\ ch' = ch /\ nc' = nc /\ step[p] \in SetupSteps BY <1>2 DEF SetupLink
  <2>2. /\ \A q \in Goroutines : q # p => step'[q] = step[q]
        /\ step'[p] # "held"
    BY <1>2 DEF SetupLink
  <2>3. \A q \in Workers : Pooled(q)' => Pooled(q) /\ nc'[q] = nc[q] BY <2>1, <2>2
  <2>4. step'[Main] \in SetupSteps => step[Main] \in SetupSteps BY <2>1, <2>2
  <2>5. \A n \in 0..PoolSize : Filled(n) => Filled(n)' BY <2>1
  <2> HIDE DEF Pooled, Filled
  <2> QED BY <2>1, <2>3, <2>4, <2>5
<1>3. ASSUME NEW p \in Goroutines, SetupMove(p) PROVE SlotInv'
  BY <1>3 DEF SetupMove
<1>4. ASSUME NEW p \in Goroutines, SetupRange(p) PROVE SlotInv'
  BY <1>4 DEF SetupRange, TakeApart, DeleteNs
<1>5. ASSUME NEW p \in Goroutines, SetupDone(p) PROVE SlotInv'
  <2>1. CASE p = Main
    <3>1. PICK n \in 0..PoolSize : Filled(n) /\ n < PoolSize /\ nc[Main] = Slot(n + 1)
      BY <1>5, <2>1 DEF SetupDone, MayStray
    <3>2. /\ all' = all \cup {Slot(n + 1)} /\ ch' = Append(ch, Slot(n + 1))
          /\ step' = [step EXCEPT ![Main] = "idle"] /\ nc' = [nc EXCEPT ![Main] = NoConfig]
      BY <1>5, <2>1, <3>1 DEF SetupDone, MayStray
    <3>3. n + 1 \in 0..PoolSize /\ 1..(n + 1) = 1..n \cup {n + 1} /\ n + 1 \notin 1..n BY <3>1
    <3>4. Filled(n + 1)' BY <3>1, <3>2, <3>3
    <3>5. Slot(n + 1) \notin all BY <3>1, <3>3, SlotFacts
    <3>6. Slot(n + 1) \in Configs BY <3>1, <3>3, SlotFacts
    <3>7. \A i \in 1..Len(ch) : ch[i] # Slot(n + 1) BY <3>5
    <3>8. \A q \in Workers : ~Pooled(q)' BY <1>5, <2>1, <3>2 DEF SetupDone, MayStray
    <3>9. step'[Main] \notin SetupSteps BY <3>2
    <3>10. /\ \A i, j \in 1..Len(ch') : ch'[i] = ch'[j] => i = j
           /\ \A i \in 1..Len(ch') : ch'[i] = Slot(n + 1) \/ \E j \in 1..Len(ch) : ch'[i] = ch[j]
      BY <3>2, <3>6, <3>7, AppendDistinct
    <3>11. \A i \in 1..Len(ch') : ch'[i] \in all' BY <3>2, <3>10
    <3> QED BY <3>3, <3>4, <3>8, <3>9, <3>10, <3>11
  <2>2. CASE p # Main
    <3>1. all' = all /\ ch' = ch /\ nc' = nc /\ step' = [step EXCEPT ![p] = "held"]
      BY <1>5, <2>2 DEF SetupDone, MayStray
    <3>2. p \in Workers /\ ~nc[p].pooled BY <1>5, <2>2 DEF SetupDone, MayStray, Goroutines
    <3> QED BY <2>2, <3>1, <3>2
  <2> QED BY <2>1, <2>2
<1>6. ASSUME NEW p \in Goroutines, SetupIOError(p) PROVE SlotInv'
  BY <1>6 DEF SetupIOError, TakeApart, DeleteNs, MayStray
<1>7. ASSUME NEW p \in Goroutines, SetupFailed(p) PROVE SlotInv'
  BY <1>7 DEF SetupFailed
<1>8. ASSUME NEW p \in Workers, acquireNetns(p) PROVE SlotInv'
  BY <1>8 DEF acquireNetns
<1>9. ASSUME NEW p \in Workers, AcquirePooled(p) PROVE SlotInv'
  <2>1. PICK c \in Configs : c = Head(ch) /\ c = ch[1] BY <1>9, ChannelFacts DEF AcquirePooled
  <2>2. nc' = [nc EXCEPT ![p] = c] /\ step' = [step EXCEPT ![p] = "held"] /\ all' = all /\ ch' = Tail(ch)
    BY <1>9, <2>1 DEF AcquirePooled
  <2>3. 1 \in 1..Len(ch) /\ c \in all BY <1>9, <2>1, ChannelFacts DEF AcquirePooled
  <2>4. /\ \A i, j \in 1..Len(ch') : ch'[i] = ch'[j] => i = j
        /\ \A i \in 1..Len(ch') : ch'[i] # c /\ \E j \in 1..Len(ch) : ch'[i] = ch[j]
    BY <1>9, <2>1, <2>2, TailDistinct DEF AcquirePooled
  <2>5. \A i \in 1..Len(ch') : ch'[i] \in all BY <2>4
  <2>7. \A q \in Workers : q # p /\ Pooled(q)' => nc'[q] \in all /\ nc'[q] # c /\ \A i \in 1..Len(ch') : ch'[i] # nc'[q]
    BY <2>1, <2>2, <2>3, <2>4
  <2>8. nc'[p] = c /\ step'[Main] = step[Main] /\ nc'[Main] = nc[Main] BY <2>2
  <2>9. \A q, r \in Workers : q # p /\ r # p /\ Pooled(q)' /\ Pooled(r)' /\ nc'[q] = nc'[r] => q = r BY <2>2
  <2>10. \A n \in 0..PoolSize : Filled(n) => Filled(n)' BY <2>2
  <2>11. \A q \in Workers : Pooled(q)' => nc'[q] \in all /\ \A i \in 1..Len(ch') : ch'[i] # nc'[q]
    BY <2>3, <2>4, <2>7, <2>8
  <2>12. \A q, r \in Workers : Pooled(q)' /\ Pooled(r)' /\ nc'[q] = nc'[r] => q = r BY <2>7, <2>8, <2>9
  <2> HIDE DEF Pooled, Filled
  <2> QED BY <2>2, <2>4, <2>5, <2>8, <2>10, <2>11, <2>12
<1>10. ASSUME NEW p \in Workers, AcquireOnDemand(p) PROVE SlotInv'
  <2>1. \A q \in Goroutines : q # p => nc'[q] = nc[q] /\ step'[q] = step[q] BY <1>10 DEF AcquireOnDemand
  <2>2. step'[p] = "name" /\ all' = all /\ ch' = ch BY <1>10 DEF AcquireOnDemand
  <2>3. \A q \in Workers : Pooled(q)' => q # p /\ Pooled(q) /\ nc'[q] = nc[q] BY <2>1, <2>2
  <2>4. \A n \in 0..PoolSize : Filled(n) => Filled(n)' BY <2>2
  <2>5. step'[Main] = step[Main] /\ nc'[Main] = nc[Main] BY <2>1
  <2> HIDE DEF Pooled, Filled
  <2> QED BY <2>2, <2>3, <2>4, <2>5
<1>11. ASSUME NEW p \in Workers, releaseNetns(p) PROVE SlotInv'
  <2>1. nc' = [nc EXCEPT ![p] = NoConfig] /\ step' = [step EXCEPT ![p] = "idle"] /\ all' = all
    BY <1>11 DEF releaseNetns, Cleanup
  <2>2. CASE ch' = ch BY <2>1, <2>2
  <2>3. CASE nc[p].pooled /\ ch' = Append(ch, nc[p])
    <3>1. PICK c \in Configs : c = nc[p] BY <1>11 DEF releaseNetns, Cleanup
    <3>2. c \in all /\ \A i \in 1..Len(ch) : ch[i] # c BY <1>11, <2>3, <3>1 DEF releaseNetns, Cleanup
    <3>3. /\ \A i, j \in 1..Len(ch') : ch'[i] = ch'[j] => i = j
          /\ \A i \in 1..Len(ch') : ch'[i] = c \/ \E j \in 1..Len(ch) : ch'[i] = ch[j]
      <4>1. c \in Configs /\ ch \in Seq(Configs) /\ ch' = Append(ch, c) BY <2>3, <3>1 DEF TypeInv, NetTypeOK
      <4>2. \A i, j \in 1..Len(ch) : ch[i] = ch[j] => i = j BY DEF SlotInv
      <4> QED BY ONLY <3>2, <4>1, <4>2, AppendDistinct
    <3>4. \A i \in 1..Len(ch') : ch'[i] \in all BY <3>2, <3>3
    <3>7. \A q \in Workers : Pooled(q)' => q # p /\ Pooled(q) /\ nc'[q] = nc[q] BY <2>1
    <3>8. \A q \in Workers : Pooled(q)' => nc'[q] # c BY <1>11, <2>3, <3>1, <3>7 DEF releaseNetns, Cleanup
    <3>9. \A q \in Workers : Pooled(q)' => nc'[q] \in all /\ \A i \in 1..Len(ch') : ch'[i] # nc'[q]
      BY <3>3, <3>7, <3>8
    <3>10. \A q, r \in Workers : Pooled(q)' /\ Pooled(r)' /\ nc'[q] = nc'[r] => q = r BY <3>7
    <3> QED BY <2>1, <3>3, <3>4, <3>9, <3>10
  <2> QED BY <1>11, <2>2, <2>3 DEF releaseNetns, Cleanup
<1>12. ASSUME NEW p \in Workers, DiscardNetns(p) PROVE SlotInv'
  BY <1>12 DEF DiscardNetns, Cleanup
<1>13. CASE PoolInitSlot
  <2>1. PICK n \in 0..PoolSize : Filled(n) /\ n < PoolSize /\ nc' = [nc EXCEPT ![Main] = Slot(n + 1)]
    BY <1>13, NextSlot
  <2>2. all' = all /\ ch' = ch /\ nc'[Main] = Slot(n + 1) BY <1>13, <2>1 DEF PoolInitSlot
  <2>3. \A q \in Workers : step'[q] = step[q] /\ nc'[q] = nc[q] BY <1>13, <2>1 DEF PoolInitSlot
  <2>4. \A q \in Workers : Pooled(q)' = Pooled(q) BY <2>3
  <2>5. Filled(n)' BY <2>1, <2>2
  <2>6. n < PoolSize /\ nc'[Main] = Slot(n + 1) BY <2>1, <2>2
  <2> HIDE DEF Pooled, Filled
  <2> QED BY <2>2, <2>3, <2>4, <2>5, <2>6
<1>14. CASE Serve
  BY <1>14 DEF Serve
<1>15. CASE PoolDestroy
  BY <1>15 DEF PoolDestroy
<1>16. CASE ProcessEnds
  <2>1. all' = {} /\ ch' = <<>> /\ \A q \in Goroutines : step'[q] = "idle" BY <1>16 DEF ProcessEnds
  <2>2. Filled(0)' /\ 0 \in 0..PoolSize BY <2>1
  <2>3. 1..Len(ch') = {} /\ \A q \in Workers : ~Pooled(q)' BY <2>1
  <2>4. step'[Main] \notin SetupSteps BY <2>1
  <2> HIDE DEF Pooled, Filled
  <2> QED BY <2>2, <2>3, <2>4
<1>17. CASE Restart
  BY <1>17 DEF Restart
<1>18. CASE UNCHANGED netVars
  BY <1>18 DEF netVars
<1>19. CASE NamelessNsDies
  BY <1>19 DEF NamelessNsDies
<1> QED BY <1>1, <1>2, <1>3, <1>4, <1>5, <1>6, <1>7, <1>8, <1>9, <1>10, <1>11, <1>12, <1>13, <1>14,
    <1>15, <1>16, <1>17, <1>18, <1>19 DEF NetNext, SetupStep, WorkerStep, Goroutines, PoolInitFailed,
    Crash, StaysDown

(* On-demand names are distinct. *)
LEMMA NextDemand ==
  ASSUME TypeInv, PhaseInv, SlotInv, DemandInv, [NetNext]_netVars
  PROVE  DemandInv'
<1> USE NetnsAssumption, StepFacts, NameFacts DEF kernelVars, poolVars, serverVars, At, Goto,
    TypeInv, KernelTypes, PoolTypes, StepTypes, PhaseInv, DemandInv, Demand
<1>1. ASSUME NEW p \in Goroutines, SetupName(p) PROVE DemandInv'
  BY <1>1 DEF SetupName
<1>2. ASSUME NEW p \in Goroutines, SetupLink(p) PROVE DemandInv'
  BY <1>2 DEF SetupLink, DeleteNs
<1>3. ASSUME NEW p \in Goroutines, SetupMove(p) PROVE DemandInv'
  BY <1>3 DEF SetupMove
<1>4. ASSUME NEW p \in Goroutines, SetupRange(p) PROVE DemandInv'
  BY <1>4 DEF SetupRange, TakeApart, DeleteNs
<1>5. ASSUME NEW p \in Goroutines, SetupDone(p) PROVE DemandInv'
  BY <1>5 DEF SetupDone, MayStray
<1>6. ASSUME NEW p \in Goroutines, SetupIOError(p) PROVE DemandInv'
  BY <1>6 DEF SetupIOError, TakeApart, DeleteNs, MayStray
<1>7. ASSUME NEW p \in Goroutines, SetupFailed(p) PROVE DemandInv'
  BY <1>7 DEF SetupFailed
<1>8. ASSUME NEW p \in Workers, acquireNetns(p) PROVE DemandInv'
  <2>1. PICK n : n = SandboxName(nextSandboxID + 1) OBVIOUS
  <2>2. n \in Names /\ nextSandboxID' = nextSandboxID + 1 /\ nextSandboxID \in Nat BY <1>8, <2>1 DEF acquireNetns
  <2>3. nc' = [nc EXCEPT ![p] = [NoConfig EXCEPT !.ns = n]] /\ step' = [step EXCEPT ![p] = "acquire"]
    BY <1>8, <2>1 DEF acquireNetns
  <2>4. nc'[p].ns = n /\ ~nc'[p].pooled BY <2>2, <2>3, ConfigFacts
  <2>5. \A q \in Workers : q # p => nc'[q] = nc[q] /\ step'[q] = step[q] BY <2>3
  <2>6. \A k \in 1..nextSandboxID : SandboxName(k) # n BY <2>1, <2>2
  <2>7. \A q \in Workers : q # p /\ Demand(q)' => Demand(q) /\ nc'[q].ns # n BY <2>5, <2>6
  <2>8. 1..nextSandboxID \subseteq 1..nextSandboxID' /\ nextSandboxID + 1 \in 1..nextSandboxID' BY <2>2
  <2> HIDE DEF Demand
  <2> QED BY <2>1, <2>4, <2>5, <2>7, <2>8
<1>9. ASSUME NEW p \in Workers, AcquirePooled(p) PROVE DemandInv'
  <2>1. PICK c \in Configs : c = Head(ch) /\ c = ch[1] BY <1>9, ChannelFacts DEF AcquirePooled
  <2>2. nc' = [nc EXCEPT ![p] = c] /\ step' = [step EXCEPT ![p] = "held"] /\ nextSandboxID' = nextSandboxID
    BY <1>9, <2>1 DEF AcquirePooled
  <2>3. c.pooled
    <3>1. 1 \in 1..Len(ch) BY <1>9, ChannelFacts DEF AcquirePooled
    <3> QED BY <2>1, <3>1, SlotFacts DEF SlotInv, Filled
  <2>4. \A q \in Workers : Demand(q)' => q # p /\ Demand(q) /\ nc'[q] = nc[q] BY <2>2, <2>3
  <2> HIDE DEF Demand
  <2> QED BY <2>2, <2>4
<1>10. ASSUME NEW p \in Workers, AcquireOnDemand(p) PROVE DemandInv'
  BY <1>10 DEF AcquireOnDemand
<1>11. ASSUME NEW p \in Workers, releaseNetns(p) PROVE DemandInv'
  BY <1>11 DEF releaseNetns, Cleanup
<1>12. ASSUME NEW p \in Workers, DiscardNetns(p) PROVE DemandInv'
  BY <1>12 DEF DiscardNetns, Cleanup
<1>13. CASE PoolInitSlot
  BY <1>13 DEF PoolInitSlot, Cleanup
<1>14. CASE Serve
  BY <1>14 DEF Serve
<1>15. CASE PoolDestroy
  BY <1>15 DEF PoolDestroy
<1>16. CASE ProcessEnds
  BY <1>16 DEF ProcessEnds
<1>17. CASE Restart
  BY <1>17 DEF Restart
<1>18. CASE UNCHANGED netVars
  BY <1>18 DEF netVars
<1>19. CASE NamelessNsDies
  BY <1>19 DEF NamelessNsDies
<1> QED BY <1>1, <1>2, <1>3, <1>4, <1>5, <1>6, <1>7, <1>8, <1>9, <1>10, <1>11, <1>12, <1>13, <1>14,
    <1>15, <1>16, <1>17, <1>18, <1>19 DEF NetNext, SetupStep, WorkerStep, Goroutines, PoolInitFailed,
    Crash, StaysDown

(* No two configs in use or ready have the same name. *)
LEMMA DistinctNames ==
  ASSUME TypeInv, PhaseInv, SlotInv, DemandInv
  PROVE  /\ \A p, q \in Goroutines :
              step[p] \in ConfigSteps /\ step[q] \in ConfigSteps /\ nc[p].ns = nc[q].ns => p = q
         /\ \A p \in Goroutines, i \in 1..Len(ch) : step[p] \in ConfigSteps => nc[p].ns # ch[i].ns
         /\ \A i, j \in 1..Len(ch) : ch[i].ns = ch[j].ns => i = j
<1>1. PICK n \in 0..PoolSize : Filled(n) /\ (step[Main] \in SetupSteps => n < PoolSize /\ nc[Main] = Slot(n + 1))
  BY DEF SlotInv
<1>2. \A c, d \in all : c.ns = d.ns => c = d BY <1>1, SlotFacts, NameFacts DEF Filled
<1>3. \A k : \A c \in all : c.ns # SandboxName(k) BY <1>1, SlotFacts, NameFacts DEF Filled
<1>4. \A p \in Workers : step[p] \in ConfigSteps => Demand(p) \/ Pooled(p) BY StepFacts DEF Demand, Pooled
<1>5. \A p \in Workers : step[p] \in ConfigSteps => step[Main] \notin ConfigSteps
  BY StepFacts DEF PhaseInv
<1>6. \A p \in Workers : Demand(p) => \E k : nc[p].ns = SandboxName(k) BY DEF DemandInv
<1>7. step[Main] \in ConfigSteps => \A c \in all : nc[Main].ns # c.ns
  <2> SUFFICES ASSUME step[Main] \in ConfigSteps, NEW i \in 1..n PROVE nc[Main].ns # Slot(i).ns
    BY <1>1 DEF Filled
  <2>1. nc[Main] = Slot(n + 1) BY <1>1, StepFacts DEF PhaseInv
  <2> QED BY <2>1, SlotFacts, NameFacts
<1>8. ASSUME NEW p \in Workers, NEW q \in Workers, step[p] \in ConfigSteps, step[q] \in ConfigSteps,
             nc[p].ns = nc[q].ns
      PROVE  p = q
  <2>1. CASE Demand(p) /\ Demand(q) BY <1>8, <2>1 DEF DemandInv
  <2>2. CASE Pooled(p) /\ Pooled(q) BY <1>2, <1>8, <2>2 DEF SlotInv
  <2>3. CASE Demand(p) /\ Pooled(q) BY <1>3, <1>6, <1>8, <2>3 DEF SlotInv
  <2>4. CASE Pooled(p) /\ Demand(q) BY <1>3, <1>6, <1>8, <2>4 DEF SlotInv
  <2> QED BY <1>4, <1>8, <2>1, <2>2, <2>3, <2>4
<1>9. \A p, q \in Goroutines : step[p] \in ConfigSteps /\ step[q] \in ConfigSteps /\ nc[p].ns = nc[q].ns => p = q
  BY <1>5, <1>8 DEF Goroutines
<1>10. ASSUME NEW p \in Goroutines, NEW i \in 1..Len(ch), step[p] \in ConfigSteps PROVE nc[p].ns # ch[i].ns
  <2>1. ch[i] \in all BY DEF SlotInv
  <2>2. CASE p = Main BY <1>7, <1>10, <2>1, <2>2
  <2>3. CASE p \in Workers /\ Demand(p) BY <1>3, <1>6, <2>1, <2>3
  <2>4. CASE p \in Workers /\ Pooled(p) BY <1>2, <2>1, <2>4 DEF SlotInv
  <2> QED BY <1>4, <1>10, <2>2, <2>3, <2>4 DEF Goroutines
<1>11. \A i, j \in 1..Len(ch) : ch[i].ns = ch[j].ns => i = j BY <1>2 DEF SlotInv
<1> QED BY <1>9, <1>10, <1>11

-----------------------------------------------------------------------------
(* The kernel has what the configs say.                                      *)

(* A goroutine past LinkAdd owns its veth. *)
LEMMA OwnVeth ==
  ASSUME TypeInv, PhaseInv, SlotInv, DemandInv, VethInv,
         NEW p \in Goroutines, step[p] \in {"move", "config", "held"}
  PROVE  /\ nc[p].ns \in Names /\ nc[p].subnet \in Subnets
         /\ \A q \in Goroutines \ {p} : step[q] \in {"move", "config", "held"} =>
              nc[q].subnet # nc[p].subnet
         /\ \A i \in 1..Len(ch) : ch[i].subnet # nc[p].subnet
<1>1. nc[p] \in Configs /\ nc[p].ns \in Names /\ nc[p].subnet \in Subnets
  BY StepFacts, ConfigFacts DEF TypeInv, StepTypes
<1>2. ASSUME NEW q \in Goroutines \ {p}, step[q] \in {"move", "config", "held"}
      PROVE nc[q].subnet # nc[p].subnet
  <2>1. nc[q].ns \in Names BY <1>2, StepFacts, ConfigFacts DEF TypeInv, StepTypes
  <2>2. nc[q].ns # nc[p].ns BY <1>2, DistinctNames, StepFacts
  <2>3. veth[nc[p].subnet] = (IF step[p] = "move" THEN Root ELSE nc[p].ns) BY DEF VethInv, LinkedSteps
  <2>4. veth[nc[q].subnet] = (IF step[q] = "move" THEN Root ELSE nc[q].ns) BY <1>2 DEF VethInv, LinkedSteps
  <2>5. ~(step[p] = "move" /\ step[q] = "move") BY <1>2 DEF VethInv
  <2> QED BY <1>1, <2>1, <2>2, <2>3, <2>4, <2>5, NameFacts
<1>3. ASSUME NEW i \in 1..Len(ch) PROVE ch[i].subnet # nc[p].subnet
  <2>1. ch[i] \in Configs BY ElementOfSeq DEF TypeInv, PoolTypes
  <2>2. ch[i].ns # nc[p].ns BY DistinctNames, StepFacts
  <2>3. veth[nc[p].subnet] = (IF step[p] = "move" THEN Root ELSE nc[p].ns) BY DEF VethInv, LinkedSteps
  <2>4. veth[ch[i].subnet] = ch[i].ns BY DEF VethInv
  <2> QED BY <2>1, <2>2, <2>3, <2>4, ConfigFacts, NameFacts
<1> QED BY <1>1, <1>2, <1>3

(* What is ready or held by others survives when p takes apart what it owns. *)
LEMMA TakenApart ==
  ASSUME TypeInv, PhaseInv, SlotInv, DemandInv, KernelInv, phase \in {"init", "serving"}, NEW p \in Goroutines,
         stray => stray',
         \/ /\ step[p] \in {"move", "config", "held", "away"}
            /\ Cleanup(nc[p].ns, nc[p].subnet) \/ TakeApart(nc[p].ns, nc[p].subnet)
         \/ /\ step[p] = "link"
            /\ nss' = nss \ {nc[p].ns} /\ veth' = DeleteNs(nc[p].ns, veth)
         \/ /\ step[p] \in {"move", "config"} /\ nss' = nss
            /\ \E x \in {Absent, nc[p].ns} : veth' = [veth EXCEPT ![nc[p].subnet] = x]
         \/ /\ step[p] \in {"name", "link"} /\ nss \subseteq nss' /\ veth' = veth
         \/ /\ step[p] = "away" /\ nss \ {nc[p].ns} \subseteq nss' /\ veth' = veth
         \/ /\ step[p] = "link" /\ nss' = nss /\ LinkFree(nc[p].subnet)
            /\ veth' = [veth EXCEPT ![nc[p].subnet] = Root]
  PROVE  OthersKept(p)
<1>1. nc[p].ns \in Names /\ nc[p].subnet \in Subnets
  BY StepFacts, ConfigFacts DEF TypeInv, StepTypes
<1>2. \A q \in Goroutines \ {p} : step[q] \in ConfigSteps =>
        nc[q] \in Configs /\ nc[q].ns \in Names /\ nc[q].subnet \in Subnets /\ nc[q].ns # nc[p].ns
  BY StepFacts, ConfigFacts, DistinctNames DEF TypeInv, StepTypes
<1>3. \A i \in 1..Len(ch) : ch[i] \in Configs /\ ch[i].ns \in Names /\ ch[i].subnet \in Subnets /\ ch[i].ns # nc[p].ns
  BY StepFacts, ConfigFacts, DistinctNames, ElementOfSeq DEF TypeInv, PoolTypes
<1>4. veth \in [Subnets -> Names \cup {Absent, Root, Lost}] BY DEF TypeInv, KernelTypes
<1>5. \A n \in Names : n \in nss /\ n # nc[p].ns => n \in nss' BY DEF Cleanup, TakeApart
<1>6. /\ \A q \in Goroutines \ {p} : step[q] \in NamedSteps => nc[q].ns \in nss'
      /\ \A i \in 1..Len(ch) : ch[i].ns \in nss'
  BY <1>2, <1>3, <1>5, StepFacts DEF KernelInv, NamedSteps
<1>7. ASSUME ~stray'
      PROVE  /\ \A q \in Goroutines \ {p} :
                  /\ step[q] \in LinkedSteps => veth'[nc[q].subnet] = nc[q].ns
                  /\ step[q] = "move" => veth'[nc[q].subnet] = Root
             /\ \A i \in 1..Len(ch) : veth'[ch[i].subnet] = ch[i].ns
  <2>1. ~stray /\ VethInv /\ step[p] # "away" BY <1>7 DEF KernelInv, PhaseInv
  <2>2. /\ \A q \in Goroutines \ {p} :
             step[q] \in LinkedSteps => veth[nc[q].subnet] = nc[q].ns /\ step[q] \in ConfigSteps
        /\ \A q \in Goroutines \ {p} : step[q] = "move" => veth[nc[q].subnet] = Root /\ step[q] \in ConfigSteps
        /\ \A i \in 1..Len(ch) : veth[ch[i].subnet] = ch[i].ns
    BY <2>1, StepFacts DEF VethInv, LinkedSteps
  <2>3. CASE step[p] \in {"move", "config", "held"}
    <3>1. /\ \A q \in Goroutines \ {p} : step[q] \in {"move", "config", "held"} => nc[q].subnet # nc[p].subnet
          /\ \A i \in 1..Len(ch) : ch[i].subnet # nc[p].subnet
      BY <2>1, <2>3, OwnVeth
    <3>2. \A s \in Subnets : s # nc[p].subnet /\ veth[s] # nc[p].ns => veth'[s] = veth[s]
      BY <1>1, <1>4, <2>1, <2>3 DEF Cleanup, TakeApart, DeleteNs
    <3> QED BY <1>1, <1>2, <1>3, <2>2, <3>1, <3>2, StepFacts, NameFacts DEF LinkedSteps
  <2>4. CASE step[p] = "link"
    <3>1. \A s \in Subnets : veth[s] \notin {Absent, nc[p].ns} => veth'[s] = veth[s]
      BY <1>1, <1>4, <2>4 DEF DeleteNs, LinkFree
    <3> QED BY <1>1, <1>2, <1>3, <2>2, <3>1, StepFacts, NameFacts
  <2>5. CASE step[p] = "name" BY <2>2, <2>5
  <2> QED BY <2>1, <2>3, <2>4, <2>5
<1> QED BY <1>6, <1>7 DEF OthersKept

(* It is enough to look at the goroutine that moves. *)
LEMMA KernelFromOthers ==
  ASSUME KernelInv, NEW p \in Goroutines, phase' = phase, phase \in {"init", "serving"} => OthersKept(p), ch' = ch,
         stray => stray',
         \A q \in Goroutines \ {p} : step'[q] = step[q] /\ nc'[q] = nc[q],
         phase \in {"init", "serving"} => (step'[p] \in NamedSteps => nc'[p].ns \in nss'),
         phase \in {"init", "serving"} /\ ~stray' =>
           /\ step'[p] \in LinkedSteps => veth'[nc'[p].subnet] = nc'[p].ns
           /\ step'[p] = "move" => /\ veth'[nc'[p].subnet] = Root
                                   /\ \A q \in Goroutines \ {p} : step[q] # "move"
  PROVE  KernelInv'
<1> SUFFICES ASSUME phase \in {"init", "serving"} PROVE KernelInv' BY DEF KernelInv
<1>1. \A q \in Goroutines : step'[q] \in NamedSteps => nc'[q].ns \in nss' BY DEF OthersKept
<1>2. \A i \in 1..Len(ch') : ch'[i].ns \in nss' BY DEF OthersKept
<1>3. ASSUME ~stray' PROVE VethInv'
  <2>1. \A q \in Goroutines \ {p} : /\ step'[q] \in LinkedSteps => veth'[nc'[q].subnet] = nc'[q].ns
                                    /\ step'[q] = "move" => veth'[nc'[q].subnet] = Root
    BY <1>3 DEF OthersKept
  <2>2. \A i \in 1..Len(ch') : veth'[ch'[i].subnet] = ch'[i].ns BY <1>3 DEF OthersKept
  <2>3. \A q, r \in Goroutines : step'[q] = "move" /\ step'[r] = "move" => q = r BY <1>3 DEF KernelInv, VethInv
  <2> QED BY <1>3, <2>1, <2>2, <2>3 DEF VethInv
<1> QED BY <1>1, <1>2, <1>3 DEF KernelInv

(* What a config says is there. *)
LEMMA NextKernel ==
  ASSUME TypeInv, PhaseInv, SlotInv, DemandInv, KernelInv, [NetNext]_netVars
  PROVE  KernelInv'
<1> USE NetnsAssumption, StepFacts, NameFacts DEF kernelVars, poolVars, serverVars, At, Goto
<1>1. ASSUME NEW p \in Goroutines, SetupName(p) PROVE KernelInv'
  <2>1. phase' = phase /\ ch' = ch /\ (stray => stray') BY <1>1 DEF SetupName
  <2>2. \A q \in Goroutines \ {p} : step'[q] = step[q] /\ nc'[q] = nc[q] BY <1>1 DEF SetupName, TypeInv, StepTypes
  <2>3. phase \in {"init", "serving"} => OthersKept(p) BY <1>1, <2>1, TakenApart DEF SetupName, At
  <2>4. nc[p] \in Configs /\ nc[p].ns \in Names /\ nc[p].subnet \in Subnets /\ nc'[p] = nc[p]
    BY <1>1, ConfigFacts DEF SetupName, TypeInv, StepTypes
  <2>5. (step'[p] = "link" /\ nc[p].ns \in nss') \/ step'[p] = "failedExists"
    BY <1>1 DEF SetupName, TypeInv, StepTypes
  <2> QED BY <2>1, <2>2, <2>3, <2>4, <2>5, KernelFromOthers DEF NamedSteps, LinkedSteps
<1>2. ASSUME NEW p \in Goroutines, SetupLink(p) PROVE KernelInv'
  <2>1. phase' = phase /\ ch' = ch /\ (stray => stray') BY <1>2 DEF SetupLink, DeleteNs
  <2>2. \A q \in Goroutines \ {p} : step'[q] = step[q] /\ nc'[q] = nc[q]
    BY <1>2 DEF SetupLink, DeleteNs, TypeInv, StepTypes
  <2>3. phase \in {"init", "serving"} => OthersKept(p) BY <1>2, <2>1, TakenApart DEF SetupLink, At, kernelVars
  <2>4. nc[p] \in Configs /\ nc[p].ns \in Names /\ nc[p].subnet \in Subnets /\ nc'[p] = nc[p]
    BY <1>2, ConfigFacts DEF SetupLink, DeleteNs, TypeInv, StepTypes
  <2>5. CASE LinkFree(nc[p].subnet) /\ Goto(p, "move") /\ UNCHANGED nss
               /\ veth' = [veth EXCEPT ![nc[p].subnet] = Root]
    <3>1. /\ step'[p] = "move" /\ nss' = nss /\ veth'[nc[p].subnet] = Root
      BY <2>4, <2>5 DEF TypeInv, StepTypes, KernelTypes
    <3>2. phase \in {"init", "serving"} => nc[p].ns \in nss BY <1>2 DEF SetupLink, KernelInv, NamedSteps
    <3>3. ASSUME phase \in {"init", "serving"}, ~stray', NEW q \in Goroutines \ {p} PROVE step[q] # "move"
      <4>1. SUFFICES ASSUME step[q] = "move" PROVE FALSE OBVIOUS
      <4>2. nc[q].subnet \in Subnets /\ veth[nc[q].subnet] = Root
        BY <2>1, <3>3, <4>1, ConfigFacts DEF KernelInv, VethInv, TypeInv, StepTypes
      <4> QED BY <2>5, <4>2 DEF LinkFree
    <3> QED BY <2>1, <2>2, <2>3, <2>4, <3>1, <3>2, <3>3, KernelFromOthers DEF NamedSteps, LinkedSteps
  <2>6. CASE Goto(p, "away") /\ UNCHANGED nss
    <3>1. step'[p] = "away" BY <2>6 DEF TypeInv, StepTypes
    <3>2. phase \in {"init", "serving"} => nc[p].ns \in nss' BY <1>2, <2>6 DEF SetupLink, KernelInv, NamedSteps
    <3> QED BY <2>1, <2>2, <2>3, <2>4, <3>1, <3>2, KernelFromOthers DEF NamedSteps, LinkedSteps
  <2>7. CASE Goto(p, "failedExists")
    <3>1. step'[p] = "failedExists" BY <2>7 DEF TypeInv, StepTypes
    <3> QED BY <2>1, <2>2, <2>3, <3>1, KernelFromOthers DEF NamedSteps, LinkedSteps
  <2> QED BY <1>2, <2>5, <2>6, <2>7 DEF SetupLink
<1>3. ASSUME NEW p \in Goroutines, SetupMove(p) PROVE KernelInv'
  <2>1. phase' = phase /\ ch' = ch /\ (stray => stray') BY <1>3 DEF SetupMove
  <2>2. \A q \in Goroutines \ {p} : step'[q] = step[q] /\ nc'[q] = nc[q] BY <1>3 DEF SetupMove, TypeInv, StepTypes
  <2>3. phase \in {"init", "serving"} => OthersKept(p) BY <1>3, <2>1, TakenApart DEF SetupMove, At
  <2>4. nc[p] \in Configs /\ nc[p].ns \in Names /\ nc[p].subnet \in Subnets /\ nc'[p] = nc[p]
    BY <1>3, ConfigFacts DEF SetupMove, TypeInv, StepTypes
  <2>5. step'[p] = "config" /\ veth'[nc[p].subnet] = nc[p].ns /\ nss' = nss
    BY <1>3, <2>4 DEF SetupMove, TypeInv, StepTypes, KernelTypes
  <2>6. phase \in {"init", "serving"} => nc[p].ns \in nss BY <1>3 DEF SetupMove, KernelInv, NamedSteps
  <2> QED BY <2>1, <2>2, <2>3, <2>4, <2>5, <2>6, KernelFromOthers DEF NamedSteps, LinkedSteps
<1>4. ASSUME NEW p \in Goroutines, SetupRange(p) PROVE KernelInv'
  <2>1. phase' = phase /\ ch' = ch /\ (stray => stray') BY <1>4 DEF SetupRange, TakeApart, DeleteNs
  <2>2. \A q \in Goroutines \ {p} : step'[q] = step[q] /\ nc'[q] = nc[q]
    BY <1>4 DEF SetupRange, TakeApart, DeleteNs, TypeInv, StepTypes
  <2>3. phase \in {"init", "serving"} => OthersKept(p) BY <1>4, <2>1, TakenApart DEF SetupRange, At
  <2>4. step'[p] \notin NamedSteps /\ step'[p] \notin LinkedSteps /\ step'[p] # "move"
    BY <1>4 DEF SetupRange, TakeApart, DeleteNs, TypeInv, StepTypes, NamedSteps, LinkedSteps
  <2> QED BY <2>1, <2>2, <2>3, <2>4, KernelFromOthers
<1>5. ASSUME NEW p \in Goroutines, SetupDone(p) PROVE KernelInv'
  <2>1. \A q \in Goroutines \ {p} : step'[q] = step[q] /\ nc'[q] = nc[q]
    BY <1>5 DEF SetupDone, MayStray, TypeInv, StepTypes
  <2>2. nc[p] \in Configs BY <1>5 DEF SetupDone, MayStray, TypeInv, StepTypes
  <2>3. /\ UNCHANGED <<nss, veth, phase>> /\ step[p] \in {"config", "away"}
        /\ stray => stray'
    BY <1>5, StrayStays DEF SetupDone, TypeInv, PoolTypes
  <2>4. /\ phase \in {"init", "serving"} => nc[p].ns \in nss
        /\ phase \in {"init", "serving"} /\ ~stray' => VethInv /\ veth[nc[p].subnet] = nc[p].ns
    BY <2>3 DEF KernelInv, VethInv, PhaseInv, NamedSteps, LinkedSteps
  <2>5. CASE p = Main
    <3>1. step'[p] = "idle" /\ ch' = Append(ch, nc[p]) BY <1>5, <2>5 DEF SetupDone, TypeInv, StepTypes
    <3>2. /\ \A i \in 1..Len(ch') : i \in 1..Len(ch) \/ i = Len(ch) + 1
          /\ \A i \in 1..Len(ch) : ch'[i] = ch[i]
          /\ ch'[Len(ch) + 1] = nc[p]
      BY <2>2, <3>1, ChannelFacts, LenProperties DEF TypeInv, PoolTypes
    <3>3. phase \in {"init", "serving"} => \A i \in 1..Len(ch') : ch'[i].ns \in nss
      BY <2>4, <3>2 DEF KernelInv
    <3>4. phase \in {"init", "serving"} /\ ~stray' => \A i \in 1..Len(ch') : veth[ch'[i].subnet] = ch'[i].ns
      BY <2>4, <3>2 DEF VethInv
    <3>5. phase \in {"init", "serving"} /\ ~stray' => VethInv'
      BY <2>1, <2>3, <2>4, <3>1, <3>4 DEF VethInv, LinkedSteps
    <3> QED BY <2>1, <2>3, <3>1, <3>3, <3>5 DEF KernelInv, NamedSteps
  <2>6. CASE p # Main
    <3>1. step'[p] = "held" /\ ch' = ch /\ nc' = nc BY <1>5, <2>6 DEF SetupDone, TypeInv, StepTypes
    <3>2. phase \in {"init", "serving"} /\ ~stray' => VethInv'
      BY <2>1, <2>3, <2>4, <3>1 DEF VethInv, LinkedSteps
    <3> QED BY <2>1, <2>3, <2>4, <3>1, <3>2 DEF KernelInv, NamedSteps
  <2> QED BY <2>5, <2>6
<1>6. ASSUME NEW p \in Goroutines, SetupIOError(p) PROVE KernelInv'
  <2>1. phase' = phase /\ ch' = ch /\ (stray => stray')
    BY <1>6, StrayStays DEF SetupIOError, TypeInv, PoolTypes
  <2>2. \A q \in Goroutines \ {p} : step'[q] = step[q] /\ nc'[q] = nc[q]
    BY <1>6 DEF SetupIOError, TakeApart, DeleteNs, MayStray, TypeInv, StepTypes
  <2>3. phase \in {"init", "serving"} => OthersKept(p) BY <1>6, <2>1, TakenApart DEF SetupIOError, At, kernelVars
  <2>4. step'[p] \notin NamedSteps /\ step'[p] \notin LinkedSteps /\ step'[p] # "move"
    BY <1>6 DEF SetupIOError, TakeApart, DeleteNs, MayStray, TypeInv, StepTypes, NamedSteps, LinkedSteps
  <2> QED BY <2>1, <2>2, <2>3, <2>4, KernelFromOthers
<1>7. ASSUME NEW p \in Goroutines, SetupFailed(p) PROVE KernelInv'
  <2>1. phase' = phase /\ ch' = ch /\ (stray => stray') BY <1>7 DEF SetupFailed
  <2>2. \A q \in Goroutines \ {p} : step'[q] = step[q] /\ nc'[q] = nc[q] BY <1>7 DEF SetupFailed, TypeInv, StepTypes
  <2>3. phase \in {"init", "serving"} => OthersKept(p) BY <1>7 DEF SetupFailed, KernelInv, VethInv, OthersKept
  <2>4. step'[p] = "idle" BY <1>7 DEF SetupFailed, TypeInv, StepTypes
  <2> QED BY <2>1, <2>2, <2>3, <2>4, KernelFromOthers DEF NamedSteps, LinkedSteps
<1>8. ASSUME NEW p \in Workers, acquireNetns(p) PROVE KernelInv'
  <2>1. phase' = phase /\ ch' = ch /\ (stray => stray') BY <1>8 DEF acquireNetns
  <2>2. \A q \in Goroutines \ {p} : step'[q] = step[q] /\ nc'[q] = nc[q] BY <1>8 DEF acquireNetns, TypeInv, StepTypes
  <2>3. phase \in {"init", "serving"} => OthersKept(p) BY <1>8 DEF acquireNetns, KernelInv, VethInv, OthersKept
  <2>4. step'[p] = "acquire" BY <1>8 DEF acquireNetns, TypeInv, StepTypes
  <2>5. p \in Goroutines OBVIOUS
  <2> QED BY <2>1, <2>2, <2>3, <2>4, <2>5, KernelFromOthers DEF NamedSteps, LinkedSteps
<1>9. ASSUME NEW p \in Workers, AcquirePooled(p) PROVE KernelInv'
  <2>1. \A q \in Goroutines \ {p} : step'[q] = step[q] /\ nc'[q] = nc[q] BY <1>9 DEF AcquirePooled, TypeInv, StepTypes
  <2>2. PICK c \in Configs : c = Head(ch) /\ c = ch[1] BY <1>9, ChannelFacts DEF AcquirePooled, TypeInv, PoolTypes
  <2>3. nc'[p] = c /\ step'[p] = "held" /\ ch' = Tail(ch) /\ UNCHANGED <<nss, veth, phase, stray>>
    BY <1>9, <2>2 DEF AcquirePooled, TypeInv, StepTypes
  <2>4. 1 \in 1..Len(ch) /\ \A i \in 1..Len(ch') : \E j \in 1..Len(ch) : ch'[i] = ch[j]
    BY <1>9, <2>3, ChannelFacts DEF AcquirePooled, TypeInv, PoolTypes
  <2>5. phase \in {"init", "serving"} => c.ns \in nss /\ \A i \in 1..Len(ch') : ch'[i].ns \in nss
    BY <2>2, <2>4 DEF KernelInv
  <2>6. ASSUME VethInv PROVE VethInv'
    <3>1. veth[c.subnet] = c.ns /\ \A i \in 1..Len(ch') : veth[ch'[i].subnet] = ch'[i].ns
      BY <2>2, <2>4, <2>6 DEF VethInv
    <3> QED BY <2>1, <2>3, <2>6, <3>1 DEF VethInv, LinkedSteps
  <2> QED BY <2>1, <2>3, <2>5, <2>6 DEF KernelInv, NamedSteps
<1>10. ASSUME NEW p \in Workers, AcquireOnDemand(p) PROVE KernelInv'
  <2>1. phase' = phase /\ ch' = ch /\ (stray => stray') BY <1>10 DEF AcquireOnDemand
  <2>2. \A q \in Goroutines \ {p} : step'[q] = step[q] /\ nc'[q] = nc[q]
    BY <1>10 DEF AcquireOnDemand, TypeInv, StepTypes
  <2>3. phase \in {"init", "serving"} => OthersKept(p) BY <1>10 DEF AcquireOnDemand, KernelInv, VethInv, OthersKept
  <2>4. step'[p] = "name" BY <1>10 DEF AcquireOnDemand, TypeInv, StepTypes
  <2>5. p \in Goroutines OBVIOUS
  <2> QED BY <2>1, <2>2, <2>3, <2>4, <2>5, KernelFromOthers DEF NamedSteps, LinkedSteps
<1>11. ASSUME NEW p \in Workers, releaseNetns(p) PROVE KernelInv'
  <2>1. \A q \in Goroutines \ {p} : step'[q] = step[q] /\ nc'[q] = nc[q]
    BY <1>11 DEF releaseNetns, Cleanup, TypeInv, StepTypes
  <2>2. step'[p] = "idle" /\ UNCHANGED <<phase, stray>> /\ p \in Goroutines /\ nc[p] \in Configs
    BY <1>11 DEF releaseNetns, TypeInv, StepTypes
  <2>3. CASE ch' = ch /\ Cleanup(nc[p].ns, nc[p].subnet)
    <3>1. phase \in {"init", "serving"} => OthersKept(p) BY <1>11, <2>2, <2>3, TakenApart DEF releaseNetns, At
    <3> QED BY <2>1, <2>2, <2>3, <3>1, KernelFromOthers DEF NamedSteps, LinkedSteps
  <2>4. CASE ch' = Append(ch, nc[p]) /\ UNCHANGED <<nss, veth>>
    <3>1. /\ \A i \in 1..Len(ch') : i \in 1..Len(ch) \/ i = Len(ch) + 1
          /\ \A i \in 1..Len(ch) : ch'[i] = ch[i]
          /\ ch'[Len(ch) + 1] = nc[p]
      BY <2>2, <2>4, ChannelFacts, LenProperties DEF TypeInv, PoolTypes
    <3>2. phase \in {"init", "serving"} => \A i \in 1..Len(ch') : ch'[i].ns \in nss
      BY <1>11, <2>2, <3>1 DEF releaseNetns, KernelInv, NamedSteps
    <3>3. ASSUME VethInv PROVE VethInv'
      <4>1. veth[nc[p].subnet] = nc[p].ns BY <1>11, <2>2, <3>3 DEF releaseNetns, VethInv, LinkedSteps
      <4>2. \A i \in 1..Len(ch') : veth[ch'[i].subnet] = ch'[i].ns BY <3>1, <3>3, <4>1 DEF VethInv
      <4> QED BY <2>1, <2>2, <2>4, <3>3, <4>2 DEF VethInv, LinkedSteps
    <3> QED BY <2>1, <2>2, <2>4, <3>2, <3>3 DEF KernelInv, NamedSteps
  <2> QED BY <1>11, <2>3, <2>4 DEF releaseNetns
<1>12. ASSUME NEW p \in Workers, DiscardNetns(p) PROVE KernelInv'
  <2>1. phase' = phase /\ ch' = ch /\ (stray => stray') BY <1>12 DEF DiscardNetns, Cleanup
  <2>2. \A q \in Goroutines \ {p} : step'[q] = step[q] /\ nc'[q] = nc[q]
    BY <1>12 DEF DiscardNetns, Cleanup, TypeInv, StepTypes
  <2>3. phase \in {"init", "serving"} => OthersKept(p) BY <1>12, <2>1, TakenApart DEF DiscardNetns, At
  <2>4. step'[p] \notin NamedSteps /\ step'[p] \notin LinkedSteps /\ step'[p] # "move"
    BY <1>12 DEF DiscardNetns, Cleanup, TypeInv, StepTypes, NamedSteps, LinkedSteps
  <2> QED BY <2>1, <2>2, <2>3, <2>4, KernelFromOthers
<1>13. CASE PoolInitSlot
  <2>1. PICK n \in 0..PoolSize : Filled(n) /\ n < PoolSize /\ Cleanup(PoolName(n + 1), n + 1) BY <1>13, NextSlot
  <2>2. \A q \in Goroutines : step'[q] \in {"idle", "name"}
    BY <1>13 DEF PoolInitSlot, Cleanup, PhaseInv, TypeInv, StepTypes, Goroutines
  <2>3. ch' = ch /\ UNCHANGED <<phase, stray>> /\ phase = "init" BY <1>13 DEF PoolInitSlot
  <2>4. \A i \in 1..Len(ch) : ch[i] \in all BY DEF SlotInv
  <2>5. \A i \in 1..Len(ch) : \E k \in 1..n : ch[i] = Slot(k) BY <2>1, <2>4 DEF Filled
  <2>6. \A i \in 1..Len(ch) : ch[i].ns # PoolName(n + 1) /\ ch[i].subnet # n + 1 /\ ch[i].subnet \in Subnets
    BY <2>1, <2>5, SlotFacts
  <2>7. \A i \in 1..Len(ch) : ch[i].ns \in nss' BY <2>1, <2>3, <2>6 DEF Cleanup, KernelInv
  <2>8. ASSUME ~stray PROVE \A i \in 1..Len(ch) : veth'[ch[i].subnet] = ch[i].ns
    <3>1. \A i \in 1..Len(ch) : veth[ch[i].subnet] = ch[i].ns BY <2>3, <2>8 DEF KernelInv, VethInv
    <3>2. \A s \in Subnets : s # n + 1 /\ veth[s] # PoolName(n + 1) => veth'[s] = veth[s]
      BY <2>1, <2>8 DEF Cleanup
    <3> QED BY <2>6, <3>1, <3>2
  <2>9. ~stray' => VethInv' BY <2>2, <2>3, <2>8 DEF VethInv, LinkedSteps
  <2> QED BY <2>2, <2>3, <2>7, <2>9 DEF KernelInv, NamedSteps
<1>14. CASE Serve
  BY <1>14 DEF Serve, KernelInv, VethInv
<1>15. CASE PoolDestroy
  BY <1>15 DEF PoolDestroy, KernelInv, VethInv
<1>16. CASE ProcessEnds
  BY <1>16 DEF ProcessEnds, KernelInv, VethInv
<1>17. CASE Restart
  <2>1. 1..Len(ch) = {} BY <1>17 DEF Restart, PhaseInv
  <2> QED BY <1>17, <2>1 DEF Restart, PhaseInv, KernelInv, VethInv, NamedSteps, LinkedSteps
<1>18. CASE UNCHANGED netVars
  BY <1>18 DEF netVars, KernelInv, VethInv
<1>19. CASE NamelessNsDies
  <2>1. UNCHANGED <<nss, phase, stray, ch, step, nc>> BY <1>19 DEF NamelessNsDies
  <2>2. \A s \in Subnets : veth[s] # Lost => veth'[s] = veth[s]
    BY <1>19 DEF NamelessNsDies, TypeInv, KernelTypes
  <2>3. ASSUME VethInv PROVE VethInv'
    <3>1. \A p \in Goroutines : step[p] \in ConfigSteps => nc[p].subnet \in Subnets /\ nc[p].ns \in Names
      BY ConfigFacts DEF TypeInv, StepTypes
    <3>2. \A i \in 1..Len(ch) : ch[i].subnet \in Subnets /\ ch[i].ns \in Names
      BY ConfigFacts, ElementOfSeq DEF TypeInv, PoolTypes
    <3> QED BY <2>1, <2>2, <2>3, <3>1, <3>2 DEF VethInv, LinkedSteps
  <2> QED BY <2>1, <2>3 DEF KernelInv
<1> QED BY <1>1, <1>2, <1>3, <1>4, <1>5, <1>6, <1>7, <1>8, <1>9, <1>10, <1>11, <1>12, <1>13, <1>14,
    <1>15, <1>16, <1>17, <1>18, <1>19 DEF NetNext, SetupStep, WorkerStep, Goroutines, PoolInitFailed,
    Crash, StaysDown

-----------------------------------------------------------------------------
(* Every veth has an owner.                                                  *)

LEMMA StrayFromOthers ==
  ASSUME NoStrayVeth, NEW p \in Goroutines, phase' = phase, restarts' = restarts, ch' = ch, stray => stray',
         \A q \in Goroutines \ {p} : step'[q] = step[q] /\ nc'[q] = nc[q],
         phase \in {"init", "serving"} /\ ~stray' => \A s \in Subnets : veth'[s] # Absent =>
           \/ step'[p] \in {"move", "config", "held"} /\ nc'[p].subnet = s
           \/ veth[s] # Absent /\ ~(step[p] \in {"move", "config", "held"} /\ nc[p].subnet = s)
  PROVE  NoStrayVeth'
<1> SUFFICES ASSUME phase \in {"init", "serving"}, restarts = 0, ~stray', NEW s \in Subnets, veth'[s] # Absent
             PROVE  \/ \E q \in Goroutines : step'[q] \in {"move", "config", "held"} /\ nc'[q].subnet = s
                    \/ \E i \in 1..Len(ch') : ch'[i].subnet = s
  BY DEF NoStrayVeth
<1>1. CASE step'[p] \in {"move", "config", "held"} /\ nc'[p].subnet = s BY <1>1
<1>2. CASE veth[s] # Absent /\ ~(step[p] \in {"move", "config", "held"} /\ nc[p].subnet = s)
  <2>1. \/ \E q \in Goroutines : step[q] \in {"move", "config", "held"} /\ nc[q].subnet = s
        \/ \E i \in 1..Len(ch) : ch[i].subnet = s
    BY <1>2 DEF NoStrayVeth
  <2>2. CASE \E i \in 1..Len(ch) : ch[i].subnet = s BY <2>2
  <2>3. ASSUME NEW q \in Goroutines, step[q] \in {"move", "config", "held"}, nc[q].subnet = s
        PROVE  step'[q] \in {"move", "config", "held"} /\ nc'[q].subnet = s
    BY <1>2, <2>3
  <2> QED BY <2>1, <2>2, <2>3
<1> QED BY <1>1, <1>2

(* Whoever ends takes the veth along. *)
LEMMA NextStray ==
  ASSUME TypeInv, PhaseInv, SlotInv, NoStrayVeth, [NetNext]_netVars
  PROVE  NoStrayVeth'
<1> USE NetnsAssumption, StepFacts, NameFacts DEF kernelVars, poolVars, serverVars, At, Goto
<1>1. ASSUME NEW p \in Goroutines, SetupName(p) PROVE NoStrayVeth'
  <2>1. phase' = phase /\ restarts' = restarts /\ ch' = ch /\ (stray => stray') BY <1>1 DEF SetupName
  <2>2. \A q \in Goroutines \ {p} : step'[q] = step[q] /\ nc'[q] = nc[q] BY <1>1 DEF SetupName, TypeInv, StepTypes
  <2>3. \A s \in Subnets : veth'[s] # Absent =>
          \/ step'[p] \in {"move", "config", "held"} /\ nc'[p].subnet = s
          \/ veth[s] # Absent /\ ~(step[p] \in {"move", "config", "held"} /\ nc[p].subnet = s)
    BY <1>1 DEF SetupName, TypeInv, StepTypes, KernelTypes
  <2> QED BY <2>1, <2>2, <2>3, StrayFromOthers
<1>2. ASSUME NEW p \in Goroutines, SetupLink(p) PROVE NoStrayVeth'
  <2>1. phase' = phase /\ restarts' = restarts /\ ch' = ch /\ (stray => stray') BY <1>2 DEF SetupLink, DeleteNs
  <2>2. \A q \in Goroutines \ {p} : step'[q] = step[q] /\ nc'[q] = nc[q]
    BY <1>2 DEF SetupLink, DeleteNs, TypeInv, StepTypes
  <2>4. p \in Goroutines /\ nc[p].subnet \in Subnets BY <1>2, ConfigFacts DEF SetupLink, DeleteNs, TypeInv, StepTypes
  <2>3. \A s \in Subnets : veth'[s] # Absent =>
          \/ step'[p] \in {"move", "config", "held"} /\ nc'[p].subnet = s
          \/ veth[s] # Absent /\ ~(step[p] \in {"move", "config", "held"} /\ nc[p].subnet = s)
    BY <1>2, <2>4 DEF SetupLink, DeleteNs, TypeInv, StepTypes, KernelTypes
  <2> QED BY <2>1, <2>2, <2>3, StrayFromOthers
<1>3. ASSUME NEW p \in Goroutines, SetupMove(p) PROVE NoStrayVeth'
  <2>1. phase' = phase /\ restarts' = restarts /\ ch' = ch /\ (stray => stray') BY <1>3 DEF SetupMove
  <2>2. \A q \in Goroutines \ {p} : step'[q] = step[q] /\ nc'[q] = nc[q] BY <1>3 DEF SetupMove, TypeInv, StepTypes
  <2>4. p \in Goroutines /\ nc[p].subnet \in Subnets BY <1>3, ConfigFacts DEF SetupMove, TypeInv, StepTypes
  <2>3. \A s \in Subnets : veth'[s] # Absent =>
          \/ step'[p] \in {"move", "config", "held"} /\ nc'[p].subnet = s
          \/ veth[s] # Absent /\ ~(step[p] \in {"move", "config", "held"} /\ nc[p].subnet = s)
    BY <1>3, <2>4 DEF SetupMove, TypeInv, StepTypes, KernelTypes
  <2> QED BY <2>1, <2>2, <2>3, StrayFromOthers
<1>4. ASSUME NEW p \in Goroutines, SetupRange(p) PROVE NoStrayVeth'
  <2>1. phase' = phase /\ restarts' = restarts /\ ch' = ch /\ (stray => stray')
    BY <1>4 DEF SetupRange, TakeApart, DeleteNs
  <2>2. \A q \in Goroutines \ {p} : step'[q] = step[q] /\ nc'[q] = nc[q]
    BY <1>4 DEF SetupRange, TakeApart, DeleteNs, TypeInv, StepTypes
  <2>4. p \in Goroutines /\ nc[p].subnet \in Subnets
    BY <1>4, ConfigFacts DEF SetupRange, TakeApart, DeleteNs, TypeInv, StepTypes
  <2>3. \A s \in Subnets : veth'[s] # Absent =>
          \/ step'[p] \in {"move", "config", "held"} /\ nc'[p].subnet = s
          \/ veth[s] # Absent /\ ~(step[p] \in {"move", "config", "held"} /\ nc[p].subnet = s)
    BY <1>4, <2>4 DEF SetupRange, TakeApart, DeleteNs, TypeInv, StepTypes, KernelTypes
  <2> QED BY <2>1, <2>2, <2>3, StrayFromOthers
<1>5. ASSUME NEW p \in Goroutines, SetupDone(p) PROVE NoStrayVeth'
  <2>1. \A q \in Goroutines \ {p} : step'[q] = step[q] /\ nc'[q] = nc[q]
    BY <1>5 DEF SetupDone, MayStray, TypeInv, StepTypes
  <2>2. nc[p] \in Configs BY <1>5 DEF SetupDone, MayStray, TypeInv, StepTypes
  <2>3. /\ UNCHANGED <<nss, veth, phase, restarts>> /\ (stray => stray')
        /\ step[p] = "config" \/ stray
    BY <1>5, StrayStays DEF SetupDone, PhaseInv, TypeInv, PoolTypes
  <2>4. CASE p = Main
    <3>1. ch' = Append(ch, nc[p]) BY <1>5, <2>4 DEF SetupDone, MayStray
    <3>2. /\ \A i \in 1..Len(ch) : i \in 1..Len(ch') /\ ch'[i] = ch[i]
          /\ Len(ch) + 1 \in 1..Len(ch') /\ ch'[Len(ch) + 1] = nc[p]
      BY <2>2, <3>1, ChannelFacts, LenProperties DEF TypeInv, PoolTypes
    <3> QED BY <2>1, <2>3, <3>2 DEF NoStrayVeth
  <2>5. CASE p # Main
    <3>1. step'[p] = "held" /\ ch' = ch /\ nc' = nc BY <1>5, <2>5 DEF SetupDone, MayStray, TypeInv, StepTypes
    <3> QED BY <2>1, <2>3, <3>1 DEF NoStrayVeth
  <2> QED BY <2>4, <2>5
<1>6. ASSUME NEW p \in Goroutines, SetupIOError(p) PROVE NoStrayVeth'
  <2>1. phase' = phase /\ restarts' = restarts /\ ch' = ch /\ (stray => stray')
    BY <1>6, StrayStays DEF SetupIOError, TypeInv, PoolTypes
  <2>2. \A q \in Goroutines \ {p} : step'[q] = step[q] /\ nc'[q] = nc[q]
    BY <1>6 DEF SetupIOError, TakeApart, DeleteNs, MayStray, TypeInv, StepTypes
  <2>4. p \in Goroutines /\ nc[p].subnet \in Subnets
    BY <1>6, ConfigFacts DEF SetupIOError, TakeApart, DeleteNs, MayStray, TypeInv, StepTypes
  <2>3. \A s \in Subnets : veth'[s] # Absent =>
          \/ step'[p] \in {"move", "config", "held"} /\ nc'[p].subnet = s
          \/ veth[s] # Absent /\ ~(step[p] \in {"move", "config", "held"} /\ nc[p].subnet = s)
    BY <1>6, <2>4 DEF SetupIOError, TakeApart, DeleteNs, MayStray, TypeInv, StepTypes, KernelTypes
  <2> QED BY <2>1, <2>2, <2>3, StrayFromOthers
<1>7. ASSUME NEW p \in Goroutines, SetupFailed(p) PROVE NoStrayVeth'
  <2>1. phase' = phase /\ restarts' = restarts /\ ch' = ch /\ (stray => stray') BY <1>7 DEF SetupFailed
  <2>2. \A q \in Goroutines \ {p} : step'[q] = step[q] /\ nc'[q] = nc[q] BY <1>7 DEF SetupFailed, TypeInv, StepTypes
  <2>3. \A s \in Subnets : veth'[s] # Absent =>
          \/ step'[p] \in {"move", "config", "held"} /\ nc'[p].subnet = s
          \/ veth[s] # Absent /\ ~(step[p] \in {"move", "config", "held"} /\ nc[p].subnet = s)
    BY <1>7 DEF SetupFailed, TypeInv, StepTypes, KernelTypes
  <2> QED BY <2>1, <2>2, <2>3, StrayFromOthers
<1>8. ASSUME NEW p \in Workers, acquireNetns(p) PROVE NoStrayVeth'
  <2>1. phase' = phase /\ restarts' = restarts /\ ch' = ch /\ (stray => stray') BY <1>8 DEF acquireNetns
  <2>2. \A q \in Goroutines \ {p} : step'[q] = step[q] /\ nc'[q] = nc[q] BY <1>8 DEF acquireNetns, TypeInv, StepTypes
  <2>3. \A s \in Subnets : veth'[s] # Absent =>
          \/ step'[p] \in {"move", "config", "held"} /\ nc'[p].subnet = s
          \/ veth[s] # Absent /\ ~(step[p] \in {"move", "config", "held"} /\ nc[p].subnet = s)
    BY <1>8 DEF acquireNetns, TypeInv, StepTypes, KernelTypes
  <2> QED BY <2>1, <2>2, <2>3, StrayFromOthers
<1>9. ASSUME NEW p \in Workers, AcquirePooled(p) PROVE NoStrayVeth'
  <2>1. \A q \in Goroutines \ {p} : step'[q] = step[q] /\ nc'[q] = nc[q] BY <1>9 DEF AcquirePooled, TypeInv, StepTypes
  <2>2. PICK c \in Configs : c = Head(ch) /\ c = ch[1] BY <1>9, ChannelFacts DEF AcquirePooled, TypeInv, PoolTypes
  <2>3. /\ nc'[p] = c /\ step[p] = "acquire" /\ step'[p] = "held" /\ ch' = Tail(ch)
        /\ UNCHANGED <<nss, veth, phase, restarts, stray>>
    BY <1>9, <2>2 DEF AcquirePooled, TypeInv, StepTypes
  <2>4. \A i \in 1..Len(ch) : ch[i] = c \/ \E j \in 1..Len(ch') : ch'[j] = ch[i]
    BY <1>9, <2>2, <2>3, ChannelFacts DEF AcquirePooled, TypeInv, PoolTypes
  <2> QED BY <2>1, <2>3, <2>4 DEF NoStrayVeth
<1>10. ASSUME NEW p \in Workers, AcquireOnDemand(p) PROVE NoStrayVeth'
  <2>1. phase' = phase /\ restarts' = restarts /\ ch' = ch /\ (stray => stray') BY <1>10 DEF AcquireOnDemand
  <2>2. \A q \in Goroutines \ {p} : step'[q] = step[q] /\ nc'[q] = nc[q]
    BY <1>10 DEF AcquireOnDemand, TypeInv, StepTypes
  <2>3. \A s \in Subnets : veth'[s] # Absent =>
          \/ step'[p] \in {"move", "config", "held"} /\ nc'[p].subnet = s
          \/ veth[s] # Absent /\ ~(step[p] \in {"move", "config", "held"} /\ nc[p].subnet = s)
    BY <1>10 DEF AcquireOnDemand, TypeInv, StepTypes, KernelTypes
  <2> QED BY <2>1, <2>2, <2>3, StrayFromOthers
<1>11. ASSUME NEW p \in Workers, releaseNetns(p) PROVE NoStrayVeth'
  <2>1. \A q \in Goroutines \ {p} : step'[q] = step[q] /\ nc'[q] = nc[q]
    BY <1>11 DEF releaseNetns, Cleanup, TypeInv, StepTypes
  <2>2. /\ UNCHANGED <<phase, restarts, stray>> /\ p \in Goroutines
        /\ nc[p] \in Configs /\ nc[p].subnet \in Subnets /\ step[p] = "held"
    BY <1>11, ConfigFacts DEF releaseNetns, Cleanup, TypeInv, StepTypes
  <2>3. CASE ch' = ch /\ Cleanup(nc[p].ns, nc[p].subnet)
    <3>1. ~stray => \A s \in Subnets : veth'[s] # Absent => veth[s] # Absent /\ nc[p].subnet # s
      BY <2>2, <2>3 DEF Cleanup, TypeInv, KernelTypes
    <3> QED BY <2>1, <2>2, <2>3, <3>1, StrayFromOthers
  <2>4. CASE ch' = Append(ch, nc[p]) /\ UNCHANGED <<nss, veth>>
    <3>1. /\ \A i \in 1..Len(ch) : i \in 1..Len(ch') /\ ch'[i] = ch[i]
          /\ Len(ch) + 1 \in 1..Len(ch') /\ ch'[Len(ch) + 1] = nc[p]
      BY <2>2, <2>4, ChannelFacts, LenProperties DEF TypeInv, PoolTypes
    <3> QED BY <2>1, <2>2, <2>4, <3>1 DEF NoStrayVeth
  <2> QED BY <1>11, <2>3, <2>4 DEF releaseNetns
<1>12. ASSUME NEW p \in Workers, DiscardNetns(p) PROVE NoStrayVeth'
  <2>1. phase' = phase /\ restarts' = restarts /\ ch' = ch /\ (stray => stray') BY <1>12 DEF DiscardNetns, Cleanup
  <2>2. \A q \in Goroutines \ {p} : step'[q] = step[q] /\ nc'[q] = nc[q]
    BY <1>12 DEF DiscardNetns, Cleanup, TypeInv, StepTypes
  <2>4. p \in Goroutines /\ nc[p].subnet \in Subnets
    BY <1>12, ConfigFacts DEF DiscardNetns, Cleanup, TypeInv, StepTypes
  <2>3. ~stray => \A s \in Subnets : veth'[s] # Absent =>
          \/ step'[p] \in {"move", "config", "held"} /\ nc'[p].subnet = s
          \/ veth[s] # Absent /\ ~(step[p] \in {"move", "config", "held"} /\ nc[p].subnet = s)
    BY <1>12, <2>4 DEF DiscardNetns, Cleanup, TypeInv, StepTypes, KernelTypes
  <2> QED BY <2>1, <2>2, <2>3, StrayFromOthers
<1>13. CASE PoolInitSlot
  <2>1. PICK n \in 0..PoolSize : n < PoolSize /\ Cleanup(PoolName(n + 1), n + 1) BY <1>13, NextSlot
  <2>2. \A q \in Goroutines \ {Main} : step'[q] = step[q] /\ nc'[q] = nc[q]
    BY <1>13 DEF PoolInitSlot, TypeInv, StepTypes
  <2>3. UNCHANGED <<phase, restarts, stray, ch>> /\ step[Main] = "idle" BY <1>13 DEF PoolInitSlot
  <2>4. ~stray => \A s \in Subnets : veth'[s] # Absent => veth[s] # Absent
    BY <2>1 DEF Cleanup, TypeInv, KernelTypes
  <2> QED BY <2>2, <2>3, <2>4, StrayFromOthers
<1>14. CASE Serve
  BY <1>14 DEF Serve, NoStrayVeth
<1>15. CASE PoolDestroy
  BY <1>15 DEF PoolDestroy, NoStrayVeth
<1>16. CASE ProcessEnds
  BY <1>16 DEF ProcessEnds, NoStrayVeth
<1>17. CASE Restart
  BY <1>17 DEF Restart, NoStrayVeth, TypeInv, PoolTypes
<1>18. CASE UNCHANGED netVars
  BY <1>18 DEF netVars, NoStrayVeth
<1>19. CASE NamelessNsDies
  BY <1>19 DEF NamelessNsDies, NoStrayVeth
<1> QED BY <1>1, <1>2, <1>3, <1>4, <1>5, <1>6, <1>7, <1>8, <1>9, <1>10, <1>11, <1>12, <1>13, <1>14,
    <1>15, <1>16, <1>17, <1>18, <1>19 DEF NetNext, SetupStep, WorkerStep, Goroutines, PoolInitFailed,
    Crash, StaysDown

-----------------------------------------------------------------------------
(* The theorems.                                                             *)

(* The channel has room for every slot of the pool that is not in it. *)
LEMMA ChannelRoom ==
  ASSUME TypeInv, SlotInv
  PROVE  Len(ch) <= PoolSize /\ \A p \in Workers : Pooled(p) => Len(ch) < PoolSize
<1>1. PICK n \in 0..PoolSize : Filled(n) BY DEF SlotInv
<1>2. Cardinality(all) = n /\ IsFiniteSet(all) BY <1>1, FilledCount
<1>3. Len(ch) \in Nat /\ ch \in [1..Len(ch) -> Configs] BY LenProperties, SeqDef DEF TypeInv, PoolTypes
<1>4. Cardinality(1..Len(ch)) = Len(ch)
  <2>1. 1 \in Int /\ Len(ch) \in Int BY <1>3
  <2>2. Cardinality(1..Len(ch)) = IF 1 > Len(ch) THEN 0 ELSE Len(ch) - 1 + 1 BY <2>1, FS_Interval
  <2> QED BY <1>3, <2>2
<1>5. ASSUME NEW T, IsFiniteSet(T), \A i \in 1..Len(ch) : ch[i] \in T PROVE Len(ch) <= Cardinality(T)
  <2>1. ch \in Injection(1..Len(ch), T)
    <3>1. ch \in [1..Len(ch) -> T] BY <1>3, <1>5
    <3>2. IsInjective(ch) BY <3>1 DEF SlotInv, IsInjective
    <3> QED BY <3>1, <3>2 DEF Injection
  <2> QED BY <1>4, <1>5, <2>1, FS_Injection
<1>6. Len(ch) <= PoolSize BY <1>1, <1>2, <1>3, <1>5, NetnsAssumption DEF SlotInv
<1>7. ASSUME NEW p \in Workers, Pooled(p) PROVE Len(ch) < PoolSize
  <2>1. nc[p] \in all /\ \A i \in 1..Len(ch) : ch[i] \in all \ {nc[p]} BY <1>7 DEF SlotInv
  <2>2. IsFiniteSet(all \ {nc[p]}) /\ Cardinality(all \ {nc[p]}) = n - 1 BY <1>2, <2>1, FS_RemoveElement
  <2> QED BY <1>1, <1>3, <1>5, <2>1, <2>2, NetnsAssumption
<1> QED BY <1>6, <1>7

LEMMA InitNetInv == NetInit => NetInv
<1> SUFFICES ASSUME NetInit PROVE NetInv OBVIOUS
<1> USE NetnsAssumption, StepFacts, NameFacts, ConfigFacts DEF NetInit
<1>1. TypeInv
  <2>1. KernelTypes BY DEF KernelTypes
  <2>2. PoolTypes
    <3>1. ch \in Seq(Configs) /\ all = {} BY EmptySeq
    <3>2. stray \in BOOLEAN OBVIOUS
    <3> QED BY <3>1, <3>2 DEF PoolTypes
  <2>3. StepTypes BY DEF StepTypes
  <2> QED BY <2>1, <2>2, <2>3 DEF TypeInv
<1>2. PhaseInv BY DEF PhaseInv
<1>3. 1..Len(ch) = {} OBVIOUS
<1>4. SlotInv
  <2>1. Filled(0) /\ 0 \in 0..PoolSize BY DEF Filled
  <2> QED BY <1>3, <2>1 DEF SlotInv, Pooled
<1>5. DemandInv BY DEF DemandInv, Demand
<1>6. KernelInv BY <1>3 DEF KernelInv, VethInv, NamedSteps, LinkedSteps
<1>7. NoStrayVeth BY DEF NoStrayVeth
<1> QED BY <1>1, <1>2, <1>4, <1>5, <1>6, <1>7 DEF NetInv

LEMMA NextNetInv == NetInv /\ [NetNext]_netVars => NetInv'
<1> SUFFICES ASSUME NetInv, [NetNext]_netVars PROVE NetInv' OBVIOUS
<1> USE DEF NetInv
<1>1. TypeInv' BY NextKernelTypes, NextPoolTypes, NextStepTypes DEF TypeInv
<1>2. PhaseInv' /\ SlotInv' /\ DemandInv' BY NextPhase, NextSlots, NextDemand
<1>3. KernelInv' /\ NoStrayVeth' BY NextKernel, NextStray
<1> QED BY <1>1, <1>2, <1>3

(* The invariant of slots, names and the kernel's state. *)
THEOREM NetInvariance == NetSpec => []NetInv
<1>1. NetInit => NetInv BY InitNetInv
<1>2. NetInv /\ [NetNext]_netVars => NetInv' BY NextNetInv
<1> QED BY <1>1, <1>2, PTL DEF NetSpec

(* What the invariant says of the slots, in every state of this or a larger system. *)
LEMMA NetInvImplies ==
  ASSUME NetInv
  PROVE  NetTypeOK /\ HeldIsConfigured /\ SlotExclusive /\ ReleaseNeverBlocks /\ NoStrayVeth
<1> USE DEF NetInv
<1>1. NetTypeOK
  BY ChannelRoom DEF NetTypeOK, TypeInv, KernelTypes, PoolTypes, StepTypes, ConfigSteps
<1>2. HeldIsConfigured
  BY StepFacts DEF HeldIsConfigured, KernelInv, VethInv, Holders, NamedSteps, LinkedSteps
<1>3. SlotExclusive
  <2> SUFFICES ASSUME phase \in {"init", "serving"} PROVE SlotExclusive BY DEF SlotExclusive
  <2>1. \A p \in Holders : p \in Goroutines /\ step[p] = "held" BY StepFacts DEF Holders
  <2>2. \A p, q \in Holders : p # q => nc[p].ns # nc[q].ns BY <2>1, DistinctNames, StepFacts
  <2>3. \A p \in Holders, i \in 1..Len(ch) : nc[p].ns # ch[i].ns BY <2>1, DistinctNames, StepFacts
  <2>5. ~stray => VethInv BY DEF KernelInv
  <2>6. ~stray => \A p, q \in Holders : p # q => nc[p].subnet # nc[q].subnet BY <2>1, <2>5, OwnVeth
  <2>7. ~stray => \A p \in Holders, i \in 1..Len(ch) : nc[p].subnet # ch[i].subnet BY <2>1, <2>5, OwnVeth
  <2>4. \A i, j \in 1..Len(ch) : i # j => ch[i].ns # ch[j].ns BY DistinctNames
  <2> QED BY <2>2, <2>3, <2>4, <2>6, <2>7 DEF SlotExclusive
<1>4. ReleaseNeverBlocks BY ChannelRoom DEF ReleaseNeverBlocks, Holders, Pooled
<1> QED BY <1>1, <1>2, <1>3, <1>4

(* Every step keeps the types, and the channel never holds more than PoolSize slots. *)
THEOREM NetTypes == NetSpec => []NetTypeOK
BY NetInvariance, NetInvImplies, PTL

(* A slot that a create holds, or may take from the pool, has its namespace, whatever
   failed before and whatever an earlier life left; its veth leads there as long as no
   failing set-up left a thread outside the root namespace.  No setup, fallback or
   cleanup of another goroutine takes it apart. *)
THEOREM SlotsAreConfigured == NetSpec => []HeldIsConfigured
BY NetInvariance, NetInvImplies, PTL

(* No two sandboxes share a namespace, and no slot is both held and ready.  Although
   on-demand setups draw their subnets from a counter of their own, no two share a
   subnet either, as long as every thread is in the root namespace, where LinkAdd
   refuses a vethNNN in use. *)
THEOREM SlotsAreExclusive == NetSpec => []SlotExclusive
BY NetInvariance, NetInvImplies, PTL

(* releaseNetns never waits in its send: there are never more slots than places. *)
THEOREM ReleaseHasRoom == NetSpec => []ReleaseNeverBlocks
BY NetInvariance, NetInvImplies, PTL

(* In the first life of the server, and until a thread is left outside the root
   namespace, every veth of that namespace has an owner. *)
THEOREM VethsHaveOwners == NetSpec => []NoStrayVeth
BY NetInvariance, NetInvImplies, PTL
=============================================================================
