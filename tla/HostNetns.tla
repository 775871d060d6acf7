-------------------------------- MODULE HostNetns --------------------------------
(***************************************************************************)
(* The host network slots of sandboxes: named network namespaces, the veth *)
(* pair that joins each to the root namespace, the pool of slots prepared  *)
(* at start-up, and the on-demand fallback.                                *)
(*                                                                         *)
(* Source: cmd/server/{netns,netns_pool,netns_alloc,netns_util,main}.go.   *)
(*                                                                         *)
(* The kernel's names outlive the server process: they are what a crash    *)
(* leaves behind and what the next run finds.  Addresses, routes and the   *)
(* tap follow from the subnet of a slot and are set up in one step.        *)
(*                                                                         *)
(* Network namespaces belong to OS threads.  A thread that a failing set-up *)
(* left outside the root namespace goes back to Go's scheduler: whatever   *)
(* opens a netlink handle on it later works somewhere else.                *)
(***************************************************************************)
EXTENDS Naturals, Sequences, FiniteSets

CONSTANTS
  Workers,        \* goroutines that acquire and release slots
  Main,           \* the main goroutine, which fills the pool
  PoolSize,       \* cfg.NetnsPoolSize
  OctetLimit,     \* the largest subnet that fits an address, 255
  MaxSubnet,      \* bound: veth names in use, on-demand setups included
  MaxSandboxes,   \* bound: creates in one life of the server
  MaxRestarts     \* bound: lives of the server after the first

ASSUME NetnsAssumption ==
  /\ Main \notin Workers
  /\ PoolSize \in Nat /\ OctetLimit \in Nat /\ MaxSandboxes \in Nat /\ MaxRestarts \in Nat
  /\ MaxSubnet \in Nat /\ PoolSize <= MaxSubnet

VARIABLES
  nss,            \* names under /var/run/netns
  veth,           \* for each vethNNN of the root namespace, where its peer is
  phase,          \* of the server process: init, serving, closing or down
  restarts,       \* how often it was started again
  stray,          \* some thread of the process is outside the root namespace
  nextSandboxID,  \* s.nextSandboxID
  nextSubnet,     \* s.nextSubnet, which only on-demand setups draw from
  all,            \* p.all
  ch,             \* the buffered channel p.ch
  step,           \* where each goroutine is in acquire, setup and release
  nc              \* the netnsConfig it builds or holds

kernelVars == <<nss, veth>>
poolVars   == <<nextSandboxID, nextSubnet, all, ch>>
serverVars == <<phase, restarts, stray>>
netVars    == <<kernelVars, poolVars, serverVars, step, nc>>

Goroutines == Workers \cup {Main}
Subnets    == 1..MaxSubnet
Names      == ({"pool"} \X (1..PoolSize)) \cup ({"sb"} \X (1..MaxSandboxes))

(* netnsNameForSandbox: pool-001 and sb-1 never give the same name. *)
PoolName(i)     == <<"pool", i>>
SandboxName(id) == <<"sb", id>>

Absent == <<"absent", 0>>   \* no such veth
Root   == <<"root", 0>>     \* the peer is still veth0 of the root namespace
Lost   == <<"lost", 0>>     \* the peer is in a namespace that has no name any more

Configs == [ns : Names, subnet : Subnets, pooled : BOOLEAN]
NoConfig == [ns |-> Absent, subnet |-> 0, pooled |-> FALSE]

(* In "away" the links are made and configured outside the root namespace. *)
SetupSteps == {"name", "link", "move", "config", "away"}
FailedSteps == {"failedExists", "failedRange", "failedIO"}
Steps == {"idle", "acquire", "held"} \cup SetupSteps \cup FailedSteps

NetInit ==
  /\ nss = {}
  /\ veth = [s \in Subnets |-> Absent]
  /\ phase = "init"
  /\ restarts = 0
  /\ stray = FALSE
  /\ nextSandboxID = 0
  /\ nextSubnet = 0
  /\ all = {}
  /\ ch = <<>>
  /\ step = [p \in Goroutines |-> "idle"]
  /\ nc = [p \in Goroutines |-> NoConfig]

At(p, l) == phase # "down" /\ step[p] = l
Goto(p, l) == step' = [step EXCEPT ![p] = l]

(* Deleting a namespace takes the veth peer inside it along, and with it the
   host end; deleting the host end takes the peer along. *)
DeleteNs(ns, links) == [s \in Subnets |-> IF links[s] = ns THEN Absent ELSE links[s]]

(* netns.DeleteNamed, and the deletion of the veth through a handle of the root
   namespace. *)
TakeApart(ns, s) ==
  /\ nss'  = nss \ {ns}
  /\ veth' = DeleteNs(ns, [veth EXCEPT ![s] = Absent])

(* cleanupSandboxNetnsAndRouting, by name.  On a stray thread the handle does not
   find the veth; and while a stray thread is in it, a namespace outlives its name. *)
Cleanup(ns, s) ==
  \E root \in BOOLEAN, gone \in {Absent, Lost} :
    /\ stray \/ (root /\ gone = Absent)
    /\ nss'  = nss \ {ns}
    /\ veth' = [t \in Subnets |-> IF root /\ t = s THEN Absent
                                 ELSE IF veth[t] = ns THEN gone ELSE veth[t]]

(* netns.Set fails to bring a thread back, and withNetns does not look. *)
MayStray == stray' \in {stray, TRUE} /\ UNCHANGED <<phase, restarts>>

-----------------------------------------------------------------------------
(* setupSandboxNetnsAndRouting, for a pool slot or for a sandbox.            *)

(* netns.NewNamed moves the thread to a new namespace and then refuses a name that
   exists; nothing brings the thread back from there. *)
SetupName(p) ==
  /\ At(p, "name")
  /\ \/ /\ nc[p].ns \notin nss
        /\ nss' = nss \cup {nc[p].ns}
        /\ Goto(p, "link")
        /\ UNCHANGED stray
     \/ /\ nc[p].ns \in nss
        /\ Goto(p, "failedExists")
        /\ stray' = TRUE
        /\ UNCHANGED nss
  /\ UNCHANGED <<veth, poolVars, phase, restarts, nc>>

(* LinkAdd creates vethNNN and, in the root namespace too, its peer veth0. *)
LinkFree(s) == veth[s] = Absent /\ \A t \in Subnets : veth[t] # Root

(* Variant: LinkAdd's failure also runs the deletion of the host end. *)
SetupLinkDeletesVeth(p) ==
  /\ At(p, "link")
  /\ \/ /\ LinkFree(nc[p].subnet)
        /\ veth' = [veth EXCEPT ![nc[p].subnet] = Root]
        /\ Goto(p, "move")
        /\ UNCHANGED nss
     \/ /\ ~LinkFree(nc[p].subnet)
        /\ TakeApart(nc[p].ns, nc[p].subnet)
        /\ Goto(p, "failedExists")
  /\ UNCHANGED <<poolVars, serverVars, nc>>

(* On a stray thread LinkAdd works in its namespace, and may be refused there. *)
SetupLink(p) ==
  /\ At(p, "link")
  /\ \/ /\ LinkFree(nc[p].subnet)
        /\ veth' = [veth EXCEPT ![nc[p].subnet] = Root]
        /\ Goto(p, "move")
        /\ UNCHANGED nss
     \/ /\ stray
        /\ Goto(p, "away")
        /\ UNCHANGED kernelVars
     \/ /\ stray \/ ~LinkFree(nc[p].subnet)
        /\ nss' = nss \ {nc[p].ns}
        /\ veth' = DeleteNs(nc[p].ns, veth)
        /\ Goto(p, "failedExists")
  /\ UNCHANGED <<poolVars, serverVars, nc>>

(* LinkSetNsFd moves veth0 into the new namespace. *)
SetupMove(p) ==
  /\ At(p, "move")
  /\ veth[nc[p].subnet] = Root
  /\ veth' = [veth EXCEPT ![nc[p].subnet] = nc[p].ns]
  /\ Goto(p, "config")
  /\ UNCHANGED <<nss, poolVars, serverVars, nc>>

(* Addresses, routes and the tap.  A subnet that is no octet does not parse. *)
SetupRange(p) ==
  /\ nc[p].subnet > OctetLimit
  /\ \/ At(p, "config") /\ TakeApart(nc[p].ns, nc[p].subnet)
     \/ At(p, "away") /\ nss' = nss \ {nc[p].ns} /\ UNCHANGED veth
  /\ Goto(p, "failedRange")
  /\ UNCHANGED <<poolVars, serverVars, nc>>

(* setup returns the config; Init adds it to the pool, a create keeps it. *)
SetupDone(p) ==
  /\ At(p, "config") \/ At(p, "away")
  /\ nc[p].subnet <= OctetLimit
  /\ IF p = Main
       THEN /\ all' = all \cup {nc[p]}
            /\ ch'  = Append(ch, nc[p])
            /\ nc'  = [nc EXCEPT ![p] = NoConfig]
            /\ Goto(p, "idle")
       ELSE Goto(p, "held") /\ UNCHANGED <<all, ch, nc>>
  /\ MayStray
  /\ UNCHANGED <<kernelVars, nextSandboxID, nextSubnet>>

(* Variant: cleanupVeth is cleared before the configuration is complete. *)
SetupIOErrorKeepsVeth(p) ==
  /\ \E l \in {"link", "move", "config"} : At(p, l)
  /\ nss' = nss \ {nc[p].ns}
  /\ veth' = DeleteNs(nc[p].ns, veth)
  /\ Goto(p, "failedIO")
  /\ UNCHANGED <<poolVars, serverVars, nc>>

(* A netlink, mount or ioctl call fails.  NewNamed leaves the thread in the new
   namespace, with or without its name; before the veth exists the namespace is
   deleted; until the first address both are; from AddrAdd on only the veth is. *)
SetupIOError(p) ==
  /\ \/ At(p, "name") /\ MayStray /\ UNCHANGED kernelVars
     \/ /\ At(p, "name")
        /\ nss' = nss \cup {nc[p].ns}
        /\ stray' = TRUE
        /\ UNCHANGED <<veth, phase, restarts>>
     \/ /\ At(p, "link")
        /\ nss' = nss \ {nc[p].ns}
        /\ veth' = DeleteNs(nc[p].ns, veth)
        /\ UNCHANGED serverVars
     \/ (At(p, "move") \/ At(p, "config")) /\ TakeApart(nc[p].ns, nc[p].subnet) /\ UNCHANGED serverVars
     \/ /\ At(p, "config")
        /\ nc[p].subnet <= OctetLimit
        /\ veth' = [veth EXCEPT ![nc[p].subnet] = Absent]
        /\ MayStray /\ UNCHANGED nss
     \/ At(p, "away") /\ nss' \in {nss, nss \ {nc[p].ns}} /\ MayStray /\ UNCHANGED veth
  /\ Goto(p, "failedIO")
  /\ UNCHANGED <<poolVars, nc>>

-----------------------------------------------------------------------------
(* The pool at start-up.                                                     *)

(* One round of Init: clear what a crashed run left, then set the slot up. *)
PoolInitSlot ==
  LET i == Cardinality(all) + 1
  IN  /\ phase = "init"
      /\ step[Main] = "idle"
      /\ i <= PoolSize
      /\ Cleanup(PoolName(i), i)
      /\ nc' = [nc EXCEPT ![Main] = [ns |-> PoolName(i), subnet |-> i, pooled |-> TRUE]]
      /\ Goto(Main, "name")
      /\ UNCHANGED <<poolVars, serverVars>>

(* main starts to listen. *)
Serve ==
  /\ phase = "init"
  /\ step[Main] = "idle"
  /\ Cardinality(all) = PoolSize
  /\ phase' = "serving"
  /\ UNCHANGED <<kernelVars, poolVars, restarts, stray, step, nc>>

-----------------------------------------------------------------------------
(* acquireNetns and releaseNetns.                                            *)

(* A create begins; its id names the namespace it may need. *)
acquireNetns(p) ==
  /\ phase = "serving"
  /\ step[p] = "idle"
  /\ nextSandboxID < MaxSandboxes
  /\ nextSandboxID' = nextSandboxID + 1
  /\ nc' = [nc EXCEPT ![p] = [NoConfig EXCEPT !.ns = SandboxName(nextSandboxID + 1)]]
  /\ Goto(p, "acquire")
  /\ UNCHANGED <<kernelVars, serverVars, nextSubnet, all, ch>>

AcquirePooled(p) ==
  /\ At(p, "acquire")
  /\ ch # <<>>
  /\ nc' = [nc EXCEPT ![p] = Head(ch)]
  /\ ch' = Tail(ch)
  /\ Goto(p, "held")
  /\ UNCHANGED <<kernelVars, serverVars, nextSandboxID, nextSubnet, all>>

(* Variant: the subnet is the counter before the increment. *)
AcquireOnDemandOldValue(p) ==
  /\ At(p, "acquire")
  /\ ch = <<>>
  /\ nextSubnet < MaxSubnet
  /\ nextSubnet' = nextSubnet + 1
  /\ nc' = [nc EXCEPT ![p].subnet = nextSubnet]
  /\ Goto(p, "name")
  /\ UNCHANGED <<kernelVars, serverVars, nextSandboxID, all, ch>>

(* Ten milliseconds without a slot, or no pool at all: build one. *)
AcquireOnDemand(p) ==
  /\ At(p, "acquire")
  /\ ch = <<>>
  /\ nextSubnet < MaxSubnet
  /\ nextSubnet' = nextSubnet + 1
  /\ nc' = [nc EXCEPT ![p].subnet = nextSubnet + 1]
  /\ Goto(p, "name")
  /\ UNCHANGED <<kernelVars, serverVars, nextSandboxID, all, ch>>

(* Variant: a pooled slot is returned and kept. *)
releaseNetnsKeeps(p) ==
  /\ At(p, "held")
  /\ nc[p].pooled
  /\ Len(ch) < PoolSize
  /\ ch' = Append(ch, nc[p])
  /\ UNCHANGED <<kernelVars, serverVars, nextSandboxID, nextSubnet, all, step, nc>>

(* A pooled slot goes back as it is (the send blocks while the channel is full),
   an on-demand one is taken apart. *)
releaseNetns(p) ==
  /\ At(p, "held")
  /\ \/ /\ nc[p].pooled
        /\ Len(ch) < PoolSize
        /\ ch' = Append(ch, nc[p])
        /\ UNCHANGED kernelVars
     \/ /\ ~nc[p].pooled
        /\ Cleanup(nc[p].ns, nc[p].subnet)
        /\ UNCHANGED ch
  /\ nc' = [nc EXCEPT ![p] = NoConfig]
  /\ Goto(p, "idle")
  /\ UNCHANGED <<serverVars, nextSandboxID, nextSubnet, all>>

(* A create by cold boot that fails late takes its slot apart, pooled or not. *)
DiscardNetns(p) ==
  /\ At(p, "held")
  /\ Cleanup(nc[p].ns, nc[p].subnet)
  /\ nc' = [nc EXCEPT ![p] = NoConfig]
  /\ Goto(p, "idle")
  /\ UNCHANGED <<poolVars, serverVars>>

(* The error of setup reaches the create that asked for the slot. *)
SetupFailed(p) ==
  /\ p # Main
  /\ \E l \in FailedSteps : At(p, l)
  /\ nc' = [nc EXCEPT ![p] = NoConfig]
  /\ Goto(p, "idle")
  /\ UNCHANGED <<kernelVars, poolVars, serverVars>>

-----------------------------------------------------------------------------
(* The life of the process.                                                  *)

(* The process is gone, with all it kept in memory; the kernel's names stay. *)
ProcessEnds ==
  /\ phase' = "down"
  /\ stray' = FALSE
  /\ nextSandboxID' = 0
  /\ nextSubnet' = 0
  /\ all' = {}
  /\ ch' = <<>>
  /\ step' = [p \in Goroutines |-> "idle"]
  /\ nc' = [p \in Goroutines |-> NoConfig]
  /\ UNCHANGED <<kernelVars, restarts>>

(* The error of setup reaches Init: log.Fatalf. *)
PoolInitFailed ==
  /\ \E l \in FailedSteps : At(Main, l)
  /\ ProcessEnds

(* Shutdown: netnsPool.Destroy cleans up every slot of p.all, held or not, each on
   the thread it meets. *)
PoolDestroy ==
  /\ phase = "serving"
  /\ phase' = "closing"
  /\ nss' = nss \ {c.ns : c \in all}
  /\ \E out \in SUBSET all, gone \in {Absent, Lost} :
       /\ stray \/ (out = {} /\ gone = Absent)
       /\ veth' = [s \in Subnets |-> IF \E c \in all \ out : c.subnet = s THEN Absent
                                    ELSE IF \E c \in all : c.ns = veth[s] THEN gone ELSE veth[s]]
  /\ UNCHANGED <<poolVars, restarts, stray, step, nc>>

(* The last thread or process in a namespace without a name is gone. *)
NamelessNsDies ==
  /\ \E s \in Subnets : veth[s] = Lost /\ veth' = [veth EXCEPT ![s] = Absent]
  /\ UNCHANGED <<nss, poolVars, serverVars, step, nc>>

(* A fault or SIGKILL at any time, or the end of main. *)
Crash == phase # "down" /\ ProcessEnds

(* A new process knows nothing of the old one but finds its kernel state. *)
Restart ==
  /\ phase = "down"
  /\ restarts < MaxRestarts
  /\ restarts' = restarts + 1
  /\ phase' = "init"
  /\ UNCHANGED <<kernelVars, poolVars, stray, step, nc>>

(* Nobody starts it again. *)
StaysDown == phase = "down" /\ UNCHANGED netVars

SetupStep(p) ==
  \/ SetupName(p) \/ SetupLink(p) \/ SetupMove(p) \/ SetupRange(p)
  \/ SetupDone(p) \/ SetupIOError(p)

WorkerStep(p) ==
  \/ acquireNetns(p) \/ AcquirePooled(p) \/ AcquireOnDemand(p)
  \/ releaseNetns(p) \/ DiscardNetns(p) \/ SetupStep(p) \/ SetupFailed(p)

NetNext ==
  \/ PoolInitSlot \/ SetupStep(Main) \/ Serve
  \/ \E p \in Workers : WorkerStep(p)
  \/ PoolInitFailed \/ PoolDestroy \/ NamelessNsDies \/ Crash \/ Restart \/ StaysDown

NetSpec == NetInit /\ [][NetNext]_netVars

-----------------------------------------------------------------------------
NetTypeOK ==
  /\ nss \subseteq Names
  /\ veth \in [Subnets -> Names \cup {Absent, Root, Lost}]
  /\ phase \in {"init", "serving", "closing", "down"}
  /\ restarts \in 0..MaxRestarts
  /\ stray \in BOOLEAN
  /\ nextSandboxID \in 0..MaxSandboxes
  /\ nextSubnet \in 0..MaxSubnet
  /\ all \subseteq Configs
  /\ ch \in Seq(Configs) /\ Len(ch) <= PoolSize
  /\ step \in [Goroutines -> Steps]
  /\ \A p \in Goroutines : step[p] \in SetupSteps \cup {"held"} => nc[p] \in Configs

(* The slots in use or ready for use, each at a place of its own. *)
Holders == {p \in Workers : step[p] = "held"}

(* A slot somebody holds, or may take from the pool, has its namespace, whatever
   failed and whatever an earlier life left; and as long as no thread was left
   outside the root namespace (netns.go:75-80, netns_util.go:21), its veth leads into
   exactly that namespace.  A set-up, a fallback or a cleanup of another goroutine
   never takes it apart. *)
HeldIsConfigured ==
  phase \in {"init", "serving"} =>
    /\ \A p \in Holders : nc[p].ns \in nss /\ (~stray => veth[nc[p].subnet] = nc[p].ns)
    /\ \A i \in 1..Len(ch) : ch[i].ns \in nss /\ (~stray => veth[ch[i].subnet] = ch[i].ns)

(* No two sandboxes share a namespace, and no slot is both held and in the pool; they
   do not share a subnet either, as long as no thread was left outside the root
   namespace: it is LinkAdd there that refuses a vethNNN in use. *)
SlotExclusive ==
  phase \in {"init", "serving"} =>
    /\ \A p, q \in Holders : p # q => nc[p].ns # nc[q].ns /\ (~stray => nc[p].subnet # nc[q].subnet)
    /\ \A p \in Holders, i \in 1..Len(ch) :
         nc[p].ns # ch[i].ns /\ (~stray => nc[p].subnet # ch[i].subnet)
    /\ \A i, j \in 1..Len(ch) : i # j => ch[i].ns # ch[j].ns

(* The send of Release never blocks: the channel has room for every slot out. *)
ReleaseNeverBlocks ==
  phase # "down" => \A p \in Holders : nc[p].pooled => Len(ch) < PoolSize

(* A veth of the root namespace has an owner: a setup past LinkAdd, a holder, or
   the pool.  Whatever call fails, setup leaves no veth behind, so a later sandbox
   is not refused its name, as long as no thread was left outside that namespace. *)
NoStrayVeth ==
  phase \in {"init", "serving"} /\ restarts = 0 /\ ~stray =>
    \A s \in Subnets : veth[s] # Absent =>
      \/ \E p \in Goroutines : step[p] \in {"move", "config", "held"} /\ nc[p].subnet = s
      \/ \E i \in 1..Len(ch) : ch[i].subnet = s

(* netns_alloc.go: "never hard-fail create just because the pool is exhausted".
   The setup a create falls back to is not refused because a name is taken. *)
FallbackFindsFreeNames == \A p \in Workers : step[p] # "failedExists"
==============================================================================
