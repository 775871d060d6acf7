# Verification of the manta server

manta is a single Go process that hands out Firecracker microVM sandboxes over
HTTP, and a small agent inside each guest that runs commands. This directory
holds TLA+ models of its control logic, TLC configurations that check them on
small instances, and TLAPS proofs of every safety property those configurations
check, for every value of the constants.

## Inventory

| Part | State | Operations | Interacts with |
|---|---|---|---|
| HTTP handlers and lifecycle (`handlers.go`, `sandbox_lifecycle.go`, `main.go`) | map `s.sandboxes` under `s.mu`; per sandbox `state`, `inFlightExec` under `lifecycleMu`; id counters | create, exec (agent or ssh), destroy, shutdown (`Shutdown`, `destroyAll`) | everything below, by calls; handlers run concurrently |
| Sandbox create and teardown (`sandbox.go`, `restore.go`, `procutil.go`) | directory, Firecracker process, slot, cgroup | cold boot, snapshot restore, `cleanupSandbox` | network slots, cgroups, agent, Firecracker |
| cgroups (`cgroup.go`) | directories under `CgroupRoot` with the VMs in them, which outlive the server | make, attach, kill, remove, scavenge | create, teardown, preflight |
| Network slots (`netns.go`, `netns_pool.go`, `netns_alloc.go`) | kernel names (namespaces, veths), pool channel, `nextSubnet` | pool init/destroy, acquire, release, on-demand setup | kernel state outlives the process |
| Agent RPC (`agent.go`, `agentrpc.go`, `cmd/agent/main.go`) | cached connection `sb.Agent` under `agentMu`; one goroutine per connection in the guest | dial, call with deadline, one retry; read, run, reply | lifecycle and snapshots, which close the connection |
| Agent in the guest (`cmd/agent/main.go`) | pipes, process group, three goroutines per exec; the guest's interface | run, time out, kill; set the network | agent RPC |
| User snapshots (`user_snapshot.go`, `firecracker_api.go`) | files under `user-snapshots/`, `nextSnapshotID`, VM paused or not | create, restore, list, delete | create, lifecycle, agent RPC, Firecracker |
| Golden snapshot (`snapshot.go`) | files under `snapshot/`, the namespace `manta-snapshot`, the golden VM | `ensureSnapshot` at start and in every create | preflight, create |
| Start-up and helpers (`config.go`, `preflight.go`, `iptables.go`, `vm_config.go`, `http_util.go`, ...) | the lineage (hash) of the rootfs | load, check, scavenge, `ensureSnapshot` | cgroups, golden snapshot |

What is hard here: handlers race with each other, with `destroyAll` and with
VMs that die; `agentMu` is held across remote calls; timeouts give up on
work that goes on; every create has many stages that may fail, each of which
must undo the earlier ones; kernel names, VMs, cgroups and snapshot files
survive a crash while the counters do not; the command of an exec, its
children, its pipes and its timeout all end in any order. `PROJECT.json` lists
each hazard at its line.

What makes each part correct: one owner per sandbox and none lost; the exec
gate and the drain agree; slots are whole, exclusive and conserved; failed
creates leave nothing, and a VM that a crash leaves in a cgroup can be reached
through it by every later start; an exec is answered with its own output, and nothing of it stays behind; a listed
snapshot is whole and restores to one moment of the guest; what a create
restores from the golden snapshot is one build of the right rootfs.

## Modules

| Module | Models | Uses |
|---|---|---|
| `SandboxAPI` | abstract: what the API promises of a sandbox | |
| `SandboxLifecycle` | handlers, lifecycle gate, teardown, shutdown | instantiates `SandboxAPI` |
| `SandboxLifecycleProofs` | invariants of it | `SandboxLifecycle` |
| `SandboxAPIProofs` | it implements `SandboxAPI` | `SandboxLifecycleProofs` |
| `HostNetns` | network slots, the pool, crash and restart | |
| `SandboxCreate` | create by cold boot or restore, its undoing, teardown, cgroups, crash and restart | extends `HostNetns` |
| `AgentChannel` | exec RPC, retry, cached connection, guest goroutines | |
| `SnapshotStream` | a user snapshot beside the execs of its sandbox | extends `AgentChannel` |
| `GuestAgent` | `configureNetwork` and `runExec` in the guest | |
| `UserSnapshots` | snapshot create, restore, delete, restarts | |
| `GoldenSnapshot` | `ensureSnapshot`, the golden VM, crashes, reboots | |
| `HostNetnsProofs` | invariants of it | `HostNetns` |
| `SandboxCreateProofs` | invariants of it | `SandboxCreate`, `HostNetnsProofs` |
| `SnapshotStreamProofs` | invariants of the exec RPC with and without a snapshot; the composition implements the RPC | `SnapshotStream` |
| `GuestAgentProofs`, `UserSnapshotsProofs`, `GoldenSnapshotProofs` | invariants of the module of that name | that module |
| `MC...` | the module of that name for TLC, with symmetry where it is used | |

Definitions named `Variant: ...` in a comment are deliberately wrong forms of
the action that follows them. They show that each property can fail: replacing
the action by its variant makes TLC report the property (`PROJECT.json`,
`mutants`).

**SandboxLifecycle.** A process is a handler goroutine or main; `pc` says where
it is and `cur` on which sandbox. A critical section of `s.mu` or `lifecycleMu`
is one step, because nothing blocks inside one. `agentMu` is held over
several steps, so it is a variable. `drained`, `releases` and `graceful` record
what `waitForExecDrain`, `releaseNetns` and `Shutdown` did. `transport` is
`cfg.ExecTransport`; an ssh exec dials and then runs its command, holding no
lock. An exec that took `agentMu` writes its answer (`agentReply`) before the
deferred unlock, and every exec is counted until its answer is written. Requests for unknown ids change nothing and are left
out. A create is one step that fails or yields a sandbox, since it touches no
shared state before it publishes; its inside is `SandboxCreate`.
`netnsPool.Destroy`, which main calls before `destroyAll`, is `PoolDestroy` of
`HostNetns`.

**SandboxAPI and the refinement.** A sandbox is absent, live, closing or gone;
clients are inside it or not; its slot has been given back or not; the server is
up or not. The mapping reads `box` off `state`, `inside` off the handlers between
the gate and `finishExec`, `freed` off `releases`, and `up` off main. So the map,
the locks, the drain and the goroutines are hidden, and what is left is the
contract: execs enter live sandboxes only, a close is final, the slot goes back
exactly once, between the close and the end.

**HostNetns.** `nss` and `veth` are the kernel's names: a veth is absent, has
its peer still in the root namespace (where it is called `veth0` for all), or
leads into a namespace, which may have lost its name (`Lost`). Setup is four steps (name, link, move, configure) with an
error exit at each that leaves what the code leaves. Addresses, routes and the
tap are one step. The move of a veth that `PoolDestroy` has just removed under a
setup fails as any netlink call may (`SetupIOError`). A crash erases the Go state
only.

Network namespaces belong to OS threads. `netns.NewNamed` moves the thread before
it finds the name taken, the error path (`netns.go:75-80`) does not go back, and
`withNetns` does not look whether its way back worked (`netns_util.go:22`). The
thread then returns to Go's scheduler, and any later netlink handle may be opened
on it. `stray` says that there is such a thread in the process. While it holds, a
`LinkAdd` may work in that thread's namespace instead of the root one (step
`away`: the slot is served without a veth in the root namespace, and no name
there was asked for), a cleanup may not find the veth it is to delete, and a
namespace may outlive its name. The end of the process is the end of it.

**SandboxCreate.** The disk clone runs beside `acquireNetns`; both are joined;
then come the cgroup, the start of Firecracker and the waits of the boot. Each
request has a `kind`: `/create` boots cold or restores the golden snapshot, as
configured, and `/snapshot/restore` restores a user's. Their failures differ: a
restore releases its slot, a late cold-boot failure takes it apart; and only a
golden restore may keep its directory. A VM is a record in `vms` with the life of
the server that started it. A crash leaves `vms`, `dirs`, `cgDirs` and the
kernel's names. The next start scavenges the cgroups, and each step of that may
fail and is then passed over, as in the code: the root cannot be read and nothing
is done, `cgroup.kill` of a directory is not written, the processes are not gone
in time, the directory stays. A create whose directory is left over goes on
without a cgroup, since `Mkdir` refuses.

**AgentChannel and SnapshotStream.** A frame is named by the exec it belongs to,
which the code cannot see: it takes the first frame for its answer. Timeouts may
come at any time before an answer. The guest may be slow, silent, refuse, close,
die, or fail to send an answer that is too large. A snapshot takes `agentMu`,
closes the connection, releases it, pauses the VM, captures its memory and
resumes it; `captured` are the connections whose guest end is in that memory.

**GuestAgent.** The host sets the network, then sends one exec. The command
writes units of output into two pipes of limited size, may start a background
process in or out of its group, and may never end. The two readers, the
goroutine in `Wait` and the timer are steps of their own; `Wait` reaps and then
closes the read ends, as `os/exec` does. `owed` remembers what had been written
when the command ended.

**UserSnapshots.** Guest memory and disk are one version number that grows while
the VM runs; a file holds the version it was copied from, so a torn snapshot is
one whose versions differ. `disturbed` marks snapshots the code does not
protect: made beside another snapshot of the same VM, or under an id that an
earlier life of the server had used.

**GoldenSnapshot.** A file is named by its build and by how often the golden
guest had written to its disk, so that mixed and torn snapshots are visible.
`RemoveAll` takes the entries one by one in any order. A crash leaves the golden
VM and the namespace, a reboot only the files. Between two starts the rootfs may
be another one. `resetCut` and `left` remember that a removal stopped half way
and that a namespace was left behind.

## Runs

| Run | Instance | Shows |
|---|---|---|
| `lifecycle` | 3 requests, 1 sandbox, both transports | ownership, no loss, single release, exact exec count, quiet after drain, graceful exit; implements `SandboxAPI`; only a client that does not read, or an ssh server, can keep an exec, a destroy or the shutdown from ending |
| `netns_safety` | 2 creates at once, pool of 1, octet limit 2, 3 veth names, 1 restart | slots keep their namespace to themselves, and their veth and subnet while no thread is astray; release never blocks; no stray veth |
| `netns_fallback` (violation) | same, no restart | the on-demand fallback asks for a veth name of the pool |
| `create` | 2 workers, pool of 1, 2 sandboxes per life, 1 restart, cold boots beside user restores | failures and teardowns leave nothing, no slot is forgotten, every VM in a free slot was sent SIGKILL, a VM in a cgroup stays reachable through it and alone in it |
| `stream` | 2 execs, up to 5 connections, one snapshot | at most two starts, no stale first answer; execs are answered unless a client never reads |
| `stream_captured` (violation) | 1 exec, one snapshot | an exec dials again between the unlock and the pause, and its stream is captured |
| `channel_stale` (violation) | 2 execs | after a failed retry the next exec reads the late answer |
| `snapshot_safety` | 2 requests at once, 3 in all, 2 snapshots, 2 sandboxes, 2 rootfs images, 1 restart | listed snapshots whole, restores of one moment and of the right rootfs, paused VMs have a resumer |
| `snapshot_kept` (violation) | same | the first snapshot after a restart destroys the stored `us-1` |
| `golden` | see `Golden.cfg` | what is restored is whole and of the right rootfs, what is served is immutable, only a leftover refuses a build, a start ends |
| `agent_exec` | 1 background process, pipes of 2, limit of 2, up to 5 writes to a stream | the guest has its own address only; an answered exec leaves nothing; a timeout kills the group; the exit code is true; every exec ends |
| `exec_output` (violation) | pipes of 1, up to 4 writes to a stream, otherwise the same | output of a command that ended well is lost |

**Bounds.** In `lifecycle` three requests let an exec, a destroy and a create or a
second exec meet on one sandbox; that one goroutine's mistake cannot hit another's
sandbox is part of the theorems, which hold for any number of both.
A pool of one slot makes both the pool and its exhaustion happen with two
workers; the octet limit is two so that the fallback runs past it. Two creates in
each life let a slot be used, returned, and used again, or held beside a
fallback. Two execs suffice for one to read the other's answer; each dials at
most twice, which bounds connections without a further limit. One restart gives
two lives. The golden snapshot has a start more, so that a rootfs can be replaced
and put back. More writes than pipe and limit hold let the command block.
In `create` there are two veth names, since a subnet past the octet limit is a
matter of `netns_safety`. `snapshot_safety` with four requests in all (14 million
states) showed no error and takes too long to keep.

**Fairness.** Dials and calls to the agent, the drain and the wait for a killed
process have deadlines, so a request that waits for one of these goes on: weak
fairness of those steps (`ServerStep`, `MainStep`, `ExecStep`). `sync.Mutex` hands
itself to a waiter that has starved for a millisecond, so a waiter that finds
`agentMu` free over and over gets it: strong fairness of taking the lock.

Two waits have no deadline and get no fairness (`PeerStep`, `WriteReply`). The
first is the response: `http.Server` sets only `ReadHeaderTimeout`
(`main.go:61-65`), and `handleExec` writes while it is counted and, over the
agent transport, while it holds `agentMu` (`handlers.go:126`, `:178`). So one
client that never reads keeps the execs, the destroy and the shutdown behind that
`agentMu` waiting. The second is ssh: neither the handshake
(`sshutil.go:74`) nor `NewSession` (`handlers.go:102`) and `Start`
(`sshutil.go:85`) has one. The liveness properties say exactly that these are the
only ways to wait for ever: `OnlyPeersHoldUp`, `ShutdownCompletes` and
`ExecAnswered` conclude that the thing ends or that from some point on such an
answer stays unread (`[]AnswerUnread`, `[]HeldUp`, `[]Unread`).

In `golden` every call of the build returns or has a deadline:
weak fairness of the preflight. In `agent_exec` the agent's goroutines run and
its timer fires. Clients, signals, VMs, the guest and the command owe nothing.

**Findings.** The five violation runs show disagreements between the code and its
comments or documents; `PROJECT.json` quotes both sides. More were seen
while modelling and have no run of their own:

- a cold boot that fails after its start removes a pooled slot for good
  (`sandbox.go:104`), which `PoolConserved` allows explicitly;
- a crash between `LinkAdd` and `LinkSetNsFd` of the second or a later pool slot
  makes the next start fail, because `veth0` is taken while the first slot is set
  up (`netns_pool.go:39`);
- the retry of an exec after a timeout, or after an answer that was too large to
  send, runs the command again (`handlers.go:150`);
- a crash during a golden build leaves the namespace `manta-snapshot`, which
  nothing removes: every later start that must build gives up until it is deleted
  by hand or the host reboots (`snapshot.go:79`; `RefusedOnlyIfLeft` says that
  nothing else does);
- a removal of the golden snapshot that was cut short, followed by a start with
  the old rootfs, can accept files of two builds: `UsedIsWhole` excuses that case
  (`resetCut`) and fails without the excuse (`snapshot.go:276`);
- a slot is released after its VM was sent SIGKILL, not after the VM is gone:
  the failure paths of a restore do not wait (`restore.go:132`) and a teardown
  gives up after five seconds, while the comment at `netns_pool.go:83` says that
  the caller ensures the VM is gone. `FreeSlotVMsKilled` states what does hold;
- a client that does not read the response of its exec holds up the destroy of
  that sandbox and the shutdown (`handlers.go:178`, see Fairness);
- after a set-up whose namespace name was taken, links can be made outside the
  root namespace and subnets given out twice (`netns.go:75-80`, see HostNetns);
- a VM of a restore that has not reached its cgroup when the server crashes runs
  on, known to nobody (`restore.go:139`).

## Proofs

Every invariant and every action property of the passing runs is a theorem of its
specification, for every value of the constants that satisfies the named
assumptions. Each rests on an inductive invariant that TLC checked first on the
instance of its run; the proof has one step per action.

`SandboxLifecycleProofs` proves, for every finite set of handlers, every number
of sandboxes and both transports (`LifecycleAssumption`), that `Spec` implies
`[]TypeOK`, `[]SingleOwner`, `[]NoneLost`, `[]ReleasedOnce`,
`[]GracefulExitLeavesNothing`, `[]InFlightExact`, `[]DrainedStaysQuiet` and
`[]DrainedClosesAgent`. There are three inductive invariants, each resting on the
one before:

1. `TypeInv`: types, and that a process is on a sandbox exactly where its `pc`
   says so. Needed so that `cur[p]` is an index wherever it is used.
2. `OwnInv`: `SingleOwner` and `NoneLost` are not inductive alone. Added are what
   each stage of a create or a teardown says of its sandbox's `state`, `netns`,
   `releases` and VM (`StageOK`); that a sandbox in the map or on `destroyAll`'s
   list is Running and intact (`KeptOK`); that ids not handed out are fresh and
   Closed sandboxes are gone (`EndsOK`); and that main's list is in use only
   while `destroyAll` runs, and no handler is left after a graceful `Shutdown`
   (`MainOK`). `ReleasedOnce` and the graceful exit follow.
3. `ExecInv`: the count equals the number of handlers inside the gate (cardinality
   of a set that gains or loses one element), and what a successful drain implies:
   the state is not Running, nobody is inside, and the agent connection is
   closed once the teardown is past its close.

`SandboxAPIProofs` proves `Spec => ImplementsAPI`, the safety part of the
refinement, for every value of the constants. It has one step per action: most
actions leave the four mapped variables alone and are stutters; `CreateReady`,
`tryStartExec`, `finishExec`, `beginDestroy`, `ReleaseNetns`, `finishDestroy`
and `MainReturns` are the seven abstract actions. `TypeInv` and `OwnInv` supply
what those need: the sandbox of a create is fresh, the netns of a sandbox being
released is held and was not released before, and a finished teardown has
released it.

`HostNetnsProofs` (`NetInv`). Exclusive use is not inductive: it needs where a
config came from. `SlotInv` says that the pool is a set of numbered slots, each at
most once in the channel or with one holder, so that channel and holders together
never exceed it (`ChannelRoom`, by an injection into `all`): a release has room.
`DemandInv` ties an on-demand config to the id of its own create. So all names are
distinct (`DistinctNames`); `KernelInv` says that the kernel has the namespace of each
config, and, while no thread is astray, that its veth leads into it (`VethInv`). A veth
that leads into a name of its own cannot be another's (`OwnVeth`): this is why subnets
are exclusive although the on-demand counter starts over at the numbers of the pool.
Every cleanup leaves the others alone (`TakenApart`). A thread astray stays so until
the process ends (`StrayStays`), so the part under `~stray` only has to be kept by
steps in the root namespace; names need no such condition, since `/var/run/netns` is
the same for all threads.

`SandboxCreateProofs` (`CreateInv`). A step of a create or a teardown is a step of
`HostNetns`, leaves the slots alone, or uses up an id (`CreateIsNet`), so `NetInv`
carries over. Added are `WorkInv` (a worker has its sandbox to itself, and a slot from
the end of the preparation on), `VMInv` (a VM nobody has killed has a worker at a
place from which every way out kills it, in the slot that worker holds), `DirInv`,
`FillInv` (a pool being filled is all in the channel), `UniqueInv` (one process for
each id of each life) and `CgInv`: a VM in a cgroup has its directory and nobody
beside it, and a worker that made a directory has it to itself until its own VM
attaches. It is kept because a directory goes away only when it is empty and because
`Mkdir` refuses one that is left over. That free slots hold only killed VMs follows
from the distinct names.

`SnapshotStreamProofs` (`IInv`, `StreamInv`) proves first that the channel alone has
its invariant, then that a step of the composition is one of the channel or a
stutter, so `StreamSpec => Spec` (`StreamImplementsChannel`). `RunsInv` counts for
each exec the starts behind it, the frames under way that can still start it and the
sends it has left; the sum never grows and begins at two. `CountInv` counts dials the
same way, so the connections suffice. `CallInv` says that until a retry is lost the
cached connection carries the call of the holder of `agentMu` or nothing.

`GuestAgentProofs` (`IInv`): the stages of `configureNetwork`; that command, `Wait`
goroutine and read ends go together; that a timeout has killed the group while nobody
is left to fork into it; that an answer with ok comes after the wait and both readers.

`UserSnapshotsProofs` (`IInv`): ids of one life are distinct and overlapping creates
of one sandbox are known (`IdInv`); the source of an undisturbed create does not run
after the confirmed pause (`VMInv`), so whatever its files or a clone of them hold is
one moment (`ContentInv`, `CaptureInv`); the metadata come last (`WriterInv`) and name
the rootfs of that guest (`LineageInv`). `RestoreConsistent` is proved for
`EnableSnapshots`: without a lineage the code has nothing to compare.

`GoldenSnapshotProofs` (`IInv`): only the preflight builds (`PhaseInv`), the namespace
is the build's or left behind (`NsInv`), how far each file is at each stage
(`BuildInv`), and, unless a removal was cut short, what the metadata says is so and
no golden VM runs over files it describes (`MetaInv`). The action property
`ServedIsImmutable` follows from the same invariant. The proof needs that a lineage is
not the value `None` that stands for no metadata (`GoldenAssumption`).

Only model-checked are the temporal properties (`OnlyPeersHoldUp`, `ShutdownCompletes`,
`ExecAnswered`, `StartEnds`, `ExecEnds`), since the provers do not handle fairness, and
the counterexamples of the violation runs.

## Not modelled

- The root route of a slot's subnet, and which of the other namespaces a thread
  that is astray is in: any step that may run on it may or may not.
- A deferred deletion of a veth that fails (`netns.go:112`, `snapshot.go:84`); its
  error is discarded there.
- The framing of messages (length prefix), JSON, HTTP parsing and request
  validation, which change no state. A message over the limit is a failed write.
- The SSH protocol behind dial and run.
- Parsing of the environment, the checks that files exist, the NAT rule, which is
  added once if missing, diagnostics, the VM configuration file.
- The content of sandbox directories: that a new `sb-1` overwrites the disk of a
  VM of an earlier life that was not scavenged is listed as a hazard.
- Benchmarks and scripts, which are clients of the API.

## Plan

Done: lifecycle with its proofs, the abstract API with its refinement proved,
network slots, create with cgroups and crashes, agent channel with snapshots,
the agent in the guest, user snapshots, golden snapshot.

The safety properties of all runs are proved. Left, in this order:

1. What the violation runs refute, proved under the condition that excludes the
   disagreement: `FallbackFindsFreeNames` while the on-demand counter is past the
   pool, `NoActiveStream` when no exec dials between the unlock and the pause.
2. Action properties of slots and snapshots from the invariants at hand: a listed
   snapshot changes only by a delete, a held slot only by its holder.
