# systemd-inferenced in TLA+

A model of the `inferenced` daemon: the arbiter that leases the memory of a
machine's compute planes (NPUs, GPUs, CPU matrix units) to clients, the parts
around it that hold, preempt, account for and reclaim those leases, the daemon's
life under systemd, and the command line that talks to it. Modules are translated
from the Rust sources under `crates/`. TLC checks them on small instances, and
TLAPS proves every invariant and every action property of those runs for all
instances; what is left to TLC alone is liveness.

`PROJECT.json` holds the machine-readable side: which lines each definition
stands for, the runs, the mutations that show each property can fail, the
findings, and the hazards the properties are aimed at.

## 1. Inventory

| component | state | operations | hard behaviour | what makes it correct |
|---|---|---|---|---|
| **Arbiter** `core/arbiter.rs`, `lease.rs` | topology (memory available per plane), map of leases | acquire (with preemption), release, revoke, yield, freeze, thaw, update_topology | planes vanish under leases; preempted leases come back; double release; trimming at 128; clipped and wrapping arithmetic; HashMap order | memory is neither lost nor handed out twice; a lease that is over stays over; preemption goes downwards; emergencies are served |
| **Topology, discovery** `core/topology/*` | none: a function of sysfs, /proc and the crash logs | discover, assign_triage_enclave, quarantine | read_dir order; hardware that comes, goes and hangs | there is a healthy plane for emergencies, and GPU faults leave it alone |
| **Preemption coordinator, freezer** `core/preempt.rs`, `freezer.rs` | preemption records, kernel freezer and stopped processes | preempt_lease, thaw_lease, revoke_lease | a call awaits locks and a timer while others change its lease; deadline against late yield | calls return; a record is left open only for a reason |
| **Sessions**: `daemon/varlink/*`, `sentry/mod.rs`, `gateway/*` | each connection's list of leases; each handler's lease | acquire, release, thaw; connection ends; handler dropped | disconnects and cancellation at any await; clients acting on each other's leases | no lease without an owner; a dead client's leases are reclaimed |
| **FD handoff, quota** `daemon/fd_server.rs`, `fd_quota.rs`, `core/fd_lease.rs` | one atomic counter; per connection its reservation and memfd | try_reserve, release, create, seal, send | compare-exchange loops interleave; early returns | the counter is the sum of the reservations and under the ceiling; requests end |
| **Model registry** `core/model.rs`, `daemon/varlink/models.rs` | map of models with pin and registration time | register (evicting), remove, pin, get | capacity with pinned models; re-registration | pinned models are spared; growth past capacity is due to pins |
| **Sleep inhibitor** `daemon/inhibit.rs`, monitor in `main.rs` | counter, handle, flag; a child process | poll, acquire, fall back, release | sampled counts; three means that may fail; child that dies; a daemon that dies | lock follows the leases |
| **Daemon life** `daemon/main.rs`, `notify.rs`, `gateway/mod.rs` | place of main, its server tasks, what systemd knows | adopt, bind, notify, ping, drain, end | crashes, lost pings, a lock never given back, restarts | READY means served; the watchdog ends only what deserves it; service returns |
| **Socket activation** `daemon/activation.rs` | none | sort descriptors into slots | names against positions, duplicates | each socket in its slot |
| **Varlink protocol** `daemon/varlink/{mod,service,protocol,inferenced1}.rs` | the connection's reader | frame, dispatch, describe, reply, stream | messages past the limit, listeners that give up | described methods are served; one reply per call |
| **inferenctl** `inferenctl/*` | a connection and what it has read | the commands, call by call, with their fallbacks | replies in pieces, a daemon that dies or is missing | answers belong to their questions; success is true; commands end |
| **Hotplug** `core/netlink.rs`, `main.rs` | netlink socket | parse and filter uevents, wait, discover, update | events that are lost or dropped; a machine that changes while the loop sleeps and waits | the arbiter's planes are the devices there are (they are not: section 4) |
| **PSI** `core/psi.rs` | none | read, parse, level | stale readings | an input of acquire |
| **Peer attribution** `core/peer.rs` | none | slice and batch flag of a cgroup path | | priority of a request (planned) |
| **Credentials, paging** | none of their own | I/O | | not modelled, see section 7 |

Interactions. Everybody shares one `Arbiter` (an `RwLock` around its state): the
Varlink connections, the sentry server and the gateway call acquire, release and
thaw; the uevent loop of `main.rs` would call `refresh_topology` (section 4: it never gets there); the inhibitor's
monitor reads the number of active leases every 250 ms; the preemption
coordinator calls yield, freeze, thaw and revoke; the watchdog task takes the read
lock before it pings. The FD server and the model registry keep state of their own
and touch no lease. `inferenctl` opens one Varlink connection per command.

## 2. Modules

    Topology <- Arbiter <- ArbiterBooks            LeaseLifecycle
                        <- ArbiterClaims              ^ implemented by Arbiter
                        <- PreemptCoordinator         ^ extended by Sessions
                        <- Discovery <- Hotplug       ^ extended by Inhibitor
                                                    Activation + Inhibitor
    FdServer                                          <- Daemon
    ModelRegistry + VarlinkService <- Inferenctl

    SumLemmas <- ArbiterProofs (of ArbiterBooks) <- DiscoveryProofs, PreemptProofs
              <- FdServerProofs, InferenctlProofs, DaemonProofs     SessionsProofs

| module | models | state and actions |
|---|---|---|
| `Topology` | `topology/*.rs` | no state. A *host* is what the kernel shows (RAM, NPU and render nodes with vendor and VRAM, read_dir order, drivers in the crash logs); `Discover(h)` is the topology the code makes of it: plane kinds, sizes, the enclave and its partition, quarantine |
| `Arbiter` | `arbiter.rs`, `lease.rs` | `topology`, `leases` as in `ArbiterState`; `issued` the UUIDs drawn; `frozen` the kernel's cgroup.freeze files. One action per operation and outcome: `AcquireRejected`, `AcquireExhausted`, `AcquireGranted`, `ReleaseLease`, `RevokeLease`, `YieldLease`, `FreezeLease`, `ThawPreempted`, `ThawSuspended`, `UpdateTopology` |
| `LeaseLifecycle` | the promise of the arbiter | `status` of each id: unissued, held, parked, over. The abstract specification that `Arbiter` implements and that `Sessions` and `Inhibitor` are built on |
| `ArbiterBooks` | the arbiter with an auditor | adds what discovery last offered on each plane, and on which planes a lease was forced in beyond what there was (`overdrawn`) or a credit wrapped (`wrapped`) since |
| `ArbiterClaims` | a statement of the documents | what `claim_thaw` refutes |
| `Discovery` | `refresh_topology`, the start of `main.rs` | `host`, the machine that the arbiter's topology was made from; a refresh, and a new start of the daemon |
| `Hotplug` | `netlink.rs`, the uevent loop of `main.rs` | `machine` the hardware as it is, `queue` the socket's buffer, `loop` (receiving, settling, updating), `seen` what discovery found while the lock is awaited, `missed`: whether an event found the buffer full. `AddressFamily` is that of the socket and `RecvFrom` what a `UdpSocket` makes of it |
| `PreemptCoordinator` | `preempt.rs`, `freezer.rs` | `call` the program counter and snapshot of each call, `records`, `stopped`; one action per stretch between two awaits, interleaved with all of `Arbiter!Next` |
| `Sessions` | Varlink connections, sentry, gateway | `conn`, `mine` (active_leases), `duty` (a handler's lease), `holder` (history) |
| `FdServer` | `fd_server.rs`, `fd_quota.rs` | the quota counter; per connection its place, the value it loaded, its request and its memfd. Each atomic load, exchange and subtraction is an action |
| `ModelRegistry` | `model.rs` | the map of descriptors (placement, registration stamp), the clock, and the most pins there ever were |
| `VarlinkService` | `varlink/{service,protocol,inferenced1,leases,models}.rs` | no state: the interfaces and methods that are described, the handler a request reaches, the replies a handler may send and the pieces they are read in |
| `Inferenctl` | `inferenctl/*`, `varlink/mod.rs` | `ctl` the command (its calls, where it is, what it took for answers and printed), `server` the task of its connection, `requests` and `replies` on the wire, `listener`; the daemon dies and returns, other clients use the registry in between |
| `Activation` | `activation.rs` | no state: `CheckAndAdoptSockets` as a fold over the descriptors, and `Intended`, what each slot should hold, as its reference |
| `Daemon` | `main.rs`, `notify.rs`, and systemd as the units ask for it (external) | `main` the place of main(), `sockets`, `tasks` the four servers, `known`, `age`, `due`, `lost` for READY and the pings, `stuck`, `result`; composed with `Inhibitor` |
| `Inhibitor` | `inhibit.rs` and its monitor | `monitor` place, `prev`, `todo`, `count`, `handle`, `inhibited`, `child`; `steady`, the means of locking that work on this host |
| `MC*` | | constants of the TLC instances |
| `SumLemmas` | | lemmas on sums over finite sets, least elements and induction |
| `*Proofs` | | lemmas and theorems about the module each is named after |

Every arbiter operation holds the write lock for its whole body, so each is one
action; the two reads made before the lock is taken (PSI level, discovery) are
inputs unrelated to the state, so all results hold however stale they are. An
early return that changes nothing is a guard. HashMap and read_dir order are
nondeterministic: `Victims` is the set of all victim sets the preemption loop may
end with, and `rank` is the position in the list discovery builds.

Bytes, names and messages are small numbers and model values. The byte counts
keep their width: sums that the release build wraps are taken modulo `Word`. What
is sent to systemd, clients or logs is left out unless a property is about it.

The preemption loop credits victim by victim and `RestoreVictims` credits their sum
at once. This is the same: a victim was not an emergency, so it fitted its plane
when it was granted or thawed, and no partial sum comes near 2^64; clipping at
the total commutes with further additions.

## 3. Runs that pass

| run | instance | shows |
|---|---|---|
| `arbiter` | an NPU of 2, an integrated GPU and a CPU with 4 units of RAM, and the same machine with only its CPU and 3 units available; three leases of 1 or 2 units, all priorities; trimming above 1 lease; 182 k states | `TypeOK`; `EmergencyIsServed`; `PreemptionIsOrderly`; `ImplementsLifecycle` |
| `books` | that machine without its NPU, so that all memory is RAM shared by the CPU plane and the integrated GPU; requests of 2 and of 15 in words modulo 16, so that an emergency's release may wrap; 34 k states | `NothingLeaks` and `BooksBalance`: the number the code keeps and the leases' memory add up to what discovery found, at least where no credit wrapped and, where no plane was overdrawn, exactly |
| `discovery` | an accel NPU and a Hailo, present or not, a GPU that is absent, NVIDIA, AMD or integrated, plenty of memory or little, and hangs of either driver in the crash logs: 128 machines, any of them at any refresh or start; 128 states | `EmergencyIsServed`, `EnclaveSurvivesGpus` |
| `fd_server` | three connections; sizes 0 to 5 around a per-request limit and a ceiling of 4; words modulo 16; 185 k states | `TypeOK` (the counter never passes the ceiling), `QuotaIsExact`, `RequestEnds` |
| `inferenctl` | every command, `varlinkctl` included; two models, capacity 1; messages of at most 10 units, prompts that fit, just fit and do not fit; lists that may be longer than the limit; with and without socket activation; a daemon that may die within a write; 284 k states | `CtlTypeOK`, `AnswersMatch`, `DescribedIsServed`, `OneAnswer`, `ReportedIsDone`, `GrowthIsPinned`, `PinsAreKept`, `CommandsEnd` |
| `preempt_overlap` | two calls on one lease; records trimmed at once; 25.7 k states | `CoordTypeOK`, `IncompleteIsExplained`, `CallsReturn` |
| `preempt_pruned` | one call, two leases, leases and records trimmed at once; 147 k states | `IncompleteIsExplained`, `CallsReturn` |
| `sessions` | two Varlink connections, a sentry, a streaming and a plain HTTP handler; three leases; 189 k states | `LiveIsOwned`, `DeadClientIsReclaimed` |
| `daemon` | the shipped socket units in all orders, every list of up to three descriptors of five kinds, both units together; two leases; two faults among crash, failed bind, dead listener, lost ping, lost READY and a stuck lock; 158 k states | `SlotsMatchNames`, `ReadyIsServed`, `LockFollowsLeases`, `WatchdogIsPatient`, `ServiceReturns`, `SleepIsInhibited`, `SleepIsAllowed` |

Why the bounds are enough. The limits of the code (128 leases, 128 records, 256
models, the quota ceiling) are parameters, set so low that the instance goes past
them. Three leases on one plane are what an orderly preemption can go wrong with:
a requester, a victim and one that should have been taken instead; with a plane
of 2 and sizes 1 and 2, requests fit, fit after one or two victims, or not at
all. Two machines differ in planes and in memory, so a refresh takes planes away,
brings them back and changes what is offered. Lease ids are never reused, so each
run ends when they are drawn; deadlock is therefore not checked in those runs.
Three connections are needed for a compare-exchange to fail twice. Two faults are
what it takes to lose two pings in a row, or to crash a daemon that another fault
has already hurt; after them the liveness properties say that everything heals.
One command at a time is enough for `inferenctl`, since each has a connection of
its own and meets the others only in the registry, which `Others` changes at will;
capacity 1 makes the second registration evict or, past a pin, grow. The machines of
`discovery` have one GPU and one order of devices, and its proofs have any. Symmetry is
used on lease ids (`arbiter`, `books`) and on connections (`claim_open`), in runs
without liveness properties.

Fairness, assumed only where a property is about progress:

- `FdServer`: each connection is a task the runtime polls, so its next step is
  taken; a retry loop is fair as a whole. Clients may stop sending whenever they
  are asked for a request.
- `PreemptCoordinator`: the steps of a call. tokio polls ready tasks and hands
  its locks out in order; the timer of 250 ms fires. Nothing is assumed of the
  client that is asked to yield.
- `Sessions`: a connection that has ended goes through its list, and a handler
  that holds a lease finishes (its client reads the answer or hangs up).
- `Inferenctl`: the command and the connection's task run on, and systemd starts
  a daemon that ended. Accepting is strongly fair: it is disabled whenever the
  daemon is down, and a daemon that is restarted again and again gets to it at last.
- `Daemon`: main, the monitor and the watchdog task run on unless the lock is stuck,
  time passes (`Tick10`), and systemd does what the units ask for. The inhibitor's
  commands and sockets answer or fail. Clients, faults and signals owe nothing.

## 4. Disagreements between the code and its documents

Three runs check one statement of a document or a comment each, and TLC answers
with a run of the code against it. The quotations are in `PROJECT.json`.

| run | statement | what the code does |
|---|---|---|
| `claim_thaw` | `docs/VARLINK_SPEC.md:160`: Thaw resumes the workload | a client whose cgroup was frozen by a preemption gets its memory back and stays frozen |
| `claim_open` | `fd_server.rs:139`, `fd_quota.rs:3`: the quota bounds the memfds in flight | the reservation ends before the handle is closed, so more is open than the ceiling |
| `claim_hotplug` | `main.rs:151`: a listener for hardware hotplug and driver resets | the netlink socket is read as a `UdpSocket`, whose `recv_from` turns every uevent into an error; the loop ignores it and never refreshes the topology |

Others were met while translating. The model contains each of them, at the
definition named, but they show in a step or two and have no run of their own:

- `TargetPlane` (arbiter.rs:80): a request that names a plane is served there even
  if it is the enclave or in quarantine; triage.rs:9 calls it "fully reserved".
- `FreezeLease` (arbiter.rs:200): the Varlink method Freeze records the state and
  stops nobody; VARLINK_SPEC.md:159 says it "enforces preemption".
- `Deduct` (arbiter.rs:140): a grant on the integrated GPU takes the CPU plane's
  RAM without asking whether it is there (`FitsAgain`, for a thaw, does ask), so
  ordinary leases may overlap. `ArbiterBooks` counts this as an overdraft.
- `Credited` (arbiter.rs:239): the sum wraps before it is clipped. An emergency
  lease of nearly 2^64 bytes is granted and its release may leave a plane with
  no memory. The run `books` meets this; `NothingLeaks` excepts the planes in
  `wrapped`, until the next discovery, and fails if it does not.
- `DriversNamed` (topology/mod.rs:37): amdgpu, i915 and xe are looked for in names
  they never occur in, so those GPUs are not put in quarantine.
- `RegisterModel` (model.rs:55): registering a pinned model again unpins it.
- `Evictable` (model.rs:49): nothing updates the use of a model, so the one
  registered first is evicted; the test at model.rs:116 speaks of the LRU.
- `Deadline`, `FreezeCgroup` (preempt.rs:141): a client that releases its lease
  after the last poll is frozen all the same.
- `Multicast` (main.rs:160): even if the loop could read events, it does not tell an
  error of the socket from silence, so a full buffer would leave the topology stale
  until the next event (`missed`, which `QuietIsCurrent` excepts).
- `Cancel` (gateway/handlers.rs:81): a chat or generate handler that is dropped, its
  client gone, while it awaits the arbiter's lock to release its lease leaves it held
  for ever. `LiveIsOwned` excepts these handlers. TEST_INFRA.md:55 asks for no zombie
  leases of the Varlink server, where `LiveIsOwned` and `DeadClientIsReclaimed` show it.
- `AcceptFails` (varlink/mod.rs:29): one failed accept ends the Varlink listener
  for good. The watchdog goes on pinging, and with socket activation clients connect
  and wait for ever; `CommandsEnd` excepts this case.
- `EndOfFile` (cmd/stream.rs): the end of the stream is taken for success, so what a
  daemon that died in mid-stream sent is printed as if it were complete.
- `Torn` (inferenced1.rs:142, client.rs:75): a daemon that dies within the write of a
  chunk leaves a part without its NUL. That is an error, so `exec` prints its own text
  after the chunks it has printed (stream.rs:60). `OneAnswer` shows that this is the
  only way to two answers in one.
- `Start` (cmd/models.rs): without a daemon `pin`, `evict` and `warm` report success
  all the same; `ReportedIsDone` is about commands that reached one.
- `Die` (main.rs:223): a `systemd-inhibit` child outlives its daemon. systemd ends
  the control group, which `SleepIsAllowed` rests on; outside a unit the child goes on
  inhibiting sleep.
- `ThawCgroup` (preempt.rs:176): the coordinator thaws the cgroup and continues the
  process before it asks the arbiter, so a workload whose memory is not there runs.
- `SpawnSystemdInhibit` (inhibit.rs:92-101): a child that was spawned counts as the
  lock. When it exits, because logind refused it or somebody ended it, no fallback is
  tried and the flag stays set until the last lease is gone, though PROJECT.md:41 and
  :72 speak of three tiers. `SleepIsInhibited` is about locks that are really held
  (`Locking`) and excepts this case.

## 5. Proofs

Every invariant and every action property that a passing run checks is also a
theorem, for every value of the constants. Each rests on an inductive invariant
that TLC confirmed first.

`ArbiterProofs`, for every set of lease ids, planes, hosts, sizes and units, every
`MaxLeases` and every `Word`:

- `TypeCorrect`: `Spec => []TypeOK`. `TypeOK` is inductive as it stands because it
  says more than types: no plane offers more than its total, the map holds issued
  ids only, and the plane of every live lease exists. The last part is what makes
  preemption, thaw and release well defined after hardware has vanished;
  `UpdateTopology` keeps it by revoking. The lemmas `DiscoverType`, `DeductType`
  and `RestoreType` carry it through the operators on topologies, `TargetExists`
  and `VictimsPreemptable` through the choice of plane and victims.
- `LifecycleImplemented`: `Spec => ImplementsLifecycle`. Every step of the arbiter
  maps, under `Status`, to a step of `LeaseLifecycle` or to a stutter: a grant
  with victims to `Grant`, also when it trims the map (`GrantedStep`: a trimmed
  lease was over and stays over), a refusal to `Park`, a thaw to `Resume`,
  release, revocation and unplugging to `End`. With it, what `Sessions` and
  `Inhibitor` show of the lifecycle applies to the arbiter.
- `OrderlyPreemption`: `Spec => PreemptionIsOrderly`, from `TypeOK` and
  `VictimsOrderly`: any set the preemption loop may end with is closed downwards
  in priority and lies below the requester.
- `EmergencyAlwaysServed`: `Spec => []EmergencyIsServed`, with any finite number of
  leases. `Shaped` says that every step but a refresh keeps all of the topology
  except the memory available, so what discovery guarantees of the enclave lasts;
  `VictimsExist` finds a set the preemption loop may end with.
- `MemoryNotLost` and `MemoryBalances`: `BooksSpec => []NothingLeaks` and
  `BooksSpec => []BooksBalance`. The two are inductive together (`BooksInv`), with
  `Recorded`: the planes are those of the host whose memory the auditor noted. Sizes
  are any that fit the word: where the credit of a lease that ends would wrap, the
  auditor's `wrapped` takes the plane out of `NothingLeaks`, and `BooksBalance` needs no
  such exception, for only a plane that was overdrawn can be credited so much. The
  lemmas follow the memory of one plane: `PlaneMoves` for a credit or a debit,
  `StateMoves` for a lease whose state changes, `VictimsCredit` for a set of
  victims at once, and `EndBooks`, `ThawBooks`, `ExhaustedBooks`, `GrantedBooks` for
  the operations that are made of these.

`FdServerProofs`, for any number of connections, sizes, limits and words:

- `FdTypeCorrect` and `QuotaExact`: `Spec => []TypeOK` and `Spec => []QuotaIsExact`,
  inductive together with `Unclamped`: a task about to subtract read a counter that
  holds at least its own size, so the saturating subtraction never clips.

`SumLemmas` is what the last two rest on: `SumFunctionOnSet` exists on every finite
set, is a natural, and changes by one term when an element is added, removed or
changed (`SumTake`, `SumSame`, `SumSplit`). The induction theorems of the library
take an operator and cannot be used, so induction is by a least counterexample over
sets of naturals (`LeastNatural`, `InductionOnNat`, `InductionOnSubsets`).

`SessionsProofs`, for any connections, sentries, streams and leases:

- `LiveAlwaysOwned`: `Spec => []LiveIsOwned`, inductive with the types.
- `ClosedIsReclaimed`: the safety half of `DeadClientIsReclaimed`: a connection that
  is closed has left nothing held or parked, and no late thaw changes that.

`PreemptProofs`, for any callers, leases and hosts:

- `CoordTypeCorrect` and `IncompleteExplained`: the invariant `CoordInv` adds a
  `Snapshot` for each call: the client that it read before its awaits is the one the
  lease has if the lease is still there, and if stopping it failed, that client
  takes neither freezer nor signal. `ClientsKept` shows that no step of the arbiter
  changes the client of a lease.

`DaemonProofs`, for any finite set of leases, any lists of descriptors, any means of
inhibiting sleep and any number of faults:

- `PatientWatchdog`: `DaemonSpec => WatchdogIsPatient`. Not inductive by itself;
  `PingsAreDue` bounds the age systemd counts by the pings that were lost and the
  one that is due, as long as the lock is free.
- `ReadyServes`: `DaemonSpec => []ReadyIsServed`, from `Stages`: the place of main
  tells which listeners exist, and only the last places are known to systemd.
- `LockFollows`: `DaemonSpec => []LockFollowsLeases`, from `CountsAddUp` (the
  counter and what is still to do add up to what the monitor saw, at each of its
  places) and `HandleIsOwned` (the flag, the handle and the child agree).
- `SlotsAlwaysMatch`: `DaemonSpec => []SlotsMatchNames`. `AdoptIntended` shows that
  one turn of the loop in `check_and_adopt_sockets` takes what is intended of n
  descriptors to what is intended of n + 1; so the intended function solves the
  recursion, and `AdoptsIntended` shows that the loop's function is that one.

`InferenctlProofs`, for any models, capacity, prompts and limits:

- `GrowthPinned`: `CtlSpec => []GrowthIsPinned`. The invariant `Growth` adds that
  the registry is a finite map, and that the pins of the moment are at most the peak
  the history variable has seen. `EvictableExists` needs a least stamp.
- `PinsKept`: `CtlSpec => PinsAreKept`, from what a registration leaves alone
  (`RegisteredShape`), lifted over every step of clients and server (`CtlSteps`).
- `CtlTypeCorrect`, `AnswersAlwaysMatch`, `DescribedAlwaysServed`, `OneAnswerOnly` and
  `ReportedAlwaysDone`, all from one invariant, `Conversation`. It says what may be
  on the wire at each place of a command: before a call only the tail of a reply
  that was given up, and that only in the last call; after it, the answer to this
  call and no other. `Plan` is what this needs of the commands' scripts, proved of
  each by `ScriptPlan` and `ProbePlan`: every call has a handler, a stream is asked
  for last, and a call that is done without although its reply may come in pieces
  is the last but one at most. `dump` is the command that uses this up.
  `OneAnswerOnly` is about steps (`OneAnswerStep`); `TornPieces` and `DeathTalk` say
  what a daemon that dies within a write leaves on the wire.

`DiscoveryProofs`, for any devices and any hosts:

- `EnclaveSurvives`: `DiscoverySpec => EnclaveSurvivesGpus`, and `EmergencyServed`:
  `DiscoverySpec => []EmergencyIsServed`. With no leases the arbiter offers what
  discovery found (`OffersFound`); `FoundAlike` says that what is not a GPU is
  found alike whatever the GPUs are, and `EnclaveAlike` that the enclave is such a plane.

The assumptions are those named in the modules, and TLC evaluates each in the run of
its module. Sizes are naturals below the word, the kinds of devices are disjoint,
hosts are well formed, `Limit` exceeds the frames, `Capacity` is a natural. Some say
more:

- `MemoryAssumption`: two planes of the machines together have less memory than the
  word counts. It is about hardware only: a request may be of any size below the word.
- `FdAssumption`: the ceiling is less than the largest word, to which a sum
  saturates. `fd_quota.rs` makes it half of the memory.
- `LargeAssumption`: the reply of GetTopology is not among those that grow with what
  clients create. `status` does without it and goes on with two more calls; a
  topology longer than 1 MiB would put it one reply behind.
- `ShippedAssumption`: a shipped list of descriptors has the four names that each of
  the two socket units under `systemd/` lists.

## 6. Only model-checked

Liveness is beyond the proof system: `RequestEnds`, `CallsReturn`,
`DeadClientIsReclaimed`, `CommandsEnd`, `ServiceReturns`,
`SleepIsInhibited` and `SleepIsAllowed`. Of `DeadClientIsReclaimed` the safety half is
proved. The three statements of section 4 are refuted by TLC's counterexamples.

## 7. Not modelled

- Credentials: files read once at the start.
- Paging and madvise: wrappers of system calls without callers in the daemon.
- Peer attribution: a pure function of a cgroup path; the priority it may change is
  an input of `acquire_lease`, where every priority is tried.
- PSI: parsing and thresholds on floating-point averages; the level is an input.
- `inferenctl`: tables, completions, the man page, the configuration commands and
  `test-triage` read and print. HTTP routing, authentication and bodies likewise.
- Contents of JSON, texts of STATUS and logs, core and NUMA counts, feature lists:
  reported, never decided upon.
- `qa/`: tests, read for what they expect of the program.

## 8. Plan

Modelled so far, in the order of the plan: arbiter and discovery; coordinator;
sessions; FD quota; registry and inhibitor; hotplug; activation and the daemon's
life; the Varlink service and the command line. What is left:

1. Theorems about the composition: the clients of `Sessions` and the monitor of
   `Inhibitor` over the arbiter's own leases, by way of `LifecycleImplemented`.
2. `Peer` and `Pressure` as pure operators over bounded inputs.
3. `Sessions` over `Arbiter` itself, with cgroups, to say which clients run while
   they hold no memory.
