# wasmCloud: a TLA+ verification project

wasmCloud runs WebAssembly components as *workloads*. A **host**
(`crates/wash-runtime`) keeps workloads, binds them to plugins (HTTP, messaging,
key-value, blob storage, ...), pools component instances and answers commands that
arrive over NATS through the **washlet**. A Kubernetes **operator**
(`runtime-operator`) decides which host runs which workload, and a **gateway**
(`runtime-gateway`) routes HTTP requests to hosts. This directory models the parts
whose correctness depends on the order in which concurrent steps happen, checks
them with TLC on small instances and proves the most important invariants with
TLAPS for every size.

Paths below are relative to `src/`; `host/`, `engine/`, `oci/`, `plugin/` and
`washlet/` are directories of `crates/wash-runtime/src/`.

## 1. Inventory

How the parts meet:

    operator --NATS--> washlet control loop --calls--> Host (workload lifecycle)
       |                                                 |bind/unbind   ^ failures
       | Host, Workload objects                          v              |
       v                                              plugins ----------+
    gateway --HTTP--> host HTTP server --calls--> instance pool --> instance driver

| Component | State | Operations | What is hard | What makes it correct |
|---|---|---|---|---|
| Workload lifecycle (`host/mod.rs`, `host/cleanup.rs`, `WorkloadResources` in `engine/workload.rs`) | map of ids to slots, counter of reservations, journals of bindings, recorded recoveries | reserve, start, commit, stop, plugin failure, cleanup guard's drop, recovery, host stop | futures dropped at any await; teardown is keyed by id and may run late, twice or against a new owner; one of several unbinds fails | one owner per id; nothing bound that nobody will release; a running workload keeps its bindings |
| Instance driver (`engine/instance_driver.rs`) | atomics `in_flight`, `retired`, admitted calls, a `Notify`, a bounded channel | admit, send, release, retire, drain, run loop, trap | separate atomics read by different threads; lost wake-ups | slots and budget exact; a retired instance drains and ends |
| Instance pool (`engine/instance_pool.rs`) | parked drivers, peak of the window, closed flag, armed bit of the sweep | dispatch, build, park, sweep, close | instances are built outside the lock; the sweep's task may vanish | pool size kept; nothing parked in a closed pool; exactly one sweeper; surplus is given back |
| Control loop (`washlet/mod.rs`) | command tasks, slots, start permits, lease, reply queue | attach, register, accept or shed, run, reply, shut down | floods, hung starts, panics, aborted tasks that go on, a second attachment | stops are never turned away; a shutdown reports what it left; it ends |
| Gateway routes (`runtime-gateway/tracker.go`, `reconciler.go`) | five maps behind a lock, two work queues | register and deregister hosts and workloads, resolve | a read from the cache is old when it is acted upon; deletions merge with re-creations | the maps agree; no stale route; requests go to live hosts |
| OCI coalescer (`oci/coalescer.rs`) | per key: the flight in progress, its waiters, the kept result | join, lead, finish, cancel, keep, evict | a leader that finishes after it was replaced; callers dropped at any await | a failure or an unshareable result answers no later caller; the newest result is kept; every caller returns |
| Operator: placement (`workload_controller.go`, `host_client.go`, `api/condition`) | Workload and Host objects, the operator's cache of them | choose a host, start, poll, finalize | stale reads, lost answers, retries, hosts that disappear or return | the workload is held only where its object says a stop will reach it; deletion and placement settle |
| Operator: host reaping (`host_controller.go`, `host_pod_controller.go`, `retired_hosts.go`) | Host objects, last heartbeats, fleet witness, retired hosts | heartbeat, probe, verdict, delete, retire | the operator itself may be deaf; late heartbeats of removed pods | a publishing host is not reaped; a dead one is |
| Operator: replica sets, deployments | owned Workloads | scale, roll out | counting in a cache that lags behind | the number of replicas converges |
| Component-host plugins (`plugin/component_host`, `host/job_registry.rs`, `plugin/cancellation_broker.rs`) | incarnations of a plugin component, journal of binds to replay, jobs by task id, cancel flags | supervise, replay, cancel | a task id reused by a newer job; a cancel between read and watch | faults are attributed to the incarnation that caused them |
| Quotas (`host/quota.rs`) | permits per surface and for the host | acquire, refuse, release | a guest that waits for what only it can free | no self-deadlock, no leaked permit |

The remaining parts (linking over wasmtime, HTTP and socket protocol code, NATS and
storage adapters, egress policies, file-system caches, volumes, artifacts and
precompilation, the CLI, charts and generated code) are listed in `PROJECT.json`
under `components` with the reason each is left out: they are sequential I/O over
libraries, or pure matching, rather than concurrent state. `PROJECT.json` also lists
the hazards, each at its line, with the properties that would catch it.

## 2. Plan

Done, in the order of importance: `WorkloadLifecycle` with its abstract specification
`WorkloadIds`, `InstanceDriver`, `InstancePool`, `ControlLoop`, `GatewayRoutes`,
`Coalescer`, `Placement`, `HostReaping`; every safety property that a passing run checks is
also proved (section 5).

To come, in this order:

1. The replica-set and deployment controllers over the Workload that `Placement`
   models: convergence of the number of replicas when the cached list lags behind the
   writes.
2. `host_pod_controller.go` and `retired_hosts.go`: Hosts whose pod is gone, recycled
   addresses, and late heartbeats; composed with `HostReaping` through the Host object.
3. The component-host supervisor: incarnations, replay of lifecycle binds, attribution
   of faults, the job registry and the cancellation broker.
4. The quotas.

The bounds stay what they are below: two or three actors of each kind, and every
limit (permits, capacity, budget) smaller than the number of actors that want it.

## 3. The modules and the code they stand for

Common conventions. Everything the code does without giving up a lock or reaching an
await is one action; every await, unlock and separate atomic operation is a place where
other actions come in between. An error, a timeout and a cancellation are actions that
are always possible where the code has them; time itself is modelled only in
`HostReaping`, whose subject it is. Definitions marked `Mutant:` are not part of any
specification: each is a plausible mistake in the definition after it, and the property
named for it in `PROJECT.json` fails once it is put in that definition's place.

### WorkloadLifecycle and WorkloadIds

`slot` is the host's `workloads` map (`HostWorkload`, one value per variant), `next`
the `reservations` counter, `recov` the map `workload_recoveries`. An operation (a
start, a stop of a running workload, a plugin's failure of one) is keyed by the
reservation it minted; `pc`, `journal`, `todo`, `err` are its progress and its
`WorkloadResources`, `retain`, `task`, `serial` its `WorkloadRecovery`. `bound` is what
the plugins keep under each id, as a plugin sees it: by id, with nothing else to tell
two workloads apart. A binding is a position in the order in which plugins are bound;
the last one stands for the HTTP routes. Binding and unbinding are three steps each
(called, applied by the plugin, returned), so that a timeout, an error or a
cancellation may fall before or after the plugin has acted.

| Code | Actions |
|---|---|
| `workload_reserve`, the start's permit and image pull | `Reserve`, `AcquirePermit`, `PrepareDone`, `PrepareFails` |
| `bind_plugins_for_start` and commit in `workload_start_reserved` | `BindBegin`, `BindApply`, `BindDone`, `Commit`, `Abort` |
| `WorkloadResources::release`, `bounded_release` | `UnbindApply`, `UnbindOk`, `UnbindErr`, `ReleaseOk`, `ReleaseErr` |
| `WorkloadCleanupGuard::drop` | `GuardDrop`, in `Cancel` and `ReleaseErr` |
| `WorkloadRecovery::recover` and its retrying task | `RecoverGone`, `RecoverBegin`, `RecoverErr`, `RecoverOk` |
| `workload_stop` | `StopBegin`, `StopRunning`, `StopOther`, `StopCollect`, `StopCancelled` |
| `fail_workload` and its consumer | `FailRunning`, `FailStarting`, `FailUnbind`, `FailDone` |
| `Host::stop` | `HostStop`, `HostStopped` |

`WorkloadIds` is what the host promises, with none of that machinery: an id names one
workload at a time, an entry is made only for the workload that holds the id and
removed only on its way out, and an id is given back with nothing left behind, except
after a plugin failed the workload. `Promise` in `WorkloadLifecycle` instantiates it
with `phase <- slot's state`, `inc <- the start whose workload the slot is about`,
`entry <- bound`.

### InstanceDriver

One warm instance. `inFlight`, `retired`, `admitted` are the atomics of `DriverState`,
`permit` is the permit a `Notify` can hold, `chan` the bounded channel, `loop` the task
that owns the store. `try_admit` is `Check` (is it retired, is it gone), `Claim` (the
compare-and-swap on `in_flight`), `Count` (the one on the budget), `Spend`/`OverBudget`
(retire) and `Send`; `InFlightGuard::drop` is `Release` (its `fetch_sub`) and `LastOut`
(its load of `retired`); `retire` called by the sweep is `SweepRetire` and
`SweepSignal`. The run loop is `Receive`, `Drained`, `ChannelClosed`, `Trap`,
`Teardown`. With `PoolLock` admissions are serialised the way the pool's lock serialises
them; without it any callers race, which is what the driver's comments claim to allow.

### InstancePool

`drivers`, `peak`, `closed` are `PoolState`, `lock` says that its mutex is held across a
step, `sweeping` is the armed bit. A call is `TryDispatch`, `Offer`, then possibly a build
outside the lock and `Install`, `Place`, `Sample` (`dispatch_on_new`), `Arm` and `Spawn`
(`start_sweeping`). The sweep's task is `Tick`, `Sweep` or `SweepDisarm`, `Return`, and
`TaskDropped` when its runtime goes. An instance is reduced to its state and to the
calls it serves (`on`); its `in_flight` is their number (`InFlight`), which is what
`InstanceDriver` proves of the atomic (`SlotsAccounted`), and its own admission and drain
are `InstanceDriver`'s too.

### ControlLoop

`phase` is where `spawn_control_loop` is, `cmd` where each command's task is, `slot` its
semaphore slot, `lease` the strong count of `HostControlLease`, `owed` the commands whose
cleanup guard left a cleanup, `failed` what the shutdown reports. A task that
`abort_all` or the drop of the loop's task set reaches (`AbortTask`) holds the lease until
it has unwound: out of its operation, where it may still leave a cleanup ("unwinding"), or
out of its reply, with the operation over ("dropping"). The publisher may stop or panic
while the loop runs, which ends the loop with the replies it had not sent. What a command does
to the host is `WorkloadLifecycle`; here it ends, fails, panics or is cancelled. The
NATS subscription is modelled from its use: messages are taken in any order. Not
modelled: the heartbeat the host pushes by itself, the sweeps of the OCI cache, the
wording of replies.

### GatewayRoutes

`hosts`, `hostKeys`, `workloads`, `hostnames`, `workloadKeys` are the maps of
`HostTracker`; `RegisterHost`, `DeregisterHost`, `RegisterWorkload`,
`DeregisterWorkload`, `removeHost` and `Resolve` its methods. A reconcile is two steps:
the read from the cache (`GetHost`, `GetWorkload`) and what follows from it
(`ReconcileHost`, `ReconcileWorkload`, or a refused finalizer patch that puts the key
back). `hostObj` and `workloadObj` are the objects in the cache; `HostVersions`,
`HostFollows`, `WorkloadVersions` and `WorkloadFollows` say what a watch may show next,
from what the operator does with the objects: a workload is placed once and keeps its
host, is Ready only when placed, and a re-creation has a new UID. A watch may skip
states. A work queue is a set, which is what it is to its user: a key that is queued
twice is reconciled once.

### Coalescer

One key of `RequestCoalescer`. What may be shared is part of the key (the pull policy
is in `PullKey`), so keys share nothing. `entry` is the flight the map
`in_flight` names for the key and `waiters` its count, `finished` the flight whose value
is kept, `result` what each flight's cell holds, `expired` the flights past their join
window; `reuse` says whether calls with this key may reuse a finished value. A caller is
its `pc` and the `cell` its guard holds; `before` is history, the flights that already
had a result when it called. The steps of `run` are actions of their own wherever the lock is released or the future
awaits, and a caller may be dropped at each of them. Time appears as two actions: the
window of a flight lapses, a kept result is evicted. The limit on concurrent credential
helpers (`oci/credentials.rs`) is not modelled.

### Placement

The reconcile of one Workload among several hosts. `log` is the sequence of versions of
the Workload from the one the cache shows (first) to the one stored (last), with at
most `MaxLag` versions in it; a merge patch writes only the fields it
changes onto the stored version, and a patch with an optimistic lock is refused unless
the version read is the stored one. Each host is what `WorkloadIds` promises reduced to
one id, plus the queue of requests on their way to it: there is one NATS connection, so
requests to a host stay in order, and the first thing a start does at a host is to
reserve the id. Answers may be late or lost, the operator may restart between any two
steps, a host may become unreachable, be reaped and come back. Conditions that nothing
else reads, and the content of a start request, are left out. The Workload carries no
finalizer but the operator's. `lost` records the hosts the operator let go of while they
may still have been holding the workload: a host cleared from the status when its Host
object is gone or going (`placement_cleared` in section 6 is about these), and a host that
finalize gives up on although a stop was not answered, if it is not heartbeating then; one
given up while it heartbeats is no exception. Every other host is covered by
`HeldWhereRecorded`. The caches of the Workload and of the Hosts fill independently of
each other, so a pass may meet a Host that has come back with a Workload it read before
the host was cleared from it. That requests to a host take effect in order is an
assumption for a start and a stop of the same id: the washlet runs each in a task of its own,
and orders them by the reservation ("a start claims the id before it fetches anything",
`washlet/mod.rs:1149`). A stop is sent after a start has been answered or has timed out,
seconds after the start's task began with that claim.

### HostReaping

The reconcile passes of one Host of a fleet, its heartbeats, and `fleetWitness`. The
rest of the fleet is a stream of heartbeats (`PeerPublishes`) and of passes
(`OtherPass`). Timestamps are kept as ages, saturating at the window. A pass is
`BeginPass` (observe the fleet, read the Host from a cache that lags by up to `MaxLag`,
send the probe) and one of its ends: the probe answered, or failed with a new reason
(which ends the pass before Ready is looked at) or with the same one, or a status patch
that fails; the post-hook that deletes is part of the end and goes by the Ready it
finds, old or new. `dur`, `upFor` and `noticed` are history: how long the current or last
outage was, and whether some pass found the fleet unheard during it. `Short` is the
longest outage that cannot make a publishing host look older than the window; `Calm`,
the distance between outages, is the fault assumption.

## 4. What is checked

| Run | Instance | What it shows |
|---|---|---|
| `lifecycle` | one id, two reservations, two bindings, one permit, one stopper, drops off the runtime | `Ownership`, `NeverAbandoned`, `RunningIntact`, `Accounted`, the action property `ReportedFailureKept`, that every step is one of `WorkloadIds`, and liveness: no start stays Starting, the permits of earlier starts having come back however they ended; every teardown gives its id back, however often it is cancelled, times out or is refused |
| `lifecycle_error` | violation | see findings |
| `driver` | four callers, two slots, a budget of three, no pool lock | slots, channel and budget stay exact; no drain signal is lost; a retired or dropped instance ends |
| `driver_drain` | violation, with the pool's lock | see findings |
| `pool` | three callers, two instances of one call each, floor of one, budget of two, a runtime that may stop | the pool's size, its closing, the single owner of the sweep and the measured peak survive every interleaving; once traffic stops the pool gives back all above its floor |
| `control` | two attachments to a host, owned or not, a start, a stop, a heartbeat | the lease keeps the work of two attachments apart; a stop is never shed or dropped and is served while starts hang, slots run out and replies do not drain; a clean shutdown left nothing running; every shutdown ends |
| `gateway` | a Host name with two processes, a Workload name with two UIDs, two hostnames, four deliveries, a refused patch | the five maps stay one table, no quiet name has a stale route, requests reach live hosts only; a Workload that is Ready on a Ready Host ends up routed |
| `coalescer` | three callers of one key, with and without reuse, each of which may lead, join or be dropped | flights that are wanted stay joinable, no failure or unshareable result answers a later caller, the newest result is the one kept, every caller returns |
| `placement` | two hosts, one of which the Workload may be pinned to, a cache up to two versions behind, one fault (281,957 states) | the workload is held only where the object records it (or on a host let go of); the host is never replaced; no start goes to a Host whose finalizer has run; deletion ends and placement settles |
| `placement_cleared` | violation, with two faults | see findings |
| `reaping` | a window of six units, heartbeats every unit, one unit of lag and of probing | a publishing host is condemned only around a long outage that no pass has noticed yet; a dead one is always removed |
| `reaping_deaf` | violation, with the default timings in units of five seconds | see findings |

Why the bounds are enough. Two reservations are a start and the operation that tears its
workload down, or a start that ends badly and the next one under its id, each with a
binding that is released and one that is not. The shortest history in which the late
teardown of a workload could meet the next owner of the id takes three; with liveness
that is too large for a run, without it TLC explores it in seconds (65,000 states) and
finds nothing, and the safety properties and the refinement are proved for every number
of reservations (section 5). Ids do not share anything but the permits and the failure
consumer, so a second id adds no conflict over an id; a permit that a cancelled or
failed start leaked would show as a second start that queues for ever. Four callers on
two slots and a budget of three leave one too many for either limit. Three callers on a
pool of two make one of them find the pool full after it built. Two attachments exercise
every way of outliving an attachment; `control` has one slot for a stop and a heartbeat
and keeps two of its three commands while it registers, so each limit is met by a stop. Four deliveries are enough
for a Host and a Workload to appear, and for the two most adverse events after that. Two
hosts are the one a workload was placed on and another one it could move to; one fault
is enough for each way a request or an answer can be lost (the safety properties of
`Placement` and its inductive invariant also hold with two, an instance of ten million
states that is not among the runs). A window of six leaves outages shorter and longer than `Short`, and gaps in what
is heard that passes notice and miss. Where a module is proved as well (section 5), the
theorems cover the sizes that the runs do not. Runs in which the system may stop (all
calls made, all commands sent) do not check for deadlock; the lifecycle, the gateway and
the reaping, which can always go on, do.

### Fairness

- `WorkloadLifecycle`: a start, a release and a recovery attempt each run under a
  timeout, so each of their phases ends (weak fairness of the disjunction of its
  outcomes, success and failure alike). The recovery task is woken by a timer and
  queues on tokio's fair mutex, a start on its fair semaphore (strong fairness). That a
  plugin which is asked again and again finally lets go is an assumption about the
  plugin; without it the code retries for ever.
- `InstanceDriver`: threads inside an admission or a release go on, the task polls its
  select, and every call ends, at the latest by its timeout.
- `InstancePool`: the same, and the sweep's timer fires. Nothing is assumed of builds,
  traps or close.
- `ControlLoop`: only the loop's own steps, the registration and each of the shutdown's under a
  timeout, its noticing a task that panicked, and the handling of commands that are not
  starts. Nothing is assumed of starts, of NATS, or of how long
  an aborted task takes to unwind.
- `GatewayRoutes`: workers run, a work queue starves no key, and the cache resyncs.
  The gateway sets no `SyncPeriod`, so the resync is the library's default of about ten
  hours. `RoutesReturn` does not hold without it: see the observations.
- `Coalescer`: callers that are not dropped are scheduled, and the work of a leader
  ends, by the pull's timeout or the credential helper's. (A pull may be configured
  without a timeout; then a hung registry hangs its callers.)
- `Placement`: the controllers run, the caches catch up, a reachable host takes its requests and
  publishes, an unreachable one is noticed, and reaped as long as another is heard.
  Nothing has to be deleted, to fail or to return.
- `HostReaping`: time passes and passes run; not all passes fail, find a new reason for
  a failing probe, or fail to delete. `DeadIsReaped` assumes that some other host is
  heard: when none is, the witness withholds the verdict, which is what it is for.

## 5. What is proved

The theorems hold for every value of the constants that satisfies the modules' named
assumptions (`ConstantsAssumption`, `DriverConstants`, `GatewayAssumption` and those of
the other modules): the bounds are naturals, timings leave room for a short outage,
finite sets are finite, distinguished values are distinct. TLC evaluates the assumptions
in the runs. The type invariants and inductive invariants of these modules are proved
rather than listed in the runs; to look at one on a small instance, add `IndInv` to the
invariants of the module's configuration.

**WorkloadLifecycleProofs** proves `IndInv` inductive and from it `TypeOK`, `Ownership`,
`NeverAbandoned`, `RunningIntact`, `Accounted`, and the action properties
`UnbindsOnlyItsOwn` and `ReportedFailureKept`. None of these is inductive alone.
`Ownership` needs to know that a slot names a reservation of its own id (`SlotOwners`),
that reservations are never minted twice (`Minting`), and that only a dropped operation
has a recovery, recorded under its own id (`RecoveryOwners`). `RunningIntact` needs that
a journal covers every entry its start made (`JournalsCover`), so that at a commit a
full journal means every entry is there, and afterwards that whoever unbinds owns the id.
`Accounted` needs the other half of `JournalsCover`: an entry that is still there is
still in the journal of whoever will release it. `Marked` says that a teardown under way
has replaced `Starting`, so its end can close the slot out.

The same module proves `Refinement`: the lifecycle implements `WorkloadIds`. Each action maps to one abstract step or to a stutter; `Vacate`'s
condition (nothing of the workload left behind) and `New`'s (no plugin has an entry of a
reservation not minted yet) are where `JournalsCover` is used.

**InstanceDriverProofs** proves `IndInv` and from it `TypeOK`, `SlotsAccounted`,
`DrainSignalled`, `BudgetExact` and `ChannelHasRoom`. The strengthening is that the
channel holds each queued call once (`QueueMatches`), and that the budget's counter
covers every call sent (`BudgetCounts`). `ChannelHasRoom` then follows by counting:
whoever is about to send holds a slot and is not in the channel. The cardinality facts
come from `FiniteSetTheorems`.

**InstancePoolProofs** proves `IndInv` and from it `TypeOK`, `WithinPoolSize`,
`ClosedStaysEmpty`, `OneSweeper`, `SurplusIsSwept` and `PeakCovers`, for any callers, pool
size, floor, concurrency and budget. What a caller decided under the lock it may rely on
only while it holds it: `LockExclusive` says that at most one caller is between `lock` and
unlock and that the lock is then taken, so no sweep, close or other caller moves the pool
under it. `OneSweeper` needs that a caller's thread spawns at most one task, and last
(`SpawnsLast`), so that the bit a caller is about to hand to its task is not yet owned by
one. `PeakCovers` is about the moments when the lock is free; inside it the peak already
has room for the call that is offered (`OfferCounted`). `ServedByStore` (calls are served by
instances whose store is there) makes an instance that ended count for nothing. The sums
over instances are cardinalities of sets of calls, so admitting and releasing a call are
`FiniteSetTheorems`' facts about adding and removing one element.

**ControlLoopProofs** proves `IndInv` and from it `TypeOK`, `OneController` and
`ShutdownHonest`, for any commands, slots, permits and number of attachments. The heart is
`LeaseCounts`: the strong count of the lease is one for the loop while it is attached, plus
the tasks that exist, plus the cleanups they left; it needs `OwedOnce`, as a task that left
a cleanup twice would be counted once. `acquire_control` succeeds at a count of zero only,
so a new attachment begins with no task and no cleanup of an earlier one, and `LatestOnly`
carries that through the loop's life and beyond its end; `OneController` is its
restriction to attached loops. `PhaseWork` follows the shutdown: what each phase
may find running, and that a phase entered with nothing in `failed` has indeed waited for
the tasks (`AfterWait`) and for the cleanups (`AfterCleanup`). `ShutdownHonest` is its last
line. That the loop may also end because its publisher did adds one way into the shutdown,
with an empty reply queue, and nothing to the invariant.

**GatewayRoutesProofs** proves `IndInv` and from it `TypeOK`, `TablesAgree`,
`NoStaleRoute` and `RequestsReachLiveHosts`. The parts: ids belong to one name
(`OwnHostIds`, `OwnWorkloadIds`), which makes removing one row leave every other alone;
a read is out of date only if its key has been queued again (`ReadsFresh`), which is
what lets the code act on old reads; and a route is of an object that was placed
(`RoutesPlaced`), which bounds the exception in `NoStaleRoute`.

**CoalescerProofs** proves `IndInv` and from it `TypeOK`, `WaitersExact`,
`StaysJoinable`, `AnswersFresh` and the action property `NewestPublished`, for any
finite set of callers. The strengthening (`Consistent`) ties the four places that can
name a flight together: a guard's cell, the entry, the kept value and the flight's
result. A leader that finishes late then finds either its own flight in the entry or a
younger one, which it leaves alone.

**PlacementProofs** proves `IndInv` and from it `TypeOK`, `HeldWhereRecorded` and the
action property `NeverRebound`, for any hosts, any lag of either cache and any number of
faults. `HeldWhereRecorded` is about the stored version, but the operator acts on the
cached one; the strengthening says how versions may follow each other
(`VersionsOrdered`), what a reconcile under way has read and is about to write
(`PassSound`, `PatchSound`), and that nothing follows a stop on its way to a host
(`StopIsLast`). Every host a read may still name is stored, or was cleared and is in
`lost`, so a start sent from a stale read goes nowhere new. The same module proves
`NoStartOnceListed`, from `ListedIsSeen`: a Host's finalizer runs in a pass that read the
Host as deleting, from the one cache that `reconcilePlacement` looks the Host up in as well,
so by the time it has listed the Workloads every pass finds the Host going or gone and
sends nothing there.

**HostReapingProofs** proves `IndInv` and from it `TypeOK` and the action property
`JustReaps`, for every window, publishing interval, probe deadline and cache lag that
leave `Short` non-negative. `HeardInTime` bounds the age of a publishing host's LastSeen
by the outage, the interval and the time since the bus returned; `ReadInTime` carries the
bound over to what a pass has read, older by the lag and the time spent probing;
`NoticedUnsettles` says that a noticed outage stopped the witness's clock, which has then
run for less than `Calm`, hence less than the window. The rest is linear arithmetic.

Only model-checked: the liveness properties (`StartSettles`, `TeardownCompletes`,
`RetiredEnds`, `QuietPoolShrinks`, `StopsServed`, `ShutdownEnds`, `RoutesReturn`,
`CallerReturns`, `DeletionCompletes`, `PlacementSettles`, `DeadIsReaped`), because fairness
and `ENABLED` are out of the prover's reach. Every invariant and action property of the
passing runs is proved.

## 6. Findings

1. `lifecycle_error`. `fail_workload` (`host/mod.rs:753`) records `Error` after a best-effort
   release that may have failed or timed out, while `workload_stop` drops an `Error` slot
   because "nothing is bound (every failure path releases before recording the error)"
   (`host/mod.rs:1449`). A plugin may then keep an entry that nobody will release.
   `Accounted` and `WorkloadIds` (`FailOut`) state exactly this exception.
2. `driver_drain`. "Stops admissions and drops the store after active calls drain"
   (`engine/instance_driver.rs:203`) does not hold for a call that passed the retired
   check, and claims its slot after the last running call has retired the instance and
   signalled the drain: the run loop drops the store with that call on it. The same
   happens when the signal is already stored and a call is admitted before the loop
   takes it. The pool's lock does not prevent it, as calls end outside that lock.
3. `placement_cleared`. `finalize` sends no stop for a Workload without a host, because
   "HostID is set before any start is sent" and so "no start was ever sent"
   (`workload_controller.go:510`, `:512`). `reconcilePlacement` clears `HostID` again when
   the Host is gone or going (`workload_controller.go:318`), also when a start was already
   sent there: its answer is lost with an operator that restarts, or comes after the
   timeout, and the Host is deleted before the retry. A Workload deleted then is finalized
   with no stop, and the host, which may come back, runs it with nobody tracking it.
4. `reaping_deaf`. The fleet witness is to keep the operator's own deafness from being
   charged to the hosts: a definite failure is "only reachable once the operator has been
   hearing the rest of the fleet" (`host_controller.go:212`), and the signal "catches total
   deafness" (`host_controller.go:78`). In a total outage every host's window runs out at
   its own time. While the host heard last is inside its window the fleet counts as
   settled, and those heard up to one interval earlier are outside theirs: a pass in that
   span condemns a host that never stopped publishing. An outage longer than the window
   that no pass observes goes unseen likewise. `JustReaps` states, and the proof confirms,
   that these are the only ways.

A divergence with no run of its own: "A stop is never shed, and neither is a heartbeat: it
is the operator's liveness probe for this host" (`washlet/mod.rs:108`) holds for the running
loop, but while an attachment registers `verify_subscription` drops every message past its
limit that is not a stop, heartbeats included (`washlet/mod.rs:817`; `Kept` in
`ControlLoop`), although the comment above it says "Shed the way the running loop does".

Observations that the properties spell out: in the gateway, a Workload that is deleted and re-created under
its name between two looks of the watch keeps the old route until the new object is
placed (`NoStaleRoute`'s exception); routes that `removeHost` dropped come back only with
a change of the Workload or the resync (`RoutesReturn`); a plugin's failure report names
a workload only by its id, so a late one can fail a successor. In the operator, a host
whose Ready was stored as failed and whose deletion then failed is deleted by a later
pass even if the host has answered since, when that pass ends at a changed Reporting
(outside `JustReaps`, which is about hosts that were well all along). A pass that read a
Workload before its host was cleared, and finds the Host back, starts it there and records
the WorkloadID with a patch that takes no lock; the stored Workload then has a WorkloadID
and no host until the next selection. So `WorkloadID` set does not imply `HostID` set,
`HeldWhereRecorded` counts that host as let go of, and `PlacementSettles` asks for both.
A Host's finalizer "deletes all Workload objects assigned to this host"
(`host_controller.go:223`) that the cache shows it (`:233`). One whose host the cache does
not show yet is missed. As a rule it has not been started either, and `reconcilePlacement`
then takes it off the host; but a pass that adds the finalizer goes on with the stored object
its patch returns (`conditioned_reconciler.go:71`), which may have a host that the cache does
not show, and sends the start. What bounds the damage is the grace period for unhealthy
workloads that the same comment names. `NoStartOnceListed` is the half
of this that the code does guarantee: once the finalizer has listed, nothing is
started there until the Host is registered again.

## 7. Not modelled

Durations outside `HostReaping` (a timeout is an outcome that is always possible), memory
limits, the content of replies and messages, wasmtime, and the parts listed in section 1
and in `PROJECT.json`: the replica-set and deployment controllers, the pod controller
with its retired hosts, the component-host supervisor and the quotas are the next
candidates; the rest is sequential I/O over libraries or pure matching, where a model
would repeat the code. The composition of the modules is by interface: the control
loop treats a command's work as `WorkloadLifecycle` describes it (it may leave a cleanup
that holds the lease), the pool treats an instance as `InstanceDriver` describes it (an
admission, then an end), a host in `Placement` behaves as `WorkloadIds` promises, and the
gateway's objects move as the operator moves them.

## 8. Running

    tlc -workers 2 -config Lifecycle.cfg MCWorkloadLifecycle
    tlapm WorkloadLifecycleProofs.tla

`PROJECT.json` names the module and the configuration of every run.
