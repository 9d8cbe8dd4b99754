# TLA+ verification of HeteroQuantServeBench

This directory holds TLA+ models of the parts of HeteroQuantServeBench that keep
state and can go wrong by an order of steps: the console's task service and the
five runners that take it over for an experiment, the model hub, the live
scheduler with its device storage, the serving gateway and its circuit breaker,
the service-application experiment over several nodes, and the block pool of the
KV experiments. Each model is translated from the code named in `PROJECT.json`
under `map` and checked by TLC on small instances; what the passing runs show of
safety is proved with TLAPS for every value of the constants. Where the code
disagrees with what the repository says of it, a run shows the violation.

Contents:

1. Inventory: what the system consists of
2. Modules: how the models correspond to the code
3. Runs: what TLC checks, with which bounds
4. Proofs
5. What the checks showed about the code
6. What is not modelled
7. Plan

---

## 1. Inventory

The repository is a benchmark and serving laboratory in Python (`src/hqsb`, about
211,000 lines, and experiment scripts) with a web console. Most of it is data
processing: experiments, statistics, report and evidence formats, quantisation,
compiler passes, kernels. The parts that keep state across calls, threads or
processes are these.

| Component | State | Operations | Runs in |
|---|---|---|---|
| Task service, `console/service.py` | deployments (state, epoch), `pending`, `benchmark_owner`, one executor per deployment | register, retire, claim/release benchmark, submit, token_budget, cancel, `_execute`, close, restart | API threads, one executor thread per deployment, campaign threads |
| Run store, `console/store.py` | durable run state, idempotency keys, events | create, update, recover | under its own lock, from every thread |
| Worker, `console/workers.py`, `observation/lease.py` | process, loaded model, lock file of the device | execute, close, termination after timeout or stop | one process per deployment |
| Exclusive job runners, `console/system_jobs.py`, `system_guard.py`, `structure_jobs.py`, `parallel_jobs.py`, `diagnostic_jobs.py`, `scheduling_campaigns.py` | one run at a time, stop event, quarantine, a process, the power journal, L5 artifacts | start, run, cancel, publish, close, recovery | one thread per runner, processes of their own, a guardian that outlives the console |
| Model hub, `console/model_hub.py` | download records, partial and sealed directories, registration files | start, cancel, resume, register, delete, download thread, close, boot | API threads, one download thread |
| Application experiment, `serving/application_engine.py`, `console/application_jobs.py`, `application_transport.py` | leases, replicas, occupants, quarantine | acquire, warm, submit, choose, ensure, generate, tick, drain, release | a coordinator, one thread per request, remote nodes |
| Benchmark campaigns and peers, `console/benchmark_campaigns.py`, `parallel_peers.py` | one thread per campaign, results | loops over submit and poll | threads of their own |
| Live scheduler, `runtime/live_engine.py`, `kv_manager.py` | rows, leases, seal, preemption budget | accept, run (intake, scan, admit, plan, forward), finish, release, close | worker process, engine thread |
| Scheduling policy, `runtime/scheduler_policies.py` | none | ordered, plan | called by the engine |
| Executor and storage, `backends/step_executor.py`, `block_kv.py`, `device_kv.py` | free list, blocks and length per request | prepare, execute, commit, release | called by the engine |
| Workload sender, `serving/scheduling_loadgen.py`, `console/scheduling_worker.py` | queue, `outstanding`, `finished` | send, drain, seal, live ingress | sender thread |
| Gateway, `serving/gateway.py` | service state, `_inflight`, `_cancelled`, one state machine per request | handle, `_serve`, request_cancel, drain, force_cancel, close | one thread per request |
| Circuit breaker, `serving/circuit.py` | circuit state, window, run of failures, probe counters, quarantine | allow_request, record_success, record_failure, clear_quarantine | called by the serving plane |
| Block pool, `runtime/kv.py` | per block: state, owner, count, readers, hash | allocate, share, release, mark_cached, evict | called by the KV experiments |
| Admission, router, SSE, `serving/*` | queues, permits, instance tables | admit, route, reassemble | called by the gateway |
| Scheduler simulator, prefix cache, `runtime/scheduler.py`, `prefix_cache.py` | waiting/running/preempted requests, block budget | step, preempt, lookup, insert, evict | simulation loop |
| Deployment control plane, `infra/*` | lifecycle, canary and rollout states | transitions | control loop |
| Operator integration and compiler caches, `integration/*`, `compiler/cache.py` | registries, cache entries | register, dispatch, lookup, invalidate | one process |
| Distributed execution, `distributed/*` | rank states, rendezvous | fault handling, collectives | several ranks |

How they interact. The HTTP layer, the campaigns and the model hub call the task
service; the service writes the store and drives the workers. An exclusive runner
takes a slot, the benchmark claim and the store of the service, and starts a
process of its own that competes with the workers for the device's lock file. A
worker runs the live scheduler for a scheduling job, which calls the policy and
the executor and is fed by the sender thread. The application experiment leases
several consoles and loads and generates through their endpoints. The gateway
calls admission and router; the router asks the circuit breaker of each candidate
instance (`router.py:350`). The breaker's reports (`record_success`,
`record_failure`) are called by the unit tests only so far; the model lets any
admitted request report at any later time or never. The simulator and the
experiments use the block pool.

What is hard, and the properties that make each part correct:

* **Task service.** `self.lock` and the store's lock are different locks and
  `_execute` publishes its result under neither of the service's sections. A
  cancel, a worker death, a benchmark claim or a crash can fall between any two
  of its steps. Correct means: every slot taken is given back once; a benchmark
  owner is alone; the store and the threads agree; a recorded cancel is not lost;
  an ended run stays ended; one deployment owns the GPU; everything accepted ends.
* **Exclusive runners.** Processes hang, die, cannot be killed, or outlive the
  console; a guardian may be killed with the power limit changed. Correct means:
  an experiment has the console to itself; one user of the GPU even over
  restarts; a changed power limit is always on record; what is recorded as
  completed is usable; every runner and the shutdown come to an end.
* **Model hub.** Registration, deletion and sealing are several writes to disk
  and to the service; a crash may come between any two. Correct means: a record
  that says completed has a whole directory; active records and the pool agree;
  the console can start again; a cancel wins; downloads end; a published
  deployment always has a sealed snapshot behind it.
* **Application experiment.** Every endpoint call may fail or stay uncertain and
  request threads race with the coordinator's scaling. Correct means: one
  occupant per replica; no node given back silently with a replica on it;
  replicas bounded; the experiment ends.
* **Live scheduler.** Leases, progress counters and device storage are three
  records of the same thing, changed in different places by completion, cancel,
  expiry, refusal, preemption and failure. Correct means: they agree between
  turns; reservations and batches respect their limits; tokens come in order and
  completely; the seal overtakes no item; every request and the session end.
* **Gateway.** A request may be cancelled, lose its client, time out or lose its
  backend between any two chunks. Correct means: its machine reaches an end; its
  backend session is released and told the truth; what the client reads agrees
  with how the request ended; the count of requests in flight is right.
* **Circuit breaker.** Reports arrive long after the request was admitted, in
  any state of the breaker. Correct means: late reports do not trip or unbalance
  it, probes are bounded, and a half-open period ends.
* **Block pool.** A long sequence of legal calls must keep the reference count
  equal to the readers and never give away a block that is read. It does not
  (section 5).

The full list of hazards, each at its source line and with the properties that
would catch it, is in `PROJECT.json` under `hazards`.

---

## 2. Modules

### ConsoleService, MCConsoleService

Models `console/service.py`, the run states of `console/store.py` and the worker
as `console/workers.py` drives it.

* *State.* `phase` is the process (serving, closing, stopped, recovering);
  `configs`, `dstate`, `depoch` are the service's dictionaries; `queue[d]` is the
  single-threaded executor of deployment `d`, its head the job that runs; `pc`,
  `job`, `result` are the locals of the thread inside `_execute`; `pending`,
  `owner` are `self.pending` and `self.benchmark_owner`; `state` is the store and
  alone survives `Restart`; `worker[d]` is the model held by the process.
* *Atomicity.* Each critical section of `self.lock` is one action. `cancel()` is
  two, `CancelRead` and `CancelWrite`: it holds `self.lock` throughout, so no
  other section begins in between (`LockFree`), but the store is free, and
  `Publish`, which does not take `self.lock`, can fall there.
* *`_execute`* is `CancelBeforeStart`, `RejectBeforeStart`, `Begin`, `Expire`,
  `Execute`, `Settle`, `Publish`, `Finally`, one per section between two points
  where another thread may run. `Execute` chooses any result that
  `Actor.execute` can come back with (`Returns`); the device lease is in
  `CanServe` (`load_settings` and the model hub set `device_lock_path` for every
  deployment, so the worker always takes it). `actor.close` terminates, then
  kills, and may end neither way: `WorkersEnd` and `HeldAfter` let such a worker
  keep its model.
* *Abstractions.* Idempotency keys are the runs they create. An epoch is the load
  that minted it. Time is absent: a deadline may expire whenever the code looks.
  Payloads, metrics and events are left out.

### JobRunners

EXTENDS `ConsoleService` and adds the five exclusive runners, so that the runs of
a runner and the jobs of the service compete for the same slots, claim, store and
device.

* *State.* `task[r]` is the thread of a runner (kind, deployment, place, outcome);
  `child` the runs whose process is alive; `guard[r]` the guardian of a system
  experiment and `told` those that find the cancel file or their parent gone;
  `halted` and `quarantined` the runners' stop events and quarantine flags;
  `closed` how far the shutdown has come; `ingress` the sessions with an accepted
  request their worker has not seen. On disk or on the device, hence over
  restarts: `journal`, `power`, `published`.
* *Actions.* `StartTask` is `start` of all five, whose conditions differ in
  `Suitable`; `StartAsCloses` a start that the runner's close overtakes between
  its checks and its end, after which the thread still runs or there is none (an
  `orphan`, whose slot and claim nobody gives back); `RunnerThread` the steps of
  the thread, from the write of "running" (guarded in three runners, blind in two)
  over launch, work, seal, confirmation of the process's end and publication to
  the finally block; `Guardian` the steps of `system_guard.py`: lock, journal,
  change, experiment, restore, unlink, each of which may fail; `ReadGuard` the
  guardian's result, which may be unreadable and then quarantines; `ThreadFails`
  an error of the experiment's own thread; `GuardKilled`, `ChildEnds` what
  processes do by themselves; `RestartAll` a crash or restart; `OperatorRecovers`
  the documented manual recovery.
* *Composition.* `ServiceStep` is a step of `ConsoleService!Next` with
  `BesideRunners`: no load succeeds while a runner's process holds the device
  lock, and `close` comes after the runners' closes.
* *Abstractions.* Evidence files and metrics are left out. Of a task that is over
  the model remembers its kind only where something still depends on it
  (`Remembered`). L9 plans for the CPU, which take no device lock, are left out.

### ModelHub, ArtifactStore

`ModelHub` models `console/model_hub.py`; `ArtifactStore` states what it promises
about weights (a published deployment has a whole sealed snapshot, a loaded one is
not withdrawn), and `ModelHub` implements it.

* *State.* `jobs`, `part`, `seal`, `registered`, `native` are on disk and survive
  `Crash`; `stop`, `pool`, `worker` are the stop events, the queue and the place
  of the download thread; `configs`, `inUse` are the service's; `op` is the
  operation that holds the hub's lock over several writes.
* *Actions.* One per write of `register` and `delete`, one per step of `_run` at
  which cancel, close or a crash can come in between; three steps of a boot, each
  of which may leave the process down if what is registered does not fit
  (`BootRegistry` refuses more deployments than `max_deployments`, whatever the
  catalogue holds). `NativeRegister` marks in `crowded` the registration whose
  place it takes (`LosesPlace`).
* *Refinement mapping.* `sealed` is the set of plans with a whole directory,
  `deployed` is `configs` and the native engines of a running console, `loaded` is
  `inUse`. The ghost `crowded` names the plans of the window described in section
  5; they are excepted from the mapping.

### ApplicationEngine, MCApplicationEngine

The coordinator and the request threads of `serving/application_engine.py` with
the endpoints of `console/application_transport.py`; a region under `self.lock`
and an endpoint call are one step each. An endpoint call succeeds, fails cleanly,
or stays uncertain and leaves the node doing what it does (`NodeSettles`). Most
uncertain calls quarantine the endpoint. A load whose cancel raises does not
(`RemoteEndpoint.cancel`, called by `await_run`): it goes on at the node, which
`orphans` remembers. `lease` and `model` are the nodes' own state; `owned`,
`snapshots`, `activating`, `busy` what the engine believes. Time is absent:
cooldowns and deadlines pass at any step. Three ghosts name the exceptions to the
properties: `orphans`, `uncounted`, `raced` (section 5). Targets are managed, the
policy is autoscale, one variant is run.

### LiveEngine, SchedulerPolicies, BlockKV, MCLiveEngine

`LiveEngine` composes the planner (`SchedulerPolicies`, pure operators for
`plan`) and the storage (`BlockKV`, pure operators on a record for
`BlockKV`/`DeviceKV`) with the loop of `LiveEngine.run` and the sender thread.

* *State.* `order`, `state`, `reason`, `output`, `consumed` are the rows; `lease`
  is `KVManager.leases`; `kv` the executor's storage; `steps` the batch between
  planning and forward; `sent`, `queue`, `outstanding`, `finished` belong to the
  sender and are shared; `limits` is the session's `SchedulingLimits` with its
  mode, chosen in `Init` from the constant `Limits`.
* *Actions.* A turn is intake (`DrainItem`, `DrainEmpty`), the seal test
  (`SealCheck`), control messages (`Ingress`, `CancelRequest`), the scan of the
  rows (`ScanQuiet`, `ScanDue`, `ScanStop`), admission with preemption (`Admit`),
  planning and `prepare` (`PlanStep`) and the forward (`Forward`, or
  `ForwardFails` when the executor raises before or after writing its storage).
  `Sender` sends the next item; `SenderFails` is the exception that ends the
  sender early, with `finished` set and the rest of the workload unsent.
  `Close` is the worker's finally block.
* *Abstractions.* Tokens are counted. Orders that depend on time or on tenant
  service are arbitrary permutations. A refusal for want of device memory may
  happen on any batch when `headroom` is set. Lease generations are always read
  from the lease they are compared with and are left out.

### ServingGateway, MCServingGateway

`serving/gateway.py`: `req[r]` is one thread of the transport with the locals of
`handle` and `_serve` (place, state machine, code, what was written, the session),
and threads take request after request. Shared are `service`, `cancelled` and the
unguarded `inflight`, whose read and write are two steps (`reg` holds the value in
between; the ghost `raced` says that an update overwrote another). The transition
table is the code's; `Walk` stops at the first transition the table refuses, as
`transition()` raises there. Admission and router may decide anything and may
raise (`admit`, `route`); the backend session and the connection are external and
modelled from their use. A call of the backend, or the session's own `cancel`, may
raise an `HqsbError`, which `_serve` handles, or anything else, which passes
through the `finally` block (`throwing`) to the dispatch of the transport
(`escaped`, `Dispatch`), where the client gets an error if nothing was sent.
`deaf` marks a session whose `cancel` raised.

### CircuitBreaker

One breaker of `serving/circuit.py` and its callers. Every method that changes
state is an action; `allow_request` is three, one per admitting branch (a refusal
changes nothing). `inflight` stands for the callers and tells probes of the
present half-open period from requests admitted earlier. `window` and `run` are
counted as far as they are compared. Every observation in the window is a failure
(`record_success` appends none), so the failure rate over a non-empty window is 1
and only the number of samples decides. Section 4 has the bound on the probes
under way, section 5 its relation to the comment in `allow_request`.

### BlockPool

The pool of `runtime/kv.py`; a call is an action, and callers may use the whole
interface: `allocate` with `reuse`, `share` more than once, `release` of all or of
some blocks, and a second `release` (`inject_double_free` and
`scripts/runtime/run_e07.py` make one). An `allocate` that exhausts the pool
raises with what it has taken (`AllocateFails`). `MaxRefs` bounds the references
of one block.

### The proof modules

`ConsoleServiceProofs`, `JobRunnersProofs`, `ModelHubProofs`,
`ApplicationEngineProofs`, `LiveEngineProofs`, `ServingGatewayProofs` and
`CircuitBreakerProofs` extend the module in their name and hold the theorems of
section 4.

Operators whose name carries a suffix (`Begin_Blind`, `Release_Leaks`) are
deliberate defects, each standing next to the definition it spoils. They are used
by no specification; `PROJECT.json` lists under `mutants` which property detects
which, so that every property of a passing run is known to be able to fail.

---

## 3. Runs

`tlc -workers 2 -config X.cfg M` for module `M`.

| Run | Bounds | Checks |
|---|---|---|
| `console_queue` | 2 deployments (one native, one registered later), 3 runs, 1 campaign, all kinds, 2 slots | `PendingExact`, `StoreAgrees`, `BenchmarkExclusive`, `CancelNotLost`, `TerminalLostOnlyToCancel`: slots, agreement of store and threads, benchmark exclusivity, no cancel lost, ends overwritten only by a racing cancel |
| `console_shipped` | 2 GPU deployments, 5 runs, generate and load, the shipped 8 slots | *violation* of `OneGpuOwner`: two deployments own the GPU by their states |
| `runners_compose` | 1 deployment, 2 runs, 2 slots, all five runners, fairness | `TaskExclusive`, `PowerJournaled`, `OneGpuUser`, `RecordsKept`, `ResultsStand`, `WorkDrains`: the composition of section 2 over cancels, hung and killed processes, shutdown, restarts; jobs and tasks drain and close comes back |
| `hub_store` | 2 plans, 2 download records, 1 file each, 2 active, 2 deployments, fairness | `RecordsSound`, `ActiveScheduled`, `Restartable`, `CancelWins`, `DownloadsEnd`, and `StoreRefined`: the hub implements `ArtifactStore` |
| `app_lease` | 2 targets, 2 requests, policies 0..1 and 1..2 replicas, fairness | `OneOccupant`, `NoSilentLeak`, `ReplicasBounded`, `ExperimentEnds` |
| `engine_safe` | 3 requests (one over live ingress), 11 sessions | `LedgerSound`, `StorageSound`, `PlansFit`, `OutcomeComplete`, `TokensInOrder`: leases, storage and counters agree; limits hold; tokens in order; no internal error while there is room |
| `engine_live` | 3 requests, 3 sessions, fairness | `NobodyWaits`: every request and the session end |
| `gateway_serve` | 2 threads (each one request after another), 1 request id | `EndsCleaned`, `BackendReleased`, `AnswerTruthful`, `InflightSound` |
| `circuit_safe` | 4 requests, window 4, thresholds 3, 3 probes required, 2 slots, all outcomes | `CountersSound` |
| `circuit_shipped` | 3 requests, the shipped 3 probes required and 1 slot, fairness | *violation* of `HalfOpenEnds`: half open for ever |
| `gateway_ends` | 1 thread, 1 request id | *violation* of `EndsTerminal`: an outcome is returned with the machine in BACKEND_SUBMITTED |
| `pool_readers` | 2 blocks, 2 requests, 2 references of a block | *violation* of `FreeIsUnread`: a block that is read is offered to the next allocation |

**Why the bounds are enough.** Console: three runs are one that executes, one
queued behind it and one on another deployment; two slots make the queue both full
and shared. Five runs (`console_shipped`) are a load, two jobs that fail after it,
and two loads that pass each other; with five runs the eight slots never fill, and
the campaign and the other kinds are not needed for the violation. Runners: a task
is alone by design, so what two runs must show is a task against one job, against
another task, and against a process left over from an earlier console; both
happen. Hub: two plans make one thread wait for the other and a registration
compete for the last of two places; a file of a plan is complete or not, and one
suffices for a directory to be partial. Application: one policy makes
`max_replicas` bind, the other keeps one replica warm and scales the second; two
threads race for a target. Gateway: two threads that may carry the same id share a
cancel entry and the counter, and each starts over after its request. Engine:
requests of different lengths and one of higher priority make every limit bind in
some session: capacity 7 holds two of them, blocks of 2 leave partly filled tails,
a chunk of 2 splits the longest prompt, a padded rectangle of 7 trims a batch, a
pool of 3 blocks refuses. Circuit: four requests are two probes under way and two
late reports. The two other violations need one request each that a backend leaves
without an answer, and one block with two readers.

**Reductions.** Runs are interchangeable: `RunSymmetry` for model values, or the
constraint `RunsInOrder` for numbered runs, which only fixes the names in the
order of use. `DeploymentSymmetry` is used where all deployments are configured
and alike, `ThreadSymmetry` for the gateway's threads. `EndedView` identifies the
terminal states of a run, which no guard and none of the invariants checked under
it tells apart. No reduction is used in a run with a temporal property other than
an action property.

**Fairness.**

* Console and runners: an executor thread that can move does, since
  `Actor.execute` returns within its timeout and 10 s of grace and every section
  of the lock is finite; a runner's thread does, since each of its waits on a
  process has a deadline and a path for the process that does not end; a cancel
  finishes its write; `close` and recovery go on. Clients owe no call, and
  processes and guardians owe nothing: they may hang.
* Hub: boot, close and an operation that holds the lock go on (weak); the download
  thread, which needs the lock between other operations, obtains it if it is free
  again and again (strong).
* Application: the coordinator and the threads move, because each endpoint call
  has a timeout; deadlines pass.
* Engine: the engine thread takes the step it is at, the sender sends when it may;
  no control message, expiry, stop or failure (of a forward or of the sender) is
  owed.
* Circuit: the open duration passes, requests keep coming, and every routed
  request reports an end.

**Deadlock** is checked except for the breaker, the pool and the application
experiment: a breaker that refuses everybody only answers no, which changes
nothing; the pool's callers may all be done; an experiment ends.

---

## 4. Proofs

All proofs are checked by `tlapm` to the last leaf. They assume only the named
assumptions on the constants in the modules, which TLC evaluates in the runs.

**ConsoleServiceProofs.** For any deployments, runs, campaigns and limits:
`TypeCorrect`, `SlotsExact`, `ExclusiveBenchmark`, `StoreFollowsThreads`, and the
action properties `CancelStays` and `EndsLostOnlyToCancel`. The inductive
invariant is `TypeOK /\ PendingExact /\ BenchmarkExclusive /\ StoreAgrees`. None
of the four is inductive alone: that giving back a slot lowers a count that is
positive needs the job to be in flight; that an exclusive owner stays alone needs
`pending = 0` to mean that nothing is in flight; that `Begin` overwrites no cancel
and that recovery meets no thread needs the agreement of store and threads. The
steps are grouped (`StepKinds`) into those that start a job, move one, end one,
restart, or touch none, so that counting is argued once per group.

**CircuitBreakerProofs.** For any thresholds: `CountersAreSound`,
`BoundedProbes`. The invariant adds `HalfOpen`: in a half-open period at most
`probes + 1` probes are under way and a success is still missing; outside, no
request is a probe. Without it neither the bound on the probes nor the range of
`successes` is preserved. The bound of `BoundedProbes` is one more than the
declared concurrency, because the request that ends the open period is admitted
uncounted: it says how far the code is from its comment (section 5).

**ModelHubProofs.** For any plans, jobs and limits: `RecordsHold`,
`ScheduleHolds`, `RestartHolds`, the action property `CancelHolds`, and the
refinement `Spec => StoreRefined`. The invariant has a part for each pair of
records of the same thing that change at different times: thread and job
(`ThreadOK`), pool and states (`PoolOK`), the operation holding the lock and its
job (`OpOK`), registry file and published deployments (`PlacesOK`), deployments
and directories (`SealsOK`), and one live record per plan (`OnePlan`), without
which a deletion could remove the directory of another job. The refinement is
proved step by step: every action maps to a step of `ArtifactStore` or a stutter,
and the mapped set `deployed` changes in one step only because `SealsOK` and
`PlacesOK` relate it to what is on disk before and after.

**ApplicationEngineProofs.** For any targets, requests and policies:
`OccupantHolds`, `LeakHolds`, `BoundHolds`. The properties speak of marks (busy,
snapshots, activating, leases, owned) that different steps set and clear; the
invariant names for each mark the thread that is answerable for it now
(`OccupantOK`, `LeaseOK`, `OwnedOK`, `CleanOK`, `CountOK`, `WarmOK`). That no node
is given back under a load rests on `LeaseOK`: a load that no thread waits for is
quarantined or an orphan, its node is still leased, and `release` refuses it.

**JobRunnersProofs.** For any deployments, runs and choice of runners, on top of
`ConsoleServiceProofs`: `ExclusiveTask`, `JournalHolds`, `OneUserHolds`, and the
action properties `RecordsHold` and `ResultsHold`. The invariant of the service
alone is not an invariant of the composition, because a task takes a slot no job
accounts for; `ServiceOK` keeps what survives, and while a task is out the claim
leaves only those steps of the service that touch no job. The rest describes the
one task (`PlaceOK`, `RecordOK`), the processes that outlive it (`DeviceOK`), the
guardian (`GuardOK`: the limit is changed behind the journal only, and the journal
goes once the limit is back) and the results (`ResultOK`).

**ServingGatewayProofs.** For any number of threads and ids: `InflightHolds`,
`CleanedHolds`, `ReleasedHolds`, `TruthfulAnswers`. What client and backend have
seen at the end of a request depends on where its machine was when the loop was
left, so the invariant `RequestOK` describes the request at every place of its
thread, the ones that an exception passes through included. The lemmas on `Walk`
follow the paths of the code through the transition table; a result of its own is
that no transition in the try block is ever refused, so that the handler is
entered for exceptions of the backend, the session and the connection only.
`CleanedHolds` is about requests with a recorded end other than a failure; that
the others may be left open is the finding of `gateway_ends`.

**LiveEngineProofs.** For any workload, policy, layout and limits that the
experiment's own validation lets through (`LiveAssumption`): `LedgerTheorem`,
`StorageTheorem`, `PlansTheorem`, `OutcomeTheorem`, and the action property
`TokensTheorem`.

* *The data.* The planner, the admission, the commit and the release of rows are
  folds over sequences, the limits are compared with sums. `FoldTrace` turns each
  fold into a trace with one state per element, and what a fold keeps true is
  shown along the trace by the least element that breaks it (`LeastNumber`,
  `UpTo`), because the provers cannot instantiate the library's induction schemes.
  The same argument over the subsets of a finite set gives the laws of sums
  (`SumUnfold`, `SumRemove`, `SumMonotone`, `SumPart`). On these rest the lemmas
  about the operators: `PlanGood` and `TrimmedGood` (every policy's batch has one
  step per row, from where the row stands, within every limit), `Admits`
  (reservations stay within the capacity), `CommitPool` and `ReleaseAllPool` (a
  block is in one place and none is lost).
* *The invariant.* `Inv` has a part for each pair of records the loop changes at
  different places: the queue and the accepted rows (`SenderOK`), the row list and
  the states (`OrderOK`), counters and states (`RowsOK`), leases, progress and
  storage (`RowsTrue`), reservations (`Room`), the blocks (`Pool`), and the batch
  between planning and forward (`StepsOK`). The properties are not inductive
  without `StepsOK`: a commit is fresh and an emission complete only because the
  batch was planned from the rows as they still are. `FullInv` adds `Whole` (a row
  that is not chunked is at its start or one token behind), without which a turn
  could find active rows and no step that fits.
* *The pool.* Admission counts tokens and rows, the pool counts blocks. A row
  wastes less than one block (`BlocksInTokens`), so capacity rounded up plus one
  block per active row holds what admission let in (`PoolHolds`, `BatchGrowth`,
  `NotRefused`).

**Only model-checked:** liveness under fairness (`WorkDrains`, `DownloadsEnd`,
`ExperimentEnds`, `NobodyWaits`, `HalfOpenEnds`), which is out of the prover's
reach. Every safety property of a passing run is proved; the properties of the
four violation runs are false.

---

## 5. What the checks showed about the code

Four disagreements with the repository's own words are runs; `PROJECT.json` quotes
the lines under `findings`.

* `circuit_shipped`: probe slots are never given back, so with three required
  probes and one slot a half-open breaker whose probes all succeed never closes.
* `console_shipped`: "Only one local model may own this GPU" (`service.py:514`).
  The check goes by states that queued jobs of one deployment overwrite: a load
  accepted behind a job that then fails is hidden by the failure, and a second
  deployment is let in. The lock file still keeps the second model off the device.
* `pool_readers`: `allocate(reuse=...)` adds a reader without a reference, so the
  release of the other reader makes the block evictable while it is read, against
  "active/shared readers are never touched" (`kv.py:478`). A second release by a
  request that still reads or owns a shared block does the same.
* `gateway_ends`: "a request must end in exactly one of them" (`gateway.py:135`, of
  the terminal states). A backend that returns no further chunk before a finish
  reason leaves the machine open; so do a backend failure after the first token
  and an exception that is not an `HqsbError` (`gateway.py:1161`).

Some properties hold only with an exception that the property names, and the
exception is behaviour of the code:

* *Task service.* `cancel()` reads the run and writes `cancel_requested` while
  `_execute` publishes without the service's lock, so a run that has ended can
  become non-terminal for the rest of the process (`TerminalLostOnlyToCancel`,
  `RecordsKept`).
* *Runners.* Diagnostics and scheduling write "running" without looking, over a
  cancel recorded while they were queued (`RecordsKept`); the runners then look at
  the store and find no cancel. An L9 process whose end cannot be confirmed stays
  behind with the device lock given up by its parent (`OneGpuUser`); L9 is
  quarantined, the other users of the device are not kept off. A guardian that is
  killed leaves the changed power limit in force: the journal stops the next
  system experiment (`PowerJournaled`), while ordinary jobs run under it.
  A `start` that meets the close of its runner may be left without a thread: its
  run stays queued and its slot and claim are held until the restart. A journal
  that cannot be removed after a clean restore counts as an unclean end and keeps
  the runner quarantined.
* *Gateway.* A backend failure in the middle of a stream writes nothing more to
  the client, although the comment at `gateway.py:1118-1119` says that a failure
  after the head is committed "must be reported inside the stream"; the handler
  for exceptions does not come past it. `AnswerTruthful` therefore promises only
  that such an answer is never marked as complete. Two updates of `_inflight` that
  meet lose one (`InflightSound`). `_cancelled` keeps its entries for ever, so a
  later request under the same id is cancelled at once, and `force_cancel` sets
  entries that are set already, so it cancels nobody.
* *Model hub.* `register` gives its place away between its check of the limit and
  its publication, because a native engine is registered under the service's lock
  only; the console may then not start again (`Restartable`, ghost `crowded`). A
  cancel that comes while the recovery of a sealed directory is being recorded is
  overtaken by it (`CancelWins`).
* *Application experiment.* A load that completes and whose confirmation fails,
  and one left running by a cancel that raised, are nobody's: the replica may stay
  on its node after a cleanup without errors (`NoSilentLeak`, `orphans`). A
  generation that the coordinator gave up may go on at a remote node after its
  target is no longer busy. An `ensure` that fails after its load leaves a replica
  that is not counted (`uncounted`); a target chosen again before the thread that
  failed on it has left `choose` breaks the count (`raced`).

Observed with the same models and other constants or formulas:

* Console, more than one slot: a quantize that is cancelled behind a failed job
  writes "ready" with no model, and a queued generate can run on a newer model
  than the epoch it named, after a worker death and a second queued load.
  `configs/console/*.yaml` and the default of `console/config.py` allow eight.
* Engine: a batch shrunk to one row that the executor's estimate refuses ends the
  whole session with SCHEDULER_NO_PROGRESS if another row is active, against the
  comment "shrinking a batch always progresses".
* Circuit breaker: the request that ends the open period is admitted without being
  counted, so that one probe more than declared may be under way, against "only
  the declared number of concurrent probes" (`circuit.py:268`; `ProbesBounded`
  with the declared number alone is violated). Successes of requests admitted
  before the breaker opened count towards closing it. The router asks
  `allow_request` of every candidate it filters, also of one that another filter
  refuses or that is not chosen: such a probe slot is taken by nobody, which is
  the admitted request that never reports.
* Block pool: an exhausted `allocate` raises with every free block taken, where the
  interface map promises "no partial allocation; full rollback".

---

## 6. What is not modelled, and why

* **Within the modelled components:** the capability probes of the task service
  and of scheduling (`precision_capabilities`, `capabilities`), which hold a slot
  without a run; the store's event log and queries; I/O failures in the polling
  loop of system experiments; L9 plans for the CPU; the hub's catalogue refresh (a
  second pool that only reads); a failing `save_json` in the hub's `start` and
  `resume` (`model_hub.py:354-356`, `375-376`), which leaves an active record that
  nobody runs until the next boot, and a second native engine for the same plan
  (the code allows vllm and sglang side by side, the model one); prefix scopes,
  the result cache, existing-lifecycle targets and the second variant of the
  application experiment; the gateway's metrics and response formats; tensors,
  masks and receipts of the executor; memory geometry in `kv.py`; the audit
  helpers of `circuit.py`.
* **Planned:** the loop of the benchmark campaigns and the two-machine peers,
  admission, router, SSE reassembly, scheduler simulator, prefix cache, control
  plane, distributed faults.
* **Not intended:** quantisation, compiler, kernels and backends' numerics
  (floating point, device code); evaluation, benchmark, experiment, release and
  evidence code and the audit scripts (data processing and file formats); HTTP
  transport, telemetry and the web console (I/O and user interface). These make up
  most of the repository's 284,000 lines: what keeps state is a small share of it,
  and the share of lines the models cover is small for that reason.

---

## 7. Plan

In the order of what matters most for the system.

1. *Done.* `ConsoleService`, `CircuitBreaker` and `BlockPool`; `LiveEngine` over
   `SchedulerPolicies` and `BlockKV`; `JobRunners` composed with
   `ConsoleService`; `ServingGateway`; `ModelHub` implementing `ArtifactStore`;
   `ApplicationEngine`. Proofs of every safety property of the passing runs.
2. Admission queue and router, composed with `ServingGateway` and
   `CircuitBreaker`: permits are conserved, breaker reports match admissions.
3. Benchmark campaigns and peers over `ConsoleService` (poll, submit, cancel),
   including the slot race at the end of a run; the capability probes.
4. Runs of their own for the two disagreements that section 5 only describes (the
   in-stream failure event of the gateway, the declared number of probes).
5. `SchedulerSimulator`: `runtime/scheduler.py` over `BlockPool`, with preemption.
   Properties: budget never negative, a preempted request resumes, progress.
6. `PrefixCache`, then the control plane (`infra/lifecycle.py`, `canary.py`) and
   rank faults.
