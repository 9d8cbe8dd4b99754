--------------------------- MODULE ConsoleService ---------------------------
(***************************************************************************)
(* The console's task service (hqsb/console/service.py), the run store it  *)
(* writes (store.py) and the worker actors it drives (workers.py).         *)
(*                                                                         *)
(* Threads: one executor thread per deployment runs _execute for the jobs  *)
(* of that deployment in submission order; API threads call submit,        *)
(* cancel, token_budget, claim_benchmark, ...; a worker process per        *)
(* deployment holds the model.  self.lock (an RLock) guards the service's  *)
(* fields.  The store has a lock of its own, held only for one read or one *)
(* update, and _execute publishes a run's result WITHOUT self.lock.        *)
(*                                                                         *)
(* Every critical section of self.lock is one action.  cancel() is the one *)
(* section split in two, at the point where the store lock is free between *)
(* its read and its write; while it is there `canceller` names the run and *)
(* no other section of self.lock can begin.                                *)
(*                                                                         *)
(* Abstractions.  An idempotency key is the identity of the run it creates *)
(* (a retry of a used key returns the run, or a conflict, and changes      *)
(* nothing).  A deployment's epoch is the load run that minted it (a fresh *)
(* uuid per completed load), and worker[d] is the load run whose model the *)
(* process holds.  Metrics, events, captures and the `cleanup` label are   *)
(* left out.  Time is left out: a deadline may expire at any moment.       *)
(***************************************************************************)
EXTENDS Integers, Sequences, FiniteSets

CONSTANTS
    Deployments,     \* every deployment that may ever be registered
    Configured,      \* settings.deployments: registered at every start
    Gpu,             \* provider in {pytorch, vllm, sglang}
    Native,          \* provider in {vllm, sglang}
    Runs,            \* idempotency keys, and the runs they create
    Campaigns,       \* callers of claim_benchmark
    Kinds,           \* the job kinds the clients of this instance submit
    MaxPending,      \* settings.max_pending, Field(8, ge=1, le=64)
    MaxDeployments,  \* the sixteen of register_deployment
    None

AllKinds == {"generate", "quantize", "load", "unload", "draft_unload",
             "native_benchmark", "token_budget"}

ASSUME ConfigAssumption ==
    /\ Configured \subseteq Deployments
    /\ Native \subseteq Gpu /\ Gpu \subseteq Deployments
    /\ Kinds \subseteq AllKinds
    /\ IsFiniteSet(Runs)
    /\ MaxPending \in Nat \ {0} /\ MaxDeployments \in Nat
    /\ None \notin Runs /\ None \notin Campaigns
    /\ Runs \cap Campaigns = {}

VARIABLES
    phase,      \* the process: serving, closing, stopped or recovering
    configs,    \* deployments registered in this process
    dstate,     \* states[d]["state"]
    depoch,     \* states[d]["epoch"]
    worker,     \* the load whose model the worker process holds, or None
    queue,      \* executor of d: the job it runs, then those that wait
    pc,         \* where the thread that owns job r is in _execute
    job,        \* what was submitted as r
    result,     \* what actor.execute came back with for r
    pending,    \* self.pending
    owner,      \* self.benchmark_owner
    canceller,  \* the run a cancel() found live and has yet to write
    state       \* the store: the durable state of each run

volatile == <<configs, dstate, depoch, worker, queue, pc, job, result,
              pending, owner, canceller>>
vars == <<phase, volatile, state>>

TERMINAL == {"completed", "failed", "cancelled", "timed_out", "interrupted"}
RunStates == {"absent", "queued", "running", "cancel_requested"} \cup TERMINAL
DeploymentStates ==
    {"unloaded", "loading", "ready", "draining", "quantizing", "failed"}
Stages == {"none", "queued", "running", "settling", "publishing", "finally"}
Finishes == {"completed", "failed", "cancelled", "timed_out", "raised"}

Results == [finish : Finishes, worker_terminated : BOOLEAN]
Jobs == [kind : AllKinds, dep : Deployments, epoch : Runs \cup {None},
         by : Campaigns \cup {None}]

(***************************************************************************)
(* Shared vocabulary.                                                      *)
(***************************************************************************)
Closed == phase \in {"closing", "stopped"}
LockFree == phase \in {"serving", "closing"} /\ canceller = None
Outstanding == {r \in Runs : pc[r] # "none"}
Occupied(d) == d \in configs /\ dstate[d] \notin {"unloaded", "failed"}

\* The executor thread of d runs r: r is its oldest job, at stage s.
AtStage(d, r, s) == queue[d] # << >> /\ r = Head(queue[d]) /\ pc[r] = s

\* actor.close, for the deployments of S: terminate, then kill, each waited for
\* 5 s.  A worker that neither ends keeps the model it holds until it dies.
WorkersEnd(S) ==
    \E ended \in SUBSET S :
        worker' = [d \in Deployments |-> IF d \in ended THEN None ELSE worker[d]]

\* _reserve
Reserve == phase = "serving" /\ pending < MaxPending

-----------------------------------------------------------------------------
Init ==
    /\ phase = "serving"
    /\ configs = Configured
    /\ dstate = [d \in Deployments |-> "unloaded"]
    /\ depoch = [d \in Deployments |-> None]
    /\ worker = [d \in Deployments |-> None]
    /\ queue = [d \in Deployments |-> << >>]
    /\ pc = [r \in Runs |-> "none"]
    /\ job = [r \in Runs |-> None]
    /\ result = [r \in Runs |-> None]
    /\ pending = 0
    /\ owner = None
    /\ canceller = None
    /\ state = [r \in Runs |-> "absent"]

-----------------------------------------------------------------------------
(***************************************************************************)
(* API threads.                                                            *)
(***************************************************************************)

\* register_deployment: publish a deployment, unloaded, with its own executor.
RegisterDeployment(d) ==
    /\ LockFree /\ phase = "serving"
    /\ d \notin configs
    /\ Cardinality(configs) < MaxDeployments
    /\ configs' = configs \cup {d}
    /\ UNCHANGED <<phase, dstate, depoch, worker, queue, pc, job, result,
                   pending, owner, canceller, state>>

\* retire_deployments, for one dynamic deployment: its actor is closed and its
\* entries are deleted (a later registration starts again from "unloaded").
RetireDeployment(d) ==
    /\ LockFree /\ phase = "serving"
    /\ pending = 0 /\ owner = None
    /\ d \in configs \ Configured
    /\ ~Occupied(d) /\ depoch[d] = None
    /\ configs' = configs \ {d}
    /\ dstate' = [dstate EXCEPT ![d] = "unloaded"]
    /\ WorkersEnd({d})
    /\ UNCHANGED <<phase, depoch, queue, pc, job, result, pending, owner,
                   canceller, state>>

\* Mutant: a claim does not wait for the service to be idle.
ClaimBenchmark_Busy(c, d) ==
    /\ LockFree /\ Reserve
    /\ owner = None
    /\ d \in configs /\ d \in Gpu \ Native
    /\ \A e \in (Gpu \ Native) \ {d} : ~Occupied(e)
    /\ owner' = c
    /\ UNCHANGED <<phase, configs, dstate, depoch, worker, queue, pc, job,
                   result, pending, canceller, state>>

\* claim_benchmark
ClaimBenchmark(c, d) ==
    /\ LockFree /\ Reserve
    /\ owner = None /\ pending = 0
    /\ d \in configs /\ d \in Gpu \ Native
    /\ \A e \in (Gpu \ Native) \ {d} : ~Occupied(e)
    /\ owner' = c
    /\ UNCHANGED <<phase, configs, dstate, depoch, worker, queue, pc, job,
                   result, pending, canceller, state>>

\* release_benchmark.  Its callers release in a finally block, whatever became
\* of the runs they submitted.
ReleaseBenchmark(c) ==
    /\ LockFree
    /\ owner = c
    /\ owner' = None
    /\ UNCHANGED <<phase, configs, dstate, depoch, worker, queue, pc, job,
                   result, pending, canceller, state>>

\* The per-kind state checks of submit and token_budget.  A client names the
\* epoch it read (a string, so never None); a different one is STALE_EPOCH.
Admissible(kind, d) ==
    \/ kind = "generate" /\ dstate[d] = "ready" /\ depoch[d] # None
    \/ kind = "quantize" /\ dstate[d] = "ready" /\ depoch[d] # None
       /\ d \in Gpu \ Native
    \/ kind = "load" /\ ~Occupied(d)
       /\ (d \in Gpu => \A e \in Gpu \ {d} : ~Occupied(e))
    \/ kind = "unload" /\ dstate[d] = "ready"
    \/ kind = "draft_unload" /\ dstate[d] = "ready" /\ depoch[d] # None
       /\ pending = 0 /\ d \in Gpu \ Native
    \/ kind = "native_benchmark" /\ dstate[d] = "ready" /\ depoch[d] # None
       /\ pending = 0 /\ d \in Native

\* states[d]["state"] once a job of this kind is accepted.
Accepted(kind, s) ==
    CASE kind = "load"     -> "loading"
      [] kind = "unload"   -> "draining"
      [] kind = "quantize" -> "quantizing"
      [] OTHER             -> s

\* Hand r to the executor of d and count it.
Enqueue(r, kind, d, by) ==
    /\ pc' = [pc EXCEPT ![r] = "queued"]
    /\ job' = [job EXCEPT ![r] = [kind |-> kind, dep |-> d,
                                  epoch |-> depoch[d], by |-> by]]
    /\ queue' = [queue EXCEPT ![d] = Append(@, r)]
    /\ pending' = pending + 1

\* submit with a fresh key: the store gets the run (created and accepted in one
\* transaction), the deployment its transitional state, the executor the job.
Submit(r, kind, d, by) ==
    /\ LockFree
    /\ d \in configs
    /\ state[r] = "absent" /\ pc[r] = "none"
    /\ owner \in {None, by}
    /\ Reserve
    /\ Admissible(kind, d)
    /\ state' = [state EXCEPT ![r] = "queued"]
    /\ owner' = IF kind = "native_benchmark" THEN r ELSE owner
    /\ dstate' = [dstate EXCEPT ![d] = Accepted(kind, @)]
    /\ Enqueue(r, kind, d, by)
    /\ UNCHANGED <<phase, configs, depoch, worker, result, canceller>>

\* token_budget: a job with no run in the store, on an idle service only.
TokenBudget(r, d) ==
    /\ LockFree /\ Reserve
    /\ owner = None /\ pending = 0
    /\ d \in configs /\ d \in Gpu \ Native
    /\ dstate[d] = "ready" /\ depoch[d] # None
    /\ state[r] = "absent" /\ pc[r] = "none"
    /\ Enqueue(r, "token_budget", d, None)
    /\ UNCHANGED <<phase, configs, dstate, depoch, worker, result, owner,
                   canceller, state>>

\* cancel, first half: under self.lock, the run is read and found live.
CancelRead(r) ==
    /\ LockFree
    /\ state[r] \notin TERMINAL \cup {"absent", "cancel_requested"}
    /\ canceller' = r
    /\ UNCHANGED <<phase, configs, dstate, depoch, worker, queue, pc, job,
                   result, pending, owner, state>>

\* cancel, second half: the update, whatever the run has become meanwhile.
CancelWrite ==
    /\ canceller # None
    /\ state' = [state EXCEPT ![canceller] = "cancel_requested"]
    /\ canceller' = None
    /\ UNCHANGED <<phase, configs, dstate, depoch, worker, queue, pc, job,
                   result, pending, owner>>

-----------------------------------------------------------------------------
(***************************************************************************)
(* The executor thread of d, inside _execute.                              *)
(***************************************************************************)

\* states[d]["state"] when r is cancelled before it started.
Restored(kind, s) ==
    CASE kind = "load"                   -> "unloaded"
      [] kind \in {"unload", "quantize"} -> "ready"
      [] OTHER                           -> s

\* Mutant: the cancelled run goes on to publish the result it does not have.
CancelBeforeStart_NoReturn(d, r) ==
    /\ LockFree
    /\ AtStage(d, r, "queued")
    /\ state[r] = "cancel_requested"
    /\ dstate' = [dstate EXCEPT ![d] = Restored(job[r].kind, @)]
    /\ state' = [state EXCEPT ![r] = "cancelled"]
    /\ pc' = [pc EXCEPT ![r] = "publishing"]
    /\ UNCHANGED <<phase, configs, depoch, worker, queue, job, result, pending,
                   owner, canceller>>

\* The run was cancelled while it waited: it never reaches the worker.
CancelBeforeStart(d, r) ==
    /\ LockFree
    /\ AtStage(d, r, "queued")
    /\ state[r] = "cancel_requested"
    /\ dstate' = [dstate EXCEPT ![d] = Restored(job[r].kind, @)]
    /\ state' = [state EXCEPT ![r] = "cancelled"]
    /\ pc' = [pc EXCEPT ![r] = "finally"]
    /\ UNCHANGED <<phase, configs, depoch, worker, queue, job, result, pending,
                   owner, canceller>>

\* The second _preflight, at the head of the queue, refuses the run.
RejectBeforeStart(d, r) ==
    /\ LockFree
    /\ AtStage(d, r, "queued")
    /\ state[r] = "queued"
    /\ job[r].kind \in {"generate", "quantize"}
    /\ dstate' = [dstate EXCEPT ![d] = IF job[r].kind = "quantize" THEN "ready" ELSE @]
    /\ state' = [state EXCEPT ![r] = "failed"]
    /\ pc' = [pc EXCEPT ![r] = "finally"]
    /\ UNCHANGED <<phase, configs, depoch, worker, queue, job, result, pending,
                   owner, canceller>>

\* Mutant: the run starts without a look at the store.
Begin_Blind(d, r) ==
    /\ LockFree
    /\ AtStage(d, r, "queued")
    /\ job[r].kind # "token_budget"
    /\ state' = [state EXCEPT ![r] = "running"]
    /\ pc' = [pc EXCEPT ![r] = "running"]
    /\ UNCHANGED <<phase, configs, dstate, depoch, worker, queue, job, result,
                   pending, owner, canceller>>

\* The run starts.
Begin(d, r) ==
    /\ LockFree
    /\ AtStage(d, r, "queued")
    /\ state[r] = "queued"
    /\ state' = [state EXCEPT ![r] = "running"]
    /\ pc' = [pc EXCEPT ![r] = "running"]
    /\ UNCHANGED <<phase, configs, dstate, depoch, worker, queue, job, result,
                   pending, owner, canceller>>

\* The time in the queue used the whole deadline up: the worker is not asked.
Expire(d, r) ==
    /\ LockFree
    /\ AtStage(d, r, "running")
    /\ job[r].kind \in {"generate", "quantize"}
    /\ dstate' = [dstate EXCEPT ![d] = IF job[r].kind = "quantize" THEN "ready" ELSE @]
    /\ result' = [result EXCEPT ![r] = [finish |-> "timed_out", worker_terminated |-> FALSE]]
    /\ pc' = [pc EXCEPT ![r] = "publishing"]
    /\ UNCHANGED <<phase, configs, depoch, worker, queue, job, pending, owner,
                   canceller, state>>

\* Actor.execute polls these: someone asked for the run to stop.
StopAsked(r) == Closed \/ state[r] = "cancel_requested"

\* The provider can carry the command out.  A worker that died was replaced by
\* a fresh one without a model: inference needs the model, load needs the
\* worker empty and, on the GPU, the device lease that every worker which holds
\* a model keeps (one lock file per host: load_settings gives it to each pytorch
\* deployment that names none, and the native engines require it).
CanServe(kind, d) ==
    CASE kind = "load" -> /\ worker[d] = None
                          /\ d \in Gpu => \A e \in Gpu : worker[e] = None
      [] kind \in {"generate", "quantize", "native_benchmark", "token_budget"}
           -> d \in Gpu => worker[d] # None
      [] OTHER -> TRUE

\* What Actor.execute may come back with: an error, the worker's or its death;
\* the worker terminated, 10 s after a stop or a timeout it did not answer; or
\* the provider's answer, which for some kinds is that it saw the cancel event.
Returns(r, d) ==
    LET kind == job[r].kind
        stopped == {"timed_out"} \cup (IF StopAsked(r) THEN {"cancelled"} ELSE {})
        interruptible == kind \in {"generate", "quantize", "native_benchmark"}
    IN  {x \in Results :
           \/ x.finish = "raised" /\ ~x.worker_terminated
           \/ x.finish \in stopped /\ x.worker_terminated /\ kind # "token_budget"
           \/ /\ CanServe(kind, d) /\ ~x.worker_terminated
              /\ \/ x.finish = "completed"
                 \/ x.finish = "failed" /\ kind \in {"generate", "native_benchmark"}
                 \/ x.finish \in stopped /\ interruptible}

\* The models the worker of d may hold once r came back with x.  An error path,
\* a stop that was not answered and an unload call actor.close, and a worker that
\* close cannot end keeps its model, or the one it was loading.
HeldAfter(r, d, x) ==
    LET loading == job[r].kind = "load"
    IN  IF x.worker_terminated \/ x.finish = "raised" \/ job[r].kind = "unload"
        THEN {None, worker[d]}
                \cup (IF loading /\ CanServe("load", d) THEN {r} ELSE {})
        ELSE {IF loading THEN r ELSE worker[d]}

\* actor.execute returns or raises.  No lock is held.
Execute(d, r) ==
    /\ \/ AtStage(d, r, "running")
       \/ AtStage(d, r, "queued") /\ job[r].kind = "token_budget"
    /\ \E x \in Returns(r, d) : \E held \in HeldAfter(r, d, x) :
          /\ result' = [result EXCEPT ![r] = x]
          /\ worker' = [worker EXCEPT ![d] = held]
    /\ pc' = [pc EXCEPT ![r] = "settling"]
    /\ UNCHANGED <<phase, configs, dstate, depoch, queue, job, pending, owner,
                   canceller, state>>

\* The deployment after actor.execute: failed after an error, unloaded once the
\* worker is gone, ready after a load or a quantization, else as it was.  Its
\* epoch goes with the model; a completed load mints a new one.
WorkerGone(r) == job[r].kind = "unload" \/ result[r].worker_terminated
SettledState(r, d) ==
    IF result[r].finish = "raised" THEN "failed"
    ELSE IF WorkerGone(r) THEN "unloaded"
    ELSE IF job[r].kind \in {"load", "quantize"} THEN "ready" ELSE dstate[d]
SettledEpoch(r, d) ==
    IF result[r].finish = "raised" \/ WorkerGone(r) THEN None
    ELSE IF job[r].kind = "load" THEN r ELSE depoch[d]

\* Under self.lock the deployment's state follows the result.
Settle(d, r) ==
    /\ LockFree
    /\ AtStage(d, r, "settling")
    /\ dstate' = [dstate EXCEPT ![d] = SettledState(r, d)]
    /\ depoch' = [depoch EXCEPT ![d] = SettledEpoch(r, d)]
    /\ pc' = [pc EXCEPT ![r] = IF job[r].kind = "token_budget" THEN "finally"
                                                               ELSE "publishing"]
    /\ UNCHANGED <<phase, configs, worker, queue, job, result, pending, owner,
                   canceller, state>>

\* The run's end is written to the store, with no look at what it says now and
\* outside self.lock.
Publish(d, r) ==
    /\ AtStage(d, r, "publishing")
    /\ state' = [state EXCEPT ![r] = IF result[r].finish = "raised"
                                     THEN "failed" ELSE result[r].finish]
    /\ pc' = [pc EXCEPT ![r] = "finally"]
    /\ UNCHANGED <<phase, configs, dstate, depoch, worker, queue, job, result,
                   pending, owner, canceller>>

\* Mutant: a run that never reached the worker keeps its slot.
Finally_SlotKept(d, r) ==
    /\ LockFree
    /\ AtStage(d, r, "finally")
    /\ pending' = IF result[r] = None THEN pending ELSE pending - 1
    /\ queue' = [queue EXCEPT ![d] = Tail(@)]
    /\ pc' = [pc EXCEPT ![r] = "none"]
    /\ job' = [job EXCEPT ![r] = None]
    /\ result' = [result EXCEPT ![r] = None]
    /\ UNCHANGED <<phase, configs, dstate, depoch, worker, owner, canceller, state>>

\* The finally block: the slot is given back and the thread takes its next job.
Finally(d, r) ==
    /\ LockFree
    /\ AtStage(d, r, "finally")
    /\ pending' = pending - 1
    /\ owner' = IF job[r].kind = "native_benchmark" /\ owner = r THEN None ELSE owner
    /\ queue' = [queue EXCEPT ![d] = Tail(@)]
    /\ pc' = [pc EXCEPT ![r] = "none"]
    /\ job' = [job EXCEPT ![r] = None]
    /\ result' = [result EXCEPT ![r] = None]
    /\ UNCHANGED <<phase, configs, dstate, depoch, worker, canceller, state>>

Executor(d, r) ==
    \/ CancelBeforeStart(d, r) \/ RejectBeforeStart(d, r) \/ Begin(d, r)
    \/ Expire(d, r) \/ Execute(d, r) \/ Settle(d, r) \/ Publish(d, r)
    \/ Finally(d, r)

-----------------------------------------------------------------------------
(***************************************************************************)
(* The process: worker death, close, crash and restart.                    *)
(***************************************************************************)

\* A worker process dies.  Nobody notices until its next command.
WorkerDies(d) ==
    /\ worker[d] # None
    /\ worker' = [worker EXCEPT ![d] = None]
    /\ UNCHANGED <<phase, configs, dstate, depoch, queue, pc, job, result,
                   pending, owner, canceller, state>>

\* close, first part: no new work from here on.
Close ==
    /\ LockFree /\ phase = "serving"
    /\ phase' = "closing"
    /\ UNCHANGED <<volatile, state>>

\* close, the rest: every executor ran its queue dry, the actors are closed and
\* so is the store (a cancel still between read and write fails on it).
Closing ==
    /\ phase = "closing"
    /\ \A d \in Deployments : queue[d] = << >>
    /\ phase' = "stopped"
    /\ WorkersEnd(Deployments)
    /\ canceller' = None
    /\ UNCHANGED <<configs, dstate, depoch, queue, pc, job, result, pending,
                   owner, state>>

\* The process ends, cleanly or not, and a new one opens the store.  Workers
\* receive SIGTERM when their parent dies.  Only the store survives.
Restart ==
    /\ phase # "recovering"
    /\ phase' = "recovering"
    /\ configs' = Configured
    /\ dstate' = [d \in Deployments |-> "unloaded"]
    /\ depoch' = [d \in Deployments |-> None]
    /\ WorkersEnd(Deployments)
    /\ queue' = [d \in Deployments |-> << >>]
    /\ pc' = [r \in Runs |-> "none"]
    /\ job' = [r \in Runs |-> None]
    /\ result' = [r \in Runs |-> None]
    /\ pending' = 0
    /\ owner' = None
    /\ canceller' = None
    /\ UNCHANGED state

\* Mutant: recovery marks every run in the store.
Recover_Every(r) ==
    /\ phase = "recovering"
    /\ state[r] \notin {"absent", "interrupted"}
    /\ state' = [state EXCEPT ![r] = "interrupted"]
    /\ UNCHANGED <<phase, volatile>>

\* Mutant: recovery runs beside a process that is serving.
Recover_WhileServing(r) ==
    /\ state[r] \notin TERMINAL \cup {"absent"}
    /\ state' = [state EXCEPT ![r] = "interrupted"]
    /\ UNCHANGED <<phase, volatile>>

\* store.recover, one run of its loop.
Recover(r) ==
    /\ phase = "recovering"
    /\ state[r] \notin TERMINAL \cup {"absent"}
    /\ state' = [state EXCEPT ![r] = "interrupted"]
    /\ UNCHANGED <<phase, volatile>>

\* __init__ returns: the service serves.
Serve ==
    /\ phase = "recovering"
    /\ \A r \in Runs : state[r] \in TERMINAL \cup {"absent"}
    /\ phase' = "serving"
    /\ UNCHANGED <<volatile, state>>

-----------------------------------------------------------------------------
Next ==
    \/ \E d \in Deployments :
          RegisterDeployment(d) \/ RetireDeployment(d) \/ WorkerDies(d)
    \/ \E c \in Campaigns : ReleaseBenchmark(c) \/ \E d \in Deployments : ClaimBenchmark(c, d)
    \/ \E r \in Runs, d \in Deployments, kind \in Kinds \ {"token_budget"},
          by \in Campaigns \cup {None} : Submit(r, kind, d, by)
    \/ \E r \in Runs, d \in Deployments :
          \/ "token_budget" \in Kinds /\ TokenBudget(r, d)
          \/ Executor(d, r)
    \/ \E r \in Runs : CancelRead(r) \/ Recover(r)
    \/ CancelWrite \/ Close \/ Closing \/ Restart \/ Serve

Spec == Init /\ [][Next]_vars

-----------------------------------------------------------------------------
(***************************************************************************)
(* Properties.                                                             *)
(***************************************************************************)

\* The types of the service's fields and of the store; a thread inside
\* _execute has its arguments, and a result once actor.execute came back.
TypeOK ==
    /\ phase \in {"serving", "closing", "stopped", "recovering"}
    /\ configs \subseteq Deployments
    /\ dstate \in [Deployments -> DeploymentStates]
    /\ depoch \in [Deployments -> Runs \cup {None}]
    /\ worker \in [Deployments -> Runs \cup {None}]
    /\ queue \in [Deployments -> Seq(Runs)]
    /\ pc \in [Runs -> Stages]
    /\ job \in [Runs -> Jobs \cup {None}]
    /\ result \in [Runs -> Results \cup {None}]
    /\ pending \in Nat
    /\ owner \in Campaigns \cup Runs \cup {None}
    /\ canceller \in Runs \cup {None}
    /\ state \in [Runs -> RunStates]
    /\ \A r \in Runs : pc[r] # "none" => job[r] \in Jobs
    /\ \A r \in Runs : pc[r] \in {"settling", "publishing"} => result[r] \in Results

\* self.pending counts exactly the jobs that hold a slot: every path through
\* _execute, its early returns and its except clause included, gives back the
\* slot submit took, once, and never more than max_pending are out.
PendingExact ==
    /\ pending = Cardinality(Outstanding)
    /\ pending <= MaxPending

\* While a benchmark owns the service, every job in flight was submitted by
\* that owner or is the native benchmark itself: claim_benchmark sees an idle
\* service, and from then on submit turns everyone else away.
BenchmarkExclusive ==
    owner # None =>
        \A r \in Outstanding : r = owner \/ job[r].by = owner

\* While a thread owns a run the store shows the run live, at the thread's own
\* stage or cancel_requested; a token_budget never shows in the store; nothing
\* is in flight while recovery rewrites what a dead process left behind.
StoreAgrees ==
    /\ \A r \in Outstanding :
          IF job[r].kind = "token_budget"
          THEN state[r] = "absent" /\ pc[r] \in {"queued", "settling", "finally"}
          ELSE /\ state[r] # "absent"
               /\ pc[r] = "queued" => state[r] \in {"queued", "cancel_requested"}
               /\ pc[r] \in {"running", "settling", "publishing"}
                     => state[r] \in {"running", "cancel_requested"}
    /\ canceller # None => state[canceller] # "absent" /\ phase # "recovering"
    /\ phase = "recovering" => Outstanding = {}

\* One process at most holds a model on the GPU: the part of JobRunners' device
\* invariant that is about the workers alone.
OneGpuModel ==
    \A d, e \in Gpu : worker[d] # None /\ worker[e] # None => d = e

\* "Only one local model may own this GPU" (the DEVICE_BUSY check of submit), as
\* the deployments' own states, which submit consults, tell it.
OneGpuOwner ==
    \A d, e \in Gpu : Occupied(d) /\ Occupied(e) => d = e

\* A cancel that was recorded stays recorded until the run ends: no later write
\* of the executor thread puts the run back to running.
CancelNotLost ==
    [][\A r \in Runs : state[r] = "cancel_requested"
                          => state'[r] \in {"cancel_requested"} \cup TERMINAL]_vars

\* The end of a run is only ever overwritten by a cancel that had read it while
\* it was live: not by the executor thread, a retry or the recovery.
TerminalLostOnlyToCancel ==
    [][\A r \in Runs : state[r] \in TERMINAL /\ state'[r] # state[r]
                          => canceller = r /\ state'[r] = "cancel_requested"]_vars
=============================================================================
