------------------------ MODULE ConsoleServiceProofs ------------------------
(***************************************************************************)
(* Proofs about ConsoleService, for any set of deployments, any finite set *)
(* of runs and any bound on the queue.                                     *)
(*                                                                         *)
(* The slot count is what everything leans on.  That it stays a natural    *)
(* number (TypeOK) needs the finally block to find a slot to give back;    *)
(* that claim_benchmark, which only tests pending = 0, finds no job in     *)
(* flight needs the count to be exact.  That no thread overwrites the end  *)
(* of a run needs the store to agree with the thread.  So TypeOK,          *)
(* PendingExact, BenchmarkExclusive and StoreAgrees are proved together,   *)
(* as one inductive invariant.  The last lemmas, about the workers on the  *)
(* GPU, are for JobRunnersProofs.                                          *)
(***************************************************************************)
EXTENDS ConsoleService, FiniteSetTheorems, TLAPS

\* The inductive invariant.
Inv == TypeOK /\ PendingExact /\ BenchmarkExclusive /\ StoreAgrees

\* There are finitely many jobs in flight, and their number is a number.
LEMMA OutstandingFinite == IsFiniteSet(Outstanding) /\ Cardinality(Outstanding) \in Nat
<1>1. IsFiniteSet(Outstanding)
  BY ConfigAssumption, FS_Subset DEF Outstanding
<1>2. QED
  BY <1>1, FS_CardinalityType

\* A thread at a stage other than "none" is in flight: the count is positive.
LEMMA InFlight ==
  ASSUME NEW r \in Runs, pc[r] # "none"
  PROVE  r \in Outstanding /\ Cardinality(Outstanding) \in Nat \ {0}
<1>1. r \in Outstanding
  BY DEF Outstanding
<1>2. Cardinality(Outstanding) # 0
  BY <1>1, OutstandingFinite, FS_EmptySet
<1>3. QED
  BY <1>1, <1>2, OutstandingFinite

\* No job in flight when the count is zero.
LEMMA NobodyInFlight ==
  ASSUME Cardinality(Outstanding) = 0
  PROVE  Outstanding = {}
BY OutstandingFinite, FS_EmptySet

\* Submission adds one job to those in flight.
LEMMA OneMore ==
  ASSUME TypeOK, NEW r \in Runs, pc[r] = "none", pc' = [pc EXCEPT ![r] = "queued"]
  PROVE  /\ Outstanding' = Outstanding \cup {r}
         /\ Cardinality(Outstanding') = Cardinality(Outstanding) + 1
<1>1. Outstanding' = Outstanding \cup {r}
  BY DEF Outstanding, TypeOK
<1>2. r \notin Outstanding
  BY DEF Outstanding
<1>3. QED
  BY <1>1, <1>2, OutstandingFinite, FS_AddElement

\* The finally block takes one job out.
LEMMA OneLess ==
  ASSUME TypeOK, NEW r \in Runs, pc[r] # "none", pc' = [pc EXCEPT ![r] = "none"]
  PROVE  /\ Outstanding' = Outstanding \ {r}
         /\ Cardinality(Outstanding') = Cardinality(Outstanding) - 1
<1>1. Outstanding' = Outstanding \ {r}
  BY DEF Outstanding, TypeOK
<1>2. r \in Outstanding
  BY DEF Outstanding
<1>3. QED
  BY <1>1, <1>2, OutstandingFinite, FS_RemoveElement

\* Every other step of a thread moves it between stages and keeps it in flight.
LEMMA SameInFlight ==
  ASSUME TypeOK, NEW r \in Runs, NEW s, s # "none", pc[r] # "none",
         pc' = [pc EXCEPT ![r] = s]
  PROVE  Outstanding' = Outstanding
BY DEF Outstanding, TypeOK

-----------------------------------------------------------------------------
(***************************************************************************)
(* TypeOK is preserved.                                                    *)
(***************************************************************************)

\* The job at the head of a queue is a run, and it has its arguments.
LEMMA HeadJob ==
  ASSUME TypeOK, NEW d \in Deployments, NEW r \in Runs, NEW s, s # "none", AtStage(d, r, s)
  PROVE  job[r] \in Jobs /\ pc[r] = s
BY DEF TypeOK, AtStage

\* actor.close changes the workers it is meant for, and those to None at most.
LEMMA EndedWorkers ==
  ASSUME TypeOK, NEW S \in SUBSET Deployments, WorkersEnd(S)
  PROVE  /\ worker' \in [Deployments -> Runs \cup {None}]
         /\ \A d \in Deployments : worker'[d] \in {worker[d], None}
         /\ \A d \in Deployments \ S : worker'[d] = worker[d]
BY DEF WorkersEnd, TypeOK

\* Whatever actor.execute came back with is a result, and what the worker then
\* holds is a load or nothing.
LEMMA ExecuteTypes ==
  ASSUME TypeOK, NEW d \in Deployments, NEW r \in Runs, NEW x \in Returns(r, d)
  PROVE  x \in Results /\ HeldAfter(r, d, x) \subseteq Runs \cup {None}
<1>1. x \in Results
  BY DEF Returns
<1>2. QED
  BY <1>1 DEF HeldAfter, TypeOK

\* What Settle writes for a deployment has the right type.
LEMMA SettledTypes ==
  ASSUME TypeOK, NEW d \in Deployments, NEW r \in Runs
  PROVE  /\ SettledState(r, d) \in DeploymentStates
         /\ SettledEpoch(r, d) \in Runs \cup {None}
BY DEF SettledState, SettledEpoch, TypeOK, DeploymentStates

\* Handing a run to an executor keeps the types.
LEMMA EnqueueTypes ==
  ASSUME TypeOK, NEW r \in Runs, NEW kind \in AllKinds, NEW d \in Deployments,
         NEW by \in Campaigns \cup {None}, Enqueue(r, kind, d, by)
  PROVE  /\ pc' \in [Runs -> Stages]
         /\ job' \in [Runs -> Jobs \cup {None}]
         /\ queue' \in [Deployments -> Seq(Runs)]
         /\ pending' \in Nat
         /\ \A q \in Runs : pc'[q] # "none" => job'[q] \in Jobs
<1>1. [kind |-> kind, dep |-> d, epoch |-> depoch[d], by |-> by] \in Jobs
  BY DEF Jobs, TypeOK
<1>2. QED
  BY <1>1 DEF Enqueue, TypeOK, Stages

\* One step per action; the executor's steps use the lemmas above.
LEMMA TypeStep == Inv /\ [Next]_vars => TypeOK'
<1> SUFFICES ASSUME Inv, [Next]_vars PROVE TypeOK'
  OBVIOUS
<1>0. TypeOK
  BY DEF Inv
<1>1. CASE UNCHANGED vars
  BY <1>0, <1>1 DEF TypeOK, vars, volatile
<1>2. ASSUME NEW d \in Deployments, RegisterDeployment(d) \/ RetireDeployment(d) \/ WorkerDies(d)
      PROVE  TypeOK'
  <2>1. RetireDeployment(d) => worker' \in [Deployments -> Runs \cup {None}]
    BY <1>0, EndedWorkers DEF RetireDeployment
  <2>2. QED
    BY <1>0, <1>2, <2>1 DEF TypeOK, RegisterDeployment, RetireDeployment, WorkerDies, DeploymentStates
<1>3. ASSUME NEW c \in Campaigns, ReleaseBenchmark(c) \/ \E d \in Deployments : ClaimBenchmark(c, d)
      PROVE  TypeOK'
  BY <1>0, <1>3 DEF TypeOK, ReleaseBenchmark, ClaimBenchmark
<1>4. ASSUME NEW r \in Runs, NEW d \in Deployments, NEW kind \in Kinds \ {"token_budget"},
             NEW by \in Campaigns \cup {None}, Submit(r, kind, d, by)
      PROVE  TypeOK'
  <2>1. kind \in AllKinds /\ Enqueue(r, kind, d, by)
    BY <1>4, ConfigAssumption DEF Submit
  <2>2. Accepted(kind, dstate[d]) \in DeploymentStates
    BY <1>0 DEF Accepted, TypeOK, DeploymentStates
  <2>3. \A q \in Runs : pc'[q] \in {"settling", "publishing"} => result'[q] \in Results
    BY <1>0, <1>4 DEF TypeOK, Submit, Enqueue
  <2>4. state' \in [Runs -> RunStates] /\ dstate' \in [Deployments -> DeploymentStates]
    BY <1>0, <1>4, <2>2 DEF TypeOK, Submit, RunStates
  <2>5. QED
    BY <1>0, <1>4, <2>1, <2>3, <2>4, EnqueueTypes DEF TypeOK, Submit
<1>5. ASSUME NEW r \in Runs, NEW d \in Deployments, TokenBudget(r, d)
      PROVE  TypeOK'
  <2>1. "token_budget" \in AllKinds /\ Enqueue(r, "token_budget", d, None)
    BY <1>5 DEF TokenBudget, AllKinds
  <2>2. \A q \in Runs : pc'[q] \in {"settling", "publishing"} => result'[q] \in Results
    BY <1>0, <1>5 DEF TypeOK, TokenBudget, Enqueue
  <2>3. QED
    BY <1>0, <1>5, <2>1, <2>2, EnqueueTypes DEF TypeOK, TokenBudget
<1>6. ASSUME NEW r \in Runs, NEW d \in Deployments, Executor(d, r)
      PROVE  TypeOK'
  <2>1. CASE CancelBeforeStart(d, r)
    <3>1. Restored(job[r].kind, dstate[d]) \in DeploymentStates
      BY <1>0 DEF Restored, TypeOK, DeploymentStates
    <3>2. QED
      BY <1>0, <2>1, <3>1 DEF TypeOK, CancelBeforeStart, AtStage, Stages, RunStates, TERMINAL
  <2>2. CASE RejectBeforeStart(d, r)
    BY <1>0, <2>2 DEF TypeOK, RejectBeforeStart, AtStage, Stages, RunStates, TERMINAL, DeploymentStates
  <2>3. CASE Begin(d, r)
    BY <1>0, <2>3 DEF TypeOK, Begin, AtStage, Stages, RunStates
  <2>4. CASE Expire(d, r)
    <3>1. [finish |-> "timed_out", worker_terminated |-> FALSE] \in Results
      BY DEF Results, Finishes
    <3>2. QED
      BY <1>0, <2>4, <3>1 DEF TypeOK, Expire, AtStage, Stages, DeploymentStates
  <2>5. CASE Execute(d, r)
    <3>0. PICK x \in Returns(r, d) : \E held \in HeldAfter(r, d, x) :
             /\ result' = [result EXCEPT ![r] = x]
             /\ worker' = [worker EXCEPT ![d] = held]
      BY <2>5 DEF Execute
    <3>1. PICK held \in HeldAfter(r, d, x) :
             /\ result' = [result EXCEPT ![r] = x]
             /\ worker' = [worker EXCEPT ![d] = held]
      BY <3>0
    <3>2. x \in Results /\ held \in Runs \cup {None}
      BY <1>0, ExecuteTypes
    <3>3. pc[r] # "none" /\ pc' = [pc EXCEPT ![r] = "settling"]
      BY <2>5 DEF Execute, AtStage
    <3>4. QED
      BY <1>0, <2>5, <3>1, <3>2, <3>3 DEF TypeOK, Execute, Stages
  <2>6. CASE Settle(d, r)
    BY <1>0, <2>6, SettledTypes DEF TypeOK, Settle, AtStage, Stages
  <2>7. CASE Publish(d, r)
    <3>1. (IF result[r].finish = "raised" THEN "failed" ELSE result[r].finish) \in RunStates
      BY <1>0, <2>7 DEF TypeOK, Publish, AtStage, Results, Finishes, RunStates, TERMINAL
    <3>2. QED
      BY <1>0, <2>7, <3>1 DEF TypeOK, Publish, AtStage, Stages
  <2>8. CASE Finally(d, r)
    <3>1. pending - 1 \in Nat
      BY <1>0, <2>8, InFlight DEF Inv, PendingExact, Finally, AtStage
    <3>2. Tail(queue[d]) \in Seq(Runs)
      BY <1>0, <2>8 DEF TypeOK, Finally, AtStage
    <3>3. QED
      BY <1>0, <2>8, <3>1, <3>2 DEF TypeOK, Finally, Stages
  <2>9. QED
    BY <1>6, <2>1, <2>2, <2>3, <2>4, <2>5, <2>6, <2>7, <2>8 DEF Executor
<1>7. ASSUME NEW r \in Runs, CancelRead(r) \/ Recover(r)
      PROVE  TypeOK'
  BY <1>0, <1>7 DEF TypeOK, CancelRead, Recover, volatile, RunStates, TERMINAL
<1>8. CASE CancelWrite
  BY <1>0, <1>8 DEF TypeOK, CancelWrite, RunStates
<1>9. CASE Close \/ Closing \/ Serve
  BY <1>0, <1>9, EndedWorkers DEF TypeOK, Close, Closing, Serve, volatile
<1>10. CASE Restart
  BY <1>0, <1>10, ConfigAssumption, EndedWorkers DEF TypeOK, Restart, DeploymentStates, Stages
<1>11. QED
  BY <1>1, <1>2, <1>3, <1>4, <1>5, <1>6, <1>7, <1>8, <1>9, <1>10 DEF Next

-----------------------------------------------------------------------------
(***************************************************************************)
(* The jobs in flight, and with them the slots and the benchmark's owner.  *)
(***************************************************************************)

\* The steps that neither start nor end a job.
Moves(d, r) ==
    \/ CancelBeforeStart(d, r) \/ RejectBeforeStart(d, r) \/ Begin(d, r)
    \/ Expire(d, r) \/ Execute(d, r) \/ Settle(d, r) \/ Publish(d, r)

\* Such a step leaves the jobs, the slots and the owner alone.
LEMMA MovesKeep ==
  ASSUME TypeOK, NEW d \in Deployments, NEW r \in Runs, Moves(d, r)
  PROVE  Outstanding' = Outstanding /\ UNCHANGED <<job, pending, owner, phase, canceller>>
<1>1. UNCHANGED <<job, pending, owner, phase, canceller>>
  BY DEF Moves, CancelBeforeStart, RejectBeforeStart, Begin, Expire, Execute, Settle, Publish
<1>2. pc[r] # "none"
  BY DEF Moves, CancelBeforeStart, RejectBeforeStart, Begin, Expire, Execute, Settle, Publish, AtStage
<1>3. PICK s \in {"running", "settling", "publishing", "finally"} : pc' = [pc EXCEPT ![r] = s]
  BY DEF Moves, CancelBeforeStart, RejectBeforeStart, Begin, Expire, Execute, Settle, Publish
<1>4. s # "none"
  BY <1>3
<1>5. QED
  BY <1>1, <1>2, <1>3, <1>4, SameInFlight

\* Steps of API threads and of the process that touch no job.
Elsewhere ==
    \/ \E d \in Deployments :
          RegisterDeployment(d) \/ RetireDeployment(d) \/ WorkerDies(d)
    \/ \E r \in Runs : CancelRead(r) \/ Recover(r)
    \/ CancelWrite \/ Close \/ Closing \/ Serve
    \/ UNCHANGED vars

\* Steps taken elsewhere keep what the invariant says of the runs.
LEMMA ElsewhereKeeps ==
  ASSUME Elsewhere
  PROVE  UNCHANGED <<pc, job, pending, owner>> /\ Outstanding' = Outstanding
<1>1. UNCHANGED <<pc, job, pending, owner>>
  BY DEF Elsewhere, RegisterDeployment, RetireDeployment, WorkerDies, CancelRead, Recover,
         CancelWrite, Close, Closing, Serve, vars, volatile
<1>2. QED
  BY <1>1 DEF Outstanding

\* After a restart nothing is in flight.
LEMMA RestartEmpties ==
  ASSUME Restart
  PROVE  pending' = 0 /\ owner' = None /\ Outstanding' = {}
BY DEF Restart, Outstanding

\* Every step is one of these kinds.
LEMMA StepKinds ==
  ASSUME [Next]_vars
  PROVE  \/ Elsewhere \/ Restart
         \/ \E c \in Campaigns : ReleaseBenchmark(c) \/ \E d \in Deployments : ClaimBenchmark(c, d)
         \/ \E r \in Runs, d \in Deployments, kind \in Kinds \ {"token_budget"},
               by \in Campaigns \cup {None} : Submit(r, kind, d, by)
         \/ \E r \in Runs, d \in Deployments : TokenBudget(r, d) \/ Moves(d, r) \/ Finally(d, r)
BY DEF Next, Elsewhere, Moves, Executor

\* Slots are taken and given back with the jobs.
LEMMA PendingStep == Inv /\ [Next]_vars => PendingExact'
<1> SUFFICES ASSUME Inv, [Next]_vars PROVE PendingExact'
  OBVIOUS
<1>0. TypeOK /\ PendingExact /\ MaxPending \in Nat
  BY ConfigAssumption DEF Inv
<1>1. CASE Elsewhere
  BY <1>0, <1>1, ElsewhereKeeps DEF PendingExact
<1>2. CASE Restart
  <2>1. Cardinality({}) = 0
    BY FS_EmptySet
  <2>2. QED
    BY <1>0, <1>2, <2>1, RestartEmpties DEF PendingExact
<1>3. ASSUME NEW c \in Campaigns, ReleaseBenchmark(c) \/ \E d \in Deployments : ClaimBenchmark(c, d)
      PROVE  PendingExact'
  BY <1>0, <1>3 DEF PendingExact, Outstanding, ReleaseBenchmark, ClaimBenchmark
<1>4. ASSUME NEW r \in Runs, NEW d \in Deployments, NEW kind \in Kinds \ {"token_budget"},
             NEW by \in Campaigns \cup {None}, Submit(r, kind, d, by)
      PROVE  PendingExact'
  <2>1. /\ pc[r] = "none" /\ pc' = [pc EXCEPT ![r] = "queued"]
        /\ pending < MaxPending /\ pending' = pending + 1
    BY <1>4 DEF Submit, Enqueue, Reserve
  <2>2. Cardinality(Outstanding') = Cardinality(Outstanding) + 1
    BY <1>0, <2>1, OneMore
  <2>3. QED
    BY <1>0, <2>1, <2>2 DEF PendingExact, TypeOK
<1>5. ASSUME NEW r \in Runs, NEW d \in Deployments, TokenBudget(r, d)
      PROVE  PendingExact'
  <2>1. /\ pc[r] = "none" /\ pc' = [pc EXCEPT ![r] = "queued"]
        /\ pending < MaxPending /\ pending' = pending + 1
    BY <1>5 DEF TokenBudget, Enqueue, Reserve
  <2>2. Cardinality(Outstanding') = Cardinality(Outstanding) + 1
    BY <1>0, <2>1, OneMore
  <2>3. QED
    BY <1>0, <2>1, <2>2 DEF PendingExact, TypeOK
<1>6. ASSUME NEW r \in Runs, NEW d \in Deployments, Moves(d, r)
      PROVE  PendingExact'
  BY <1>0, <1>6, MovesKeep DEF PendingExact
<1>7. ASSUME NEW r \in Runs, NEW d \in Deployments, Finally(d, r)
      PROVE  PendingExact'
  <2>1. pc[r] # "none" /\ pc' = [pc EXCEPT ![r] = "none"] /\ pending' = pending - 1
    BY <1>7 DEF Finally, AtStage
  <2>2. Cardinality(Outstanding') = Cardinality(Outstanding) - 1
    BY <1>0, <2>1, OneLess
  <2>3. QED
    BY <1>0, <2>1, <2>2 DEF PendingExact, TypeOK
<1>8. QED
  BY <1>1, <1>2, <1>3, <1>4, <1>5, <1>6, <1>7, StepKinds

\* The owner stays alone.
LEMMA OwnerStep == Inv /\ [Next]_vars => BenchmarkExclusive'
<1> SUFFICES ASSUME Inv, [Next]_vars PROVE BenchmarkExclusive'
  OBVIOUS
<1>0. TypeOK /\ PendingExact /\ BenchmarkExclusive
  BY DEF Inv
<1>i. pending = 0 => Outstanding = {}
  BY <1>0, NobodyInFlight DEF PendingExact
<1>1. CASE Elsewhere
  BY <1>0, <1>1, ElsewhereKeeps DEF BenchmarkExclusive
<1>2. CASE Restart
  BY <1>2, RestartEmpties DEF BenchmarkExclusive
<1>3. ASSUME NEW c \in Campaigns, ReleaseBenchmark(c) \/ \E d \in Deployments : ClaimBenchmark(c, d)
      PROVE  BenchmarkExclusive'
  <2>1. CASE ReleaseBenchmark(c)
    BY <2>1 DEF ReleaseBenchmark, BenchmarkExclusive
  <2>2. ASSUME NEW d \in Deployments, ClaimBenchmark(c, d)
        PROVE  BenchmarkExclusive'
    BY <1>i, <2>2 DEF ClaimBenchmark, BenchmarkExclusive, Outstanding
  <2>3. QED
    BY <1>3, <2>1, <2>2
<1>4. ASSUME NEW r \in Runs, NEW d \in Deployments, NEW kind \in Kinds \ {"token_budget"},
             NEW by \in Campaigns \cup {None}, Submit(r, kind, d, by)
      PROVE  BenchmarkExclusive'
  <2>1. Outstanding' = Outstanding \cup {r}
    BY <1>0, <1>4, OneMore DEF Submit, Enqueue
  <2>2. job'[r].by = by /\ \A q \in Runs \ {r} : job'[q] = job[q]
    BY <1>0, <1>4 DEF Submit, Enqueue, TypeOK
  <2>3. CASE kind = "native_benchmark"
    BY <1>i, <1>4, <2>1, <2>3 DEF Submit, Admissible, BenchmarkExclusive
  <2>4. CASE kind # "native_benchmark"
    <3>1. owner' = owner /\ owner \in {None, by}
      BY <1>4, <2>4 DEF Submit
    <3>2. QED
      BY <1>0, <2>1, <2>2, <3>1 DEF BenchmarkExclusive, Outstanding
  <2>5. QED
    BY <2>3, <2>4
<1>5. ASSUME NEW r \in Runs, NEW d \in Deployments, TokenBudget(r, d)
      PROVE  BenchmarkExclusive'
  BY <1>5 DEF TokenBudget, BenchmarkExclusive
<1>6. ASSUME NEW r \in Runs, NEW d \in Deployments, Moves(d, r)
      PROVE  BenchmarkExclusive'
  BY <1>0, <1>6, MovesKeep DEF BenchmarkExclusive
<1>7. ASSUME NEW r \in Runs, NEW d \in Deployments, Finally(d, r)
      PROVE  BenchmarkExclusive'
  <2>1. Outstanding' = Outstanding \ {r}
    BY <1>0, <1>7, OneLess DEF Finally, AtStage
  <2>2. \A q \in Runs \ {r} : job'[q] = job[q]
    BY <1>0, <1>7 DEF Finally, TypeOK
  <2>3. owner' \in {owner, None}
    BY <1>7 DEF Finally
  <2>4. QED
    BY <1>0, <2>1, <2>2, <2>3 DEF BenchmarkExclusive, Outstanding
<1>8. QED
  BY <1>1, <1>2, <1>3, <1>4, <1>5, <1>6, <1>7, StepKinds

-----------------------------------------------------------------------------
(***************************************************************************)
(* The store and the thread.                                               *)
(***************************************************************************)
LEMMA StoreStep == Inv /\ [Next]_vars => StoreAgrees'
<1> SUFFICES ASSUME Inv, [Next]_vars PROVE StoreAgrees'
  OBVIOUS
<1>0. TypeOK /\ StoreAgrees
  BY DEF Inv
<1>1. ASSUME NEW d \in Deployments, RegisterDeployment(d) \/ RetireDeployment(d) \/ WorkerDies(d)
      PROVE  StoreAgrees'
  BY <1>0, <1>1 DEF StoreAgrees, Outstanding, RegisterDeployment, RetireDeployment, WorkerDies
<1>2. CASE Close \/ Closing \/ Serve \/ UNCHANGED vars
  BY <1>0, <1>2 DEF StoreAgrees, Outstanding, Close, Closing, Serve, vars, volatile
<1>3. CASE Restart
  <2>1. canceller' = None /\ Outstanding' = {}
    BY <1>3 DEF Restart, Outstanding
  <2>2. QED
    BY <2>1 DEF StoreAgrees
<1>4. ASSUME NEW c \in Campaigns, ReleaseBenchmark(c) \/ \E d \in Deployments : ClaimBenchmark(c, d)
      PROVE  StoreAgrees'
  BY <1>0, <1>4 DEF StoreAgrees, Outstanding, ReleaseBenchmark, ClaimBenchmark
<1>5. ASSUME NEW r \in Runs, CancelRead(r)
      PROVE  StoreAgrees'
  BY <1>0, <1>5 DEF StoreAgrees, Outstanding, CancelRead, LockFree
<1>6. CASE CancelWrite
  <2>1. canceller \in Runs /\ state[canceller] # "absent" /\ phase # "recovering"
    BY <1>0, <1>6 DEF CancelWrite, StoreAgrees, TypeOK
  <2>2. QED
    BY <1>0, <1>6, <2>1 DEF StoreAgrees, Outstanding, CancelWrite, TypeOK
<1>7. ASSUME NEW r \in Runs, Recover(r)
      PROVE  StoreAgrees'
  <2>1. Outstanding = {} /\ canceller = None
    BY <1>0, <1>7 DEF StoreAgrees, Recover
  <2>2. QED
    BY <1>7, <2>1 DEF StoreAgrees, Outstanding, Recover, volatile
<1>8. ASSUME NEW r \in Runs, NEW d \in Deployments, NEW kind \in Kinds \ {"token_budget"},
             NEW by \in Campaigns \cup {None}, Submit(r, kind, d, by)
      PROVE  StoreAgrees'
  <2>1. /\ pc' = [pc EXCEPT ![r] = "queued"] /\ state' = [state EXCEPT ![r] = "queued"]
        /\ phase = "serving" /\ UNCHANGED <<phase, canceller>> /\ canceller = None
    BY <1>8 DEF Submit, Enqueue, LockFree, Reserve
  <2>2. job'[r].kind = kind /\ \A q \in Runs \ {r} : job'[q] = job[q]
    BY <1>0, <1>8 DEF Submit, Enqueue, TypeOK
  <2>3. QED
    BY <1>0, <2>1, <2>2 DEF StoreAgrees, Outstanding, TypeOK
<1>9. ASSUME NEW r \in Runs, NEW d \in Deployments, TokenBudget(r, d)
      PROVE  StoreAgrees'
  <2>1. /\ pc' = [pc EXCEPT ![r] = "queued"] /\ state[r] = "absent"
        /\ phase = "serving" /\ UNCHANGED <<phase, canceller, state>> /\ canceller = None
    BY <1>9 DEF TokenBudget, Enqueue, LockFree, Reserve
  <2>2. job'[r].kind = "token_budget" /\ \A q \in Runs \ {r} : job'[q] = job[q]
    BY <1>0, <1>9 DEF TokenBudget, Enqueue, TypeOK
  <2>3. QED
    BY <1>0, <2>1, <2>2 DEF StoreAgrees, Outstanding, TypeOK
<1>10. ASSUME NEW r \in Runs, NEW d \in Deployments, Moves(d, r)
       PROVE  StoreAgrees'
  <2>1. r \in Outstanding
    BY <1>10 DEF Moves, CancelBeforeStart, RejectBeforeStart, Begin, Expire, Execute, Settle,
                 Publish, AtStage, Outstanding
  <2>2. Outstanding' = Outstanding /\ UNCHANGED <<job, phase, canceller>>
    BY <1>0, <1>10, MovesKeep
  <2>3. ASSUME NEW q \in Runs, q # r
        PROVE  pc'[q] = pc[q] /\ state'[q] = state[q]
    BY <1>0, <1>10, <2>3 DEF Moves, CancelBeforeStart, RejectBeforeStart, Begin, Expire,
                 Execute, Settle, Publish, TypeOK
  <2>4. CASE job[r].kind = "token_budget"
    <3>1. state[r] = "absent" /\ pc[r] \in {"queued", "settling", "finally"}
      BY <1>0, <2>1, <2>4 DEF StoreAgrees
    <3>2. state' = state /\ pc'[r] \in {"settling", "finally"}
      BY <1>0, <1>10, <2>4, <3>1 DEF Moves, CancelBeforeStart, RejectBeforeStart, Begin, Expire,
             Execute, Settle, Publish, AtStage, TypeOK
    <3>3. QED
      BY <1>0, <2>2, <2>3, <2>4, <3>1, <3>2 DEF StoreAgrees, Outstanding
  <2>5. CASE job[r].kind # "token_budget"
    <3>1. /\ state[r] # "absent"
          /\ pc[r] = "queued" => state[r] \in {"queued", "cancel_requested"}
          /\ pc[r] \in {"running", "settling", "publishing"}
                => state[r] \in {"running", "cancel_requested"}
      BY <1>0, <2>1, <2>5 DEF StoreAgrees
    <3>2. state'[r] # "absent"
      <4>1. CASE Publish(d, r)
        BY <1>0, <4>1 DEF Publish, AtStage, TypeOK, Results, Finishes
      <4>2. CASE ~Publish(d, r)
        BY <1>0, <1>10, <3>1, <4>2 DEF Moves, CancelBeforeStart, RejectBeforeStart, Begin, Expire,
               Execute, Settle, TypeOK
      <4>3. QED
        BY <4>1, <4>2
    <3>3. /\ pc'[r] # "queued"
          /\ pc'[r] \in {"running", "settling", "publishing"}
                => state'[r] \in {"running", "cancel_requested"}
      BY <1>0, <1>10, <2>5, <3>1 DEF Moves, CancelBeforeStart, RejectBeforeStart, Begin, Expire,
             Execute, Settle, Publish, AtStage, TypeOK
    <3>4. QED
      BY <1>0, <2>2, <2>3, <2>5, <3>2, <3>3 DEF StoreAgrees, Outstanding, TypeOK
  <2>6. QED
    BY <2>4, <2>5
<1>11. ASSUME NEW r \in Runs, NEW d \in Deployments, Finally(d, r)
       PROVE  StoreAgrees'
  <2>1. Outstanding' = Outstanding \ {r}
    BY <1>0, <1>11, OneLess DEF Finally, AtStage
  <2>2. \A q \in Runs \ {r} : job'[q] = job[q] /\ pc'[q] = pc[q]
    BY <1>0, <1>11 DEF Finally, TypeOK
  <2>3. UNCHANGED <<phase, canceller, state>>
    BY <1>11 DEF Finally
  <2>4. QED
    BY <1>0, <2>1, <2>2, <2>3 DEF StoreAgrees, Outstanding
<1>12. QED
  BY <1>1, <1>2, <1>3, <1>4, <1>5, <1>6, <1>7, <1>8, <1>9, <1>10, <1>11 DEF Next, Executor, Moves

-----------------------------------------------------------------------------
(***************************************************************************)
(* The theorems.                                                           *)
(***************************************************************************)
LEMMA InitInv == Init => Inv
<1> SUFFICES ASSUME Init PROVE Inv
  OBVIOUS
<1>1. TypeOK
  BY ConfigAssumption DEF Init, TypeOK, DeploymentStates, Stages, RunStates
<1>2. Outstanding = {} /\ Cardinality({}) = 0
  BY FS_EmptySet DEF Init, Outstanding
<1>3. PendingExact /\ BenchmarkExclusive /\ StoreAgrees
  BY <1>2, ConfigAssumption DEF Init, PendingExact, BenchmarkExclusive, StoreAgrees
<1>4. QED
  BY <1>1, <1>3 DEF Inv

\* Every step of the service preserves Inv.
LEMMA InvStep == Inv /\ [Next]_vars => Inv'
BY TypeStep, PendingStep, OwnerStep, StoreStep DEF Inv

\* Inv holds of every reachable state.
THEOREM Invariance == Spec => []Inv
BY InitInv, InvStep, PTL DEF Spec

\* The fields of the service, the store and the threads keep their types, for
\* any deployments, runs and bounds.
THEOREM TypeCorrect == Spec => []TypeOK
<1>1. Inv => TypeOK
  BY DEF Inv
<1>2. QED
  BY Invariance, <1>1, PTL

\* self.pending is the number of jobs in flight and never exceeds max_pending.
THEOREM SlotsExact == Spec => []PendingExact
<1>1. Inv => PendingExact
  BY DEF Inv
<1>2. QED
  BY Invariance, <1>1, PTL

\* While a benchmark owns the service only its own jobs are in flight.
THEOREM ExclusiveBenchmark == Spec => []BenchmarkExclusive
<1>1. Inv => BenchmarkExclusive
  BY DEF Inv
<1>2. QED
  BY Invariance, <1>1, PTL

\* The store shows a run live for as long as a thread owns it.
THEOREM StoreFollowsThreads == Spec => []StoreAgrees
<1>1. Inv => StoreAgrees
  BY DEF Inv
<1>2. QED
  BY Invariance, <1>1, PTL

\* How one step may change the store: what a submit, a thread, a cancel or the
\* recovery writes, and over what.
LEMMA StoreWrites ==
  ASSUME Inv, [Next]_vars, NEW r \in Runs, state'[r] # state[r]
  PROVE  \/ state[r] = "absent" /\ state'[r] = "queued"
         \/ state[r] = "queued" /\ state'[r] = "running"
         \/ state[r] \notin TERMINAL /\ state'[r] \in TERMINAL
         \/ canceller = r /\ state'[r] = "cancel_requested"
<1>0. TypeOK /\ StoreAgrees
  BY DEF Inv
<1>1. ASSUME NEW q \in Runs, NEW d \in Deployments, NEW kind \in Kinds \ {"token_budget"},
             NEW by \in Campaigns \cup {None}, Submit(q, kind, d, by)
      PROVE  state[r] = "absent" /\ state'[r] = "queued"
  BY <1>0, <1>1 DEF Submit, TypeOK
<1>2. ASSUME NEW q \in Runs, NEW d \in Deployments, Moves(d, q)
      PROVE  \/ state[r] = "queued" /\ state'[r] = "running"
             \/ state[r] \notin TERMINAL /\ state'[r] \in TERMINAL
  <2>1. CASE CancelBeforeStart(d, q) \/ RejectBeforeStart(d, q)
    BY <1>0, <2>1 DEF CancelBeforeStart, RejectBeforeStart, TypeOK, TERMINAL
  <2>2. CASE Begin(d, q)
    BY <1>0, <2>2 DEF Begin, TypeOK
  <2>3. CASE Expire(d, q) \/ Execute(d, q) \/ Settle(d, q)
    BY <2>3 DEF Expire, Execute, Settle
  <2>4. CASE Publish(d, q)
    <3>1. q = r /\ pc[r] = "publishing"
      BY <1>0, <2>4 DEF Publish, AtStage, TypeOK
    <3>2. state[r] \in {"running", "cancel_requested"}
      BY <1>0, <3>1 DEF StoreAgrees, Outstanding
    <3>3. state'[r] \in TERMINAL
      BY <1>0, <2>4, <3>1 DEF Publish, TypeOK, Results, Finishes, TERMINAL
    <3>4. QED
      BY <3>2, <3>3 DEF TERMINAL
  <2>5. QED
    BY <1>2, <2>1, <2>2, <2>3, <2>4 DEF Moves
<1>3. CASE CancelWrite
  BY <1>0, <1>3 DEF CancelWrite, TypeOK
<1>4. ASSUME NEW q \in Runs, Recover(q)
      PROVE  state[r] \notin TERMINAL /\ state'[r] \in TERMINAL
  BY <1>0, <1>4 DEF Recover, TypeOK, TERMINAL
<1>5. CASE UNCHANGED state
  BY <1>5
<1>6. QED
  <2>1. CASE Elsewhere
    BY <1>3, <1>4, <1>5, <2>1 DEF Elsewhere, RegisterDeployment, RetireDeployment, WorkerDies,
       CancelRead, Close, Closing, Serve, vars
  <2>2. CASE Restart
    BY <1>5, <2>2 DEF Restart
  <2>3. ASSUME NEW c \in Campaigns, ReleaseBenchmark(c) \/ \E d \in Deployments : ClaimBenchmark(c, d)
        PROVE  UNCHANGED state
    BY <2>3 DEF ReleaseBenchmark, ClaimBenchmark
  <2>4. ASSUME NEW q \in Runs, NEW d \in Deployments, TokenBudget(q, d) \/ Finally(d, q)
        PROVE  UNCHANGED state
    BY <2>4 DEF TokenBudget, Finally
  <2>5. QED
    BY <1>1, <1>2, <1>5, <2>1, <2>2, <2>3, <2>4, StepKinds

\* A recorded cancel is never undone: _execute reads the state and writes
\* "running" in one section of self.lock, so it cannot overwrite the request.
THEOREM CancelStays == Spec => CancelNotLost
<1>1. Inv /\ [Next]_vars =>
        [\A r \in Runs : state[r] = "cancel_requested"
            => state'[r] \in {"cancel_requested"} \cup TERMINAL]_vars
  <2>1. SUFFICES ASSUME Inv, [Next]_vars, NEW r \in Runs, state[r] = "cancel_requested"
                 PROVE  state'[r] \in {"cancel_requested"} \cup TERMINAL
    OBVIOUS
  <2>2. QED
    BY <2>1, StoreWrites DEF TERMINAL
<1>2. QED
  BY Invariance, <1>1, PTL DEF Spec, CancelNotLost

\* The end of a run is overwritten by nothing but a cancel that read the run
\* before it ended.
THEOREM EndsLostOnlyToCancel == Spec => TerminalLostOnlyToCancel
<1>1. Inv /\ [Next]_vars =>
        [\A r \in Runs : state[r] \in TERMINAL /\ state'[r] # state[r]
            => canceller = r /\ state'[r] = "cancel_requested"]_vars
  <2>1. SUFFICES ASSUME Inv, [Next]_vars, NEW r \in Runs,
                        state[r] \in TERMINAL, state'[r] # state[r]
                 PROVE  canceller = r /\ state'[r] = "cancel_requested"
    OBVIOUS
  <2>2. state[r] # "absent" /\ state[r] # "queued"
    BY <2>1 DEF TERMINAL
  <2>3. QED
    BY <2>1, <2>2, StoreWrites
<1>2. QED
  BY Invariance, <1>1, PTL DEF Spec, TerminalLostOnlyToCancel

-----------------------------------------------------------------------------
(***************************************************************************)
(* The device.                                                             *)
(***************************************************************************)

\* Only a load puts a model into a worker, and a load on the GPU finds every
\* worker on the GPU empty.
LEMMA HeldModel ==
  ASSUME TypeOK, NEW d \in Deployments, NEW r \in Runs, NEW x \in Returns(r, d),
         NEW held \in HeldAfter(r, d, x), held \notin {None, worker[d]}
  PROVE  d \in Gpu => \A e \in Gpu : worker[e] = None
<1>1. CanServe("load", d)
  BY DEF HeldAfter, Returns
<1>2. QED
  BY <1>1 DEF CanServe

\* What a step of an executor thread does to the workers.
LEMMA MovesHold ==
  ASSUME TypeOK, NEW d \in Deployments, NEW r \in Runs, Moves(d, r)
  PROVE  \/ worker' = worker
         \/ \E x \in Returns(r, d) : \E held \in HeldAfter(r, d, x) :
               worker' = [worker EXCEPT ![d] = held]
BY DEF Moves, CancelBeforeStart, RejectBeforeStart, Begin, Expire, Execute, Settle, Publish

\* A load finds the device free, and nothing else puts a model there.
LEMMA OneModelStep ==
  ASSUME TypeOK, OneGpuModel, [Next]_vars
  PROVE  OneGpuModel'
<1>0. TypeOK /\ Gpu \subseteq Deployments
  BY ConfigAssumption
<1>1. CASE Elsewhere \/ Restart
  <2>1. \A e \in Deployments : worker'[e] \in {worker[e], None}
    BY <1>0, <1>1, EndedWorkers DEF Elsewhere, RegisterDeployment, RetireDeployment, WorkerDies,
       CancelRead, Recover, CancelWrite, Close, Closing, Serve, Restart, vars, volatile, TypeOK
  <2>2. QED
    BY <1>0, <2>1 DEF OneGpuModel
<1>2. ASSUME NEW c \in Campaigns, ReleaseBenchmark(c) \/ \E d \in Deployments : ClaimBenchmark(c, d)
      PROVE  OneGpuModel'
  BY <1>2 DEF OneGpuModel, ReleaseBenchmark, ClaimBenchmark
<1>3. ASSUME NEW r \in Runs, NEW d \in Deployments, NEW kind \in Kinds \ {"token_budget"},
             NEW by \in Campaigns \cup {None}, Submit(r, kind, d, by)
      PROVE  OneGpuModel'
  BY <1>3 DEF OneGpuModel, Submit
<1>4. ASSUME NEW r \in Runs, NEW d \in Deployments, TokenBudget(r, d) \/ Finally(d, r)
      PROVE  OneGpuModel'
  BY <1>4 DEF OneGpuModel, TokenBudget, Finally
<1>5. ASSUME NEW r \in Runs, NEW d \in Deployments, Moves(d, r)
      PROVE  OneGpuModel'
  <2>1. CASE worker' = worker
    BY <2>1 DEF OneGpuModel
  <2>2. ASSUME NEW x \in Returns(r, d), NEW held \in HeldAfter(r, d, x),
               worker' = [worker EXCEPT ![d] = held]
        PROVE  OneGpuModel'
    <3>1. worker'[d] = held /\ \A e \in Deployments \ {d} : worker'[e] = worker[e]
      BY <1>0, <2>2 DEF TypeOK
    <3>2. CASE held \in {None, worker[d]}
      BY <1>0, <3>1, <3>2 DEF OneGpuModel
    <3>3. CASE held \notin {None, worker[d]}
      <4>1. d \in Gpu => \A e \in Gpu : worker[e] = None
        BY <1>0, <3>3, HeldModel
      <4>2. QED
        BY <1>0, <3>1, <4>1 DEF OneGpuModel
    <3>4. QED
      BY <3>2, <3>3
  <2>3. QED
    BY <1>0, <1>5, <2>1, <2>2, MovesHold
<1>6. QED
  BY <1>1, <1>2, <1>3, <1>4, <1>5, StepKinds
=============================================================================
