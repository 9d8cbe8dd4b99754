--------------------------- MODULE ModelHubProofs ---------------------------
(***************************************************************************)
(* Proofs about ModelHub, for any plans, jobs and limits: the records are  *)
(* true about the directories, the pool and the records agree, the console *)
(* can start again, an accepted cancel wins, and the hub implements        *)
(* ArtifactStore.                                                          *)
(*                                                                         *)
(* The inductive invariant has a part for each place where two records of  *)
(* the same thing are changed at different times: the thread and its job   *)
(* (ThreadOK), the pool and the states (PoolOK), the operation that holds  *)
(* the lock and its job (OpOK), the registration files and the deployments *)
(* (PlacesOK), deployments and directories (SealsOK).                      *)
(***************************************************************************)
EXTENDS ModelHub, FiniteSetTheorems, SequenceTheorems, TLAPS

Whole == {p \in Plans : seal[p] = "whole"}
Queued == {pool[i] : i \in DOMAIN pool}

\* The shape of the records of the two lock holders, and what a process that
\* is not up does not have.
ShapeOK ==
    /\ worker \in [job : Jobs \cup {NoJob},
                   pc : {"idle", "look", "found", "fresh", "files", "verify",
                         "record", "cancelled", "failed"},
                   count : 0..Files]
    /\ op \in [kind : {"none", "seal", "register", "delete"},
               job : Jobs \cup {NoJob},
               step : {"none", "publish", "record", "save", "retire", "remove"}]
    /\ op.kind = "none" => op = NoOp
    /\ op.kind = "register" => op.step \in {"publish", "record"}
    /\ op.kind = "delete" => op.step \in {"save", "retire", "remove", "record"}
    /\ op.kind \in {"register", "delete"} => op.job \in Jobs
    /\ worker.pc = "idle" <=> worker.job = NoJob
    /\ worker.pc = "idle" => worker = Idle
    /\ ~Running => stop = {} /\ pool = <<>> /\ worker = Idle /\ op = NoOp /\ inUse = {}
    /\ phase \in {"down", "boot"} => configs = {}

\* A plan is named by one record at most that is not deleted.
OnePlan ==
    /\ \A j \in Jobs : State(j) = "none" <=> jobs[j].plan = NoPlan
    /\ \A j \in Jobs : jobs[j].ids \subseteq {jobs[j].plan}
    /\ \A i, j \in Jobs :
           (jobs[i].plan = jobs[j].plan /\ State(i) # "none"
              /\ State(i) # "deleted" /\ State(j) # "deleted") => i = j

\* The thread, the pool and the records that are under way.
PoolOK ==
    /\ phase \in {"boot", "hub"} => Active = {}
    /\ Running => /\ Active = Queued \cup ({worker.job} \ {NoJob})
                  /\ Cardinality(Active) = Len(pool) + (IF worker = Idle THEN 0 ELSE 1)
    /\ worker.job \notin Queued
    /\ \A i, j \in DOMAIN pool : pool[i] = pool[j] => i = j

\* The thread that seals holds the lock, and has looked at its stop event.
ThreadOK ==
    /\ op.kind = "seal" <=> worker.pc = "record"
    /\ worker.pc = "record" => seal[Plan] = "whole" /\ worker.job \notin stop

\* What the operation that holds the lock may rely on.
OpOK ==
    /\ op.kind = "register" => State(op.job) = "completed"
    /\ op.kind = "delete" =>
           /\ State(op.job) = "deleting"
           /\ OpPlan \notin native
           /\ op.step \in {"save", "retire"} /\ OpPlan \in configs => OpPlan \in jobs[op.job].ids
           /\ op.step # "save" => registered \cap jobs[op.job].ids = {}
           /\ op.step \in {"remove", "record"} => OpPlan \notin configs

\* Every registration is published, or about to be and still has its place.
PlacesOK ==
    /\ phase = "hub" => configs = registered
    /\ Running => Cardinality(configs) + Cardinality(native) <= MaxDeployments
    /\ Running => registered \ crowded \subseteq
                      configs \cup (IF At("register", "publish") THEN {OpPlan} ELSE {})
    /\ At("register", "publish") =>
           \/ OpPlan \in configs \cup crowded
           \/ Cardinality(configs) + Cardinality(native) < MaxDeployments

\* What is or will be deployed has a whole directory.
SealsOK == (configs \cup native \cup registered) \ crowded \subseteq Whole

\* The inductive invariant.
Inv ==
    /\ TypeOK /\ ShapeOK /\ OnePlan /\ PoolOK /\ ThreadOK /\ OpOK
    /\ PlacesOK /\ CompletedSealed /\ SealsOK /\ Restartable

\* Sets of plans and of jobs are finite, so they are counted by numbers.
LEMMA PlansCounted ==
  ASSUME NEW S \in SUBSET Plans
  PROVE  IsFiniteSet(S) /\ Cardinality(S) \in Nat
BY HubAssumption, FS_Subset, FS_CardinalityType

\* Sets of jobs are finite.
LEMMA JobsCounted ==
  ASSUME NEW S \in SUBSET Jobs
  PROVE  IsFiniteSet(S) /\ Cardinality(S) \in Nat
BY HubAssumption, FS_Subset, FS_CardinalityType

\* A subset of the plans is no larger than the set it is part of.
LEMMA Smaller ==
  ASSUME NEW S \in SUBSET Plans, NEW T \in SUBSET S
  PROVE  Cardinality(T) <= Cardinality(S)
BY PlansCounted, FS_Subset

\* A plan more raises a count by one at most, and by one exactly if it is new.
LEMMA OneMore ==
  ASSUME NEW S \in SUBSET Plans, NEW p \in Plans
  PROVE  /\ Cardinality(S \cup {p}) <= Cardinality(S) + 1
         /\ p \notin S => Cardinality(S \cup {p}) = Cardinality(S) + 1
BY PlansCounted, FS_AddElement

\* The hub starts with nothing on disk.
LEMMA Initially == Init => Inv
<1> SUFFICES ASSUME Init PROVE Inv
  OBVIOUS
<1>1. TypeOK /\ CompletedSealed
  BY HubAssumption DEF Init, TypeOK, CompletedSealed, State, Unused, States, ACTIVE, Idle, NoOp
<1>2. ShapeOK
  BY HubAssumption DEF Init, ShapeOK, Idle, NoOp, Running
<1>3. OnePlan /\ ThreadOK /\ OpOK
  BY DEF Init, OnePlan, ThreadOK, OpOK, State, Unused, Idle, NoOp
<1>4. PoolOK
  BY DEF Init, PoolOK, Queued, Idle, Running
<1>5. PlacesOK /\ SealsOK /\ Restartable
  BY HubAssumption, FS_EmptySet DEF Init, PlacesOK, SealsOK, Restartable, Running, At, NoOp
<1>6. QED
  BY <1>1, <1>2, <1>3, <1>4, <1>5 DEF Inv

\* The process ends: the disk is as it was, memory is empty.
LEMMA VanishStep ==
  ASSUME Inv, Vanish
  PROVE  Inv'
<1> USE DEF Inv, Vanish, artifacts, registry
<1>1. TypeOK' /\ CompletedSealed'
  BY HubAssumption DEF TypeOK, CompletedSealed, State, Idle, NoOp
<1>2. ShapeOK'
  BY HubAssumption DEF ShapeOK, Idle, NoOp, Running
<1>3. OnePlan' /\ ThreadOK' /\ OpOK'
  BY DEF OnePlan, ThreadOK, OpOK, State, Idle, NoOp
<1>4. PoolOK'
  BY DEF PoolOK, Queued, Idle, Running
<1>5. PlacesOK' /\ SealsOK' /\ Restartable'
  BY DEF PlacesOK, SealsOK, Restartable, Running, At, NoOp, Whole
<1>6. QED
  BY <1>1, <1>2, <1>3, <1>4, <1>5

\* The thread moves on and does nothing else.
LEMMA GotoStep ==
  ASSUME Inv, worker.pc \notin {"idle", "record"},
         NEW pc \in {"found", "fresh", "cancelled", "failed"}, Goto(pc)
  PROVE  Inv'
<1> USE DEF Inv, Goto, artifacts, registry, serving
<1>1. /\ worker' \in [job : Jobs \cup {NoJob},
                      pc : {"idle", "look", "found", "fresh", "files", "verify",
                            "record", "cancelled", "failed"}, count : 0..Files]
      /\ worker'.pc = pc /\ worker'.job = worker.job /\ worker'.count = worker.count
  BY DEF ShapeOK
<1>2. worker # Idle /\ worker' # Idle
  BY <1>1 DEF Idle
<1>3. TypeOK' /\ CompletedSealed'
  BY <1>1 DEF TypeOK, CompletedSealed, State
<1>4. ShapeOK'
  BY <1>1, <1>2 DEF ShapeOK, Running
<1>5. OnePlan' /\ ThreadOK' /\ OpOK'
  BY <1>1 DEF OnePlan, ThreadOK, OpOK, State, OpPlan
<1>6. PoolOK'
  BY <1>1, <1>2 DEF PoolOK, Queued, Running, Active, State
<1>7. PlacesOK' /\ SealsOK' /\ Restartable'
  BY DEF PlacesOK, SealsOK, Restartable, Running, At, Whole, OpPlan
<1>8. QED
  BY <1>3, <1>4, <1>5, <1>6, <1>7

\* _update of a job by the thread, with the lock free: the other records and
\* all plans stay.
LEMMA UpdatedJobs ==
  ASSUME Inv, NEW j \in Jobs, NEW st \in States,
         jobs' = [jobs EXCEPT ![j].state = st]
  PROVE  /\ jobs' \in [Jobs -> [plan : Plans \cup {NoPlan}, state : States,
                                deployed : BOOLEAN, ids : SUBSET Plans]]
         /\ jobs'[j].state = st
         /\ \A i \in Jobs \ {j} : jobs'[i] = jobs[i]
         /\ \A i \in Jobs : jobs'[i].plan = jobs[i].plan /\ jobs'[i].ids = jobs[i].ids
BY DEF Inv, TypeOK

\* The thread has a job, which is under way and not deleted.
LEMMA WorkersJob ==
  ASSUME Inv, worker.pc # "idle"
  PROVE  /\ worker.job \in Jobs /\ Running /\ worker.job \in Active
         /\ State(worker.job) \in ACTIVE /\ Plan \in Plans
         /\ worker # Idle
<1>1. worker.job \in Jobs /\ Running /\ worker # Idle
  BY HubAssumption DEF Inv, ShapeOK, Idle
<1>2. worker.job \in Active
  BY <1>1, HubAssumption DEF Inv, PoolOK
<1>3. State(worker.job) \in ACTIVE
  BY <1>2 DEF Active
<1>4. Plan \in Plans
  BY <1>1, <1>3 DEF Inv, OnePlan, TypeOK, Plan, State, ACTIVE
<1>5. QED
  BY <1>1, <1>2, <1>3, <1>4

\* The download thread records a state and goes on.
LEMMA UpdateStep ==
  ASSUME Inv, worker.pc \notin {"idle", "record"},
         NEW st \in {"downloading", "verifying"}, NEW pc \in {"files", "verify"},
         Update(st, [worker EXCEPT !.pc = pc])
  PROVE  Inv'
<1> USE DEF Inv, artifacts, registry, serving
<1>0. /\ worker.job \in Jobs /\ Running /\ State(worker.job) \in ACTIVE
      /\ worker # Idle /\ op = NoOp /\ op' = NoOp
  BY WorkersJob DEF Update, LockFree, ShapeOK
<1>1. /\ worker' \in [job : Jobs \cup {NoJob},
                      pc : {"idle", "look", "found", "fresh", "files", "verify",
                            "record", "cancelled", "failed"}, count : 0..Files]
      /\ worker'.pc = pc /\ worker'.job = worker.job /\ worker'.count = worker.count
      /\ worker' # Idle
  BY DEF ShapeOK, Update, Idle
<1>2. /\ jobs' \in [Jobs -> [plan : Plans \cup {NoPlan}, state : States,
                             deployed : BOOLEAN, ids : SUBSET Plans]]
      /\ jobs'[worker.job].state = st
      /\ \A i \in Jobs \ {worker.job} : jobs'[i] = jobs[i]
      /\ \A i \in Jobs : jobs'[i].plan = jobs[i].plan /\ jobs'[i].ids = jobs[i].ids
  BY <1>0, UpdatedJobs DEF Update, States, ACTIVE
<1>3. Active' = Active
  BY <1>0, <1>2 DEF Active, State, ACTIVE
<1>4. TypeOK'
  BY <1>1, <1>2 DEF TypeOK, Update, NoOp
<1>5. CompletedSealed'
  BY <1>2 DEF Update, CompletedSealed, State
<1>6. ShapeOK'
  BY <1>1, <1>0 DEF ShapeOK, Running, Update
<1>7. OnePlan'
  BY <1>0, <1>2 DEF OnePlan, State, ACTIVE
<1>8. ThreadOK' /\ OpOK'
  BY <1>0, <1>1 DEF ThreadOK, OpOK, NoOp
<1>9. PoolOK'
  BY <1>0, <1>1, <1>3 DEF PoolOK, Queued, Running, Update
<1>10. PlacesOK' /\ SealsOK' /\ Restartable'
  BY <1>0 DEF PlacesOK, SealsOK, Restartable, Running, At, Whole, NoOp, Update
<1>11. QED
  BY <1>4, <1>5, <1>6, <1>7, <1>8, <1>9, <1>10

\* The thread ends its job, and says completed only of a sealed plan.
LEMMA EndStep ==
  ASSUME Inv, worker.pc # "idle",
         NEW st \in {"completed", "failed", "interrupted", "cancelled"},
         st = "completed" => seal[Plan] = "whole",
         jobs' = [jobs EXCEPT ![worker.job].state = st],
         op' = NoOp, op.kind \in {"none", "seal"}, worker' = Idle,
         UNCHANGED <<phase, artifacts, registry, stop, pool, serving>>
  PROVE  Inv'
<1> USE DEF Inv, artifacts, registry, serving
<1>0. /\ worker.job \in Jobs /\ Running /\ State(worker.job) \in ACTIVE
      /\ worker # Idle /\ worker.job \in Active
  BY WorkersJob
<1>1. /\ worker' \in [job : Jobs \cup {NoJob},
                      pc : {"idle", "look", "found", "fresh", "files", "verify",
                            "record", "cancelled", "failed"}, count : 0..Files]
      /\ worker'.pc = "idle" /\ worker'.job = NoJob
  BY HubAssumption DEF Idle
<1>2. /\ jobs' \in [Jobs -> [plan : Plans \cup {NoPlan}, state : States,
                             deployed : BOOLEAN, ids : SUBSET Plans]]
      /\ jobs'[worker.job].state = st
      /\ \A i \in Jobs \ {worker.job} : jobs'[i] = jobs[i]
      /\ \A i \in Jobs : jobs'[i].plan = jobs[i].plan /\ jobs'[i].ids = jobs[i].ids
  BY <1>0, UpdatedJobs DEF States, ACTIVE
<1>3. Active' = Active \ {worker.job}
  BY <1>0, <1>2 DEF Active, State, ACTIVE
<1>4. TypeOK'
  BY <1>1, <1>2, HubAssumption DEF TypeOK, NoOp, Idle
<1>5. CompletedSealed'
  BY <1>0, <1>2 DEF CompletedSealed, State, Plan
<1>6. ShapeOK'
  BY <1>1, <1>0, HubAssumption DEF ShapeOK, Running, NoOp
<1>7. OnePlan'
  BY <1>0, <1>2 DEF OnePlan, State, ACTIVE
<1>8. ThreadOK' /\ OpOK'
  BY <1>0, <1>1 DEF ThreadOK, OpOK, NoOp
<1>9. PoolOK'
  <2>1. Queued \subseteq Jobs
    BY DEF Queued, TypeOK
  <2>2. Active' = Queued
    BY <1>0, <1>3, HubAssumption DEF PoolOK
  <2>3. Cardinality(Active') = Cardinality(Active) - 1
    BY <1>0, <1>3, JobsCounted, FS_RemoveElement DEF Active
  <2>4. Cardinality(Active') = Len(pool)
    BY <2>3, <1>0 DEF PoolOK, TypeOK
  <2>5. QED
    BY <1>0, <1>1, <2>1, <2>2, <2>4, HubAssumption DEF PoolOK, Queued, Running
<1>10. PlacesOK' /\ SealsOK' /\ Restartable'
  BY <1>0 DEF PlacesOK, SealsOK, Restartable, Running, At, Whole, NoOp
<1>11. QED
  BY <1>4, <1>5, <1>6, <1>7, <1>8, <1>9, <1>10

\* The thread takes the first job of the pool.
LEMMA TakeStep ==
  ASSUME Inv, WorkerTake
  PROVE  Inv'
<1> USE DEF Inv, artifacts, registry, serving
<1>0. /\ Running /\ worker = Idle /\ worker.pc = "idle" /\ worker.job = NoJob
      /\ pool \in Seq(Jobs) /\ pool # <<>>
  BY DEF WorkerTake, Idle, TypeOK
<1>1. /\ Head(pool) \in Jobs /\ Head(pool) = pool[1] /\ Tail(pool) \in Seq(Jobs)
      /\ Len(Tail(pool)) = Len(pool) - 1 /\ Len(pool) \in Nat \ {0}
      /\ \A i \in 1..Len(Tail(pool)) : Tail(pool)[i] = pool[i + 1]
  BY <1>0
<1>2. /\ worker' = [job |-> pool[1], pc |-> "look", count |-> 0] /\ pool' = Tail(pool)
      /\ UNCHANGED <<phase, jobs, artifacts, registry, stop, op, serving>>
  BY <1>1 DEF WorkerTake
<1>3. /\ worker'.job = pool[1] /\ worker'.pc = "look" /\ pool[1] # NoJob
      /\ worker' # Idle
  BY <1>1, <1>2, HubAssumption DEF Idle
<1>4. DOMAIN pool = 1..Len(pool) /\ DOMAIN pool' = 1..(Len(pool) - 1)
  BY <1>0, <1>1, <1>2
<1>5. Queued = Queued' \cup {pool[1]} /\ pool[1] \notin Queued'
  <2>1. \A i \in DOMAIN pool' : i + 1 \in DOMAIN pool /\ i + 1 # 1 /\ pool'[i] = pool[i + 1]
    BY <1>1, <1>2, <1>4
  <2>2. \A k \in DOMAIN pool : k = 1 \/ (k - 1 \in DOMAIN pool' /\ pool'[k - 1] = pool[k])
    BY <1>1, <1>2, <1>4
  <2>3. 1 \in DOMAIN pool
    BY <1>1, <1>4
  <2>4. pool[1] \notin Queued'
    BY <2>1, <2>3 DEF PoolOK, Queued
  <2>5. QED
    BY <2>1, <2>2, <2>3, <2>4 DEF Queued
<1>6. TypeOK' /\ CompletedSealed'
  BY <1>1, <1>2, <1>3, HubAssumption DEF TypeOK, CompletedSealed, State
<1>7. ShapeOK'
  BY <1>0, <1>1, <1>2, <1>3, HubAssumption DEF ShapeOK, Running
<1>8. OnePlan' /\ ThreadOK' /\ OpOK'
  BY <1>0, <1>2, <1>3 DEF OnePlan, ThreadOK, OpOK, State, OpPlan
<1>9. PoolOK'
  <2>1. Active' = Active
    BY <1>2 DEF Active, State
  <2>2. Active = Queued' \cup ({worker'.job} \ {NoJob})
    BY <1>0, <1>3, <1>5 DEF PoolOK
  <2>3. Cardinality(Active) = Len(pool') + 1
    BY <1>0, <1>1, <1>2 DEF PoolOK
  <2>4. \A i, j \in DOMAIN pool' : pool'[i] = pool'[j] => i = j
    BY <1>1, <1>2, <1>4 DEF PoolOK
  <2>5. QED
    BY <1>0, <1>2, <1>3, <1>5, <2>1, <2>2, <2>3, <2>4 DEF PoolOK, Running
<1>10. PlacesOK' /\ SealsOK' /\ Restartable'
  BY <1>2 DEF PlacesOK, SealsOK, Restartable, Running, At, Whole, OpPlan
<1>11. QED
  BY <1>6, <1>7, <1>8, <1>9, <1>10

\* A file is put into the partial directory.
LEMMA FileStep ==
  ASSUME Inv, WorkerFile, ~Stopping
  PROVE  Inv'
<1> USE DEF Inv, artifacts, registry, serving
<1>0. Plan \in Plans /\ worker.pc = "files" /\ worker.count < Files /\ worker # Idle
  BY WorkersJob DEF WorkerFile
<1>1. /\ worker' \in [job : Jobs \cup {NoJob},
                      pc : {"idle", "look", "found", "fresh", "files", "verify",
                            "record", "cancelled", "failed"}, count : 0..Files]
      /\ worker'.pc = "files" /\ worker'.job = worker.job /\ worker' # Idle
      /\ worker'.count \in 0..Files
  BY <1>0, HubAssumption DEF ShapeOK, WorkerFile, Idle
<1>2. part' \in [Plans -> 0..Files]
  BY <1>0, HubAssumption, SMTT(30) DEF TypeOK, WorkerFile
<1>3. UNCHANGED <<phase, jobs, seal, registry, stop, pool, op, serving>>
  BY DEF WorkerFile
<1>4. TypeOK' /\ CompletedSealed'
  BY <1>1, <1>2, <1>3 DEF TypeOK, CompletedSealed, State
<1>5. ShapeOK'
  BY <1>0, <1>1, <1>3 DEF ShapeOK, Running
<1>6. OnePlan' /\ ThreadOK' /\ OpOK'
  BY <1>0, <1>1, <1>3 DEF OnePlan, ThreadOK, OpOK, State, OpPlan
<1>7. PoolOK'
  BY <1>0, <1>1, <1>3 DEF PoolOK, Queued, Running, Active, State
<1>8. PlacesOK' /\ SealsOK' /\ Restartable'
  BY <1>3 DEF PlacesOK, SealsOK, Restartable, Running, At, Whole, OpPlan
<1>9. QED
  BY <1>4, <1>5, <1>6, <1>7, <1>8

\* The rename, with the lock: the thread has just looked at the stop event.
LEMMA SealStep ==
  ASSUME Inv, WorkerSeal, ~Stopping
  PROVE  Inv'
<1> USE DEF Inv, artifacts, registry, serving
<1>0. /\ Plan \in Plans /\ worker.pc = "verify" /\ worker # Idle /\ Running
      /\ worker.job \in Jobs /\ worker.job \notin stop /\ op = NoOp
  BY WorkersJob DEF WorkerSeal, LockFree, ShapeOK, Stopping
<1>1. /\ worker' \in [job : Jobs \cup {NoJob},
                      pc : {"idle", "look", "found", "fresh", "files", "verify",
                            "record", "cancelled", "failed"}, count : 0..Files]
      /\ worker'.pc = "record" /\ worker'.job = worker.job /\ worker' # Idle
      /\ worker'.count \in 0..Files
  BY <1>0, HubAssumption DEF ShapeOK, WorkerSeal, Idle
<1>2. op' = [kind |-> "seal", job |-> NoJob, step |-> "none"]
  BY DEF WorkerSeal, NoOp
<1>3. UNCHANGED <<phase, jobs, registry, stop, pool, serving>>
  BY DEF WorkerSeal
<1>4. /\ seal' \in [Plans -> {"absent", "whole", "broken"}]
      /\ seal'[Plan] = "whole" /\ \A p \in Plans \ {Plan} : seal'[p] = seal[p]
      /\ part' \in [Plans -> 0..Files]
  <2>1. seal' = [seal EXCEPT ![Plan] = "whole"] /\ part' = [part EXCEPT ![Plan] = 0]
    BY DEF WorkerSeal
  <2>2. 0 \in 0..Files
    BY HubAssumption
  <2>3. QED
    BY <1>0, <2>1, <2>2 DEF TypeOK
<1>5. TypeOK'
  BY <1>1, <1>2, <1>3, <1>4 DEF TypeOK
<1>6. CompletedSealed'
  BY <1>3, <1>4 DEF CompletedSealed, State, TypeOK, OnePlan
<1>7. ShapeOK'
  BY <1>0, <1>1, <1>2, <1>3 DEF ShapeOK, Running, NoOp
<1>8. OnePlan' /\ ThreadOK' /\ OpOK'
  BY <1>0, <1>1, <1>2, <1>3, <1>4 DEF OnePlan, ThreadOK, OpOK, State, Plan
<1>9. PoolOK'
  BY <1>0, <1>1, <1>3 DEF PoolOK, Queued, Running, Active, State
<1>10. PlacesOK' /\ SealsOK' /\ Restartable'
  BY <1>0, <1>2, <1>3, <1>4 DEF PlacesOK, SealsOK, Restartable, Running, At, Whole, NoOp
<1>11. QED
  BY <1>5, <1>6, <1>7, <1>8, <1>9, <1>10

\* The record after the rename, or its failure.
LEMMA RecordStep ==
  ASSUME Inv, WorkerRecord
  PROVE  Inv'
<1>0. worker.pc = "record" /\ op.kind = "seal" /\ seal[Plan] = "whole"
  BY DEF WorkerRecord, Inv, ThreadOK
<1>1. CASE worker' = Idle /\ jobs' = [jobs EXCEPT ![worker.job].state = "completed"]
  BY <1>0, <1>1, EndStep DEF WorkerRecord
<1>2. CASE worker' = [worker EXCEPT !.pc = "failed"] /\ UNCHANGED jobs
  <2> USE DEF Inv, artifacts, registry, serving
  <2>0. Running /\ worker # Idle
    BY <1>0, WorkersJob
  <2>1. /\ worker' \in [job : Jobs \cup {NoJob},
                        pc : {"idle", "look", "found", "fresh", "files", "verify",
                              "record", "cancelled", "failed"}, count : 0..Files]
        /\ worker'.pc = "failed" /\ worker'.job = worker.job /\ worker' # Idle
        /\ worker'.count = worker.count
    BY <1>2 DEF ShapeOK, Idle
  <2>2. op' = NoOp /\ UNCHANGED <<phase, jobs, artifacts, registry, stop, pool, serving>>
    BY <1>2 DEF WorkerRecord
  <2>3. TypeOK' /\ CompletedSealed'
    BY <2>1, <2>2, HubAssumption DEF TypeOK, CompletedSealed, State, NoOp
  <2>4. ShapeOK'
    BY <2>0, <2>1, <2>2, <1>0, HubAssumption DEF ShapeOK, Running, NoOp
  <2>5. OnePlan' /\ ThreadOK' /\ OpOK'
    BY <2>1, <2>2 DEF OnePlan, ThreadOK, OpOK, State, NoOp
  <2>6. PoolOK'
    BY <2>0, <2>1, <2>2 DEF PoolOK, Queued, Running, Active, State
  <2>7. PlacesOK' /\ SealsOK' /\ Restartable'
    BY <1>0, <2>2 DEF PlacesOK, SealsOK, Restartable, Running, At, Whole, NoOp
  <2>8. QED
    BY <2>3, <2>4, <2>5, <2>6, <2>7
<1>3. QED
  BY <1>1, <1>2 DEF WorkerRecord

\* Every step of the download thread.
LEMMA WorkerStep ==
  ASSUME Inv, Worker
  PROVE  Inv'
<1>1. CASE WorkerTake
  BY <1>1, TakeStep
<1>2. CASE WorkerLook
  BY <1>2, GotoStep DEF WorkerLook
<1>3. ASSUME NEW st \in {"completed", "failed", "interrupted", "cancelled"},
             worker.pc \notin {"idle", "record"}, Update(st, Idle),
             st = "completed" => seal[Plan] = "whole"
      PROVE  Inv'
  BY <1>3, EndStep DEF Update, LockFree, Inv, ShapeOK
<1>4. CASE WorkerFound
  BY <1>3, <1>4 DEF WorkerFound
<1>5. CASE WorkerFresh
  BY <1>5, UpdateStep DEF WorkerFresh
<1>6. CASE WorkerFile
  BY <1>6, GotoStep, FileStep DEF WorkerFile
<1>7. CASE WorkerVerify
  BY <1>7, GotoStep, UpdateStep DEF WorkerVerify
<1>8. CASE WorkerFails
  BY <1>8, GotoStep DEF WorkerFails
<1>9. CASE WorkerSeal
  BY <1>9, GotoStep, SealStep DEF WorkerSeal
<1>10. CASE WorkerRecord
  BY <1>10, RecordStep
<1>11. CASE WorkerEnd
  BY <1>3, <1>11 DEF WorkerEnd
<1>12. QED
  BY <1>1, <1>2, <1>4, <1>5, <1>6, <1>7, <1>8, <1>9, <1>10, <1>11 DEF Worker

\* __init__ closes what the last process left unfinished.
LEMMA BootJobsStep ==
  ASSUME Inv, BootJobs
  PROVE  Inv'
<1> USE DEF Inv, artifacts, registry, thread, serving
<1>1. /\ phase = "down" /\ phase' = "boot" /\ ~Running /\ ~Running'
      /\ UNCHANGED <<artifacts, registry, thread, op, serving>>
  BY DEF BootJobs, Running
<1>2. ASSUME NEW j \in Jobs
      PROVE  /\ jobs'[j].state = Recovered(jobs[j].state)
             /\ jobs'[j].plan = jobs[j].plan /\ jobs'[j].ids = jobs[j].ids
             /\ jobs'[j].deployed = jobs[j].deployed
             /\ Recovered(jobs[j].state) \in States \ ACTIVE
             /\ \A st \in {"none", "completed", "deleted"} :
                    Recovered(jobs[j].state) = st <=> jobs[j].state = st
             /\ jobs'[j] \in [plan : Plans \cup {NoPlan}, state : States,
                              deployed : BOOLEAN, ids : SUBSET Plans]
  <2>1. jobs'[j] = [jobs[j] EXCEPT !.state = Recovered(jobs[j].state)]
    BY DEF BootJobs
  <2>2. jobs[j] \in [plan : Plans \cup {NoPlan}, state : States,
                     deployed : BOOLEAN, ids : SUBSET Plans]
    BY DEF TypeOK
  <2>3. /\ Recovered(jobs[j].state) \in States \ ACTIVE
        /\ \A st \in {"none", "completed", "deleted"} :
               Recovered(jobs[j].state) = st <=> jobs[j].state = st
    BY <2>2 DEF Recovered, States, ACTIVE
  <2>4. QED
    BY <2>1, <2>2, <2>3
<1>3. TypeOK'
  <2>1. jobs' \in [Jobs -> [plan : Plans \cup {NoPlan}, state : States,
                            deployed : BOOLEAN, ids : SUBSET Plans]]
    BY <1>2 DEF BootJobs
  <2>2. QED
    BY <1>1, <2>1 DEF TypeOK
<1>4. ShapeOK'
  BY <1>1 DEF ShapeOK
<1>5. OnePlan'
  BY <1>2 DEF OnePlan, State
<1>6. ThreadOK' /\ OpOK'
  BY <1>1 DEF ThreadOK, OpOK, ShapeOK, Idle, NoOp
<1>7. PoolOK'
  <2>1. Active' = {}
    BY <1>2 DEF Active, State
  <2>2. QED
    BY <1>1, <2>1 DEF PoolOK, Queued
<1>8. CompletedSealed'
  BY <1>1, <1>2 DEF CompletedSealed, State
<1>9. PlacesOK' /\ SealsOK' /\ Restartable'
  BY <1>1 DEF PlacesOK, SealsOK, Restartable, At, Whole, ShapeOK, NoOp
<1>10. QED
  BY <1>3, <1>4, <1>5, <1>6, <1>7, <1>8, <1>9

\* The registration is read, and its deployments are published.
LEMMA BootRegistryStep ==
  ASSUME Inv, BootRegistry
  PROVE  Inv'
<1> USE DEF Inv, artifacts, registry, thread, serving
<1>1. PICK kept \in SUBSET registered :
          /\ registered' = kept
          /\ \/ phase' = "hub" /\ configs' = kept
             \/ phase' = "down" /\ configs' = configs
  BY DEF BootRegistry
<1>2. /\ phase = "boot" /\ ~Running /\ ~Running'
      /\ UNCHANGED <<jobs, artifacts, native, crowded, thread, op, inUse>>
  BY <1>1 DEF BootRegistry, Running
<1>3. /\ configs = {} /\ inUse = {} /\ registered \in SUBSET Plans
  BY <1>2 DEF ShapeOK, TypeOK
<1>4. TypeOK'
  BY <1>1, <1>2, <1>3 DEF TypeOK
<1>5. ShapeOK'
  BY <1>1, <1>2, <1>3 DEF ShapeOK
<1>6. OnePlan' /\ ThreadOK' /\ OpOK' /\ CompletedSealed'
  BY <1>2 DEF OnePlan, ThreadOK, OpOK, CompletedSealed, State, ShapeOK, Idle, NoOp
<1>7. PoolOK'
  BY <1>1, <1>2 DEF PoolOK, Queued, Active, State
<1>8. PlacesOK' /\ SealsOK'
  BY <1>1, <1>2, <1>3 DEF PlacesOK, SealsOK, At, Whole, ShapeOK, NoOp
<1>9. Restartable'
  <2>1. Cardinality(kept) <= Cardinality(registered) /\ native \in SUBSET Plans
        /\ kept \in SUBSET Plans
    BY <1>1, <1>3, Smaller DEF TypeOK
  <2>2. /\ Cardinality(kept) \in Nat /\ Cardinality(native) \in Nat
        /\ Cardinality(registered) \in Nat /\ MaxDeployments \in Nat
    BY <1>3, <2>1, PlansCounted, HubAssumption
  <2>3. QED
    BY <1>1, <1>2, <2>1, <2>2 DEF Restartable
<1>10. QED
  BY <1>4, <1>5, <1>6, <1>7, <1>8, <1>9

\* The native deployments follow, if there is room.
LEMMA BootNativeStep ==
  ASSUME Inv, BootNative
  PROVE  Inv'
<1>1. CASE Vanish
  BY <1>1, VanishStep
<1>2. CASE /\ Cardinality(configs) + Cardinality(native) <= MaxDeployments
           /\ phase' = "up"
           /\ UNCHANGED <<jobs, artifacts, registry, thread, op, serving>>
  <2> USE DEF Inv, artifacts, registry, thread, serving
  <2>1. phase = "hub" /\ ~Running /\ Running'
    BY <1>2 DEF BootNative, Running
  <2>2. /\ pool = <<>> /\ worker = Idle /\ op = NoOp /\ stop = {} /\ inUse = {}
        /\ configs = registered /\ Active = {}
    BY <2>1 DEF ShapeOK, PlacesOK, PoolOK
  <2>3. TypeOK' /\ ShapeOK'
    BY <1>2, <2>1 DEF TypeOK, ShapeOK
  <2>4. OnePlan' /\ ThreadOK' /\ OpOK' /\ CompletedSealed'
    BY <1>2 DEF OnePlan, ThreadOK, OpOK, CompletedSealed, State, OpPlan, Plan
  <2>5. PoolOK'
    <3>1. Active' = {} /\ Queued' = {} /\ worker'.job = NoJob
      BY <1>2, <2>2 DEF Active, State, Queued, Idle
    <3>2. QED
      BY <1>2, <2>1, <2>2, <3>1, FS_EmptySet DEF PoolOK
  <2>6. PlacesOK' /\ SealsOK' /\ Restartable'
    BY <1>2, <2>1, <2>2 DEF PlacesOK, SealsOK, Restartable, At, Whole, NoOp
  <2>7. QED
    BY <2>3, <2>4, <2>5, <2>6
<1>3. QED
  BY <1>1, <1>2 DEF BootNative

\* close sets its flag.
LEMMA CloseStep ==
  ASSUME Inv, Close
  PROVE  Inv'
<1> USE DEF Inv, artifacts, registry, thread, serving
<1>1. /\ phase = "up" /\ phase' = "closing" /\ Running /\ Running'
      /\ UNCHANGED <<jobs, artifacts, registry, thread, op, serving>>
  BY DEF Close, Running
<1>2. TypeOK' /\ ShapeOK'
  BY <1>1 DEF TypeOK, ShapeOK
<1>3. OnePlan' /\ ThreadOK' /\ OpOK' /\ CompletedSealed'
  BY <1>1 DEF OnePlan, ThreadOK, OpOK, CompletedSealed, State, OpPlan, Plan
<1>4. PoolOK'
  BY <1>1 DEF PoolOK, Queued, Active, State
<1>5. PlacesOK' /\ SealsOK' /\ Restartable'
  BY <1>1 DEF PlacesOK, SealsOK, Restartable, At, Whole, OpPlan
<1>6. QED
  BY <1>2, <1>3, <1>4, <1>5

\* start and resume: a job that is not under way is queued.
LEMMA EnqueueStep ==
  ASSUME Inv, phase = "up", LockFree, NEW j \in Jobs, NEW p \in Plans,
         State(j) \in {"none", "failed", "cancelled", "interrupted"},
         State(j) # "none" => p = jobs[j].plan,
         State(j) = "none" => \A i \in Jobs : jobs[i].plan = p => State(i) = "deleted",
         Enqueue(j, p)
  PROVE  Inv'
<1> USE DEF Inv, artifacts, registry, serving
<1>1. /\ Running /\ Running' /\ op = NoOp /\ j \notin Active
      /\ UNCHANGED <<phase, artifacts, registry, worker, op, serving>>
  BY DEF Enqueue, Running, LockFree, ShapeOK, Active, ACTIVE
<1>2. /\ jobs' \in [Jobs -> [plan : Plans \cup {NoPlan}, state : States,
                             deployed : BOOLEAN, ids : SUBSET Plans]]
      /\ jobs'[j].state = "queued" /\ jobs'[j].plan = p /\ jobs'[j].ids = jobs[j].ids
      /\ \A i \in Jobs \ {j} : jobs'[i] = jobs[i]
  BY ZenonT(60) DEF TypeOK, Enqueue, States, ACTIVE
<1>3. Active' = Active \cup {j}
  BY <1>2 DEF Active, State, ACTIVE
<1>4. /\ pool \in Seq(Jobs) /\ pool' = Append(pool, j) /\ pool' \in Seq(Jobs)
      /\ Len(pool') = Len(pool) + 1 /\ Len(pool) \in Nat
      /\ \A i \in 1..Len(pool) : pool'[i] = pool[i]
      /\ pool'[Len(pool) + 1] = j
  BY DEF TypeOK, Enqueue
<1>5. DOMAIN pool = 1..Len(pool) /\ DOMAIN pool' = 1..(Len(pool) + 1)
  BY <1>4
<1>6. Queued' = Queued \cup {j}
  <2>1. \A i \in DOMAIN pool' : pool'[i] \in Queued \cup {j}
    BY <1>4, <1>5 DEF Queued
  <2>2. \A i \in DOMAIN pool : i \in DOMAIN pool' /\ pool'[i] = pool[i]
    BY <1>4, <1>5
  <2>3. Len(pool) + 1 \in DOMAIN pool' /\ pool'[Len(pool) + 1] = j
    BY <1>4, <1>5
  <2>4. QED
    BY <2>1, <2>2, <2>3 DEF Queued
<1>7. TypeOK'
  BY <1>1, <1>2, <1>4 DEF TypeOK, Enqueue
<1>8. ShapeOK'
  BY <1>1 DEF ShapeOK
<1>9. OnePlan'
  <2>1. /\ \A i \in Jobs : State(i)' = "none" <=> jobs'[i].plan = NoPlan
        /\ \A i \in Jobs : jobs'[i].ids \subseteq {jobs'[i].plan}
    BY <1>2, HubAssumption DEF OnePlan, State
  <2>2. ASSUME NEW i \in Jobs \ {j}, jobs'[i].plan = p, State(i)' # "deleted"
        PROVE  FALSE
    BY <1>2, <2>2 DEF OnePlan, State
  <2>3. QED
    BY <1>2, <2>1, <2>2 DEF OnePlan, State
<1>10. ThreadOK'
  BY <1>1 DEF ThreadOK, NoOp
<1>11. OpOK'
  BY <1>1 DEF OpOK, NoOp
<1>12. PoolOK'
  <2>1. j \notin Queued /\ j # worker.job
    BY <1>1, HubAssumption DEF PoolOK
  <2>2. Cardinality(Active') = Cardinality(Active) + 1
    BY <1>1, <1>3, JobsCounted, FS_AddElement DEF Active
  <2>3. \A i, k \in DOMAIN pool' : pool'[i] = pool'[k] => i = k
    <3>1. \A i \in 1..Len(pool) : pool[i] # j
      BY <1>5, <2>1 DEF Queued
    <3>2. QED
      BY <1>4, <1>5, <3>1 DEF PoolOK
  <2>4. Cardinality(Active') = Len(pool') + (IF worker = Idle THEN 0 ELSE 1)
    BY <1>1, <1>4, <2>2 DEF PoolOK
  <2>5. QED
    BY <1>1, <1>3, <1>6, <2>1, <2>3, <2>4 DEF PoolOK, Running
<1>13. CompletedSealed'
  BY <1>1, <1>2 DEF CompletedSealed, State
<1>14. PlacesOK' /\ SealsOK' /\ Restartable'
  BY <1>1 DEF PlacesOK, SealsOK, Restartable, At, Whole, NoOp
<1>15. QED
  BY <1>7, <1>8, <1>9, <1>10, <1>11, <1>12, <1>13, <1>14

\* A job is asked to stop.
LEMMA CancelStep ==
  ASSUME Inv, NEW j \in Jobs, Cancel(j)
  PROVE  Inv'
<1> USE DEF Inv, artifacts, registry, serving
<1>1. /\ Running /\ Running' /\ op = NoOp /\ State(j) \in ACTIVE
      /\ stop' = stop \cup {j}
      /\ UNCHANGED <<phase, artifacts, registry, pool, worker, op, serving>>
  BY DEF Cancel, Running, LockFree, ShapeOK
<1>2. /\ jobs' \in [Jobs -> [plan : Plans \cup {NoPlan}, state : States,
                             deployed : BOOLEAN, ids : SUBSET Plans]]
      /\ jobs'[j].state = "cancelling"
      /\ \A i \in Jobs \ {j} : jobs'[i] = jobs[i]
      /\ \A i \in Jobs : jobs'[i].plan = jobs[i].plan /\ jobs'[i].ids = jobs[i].ids
  BY UpdatedJobs DEF Cancel, States, ACTIVE
<1>3. Active' = Active
  BY <1>1, <1>2 DEF Active, State, ACTIVE
<1>4. TypeOK' /\ ShapeOK'
  BY <1>1, <1>2 DEF TypeOK, ShapeOK
<1>5. OnePlan'
  BY <1>1, <1>2 DEF OnePlan, State, ACTIVE
<1>6. ThreadOK' /\ OpOK'
  BY <1>1 DEF ThreadOK, OpOK, NoOp
<1>7. PoolOK'
  BY <1>1, <1>3 DEF PoolOK, Queued, Running
<1>8. CompletedSealed'
  BY <1>1, <1>2 DEF CompletedSealed, State
<1>9. PlacesOK' /\ SealsOK' /\ Restartable'
  BY <1>1 DEF PlacesOK, SealsOK, Restartable, At, Whole, NoOp
<1>10. QED
  BY <1>4, <1>5, <1>6, <1>7, <1>8, <1>9

\* An operation that holds the lock runs in a process that is up.
LEMMA OpRuns ==
  ASSUME Inv, op.kind \in {"register", "delete"}
  PROVE  Running /\ op.job \in Jobs /\ State(op.job) \in {"completed", "deleting"}
         /\ OpPlan \in Plans /\ worker.pc # "record"
<1>1. Running /\ op.job \in Jobs /\ worker.pc # "record"
      /\ State(op.job) \in {"completed", "deleting"}
  BY DEF Inv, ShapeOK, NoOp, ThreadOK, OpOK
<1>2. OpPlan \in Plans
  BY <1>1 DEF Inv, OnePlan, TypeOK, OpPlan, State
<1>3. QED
  BY <1>1, <1>2

\* Steps that leave the records and the thread alone.
LEMMA RecordsStay ==
  ASSUME Inv, Running, UNCHANGED <<phase, jobs, thread>>
  PROVE  OnePlan' /\ PoolOK'
BY DEF Inv, OnePlan, PoolOK, thread, Running, Queued, Active, State

\* Registration writes the registry file.
LEMMA RegisterSaveStep ==
  ASSUME Inv, NEW j \in Jobs, RegisterSave(j)
  PROVE  Inv'
<1> USE DEF Inv, artifacts, thread, serving
<1>1. /\ Running /\ Running' /\ op = NoOp /\ NativeUp = native
      /\ State(j) = "completed" /\ jobs[j].plan \in Plans
      /\ registered' = registered \cup {jobs[j].plan}
      /\ op' = [kind |-> "register", job |-> j, step |-> "publish"]
      /\ UNCHANGED <<phase, jobs, artifacts, native, crowded, thread, serving>>
  BY DEF RegisterSave, Running, LockFree, ShapeOK, NativeUp, OpAt, TypeOK, OnePlan, State
<1>2. /\ op'.kind = "register" /\ op'.job = j /\ op'.step = "publish"
      /\ OpPlan' = jobs[j].plan
  BY <1>1 DEF OpPlan
<1>3. Cardinality(configs) + Cardinality(native) < MaxDeployments
  <2>1. Cardinality(configs) \in Nat /\ Cardinality(native) \in Nat /\ MaxDeployments \in Nat
    BY PlansCounted, HubAssumption DEF TypeOK
  <2>2. ~Full
    BY DEF RegisterSave
  <2>3. QED
    BY <1>1, <2>1, <2>2 DEF Full
<1>4. seal[jobs[j].plan] = "whole"
  BY <1>1 DEF CompletedSealed
<1>5. TypeOK' /\ CompletedSealed'
  BY <1>1, <1>2 DEF TypeOK, CompletedSealed, State
<1>6. ShapeOK'
  BY <1>1, <1>2 DEF ShapeOK
<1>7. OnePlan' /\ PoolOK'
  BY <1>1, RecordsStay
<1>8. ThreadOK' /\ OpOK'
  BY <1>1, <1>2 DEF ThreadOK, OpOK, NoOp, State
<1>9. registered \ crowded \subseteq configs
  BY <1>1 DEF PlacesOK, At, NoOp
<1>10. PlacesOK'
  BY <1>1, <1>2, <1>3, <1>9 DEF PlacesOK, At, Running
<1>11. SealsOK'
  BY <1>1, <1>4 DEF SealsOK, Whole
<1>12. Restartable'
  <2> SUFFICES ASSUME crowded' = {}
               PROVE  Cardinality(registered') + Cardinality(native') <= MaxDeployments
    BY DEF Restartable
  <2>1. registered' \subseteq configs \cup {jobs[j].plan}
    BY <1>1, <1>9
  <2>2. /\ configs \in SUBSET Plans /\ configs \cup {jobs[j].plan} \in SUBSET Plans
        /\ registered' \in SUBSET Plans /\ native \in SUBSET Plans
    BY <1>1, <1>5 DEF TypeOK
  <2>3. Cardinality(registered') <= Cardinality(configs \cup {jobs[j].plan})
    BY <2>1, <2>2, Smaller
  <2>4. Cardinality(configs \cup {jobs[j].plan}) <= Cardinality(configs) + 1
    BY <1>1, <2>2, OneMore
  <2>5. /\ Cardinality(configs) \in Nat /\ Cardinality(configs \cup {jobs[j].plan}) \in Nat
        /\ Cardinality(registered') \in Nat /\ Cardinality(native) \in Nat
        /\ MaxDeployments \in Nat
    BY <2>2, PlansCounted, HubAssumption
  <2>6. QED
    BY <1>1, <1>3, <2>3, <2>4, <2>5
<1>13. QED
  BY <1>5, <1>6, <1>7, <1>8, <1>10, <1>11, <1>12

\* Registration publishes the saved entries to the service.
LEMMA RegisterPublishStep ==
  ASSUME Inv, RegisterPublish
  PROVE  Inv'
<1> USE DEF Inv, artifacts, registry, thread
<1>1. /\ op.kind = "register" /\ op.step = "publish"
      /\ UNCHANGED <<phase, jobs, artifacts, registry, thread, inUse>>
  BY DEF RegisterPublish, At
<1>2. /\ Running /\ Running' /\ op.job \in Jobs /\ State(op.job) = "completed"
      /\ OpPlan \in Plans /\ worker.pc # "record" /\ NativeUp = native
  BY <1>1, OpRuns DEF Running, OpOK, NativeUp
<1>3. seal[OpPlan] = "whole"
  BY <1>2 DEF CompletedSealed, OpPlan
<1>4. /\ Cardinality(configs) \in Nat /\ Cardinality(native) \in Nat
      /\ Cardinality(configs \cup {OpPlan}) \in Nat /\ MaxDeployments \in Nat
      /\ configs \in SUBSET Plans
  BY <1>2, PlansCounted, HubAssumption DEF TypeOK
<1>5. OnePlan' /\ PoolOK' /\ CompletedSealed' /\ Restartable'
  BY <1>1, <1>2, RecordsStay DEF CompletedSealed, State, Restartable
<1>6. CASE /\ OpPlan \in configs \/ ~Full
           /\ configs' = configs \cup {OpPlan}
           /\ op' = [op EXCEPT !.step = "record"]
  <2>1. op' = [kind |-> "register", job |-> op.job, step |-> "record"]
    BY <1>1, <1>6 DEF ShapeOK
  <2>2. TypeOK'
    BY <1>1, <1>2, <1>6, <2>1 DEF TypeOK
  <2>3. ShapeOK'
    BY <1>1, <1>2, <2>1 DEF ShapeOK, Running
  <2>4. ThreadOK' /\ OpOK'
    BY <1>1, <1>2, <2>1 DEF ThreadOK, OpOK, State
  <2>5. Cardinality(configs') + Cardinality(native) <= MaxDeployments
    <3>1. CASE OpPlan \in configs
      <4>1. configs' = configs
        BY <1>6, <3>1
      <4>2. QED
        BY <4>1, <1>2 DEF PlacesOK
    <3>2. CASE ~Full
      <4>1. Cardinality(configs \cup {OpPlan}) <= Cardinality(configs) + 1
        BY <1>2, <1>4, OneMore
      <4>2. QED
        BY <3>2, <4>1, <1>2, <1>4, <1>6 DEF Full
    <3>3. QED
      BY <3>1, <3>2, <1>6
  <2>6. PlacesOK'
    BY <1>1, <1>2, <1>6, <2>1, <2>5 DEF PlacesOK, At, Running
  <2>7. SealsOK'
    BY <1>1, <1>2, <1>3, <1>6 DEF SealsOK, Whole
  <2>8. QED
    BY <1>5, <2>2, <2>3, <2>4, <2>6, <2>7
<1>7. CASE OpPlan \notin configs /\ Full /\ op' = NoOp /\ UNCHANGED configs
  <2>1. TypeOK' /\ ShapeOK'
    BY <1>1, <1>2, <1>7, HubAssumption DEF TypeOK, ShapeOK, NoOp
  <2>2. ThreadOK' /\ OpOK'
    BY <1>1, <1>2, <1>7 DEF ThreadOK, OpOK, NoOp
  <2>3. OpPlan \in crowded
    BY <1>1, <1>2, <1>4, <1>7 DEF PlacesOK, At, Full
  <2>4. PlacesOK' /\ SealsOK'
    BY <1>1, <1>2, <1>7, <2>3 DEF PlacesOK, SealsOK, At, NoOp, Running, Whole
  <2>5. QED
    BY <1>5, <2>1, <2>2, <2>4
<1>8. QED
  BY <1>6, <1>7 DEF RegisterPublish

\* The last step of register or delete: the job is changed, the lock released.
LEMMA RegisterRecordStep ==
  ASSUME Inv, RegisterRecord
  PROVE  Inv'
<1> USE DEF Inv, artifacts, registry, thread, serving
<1>1. /\ op.kind = "register" /\ op.step = "record" /\ op' = NoOp
      /\ UNCHANGED <<phase, artifacts, registry, thread, serving>>
  BY DEF RegisterRecord, At
<1>2. Running /\ Running' /\ op.job \in Jobs /\ worker.pc # "record"
  BY <1>1, OpRuns DEF Running
<1>3. /\ jobs' \in [Jobs -> [plan : Plans \cup {NoPlan}, state : States,
                             deployed : BOOLEAN, ids : SUBSET Plans]]
      /\ \A i \in Jobs : /\ jobs'[i].plan = jobs[i].plan /\ jobs'[i].ids = jobs[i].ids
                         /\ jobs'[i].state = jobs[i].state
  <2>1. jobs' = [jobs EXCEPT ![op.job].deployed = TRUE]
    BY DEF RegisterRecord
  <2>2. jobs \in [Jobs -> [plan : Plans \cup {NoPlan}, state : States,
                          deployed : BOOLEAN, ids : SUBSET Plans]]
    BY DEF TypeOK
  <2>3. QED
    <3> HIDE DEF Inv
    <3>1. QED
      BY <1>2, <2>1, <2>2
<1>4. TypeOK'
  BY <1>1, <1>3, HubAssumption DEF TypeOK, NoOp
<1>5. ShapeOK'
  BY <1>1, <1>2, HubAssumption DEF ShapeOK, NoOp
<1>6. OnePlan' /\ CompletedSealed'
  BY <1>1, <1>3 DEF OnePlan, CompletedSealed, State
<1>7. ThreadOK' /\ OpOK'
  BY <1>1, <1>2 DEF ThreadOK, OpOK, NoOp
<1>8. PoolOK'
  <2>1. Active' = Active
    BY <1>3 DEF Active, State
  <2>2. QED
    BY <1>1, <1>2, <2>1 DEF PoolOK, Queued, Running
<1>9. PlacesOK' /\ SealsOK' /\ Restartable'
  BY <1>1, <1>2 DEF PlacesOK, SealsOK, Restartable, At, NoOp, Running, Whole
<1>10. QED
  BY <1>4, <1>5, <1>6, <1>7, <1>8, <1>9

\* Deletion marks the job.
LEMMA DeleteBeginStep ==
  ASSUME Inv, NEW j \in Jobs, DeleteBegin(j)
  PROVE  Inv'
<1> USE DEF Inv, artifacts, registry, thread, serving
<1>1. /\ Running /\ Running' /\ op = NoOp
      /\ State(j) \notin ACTIVE \cup {"none", "deleting", "deleted"}
      /\ jobs[j].plan \in Plans /\ jobs[j].plan \notin native
      /\ UNCHANGED <<phase, artifacts, registry, thread, serving>>
  BY DEF DeleteBegin, Deletable, Running, LockFree, ShapeOK, OnePlan, TypeOK, State
<1>2. op' = [kind |-> "delete", job |-> j, step |-> "save"]
  BY DEF DeleteBegin, OpAt
<1>3. /\ jobs' \in [Jobs -> [plan : Plans \cup {NoPlan}, state : States,
                             deployed : BOOLEAN, ids : SUBSET Plans]]
      /\ jobs'[j].state = "deleting"
      /\ jobs'[j].ids = jobs[j].ids \cup ({jobs[j].plan} \cap configs)
      /\ \A i \in Jobs \ {j} : jobs'[i] = jobs[i]
      /\ \A i \in Jobs : jobs'[i].plan = jobs[i].plan
  <2>1. jobs' = [jobs EXCEPT ![j] = [jobs[j] EXCEPT
                     !.state = "deleting",
                     !.ids = jobs[j].ids \cup ({jobs[j].plan} \cap configs)]]
    BY DEF DeleteBegin, TypeOK
  <2>2. "deleting" \in States
    BY DEF States
  <2>3. jobs[j].ids \cup ({jobs[j].plan} \cap configs) \in SUBSET Plans
    BY DEF TypeOK
  <2>4. QED
    BY <2>1, <2>2, <2>3, ZenonT(60) DEF TypeOK
<1>4. OpPlan' = jobs[j].plan
  BY <1>2, <1>3 DEF OpPlan
<1>5. TypeOK'
  BY <1>1, <1>2, <1>3 DEF TypeOK
<1>6. ShapeOK'
  BY <1>1, <1>2 DEF ShapeOK
<1>7. OnePlan' /\ CompletedSealed'
  BY <1>1, <1>3 DEF OnePlan, CompletedSealed, State
<1>8. ThreadOK'
  BY <1>1, <1>2 DEF ThreadOK, NoOp
<1>9. OpOK'
  BY <1>1, <1>2, <1>3, <1>4 DEF OpOK, State
<1>10. PoolOK'
  <2>1. Active' = Active
    BY <1>1, <1>3 DEF Active, State, ACTIVE
  <2>2. QED
    BY <1>1, <2>1 DEF PoolOK, Queued, Running
<1>11. PlacesOK' /\ SealsOK' /\ Restartable'
  BY <1>1, <1>2 DEF PlacesOK, SealsOK, Restartable, At, NoOp, Running, Whole
<1>12. QED
  BY <1>5, <1>6, <1>7, <1>8, <1>9, <1>10, <1>11

\* What every step of a deletion starts from.
LEMMA Deleting ==
  ASSUME Inv, op.kind = "delete"
  PROVE  /\ Running /\ op.job \in Jobs /\ State(op.job) = "deleting"
         /\ OpPlan \in Plans /\ OpPlan \notin native /\ worker.pc # "record"
         /\ jobs[op.job].ids \subseteq {OpPlan}
         /\ registered \ crowded \subseteq configs
         /\ \A i \in Jobs : jobs[i].plan = OpPlan /\ i # op.job => State(i) = "deleted"
BY OpRuns DEF Inv, OpOK, OnePlan, OpPlan, PlacesOK, At, State

\* Deletion writes the registry file.
LEMMA DeleteSaveStep ==
  ASSUME Inv, DeleteSave
  PROVE  Inv'
<1> USE DEF Inv, artifacts, thread, serving
<1>1. /\ op.kind = "delete" /\ op.step = "save"
      /\ registered' = registered \ jobs[op.job].ids
      /\ UNCHANGED <<phase, jobs, artifacts, native, crowded, thread, serving>>
  BY DEF DeleteSave, At
<1>2. op' = [kind |-> "delete", job |-> op.job, step |-> "retire"]
  BY <1>1 DEF DeleteSave, ShapeOK
<1>3. /\ Running /\ Running' /\ op.job \in Jobs /\ worker.pc # "record"
      /\ registered \ crowded \subseteq configs
  BY <1>1, Deleting DEF Running
<1>4. TypeOK' /\ ShapeOK' /\ CompletedSealed'
  BY <1>1, <1>2, <1>3 DEF TypeOK, ShapeOK, CompletedSealed, State
<1>5. OnePlan' /\ PoolOK'
  BY <1>1, <1>3, RecordsStay
<1>6. ThreadOK' /\ OpOK'
  BY <1>1, <1>2, <1>3 DEF ThreadOK, OpOK, State, OpPlan
<1>7. PlacesOK' /\ SealsOK'
  BY <1>1, <1>2, <1>3 DEF PlacesOK, SealsOK, At, Running, Whole
<1>8. Restartable'
  <2>1. registered \in SUBSET Plans /\ registered' \subseteq registered /\ native \in SUBSET Plans
    BY <1>1 DEF TypeOK
  <2>2. Cardinality(registered') <= Cardinality(registered)
    BY <2>1, Smaller
  <2>3. /\ Cardinality(registered') \in Nat /\ Cardinality(registered) \in Nat
        /\ Cardinality(native) \in Nat /\ MaxDeployments \in Nat
    BY <2>1, PlansCounted, HubAssumption
  <2>4. QED
    BY <1>1, <2>2, <2>3 DEF Restartable
<1>9. QED
  BY <1>4, <1>5, <1>6, <1>7, <1>8

\* Deletion takes the entries out of service.
LEMMA DeleteRetireStep ==
  ASSUME Inv, DeleteRetire
  PROVE  Inv'
<1> USE DEF Inv, artifacts, registry, thread
<1>1. /\ op.kind = "delete" /\ op.step = "retire" /\ jobs[op.job].ids \cap inUse = {}
      /\ configs' = configs \ jobs[op.job].ids
      /\ UNCHANGED <<phase, jobs, artifacts, registry, thread, inUse>>
  BY DEF DeleteRetire, At
<1>2. op' = [kind |-> "delete", job |-> op.job, step |-> "remove"]
  BY <1>1 DEF DeleteRetire, ShapeOK
<1>3. /\ Running /\ Running' /\ op.job \in Jobs /\ worker.pc # "record"
      /\ registered \ crowded \subseteq configs
  BY <1>1, Deleting DEF Running
<1>4. TypeOK' /\ ShapeOK' /\ CompletedSealed'
  BY <1>1, <1>2, <1>3 DEF TypeOK, ShapeOK, CompletedSealed, State, Running
<1>5. OnePlan' /\ PoolOK' /\ Restartable'
  BY <1>1, <1>3, RecordsStay DEF Restartable
<1>6. ThreadOK' /\ OpOK'
  BY <1>1, <1>2, <1>3 DEF ThreadOK, OpOK, State, OpPlan
<1>7. SealsOK'
  BY <1>1, <1>2, <1>3 DEF SealsOK, Whole
<1>8. PlacesOK'
  <2>1. configs \in SUBSET Plans /\ configs' \subseteq configs /\ native \in SUBSET Plans
    BY <1>1 DEF TypeOK
  <2>2. Cardinality(configs') <= Cardinality(configs)
    BY <2>1, Smaller
  <2>3. /\ Cardinality(configs') \in Nat /\ Cardinality(configs) \in Nat
        /\ Cardinality(native) \in Nat /\ MaxDeployments \in Nat
    BY <2>1, PlansCounted, HubAssumption
  <2>4. Cardinality(configs') + Cardinality(native') <= MaxDeployments
    BY <1>1, <1>3, <2>2, <2>3 DEF PlacesOK
  <2>5. registered' \ crowded' \subseteq configs'
    BY <1>1, <1>3 DEF OpOK
  <2>6. QED
    BY <1>2, <1>3, <2>4, <2>5 DEF PlacesOK, At, Running
<1>9. QED
  BY <1>4, <1>5, <1>6, <1>7, <1>8

\* The directory goes, file by file: nothing that is deployed needs it.
LEMMA DeleteRemoveStep ==
  ASSUME Inv, DeleteBreak \/ DeleteRemove
  PROVE  Inv'
<1> USE DEF Inv, registry, thread, serving
<1>1. /\ op.kind = "delete" /\ op.step = "remove"
      /\ UNCHANGED <<phase, jobs, registry, thread, serving>>
  BY DEF DeleteBreak, DeleteRemove, At
<1>2. /\ Running /\ Running' /\ op.job \in Jobs /\ worker.pc # "record"
      /\ State(op.job) = "deleting" /\ OpPlan \in Plans /\ OpPlan \notin native
      /\ registered \ crowded \subseteq configs
      /\ \A i \in Jobs : jobs[i].plan = OpPlan /\ i # op.job => State(i) = "deleted"
  BY <1>1, Deleting DEF Running
<1>3. /\ op' \in {[kind |-> "delete", job |-> op.job, step |-> "remove"],
                  [kind |-> "delete", job |-> op.job, step |-> "record"]}
      /\ OpPlan' = OpPlan
  BY <1>1 DEF DeleteBreak, DeleteRemove, ShapeOK, OpPlan
<1>4. /\ seal' \in [Plans -> {"absent", "whole", "broken"}]
      /\ \A p \in Plans \ {OpPlan} : seal'[p] = seal[p]
      /\ part' \in [Plans -> 0..Files]
  <2>1. 0 \in 0..Files
    BY HubAssumption
  <2>2. CASE seal' = [seal EXCEPT ![OpPlan] = "broken"] /\ part' = part
    BY <1>2, <2>2 DEF TypeOK
  <2>3. CASE /\ seal' = [seal EXCEPT ![OpPlan] = "absent"]
             /\ part' = [part EXCEPT ![OpPlan] = 0]
    BY <1>2, <2>1, <2>3 DEF TypeOK
  <2>4. QED
    BY <2>2, <2>3 DEF DeleteBreak, DeleteRemove
<1>5. TypeOK' /\ ShapeOK'
  BY <1>1, <1>2, <1>3, <1>4 DEF TypeOK, ShapeOK
<1>6. CompletedSealed'
  BY <1>1, <1>2, <1>4 DEF CompletedSealed, State, OnePlan, TypeOK
<1>7. OnePlan' /\ PoolOK' /\ Restartable'
  BY <1>1, <1>2, RecordsStay DEF Restartable
<1>8. ThreadOK'
  BY <1>1, <1>2, <1>3 DEF ThreadOK
<1>9. OpOK'
  BY <1>1, <1>2, <1>3 DEF OpOK, State
<1>10. PlacesOK'
  BY <1>1, <1>2, <1>3 DEF PlacesOK, At, Running
<1>11. SealsOK'
  <2>1. OpPlan \notin configs
    BY <1>1 DEF OpOK
  <2>2. QED
    BY <1>1, <1>2, <1>4, <2>1 DEF SealsOK, Whole, TypeOK
<1>12. QED
  BY <1>5, <1>6, <1>7, <1>8, <1>9, <1>10, <1>11

\* The deletion is recorded, or its failure is.
LEMMA DeleteEndStep ==
  ASSUME Inv, DeleteRecord \/ DeleteFail
  PROVE  Inv'
<1> USE DEF Inv, artifacts, registry, thread, serving
<1>1. /\ op.kind = "delete" /\ op' = NoOp
      /\ UNCHANGED <<phase, artifacts, registry, thread, serving>>
  BY DEF DeleteRecord, DeleteFail, At
<1>2. /\ Running /\ Running' /\ op.job \in Jobs /\ worker.pc # "record"
      /\ State(op.job) = "deleting" /\ registered \ crowded \subseteq configs
  BY <1>1, Deleting DEF Running
<1>3. /\ jobs' \in [Jobs -> [plan : Plans \cup {NoPlan}, state : States,
                             deployed : BOOLEAN, ids : SUBSET Plans]]
      /\ jobs'[op.job].state \in {"deleted", "delete_failed"}
      /\ \A i \in Jobs \ {op.job} : jobs'[i] = jobs[i]
      /\ \A i \in Jobs : jobs'[i].plan = jobs[i].plan /\ jobs'[i].ids = jobs[i].ids
  <2>1. PICK st \in {"deleted", "delete_failed"}, b \in BOOLEAN :
            jobs' = [jobs EXCEPT ![op.job] =
                        [jobs[op.job] EXCEPT !.state = st, !.deployed = b]]
    <3>1. CASE DeleteRecord
      BY <3>1, <1>2 DEF DeleteRecord, TypeOK
    <3>2. CASE DeleteFail
      <4>1. jobs' = [jobs EXCEPT ![op.job].state = "delete_failed"]
        BY <3>2 DEF DeleteFail
      <4>2. jobs[op.job].deployed \in BOOLEAN
        BY <1>2 DEF TypeOK
      <4>3. QED
        BY <4>1, <4>2, <1>2 DEF TypeOK
    <3>3. QED
      BY <3>1, <3>2
  <2>2. st \in States
    BY DEF States
  <2> DEFINE r == [jobs[op.job] EXCEPT !.state = st, !.deployed = b]
  <2>3. /\ r \in [plan : Plans \cup {NoPlan}, state : States,
                  deployed : BOOLEAN, ids : SUBSET Plans]
        /\ r.state = st /\ r.plan = jobs[op.job].plan /\ r.ids = jobs[op.job].ids
    BY <1>2, <2>2 DEF TypeOK
  <2>4. jobs' = [jobs EXCEPT ![op.job] = r]
    BY <2>1
  <2> HIDE DEF r
  <2>5. QED
    BY <1>2, <2>3, <2>4 DEF TypeOK
<1>4. TypeOK'
  BY <1>1, <1>3, HubAssumption DEF TypeOK, NoOp
<1>5. ShapeOK'
  BY <1>1, <1>2, HubAssumption DEF ShapeOK, NoOp
<1>6. OnePlan' /\ CompletedSealed'
  BY <1>1, <1>2, <1>3 DEF OnePlan, CompletedSealed, State
<1>7. ThreadOK' /\ OpOK'
  BY <1>1, <1>2 DEF ThreadOK, OpOK, NoOp
<1>8. PoolOK'
  <2>1. Active' = Active
    BY <1>2, <1>3 DEF Active, State, ACTIVE
  <2>2. QED
    BY <1>1, <1>2, <2>1 DEF PoolOK, Queued, Running
<1>9. PlacesOK' /\ SealsOK' /\ Restartable'
  BY <1>1, <1>2 DEF PlacesOK, SealsOK, Restartable, At, NoOp, Running, Whole
<1>10. QED
  BY <1>4, <1>5, <1>6, <1>7, <1>8, <1>9

\* Deployments are loaded and unloaded.
LEMMA LoadStep ==
  ASSUME Inv, NEW p \in Plans, Load(p) \/ Unload(p)
  PROVE  Inv'
<1> USE DEF Inv, artifacts, registry, thread
<1>1. /\ Running /\ Running' /\ inUse' \subseteq configs
      /\ UNCHANGED <<phase, jobs, artifacts, registry, thread, op, configs>>
  BY DEF Load, Unload, Running, TypeOK
<1>2. TypeOK' /\ ShapeOK' /\ CompletedSealed'
  BY <1>1 DEF TypeOK, ShapeOK, CompletedSealed, State, Running
<1>3. OnePlan' /\ PoolOK' /\ Restartable'
  BY <1>1, RecordsStay DEF Restartable
<1>4. ThreadOK' /\ OpOK'
  BY <1>1 DEF ThreadOK, OpOK, State, OpPlan, Plan
<1>5. PlacesOK' /\ SealsOK'
  BY <1>1 DEF PlacesOK, SealsOK, At, OpPlan, Running, Whole
<1>6. QED
  BY <1>2, <1>3, <1>4, <1>5

\* Native engines come and go; the one that takes the last place is noted.
LEMMA NativeStep ==
  ASSUME Inv, NEW p \in Plans, NativeRegister(p) \/ NativeRetire(p)
  PROVE  Inv'
<1> USE DEF Inv, artifacts, thread, serving
<1>1. /\ Running /\ Running' /\ op.kind # "delete" /\ NativeUp = native
      /\ UNCHANGED <<phase, jobs, artifacts, registered, thread, op, serving>>
  BY DEF NativeRegister, NativeRetire, Running, ServiceLockFree, NativeUp
<1>2. /\ configs \in SUBSET Plans /\ native \in SUBSET Plans /\ crowded \in SUBSET Plans
      /\ registered \in SUBSET Plans
      /\ native \ {p} \in SUBSET Plans
      /\ Cardinality(configs) \in Nat /\ Cardinality(native) \in Nat
      /\ Cardinality(registered) \in Nat /\ MaxDeployments \in Nat
      /\ Cardinality(native \cup {p}) \in Nat /\ Cardinality(native \ {p}) \in Nat
  BY PlansCounted, HubAssumption DEF TypeOK
<1>3. native' \in SUBSET Plans /\ crowded' \in SUBSET Plans
  BY <1>2, OpRuns DEF NativeRegister, NativeRetire, LosesPlace, At
<1>4. TypeOK' /\ ShapeOK' /\ CompletedSealed'
  BY <1>1, <1>3 DEF TypeOK, ShapeOK, CompletedSealed, State, Running
<1>5. OnePlan' /\ PoolOK'
  BY <1>1, RecordsStay
<1>6. ThreadOK' /\ OpOK'
  BY <1>1 DEF ThreadOK, OpOK, State, OpPlan, Plan
<1>7. registered \ crowded \subseteq
          configs \cup (IF At("register", "publish") THEN {OpPlan} ELSE {})
  BY <1>1 DEF PlacesOK
<1>8. CASE NativeRegister(p)
  <2>1. /\ p \in configs \ native /\ native' = native \cup {p}
        /\ crowded' = IF LosesPlace THEN crowded \cup {OpPlan} ELSE crowded
        /\ Cardinality(configs) + Cardinality(native) < MaxDeployments
    BY <1>1, <1>2, <1>8 DEF NativeRegister, Full
  <2>2. Cardinality(native') = Cardinality(native) + 1
    BY <1>2, <2>1, OneMore
  <2>3. At("register", "publish")' = At("register", "publish") /\ OpPlan' = OpPlan
    BY <1>1 DEF At, OpPlan
  <2>4. PlacesOK'
    <3>1. Cardinality(configs') + Cardinality(native') <= MaxDeployments
      BY <1>1, <1>2, <2>1, <2>2
    <3>2. crowded \subseteq crowded'
      BY <2>1
    <3>3. ASSUME At("register", "publish"), OpPlan \notin configs, OpPlan \notin crowded'
          PROVE  Cardinality(configs) + Cardinality(native) + 1 < MaxDeployments
      BY <1>2, <2>1, <3>3 DEF LosesPlace
    <3>4. QED
      BY <1>1, <1>2, <1>7, <2>2, <2>3, <3>1, <3>2, <3>3 DEF PlacesOK, Running
  <2>5. SealsOK'
    BY <1>1, <2>1 DEF SealsOK, Whole
  <2>6. Restartable'
    <3> SUFFICES ASSUME crowded' = {}
                 PROVE  Cardinality(registered) + Cardinality(native') <= MaxDeployments
      BY <1>1 DEF Restartable
    <3>1. crowded = {} /\ ~LosesPlace
      BY <2>1
    <3>2. CASE At("register", "publish") /\ OpPlan \notin configs
      <4>1. Cardinality(configs) + Cardinality(native) + 1 < MaxDeployments /\ OpPlan \in Plans
        BY <1>2, <3>1, <3>2, OpRuns DEF LosesPlace, At
      <4>2. Cardinality(registered) <= Cardinality(configs \cup {OpPlan})
            /\ Cardinality(configs \cup {OpPlan}) \in Nat
        BY <1>2, <1>7, <3>1, <4>1, Smaller, PlansCounted
      <4>3. Cardinality(configs \cup {OpPlan}) <= Cardinality(configs) + 1
        BY <1>2, <4>1, OneMore
      <4>4. QED
        BY <1>2, <2>2, <4>1, <4>2, <4>3
    <3>3. CASE ~(At("register", "publish") /\ OpPlan \notin configs)
      <4>1. registered \subseteq configs
        BY <1>7, <3>1, <3>3
      <4>2. Cardinality(registered) <= Cardinality(configs)
        BY <1>2, <4>1, Smaller
      <4>3. QED
        BY <1>2, <2>1, <2>2, <4>2
    <3>4. QED
      BY <3>2, <3>3
  <2>7. QED
    BY <1>4, <1>5, <1>6, <2>4, <2>5, <2>6
<1>9. CASE NativeRetire(p)
  <2>1. native' = native \ {p} /\ crowded' = crowded
    BY <1>9 DEF NativeRetire
  <2>2. Cardinality(native') <= Cardinality(native) /\ Cardinality(native') \in Nat
    BY <1>2, <2>1, Smaller
  <2>3. PlacesOK' /\ SealsOK' /\ Restartable'
    BY <1>1, <1>2, <1>7, <2>1, <2>2
       DEF PlacesOK, SealsOK, Restartable, At, OpPlan, Running, Whole
  <2>4. QED
    BY <1>4, <1>5, <1>6, <2>3
<1>10. QED
  BY <1>8, <1>9
\* Every step keeps the invariant.
LEMMA NextStep == Inv /\ [Next]_vars => Inv'
<1> SUFFICES ASSUME Inv, [Next]_vars PROVE Inv'
  OBVIOUS
<1>1. CASE Boot
  BY <1>1, BootJobsStep, BootRegistryStep, BootNativeStep DEF Boot
<1>2. CASE Crash \/ Closed
  BY <1>2, VanishStep DEF Crash, Closed
<1>3. CASE Close
  BY <1>3, CloseStep
<1>4. ASSUME NEW j \in Jobs, NEW p \in Plans, Start(j, p) PROVE Inv'
  BY <1>4, EnqueueStep DEF Start
<1>5. ASSUME NEW j \in Jobs, Cancel(j) PROVE Inv'
  BY <1>5, CancelStep
<1>6. ASSUME NEW j \in Jobs, Resume(j) PROVE Inv'
  <2>1. jobs[j].plan \in Plans
    BY <1>6 DEF Inv, Resume, OnePlan, TypeOK, State
  <2>2. QED
    BY <1>6, <2>1, EnqueueStep DEF Resume, Inv, OnePlan
<1>7. ASSUME NEW j \in Jobs, RegisterSave(j) PROVE Inv'
  BY <1>7, RegisterSaveStep
<1>8. ASSUME NEW j \in Jobs, DeleteBegin(j) PROVE Inv'
  BY <1>8, DeleteBeginStep
<1>9. CASE Worker
  BY <1>9, WorkerStep
<1>10. CASE Operation
  BY <1>10, RegisterPublishStep, RegisterRecordStep, DeleteSaveStep, DeleteRetireStep,
     DeleteRemoveStep, DeleteEndStep DEF Operation
<1>11. ASSUME NEW p \in Plans, Load(p) \/ Unload(p) PROVE Inv'
  BY <1>11, LoadStep
<1>12. ASSUME NEW p \in Plans, NativeRegister(p) \/ NativeRetire(p) PROVE Inv'
  BY <1>12, NativeStep
<1>13. CASE UNCHANGED vars
  BY <1>13 DEF Inv, vars, artifacts, registry, thread, serving, TypeOK, ShapeOK, OnePlan,
     PoolOK, ThreadOK, OpOK, PlacesOK, CompletedSealed, SealsOK, Restartable, Running,
     State, Active, Queued, Whole, OpPlan, Plan, At
<1>14. QED
  BY <1>1, <1>2, <1>3, <1>4, <1>5, <1>6, <1>7, <1>8, <1>9, <1>10, <1>11, <1>12, <1>13
  DEF Next

\* The inductive invariant holds in every state of the hub, over any number
\* of crashes and restarts.
THEOREM Invariance == Spec => []Inv
BY Initially, NextStep, PTL DEF Spec

\* RecordsSound: a job that says completed has a whole directory, whatever
\* crashes and failed deletions came between.
THEOREM RecordsHold == Spec => []RecordsSound
<1>1. Inv => RecordsSound
  BY DEF Inv, RecordsSound
<1>2. QED
  BY <1>1, Invariance, PTL

\* ActiveScheduled: the jobs under way are exactly those of the download
\* thread and its queue, each once and no two of one plan.
THEOREM ScheduleHolds == Spec => []ActiveScheduled
<1>1. Inv => ActiveScheduled
  <2> SUFFICES ASSUME Inv, Running PROVE ActiveScheduled
    BY DEF ActiveScheduled
  <2>1. /\ Active = Queued \cup ({worker.job} \ {NoJob})
        /\ Cardinality(Active) = Len(pool) + (IF worker = Idle THEN 0 ELSE 1)
    BY DEF Inv, PoolOK
  <2>2. \A i, j \in Active : jobs[i].plan = jobs[j].plan => i = j
    BY DEF Inv, OnePlan, Active, ACTIVE
  <2>3. QED
    BY <2>1, <2>2 DEF ActiveScheduled, Queued
<1>2. QED
  BY <1>1, Invariance, PTL

\* Restartable: what the two registration files hold fits the limit, unless
\* a native deployment took a place that register had promised.
THEOREM RestartHolds == Spec => []Restartable
<1>1. Inv => Restartable
  BY DEF Inv
<1>2. QED
  BY <1>1, Invariance, PTL

\* Only the thread completes a job, and the job is its own.
LEMMA WhoCompletes ==
  ASSUME Inv, Next, NEW j \in Jobs, State(j) # "completed", jobs'[j].state = "completed"
  PROVE  worker.job = j /\ worker.pc \in {"found", "record"}
<1> USE DEF artifacts, registry, thread, serving
<1> DEFINE Set(i, st) == jobs' = [jobs EXCEPT ![i].state = st]
<1>1. CASE Worker
  <2>1. CASE WorkerTake \/ WorkerLook \/ WorkerFails \/ WorkerFile \/ WorkerSeal
    BY <2>1 DEF WorkerTake, WorkerLook, WorkerFails, WorkerFile, WorkerSeal, Goto, State
  <2>2. CASE WorkerFound \/ WorkerFresh \/ WorkerVerify \/ WorkerEnd
    <3>1. CASE UNCHANGED jobs
      BY <3>1 DEF State
    <3>2. ASSUME NEW st \in {"failed", "downloading", "verifying", "interrupted", "cancelled"},
                 Set(worker.job, st)
          PROVE  FALSE
      BY <3>2 DEF Inv, TypeOK, State
    <3>3. CASE WorkerFound /\ Set(worker.job, "completed")
      BY <3>3 DEF WorkerFound, Inv, TypeOK, State
    <3>4. QED
      BY <2>2, <3>1, <3>2, <3>3
      DEF WorkerFound, WorkerFresh, WorkerVerify, WorkerEnd, Update, Goto
  <2>3. CASE WorkerRecord
    <3>1. Set(worker.job, "completed") \/ UNCHANGED jobs
      BY <2>3 DEF WorkerRecord
    <3>2. worker.pc = "record"
      BY <2>3 DEF WorkerRecord
    <3>3. QED
      BY <3>1, <3>2 DEF Inv, TypeOK, State
  <2>4. QED
    BY <1>1, <2>1, <2>2, <2>3 DEF Worker
<1>2. CASE BootJobs
  BY <1>2 DEF BootJobs, Recovered, Inv, TypeOK, State, ACTIVE
<1>3. ASSUME NEW i \in Jobs, NEW p \in Plans \cup {NoPlan}, Enqueue(i, p) PROVE FALSE
  <2>1. jobs' = [jobs EXCEPT ![i].plan = p, ![i].state = "queued"]
    BY <1>3 DEF Enqueue
  <2>2. QED
    BY <2>1 DEF Inv, TypeOK, State
<1>4. ASSUME NEW i \in Jobs, Cancel(i) PROVE FALSE
  <2>1. Set(i, "cancelling")
    BY <1>4 DEF Cancel
  <2>2. QED
    BY <2>1 DEF Inv, TypeOK, State
<1>5. ASSUME NEW i \in Jobs, DeleteBegin(i) PROVE FALSE
  <2>1. jobs' = [jobs EXCEPT ![i] = [jobs[i] EXCEPT
                     !.state = "deleting",
                     !.ids = jobs[i].ids \cup ({jobs[i].plan} \cap configs)]]
    BY <1>5 DEF DeleteBegin, Inv, TypeOK
  <2>2. QED
    BY <2>1 DEF Inv, TypeOK, State
<1>6. CASE RegisterRecord
  <2>1. jobs' = [jobs EXCEPT ![op.job].deployed = TRUE]
    BY <1>6 DEF RegisterRecord
  <2>2. QED
    BY <2>1 DEF Inv, TypeOK, State
<1>7. CASE DeleteRecord
  <2>1. jobs' = [jobs EXCEPT ![op.job].state = "deleted", ![op.job].deployed = FALSE]
    BY <1>7 DEF DeleteRecord
  <2>2. QED
    BY <2>1 DEF Inv, TypeOK, State
<1>8. CASE DeleteFail
  <2>1. Set(op.job, "delete_failed")
    BY <1>8 DEF DeleteFail
  <2>2. QED
    BY <2>1 DEF Inv, TypeOK, State
<1>9. CASE UNCHANGED jobs
  BY <1>9 DEF State
<1>10. CASE Boot
  BY <1>10, <1>2, <1>9 DEF Boot, BootRegistry, BootNative, Vanish
<1>11. CASE Crash \/ Closed \/ Close
  BY <1>11, <1>9 DEF Crash, Closed, Close, Vanish
<1>12. ASSUME NEW i \in Jobs,
              \/ \E p \in Plans : Start(i, p)
              \/ Cancel(i) \/ Resume(i) \/ RegisterSave(i) \/ DeleteBegin(i)
       PROVE  worker.job = j /\ worker.pc \in {"found", "record"}
  <2>1. jobs[i].plan \in Plans \cup {NoPlan}
    BY DEF Inv, TypeOK
  <2>2. QED
    BY <1>12, <2>1, <1>3, <1>4, <1>5, <1>9 DEF Start, Resume, RegisterSave
<1>13. CASE Operation
  BY <1>13, <1>6, <1>7, <1>8, <1>9 DEF Operation, RegisterPublish, DeleteSave, DeleteRetire,
     DeleteBreak, DeleteRemove
<1>14. ASSUME NEW p \in Plans, Load(p) \/ Unload(p) \/ NativeRegister(p) \/ NativeRetire(p)
       PROVE  worker.job = j /\ worker.pc \in {"found", "record"}
  BY <1>14, <1>9 DEF Load, Unload, NativeRegister, NativeRetire
<1>15. QED
  BY <1>1, <1>10, <1>11, <1>12, <1>13, <1>14 DEF Next

\* CancelWins: a job whose cancel was accepted is completed only by the
\* recovery of a directory that was sealed before.
THEOREM CancelHolds == Spec => CancelWins
<1>1. Inv /\ [Next]_vars =>
        [\A j \in stop : State(j) \in ACTIVE /\ jobs'[j].state = "completed"
                             => worker.job = j /\ worker.pc = "found"]_vars
  <2> SUFFICES ASSUME Inv, Next, NEW j \in stop, State(j) \in ACTIVE,
                      jobs'[j].state = "completed"
               PROVE  worker.job = j /\ worker.pc = "found"
    OBVIOUS
  <2>1. j \in Jobs /\ State(j) # "completed"
    BY DEF Inv, TypeOK, ACTIVE
  <2>2. worker.job = j /\ worker.pc \in {"found", "record"}
    BY <2>1, WhoCompletes
  <2>3. QED
    BY <2>2 DEF Inv, ThreadOK
<1>2. QED
  BY <1>1, Invariance, PTL DEF Spec, CancelWins

\* The state of ArtifactStore that a state of the hub stands for.
Deployed == (configs \cup NativeUp) \ crowded
Loaded == inUse \ crowded

\* The steps of ArtifactStore, in terms of that state.
LEMMA StoreSteps ==
  /\ (Whole' = Whole /\ Deployed' = Deployed /\ Loaded' = Loaded) => UNCHANGED Store!vars
  /\ (Whole' = Whole /\ Deployed' = {} /\ Loaded' = {}) => Store!Next
  /\ \A S \in SUBSET Plans :
         (/\ S \subseteq Whole /\ Deployed' = Deployed \cup S
          /\ Whole' = Whole /\ Loaded' = Loaded) => Store!Next
  /\ \A p \in Plans :
         /\ (/\ p \notin Whole /\ Whole' = Whole \cup {p}
             /\ Deployed' = Deployed /\ Loaded' = Loaded) => Store!Next
         /\ (/\ p \in Whole \ Deployed /\ Whole' = Whole \ {p}
             /\ Deployed' = Deployed /\ Loaded' = Loaded) => Store!Next
         /\ (/\ p \notin Loaded /\ Deployed' = Deployed \ {p}
             /\ Whole' = Whole /\ Loaded' = Loaded) => Store!Next
         /\ (/\ p \in Deployed /\ Loaded' = Loaded \cup {p}
             /\ Whole' = Whole /\ Deployed' = Deployed) => Store!Next
         /\ (/\ Loaded' = Loaded \ {p}
             /\ Whole' = Whole /\ Deployed' = Deployed) => Store!Next
<1> USE DEF Store!Next, Deployed, Loaded, Whole
<1>1. (Whole' = Whole /\ Deployed' = Deployed /\ Loaded' = Loaded) => UNCHANGED Store!vars
  BY DEF Store!vars
<1>2. (Whole' = Whole /\ Deployed' = {} /\ Loaded' = {}) => Store!Next
  BY DEF Store!Stop
<1>3. ASSUME NEW S \in SUBSET Plans, S \subseteq Whole, Deployed' = Deployed \cup S,
             Whole' = Whole, Loaded' = Loaded
      PROVE  Store!Next
  BY <1>3 DEF Store!Publish
<1>4. ASSUME NEW p \in Plans, p \notin Whole, Whole' = Whole \cup {p},
             Deployed' = Deployed, Loaded' = Loaded
      PROVE  Store!Next
  BY <1>4 DEF Store!Seal
<1>5. ASSUME NEW p \in Plans, p \in Whole \ Deployed, Whole' = Whole \ {p},
             Deployed' = Deployed, Loaded' = Loaded
      PROVE  Store!Next
  BY <1>5 DEF Store!Discard
<1>6. ASSUME NEW p \in Plans, p \notin Loaded, Deployed' = Deployed \ {p},
             Whole' = Whole, Loaded' = Loaded
      PROVE  Store!Next
  BY <1>6 DEF Store!Withdraw
<1>7. ASSUME NEW p \in Plans, p \in Deployed, Loaded' = Loaded \cup {p},
             Whole' = Whole, Deployed' = Deployed
      PROVE  Store!Next
  BY <1>7 DEF Store!Load
<1>8. ASSUME NEW p \in Plans, Loaded' = Loaded \ {p}, Whole' = Whole, Deployed' = Deployed
      PROVE  Store!Next
  BY <1>8 DEF Store!Unload
<1> HIDE DEF Store!Next, Deployed, Loaded, Whole
<1>9. QED
  BY <1>1, <1>2, <1>3, <1>4, <1>5, <1>6, <1>7, <1>8

\* A step that leaves the directories and the deployments alone.
LEMMA Unseen ==
  ASSUME Running' = Running, UNCHANGED <<seal, configs, inUse, crowded, native>>
  PROVE  UNCHANGED Store!vars
BY StoreSteps DEF Whole, Deployed, Loaded, NativeUp

\* The process ends, or fails to start.
LEMMA BootImplements ==
  ASSUME Inv, Boot \/ Crash \/ Close \/ Closed
  PROVE  [Store!Next]_(Store!vars)
<1> USE DEF artifacts, registry, thread, serving
<1>1. CASE Vanish
  BY <1>1, StoreSteps DEF Vanish, Whole, Deployed, Loaded, NativeUp, Running
<1>2. CASE BootJobs \/ Close
  BY <1>2, Unseen DEF BootJobs, Close, Running
<1>3. CASE BootRegistry
  <2> DEFINE kept == registered \ UNION {jobs[j].ids : j \in {i \in Jobs : Unfinished(i)}}
  <2>1. /\ configs = {} /\ inUse = {} /\ ~Running /\ ~Running' /\ kept \subseteq registered
        /\ UNCHANGED <<seal, crowded, native, inUse>>
        /\ configs' = kept \/ configs' = configs
    BY <1>3 DEF BootRegistry, Inv, ShapeOK, Running
  <2> HIDE DEF kept
  <2>2. /\ Whole' = Whole /\ Loaded' = Loaded /\ Deployed = {}
        /\ Deployed' = configs' \ crowded
    BY <2>1 DEF Whole, Loaded, Deployed, NativeUp
  <2>3. kept \ crowded \in SUBSET Plans /\ kept \ crowded \subseteq Whole
    BY <2>1 DEF Inv, SealsOK, TypeOK
  <2>4. QED
    BY <2>1, <2>2, <2>3, StoreSteps
<1>4. CASE phase = "hub" /\ phase' = "up" /\ UNCHANGED <<artifacts, registry, serving>>
  <2>1. /\ Whole' = Whole /\ Loaded' = Loaded /\ Deployed' = Deployed \cup (native \ crowded)
    BY <1>4 DEF Whole, Loaded, Deployed, NativeUp, Running
  <2>2. native \ crowded \in SUBSET Plans /\ native \ crowded \subseteq Whole
    BY DEF Inv, SealsOK, TypeOK
  <2>3. QED
    BY <2>1, <2>2, StoreSteps
<1>5. QED
  BY <1>1, <1>2, <1>3, <1>4 DEF Boot, BootNative, Crash, Closed

\* The download thread: only sealing is seen.
LEMMA WorkerImplements ==
  ASSUME Inv, Worker
  PROVE  [Store!Next]_(Store!vars)
<1> USE DEF artifacts, registry, thread, serving
<1>1. CASE UNCHANGED <<phase, seal, configs, inUse, crowded, native>>
  BY <1>1, Unseen DEF Running
<1>2. CASE worker.pc = "verify" /\ seal[Plan] = "absent" /\ phase' = phase
           /\ seal' = [seal EXCEPT ![Plan] = "whole"] /\ UNCHANGED <<registry, serving>>
  <2>1. Plan \in Plans
    BY <1>2, WorkersJob
  <2>2. Plan \notin Whole /\ Whole' = Whole \cup {Plan}
    BY <1>2, <2>1 DEF Whole, Inv, TypeOK
  <2>3. Deployed' = Deployed /\ Loaded' = Loaded
    BY <1>2 DEF Deployed, Loaded, NativeUp, Running
  <2>4. QED
    BY <2>1, <2>2, <2>3, StoreSteps
<1>3. CASE WorkerSeal
  BY <1>1, <1>2, <1>3 DEF WorkerSeal, Goto
<1>4. QED
  BY <1>1, <1>3 DEF Worker, WorkerTake, WorkerLook, WorkerFound, WorkerFresh, WorkerFile,
     WorkerVerify, WorkerFails, WorkerRecord, WorkerEnd, Goto, Update

\* Register publishes, delete withdraws and then gives the directory up.
LEMMA OperationImplements ==
  ASSUME Inv, Operation
  PROVE  [Store!Next]_(Store!vars)
<1> USE DEF artifacts, registry, thread, serving
<1>1. CASE UNCHANGED <<phase, seal, configs, inUse, crowded, native>>
  BY <1>1, Unseen DEF Running
<1>2. CASE /\ op.kind = "register" /\ configs' = configs \cup {OpPlan}
           /\ UNCHANGED <<phase, seal, inUse, crowded, native>>
  <2>1. OpPlan \in Whole
    BY <1>2, OpRuns DEF Inv, OpOK, CompletedSealed, OnePlan, Whole, OpPlan, State, TypeOK, ShapeOK
  <2>2. /\ Whole' = Whole /\ Loaded' = Loaded
        /\ Deployed' = Deployed \cup ({OpPlan} \ crowded)
    BY <1>2 DEF Whole, Loaded, Deployed, NativeUp, Running
  <2>3. {OpPlan} \ crowded \in SUBSET Plans /\ {OpPlan} \ crowded \subseteq Whole
    BY <2>1 DEF Whole
  <2>4. QED
    BY <2>2, <2>3, StoreSteps
<1>3. CASE DeleteRetire
  <2>1. /\ op.kind = "delete" /\ jobs[op.job].ids \cap inUse = {}
        /\ configs' = configs \ jobs[op.job].ids
        /\ UNCHANGED <<phase, seal, inUse, crowded, native>>
    BY <1>3 DEF DeleteRetire, At
  <2>2. OpPlan \in Plans /\ OpPlan \notin native /\ jobs[op.job].ids \subseteq {OpPlan}
    BY <2>1, Deleting
  <2>3. Whole' = Whole /\ Loaded' = Loaded
    BY <2>1 DEF Whole, Loaded
  <2>4. CASE jobs[op.job].ids = {}
    BY <2>1, <2>4, Unseen DEF Running
  <2>5. CASE jobs[op.job].ids = {OpPlan}
    <3>1. Deployed' = Deployed \ {OpPlan}
      BY <2>1, <2>2, <2>5 DEF Deployed, NativeUp, Running
    <3>2. OpPlan \notin Loaded
      BY <2>1, <2>5 DEF Loaded
    <3>3. QED
      BY <2>2, <2>3, <3>1, <3>2, StoreSteps
  <2>6. QED
    BY <2>2, <2>4, <2>5
<1>4. CASE DeleteBreak
  <2>1. /\ op.kind = "delete" /\ op.step = "remove" /\ seal[OpPlan] = "whole"
        /\ seal' = [seal EXCEPT ![OpPlan] = "broken"]
        /\ UNCHANGED <<phase, configs, inUse, crowded, native>>
    BY <1>4 DEF DeleteBreak, At
  <2>2. OpPlan \in Plans /\ OpPlan \notin native /\ OpPlan \notin configs
    BY <2>1, Deleting DEF Inv, OpOK
  <2>3. OpPlan \in Whole \ Deployed /\ Whole' = Whole \ {OpPlan}
    BY <2>1, <2>2 DEF Whole, Deployed, NativeUp, Inv, TypeOK
  <2>4. Deployed' = Deployed /\ Loaded' = Loaded
    BY <2>1 DEF Deployed, Loaded, NativeUp, Running
  <2>5. QED
    BY <2>2, <2>3, <2>4, StoreSteps
<1>5. CASE DeleteRemove
  <2>1. /\ op.kind = "delete" /\ seal[OpPlan] # "whole"
        /\ seal' = [seal EXCEPT ![OpPlan] = "absent"]
        /\ UNCHANGED <<phase, configs, inUse, crowded, native>>
    BY <1>5 DEF DeleteRemove, At
  <2>2. Whole' = Whole
    BY <2>1 DEF Whole, Inv, TypeOK
  <2>3. Deployed' = Deployed /\ Loaded' = Loaded
    BY <2>1 DEF Deployed, Loaded, NativeUp, Running
  <2>4. QED
    BY <2>2, <2>3, StoreSteps
<1>6. CASE RegisterPublish
  BY <1>1, <1>2, <1>6 DEF RegisterPublish, At
<1>7. QED
  BY <1>1, <1>3, <1>4, <1>5, <1>6 DEF Operation, RegisterRecord, DeleteSave, DeleteRecord,
     DeleteFail

\* Loading and unloading; native deployments, which may crowd a registration out.
LEMMA ServiceImplements ==
  ASSUME Inv, NEW p \in Plans,
         Load(p) \/ Unload(p) \/ NativeRegister(p) \/ NativeRetire(p)
  PROVE  [Store!Next]_(Store!vars)
<1> USE DEF artifacts, registry, thread, serving
<1>0. inUse \subseteq configs
  BY DEF Inv, TypeOK
<1>1. CASE Load(p)
  <2>1. /\ p \in configs /\ inUse' = inUse \cup {p}
        /\ UNCHANGED <<phase, seal, configs, crowded, native>>
    BY <1>1 DEF Load
  <2>2. Whole' = Whole /\ Deployed' = Deployed
    BY <2>1 DEF Whole, Deployed, NativeUp, Running
  <2>3. CASE p \in crowded
    <3>1. Loaded' = Loaded
      BY <2>1, <2>3 DEF Loaded
    <3>2. QED
      BY <2>2, <3>1, StoreSteps
  <2>4. CASE p \notin crowded
    <3>1. p \in Deployed /\ Loaded' = Loaded \cup {p}
      BY <2>1, <2>4 DEF Loaded, Deployed
    <3>2. QED
      BY <2>2, <3>1, StoreSteps
  <2>5. QED
    BY <2>3, <2>4
<1>2. CASE Unload(p)
  <2>1. inUse' = inUse \ {p} /\ UNCHANGED <<phase, seal, configs, crowded, native>>
    BY <1>2 DEF Unload
  <2>2. Whole' = Whole /\ Deployed' = Deployed /\ Loaded' = Loaded \ {p}
    BY <2>1 DEF Whole, Deployed, NativeUp, Running, Loaded
  <2>3. QED
    BY <2>2, StoreSteps
<1>3. CASE NativeRegister(p)
  <2>1. /\ p \in configs /\ native' = native \cup {p} /\ Running
        /\ crowded' = IF LosesPlace THEN crowded \cup {OpPlan} ELSE crowded
        /\ UNCHANGED <<phase, seal, configs, inUse>>
    BY <1>3 DEF NativeRegister, Running
  <2>2. Whole' = Whole
    BY <2>1 DEF Whole
  <2>3. CASE LosesPlace
    <3>1. OpPlan \in Plans /\ OpPlan \notin configs
      BY <2>3, OpRuns DEF LosesPlace, At, Inv, OpOK, OnePlan, OpPlan, State, TypeOK, ShapeOK
    <3>2. OpPlan \notin Loaded /\ Loaded' = Loaded /\ Deployed' = Deployed \ {OpPlan}
      BY <1>0, <2>1, <2>3, <3>1 DEF Loaded, Deployed, NativeUp, Running
    <3>3. QED
      BY <2>2, <3>1, <3>2, StoreSteps
  <2>4. CASE ~LosesPlace
    <3>1. Loaded' = Loaded /\ Deployed' = Deployed
      BY <2>1, <2>4 DEF Loaded, Deployed, NativeUp, Running
    <3>2. QED
      BY <2>2, <3>1, StoreSteps
  <2>5. QED
    BY <2>3, <2>4
<1>4. CASE NativeRetire(p)
  <2>1. /\ Running /\ native' = native \ {p}
        /\ UNCHANGED <<phase, seal, configs, inUse, crowded>>
    BY <1>4 DEF NativeRetire, Running
  <2>2. Whole' = Whole /\ Loaded' = Loaded
    BY <2>1 DEF Whole, Loaded
  <2>3. CASE p \in configs
    <3>1. Deployed' = Deployed
      BY <2>1, <2>3 DEF Deployed, NativeUp, Running
    <3>2. QED
      BY <2>2, <3>1, StoreSteps
  <2>4. CASE p \notin configs
    <3>1. p \notin Loaded /\ Deployed' = Deployed \ {p}
      BY <1>0, <2>1, <2>4 DEF Deployed, NativeUp, Running, Loaded
    <3>2. QED
      BY <2>2, <3>1, StoreSteps
  <2>5. QED
    BY <2>3, <2>4
<1>5. QED
  BY <1>1, <1>2, <1>3, <1>4

\* StoreRefined: every behaviour of the hub is one of ArtifactStore.
THEOREM Refinement == Spec => StoreRefined
<1>1. Init => Store!Init
  BY DEF Init, Store!Init, NativeUp, Running
<1>2. Inv /\ [Next]_vars => [Store!Next]_(Store!vars)
  <2> SUFFICES ASSUME Inv, [Next]_vars PROVE [Store!Next]_(Store!vars)
    OBVIOUS
  <2>1. CASE UNCHANGED <<phase, seal, configs, inUse, crowded, native>>
    BY <2>1, Unseen DEF Running
  <2>2. ASSUME NEW j \in Jobs,
               \/ \E p \in Plans : Start(j, p)
               \/ Cancel(j) \/ Resume(j) \/ RegisterSave(j) \/ DeleteBegin(j)
        PROVE  [Store!Next]_(Store!vars)
    BY <2>1, <2>2 DEF Start, Cancel, Resume, RegisterSave, DeleteBegin, Enqueue,
       artifacts, registry, thread, serving
  <2>3. QED
    BY <2>1, <2>2, BootImplements, WorkerImplements, OperationImplements, ServiceImplements
    DEF Next, vars, artifacts, registry, thread, serving
<1>3. QED
  BY <1>1, <1>2, Invariance, PTL DEF Spec, StoreRefined, Store!Spec
=============================================================================
