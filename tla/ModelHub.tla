------------------------------ MODULE ModelHub ------------------------------
(***************************************************************************)
(* The model hub of the console (console/model_hub.py): download jobs that *)
(* one pool thread executes, cancel and resume, sealing, registration as a *)
(* deployment, deletion, close, crash and restart.                         *)
(*                                                                         *)
(* A job, the registration file and the model directories are on disk and  *)
(* survive a crash; the deployments of the service, the stop events and    *)
(* the pool do not.  _update writes memory and disk in one locked region,  *)
(* so a job is one record; register, delete and the sealing of a download  *)
(* hold the lock over several writes, and a crash may come between any     *)
(* two of them.  A deployment is named after its plan, so plans stand for  *)
(* deployments too.                                                        *)
(***************************************************************************)
EXTENDS Naturals, Sequences, FiniteSets

CONSTANTS
    Plans,            \* download plans (plan_sha256)
    Jobs,             \* identities of download jobs
    NoPlan,           \* the plan of an identity that is not used yet
    NoJob,
    Files,            \* files of a plan
    MaxActive,        \* downloads under way at once (8 in the code)
    MaxDeployments    \* deployments of the node (16 in the code)

ASSUME HubAssumption ==
    /\ NoPlan \notin Plans /\ NoJob \notin Jobs
    /\ IsFiniteSet(Plans) /\ IsFiniteSet(Jobs)
    /\ {Files, MaxActive, MaxDeployments} \subseteq Nat \ {0}

VARIABLES
    phase,            \* of the process: "down", "boot", "hub", "up", "closing"
    jobs,             \* the download records, on disk
    part,             \* complete files in each partial directory, on disk
    seal,             \* each sealed directory, on disk
    registered,       \* deployments.json
    native,           \* native-deployments.json: plans with a native engine
    stop,             \* jobs whose stop event is set
    pool,             \* jobs submitted to the download thread
    worker,           \* the download thread
    op,               \* the operation that holds the hub's lock
    configs,          \* plans published as deployments of the service
    inUse,            \* deployments that are not unloaded
    crowded           \* ghost: plans that lost their place while registering

artifacts == <<part, seal>>
registry == <<registered, native, crowded>>
thread == <<stop, pool, worker>>
serving == <<configs, inUse>>
vars == <<phase, jobs, artifacts, registry, thread, op, serving>>

-----------------------------------------------------------------------------
ACTIVE == {"queued", "downloading", "verifying", "cancelling"}
States == ACTIVE \cup {"none", "completed", "cancelled", "interrupted",
                       "failed", "deleting", "delete_failed", "deleted"}

Idle == [job |-> NoJob, pc |-> "idle", count |-> 0]
NoOp == [kind |-> "none", job |-> NoJob, step |-> "none"]
Unused == [plan |-> NoPlan, state |-> "none", deployed |-> FALSE, ids |-> {}]

Init ==
    /\ phase = "down"
    /\ jobs = [j \in Jobs |-> Unused]
    /\ part = [p \in Plans |-> 0]
    /\ seal = [p \in Plans |-> "absent"]
    /\ registered = {} /\ native = {} /\ crowded = {}
    /\ stop = {} /\ pool = <<>> /\ worker = Idle /\ op = NoOp
    /\ configs = {} /\ inUse = {}

LockFree == op.kind = "none"
Running == phase \in {"up", "closing"}
State(j) == jobs[j].state
Active == {j \in Jobs : State(j) \in ACTIVE}
NativeUp == IF Running THEN native ELSE {}
Full == Cardinality(configs) + Cardinality(NativeUp) >= MaxDeployments

-----------------------------------------------------------------------------
(* The process.  What it kept in memory goes with it.                      *)

Vanish ==
    /\ phase' = "down"
    /\ stop' = {} /\ pool' = <<>> /\ worker' = Idle /\ op' = NoOp
    /\ configs' = {} /\ inUse' = {}
    /\ UNCHANGED <<jobs, artifacts, registry>>

Crash == phase # "down" /\ Vanish

(* Mutant of Recovered: a cancel that was under way is not recovered.      *)
Recovered_KeepsCancelling(state) ==
    IF state \in ACTIVE \ {"cancelling"} THEN "interrupted"
    ELSE IF state = "deleting" THEN "delete_failed" ELSE state

(* __init__ journals what the last process left unfinished ...             *)
Recovered(state) ==
    IF state \in ACTIVE THEN "interrupted"
    ELSE IF state = "deleting" THEN "delete_failed" ELSE state

BootJobs ==
    /\ phase = "down"
    /\ phase' = "boot"
    /\ jobs' = [j \in Jobs |-> [jobs[j] EXCEPT !.state = Recovered(@)]]
    /\ UNCHANGED <<artifacts, registry, thread, op, serving>>

(* ... then drops the deployments of unfinished deletions from the         *)
(* registration and publishes the others.  If they are too many, the start *)
(* fails (nothing else is in memory yet).                                  *)
Unfinished(j) == State(j) \in {"deleting", "delete_failed"}

BootRegistry ==
    LET kept == registered \ UNION {jobs[j].ids : j \in {i \in Jobs : Unfinished(i)}}
    IN  /\ phase = "boot"
        /\ registered' = kept
        /\ IF Cardinality(kept) <= MaxDeployments
           THEN phase' = "hub" /\ configs' = kept
           ELSE phase' = "down" /\ UNCHANGED configs
        /\ UNCHANGED <<jobs, artifacts, native, crowded, thread, op, inUse>>

(* The native deployments follow.  One too many, and the start fails.      *)
BootNative ==
    /\ phase = "hub"
    /\ \/ /\ Cardinality(configs) + Cardinality(native) <= MaxDeployments
          /\ phase' = "up"
          /\ UNCHANGED <<jobs, artifacts, registry, thread, op, serving>>
       \/ /\ Cardinality(configs) + Cardinality(native) > MaxDeployments
          /\ Vanish

(* close: the flag is set and the pool drained.                            *)
Close ==
    /\ phase = "up"
    /\ phase' = "closing"
    /\ UNCHANGED <<jobs, artifacts, registry, thread, op, serving>>

Closed ==
    /\ phase = "closing"
    /\ pool = <<>> /\ worker = Idle /\ LockFree
    /\ Vanish

-----------------------------------------------------------------------------
(* start, cancel, resume: one locked region each.                          *)

Enqueue(j, plan) ==
    /\ jobs' = [jobs EXCEPT ![j].plan = plan, ![j].state = "queued"]
    /\ stop' = stop \ {j}
    /\ pool' = Append(pool, j)
    /\ UNCHANGED <<phase, artifacts, registry, worker, op, serving>>

Start(j, p) ==
    /\ phase = "up" /\ LockFree
    /\ State(j) = "none"
    /\ \A i \in Jobs : jobs[i].plan = p => State(i) = "deleted"
    /\ Cardinality(Active) < MaxActive
    /\ Enqueue(j, p)

Cancel(j) ==
    /\ phase = "up" /\ LockFree
    /\ State(j) \in ACTIVE
    /\ stop' = stop \cup {j}
    /\ jobs' = [jobs EXCEPT ![j].state = "cancelling"]
    /\ UNCHANGED <<phase, artifacts, registry, pool, worker, op, serving>>

(* Mutant of Resume: a job may be resumed while its cancel is under way.   *)
Resume_Cancelling(j) ==
    /\ phase = "up" /\ LockFree
    /\ State(j) \in {"failed", "cancelled", "interrupted", "cancelling"}
    /\ Cardinality(Active) < MaxActive
    /\ Enqueue(j, jobs[j].plan)

Resume(j) ==
    /\ phase = "up" /\ LockFree
    /\ State(j) \in {"failed", "cancelled", "interrupted"}
    /\ Cardinality(Active) < MaxActive
    /\ Enqueue(j, jobs[j].plan)

-----------------------------------------------------------------------------
(* _download, on the one thread of the pool.                               *)

Plan == jobs[worker.job].plan
Stopping == phase = "closing" \/ worker.job \in stop

Goto(pc) ==
    /\ worker' = [worker EXCEPT !.pc = pc]
    /\ UNCHANGED <<phase, jobs, artifacts, registry, stop, pool, op, serving>>

(* _update of the worker's job.                                            *)
Update(state, next) ==
    /\ LockFree
    /\ jobs' = [jobs EXCEPT ![worker.job].state = state]
    /\ worker' = next
    /\ UNCHANGED <<phase, artifacts, registry, stop, pool, op, serving>>

WorkerTake ==
    /\ Running /\ worker = Idle /\ pool # <<>>
    /\ worker' = [job |-> Head(pool), pc |-> "look", count |-> 0]
    /\ pool' = Tail(pool)
    /\ UNCHANGED <<phase, jobs, artifacts, registry, stop, op, serving>>

WorkerLook ==
    /\ worker.pc = "look"
    /\ Goto(IF Stopping THEN "cancelled"
            ELSE IF seal[Plan] # "absent" THEN "found" ELSE "fresh")

(* The directory was sealed but the record of it was lost in a crash.      *)
WorkerFound ==
    /\ worker.pc = "found"
    /\ Update(IF seal[Plan] = "whole" THEN "completed" ELSE "failed", Idle)

WorkerFresh ==
    /\ worker.pc = "fresh"
    /\ Update("downloading", [worker EXCEPT !.pc = "files"])

(* A file is there already, or is fetched, checked and renamed into place. *)
WorkerFile ==
    /\ worker.pc = "files" /\ worker.count < Files
    /\ IF Stopping
       THEN Goto("cancelled")
       ELSE /\ worker' = [worker EXCEPT !.count = @ + 1]
            /\ part' = [part EXCEPT ![Plan] =
                           IF @ > worker.count THEN @ ELSE worker.count + 1]
            /\ UNCHANGED <<phase, jobs, seal, registry, stop, pool, op, serving>>

WorkerVerify ==
    /\ worker.pc = "files" /\ worker.count = Files
    /\ IF Stopping THEN Goto("cancelled")
       ELSE Update("verifying", [worker EXCEPT !.pc = "verify"])

(* Network, disk budget, checksum, an existing directory: any exception.   *)
WorkerFails ==
    /\ worker.pc \in {"found", "fresh", "files", "verify"}
    /\ Goto("failed")

(* Mutant of WorkerSeal: the stop event is not looked at again.            *)
WorkerSeal_NoLastLook ==
    /\ worker.pc = "verify" /\ LockFree /\ seal[Plan] = "absent"
    /\ seal' = [seal EXCEPT ![Plan] = "whole"]
    /\ part' = [part EXCEPT ![Plan] = 0]
    /\ worker' = [worker EXCEPT !.pc = "record"]
    /\ op' = [NoOp EXCEPT !.kind = "seal"]
    /\ UNCHANGED <<phase, jobs, registry, stop, pool, serving>>

(* With the lock: the last look at the stop event, then the rename ...     *)
WorkerSeal ==
    /\ worker.pc = "verify" /\ LockFree /\ seal[Plan] = "absent"
    /\ IF Stopping
       THEN Goto("cancelled")
       ELSE /\ seal' = [seal EXCEPT ![Plan] = "whole"]
            /\ part' = [part EXCEPT ![Plan] = 0]
            /\ worker' = [worker EXCEPT !.pc = "record"]
            /\ op' = [NoOp EXCEPT !.kind = "seal"]
            /\ UNCHANGED <<phase, jobs, registry, stop, pool, serving>>

(* ... and the record, still with the lock, unless a save fails.           *)
WorkerRecord ==
    /\ worker.pc = "record"
    /\ op' = NoOp
    /\ \/ /\ jobs' = [jobs EXCEPT ![worker.job].state = "completed"]
          /\ worker' = Idle
       \/ /\ worker' = [worker EXCEPT !.pc = "failed"]
          /\ UNCHANGED jobs
    /\ UNCHANGED <<phase, artifacts, registry, stop, pool, serving>>

WorkerEnd ==
    \/ /\ worker.pc = "cancelled"
       /\ Update(IF phase = "closing" THEN "interrupted" ELSE "cancelled", Idle)
    \/ worker.pc = "failed" /\ Update("failed", Idle)

Worker ==
    \/ WorkerTake \/ WorkerLook \/ WorkerFound \/ WorkerFresh \/ WorkerFile
    \/ WorkerVerify \/ WorkerFails \/ WorkerSeal \/ WorkerRecord \/ WorkerEnd

-----------------------------------------------------------------------------
(* register: persisted, published, recorded, with the hub's lock.  The     *)
(* room is checked before the first write and again by the service.        *)

OpPlan == jobs[op.job].plan
At(kind, step) == op.kind = kind /\ op.step = step
OpAt(kind, j, step) == [kind |-> kind, job |-> j, step |-> step]

(* Mutant of RegisterSave: the room is left to the service to check.       *)
RegisterSave_NoRoom(j) ==
    /\ phase = "up" /\ LockFree
    /\ State(j) = "completed" /\ ~jobs[j].deployed
    /\ registered' = registered \cup {jobs[j].plan}
    /\ op' = OpAt("register", j, "publish")
    /\ UNCHANGED <<phase, jobs, artifacts, native, crowded, thread, serving>>

RegisterSave(j) ==
    /\ phase = "up" /\ LockFree
    /\ State(j) = "completed" /\ ~jobs[j].deployed
    /\ ~Full
    /\ registered' = registered \cup {jobs[j].plan}
    /\ op' = OpAt("register", j, "publish")
    /\ UNCHANGED <<phase, jobs, artifacts, native, crowded, thread, serving>>

(* register_deployment raises when another deployment took the last place. *)
RegisterPublish ==
    /\ At("register", "publish")
    /\ \/ /\ OpPlan \in configs \/ ~Full
          /\ configs' = configs \cup {OpPlan}
          /\ op' = [op EXCEPT !.step = "record"]
       \/ /\ OpPlan \notin configs /\ Full
          /\ op' = NoOp
          /\ UNCHANGED configs
    /\ UNCHANGED <<phase, jobs, artifacts, registry, thread, inUse>>

RegisterRecord ==
    /\ At("register", "record")
    /\ jobs' = [jobs EXCEPT ![op.job].deployed = TRUE]
    /\ op' = NoOp
    /\ UNCHANGED <<phase, artifacts, registry, thread, serving>>

-----------------------------------------------------------------------------
(* delete: with the hub's and the service's lock.  Start leaves one record *)
(* of a plan that is not deleted, so a job is its only sibling.            *)

Deletable(j) ==
    /\ State(j) \notin ACTIVE \cup {"none", "deleting", "deleted"}
    /\ jobs[j].plan \notin native
    /\ jobs[j].plan \in configs =>
           /\ jobs[j].plan \in registered \cup jobs[j].ids
           /\ jobs[j].plan \notin inUse

DeleteBegin(j) ==
    /\ phase = "up" /\ LockFree
    /\ Deletable(j)
    /\ jobs' = [jobs EXCEPT ![j].state = "deleting",
                            ![j].ids = @ \cup ({jobs[j].plan} \cap configs)]
    /\ op' = OpAt("delete", j, "save")
    /\ UNCHANGED <<phase, artifacts, registry, thread, serving>>

(* Mutant of DeleteSave: the registration is forgotten in memory only.     *)
DeleteSave_Unsaved ==
    /\ At("delete", "save")
    /\ op' = [op EXCEPT !.step = "retire"]
    /\ UNCHANGED <<phase, jobs, artifacts, registry, thread, serving>>

DeleteSave ==
    /\ At("delete", "save")
    /\ registered' = registered \ jobs[op.job].ids
    /\ op' = [op EXCEPT !.step = "retire"]
    /\ UNCHANGED <<phase, jobs, artifacts, native, crowded, thread, serving>>

(* retire_deployments                                                      *)
DeleteRetire ==
    /\ At("delete", "retire")
    /\ jobs[op.job].ids \cap inUse = {}
    /\ configs' = configs \ jobs[op.job].ids
    /\ op' = [op EXCEPT !.step = "remove"]
    /\ UNCHANGED <<phase, jobs, artifacts, registry, thread, inUse>>

(* remove_artifacts takes a directory away file by file.                   *)
DeleteBreak ==
    /\ At("delete", "remove") /\ seal[OpPlan] = "whole"
    /\ seal' = [seal EXCEPT ![OpPlan] = "broken"]
    /\ UNCHANGED <<phase, jobs, part, registry, thread, op, serving>>

DeleteRemove ==
    /\ At("delete", "remove") /\ seal[OpPlan] # "whole"
    /\ seal' = [seal EXCEPT ![OpPlan] = "absent"]
    /\ part' = [part EXCEPT ![OpPlan] = 0]
    /\ op' = [op EXCEPT !.step = "record"]
    /\ UNCHANGED <<phase, jobs, registry, thread, serving>>

DeleteRecord ==
    /\ At("delete", "record")
    /\ jobs' = [jobs EXCEPT ![op.job].state = "deleted", ![op.job].deployed = FALSE]
    /\ op' = NoOp
    /\ UNCHANGED <<phase, artifacts, registry, thread, serving>>

(* Mutant of DeleteFail: the job is shown as it was before the deletion.   *)
DeleteFail_Restores ==
    /\ op.kind = "delete" /\ op.step # "record"
    /\ jobs' = [jobs EXCEPT ![op.job].state = "completed"]
    /\ op' = NoOp
    /\ UNCHANGED <<phase, artifacts, registry, thread, serving>>

(* Any step before the record may raise: the job says so, and what has     *)
(* been done stays done.                                                   *)
DeleteFail ==
    /\ op.kind = "delete" /\ op.step # "record"
    /\ jobs' = [jobs EXCEPT ![op.job].state = "delete_failed"]
    /\ op' = NoOp
    /\ UNCHANGED <<phase, artifacts, registry, thread, serving>>

Operation ==
    \/ RegisterPublish \/ RegisterRecord
    \/ DeleteSave \/ DeleteRetire \/ DeleteBreak \/ DeleteRemove \/ DeleteRecord
    \/ DeleteFail

-----------------------------------------------------------------------------
(* The rest of the console, which takes the service's lock and not the     *)
(* hub's: deployments are loaded and unloaded, native ones come and go.    *)

ServiceLockFree == op.kind # "delete"

Load(p) ==
    /\ phase = "up" /\ ServiceLockFree
    /\ p \in configs \ inUse
    /\ inUse' = inUse \cup {p}
    /\ UNCHANGED <<phase, jobs, artifacts, registry, thread, op, configs>>

Unload(p) ==
    /\ phase = "up" /\ ServiceLockFree
    /\ p \in inUse
    /\ inUse' = inUse \ {p}
    /\ UNCHANGED <<phase, jobs, artifacts, registry, thread, op, configs>>

(* Published and journalled with the service's lock.  The ghost notes that *)
(* a registration of the hub just lost the place it was promised.          *)
LosesPlace ==
    /\ At("register", "publish")
    /\ OpPlan \notin configs
    /\ Cardinality(configs) + Cardinality(native) + 1 >= MaxDeployments

NativeRegister(p) ==
    /\ phase = "up" /\ ServiceLockFree
    /\ p \in configs \ native /\ ~Full
    /\ native' = native \cup {p}
    /\ crowded' = IF LosesPlace THEN crowded \cup {OpPlan} ELSE crowded
    /\ UNCHANGED <<phase, jobs, artifacts, registered, thread, op, serving>>

NativeRetire(p) ==
    /\ phase = "up" /\ ServiceLockFree
    /\ p \in native
    /\ native' = native \ {p}
    /\ UNCHANGED <<phase, jobs, artifacts, registered, crowded, thread, op, serving>>

-----------------------------------------------------------------------------
Boot == BootJobs \/ BootRegistry \/ BootNative

Next ==
    \/ Boot \/ Crash \/ Close \/ Closed
    \/ \E j \in Jobs : \/ \E p \in Plans : Start(j, p)
                       \/ Cancel(j) \/ Resume(j) \/ RegisterSave(j) \/ DeleteBegin(j)
    \/ Worker \/ Operation
    \/ \E p \in Plans : Load(p) \/ Unload(p) \/ NativeRegister(p) \/ NativeRetire(p)

Spec == Init /\ [][Next]_vars

(* The threads run, a lock that is released again and again is obtained,   *)
(* and a process that ended is started again.                              *)
FairSpec ==
    /\ Spec
    /\ WF_vars(Boot) /\ WF_vars(Closed) /\ WF_vars(Operation)
    /\ SF_vars(Worker)

-----------------------------------------------------------------------------
(* Properties.                                                             *)

(* Every variable has its type; a plan has at most one record that is not  *)
(* deleted, which start's search relies on and delete's siblings too.      *)
TypeOK ==
    /\ phase \in {"down", "boot", "hub", "up", "closing"}
    /\ jobs \in [Jobs -> [plan : Plans \cup {NoPlan}, state : States,
                          deployed : BOOLEAN, ids : SUBSET Plans]]
    /\ part \in [Plans -> 0..Files]
    /\ seal \in [Plans -> {"absent", "whole", "broken"}]
    /\ {registered, native, crowded, configs, inUse} \subseteq SUBSET Plans
    /\ inUse \subseteq configs
    /\ stop \subseteq Jobs /\ pool \in Seq(Jobs)
    /\ worker.job \in Jobs \cup {NoJob} /\ worker.count \in 0..Files
    /\ worker.pc \in {"idle", "look", "found", "fresh", "files", "verify",
                      "record", "cancelled", "failed"}
    /\ op.job \in Jobs \cup {NoJob}

(* The jobs shown as under way are exactly the ones the download thread    *)
(* has or will get, each once: no job hangs in "queued" or "cancelling"    *)
(* with nobody to end it, and no two executions write one partial          *)
(* directory.  Cancels, resumes, failures and close come in any order.     *)
ActiveScheduled ==
    Running =>
        /\ Active = {pool[i] : i \in DOMAIN pool} \cup ({worker.job} \ {NoJob})
        /\ Cardinality(Active) = Len(pool) + (IF worker = Idle THEN 0 ELSE 1)
        /\ \A i, j \in Active : jobs[i].plan = jobs[j].plan => i = j

(* A job that says completed has a whole sealed directory, across crashes  *)
(* between the rename and the record, and failed deletions.                *)
CompletedSealed ==
    \A j \in Jobs : State(j) = "completed" => seal[jobs[j].plan] = "whole"

(* The download records: typed, and true about the directories.            *)
RecordsSound == TypeOK /\ CompletedSealed

(* The console can be started again: what is registered fits the limit of  *)
(* deployments, unless a native deployment took the place a registration   *)
(* had been promised.                                                      *)
Restartable ==
    crowded = {} => Cardinality(registered) + Cardinality(native) <= MaxDeployments

(* A cancel that was accepted is not overtaken by the end of the download: *)
(* the job is not sealed after it.  Only the recovery of a directory that  *)
(* was sealed before may still record it as completed.                     *)
CancelWins ==
    [][\A j \in stop : State(j) \in ACTIVE /\ jobs'[j].state = "completed"
                           => worker.job = j /\ worker.pc = "found"]_vars

(* A download that is under way ends: completed, failed, cancelled or      *)
(* interrupted, by itself, by close or at the next start.                  *)
DownloadsEnd == \A j \in Jobs : State(j) \in ACTIVE ~> State(j) \notin ACTIVE

Store == INSTANCE ArtifactStore WITH
             sealed <- {p \in Plans : seal[p] = "whole"},
             deployed <- (configs \cup NativeUp) \ crowded,
             loaded <- inUse \ crowded

(* The hub keeps the promise of ArtifactStore: over crashes at any step of *)
(* a download, a registration or a deletion, a published deployment has a  *)
(* whole snapshot behind it and a loaded one is never retired.  Plans that *)
(* lost their place while they were registered are left out.               *)
StoreRefined == Store!Spec
=============================================================================
