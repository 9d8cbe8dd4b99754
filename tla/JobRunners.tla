----------------------------- MODULE JobRunners -----------------------------
(***************************************************************************)
(* The runners that take the whole console for one experiment: L1 system   *)
(* experiments (system_jobs.py with the guardian of system_guard.py), L5   *)
(* compression (structure_jobs.py), L9 parallel execution                  *)
(* (parallel_jobs.py), diagnostics (diagnostic_jobs.py) and scheduling     *)
(* sessions (scheduling_campaigns.py), composed with the task service.     *)
(*                                                                         *)
(* A runner has one thread and shares with the service its lock, slots,    *)
(* benchmark_owner, store and deployments.  Four runners start a process   *)
(* of their own, which may hang, die or outlive its thread; the fifth uses *)
(* the deployment's worker.  The guardian outlives even the console: it    *)
(* holds the device lock, journals before it changes the power limit, and  *)
(* restores the limit when its experiment is aborted.                      *)
(*                                                                         *)
(* All processes on the GPU take the lock file of device 0 (L9 plans for   *)
(* the CPU are left out).  Files other than the journal and the L5         *)
(* artifacts are evidence and left out, and so is the run that a           *)
(* diagnostic looks into: it is one of an earlier history.                 *)
(***************************************************************************)
EXTENDS ConsoleService

CONSTANT Runners        \* the runners of this instance

AllRunners == {"diagnostic", "scheduling", "compress", "distributed", "system"}

ASSUME RunnersAssumption == Runners \subseteq AllRunners /\ None \notin AllRunners

VARIABLES
    task,         \* each run of a runner: kind, deployment, place, outcome
    child,        \* runs whose process is alive
    guard,        \* where the guardian of a run is, and what it will report
    told,         \* guardians that find the cancel file or their parent gone
    halted,       \* runners whose stop event is set
    quarantined,  \* runners that refuse to start
    closed,       \* how many runners the shutdown has closed
    ingress,      \* sessions with an accepted request the worker has not seen
    journal,      \* disk: the power journal exists
    power,        \* the device: "original" or "changed" limit
    published     \* disk: runs with an artifact in l5-artifacts

device == <<journal, power>>
runner == <<task, child, guard, told, halted, quarantined, closed, ingress,
            published>>
runnerVars == <<runner, device>>
allVars == <<vars, runnerVars>>

-----------------------------------------------------------------------------
Places == {"none", "queued", "launch", "working", "sealing", "unwind",
           "confirm", "publish", "finally", "orphan"}
NoTask == [kind |-> None, dep |-> None, at |-> "none", final |-> None]
NoGuard == [at |-> "none", status |-> None]

RunnersInit ==
    /\ Init
    /\ task = [r \in Runs |-> NoTask]
    /\ child = {} /\ told = {} /\ halted = {} /\ quarantined = {}
    /\ guard = [r \in Runs |-> NoGuard]
    /\ closed = 0 /\ ingress = {} /\ published = {}
    /\ journal = FALSE /\ power = "original"

At(r, place) == task[r].at = place
Kind(r) == task[r].kind
Tasks == {r \in Runs : ~At(r, "none")}
Goto(r, place) == task' = [task EXCEPT ![r].at = place]
Ends(r, final, place) == task' = [task EXCEPT ![r].final = final, ![r].at = place]

\* Mutant: only a shutdown stops a runner.
Cancelled_StopOnly(r) == Kind(r) \in halted

(* cancelled() of the runners.                                             *)
Cancelled(r) == Kind(r) \in halted \/ state[r] = "cancel_requested"

(* The device lock of GPU 0, as somebody other than run r finds it.        *)
Guarding(r) == guard[r].at \notin {"none", "lock"}

\* Mutant: only the tasks this console knows of are looked at.
HeldByRunner_ThisConsole(r) ==
    \E q \in Runs \ {r} :
        task[q].at \in {"working", "confirm", "publish", "finally"} /\ Kind(q) # "compress"

HeldByRunner(r) ==
    \E q \in Runs \ {r} :
        \/ Guarding(q)
        \/ q \in child /\ Kind(q) = "diagnostic"
        \/ Kind(q) = "distributed" /\ task[q].at \in {"working", "confirm", "publish", "finally"}
DeviceHeld(r) == HeldByRunner(r) \/ \E d \in Gpu : worker[d] # None

-----------------------------------------------------------------------------
(* start: the service is idle, and the GPU free or the model resident, as  *)
(* the runner needs it.                                                    *)

Suitable(k, d) ==
    CASE k \in {"system", "distributed"} -> \A e \in Gpu \ Native : ~Occupied(e)
      [] k = "diagnostic" -> \A e \in Gpu : ~Occupied(e)
      [] k = "compress" -> dstate[d] = "ready" /\ depoch[d] # None
      [] k = "scheduling" -> /\ dstate[d] = "ready" /\ depoch[d] # None
                             /\ \A e \in (Gpu \ Native) \ {d} : ~Occupied(e)

\* Mutant: a task asks for the claim to be free, not for the service to be idle.
CanStart_NotIdle(k, r, d) ==
    /\ LockFree /\ Reserve
    /\ state[r] = "absent" /\ pc[r] = "none"
    /\ d \in configs /\ d \in Gpu \ Native
    /\ k \notin halted /\ k \notin quarantined
    /\ owner = None
    /\ Suitable(k, d)

CanStart(k, r, d) ==
    /\ LockFree /\ Reserve
    /\ state[r] = "absent" /\ pc[r] = "none"
    /\ d \in configs /\ d \in Gpu \ Native
    /\ k \notin halted /\ k \notin quarantined
    /\ k = "system" => ~journal
    /\ pending = 0 /\ owner = None
    /\ Suitable(k, d)

(* The run, the slot and the claim.                                        *)
Take(k, r, d, place) ==
    /\ state' = [state EXCEPT ![r] = "queued"]
    /\ pending' = pending + 1
    /\ owner' = r
    /\ task' = [task EXCEPT ![r] = [kind |-> k, dep |-> d, at |-> place, final |-> None]]
    /\ UNCHANGED <<phase, configs, dstate, depoch, worker, queue, pc, job, result,
                   canceller, child, guard, told, quarantined, ingress, published,
                   device>>

StartTask(k, r, d) ==
    /\ CanStart(k, r, d) /\ Take(k, r, d, "queued")
    /\ UNCHANGED <<halted, closed>>

(* Shutdown closes one runner after the other, waiting for its thread, and *)
(* the service last.  It cannot wait for a task that has no thread.        *)
CloseOrder == <<"diagnostic", "scheduling", "compress", "distributed", "system">>
Idle(n) == \A r \in Tasks : \A i \in 1..n : Kind(r) # CloseOrder[i] \/ At(r, "orphan")

Closes ==
    /\ phase = "serving" /\ closed < Len(CloseOrder)
    /\ Idle(closed)
    /\ closed' = closed + 1
    /\ halted' = halted \cup {CloseOrder[closed + 1]}

(* The close of a runner takes no lock (that of scheduling does), and may  *)
(* come between the checks of start and its end.  Either the thread still  *)
(* starts, or the executor is shut down: submit raises, and the run, the   *)
(* slot and the claim have no thread that would give them back.            *)
StartAsCloses(k, r, d) ==
    /\ CanStart(k, r, d) /\ k # "scheduling"
    /\ Closes /\ k = CloseOrder[closed + 1]
    /\ \E place \in {"queued", "orphan"} : Take(k, r, d, place)

(* The capability probe that start makes, both locks held, loses the       *)
(* worker of the deployment and no run is created.                         *)
ProbeFails(d) ==
    /\ LockFree /\ phase = "serving"
    /\ "scheduling" \notin halted
    /\ pending = 0 /\ owner = None
    /\ d \in configs /\ d \in Gpu \ Native
    /\ dstate[d] = "ready" /\ depoch[d] # None
    /\ WorkersEnd({d})
    /\ dstate' = [dstate EXCEPT ![d] = "failed"]
    /\ depoch' = [depoch EXCEPT ![d] = None]
    /\ UNCHANGED <<phase, configs, queue, pc, job, result, pending, owner,
                   canceller, state, runnerVars>>

-----------------------------------------------------------------------------
(* The first steps of the runner's thread.                                 *)

serviceButState == <<phase, volatile>>

(* L1, L5 and L9 look at the run and write "running" with the lock; L1     *)
(* also starts its guardian there.                                         *)
BeginTask(r) ==
    /\ LockFree /\ At(r, "queued")
    /\ Kind(r) \in {"system", "compress", "distributed"}
    /\ IF Cancelled(r)
       THEN /\ IF Kind(r) = "compress"
               THEN state' = [state EXCEPT ![r] = "cancelled"] /\ Goto(r, "confirm")
               ELSE Ends(r, "cancelled", "publish") /\ UNCHANGED state
            /\ UNCHANGED <<child, guard>>
       ELSE /\ state' = [state EXCEPT ![r] = "running"]
            /\ IF Kind(r) = "system"
               THEN /\ Goto(r, "working")
                    /\ child' = child \cup {r}
                    /\ guard' = [guard EXCEPT ![r].at = "lock"]
               ELSE Goto(r, "launch") /\ UNCHANGED <<child, guard>>
    /\ UNCHANGED <<serviceButState, told, halted, quarantined, closed, ingress,
                   published, device>>

(* Diagnostics and scheduling write "running" over whatever is there.      *)
BeginBlind(r) ==
    /\ At(r, "queued")
    /\ Kind(r) \in {"diagnostic", "scheduling"}
    /\ state' = [state EXCEPT ![r] = "running"]
    /\ Goto(r, IF Kind(r) = "scheduling" THEN "working" ELSE "launch")
    /\ UNCHANGED <<serviceButState, child, guard, told, halted, quarantined, closed,
                   ingress, published, device>>

Unharmed == UNCHANGED <<vars, child, guard, told, halted, quarantined, closed,
                        ingress, published, device>>

(* A directory, a digest, a lock file: the thread fails before it works.   *)
AfterFailure(k) ==
    CASE k = "scheduling" -> "unwind"
      [] k \in {"distributed", "diagnostic"} -> "confirm"
      [] OTHER -> "publish"

(* A diagnostic that fails after a cancel is recorded as cancelled.        *)
Failed(r) == IF Kind(r) = "diagnostic" /\ Cancelled(r) THEN "cancelled" ELSE "failed"

BeginFails(r) ==
    /\ task[r].at \in {"queued", "launch"}
    /\ Ends(r, Failed(r), AfterFailure(Kind(r)))
    /\ Unharmed

LaunchCancelled(r) ==
    /\ At(r, "launch") /\ Kind(r) = "diagnostic" /\ Cancelled(r)
    /\ Ends(r, "cancelled", "confirm")
    /\ Unharmed

Launch(r) ==
    /\ At(r, "launch")
    /\ Kind(r) = "diagnostic" => ~Cancelled(r)
    /\ Kind(r) # "compress" => ~DeviceHeld(r)
    /\ Goto(r, "working")
    /\ child' = child \cup {r}
    /\ UNCHANGED <<vars, guard, told, halted, quarantined, closed, ingress,
                   published, device>>

-----------------------------------------------------------------------------
(* The loop around the process, and its end.                               *)

(* A process that is not a guardian ends by itself.                        *)
ChildEnds(r) ==
    /\ r \in child /\ Kind(r) # "system"
    /\ child' = child \ {r}
    /\ UNCHANGED <<vars, task, guard, told, halted, quarantined, closed, ingress,
                   published, device>>

AfterWork(k, final) ==
    CASE k = "compress" /\ final = "completed" -> "sealing"
      [] k \in {"distributed", "diagnostic"} -> "confirm"
      [] OTHER -> "publish"

(* The thread finds the process gone and reads what it left.               *)
WorkEnds(r) ==
    /\ At(r, "working") /\ Kind(r) \in {"compress", "distributed", "diagnostic"}
    /\ r \notin child
    /\ \E final \in {"completed", Failed(r)} : Ends(r, final, AfterWork(Kind(r), final))
    /\ Unharmed

Stopped(r) ==
    {IF Cancelled(r) THEN "cancelled" ELSE "timed_out"}
        \cup IF Kind(r) = "diagnostic" THEN {"failed"} ELSE {}

(* The thread stops the process: cancelled, out of time, over a limit.     *)
(* If the process cannot be waited for an exception leaves the loop.       *)
WorkStops(r) ==
    /\ At(r, "working") /\ Kind(r) \in {"compress", "distributed", "diagnostic"}
    /\ r \in child
    /\ \/ child' = child \ {r} /\ \E final \in Stopped(r) : Ends(r, final, AfterWork(Kind(r), final))
       \/ UNCHANGED child /\ Ends(r, Failed(r), AfterWork(Kind(r), "failed"))
    /\ UNCHANGED <<vars, guard, told, halted, quarantined, closed, ingress,
                   published, device>>

(* The last attempt to see the process gone, before the result is          *)
(* published (for L5, after).  If it fails L9 quarantines itself, L5       *)
(* refuses further work and a diagnostic is recorded as failed.            *)
AfterConfirm(k) == IF k = "compress" THEN "finally" ELSE "publish"

Confirm(r) ==
    /\ At(r, "confirm")
    /\ child' = child \ {r}
    /\ Goto(r, AfterConfirm(Kind(r)))
    /\ UNCHANGED <<vars, guard, told, halted, quarantined, closed, ingress, published,
                   device>>

ConfirmFails(r) ==
    LET k == Kind(r) IN
    /\ At(r, "confirm")
    /\ r \in child \/ k = "compress"
    /\ Ends(r, "unconfirmed", AfterConfirm(k))
    /\ quarantined' = IF k = "distributed" THEN quarantined \cup {k} ELSE quarantined
    /\ halted' = IF k = "compress" THEN halted \cup {k} ELSE halted
    /\ UNCHANGED <<vars, child, guard, told, closed, ingress, published, device>>

(* L5 seals what it built: a look without the lock, then one with it, the  *)
(* rename and the record.  Verification or the record may fail.            *)
SealStops(r) ==
    /\ At(r, "sealing")
    /\ \/ Cancelled(r) /\ Ends(r, "cancelled", "publish")
       \/ Ends(r, "failed", "publish")
    /\ Unharmed

\* Mutant: the artifact is sealed without the service's lock.
Seal_Unlocked(r) ==
    /\ At(r, "sealing") /\ ~Cancelled(r)
    /\ state' = [state EXCEPT ![r] = "completed"]
    /\ published' = published \cup {r}
    /\ Goto(r, "confirm")
    /\ UNCHANGED <<serviceButState, child, guard, told, halted, quarantined, closed,
                   ingress, device>>

Seal(r) ==
    /\ LockFree /\ At(r, "sealing")
    /\ IF Cancelled(r)
       THEN /\ state' = [state EXCEPT ![r] = "cancelled"]
            /\ UNCHANGED published
       ELSE /\ state' = [state EXCEPT ![r] = "completed"]
            /\ published' = published \cup {r}
    /\ Goto(r, "confirm")
    /\ UNCHANGED <<serviceButState, child, guard, told, halted, quarantined, closed,
                   ingress, device>>

SealUnrecorded(r) ==
    /\ LockFree /\ At(r, "sealing") /\ ~Cancelled(r)
    /\ published' = published \cup {r}
    /\ Ends(r, "failed", "publish")
    /\ UNCHANGED <<vars, child, guard, told, halted, quarantined, closed, ingress,
                   device>>

-----------------------------------------------------------------------------
(* A scheduling session on the deployment's worker.                        *)

(* submit_request, and the worker's record of it.                          *)
Ingress(r) ==
    /\ r \in Tasks /\ Kind(r) = "scheduling"
    /\ state[r] = "running"
    /\ ingress' = ingress \cup {r}
    /\ UNCHANGED <<vars, task, child, guard, told, halted, quarantined, closed,
                   published, device>>

Observe(r) ==
    /\ At(r, "working") /\ r \in ingress
    /\ ingress' = ingress \ {r}
    /\ UNCHANGED <<vars, task, child, guard, told, halted, quarantined, closed,
                   published, device>>

SessionEnds(r) ==
    /\ At(r, "working") /\ Kind(r) = "scheduling"
    /\ worker[task[r].dep] # None
    /\ \E final \in {"completed", "timed_out"}
                        \cup (IF Cancelled(r) THEN {"cancelled"} ELSE {}) :
           Ends(r, final, "publish")
    /\ Unharmed

(* The worker is lost or terminated: the actor is closed ...               *)
SessionBreaks(r) ==
    /\ At(r, "working") /\ Kind(r) = "scheduling"
    /\ Ends(r, "failed", "unwind")
    /\ Unharmed

(* ... and the deployment marked.                                          *)
Unwind(r) ==
    /\ LockFree /\ At(r, "unwind")
    /\ WorkersEnd({task[r].dep})
    /\ dstate' = [dstate EXCEPT ![task[r].dep] = "failed"]
    /\ depoch' = [depoch EXCEPT ![task[r].dep] = None]
    /\ Goto(r, "publish")
    /\ UNCHANGED <<phase, configs, queue, pc, job, result, pending, owner, canceller,
                   state, child, guard, told, halted, quarantined, closed, ingress,
                   published, device>>

-----------------------------------------------------------------------------
(* The guardian of a system experiment.                                    *)

GuardAt(r, place) == r \in child /\ guard[r].at = place
GuardGoes(r, place, status) == guard' = [guard EXCEPT ![r] = [at |-> place, status |-> status]]
ServiceAsIs == UNCHANGED <<vars, task, halted, quarantined, closed, ingress, published>>

(* It exits with a result for the thread that waits, if one does; cleanup  *)
(* failed if it says "dirty".                                              *)
GuardExits(r, status) ==
    /\ GuardGoes(r, "none", IF At(r, "working") THEN status ELSE None)
    /\ child' = child \ {r} /\ told' = told \ {r}

(* The device lock is taken, unless it is held or a journal is there.  A   *)
(* plan without power limits ("plain") changes nothing on the device.      *)
GuardLocks(r) ==
    /\ GuardAt(r, "lock")
    /\ IF DeviceHeld(r) \/ journal
       THEN GuardExits(r, "failed")
       ELSE /\ \E place \in {"ready", "plain"} : GuardGoes(r, place, None)
            /\ UNCHANGED <<child, told>>
    /\ ServiceAsIs /\ UNCHANGED device

GuardPlain(r) ==
    /\ GuardAt(r, "plain")
    /\ \E status \in {"completed", "failed", "timed_out", "dirty"}
                         \cup (IF r \in told THEN {"cancelled"} ELSE {}) :
           GuardExits(r, status)
    /\ ServiceAsIs /\ UNCHANGED device

(* Before a trial: aborted, or something else is on the GPU, or the        *)
(* journal is written ...                                                  *)
GuardJournals(r) ==
    /\ GuardAt(r, "ready")
    /\ \/ /\ GuardGoes(r, IF journal THEN "restore" ELSE "exit",
                        IF r \in told THEN "cancelled" ELSE "failed")
          /\ UNCHANGED journal
       \/ /\ r \notin told
          /\ GuardGoes(r, "mutate", None)
          /\ journal' = TRUE
    /\ ServiceAsIs /\ UNCHANGED <<child, told, power>>

(* ... and the limit set, with or without success.                         *)
GuardMutates(r) ==
    /\ GuardAt(r, "mutate")
    /\ \/ GuardGoes(r, "trial", None) /\ power' \in {"original", "changed"}
       \/ GuardGoes(r, "restore", "failed") /\ power' \in {"original", "changed"}
    /\ ServiceAsIs /\ UNCHANGED <<child, told, journal>>

(* The trial ends, is aborted or fails; more of them may follow.           *)
GuardTrial(r) ==
    /\ GuardAt(r, "trial")
    /\ \/ r \in told /\ GuardGoes(r, "restore", "cancelled")
       \/ \E status \in {"failed", "timed_out", "completed"} : GuardGoes(r, "restore", status)
       \/ GuardGoes(r, "ready", None)
    /\ ServiceAsIs /\ UNCHANGED <<child, told, device>>

\* Mutant: the journal goes whether the limit was restored or not.
GuardRestores_Assumed(r) ==
    /\ GuardAt(r, "restore")
    /\ power' \in {power, "original"}
    /\ GuardGoes(r, "unlink", guard[r].status)
    /\ ServiceAsIs /\ UNCHANGED <<child, told, journal>>

(* The worker is killed and the limit restored and read back ...           *)
GuardRestores(r) ==
    /\ GuardAt(r, "restore")
    /\ \/ /\ power' = "original"
          /\ GuardGoes(r, "unlink", guard[r].status)
       \/ /\ power' \in {power, "original"}
          /\ GuardGoes(r, "exit", "dirty")
    /\ ServiceAsIs /\ UNCHANGED <<child, told, journal>>

(* ... before the journal goes, if it can be removed.                      *)
GuardUnlinks(r) ==
    /\ GuardAt(r, "unlink")
    /\ \/ journal' = FALSE /\ GuardGoes(r, "exit", guard[r].status)
       \/ UNCHANGED journal /\ GuardGoes(r, "exit", "dirty")
    /\ ServiceAsIs /\ UNCHANGED <<child, told, power>>

GuardEnds(r) ==
    /\ GuardAt(r, "exit")
    /\ GuardExits(r, guard[r].status)
    /\ ServiceAsIs /\ UNCHANGED device

GuardKilled(r) ==
    /\ r \in child /\ Kind(r) = "system"
    /\ GuardExits(r, "killed")
    /\ ServiceAsIs /\ UNCHANGED device

Guardian(r) ==
    \/ GuardLocks(r) \/ GuardPlain(r) \/ GuardJournals(r) \/ GuardMutates(r)
    \/ GuardTrial(r) \/ GuardRestores(r) \/ GuardUnlinks(r) \/ GuardEnds(r)

(* The thread of the experiment: it passes a cancel on, or stops the       *)
(* experiment because it fails itself ...                                  *)
TellGuard(r) ==
    /\ At(r, "working") /\ Kind(r) = "system" /\ Cancelled(r)
    /\ r \in child \ told
    /\ told' = told \cup {r}
    /\ UNCHANGED <<vars, task, child, guard, halted, quarantined, closed, ingress,
                   published, device>>

ThreadFails(r) ==
    /\ At(r, "working") /\ Kind(r) = "system" /\ r \in child
    /\ told' = told \cup {r}
    /\ Ends(r, "failed", "working")
    /\ UNCHANGED <<vars, child, guard, halted, quarantined, closed, ingress,
                   published, device>>

(* ... reads the result of a guardian that is gone: clean, and perhaps     *)
(* refused for its trials, or neither clean nor known to be ...            *)
ReadGuard(r) ==
    /\ At(r, "working") /\ Kind(r) = "system" /\ r \notin child
    /\ LET status == guard[r].status
       IN  \/ /\ status \notin {"dirty", "killed"}
              /\ \E final \in {"failed"} \cup (IF task[r].final = None THEN {status} ELSE {}) :
                     Ends(r, final, "publish")
              /\ UNCHANGED quarantined
           \/ /\ Ends(r, "failed", "publish")
              /\ quarantined' = quarantined \cup {"system"}
    /\ guard' = [guard EXCEPT ![r] = NoGuard]
    /\ UNCHANGED <<vars, child, told, halted, closed, ingress, published, device>>

\* Mutant: the thread waits for its guardian however long that takes.
GiveGuardUp_Never(r) == FALSE /\ UNCHANGED allVars

(* ... or stops waiting for one that is not, and quarantines the runner.   *)
GiveGuardUp(r) ==
    /\ At(r, "working") /\ Kind(r) = "system" /\ r \in child
    /\ told' = told \cup {r}
    /\ quarantined' = quarantined \cup {"system"}
    /\ Ends(r, "failed", "publish")
    /\ UNCHANGED <<vars, child, guard, halted, closed, ingress, published, device>>

-----------------------------------------------------------------------------
(* The end of the run, and of the runner's claim on the service.           *)

(* What is recorded: "failed" for an unconfirmed end, for a session with   *)
(* requests the worker never saw (reconciled under the lock that           *)
(* submit_request holds), and if the evidence cannot be sealed.  What      *)
(* ended a session early is recorded whatever its evidence.                *)
Recorded(r) ==
    LET final == task[r].final
    IN  IF final = "unconfirmed" \/ (final = "completed" /\ r \in ingress)
        THEN {"failed"}
        ELSE {final} \cup IF Kind(r) = "scheduling" /\ final # "completed"
                          THEN {} ELSE {"failed"}

PublishTask(r) ==
    /\ At(r, "publish")
    /\ \E final \in Recorded(r) : state' = [state EXCEPT ![r] = final]
    /\ Goto(r, IF Kind(r) = "compress" THEN "confirm" ELSE "finally")
    /\ UNCHANGED <<serviceButState, child, guard, told, halted, quarantined, closed,
                   ingress, published, device>>

(* What still matters of a task that is over.                              *)
Remembered(r) ==
    [NoTask EXCEPT !.kind = IF Kind(r) = "compress" \/ r \in child THEN Kind(r) ELSE None]

(* An unconfirmed diagnostic keeps the service to itself.                  *)
FinallyTask(r) ==
    /\ LockFree /\ At(r, "finally")
    /\ pending' = pending - 1
    /\ owner' = IF owner = r /\ ~(Kind(r) = "diagnostic" /\ task[r].final = "unconfirmed")
                THEN None ELSE owner
    /\ task' = [task EXCEPT ![r] = Remembered(r)]
    /\ ingress' = ingress \ {r}
    /\ UNCHANGED <<phase, configs, dstate, depoch, worker, queue, pc, job, result,
                   canceller, state, child, guard, told, halted, quarantined, closed,
                   published, device>>

RunnerThread(r) ==
    \/ BeginTask(r) \/ BeginBlind(r) \/ BeginFails(r) \/ LaunchCancelled(r) \/ Launch(r)
    \/ WorkEnds(r) \/ WorkStops(r) \/ Confirm(r) \/ ConfirmFails(r) \/ SealStops(r)
    \/ Seal(r) \/ SealUnrecorded(r) \/ SessionEnds(r) \/ SessionBreaks(r) \/ Unwind(r)
    \/ TellGuard(r) \/ ThreadFails(r) \/ ReadGuard(r) \/ GiveGuardUp(r) \/ PublishTask(r) \/ FinallyTask(r)

-----------------------------------------------------------------------------
(* The process.                                                            *)

CloseRunner ==
    /\ Closes
    /\ UNCHANGED <<vars, task, child, guard, told, quarantined, ingress, published,
                   device>>

(* A step of the task service, as the runners leave it room: no load       *)
(* succeeds while the device lock is theirs, close comes after their       *)
(* closes, and a restart is one of both.                                   *)
BesideRunners ==
    /\ phase' = "recovering" => phase = "recovering"
    /\ phase = "serving" /\ phase' = "closing" => closed = Len(CloseOrder) /\ Idle(closed)
    /\ HeldByRunner(None) => \A d \in Gpu : worker'[d] \in {worker[d], None}
    /\ UNCHANGED runnerVars

ServiceStep == Next /\ BesideRunners

(* The console ends or dies.  L5 and L9 processes die with it, the         *)
(* profiler's supervisor sees its pipe closed and the guardian its parent  *)
(* gone.  An L5 seal may have got as far as the rename.                    *)
RestartAll ==
    /\ Restart
    /\ task' = [r \in Runs |-> Remembered(r)]
    /\ child' = {r \in child : Kind(r) \in {"system", "diagnostic"}}
    /\ told' = {r \in child : Kind(r) = "system"} /\ halted' = {} /\ quarantined' = {} /\ closed' = 0 /\ ingress' = {}
    /\ \/ UNCHANGED published
       \/ \E r \in Runs : At(r, "sealing") /\ published' = published \cup {r}
    /\ guard' = [r \in Runs |-> IF r \in child THEN guard[r] ELSE NoGuard]
    /\ UNCHANGED device

(* The operator restores the limit and archives the journal.               *)
OperatorRecovers ==
    /\ phase = "recovering" /\ journal
    /\ \A r \in Runs : guard[r].at = "none"
    /\ journal' = FALSE /\ power' = "original"
    /\ UNCHANGED <<vars, runner>>

-----------------------------------------------------------------------------
RunnersNext ==
    \/ ServiceStep \/ CloseRunner \/ RestartAll \/ OperatorRecovers
    \/ \E r \in Runs, d \in Deployments, k \in Runners : 
          StartTask(k, r, d) \/ StartAsCloses(k, r, d)
    \/ \E d \in Deployments : "scheduling" \in Runners /\ ProbeFails(d)
    \/ \E r \in Runs : \/ RunnerThread(r) \/ Guardian(r) \/ GuardKilled(r)
                       \/ ChildEnds(r) \/ Ingress(r) \/ Observe(r)

RunnersSpec == RunnersInit /\ [][RunnersNext]_allVars

(* Threads are scheduled: the executors, the runners' (one at most has a   *)
(* task), and those that cancel, close and restart.  Every wait in a       *)
(* runner has a deadline, so its thread can always go on.  Processes owe   *)
(* nothing: they may hang, guardians included.                             *)
ProcessStep ==
    \/ CancelWrite \/ Closing \/ Serve \/ (closed > 0 /\ Close)
    \/ \E r \in Runs : Recover(r)

RunnersFairness ==
    /\ \A d \in Deployments : WF_allVars((\E r \in Runs : Executor(d, r)) /\ BesideRunners)
    /\ WF_allVars(\E r \in Runs : RunnerThread(r))
    /\ WF_allVars((closed > 0 /\ CloseRunner) \/ (ProcessStep /\ BesideRunners))

FairRunnersSpec == RunnersSpec /\ RunnersFairness

-----------------------------------------------------------------------------
(***************************************************************************)
(* Properties.                                                             *)
(***************************************************************************)

\* A runner's task has the console to itself from its acceptance to its finally
\* block: no job of the service and no other task is in flight, the claim is
\* its own, and self.pending counts jobs and tasks, whichever path ends them.
TaskExclusive ==
    /\ task \in [Runs -> [kind : Runners \cup {None}, dep : Deployments \cup {None},
                          at : Places, final : TERMINAL \cup {None, "unconfirmed"}]]
    /\ \A r \in Tasks : owner = r /\ Tasks = {r} /\ Outstanding = {}
    /\ pending = Cardinality(Outstanding) + Cardinality(Tasks)

\* The power limit differs from the original only while the journal says so: at
\* every point where the guardian or the console may be killed, the next start
\* of a system experiment (and the operator) can see that it must be restored.
PowerJournaled == power # "original" => journal

\* At most one model, experiment or profiler is on the GPU, over restarts that
\* guardians and profilers outlive.  The exception is an L9 process whose end
\* could not be confirmed (the lock was its parent's): there is one at most,
\* and L9 is quarantined.
Leftover == {r \in child : Kind(r) = "distributed" /\ At(r, "none")}
GpuUsers == {d \in Gpu : worker[d] # None}
                \cup {r \in Runs : Guarding(r)}
                \cup {r \in child : Kind(r) = "diagnostic"}
                \cup {r \in child \ Leftover : Kind(r) = "distributed"}
OneGpuUser ==
    /\ Cardinality(GpuUsers) <= 1
    /\ Cardinality(Leftover) <= 1
    /\ Leftover # {} => "distributed" \in quarantined

\* A recorded cancel gives way only to the end of the run, except that
\* diagnostics and scheduling start with a write of "running" that does not
\* look; and the end of a run gives way only to a cancel that read it live.
RecordsKept ==
    [][\A r \in Runs :
          /\ state[r] = "cancel_requested" /\ state'[r] # "cancel_requested"
                => \/ state'[r] \in TERMINAL
                   \/ At(r, "queued") /\ Kind(r) \in {"diagnostic", "scheduling"}
          /\ state[r] \in TERMINAL /\ state'[r] # state[r]
                => canceller = r /\ state'[r] = "cancel_requested"]_allVars

\* What is recorded as completed can be used: an L5 run is published and stays
\* completed (a cancel racing the seal comes before it or not at all), and a
\* scheduling run has no accepted request that its worker never saw.
ResultsStand ==
    [][\A r \in Runs :
          /\ state[r] = "completed" /\ Kind(r) = "compress"
                => state'[r] = "completed" /\ r \in published'
          /\ state'[r] = "completed" /\ Kind(r) = "scheduling" => r \notin ingress']_allVars

\* Every job leaves its executor and every task its runner, even if the process
\* it waits for hangs or cannot be killed; and a shutdown that closed its first
\* runner goes on to its end (or the process is restarted), whatever was queued
\* or running.  What the shutdown leaves behind is a task that was accepted while
\* its runner was closed, and that never got a thread.
Orphans == {r \in Runs : At(r, "orphan")}
WorkDrains ==
    (pending > 0 \/ closed > 0)
        ~> (pending = Cardinality(Orphans) /\ (closed = 0 \/ phase = "stopped"))
=============================================================================
