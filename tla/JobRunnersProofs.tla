-------------------------- MODULE JobRunnersProofs --------------------------
(***************************************************************************)
(* Proofs about JobRunners, for any deployments, any finite set of runs    *)
(* and any choice of runners.                                              *)
(*                                                                         *)
(* The task service is composed with runners that share its fields, so the *)
(* invariant of ConsoleServiceProofs holds as it stands only between two   *)
(* tasks: a task takes a slot that no job accounts for.  While a task is   *)
(* out the claim keeps every job away, so the service's own steps are the  *)
(* few that touch no job.  Everything else is said about the one task, the *)
(* processes that may outlive it, and the guardian.                        *)
(***************************************************************************)
EXTENDS JobRunners, ConsoleServiceProofs

-----------------------------------------------------------------------------
(***************************************************************************)
(* The inductive invariant, in parts.                                      *)
(***************************************************************************)
GuardPlaces == {"none", "lock", "plain", "ready", "mutate", "trial", "restore",
                "unlink", "exit"}
Statuses == {"completed", "failed", "timed_out", "cancelled", "dirty", "killed"}
TaskRecords == [kind : Runners \cup {None}, dep : Deployments \cup {None},
                at : Places, final : TERMINAL \cup {None, "unconfirmed"}]

RunnersTypeOK ==
    /\ task \in [Runs -> TaskRecords]
    /\ guard \in [Runs -> [at : GuardPlaces, status : Statuses \cup {None}]]
    /\ child \subseteq Runs
    /\ journal \in BOOLEAN /\ power \in {"original", "changed"}

\* What holds of the task service whether a task is out or not.
ServiceOK == TypeOK /\ BenchmarkExclusive /\ StoreAgrees /\ pending <= MaxPending

\* A run belongs to a runner or to an executor, and is in the store before it
\* belongs to a runner; a process belongs to a run; no task outlives a restart.
BelongOK ==
    /\ \A r \in Runs : Kind(r) # None => state[r] # "absent" /\ r \notin Outstanding
    /\ \A r \in Tasks : Kind(r) # None /\ task[r].dep \in Deployments
    /\ \A r \in child : Kind(r) # None
    /\ phase = "recovering" => Tasks = {}

\* Where the thread of each runner can be.
PlacesOf(k) ==
    CASE k = "system"     -> {"orphan", "queued", "working", "publish", "finally"}
      [] k = "compress"   -> {"orphan", "queued", "launch", "working", "sealing", "publish", "confirm",
                              "finally"}
      [] k = "scheduling" -> {"queued", "working", "unwind", "publish", "finally"}
      [] OTHER            -> {"orphan", "queued", "launch", "working", "confirm", "publish", "finally"}

PlaceOK == \A r \in Tasks : task[r].at \in PlacesOf(Kind(r))

\* The store while the task is out: live until the thread has recorded its end,
\* and there is an end to record when the thread comes to record it.
Unrecorded(r) ==
    \/ task[r].at \in {"queued", "launch", "working", "sealing", "unwind", "publish"}
    \/ At(r, "confirm") /\ Kind(r) # "compress"
EndKnown(r) ==
    task[r].at \in {"unwind", "publish"} \/ (At(r, "confirm") /\ Kind(r) # "compress")

RecordOK ==
    \A r \in Tasks :
        /\ Unrecorded(r) => state[r] \notin TERMINAL
        /\ At(r, "queued") => state[r] \in {"queued", "cancel_requested"}
        /\ EndKnown(r) => task[r].final \in TERMINAL \cup {"unconfirmed"}

\* The guardian: one at a time has the device; it changes the limit only behind
\* the journal and removes the journal only once the limit is back; its thread
\* finds a result when it is gone.
GuardOK ==
    /\ \A q, r \in Runs : Guarding(q) /\ Guarding(r) => q = r
    /\ \A r \in Runs : guard[r].at \in {"mutate", "trial", "restore"} => journal
    /\ \A r \in Runs : guard[r].at = "unlink" => power = "original"
    /\ \A r \in Runs : guard[r].at \in {"restore", "unlink", "exit"} => guard[r].status \in Statuses
    /\ \A r \in Tasks : At(r, "working") /\ Kind(r) = "system"
                            => r \in child \/ guard[r].status \in Statuses

\* Who is on the GPU besides the workers.
User(r) ==
    \/ Guarding(r)
    \/ r \in child /\ Kind(r) = "diagnostic"
    \/ r \in child /\ Kind(r) = "distributed" /\ ~At(r, "none")

DeviceOK ==
    /\ \A q, r \in Runs : User(q) /\ User(r) => q = r
    /\ \A r \in Runs : User(r) => \A d \in Gpu : worker[d] = None
    /\ OneGpuModel
    /\ \A r \in child : Kind(r) = "distributed" =>
          /\ task[r].at \in {"none", "working", "confirm", "publish", "finally"}
          /\ task[r].at \in {"none", "publish", "finally"} => "distributed" \in quarantined
    /\ \A q, r \in Leftover : q = r
    /\ Leftover # {} => \A r \in Tasks : Kind(r) # "distributed"

\* What was recorded as completed.
ResultOK ==
    \A r \in Runs :
        /\ Kind(r) = "compress" /\ state[r] = "completed"
              => r \in published /\ canceller # r /\ task[r].at \in {"none", "confirm", "finally"}
        /\ Kind(r) = "compress" /\ At(r, "publish") => task[r].final # "completed"
        /\ Kind(r) = "scheduling" /\ state[r] = "completed" => r \notin ingress

RunnersInv ==
    /\ ServiceOK /\ RunnersTypeOK /\ TaskExclusive /\ BelongOK /\ PlaceOK /\ RecordOK
    /\ GuardOK /\ PowerJournaled /\ DeviceOK /\ ResultOK

-----------------------------------------------------------------------------
(***************************************************************************)
(* The task and the service's slots.                                       *)
(***************************************************************************)

\* Between two tasks the service is as if there were no runners.
LEMMA Between ==
  ASSUME RunnersInv, Tasks = {}
  PROVE  Inv
<1>1. Cardinality({}) = 0 /\ Cardinality(Outstanding) \in Nat
  BY FS_EmptySet, OutstandingFinite
<1>2. pending = Cardinality(Outstanding)
  BY <1>1 DEF RunnersInv, TaskExclusive
<1>3. QED
  BY <1>2 DEF RunnersInv, ServiceOK, Inv, PendingExact

\* A task is alone, and holds the one slot that is taken.
LEMMA OneTask ==
  ASSUME RunnersInv, NEW r \in Tasks
  PROVE  /\ Tasks = {r} /\ Outstanding = {} /\ owner = r /\ pending = 1
         /\ phase # "recovering" /\ r \in Runs /\ Kind(r) \in Runners /\ Kind(r) \in AllRunners
         /\ task[r].dep \in Deployments
<1>1. Tasks = {r} /\ Outstanding = {} /\ owner = r /\ r \in Runs
  BY DEF RunnersInv, TaskExclusive, Tasks
<1>2. Cardinality({}) = 0 /\ Cardinality({r}) = 1
  BY FS_EmptySet, FS_Singleton
<1>3. pending = 1
  BY <1>1, <1>2 DEF RunnersInv, TaskExclusive
<1>4. Kind(r) \in Runners /\ task[r].dep \in Deployments
  BY <1>1 DEF RunnersInv, BelongOK, RunnersTypeOK, TaskRecords, Kind
<1>5. QED
  BY <1>1, <1>3, <1>4, RunnersAssumption DEF RunnersInv, BelongOK

\* What goto and the recording of an outcome do to the task.
LEMMA GotoFacts ==
  ASSUME RunnersTypeOK, NEW r \in Runs, NEW place \in Places, Goto(r, place)
  PROVE  /\ task' \in [Runs -> TaskRecords]
         /\ task'[r].at = place /\ task'[r].kind = task[r].kind
         /\ task'[r].dep = task[r].dep /\ task'[r].final = task[r].final
         /\ \A q \in Runs \ {r} : task'[q] = task[q]
<1>1. task'[r] = [task[r] EXCEPT !.at = place] /\ task[r] \in TaskRecords
  BY DEF Goto, RunnersTypeOK
<1>2. \A q \in Runs \ {r} : task'[q] = task[q]
  BY DEF Goto, RunnersTypeOK
<1>3. task'[r] \in TaskRecords
  BY <1>1 DEF TaskRecords
<1>4. task' \in [Runs -> TaskRecords]
  <2>1. task' = [q \in Runs |-> task'[q]]
    BY DEF Goto, RunnersTypeOK
  <2>2. \A q \in Runs : task'[q] \in TaskRecords
    BY <1>2, <1>3 DEF RunnersTypeOK
  <2>3. QED
    BY <2>1, <2>2
<1>5. /\ task'[r].at = place /\ task'[r].kind = task[r].kind
      /\ task'[r].dep = task[r].dep /\ task'[r].final = task[r].final
  BY <1>1 DEF TaskRecords
<1>6. QED
  BY <1>2, <1>4, <1>5

\* What the record of a task looks like after its runner has written an end.
LEMMA EndsFacts ==
  ASSUME RunnersTypeOK, NEW r \in Runs, NEW place \in Places,
         NEW final \in TERMINAL \cup {None, "unconfirmed"}, Ends(r, final, place)
  PROVE  /\ task' \in [Runs -> TaskRecords]
         /\ task'[r].at = place /\ task'[r].kind = task[r].kind
         /\ task'[r].dep = task[r].dep /\ task'[r].final = final
         /\ \A q \in Runs \ {r} : task'[q] = task[q]
<1>1. task'[r] = [[task[r] EXCEPT !.final = final] EXCEPT !.at = place] /\ task[r] \in TaskRecords
  BY DEF Ends, RunnersTypeOK
<1>2. \A q \in Runs \ {r} : task'[q] = task[q]
  BY DEF Ends, RunnersTypeOK
<1>3. task'[r] \in TaskRecords
  BY <1>1 DEF TaskRecords
<1>4. task' \in [Runs -> TaskRecords]
  <2>1. task' = [q \in Runs |-> task'[q]]
    BY DEF Ends, RunnersTypeOK
  <2>2. \A q \in Runs : task'[q] \in TaskRecords
    BY <1>2, <1>3 DEF RunnersTypeOK
  <2>3. QED
    BY <2>1, <2>2
<1>5. /\ task'[r].at = place /\ task'[r].kind = task[r].kind
      /\ task'[r].dep = task[r].dep /\ task'[r].final = final
  BY <1>1 DEF TaskRecords
<1>6. QED
  BY <1>2, <1>4, <1>5

-----------------------------------------------------------------------------
(***************************************************************************)
(* The thread of a task, from its first step to its finally block.         *)
(***************************************************************************)
Progress(r) ==
    \/ BeginTask(r) \/ BeginBlind(r) \/ BeginFails(r) \/ LaunchCancelled(r) \/ Launch(r)
    \/ WorkEnds(r) \/ WorkStops(r) \/ Confirm(r) \/ ConfirmFails(r) \/ SealStops(r)
    \/ Seal(r) \/ SealUnrecorded(r) \/ SessionEnds(r) \/ SessionBreaks(r) \/ Unwind(r)
    \/ ThreadFails(r) \/ ReadGuard(r) \/ GiveGuardUp(r) \/ PublishTask(r)

\* The thread of r went on: to a place of its runner, with an outcome where one
\* is needed.
Moved(r) ==
    /\ task' \in [Runs -> TaskRecords]
    /\ \A q \in Runs \ {r} : task'[q] = task[q]
    /\ task'[r].kind = task[r].kind /\ task'[r].dep = task[r].dep
    /\ task'[r].at \in PlacesOf(Kind(r)) \ {"queued", "orphan"}
    /\ EndKnown(r)' => task'[r].final \in TERMINAL \cup {"unconfirmed"}
    /\ Kind(r) = "compress" /\ task'[r].at = "publish" => task'[r].final # "completed"

\* A thread that goes somewhere with an outcome has moved.
LEMMA EndsMoves ==
  ASSUME RunnersInv, NEW r \in Tasks, NEW place \in Places \ {"queued", "orphan"},
         NEW final \in TERMINAL \cup {"unconfirmed"}, Ends(r, final, place),
         place \in PlacesOf(Kind(r)),
         Kind(r) = "compress" /\ place = "publish" => final # "completed"
  PROVE  Moved(r) /\ task'[r].at = place /\ task'[r].final = final
<1>1. RunnersTypeOK /\ r \in Runs
  BY DEF RunnersInv, Tasks
<1>2. /\ task' \in [Runs -> TaskRecords]
      /\ task'[r].at = place /\ task'[r].kind = task[r].kind
      /\ task'[r].dep = task[r].dep /\ task'[r].final = final
      /\ \A q \in Runs \ {r} : task'[q] = task[q]
  BY <1>1, EndsFacts
<1>3. QED
  BY <1>2 DEF Moved

\* So has one that goes somewhere and keeps the outcome it has.
LEMMA GotoMoves ==
  ASSUME RunnersInv, NEW r \in Tasks, NEW place \in Places \ {"queued", "orphan"}, Goto(r, place),
         place \in PlacesOf(Kind(r)),
         place \in {"unwind", "publish"} \/ (place = "confirm" /\ Kind(r) # "compress") => EndKnown(r),
         Kind(r) = "compress" => place # "publish"
  PROVE  Moved(r) /\ task'[r].at = place /\ task'[r].final = task[r].final
<1>1. RunnersTypeOK /\ r \in Runs
  BY DEF RunnersInv, Tasks
<1>2. /\ task' \in [Runs -> TaskRecords]
      /\ task'[r].at = place /\ task'[r].kind = task[r].kind
      /\ task'[r].dep = task[r].dep /\ task'[r].final = task[r].final
      /\ \A q \in Runs \ {r} : task'[q] = task[q]
  BY <1>1, GotoFacts
<1>3. EndKnown(r) => task[r].final \in TERMINAL \cup {"unconfirmed"}
  BY DEF RunnersInv, RecordOK
<1>4. EndKnown(r)' => EndKnown(r)
  BY <1>2 DEF EndKnown, At, Kind
<1>5. QED
  BY <1>2, <1>3, <1>4 DEF Moved

\* One step per action.
LEMMA ProgressMoves ==
  ASSUME RunnersInv, NEW r \in Runs, Progress(r)
  PROVE  r \in Tasks /\ Moved(r)
<1>1. r \in Tasks
  BY DEF Progress, BeginTask, BeginBlind, BeginFails, LaunchCancelled, Launch, WorkEnds, WorkStops,
         Confirm, ConfirmFails, SealStops, Seal, SealUnrecorded, SessionEnds, SessionBreaks, Unwind,
         ThreadFails, ReadGuard, GiveGuardUp, PublishTask, Tasks, At
<1>2. Kind(r) \in AllRunners /\ task[r].at \in PlacesOf(Kind(r))
  BY <1>1, OneTask DEF RunnersInv, PlaceOK
<1>3. Failed(r) \in {"cancelled", "failed"} /\ {"cancelled", "failed", "completed", "timed_out"} \subseteq TERMINAL
  BY DEF Failed, TERMINAL
<1>4. CASE BeginTask(r)
  <2>1. Kind(r) \in {"system", "compress", "distributed"} /\ At(r, "queued")
    BY <1>4 DEF BeginTask
  <2>2. CASE Goto(r, "confirm") /\ Kind(r) = "compress"
    BY <1>1, <2>2, GotoMoves DEF Places, PlacesOf
  <2>3. CASE Ends(r, "cancelled", "publish")
    BY <1>1, <1>3, <2>1, <2>3, EndsMoves DEF Places, PlacesOf
  <2>4. CASE Goto(r, "working") /\ Kind(r) = "system"
    BY <1>1, <2>4, GotoMoves DEF Places, PlacesOf
  <2>5. CASE Goto(r, "launch") /\ Kind(r) # "system"
    BY <1>1, <2>1, <2>5, GotoMoves DEF Places, PlacesOf
  <2>6. QED
    BY <1>1, <1>4, <2>2, <2>3, <2>4, <2>5 DEF BeginTask
<1>5. CASE BeginBlind(r)
  <2>1. Kind(r) \in {"diagnostic", "scheduling"} /\ Goto(r, IF Kind(r) = "scheduling" THEN "working" ELSE "launch")
    BY <1>5 DEF BeginBlind
  <2>2. QED
    BY <1>1, <2>1, GotoMoves DEF Places, PlacesOf
<1>6. CASE BeginFails(r)
  <2>1. Ends(r, Failed(r), AfterFailure(Kind(r)))
    BY <1>6 DEF BeginFails
  <2>2. AfterFailure(Kind(r)) \in Places \ {"queued", "orphan"} /\ AfterFailure(Kind(r)) \in PlacesOf(Kind(r))
    BY <1>2 DEF AfterFailure, PlacesOf, Places, AllRunners
  <2>3. Failed(r) # "completed" /\ Failed(r) \in TERMINAL \cup {"unconfirmed"}
    BY <1>3
  <2>4. QED
    BY <1>1, <2>1, <2>2, <2>3, EndsMoves
<1>7. CASE LaunchCancelled(r)
  BY <1>1, <1>3, <1>7, EndsMoves DEF LaunchCancelled, Places, PlacesOf
<1>8. CASE Launch(r)
  <2>1. Goto(r, "working") /\ "working" \in PlacesOf(Kind(r))
    BY <1>2, <1>8 DEF Launch, At, PlacesOf, AllRunners
  <2>2. QED
    BY <1>1, <2>1, GotoMoves DEF Places
<1>9. CASE WorkEnds(r)
  <2>1. PICK final \in {"completed", Failed(r)} : Ends(r, final, AfterWork(Kind(r), final))
    BY <1>9 DEF WorkEnds
  <2>2. Kind(r) \in {"compress", "distributed", "diagnostic"}
    BY <1>9 DEF WorkEnds
  <2>3. /\ AfterWork(Kind(r), final) \in Places \ {"queued", "orphan"}
        /\ AfterWork(Kind(r), final) \in PlacesOf(Kind(r))
        /\ Kind(r) = "compress" /\ AfterWork(Kind(r), final) = "publish" => final # "completed"
    BY <2>2 DEF AfterWork, PlacesOf, Places
  <2>4. final \in TERMINAL \cup {"unconfirmed"}
    BY <1>3
  <2>5. QED
    BY <1>1, <2>1, <2>3, <2>4, EndsMoves
<1>10. CASE WorkStops(r)
  <2>1. PICK final \in Stopped(r) \cup {Failed(r)} : Ends(r, final, AfterWork(Kind(r), final))
    <3>1. AfterWork(Kind(r), "failed") = AfterWork(Kind(r), Failed(r))
      BY <1>3 DEF AfterWork
    <3>2. QED
      BY <1>10, <3>1 DEF WorkStops
  <2>2. Kind(r) \in {"compress", "distributed", "diagnostic"}
    BY <1>10 DEF WorkStops
  <2>3. final \in {"cancelled", "timed_out", "failed"}
    BY <1>3 DEF Stopped
  <2>4. /\ AfterWork(Kind(r), final) \in Places \ {"queued", "orphan"}
        /\ AfterWork(Kind(r), final) \in PlacesOf(Kind(r))
    BY <2>2, <2>3 DEF AfterWork, PlacesOf, Places
  <2>5. final \in TERMINAL \cup {"unconfirmed"} /\ final # "completed"
    BY <1>3, <2>3
  <2>6. QED
    BY <1>1, <2>1, <2>4, <2>5, EndsMoves
<1>11. CASE Confirm(r)
  <2>1. At(r, "confirm") /\ Goto(r, AfterConfirm(Kind(r)))
    BY <1>11 DEF Confirm
  <2>2. Kind(r) \in {"compress", "distributed", "diagnostic"}
    BY <1>2, <2>1 DEF PlacesOf, AllRunners, At
  <2>3. AfterConfirm(Kind(r)) \in Places \ {"queued", "orphan"} /\ AfterConfirm(Kind(r)) \in PlacesOf(Kind(r))
    BY <2>2 DEF AfterConfirm, PlacesOf, Places
  <2>4. /\ AfterConfirm(Kind(r)) = "publish" => EndKnown(r)
        /\ AfterConfirm(Kind(r)) \in {"finally", "publish"}
        /\ Kind(r) = "compress" => AfterConfirm(Kind(r)) # "publish"
    BY <2>1 DEF AfterConfirm, EndKnown
  <2>5. QED
    BY <1>1, <2>1, <2>3, <2>4, GotoMoves
<1>12. CASE ConfirmFails(r)
  <2>1. At(r, "confirm") /\ Ends(r, "unconfirmed", AfterConfirm(Kind(r)))
    BY <1>12 DEF ConfirmFails
  <2>2. Kind(r) \in {"compress", "distributed", "diagnostic"}
    BY <1>2, <2>1 DEF PlacesOf, AllRunners, At
  <2>3. AfterConfirm(Kind(r)) \in Places \ {"queued", "orphan"} /\ AfterConfirm(Kind(r)) \in PlacesOf(Kind(r))
    BY <2>2 DEF AfterConfirm, PlacesOf, Places
  <2>4. QED
    BY <1>1, <2>1, <2>3, EndsMoves
<1>13. CASE SealStops(r) \/ SealUnrecorded(r)
  <2>1. At(r, "sealing") /\ (Ends(r, "cancelled", "publish") \/ Ends(r, "failed", "publish"))
    BY <1>13 DEF SealStops, SealUnrecorded
  <2>2. "publish" \in PlacesOf(Kind(r)) /\ "publish" \in Places \ {"queued", "orphan"}
    BY <1>2 DEF PlacesOf, Places, AllRunners
  <2>3. QED
    BY <1>1, <1>3, <2>1, <2>2, EndsMoves
<1>14. CASE Seal(r)
  <2>1. At(r, "sealing") /\ Goto(r, "confirm")
    BY <1>14 DEF Seal
  <2>2. Kind(r) = "compress"
    BY <1>2, <2>1 DEF PlacesOf, AllRunners, At
  <2>3. QED
    BY <1>1, <2>1, <2>2, GotoMoves DEF PlacesOf, Places
<1>15. CASE SessionEnds(r)
  <2>1. PICK final \in {"completed", "timed_out", "cancelled"} : Ends(r, final, "publish")
    BY <1>15 DEF SessionEnds
  <2>2. Kind(r) = "scheduling"
    BY <1>15 DEF SessionEnds
  <2>3. QED
    BY <1>1, <1>3, <2>1, <2>2, EndsMoves DEF PlacesOf, Places
<1>16. CASE SessionBreaks(r)
  <2>1. Ends(r, "failed", "unwind") /\ Kind(r) = "scheduling"
    BY <1>16 DEF SessionBreaks
  <2>2. QED
    BY <1>1, <1>3, <2>1, EndsMoves DEF PlacesOf, Places
<1>17. CASE Unwind(r)
  <2>1. At(r, "unwind") /\ Goto(r, "publish")
    BY <1>17 DEF Unwind
  <2>2. Kind(r) = "scheduling"
    BY <1>2, <2>1 DEF PlacesOf, AllRunners, At
  <2>3. QED
    BY <1>1, <2>1, <2>2, GotoMoves DEF PlacesOf, Places, EndKnown, At
<1>18. CASE ReadGuard(r)
  <2>1. At(r, "working") /\ Kind(r) = "system" /\ r \notin child
    BY <1>18 DEF ReadGuard
  <2>2. guard[r].status \in Statuses
    BY <1>1, <2>1 DEF RunnersInv, GuardOK
  <2>3. PICK final \in {"failed"} \cup {guard[r].status} :
           Ends(r, final, "publish") /\ final \notin {"dirty", "killed"}
    BY <1>18 DEF ReadGuard
  <2>4. final \in TERMINAL \cup {"unconfirmed"}
    BY <2>2, <2>3 DEF Statuses, TERMINAL
  <2>5. QED
    BY <1>1, <2>1, <2>3, <2>4, EndsMoves DEF PlacesOf, Places
<1>19. CASE GiveGuardUp(r)
  BY <1>1, <1>3, <1>19, EndsMoves DEF GiveGuardUp, PlacesOf, Places
<1>22. CASE ThreadFails(r)
  BY <1>1, <1>3, <1>22, EndsMoves DEF ThreadFails, PlacesOf, Places
<1>20. CASE PublishTask(r)
  <2>1. At(r, "publish") /\ Goto(r, IF Kind(r) = "compress" THEN "confirm" ELSE "finally")
    BY <1>20 DEF PublishTask
  <2>2. /\ Kind(r) = "compress" => "confirm" \in PlacesOf(Kind(r))
        /\ "finally" \in PlacesOf(Kind(r))
    BY <1>2 DEF PlacesOf, AllRunners
  <2>3. QED
    BY <1>1, <2>1, <2>2, GotoMoves DEF Places
<1>21. QED
  BY <1>1, <1>4, <1>5, <1>6, <1>7, <1>8, <1>9, <1>10, <1>11, <1>12, <1>13, <1>14, <1>15, <1>16,
     <1>17, <1>18, <1>19, <1>20, <1>22 DEF Progress

\* The service as the thread leaves it: its jobs, slots and claim as they were,
\* no worker with a model it did not have.
LEMMA ProgressKeeps ==
  ASSUME RunnersInv, NEW r \in Runs, Progress(r)
  PROVE  /\ UNCHANGED <<phase, configs, queue, pc, job, result, pending, owner, canceller,
                        journal, power, ingress>>
         /\ dstate' \in [Deployments -> DeploymentStates]
         /\ depoch' \in [Deployments -> Runs \cup {None}]
         /\ worker' \in [Deployments -> Runs \cup {None}]
         /\ \A d \in Deployments : worker'[d] \in {worker[d], None}
<1>0. TypeOK
  BY DEF RunnersInv, ServiceOK
<1>1. CASE Unwind(r)
  <2>1. /\ UNCHANGED <<phase, configs, queue, pc, job, result, pending, owner, canceller,
                       journal, power, ingress>>
        /\ WorkersEnd({task[r].dep})
        /\ dstate' = [dstate EXCEPT ![task[r].dep] = "failed"]
        /\ depoch' = [depoch EXCEPT ![task[r].dep] = None]
    BY <1>1 DEF Unwind, device
  <2>2. {task[r].dep} \in SUBSET Deployments
    BY <1>1, OneTask DEF Unwind, Tasks, At
  <2>3. QED
    BY <1>0, <2>1, <2>2, EndedWorkers DEF TypeOK, DeploymentStates
<1>2. CASE ~Unwind(r)
  <2>1. UNCHANGED <<phase, configs, dstate, depoch, worker, queue, pc, job, result, pending, owner,
                    canceller, journal, power, ingress>>
    BY <1>2 DEF Progress, BeginTask, BeginBlind, BeginFails, LaunchCancelled, Launch, WorkEnds,
       WorkStops, Confirm, ConfirmFails, SealStops, Seal, SealUnrecorded, SessionEnds,
       SessionBreaks, ThreadFails, ReadGuard, GiveGuardUp, PublishTask, Unharmed, vars, volatile, device,
       serviceButState
  <2>2. QED
    BY <1>0, <2>1 DEF TypeOK
<1>3. QED
  BY <1>1, <1>2

\* What the thread writes to the store.
Wrote(r) ==
    /\ state' \in [Runs -> RunStates]
    /\ \A q \in Runs \ {r} : state'[q] = state[q]
    /\ state'[r] # "absent"
    /\ Unrecorded(r)' => state'[r] \notin TERMINAL
    /\ state[r] \in TERMINAL => state'[r] = state[r]
    /\ state[r] = "cancel_requested" /\ state'[r] # "cancel_requested"
          => \/ state'[r] \in TERMINAL
             \/ At(r, "queued") /\ Kind(r) \in {"diagnostic", "scheduling"}
    /\ Kind(r) = "compress" /\ state'[r] = "completed" /\ state[r] # "completed"
          => r \in published' /\ canceller = None /\ task'[r].at = "confirm"
    /\ Kind(r) = "scheduling" /\ state'[r] = "completed" /\ state[r] # "completed"
          => r \notin ingress

\* Everything Recorded offers is the end of a run.
LEMMA RecordedEnds ==
  ASSUME NEW r, task[r].final \in TERMINAL \cup {"unconfirmed"}
  PROVE  /\ Recorded(r) \subseteq TERMINAL
         /\ "completed" \in Recorded(r) => task[r].final = "completed" /\ r \notin ingress
BY DEF Recorded, TERMINAL

\* One step per kind of write.
LEMMA ProgressWrites ==
  ASSUME RunnersInv, NEW r \in Runs, Progress(r)
  PROVE  Wrote(r) /\ published \subseteq published'
<1>0. TypeOK /\ r \in Tasks /\ Moved(r)
  BY ProgressMoves DEF RunnersInv, ServiceOK
<1>1. Kind(r) \in AllRunners /\ task[r].at \in PlacesOf(Kind(r))
  BY <1>0, OneTask DEF RunnersInv, PlaceOK
<1>2. state[r] # "absent"
  BY <1>0, <1>1, RunnersAssumption DEF RunnersInv, BelongOK
<1>3. /\ Unrecorded(r) => state[r] \notin TERMINAL
      /\ At(r, "queued") => state[r] \in {"queued", "cancel_requested"}
      /\ EndKnown(r) => task[r].final \in TERMINAL \cup {"unconfirmed"}
  BY <1>0 DEF RunnersInv, RecordOK
<1>4. state \in [Runs -> RunStates] /\ task'[r].kind = task[r].kind
  BY <1>0 DEF TypeOK, Moved
<1>5. CASE UNCHANGED state /\ (BeginTask(r) \/ BeginFails(r) \/ LaunchCancelled(r) \/ Launch(r) \/
                WorkEnds(r) \/ WorkStops(r) \/ SealStops(r) \/ SealUnrecorded(r) \/ SessionEnds(r) \/
                SessionBreaks(r) \/ Unwind(r) \/ ThreadFails(r) \/ ReadGuard(r) \/ GiveGuardUp(r))
  <2>1. Unrecorded(r)
    BY <1>5 DEF BeginTask, BeginFails, LaunchCancelled, Launch, WorkEnds, WorkStops, SealStops,
       SealUnrecorded, SessionEnds, SessionBreaks, Unwind, ThreadFails, ReadGuard, GiveGuardUp, Unrecorded, At
  <2>2. published \subseteq published'
    BY <1>5 DEF BeginTask, BeginFails, LaunchCancelled, Launch, WorkEnds, WorkStops, SealStops,
       SealUnrecorded, SessionEnds, SessionBreaks, Unwind, ThreadFails, ReadGuard, GiveGuardUp, Unharmed
  <2>3. QED
    BY <1>2, <1>3, <1>4, <1>5, <2>1, <2>2 DEF Wrote
<1>6. CASE Confirm(r) \/ ConfirmFails(r)
  <2>1. At(r, "confirm") /\ UNCHANGED <<state, published>>
    BY <1>6 DEF Confirm, ConfirmFails, vars
  <2>2. CASE Kind(r) # "compress"
    <3>1. Unrecorded(r)
      BY <2>1, <2>2 DEF Unrecorded
    <3>2. QED
      BY <1>2, <1>3, <1>4, <2>1, <3>1 DEF Wrote
  <2>3. CASE Kind(r) = "compress"
    <3>1. task'[r].at = "finally"
      <4>1. RunnersTypeOK /\ "finally" \in Places /\ "unconfirmed" \in TERMINAL \cup {None, "unconfirmed"}
        BY DEF RunnersInv, Places
      <4>2. Goto(r, "finally") \/ Ends(r, "unconfirmed", "finally")
        BY <1>6, <2>3 DEF Confirm, ConfirmFails, AfterConfirm
      <4>3. QED
        BY <4>1, <4>2, GotoFacts, EndsFacts
    <3>2. ~Unrecorded(r)'
      BY <3>1 DEF Unrecorded, At
    <3>3. QED
      BY <1>2, <1>4, <2>1, <3>2 DEF Wrote
  <2>4. QED
    BY <2>2, <2>3
<1>7. CASE (BeginTask(r) \/ BeginBlind(r)) /\ state' = [state EXCEPT ![r] = "running"]
  <2>1. At(r, "queued") /\ UNCHANGED published
    BY <1>7 DEF BeginTask, BeginBlind
  <2>2. state'[r] = "running" /\ state' \in [Runs -> RunStates] /\ \A q \in Runs \ {r} : state'[q] = state[q]
    BY <1>4, <1>7 DEF RunStates
  <2>3. state[r] = "cancel_requested" => Kind(r) \in {"diagnostic", "scheduling"}
    <3>1. CASE BeginTask(r)
      <4>1. CASE Cancelled(r)
        BY <1>3, <1>4, <1>7, <2>1, <2>2, <3>1, <4>1 DEF BeginTask
      <4>2. CASE ~Cancelled(r)
        BY <4>2 DEF Cancelled
      <4>3. QED
        BY <4>1, <4>2
    <3>2. CASE BeginBlind(r)
      BY <3>2 DEF BeginBlind
    <3>3. QED
      BY <1>7, <3>1, <3>2
  <2>4. state[r] \notin TERMINAL /\ "running" \notin TERMINAL
    BY <1>3, <2>1 DEF TERMINAL
  <2>5. QED
    BY <2>1, <2>2, <2>3, <2>4 DEF Wrote
<1>8. CASE BeginTask(r) /\ state' = [state EXCEPT ![r] = "cancelled"] /\ Goto(r, "confirm") /\ Kind(r) = "compress"
  <2>1. At(r, "queued") /\ UNCHANGED published
    BY <1>8 DEF BeginTask
  <2>2. state'[r] = "cancelled" /\ state' \in [Runs -> RunStates] /\ \A q \in Runs \ {r} : state'[q] = state[q]
    BY <1>4, <1>8 DEF RunStates, TERMINAL
  <2>3. task'[r].at = "confirm"
    BY <1>8, GotoFacts DEF RunnersInv, Places
  <2>4. ~Unrecorded(r)' /\ state[r] \notin TERMINAL /\ "cancelled" \in TERMINAL
    BY <1>3, <1>4, <1>8, <2>1, <2>3 DEF Unrecorded, At, Kind, TERMINAL
  <2>5. QED
    BY <2>1, <2>2, <2>4 DEF Wrote
<1>9. CASE Seal(r)
  <2>1. At(r, "sealing") /\ canceller = None /\ Goto(r, "confirm")
    BY <1>9 DEF Seal, LockFree
  <2>2. PICK v \in {"cancelled", "completed"} :
             state' = [state EXCEPT ![r] = v] /\ (v = "completed" => r \in published')
    BY <1>9 DEF Seal
  <2>3. state'[r] = v /\ state' \in [Runs -> RunStates] /\ \A q \in Runs \ {r} : state'[q] = state[q]
    BY <1>4, <2>2 DEF RunStates, TERMINAL
  <2>4. task'[r].at = "confirm" /\ Kind(r) = "compress"
    BY <1>1, <2>1, GotoFacts DEF RunnersInv, Places, PlacesOf, AllRunners, At
  <2>5. ~Unrecorded(r)' /\ state[r] \notin TERMINAL /\ v \in TERMINAL
    BY <1>3, <1>4, <2>1, <2>2, <2>4 DEF Unrecorded, At, Kind, TERMINAL
  <2>6. v # "absent" /\ published \subseteq published'
    BY <1>9, <2>2 DEF Seal
  <2>7. QED
    BY <2>1, <2>2, <2>3, <2>4, <2>5, <2>6 DEF Wrote
<1>10. CASE PublishTask(r)
  <2>1. At(r, "publish") /\ UNCHANGED published
    BY <1>10 DEF PublishTask
  <2>2. EndKnown(r) /\ Unrecorded(r)
    BY <2>1 DEF EndKnown, Unrecorded, At
  <2>3. PICK v \in Recorded(r) : state' = [state EXCEPT ![r] = v]
    BY <1>10 DEF PublishTask
  <2>4. v \in TERMINAL /\ (v = "completed" => task[r].final = "completed" /\ r \notin ingress)
    BY <1>3, <2>2, <2>3, RecordedEnds
  <2>5. state'[r] = v /\ state' \in [Runs -> RunStates] /\ \A q \in Runs \ {r} : state'[q] = state[q]
    BY <1>4, <2>3, <2>4 DEF RunStates
  <2>6. Kind(r) = "compress" => v # "completed"
    BY <2>1, <2>4 DEF RunnersInv, ResultOK
  <2>7. ~Unrecorded(r)'
    <3>1. task'[r].at = IF Kind(r) = "compress" THEN "confirm" ELSE "finally"
      <4>1. Goto(r, IF Kind(r) = "compress" THEN "confirm" ELSE "finally") /\ RunnersTypeOK
        BY <1>10 DEF PublishTask, RunnersInv
      <4>2. (IF Kind(r) = "compress" THEN "confirm" ELSE "finally") \in Places
        BY DEF Places
      <4>3. QED
        BY <4>1, <4>2, GotoFacts
    <3>2. QED
      BY <1>4, <3>1 DEF Unrecorded, At, Kind
  <2>8. state[r] \notin TERMINAL /\ v # "absent"
    BY <1>3, <2>2, <2>4 DEF TERMINAL
  <2>9. QED
    BY <2>1, <2>4, <2>5, <2>6, <2>7, <2>8 DEF Wrote
<1>11. QED
  <2>1. CASE BeginTask(r)
    <3>1. \/ UNCHANGED state
          \/ state' = [state EXCEPT ![r] = "running"]
          \/ state' = [state EXCEPT ![r] = "cancelled"] /\ Goto(r, "confirm") /\ Kind(r) = "compress"
      BY <2>1 DEF BeginTask
    <3>2. QED
      BY <1>5, <1>7, <1>8, <2>1, <3>1
  <2>2. CASE BeginBlind(r)
    BY <1>7, <2>2 DEF BeginBlind
  <2>3. CASE BeginFails(r) \/ LaunchCancelled(r) \/ Launch(r) \/ WorkEnds(r) \/ WorkStops(r) \/
             SealStops(r) \/ SealUnrecorded(r) \/ SessionEnds(r) \/
             SessionBreaks(r) \/ Unwind(r) \/ ThreadFails(r) \/ ReadGuard(r) \/ GiveGuardUp(r)
    <3>1. UNCHANGED state
      BY <2>3 DEF BeginFails, LaunchCancelled, Launch, WorkEnds, WorkStops, SealStops,
         SealUnrecorded, SessionEnds, SessionBreaks, Unwind, ThreadFails, ReadGuard, GiveGuardUp, Unharmed, vars
    <3>2. QED
      BY <1>5, <2>3, <3>1
  <2>4. QED
    BY <1>6, <1>9, <1>10, <2>1, <2>2, <2>3 DEF Progress

-----------------------------------------------------------------------------
(***************************************************************************)
(* The thread, the processes and the device.                               *)
(***************************************************************************)

\* Where goto and the recording of an outcome take the thread.
LEMMA Lands ==
  ASSUME RunnersTypeOK, NEW r \in Runs, NEW place, NEW final,
         Goto(r, place) \/ Ends(r, final, place)
  PROVE  task'[r].at = place
<1>1. task[r] \in TaskRecords
  BY DEF RunnersTypeOK
<1>2. CASE Goto(r, place)
  <2>1. task'[r] = [task[r] EXCEPT !.at = place]
    BY <1>2 DEF Goto, RunnersTypeOK
  <2>2. QED
    BY <1>1, <2>1 DEF TaskRecords
<1>3. CASE Ends(r, final, place)
  <2>1. task'[r] = [[task[r] EXCEPT !.final = final] EXCEPT !.at = place]
    BY <1>3 DEF Ends, RunnersTypeOK
  <2>2. QED
    BY <1>1, <2>1 DEF TaskRecords
<1>4. QED
  BY <1>2, <1>3

\* The steps by which a thread comes to work.
LEMMA ComesToWork ==
  ASSUME RunnersInv, NEW r \in Runs, Progress(r), task'[r].at = "working"
  PROVE  BeginTask(r) \/ BeginBlind(r) \/ Launch(r) \/ ThreadFails(r)
<1>0. RunnersTypeOK
  BY DEF RunnersInv
<1>1. CASE BeginFails(r)
  <2>1. Ends(r, Failed(r), AfterFailure(Kind(r))) /\ AfterFailure(Kind(r)) # "working"
    BY <1>1 DEF BeginFails, AfterFailure
  <2>2. QED
    BY <1>0, <2>1, Lands
<1>2. CASE LaunchCancelled(r) \/ Seal(r)
  <2>1. Ends(r, "cancelled", "confirm") \/ Goto(r, "confirm")
    BY <1>2 DEF LaunchCancelled, Seal
  <2>2. QED
    BY <1>0, <2>1, Lands
<1>3. CASE WorkEnds(r) \/ WorkStops(r)
  <2>1. PICK final, p : Ends(r, final, AfterWork(Kind(r), p))
    BY <1>3 DEF WorkEnds, WorkStops
  <2>2. AfterWork(Kind(r), p) # "working"
    BY DEF AfterWork
  <2>3. QED
    BY <1>0, <2>1, <2>2, Lands
<1>4. CASE Confirm(r) \/ ConfirmFails(r)
  <2>1. Goto(r, AfterConfirm(Kind(r))) \/ Ends(r, "unconfirmed", AfterConfirm(Kind(r)))
    BY <1>4 DEF Confirm, ConfirmFails
  <2>2. AfterConfirm(Kind(r)) # "working"
    BY DEF AfterConfirm
  <2>3. QED
    BY <1>0, <2>1, <2>2, Lands
<1>5. CASE SealStops(r) \/ SealUnrecorded(r) \/ SessionEnds(r) \/ ReadGuard(r) \/ GiveGuardUp(r) \/ Unwind(r)
  <2>1. PICK final : Ends(r, final, "publish") \/ Goto(r, "publish")
    BY <1>5 DEF SealStops, SealUnrecorded, SessionEnds, ReadGuard, GiveGuardUp, Unwind
  <2>2. QED
    BY <1>0, <2>1, Lands
<1>6. CASE SessionBreaks(r)
  <2>1. Ends(r, "failed", "unwind")
    BY <1>6 DEF SessionBreaks
  <2>2. QED
    BY <1>0, <2>1, Lands
<1>7. CASE PublishTask(r)
  <2>1. Goto(r, "confirm") \/ Goto(r, "finally")
    BY <1>7 DEF PublishTask
  <2>2. QED
    BY <1>0, <2>1, Lands
<1>8. QED
  BY <1>1, <1>2, <1>3, <1>4, <1>5, <1>6, <1>7 DEF Progress

\* How the thread leaves processes, guardian and quarantine.
LEMMA ProgressProcesses ==
  ASSUME RunnersInv, NEW r \in Runs, Progress(r)
  PROVE  /\ child' \subseteq child \cup {r}
         /\ quarantined \subseteq quarantined'
         /\ guard' \in [Runs -> [at : GuardPlaces, status : Statuses \cup {None}]]
         /\ \A q \in Runs : guard'[q] = guard[q] \/ (q = r /\ guard'[r].at \in {"none", "lock"})
         /\ r \in child' => \/ r \in child
                            \/ BeginTask(r) /\ Kind(r) = "system" /\ guard'[r].at = "lock"
                            \/ Launch(r)
         /\ BeginTask(r) /\ Kind(r) = "system" /\ task'[r].at = "working" => r \in child'
<1>0. RunnersTypeOK
  BY DEF RunnersInv
<1>1. CASE BeginTask(r)
  <2>1. quarantined' = quarantined
    BY <1>1 DEF BeginTask
  <2>2. CASE Kind(r) = "system" /\ ~Cancelled(r)
    <3>1. child' = child \cup {r} /\ guard' = [guard EXCEPT ![r].at = "lock"]
      BY <1>1, <2>2 DEF BeginTask
    <3>2. guard[r] \in [at : GuardPlaces, status : Statuses \cup {None}]
      BY <1>0 DEF RunnersTypeOK
    <3>3. guard'[r] = [guard[r] EXCEPT !.at = "lock"] /\ \A q \in Runs \ {r} : guard'[q] = guard[q]
      BY <1>0, <3>1 DEF RunnersTypeOK
    <3>4. guard'[r].at = "lock" /\ guard'[r] \in [at : GuardPlaces, status : Statuses \cup {None}]
      BY <3>2, <3>3 DEF GuardPlaces
    <3>5. guard' \in [Runs -> [at : GuardPlaces, status : Statuses \cup {None}]]
      <4>1. guard' = [q \in Runs |-> guard'[q]]
        BY <1>0, <3>1 DEF RunnersTypeOK
      <4>2. \A q \in Runs : guard'[q] \in [at : GuardPlaces, status : Statuses \cup {None}]
        BY <1>0, <3>3, <3>4 DEF RunnersTypeOK
      <4>3. QED
        BY <4>1, <4>2
    <3>6. QED
      BY <1>1, <2>1, <2>2, <3>1, <3>3, <3>4, <3>5
  <2>3. CASE ~(Kind(r) = "system" /\ ~Cancelled(r))
    <3>1. UNCHANGED <<child, guard>>
      BY <1>1, <2>3 DEF BeginTask
    <3>2. CASE Kind(r) = "system"
      <4>1. Ends(r, "cancelled", "publish")
        BY <1>1, <2>3, <3>2 DEF BeginTask
      <4>2. task'[r].at = "publish"
        BY <1>0, <4>1, Lands
      <4>3. QED
        BY <1>0, <2>1, <3>1, <4>2 DEF RunnersTypeOK
    <3>3. CASE Kind(r) # "system"
      BY <1>0, <2>1, <3>1, <3>3 DEF RunnersTypeOK
    <3>4. QED
      BY <3>2, <3>3
  <2>4. QED
    BY <2>2, <2>3
<1>2. CASE Launch(r)
  <2>1. child' = child \cup {r} /\ UNCHANGED <<guard, quarantined>>
    BY <1>2 DEF Launch
  <2>2. ~BeginTask(r)
    BY <1>2 DEF Launch, BeginTask, At
  <2>3. QED
    BY <1>0, <1>2, <2>1, <2>2 DEF RunnersTypeOK
<1>3. CASE ReadGuard(r)
  <2>1. child' = child /\ guard' = [guard EXCEPT ![r] = NoGuard] /\ quarantined \subseteq quarantined'
    BY <1>3 DEF ReadGuard
  <2>2. NoGuard \in [at : GuardPlaces, status : Statuses \cup {None}] /\ NoGuard.at = "none"
    BY DEF NoGuard, GuardPlaces
  <2>3. ~BeginTask(r)
    BY <1>3 DEF ReadGuard, BeginTask, At
  <2>4. QED
    BY <1>0, <2>1, <2>2, <2>3 DEF RunnersTypeOK
<1>4. CASE ~(BeginTask(r) \/ Launch(r) \/ ReadGuard(r))
  <2>1. child' \subseteq child /\ UNCHANGED guard /\ quarantined \subseteq quarantined'
    BY <1>4 DEF Progress, BeginBlind, BeginFails, LaunchCancelled, WorkEnds,
       WorkStops, Confirm, ConfirmFails, SealStops, Seal, SealUnrecorded, SessionEnds,
       SessionBreaks, Unwind, ThreadFails, GiveGuardUp, PublishTask, Unharmed
  <2>2. QED
    BY <1>0, <1>4, <2>1 DEF RunnersTypeOK
<1>5. QED
  BY <1>1, <1>2, <1>3, <1>4

\* An L9 process that its thread gives up puts L9 under quarantine.
LEMMA LeavesProcess ==
  ASSUME RunnersInv, NEW r \in Runs, Progress(r), Kind(r) = "distributed", r \in child'
  PROVE  /\ task'[r].at # "launch"
         /\ task'[r].at \in {"publish", "finally"} => "distributed" \in quarantined'
<1>0. RunnersTypeOK /\ r \in Tasks
  BY ProgressMoves DEF RunnersInv
<1>1. CASE r \notin child
  <2>1. Launch(r)
    BY <1>1, ProgressProcesses
  <2>2. task'[r].at = "working"
    BY <1>0, <2>1, Lands DEF Launch
  <2>3. QED
    BY <2>2
<1>2. CASE r \in child
  <2>1. /\ task[r].at \in {"working", "confirm", "publish", "finally"}
        /\ task[r].at \in {"publish", "finally"} => "distributed" \in quarantined
    BY <1>0, <1>2 DEF RunnersInv, DeviceOK, Tasks, At
  <2>2. CASE At(r, "working")
    <3>1. WorkStops(r) \/ WorkEnds(r)
      BY <2>2 DEF Progress, BeginTask, BeginBlind, BeginFails, LaunchCancelled, Launch,
         Confirm, ConfirmFails, SealStops, Seal, SealUnrecorded, SessionEnds,
         SessionBreaks, Unwind, ThreadFails, ReadGuard, GiveGuardUp, PublishTask, At
    <3>2. PICK final, p : Ends(r, final, AfterWork(Kind(r), p))
      BY <3>1 DEF WorkEnds, WorkStops
    <3>3. AfterWork(Kind(r), p) = "confirm"
      BY DEF AfterWork
    <3>4. QED
      BY <1>0, <3>2, <3>3, Lands
  <2>3. CASE At(r, "confirm")
    <3>1. Confirm(r) \/ ConfirmFails(r)
      BY <2>3 DEF Progress, BeginTask, BeginBlind, BeginFails, LaunchCancelled, Launch, WorkEnds,
         WorkStops, SealStops, Seal, SealUnrecorded, SessionEnds,
         SessionBreaks, Unwind, ThreadFails, ReadGuard, GiveGuardUp, PublishTask, At
    <3>2. ConfirmFails(r)
      BY <3>1 DEF Confirm
    <3>3. Ends(r, "unconfirmed", "publish") /\ "distributed" \in quarantined'
      BY <3>2 DEF ConfirmFails, AfterConfirm
    <3>4. QED
      BY <1>0, <3>3, Lands
  <2>4. CASE task[r].at \in {"publish", "finally"}
    <3>1. PublishTask(r)
      BY <2>4 DEF Progress, BeginTask, BeginBlind, BeginFails, LaunchCancelled, Launch, WorkEnds,
         WorkStops, Confirm, ConfirmFails, SealStops, Seal, SealUnrecorded, SessionEnds,
         SessionBreaks, Unwind, ThreadFails, ReadGuard, GiveGuardUp, At
    <3>2. Goto(r, "finally") /\ quarantined' = quarantined
      BY <3>1 DEF PublishTask
    <3>3. QED
      BY <1>0, <2>1, <2>4, <3>2, Lands
  <2>5. QED
    BY <2>1, <2>2, <2>3, <2>4 DEF At
<1>3. QED
  BY <1>1, <1>2

\* Whoever finds the device lock free of the runners is the only user.
LEMMA LockExcludes ==
  ASSUME RunnersInv, NEW r, ~HeldByRunner(r), NEW q \in Runs, q # r
  PROVE  ~User(q)
<1>1. ~Guarding(q) /\ ~(q \in child /\ Kind(q) = "diagnostic")
      /\ ~(Kind(q) = "distributed" /\ task[q].at \in {"working", "confirm", "publish", "finally"})
  BY DEF HeldByRunner
<1>2. q \in child /\ Kind(q) = "distributed"
         => task[q].at \in {"none", "working", "confirm", "publish", "finally"}
  BY DEF RunnersInv, DeviceOK
<1>3. QED
  BY <1>1, <1>2 DEF User, At

\* The parts of the invariant about the service and the task.
LEMMA ProgressService ==
  ASSUME RunnersInv, NEW r \in Runs, Progress(r)
  PROVE  /\ ServiceOK' /\ TaskExclusive' /\ BelongOK' /\ PlaceOK' /\ RecordOK'
         /\ Tasks' = {r} /\ Outstanding' = {} /\ \A q \in Runs : Kind(q)' = Kind(q)
<1>1. r \in Tasks /\ Moved(r) /\ Wrote(r) /\ TypeOK
  BY ProgressMoves, ProgressWrites DEF RunnersInv, ServiceOK
<1>2. /\ Tasks = {r} /\ Outstanding = {} /\ owner = r /\ pending = 1
      /\ phase # "recovering" /\ Kind(r) \in AllRunners
  BY <1>1, OneTask
<1>3. /\ UNCHANGED <<phase, configs, queue, pc, job, result, pending, owner, canceller>>
      /\ dstate' \in [Deployments -> DeploymentStates]
      /\ depoch' \in [Deployments -> Runs \cup {None}]
      /\ worker' \in [Deployments -> Runs \cup {None}]
  BY ProgressKeeps
<1>4. task'[r].at # "none"
  BY <1>1, <1>2 DEF Moved, PlacesOf, AllRunners
<1>5. Tasks' = {r} /\ Outstanding' = {}
  <2>1. Outstanding' = {}
    BY <1>2, <1>3 DEF Outstanding
  <2>2. \A q \in Runs \ {r} : task[q].at = "none"
    BY <1>2 DEF Tasks, At
  <2>3. QED
    BY <1>1, <1>4, <2>1, <2>2 DEF Tasks, At, Moved
<1>6. \A q \in Runs : Kind(q)' = Kind(q)
  BY <1>1 DEF Moved, Kind
<1>7. TypeOK'
  <2>1. state' \in [Runs -> RunStates]
    BY <1>1 DEF Wrote
  <2>2. QED
    BY <1>1, <1>3, <2>1 DEF TypeOK
<1>8. StoreAgrees' /\ BenchmarkExclusive'
  <2>1. \A q \in Runs : state[q] # "absent" => state'[q] # "absent"
    BY <1>1 DEF Wrote
  <2>2. canceller # None => canceller \in Runs /\ state[canceller] # "absent"
    BY <1>1 DEF RunnersInv, ServiceOK, StoreAgrees, TypeOK
  <2>3. QED
    BY <1>2, <1>3, <1>5, <2>1, <2>2 DEF StoreAgrees, BenchmarkExclusive
<1>9. ServiceOK'
  BY <1>3, <1>7, <1>8 DEF RunnersInv, ServiceOK
<1>10. TaskExclusive'
  <2>1. task' \in [Runs -> [kind : Runners \cup {None}, dep : Deployments \cup {None},
                          at : Places, final : TERMINAL \cup {None, "unconfirmed"}]]
    BY <1>1 DEF Moved, TaskRecords
  <2>2. pending' = Cardinality(Outstanding') + Cardinality(Tasks')
    BY <1>2, <1>3, <1>5 DEF RunnersInv, TaskExclusive
  <2>3. QED
    BY <1>2, <1>3, <1>5, <2>1, <2>2 DEF TaskExclusive
<1>11. BelongOK'
  <2>1. \A q \in Runs : Kind(q)' # None => state'[q] # "absent" /\ q \notin Outstanding'
    BY <1>1, <1>5, <1>6 DEF Wrote, RunnersInv, BelongOK
  <2>2. Kind(r)' # None /\ task'[r].dep \in Deployments
    BY <1>1, <1>6 DEF RunnersInv, BelongOK, Moved
  <2>3. \A q \in child' : q \in Runs /\ Kind(q)' # None
    BY <1>6, <2>2, ProgressProcesses DEF RunnersInv, BelongOK, RunnersTypeOK
  <2>4. QED
    BY <1>2, <1>3, <1>5, <2>1, <2>2, <2>3 DEF BelongOK
<1>12. PlaceOK'
  BY <1>1, <1>5, <1>6 DEF PlaceOK, Moved, Kind
<1>13. RecordOK'
  <2>1. Unrecorded(r)' => state'[r] \notin TERMINAL
    BY <1>1 DEF Wrote
  <2>2. ~At(r, "queued")' /\ (EndKnown(r)' => task'[r].final \in TERMINAL \cup {"unconfirmed"})
    BY <1>1 DEF Moved, At
  <2>3. QED
    BY <1>5, <2>1, <2>2 DEF RecordOK
<1>14. QED
  BY <1>5, <1>6, <1>9, <1>10, <1>11, <1>12, <1>13

\* The parts about the processes and the device.
LEMMA ProgressDevice ==
  ASSUME RunnersInv, NEW r \in Runs, Progress(r)
  PROVE  RunnersTypeOK' /\ GuardOK' /\ PowerJournaled' /\ DeviceOK'
<1>1. r \in Tasks /\ Moved(r) /\ RunnersTypeOK
  BY ProgressMoves DEF RunnersInv
<1>2. /\ Tasks' = {r} /\ \A q \in Runs : Kind(q)' = Kind(q)
  BY ProgressService
<1>3. /\ child' \subseteq child \cup {r}
      /\ quarantined \subseteq quarantined'
      /\ guard' \in [Runs -> [at : GuardPlaces, status : Statuses \cup {None}]]
      /\ \A q \in Runs : guard'[q] = guard[q] \/ (q = r /\ guard'[r].at \in {"none", "lock"})
  BY ProgressProcesses
<1>4. UNCHANGED <<journal, power>> /\ \A d \in Deployments : worker'[d] \in {worker[d], None}
  BY ProgressKeeps
<1>5. Tasks = {r} /\ ~At(r, "none") /\ Kind(r) \in AllRunners
  BY <1>1, OneTask DEF Tasks
<1>6. RunnersTypeOK'
  BY <1>1, <1>3, <1>4 DEF RunnersTypeOK, Moved
<1>7. PowerJournaled'
  BY <1>4 DEF RunnersInv, PowerJournaled
<1>8. \A q \in Runs : Guarding(q)' => Guarding(q)
  BY <1>3 DEF Guarding
<1>9. GuardOK'
  <2>1. \A q, s \in Runs : Guarding(q)' /\ Guarding(s)' => q = s
    BY <1>8 DEF RunnersInv, GuardOK
  <2>2. \A q \in Runs : /\ guard'[q].at \in {"mutate", "trial", "restore"} => journal'
                        /\ guard'[q].at = "unlink" => power' = "original"
                        /\ guard'[q].at \in {"restore", "unlink", "exit"} => guard'[q].status \in Statuses
    BY <1>3, <1>4 DEF RunnersInv, GuardOK
  <2>3. task'[r].at = "working" /\ Kind(r) = "system" => r \in child'
    <3>1. SUFFICES ASSUME task'[r].at = "working", Kind(r) = "system"
                   PROVE  r \in child'
      OBVIOUS
    <3>2. BeginTask(r) \/ BeginBlind(r) \/ Launch(r) \/ ThreadFails(r)
      BY <3>1, ComesToWork
    <3>3. task[r].at \in PlacesOf("system")
      BY <1>1, <3>1 DEF RunnersInv, PlaceOK
    <3>4. BeginTask(r) \/ ThreadFails(r)
      BY <3>1, <3>2, <3>3 DEF BeginBlind, Launch, At, PlacesOf
    <3>5. ThreadFails(r) => r \in child'
      BY DEF ThreadFails
    <3>6. QED
      BY <3>1, <3>4, <3>5, ProgressProcesses
  <2>4. QED
    BY <1>2, <2>1, <2>2, <2>3 DEF GuardOK, At, Kind
<1>10. ASSUME NEW q \in Runs, q # r
       PROVE  /\ User(q)' => User(q)
              /\ q \in child' <=> q \in child' \cap child
              /\ task'[q] = task[q]
  BY <1>1, <1>2, <1>3, <1>8, <1>10 DEF User, Moved, At
<1>11. User(r)' => User(r) \/ (Launch(r) /\ Kind(r) # "compress")
  <2>1. SUFFICES ASSUME User(r)', ~User(r)
                 PROVE  Launch(r) /\ Kind(r) # "compress"
    OBVIOUS
  <2>2. r \in child' /\ Kind(r) \in {"diagnostic", "distributed"} /\ r \notin child
    BY <1>2, <1>5, <1>8, <2>1 DEF User
  <2>3. QED
    BY <2>2, ProgressProcesses
<1>12. CASE Launch(r) /\ Kind(r) # "compress"
  <2>1. ~HeldByRunner(r) /\ \A d \in Gpu : worker[d] = None
    BY <1>12 DEF Launch, DeviceHeld
  <2>2. \A q \in Runs \ {r} : ~User(q)'
    BY <1>10, <2>1, LockExcludes
  <2>3. \A d \in Gpu : worker'[d] = None
    BY <1>4, <2>1, ConfigAssumption
  <2>4. QED
    <3>1. /\ \A q, s \in Runs : User(q)' /\ User(s)' => q = s
          /\ \A q \in Runs : User(q)' => \A d \in Gpu : worker'[d] = None
          /\ OneGpuModel'
      BY <2>2, <2>3 DEF OneGpuModel
    <3>2. ASSUME NEW q \in child', Kind(q)' = "distributed"
          PROVE  /\ task'[q].at \in {"none", "working", "confirm", "publish", "finally"}
                 /\ task'[q].at \in {"none", "publish", "finally"} => "distributed" \in quarantined'
      <4>1. CASE q = r
        <5>1. task'[r].at = "working"
          BY <1>1, <1>12, Lands DEF Launch
        <5>2. QED
          BY <4>1, <5>1
      <4>2. CASE q # r
        BY <1>2, <1>3, <1>10, <3>2, <4>2, <1>1 DEF RunnersInv, DeviceOK, RunnersTypeOK
      <4>3. QED
        BY <4>1, <4>2
    <3>3. Leftover' \subseteq Leftover
      <4>1. task'[r].at = "working"
        BY <1>1, <1>12, Lands DEF Launch
      <4>2. QED
        BY <1>1, <1>2, <1>3, <1>10, <4>1 DEF Leftover, At, RunnersTypeOK
    <3>4. QED
      BY <1>2, <1>5, <1>6, <1>7, <1>9, <3>1, <3>2, <3>3 DEF RunnersInv, DeviceOK
<1>13. CASE ~(Launch(r) /\ Kind(r) # "compress")
  <2>1. \A q \in Runs : User(q)' => User(q)
    BY <1>10, <1>11, <1>13
  <2>2. /\ \A q, s \in Runs : User(q)' /\ User(s)' => q = s
        /\ \A q \in Runs : User(q)' => \A d \in Gpu : worker'[d] = None
        /\ OneGpuModel'
    BY <1>4, <2>1, ConfigAssumption DEF RunnersInv, DeviceOK, OneGpuModel
  <2>3. task'[r].at # "none"
    BY <1>1, <1>5 DEF Moved, PlacesOf, AllRunners
  <2>4. ASSUME NEW q \in child', Kind(q)' = "distributed"
        PROVE  /\ task'[q].at \in {"none", "working", "confirm", "publish", "finally"}
               /\ task'[q].at \in {"none", "publish", "finally"} => "distributed" \in quarantined'
    <3>1. CASE q = r
      <4>1. Kind(r) = "distributed"
        BY <1>2, <2>4, <3>1
      <4>2. task'[r].at \in {"launch", "working", "confirm", "publish", "finally"}
        BY <1>1, <4>1 DEF Moved, PlacesOf
      <4>3. QED
        BY <2>4, <3>1, <4>1, <4>2, LeavesProcess
    <3>2. CASE q # r
      BY <1>2, <1>3, <1>10, <2>4, <3>2, <1>1 DEF RunnersInv, DeviceOK, RunnersTypeOK
    <3>3. QED
      BY <3>1, <3>2
  <2>5. Leftover' \subseteq Leftover
    BY <1>1, <1>2, <1>3, <1>10, <2>3 DEF Leftover, At, RunnersTypeOK
  <2>6. QED
    BY <1>2, <1>5, <1>6, <1>7, <1>9, <2>2, <2>4, <2>5 DEF RunnersInv, DeviceOK
<1>14. QED
  BY <1>12, <1>13

\* The part about what is recorded as completed, and the whole.
LEMMA ProgressStep ==
  ASSUME RunnersInv, NEW r \in Runs, Progress(r)
  PROVE  RunnersInv'
<1>1. r \in Tasks /\ Moved(r) /\ Wrote(r) /\ published \subseteq published'
  BY ProgressMoves, ProgressWrites
<1>2. \A q \in Runs : Kind(q)' = Kind(q)
  BY ProgressService
<1>3. UNCHANGED <<canceller, ingress>> /\ canceller \in Runs \cup {None}
  BY ProgressKeeps DEF RunnersInv, ServiceOK, TypeOK
<1>4. ASSUME NEW q \in Runs
      PROVE  (/\ Kind(q) = "compress" /\ state[q] = "completed"
                   => q \in published /\ canceller # q /\ task[q].at \in {"none", "confirm", "finally"}
              /\ Kind(q) = "compress" /\ At(q, "publish") => task[q].final # "completed"
              /\ Kind(q) = "scheduling" /\ state[q] = "completed" => q \notin ingress)'
  <2>1. /\ Kind(q) = "compress" /\ state[q] = "completed"
              => q \in published /\ canceller # q /\ task[q].at \in {"none", "confirm", "finally"}
        /\ Kind(q) = "compress" /\ At(q, "publish") => task[q].final # "completed"
        /\ Kind(q) = "scheduling" /\ state[q] = "completed" => q \notin ingress
    BY DEF RunnersInv, ResultOK
  <2>2. CASE q # r
    <3>1. task'[q] = task[q] /\ state'[q] = state[q]
      BY <1>1, <2>2 DEF Moved, Wrote
    <3>2. QED
      BY <1>1, <1>2, <1>3, <2>1, <3>1 DEF At
  <2>3. CASE q = r
    <3>1. Kind(r) = "compress" /\ state[r] = "completed" /\ state'[r] = "completed"
             => task'[r].at \in {"none", "confirm", "finally"}
      <4>1. Kind(r) = "compress" /\ state'[r] = "completed" => ~Unrecorded(r)'
        BY <1>1 DEF Wrote, TERMINAL
      <4>2. Kind(r) = "compress" => task'[r].at \in PlacesOf("compress") \ {"queued", "orphan"}
        BY <1>1 DEF Moved
      <4>3. QED
        BY <4>1, <4>2 DEF Unrecorded, PlacesOf
    <3>2. Kind(r) = "compress" /\ state'[r] = "completed" /\ state[r] # "completed"
             => r \in published' /\ canceller = None /\ task'[r].at = "confirm"
      BY <1>1 DEF Wrote
    <3>3. Kind(r) = "scheduling" /\ state'[r] = "completed" /\ state[r] # "completed" => r \notin ingress
      BY <1>1 DEF Wrote
    <3>4. Kind(r) = "compress" /\ task'[r].at = "publish" => task'[r].final # "completed"
      BY <1>1 DEF Moved
    <3>5. r # None
      BY ConfigAssumption
    <3>6. QED
      BY <1>1, <1>2, <1>3, <2>1, <2>3, <3>1, <3>2, <3>3, <3>4, <3>5 DEF At
  <2>4. QED
    BY <2>2, <2>3
<1>5. ResultOK'
  BY <1>4 DEF ResultOK
<1>6. QED
  BY <1>5, ProgressService, ProgressDevice DEF RunnersInv

-----------------------------------------------------------------------------
(***************************************************************************)
(* Processes and guardians.                                                *)
(***************************************************************************)

\* Steps that only end a process, accept or observe a request, or set a flag.
LEMMA QuietStep ==
  ASSUME RunnersInv,
         UNCHANGED <<vars, task, guard, journal, power, quarantined, published>>,
         child' \subseteq child, \A q \in child \ child' : Kind(q) # "system",
         \A q \in ingress' \ ingress : state[q] # "completed"
  PROVE  RunnersInv'
<1>1. UNCHANGED <<phase, configs, dstate, depoch, worker, queue, pc, job, result, pending, owner,
                  canceller, state>>
  BY DEF vars, volatile
<1>2. Outstanding' = Outstanding /\ Tasks' = Tasks
  BY <1>1 DEF Outstanding, Tasks, At
<1>3. ServiceOK'
  BY <1>1, <1>2 DEF RunnersInv, ServiceOK, TypeOK, BenchmarkExclusive, StoreAgrees
<1>4. RunnersTypeOK' /\ TaskExclusive' /\ PlaceOK' /\ PowerJournaled'
  BY <1>1, <1>2 DEF RunnersInv, RunnersTypeOK, TaskExclusive, PlaceOK, PowerJournaled, Kind
<1>5. BelongOK' /\ RecordOK'
  BY <1>1, <1>2 DEF RunnersInv, BelongOK, RecordOK, Kind, Unrecorded, EndKnown, At
<1>6. GuardOK'
  BY <1>1, <1>2 DEF RunnersInv, GuardOK, Guarding, At, Kind, Tasks
<1>7. DeviceOK'
  <2>1. \A q \in Runs : User(q)' => User(q)
    BY DEF User, Guarding, Kind, At
  <2>2. Leftover' \subseteq Leftover
    BY DEF Leftover, Kind, At
  <2>3. QED
    BY <1>1, <1>2, <2>1, <2>2 DEF RunnersInv, DeviceOK, OneGpuModel, Kind
<1>8. ResultOK'
  BY <1>1 DEF RunnersInv, ResultOK, Kind, At
<1>9. QED
  BY <1>3, <1>4, <1>5, <1>6, <1>7, <1>8 DEF RunnersInv

\* A step of a guardian or its end leaves the rest of the console alone: the
\* invariant is about the guardians, the journal and the limit.
LEMMA GuardKeeps ==
  ASSUME RunnersInv, NEW r \in Runs, ServiceAsIs,
         child' \subseteq child,
         guard' \in [Runs -> [at : GuardPlaces, status : Statuses \cup {None}]],
         journal' \in BOOLEAN, power' \in {"original", "changed"},
         GuardOK', PowerJournaled',
         \A q \in Runs : Guarding(q)' =>
            Guarding(q) \/ (q = r /\ ~HeldByRunner(r) /\ \A d \in Gpu : worker[d] = None)
  PROVE  RunnersInv'
<1>1. UNCHANGED <<phase, configs, dstate, depoch, worker, queue, pc, job, result, pending, owner,
                  canceller, state, task, quarantined, ingress, published>>
  BY DEF vars, volatile, ServiceAsIs
<1>2. Outstanding' = Outstanding /\ Tasks' = Tasks
  BY <1>1 DEF Outstanding, Tasks, At
<1>3. ServiceOK'
  BY <1>1, <1>2 DEF RunnersInv, ServiceOK, TypeOK, BenchmarkExclusive, StoreAgrees
<1>4. RunnersTypeOK' /\ TaskExclusive' /\ PlaceOK'
  BY <1>1, <1>2 DEF RunnersInv, RunnersTypeOK, TaskExclusive, PlaceOK, Kind
<1>5. BelongOK' /\ RecordOK'
  BY <1>1, <1>2 DEF RunnersInv, BelongOK, RecordOK, Kind, Unrecorded, EndKnown, At
<1>6. DeviceOK'
  <2>1. \A q \in Runs : User(q)' => User(q) \/ (q = r /\ ~HeldByRunner(r) /\ \A d \in Gpu : worker[d] = None)
    BY <1>1 DEF User, Kind, At
  <2>2. Leftover' \subseteq Leftover
    BY <1>1 DEF Leftover, Kind, At
  <2>3. /\ \A q, s \in Runs : User(q)' /\ User(s)' => q = s
        /\ \A q \in Runs : User(q)' => \A d \in Gpu : worker'[d] = None
    <3>1. CASE ~HeldByRunner(r) /\ \A d \in Gpu : worker[d] = None
      <4>1. \A q \in Runs \ {r} : ~User(q)
        BY <3>1, LockExcludes
      <4>2. QED
        BY <1>1, <2>1, <3>1, <4>1
    <3>2. CASE ~(~HeldByRunner(r) /\ \A d \in Gpu : worker[d] = None)
      BY <1>1, <2>1, <3>2 DEF RunnersInv, DeviceOK
    <3>3. QED
      BY <3>1, <3>2
  <2>4. QED
    BY <1>1, <1>2, <2>2, <2>3 DEF RunnersInv, DeviceOK, OneGpuModel, Kind
<1>7. ResultOK'
  BY <1>1 DEF RunnersInv, ResultOK, Kind, At
<1>8. QED
  BY <1>3, <1>4, <1>5, <1>6, <1>7 DEF RunnersInv

\* Where GuardGoes takes a guardian.
LEMMA GuardFacts ==
  ASSUME RunnersTypeOK, NEW r \in Runs, NEW place \in GuardPlaces, NEW status \in Statuses \cup {None},
         GuardGoes(r, place, status)
  PROVE  /\ guard' \in [Runs -> [at : GuardPlaces, status : Statuses \cup {None}]]
         /\ guard'[r].at = place /\ guard'[r].status = status
         /\ \A q \in Runs \ {r} : guard'[q] = guard[q]
BY DEF GuardGoes, RunnersTypeOK

\* A guardian that goes from place to place, with the lock it has.
LEMMA GuardGoesOn ==
  ASSUME RunnersInv, NEW r \in Runs, NEW place \in GuardPlaces \ {"none", "lock"},
         NEW status \in Statuses \cup {None},
         GuardGoes(r, place, status), r \in child, ServiceAsIs, UNCHANGED child,
         Guarding(r) \/ ~DeviceHeld(r),
         journal' \in BOOLEAN, power' \in {"original", "changed"},
         place \in {"mutate", "trial", "restore"} => journal',
         place = "unlink" => power' = "original",
         place \in {"restore", "unlink", "exit"} => status \in Statuses,
         PowerJournaled'
  PROVE  RunnersInv'
<1>1. /\ guard' \in [Runs -> [at : GuardPlaces, status : Statuses \cup {None}]]
      /\ guard'[r].at = place /\ guard'[r].status = status
      /\ \A q \in Runs \ {r} : guard'[q] = guard[q]
  BY GuardFacts DEF RunnersInv
<1>2. \A q \in Runs \ {r} : ~Guarding(q)
  BY LockExcludes DEF RunnersInv, GuardOK, DeviceHeld, User
<1>3. \A q \in Runs \ {r} : guard'[q].at \in {"none", "lock"}
  BY <1>1, <1>2 DEF Guarding
<1>4. GuardOK'
  <2>1. \A q, s \in Runs : Guarding(q)' /\ Guarding(s)' => q = s
    BY <1>3 DEF Guarding
  <2>2. \A q \in Runs : /\ guard'[q].at \in {"mutate", "trial", "restore"} => journal'
                        /\ guard'[q].at = "unlink" => power' = "original"
                        /\ guard'[q].at \in {"restore", "unlink", "exit"} => guard'[q].status \in Statuses
    BY <1>1, <1>3
  <2>3. ASSUME NEW q \in Tasks, At(q, "working"), Kind(q) = "system"
        PROVE  q \in child' \/ guard'[q].status \in Statuses
    <3>1. CASE q = r
      BY <3>1
    <3>2. CASE q # r
      BY <1>1, <2>3, <3>2 DEF RunnersInv, GuardOK, Tasks
    <3>3. QED
      BY <3>1, <3>2
  <2>4. Tasks' = Tasks /\ task' = task
    BY DEF ServiceAsIs, Tasks, At
  <2>5. QED
    BY <2>1, <2>2, <2>3, <2>4 DEF GuardOK, At, Kind
<1>5. \A q \in Runs : Guarding(q)' =>
            Guarding(q) \/ (q = r /\ ~HeldByRunner(r) /\ \A d \in Gpu : worker[d] = None)
  BY <1>3 DEF Guarding, DeviceHeld
<1>6. QED
  BY <1>1, <1>4, <1>5, GuardKeeps

\* A guardian that is gone, and what its thread finds.
LEMMA GuardGone ==
  ASSUME RunnersInv, NEW r \in Runs, NEW status \in Statuses, GuardExits(r, status),
         ServiceAsIs, UNCHANGED device
  PROVE  RunnersInv'
<1>1. PICK s \in Statuses \cup {None} : GuardGoes(r, "none", s) /\ (At(r, "working") => s = status)
  BY DEF GuardExits
<1>2. "none" \in GuardPlaces
  BY DEF GuardPlaces
<1>3. /\ guard' \in [Runs -> [at : GuardPlaces, status : Statuses \cup {None}]]
      /\ guard'[r].at = "none" /\ guard'[r].status = s
      /\ \A q \in Runs \ {r} : guard'[q] = guard[q]
  BY <1>1, <1>2, GuardFacts DEF RunnersInv
<1>4. child' = child \ {r} /\ UNCHANGED <<journal, power>>
  BY DEF GuardExits, device
<1>5. \A q \in Runs : Guarding(q)' => Guarding(q)
  BY <1>3 DEF Guarding
<1>6. GuardOK'
  <2>1. \A q \in Runs : /\ guard'[q].at \in {"mutate", "trial", "restore"} => journal'
                        /\ guard'[q].at = "unlink" => power' = "original"
                        /\ guard'[q].at \in {"restore", "unlink", "exit"} => guard'[q].status \in Statuses
    BY <1>3, <1>4 DEF RunnersInv, GuardOK
  <2>2. ASSUME NEW q \in Tasks, At(q, "working"), Kind(q) = "system"
        PROVE  q \in child' \/ guard'[q].status \in Statuses
    <3>1. CASE q = r
      BY <1>1, <1>3, <2>2, <3>1
    <3>2. CASE q # r
      BY <1>3, <1>4, <2>2, <3>2 DEF RunnersInv, GuardOK, Tasks
    <3>3. QED
      BY <3>1, <3>2
  <2>3. Tasks' = Tasks /\ task' = task
    BY DEF ServiceAsIs, Tasks, At
  <2>4. QED
    BY <1>5, <2>1, <2>2, <2>3 DEF RunnersInv, GuardOK, At, Kind
<1>7. PowerJournaled' /\ journal' \in BOOLEAN /\ power' \in {"original", "changed"}
  BY <1>4 DEF RunnersInv, PowerJournaled, RunnersTypeOK
<1>8. QED
  BY <1>3, <1>4, <1>5, <1>6, <1>7, GuardKeeps

\* One step per action of the guardian.
LEMMA GuardianStep ==
  ASSUME RunnersInv, NEW r \in Runs, Guardian(r) \/ GuardKilled(r)
  PROVE  RunnersInv'
<1>0. RunnersTypeOK /\ GuardOK /\ PowerJournaled /\ journal \in BOOLEAN /\ power \in {"original", "changed"}
  BY DEF RunnersInv, RunnersTypeOK
<1>1. CASE GuardLocks(r)
  <2>1. CASE DeviceHeld(r) \/ journal
    <3>1. GuardExits(r, "failed") /\ ServiceAsIs /\ UNCHANGED device
      BY <1>1, <2>1 DEF GuardLocks
    <3>2. QED
      BY <3>1, GuardGone DEF Statuses
  <2>2. CASE ~(DeviceHeld(r) \/ journal)
    <3>1. PICK place \in {"ready", "plain"} : GuardGoes(r, place, None)
      BY <1>1, <2>2 DEF GuardLocks
    <3>2. ServiceAsIs /\ UNCHANGED <<child, journal, power>> /\ r \in child
      BY <1>1, <2>2 DEF GuardLocks, GuardAt, device
    <3>3. PowerJournaled'
      BY <1>0, <3>2 DEF PowerJournaled
    <3>4. QED
      BY <1>0, <2>2, <3>1, <3>2, <3>3, GuardGoesOn DEF GuardPlaces
  <2>3. QED
    BY <2>1, <2>2
<1>2. CASE GuardPlain(r)
  <2>1. PICK status \in Statuses : GuardExits(r, status)
    BY <1>2 DEF GuardPlain, Statuses
  <2>2. QED
    BY <1>2, <2>1, GuardGone DEF GuardPlain
<1>3. CASE GuardJournals(r)
  <2>1. ServiceAsIs /\ UNCHANGED <<child, power>> /\ r \in child /\ Guarding(r)
    BY <1>3 DEF GuardJournals, GuardAt, Guarding
  <2>2. CASE UNCHANGED journal /\ GuardGoes(r, IF journal THEN "restore" ELSE "exit",
                                            IF r \in told THEN "cancelled" ELSE "failed")
    <3>1. PowerJournaled'
      BY <1>0, <2>1, <2>2 DEF PowerJournaled
    <3>2. (IF r \in told THEN "cancelled" ELSE "failed") \in Statuses
      BY DEF Statuses
    <3>3. (IF journal THEN "restore" ELSE "exit") \in GuardPlaces \ {"none", "lock"}
      BY DEF GuardPlaces
    <3>4. (IF journal THEN "restore" ELSE "exit") \in {"mutate", "trial", "restore"} => journal'
      BY <2>2
    <3>5. (IF journal THEN "restore" ELSE "exit") # "unlink"
      OBVIOUS
    <3>6. QED
      BY <1>0, <2>1, <2>2, <3>1, <3>2, <3>3, <3>4, <3>5, GuardGoesOn
  <2>3. CASE journal' = TRUE /\ GuardGoes(r, "mutate", None)
    <3>1. PowerJournaled'
      BY <2>3 DEF PowerJournaled
    <3>2. QED
      BY <1>0, <2>1, <2>3, <3>1, GuardGoesOn DEF GuardPlaces
  <2>4. QED
    BY <1>3, <2>2, <2>3 DEF GuardJournals
<1>4. CASE GuardMutates(r)
  <2>1. ServiceAsIs /\ UNCHANGED <<child, journal>> /\ r \in child /\ Guarding(r)
    BY <1>4 DEF GuardMutates, GuardAt, Guarding
  <2>2. journal = TRUE /\ journal' = TRUE /\ power' \in {"original", "changed"}
    <3>1. guard[r].at = "mutate" /\ power' \in {"original", "changed"}
      BY <1>4 DEF GuardMutates, GuardAt
    <3>2. QED
      BY <1>0, <2>1, <3>1 DEF GuardOK
  <2>3. PowerJournaled'
    BY <2>2 DEF PowerJournaled
  <2>4. PICK place \in {"trial", "restore"}, status \in {None, "failed"} :
             GuardGoes(r, place, status) /\ (place = "restore" => status = "failed")
    BY <1>4 DEF GuardMutates
  <2>5. QED
    BY <2>1, <2>2, <2>3, <2>4, GuardGoesOn DEF GuardPlaces, Statuses
<1>5. CASE GuardTrial(r)
  <2>1. ServiceAsIs /\ UNCHANGED <<child, journal, power>> /\ r \in child /\ Guarding(r)
    BY <1>5 DEF GuardTrial, GuardAt, Guarding, device
  <2>2. journal = TRUE
    BY <1>0, <1>5 DEF GuardTrial, GuardAt, GuardOK
  <2>3. PowerJournaled'
    BY <2>1, <2>2 DEF PowerJournaled
  <2>4. PICK place \in {"restore", "ready"}, status \in Statuses \cup {None} :
             GuardGoes(r, place, status) /\ (place = "restore" => status \in Statuses)
    BY <1>5 DEF GuardTrial, Statuses
  <2>5. QED
    BY <1>0, <2>1, <2>2, <2>3, <2>4, GuardGoesOn DEF GuardPlaces
<1>6. CASE GuardRestores(r)
  <2>1. ServiceAsIs /\ UNCHANGED <<child, journal>> /\ r \in child /\ Guarding(r)
    BY <1>6 DEF GuardRestores, GuardAt, Guarding
  <2>2. journal = TRUE /\ guard[r].status \in Statuses
    BY <1>0, <1>6 DEF GuardRestores, GuardAt, GuardOK
  <2>3. PowerJournaled' /\ power' \in {"original", "changed"}
    BY <1>0, <1>6, <2>1, <2>2 DEF PowerJournaled, GuardRestores
  <2>4. CASE GuardGoes(r, "unlink", guard[r].status) /\ power' = "original"
    BY <1>0, <2>1, <2>2, <2>3, <2>4, GuardGoesOn DEF GuardPlaces
  <2>5. CASE GuardGoes(r, "exit", "dirty")
    BY <1>0, <2>1, <2>2, <2>3, <2>5, GuardGoesOn DEF GuardPlaces, Statuses
  <2>6. QED
    BY <1>6, <2>4, <2>5 DEF GuardRestores
<1>7. CASE GuardUnlinks(r)
  <2>1. ServiceAsIs /\ UNCHANGED <<child, power>> /\ r \in child /\ Guarding(r)
    BY <1>7 DEF GuardUnlinks, GuardAt, Guarding
  <2>2. power = "original" /\ guard[r].status \in Statuses
    BY <1>0, <1>7 DEF GuardUnlinks, GuardAt, GuardOK
  <2>3. PowerJournaled'
    BY <2>1, <2>2 DEF PowerJournaled
  <2>4. CASE journal' = FALSE /\ GuardGoes(r, "exit", guard[r].status)
    BY <1>0, <2>1, <2>2, <2>3, <2>4, GuardGoesOn DEF GuardPlaces
  <2>5. CASE UNCHANGED journal /\ GuardGoes(r, "exit", "dirty")
    BY <1>0, <2>1, <2>2, <2>3, <2>5, GuardGoesOn DEF GuardPlaces, Statuses, RunnersTypeOK
  <2>6. QED
    BY <1>7, <2>4, <2>5 DEF GuardUnlinks
<1>8. CASE GuardEnds(r)
  <2>1. GuardExits(r, guard[r].status) /\ ServiceAsIs /\ UNCHANGED device
    BY <1>8 DEF GuardEnds
  <2>2. guard[r].status \in Statuses
    BY <1>0, <1>8 DEF GuardEnds, GuardAt, GuardOK
  <2>3. QED
    BY <2>1, <2>2, GuardGone
<1>9. CASE GuardKilled(r)
  BY <1>9, GuardGone DEF GuardKilled, Statuses
<1>10. QED
  BY <1>1, <1>2, <1>3, <1>4, <1>5, <1>6, <1>7, <1>8, <1>9 DEF Guardian

-----------------------------------------------------------------------------
(***************************************************************************)
(* A task is accepted, and is over.                                        *)
(***************************************************************************)

\* An idle service: no job, no task.
LEMMA IdleService ==
  ASSUME RunnersInv, pending = 0
  PROVE  Tasks = {} /\ Outstanding = {}
<1>1. Tasks = {}
  <2>1. SUFFICES ASSUME NEW r \in Tasks PROVE FALSE
    OBVIOUS
  <2>2. pending = 1
    BY OneTask
  <2>3. QED
    BY <2>2
<1>2. Inv
  BY <1>1, Between
<1>3. QED
  BY <1>1, <1>2, NobodyInFlight DEF Inv, PendingExact

\* A start, whether its runner is closed meanwhile or not.
Starts(k, r, d) ==
    /\ CanStart(k, r, d)
    /\ \E place \in {"queued", "orphan"} :
          Take(k, r, d, place) /\ (k = "scheduling" => place = "queued")

\* A start finds the service idle and takes slot and claim.
LEMMA StartStep ==
  ASSUME RunnersInv, NEW r \in Runs, NEW d \in Deployments, NEW k \in Runners, Starts(k, r, d)
  PROVE  RunnersInv'
<1>0. TypeOK /\ RunnersTypeOK /\ k \in AllRunners /\ k # None
  BY RunnersAssumption DEF RunnersInv, ServiceOK
<1>a. PICK place \in {"queued", "orphan"} :
         Take(k, r, d, place) /\ (k = "scheduling" => place = "queued")
  BY DEF Starts
<1>1. /\ pending = 0 /\ state[r] = "absent" /\ pending < MaxPending /\ phase = "serving" /\ canceller = None
      /\ k \notin quarantined
      /\ state' = [state EXCEPT ![r] = "queued"] /\ pending' = pending + 1 /\ owner' = r
      /\ task' = [task EXCEPT ![r] = [kind |-> k, dep |-> d, at |-> place, final |-> None]]
      /\ UNCHANGED <<phase, configs, dstate, depoch, worker, queue, pc, job, result, canceller, child,
                     guard, quarantined, ingress, published, journal, power>>
  BY <1>a DEF Starts, CanStart, Take, LockFree, Reserve, device
<1>2. Tasks = {} /\ Outstanding = {} /\ Outstanding' = {}
  BY <1>1, IdleService DEF Outstanding
<1>3. /\ task'[r] = [kind |-> k, dep |-> d, at |-> place, final |-> None]
      /\ \A q \in Runs \ {r} : task'[q] = task[q]
      /\ task' \in [Runs -> TaskRecords]
  <2>1. [kind |-> k, dep |-> d, at |-> place, final |-> None] \in TaskRecords
    BY <1>a DEF TaskRecords, Places
  <2>2. QED
    BY <1>0, <1>1, <2>1 DEF RunnersTypeOK
<1>4. task'[r].kind = k /\ task'[r].dep = d /\ task'[r].at = place
  BY <1>3
<1>5. \A q \in Runs : task[q].at = "none"
  BY <1>2 DEF Tasks, At
<1>6. Tasks' = {r}
  BY <1>3, <1>4, <1>5 DEF Tasks, At
<1>7. state'[r] = "queued" /\ (\A q \in Runs \ {r} : state'[q] = state[q]) /\ state' \in [Runs -> RunStates]
  BY <1>0, <1>1 DEF TypeOK, RunStates
<1>8. r \notin child /\ Kind(r) = None
  BY <1>1 DEF RunnersInv, BelongOK
<1>9. ServiceOK'
  <2>1. pending' \in Nat /\ pending' <= MaxPending
    BY <1>1, ConfigAssumption
  <2>2. TypeOK'
    BY <1>0, <1>1, <1>7, <2>1 DEF TypeOK
  <2>3. BenchmarkExclusive' /\ StoreAgrees'
    BY <1>1, <1>2 DEF BenchmarkExclusive, StoreAgrees
  <2>4. QED
    BY <2>1, <2>2, <2>3 DEF ServiceOK
<1>10. TaskExclusive'
  <2>1. Cardinality({}) = 0 /\ Cardinality({r}) = 1
    BY FS_EmptySet, FS_Singleton
  <2>2. pending' = Cardinality(Outstanding') + Cardinality(Tasks')
    BY <1>1, <1>2, <1>6, <2>1
  <2>3. QED
    BY <1>1, <1>2, <1>3, <1>6, <2>2 DEF TaskExclusive, TaskRecords
<1>11. RunnersTypeOK' /\ PowerJournaled'
  BY <1>0, <1>1, <1>3 DEF RunnersTypeOK, RunnersInv, PowerJournaled
<1>12. BelongOK' /\ PlaceOK' /\ RecordOK'
  <2>1. \A q \in Runs : Kind(q)' # None => state'[q] # "absent" /\ q \notin Outstanding'
    BY <1>2, <1>3, <1>7 DEF RunnersInv, BelongOK, Kind
  <2>2. \A q \in child' : Kind(q)' # None
    BY <1>0, <1>1, <1>3, <1>8 DEF RunnersInv, BelongOK, Kind, RunnersTypeOK
  <2>3. BelongOK'
    BY <1>0, <1>1, <1>4, <1>6, <2>1, <2>2 DEF BelongOK, Kind
  <2>4. task'[r].at \in PlacesOf(k)
    BY <1>0, <1>4, <1>a DEF PlacesOf, AllRunners
  <2>5. PlaceOK'
    BY <1>4, <1>6, <2>4 DEF PlaceOK, Kind
  <2>6. RecordOK'
    BY <1>4, <1>6, <1>7 DEF RecordOK, Unrecorded, EndKnown, At, TERMINAL
  <2>7. QED
    BY <2>3, <2>5, <2>6
<1>13. GuardOK'
  BY <1>1, <1>4, <1>6 DEF RunnersInv, GuardOK, Guarding, At
<1>14. DeviceOK'
  <2>1. \A q \in Runs : User(q)' => User(q)
    BY <1>1, <1>3, <1>8 DEF User, Guarding, Kind, At
  <2>2. Leftover' \subseteq Leftover
    BY <1>0, <1>1, <1>3, <1>8 DEF Leftover, Kind, At, RunnersTypeOK
  <2>3. k = "distributed" => Leftover = {}
    BY <1>1 DEF RunnersInv, DeviceOK, Leftover, At
  <2>4. \A q \in child' : Kind(q)' = "distributed" =>
          /\ task'[q].at \in {"none", "working", "confirm", "publish", "finally"}
          /\ task'[q].at \in {"none", "publish", "finally"} => "distributed" \in quarantined'
    BY <1>0, <1>1, <1>3, <1>8 DEF RunnersInv, DeviceOK, Kind, RunnersTypeOK
  <2>5. Leftover' # {} => \A q \in Tasks' : Kind(q)' # "distributed"
    BY <1>4, <1>6, <2>2, <2>3 DEF Kind
  <2>6. QED
    BY <1>1, <2>1, <2>2, <2>4, <2>5 DEF RunnersInv, DeviceOK, OneGpuModel
<1>15. ResultOK'
  BY <1>1, <1>3, <1>4, <1>7 DEF RunnersInv, ResultOK, Kind, At
<1>16. QED
  BY <1>9, <1>10, <1>11, <1>12, <1>13, <1>14, <1>15 DEF RunnersInv

\* What is left of a task that is over.
LEMMA RememberedFacts ==
  ASSUME RunnersTypeOK, NEW r \in Runs
  PROVE  /\ Remembered(r) \in TaskRecords
         /\ Remembered(r).at = "none" /\ Remembered(r).dep = None /\ Remembered(r).final = None
         /\ Remembered(r).kind \in {Kind(r), None}
         /\ r \in child => Remembered(r).kind = Kind(r)
<1>1. NoTask = [kind |-> None, dep |-> None, at |-> "none", final |-> None]
  BY DEF NoTask
<1>2. Kind(r) \in Runners \cup {None}
  BY DEF RunnersTypeOK, TaskRecords, Kind
<1>3. Remembered(r) = [kind |-> IF Kind(r) = "compress" \/ r \in child THEN Kind(r) ELSE None,
                       dep |-> None, at |-> "none", final |-> None]
  BY <1>1 DEF Remembered
<1>4. QED
  BY <1>2, <1>3 DEF TaskRecords, Places

\* The finally block of a runner gives slot and claim back; a process that
\* could not be seen gone is remembered, and L9 is under quarantine then.
LEMMA FinallyTaskStep ==
  ASSUME RunnersInv, NEW r \in Runs, FinallyTask(r)
  PROVE  RunnersInv'
<1>0. TypeOK /\ RunnersTypeOK
  BY DEF RunnersInv, ServiceOK
<1>1. /\ At(r, "finally") /\ phase \in {"serving", "closing"}
      /\ pending' = pending - 1 /\ owner' \in {owner, None}
      /\ task' = [task EXCEPT ![r] = Remembered(r)] /\ ingress' = ingress \ {r}
      /\ UNCHANGED <<phase, configs, dstate, depoch, worker, queue, pc, job, result, canceller, state,
                     child, guard, quarantined, published, journal, power>>
  BY DEF FinallyTask, LockFree, device
<1>2. r \in Tasks
  BY <1>1 DEF Tasks, At
<1>3. Tasks = {r} /\ Outstanding = {} /\ pending = 1 /\ owner = r
  BY <1>2, OneTask
<1>4. /\ Remembered(r) \in TaskRecords
      /\ Remembered(r).at = "none"
      /\ Remembered(r).kind \in {Kind(r), None}
      /\ r \in child => Remembered(r).kind = Kind(r)
  BY <1>0, RememberedFacts
<1>5. task'[r] = Remembered(r) /\ (\A q \in Runs \ {r} : task'[q] = task[q]) /\ task' \in [Runs -> TaskRecords]
  BY <1>0, <1>1, <1>4 DEF RunnersTypeOK
<1>6. Tasks' = {} /\ Outstanding' = {}
  <2>1. \A q \in Runs \ {r} : task[q].at = "none"
    BY <1>3 DEF Tasks, At
  <2>2. QED
    BY <1>1, <1>3, <1>4, <1>5, <2>1 DEF Tasks, At, Outstanding
<1>7. \A q \in Runs : Kind(q)' \in {Kind(q), None} /\ (q \in child => Kind(q)' = Kind(q))
  BY <1>4, <1>5 DEF Kind
<1>8. ServiceOK'
  <2>1. pending' = 0
    BY <1>1, <1>3
  <2>2. TypeOK'
    BY <1>0, <1>1, <2>1 DEF TypeOK
  <2>3. BenchmarkExclusive' /\ StoreAgrees'
    BY <1>1, <1>6 DEF RunnersInv, ServiceOK, BenchmarkExclusive, StoreAgrees
  <2>4. QED
    BY <2>1, <2>2, <2>3, ConfigAssumption DEF ServiceOK
<1>9. TaskExclusive'
  <2>1. Cardinality({}) = 0
    BY FS_EmptySet
  <2>2. pending' = Cardinality(Outstanding') + Cardinality(Tasks')
    BY <1>1, <1>3, <1>6, <2>1
  <2>3. QED
    BY <1>5, <1>6, <2>2 DEF TaskExclusive, TaskRecords
<1>10. RunnersTypeOK' /\ PowerJournaled' /\ PlaceOK' /\ RecordOK'
  BY <1>0, <1>1, <1>5, <1>6 DEF RunnersTypeOK, RunnersInv, PowerJournaled, PlaceOK, RecordOK
<1>11. BelongOK'
  BY <1>0, <1>1, <1>3, <1>6, <1>7 DEF RunnersInv, BelongOK, RunnersTypeOK
<1>12. GuardOK'
  BY <1>1, <1>6 DEF RunnersInv, GuardOK, Guarding
<1>13. DeviceOK'
  <2>1. \A q \in Runs : User(q)' => User(q)
    <3>1. ASSUME NEW q \in Runs, q # r PROVE User(q)' => User(q)
      BY <1>1, <1>5, <3>1 DEF User, Guarding, Kind, At
    <3>2. User(r)' => User(r)
      BY <1>1, <1>4, <1>5, <1>7 DEF User, Guarding, At
    <3>3. QED
      BY <3>1, <3>2
  <2>2. Leftover' \subseteq Leftover \cup (IF Kind(r) = "distributed" /\ r \in child THEN {r} ELSE {})
    BY <1>0, <1>1, <1>5, <1>7 DEF Leftover, Kind, At, RunnersTypeOK
  <2>3. Kind(r) = "distributed" => Leftover = {}
    BY <1>2 DEF RunnersInv, DeviceOK
  <2>4. \A q, s \in Leftover' : q = s
    BY <2>2, <2>3 DEF RunnersInv, DeviceOK
  <2>5. \A q \in child' : Kind(q)' = "distributed" =>
          /\ task'[q].at \in {"none", "working", "confirm", "publish", "finally"}
          /\ task'[q].at \in {"none", "publish", "finally"} => "distributed" \in quarantined'
    <3>1. Kind(r) = "distributed" /\ r \in child => "distributed" \in quarantined
      BY <1>1 DEF RunnersInv, DeviceOK, At
    <3>2. QED
      BY <1>0, <1>1, <1>4, <1>5, <1>7, <3>1 DEF RunnersInv, DeviceOK, RunnersTypeOK
  <2>6. QED
    BY <1>1, <1>6, <2>1, <2>4, <2>5 DEF RunnersInv, DeviceOK, OneGpuModel
<1>14. ResultOK'
  BY <1>1, <1>4, <1>5, <1>7, RunnersAssumption DEF RunnersInv, ResultOK, At, AllRunners
<1>15. QED
  BY <1>8, <1>9, <1>10, <1>11, <1>12, <1>13, <1>14 DEF RunnersInv

-----------------------------------------------------------------------------
(***************************************************************************)
(* The steps of the task service beside the runners.                       *)
(***************************************************************************)

\* While a task is out its claim keeps every job away: what is left to the
\* service are the steps that touch no job.
LEMMA TaskedService ==
  ASSUME RunnersInv, ServiceStep, NEW r \in Tasks
  PROVE  Elsewhere
<1>1. /\ Outstanding = {} /\ owner = r /\ r \in Runs /\ phase # "recovering"
      /\ r \notin Campaigns /\ r # None
  BY OneTask, ConfigAssumption
<1>2. [Next]_vars /\ (phase' = "recovering" => phase = "recovering")
  BY DEF ServiceStep, BesideRunners
<1>3. ~Restart
  BY <1>1, <1>2 DEF Restart
<1>4. ASSUME NEW c \in Campaigns, ReleaseBenchmark(c) \/ \E d \in Deployments : ClaimBenchmark(c, d)
      PROVE  FALSE
  BY <1>1, <1>4 DEF ReleaseBenchmark, ClaimBenchmark
<1>5. ASSUME NEW q \in Runs, NEW d \in Deployments, NEW kind \in Kinds \ {"token_budget"},
             NEW by \in Campaigns \cup {None}, Submit(q, kind, d, by)
      PROVE  FALSE
  BY <1>1, <1>5 DEF Submit
<1>6. ASSUME NEW q \in Runs, NEW d \in Deployments, TokenBudget(q, d) \/ Moves(d, q) \/ Finally(d, q)
      PROVE  FALSE
  <2>1. CASE TokenBudget(q, d)
    BY <1>1, <2>1 DEF TokenBudget
  <2>2. CASE Moves(d, q) \/ Finally(d, q)
    <3>1. pc[q] # "none"
      BY <2>2 DEF Moves, CancelBeforeStart, RejectBeforeStart, Begin, Expire, Execute, Settle,
         Publish, Finally, AtStage
    <3>2. QED
      BY <1>1, <3>1 DEF Outstanding
  <2>3. QED
    BY <1>6, <2>1, <2>2
<1>7. QED
  BY <1>2, <1>3, <1>4, <1>5, <1>6, StepKinds

\* Those steps keep the types and the store's agreement when nothing is in
\* flight, and write to the store what a cancel or the recovery writes.
LEMMA ElsewhereKeepsService ==
  ASSUME TypeOK, StoreAgrees, Elsewhere, Outstanding = {}
  PROVE  /\ TypeOK' /\ StoreAgrees'
         /\ \A r \in Runs : state'[r] # state[r] =>
              \/ canceller = r /\ state'[r] = "cancel_requested"
              \/ phase = "recovering" /\ state[r] \notin TERMINAL \cup {"absent"} /\ state'[r] = "interrupted"
<1>1. Outstanding' = {} /\ UNCHANGED <<pc, job, pending, owner>>
  BY ElsewhereKeeps
<1>2. CASE \/ \E d \in Deployments : RegisterDeployment(d) \/ RetireDeployment(d) \/ WorkerDies(d)
           \/ Close \/ Closing \/ Serve \/ UNCHANGED vars
  <2>1. TypeOK'
    <3>1. \A d \in Deployments : RetireDeployment(d) => worker' \in [Deployments -> Runs \cup {None}]
      BY EndedWorkers DEF RetireDeployment
    <3>2. Closing => worker' \in [Deployments -> Runs \cup {None}]
      BY EndedWorkers DEF Closing
    <3>3. QED
      BY <1>2, <3>1, <3>2 DEF TypeOK, RegisterDeployment, RetireDeployment, WorkerDies,
         DeploymentStates, Close, Closing, Serve, vars, volatile
  <2>2. /\ UNCHANGED state /\ canceller' \in {canceller, None}
        /\ phase' = "recovering" => phase = "recovering" /\ canceller' = canceller
    BY <1>2 DEF RegisterDeployment, RetireDeployment, WorkerDies, Close, Closing, Serve, vars, volatile
  <2>3. QED
    BY <1>1, <2>1, <2>2 DEF StoreAgrees
<1>3. ASSUME NEW r \in Runs, CancelRead(r)
      PROVE  TypeOK' /\ StoreAgrees' /\ UNCHANGED state
  BY <1>1, <1>3 DEF CancelRead, LockFree, TypeOK, StoreAgrees
<1>4. ASSUME NEW r \in Runs, Recover(r)
      PROVE  /\ TypeOK' /\ StoreAgrees' /\ phase = "recovering"
             /\ state' = [state EXCEPT ![r] = "interrupted"] /\ state[r] \notin TERMINAL \cup {"absent"}
  <2>1. phase = "recovering" /\ canceller = None
    BY <1>4 DEF Recover, StoreAgrees
  <2>2. /\ UNCHANGED <<phase, volatile>> /\ state' = [state EXCEPT ![r] = "interrupted"]
        /\ state[r] \notin TERMINAL \cup {"absent"}
    BY <1>4 DEF Recover
  <2>3. TypeOK'
    BY <2>2 DEF TypeOK, volatile, RunStates, TERMINAL
  <2>4. StoreAgrees'
    BY <1>1, <2>1, <2>2 DEF StoreAgrees, volatile
  <2>5. QED
    BY <2>1, <2>2, <2>3, <2>4
<1>5. CASE CancelWrite
  <2>1. /\ canceller \in Runs /\ state' = [state EXCEPT ![canceller] = "cancel_requested"]
        /\ canceller' = None
    BY <1>5 DEF CancelWrite, TypeOK
  <2>2. TypeOK'
    BY <1>5, <2>1 DEF CancelWrite, TypeOK, RunStates
  <2>3. StoreAgrees'
    BY <1>1, <2>1 DEF StoreAgrees
  <2>4. QED
    BY <2>1, <2>2, <2>3 DEF TypeOK
<1>6. QED
  <2>1. ASSUME NEW r \in Runs, Recover(r)
        PROVE  \A q \in Runs : state'[q] # state[q] =>
                 phase = "recovering" /\ state[q] \notin TERMINAL \cup {"absent"} /\ state'[q] = "interrupted"
    BY <1>4, <2>1 DEF TypeOK
  <2>2. CASE \/ \E d \in Deployments : RegisterDeployment(d) \/ RetireDeployment(d) \/ WorkerDies(d)
             \/ Close \/ Closing \/ Serve \/ UNCHANGED vars
    <3>1. UNCHANGED state
      BY <2>2 DEF RegisterDeployment, RetireDeployment, WorkerDies, Close, Closing, Serve, vars
    <3>2. QED
      BY <1>2, <2>2, <3>1
  <2>3. QED
    BY <1>3, <1>4, <1>5, <2>1, <2>2 DEF Elsewhere

\* What the service writes to the store beside the runners.
LEMMA ServiceWrites ==
  ASSUME RunnersInv, ServiceStep, NEW r \in Runs, state'[r] # state[r]
  PROVE  /\ \/ state[r] = "absent" /\ state'[r] = "queued"
            \/ state[r] = "queued" /\ state'[r] = "running"
            \/ state[r] \notin TERMINAL /\ state'[r] \in TERMINAL
            \/ canceller = r /\ state'[r] = "cancel_requested"
         /\ r \in Tasks => canceller = r /\ state'[r] = "cancel_requested"
<1>1. CASE Tasks = {}
  <2>1. Inv /\ [Next]_vars
    BY <1>1, Between DEF ServiceStep
  <2>2. QED
    BY <1>1, <2>1, StoreWrites
<1>2. ASSUME NEW q \in Tasks
      PROVE  canceller = r /\ state'[r] = "cancel_requested"
  <2>1. Elsewhere /\ Outstanding = {} /\ phase # "recovering"
    BY TaskedService, OneTask
  <2>2. QED
    BY <2>1, ElsewhereKeepsService DEF RunnersInv, ServiceOK
<1>3. QED
  BY <1>1, <1>2

\* The service completes only runs that its executors have.
LEMMA ServiceCompletes ==
  ASSUME RunnersInv, ServiceStep, NEW r \in Runs, r \notin Outstanding, state'[r] = "completed"
  PROVE  state[r] = "completed"
<1>0. TypeOK /\ pc[r] = "none"
  BY DEF RunnersInv, ServiceOK, Outstanding
<1>1. ASSUME NEW q \in Runs, NEW d \in Deployments, Moves(d, q)
      PROVE  state'[r] = state[r]
  <2>1. pc[q] # "none"
    BY <1>1 DEF Moves, CancelBeforeStart, RejectBeforeStart, Begin, Expire, Execute, Settle,
       Publish, AtStage
  <2>2. state' = state \/ \E v : state' = [state EXCEPT ![q] = v]
    BY <1>1 DEF Moves, CancelBeforeStart, RejectBeforeStart, Begin, Expire, Execute, Settle, Publish
  <2>3. QED
    BY <1>0, <2>1, <2>2 DEF TypeOK
<1>2. ASSUME NEW q \in Runs, NEW d \in Deployments, TokenBudget(q, d) \/ Finally(d, q)
      PROVE  state'[r] = state[r]
  BY <1>2 DEF TokenBudget, Finally
<1>3. ASSUME NEW q \in Runs, NEW d \in Deployments, NEW kind \in Kinds \ {"token_budget"},
             NEW by \in Campaigns \cup {None}, Submit(q, kind, d, by)
      PROVE  state'[r] = state[r] \/ state'[r] = "queued"
  BY <1>0, <1>3 DEF Submit, TypeOK
<1>4. ASSUME NEW c \in Campaigns, ReleaseBenchmark(c) \/ \E d \in Deployments : ClaimBenchmark(c, d)
      PROVE  state'[r] = state[r]
  BY <1>4 DEF ReleaseBenchmark, ClaimBenchmark
<1>5. CASE Elsewhere \/ Restart
  <2>1. CASE CancelWrite
    BY <1>0, <2>1 DEF CancelWrite, TypeOK
  <2>2. ASSUME NEW q \in Runs, Recover(q)
        PROVE  state'[r] \in {state[r], "interrupted"}
    BY <1>0, <2>2 DEF Recover, TypeOK
  <2>3. CASE UNCHANGED state
    BY <2>3
  <2>4. QED
    BY <1>5, <2>1, <2>2, <2>3 DEF Elsewhere, RegisterDeployment, RetireDeployment, WorkerDies,
       CancelRead, Close, Closing, Serve, Restart, vars
<1>6. [Next]_vars
  BY DEF ServiceStep
<1>7. QED
  BY <1>1, <1>2, <1>3, <1>4, <1>5, <1>6, StepKinds

\* The service keeps its part of the invariant.
LEMMA ServiceKeepsItself ==
  ASSUME RunnersInv, ServiceStep
  PROVE  /\ ServiceOK' /\ TaskExclusive'
         /\ \A q \in Runs : q \in Outstanding' => q \in Outstanding \/ state[q] = "absent"
<1>0. UNCHANGED task /\ Tasks' = Tasks /\ [Next]_vars
  BY DEF ServiceStep, BesideRunners, runnerVars, runner, Tasks, At
<1>1. CASE Tasks = {}
  <2>1. Inv /\ Inv'
    BY <1>0, <1>1, Between, InvStep
  <2>2. ServiceOK' /\ pending' = Cardinality(Outstanding')
    BY <2>1 DEF Inv, PendingExact, ServiceOK
  <2>3. Cardinality({}) = 0 /\ Cardinality(Outstanding') \in Nat
    BY <2>1, <2>2, FS_EmptySet DEF Inv, TypeOK
  <2>4. TaskExclusive'
    BY <1>0, <1>1, <2>2, <2>3 DEF RunnersInv, TaskExclusive
  <2>5. \A q \in Runs : q \in Outstanding' => q \in Outstanding \/ state[q] = "absent"
    <3>0. TypeOK
      BY <2>1 DEF Inv
    <3>1. CASE Elsewhere \/ Restart
      BY <3>1, ElsewhereKeeps, RestartEmpties
    <3>2. ASSUME NEW c \in Campaigns, ReleaseBenchmark(c) \/ \E d \in Deployments : ClaimBenchmark(c, d)
          PROVE  Outstanding' = Outstanding
      BY <3>2 DEF ReleaseBenchmark, ClaimBenchmark, Outstanding
    <3>3. ASSUME NEW r \in Runs, NEW d \in Deployments, NEW kind \in Kinds \ {"token_budget"},
                 NEW by \in Campaigns \cup {None}, Submit(r, kind, d, by)
          PROVE  Outstanding' = Outstanding \cup {r} /\ state[r] = "absent"
      BY <3>0, <3>3, OneMore DEF Submit, Enqueue
    <3>4. ASSUME NEW r \in Runs, NEW d \in Deployments, TokenBudget(r, d)
          PROVE  Outstanding' = Outstanding \cup {r} /\ state[r] = "absent"
      BY <3>0, <3>4, OneMore DEF TokenBudget, Enqueue
    <3>5. ASSUME NEW r \in Runs, NEW d \in Deployments, Moves(d, r)
          PROVE  Outstanding' = Outstanding
      BY <3>0, <3>5, MovesKeep
    <3>6. ASSUME NEW r \in Runs, NEW d \in Deployments, Finally(d, r)
          PROVE  Outstanding' = Outstanding \ {r}
      BY <3>0, <3>6, OneLess DEF Finally, AtStage
    <3>7. QED
      BY <1>0, <3>1, <3>2, <3>3, <3>4, <3>5, <3>6, StepKinds
  <2>6. QED
    BY <2>2, <2>4, <2>5
<1>2. ASSUME NEW r \in Tasks
      PROVE  /\ ServiceOK' /\ TaskExclusive'
             /\ \A q \in Runs : q \in Outstanding' => q \in Outstanding \/ state[q] = "absent"
  <2>1. Elsewhere /\ Outstanding = {} /\ TypeOK /\ StoreAgrees
    BY TaskedService, OneTask DEF RunnersInv, ServiceOK
  <2>2. Outstanding' = Outstanding /\ UNCHANGED <<pending, owner>>
    BY <2>1, ElsewhereKeeps
  <2>3. TypeOK' /\ StoreAgrees'
    BY <2>1, ElsewhereKeepsService
  <2>4. BenchmarkExclusive'
    BY <2>1, <2>2 DEF BenchmarkExclusive
  <2>5. ServiceOK'
    BY <2>2, <2>3, <2>4 DEF RunnersInv, ServiceOK
  <2>6. TaskExclusive'
    BY <1>0, <2>2 DEF RunnersInv, TaskExclusive
  <2>7. QED
    BY <2>2, <2>5, <2>6
<1>3. QED
  BY <1>1, <1>2

\* And the rest of it, which is about runs the service does not have.
LEMMA ServiceStepKeeps ==
  ASSUME RunnersInv, ServiceStep
  PROVE  RunnersInv'
<1>1. /\ UNCHANGED <<task, child, guard, quarantined, ingress, published, journal, power>>
      /\ phase' = "recovering" => phase = "recovering"
      /\ HeldByRunner(None) => \A d \in Gpu : worker'[d] \in {worker[d], None}
      /\ [Next]_vars /\ Tasks' = Tasks
  BY DEF ServiceStep, BesideRunners, runnerVars, runner, device, Tasks, At
<1>2. /\ ServiceOK' /\ TaskExclusive'
      /\ \A q \in Runs : q \in Outstanding' => q \in Outstanding \/ state[q] = "absent"
  BY ServiceKeepsItself
<1>3. RunnersTypeOK' /\ PlaceOK' /\ PowerJournaled' /\ GuardOK'
  BY <1>1 DEF RunnersInv, RunnersTypeOK, PlaceOK, PowerJournaled, GuardOK, Guarding, Kind, At
<1>4. BelongOK'
  <2>1. \A q \in Runs : state[q] # "absent" => state'[q] # "absent"
    BY ServiceWrites DEF TERMINAL
  <2>2. QED
    BY <1>1, <1>2, <2>1 DEF RunnersInv, BelongOK, Kind
<1>5. RecordOK'
  <2>1. \A q \in Tasks : state'[q] = state[q] \/ state'[q] = "cancel_requested"
    BY ServiceWrites DEF Tasks
  <2>2. QED
    BY <1>1, <2>1 DEF RunnersInv, RecordOK, Unrecorded, EndKnown, At, Kind, TERMINAL
<1>6. DeviceOK'
  <2>1. \A q \in Runs : User(q)' <=> User(q)
    BY <1>1 DEF User, Guarding, Kind, At
  <2>2. ASSUME NEW q \in Runs, User(q), NEW d \in Gpu
        PROVE  worker'[d] = None
    <3>1. HeldByRunner(None)
      BY <2>2, LockExcludes, ConfigAssumption
    <3>2. QED
      BY <1>1, <2>2, <3>1 DEF RunnersInv, DeviceOK
  <2>3. OneGpuModel'
    BY <1>1, OneModelStep DEF RunnersInv, ServiceOK, DeviceOK
  <2>4. Leftover' = Leftover
    BY <1>1 DEF Leftover, Kind, At
  <2>5. QED
    BY <1>1, <2>1, <2>2, <2>3, <2>4 DEF RunnersInv, DeviceOK, Kind
<1>7. ResultOK'
  <2>1. ASSUME NEW q \in Runs, Kind(q) # None, state'[q] = "completed"
        PROVE  state[q] = "completed"
    BY <2>1, ServiceCompletes DEF RunnersInv, BelongOK
  <2>2. ASSUME NEW q \in Runs, state[q] = "completed", canceller # q
        PROVE  canceller' # q
    <3>1. canceller' \in {canceller, None} \/ CancelRead(canceller')
      <4>1. ASSUME NEW p \in Runs, NEW d \in Deployments, Executor(d, p)
            PROVE  canceller' = canceller
        BY <4>1 DEF Executor, CancelBeforeStart, RejectBeforeStart, Begin, Expire, Execute, Settle,
           Publish, Finally
      <4>2. CASE Closing \/ Restart
        BY <4>2 DEF Closing, Restart
      <4>3. QED
        BY <1>1, <4>1, <4>2 DEF Next, RegisterDeployment, RetireDeployment, WorkerDies,
           ReleaseBenchmark, ClaimBenchmark, Submit, TokenBudget, CancelRead, Recover, CancelWrite,
           Close, Serve, vars, volatile
    <3>2. QED
      BY <2>2, <3>1, ConfigAssumption DEF CancelRead, TERMINAL
  <2>3. None \notin {"compress", "scheduling"}
    BY RunnersAssumption DEF AllRunners
  <2>4. QED
    BY <1>1, <2>1, <2>2, <2>3 DEF RunnersInv, ResultOK, Kind, At
<1>8. QED
  BY <1>2, <1>3, <1>4, <1>5, <1>6, <1>7 DEF RunnersInv

-----------------------------------------------------------------------------
(***************************************************************************)
(* The probe, the operator and the restart.                                *)
(***************************************************************************)

\* A probe that loses the worker marks the deployment and nothing else.
LEMMA ProbeStep ==
  ASSUME RunnersInv, NEW d \in Deployments, ProbeFails(d)
  PROVE  RunnersInv'
<1>1. /\ WorkersEnd({d}) /\ dstate' = [dstate EXCEPT ![d] = "failed"]
      /\ depoch' = [depoch EXCEPT ![d] = None]
      /\ UNCHANGED <<phase, configs, queue, pc, job, result, pending, owner, canceller, state, task,
                     child, guard, quarantined, ingress, published, journal, power>>
  BY DEF ProbeFails, runnerVars, runner, device
<1>2. Outstanding' = Outstanding /\ Tasks' = Tasks
  BY <1>1 DEF Outstanding, Tasks, At
<1>3. TypeOK' /\ \A e \in Deployments : worker'[e] \in {worker[e], None}
  BY <1>1, EndedWorkers DEF RunnersInv, ServiceOK, TypeOK, DeploymentStates
<1>4. ServiceOK'
  BY <1>1, <1>2, <1>3 DEF RunnersInv, ServiceOK, BenchmarkExclusive, StoreAgrees
<1>5. RunnersTypeOK' /\ TaskExclusive' /\ PlaceOK' /\ PowerJournaled' /\ BelongOK'
  BY <1>1, <1>2 DEF RunnersInv, RunnersTypeOK, TaskExclusive, PlaceOK, PowerJournaled, BelongOK, Kind
<1>6. RecordOK' /\ GuardOK' /\ ResultOK'
  BY <1>1, <1>2 DEF RunnersInv, RecordOK, GuardOK, ResultOK, Unrecorded, EndKnown, Guarding, At, Kind
<1>7. DeviceOK'
  <2>1. (\A q \in Runs : User(q)' <=> User(q)) /\ Leftover' = Leftover
    BY <1>1 DEF User, Guarding, Kind, At, Leftover
  <2>2. QED
    BY <1>1, <1>2, <1>3, <2>1, ConfigAssumption DEF RunnersInv, DeviceOK, OneGpuModel, Kind
<1>8. QED
  BY <1>4, <1>5, <1>6, <1>7 DEF RunnersInv

\* The operator acts when no guardian is alive.
LEMMA OperatorStep ==
  ASSUME RunnersInv, OperatorRecovers
  PROVE  RunnersInv'
<1>1. /\ journal' = FALSE /\ power' = "original" /\ \A r \in Runs : guard[r].at = "none"
      /\ UNCHANGED <<phase, configs, dstate, depoch, worker, queue, pc, job, result, pending, owner,
                     canceller, state, task, child, guard, quarantined, ingress, published>>
  BY DEF OperatorRecovers, vars, volatile, runner
<1>2. Outstanding' = Outstanding /\ Tasks' = Tasks
  BY <1>1 DEF Outstanding, Tasks, At
<1>3. ServiceOK'
  BY <1>1, <1>2 DEF RunnersInv, ServiceOK, TypeOK, BenchmarkExclusive, StoreAgrees
<1>4. RunnersTypeOK' /\ TaskExclusive' /\ PlaceOK' /\ PowerJournaled' /\ BelongOK'
  BY <1>1, <1>2 DEF RunnersInv, RunnersTypeOK, TaskExclusive, PlaceOK, PowerJournaled, BelongOK, Kind
<1>5. RecordOK' /\ GuardOK' /\ ResultOK'
  BY <1>1, <1>2 DEF RunnersInv, RecordOK, GuardOK, ResultOK, Unrecorded, EndKnown, Guarding, At, Kind
<1>6. DeviceOK'
  <2>1. (\A q \in Runs : User(q)' <=> User(q)) /\ Leftover' = Leftover
    BY <1>1 DEF User, Guarding, Kind, At, Leftover
  <2>2. QED
    BY <1>1, <1>2, <2>1 DEF RunnersInv, DeviceOK, OneGpuModel, Kind
<1>7. QED
  BY <1>3, <1>4, <1>5, <1>6 DEF RunnersInv

\* A restart ends tasks and forgets flags; guardians and profilers live on.
LEMMA RestartStep ==
  ASSUME RunnersInv, RestartAll
  PROVE  RunnersInv'
<1>0. TypeOK /\ RunnersTypeOK
  BY DEF RunnersInv, ServiceOK
<1>1. /\ Restart
      /\ task' = [r \in Runs |-> Remembered(r)]
      /\ child' = {r \in child : Kind(r) \in {"system", "diagnostic"}}
      /\ ingress' = {} /\ published \subseteq published'
      /\ guard' = [r \in Runs |-> IF r \in child THEN guard[r] ELSE NoGuard]
      /\ UNCHANGED <<journal, power>>
  BY DEF RestartAll, device
<1>2. pending' = 0 /\ owner' = None /\ Outstanding' = {} /\ canceller' = None /\ UNCHANGED state
  BY <1>1, RestartEmpties DEF Restart
<1>3. ASSUME NEW r \in Runs
      PROVE  /\ task'[r] \in TaskRecords /\ task'[r].at = "none"
             /\ Kind(r)' \in {Kind(r), None} /\ (r \in child => Kind(r)' = Kind(r))
  <2>1. task'[r] = Remembered(r)
    BY <1>1
  <2>2. QED
    BY <1>0, <2>1, RememberedFacts DEF Kind
<1>4. Tasks' = {} /\ task' \in [Runs -> TaskRecords]
  BY <1>1, <1>3 DEF Tasks, At
<1>5. ASSUME NEW r \in Runs
      PROVE  guard'[r] = guard[r] \/ (guard'[r] = NoGuard /\ guard'[r].at = "none")
  BY <1>1 DEF NoGuard
<1>6. ServiceOK'
  <2>1. TypeOK'
    BY <1>0, <1>1, ConfigAssumption, EndedWorkers DEF TypeOK, Restart, DeploymentStates, Stages
  <2>2. BenchmarkExclusive' /\ StoreAgrees'
    BY <1>2 DEF BenchmarkExclusive, StoreAgrees
  <2>3. QED
    BY <1>2, <2>1, <2>2, ConfigAssumption DEF ServiceOK
<1>7. TaskExclusive'
  <2>1. Cardinality({}) = 0
    BY FS_EmptySet
  <2>2. pending' = Cardinality(Outstanding') + Cardinality(Tasks')
    BY <1>2, <1>4, <2>1
  <2>3. QED
    BY <1>4, <2>2 DEF TaskExclusive, TaskRecords
<1>8. RunnersTypeOK'
  <2>1. NoGuard \in [at : GuardPlaces, status : Statuses \cup {None}]
    BY DEF NoGuard, GuardPlaces
  <2>2. \A r \in Runs : guard'[r] \in [at : GuardPlaces, status : Statuses \cup {None}]
    BY <1>0, <1>5, <2>1 DEF RunnersTypeOK
  <2>3. guard' \in [Runs -> [at : GuardPlaces, status : Statuses \cup {None}]]
    BY <1>1, <2>2
  <2>4. QED
    BY <1>0, <1>1, <1>4, <2>3 DEF RunnersTypeOK
<1>9. PlaceOK' /\ RecordOK' /\ PowerJournaled'
  BY <1>1, <1>4 DEF PlaceOK, RecordOK, RunnersInv, PowerJournaled
<1>10. BelongOK'
  <2>1. \A r \in Runs : Kind(r)' # None => state'[r] # "absent" /\ r \notin Outstanding'
    BY <1>2, <1>3 DEF RunnersInv, BelongOK
  <2>2. \A r \in child' : Kind(r)' # None
    BY <1>0, <1>1, <1>3 DEF RunnersInv, BelongOK, RunnersTypeOK
  <2>3. QED
    BY <1>4, <2>1, <2>2 DEF BelongOK
<1>11. GuardOK'
  <2>1. \A r \in Runs : Guarding(r)' => Guarding(r)
    BY <1>5 DEF Guarding
  <2>2. \A r \in Runs : /\ guard'[r].at \in {"mutate", "trial", "restore"} => journal'
                        /\ guard'[r].at = "unlink" => power' = "original"
                        /\ guard'[r].at \in {"restore", "unlink", "exit"} => guard'[r].status \in Statuses
    BY <1>1, <1>5 DEF RunnersInv, GuardOK
  <2>3. QED
    BY <1>4, <2>1, <2>2 DEF RunnersInv, GuardOK
<1>12. DeviceOK'
  <2>1. \A d \in Deployments : worker'[d] \in {worker[d], None}
    BY <1>0, <1>1, EndedWorkers DEF Restart
  <2>2. \A r \in Runs : User(r)' => User(r)
    BY <1>0, <1>1, <1>3, <1>5 DEF User, Guarding, At, RunnersTypeOK
  <2>3. \A r \in child' : r \in Runs /\ Kind(r)' # "distributed"
    BY <1>0, <1>1, <1>3 DEF RunnersTypeOK
  <2>4. Leftover' = {}
    BY <2>3 DEF Leftover
  <2>5. QED
    BY <2>1, <2>2, <2>3, <2>4, ConfigAssumption DEF RunnersInv, DeviceOK, OneGpuModel
<1>13. ResultOK'
  <2>1. None \notin {"compress", "scheduling"} /\ None \notin Runs
    BY RunnersAssumption, ConfigAssumption DEF AllRunners
  <2>2. QED
    BY <1>1, <1>2, <1>3, <2>1 DEF RunnersInv, ResultOK, At
<1>14. QED
  BY <1>6, <1>7, <1>8, <1>9, <1>10, <1>11, <1>12, <1>13 DEF RunnersInv

-----------------------------------------------------------------------------
(***************************************************************************)
(* The invariant, and the properties.                                      *)
(***************************************************************************)

\* A fresh console has no task, no process and the original limit.
LEMMA RunnersInitInv == RunnersInit => RunnersInv
<1>1. SUFFICES ASSUME RunnersInit PROVE RunnersInv
  OBVIOUS
<1>2. /\ Init /\ Inv
      /\ task = [r \in Runs |-> NoTask] /\ guard = [r \in Runs |-> NoGuard]
      /\ child = {} /\ journal = FALSE /\ power = "original"
  BY <1>1, InitInv DEF RunnersInit
<1>3. \A r \in Runs : task[r] = [kind |-> None, dep |-> None, at |-> "none", final |-> None]
  BY <1>2 DEF NoTask
<1>4. \A r \in Runs : guard[r] = [at |-> "none", status |-> None]
  BY <1>2 DEF NoGuard
<1>5. Tasks = {} /\ Leftover = {} /\ Outstanding = {}
  BY <1>2, <1>3 DEF Tasks, At, Leftover, Outstanding, Init
<1>6. ServiceOK
  BY <1>2, ConfigAssumption DEF Inv, ServiceOK, Init
<1>7. RunnersTypeOK
  <2>1. NoTask \in TaskRecords /\ NoGuard \in [at : GuardPlaces, status : Statuses \cup {None}]
    BY DEF NoTask, TaskRecords, Places, NoGuard, GuardPlaces
  <2>2. QED
    BY <1>2, <2>1 DEF RunnersTypeOK
<1>8. TaskExclusive
  <2>1. pending = 0 /\ Cardinality({}) = 0
    BY <1>2, FS_EmptySet DEF Init
  <2>2. pending = Cardinality(Outstanding) + Cardinality(Tasks)
    BY <1>5, <2>1
  <2>3. QED
    BY <1>5, <1>7, <2>2 DEF TaskExclusive, RunnersTypeOK, TaskRecords
<1>9. BelongOK /\ PlaceOK /\ RecordOK /\ PowerJournaled
  BY <1>2, <1>3, <1>5 DEF BelongOK, PlaceOK, RecordOK, PowerJournaled, Kind
<1>10. GuardOK
  BY <1>4, <1>5 DEF GuardOK, Guarding
<1>11. DeviceOK
  <2>1. \A d \in Deployments : worker[d] = None
    BY <1>2 DEF Init
  <2>2. \A r \in Runs : ~User(r)
    BY <1>2, <1>4 DEF User, Guarding
  <2>3. QED
    BY <1>2, <1>5, <2>1, <2>2, ConfigAssumption DEF DeviceOK, OneGpuModel
<1>12. ResultOK
  <2>1. None \notin {"compress", "scheduling"}
    BY RunnersAssumption DEF AllRunners
  <2>2. QED
    BY <1>3, <2>1 DEF ResultOK, Kind
<1>13. QED
  BY <1>6, <1>7, <1>8, <1>9, <1>10, <1>11, <1>12 DEF RunnersInv

\* A step is one of these.
LEMMA RunnersStepKinds ==
  ASSUME [RunnersNext]_allVars
  PROVE  \/ ServiceStep \/ RestartAll \/ OperatorRecovers
         \/ \E r \in Runs, d \in Deployments, k \in Runners : Starts(k, r, d)
         \/ \E d \in Deployments : ProbeFails(d)
         \/ \E r \in Runs : Progress(r) \/ FinallyTask(r) \/ Guardian(r) \/ GuardKilled(r)
         \/ CloseRunner \/ UNCHANGED allVars
         \/ \E r \in Runs : TellGuard(r) \/ ChildEnds(r) \/ Ingress(r) \/ Observe(r)
<1>1. ASSUME NEW r \in Runs, NEW d \in Deployments, NEW k \in Runners,
             StartTask(k, r, d) \/ StartAsCloses(k, r, d)
      PROVE  Starts(k, r, d)
  BY <1>1 DEF StartTask, StartAsCloses, Starts
<1>2. QED
  BY <1>1 DEF RunnersNext, RunnerThread, Progress

\* The last two kinds touch neither the service, the store nor a task.
LEMMA QuietKinds ==
  ASSUME \/ CloseRunner \/ UNCHANGED allVars
         \/ \E r \in Runs : TellGuard(r) \/ ChildEnds(r) \/ Ingress(r) \/ Observe(r)
  PROVE  /\ UNCHANGED <<vars, task, guard, journal, power, quarantined, published>>
         /\ child' \subseteq child /\ \A q \in child \ child' : Kind(q) # "system"
         /\ \A q \in ingress' \ ingress : state[q] # "completed"
<1>1. CASE CloseRunner \/ UNCHANGED allVars
  BY <1>1 DEF CloseRunner, allVars, runnerVars, runner, device
<1>2. ASSUME NEW r \in Runs, TellGuard(r) \/ ChildEnds(r)
      PROVE  /\ UNCHANGED <<vars, task, guard, journal, power, quarantined, published, ingress>>
             /\ child' \subseteq child /\ \A q \in child \ child' : Kind(q) # "system"
  BY <1>2 DEF TellGuard, ChildEnds, device
<1>3. ASSUME NEW r \in Runs, Ingress(r) \/ Observe(r)
      PROVE  /\ UNCHANGED <<vars, task, guard, journal, power, quarantined, published, child>>
             /\ \A q \in ingress' \ ingress : state[q] # "completed"
  BY <1>3 DEF Ingress, Observe, device
<1>4. QED
  BY <1>1, <1>2, <1>3

\* Every step keeps the invariant.
LEMMA RunnersStep == RunnersInv /\ [RunnersNext]_allVars => RunnersInv'
<1>1. SUFFICES ASSUME RunnersInv, [RunnersNext]_allVars PROVE RunnersInv'
  OBVIOUS
<1>2. CASE \/ CloseRunner \/ UNCHANGED allVars
           \/ \E r \in Runs : TellGuard(r) \/ ChildEnds(r) \/ Ingress(r) \/ Observe(r)
  BY <1>1, <1>2, QuietKinds, QuietStep
<1>3. QED
  BY <1>1, <1>2, RunnersStepKinds, ServiceStepKeeps, RestartStep, OperatorStep, StartStep, ProbeStep,
     ProgressStep, FinallyTaskStep, GuardianStep

\* The runners and the task service keep the invariant, whatever the processes
\* do and whenever the console is restarted.
THEOREM RunnersInvariance == RunnersSpec => []RunnersInv
<1>1. QED
  BY RunnersInitInv, RunnersStep, PTL DEF RunnersSpec

\* A task has the console to itself from start to its finally block, and the
\* slots count jobs and tasks: for any number of runs, deployments and slots.
THEOREM ExclusiveTask == RunnersSpec => []TaskExclusive
<1>1. RunnersInv => TaskExclusive
  BY DEF RunnersInv
<1>2. QED
  BY <1>1, RunnersInvariance, PTL

\* The power limit is changed only behind the journal, wherever guardian and
\* console are killed.
THEOREM JournalHolds == RunnersSpec => []PowerJournaled
<1>1. RunnersInv => PowerJournaled
  BY DEF RunnersInv
<1>2. QED
  BY <1>1, RunnersInvariance, PTL

\* A set whose members are all equal has one at most.
LEMMA AtMostOne ==
  ASSUME NEW S, \A x, y \in S : x = y
  PROVE  Cardinality(S) <= 1
<1>1. CASE S = {}
  BY <1>1, FS_EmptySet
<1>2. ASSUME NEW x \in S
      PROVE  Cardinality(S) <= 1
  <2>1. S = {x}
    BY <1>2
  <2>2. QED
    BY <2>1, FS_Singleton
<1>3. QED
  BY <1>1, <1>2

\* One model, experiment or profiler on the GPU, over restarts; an L9 process
\* left behind is the only one and L9 is under quarantine.
THEOREM OneUserHolds == RunnersSpec => []OneGpuUser
<1>1. ASSUME RunnersInv PROVE OneGpuUser
  <2>1. DeviceOK /\ RunnersTypeOK /\ TypeOK
    BY <1>1 DEF RunnersInv, ServiceOK
  <2>2. ASSUME NEW x \in GpuUsers
        PROVE  (x \in Gpu /\ worker[x] # None) \/ (x \in Runs /\ User(x))
    BY <2>1 DEF GpuUsers, User, Leftover, RunnersTypeOK
  <2>3. \A x, y \in GpuUsers : x = y
    <3>1. \A d, e \in Gpu : worker[d] # None /\ worker[e] # None => d = e
      BY <2>1 DEF DeviceOK, OneGpuModel
    <3>2. \A q, r \in Runs : User(q) /\ User(r) => q = r
      BY <2>1 DEF DeviceOK
    <3>3. \A r \in Runs : User(r) => \A d \in Gpu : worker[d] = None
      BY <2>1 DEF DeviceOK
    <3>4. QED
      BY <2>2, <3>1, <3>2, <3>3
  <2>4. \A x, y \in Leftover : x = y
    BY <2>1 DEF DeviceOK
  <2>5. Leftover # {} => "distributed" \in quarantined
    BY <2>1 DEF DeviceOK, Leftover, At
  <2>6. Cardinality(GpuUsers) <= 1 /\ Cardinality(Leftover) <= 1
    BY <2>3, <2>4, AtMostOne
  <2>7. QED
    BY <2>5, <2>6 DEF OneGpuUser
<1>2. QED
  BY <1>1, RunnersInvariance, PTL

\* A recorded cancel gives way only to the end of the run (or to the blind first
\* write of two runners), an end only to a cancel that read the run live.
THEOREM RecordsHold == RunnersSpec => RecordsKept
<1>1. ASSUME RunnersInv, [RunnersNext]_allVars, NEW r \in Runs
      PROVE  /\ state[r] = "cancel_requested" /\ state'[r] # "cancel_requested"
                   => \/ state'[r] \in TERMINAL
                      \/ At(r, "queued") /\ Kind(r) \in {"diagnostic", "scheduling"}
             /\ state[r] \in TERMINAL /\ state'[r] # state[r]
                   => canceller = r /\ state'[r] = "cancel_requested"
  <2>0. state \in [Runs -> RunStates]
    BY <1>1 DEF RunnersInv, ServiceOK, TypeOK
  <2>1. CASE UNCHANGED state
    BY <2>1
  <2>2. CASE ServiceStep
    <3>1. "cancel_requested" \notin TERMINAL /\ "absent" \notin TERMINAL /\ "queued" \notin TERMINAL
      BY DEF TERMINAL
    <3>2. QED
      BY <1>1, <2>2, <3>1, ServiceWrites
  <2>3. ASSUME NEW q \in Runs, NEW d \in Deployments, NEW k \in Runners, Starts(k, q, d)
        PROVE  state[r] = "absent" \/ state'[r] = state[r]
    BY <2>0, <2>3 DEF Starts, CanStart, Take
  <2>4. ASSUME NEW q \in Runs, Progress(q)
        PROVE  Wrote(q)
    BY <1>1, <2>4, ProgressWrites
  <2>5. \/ UNCHANGED state \/ ServiceStep
        \/ \E q \in Runs, d \in Deployments, k \in Runners : Starts(k, q, d)
        \/ \E q \in Runs : Progress(q)
    <3>1. CASE RestartAll \/ OperatorRecovers \/ \E d \in Deployments : ProbeFails(d)
      BY <3>1 DEF RestartAll, Restart, OperatorRecovers, vars, ProbeFails
    <3>2. ASSUME NEW q \in Runs, FinallyTask(q) \/ Guardian(q) \/ GuardKilled(q)
          PROVE  UNCHANGED state
      BY <3>2 DEF FinallyTask, Guardian, GuardKilled, GuardLocks, GuardPlain, GuardJournals,
         GuardMutates, GuardTrial, GuardRestores, GuardUnlinks, GuardEnds, ServiceAsIs, vars
    <3>3. CASE \/ CloseRunner \/ UNCHANGED allVars
               \/ \E q \in Runs : TellGuard(q) \/ ChildEnds(q) \/ Ingress(q) \/ Observe(q)
      BY <3>3, QuietKinds DEF vars
    <3>4. QED
      BY <1>1, <3>1, <3>2, <3>3, RunnersStepKinds
  <2>6. CASE \E q \in Runs : Progress(q)
    <3>1. PICK q \in Runs : Wrote(q)
      BY <2>4, <2>6
    <3>2. QED
      BY <3>1 DEF Wrote
  <2>7. QED
    <3>1. "absent" \notin TERMINAL /\ "absent" # "cancel_requested"
      BY DEF TERMINAL
    <3>2. QED
      BY <2>1, <2>2, <2>3, <2>5, <2>6, <3>1
<1>2. RunnersInv /\ [RunnersNext]_allVars =>
        [\A r \in Runs :
          /\ state[r] = "cancel_requested" /\ state'[r] # "cancel_requested"
                => \/ state'[r] \in TERMINAL
                   \/ At(r, "queued") /\ Kind(r) \in {"diagnostic", "scheduling"}
          /\ state[r] \in TERMINAL /\ state'[r] # state[r]
                => canceller = r /\ state'[r] = "cancel_requested"]_allVars
  BY <1>1
<1>3. QED
  BY <1>2, RunnersInvariance, PTL DEF RunnersSpec, RecordsKept

\* A completed L5 run is published and stays completed; a completed session has
\* no accepted request that its worker never saw.
THEOREM ResultsHold == RunnersSpec => ResultsStand
<1>1. ASSUME RunnersInv, RunnersInv', [RunnersNext]_allVars, NEW r \in Runs
      PROVE  /\ state[r] = "completed" /\ Kind(r) = "compress"
                   => state'[r] = "completed" /\ r \in published'
             /\ state'[r] = "completed" /\ Kind(r) = "scheduling" => r \notin ingress'
  <2>0. /\ state \in [Runs -> RunStates] /\ RunnersTypeOK
        /\ Kind(r) = "compress" /\ state[r] = "completed" => r \in published /\ canceller # r
        /\ Kind(r)' = "scheduling" /\ state'[r] = "completed" => r \notin ingress'
        /\ Kind(r) \in {"compress", "scheduling"} => state[r] # "absent"
    <3>1. None \notin {"compress", "scheduling"}
      BY RunnersAssumption DEF AllRunners
    <3>2. QED
      BY <1>1, <3>1 DEF RunnersInv, ServiceOK, TypeOK, ResultOK, BelongOK
  <2>1. "completed" \in TERMINAL /\ "completed" # "absent"
    BY DEF TERMINAL
  <2>2. CASE ServiceStep
    <3>1. UNCHANGED <<task, ingress, published>>
      BY <2>2 DEF ServiceStep, BesideRunners, runnerVars, runner
    <3>2. state[r] = "completed" /\ state'[r] # state[r] => canceller = r
      BY <1>1, <2>1, <2>2, ServiceWrites
    <3>3. QED
      BY <2>0, <3>1, <3>2 DEF Kind
  <2>3. CASE RestartAll
    BY <2>0, <2>3 DEF RestartAll, Restart
  <2>4. CASE OperatorRecovers \/ \E d \in Deployments : ProbeFails(d)
    <3>1. UNCHANGED <<state, task, ingress, published>>
      BY <2>4 DEF OperatorRecovers, ProbeFails, vars, runnerVars, runner
    <3>2. QED
      BY <2>0, <3>1 DEF Kind
  <2>5. ASSUME NEW q \in Runs, NEW d \in Deployments, NEW k \in Runners, Starts(k, q, d)
        PROVE  /\ state[r] = "completed" /\ Kind(r) = "compress"
                     => state'[r] = "completed" /\ r \in published'
               /\ state'[r] = "completed" /\ Kind(r) = "scheduling" => r \notin ingress'
    <3>1. UNCHANGED <<ingress, published>> /\ state[q] = "absent"
      BY <2>5 DEF Starts, CanStart, Take
    <3>2. r # q => state'[r] = state[r] /\ task'[r] = task[r]
      BY <2>0, <2>5 DEF Starts, Take, RunnersTypeOK
    <3>3. QED
      BY <2>0, <3>1, <3>2 DEF Kind
  <2>6. ASSUME NEW q \in Runs, Progress(q)
        PROVE  /\ state[r] = "completed" /\ Kind(r) = "compress"
                     => state'[r] = "completed" /\ r \in published'
               /\ state'[r] = "completed" /\ Kind(r) = "scheduling" => r \notin ingress'
    <3>1. Wrote(q) /\ Moved(q) /\ published \subseteq published'
      BY <1>1, <2>6, ProgressWrites, ProgressMoves
    <3>2. Kind(r)' = Kind(r)
      BY <3>1 DEF Moved, Kind
    <3>3. state[r] \in TERMINAL => state'[r] = state[r]
      BY <3>1 DEF Wrote
    <3>4. QED
      BY <2>0, <2>1, <3>1, <3>2, <3>3
  <2>7. ASSUME NEW q \in Runs, FinallyTask(q)
        PROVE  /\ state[r] = "completed" /\ Kind(r) = "compress"
                     => state'[r] = "completed" /\ r \in published'
               /\ state'[r] = "completed" /\ Kind(r) = "scheduling" => r \notin ingress'
    <3>1. UNCHANGED <<state, published>> /\ ingress' = ingress \ {q}
      BY <2>7 DEF FinallyTask
    <3>2. r # q => task'[r] = task[r]
      BY <2>0, <2>7 DEF FinallyTask, RunnersTypeOK
    <3>3. QED
      BY <2>0, <3>1, <3>2 DEF Kind
  <2>8. ASSUME NEW q \in Runs, Guardian(q) \/ GuardKilled(q)
        PROVE  UNCHANGED <<state, task, ingress, published>>
    BY <2>8 DEF Guardian, GuardKilled, GuardLocks, GuardPlain, GuardJournals,
       GuardMutates, GuardTrial, GuardRestores, GuardUnlinks, GuardEnds, ServiceAsIs, vars
  <2>9. CASE \/ CloseRunner \/ UNCHANGED allVars
             \/ \E q \in Runs : TellGuard(q) \/ ChildEnds(q) \/ Ingress(q) \/ Observe(q)
    <3>1. UNCHANGED <<state, task, published>>
      BY <2>9, QuietKinds DEF vars
    <3>2. QED
      BY <2>0, <3>1 DEF Kind
  <2>10. CASE \E q \in Runs : Guardian(q) \/ GuardKilled(q)
    BY <2>0, <2>8, <2>10 DEF Kind
  <2>11. QED
    BY <1>1, <2>2, <2>3, <2>4, <2>5, <2>6, <2>7, <2>9, <2>10, RunnersStepKinds
<1>2. RunnersInv /\ RunnersInv' /\ [RunnersNext]_allVars =>
        [\A r \in Runs :
          /\ state[r] = "completed" /\ Kind(r) = "compress"
                => state'[r] = "completed" /\ r \in published'
          /\ state'[r] = "completed" /\ Kind(r) = "scheduling" => r \notin ingress']_allVars
  BY <1>1
<1>3. QED
  BY <1>2, RunnersInvariance, PTL DEF RunnersSpec, ResultsStand
=============================================================================
