-------------------------- MODULE ApplicationEngine --------------------------
(***************************************************************************)
(* The service-application experiment (serving/application_engine.py, run  *)
(* by console/application_jobs.py over the endpoints of                    *)
(* console/application_transport.py): a coordinator takes the lease of     *)
(* every target node, warms replicas up, submits the requests of the plan, *)
(* scales idle replicas down, drains, and gives the leases back; request   *)
(* threads choose a target, load a cold replica on the way, and generate.  *)
(*                                                                         *)
(* Every call to an endpoint may fail cleanly or stay uncertain (a lost    *)
(* HTTP answer, a cleanup that is not confirmed).  Most uncertain ends     *)
(* quarantine the endpoint; a cancel that raises does not.  All targets    *)
(* are managed and the policy is autoscale.  Each region under self.lock   *)
(* and each endpoint call is one step.                                     *)
(***************************************************************************)
EXTENDS Naturals, FiniteSets

CONSTANTS
    Targets,          \* endpoints of the plan, one per physical node
    Requests,         \* requests of the workload, a thread each
    NoTarget,
    Policies          \* [min, max] replicas of an autoscale policy

ASSUME ReplicaAssumption ==
    /\ IsFiniteSet(Targets) /\ NoTarget \notin Targets
    /\ \A p \in Policies : /\ p.min \in Nat /\ p.max \in Nat
                            /\ p.min <= p.max /\ p.min <= Cardinality(Targets)

VARIABLES
    policy,           \* of the variant that is run
    lease,            \* of each node: "free" or "held" by the experiment
    model,            \* on each node: "cold", "loading" or "resident"
    quarantined,      \* endpoints whose node is in an unknown state
    acquired,         \* endpoints the coordinator knows it holds
    owned,            \* what was loaded here: "none", "current", "stale" epoch
    snapshots,        \* targets that count as replicas
    activating,       \* targets that are becoming replicas
    busy,             \* targets with an occupant
    failures,         \* of each target, in a row
    cooling,          \* targets whose cooldown runs
    threads,          \* request threads
    main,             \* the coordinator
    late,             \* requests whose deadline has passed
    stopped,          \* cancelled() or the timeout of the plan
    errors,           \* cleanup_errors is not empty
    orphans,          \* ghost: targets with a load that no thread waited for
                      \* to its confirmed end and no quarantine remembers
    uncounted,        \* ghost: loaded targets whose ensure failed
    raced             \* ghost: a target was chosen before it was forgotten

nodes == <<lease, model, quarantined>>
pool == <<owned, snapshots, activating, busy>>
health == <<failures, cooling>>
clock == <<policy, late, stopped>>
cleanup == <<acquired, errors>>
ghosts == <<orphans, uncounted, raced>>
vars == <<nodes, pool, health, threads, main, clock, cleanup, ghosts>>

(* Where a request thread, and the coordinator, stand.                     *)
At(pc) == [pc |-> pc, target |-> NoTarget]
MainAt(pc, left) == [pc |-> pc, target |-> NoTarget, left |-> left]

Init ==
    /\ policy \in Policies
    /\ lease = [t \in Targets |-> "free"]
    /\ model = [t \in Targets |-> "cold"]
    /\ quarantined = {}
    /\ acquired = {} /\ errors = FALSE
    /\ owned = [t \in Targets |-> "none"]
    /\ snapshots = {} /\ activating = {} /\ busy = {}
    /\ failures = [t \in Targets |-> 0] /\ cooling = {}
    /\ threads = [r \in Requests |-> At("new")]
    /\ main = MainAt("acquire", {})
    /\ late = {} /\ stopped = FALSE
    /\ orphans = {} /\ uncounted = {} /\ raced = FALSE

Owned == {t \in Targets : owned[t] # "none"}
Resident == {t \in Targets : model[t] # "cold"}
Counted == snapshots \cup activating

-----------------------------------------------------------------------------
(* Time and the nodes.                                                     *)

DeadlinePasses(r) ==
    /\ threads[r].pc # "done" /\ r \notin late
    /\ late' = late \cup {r}
    /\ UNCHANGED <<nodes, pool, health, threads, main, policy, stopped, cleanup,
                   ghosts>>

Stop ==
    /\ ~stopped
    /\ stopped' = TRUE
    /\ UNCHANGED <<nodes, pool, health, threads, main, policy, late, cleanup,
                   ghosts>>

CooldownEnds(t) ==
    /\ t \in cooling
    /\ cooling' = cooling \ {t}
    /\ UNCHANGED <<nodes, pool, failures, threads, main, clock, cleanup, ghosts>>

(* A load nobody follows any more comes to its end.                        *)
NodeSettles(t) ==
    /\ model[t] = "loading"
    /\ \E m \in {"cold", "resident"} : model' = [model EXCEPT ![t] = m]
    /\ UNCHANGED <<lease, quarantined, pool, health, threads, main, clock,
                   cleanup, ghosts>>

-----------------------------------------------------------------------------
(* ensure, for a request thread or for the coordinator's warm-up.          *)

Moves(r, next) == threads' = [threads EXCEPT ![r] = next] /\ UNCHANGED main

(* The deployment loses its worker, and what was loaded its epoch.         *)
Dies(t) ==
    /\ model' = [model EXCEPT ![t] = "cold"]
    /\ owned' = [owned EXCEPT ![t] = IF @ = "none" THEN @ ELSE "stale"]

(* A metadata call raises: it failed, or it cost the worker, which a local *)
(* endpoint sees and quarantines.  The coordinator sees no difference in   *)
(* the answer of a remote node, whose deployment stays ready: the first    *)
(* case.                                                                   *)
CallRaises(t) ==
    /\ \/ UNCHANGED <<model, owned, quarantined>>
       \/ /\ model[t] = "resident" /\ Dies(t)
          /\ quarantined' = quarantined \cup {t}
    /\ UNCHANGED <<lease, snapshots, activating, busy>>

(* One endpoint call of ensure for target t, and where it leads.           *)
EnsureLook(t, pc) ==
    /\ \/ model[t] = "resident" /\ pc = "adopt" /\ UNCHANGED <<nodes, pool>>
       \/ model[t] # "resident" /\ pc = "load" /\ UNCHANGED <<nodes, pool>>
       \/ pc = "raise" /\ CallRaises(t)
    /\ UNCHANGED ghosts

(* load and await_run.  The node takes a load only when it is cold.  A     *)
(* load left running quarantines the endpoint when its status is lost or   *)
(* its cancel is not acknowledged in time, but not when the cancel itself  *)
(* raises (or the second POST is refused after a lost first answer).       *)
EnsureLoad(t, pc) ==
    /\ \/ /\ pc = "confirm" /\ model[t] = "cold"
          /\ model' = [model EXCEPT ![t] = "resident"]
          /\ UNCHANGED <<quarantined, orphans>>
       \/ pc = "raise" /\ UNCHANGED <<model, quarantined, orphans>>
       \/ /\ pc = "raise" /\ model[t] = "cold"
          /\ model' = [model EXCEPT ![t] = "loading"]
          /\ \/ quarantined' = quarantined \cup {t} /\ UNCHANGED orphans
             \/ orphans' = orphans \cup {t} /\ UNCHANGED quarantined
    /\ UNCHANGED <<lease, pool, uncounted, raced>>

(* load() takes a snapshot before it returns the identity of the replica.  *)
EnsureConfirm(t, pc) ==
    \/ /\ pc = "adopt"
       /\ owned' = [owned EXCEPT ![t] = "current"]
       /\ UNCHANGED <<nodes, snapshots, activating, busy, ghosts>>
    \/ /\ pc = "raise" /\ CallRaises(t)
       /\ orphans' = orphans \cup {t}
       /\ UNCHANGED <<uncounted, raced>>

(* The second snapshot, the identity and the comparison with the other     *)
(* replicas, any of which may raise.                                       *)
EnsureAdopt(t, pc) ==
    \/ /\ pc = "ok"
       /\ snapshots' = snapshots \cup {t}
       /\ UNCHANGED <<nodes, owned, activating, busy, ghosts>>
    \/ pc = "raise" /\ CallRaises(t) /\ UNCHANGED ghosts

Ensure(at, t, pc) ==
    \/ at = "look" /\ EnsureLook(t, pc)
    \/ at = "load" /\ EnsureLoad(t, pc)
    \/ at = "confirm" /\ EnsureConfirm(t, pc)
    \/ at = "adopt" /\ EnsureAdopt(t, pc)

EnsureSteps == {"look", "load", "confirm", "adopt"}

-----------------------------------------------------------------------------
(* request, on a thread of the workload.                                   *)

(* Mutant of Room: replicas that are still loading are not counted.        *)
Room_ReadyOnly(t) == t \notin snapshots => Cardinality(snapshots) < policy.max

Room(t) == t \notin snapshots => Cardinality(Counted) < policy.max

ChooseTarget(r, t) ==
    /\ threads[r].pc = "choose"
    /\ ~stopped /\ r \notin late
    /\ t \notin busy /\ t \notin cooling /\ t \notin quarantined
    /\ Room(t)
    /\ busy' = busy \cup {t}
    /\ activating' = IF t \in snapshots THEN activating ELSE activating \cup {t}
    /\ raced' = (raced \/ \E q \in Requests : threads[q] = [pc |-> "forget", target |-> t])
    /\ Moves(r, [pc |-> "look", target |-> t])
    /\ UNCHANGED <<nodes, owned, snapshots, health, clock, cleanup, orphans, uncounted>>

(* Mutant of ChooseRaises: the deadline is not looked at while waiting.    *)
ChooseRaises_NoDeadline(r) ==
    /\ threads[r].pc = "choose"
    /\ stopped \/ quarantined = Targets
    /\ Moves(r, At("done"))
    /\ UNCHANGED <<nodes, pool, health, clock, cleanup, ghosts>>

(* No confirmed target is left, or the wait is cancelled or too long.      *)
ChooseRaises(r) ==
    /\ threads[r].pc = "choose"
    /\ stopped \/ r \in late \/ quarantined = Targets
    /\ Moves(r, At("done"))
    /\ UNCHANGED <<nodes, pool, health, clock, cleanup, ghosts>>

RequestEnsures(r) ==
    LET t == threads[r].target
    IN  /\ threads[r].pc \in EnsureSteps
        /\ \E pc \in EnsureSteps \cup {"ok", "raise"} :
               /\ Ensure(threads[r].pc, t, pc)
               /\ Moves(r, [pc |-> pc, target |-> t])
        /\ UNCHANGED <<health, clock, cleanup>>

(* The except clause of choose ...                                         *)
ChooseUnwinds(r) ==
    LET t == threads[r].target
    IN  /\ threads[r].pc = "raise"
        /\ busy' = busy \ {t}
        /\ cooling' = cooling \cup {t}
        /\ uncounted' = IF model[t] = "cold" THEN uncounted ELSE uncounted \cup {t}
        /\ Moves(r, [pc |-> "forget", target |-> t])
        /\ UNCHANGED <<nodes, owned, snapshots, activating, failures, clock,
                       cleanup, orphans, raced>>

(* ... and its finally clause, after which request has a target, or none.  *)
ChooseForgets(r) ==
    LET t == threads[r].target
    IN  /\ threads[r].pc \in {"ok", "forget"}
        /\ activating' = activating \ {t}
        /\ Moves(r, IF threads[r].pc = "ok" THEN [pc |-> "serve", target |-> t]
                                            ELSE At("done"))
        /\ UNCHANGED <<nodes, owned, snapshots, busy, health, clock, cleanup, ghosts>>

(* The epoch is refreshed and the input prepared, which may raise; then a  *)
(* hit of the cache, or a generation, which may fail, cost the worker or   *)
(* stay unconfirmed.                                                       *)
Serves(r) ==
    LET t == threads[r].target
    IN  /\ threads[r].pc = "serve"
        /\ \/ /\ model[t] = "resident"
              /\ failures' = [failures EXCEPT ![t] = 0]
              /\ UNCHANGED <<nodes, pool, cooling>>
           \/ CallRaises(t) /\ UNCHANGED health
           \/ /\ model[t] = "resident"
              /\ failures' = [failures EXCEPT ![t] = IF @ < 2 THEN @ + 1 ELSE @]
              /\ cooling' = IF failures'[t] = 2 THEN cooling \cup {t} ELSE cooling
              /\ \/ UNCHANGED <<model, owned>> /\ quarantined' \in {quarantined, quarantined \cup {t}}
                 \/ Dies(t) /\ UNCHANGED quarantined
              /\ UNCHANGED <<lease, snapshots, activating, busy>>
        /\ Moves(r, [pc |-> "finish", target |-> t])
        /\ UNCHANGED <<clock, cleanup, ghosts>>

Finishes(r) ==
    LET t == threads[r].target
    IN  /\ threads[r].pc = "finish"
        /\ busy' = busy \ {t}
        /\ Moves(r, At("done"))
        /\ UNCHANGED <<nodes, owned, snapshots, activating, health, clock, cleanup, ghosts>>

Thread(r) ==
    \/ \E t \in Targets : ChooseTarget(r, t)
    \/ ChooseRaises(r) \/ RequestEnsures(r) \/ ChooseUnwinds(r)
    \/ ChooseForgets(r) \/ Serves(r) \/ Finishes(r)

-----------------------------------------------------------------------------
(* unload(key) of the coordinator, with its outcome: the node's epoch is   *)
(* compared, the child awaited, the books cleared.                         *)

Unload(t, raises) ==
    \/ /\ ~raises /\ owned[t] = "current"
       /\ model' = [model EXCEPT ![t] = "cold"]
       /\ owned' = [owned EXCEPT ![t] = "none"]
       /\ snapshots' = snapshots \ {t}
       /\ UNCHANGED <<lease, quarantined>>
    \/ /\ raises /\ owned[t] = "current"
       /\ UNCHANGED <<model, owned>> \/ Dies(t)
       /\ quarantined' \in {quarantined, quarantined \cup {t}}
       /\ UNCHANGED <<lease, snapshots>>
    \/ /\ raises /\ owned[t] = "stale"
       /\ quarantined' = quarantined \cup {t}
       /\ UNCHANGED <<lease, model, owned, snapshots>>

MainMoves(next) == main' = next /\ UNCHANGED threads

-----------------------------------------------------------------------------
(* execute and run, on the one thread of ApplicationJobs.                  *)

Acquire(t) ==
    /\ main.pc = "acquire" /\ t \notin acquired
    /\ \/ /\ lease' = [lease EXCEPT ![t] = "held"]
          /\ acquired' = acquired \cup {t}
          /\ MainMoves(IF acquired' = Targets THEN MainAt("check", {}) ELSE main)
          /\ UNCHANGED quarantined
       \/ /\ MainMoves(MainAt("finally", {}))
          /\ UNCHANGED <<lease, quarantined, acquired>>
       \/ /\ \E l \in {"free", "held"} : lease' = [lease EXCEPT ![t] = l]
          /\ quarantined' = quarantined \cup {t}
          /\ MainMoves(MainAt("finally", {}))
          /\ UNCHANGED acquired
    /\ UNCHANGED <<model, pool, health, clock, errors, ghosts>>

(* Every managed target must be cold and the run not cancelled yet.        *)
Check ==
    /\ main.pc = "check"
    /\ \/ ~stopped /\ MainMoves(MainAt("warm", {}))
       \/ MainMoves(MainAt("finally", {}))
    /\ UNCHANGED <<nodes, pool, health, clock, cleanup, ghosts>>

(* run warms min_replicas up; a failure here is before its try.            *)
Warm ==
    \/ /\ main.pc = "warm" /\ Cardinality(snapshots) < policy.min
       /\ \E t \in Targets \ snapshots : MainMoves([main EXCEPT !.pc = "look", !.target = t])
       /\ UNCHANGED <<nodes, pool, health, clock, cleanup, ghosts>>
    \/ /\ main.pc = "warm" /\ Cardinality(snapshots) >= policy.min
       /\ MainMoves(MainAt("submit", {}))
       /\ UNCHANGED <<nodes, pool, health, clock, cleanup, ghosts>>

WarmEnsures ==
    /\ main.pc \in EnsureSteps
    /\ \E pc \in EnsureSteps \cup {"ok", "raise"} :
           /\ Ensure(main.pc, main.target, pc)
           /\ MainMoves(IF pc = "raise" THEN MainAt("finally", {})
                        ELSE IF pc = "ok" THEN MainAt("warm", {})
                        ELSE [main EXCEPT !.pc = pc])
    /\ UNCHANGED <<health, clock, cleanup>>

Submit(r) ==
    /\ main.pc = "submit" /\ threads[r].pc = "new"
    /\ Moves(r, At("choose"))
    /\ UNCHANGED <<nodes, pool, health, clock, cleanup, ghosts>>

(* Mutant of TickTakes: the occupant is not looked at.                     *)
TickTakes_Occupied(t) ==
    /\ main.pc = "submit" /\ \E r \in Requests : threads[r].pc = "new"
    /\ t \in Owned
    /\ Cardinality(snapshots) > policy.min
    /\ busy' = busy \cup {t}
    /\ MainMoves([main EXCEPT !.pc = "tick", !.target = t])
    /\ UNCHANGED <<nodes, owned, snapshots, activating, health, clock, cleanup, ghosts>>

(* tick looks at one idle replica between two arrivals.                    *)
TickTakes(t) ==
    /\ main.pc = "submit" /\ \E r \in Requests : threads[r].pc = "new"
    /\ t \in Owned /\ t \notin busy
    /\ Cardinality(snapshots) > policy.min
    /\ busy' = busy \cup {t}
    /\ MainMoves([main EXCEPT !.pc = "tick", !.target = t])
    /\ UNCHANGED <<nodes, owned, snapshots, activating, health, clock, cleanup, ghosts>>

TickUnloads ==
    /\ main.pc = "tick"
    /\ \E raises \in BOOLEAN :
           /\ Unload(main.target, raises)
           /\ MainMoves([main EXCEPT !.pc = IF raises THEN "tickfailed" ELSE "ticked"])
    /\ UNCHANGED <<activating, busy, health, clock, cleanup, ghosts>>

TickEnds ==
    /\ main.pc \in {"ticked", "tickfailed"}
    /\ busy' = busy \ {main.target}
    /\ MainMoves(MainAt(IF main.pc = "ticked" THEN "submit" ELSE "join", {}))
    /\ UNCHANGED <<nodes, owned, snapshots, activating, health, clock, cleanup, ghosts>>

(* Everything is submitted, or the loop gives up.  Leaving the executor's  *)
(* with block waits for the threads that were started.                     *)
SubmitEnds ==
    /\ main.pc = "submit"
    /\ stopped \/ \A r \in Requests : threads[r].pc # "new"
    /\ MainMoves(MainAt("join", {}))
    /\ UNCHANGED <<nodes, pool, health, clock, cleanup, ghosts>>

Joined == \A r \in Requests : threads[r].pc \in {"new", "done"}

Join ==
    /\ main.pc = "join" /\ Joined
    /\ MainMoves(MainAt("drain", {}))
    /\ UNCHANGED <<nodes, pool, health, clock, cleanup, ghosts>>

(* The finally clause of run: the first unload that raises ends it.        *)
Drain(t) ==
    /\ main.pc = "drain" /\ t \in Owned
    /\ \E raises \in BOOLEAN :
           /\ Unload(t, raises)
           /\ MainMoves(IF raises THEN MainAt("finally", {}) ELSE main)
    /\ UNCHANGED <<activating, busy, health, clock, cleanup, ghosts>>

Drained ==
    /\ main.pc = "drain" /\ Owned = {}
    /\ MainMoves(MainAt("finally", {}))
    /\ UNCHANGED <<nodes, pool, health, clock, cleanup, ghosts>>

(* The finally clause of execute: what is still owned is unloaded, each    *)
(* once, then every lease that was acquired is given back, each once.  An  *)
(* error is kept and the next one tried.                                   *)
FinallyBegins ==
    /\ main.pc = "finally"
    /\ errors' = (quarantined \ acquired # {})
    /\ MainMoves(MainAt("unload", Owned))
    /\ UNCHANGED <<nodes, pool, health, clock, acquired, ghosts>>

FinallyUnloads(t) ==
    /\ main.pc = "unload" /\ t \in main.left
    /\ \E raises \in BOOLEAN :
           /\ Unload(t, raises)
           /\ errors' = (errors \/ raises)
    /\ MainMoves([main EXCEPT !.left = @ \ {t}])
    /\ UNCHANGED <<activating, busy, health, clock, acquired, ghosts>>

FinallyUnloaded ==
    /\ main.pc = "unload" /\ main.left = {}
    /\ MainMoves(MainAt("release", acquired))
    /\ UNCHANGED <<nodes, pool, health, clock, cleanup, ghosts>>

(* Mutant of Release: the coordinator's own quarantine is not looked at.   *)
Release_IgnoresQuarantine(t) ==
    /\ main.pc = "release" /\ t \in main.left
    /\ model[t] # "loading"
    /\ lease' = [lease EXCEPT ![t] = "free"]
    /\ MainMoves([main EXCEPT !.left = @ \ {t}])
    /\ UNCHANGED <<model, quarantined, pool, health, clock, cleanup, ghosts>>

(* release refuses a node in an unknown state, the node one that is busy;  *)
(* the answer may be lost on the way.                                      *)
Release(t) ==
    /\ main.pc = "release" /\ t \in main.left
    /\ \/ /\ t \notin quarantined /\ model[t] # "loading"
          /\ lease' = [lease EXCEPT ![t] = "free"]
          /\ errors' \in {errors, TRUE}
       \/ /\ errors' = TRUE
          /\ UNCHANGED lease
    /\ MainMoves([main EXCEPT !.left = @ \ {t}])
    /\ UNCHANGED <<model, quarantined, pool, health, clock, acquired, ghosts>>

(* The receipt is sealed and the run ends.                                 *)
Ends ==
    /\ main.pc = "release" /\ main.left = {}
    /\ MainMoves(MainAt("ended", {}))
    /\ UNCHANGED <<nodes, pool, health, clock, cleanup, ghosts>>

Main ==
    \/ \E t \in Targets : \/ Acquire(t) \/ TickTakes(t) \/ Drain(t)
                          \/ FinallyUnloads(t) \/ Release(t)
    \/ \E r \in Requests : Submit(r)
    \/ Check \/ Warm \/ WarmEnsures \/ TickUnloads \/ TickEnds
    \/ SubmitEnds \/ Join \/ Drained \/ FinallyBegins \/ FinallyUnloaded \/ Ends

-----------------------------------------------------------------------------
Next ==
    \/ Main
    \/ \E r \in Requests : Thread(r) \/ DeadlinePasses(r)
    \/ \E t \in Targets : CooldownEnds(t) \/ NodeSettles(t)
    \/ Stop

Spec == Init /\ [][Next]_vars

(* Threads run, endpoint calls return (each has a timeout) and deadlines   *)
(* pass.                                                                   *)
FairSpec ==
    /\ Spec
    /\ WF_vars(Main)
    /\ \A r \in Requests : WF_vars(Thread(r)) /\ WF_vars(DeadlinePasses(r))

-----------------------------------------------------------------------------
(* Properties.                                                             *)

Users(t) == {r \in Requests : threads[r].target = t /\ threads[r].pc # "forget"}

Ticking(t) == main.pc \in {"tick", "ticked", "tickfailed"} /\ main.target = t

(* One active request per endpoint, and no replica is unloaded under one:  *)
(* a target that a request or an unload works on is marked busy and has no *)
(* other occupant, through every error path of choose, request and tick.   *)
OneOccupant ==
    \A t \in Targets :
        /\ Cardinality(Users(t)) + (IF main.target = t THEN 1 ELSE 0) <= 1
        /\ t \in busy <=> (Users(t) # {} \/ Ticking(t))
        /\ main.pc \in {"drain", "finally", "unload", "release", "ended"} => Users(t) = {}

(* A node is never given back while a load of the experiment goes on, not  *)
(* even one whose cancel raised and that only the node still knows of; and *)
(* not silently with a replica of the experiment on it: cleanup then says  *)
(* failed, whatever went wrong on the way.  A clean end has given back     *)
(* every node.  Left out of the second part are the targets of orphans,    *)
(* whose replica nobody owns: the load completed and its confirmation      *)
(* raised, or it was left running by a cancel that raised.                 *)
NoSilentLeak ==
    /\ \A t \in Targets : lease[t] = "free" =>
           /\ model[t] # "loading"
           /\ model[t] = "resident" => errors \/ t \in orphans
    /\ main.pc = "ended" /\ ~errors =>
           Owned = {} /\ \A t \in Targets : lease[t] = "free"

(* max_replicas bounds what is counted as a replica, and everything that   *)
(* is resident or loading is counted, except a replica whose ensure failed *)
(* after its load.  A target chosen again before the thread that failed on *)
(* it left choose breaks the count.                                        *)
ReplicasBounded ==
    main.pc \in {"submit", "tick", "ticked", "tickfailed", "join"} =>
        /\ raced \/ Cardinality(Counted) <= policy.max
        /\ raced \/ Resident \subseteq Counted \cup uncounted

(* The experiment ends, with every thread it started.                      *)
ExperimentEnds == <>(main.pc = "ended" /\ Joined)
=============================================================================
