----------------------- MODULE ApplicationEngineProofs -----------------------
(***************************************************************************)
(* Proofs about ApplicationEngine, for any targets, requests and autoscale *)
(* policies: an endpoint has one occupant, no node is given back silently  *)
(* with a replica or a load of the experiment on it, and max_replicas      *)
(* bounds the replicas.                                                    *)
(*                                                                         *)
(* The three invariants speak of marks (busy, snapshots, activating, the   *)
(* lease, owned) that different steps set and clear.  The inductive        *)
(* invariant says for each mark which thread is responsible for it now.    *)
(***************************************************************************)
EXTENDS ApplicationEngine, FiniteSetTheorems, TLAPS

\* Where a thread has no target, and the phases of the coordinator.
Nowhere == {"new", "choose", "done"}
Ticks == {"tick", "ticked", "tickfailed"}
Before == {"acquire", "check", "warm"} \cup EnsureSteps
Serving == {"submit", "join"} \cup Ticks
After == {"drain", "finally", "unload", "release", "ended"}

ThreadType ==
    [pc : Nowhere \cup EnsureSteps \cup {"ok", "raise", "forget", "serve", "finish"},
     target : Targets \cup {NoTarget}]

TypeOK ==
    /\ policy \in Policies
    /\ lease \in [Targets -> {"free", "held"}]
    /\ model \in [Targets -> {"cold", "loading", "resident"}]
    /\ owned \in [Targets -> {"none", "current", "stale"}]
    /\ quarantined \subseteq Targets /\ acquired \subseteq Targets
    /\ snapshots \subseteq Targets /\ activating \subseteq Targets
    /\ busy \subseteq Targets
    /\ threads \in [Requests -> ThreadType]
    /\ main \in [pc : Before \cup Serving \cup After,
                 target : Targets \cup {NoTarget}, left : SUBSET Targets]
    /\ errors \in BOOLEAN /\ raced \in BOOLEAN

\* Threads exist between submit and join, and have a target while they use it.
PlaceOK ==
    /\ \A r \in Requests : threads[r].target = NoTarget <=> threads[r].pc \in Nowhere
    /\ main.target # NoTarget <=> main.pc \in EnsureSteps \cup Ticks
    /\ main.pc \in Before => \A r \in Requests : threads[r].pc = "new"
    /\ main.pc \in After => Joined

\* Who marked a target busy.
OccupantOK ==
    /\ \A t \in Targets : \A r, q \in Users(t) : r = q
    /\ busy = {t \in Targets : Users(t) # {} \/ Ticking(t)}
    /\ \A t \in Targets : Ticking(t) => Users(t) = {}

\* Which leases are held, and that nothing is loaded before all are.
LeaseOK ==
    /\ main.pc \notin {"acquire", "finally", "unload", "release", "ended"} => acquired = Targets
    /\ main.pc \notin {"release", "ended"} => \A t \in acquired : lease[t] = "held"
    /\ \A t \in Targets : lease[t] = "held" => t \in acquired \cup quarantined
    /\ acquired # Targets => \A t \in Targets : model[t] = "cold" /\ owned[t] = "none"
    /\ \A t \in Targets : model[t] = "loading" => t \in quarantined \cup orphans

\* Who answers for a replica: its owner, or the thread whose load is confirmed.
Confirming(t) ==
    \/ main.pc = "confirm" /\ main.target = t
    \/ \E r \in Requests : threads[r].pc = "confirm" /\ threads[r].target = t

OwnedOK ==
    \A t \in Targets \ (quarantined \cup orphans) :
        model[t] = "resident" => owned[t] # "none" \/ Confirming(t)

\* What the cleanup has left over is in its errors.
CleanOK ==
    /\ main.pc = "unload" /\ ~errors => Owned \subseteq main.left
    /\ main.pc \in {"release", "ended"} /\ ~errors =>
           Owned = {} /\ \A t \in acquired \ main.left : lease[t] = "free"
    /\ main.pc \in {"unload", "release", "ended"} /\ ~errors => quarantined \subseteq acquired
    /\ main.pc = "ended" => main.left = {}

FreeOK ==
    \A t \in Targets : lease[t] = "free" =>
        /\ model[t] # "loading"
        /\ model[t] = "resident" => errors \/ t \in orphans

\* Which threads keep a target counted.
CountOK ==
    /\ ~raced => \A r, q \in Requests :
           threads[r].target = threads[q].target /\ threads[r].target # NoTarget => r = q
    /\ ~raced => \A r \in Requests : threads[r].pc \in EnsureSteps => threads[r].target \in Counted
    /\ \A r \in Requests : threads[r].pc = "ok" => threads[r].target \in snapshots
    /\ ~raced => \A r \in Requests : threads[r].pc = "forget" =>
           \/ threads[r].target \in snapshots \cup uncounted
           \/ model[threads[r].target] = "cold"

\* The replicas of the warm-up.
WarmOK ==
    /\ main.pc \in Before => activating = {}
    /\ main.pc \in {"acquire", "check"} =>
           snapshots = {} /\ \A t \in Targets : model[t] = "cold"
    /\ main.pc = "warm" => /\ Cardinality(snapshots) <= policy.min
                           /\ Resident \subseteq snapshots
    /\ main.pc \in EnsureSteps => /\ Cardinality(snapshots) < policy.min
                                  /\ Resident \subseteq snapshots \cup {main.target}

\* The inductive invariant.
Inv ==
    /\ TypeOK /\ PlaceOK /\ OccupantOK /\ LeaseOK /\ OwnedOK /\ CleanOK /\ FreeOK
    /\ CountOK /\ WarmOK /\ ReplicasBounded

-----------------------------------------------------------------------------
\* Sets of targets are counted by numbers.
LEMMA Counting ==
  ASSUME NEW S \in SUBSET Targets
  PROVE  IsFiniteSet(S) /\ Cardinality(S) \in Nat
BY ReplicaAssumption, FS_Subset, FS_CardinalityType

\* A subset of the targets is no larger than the set it is part of.
LEMMA Fewer ==
  ASSUME NEW S \in SUBSET Targets, NEW T \in SUBSET S
  PROVE  Cardinality(T) <= Cardinality(S)
BY Counting, FS_Subset

\* A target more raises a count by one at most.
LEMMA OneMore ==
  ASSUME NEW S \in SUBSET Targets, NEW t \in Targets
  PROVE  Cardinality(S \cup {t}) <= Cardinality(S) + 1
BY Counting, FS_AddElement

\* The experiment starts with cold nodes and no lease.
LEMMA Initially == Init => Inv
<1> SUFFICES ASSUME Init PROVE Inv
  OBVIOUS
<1> USE DEF At, MainAt, Nowhere, Ticks, Before, Serving, After, EnsureSteps
<1>1. TypeOK
  BY DEF Init, TypeOK, ThreadType
<1>2. PlaceOK
  BY DEF Init, PlaceOK
<1>3. OccupantOK
  BY ReplicaAssumption DEF Init, OccupantOK, Users, Ticking
<1>4. LeaseOK /\ OwnedOK /\ CleanOK /\ FreeOK
  BY DEF Init, LeaseOK, OwnedOK, CleanOK, FreeOK, Owned
<1>5. CountOK /\ WarmOK /\ ReplicasBounded
  BY DEF Init, CountOK, WarmOK, ReplicasBounded
<1>6. QED
  BY <1>1, <1>2, <1>3, <1>4, <1>5 DEF Inv

\* A thread that has been submitted and is not done runs between submit and
\* join, when every lease is held.
LEMMA ServingNow ==
  ASSUME Inv, main.pc \in Serving
  PROVE  acquired = Targets /\ \A t \in Targets : lease[t] = "held"
BY DEF Inv, LeaseOK, Serving, Ticks

\* A request thread that is under way runs inside the serving phase of the experiment.
LEMMA ThreadRuns ==
  ASSUME Inv, NEW r \in Requests, threads[r].pc \notin {"new", "done"}
  PROVE  main.pc \in Serving
BY DEF Inv, TypeOK, PlaceOK, Joined, Before, Serving, After

\* What no step of that time can disturb.
LEMMA ServingKeeps ==
  ASSUME Inv, main.pc \in Serving, main'.pc \in Serving, UNCHANGED <<lease, acquired>>,
         \A t \in Targets : model'[t] = "loading" => t \in quarantined' \cup orphans'
  PROVE  LeaseOK' /\ CleanOK' /\ FreeOK' /\ WarmOK'
<1>1. acquired = Targets /\ \A t \in Targets : lease[t] = "held"
  BY ServingNow
<1>2. main'.pc \notin {"unload", "release", "ended", "acquire", "check", "warm"} \cup EnsureSteps
  BY DEF Serving, Ticks, EnsureSteps
<1>3. LeaseOK'
  BY <1>1 DEF LeaseOK
<1>4. CleanOK' /\ FreeOK'
  BY <1>1, <1>2 DEF CleanOK, FreeOK
<1>5. WarmOK'
  BY <1>2 DEF WarmOK, Before
<1>6. QED
  BY <1>3, <1>4, <1>5

\* One thread moves.
LEMMA Moved ==
  ASSUME TypeOK, NEW r \in Requests, NEW next \in ThreadType, Moves(r, next)
  PROVE  /\ threads' \in [Requests -> ThreadType] /\ threads'[r] = next
         /\ \A q \in Requests \ {r} : threads'[q] = threads[q]
         /\ main' = main
BY DEF TypeOK, Moves

\* A thread that takes no part in a load moves, and the nodes stay as they are.
LEMMA OwnedStays ==
  ASSUME Inv, UNCHANGED <<model, quarantined, orphans, owned, main>>,
         \A q \in Requests : threads[q].pc = "confirm" => threads'[q] = threads[q]
  PROVE  OwnedOK'
BY DEF Inv, OwnedOK, Confirming

\* choose takes a free target and counts it.
LEMMA ChooseTargetStep ==
  ASSUME Inv, NEW r \in Requests, NEW t \in Targets, ChooseTarget(r, t)
  PROVE  Inv'
<1> USE DEF Inv, nodes, pool, clock, cleanup, ghosts
<1> DEFINE next == [pc |-> "look", target |-> t]
<1>1. /\ threads[r].pc = "choose" /\ t \notin busy /\ Room(t) /\ Moves(r, next)
      /\ busy' = busy \cup {t}
      /\ activating' = IF t \in snapshots THEN activating ELSE activating \cup {t}
      /\ raced' = (raced \/ \E q \in Requests : threads[q] = [pc |-> "forget", target |-> t])
      /\ UNCHANGED <<lease, model, quarantined, owned, snapshots, policy, acquired, errors,
                     orphans, uncounted>>
  BY DEF ChooseTarget
<1>2. next \in ThreadType /\ next.target = t /\ next.pc = "look"
  BY DEF ThreadType, EnsureSteps
<1> HIDE DEF next
<1>3. /\ threads' \in [Requests -> ThreadType] /\ threads'[r] = next
      /\ \A q \in Requests \ {r} : threads'[q] = threads[q]
      /\ main' = main
  BY <1>1, <1>2, Moved
<1>4. main.pc \in Serving /\ t # NoTarget
  BY <1>1, ThreadRuns, ReplicaAssumption
<1>5. TypeOK'
  BY <1>1, <1>3 DEF TypeOK
<1>6. PlaceOK'
  BY <1>2, <1>3, <1>4 DEF PlaceOK, Serving, Ticks, Before, After, EnsureSteps, Nowhere
<1>7. /\ \A q \in Requests : threads[q].target = t => threads[q].pc = "forget"
      /\ ~Ticking(t)
  BY <1>1 DEF OccupantOK, Users
<1>8. OccupantOK'
  <2>1. Users(t)' = {r}
    BY <1>2, <1>3, <1>7 DEF Users
  <2>2. \A s \in Targets : Ticking(s)' <=> Ticking(s)
    BY <1>3 DEF Ticking
  <2>3. \A s \in Targets \ {t} : Users(s)' = Users(s)
    <3>1. threads[r].target = NoTarget /\ NoTarget \notin Targets
      BY <1>1, ReplicaAssumption DEF PlaceOK, Nowhere
    <3>2. QED
      BY <1>2, <1>3, <3>1 DEF Users
  <2>4. busy' = {s \in Targets : Users(s)' # {} \/ Ticking(s)'}
    BY <1>1, <2>1, <2>2, <2>3 DEF OccupantOK
  <2>5. QED
    BY <1>7, <2>1, <2>2, <2>3, <2>4 DEF OccupantOK
<1>9. OwnedOK'
  BY <1>1, <1>3, OwnedStays
<1>10. LeaseOK' /\ CleanOK' /\ FreeOK' /\ WarmOK'
  <2>1. \A s \in Targets : model'[s] = "loading" => s \in quarantined' \cup orphans'
    BY <1>1 DEF LeaseOK
  <2>2. QED
    BY <1>1, <1>3, <1>4, <2>1, ServingKeeps
<1>11. CountOK'
  <2>1. ~raced' => ~raced /\ \A q \in Requests : threads[q].target # t
    <3>1. \A q \in Requests : threads[q].pc = "forget" /\ threads[q].target = t =>
                                  threads[q] = [pc |-> "forget", target |-> t]
      BY DEF TypeOK, ThreadType
    <3>2. QED
      BY <1>1, <1>7, <3>1
  <2>2. t \in Counted' /\ Counted \subseteq Counted'
    BY <1>1 DEF Counted
  <2>3. ~raced' => \A p, q \in Requests :
           threads'[p].target = threads'[q].target /\ threads'[p].target # NoTarget => p = q
    BY <1>2, <1>3, <2>1 DEF CountOK
  <2>4. ~raced' => \A q \in Requests :
                       threads'[q].pc \in EnsureSteps => threads'[q].target \in Counted'
    BY <1>2, <1>3, <2>1, <2>2 DEF CountOK
  <2>5. \A q \in Requests : threads'[q].pc = "ok" => threads'[q].target \in snapshots'
    BY <1>1, <1>2, <1>3 DEF CountOK
  <2>6. ~raced' => \A q \in Requests : threads'[q].pc = "forget" =>
           \/ threads'[q].target \in snapshots' \cup uncounted'
           \/ model'[threads'[q].target] = "cold"
    BY <1>1, <1>2, <1>3, <2>1 DEF CountOK
  <2>7. QED
    BY <2>3, <2>4, <2>5, <2>6 DEF CountOK
<1>12. ReplicasBounded'
  <2>1. ~raced' => ~raced /\ Cardinality(Counted) <= policy.max /\ Resident \subseteq Counted \cup uncounted
    BY <1>1, <1>4 DEF ReplicasBounded, Serving, Ticks
  <2>2. Counted \in SUBSET Targets
    BY DEF TypeOK, Counted
  <2>3. CASE t \in snapshots
    <3>1. Counted' = Counted /\ Resident' = Resident
      BY <1>1, <2>3 DEF Counted, Resident
    <3>2. QED
      BY <1>1, <2>1, <3>1 DEF ReplicasBounded
  <2>4. CASE t \notin snapshots
    <3>1. Counted' = Counted \cup {t} /\ Resident' = Resident
      BY <1>1, <2>4 DEF Counted, Resident
    <3>2. Cardinality(Counted) < policy.max
      BY <1>1, <2>4 DEF Room
    <3>3. Cardinality(Counted') <= policy.max
      BY <2>2, <3>1, <3>2, OneMore, Counting, ReplicaAssumption DEF TypeOK
    <3>4. QED
      BY <1>1, <2>1, <3>1, <3>3 DEF ReplicasBounded
  <2>5. QED
    BY <2>3, <2>4
<1>13. QED
  BY <1>5, <1>6, <1>8, <1>9, <1>10, <1>11, <1>12

\* The occupants stay where they are.
LEMMA OccupantsStay ==
  ASSUME Inv, \A s \in Targets : Users(s)' = Users(s) /\ (Ticking(s)' <=> Ticking(s)),
         busy' = busy
  PROVE  OccupantOK'
BY DEF Inv, OccupantOK

\* The one user of a target leaves it.
LEMMA OccupantLeaves ==
  ASSUME Inv, NEW r \in Requests, NEW t \in Targets, r \in Users(t), main' = main,
         threads'[r].target = NoTarget \/ threads'[r].pc = "forget",
         \A q \in Requests \ {r} : threads'[q] = threads[q],
         busy' = busy \ {t}
  PROVE  OccupantOK'
<1>1. Users(t) = {r} /\ ~Ticking(t)
  BY DEF Inv, OccupantOK
<1>2. Users(t)' = {}
  BY <1>1, ReplicaAssumption DEF Users
<1>3. \A s \in Targets \ {t} : Users(s)' = Users(s)
  BY <1>1, ReplicaAssumption DEF Users
<1>4. \A s \in Targets : Ticking(s)' <=> Ticking(s)
  BY DEF Ticking
<1>5. QED
  BY <1>1, <1>2, <1>3, <1>4 DEF Inv, OccupantOK

\* choose gives up before it has a target.
LEMMA ChooseRaisesStep ==
  ASSUME Inv, NEW r \in Requests, ChooseRaises(r)
  PROVE  Inv'
<1> USE DEF Inv, nodes, pool, clock, cleanup, ghosts
<1> DEFINE next == At("done")
<1>1. /\ threads[r].pc = "choose" /\ Moves(r, next)
      /\ UNCHANGED <<lease, model, quarantined, owned, snapshots, activating, busy, policy,
                     acquired, errors, orphans, uncounted, raced>>
  BY DEF ChooseRaises
<1>2. next \in ThreadType /\ next.target = NoTarget /\ next.pc = "done"
  BY DEF ThreadType, At, Nowhere
<1> HIDE DEF next
<1>3. /\ threads' \in [Requests -> ThreadType] /\ threads'[r] = next
      /\ \A q \in Requests \ {r} : threads'[q] = threads[q]
      /\ main' = main
  BY <1>1, <1>2, Moved
<1>4. main.pc \in Serving /\ threads[r].target = NoTarget
  BY <1>1, ThreadRuns DEF PlaceOK, Nowhere
<1>5. TypeOK'
  BY <1>1, <1>3 DEF TypeOK
<1>6. PlaceOK'
  BY <1>2, <1>3, <1>4 DEF PlaceOK, Serving, Ticks, Before, After, EnsureSteps, Nowhere
<1>7. OccupantOK'
  <2>1. \A s \in Targets : Users(s)' = Users(s)
    BY <1>2, <1>3, <1>4, ReplicaAssumption DEF Users
  <2>2. \A s \in Targets : Ticking(s)' <=> Ticking(s)
    BY <1>3 DEF Ticking
  <2>3. QED
    BY <1>1, <2>1, <2>2, OccupantsStay
<1>8. OwnedOK'
  BY <1>1, <1>3, OwnedStays
<1>9. LeaseOK' /\ CleanOK' /\ FreeOK' /\ WarmOK'
  <2>1. \A s \in Targets : model'[s] = "loading" => s \in quarantined' \cup orphans'
    BY <1>1 DEF LeaseOK
  <2>2. QED
    BY <1>1, <1>3, <1>4, <2>1, ServingKeeps
<1>10. CountOK' /\ ReplicasBounded'
  BY <1>1, <1>2, <1>3, <1>4 DEF CountOK, ReplicasBounded, Counted, Resident, EnsureSteps
<1>11. QED
  BY <1>5, <1>6, <1>7, <1>8, <1>9, <1>10

\* Its except clause: the target is free again.
LEMMA ChooseUnwindsStep ==
  ASSUME Inv, NEW r \in Requests, ChooseUnwinds(r)
  PROVE  Inv'
<1> USE DEF Inv, nodes, pool, clock, cleanup, ghosts
<1> DEFINE t == threads[r].target
           next == [pc |-> "forget", target |-> t]
<1>1. /\ threads[r].pc = "raise" /\ Moves(r, next) /\ busy' = busy \ {t}
      /\ uncounted' = IF model[t] = "cold" THEN uncounted ELSE uncounted \cup {t}
      /\ UNCHANGED <<lease, model, quarantined, owned, snapshots, activating, policy,
                     acquired, errors, orphans, raced>>
  BY DEF ChooseUnwinds
<1>2. t \in Targets
  BY <1>1 DEF TypeOK, ThreadType, PlaceOK, Nowhere
<1>3. next \in ThreadType /\ next.target = t /\ next.pc = "forget"
  BY <1>2 DEF ThreadType
<1> HIDE DEF next
<1>4. /\ threads' \in [Requests -> ThreadType] /\ threads'[r] = next
      /\ \A q \in Requests \ {r} : threads'[q] = threads[q]
      /\ main' = main
  BY <1>1, <1>3, Moved
<1>5. main.pc \in Serving
  BY <1>1, ThreadRuns
<1>6. TypeOK'
  BY <1>1, <1>4 DEF TypeOK
<1>7. PlaceOK'
  BY <1>1, <1>3, <1>4, <1>5 DEF PlaceOK, Serving, Ticks, Before, After, EnsureSteps, Nowhere
<1>8. OccupantOK'
  <2>1. r \in Users(t)
    BY <1>1 DEF Users
  <2>2. QED
    BY <1>1, <1>2, <1>3, <1>4, <2>1, OccupantLeaves
<1>9. OwnedOK'
  BY <1>1, <1>4, OwnedStays
<1>10. LeaseOK' /\ CleanOK' /\ FreeOK' /\ WarmOK'
  <2>1. \A s \in Targets : model'[s] = "loading" => s \in quarantined' \cup orphans'
    BY <1>1 DEF LeaseOK
  <2>2. QED
    BY <1>1, <1>4, <1>5, <2>1, ServingKeeps
<1>11. uncounted \subseteq uncounted' /\ (model[t] # "cold" => t \in uncounted')
  BY <1>1
<1>12. CountOK'
  <2>1. ~raced' => \A p, q \in Requests :
           threads'[p].target = threads'[q].target /\ threads'[p].target # NoTarget => p = q
    BY <1>1, <1>3, <1>4 DEF CountOK
  <2>2. ~raced' => \A q \in Requests :
                       threads'[q].pc \in EnsureSteps => threads'[q].target \in Counted'
    BY <1>1, <1>3, <1>4 DEF CountOK, EnsureSteps, Counted
  <2>3. \A q \in Requests : threads'[q].pc = "ok" => threads'[q].target \in snapshots'
    BY <1>1, <1>3, <1>4 DEF CountOK
  <2>4. ~raced' => \A q \in Requests : threads'[q].pc = "forget" =>
           \/ threads'[q].target \in snapshots' \cup uncounted'
           \/ model'[threads'[q].target] = "cold"
    BY <1>1, <1>3, <1>4, <1>11 DEF CountOK
  <2>5. QED
    BY <2>1, <2>2, <2>3, <2>4 DEF CountOK
<1>13. ReplicasBounded'
  BY <1>1, <1>4, <1>5, <1>11 DEF ReplicasBounded, Counted, Resident
<1>14. QED
  BY <1>6, <1>7, <1>8, <1>9, <1>10, <1>12, <1>13

\* Its finally clause: the target does not count as becoming a replica any more.
LEMMA ChooseForgetsStep ==
  ASSUME Inv, NEW r \in Requests, ChooseForgets(r)
  PROVE  Inv'
<1> USE DEF Inv, nodes, pool, clock, cleanup, ghosts
<1> DEFINE t == threads[r].target
           next == IF threads[r].pc = "ok" THEN [pc |-> "serve", target |-> t] ELSE At("done")
<1>1. /\ threads[r].pc \in {"ok", "forget"} /\ Moves(r, next) /\ activating' = activating \ {t}
      /\ UNCHANGED <<lease, model, quarantined, owned, snapshots, busy, policy,
                     acquired, errors, orphans, uncounted, raced>>
  BY DEF ChooseForgets
<1>2. t \in Targets
  BY <1>1 DEF TypeOK, ThreadType, PlaceOK, Nowhere
<1>3. /\ next \in ThreadType
      /\ threads[r].pc = "ok" => next.target = t /\ next.pc = "serve"
      /\ threads[r].pc = "forget" => next.target = NoTarget /\ next.pc = "done"
  BY <1>2 DEF ThreadType, At, Nowhere
<1> HIDE DEF next
<1>4. /\ threads' \in [Requests -> ThreadType] /\ threads'[r] = next
      /\ \A q \in Requests \ {r} : threads'[q] = threads[q]
      /\ main' = main
  BY <1>1, <1>3, Moved
<1>5. main.pc \in Serving
  BY <1>1, ThreadRuns
<1>6. TypeOK'
  BY <1>1, <1>4 DEF TypeOK
<1>7. PlaceOK'
  BY <1>1, <1>2, <1>3, <1>4, <1>5, ReplicaAssumption
  DEF PlaceOK, Serving, Ticks, Before, After, EnsureSteps, Nowhere
<1>8. OccupantOK'
  <2>1. \A s \in Targets : Users(s)' = Users(s)
    BY <1>1, <1>3, <1>4, ReplicaAssumption DEF Users
  <2>2. \A s \in Targets : Ticking(s)' <=> Ticking(s)
    BY <1>4 DEF Ticking
  <2>3. QED
    BY <1>1, <2>1, <2>2, OccupantsStay
<1>9. OwnedOK'
  BY <1>1, <1>4, OwnedStays
<1>10. LeaseOK' /\ CleanOK' /\ FreeOK' /\ WarmOK'
  <2>1. \A s \in Targets : model'[s] = "loading" => s \in quarantined' \cup orphans'
    BY <1>1 DEF LeaseOK
  <2>2. QED
    BY <1>1, <1>4, <1>5, <2>1, ServingKeeps
<1>11. CountOK'
  <2>1. ~raced' => \A p, q \in Requests :
           threads'[p].target = threads'[q].target /\ threads'[p].target # NoTarget => p = q
    BY <1>1, <1>3, <1>4 DEF CountOK
  <2>2. ~raced' => \A q \in Requests :
                       threads'[q].pc \in EnsureSteps => threads'[q].target \in Counted'
    <3>1. SUFFICES ASSUME ~raced, NEW q \in Requests, threads'[q].pc \in EnsureSteps
                   PROVE  threads'[q].target \in Counted'
      BY <1>1
    <3>2. q # r
      BY <1>1, <1>3, <1>4, <3>1 DEF EnsureSteps
    <3>3. threads[q].pc \in EnsureSteps /\ threads[q].target \in Counted
      BY <1>4, <3>1, <3>2 DEF CountOK
    <3>4. threads[q].target # t
      BY <1>2, <3>1, <3>2, ReplicaAssumption DEF CountOK
    <3>5. QED
      BY <1>1, <1>4, <3>2, <3>3, <3>4 DEF Counted
  <2>3. \A q \in Requests : threads'[q].pc = "ok" => threads'[q].target \in snapshots'
    BY <1>1, <1>3, <1>4 DEF CountOK
  <2>4. ~raced' => \A q \in Requests : threads'[q].pc = "forget" =>
           \/ threads'[q].target \in snapshots' \cup uncounted'
           \/ model'[threads'[q].target] = "cold"
    BY <1>1, <1>3, <1>4 DEF CountOK
  <2>5. QED
    BY <2>1, <2>2, <2>3, <2>4 DEF CountOK
<1>12. ReplicasBounded'
  <2>1. ~raced => Cardinality(Counted) <= policy.max /\ Resident \subseteq Counted \cup uncounted
    BY <1>5 DEF ReplicasBounded, Serving, Ticks
  <2>2. Counted \in SUBSET Targets /\ Counted' \in SUBSET Counted /\ Resident' = Resident
        /\ Counted \subseteq Counted' \cup {t}
    BY <1>1 DEF TypeOK, Counted, Resident
  <2>3. Cardinality(Counted') <= Cardinality(Counted)
    BY <2>2, Fewer
  <2>4. Cardinality(Counted) \in Nat /\ Cardinality(Counted') \in Nat /\ policy.max \in Nat
    BY <2>2, Counting, ReplicaAssumption DEF TypeOK
  <2>5. ~raced => t \notin Resident \/ t \in snapshots \cup uncounted
    BY <1>1 DEF CountOK, Resident
  <2>6. ~raced => Resident \subseteq Counted' \cup uncounted
    BY <1>1, <2>1, <2>2, <2>5 DEF Counted
  <2>7. QED
    BY <1>1, <2>1, <2>2, <2>3, <2>4, <2>6 DEF ReplicasBounded
<1>13. QED
  BY <1>6, <1>7, <1>8, <1>9, <1>10, <1>11, <1>12

\* The request is over: its target is free again.
LEMMA FinishesStep ==
  ASSUME Inv, NEW r \in Requests, Finishes(r)
  PROVE  Inv'
<1> USE DEF Inv, nodes, pool, clock, cleanup, ghosts
<1> DEFINE t == threads[r].target
           next == At("done")
<1>1. /\ threads[r].pc = "finish" /\ Moves(r, next) /\ busy' = busy \ {t}
      /\ UNCHANGED <<lease, model, quarantined, owned, snapshots, activating, policy,
                     acquired, errors, orphans, uncounted, raced>>
  BY DEF Finishes
<1>2. t \in Targets
  BY <1>1 DEF TypeOK, ThreadType, PlaceOK, Nowhere
<1>3. next \in ThreadType /\ next.target = NoTarget /\ next.pc = "done"
  BY DEF ThreadType, At, Nowhere
<1> HIDE DEF next
<1>4. /\ threads' \in [Requests -> ThreadType] /\ threads'[r] = next
      /\ \A q \in Requests \ {r} : threads'[q] = threads[q]
      /\ main' = main
  BY <1>1, <1>3, Moved
<1>5. main.pc \in Serving
  BY <1>1, ThreadRuns
<1>6. TypeOK'
  BY <1>1, <1>4 DEF TypeOK
<1>7. PlaceOK'
  BY <1>3, <1>4, <1>5 DEF PlaceOK, Serving, Ticks, Before, After, EnsureSteps, Nowhere
<1>8. OccupantOK'
  <2>1. r \in Users(t)
    BY <1>1 DEF Users
  <2>2. QED
    BY <1>1, <1>2, <1>3, <1>4, <2>1, OccupantLeaves
<1>9. OwnedOK'
  BY <1>1, <1>4, OwnedStays
<1>10. LeaseOK' /\ CleanOK' /\ FreeOK' /\ WarmOK'
  <2>1. \A s \in Targets : model'[s] = "loading" => s \in quarantined' \cup orphans'
    BY <1>1 DEF LeaseOK
  <2>2. QED
    BY <1>1, <1>4, <1>5, <2>1, ServingKeeps
<1>11. CountOK' /\ ReplicasBounded'
  BY <1>1, <1>3, <1>4, <1>5 DEF CountOK, ReplicasBounded, Counted, Resident, EnsureSteps
<1>12. QED
  BY <1>6, <1>7, <1>8, <1>9, <1>10, <1>11

\* A call that raises, or a generation, can cost the replica of its target
\* and nothing else.
Worsens(t) ==
    /\ UNCHANGED <<lease, snapshots, activating, busy>>
    /\ model' \in [Targets -> {"cold", "loading", "resident"}]
    /\ owned' \in [Targets -> {"none", "current", "stale"}]
    /\ quarantined \subseteq quarantined' /\ quarantined' \subseteq Targets
    /\ \A s \in Targets \ {t} : model'[s] = model[s]
    /\ model'[t] \in {model[t], "cold"}
    /\ \A s \in Targets : owned'[s] = "none" <=> owned[s] = "none"

\* A call to a node that raises can only cool, disown or quarantine that node.
LEMMA CallWorsens ==
  ASSUME TypeOK, NEW t \in Targets, CallRaises(t)
  PROVE  Worsens(t)
<1>1. CASE UNCHANGED <<model, owned, quarantined>>
  BY <1>1 DEF CallRaises, TypeOK, Worsens
<1>2. CASE Dies(t) /\ quarantined' = quarantined \cup {t}
  BY <1>2 DEF CallRaises, TypeOK, Worsens, Dies
<1>3. QED
  BY <1>1, <1>2 DEF CallRaises

\* So can the call a request thread makes, which then goes on to its report.
LEMMA ServeWorsens ==
  ASSUME TypeOK, NEW r \in Requests, threads[r].target \in Targets, Serves(r)
  PROVE  /\ Worsens(threads[r].target)
         /\ threads[r].pc = "serve"
         /\ Moves(r, [pc |-> "finish", target |-> threads[r].target])
         /\ UNCHANGED <<policy, acquired, errors, orphans, uncounted, raced>>
<1> DEFINE t == threads[r].target
<1>1. Worsens(t)
  <2>1. CASE UNCHANGED <<nodes, pool>>
    BY <2>1 DEF Worsens, nodes, pool, TypeOK
  <2>2. CASE CallRaises(t)
    BY <2>2, CallWorsens
  <2>3. CASE /\ UNCHANGED <<model, owned>> \/ Dies(t)
             /\ quarantined' \in {quarantined, quarantined \cup {t}}
             /\ UNCHANGED <<lease, snapshots, activating, busy>>
    <3>1. CASE UNCHANGED <<model, owned>>
      BY <2>3, <3>1 DEF Worsens, TypeOK
    <3>2. CASE Dies(t)
      BY <2>3, <3>2 DEF Worsens, TypeOK, Dies
    <3>3. QED
      BY <2>3, <3>1, <3>2
  <2>4. QED
    BY <2>1, <2>2, <2>3 DEF Serves
<1>2. QED
  BY <1>1 DEF Serves, clock, cleanup, ghosts

\* What one endpoint call of ensure does to the books.
LEMMA EnsureEffect ==
  ASSUME TypeOK, OwnedOK, LeaseOK, NEW at \in EnsureSteps, NEW t \in Targets,
         NEW pc \in EnsureSteps \cup {"ok", "raise"}, Ensure(at, t, pc),
         at # "confirm" => ~Confirming(t)
  PROVE  /\ UNCHANGED <<lease, activating, busy, uncounted, raced>>
         /\ model' \in [Targets -> {"cold", "loading", "resident"}]
         /\ owned' \in [Targets -> {"none", "current", "stale"}]
         /\ quarantined' \in {quarantined, quarantined \cup {t}}
         /\ orphans' \in {orphans, orphans \cup {t}}
         /\ snapshots' = IF pc = "ok" THEN snapshots \cup {t} ELSE snapshots
         /\ \A s \in Targets \ {t} : model'[s] = model[s] /\ owned'[s] = owned[s]
         /\ model'[t] = "loading" => t \in quarantined' \cup orphans'
         /\ (model'[t] = "resident" /\ t \notin quarantined' \cup orphans') =>
                owned'[t] # "none" \/ pc = "confirm"
<1> USE DEF nodes, pool, ghosts
<1>1. CASE UNCHANGED <<nodes, pool, ghosts>> /\ at # "confirm" /\ pc # "ok"
  BY <1>1 DEF TypeOK, OwnedOK, LeaseOK
<1>2. CASE pc = "raise" /\ CallRaises(t) /\ at # "confirm" /\ UNCHANGED ghosts
  <2>1. CASE UNCHANGED <<model, owned, quarantined>>
    BY <1>2, <2>1 DEF CallRaises, TypeOK, OwnedOK, LeaseOK
  <2>2. CASE Dies(t) /\ quarantined' = quarantined \cup {t}
    BY <1>2, <2>2 DEF CallRaises, TypeOK, Dies
  <2>3. QED
    BY <1>2, <2>1, <2>2 DEF CallRaises
<1>3. CASE at = "look" /\ EnsureLook(t, pc)
  BY <1>1, <1>2, <1>3 DEF EnsureLook
<1>4. CASE at = "load" /\ EnsureLoad(t, pc)
  <2>1. CASE /\ pc = "confirm" /\ model' = [model EXCEPT ![t] = "resident"]
             /\ UNCHANGED <<quarantined, orphans>>
    BY <1>4, <2>1 DEF EnsureLoad, TypeOK
  <2>2. CASE pc = "raise" /\ UNCHANGED <<model, quarantined, orphans>>
    BY <1>1, <1>4, <2>2 DEF EnsureLoad
  <2>3. CASE /\ pc = "raise" /\ model' = [model EXCEPT ![t] = "loading"]
             /\ quarantined' = quarantined \cup {t} /\ UNCHANGED orphans
    BY <1>4, <2>3 DEF EnsureLoad, TypeOK
  <2>4. CASE /\ pc = "raise" /\ model' = [model EXCEPT ![t] = "loading"]
             /\ orphans' = orphans \cup {t} /\ UNCHANGED quarantined
    BY <1>4, <2>4 DEF EnsureLoad, TypeOK
  <2>5. QED
    BY <1>4, <2>1, <2>2, <2>3, <2>4 DEF EnsureLoad
<1>5. CASE at = "confirm" /\ EnsureConfirm(t, pc)
  <2>1. CASE pc = "adopt" /\ owned' = [owned EXCEPT ![t] = "current"]
             /\ UNCHANGED <<nodes, snapshots, activating, busy, ghosts>>
    BY <2>1 DEF TypeOK, LeaseOK
  <2>2. CASE pc = "raise" /\ CallRaises(t) /\ orphans' = orphans \cup {t}
             /\ UNCHANGED <<uncounted, raced>>
    <3>1. CASE UNCHANGED <<model, owned, quarantined>>
      BY <2>2, <3>1 DEF CallRaises, TypeOK, LeaseOK
    <3>2. CASE Dies(t) /\ quarantined' = quarantined \cup {t}
      BY <2>2, <3>2 DEF CallRaises, TypeOK, Dies
    <3>3. QED
      BY <2>2, <3>1, <3>2 DEF CallRaises
  <2>3. QED
    BY <1>5, <2>1, <2>2 DEF EnsureConfirm
<1>6. CASE at = "adopt" /\ EnsureAdopt(t, pc)
  <2>1. CASE pc = "ok" /\ snapshots' = snapshots \cup {t}
             /\ UNCHANGED <<nodes, owned, activating, busy, ghosts>>
    BY <1>6, <2>1 DEF TypeOK, OwnedOK, LeaseOK
  <2>2. QED
    BY <1>2, <1>6, <2>1 DEF EnsureAdopt
<1>7. QED
  BY <1>3, <1>4, <1>5, <1>6 DEF Ensure

\* A request makes an endpoint call of ensure.
LEMMA RequestEnsuresStep ==
  ASSUME Inv, NEW r \in Requests, RequestEnsures(r)
  PROVE  Inv'
<1> USE DEF Inv
<1> DEFINE t == threads[r].target
<1>1. PICK pc \in EnsureSteps \cup {"ok", "raise"} :
          Ensure(threads[r].pc, t, pc) /\ Moves(r, [pc |-> pc, target |-> t])
  BY DEF RequestEnsures
<1>2. threads[r].pc \in EnsureSteps /\ UNCHANGED <<policy, acquired, errors>>
  BY DEF RequestEnsures, clock, cleanup
<1>3. t \in Targets /\ t # NoTarget /\ r \in Users(t)
  BY <1>2, ReplicaAssumption DEF TypeOK, ThreadType, PlaceOK, Nowhere, EnsureSteps, Users
<1> DEFINE next == [pc |-> pc, target |-> t]
<1>4. next \in ThreadType /\ next.pc = pc /\ next.target = t
  BY <1>3 DEF ThreadType
<1> HIDE DEF next
<1>5. /\ threads' \in [Requests -> ThreadType] /\ threads'[r] = next
      /\ \A q \in Requests \ {r} : threads'[q] = threads[q]
      /\ main' = main
  BY <1>1, <1>4, Moved DEF next
<1>6. main.pc \in Serving
  BY <1>2, ThreadRuns DEF EnsureSteps
<1>7. \A q \in Requests : threads[q].pc = "confirm" /\ threads[q].target = t => q = r
  BY <1>3 DEF OccupantOK, Users
<1>8. threads[r].pc # "confirm" => ~Confirming(t)
  BY <1>6, <1>7 DEF Confirming, Serving, Ticks
<1> HIDE DEF t
<1>9. /\ UNCHANGED <<lease, activating, busy, uncounted, raced>>
      /\ model' \in [Targets -> {"cold", "loading", "resident"}]
      /\ owned' \in [Targets -> {"none", "current", "stale"}]
      /\ quarantined' \in {quarantined, quarantined \cup {t}}
      /\ orphans' \in {orphans, orphans \cup {t}}
      /\ snapshots' = IF pc = "ok" THEN snapshots \cup {t} ELSE snapshots
      /\ \A s \in Targets \ {t} : model'[s] = model[s] /\ owned'[s] = owned[s]
      /\ model'[t] = "loading" => t \in quarantined' \cup orphans'
      /\ (model'[t] = "resident" /\ t \notin quarantined' \cup orphans') =>
             owned'[t] # "none" \/ pc = "confirm"
  BY <1>1, <1>2, <1>3, <1>8, EnsureEffect
<1>10. TypeOK'
  BY <1>2, <1>3, <1>5, <1>9 DEF TypeOK
<1>11. PlaceOK'
  BY <1>2, <1>3, <1>4, <1>5, <1>6
  DEF PlaceOK, Serving, Ticks, Before, After, EnsureSteps, Nowhere, t
<1>12. OccupantOK'
  <2>1. \A s \in Targets : Users(s)' = Users(s)
    BY <1>2, <1>3, <1>4, <1>5 DEF Users, EnsureSteps, t
  <2>2. \A s \in Targets : Ticking(s)' <=> Ticking(s)
    BY <1>5 DEF Ticking
  <2>3. QED
    BY <1>9, <2>1, <2>2, OccupantsStay
<1>13. OwnedOK'
  <2> SUFFICES ASSUME NEW s \in Targets \ (quarantined' \cup orphans'), model'[s] = "resident",
                      owned'[s] = "none"
               PROVE  Confirming(s)'
    BY DEF OwnedOK
  <2>1. CASE s = t
    BY <1>4, <1>5, <1>9, <2>1 DEF Confirming
  <2>2. CASE s # t
    <3>1. Confirming(s)
      BY <1>9, <2>2 DEF OwnedOK
    <3>2. QED
      BY <1>5, <2>2, <3>1 DEF Confirming, t
  <2>3. QED
    BY <2>1, <2>2
<1>14. LeaseOK' /\ CleanOK' /\ FreeOK' /\ WarmOK'
  <2>1. \A s \in Targets : model'[s] = "loading" => s \in quarantined' \cup orphans'
    BY <1>9 DEF LeaseOK
  <2>2. QED
    BY <1>2, <1>5, <1>6, <1>9, <2>1, ServingKeeps
<1>15. snapshots \subseteq snapshots' /\ Counted \subseteq Counted' /\ (pc = "ok" => t \in snapshots')
  BY <1>9 DEF Counted
<1>16. ~raced => t \in Counted /\ \A q \in Requests \ {r} : threads[q].target # t
  BY <1>2, <1>3 DEF CountOK, t
<1>17. CountOK'
  <2>1. ~raced' => \A p, q \in Requests :
           threads'[p].target = threads'[q].target /\ threads'[p].target # NoTarget => p = q
    BY <1>4, <1>5, <1>9, <1>16 DEF CountOK
  <2>2. ~raced' => \A q \in Requests :
                       threads'[q].pc \in EnsureSteps => threads'[q].target \in Counted'
    BY <1>4, <1>5, <1>9, <1>15, <1>16 DEF CountOK
  <2>3. \A q \in Requests : threads'[q].pc = "ok" => threads'[q].target \in snapshots'
    BY <1>4, <1>5, <1>15 DEF CountOK
  <2>4. ~raced' => \A q \in Requests : threads'[q].pc = "forget" =>
           \/ threads'[q].target \in snapshots' \cup uncounted'
           \/ model'[threads'[q].target] = "cold"
    <3>1. SUFFICES ASSUME ~raced, NEW q \in Requests, threads'[q].pc = "forget"
                   PROVE  \/ threads'[q].target \in snapshots' \cup uncounted'
                          \/ model'[threads'[q].target] = "cold"
      BY <1>9
    <3>2. q # r
      BY <1>4, <1>5, <3>1 DEF EnsureSteps
    <3>3. threads'[q] = threads[q] /\ threads[q].target # t /\ threads[q].target \in Targets
      BY <1>5, <1>16, <3>1, <3>2 DEF PlaceOK, TypeOK, ThreadType, Nowhere
    <3>4. QED
      BY <1>9, <1>15, <3>1, <3>3 DEF CountOK
  <2>5. QED
    BY <2>1, <2>2, <2>3, <2>4 DEF CountOK
<1>18. ReplicasBounded'
  <2>1. SUFFICES ASSUME ~raced
                 PROVE  Cardinality(Counted') <= policy.max /\ Resident' \subseteq Counted' \cup uncounted
    BY <1>2, <1>9 DEF ReplicasBounded
  <2>2. Counted' = Counted
    BY <1>9, <1>16, <2>1 DEF Counted
  <2>3. Resident' \subseteq Resident \cup {t}
    BY <1>9 DEF Resident
  <2>4. QED
    BY <1>6, <1>16, <2>1, <2>2, <2>3 DEF ReplicasBounded, Serving, Ticks
<1>19. QED
  BY <1>10, <1>11, <1>12, <1>13, <1>14, <1>17, <1>18

\* A request is served, or its generation fails.
LEMMA ServesStep ==
  ASSUME Inv, NEW r \in Requests, Serves(r)
  PROVE  Inv'
<1> USE DEF Inv
<1> DEFINE t == threads[r].target
           next == [pc |-> "finish", target |-> t]
<1>0. threads[r].pc = "serve"
  BY DEF Serves
<1>1. t \in Targets
  BY <1>0 DEF TypeOK, ThreadType, PlaceOK, Nowhere
<1>2. /\ Worsens(t) /\ Moves(r, next)
      /\ UNCHANGED <<policy, acquired, errors, orphans, uncounted, raced>>
  BY <1>1, ServeWorsens
<1>3. next \in ThreadType /\ next.target = t /\ next.pc = "finish"
  BY <1>1 DEF ThreadType
<1> HIDE DEF next
<1>4. /\ threads' \in [Requests -> ThreadType] /\ threads'[r] = next
      /\ \A q \in Requests \ {r} : threads'[q] = threads[q]
      /\ main' = main
  BY <1>2, <1>3, Moved
<1>5. main.pc \in Serving
  BY <1>0, ThreadRuns
<1>6. TypeOK'
  BY <1>2, <1>4 DEF TypeOK, Worsens
<1>7. PlaceOK'
  BY <1>0, <1>3, <1>4, <1>5 DEF PlaceOK, Serving, Ticks, Before, After, EnsureSteps, Nowhere
<1>8. OccupantOK'
  <2>1. \A s \in Targets : Users(s)' = Users(s)
    BY <1>0, <1>3, <1>4 DEF Users
  <2>2. \A s \in Targets : Ticking(s)' <=> Ticking(s)
    BY <1>4 DEF Ticking
  <2>3. QED
    BY <1>2, <2>1, <2>2, OccupantsStay DEF Worsens
<1>9. OwnedOK'
  <2>1. \A s \in Targets : Confirming(s) => Confirming(s)'
    BY <1>0, <1>4 DEF Confirming
  <2>2. QED
    BY <1>2, <2>1 DEF OwnedOK, Worsens
<1>10. LeaseOK' /\ CleanOK' /\ FreeOK' /\ WarmOK'
  <2>1. \A s \in Targets : model'[s] = "loading" => s \in quarantined' \cup orphans'
    BY <1>2 DEF LeaseOK, Worsens
  <2>2. QED
    BY <1>2, <1>4, <1>5, <2>1, ServingKeeps DEF Worsens
<1>11. Resident' \subseteq Resident /\ Counted' = Counted /\ snapshots' = snapshots
  BY <1>2 DEF Resident, Counted, Worsens
<1>12. CountOK'
  <2>1. ~raced' => \A p, q \in Requests :
           threads'[p].target = threads'[q].target /\ threads'[p].target # NoTarget => p = q
    BY <1>2, <1>3, <1>4 DEF CountOK
  <2>2. ~raced' => \A q \in Requests :
                       threads'[q].pc \in EnsureSteps => threads'[q].target \in Counted'
    BY <1>2, <1>3, <1>4, <1>11 DEF CountOK, EnsureSteps
  <2>3. \A q \in Requests : threads'[q].pc = "ok" => threads'[q].target \in snapshots'
    BY <1>3, <1>4, <1>11 DEF CountOK
  <2>4. ~raced' => \A q \in Requests : threads'[q].pc = "forget" =>
           \/ threads'[q].target \in snapshots' \cup uncounted'
           \/ model'[threads'[q].target] = "cold"
    BY <1>2, <1>3, <1>4 DEF CountOK, Worsens, PlaceOK, TypeOK, ThreadType, Nowhere
  <2>5. QED
    BY <2>1, <2>2, <2>3, <2>4 DEF CountOK
<1>13. ReplicasBounded'
  BY <1>2, <1>4, <1>11 DEF ReplicasBounded
<1>14. QED
  BY <1>6, <1>7, <1>8, <1>9, <1>10, <1>12, <1>13

-----------------------------------------------------------------------------
\* Time passes.
LEMMA TimeStep ==
  ASSUME Inv, UNCHANGED <<nodes, pool, threads, main, policy, cleanup, ghosts>>
  PROVE  Inv'
<1> USE DEF nodes, pool, cleanup, ghosts
<1>1. TypeOK' /\ PlaceOK'
  BY DEF Inv, TypeOK, PlaceOK, Joined
<1>2. OccupantOK'
  BY DEF Inv, OccupantOK, Users, Ticking
<1>3. LeaseOK' /\ OwnedOK' /\ CleanOK' /\ FreeOK'
  BY DEF Inv, LeaseOK, OwnedOK, CleanOK, FreeOK, Confirming, Owned
<1>4. CountOK' /\ WarmOK' /\ ReplicasBounded'
  BY DEF Inv, CountOK, WarmOK, ReplicasBounded, Counted, Resident
<1>5. QED
  BY <1>1, <1>2, <1>3, <1>4 DEF Inv

\* A load nobody follows comes to its end, on a node that is still leased.
LEMMA NodeSettlesStep ==
  ASSUME Inv, NEW t \in Targets, NodeSettles(t)
  PROVE  Inv'
<1> USE DEF Inv, pool, clock, cleanup, ghosts
<1>1. /\ model[t] = "loading" /\ t \in quarantined \cup orphans
      /\ UNCHANGED <<lease, quarantined, pool, threads, main, policy, cleanup, ghosts>>
  BY DEF NodeSettles, LeaseOK
<1>2. /\ model' \in [Targets -> {"cold", "loading", "resident"}]
      /\ \A s \in Targets \ {t} : model'[s] = model[s]
      /\ model'[t] # "loading"
  <2>1. PICK m \in {"cold", "resident"} : model' = [model EXCEPT ![t] = m]
    BY DEF NodeSettles
  <2>2. QED
    BY <2>1 DEF TypeOK
<1>3. acquired = Targets /\ lease[t] = "held"
  BY <1>1 DEF LeaseOK, FreeOK, TypeOK
<1>4. Resident' \subseteq Resident
  BY <1>1, <1>2 DEF Resident
<1>5. TypeOK' /\ PlaceOK' /\ OccupantOK'
  BY <1>1, <1>2 DEF TypeOK, PlaceOK, Joined, OccupantOK, Users, Ticking
<1>6. LeaseOK' /\ CleanOK'
  BY <1>1, <1>2, <1>3 DEF LeaseOK, CleanOK, Owned
<1>7. OwnedOK' /\ FreeOK'
  BY <1>1, <1>2, <1>3 DEF OwnedOK, FreeOK, Confirming
<1>8. CountOK'
  BY <1>1, <1>2 DEF CountOK, Counted, PlaceOK, TypeOK, ThreadType, Nowhere
<1>9. WarmOK' /\ ReplicasBounded'
  BY <1>1, <1>2, <1>4 DEF WarmOK, ReplicasBounded, Counted
<1>10. QED
  BY <1>5, <1>6, <1>7, <1>8, <1>9

-----------------------------------------------------------------------------
\* Outside the time between submit and join no thread has a target.
LEMMA Quiet ==
  ASSUME Inv, main.pc \in Before \cup After
  PROVE  /\ \A r \in Requests : threads[r].pc \in {"new", "done"} /\ threads[r].target = NoTarget
         /\ \A t \in Targets : Users(t) = {} /\ ~Ticking(t)
         /\ busy = {}
<1>1. \A r \in Requests : threads[r].pc \in {"new", "done"} /\ threads[r].target = NoTarget
  BY DEF Inv, PlaceOK, Joined, Nowhere
<1>2. \A t \in Targets : Users(t) = {} /\ ~Ticking(t)
  BY <1>1, ReplicaAssumption DEF Users, Ticking, Before, After, EnsureSteps
<1>3. QED
  BY <1>1, <1>2 DEF Inv, OccupantOK

\* What a step of the coordinator at that time need not care about.
LEMMA QuietKeeps ==
  ASSUME Inv, main.pc \in Before \cup After, UNCHANGED <<threads, busy>>,
         main'.pc \in Before \cup After \cup {"submit"},
         main'.pc \in Before => main.pc \in Before,
         main'.target # NoTarget <=> main'.pc \in EnsureSteps
  PROVE  /\ PlaceOK' /\ OccupantOK' /\ CountOK'
         /\ main'.pc # "submit" => ReplicasBounded'
<1>1. /\ \A r \in Requests : threads[r].pc \in {"new", "done"} /\ threads[r].target = NoTarget
      /\ \A t \in Targets : Users(t) = {} /\ ~Ticking(t)
      /\ busy = {}
  BY Quiet
<1>2. main'.pc \notin Ticks
  BY DEF Before, After, Ticks, EnsureSteps
<1>3. PlaceOK'
  BY <1>1, <1>2 DEF Inv, PlaceOK, Joined, Nowhere, Before
<1>4. OccupantOK'
  BY <1>1, <1>2 DEF OccupantOK, Users, Ticking, Ticks
<1>5. CountOK'
  BY <1>1 DEF CountOK, EnsureSteps
<1>6. main'.pc # "submit" => ReplicasBounded'
  BY DEF ReplicasBounded, Before, After, EnsureSteps
<1>7. QED
  BY <1>3, <1>4, <1>5, <1>6

\* The moves of the coordinating thread keep its record well formed.
LEMMA MainTyped ==
  ASSUME TypeOK
  PROVE  /\ \A pc \in Before \cup Serving \cup After : \A left \in SUBSET Targets :
                /\ MainAt(pc, left) \in [pc : Before \cup Serving \cup After,
                                         target : Targets \cup {NoTarget}, left : SUBSET Targets]
                /\ MainAt(pc, left).pc = pc /\ MainAt(pc, left).target = NoTarget
                /\ MainAt(pc, left).left = left
BY DEF MainAt

\* The leases are taken one by one; a failure leads to the cleanup.
LEMMA AcquireStep ==
  ASSUME Inv, NEW t \in Targets, Acquire(t)
  PROVE  Inv'
<1> USE DEF Inv, pool, clock, ghosts
<1>1. /\ main.pc = "acquire" /\ t \notin acquired
      /\ UNCHANGED <<model, pool, policy, errors, ghosts, threads>>
  BY DEF Acquire, MainMoves
<1>2. \A s \in Targets : model[s] = "cold" /\ owned[s] = "none"
  BY <1>1 DEF LeaseOK
<1>3. CASE /\ lease' = [lease EXCEPT ![t] = "held"] /\ acquired' = acquired \cup {t}
           /\ main' = IF acquired' = Targets THEN MainAt("check", {}) ELSE main
           /\ UNCHANGED quarantined
  <2>1. /\ main'.pc \in {"acquire", "check"} /\ main'.target = NoTarget
        /\ main'.pc = "check" => acquired' = Targets
        /\ main' \in [pc : Before \cup Serving \cup After,
                      target : Targets \cup {NoTarget}, left : SUBSET Targets]
    BY <1>1, <1>3, MainTyped DEF Before, TypeOK, PlaceOK, EnsureSteps, Ticks
  <2>2. TypeOK'
    BY <1>1, <1>3, <2>1 DEF TypeOK
  <2>3. LeaseOK'
    BY <1>1, <1>2, <1>3, <2>1 DEF LeaseOK, TypeOK
  <2>4. OwnedOK' /\ CleanOK' /\ FreeOK'
    BY <1>1, <1>2, <2>1 DEF OwnedOK, CleanOK, FreeOK
  <2>5. WarmOK'
    BY <1>1, <1>2, <2>1 DEF WarmOK, Before, EnsureSteps
  <2>6. PlaceOK' /\ OccupantOK' /\ CountOK' /\ ReplicasBounded'
    BY <1>1, <2>1, QuietKeeps DEF Before, EnsureSteps
  <2>7. QED
    BY <2>2, <2>3, <2>4, <2>5, <2>6
<1>4. CASE /\ main' = MainAt("finally", {}) /\ UNCHANGED acquired
           /\ \/ UNCHANGED <<lease, quarantined>>
              \/ /\ quarantined' = quarantined \cup {t}
                 /\ \E l \in {"free", "held"} : lease' = [lease EXCEPT ![t] = l]
  <2>1. /\ main'.pc = "finally" /\ main'.target = NoTarget
        /\ main' \in [pc : Before \cup Serving \cup After,
                      target : Targets \cup {NoTarget}, left : SUBSET Targets]
    BY <1>4, MainTyped DEF After
  <2>2. /\ lease' \in [Targets -> {"free", "held"}] /\ quarantined' \subseteq Targets
        /\ quarantined \subseteq quarantined'
        /\ \A s \in Targets : lease'[s] = lease[s] \/ (s = t /\ s \in quarantined')
    BY <1>4 DEF TypeOK
  <2>3. TypeOK'
    BY <1>1, <1>4, <2>1, <2>2 DEF TypeOK
  <2>4. LeaseOK'
    <3>1. \A s \in acquired : s \in Targets /\ lease'[s] = "held"
      BY <1>1, <2>2 DEF LeaseOK, TypeOK
    <3>2. \A s \in Targets : lease'[s] = "held" => s \in acquired \cup quarantined'
      BY <2>2 DEF LeaseOK
    <3>3. QED
      BY <1>1, <1>2, <1>4, <2>1, <3>1, <3>2 DEF LeaseOK
  <2>5. OwnedOK' /\ CleanOK' /\ FreeOK'
    BY <1>1, <1>2, <2>1 DEF OwnedOK, CleanOK, FreeOK
  <2>6. WarmOK'
    BY <2>1 DEF WarmOK, Before, EnsureSteps
  <2>7. PlaceOK' /\ OccupantOK' /\ CountOK' /\ ReplicasBounded'
    BY <1>1, <2>1, QuietKeeps DEF Before, After, EnsureSteps
  <2>8. QED
    BY <2>3, <2>4, <2>5, <2>6, <2>7
<1>5. QED
  BY <1>3, <1>4 DEF Acquire, MainMoves

\* The coordinator moves on and changes nothing else.
LEMMA MainOnly ==
  ASSUME Inv, main.pc # "confirm",
         main' \in [pc : Before \cup Serving \cup After,
                    target : Targets \cup {NoTarget}, left : SUBSET Targets],
         UNCHANGED <<nodes, owned, snapshots, activating, threads, policy, acquired, ghosts>>,
         busy' \subseteq Targets, errors' \in BOOLEAN
  PROVE  /\ TypeOK' /\ OwnedOK' /\ CountOK'
         /\ Counted' = Counted /\ Resident' = Resident /\ Owned' = Owned
<1> USE DEF Inv, nodes, ghosts
<1>1. TypeOK'
  BY DEF TypeOK
<1>2. OwnedOK' /\ CountOK'
  BY DEF OwnedOK, CountOK, Confirming, Counted
<1>3. Counted' = Counted /\ Resident' = Resident /\ Owned' = Owned
  BY DEF Counted, Resident, Owned
<1>4. QED
  BY <1>1, <1>2, <1>3

\* The check, and a failed one.
LEMMA CheckStep ==
  ASSUME Inv, Check
  PROVE  Inv'
<1> USE DEF Inv, nodes, pool, clock, cleanup
<1>1. /\ main.pc = "check" /\ UNCHANGED <<nodes, pool, policy, cleanup, ghosts, threads>>
      /\ main' = MainAt("warm", {}) \/ main' = MainAt("finally", {})
  BY DEF Check, MainMoves
<1>2. /\ main' \in [pc : Before \cup Serving \cup After,
                    target : Targets \cup {NoTarget}, left : SUBSET Targets]
      /\ main'.pc \in {"warm", "finally"} /\ main'.target = NoTarget
  BY <1>1, MainTyped DEF Before, After
<1>3. TypeOK' /\ OwnedOK' /\ Resident' = Resident
  BY <1>1, <1>2, MainOnly DEF TypeOK
<1>4. PlaceOK' /\ OccupantOK' /\ CountOK' /\ ReplicasBounded'
  BY <1>1, <1>2, QuietKeeps DEF Before, After, EnsureSteps
<1>5. LeaseOK' /\ CleanOK' /\ FreeOK'
  BY <1>1, <1>2 DEF ghosts, LeaseOK, CleanOK, FreeOK
<1>6. WarmOK'
  <2>1. activating = {} /\ snapshots = {} /\ Resident = {}
    BY <1>1 DEF WarmOK, Before, Resident
  <2>2. Cardinality({}) = 0 /\ policy.min \in Nat
    BY FS_EmptySet, ReplicaAssumption DEF TypeOK
  <2>3. QED
    BY <1>1, <1>2, <1>3, <2>1, <2>2 DEF WarmOK, EnsureSteps
<1>7. QED
  BY <1>3, <1>4, <1>5, <1>6

\* The warm-up takes the next cold target, or is over.
LEMMA WarmStep ==
  ASSUME Inv, Warm
  PROVE  Inv'
<1> USE DEF Inv, nodes, pool, clock, cleanup
<1>1. main.pc = "warm" /\ UNCHANGED <<nodes, pool, policy, cleanup, ghosts, threads>>
  BY DEF Warm, MainMoves
<1>2. LeaseOK /\ acquired = Targets
  BY <1>1 DEF LeaseOK
<1>3. CASE /\ Cardinality(snapshots) < policy.min
           /\ \E t \in Targets \ snapshots : main' = [main EXCEPT !.pc = "look", !.target = t]
  <2>1. /\ main' \in [pc : Before \cup Serving \cup After,
                      target : Targets \cup {NoTarget}, left : SUBSET Targets]
        /\ main'.pc = "look" /\ main'.target # NoTarget
    <3>1. PICK t \in Targets : main' = [main EXCEPT !.pc = "look", !.target = t]
      BY <1>3
    <3>2. "look" \in Before /\ t # NoTarget
      BY ReplicaAssumption DEF Before, EnsureSteps
    <3>3. QED
      BY <3>1, <3>2 DEF TypeOK
  <2>2. TypeOK' /\ OwnedOK' /\ Resident' = Resident
    BY <1>1, <2>1, MainOnly DEF TypeOK
  <2>3. PlaceOK' /\ OccupantOK' /\ CountOK' /\ ReplicasBounded'
    BY <1>1, <2>1, QuietKeeps DEF Before, After, EnsureSteps
  <2>4. LeaseOK' /\ CleanOK' /\ FreeOK'
    BY <1>1, <1>2, <2>1 DEF ghosts, LeaseOK, CleanOK, FreeOK
  <2>5. WarmOK'
    BY <1>1, <1>3, <2>1, <2>2 DEF WarmOK, Before, EnsureSteps
  <2>6. QED
    BY <2>2, <2>3, <2>4, <2>5
<1>4. CASE main' = MainAt("submit", {})
  <2>1. /\ main' \in [pc : Before \cup Serving \cup After,
                      target : Targets \cup {NoTarget}, left : SUBSET Targets]
        /\ main'.pc = "submit" /\ main'.target = NoTarget
    BY <1>4, MainTyped DEF Serving
  <2>2. TypeOK' /\ OwnedOK' /\ Resident' = Resident /\ Counted' = Counted
    BY <1>1, <2>1, MainOnly DEF TypeOK
  <2>3. PlaceOK' /\ OccupantOK' /\ CountOK'
    BY <1>1, <2>1, QuietKeeps DEF Before, After, EnsureSteps
  <2>4. LeaseOK' /\ CleanOK' /\ FreeOK'
    BY <1>1, <1>2, <2>1 DEF ghosts, LeaseOK, CleanOK, FreeOK
  <2>5. WarmOK'
    BY <2>1 DEF WarmOK, Before, EnsureSteps
  <2>6. ReplicasBounded'
    <3>1. Counted = snapshots /\ Cardinality(snapshots) <= policy.min /\ Resident \subseteq snapshots
      BY <1>1 DEF WarmOK, Counted, Before
    <3>2. /\ policy.min \in Nat /\ policy.max \in Nat /\ policy.min <= policy.max
          /\ Cardinality(snapshots) \in Nat
      BY ReplicaAssumption, Counting DEF TypeOK
    <3>3. QED
      BY <1>1, <2>2, <3>1, <3>2 DEF ReplicasBounded
  <2>7. QED
    BY <2>2, <2>3, <2>4, <2>5, <2>6
<1>5. QED
  BY <1>3, <1>4 DEF Warm, MainMoves

\* The warm-up makes an endpoint call of ensure.
LEMMA WarmEnsuresStep ==
  ASSUME Inv, WarmEnsures
  PROVE  Inv'
<1> USE DEF Inv
<1> DEFINE t == main.target
<1>1. PICK pc \in EnsureSteps \cup {"ok", "raise"} :
          /\ Ensure(main.pc, t, pc)
          /\ main' = IF pc = "raise" THEN MainAt("finally", {})
                     ELSE IF pc = "ok" THEN MainAt("warm", {})
                     ELSE [main EXCEPT !.pc = pc]
  BY DEF WarmEnsures, MainMoves
<1>2. main.pc \in EnsureSteps /\ UNCHANGED <<policy, acquired, errors, threads>>
  BY DEF WarmEnsures, clock, cleanup, MainMoves
<1>3. t \in Targets /\ main.pc \in Before
  BY <1>2 DEF TypeOK, PlaceOK, Before
<1>4. /\ main' \in [pc : Before \cup Serving \cup After,
                    target : Targets \cup {NoTarget}, left : SUBSET Targets]
      /\ pc = "raise" => main'.pc = "finally" /\ main'.target = NoTarget
      /\ pc = "ok" => main'.pc = "warm" /\ main'.target = NoTarget
      /\ pc \in EnsureSteps => main'.pc = pc /\ main'.target = t
  <2>1. CASE pc = "raise"
    BY <1>1, <2>1, MainTyped DEF After, EnsureSteps
  <2>2. CASE pc = "ok"
    <3>1. main' = MainAt("warm", {}) /\ pc \notin EnsureSteps /\ "warm" \in Before
      BY <1>1, <2>2 DEF Before, EnsureSteps
    <3>2. QED
      BY <2>2, <3>1, MainTyped
  <2>3. CASE pc \in EnsureSteps
    BY <1>1, <2>3 DEF TypeOK, Before, EnsureSteps
  <2>4. QED
    BY <2>1, <2>2, <2>3
<1>5. /\ \A r \in Requests : threads[r].pc \in {"new", "done"} /\ threads[r].target = NoTarget
      /\ t # NoTarget
  BY <1>3, Quiet, ReplicaAssumption
<1>6. main.pc # "confirm" => ~Confirming(t)
  BY <1>5 DEF Confirming
<1> HIDE DEF t
<1>7. /\ UNCHANGED <<lease, activating, busy, uncounted, raced>>
      /\ model' \in [Targets -> {"cold", "loading", "resident"}]
      /\ owned' \in [Targets -> {"none", "current", "stale"}]
      /\ quarantined' \in {quarantined, quarantined \cup {t}}
      /\ orphans' \in {orphans, orphans \cup {t}}
      /\ snapshots' = IF pc = "ok" THEN snapshots \cup {t} ELSE snapshots
      /\ \A s \in Targets \ {t} : model'[s] = model[s] /\ owned'[s] = owned[s]
      /\ model'[t] = "loading" => t \in quarantined' \cup orphans'
      /\ (model'[t] = "resident" /\ t \notin quarantined' \cup orphans') =>
             owned'[t] # "none" \/ pc = "confirm"
  BY <1>1, <1>2, <1>3, <1>6, EnsureEffect
<1>8. acquired = Targets /\ \A s \in Targets : lease[s] = "held"
  BY <1>2 DEF LeaseOK, EnsureSteps
<1>9. TypeOK'
  BY <1>2, <1>3, <1>4, <1>7 DEF TypeOK
<1>10. PlaceOK' /\ OccupantOK' /\ CountOK' /\ ReplicasBounded'
  BY <1>2, <1>3, <1>4, <1>5, <1>7, QuietKeeps DEF Before, After, EnsureSteps
<1>11. LeaseOK'
  BY <1>2, <1>4, <1>7, <1>8 DEF LeaseOK
<1>12. CleanOK' /\ FreeOK'
  BY <1>2, <1>4, <1>7, <1>8 DEF CleanOK, FreeOK, EnsureSteps
<1>13. OwnedOK'
  <2> SUFFICES ASSUME NEW s \in Targets \ (quarantined' \cup orphans'), model'[s] = "resident",
                      owned'[s] = "none"
               PROVE  Confirming(s)'
    BY DEF OwnedOK
  <2>1. CASE s = t
    BY <1>4, <1>7, <2>1 DEF Confirming, EnsureSteps
  <2>2. CASE s # t
    <3>1. Confirming(s)
      BY <1>7, <2>2 DEF OwnedOK
    <3>2. QED
      BY <1>5, <2>2, <3>1 DEF Confirming, t
  <2>3. QED
    BY <2>1, <2>2
<1>14. WarmOK'
  <2>1. /\ Cardinality(snapshots) < policy.min /\ Resident \subseteq snapshots \cup {t}
        /\ activating = {}
    BY <1>2, <1>3 DEF WarmOK, t
  <2>2. Resident' \subseteq Resident \cup {t}
    BY <1>7 DEF Resident
  <2>3. CASE pc = "ok"
    <3>1. Cardinality(snapshots') <= policy.min
      BY <1>3, <1>7, <2>1, <2>3, OneMore, Counting, ReplicaAssumption DEF TypeOK
    <3>2. QED
      BY <1>2, <1>4, <1>7, <2>1, <2>2, <2>3, <3>1 DEF WarmOK, EnsureSteps
  <2>4. CASE pc = "raise"
    BY <1>4, <2>4 DEF WarmOK, Before, EnsureSteps
  <2>5. CASE pc \in EnsureSteps
    BY <1>2, <1>4, <1>7, <2>1, <2>2, <2>5 DEF WarmOK, EnsureSteps
  <2>6. QED
    BY <2>3, <2>4, <2>5
<1>15. QED
  BY <1>9, <1>10, <1>11, <1>12, <1>13, <1>14

-----------------------------------------------------------------------------
\* A request is submitted.
LEMMA SubmitStep ==
  ASSUME Inv, NEW r \in Requests, Submit(r)
  PROVE  Inv'
<1> USE DEF Inv, nodes, pool, clock, cleanup, ghosts
<1> DEFINE next == At("choose")
<1>1. /\ main.pc = "submit" /\ threads[r].pc = "new" /\ Moves(r, next)
      /\ UNCHANGED <<lease, model, quarantined, owned, snapshots, activating, busy, policy,
                     acquired, errors, orphans, uncounted, raced>>
  BY DEF Submit
<1>2. next \in ThreadType /\ next.target = NoTarget /\ next.pc = "choose"
  BY DEF ThreadType, At, Nowhere
<1> HIDE DEF next
<1>3. /\ threads' \in [Requests -> ThreadType] /\ threads'[r] = next
      /\ \A q \in Requests \ {r} : threads'[q] = threads[q]
      /\ main' = main
  BY <1>1, <1>2, Moved
<1>4. main.pc \in Serving /\ threads[r].target = NoTarget
  BY <1>1 DEF PlaceOK, Nowhere, Serving
<1>5. TypeOK'
  BY <1>1, <1>3 DEF TypeOK
<1>6. PlaceOK'
  BY <1>1, <1>2, <1>3 DEF PlaceOK, Ticks, Before, After, EnsureSteps, Nowhere
<1>7. OccupantOK'
  <2>1. \A s \in Targets : Users(s)' = Users(s)
    BY <1>2, <1>3, <1>4, ReplicaAssumption DEF Users
  <2>2. \A s \in Targets : Ticking(s)' <=> Ticking(s)
    BY <1>3 DEF Ticking
  <2>3. QED
    BY <1>1, <2>1, <2>2, OccupantsStay
<1>8. OwnedOK'
  BY <1>1, <1>3, OwnedStays
<1>9. LeaseOK' /\ CleanOK' /\ FreeOK' /\ WarmOK'
  <2>1. \A s \in Targets : model'[s] = "loading" => s \in quarantined' \cup orphans'
    BY <1>1 DEF LeaseOK
  <2>2. QED
    BY <1>1, <1>3, <1>4, <2>1, ServingKeeps
<1>10. CountOK' /\ ReplicasBounded'
  BY <1>1, <1>2, <1>3, <1>4 DEF CountOK, ReplicasBounded, Counted, Resident, EnsureSteps
<1>11. QED
  BY <1>5, <1>6, <1>7, <1>8, <1>9, <1>10

\* tick takes an idle replica.
LEMMA TickTakesStep ==
  ASSUME Inv, NEW t \in Targets, TickTakes(t)
  PROVE  Inv'
<1> USE DEF Inv, nodes, pool, clock, cleanup
<1>1. /\ main.pc = "submit" /\ t \notin busy /\ busy' = busy \cup {t}
      /\ main' = [main EXCEPT !.pc = "tick", !.target = t]
      /\ UNCHANGED <<nodes, owned, snapshots, activating, policy, cleanup, ghosts, threads>>
  BY DEF TickTakes, MainMoves
<1>2. /\ main' \in [pc : Before \cup Serving \cup After,
                    target : Targets \cup {NoTarget}, left : SUBSET Targets]
      /\ main'.pc = "tick" /\ main'.target = t /\ t # NoTarget
  BY <1>1, ReplicaAssumption DEF TypeOK, Serving, Ticks
<1>3. TypeOK' /\ OwnedOK' /\ CountOK' /\ Counted' = Counted /\ Resident' = Resident
  BY <1>1, <1>2, MainOnly DEF TypeOK
<1>4. PlaceOK'
  BY <1>1, <1>2 DEF PlaceOK, Ticks, Before, After, EnsureSteps
<1>5. OccupantOK'
  <2>1. \A s \in Targets : /\ Users(s)' = Users(s) /\ ~Ticking(s)
                           /\ Ticking(s)' <=> s = t
    BY <1>1, <1>2 DEF Users, Ticking
  <2>2. Users(t) = {}
    BY <1>1, <2>1 DEF OccupantOK
  <2>3. QED
    BY <1>1, <2>1, <2>2 DEF OccupantOK
<1>6. LeaseOK' /\ CleanOK' /\ FreeOK' /\ WarmOK'
  <2>1. \A s \in Targets : model'[s] = "loading" => s \in quarantined' \cup orphans'
    BY <1>1 DEF ghosts, LeaseOK
  <2>2. main.pc \in Serving /\ main'.pc \in Serving
    BY <1>1, <1>2 DEF Serving, Ticks
  <2>3. QED
    BY <1>1, <2>1, <2>2, ServingKeeps
<1>7. ReplicasBounded'
  BY <1>1, <1>3 DEF ReplicasBounded, ghosts
<1>8. QED
  BY <1>3, <1>4, <1>5, <1>6, <1>7

\* tick gives the replica back to the requests.
LEMMA TickEndsStep ==
  ASSUME Inv, TickEnds
  PROVE  Inv'
<1> USE DEF Inv, nodes, pool, clock, cleanup
<1> DEFINE t == main.target
<1>1. /\ main.pc \in {"ticked", "tickfailed"} /\ busy' = busy \ {t}
      /\ main' \in {MainAt("submit", {}), MainAt("join", {})}
      /\ UNCHANGED <<nodes, owned, snapshots, activating, policy, cleanup, ghosts, threads>>
  BY DEF TickEnds, MainMoves
<1>2. t \in Targets
  BY <1>1 DEF TypeOK, PlaceOK, Ticks
<1>3. /\ main' \in [pc : Before \cup Serving \cup After,
                    target : Targets \cup {NoTarget}, left : SUBSET Targets]
      /\ main'.pc \in {"submit", "join"} /\ main'.target = NoTarget
  BY <1>1, MainTyped DEF Serving
<1>4. TypeOK' /\ OwnedOK' /\ CountOK' /\ Counted' = Counted /\ Resident' = Resident
  BY <1>1, <1>3, MainOnly DEF TypeOK
<1>5. PlaceOK'
  BY <1>1, <1>3 DEF PlaceOK, Ticks, Before, After, EnsureSteps
<1>6. OccupantOK'
  <2>1. \A s \in Targets : /\ Users(s)' = Users(s) /\ ~Ticking(s)'
                           /\ Ticking(s) <=> s = t
    BY <1>1, <1>3 DEF Users, Ticking
  <2>2. Users(t) = {}
    BY <1>2, <2>1 DEF OccupantOK
  <2>3. QED
    BY <1>1, <2>1, <2>2 DEF OccupantOK
<1>7. LeaseOK' /\ CleanOK' /\ FreeOK' /\ WarmOK'
  <2>1. \A s \in Targets : model'[s] = "loading" => s \in quarantined' \cup orphans'
    BY <1>1 DEF ghosts, LeaseOK
  <2>2. main.pc \in Serving /\ main'.pc \in Serving
    BY <1>1, <1>3 DEF Serving, Ticks
  <2>3. QED
    BY <1>1, <2>1, <2>2, ServingKeeps
<1>8. ReplicasBounded'
  BY <1>1, <1>4 DEF ReplicasBounded, ghosts
<1>9. QED
  BY <1>4, <1>5, <1>6, <1>7, <1>8

\* Everything is submitted, then joined.
LEMMA JoinStep ==
  ASSUME Inv, SubmitEnds \/ Join
  PROVE  Inv'
<1> USE DEF Inv, nodes, pool, clock, cleanup
<1>1. /\ UNCHANGED <<nodes, pool, policy, cleanup, ghosts, threads>>
      /\ \/ main.pc = "submit" /\ main' = MainAt("join", {})
         \/ main.pc = "join" /\ Joined /\ main' = MainAt("drain", {})
  BY DEF SubmitEnds, Join, MainMoves
<1>2. /\ main' \in [pc : Before \cup Serving \cup After,
                    target : Targets \cup {NoTarget}, left : SUBSET Targets]
      /\ main'.target = NoTarget
      /\ \/ main.pc = "submit" /\ main'.pc = "join"
         \/ main.pc = "join" /\ Joined /\ main'.pc = "drain"
  BY <1>1, MainTyped DEF Serving, After
<1>3. TypeOK' /\ OwnedOK' /\ CountOK' /\ Counted' = Counted /\ Resident' = Resident
  BY <1>1, <1>2, MainOnly DEF TypeOK
<1>4. PlaceOK'
  BY <1>1, <1>2 DEF PlaceOK, Ticks, Before, After, EnsureSteps, Joined
<1>5. OccupantOK'
  <2>1. \A s \in Targets : Users(s)' = Users(s) /\ ~Ticking(s)' /\ ~Ticking(s)
    BY <1>1, <1>2 DEF Users, Ticking
  <2>2. QED
    BY <1>1, <2>1, OccupantsStay
<1>6. LeaseOK' /\ CleanOK' /\ FreeOK'
  BY <1>1, <1>2 DEF LeaseOK, CleanOK, FreeOK, ghosts
<1>7. WarmOK'
  BY <1>2 DEF WarmOK, Before, EnsureSteps
<1>8. ReplicasBounded'
  BY <1>1, <1>2, <1>3 DEF ReplicasBounded, ghosts
<1>9. QED
  BY <1>3, <1>4, <1>5, <1>6, <1>7, <1>8

\* What an unload does to the books.
LEMMA UnloadEffect ==
  ASSUME TypeOK, NEW t \in Targets, NEW raises \in BOOLEAN, Unload(t, raises)
  PROVE  /\ lease' = lease /\ owned[t] # "none"
         /\ model' \in [Targets -> {"cold", "loading", "resident"}]
         /\ owned' \in [Targets -> {"none", "current", "stale"}]
         /\ quarantined' \in {quarantined, quarantined \cup {t}}
         /\ \A s \in Targets \ {t} : model'[s] = model[s] /\ owned'[s] = owned[s]
         /\ model'[t] \in {model[t], "cold"}
         /\ ~raises => owned'[t] = "none" /\ model'[t] = "cold" /\ snapshots' = snapshots \ {t}
                       /\ quarantined' = quarantined
         /\ raises => owned'[t] # "none" /\ snapshots' = snapshots
<1>1. CASE /\ ~raises /\ owned[t] = "current"
           /\ model' = [model EXCEPT ![t] = "cold"]
           /\ owned' = [owned EXCEPT ![t] = "none"]
           /\ snapshots' = snapshots \ {t}
           /\ UNCHANGED <<lease, quarantined>>
  BY <1>1 DEF TypeOK
<1>2. CASE /\ raises /\ owned[t] = "current" /\ Dies(t)
           /\ quarantined' \in {quarantined, quarantined \cup {t}}
           /\ UNCHANGED <<lease, snapshots>>
  BY <1>2 DEF TypeOK, Dies
<1>3. CASE /\ raises /\ owned[t] # "none" /\ UNCHANGED <<model, owned>>
           /\ quarantined' \in {quarantined, quarantined \cup {t}}
           /\ UNCHANGED <<lease, snapshots>>
  BY <1>3 DEF TypeOK
<1>4. QED
  BY <1>1, <1>2, <1>3 DEF Unload

\* tick unloads the replica it took, under which no request runs.
LEMMA TickUnloadsStep ==
  ASSUME Inv, TickUnloads
  PROVE  Inv'
<1> USE DEF Inv
<1> DEFINE t == main.target
<1>1. main.pc = "tick" /\ UNCHANGED <<activating, busy, policy, cleanup, ghosts, threads>>
  BY DEF TickUnloads, clock, MainMoves
<1>2. PICK raises \in BOOLEAN :
          /\ Unload(t, raises)
          /\ main' = [main EXCEPT !.pc = IF raises THEN "tickfailed" ELSE "ticked"]
  BY DEF TickUnloads, MainMoves
<1>3. t \in Targets /\ t # NoTarget /\ Ticking(t)
  BY <1>1, ReplicaAssumption DEF TypeOK, PlaceOK, Ticks, Ticking
<1>4. /\ main' \in [pc : Before \cup Serving \cup After,
                    target : Targets \cup {NoTarget}, left : SUBSET Targets]
      /\ main'.pc \in {"ticked", "tickfailed"} /\ main'.target = t
  BY <1>2 DEF TypeOK, Serving, Ticks
<1>5. \A r \in Requests : threads[r].target = t => threads[r].pc = "forget"
  BY <1>3 DEF OccupantOK, Users
<1>6. \A s \in Targets : Users(s)' = Users(s) /\ (Ticking(s)' <=> Ticking(s))
  BY <1>1, <1>4 DEF Users, Ticking
<1> HIDE DEF t
<1>7. /\ lease' = lease /\ owned[t] # "none"
      /\ model' \in [Targets -> {"cold", "loading", "resident"}]
      /\ owned' \in [Targets -> {"none", "current", "stale"}]
      /\ quarantined' \in {quarantined, quarantined \cup {t}}
      /\ \A s \in Targets \ {t} : model'[s] = model[s] /\ owned'[s] = owned[s]
      /\ model'[t] \in {model[t], "cold"}
      /\ ~raises => owned'[t] = "none" /\ model'[t] = "cold" /\ snapshots' = snapshots \ {t}
                    /\ quarantined' = quarantined
      /\ raises => owned'[t] # "none" /\ snapshots' = snapshots
  BY <1>2, <1>3, UnloadEffect
<1>8. TypeOK'
  BY <1>1, <1>3, <1>4, <1>7 DEF TypeOK, cleanup, ghosts
<1>9. PlaceOK'
  BY <1>1, <1>3, <1>4 DEF PlaceOK, Ticks, Before, After, EnsureSteps
<1>10. OccupantOK'
  BY <1>1, <1>6, OccupantsStay
<1>11. OwnedOK'
  <2>1. \A s \in Targets : Confirming(s) => Confirming(s)'
    BY <1>1 DEF Confirming
  <2>2. QED
    BY <1>1, <1>7, <2>1 DEF OwnedOK, ghosts
<1>12. LeaseOK' /\ CleanOK' /\ FreeOK' /\ WarmOK'
  <2>1. \A s \in Targets : model'[s] = "loading" => s \in quarantined' \cup orphans'
    BY <1>1, <1>7 DEF ghosts, LeaseOK
  <2>2. main.pc \in Serving /\ main'.pc \in Serving
    BY <1>1, <1>4 DEF Serving, Ticks
  <2>3. QED
    BY <1>1, <1>7, <2>1, <2>2, ServingKeeps DEF cleanup
<1>13. snapshots' \subseteq snapshots /\ snapshots \subseteq snapshots' \cup {t}
  BY <1>7
<1>14. model'[t] = "cold" \/ snapshots' = snapshots
  BY <1>7
<1>15. CountOK'
  <2>1. ~raced' => \A p, q \in Requests :
           threads'[p].target = threads'[q].target /\ threads'[p].target # NoTarget => p = q
    BY <1>1 DEF CountOK, ghosts
  <2>2. ~raced' => \A q \in Requests :
                       threads'[q].pc \in EnsureSteps => threads'[q].target \in Counted'
    BY <1>1, <1>5, <1>13 DEF CountOK, ghosts, Counted, EnsureSteps
  <2>3. \A q \in Requests : threads'[q].pc = "ok" => threads'[q].target \in snapshots'
    BY <1>1, <1>5, <1>13 DEF CountOK
  <2>4. ~raced' => \A q \in Requests : threads'[q].pc = "forget" =>
           \/ threads'[q].target \in snapshots' \cup uncounted'
           \/ model'[threads'[q].target] = "cold"
    <3>1. SUFFICES ASSUME ~raced, NEW q \in Requests, threads[q].pc = "forget"
                   PROVE  \/ threads[q].target \in snapshots' \cup uncounted
                          \/ model'[threads[q].target] = "cold"
      BY <1>1 DEF ghosts
    <3>2. threads[q].target \in Targets
      BY <3>1 DEF PlaceOK, TypeOK, ThreadType, Nowhere
    <3>3. QED
      BY <1>7, <1>13, <1>14, <3>1, <3>2 DEF CountOK
  <2>5. QED
    BY <2>1, <2>2, <2>3, <2>4 DEF CountOK
<1>16. ReplicasBounded'
  <2>1. ~raced => Cardinality(Counted) <= policy.max /\ Resident \subseteq Counted \cup uncounted
    BY <1>1 DEF ReplicasBounded
  <2>2. Counted \in SUBSET Targets /\ Counted' \in SUBSET Counted /\ Counted \subseteq Counted' \cup {t}
    BY <1>1, <1>13 DEF TypeOK, Counted
  <2>3. Cardinality(Counted') <= Cardinality(Counted)
    BY <2>2, Fewer
  <2>4. Cardinality(Counted) \in Nat /\ Cardinality(Counted') \in Nat /\ policy.max \in Nat
    BY <2>2, Counting, ReplicaAssumption DEF TypeOK
  <2>5. Resident' \subseteq Resident /\ (t \notin Resident' \/ Counted' = Counted)
    BY <1>1, <1>7, <1>14 DEF Resident, Counted
  <2>6. QED
    BY <1>1, <2>1, <2>2, <2>3, <2>4, <2>5 DEF ReplicasBounded, ghosts
<1>17. QED
  BY <1>8, <1>9, <1>10, <1>11, <1>12, <1>15, <1>16

\* An unload of the drain or of the cleanup: no request is left.
LEMMA CleanupUnload ==
  ASSUME Inv, NEW t \in Targets, NEW raises \in BOOLEAN, Unload(t, raises),
         main.pc \in {"drain", "unload"}, main'.pc \in {"drain", "unload", "finally"},
         main'.target = NoTarget,
         main' \in [pc : Before \cup Serving \cup After,
                    target : Targets \cup {NoTarget}, left : SUBSET Targets],
         UNCHANGED <<activating, busy, policy, acquired, ghosts, threads>>,
         errors' \in BOOLEAN,
         main'.pc = "unload" /\ ~errors' =>
             /\ Owned \subseteq main'.left \cup {t} /\ ~raises /\ quarantined \subseteq acquired
  PROVE  Inv'
<1> USE DEF Inv
<1>1. /\ lease' = lease /\ owned[t] # "none"
      /\ model' \in [Targets -> {"cold", "loading", "resident"}]
      /\ owned' \in [Targets -> {"none", "current", "stale"}]
      /\ quarantined' \in {quarantined, quarantined \cup {t}}
      /\ \A s \in Targets \ {t} : model'[s] = model[s] /\ owned'[s] = owned[s]
      /\ model'[t] \in {model[t], "cold"}
      /\ ~raises => owned'[t] = "none" /\ model'[t] = "cold" /\ snapshots' = snapshots \ {t}
                    /\ quarantined' = quarantined
      /\ raises => owned'[t] # "none" /\ snapshots' = snapshots
  BY UnloadEffect
<1>2. acquired = Targets /\ \A s \in Targets : lease[s] = "held"
  BY <1>1 DEF LeaseOK
<1>3. TypeOK'
  BY <1>1 DEF TypeOK, ghosts
<1>4. PlaceOK' /\ OccupantOK' /\ CountOK' /\ ReplicasBounded'
  BY QuietKeeps DEF Before, After, EnsureSteps
<1>5. LeaseOK' /\ FreeOK'
  BY <1>1, <1>2 DEF ghosts, LeaseOK, FreeOK
<1>6. OwnedOK'
  <2>1. \A s \in Targets : Confirming(s) => Confirming(s)'
    BY DEF Confirming
  <2>2. QED
    BY <1>1, <2>1 DEF OwnedOK, ghosts
<1>7. CleanOK'
  BY <1>1, <1>2 DEF CleanOK, Owned
<1>8. WarmOK'
  BY DEF WarmOK, Before, EnsureSteps
<1>9. QED
  BY <1>3, <1>4, <1>5, <1>6, <1>7, <1>8

\* The coordinator drains one target.
LEMMA DrainStep ==
  ASSUME Inv, NEW t \in Targets, Drain(t)
  PROVE  Inv'
<1> USE DEF Inv
<1>1. main.pc = "drain" /\ UNCHANGED <<activating, busy, policy, cleanup, ghosts, threads>>
  BY DEF Drain, clock, MainMoves
<1>2. PICK raises \in BOOLEAN : /\ Unload(t, raises)
                                /\ main' = IF raises THEN MainAt("finally", {}) ELSE main
  BY DEF Drain, MainMoves
<1>3. /\ main' \in [pc : Before \cup Serving \cup After,
                    target : Targets \cup {NoTarget}, left : SUBSET Targets]
      /\ main'.pc \in {"drain", "finally"} /\ main'.target = NoTarget
  BY <1>1, <1>2, MainTyped DEF After, TypeOK, PlaceOK, EnsureSteps, Ticks
<1>4. QED
  BY <1>1, <1>2, <1>3, CleanupUnload DEF cleanup, TypeOK

\* The finally block unloads one target.
LEMMA FinallyUnloadsStep ==
  ASSUME Inv, NEW t \in Targets, FinallyUnloads(t)
  PROVE  Inv'
<1> USE DEF Inv
<1>1. /\ main.pc = "unload" /\ main' = [main EXCEPT !.left = @ \ {t}]
      /\ UNCHANGED <<activating, busy, policy, acquired, ghosts, threads>>
  BY DEF FinallyUnloads, clock, MainMoves
<1>2. PICK raises \in BOOLEAN : Unload(t, raises) /\ errors' = (errors \/ raises)
  BY DEF FinallyUnloads
<1>3. /\ main' \in [pc : Before \cup Serving \cup After,
                    target : Targets \cup {NoTarget}, left : SUBSET Targets]
      /\ main'.pc = "unload" /\ main'.target = NoTarget /\ main'.left = main.left \ {t}
  BY <1>1 DEF TypeOK, PlaceOK, EnsureSteps, Ticks
<1>4. ~errors' => ~errors /\ ~raises
  BY <1>2
<1>5. ~errors' => Owned \subseteq main'.left \cup {t} /\ quarantined \subseteq acquired
  BY <1>1, <1>3, <1>4 DEF CleanOK
<1>6. errors' \in BOOLEAN
  BY <1>2 DEF TypeOK
<1>7. QED
  BY <1>1, <1>2, <1>3, <1>4, <1>5, <1>6, CleanupUnload

\* The cleanup moves on and changes no node.
LEMMA CleanupStep ==
  ASSUME Inv, Drained \/ FinallyBegins \/ FinallyUnloaded \/ Ends
  PROVE  Inv'
<1> USE DEF Inv, nodes, pool, clock
<1>1. /\ UNCHANGED <<nodes, pool, policy, acquired, ghosts, threads>>
      /\ \/ main.pc = "drain" /\ main' = MainAt("finally", {}) /\ UNCHANGED errors
         \/ /\ main.pc = "finally" /\ main' = MainAt("unload", Owned)
            /\ errors' = (quarantined \ acquired # {})
         \/ /\ main.pc = "unload" /\ main.left = {} /\ main' = MainAt("release", acquired)
            /\ UNCHANGED errors
         \/ /\ main.pc = "release" /\ main.left = {} /\ main' = MainAt("ended", {})
            /\ UNCHANGED errors
  BY DEF Drained, FinallyBegins, FinallyUnloaded, Ends, MainMoves, cleanup
<1>2. Owned \in SUBSET Targets /\ acquired \in SUBSET Targets
  BY DEF Owned, TypeOK
<1>3. /\ main' \in [pc : Before \cup Serving \cup After,
                    target : Targets \cup {NoTarget}, left : SUBSET Targets]
      /\ main'.target = NoTarget
      /\ \/ main.pc = "drain" /\ main'.pc = "finally" /\ UNCHANGED errors
         \/ /\ main.pc = "finally" /\ main'.pc = "unload" /\ main'.left = Owned
            /\ errors' = (quarantined \ acquired # {})
         \/ /\ main.pc = "unload" /\ main.left = {} /\ main'.pc = "release"
            /\ main'.left = acquired /\ UNCHANGED errors
         \/ /\ main.pc = "release" /\ main.left = {} /\ main'.pc = "ended" /\ main'.left = {}
            /\ UNCHANGED errors
  BY <1>1, <1>2, MainTyped DEF After
<1>4. errors' \in BOOLEAN /\ main.pc \in After /\ main'.pc \in After
  BY <1>3 DEF TypeOK, After
<1>5. TypeOK' /\ OwnedOK' /\ Owned' = Owned
  BY <1>1, <1>3, <1>4, MainOnly DEF TypeOK, After
<1>6. PlaceOK' /\ OccupantOK' /\ CountOK' /\ ReplicasBounded'
  BY <1>1, <1>3, <1>4, QuietKeeps DEF Before, After, EnsureSteps
<1>7. LeaseOK'
  BY <1>1, <1>3 DEF ghosts, LeaseOK
<1>8. CleanOK'
  <2>1. CASE main'.pc = "finally"
    BY <2>1 DEF CleanOK
  <2>2. CASE main'.pc = "unload"
    <3>1. ~errors' => quarantined \subseteq acquired
      BY <1>3, <2>2
    <3>2. main'.left = Owned
      BY <1>3, <2>2
    <3>3. QED
      BY <1>1, <1>5, <2>2, <3>1, <3>2 DEF CleanOK
  <2>3. CASE main'.pc = "release" /\ main'.left = acquired /\ main.pc = "unload"
             /\ main.left = {} /\ UNCHANGED errors
    BY <1>1, <1>5, <2>3 DEF CleanOK
  <2>4. CASE main'.pc = "ended" /\ main'.left = {} /\ main.pc = "release"
             /\ main.left = {} /\ UNCHANGED errors
    BY <1>1, <1>5, <2>4 DEF CleanOK
  <2>5. QED
    BY <1>3, <2>1, <2>2, <2>3, <2>4
<1>9. FreeOK'
  <2>1. CASE UNCHANGED errors
    BY <1>1, <2>1 DEF FreeOK, ghosts
  <2>2. CASE main.pc = "finally"
    <3>1. \A t \in Targets : lease[t] = "free" => model[t] = "cold"
      BY <2>2 DEF LeaseOK
    <3>2. QED
      BY <1>1, <3>1 DEF FreeOK
  <2>3. QED
    BY <1>3, <2>1, <2>2
<1>10. WarmOK'
  BY <1>4 DEF WarmOK, Before, After, EnsureSteps
<1>11. QED
  BY <1>5, <1>6, <1>7, <1>8, <1>9, <1>10

\* A lease is given back, or kept with an error.
LEMMA ReleaseStep ==
  ASSUME Inv, NEW t \in Targets, Release(t)
  PROVE  Inv'
<1> USE DEF Inv, pool, clock
<1>1. /\ main.pc = "release" /\ main' = [main EXCEPT !.left = @ \ {t}]
      /\ UNCHANGED <<model, quarantined, pool, policy, acquired, ghosts, threads>>
  BY DEF Release, MainMoves
<1>2. \/ /\ t \notin quarantined /\ model[t] # "loading"
         /\ lease' = [lease EXCEPT ![t] = "free"] /\ errors' \in {errors, TRUE}
      \/ errors' = TRUE /\ UNCHANGED lease
  BY DEF Release
<1>3. /\ main' \in [pc : Before \cup Serving \cup After,
                    target : Targets \cup {NoTarget}, left : SUBSET Targets]
      /\ main'.pc = "release" /\ main'.target = NoTarget /\ main'.left = main.left \ {t}
  BY <1>1 DEF TypeOK, PlaceOK, EnsureSteps, Ticks
<1>4. errors' \in BOOLEAN /\ (errors => errors')
  BY <1>2 DEF TypeOK
<1>a. /\ lease' \in [Targets -> {"free", "held"}]
      /\ \A s \in Targets : lease'[s] = "held" => lease[s] = "held"
  <2>1. CASE UNCHANGED lease
    BY <2>1 DEF TypeOK
  <2>2. CASE lease' = [lease EXCEPT ![t] = "free"]
    BY <2>2 DEF TypeOK
  <2>3. QED
    BY <1>2, <2>1, <2>2
<1>5. TypeOK'
  BY <1>1, <1>3, <1>4, <1>a DEF TypeOK, ghosts
<1>6. PlaceOK' /\ OccupantOK' /\ CountOK' /\ ReplicasBounded'
  BY <1>1, <1>3, QuietKeeps DEF Before, After, EnsureSteps
<1>7. OwnedOK'
  BY <1>1, <1>3 DEF OwnedOK, Confirming, ghosts
<1>8. LeaseOK'
  BY <1>1, <1>3, <1>a DEF ghosts, LeaseOK
<1>9. CleanOK'
  <2>1. SUFFICES ASSUME ~errors' PROVE CleanOK'
    BY <1>3 DEF CleanOK
  <2>2. ~errors /\ lease' = [lease EXCEPT ![t] = "free"]
    BY <1>2, <1>4, <2>1
  <2>3. \A s \in acquired \ main'.left : lease'[s] = "free"
    BY <1>1, <1>3, <2>2 DEF CleanOK, TypeOK
  <2>4. QED
    BY <1>1, <1>3, <2>2, <2>3 DEF CleanOK, Owned
<1>10. FreeOK'
  <2>1. CASE UNCHANGED lease
    BY <1>1, <1>4, <2>1 DEF FreeOK, ghosts
  <2>2. CASE /\ t \notin quarantined /\ model[t] # "loading"
             /\ lease' = [lease EXCEPT ![t] = "free"]
    <3>1. ~Confirming(t)
      BY <1>1, Quiet DEF Confirming, After
    <3>2. model[t] = "resident" /\ t \notin orphans => errors
      BY <1>1, <2>2, <3>1 DEF OwnedOK, CleanOK, Owned
    <3>3. \A s \in Targets \ {t} : lease'[s] = lease[s]
      BY <2>2 DEF TypeOK
    <3>4. QED
      BY <1>1, <1>4, <2>2, <3>2, <3>3 DEF FreeOK, ghosts
  <2>3. QED
    BY <1>2, <2>1, <2>2
<1>11. WarmOK'
  BY <1>3 DEF WarmOK, Before, EnsureSteps
<1>12. QED
  BY <1>5, <1>6, <1>7, <1>8, <1>9, <1>10, <1>11

-----------------------------------------------------------------------------
\* Every step keeps the invariant.
LEMMA NextStep == Inv /\ [Next]_vars => Inv'
<1> SUFFICES ASSUME Inv, [Next]_vars PROVE Inv'
  OBVIOUS
<1>1. ASSUME NEW t \in Targets,
             Acquire(t) \/ TickTakes(t) \/ Drain(t) \/ FinallyUnloads(t) \/ Release(t)
      PROVE  Inv'
  BY <1>1, AcquireStep, TickTakesStep, DrainStep, FinallyUnloadsStep, ReleaseStep
<1>2. CASE Main
  BY <1>1, <1>2, SubmitStep, CheckStep, WarmStep, WarmEnsuresStep, TickUnloadsStep, TickEndsStep,
     JoinStep, CleanupStep DEF Main
<1>3. ASSUME NEW r \in Requests, Thread(r) PROVE Inv'
  BY <1>3, ChooseTargetStep, ChooseRaisesStep, RequestEnsuresStep, ChooseUnwindsStep,
     ChooseForgetsStep, ServesStep, FinishesStep DEF Thread
<1>4. ASSUME NEW t \in Targets, NodeSettles(t) PROVE Inv'
  BY <1>4, NodeSettlesStep
<1>5. CASE \/ \E r \in Requests : DeadlinePasses(r)
           \/ \E t \in Targets : CooldownEnds(t)
           \/ Stop \/ UNCHANGED vars
  BY <1>5, TimeStep DEF DeadlinePasses, CooldownEnds, Stop, vars, clock, nodes, pool, cleanup, ghosts
<1>6. QED
  BY <1>2, <1>3, <1>4, <1>5 DEF Next

\* The inductive invariant holds in every state of the experiment.
THEOREM Invariance == Spec => []Inv
BY Initially, NextStep, PTL DEF Spec

\* OneOccupant: a target has one user, busy marks it, and no replica is
\* unloaded under a request.
THEOREM OccupantHolds == Spec => []OneOccupant
<1>1. Inv => OneOccupant
  <2> SUFFICES ASSUME Inv, NEW t \in Targets
               PROVE  /\ Cardinality(Users(t)) + (IF main.target = t THEN 1 ELSE 0) <= 1
                      /\ t \in busy <=> (Users(t) # {} \/ Ticking(t))
                      /\ main.pc \in {"drain", "finally", "unload", "release", "ended"} =>
                             Users(t) = {}
    BY DEF OneOccupant
  <2>1. Users(t) = {} \/ \E r \in Requests : Users(t) = {r}
    BY DEF Inv, OccupantOK, Users
  <2>2. Cardinality(Users(t)) \in {0, 1} /\ (Cardinality(Users(t)) = 1 => Users(t) # {})
    BY <2>1, FS_EmptySet, FS_Singleton
  <2>3. main.target = t => Users(t) = {}
    <3>1. SUFFICES ASSUME main.target = t PROVE Users(t) = {}
      OBVIOUS
    <3>2. main.pc \in EnsureSteps \cup Ticks
      BY <3>1, ReplicaAssumption DEF Inv, PlaceOK
    <3>3. CASE main.pc \in EnsureSteps
      BY <3>3, Quiet DEF Before
    <3>4. CASE main.pc \in Ticks
      BY <3>1, <3>4 DEF Inv, OccupantOK, Ticking, Ticks
    <3>5. QED
      BY <3>2, <3>3, <3>4
  <2>4. t \in busy <=> (Users(t) # {} \/ Ticking(t))
    BY DEF Inv, OccupantOK
  <2>5. main.pc \in {"drain", "finally", "unload", "release", "ended"} => Users(t) = {}
    BY Quiet DEF After
  <2>6. Cardinality(Users(t)) + (IF main.target = t THEN 1 ELSE 0) <= 1
    <3>1. CASE main.target = t
      <4>1. Cardinality(Users(t)) = 0
        BY <2>3, <3>1, FS_EmptySet
      <4>2. QED
        BY <3>1, <4>1
    <3>2. CASE main.target # t
      BY <2>2, <3>2
    <3>3. QED
      BY <3>1, <3>2
  <2>7. QED
    BY <2>4, <2>5, <2>6
<1>2. QED
  BY <1>1, Invariance, PTL

\* NoSilentLeak: a node that was given back has no load of the experiment,
\* and no replica unless the cleanup says so; a clean end gives all back.
THEOREM LeakHolds == Spec => []NoSilentLeak
<1>1. Inv => NoSilentLeak
  <2> SUFFICES ASSUME Inv PROVE NoSilentLeak
    OBVIOUS
  <2>1. \A t \in Targets : lease[t] = "free" =>
           model[t] # "loading" /\ (model[t] = "resident" => errors \/ t \in orphans)
    BY DEF Inv, FreeOK
  <2>2. ASSUME main.pc = "ended", ~errors
        PROVE  Owned = {} /\ \A t \in Targets : lease[t] = "free"
    <3>1. /\ Owned = {} /\ \A t \in acquired : lease[t] = "free"
          /\ quarantined \subseteq acquired
      BY <2>2 DEF Inv, CleanOK
    <3>2. QED
      BY <3>1 DEF Inv, LeaseOK, TypeOK
  <2>3. QED
    BY <2>1, <2>2 DEF NoSilentLeak
<1>2. QED
  BY <1>1, Invariance, PTL

\* ReplicasBounded: max_replicas bounds what counts as a replica, and what
\* is resident is counted, unless a target was chosen too early again.
THEOREM BoundHolds == Spec => []ReplicasBounded
<1>1. Inv => ReplicasBounded
  BY DEF Inv
<1>2. QED
  BY <1>1, Invariance, PTL
=============================================================================
