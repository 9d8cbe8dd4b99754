------------------------ MODULE CircuitBreakerProofs ------------------------
(***************************************************************************)
(* Proofs about CircuitBreaker, for any finite set of callers and any      *)
(* thresholds.                                                             *)
(*                                                                         *)
(* The bound on concurrent probes is not inductive: half_open_probes is    *)
(* never given back when a probe ends, so what the code keeps bounded is   *)
(* the number of probes ADMITTED in a half-open period.  HalfOpen relates  *)
(* the counters to the probes under way.  It also says that a half-open    *)
(* breaker still lacks a success, without which successes would leave its  *)
(* range.                                                                  *)
(***************************************************************************)
EXTENDS CircuitBreaker, FiniteSetTheorems, TLAPS

HalfOpen ==
    IF circuit = "HALF_OPEN"
    THEN /\ Cardinality(Probing) <= probes + 1
         /\ successes < ProbesRequired
    ELSE Probing = {}

\* The inductive invariant.
Inv == TypeOK /\ ClosedBelowTriggers /\ HalfOpen

\* The thresholds, one by one.
LEMMA Thresholds ==
  /\ WindowSamples \in Nat \ {0} /\ MinSamples \in Nat \ {0}
  /\ RunThreshold \in Nat \ {0} /\ ProbesRequired \in Nat \ {0}
  /\ ProbeConcurrency \in Nat \ {0} /\ MinSamples <= WindowSamples
BY SpecAssumption

\* There are finitely many probes, and their number is a number.
LEMMA ProbingFinite == IsFiniteSet(Probing) /\ Cardinality(Probing) \in Nat
<1>1. IsFiniteSet(Probing)
  BY SpecAssumption, FS_Subset DEF Probing
<1>2. QED
  BY <1>1, FS_CardinalityType

\* Admitting an idle request as a probe adds one.
LEMMA ProbeAdmitted ==
  ASSUME TypeOK, NEW q \in Requests, inflight[q] = "idle",
         inflight' = [inflight EXCEPT ![q] = "probe"]
  PROVE  Cardinality(Probing') = Cardinality(Probing) + 1
<1>1. Probing' = Probing \cup {q}
  BY DEF Probing, TypeOK
<1>2. q \notin Probing
  BY DEF Probing
<1>3. QED
  BY <1>1, <1>2, ProbingFinite, FS_AddElement

\* The end of a request adds none, and none is left if the breaker changed.
LEMMA ProbeEnded ==
  ASSUME TypeOK, NEW q \in Requests, NEW changes \in BOOLEAN, Ended(q, changes)
  PROVE  /\ inflight' \in [Requests -> {"idle", "late", "probe"}]
         /\ Probing' \subseteq Probing
         /\ Cardinality(Probing') <= Cardinality(Probing)
         /\ Cardinality(Probing') \in Nat
         /\ changes => Probing' = {}
<1>1. inflight' \in [Requests -> {"idle", "late", "probe"}]
  BY DEF Ended, TypeOK
<1>2. Probing' \subseteq Probing
  BY DEF Ended, TypeOK, Probing
<1>3. /\ Cardinality(Probing') <= Cardinality(Probing)
      /\ Cardinality(Probing') \in Nat
  BY <1>2, ProbingFinite, FS_Subset, FS_CardinalityType
<1>4. changes => Probing' = {}
  BY DEF Ended, TypeOK, Probing
<1>5. QED
  BY <1>1, <1>2, <1>3, <1>4

\* The breaker starts closed, with nothing counted and nobody routed.
LEMMA Initially == Init => Inv
<1> SUFFICES ASSUME Init PROVE Inv
  OBVIOUS
<1>1. TypeOK
  <2>1. FlagsOK
    BY DEF Init, FlagsOK
  <2>2. QED
    BY <2>1, Thresholds DEF Init, TypeOK
<1>2. ClosedBelowTriggers /\ HalfOpen
  BY Thresholds DEF Init, ClosedBelowTriggers, HalfOpen, Probing
<1>3. QED
  BY <1>1, <1>2 DEF Inv

-----------------------------------------------------------------------------
(* One lemma per kind of step.                                             *)

\* allow_request, in each of its three admitting branches.
LEMMA AllowStep ==
  ASSUME Inv, NEW q \in Requests, Allow(q)
  PROVE  Inv'
<1> USE Thresholds DEF Inv
<1>1. CASE AllowClosed(q)
  <2>0. FlagsOK' /\ inflight[q] = "idle"
    BY <1>1 DEF AllowClosed, TypeOK, FlagsOK
  <2>1. TypeOK' /\ ClosedBelowTriggers'
    BY <1>1, <2>0 DEF AllowClosed, TypeOK, ClosedBelowTriggers
  <2>2. HalfOpen'
    BY <1>1 DEF AllowClosed, TypeOK, HalfOpen, Probing
  <2>3. QED
    BY <2>1, <2>2
<1>2. CASE AllowFirst(q)
  <2>0. FlagsOK' /\ inflight[q] = "idle"
    BY <1>2 DEF AllowFirst, TypeOK, FlagsOK
  <2>1. TypeOK' /\ ClosedBelowTriggers'
    BY <1>2, <2>0 DEF AllowFirst, TypeOK, ClosedBelowTriggers
  <2>2. Cardinality(Probing) = 0
    BY <1>2, FS_EmptySet DEF AllowFirst, HalfOpen
  <2>3. Cardinality(Probing') = 1
    <3>1. inflight' = [inflight EXCEPT ![q] = "probe"]
      BY <1>2 DEF AllowFirst
    <3>2. Cardinality(Probing') = Cardinality(Probing) + 1
      BY <2>0, <3>1, ProbeAdmitted
    <3>3. QED
      BY <2>2, <3>2
  <2>4. HalfOpen'
    BY <1>2, <2>3 DEF AllowFirst, HalfOpen
  <2>5. QED
    BY <2>1, <2>4
<1>3. CASE AllowProbe(q)
  <2>0. FlagsOK' /\ inflight[q] = "idle"
    BY <1>3 DEF AllowProbe, TypeOK, FlagsOK
  <2>1. TypeOK' /\ ClosedBelowTriggers'
    BY <1>3, <2>0 DEF AllowProbe, TypeOK, ClosedBelowTriggers
  <2>2. Cardinality(Probing') = Cardinality(Probing) + 1
    BY <1>3, <2>0, ProbeAdmitted DEF AllowProbe
  <2>3. HalfOpen'
    BY <1>3, <2>2, ProbingFinite DEF AllowProbe, HalfOpen, TypeOK
  <2>4. QED
    BY <2>1, <2>3
<1>4. QED
  BY <1>1, <1>2, <1>3 DEF Allow

\* record_success: the last required success closes the breaker.
LEMMA SuccessStep ==
  ASSUME Inv, NEW q \in Requests, RecordSuccess(q)
  PROVE  Inv'
<1> USE Thresholds DEF Inv
<1> DEFINE last == circuit = "HALF_OPEN" /\ successes + 1 >= ProbesRequired
<1>1. Ended(q, last) /\ last \in BOOLEAN
  BY DEF RecordSuccess
<1>2. /\ inflight' \in [Requests -> {"idle", "late", "probe"}]
      /\ Probing' \subseteq Probing
      /\ Cardinality(Probing') <= Cardinality(Probing)
      /\ Cardinality(Probing') \in Nat
      /\ last => Probing' = {}
  BY <1>1, ProbeEnded
<1>3. CASE last
  <2>1. CloseCircuit /\ run' = 0
    BY <1>3 DEF RecordSuccess
  <2> FlagsOK'
    BY <2>1 DEF RecordSuccess, CloseCircuit, TypeOK, FlagsOK
  <2>2. TypeOK'
    BY <1>2, <1>3, <2>1 DEF RecordSuccess, CloseCircuit, TypeOK, HalfOpen
  <2>3. ClosedBelowTriggers' /\ HalfOpen'
    BY <1>2, <1>3, <2>1 DEF CloseCircuit, ClosedBelowTriggers, HalfOpen
  <2>4. QED
    BY <2>2, <2>3
<1>4. CASE ~last
  <2>1. /\ UNCHANGED <<circuit, elapsed, window, probes, quarantined>>
        /\ run' = 0
    BY <1>4 DEF RecordSuccess
  <2> FlagsOK'
    BY <2>1 DEF TypeOK, FlagsOK
  <2>2. TypeOK'
    BY <1>2, <1>4, <2>1 DEF RecordSuccess, TypeOK, HalfOpen
  <2>3. ClosedBelowTriggers'
    BY <2>1 DEF ClosedBelowTriggers, TypeOK
  <2>4. HalfOpen'
    BY <1>2, <1>4, <2>1, ProbingFinite DEF RecordSuccess, HalfOpen, TypeOK
  <2>5. QED
    BY <2>2, <2>3, <2>4
<1>5. QED
  BY <1>3, <1>4

\* record_failure of a counted class: it may trip the breaker.
LEMMA FailureStep ==
  ASSUME Inv, NEW q \in Requests, RecordFailure(q)
  PROVE  Inv'
<1> USE Thresholds DEF Inv
<1>1. Ended(q, Trips) /\ Trips \in BOOLEAN
  BY DEF RecordFailure, Trips
<1>2. /\ inflight' \in [Requests -> {"idle", "late", "probe"}]
      /\ Probing' \subseteq Probing
      /\ Cardinality(Probing') <= Cardinality(Probing)
      /\ Cardinality(Probing') \in Nat
      /\ Trips => Probing' = {}
  BY <1>1, ProbeEnded
<1>3. window' \in 0..WindowSamples /\ run' \in 0..RunThreshold
  BY DEF RecordFailure, TypeOK, Upto
<1>4. CASE Trips
  <2>1. Open /\ UNCHANGED quarantined
    BY <1>4 DEF RecordFailure
  <2> FlagsOK'
    BY <2>1 DEF Open, TypeOK, FlagsOK
  <2>2. TypeOK'
    BY <1>2, <1>3, <2>1 DEF Open, TypeOK
  <2>3. ClosedBelowTriggers' /\ HalfOpen'
    BY <1>2, <1>4, <2>1 DEF Open, ClosedBelowTriggers, HalfOpen
  <2>4. QED
    BY <2>2, <2>3
<1>5. CASE ~Trips
  <2>1. /\ circuit # "HALF_OPEN"
        /\ UNCHANGED <<circuit, elapsed, probes, successes, quarantined>>
    BY <1>5 DEF RecordFailure, Trips
  <2> FlagsOK'
    BY <2>1 DEF TypeOK, FlagsOK
  <2>2. TypeOK'
    BY <1>2, <1>3, <2>1 DEF TypeOK
  <2>3. ClosedBelowTriggers'
    BY <1>3, <1>5, <2>1 DEF Trips, ClosedBelowTriggers
  <2>4. HalfOpen'
    BY <1>2, <2>1 DEF HalfOpen
  <2>5. QED
    BY <2>2, <2>3, <2>4
<1>6. QED
  BY <1>4, <1>5

\* The steps that leave the circuit alone.
LEMMA OtherStep ==
  ASSUME Inv, NEW q \in Requests,
         RecordExcluded(q) \/ RecordQuarantine(q)
  PROVE  Inv'
<1> USE Thresholds DEF Inv
<1>1. /\ Ended(q, FALSE) /\ FlagsOK'
      /\ UNCHANGED <<circuit, window, run, elapsed, probes, successes>>
  BY DEF RecordExcluded, RecordQuarantine, TypeOK, FlagsOK
<1>2. /\ inflight' \in [Requests -> {"idle", "late", "probe"}]
      /\ Probing' \subseteq Probing
      /\ Cardinality(Probing') <= Cardinality(Probing)
      /\ Cardinality(Probing') \in Nat
  BY <1>1, ProbeEnded
<1>3. TypeOK' /\ ClosedBelowTriggers'
  BY <1>1, <1>2 DEF TypeOK, ClosedBelowTriggers
<1>4. HalfOpen'
  BY <1>1, <1>2, ProbingFinite DEF HalfOpen, TypeOK
<1>5. QED
  BY <1>3, <1>4

\* Every step preserves the inductive invariant.
LEMMA InvStep == Inv /\ [Next]_vars => Inv'
<1> SUFFICES ASSUME Inv, [Next]_vars PROVE Inv'
  OBVIOUS
<1>1. CASE UNCHANGED vars
  BY <1>1 DEF vars, Inv, TypeOK, FlagsOK, ClosedBelowTriggers, HalfOpen, Probing
<1>2. CASE Elapse
  BY <1>2 DEF Elapse, Inv, TypeOK, FlagsOK, ClosedBelowTriggers, HalfOpen,
              Probing
<1>3. CASE ClearQuarantine
  BY <1>3 DEF ClearQuarantine, Inv, TypeOK, FlagsOK, ClosedBelowTriggers,
              HalfOpen, Probing
<1>4. ASSUME NEW q \in Requests, Allow(q) PROVE Inv'
  BY <1>4, AllowStep
<1>5. ASSUME NEW q \in Requests, RecordSuccess(q) PROVE Inv'
  BY <1>5, SuccessStep
<1>6. ASSUME NEW q \in Requests, RecordFailure(q) PROVE Inv'
  BY <1>6, FailureStep
<1>7. ASSUME NEW q \in Requests, RecordExcluded(q) \/ RecordQuarantine(q)
      PROVE  Inv'
  BY <1>7, OtherStep
<1>8. QED
  BY <1>1, <1>2, <1>3, <1>4, <1>5, <1>6, <1>7 DEF Next, Allow

\* The invariant holds in every reachable state of the breaker.
THEOREM Invariance == Spec => []Inv
<1>1. QED
  BY Initially, InvStep, PTL DEF Spec

\* The breaker's counters keep their ranges, and a closed breaker is below both
\* triggers of record_failure, whatever late reports came in before _close.
THEOREM CountersAreSound == Spec => []CountersSound
<1>1. Inv => CountersSound
  BY DEF Inv, CountersSound
<1>2. QED
  BY <1>1, Invariance, PTL

\* allow_request never lets more than half_open_probe_concurrency + 1 probes
\* run at once, and none outside a half-open period.
THEOREM BoundedProbes == Spec => []ProbesBounded
<1>1. Inv => ProbesBounded
  BY FS_EmptySet, ProbingFinite, Thresholds
  DEF Inv, HalfOpen, TypeOK, ProbesBounded
<1>2. QED
  BY <1>1, Invariance, PTL
=============================================================================
