--------------------------- MODULE CircuitBreaker ---------------------------
(***************************************************************************)
(* The per-instance circuit breaker of hqsb/serving/circuit.py, driven by  *)
(* requests that ask to be routed (allow_request) and report later how     *)
(* they ended (record_success, record_failure).                            *)
(*                                                                         *)
(* Abstractions.  Only len(window) of the observations is ever read, so    *)
(* `window` counts them up to WindowSamples; every observation is a        *)
(* failure, so the failure rate over a non-empty window is 1 and exceeds   *)
(* any threshold.  consecutive_failures is compared with its threshold     *)
(* only and is counted up to it.  `elapsed` says that open_duration_ms has *)
(* passed since opened_at_ns.                                              *)
(*                                                                         *)
(* inflight is not in the code: it is the callers.  A request is "probe"   *)
(* while it was admitted in the present half-open period, else "late".     *)
(***************************************************************************)
EXTENDS Integers, FiniteSets

CONSTANTS
    Requests,         \* routed requests; an identity is used again and again
    WindowSamples,    \* sliding_window_samples
    MinSamples,       \* min_samples
    RunThreshold,     \* consecutive_failure_threshold
    ProbesRequired,   \* half_open_probes_required
    ProbeConcurrency, \* half_open_probe_concurrency
    Outcomes          \* ends of a request besides success and counted failure

ASSUME SpecAssumption ==
    /\ IsFiniteSet(Requests)
    /\ \A n \in {WindowSamples, MinSamples, RunThreshold, ProbesRequired,
                 ProbeConcurrency} : n \in Nat \ {0}
    /\ MinSamples <= WindowSamples
    /\ Outcomes \subseteq {"excluded", "quarantine"}

VARIABLES
    circuit,      \* state
    window,       \* len(observations[-window_samples:])
    run,          \* consecutive_failures
    elapsed,      \* the open duration has passed
    probes,       \* half_open_probes
    successes,    \* half_open_successes
    quarantined,
    inflight      \* how each request was admitted

vars == <<circuit, window, run, elapsed, probes, successes, quarantined,
          inflight>>

Upto(n, bound) == IF n <= bound THEN n ELSE bound

Probing == {q \in Requests : inflight[q] = "probe"}

Init ==
    /\ circuit = "CLOSED" /\ window = 0 /\ run = 0 /\ elapsed = FALSE
    /\ probes = 0 /\ successes = 0 /\ quarantined = FALSE
    /\ inflight = [q \in Requests |-> "idle"]

-----------------------------------------------------------------------------
(* q ends; if the breaker changes state with it, those still on their way  *)
(* are late.                                                               *)
Ended(q, changes) ==
    inflight' = [p \in Requests |->
                    IF p = q THEN "idle"
                    ELSE IF changes /\ inflight[p] # "idle" THEN "late"
                    ELSE inflight[p]]

(* _open *)
Open == /\ circuit' = "OPEN" /\ elapsed' = FALSE
        /\ probes' = 0 /\ successes' = 0

(* Mutant of CloseCircuit: the observations survive. *)
CloseCircuit_KeepsWindow ==
    /\ circuit' = "CLOSED" /\ elapsed' = FALSE
    /\ UNCHANGED <<window, probes>>

(* _close: the observations are cleared; the probe counters are not. *)
CloseCircuit ==
    /\ circuit' = "CLOSED" /\ elapsed' = FALSE
    /\ window' = 0
    /\ UNCHANGED probes

(* open_duration_ms passes. *)
Elapse ==
    /\ circuit = "OPEN" /\ ~elapsed
    /\ elapsed' = TRUE
    /\ UNCHANGED <<circuit, window, run, probes, successes, quarantined,
                   inflight>>

(* allow_request that answers yes.  The request that finds the open        *)
(* duration over is admitted without being counted.                        *)
AllowClosed(q) ==
    /\ inflight[q] = "idle" /\ ~quarantined /\ circuit = "CLOSED"
    /\ inflight' = [inflight EXCEPT ![q] = "late"]
    /\ UNCHANGED <<circuit, window, run, elapsed, probes, successes,
                   quarantined>>

AllowFirst(q) ==
    /\ inflight[q] = "idle" /\ ~quarantined /\ circuit = "OPEN" /\ elapsed
    /\ circuit' = "HALF_OPEN" /\ probes' = 0 /\ successes' = 0
    /\ inflight' = [inflight EXCEPT ![q] = "probe"]
    /\ UNCHANGED <<window, run, elapsed, quarantined>>

AllowProbe(q) ==
    /\ inflight[q] = "idle" /\ ~quarantined /\ circuit = "HALF_OPEN"
    /\ probes < ProbeConcurrency
    /\ probes' = probes + 1
    /\ inflight' = [inflight EXCEPT ![q] = "probe"]
    /\ UNCHANGED <<circuit, window, run, elapsed, successes, quarantined>>

(* record_success: any success counts for the half-open period. *)
RecordSuccess(q) ==
    LET last == circuit = "HALF_OPEN" /\ successes + 1 >= ProbesRequired
    IN  /\ inflight[q] # "idle"
        /\ run' = 0
        /\ IF circuit = "HALF_OPEN"
           THEN successes' = successes + 1 ELSE UNCHANGED successes
        /\ IF last THEN CloseCircuit
           ELSE UNCHANGED <<circuit, elapsed, window, probes>>
        /\ Ended(q, last)
        /\ UNCHANGED quarantined

(* record_failure of a counted class.  A closed breaker opens on a full    *)
(* window or a long run, a half-open one on any failure.                   *)
Trips == \/ circuit = "HALF_OPEN"
         \/ circuit = "CLOSED" /\ (window' >= MinSamples
                                     \/ run' >= RunThreshold)

RecordFailure(q) ==
    /\ inflight[q] # "idle"
    /\ window' = Upto(window + 1, WindowSamples)
    /\ run' = Upto(run + 1, RunThreshold)
    /\ IF Trips THEN Open
       ELSE UNCHANGED <<circuit, elapsed, probes, successes>>
    /\ Ended(q, Trips)
    /\ UNCHANGED quarantined

(* record_failure of an excluded class: the breaker learns nothing. *)
RecordExcluded(q) ==
    /\ "excluded" \in Outcomes
    /\ inflight[q] # "idle"
    /\ Ended(q, FALSE)
    /\ UNCHANGED <<circuit, window, run, elapsed, probes, successes,
                   quarantined>>

(* record_failure of a quarantine class: the circuit itself stays. *)
RecordQuarantine(q) ==
    /\ "quarantine" \in Outcomes
    /\ inflight[q] # "idle"
    /\ quarantined' = TRUE
    /\ Ended(q, FALSE)
    /\ UNCHANGED <<circuit, window, run, elapsed, probes, successes>>

ClearQuarantine ==
    /\ quarantined
    /\ quarantined' = FALSE
    /\ UNCHANGED <<circuit, window, run, elapsed, probes, successes, inflight>>

Allow(q) == AllowClosed(q) \/ AllowFirst(q) \/ AllowProbe(q)
Report(q) == RecordSuccess(q) \/ RecordFailure(q)

Next ==
    \/ Elapse \/ ClearQuarantine
    \/ \E q \in Requests :
          \/ AllowClosed(q) \/ AllowFirst(q) \/ AllowProbe(q)
          \/ RecordSuccess(q) \/ RecordFailure(q)
          \/ RecordExcluded(q) \/ RecordQuarantine(q)

Spec == Init /\ [][Next]_vars

(* Requests keep coming, and every one that was routed reports an end.     *)
FairSpec ==
    /\ Spec /\ WF_vars(Elapse)
    /\ \A q \in Requests : WF_vars(Allow(q))
    /\ \A q \in Requests :
          WF_vars(Report(q) \/ RecordExcluded(q) \/ RecordQuarantine(q))

-----------------------------------------------------------------------------
(* Properties.                                                             *)

(* The two flags of the record. *)
FlagsOK == elapsed \in BOOLEAN /\ quarantined \in BOOLEAN

(* The fields keep their ranges: in particular no sequence of late reports  *)
(* takes the probe and success counters past their limits.                  *)
TypeOK ==
    /\ circuit \in {"CLOSED", "OPEN", "HALF_OPEN"} /\ FlagsOK
    /\ window \in 0..WindowSamples /\ run \in 0..RunThreshold
    /\ probes \in 0..ProbeConcurrency
    /\ successes \in 0..ProbesRequired
    /\ inflight \in [Requests -> {"idle", "late", "probe"}]

(* A closed breaker is below both of its triggers: whatever late reports    *)
(* reached it while it was open or half open, closing leaves no failure to  *)
(* be counted again (record_failure, _close).                               *)
ClosedBelowTriggers ==
    circuit = "CLOSED" => window < MinSamples /\ run < RunThreshold

(* The two together: what the counters of the breaker may say.              *)
CountersSound == TypeOK /\ ClosedBelowTriggers

(* Probes under way exist only half open, and are at most one more than the *)
(* declared concurrency.  The comment in allow_request says "only the       *)
(* declared number of concurrent probes": the request that ends the open    *)
(* period is admitted on top of them and not counted.                       *)
ProbesBounded ==
    /\ Probing # {} => circuit = "HALF_OPEN"
    /\ Cardinality(Probing) <= ProbeConcurrency + 1

(* A half-open period comes to an end: the breaker closes or opens again,   *)
(* unless a quarantine stops the traffic.                                   *)
HalfOpenEnds ==
    circuit = "HALF_OPEN" ~> (circuit # "HALF_OPEN" \/ quarantined)
=============================================================================
