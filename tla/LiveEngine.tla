----------------------------- MODULE LiveEngine -----------------------------
(***************************************************************************)
(* One session of the live scheduler: LiveEngine.run                       *)
(* (hqsb/runtime/live_engine.py) with its logical leases (kv_manager.py),  *)
(* its planner (SchedulerPolicies), the storage of its executor (BlockKV)  *)
(* and the thread that feeds it (serving/scheduling_loadgen.py).           *)
(*                                                                         *)
(* Threads.  The engine thread runs the loop; the sender thread puts items *)
(* on a queue and, closed loop, waits for completions.  They share the     *)
(* queue, the `finished` flag and `outstanding`, so the engine's loop is   *)
(* cut where it touches those: one action per item drained, one for the    *)
(* seal test, one for the scan that reports completions.  The rest of a    *)
(* turn (admission, planning, the forward) is split only for readability.  *)
(*                                                                         *)
(* Abstractions.  Tokens are counted, not named.  Time is left out: any    *)
(* deadline or cancel_at may have passed whenever the code looks.  Orders  *)
(* that depend on time or on tenant service (priority_aging, tenant_fair)  *)
(* are arbitrary permutations; fcfs is the order of acceptance.  A lease   *)
(* generation is always read from the lease it is compared with, so it is  *)
(* left out.  The sender's queue holds 256 items and a session has at most *)
(* 128, so it is never full.  Request identities are unique: the console   *)
(* refuses a duplicate before it reaches the worker.                       *)
(***************************************************************************)
EXTENDS SchedulerPolicies, BlockKV, FiniteSets

CONSTANTS
    Items,      \* 1..n: the workload, in the sender's order
    External,   \* requests that arrive as live ingress, over `controls`
    Input,      \* [Requests -> Nat \ {0}]: len(input_ids)
    Output,     \* [Requests -> Nat \ {0}]: limit
    Priority,   \* [Requests -> Int]
    Fixed,      \* requests with fixed_output_length: no stop token ends them
    Limits,     \* the sessions to consider: records of SchedulingLimits
    ContextLimit,  \* executor.context_limit
    None

Requests == Items \cup External

(* row.reason.  "interrupted" is the code's cancelled and timed_out, which  *)
(* the clock alone tells apart; "rejected" is refused by accept, "refused"  *)
(* by executor.prepare (both are "rejected" in the code).                   *)
Reasons == {"length", "stop", "interrupted", "rejected", "refused"}

(* The exceptions that can leave run(). *)
Errors == {"SCHEDULER_NO_PROGRESS", "EXECUTOR", "STALE_OR_INVALID_KV_COMMIT"}

ASSUME LiveAssumption ==
    /\ Items = 1..Cardinality(Items) /\ IsFiniteSet(Requests)
    /\ Items \cap External = {}
    /\ Input \in [Requests -> Nat \ {0}]
    /\ Output \in [Requests -> Nat \ {0}]
    /\ Priority \in [Requests -> Int] /\ Fixed \subseteq Requests
    /\ None \notin Reasons \cup Errors
    /\ None \notin [capacity : Nat, valid : Nat]
    /\ ContextLimit \in Nat
    /\ \A L \in Limits :
          \* SchedulingLimits.valid_weights, SchedulingExperiment.unique
          /\ L.phase = "decode_first" => L.quota <= L.batched
          /\ L.preempt \in Nat /\ (L.preempt > 0 => L.chunked)
          /\ L.bytes \in Nat
          /\ L.chunked => L.chunk <= L.batched
          /\ \A n \in {L.active, L.batch, L.batched, L.padded, L.capacity,
                       L.block, L.chunk, L.quota} : n \in Nat \ {0}

VARIABLES
    limits,       \* the limits and mode of this session
    pc,           \* intake, seal, scan, admit, plan, forward, ended, closed
    error,        \* the exception that left run(), or None
    odd,          \* tick % 2 = 1
    sent,         \* items the sender has put on the queue
    queue,        \* WorkloadSender.queue
    outstanding,  \* WorkloadSender.outstanding
    finished,     \* WorkloadSender.finished
    sealed,       \* local of run()
    order,        \* accepted requests, in the order of rows (and received)
    state,        \* row.state, or "absent"
    reason,       \* row.reason
    output,       \* len(row.output)
    consumed,     \* row.consumed
    lease,        \* KVManager.leases: [capacity, valid], or None
    preemptions,  \* LiveEngine.preemptions
    kv,           \* the executor's storage
    steps         \* the batch between planning and its forward

sender == <<sent, queue, outstanding, finished>>
rows == <<state, reason, output, consumed, lease, kv>>
vars == <<limits, pc, error, odd, sender, sealed, order, rows, preemptions,
          steps>>

Init ==
    /\ limits \in Limits
    /\ pc = "intake" /\ error = None /\ odd = TRUE
    /\ sent = 0 /\ queue = <<>> /\ outstanding = {} /\ finished = FALSE
    /\ sealed = FALSE /\ order = <<>>
    /\ state = [r \in Requests |-> "absent"]
    /\ reason = [r \in Requests |-> None]
    /\ output = [r \in Requests |-> 0]
    /\ consumed = [r \in Requests |-> 0]
    /\ lease = [r \in Requests |-> None]
    /\ preemptions = 0
    /\ kv = NewKV(limits, Requests)
    /\ steps = <<>>

-----------------------------------------------------------------------------
(* Helpers of the engine.                                                  *)

In(s) == {r \in Requests : state[r] = s}
Live == In("waiting") \cup In("active")

(* What a request may ever store: its last token is never fed back. *)
Needed(r) == Input[r] + Output[r] - 1

Reserved(leases) ==
    MapThenSumSet(LAMBDA r : leases[r].capacity,
                  {r \in Requests : leases[r] # None})

(* Requests of R in the order of self.rows. *)
InOrder(R) == Among(order, R)

(* ordered(...): the sequences that the policy may give the set R. *)
Ordered(R) == IF limits.policy = "fcfs" THEN {InOrder(R)} ELSE SetToSeqs(R)

(* release(row): the executor's storage, then the logical lease. *)
ReleaseRows(rs) ==
    /\ kv' = ReleaseAll(kv, Among(rs, {r \in Requests : lease[r] # None}))
    /\ lease' = [r \in Requests |-> IF r \in ToSet(rs) THEN None ELSE lease[r]]

(* finish(row, reason) for each r of rs, in that order. *)
Finish(rs, why) ==
    /\ state' = [r \in Requests |->
                    IF r \in ToSet(rs) THEN "terminal" ELSE state[r]]
    /\ reason' = [r \in Requests |->
                    IF r \in ToSet(rs) THEN why ELSE reason[r]]
    /\ ReleaseRows(rs)

Raise(e) == pc' = "ended" /\ error' = e

-----------------------------------------------------------------------------
(* The sender thread.                                                      *)

(* An item goes out when its arrival time has come and, closed loop, fewer *)
(* than `concurrency` are outstanding.                                     *)
Send ==
    /\ ~finished /\ sent < Cardinality(Items)
    /\ limits.closedLoop => Cardinality(outstanding) < limits.concurrency
    /\ sent' = sent + 1
    /\ outstanding' = outstanding \cup {sent + 1}
    /\ queue' = Append(queue, sent + 1)
    /\ UNCHANGED <<limits, pc, error, odd, finished, sealed, order, rows,
                   preemptions, steps>>

(* The thread falls off its loop. *)
SenderDone ==
    /\ ~finished /\ sent = Cardinality(Items)
    /\ finished' = TRUE
    /\ UNCHANGED <<limits, pc, error, odd, sent, queue, outstanding, sealed,
                   order, rows, preemptions, steps>>

(* An exception ends the thread early; its text goes to the evidence only. *)
SenderFails ==
    /\ ~finished /\ sent < Cardinality(Items)
    /\ finished' = TRUE
    /\ UNCHANGED <<limits, pc, error, odd, sent, queue, outstanding, sealed,
                   order, rows, preemptions, steps>>

-----------------------------------------------------------------------------
(* Intake: receive() and the messages it returns.                          *)

(* accept's four refusals. *)
Acceptable(r) ==
    /\ Needed(r) <= limits.capacity
    /\ limits.chunked \/ Input[r] <= limits.batched
    /\ Input[r] + Output[r] <= ContextLimit
    /\ Needed(r) <= limits.padded

Accept(r) ==
    /\ order' = Append(order, r)
    /\ state' = [state EXCEPT ![r] = IF Acceptable(r) THEN "waiting"
                                     ELSE "terminal"]
    /\ reason' = [reason EXCEPT ![r] = IF Acceptable(r) THEN None
                                       ELSE "rejected"]

(* drain takes what is on the queue, until it finds it empty. *)
DrainItem ==
    /\ pc = "intake" /\ queue # <<>>
    /\ Accept(Head(queue))
    /\ queue' = Tail(queue)
    /\ UNCHANGED <<limits, pc, error, odd, sent, outstanding, finished, sealed,
                   output, consumed, lease, kv, preemptions, steps>>

DrainEmpty ==
    /\ pc = "intake" /\ queue = <<>>
    /\ pc' = "seal"
    /\ UNCHANGED <<limits, error, odd, sender, sealed, order, rows,
                   preemptions, steps>>

(* Mutant of SealCheck: the queue is not looked at again. *)
SealCheck_FlagOnly ==
    /\ pc = "seal"
    /\ pc' = "scan"
    /\ sealed' = (sealed \/ finished)
    /\ UNCHANGED <<limits, error, odd, sender, order, rows, preemptions,
                   steps>>

(* The seal: the flag is read before the queue is looked at once more, and *)
(* nothing is put on the queue once it is set.                             *)
SealCheck ==
    /\ pc = "seal"
    /\ pc' = "scan"
    /\ sealed' = (sealed \/ (finished /\ queue = <<>>))
    /\ UNCHANGED <<limits, error, odd, sender, order, rows, preemptions,
                   steps>>

(* Messages from `controls`, which may come in any turn. *)
Ingress(r) ==
    /\ pc = "scan" /\ r \in External /\ state[r] = "absent"
    /\ Accept(r)
    /\ UNCHANGED <<limits, pc, error, odd, sender, sealed, output, consumed,
                   lease, kv, preemptions, steps>>

(* Mutant of CancelRequest: a request that has ended is cancelled again. *)
CancelRequest_Ended(r) ==
    /\ pc = "scan" /\ state[r] # "absent"
    /\ Finish(<<r>>, "interrupted")
    /\ UNCHANGED <<limits, pc, error, odd, sender, sealed, order, output,
                   consumed, preemptions, steps>>

(* cancel_request, for a request that is known and has not ended. *)
CancelRequest(r) ==
    /\ pc = "scan" /\ r \in Live
    /\ Finish(<<r>>, "interrupted")
    /\ UNCHANGED <<limits, pc, error, odd, sender, sealed, order, output,
                   consumed, preemptions, steps>>

(* Mutant of Scan: completions are not reported to the sender. *)
Scan_Silent(due, stopping) ==
    /\ pc = "scan" /\ (stopping => due = Live)
    /\ Finish(InOrder(due), "interrupted")
    /\ pc' = IF stopping \/ (sealed /\ Live \subseteq due) THEN "ended"
             ELSE "admit"
    /\ UNCHANGED <<limits, error, odd, sender, sealed, order, output, consumed,
                   preemptions, steps>>

(* The loop over self.rows: rows that had ended are reported to the sender, *)
(* rows that are due end.  `stopping` ends them all and leaves the loop;    *)
(* so does a sealed session with nothing live.                              *)
Scan(due, stopping) ==
    /\ pc = "scan" /\ (stopping => due = Live)
    /\ outstanding' = outstanding \ In("terminal")
    /\ Finish(InOrder(due), "interrupted")
    /\ pc' = IF stopping \/ (sealed /\ Live \subseteq due) THEN "ended"
             ELSE "admit"
    /\ UNCHANGED <<limits, error, odd, sent, queue, finished, sealed, order,
                   output, consumed, preemptions, steps>>

ScanDue == \E due \in SUBSET Live : due # {} /\ Scan(due, FALSE)

ScanStop == Scan(Live, TRUE)

ScanQuiet == Scan({}, FALSE)

-----------------------------------------------------------------------------
(* Admission, at a completed forward boundary.                             *)

(* min(active, key = (priority, -received)): lowest priority, then latest. *)
IsVictim(v) ==
    LET at(r) == CHOOSE i \in DOMAIN order : order[i] = r
    IN  /\ state[v] = "active"
        /\ \A r \in In("active") :
              \/ Priority[v] < Priority[r]
              \/ Priority[v] = Priority[r] /\ at(v) >= at(r)

Preempts(waiting, v) ==
    /\ limits.mode = "continuous" /\ preemptions < limits.preempt
    /\ waiting # <<>> /\ IsVictim(v)
    /\ Priority[waiting[1]] > Priority[v]

(* One row of the admission loop: the row takes a full reservation if it   *)
(* fits (KVManager.reserve) and is passed over otherwise.                  *)
AdmitRow(cap, leases, n, r) ==
    IF n < cap /\ Needed(r) <= limits.capacity - Reserved(leases)
    THEN [leases EXCEPT ![r] = [capacity |-> Needed(r), valid |-> 0]]
    ELSE leases

AdmitAll(leases, waiting) ==
    LET cap == IF limits.mode = "serial" THEN 1 ELSE limits.active
        held(l) == Cardinality({r \in Requests : l[r] # None})
    IN  IF limits.mode = "static" /\ held(leases) > 0 THEN leases
        ELSE FoldLeft(LAMBDA l, r : AdmitRow(cap, l, held(l), r),
                      leases, waiting)

(* Mutant of Evict: the progress counter is not set back. *)
Evict_KeepsProgress(V) ==
    /\ kv' = ReleaseAll(kv, InOrder(V))
    /\ consumed' = consumed
    /\ preemptions' = preemptions + Cardinality(V)

(* The preempted row keeps its output, is computed again from position 0,  *)
(* and cannot be admitted in the same turn: `waiting` was taken before.    *)
Evict(V) ==
    /\ kv' = ReleaseAll(kv, InOrder(V))
    /\ consumed' = [r \in Requests |-> IF r \in V THEN 0 ELSE consumed[r]]
    /\ preemptions' = preemptions + Cardinality(V)

Admit ==
    /\ pc = "admit"
    /\ \E waiting \in Ordered(In("waiting")) :
          LET V == {v \in In("active") : Preempts(waiting, v)}
              left == [r \in Requests |-> IF r \in V THEN None ELSE lease[r]]
          IN  /\ Evict(V)
              /\ lease' = AdmitAll(left, waiting)
              /\ state' = [r \in Requests |->
                              IF r \notin Live THEN state[r]
                              ELSE IF lease'[r] = None THEN "waiting"
                              ELSE "active"]
    /\ pc' = "plan"
    /\ UNCHANGED <<limits, error, odd, sender, sealed, order, reason, output,
                   steps>>

-----------------------------------------------------------------------------
(* Planning and preparation.                                               *)

View == [history |-> [r \in Requests |-> Input[r] + output[r]],
         consumed |-> consumed, output |-> output]

(* How many of the planned rows executor.prepare lets through: it drops    *)
(* rows from the end until the pool and, when the session's memory may be  *)
(* short, the estimates of device memory agree.                            *)
Prepared(planned) ==
    LET fits == {n \in 0..Len(planned) :
                    ~Refused(limits, kv, SubSeq(planned, 1, n))}
        most == CHOOSE n \in fits : \A m \in fits : m <= n
    IN  IF limits.headroom THEN {n \in 0..Len(planned) : n <= most}
        ELSE {most}

NextTurn == pc' = "intake" /\ odd' = ~odd

(* The batch is ready for its forward. *)
PlanBatch(planned, n) ==
    /\ n > 0
    /\ steps' = SubSeq(planned, 1, n)
    /\ pc' = "forward"
    /\ UNCHANGED <<error, odd, rows>>

(* Not even the first row may run: it ends, and the batch is gone.  The    *)
(* session fails if any other row is active.                               *)
PlanRefused(planned) ==
    /\ Finish(<<planned[1].id>>, "refused")
    /\ IF In("active") \subseteq {planned[1].id} THEN NextTurn /\ error' = error
       ELSE Raise("SCHEDULER_NO_PROGRESS") /\ odd' = odd
    /\ UNCHANGED <<output, consumed, steps>>

PlanNothing ==
    /\ IF In("active") = {} THEN NextTurn /\ error' = error
       ELSE Raise("SCHEDULER_NO_PROGRESS") /\ odd' = odd
    /\ UNCHANGED <<rows, steps>>

PlanStep ==
    /\ pc = "plan"
    /\ \E active \in Ordered(In("active")) :
          LET planned == Trimmed(limits, Plan(limits, View, active, odd))
          IN  IF planned = <<>> THEN PlanNothing
              ELSE \E n \in Prepared(planned) :
                      \/ PlanBatch(planned, n)
                      \/ n = 0 /\ PlanRefused(planned)
    /\ UNCHANGED <<limits, sender, sealed, order, preemptions>>

-----------------------------------------------------------------------------
(* The forward, and what its result commits.                               *)

Members == {steps[i].id : i \in DOMAIN steps}
StepOf(r) == CHOOSE s \in ToSet(steps) : s.id = r

(* StepExecutor.execute refuses a batch that is too wide and, in pack, a   *)
(* row whose stored length is not the start of its step.                   *)
Executable == Padded(steps) <= limits.padded /\ ~Stale(kv, steps)

(* execute raises: before its storage was written, or after. *)
ForwardFails ==
    /\ pc = "forward"
    /\ kv' \in {kv, Commit(limits, kv, steps)}
    /\ Raise("EXECUTOR")
    /\ UNCHANGED <<limits, odd, sender, sealed, order, state, reason, output,
                   consumed, lease, preemptions, steps>>

(* KVManager.commit on the row's new length. *)
Commits(r) == LET n == consumed[r] + StepOf(r).len
              IN  lease[r] # None /\ lease[r].valid <= n
                                  /\ n <= lease[r].capacity

(* The token the forward emits for r is its last. *)
LastToken(r) == output[r] + 1 >= Output[r]

(* A row whose deadline has passed ends without its token; the others get  *)
(* theirs if the step emits, and end on the last one or on a stop token.   *)
ForwardDone(late, eos) ==
    LET emits == {r \in Members \ late : StepOf(r).emit}
        whole == {r \in emits : LastToken(r)}
        ending == late \cup whole \cup (eos \cap emits)
        why(r) == IF r \in late THEN "interrupted"
                  ELSE IF r \in whole THEN "length" ELSE "stop"
        members == [i \in DOMAIN steps |-> steps[i].id]
        stored == Commit(limits, kv, steps)
        over == Among(members, ending)
    IN  /\ consumed' = [r \in Requests |->
              IF r \in Members THEN consumed[r] + StepOf(r).len
              ELSE consumed[r]]
        /\ output' = [r \in Requests |-> output[r] + IF r \in emits THEN 1 ELSE 0]
        /\ state' = [r \in Requests |->
              IF r \in ending THEN "terminal" ELSE state[r]]
        /\ reason' = [r \in Requests |->
              IF r \in ending THEN why(r) ELSE reason[r]]
        /\ lease' = [r \in Requests |->
              IF r \in ending THEN None
              ELSE IF r \in Members THEN [lease[r] EXCEPT !.valid = consumed'[r]]
              ELSE lease[r]]
        /\ kv' = ReleaseAll(stored, over)

(* A commit that the executor's storage or KVManager refuses leaves run(). *)
Forward ==
    /\ pc = "forward"
    /\ IF Executable /\ \A r \in Members : Commits(r)
       THEN /\ \E late \in SUBSET Members :
                  \E eos \in SUBSET (Members \ (late \cup Fixed)) :
                     ForwardDone(late, eos)
            /\ NextTurn /\ error' = error
            /\ steps' = <<>>
       ELSE /\ Raise("STALE_OR_INVALID_KV_COMMIT") /\ odd' = odd
            /\ UNCHANGED <<rows, steps>>
    /\ UNCHANGED <<limits, sender, sealed, order, preemptions>>

-----------------------------------------------------------------------------
(* run() has returned or raised: the worker stops the sender and closes    *)
(* the engine, which releases what a failed turn left behind.              *)
Close ==
    /\ pc = "ended"
    /\ pc' = "closed"
    /\ finished' = TRUE
    /\ lease' = [r \in Requests |-> None]
    /\ kv' = ReleaseAll(kv, order)
    /\ UNCHANGED <<limits, error, odd, sent, queue, outstanding, sealed, order,
                   state, reason, output, consumed, preemptions, steps>>

Closed == pc = "closed" /\ UNCHANGED vars

Engine == DrainItem \/ DrainEmpty \/ SealCheck \/ ScanQuiet \/ Admit
             \/ PlanStep \/ Forward \/ Close

Next ==
    \/ Send \/ SenderDone \/ SenderFails
    \/ DrainItem \/ DrainEmpty \/ SealCheck
    \/ \E r \in Requests : Ingress(r) \/ CancelRequest(r)
    \/ ScanQuiet \/ ScanDue \/ ScanStop
    \/ Admit \/ PlanStep
    \/ Forward \/ ForwardFails
    \/ Close \/ Closed

Spec == Init /\ [][Next]_vars

(* The engine thread keeps taking the step it is at; the sender thread      *)
(* sends when it may.  Nobody owes a control message, an expiry or a stop.  *)
FairSpec == Spec /\ WF_vars(Engine) /\ WF_vars(Send \/ SenderDone)

-----------------------------------------------------------------------------
(* Properties.                                                             *)

(* The types and ranges of the session's state: no row ever has more output *)
(* or more stored positions than it asked for, every lease is the full      *)
(* reservation of accept, and preemptions stay within their budget.         *)
TypeOK ==
    /\ limits \in Limits
    /\ pc \in {"intake", "seal", "scan", "admit", "plan", "forward", "ended",
               "closed"}
    /\ error \in Errors \cup {None}
    /\ {odd, finished, sealed} \subseteq BOOLEAN
    /\ sent \in 0..Cardinality(Items) /\ outstanding \subseteq Items
    /\ queue \in Seq(Items) /\ order \in Seq(Requests)
    /\ state \in [Requests -> {"absent", "waiting", "active", "terminal"}]
    /\ reason \in [Requests -> Reasons \cup {None}]
    /\ \A r \in Requests :
          /\ output[r] \in 0..Output[r] /\ consumed[r] \in 0..Needed(r)
          /\ lease[r] # None => lease[r].capacity = Needed(r)
    /\ preemptions \in 0..limits.preempt

(* Between turns a request holds a logical lease exactly while it is        *)
(* active, and the lease, the engine's progress counter and the executor's  *)
(* storage agree on how many positions are valid.  Preemption, cancelling,  *)
(* expiry and completion each touch all three (release, commit, finish).    *)
LeaseTruth ==
    error = None /\ pc # "closed" =>
        \A r \in Requests :
            IF state[r] = "active"
            THEN /\ lease[r] # None /\ lease[r].valid = consumed[r]
                 /\ kv.valid[r] = consumed[r]
                 /\ consumed[r] < Input[r] + output[r]
            ELSE /\ lease[r] = None /\ kv.valid[r] = 0 /\ kv.blocks[r] = <<>>
                 /\ state[r] = "waiting" => consumed[r] = 0

(* Reservations never exceed the session's token capacity, and no more      *)
(* rows are active than the mode allows (KVManager.reserve, `cap`).         *)
KVWithinCapacity ==
    /\ Reserved(lease) <= limits.capacity
    /\ Cardinality({r \in Requests : lease[r] # None})
          <= IF limits.mode = "serial" THEN 1 ELSE limits.active

(* Every block is in exactly one place: on the free list once, or at one    *)
(* position of one request; and a request has the blocks its length needs   *)
(* (BlockKV.commit pops, BlockKV.release returns).                          *)
BlocksPrivate ==
    LET held(r) == ToSet(kv.blocks[r])
    IN  limits.layout # "dense" =>
          /\ IsInjective(kv.free)
          /\ \A r \in Requests :
                /\ IsInjective(kv.blocks[r])
                /\ held(r) \cap ToSet(kv.free) = {}
                /\ \A q \in Requests \ {r} : held(r) \cap held(q) = {}
                /\ Len(kv.blocks[r]) = CeilDiv(kv.valid[r], limits.block)
          /\ ToSet(kv.free) \cup UNION {held(r) : r \in Requests}
                = 1..PoolBlocks(limits)

(* The executor has room for whatever admission lets in: its estimate of    *)
(* device memory never refuses, and its pool has the size it computes.      *)
Roomy ==
    /\ ~limits.headroom
    /\ limits.layout = "dense" \/ FullPool(limits) <= limits.bytes

(* The engine never trips over its own checks while the executor has room:  *)
(* no turn with active rows and an empty batch, no stale commit, no lease   *)
(* left when run() returns.                                                 *)
NoInternalError ==
    /\ error # "STALE_OR_INVALID_KV_COMMIT"
    /\ Roomy => error # "SCHEDULER_NO_PROGRESS"
    /\ pc = "ended" /\ error = None => \A r \in Requests : lease[r] = None

(* A pool sized for the token capacity plus one tail block per active row   *)
(* never refuses, or shortens, a batch of rows that admission let in        *)
(* (StepExecutor.__init__).                                                 *)
PoolSuffices ==
    Roomy =>
       /\ \A r \in Requests : reason[r] # "refused"
       /\ pc = "plan" => \A active \in Ordered(In("active")) :
             ~Refused(limits, kv,
                      Trimmed(limits, Plan(limits, View, active, odd)))

(* A batch handed to the executor respects every limit of the session, and  *)
(* takes at most one step of each active row.                               *)
BatchFits ==
    pc = "forward" =>
        /\ MapThenSumSet(LAMBDA i : steps[i].len, DOMAIN steps)
              <= limits.batched
        /\ Len(steps) <= RowLimit(limits)
        /\ Padded(steps) <= limits.padded
        /\ Cardinality(Members) = Len(steps) /\ Members \subseteq In("active")
        /\ \A i \in DOMAIN steps : steps[i].len >= 1

(* A request that ends by length has all its tokens, and the K/V of every   *)
(* position but the last token's was computed, however often it was         *)
(* preempted on the way.                                                    *)
LengthComplete ==
    \A r \in Requests : reason[r] = "length" =>
        output[r] = Output[r] /\ consumed[r] = Needed(r)

(* The seal never overtakes an item: once the session is sealed the engine  *)
(* has seen everything the sender sent, and will ever send.                 *)
SealedIsComplete ==
    sealed /\ pc # "closed" =>
        finished /\ \A r \in Items : r <= sent => state[r] # "absent"

(* The books of a session: every variable has its type, the leases tell the *)
(* truth and the reservations stay within the capacity.                     *)
LedgerSound == TypeOK /\ LeaseTruth /\ KVWithinCapacity

(* The storage of a session: blocks are private, and the pool is never the  *)
(* reason why a row that admission let in is refused.                       *)
StorageSound == BlocksPrivate /\ PoolSuffices

(* The plans of a session: every batch fits the limits, and the planner     *)
(* neither starves the loop nor commits against stale storage.              *)
PlansFit == BatchFits /\ NoInternalError

(* The outcome of a session: nothing sent is left out and nothing that      *)
(* ended by length is short.                                                *)
OutcomeComplete == LengthComplete /\ SealedIsComplete

(* A token is emitted only by a forward that completed the K/V of the whole *)
(* history before it, one token at a time; output already committed is      *)
(* never withdrawn, and a request that ended stays as it ended.             *)
TokensInOrder ==
    [][\A r \in Requests :
          /\ output'[r] # output[r] =>
                /\ output'[r] = output[r] + 1
                /\ consumed'[r] = Input[r] + output[r]
          /\ state[r] = "terminal" =>
                state'[r] = "terminal" /\ reason'[r] = reason[r]]_vars

(* Every accepted request comes to an end, unless the session fails.        *)
RequestsEnd ==
    \A r \in Requests :
        state[r] \in {"waiting", "active"} ~>
            (state[r] = "terminal" \/ error # None)

(* The session ends and releases everything, closed loop or open.           *)
SessionEnds == <>[](pc = "closed" /\ kv.valid = [r \in Requests |-> 0])

(* The two together: nobody waits for ever, request, sender or session.     *)
NobodyWaits == RequestsEnd /\ SessionEnds
=============================================================================
