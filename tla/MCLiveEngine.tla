---------------------------- MODULE MCLiveEngine ----------------------------
(* Small sessions of LiveEngine: the workloads and limits TLC enumerates.   *)
EXTENDS LiveEngine

(* Three requests: a long one, a short one, and one that outranks them.     *)
MCInput == <<3, 2, 3>>
MCOutput == <<2, 2, 1>>
MCPriority == <<0, 0, 1>>

(* The same, shorter: for liveness.                                         *)
ShortInput == <<2, 1, 1>>
ShortOutput == <<2, 2, 1>>

Base == [mode |-> "continuous", active |-> 2, batch |-> 2, batched |-> 3,
         padded |-> 12, capacity |-> 7, layout |-> "block_pool", block |-> 2,
         bytes |-> 99, chunk |-> 2, chunked |-> TRUE, policy |-> "fcfs",
         phase |-> "balanced", quota |-> 1, preempt |-> 0, headroom |-> FALSE,
         closedLoop |-> FALSE, concurrency |-> 1]

(* The three modes, chunked and not, both phase policies, both layouts, an  *)
(* arbitrary row order, tight padding, one-row batches, and a capacity that *)
(* turns the longest request away.                                          *)
Modes == {[Base EXCEPT !.mode = "serial", !.capacity = 3],
          [Base EXCEPT !.mode = "static", !.active = 3],
          [Base EXCEPT !.active = 3, !.capacity = 10,
                       !.policy = "priority_aging"],
          [Base EXCEPT !.chunked = FALSE, !.phase = "decode_first"],
          [Base EXCEPT !.chunked = FALSE, !.batched = 2],
          [Base EXCEPT !.phase = "decode_first", !.padded = 7],
          [Base EXCEPT !.phase = "decode_first", !.batch = 1,
                       !.layout = "dense"]}

(* The executor's memory estimate may refuse a batch.                       *)
Tight == {[Base EXCEPT !.headroom = TRUE]}

(* Priority preemption with recomputation; refusals by the executor, whose  *)
(* pool is also cut below what the capacity needs.                          *)
Disturbed == Tight \cup {[Base EXCEPT !.bytes = 3],
               [Base EXCEPT !.preempt = 2, !.active = 1],
               [Base EXCEPT !.preempt = 1, !.phase = "decode_first",
                            !.policy = "tenant_fair"]}

(* Every session of the safety run.                                         *)
Sessions == Modes \cup Disturbed

(* Closed-loop and open-loop feeding.                                       *)
Loops == {[Base EXCEPT !.closedLoop = TRUE, !.capacity = 2],
          [Base EXCEPT !.closedLoop = TRUE, !.concurrency = 2,
                       !.phase = "decode_first", !.batch = 1],
          [Base EXCEPT !.preempt = 1, !.active = 1]}
=============================================================================
