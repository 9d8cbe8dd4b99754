------------------------------ MODULE BlockKV ------------------------------
(***************************************************************************)
(* The K/V storage behind StepExecutor: hqsb/backends/block_kv.py when the *)
(* layout is "block_pool", hqsb/backends/device_kv.py when it is "dense".  *)
(* Only placement is modelled: how many positions each request holds and   *)
(* in which blocks.  The state is the record                               *)
(*                                                                         *)
(*   kv.valid[r]   positions stored for request r (0: no entry);           *)
(*   kv.blocks[r]  the physical blocks of r, in logical order;             *)
(*   kv.free       the free list, used as a stack.                         *)
(*                                                                         *)
(* A dense row is a tensor of its own: it takes no block.                  *)
(***************************************************************************)
EXTENDS Integers, Sequences, SequencesExt, FiniteSetsExt

CeilDiv(n, d) == (n + d - 1) \div d

(* StepExecutor.__init__: enough blocks for the token capacity and one     *)
(* partly filled tail per active row, cut to the byte budget of the pool.  *)
FullPool(L) == CeilDiv(L.capacity, L.block) + L.active

PoolBlocks(L) == IF L.layout = "dense" THEN 0
                 ELSE IF FullPool(L) <= L.bytes THEN FullPool(L) ELSE L.bytes

NewKV(L, requests) ==
    [valid |-> [r \in requests |-> 0], blocks |-> [r \in requests |-> <<>>],
     free |-> [i \in 1..PoolBlocks(L) |-> PoolBlocks(L) + 1 - i]]

(* Blocks a step needs beyond those its request already holds. *)
Growth(L, kv, s) ==
    IF L.layout = "dense" THEN 0
    ELSE CeilDiv(s.start + s.len, L.block) - Len(kv.blocks[s.id])

(* A step that does not start where the stored row ends. *)
Stale(kv, steps) == \E i \in DOMAIN steps :
                        kv.valid[steps[i].id] # steps[i].start

(* BlockKV.refusal: stale length, or more blocks than the pool has left. *)
Refused(L, kv, steps) ==
    /\ L.layout # "dense"
    /\ \/ Stale(kv, steps)
       \/ MapThenSumSet(LAMBDA i : Growth(L, kv, steps[i]),
                                     DOMAIN steps) > Len(kv.free)

(* Pop the blocks one step needs and record its new length. *)
CommitRow(L, kv, s) ==
    LET n == Growth(L, kv, s)
        left == Len(kv.free) - n
    IN  [valid |-> [kv.valid EXCEPT ![s.id] = s.start + s.len],
         blocks |-> [kv.blocks EXCEPT ![s.id] =
                        @ \o Reverse(SubSeq(kv.free, left + 1, Len(kv.free)))],
         free |-> SubSeq(kv.free, 1, left)]

Commit(L, kv, steps) == FoldLeft(LAMBDA k, s : CommitRow(L, k, s), kv, steps)

(* Mutant of Release: the blocks do not come back. *)
Release_Leaks(kv, r) ==
    [valid |-> [kv.valid EXCEPT ![r] = 0],
     blocks |-> [kv.blocks EXCEPT ![r] = <<>>],
     free |-> kv.free]

(* release: the blocks of the request go back on the free list. *)
Release(kv, r) ==
    [valid |-> [kv.valid EXCEPT ![r] = 0],
     blocks |-> [kv.blocks EXCEPT ![r] = <<>>],
     free |-> kv.free \o kv.blocks[r]]

(* Releases of several requests, in the order the engine reaches them. *)
ReleaseAll(kv, rs) == FoldLeft(Release, kv, rs)
=============================================================================
