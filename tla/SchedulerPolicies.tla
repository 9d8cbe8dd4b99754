------------------------- MODULE SchedulerPolicies -------------------------
(***************************************************************************)
(* hqsb/runtime/scheduler_policies.py: which rows the next forward takes   *)
(* and how many tokens of each.  Pure operators over the limits record L   *)
(* of one session (core/contracts/scheduling.py) and a view of the rows:   *)
(*                                                                         *)
(*   rows          the candidates, in the order the policy gives them;     *)
(*   v.history[r]  len(r.history), prompt and committed output;            *)
(*   v.consumed[r] the positions whose K/V the device already holds;       *)
(*   v.output[r]   len(r.output).                                          *)
(*                                                                         *)
(* A step is the record of Step: request, start, the number of its tokens  *)
(* and whether the forward that runs it emits a token for the request.     *)
(***************************************************************************)
EXTENDS Integers, Sequences, SequencesExt

(* The elements of s that are in S, in their order. *)
Among(s, S) ==
    FoldLeft(LAMBDA t, x : IF x \in S THEN Append(t, x) ELSE t, <<>>, s)

Least(a, b) == IF a <= b THEN a ELSE b

Remaining(v, r) == v.history[r] - v.consumed[r]

(* A decode row has emitted a token and is only that token behind. *)
Decoding(v, r) == v.output[r] > 0 /\ Remaining(v, r) = 1

(* row_limit: the serial mode forms batches of one. *)
RowLimit(L) == IF L.mode = "serial" THEN 1 ELSE L.batch

Take(L, v, a, r) ==
    IF L.chunked THEN Least(Remaining(v, r), Least(L.chunk, a.available))
    ELSE Remaining(v, r)

(* The body of allocate's loop, on a = [selected, budget, available, slots].*)
(* Once slots or tokens run out the remaining candidates change nothing:   *)
(* the `break`.  A whole prompt that does not fit is passed over: the      *)
(* `continue`.                                                             *)
AllocateRow(L, v, a, r) ==
    LET chunk == Take(L, v, a, r)
        end == v.consumed[r] + chunk
    IN  IF a.slots <= 0 \/ a.available <= 0 \/ chunk > a.available
        THEN a
        ELSE [selected |-> Append(a.selected,
                  [id |-> r, start |-> v.consumed[r], len |-> chunk,
                   emit |-> end = v.history[r]]),
              budget |-> a.budget - chunk,
              available |-> a.available - chunk,
              slots |-> a.slots - 1]

(* allocate(candidates, available, slots), from what was selected so far.  *)
Allocate(L, v, a, candidates, available, slots) ==
    FoldLeft(LAMBDA b, r : AllocateRow(L, v, b, r),
             [a EXCEPT !.available = available, !.slots = slots],
             candidates)

Fresh(L) == [selected |-> <<>>, budget |-> L.batched, available |-> 0,
             slots |-> 0]

Chosen(a) == {a.selected[i].id : i \in DOMAIN a.selected}

(* The tokens kept back for prompts while decode rows are served first.    *)
Quota(L, v, prefill) ==
    IF L.chunked THEN Least(L.quota, L.batched - 1)
    ELSE Least(Remaining(v, prefill[1]), L.batched)

(* decode_first with both kinds present and room for both.                 *)
DecodeThenPrefill(L, v, decode, prefill) ==
    LET limit == RowLimit(L)
        a == Allocate(L, v, Fresh(L), decode,
                      L.batched - Quota(L, v, prefill), limit - 1)
        b == Allocate(L, v, a, prefill, a.budget, limit - Len(a.selected))
    IN  Allocate(L, v, b, Among(decode, ToSet(decode) \ Chosen(b)),
                 b.budget, limit - Len(b.selected))

(* plan(sequences, limits, now, service, mode, tick).  tick matters by its *)
(* parity alone: a batch of one row alternates between the two phases.     *)
Plan(L, v, rows, odd) ==
    LET ready == {r \in ToSet(rows) : Decoding(v, r)}
        decode == Among(rows, ready)
        prefill == Among(rows, ToSet(rows) \ ready)
        mixed == L.phase = "decode_first" /\ decode # <<>> /\ prefill # <<>>
        single == RowLimit(L) = 1 \/ L.batched = 1
        plain(candidates) ==
            Allocate(L, v, Fresh(L), candidates, L.batched, RowLimit(L))
        done == CASE mixed /\ ~single -> DecodeThenPrefill(L, v, decode, prefill)
                  [] mixed /\ single  -> plain(IF odd THEN prefill ELSE decode)
                  [] OTHER            -> plain(rows)
    IN  done.selected

(* The padded rectangle a batch needs: rows x (longest past + longest new).*)
Padded(steps) ==
    LET most(f(_)) == CHOOSE n \in {f(steps[i]) : i \in DOMAIN steps} :
                          \A i \in DOMAIN steps : f(steps[i]) <= n
    IN  Len(steps) * (most(LAMBDA s : s.start) + most(LAMBDA s : s.len))

(* Mutant of Trimmed: the padded rectangle is not checked. *)
Trimmed_Never(L, steps) == steps

(* The engine drops rows from the end until the rectangle fits, and keeps  *)
(* the first row whatever it needs.                                        *)
Trimmed(L, steps) ==
    LET fits == {n \in 1..Len(steps) :
                    n = 1 \/ Padded(SubSeq(steps, 1, n)) <= L.padded}
    IN  IF steps = <<>> THEN <<>>
        ELSE SubSeq(steps, 1, CHOOSE n \in fits : \A m \in fits : m <= n)
=============================================================================
