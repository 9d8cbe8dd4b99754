----------------------------- MODULE BlockPool -----------------------------
(***************************************************************************)
(* The block pool of hqsb/runtime/kv.py: paged blocks with an owner, a     *)
(* reference count, readers, and a table of allowed transitions.           *)
(*                                                                         *)
(* A call is one action (the pool has no concurrency of its own).  What is *)
(* hard is the sequence: which calls, by which requests, keep the count    *)
(* and the readers in step, so that a block somebody reads is never given  *)
(* away.  Callers may use the whole interface: reuse cached blocks, share  *)
(* a block more than once, release some of their blocks, release again     *)
(* (as inject_double_free and scripts/runtime/run_e07.py do).              *)
(*                                                                         *)
(* Abstractions.  A call asks for a number of blocks, not of tokens, and   *)
(* which free blocks it gets is left open.  The list of readers is a bag.  *)
(* Content hashes are set with the first write and cleared by evict.       *)
(* Token ranges, addresses, history and events are left out, and so are    *)
(* the states COPY_ON_WRITE and PREEMPTED, which no operation enters, and  *)
(* calls that raise before they change anything.                           *)
(***************************************************************************)
EXTENDS Integers

CONSTANTS
    Blocks,    \* the physical blocks
    Requests,  \* request identities
    None,
    MaxRefs    \* bound of the model: references and reads of one block

VARIABLES
    state,     \* BlockRecord.state
    owner,     \* BlockRecord.owner_request, None for ""
    refcount,  \* BlockRecord.refcount
    readers,   \* BlockRecord.readers: how often each request is listed
    hashed     \* content_hash is set

vars == <<state, owner, refcount, readers, hashed>>

(* ALLOWED_BLOCK_TRANSITIONS, without the two states nobody enters. *)
Allowed == [FREE          |-> {"ALLOCATED"},
            ALLOCATED     |-> {"WRITTEN", "FREE"},
            WRITTEN       |-> {"ACTIVE", "FREE"},
            ACTIVE        |-> {"SHARED_CACHED", "EVICTABLE", "FREE"},
            SHARED_CACHED |-> {"ACTIVE", "EVICTABLE", "FREE"},
            EVICTABLE     |-> {"EVICTING", "ACTIVE"},
            EVICTING      |-> {"FREE"}]

Init ==
    /\ state = [b \in Blocks |-> "FREE"]
    /\ owner = [b \in Blocks |-> None]
    /\ refcount = [b \in Blocks |-> 0]
    /\ readers = [b \in Blocks |-> [r \in Requests |-> 0]]
    /\ hashed = [b \in Blocks |-> FALSE]

In(s) == {b \in Blocks : state[b] = s}

(* cached_blocks() *)
Cached == In("SHARED_CACHED") \cup In("EVICTABLE")

Reads(r, b) == readers[b][r] > 0

(* blocks_for(request_id) *)
BlocksFor(r) == {b \in Blocks : Reads(r, b) \/ owner[b] = r}

(* r is listed once more; or listed, if it was not. *)
Listed(b, r) == [readers[b] EXCEPT ![r] = @ + 1]
ListedOnce(b, r) == IF Reads(r, b) THEN readers[b] ELSE Listed(b, r)

-----------------------------------------------------------------------------
(* The blocks allocate takes: reused ones become ACTIVE and gain a reader,  *)
(* but not a reference; fresh ones are allocated, written and, if the call  *)
(* succeeds, activated.                                                     *)
Take(r, fresh, reused, last) ==
    /\ state' = [b \in Blocks |-> IF b \in fresh THEN last
                                  ELSE IF b \in reused THEN "ACTIVE"
                                  ELSE state[b]]
    /\ owner' = [b \in Blocks |-> IF b \in fresh THEN r ELSE owner[b]]
    /\ refcount' = [b \in Blocks |-> IF b \in fresh THEN 1 ELSE refcount[b]]
    /\ readers' = [b \in Blocks |-> IF b \in reused THEN Listed(b, r)
                                    ELSE IF b \in fresh THEN ListedOnce(b, r)
                                    ELSE readers[b]]
    /\ hashed' = [b \in Blocks |-> b \in fresh \/ hashed[b]]

(* What a caller passes as reuse: blocks of the cache that it does not read *)
(* yet.                                                                     *)
Reusable(r) == {b \in Cached : ~Reads(r, b)}

Allocate(r, fresh, reused) ==
    /\ fresh \subseteq In("FREE") /\ reused \subseteq Reusable(r)
    /\ fresh \cup reused # {}
    /\ Take(r, fresh, reused, "ACTIVE")

(* The pool is exhausted: the call raises after it has taken every free     *)
(* block, and leaves them WRITTEN.                                          *)
AllocateFails(r, reused) ==
    /\ reused \subseteq Reusable(r)
    /\ Take(r, In("FREE"), reused, "WRITTEN")

(* share(block_id, request_id).  The code refuses a free block only; a      *)
(* caller knows a block from a successful allocate or from cached_blocks.   *)
Share(b, r) ==
    /\ state[b] \in {"ACTIVE", "SHARED_CACHED", "EVICTABLE"}
    /\ refcount[b] < MaxRefs
    /\ refcount' = [refcount EXCEPT ![b] = @ + 1]
    /\ readers' = [readers EXCEPT ![b] = ListedOnce(b, r)]
    /\ state' = [state EXCEPT ![b] = IF @ = "EVICTABLE" THEN "ACTIVE" ELSE @]
    /\ UNCHANGED <<owner, hashed>>

Lowered(n) == IF n > 0 THEN n - 1 ELSE 0

(* Where release leaves a block that has no reference left.  A free block   *)
(* stays free: its transition is refused and ends the call, as if the       *)
(* blocks after it had not been asked for.                                  *)
Retired(b) == CASE state[b] \in {"ACTIVE", "SHARED_CACHED"} ->
                       IF hashed[b] THEN "EVICTABLE" ELSE "FREE"
                [] state[b] = "EVICTABLE" -> "EVICTABLE"
                [] OTHER -> "FREE"

(* release(request_id, block_ids): all of blocks_for(request_id), or those  *)
(* of them the caller names, on finish, cancel or timeout.  The owner's     *)
(* name is cleared with the last reference only.                            *)
Release(r, mine) ==
    LET last == {b \in mine : Lowered(refcount[b]) = 0}
    IN  /\ mine \subseteq BlocksFor(r) /\ mine # {}
        /\ readers' = [b \in Blocks |-> IF b \in mine
                                        THEN [readers[b] EXCEPT ![r] = Lowered(@)]
                                        ELSE readers[b]]
        /\ refcount' = [b \in Blocks |-> IF b \in mine THEN Lowered(refcount[b])
                                         ELSE refcount[b]]
        /\ owner' = [b \in Blocks |-> IF b \in last /\ owner[b] = r THEN None
                                      ELSE owner[b]]
        /\ state' = [b \in Blocks |-> IF b \in last THEN Retired(b)
                                      ELSE state[b]]
        /\ UNCHANGED hashed

(* mark_cached(block_id, request_id): a reader retains an active block.     *)
MarkCached(b, r) ==
    /\ Reads(r, b) /\ "SHARED_CACHED" \in Allowed[state[b]]
    /\ state' = [state EXCEPT ![b] = "SHARED_CACHED"]
    /\ UNCHANGED <<owner, refcount, readers, hashed>>

(* evict(block_id): EVICTING and FREE in one call. *)
Evict(b) ==
    /\ "EVICTING" \in Allowed[state[b]] /\ refcount[b] = 0
    /\ hashed' = [hashed EXCEPT ![b] = FALSE]
    /\ owner' = [owner EXCEPT ![b] = None]
    /\ state' = [state EXCEPT ![b] = "FREE"]
    /\ UNCHANGED <<refcount, readers>>

Next ==
    \/ \E r \in Requests : \E fresh, reused \in SUBSET Blocks :
          Allocate(r, fresh, reused)
    \/ \E r \in Requests : \E reused \in SUBSET Blocks :
          AllocateFails(r, reused)
    \/ \E r \in Requests : \E mine \in SUBSET Blocks : Release(r, mine)
    \/ \E b \in Blocks, r \in Requests : Share(b, r) \/ MarkCached(b, r)
    \/ \E b \in Blocks : Evict(b)

Spec == Init /\ [][Next]_vars

-----------------------------------------------------------------------------
(* "evict never touches active/shared", "free => no live owner" (the        *)
(* docstring of kv.py), "active/shared readers are never touched" (evict):  *)
(* a block that a request still reads is not free for the next allocate.    *)
FreeIsUnread ==
    \A b \in In("FREE") : \A r \in Requests : ~Reads(r, b)
=============================================================================
