--------------------------- MODULE ServingGateway ---------------------------
(***************************************************************************)
(* The serving gateway (serving/gateway.py): one thread per request runs   *)
(* handle() and _serve() against a backend session and a client            *)
(* connection, while other threads cancel requests and shut the service    *)
(* down.  What the threads share is the service state, the table of        *)
(* cancelled ids and the unguarded counter of requests in flight; a step   *)
(* of a request is the code between two looks at these, at the clock, at   *)
(* the connection or at the backend.                                       *)
(*                                                                         *)
(* Backend and connection are modelled from how the gateway uses them: a   *)
(* session yields chunks, one of which may carry the finish reason, and    *)
(* ends; every call of it may raise, an HqsbError or anything else.  A     *)
(* write to a client that left may be refused at any time after it left.   *)
(* Of the delivery ledger the model keeps whether any token was generated  *)
(* and whether one was not passed on.                                      *)
(***************************************************************************)
EXTENDS Integers, Sequences, FiniteSets

CONSTANTS
    Requests,      \* the threads of the transport, each for one request after another
    Ids,           \* values of the x-request-id header
    NoId           \* the id of a request that has not arrived

ASSUME GatewayAssumption ==
    /\ IsFiniteSet(Requests)
    /\ NoId \notin Ids

VARIABLES
    service,       \* _state
    inflight,      \* _inflight
    cancelled,     \* the ids with an entry in _cancelled (an entry is True)
    req,           \* what the thread of each request knows and has done
    raced          \* ghost: an update of _inflight overwrote another one

vars == <<service, inflight, cancelled, req, raced>>

-----------------------------------------------------------------------------
(* The request state machine.                                              *)

ALLOWED_REQUEST_TRANSITIONS ==
    [CLIENT_SCHEDULED |-> {"CONNECTING"},
     CONNECTING |-> {"RECEIVED"},
     RECEIVED |-> {"VALIDATED", "REJECTED_INVALID", "REJECTED_OVERLOAD"},
     VALIDATED |-> {"ADMISSION_PENDING", "REJECTED_INVALID"},
     ADMISSION_PENDING |-> {"QUEUED", "REJECTED_OVERLOAD", "BACKEND_FAILED"},
     QUEUED |-> {"ROUTED", "CANCEL_REQUESTED", "REJECTED_OVERLOAD",
                 "DISCONNECTED", "BACKEND_FAILED"},
     ROUTED |-> {"BACKEND_SUBMITTED", "REJECTED_OVERLOAD", "DISCONNECTED",
                 "CANCEL_REQUESTED", "BACKEND_FAILED"},
     BACKEND_SUBMITTED |-> {"FIRST_TOKEN_READY", "BACKEND_FAILED",
                 "CANCEL_REQUESTED", "DISCONNECTED", "TIMED_OUT",
                 "RETRYING_BEFORE_COMMIT"},
     RETRYING_BEFORE_COMMIT |-> {"BACKEND_SUBMITTED", "BACKEND_FAILED",
                 "FALLBACK_SELECTED"},
     FALLBACK_SELECTED |-> {"BACKEND_SUBMITTED"},
     FIRST_TOKEN_READY |-> {"STREAMING", "TERMINAL_FRAME_SENT",
                 "CANCEL_REQUESTED", "DISCONNECTED", "TIMED_OUT"},
     STREAMING |-> {"TERMINAL_FRAME_SENT", "CANCEL_REQUESTED",
                 "DISCONNECTED", "TIMED_OUT", "BACKEND_FAILED"},
     TERMINAL_FRAME_SENT |-> {"CLIENT_COMPLETED", "DISCONNECTED"},
     CLIENT_COMPLETED |-> {"CLEANED"},
     CANCEL_REQUESTED |-> {"CANCEL_PROPAGATED"},
     CANCEL_PROPAGATED |-> {"CANCELLED"},
     CANCELLED |-> {"CLEANED"},
     DISCONNECTED |-> {"CANCEL_REQUESTED", "CANCEL_PROPAGATED", "CLEANED"},
     TIMED_OUT |-> {"CANCEL_REQUESTED", "CANCEL_PROPAGATED", "CLEANED"},
     BACKEND_FAILED |-> {"CLEANED", "RETRYING_BEFORE_COMMIT"},
     REJECTED_INVALID |-> {"CLEANED"},
     REJECTED_OVERLOAD |-> {"CLEANED"},
     CLEANED |-> {}]

REQUEST_STATES == DOMAIN ALLOWED_REQUEST_TRANSITIONS

(* transition() raises at the first step the table does not allow; the     *)
(* machine stays where it was.                                             *)
LegalUpTo(s, path, n) ==
    \A i \in 1..n : path[i] \in ALLOWED_REQUEST_TRANSITIONS[(<<s>> \o path)[i]]

Raises(s, path) == ~LegalUpTo(s, path, Len(path))

Walk(s, path) ==
    LET n == CHOOSE k \in 0..Len(path) :
                 /\ LegalUpTo(s, path, k)
                 /\ k < Len(path) => ~LegalUpTo(s, path, k + 1)
    IN  (<<s>> \o path)[n + 1]

-----------------------------------------------------------------------------
ServiceStates == {"SERVING", "DRAINING", "FORCE_CANCELLING", "CLOSED"}

(* Codes of an outcome, besides "protocol_failure" and "backend_failed"    *)
(* (unavailable, another identity, out of memory).                         *)
Rejections == {"invalid", "overload", "unavailable", "deadline_infeasible"}
Stopped == {"client_cancelled", "client_disconnected", "deadline_exceeded"}

(* Where the thread is.  At "entered", "leaving" and "throwing" (the       *)
(* finally block, with or without an exception under way) it has read      *)
(* _inflight and not yet stored it; at "escaped" the exception has left    *)
(* handle().                                                               *)
InServe == {"open", "loop", "after", "except", "leaving", "throwing"}
Ended == {"done", "raised"}
Places == {"new", "validate", "admit", "route", "entered", "escaped"}
              \cup InServe \cup Ended

Fresh ==
    [pc |-> "new", machine |-> "CLIENT_SCHEDULED", id |-> NoId,
     stream |-> FALSE, code |-> "", head |-> FALSE, wire |-> "nothing",
     opened |-> FALSE, told |-> FALSE, deaf |-> FALSE, cleaned |-> FALSE,
     some |-> FALSE, missed |-> FALSE, finish |-> FALSE,
     gone |-> FALSE, noticed |-> FALSE, reg |-> 0]

Init ==
    /\ service = "SERVING"
    /\ inflight = 0
    /\ cancelled = {}
    /\ req = [r \in Requests |-> Fresh]
    /\ raced = FALSE

-----------------------------------------------------------------------------
(* The connection.                                                         *)

(* A write is accepted or refused; only one to a client that left may be   *)
(* refused, and none is accepted once the writer has noticed.  (The two    *)
(* writers of the repository notice by writing; TransportWriter also       *)
(* allows one that notices between two writes.)                            *)
WriteAccepted(r) == ~req[r].noticed
WriteRefused(r) == req[r].gone

ClientLeaves(r) ==
    /\ req[r].pc \in {"loop", "after"} /\ ~req[r].gone
    /\ req' = [req EXCEPT ![r].gone = TRUE]
    /\ UNCHANGED <<service, inflight, cancelled, raced>>

-----------------------------------------------------------------------------
(* handle(): up to the backend.                                            *)

(* _reject answers, then records: a refused transition is raised out of    *)
(* handle() after the answer has gone out.                                 *)
Target(why) ==
    IF why \in {"overload", "unavailable"} THEN "REJECTED_OVERLOAD"
    ELSE "REJECTED_INVALID"

Prelude(s, target) ==
    IF s = "CLIENT_SCHEDULED" THEN <<"CONNECTING", "RECEIVED">>
    ELSE IF s = "VALIDATED" /\ target = "REJECTED_OVERLOAD"
         THEN <<"ADMISSION_PENDING">>
         ELSE <<>>

Reject(r, why) ==
    LET old == req[r].machine
        path == Prelude(old, Target(why)) \o <<Target(why), "CLEANED">>
    IN  /\ req' = [req EXCEPT
                      ![r].pc = IF Raises(old, path) THEN "escaped" ELSE "done",
                      ![r].machine = Walk(old, path),
                      ![r].code = why, ![r].head = TRUE, ![r].wire = "error"]
        /\ UNCHANGED <<service, inflight, cancelled, raced>>

ControlPath ==
    <<"CONNECTING", "RECEIVED", "VALIDATED", "ADMISSION_PENDING", "QUEUED",
      "ROUTED", "BACKEND_SUBMITTED", "FIRST_TOKEN_READY", "STREAMING",
      "TERMINAL_FRAME_SENT", "CLIENT_COMPLETED", "CLEANED">>

HandleControl(r) ==
    /\ req[r].pc = "new"
    /\ req' = [req EXCEPT ![r].pc = "done", ![r].head = TRUE,
                          ![r].wire = "body",
                          ![r].machine = Walk(@, ControlPath)]
    /\ UNCHANGED <<service, inflight, cancelled, raced>>

(* Path and method are looked at before the service state.                 *)
RejectUnknown(r) == req[r].pc = "new" /\ Reject(r, "invalid")

RejectNotServing(r) ==
    /\ req[r].pc = "new"
    /\ service # "SERVING"
    /\ Reject(r, "unavailable")

(* Bound: the counter drifts with every lost update, so no request is let  *)
(* in after the first one (those under way go on).                         *)
DriftBound == ~raced

Receive(r, id, stream) ==
    /\ req[r].pc = "new"
    /\ service = "SERVING"
    /\ DriftBound
    /\ req' = [req EXCEPT ![r].pc = "validate",
                          ![r].machine = Walk(@, <<"CONNECTING", "RECEIVED">>),
                          ![r].id = id, ![r].stream = stream]
    /\ UNCHANGED <<service, inflight, cancelled, raced>>

Advance(r, path, place) ==
    /\ req' = [req EXCEPT ![r].machine = Walk(@, path), ![r].pc = place]
    /\ UNCHANGED <<service, inflight, cancelled, raced>>

(* request_pipeline refuses the body, or the deadline header is bad.       *)
Validate(r) ==
    /\ req[r].pc = "validate"
    /\ \/ Reject(r, "invalid")
       \/ Reject(r, "deadline_infeasible")
       \/ Advance(r, <<"VALIDATED", "ADMISSION_PENDING">>, "admit")

(* The admission policy may refuse for any budget, and the cost model for  *)
(* a deadline that cannot be met; a refusal with a code that is not in the *)
(* catalog is a ConfigError, and the policy may raise itself.              *)
Admit(r) ==
    /\ req[r].pc = "admit"
    /\ \/ Reject(r, "overload")
       \/ Reject(r, "deadline_infeasible")
       \/ Advance(r, <<>>, "escaped")
       \/ Advance(r, <<"QUEUED">>, "route")

(* No backend is left, or the router raises, or the thread goes on into    *)
(* _serve, where self._inflight += 1 is a read (here) and a store.         *)
Route(r) ==
    /\ req[r].pc = "route"
    /\ \/ Reject(r, "unavailable")
       \/ Advance(r, <<>>, "escaped")
       \/ /\ req' = [req EXCEPT ![r].machine = Walk(@, <<"ROUTED">>),
                                ![r].pc = "entered", ![r].reg = inflight]
          /\ UNCHANGED <<service, inflight, cancelled, raced>>

-----------------------------------------------------------------------------
(* _serve().                                                               *)

EnterStore(r) ==
    /\ req[r].pc = "entered"
    /\ inflight' = req[r].reg + 1
    /\ raced' = (raced \/ inflight # req[r].reg)
    /\ req' = [req EXCEPT ![r].pc = "open", ![r].reg = 0]
    /\ UNCHANGED <<service, cancelled>>

(* A transition refused inside the try block is a SchemaError like any     *)
(* other: the handler takes it for a malformed answer.                     *)
Try(r, path, new) ==
    LET old == req[r].machine
    IN  req' = [req EXCEPT ![r] =
                   IF Raises(old, path)
                   THEN [@ EXCEPT !.machine = Walk(old, path),
                                  !.pc = "except",
                                  !.code = IF @ = "" THEN "backend_failed" ELSE @]
                   ELSE [new EXCEPT !.machine = Walk(old, path)]]

(* A call of the backend raised, and left the request as q: the handler    *)
(* takes an HqsbError and finds a code for it, if none is set; any other   *)
(* exception passes by it to the finally block.                            *)
Throws(r, q) ==
    /\ \/ req' = [req EXCEPT ![r] =
                     [q EXCEPT !.pc = "except",
                               !.code = IF @ = "" THEN "backend_failed" ELSE @]]
       \/ req' = [req EXCEPT ![r] = [q EXCEPT !.pc = "throwing", !.reg = inflight]]
    /\ UNCHANGED <<service, inflight, cancelled, raced>>

(* There is no session, or there is one that answers with a wrong identity *)
(* or none.                                                                *)
OpenFails(r) ==
    /\ req[r].pc = "open"
    /\ \E opened \in BOOLEAN : Throws(r, [req[r] EXCEPT !.opened = opened])

Open(r) ==
    /\ req[r].pc = "open"
    /\ Try(r, <<"BACKEND_SUBMITTED">>,
           [req[r] EXCEPT !.pc = "loop", !.opened = TRUE])
    /\ UNCHANGED <<service, inflight, cancelled, raced>>

(* The turns of the loop: cancel, connection and deadline are looked at,   *)
(* in this order, before the next chunk is asked for.                      *)
StopSession(r, path, why) ==
    /\ Try(r, path, [req[r] EXCEPT !.pc = "after", !.told = TRUE,
                                   !.code = why])
    /\ UNCHANGED <<service, inflight, cancelled, raced>>

LoopCancelled(r) ==
    /\ req[r].pc = "loop"
    /\ req[r].id \in cancelled
    /\ StopSession(r, <<"CANCEL_REQUESTED", "CANCEL_PROPAGATED", "CANCELLED">>,
                   "client_cancelled")

LoopDisconnected(r) ==
    /\ req[r].pc = "loop"
    /\ req[r].id \notin cancelled /\ req[r].gone
    /\ Try(r, <<"DISCONNECTED", "CANCEL_PROPAGATED", "CANCELLED">>,
           [req[r] EXCEPT !.pc = "after", !.told = TRUE, !.noticed = TRUE,
                          !.code = "client_disconnected"])
    /\ UNCHANGED <<service, inflight, cancelled, raced>>

(* Mutant of LoopDeadline: the backend is not told. *)
LoopDeadline_NotTold(r) ==
    /\ req[r].pc = "loop"
    /\ req[r].id \notin cancelled
    /\ Try(r, <<"TIMED_OUT">>,
           [req[r] EXCEPT !.pc = "after", !.code = "deadline_exceeded"])
    /\ UNCHANGED <<service, inflight, cancelled, raced>>

(* The clock is read once a turn, and may be past the deadline in any.     *)
LoopDeadline(r) ==
    /\ req[r].pc = "loop"
    /\ req[r].id \notin cancelled
    /\ StopSession(r, <<"TIMED_OUT">>, "deadline_exceeded")

(* session.cancel raises in one of them, with its first transition made.   *)
CancelRaises(r) ==
    /\ req[r].pc = "loop"
    /\ \E first \in {"CANCEL_REQUESTED", "DISCONNECTED", "TIMED_OUT"} :
          /\ first = "CANCEL_REQUESTED" <=> req[r].id \in cancelled
          /\ first = "DISCONNECTED" => req[r].gone
          /\ ~Raises(req[r].machine, <<first>>)
          /\ Throws(r, [req[r] EXCEPT !.machine = first, !.deaf = TRUE,
                                      !.noticed = @ \/ first = "DISCONNECTED"])

Asks(r) == req[r].pc = "loop" /\ req[r].id \notin cancelled

ChunkPath(r) ==
    (IF ~req[r].some THEN <<"FIRST_TOKEN_READY">> ELSE <<>>)
        \o (IF req[r].stream /\ ~req[r].head THEN <<"STREAMING">> ELSE <<>>)

(* A chunk arrives and is passed on: written to a stream, kept otherwise.  *)
Chunk(r, last) ==
    /\ Asks(r)
    /\ ~req[r].finish
    /\ req[r].stream => WriteAccepted(r)
    /\ Try(r, ChunkPath(r),
           [req[r] EXCEPT !.some = TRUE, !.finish = last,
                          !.head = @ \/ req[r].stream,
                          !.wire = IF req[r].stream THEN "chunk" ELSE @])
    /\ UNCHANGED <<service, inflight, cancelled, raced>>

(* The socket refuses the frame: the loop is left and the backend told.    *)
ChunkRefused(r) ==
    /\ Asks(r)
    /\ ~req[r].finish
    /\ req[r].stream /\ WriteRefused(r)
    /\ Try(r, ChunkPath(r)
                  \o <<"DISCONNECTED", "CANCEL_PROPAGATED", "CANCELLED">>,
           [req[r] EXCEPT !.some = TRUE, !.missed = TRUE,
                          !.head = TRUE, !.noticed = TRUE,
                          !.pc = "after", !.told = TRUE,
                          !.code = "client_disconnected"])
    /\ UNCHANGED <<service, inflight, cancelled, raced>>

(* The same, and session.cancel raises: the code is already set and the    *)
(* machine has not moved.                                                  *)
RefusedRaises(r) ==
    /\ Asks(r)
    /\ ~req[r].finish
    /\ req[r].stream /\ WriteRefused(r)
    /\ ~Raises(req[r].machine, ChunkPath(r))
    /\ Throws(r, [req[r] EXCEPT !.machine = Walk(@, ChunkPath(r)), !.deaf = TRUE,
                                !.some = TRUE, !.missed = TRUE,
                                !.head = TRUE, !.noticed = TRUE,
                                !.code = "client_disconnected"])

(* next_chunk returns None: after the last chunk, or early (a hang).       *)
EndOfChunks(r) ==
    /\ Asks(r)
    /\ req' = [req EXCEPT ![r].pc = "after"]
    /\ UNCHANGED <<service, inflight, cancelled, raced>>

BackendRaises(r) == Asks(r) /\ Throws(r, req[r])

(* The end of the try block: the answer is completed or the failure        *)
(* reported, and a machine that reached an end is cleaned.                 *)
(* Mutant of Succeeded: a finish reason is invented where none came. *)
Succeeded_Invents(r) == req[r].code = ""

Succeeded(r) == req[r].code = "" /\ req[r].finish

(* Mutant of AnswerPath: a request that timed out is not cleaned. *)
AnswerPath_NoTimeout(r) ==
    (IF Succeeded(r) THEN <<"TERMINAL_FRAME_SENT", "CLIENT_COMPLETED", "CLEANED">>
     ELSE IF req[r].machine \in {"CANCELLED", "DISCONNECTED"}
          THEN <<"CLEANED">> ELSE <<>>)

AnswerPath(r) ==
    (IF Succeeded(r) THEN <<"TERMINAL_FRAME_SENT", "CLIENT_COMPLETED", "CLEANED">>
     ELSE IF req[r].machine \in {"CANCELLED", "TIMED_OUT", "DISCONNECTED"}
          THEN <<"CLEANED">> ELSE <<>>)

LastFrame(r) ==
    IF ~Succeeded(r) THEN "error"
    ELSE IF req[r].stream THEN "terminal" ELSE "body"

Answer(r, accepted) ==
    /\ req[r].pc = "after"
    /\ IF accepted THEN WriteAccepted(r) ELSE WriteRefused(r)
    /\ Try(r, AnswerPath(r),
           [req[r] EXCEPT !.pc = "leaving", !.reg = inflight, !.head = TRUE,
                          !.noticed = @ \/ ~accepted,
                          !.wire = IF accepted THEN LastFrame(r) ELSE @,
                          !.code = IF req[r].code = "" /\ ~req[r].finish
                                   THEN "protocol_failure" ELSE @])
    /\ UNCHANGED <<service, inflight, cancelled, raced>>

(* except HqsbError: a transition that is refused here is swallowed, and   *)
(* a failure after the head was written is not reported to the client.     *)
FailurePath(s) ==
    IF s \in {"BACKEND_SUBMITTED", "FIRST_TOKEN_READY", "STREAMING",
              "ROUTED", "QUEUED", "ADMISSION_PENDING"}
    THEN <<"BACKEND_FAILED", "CLEANED">> ELSE <<"CLEANED">>

Except(r, accepted) ==
    /\ req[r].pc = "except"
    /\ IF accepted THEN WriteAccepted(r) ELSE WriteRefused(r)
    /\ req' = [req EXCEPT ![r].pc = "leaving", ![r].reg = inflight,
                          ![r].machine = Walk(@, FailurePath(@)),
                          ![r].wire = IF accepted /\ ~req[r].head
                                      THEN "error" ELSE @,
                          ![r].noticed = @ \/ (~accepted /\ ~req[r].head),
                          ![r].head = TRUE]
    /\ UNCHANGED <<service, inflight, cancelled, raced>>

(* Mutant of Leave: the counter goes down only if a session was opened. *)
Leave_OnlyOpened(r) ==
    /\ req[r].pc \in {"leaving", "throwing"}
    /\ inflight' = IF req[r].reg = 0 \/ ~req[r].opened
                   THEN req[r].reg ELSE req[r].reg - 1
    /\ raced' = (raced \/ inflight # req[r].reg)
    /\ req' = [req EXCEPT ![r].pc = IF @ = "leaving" THEN "done" ELSE "escaped",
                          ![r].reg = 0, ![r].cleaned = req[r].opened]
    /\ UNCHANGED <<service, cancelled>>

(* finally: self._inflight = max(0, self._inflight - 1) has been read by   *)
(* the step before and is stored here; then the session is cleaned up.     *)
Leave(r) ==
    /\ req[r].pc \in {"leaving", "throwing"}
    /\ inflight' = IF req[r].reg = 0 THEN 0 ELSE req[r].reg - 1
    /\ raced' = (raced \/ inflight # req[r].reg)
    /\ req' = [req EXCEPT ![r].pc = IF @ = "leaving" THEN "done" ELSE "escaped",
                          ![r].reg = 0, ![r].cleaned = req[r].opened]
    /\ UNCHANGED <<service, cancelled>>

(* The transport answers for a handle() that raised before the head, if    *)
(* the client is there.                                                    *)
Dispatch(r, accepted) ==
    /\ req[r].pc = "escaped"
    /\ IF accepted THEN WriteAccepted(r) ELSE WriteRefused(r)
    /\ req' = [req EXCEPT ![r].pc = "raised", ![r].head = TRUE,
                          ![r].wire = IF accepted /\ ~req[r].head
                                      THEN "error" ELSE @]
    /\ UNCHANGED <<service, inflight, cancelled, raced>>

(* The outcome is handed over and the thread is free for another request.  *)
Return(r) ==
    /\ req[r].pc \in Ended
    /\ req' = [req EXCEPT ![r] = Fresh]
    /\ UNCHANGED <<service, inflight, cancelled, raced>>

-----------------------------------------------------------------------------
(* Operations on the service.                                              *)

RequestCancel(id) ==
    /\ id \notin cancelled
    /\ cancelled' = cancelled \cup {id}
    /\ UNCHANGED <<service, inflight, req, raced>>

BeginDrain ==
    /\ service = "SERVING"
    /\ service' = "DRAINING"
    /\ UNCHANGED <<inflight, cancelled, req, raced>>

(* The entries of _cancelled are set to True; they all are already.        *)
ForceCancel ==
    /\ service = "DRAINING"
    /\ service' = "FORCE_CANCELLING"
    /\ UNCHANGED <<inflight, cancelled, req, raced>>

Close ==
    /\ service \in {"DRAINING", "FORCE_CANCELLING"}
    /\ service' = "CLOSED"
    /\ UNCHANGED <<inflight, cancelled, req, raced>>

-----------------------------------------------------------------------------
Handle(r) ==
    \/ HandleControl(r) \/ RejectUnknown(r) \/ RejectNotServing(r)
    \/ \E id \in Ids, stream \in BOOLEAN : Receive(r, id, stream)

Serve(r) ==
    \/ Validate(r) \/ Admit(r) \/ Route(r)
    \/ EnterStore(r)
    \/ Open(r) \/ OpenFails(r)
    \/ LoopCancelled(r) \/ LoopDisconnected(r) \/ LoopDeadline(r) \/ CancelRaises(r)
    \/ \E last \in BOOLEAN : Chunk(r, last)
    \/ ChunkRefused(r) \/ RefusedRaises(r) \/ EndOfChunks(r) \/ BackendRaises(r)
    \/ \E accepted \in BOOLEAN :
          Answer(r, accepted) \/ Except(r, accepted) \/ Dispatch(r, accepted)
    \/ Leave(r) \/ Return(r)

Next ==
    \/ \E r \in Requests : Handle(r) \/ Serve(r) \/ ClientLeaves(r)
    \/ \E id \in Ids : RequestCancel(id)
    \/ BeginDrain \/ ForceCancel \/ Close

Spec == Init /\ [][Next]_vars

-----------------------------------------------------------------------------
TypeOK ==
    /\ service \in ServiceStates
    /\ inflight \in Nat
    /\ cancelled \subseteq Ids
    /\ req \in [Requests ->
          [pc : Places, machine : REQUEST_STATES, id : Ids \cup {NoId},
           stream : BOOLEAN,
           code : {"", "protocol_failure", "backend_failed"} \cup Rejections
                      \cup Stopped,
           head : BOOLEAN,
           wire : {"nothing", "chunk", "terminal", "body", "error"},
           opened : BOOLEAN, told : BOOLEAN, deaf : BOOLEAN, cleaned : BOOLEAN,
           some : BOOLEAN, missed : BOOLEAN, finish : BOOLEAN,
           gone : BOOLEAN, noticed : BOOLEAN, reg : Nat]]
    /\ raced \in BOOLEAN

(* "Terminal states; a request must end in exactly one of them."          *)
TERMINAL_REQUEST_STATES ==
    {"CLEANED", "CANCELLED", "REJECTED_INVALID", "REJECTED_OVERLOAD"}

(* The comment on them, at line 135 of gateway.py, of the requests that    *)
(* handle() returns an outcome for: the machine ends in a terminal state.  *)
EndsTerminal ==
    \A r \in Requests :
        req[r].pc = "done" => req[r].machine \in TERMINAL_REQUEST_STATES

(* Whatever meets a request and wherever it does: one that is recorded as  *)
(* completed, refused, cancelled, timed out or disconnected took all its   *)
(* transitions to CLEANED, and none of them was refused on the way.        *)
EndsCleaned ==
    \A r \in Requests :
        req[r].pc = "done"
            /\ req[r].code \in {""} \cup Rejections \cup Stopped
                => req[r].machine = "CLEANED"

(* A backend session that was opened is cleaned up on every way out of     *)
(* _serve, exceptions of any class included, and was told to stop exactly  *)
(* if the request was cancelled, timed out or lost its client (unless the  *)
(* session's own cancel raised).                                           *)
BackendReleased ==
    \A r \in Requests :
        /\ req[r].pc \in Ended => req[r].cleaned = req[r].opened
        /\ ~req[r].deaf => (req[r].told <=> req[r].code \in Stopped)

(* What a client is shown at the end is what the service records: the      *)
(* terminal marker or the body only for a completed request and after all  *)
(* its tokens, an error only for one that is not, and to a client that     *)
(* stayed the whole answer of a completed request, and never nothing,      *)
(* whichever call raised.                                                  *)
AnswerTruthful ==
    \A r \in Requests :
        LET q == req[r]
            completed == q.pc = "done" /\ q.code = ""
        IN  q.pc \in Ended =>
                /\ q.wire \in {"terminal", "body"} => completed /\ ~q.missed
                /\ q.wire = "error" => ~completed
                /\ ~q.gone => q.wire # "nothing"
                /\ ~q.gone /\ completed => q.wire \in {"terminal", "body"}

(* health() and the admission policy are told the number of requests that  *)
(* are being served, as long as no two updates of the unguarded counter    *)
(* have met; and every variable keeps its type.                            *)
InflightSound ==
    /\ TypeOK
    /\ ~raced =>
           inflight = Cardinality({r \in Requests : req[r].pc \in InServe})

=============================================================================
