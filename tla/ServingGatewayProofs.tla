------------------------ MODULE ServingGatewayProofs ------------------------
(***************************************************************************)
(* Proofs about ServingGateway, for any number of transport threads and    *)
(* request ids.                                                            *)
(*                                                                         *)
(* None of the properties is inductive: what the client and the backend    *)
(* have seen at the end of a request depends on where its state machine    *)
(* was when the loop was left, and the counter depends on what the thread  *)
(* read.  The invariant says for every place of the thread what the        *)
(* request looks like there; in particular no transition inside the try    *)
(* block is ever refused, so the handler is entered for real failures of   *)
(* the backend only.                                                       *)
(***************************************************************************)
EXTENDS ServingGateway, FiniteSetTheorems, SequenceTheorems, TLAPS

-----------------------------------------------------------------------------
(***************************************************************************)
(* The inductive invariant: the request q at each place of its thread.     *)
(***************************************************************************)

\* No session, no token, nothing written, nothing wrong.
Untouched(q) ==
    /\ q.code = "" /\ ~q.head /\ q.wire = "nothing"
    /\ q.opened = FALSE /\ q.cleaned = FALSE /\ ~q.told /\ ~q.deaf
    /\ ~q.some /\ ~q.missed /\ ~q.finish /\ ~q.gone /\ ~q.noticed

\* Where the machine of a request with a session is, and what its client saw.
Served(q) ==
    /\ q.machine = IF ~q.some THEN "BACKEND_SUBMITTED"
                   ELSE IF q.stream THEN "STREAMING" ELSE "FIRST_TOKEN_READY"
    /\ q.wire = IF q.stream /\ q.some THEN "chunk" ELSE "nothing"
    /\ q.head <=> q.stream /\ q.some
    /\ q.opened /\ ~q.told /\ ~q.deaf /\ ~q.missed /\ ~q.noticed
    /\ q.finish => q.some

\* The loop was left for one of the three reasons to stop.
StoppedOK(q) ==
    /\ q.code \in Stopped /\ q.told /\ ~q.deaf /\ q.opened
    /\ q.machine \in {"CANCELLED", "TIMED_OUT"}
    /\ q.noticed => q.gone
    /\ q.wire \in {"nothing", "chunk"}

\* The stop was passed on exactly if there is one, unless cancel raised.
ToldOK(q) == ~q.deaf => (q.told <=> q.code \in Stopped)

\* A call of the backend raised: the client saw part of a stream at most, and a
\* stop that is recorded nevertheless found the machine in the stream.
BrokenOK(q) ==
    /\ q.wire \in {"nothing", "chunk"}
    /\ q.head /\ ~q.gone => q.wire = "chunk"
    /\ ToldOK(q) /\ ~q.told

FailedOK(q) ==
    /\ BrokenOK(q)
    /\ q.code = "backend_failed" \/ (q.code \in Stopped /\ q.machine = "STREAMING")

\* What the properties ask of a request that has its outcome, its session aside.
Final(q) ==
    /\ q.code \in {""} \cup Rejections \cup Stopped => q.machine = "CLEANED"
    /\ ToldOK(q)
    /\ q.wire \in {"terminal", "body"} => q.code = "" /\ ~q.missed
    /\ q.wire = "error" => q.code # ""
    /\ ~q.gone => q.wire # "nothing" /\ (q.code = "" => q.wire \in {"terminal", "body"})

\* And of one whose thread was left by an exception, before and after the
\* transport has answered for it.
Escaped(q) ==
    /\ ToldOK(q) /\ q.wire \notin {"terminal", "body"}
    /\ q.head /\ ~q.gone => q.wire # "nothing"

RequestOK(q) ==
    /\ q.pc = "new" => Untouched(q) /\ q.machine = "CLIENT_SCHEDULED"
    /\ q.pc = "validate" => Untouched(q) /\ q.machine = "RECEIVED"
    /\ q.pc = "admit" => Untouched(q) /\ q.machine = "ADMISSION_PENDING"
    /\ q.pc = "route" => Untouched(q) /\ q.machine = "QUEUED"
    /\ q.pc \in {"entered", "open"} => Untouched(q) /\ q.machine = "ROUTED"
    /\ q.pc = "loop" => Served(q) /\ q.code = ""
    /\ q.pc = "after" => (Served(q) /\ q.code = "") \/ StoppedOK(q)
    /\ q.pc = "except" => FailedOK(q)
    /\ q.pc \in {"leaving", "done"} => Final(q)
    /\ q.pc = "throwing" => BrokenOK(q)
    /\ q.pc = "escaped" => Escaped(q)
    /\ q.pc = "raised" => Escaped(q) /\ (~q.gone => q.wire # "nothing")
    /\ q.pc \in {"done", "escaped", "raised"} => q.cleaned = q.opened

Inv == InflightSound /\ \A r \in Requests : RequestOK(req[r])

-----------------------------------------------------------------------------
(***************************************************************************)
(* The request state machine.                                              *)
(***************************************************************************)

\* The steps of the table that the gateway takes, and the ones it tries to.
LEMMA Table ==
  /\ "CONNECTING" \in ALLOWED_REQUEST_TRANSITIONS["CLIENT_SCHEDULED"]
  /\ "RECEIVED" \in ALLOWED_REQUEST_TRANSITIONS["CONNECTING"]
  /\ {"VALIDATED", "REJECTED_INVALID", "REJECTED_OVERLOAD"} \subseteq ALLOWED_REQUEST_TRANSITIONS["RECEIVED"]
  /\ "ADMISSION_PENDING" \in ALLOWED_REQUEST_TRANSITIONS["VALIDATED"]
  /\ {"QUEUED", "REJECTED_OVERLOAD"} \subseteq ALLOWED_REQUEST_TRANSITIONS["ADMISSION_PENDING"]
  /\ "REJECTED_INVALID" \notin ALLOWED_REQUEST_TRANSITIONS["ADMISSION_PENDING"]
  /\ {"ROUTED", "REJECTED_OVERLOAD"} \subseteq ALLOWED_REQUEST_TRANSITIONS["QUEUED"]
  /\ {"BACKEND_SUBMITTED", "BACKEND_FAILED"} \subseteq ALLOWED_REQUEST_TRANSITIONS["ROUTED"]
  /\ {"FIRST_TOKEN_READY", "BACKEND_FAILED", "CANCEL_REQUESTED", "DISCONNECTED", "TIMED_OUT"}
        \subseteq ALLOWED_REQUEST_TRANSITIONS["BACKEND_SUBMITTED"]
  /\ {"STREAMING", "TERMINAL_FRAME_SENT", "CANCEL_REQUESTED", "DISCONNECTED", "TIMED_OUT"}
        \subseteq ALLOWED_REQUEST_TRANSITIONS["FIRST_TOKEN_READY"]
  /\ "BACKEND_FAILED" \notin ALLOWED_REQUEST_TRANSITIONS["FIRST_TOKEN_READY"]
  /\ {"TERMINAL_FRAME_SENT", "BACKEND_FAILED", "CANCEL_REQUESTED", "DISCONNECTED", "TIMED_OUT"}
        \subseteq ALLOWED_REQUEST_TRANSITIONS["STREAMING"]
  /\ "CLIENT_COMPLETED" \in ALLOWED_REQUEST_TRANSITIONS["TERMINAL_FRAME_SENT"]
  /\ "CANCEL_PROPAGATED" \in ALLOWED_REQUEST_TRANSITIONS["CANCEL_REQUESTED"]
  /\ "CANCEL_PROPAGATED" \in ALLOWED_REQUEST_TRANSITIONS["DISCONNECTED"]
  /\ "CANCELLED" \in ALLOWED_REQUEST_TRANSITIONS["CANCEL_PROPAGATED"]
  /\ \A s \in {"CLIENT_COMPLETED", "CANCELLED", "TIMED_OUT", "BACKEND_FAILED", "REJECTED_INVALID",
               "REJECTED_OVERLOAD"} : "CLEANED" \in ALLOWED_REQUEST_TRANSITIONS[s]
BY DEF ALLOWED_REQUEST_TRANSITIONS

\* The states of the machine.
LEMMA States ==
  REQUEST_STATES = {"CLIENT_SCHEDULED", "CONNECTING", "RECEIVED", "VALIDATED", "ADMISSION_PENDING",
     "QUEUED", "ROUTED", "BACKEND_SUBMITTED", "RETRYING_BEFORE_COMMIT", "FALLBACK_SELECTED",
     "FIRST_TOKEN_READY", "STREAMING", "TERMINAL_FRAME_SENT", "CLIENT_COMPLETED",
     "CANCEL_REQUESTED", "CANCEL_PROPAGATED", "CANCELLED", "DISCONNECTED", "TIMED_OUT",
     "BACKEND_FAILED", "REJECTED_INVALID", "REJECTED_OVERLOAD", "CLEANED"}
BY DEF REQUEST_STATES, ALLOWED_REQUEST_TRANSITIONS

\* The path with its start in front.
LEMMA FromStart ==
  ASSUME NEW s \in REQUEST_STATES, NEW path \in Seq(REQUEST_STATES)
  PROVE  /\ (<<s>> \o path)[1] = s
         /\ \A i \in 1..Len(path) : (<<s>> \o path)[i + 1] = path[i]
OBVIOUS

\* The walk ends where the path is legal so far and no further.
LEMMA WalkAt ==
  ASSUME NEW s, NEW path, NEW n \in Nat, Len(path) = n, NEW Good \in SUBSET (1..n),
         \A i \in 1..n : i \in Good <=> path[i] \in ALLOWED_REQUEST_TRANSITIONS[(<<s>> \o path)[i]],
         NEW m \in 0..n, 1..m \subseteq Good, m < n => m + 1 \notin Good
  PROVE  Walk(s, path) = (<<s>> \o path)[m + 1] /\ (Raises(s, path) <=> m < n)
<1>1. ASSUME NEW k \in 0..n
      PROVE  LegalUpTo(s, path, k) <=> 1..k \subseteq Good
  <2> DEFINE full == <<s>> \o path
  <2> HIDE DEF full
  <2>1. \A i \in 1..n : i \in Good <=> path[i] \in ALLOWED_REQUEST_TRANSITIONS[full[i]]
    BY DEF full
  <2> DEFINE Legal(i) == path[i] \in ALLOWED_REQUEST_TRANSITIONS[full[i]]
  <2>2. \A i \in 1..k : i \in Good <=> Legal(i)
    <3>1. 1..k \subseteq 1..n
      OBVIOUS
    <3>2. QED
      BY <2>1, <3>1
  <2>3. (\A i \in 1..k : Legal(i)) <=> 1..k \subseteq Good
    <3> HIDE DEF Legal
    <3>1. QED
      BY <2>2, Zenon
  <2>4. QED
    BY <2>3 DEF LegalUpTo, full
<1>2. ASSUME NEW k \in 0..n
      PROVE  (LegalUpTo(s, path, k) /\ (k < n => ~LegalUpTo(s, path, k + 1))) <=> k = m
  <2>1. LegalUpTo(s, path, k) <=> 1..k \subseteq Good
    BY <1>1
  <2>2. k < n => (LegalUpTo(s, path, k + 1) <=> 1..(k + 1) \subseteq Good)
    <3>1. k < n => k + 1 \in 0..n
      OBVIOUS
    <3>2. QED
      BY <1>1, <3>1
  <2>3. (1..k \subseteq Good /\ (k < n => ~(1..(k + 1) \subseteq Good))) <=> k = m
    <3>1. CASE k = m
      BY <3>1
    <3>2. CASE k < m
      BY <3>2
    <3>3. CASE k > m
      <4>1. m + 1 \in 1..k
        BY <3>3
      <4>2. QED
        BY <3>3, <4>1
    <3>4. QED
      BY <3>1, <3>2, <3>3
  <2>4. QED
    BY <2>1, <2>2, <2>3
<1>3. Walk(s, path) = (<<s>> \o path)[m + 1]
  <2>1. (CHOOSE k \in 0..Len(path) : /\ LegalUpTo(s, path, k)
                                     /\ k < Len(path) => ~LegalUpTo(s, path, k + 1)) = m
    <3>1. Len(path) = n
      OBVIOUS
    <3>2. ASSUME NEW k \in 0..Len(path)
          PROVE  (/\ LegalUpTo(s, path, k)
                  /\ k < Len(path) => ~LegalUpTo(s, path, k + 1)) <=> k = m
      <4>1. k \in 0..n
        BY <3>1
      <4>2. (LegalUpTo(s, path, k) /\ (k < n => ~LegalUpTo(s, path, k + 1))) <=> k = m
        BY <1>2, <4>1
      <4>3. QED
        BY <3>1, <4>2
    <3>3. m \in 0..Len(path)
      BY <3>1
    <3>4. QED
      BY <3>2, <3>3, Zenon
  <2>2. QED
    BY <2>1 DEF Walk
<1>4. n \in 0..n /\ (1..n \subseteq Good <=> ~(m < n))
  <2>1. CASE m < n
    <3>1. m + 1 \in 1..n
      BY <2>1
    <3>2. QED
      BY <2>1, <3>1
  <2>2. CASE m = n
    BY <2>2
  <2>3. QED
    BY <2>1, <2>2
<1>5. LegalUpTo(s, path, n) <=> ~(m < n)
  BY <1>1, <1>4
<1>6. Raises(s, path) <=> m < n
  BY <1>5 DEF Raises
<1>7. QED
  BY <1>3, <1>6

\* A path that is legal to its end is walked to its end.
LEMMA WalkLegal ==
  ASSUME NEW s \in REQUEST_STATES, NEW path \in Seq(REQUEST_STATES), NEW n \in Nat \ {0}, Len(path) = n,
         path[1] \in ALLOWED_REQUEST_TRANSITIONS[s],
         \A i \in 1..(n - 1) : path[i + 1] \in ALLOWED_REQUEST_TRANSITIONS[path[i]]
  PROVE  Walk(s, path) = path[n] /\ ~Raises(s, path)
<1>1. ASSUME NEW i \in 1..n
      PROVE  path[i] \in ALLOWED_REQUEST_TRANSITIONS[(<<s>> \o path)[i]]
  <2>1. CASE i = 1
    BY <2>1, FromStart
  <2>2. CASE i # 1
    <3>1. i - 1 \in 1..(n - 1) /\ i - 1 \in 1..Len(path)
      BY <2>2
    <3>2. (<<s>> \o path)[(i - 1) + 1] = path[i - 1] /\ path[(i - 1) + 1] \in ALLOWED_REQUEST_TRANSITIONS[path[i - 1]]
      BY <3>1, FromStart
    <3>3. (i - 1) + 1 = i
      OBVIOUS
    <3>4. QED
      BY <3>2, <3>3
  <2>3. QED
    BY <2>1, <2>2
<1>2. (<<s>> \o path)[n + 1] = path[n]
  BY FromStart
<1> DEFINE Good == 1..n
<1>3. \A i \in 1..n : i \in Good <=> path[i] \in ALLOWED_REQUEST_TRANSITIONS[(<<s>> \o path)[i]]
  BY <1>1
<1>4. Good \in SUBSET (1..n) /\ n \in 0..n /\ 1..n \subseteq Good /\ ~(n < n)
  OBVIOUS
<1> HIDE DEF Good
<1>5. Walk(s, path) = (<<s>> \o path)[n + 1] /\ (Raises(s, path) <=> n < n)
  BY <1>3, <1>4, WalkAt
<1>6. QED
  BY <1>2, <1>4, <1>5

\* A path whose first step is refused is not walked at all.
LEMMA WalkRefused ==
  ASSUME NEW s \in REQUEST_STATES, NEW path \in Seq(REQUEST_STATES), NEW n \in Nat \ {0}, Len(path) = n,
         path[1] \notin ALLOWED_REQUEST_TRANSITIONS[s]
  PROVE  Walk(s, path) = s /\ Raises(s, path)
<1> DEFINE Good == {i \in 1..n : path[i] \in ALLOWED_REQUEST_TRANSITIONS[(<<s>> \o path)[i]]}
<1>1. (<<s>> \o path)[1] = s
  BY FromStart
<1>2. /\ Good \in SUBSET (1..n)
      /\ \A i \in 1..n : i \in Good <=> path[i] \in ALLOWED_REQUEST_TRANSITIONS[(<<s>> \o path)[i]]
  BY Zenon
<1>3. 1 \notin Good
  BY <1>1
<1> HIDE DEF Good
<1>4. 0 \in 0..n /\ 1..0 \subseteq Good /\ (0 < n => 0 + 1 \notin Good) /\ 0 < n /\ n \in Nat /\ 0 + 1 = 1
  BY <1>3
<1>5. Walk(s, path) = (<<s>> \o path)[0 + 1] /\ (Raises(s, path) <=> 0 < n)
  BY <1>2, <1>4, WalkAt
<1>6. QED
  BY <1>1, <1>4, <1>5

\* The empty path.
LEMMA WalkNowhere ==
  ASSUME NEW s \in REQUEST_STATES, NEW path \in Seq(REQUEST_STATES), NEW n \in Nat, Len(path) = n, n = 0
  PROVE  Walk(s, path) = s /\ ~Raises(s, path)
<1>1. (<<s>> \o path)[1] = s
  BY FromStart
<1> DEFINE Good == 1..n
<1>2. /\ Good \in SUBSET (1..n) /\ n \in 0..n /\ 1..n \subseteq Good
      /\ ~(n < n) /\ (n < n => n + 1 \notin Good) /\ n + 1 = 1
  OBVIOUS
<1>3. \A i \in 1..n : i \in Good <=> path[i] \in ALLOWED_REQUEST_TRANSITIONS[(<<s>> \o path)[i]]
  OBVIOUS
<1> HIDE DEF Good
<1>4. Walk(s, path) = (<<s>> \o path)[n + 1] /\ (Raises(s, path) <=> n < n)
  BY <1>2, <1>3, WalkAt
<1>5. QED
  BY <1>1, <1>2, <1>4

\* Paths of up to five steps, all of them legal.
LEMMA WalkOne ==
  ASSUME NEW s \in REQUEST_STATES, NEW a \in REQUEST_STATES,
         a \in ALLOWED_REQUEST_TRANSITIONS[s]
  PROVE  Walk(s, <<a>>) = a /\ ~Raises(s, <<a>>)
<1> DEFINE path == <<a>>
           n == 1
<1>1. path \in Seq(REQUEST_STATES) /\ n \in Nat \ {0} /\ Len(path) = n
  OBVIOUS
<1>2. path[1] = a /\ path[n] = a
  OBVIOUS
<1>3. \A i \in 1..(n - 1) : FALSE
  OBVIOUS
<1> HIDE DEF path
<1> HIDE DEF n
<1>5. Walk(s, path) = path[n] /\ ~Raises(s, path)
  BY <1>1, <1>2, <1>3, WalkLegal
<1>6. QED
  BY <1>2, <1>5 DEF path

\* Two steps.
LEMMA WalkTwo ==
  ASSUME NEW s \in REQUEST_STATES, NEW a \in REQUEST_STATES, NEW b \in REQUEST_STATES,
         a \in ALLOWED_REQUEST_TRANSITIONS[s],
         b \in ALLOWED_REQUEST_TRANSITIONS[a]
  PROVE  Walk(s, <<a, b>>) = b /\ ~Raises(s, <<a, b>>)
<1> DEFINE path == <<a, b>>
           n == 2
<1>1. path \in Seq(REQUEST_STATES) /\ n \in Nat \ {0} /\ Len(path) = n
  OBVIOUS
<1>2. path[1] = a /\ path[2] = b /\ path[n] = b
  OBVIOUS
<1>3. \A i \in 1..(n - 1) : i \in {1}
  OBVIOUS
<1> HIDE DEF path
<1>4. \A i \in {1} : path[i + 1] \in ALLOWED_REQUEST_TRANSITIONS[path[i]]
  BY <1>2
<1> HIDE DEF n
<1>5. Walk(s, path) = path[n] /\ ~Raises(s, path)
  BY <1>1, <1>2, <1>3, <1>4, WalkLegal
<1>6. QED
  BY <1>2, <1>5 DEF path

\* Three steps.
LEMMA WalkThree ==
  ASSUME NEW s \in REQUEST_STATES, NEW a \in REQUEST_STATES, NEW b \in REQUEST_STATES, NEW c \in REQUEST_STATES,
         a \in ALLOWED_REQUEST_TRANSITIONS[s],
         b \in ALLOWED_REQUEST_TRANSITIONS[a],
         c \in ALLOWED_REQUEST_TRANSITIONS[b]
  PROVE  Walk(s, <<a, b, c>>) = c /\ ~Raises(s, <<a, b, c>>)
<1> DEFINE path == <<a, b, c>>
           n == 3
<1>1. path \in Seq(REQUEST_STATES) /\ n \in Nat \ {0} /\ Len(path) = n
  OBVIOUS
<1>2. path[1] = a /\ path[2] = b /\ path[3] = c /\ path[n] = c
  OBVIOUS
<1>3. \A i \in 1..(n - 1) : i \in {1, 2}
  OBVIOUS
<1> HIDE DEF path
<1>4. \A i \in {1, 2} : path[i + 1] \in ALLOWED_REQUEST_TRANSITIONS[path[i]]
  BY <1>2
<1> HIDE DEF n
<1>5. Walk(s, path) = path[n] /\ ~Raises(s, path)
  BY <1>1, <1>2, <1>3, <1>4, WalkLegal
<1>6. QED
  BY <1>2, <1>5 DEF path

\* Four steps.
LEMMA WalkFour ==
  ASSUME NEW s \in REQUEST_STATES, NEW a \in REQUEST_STATES, NEW b \in REQUEST_STATES, NEW c \in REQUEST_STATES, NEW d \in REQUEST_STATES,
         a \in ALLOWED_REQUEST_TRANSITIONS[s],
         b \in ALLOWED_REQUEST_TRANSITIONS[a],
         c \in ALLOWED_REQUEST_TRANSITIONS[b],
         d \in ALLOWED_REQUEST_TRANSITIONS[c]
  PROVE  Walk(s, <<a, b, c, d>>) = d /\ ~Raises(s, <<a, b, c, d>>)
<1> DEFINE path == <<a, b, c, d>>
           n == 4
<1>1. path \in Seq(REQUEST_STATES) /\ n \in Nat \ {0} /\ Len(path) = n
  OBVIOUS
<1>2. path[1] = a /\ path[2] = b /\ path[3] = c /\ path[4] = d /\ path[n] = d
  OBVIOUS
<1>3. \A i \in 1..(n - 1) : i \in {1, 2, 3}
  OBVIOUS
<1> HIDE DEF path
<1>4. \A i \in {1, 2, 3} : path[i + 1] \in ALLOWED_REQUEST_TRANSITIONS[path[i]]
  BY <1>2
<1> HIDE DEF n
<1>5. Walk(s, path) = path[n] /\ ~Raises(s, path)
  BY <1>1, <1>2, <1>3, <1>4, WalkLegal
<1>6. QED
  BY <1>2, <1>5 DEF path

\* Five steps.
LEMMA WalkFive ==
  ASSUME NEW s \in REQUEST_STATES, NEW a \in REQUEST_STATES, NEW b \in REQUEST_STATES, NEW c \in REQUEST_STATES, NEW d \in REQUEST_STATES, NEW e \in REQUEST_STATES,
         a \in ALLOWED_REQUEST_TRANSITIONS[s],
         b \in ALLOWED_REQUEST_TRANSITIONS[a],
         c \in ALLOWED_REQUEST_TRANSITIONS[b],
         d \in ALLOWED_REQUEST_TRANSITIONS[c],
         e \in ALLOWED_REQUEST_TRANSITIONS[d]
  PROVE  Walk(s, <<a, b, c, d, e>>) = e /\ ~Raises(s, <<a, b, c, d, e>>)
<1> DEFINE path == <<a, b, c, d, e>>
           n == 5
<1>1. path \in Seq(REQUEST_STATES) /\ n \in Nat \ {0} /\ Len(path) = n
  OBVIOUS
<1>2. path[1] = a /\ path[2] = b /\ path[3] = c /\ path[4] = d /\ path[5] = e /\ path[n] = e
  OBVIOUS
<1>3. \A i \in 1..(n - 1) : i \in {1, 2, 3, 4}
  OBVIOUS
<1> HIDE DEF path
<1>4. \A i \in {1, 2, 3, 4} : path[i + 1] \in ALLOWED_REQUEST_TRANSITIONS[path[i]]
  BY <1>2
<1> HIDE DEF n
<1>5. Walk(s, path) = path[n] /\ ~Raises(s, path)
  BY <1>1, <1>2, <1>3, <1>4, WalkLegal
<1>6. QED
  BY <1>2, <1>5 DEF path

\* Two steps, the first of them refused.
LEMMA RefusedTwo ==
  ASSUME NEW s \in REQUEST_STATES, NEW a \in REQUEST_STATES, NEW b \in REQUEST_STATES,
         a \notin ALLOWED_REQUEST_TRANSITIONS[s]
  PROVE  Walk(s, <<a, b>>) = s /\ Raises(s, <<a, b>>)
<1> DEFINE path == <<a, b>>
           n == 2
<1>1. path \in Seq(REQUEST_STATES) /\ n \in Nat \ {0} /\ Len(path) = n /\ path[1] = a
  OBVIOUS
<1> HIDE DEF path, n
<1>2. Walk(s, path) = s /\ Raises(s, path)
  BY <1>1, WalkRefused
<1>3. QED
  BY <1>2 DEF path

\* Short paths put together.
LEMMA ConcatTwo ==
  ASSUME NEW S, NEW a \in S, NEW b \in S, NEW c \in S, NEW d \in S
  PROVE  /\ <<>> \o <<c, d>> = <<c, d>>
         /\ <<a, b>> \o <<c, d>> = <<a, b, c, d>>
<1>1. <<c, d>> \in Seq(S)
  OBVIOUS
<1>2. <<>> \o <<c, d>> = <<c, d>>
  BY <1>1, ConcatEmptySeq
<1>3. <<a, b, c, d>> = <<a, b>> \o <<c, d>>
  OBVIOUS
<1>4. QED
  BY <1>2, <1>3

\* A control request goes from end to end.
LEMMA WalkControl == Walk("CLIENT_SCHEDULED", ControlPath) = "CLEANED"
<1> DEFINE path == ControlPath
           n == 12
<1>1. path \in Seq(REQUEST_STATES) /\ n \in Nat \ {0} /\ Len(path) = n
  <2>1. \A s \in {"CONNECTING", "RECEIVED", "VALIDATED", "ADMISSION_PENDING", "QUEUED", "ROUTED",
                  "BACKEND_SUBMITTED", "FIRST_TOKEN_READY", "STREAMING", "TERMINAL_FRAME_SENT",
                  "CLIENT_COMPLETED", "CLEANED"} : s \in REQUEST_STATES
    BY States
  <2>2. QED
    BY <2>1 DEF ControlPath
<1>2. /\ path[1] = "CONNECTING" /\ path[2] = "RECEIVED" /\ path[3] = "VALIDATED"
      /\ path[4] = "ADMISSION_PENDING" /\ path[5] = "QUEUED" /\ path[6] = "ROUTED"
      /\ path[7] = "BACKEND_SUBMITTED" /\ path[8] = "FIRST_TOKEN_READY" /\ path[9] = "STREAMING"
      /\ path[10] = "TERMINAL_FRAME_SENT" /\ path[11] = "CLIENT_COMPLETED" /\ path[12] = "CLEANED"
      /\ path[n] = "CLEANED"
  BY DEF ControlPath
<1>3. \A i \in 1..(n - 1) : i \in {1, 2, 3, 4, 5, 6, 7, 8, 9, 10, 11}
  OBVIOUS
<1> HIDE DEF path
<1>4. \A i \in {1, 2, 3, 4, 5, 6, 7, 8, 9, 10, 11} : path[i + 1] \in ALLOWED_REQUEST_TRANSITIONS[path[i]]
  BY <1>2, Table
<1>5. "CLIENT_SCHEDULED" \in REQUEST_STATES /\ path[1] \in ALLOWED_REQUEST_TRANSITIONS["CLIENT_SCHEDULED"]
  BY <1>2, Table, States
<1> HIDE DEF n
<1>6. Walk("CLIENT_SCHEDULED", path) = path[n]
  <2>1. \A i \in 1..(n - 1) : path[i + 1] \in ALLOWED_REQUEST_TRANSITIONS[path[i]]
    BY <1>3, <1>4
  <2>2. QED
    BY <1>1, <1>5, <2>1, WalkLegal, Zenon
<1>7. QED
  BY <1>2, <1>6 DEF path

\* The way to the backend.
LEMMA WalksIn ==
  /\ Walk("CLIENT_SCHEDULED", <<"CONNECTING", "RECEIVED">>) = "RECEIVED"
  /\ Walk("RECEIVED", <<"VALIDATED", "ADMISSION_PENDING">>) = "ADMISSION_PENDING"
  /\ Walk("ADMISSION_PENDING", <<"QUEUED">>) = "QUEUED"
  /\ Walk("QUEUED", <<"ROUTED">>) = "ROUTED"
  /\ Walk("ROUTED", <<"BACKEND_SUBMITTED">>) = "BACKEND_SUBMITTED"
  /\ ~Raises("ROUTED", <<"BACKEND_SUBMITTED">>)
<1>1. {"CLIENT_SCHEDULED", "CONNECTING", "RECEIVED", "VALIDATED", "ADMISSION_PENDING", "QUEUED",
       "ROUTED", "BACKEND_SUBMITTED"} \subseteq REQUEST_STATES
  BY States
<1>2. QED
  BY <1>1, Table, WalkOne, WalkTwo

\* Who refuses a request, where its machine is then, and how that ends.
RefusedAt(s, why) ==
    \/ s = "CLIENT_SCHEDULED" /\ why \in {"invalid", "unavailable"}
    \/ s = "RECEIVED" /\ why \in {"invalid", "deadline_infeasible"}
    \/ s = "ADMISSION_PENDING" /\ why \in {"overload", "deadline_infeasible"}
    \/ s = "QUEUED" /\ why = "unavailable"

RefusalEnds(s, why, path) ==
    IF s = "ADMISSION_PENDING" /\ why = "deadline_infeasible"
    THEN Walk(s, path) = "ADMISSION_PENDING" /\ Raises(s, path)
    ELSE Walk(s, path) = "CLEANED" /\ ~Raises(s, path)

\* Every refusal is recorded, except the one of a request that was admitted for
\* its deadline: the table has no such step and handle() raises.
LEMMA WalksRejected ==
  ASSUME NEW s, NEW why, RefusedAt(s, why),
         NEW path, path = Prelude(s, Target(why)) \o <<Target(why), "CLEANED">>
  PROVE  RefusalEnds(s, why, path)
<1> USE DEF RefusedAt, RefusalEnds
<1>1. {"CLIENT_SCHEDULED", "CONNECTING", "RECEIVED", "ADMISSION_PENDING", "QUEUED", "CLEANED",
       "REJECTED_OVERLOAD", "REJECTED_INVALID"} \subseteq REQUEST_STATES
  BY States
<1>2. /\ <<>> \o <<"REJECTED_INVALID", "CLEANED">> = <<"REJECTED_INVALID", "CLEANED">>
      /\ <<>> \o <<"REJECTED_OVERLOAD", "CLEANED">> = <<"REJECTED_OVERLOAD", "CLEANED">>
      /\ <<"CONNECTING", "RECEIVED">> \o <<"REJECTED_INVALID", "CLEANED">>
             = <<"CONNECTING", "RECEIVED", "REJECTED_INVALID", "CLEANED">>
      /\ <<"CONNECTING", "RECEIVED">> \o <<"REJECTED_OVERLOAD", "CLEANED">>
             = <<"CONNECTING", "RECEIVED", "REJECTED_OVERLOAD", "CLEANED">>
  BY <1>1, ConcatTwo
<1>3. CASE s = "CLIENT_SCHEDULED" /\ why = "invalid"
  <2>1. path = <<"CONNECTING", "RECEIVED", "REJECTED_INVALID", "CLEANED">>
    BY <1>2, <1>3 DEF Prelude, Target
  <2>2. /\ Walk("CLIENT_SCHEDULED", <<"CONNECTING", "RECEIVED", "REJECTED_INVALID", "CLEANED">>) = "CLEANED"
        /\ ~Raises("CLIENT_SCHEDULED", <<"CONNECTING", "RECEIVED", "REJECTED_INVALID", "CLEANED">>)
    BY <1>1, Table, WalkFour
  <2>3. QED
    BY <1>3, <2>1, <2>2
<1>4. CASE s = "CLIENT_SCHEDULED" /\ why = "unavailable"
  <2>1. path = <<"CONNECTING", "RECEIVED", "REJECTED_OVERLOAD", "CLEANED">>
    BY <1>2, <1>4 DEF Prelude, Target
  <2>2. /\ Walk("CLIENT_SCHEDULED", <<"CONNECTING", "RECEIVED", "REJECTED_OVERLOAD", "CLEANED">>) = "CLEANED"
        /\ ~Raises("CLIENT_SCHEDULED", <<"CONNECTING", "RECEIVED", "REJECTED_OVERLOAD", "CLEANED">>)
    BY <1>1, Table, WalkFour
  <2>3. QED
    BY <1>4, <2>1, <2>2
<1>5. CASE s = "RECEIVED"
  <2>1. path = <<"REJECTED_INVALID", "CLEANED">>
    BY <1>2, <1>5 DEF Prelude, Target
  <2>2. /\ Walk("RECEIVED", <<"REJECTED_INVALID", "CLEANED">>) = "CLEANED"
        /\ ~Raises("RECEIVED", <<"REJECTED_INVALID", "CLEANED">>)
    BY <1>1, Table, WalkTwo
  <2>3. QED
    BY <1>5, <2>1, <2>2
<1>6. CASE (s = "ADMISSION_PENDING" /\ why = "overload") \/ s = "QUEUED"
  <2>1. path = <<"REJECTED_OVERLOAD", "CLEANED">>
    BY <1>2, <1>6 DEF Prelude, Target
  <2>2. /\ Walk("ADMISSION_PENDING", <<"REJECTED_OVERLOAD", "CLEANED">>) = "CLEANED"
        /\ ~Raises("ADMISSION_PENDING", <<"REJECTED_OVERLOAD", "CLEANED">>)
        /\ Walk("QUEUED", <<"REJECTED_OVERLOAD", "CLEANED">>) = "CLEANED"
        /\ ~Raises("QUEUED", <<"REJECTED_OVERLOAD", "CLEANED">>)
    BY <1>1, Table, WalkTwo
  <2>3. QED
    BY <1>6, <2>1, <2>2
<1>7. CASE s = "ADMISSION_PENDING" /\ why = "deadline_infeasible"
  <2>1. path = <<"REJECTED_INVALID", "CLEANED">>
    BY <1>2, <1>7 DEF Prelude, Target
  <2>2. /\ Walk("ADMISSION_PENDING", <<"REJECTED_INVALID", "CLEANED">>) = "ADMISSION_PENDING"
        /\ Raises("ADMISSION_PENDING", <<"REJECTED_INVALID", "CLEANED">>)
    BY <1>1, Table, RefusedTwo
  <2>3. QED
    BY <1>7, <2>1, <2>2
<1>8. QED
  BY <1>3, <1>4, <1>5, <1>6, <1>7

\* Where the machine of a request with a session may be.
InSession == {"BACKEND_SUBMITTED", "FIRST_TOKEN_READY", "STREAMING"}

\* The loop is left from there without a refusal.
LEMMA WalksOut ==
  ASSUME NEW s \in InSession
  PROVE  /\ Walk(s, <<"CANCEL_REQUESTED", "CANCEL_PROPAGATED", "CANCELLED">>) = "CANCELLED"
         /\ ~Raises(s, <<"CANCEL_REQUESTED", "CANCEL_PROPAGATED", "CANCELLED">>)
         /\ Walk(s, <<"DISCONNECTED", "CANCEL_PROPAGATED", "CANCELLED">>) = "CANCELLED"
         /\ ~Raises(s, <<"DISCONNECTED", "CANCEL_PROPAGATED", "CANCELLED">>)
         /\ Walk(s, <<"TIMED_OUT">>) = "TIMED_OUT" /\ ~Raises(s, <<"TIMED_OUT">>)
<1>1. {"BACKEND_SUBMITTED", "FIRST_TOKEN_READY", "STREAMING", "CANCEL_REQUESTED", "CANCEL_PROPAGATED",
       "CANCELLED", "DISCONNECTED", "TIMED_OUT"} \subseteq REQUEST_STATES
  BY States
<1>2. ASSUME NEW q \in REQUEST_STATES,
             {"CANCEL_REQUESTED", "DISCONNECTED", "TIMED_OUT"} \subseteq ALLOWED_REQUEST_TRANSITIONS[q]
      PROVE  /\ Walk(q, <<"CANCEL_REQUESTED", "CANCEL_PROPAGATED", "CANCELLED">>) = "CANCELLED"
             /\ ~Raises(q, <<"CANCEL_REQUESTED", "CANCEL_PROPAGATED", "CANCELLED">>)
             /\ Walk(q, <<"DISCONNECTED", "CANCEL_PROPAGATED", "CANCELLED">>) = "CANCELLED"
             /\ ~Raises(q, <<"DISCONNECTED", "CANCEL_PROPAGATED", "CANCELLED">>)
             /\ Walk(q, <<"TIMED_OUT">>) = "TIMED_OUT" /\ ~Raises(q, <<"TIMED_OUT">>)
  BY <1>1, <1>2, Table, WalkOne, WalkThree
<1>3. QED
  BY <1>1, <1>2, Table DEF InSession

\* What the first token and the head of a stream do to the machine.
LEMMA WalksChunk ==
  /\ \A s \in REQUEST_STATES : Walk(s, <<>> \o <<>>) = s /\ ~Raises(s, <<>> \o <<>>)
  /\ Walk("BACKEND_SUBMITTED", <<"FIRST_TOKEN_READY">> \o <<>>) = "FIRST_TOKEN_READY"
  /\ ~Raises("BACKEND_SUBMITTED", <<"FIRST_TOKEN_READY">> \o <<>>)
  /\ Walk("BACKEND_SUBMITTED", <<"FIRST_TOKEN_READY">> \o <<"STREAMING">>) = "STREAMING"
  /\ ~Raises("BACKEND_SUBMITTED", <<"FIRST_TOKEN_READY">> \o <<"STREAMING">>)
  /\ Walk("BACKEND_SUBMITTED", (<<"FIRST_TOKEN_READY">> \o <<"STREAMING">>)
                 \o <<"DISCONNECTED", "CANCEL_PROPAGATED", "CANCELLED">>) = "CANCELLED"
  /\ ~Raises("BACKEND_SUBMITTED", (<<"FIRST_TOKEN_READY">> \o <<"STREAMING">>)
                 \o <<"DISCONNECTED", "CANCEL_PROPAGATED", "CANCELLED">>)
  /\ Walk("STREAMING", (<<>> \o <<>>) \o <<"DISCONNECTED", "CANCEL_PROPAGATED", "CANCELLED">>) = "CANCELLED"
  /\ ~Raises("STREAMING", (<<>> \o <<>>) \o <<"DISCONNECTED", "CANCEL_PROPAGATED", "CANCELLED">>)
<1>1. {"BACKEND_SUBMITTED", "FIRST_TOKEN_READY", "STREAMING", "CANCEL_PROPAGATED", "CANCELLED",
       "DISCONNECTED"} \subseteq REQUEST_STATES
  BY States
<1>2. <<>> \in Seq(REQUEST_STATES) /\ <<>> \o <<>> = <<>> /\ Len(<<>>) = 0
  <2>1. <<>> \in Seq(REQUEST_STATES) /\ Len(<<>>) = 0
    OBVIOUS
  <2>2. QED
    BY <2>1, ConcatEmptySeq
<1>3. ASSUME NEW a \in REQUEST_STATES, NEW b \in REQUEST_STATES, NEW c \in REQUEST_STATES,
             NEW d \in REQUEST_STATES, NEW e \in REQUEST_STATES
      PROVE  /\ <<a>> \o <<>> = <<a>> /\ <<a>> \o <<b>> = <<a, b>>
             /\ <<a, b>> \o <<c, d, e>> = <<a, b, c, d, e>> /\ <<>> \o <<c, d, e>> = <<c, d, e>>
  <2>1. <<a>> \in Seq(REQUEST_STATES) /\ <<c, d, e>> \in Seq(REQUEST_STATES)
    OBVIOUS
  <2>2. <<a>> \o <<>> = <<a>> /\ <<>> \o <<c, d, e>> = <<c, d, e>>
    BY <2>1, ConcatEmptySeq
  <2>3. <<a>> \o <<b>> = <<a, b>>
    <3> DEFINE p == <<a>> \o <<b>>
               q == <<a, b>>
    <3>1. <<b>> \in Seq(REQUEST_STATES) /\ q \in Seq(REQUEST_STATES) /\ Len(q) = 2 /\ q[1] = a /\ q[2] = b
      OBVIOUS
    <3>2. p \in Seq(REQUEST_STATES) /\ Len(p) = 2 /\ p[1] = a /\ p[2] = b
      BY <2>1, <3>1, ConcatProperties
    <3> HIDE DEF p, q
    <3>3. Len(p) = Len(q) /\ \A i \in 1..Len(p) : p[i] = q[i]
      BY <3>1, <3>2
    <3>4. p = q
      BY <3>1, <3>2, <3>3, SeqEqual
    <3>5. QED
      BY <3>4 DEF p, q
  <2>4. <<a, b, c, d, e>> = <<a, b>> \o <<c, d, e>>
    OBVIOUS
  <2>5. QED
    BY <2>2, <2>3, <2>4
<1>4. ASSUME NEW s \in REQUEST_STATES
      PROVE  Walk(s, <<>>) = s /\ ~Raises(s, <<>>)
  <2> DEFINE path == <<>>
             n == 0
  <2>1. path \in Seq(REQUEST_STATES) /\ n \in Nat /\ Len(path) = n /\ n = 0
    BY <1>2
  <2> HIDE DEF path, n
  <2>2. Walk(s, path) = s /\ ~Raises(s, path)
    BY <2>1, WalkNowhere
  <2>3. QED
    BY <2>2 DEF path
<1>5. /\ <<"FIRST_TOKEN_READY">> \o <<>> = <<"FIRST_TOKEN_READY">>
      /\ <<"FIRST_TOKEN_READY">> \o <<"STREAMING">> = <<"FIRST_TOKEN_READY", "STREAMING">>
      /\ <<"FIRST_TOKEN_READY", "STREAMING">> \o <<"DISCONNECTED", "CANCEL_PROPAGATED", "CANCELLED">>
             = <<"FIRST_TOKEN_READY", "STREAMING", "DISCONNECTED", "CANCEL_PROPAGATED", "CANCELLED">>
      /\ <<>> \o <<"DISCONNECTED", "CANCEL_PROPAGATED", "CANCELLED">>
             = <<"DISCONNECTED", "CANCEL_PROPAGATED", "CANCELLED">>
  BY <1>1, <1>3
<1>6. /\ Walk("BACKEND_SUBMITTED", <<"FIRST_TOKEN_READY">>) = "FIRST_TOKEN_READY"
      /\ ~Raises("BACKEND_SUBMITTED", <<"FIRST_TOKEN_READY">>)
  BY <1>1, Table, WalkOne
<1>7. /\ Walk("BACKEND_SUBMITTED", <<"FIRST_TOKEN_READY", "STREAMING">>) = "STREAMING"
      /\ ~Raises("BACKEND_SUBMITTED", <<"FIRST_TOKEN_READY", "STREAMING">>)
  BY <1>1, Table, WalkTwo
<1>8. /\ Walk("BACKEND_SUBMITTED", <<"FIRST_TOKEN_READY", "STREAMING", "DISCONNECTED", "CANCEL_PROPAGATED",
                                     "CANCELLED">>) = "CANCELLED"
      /\ ~Raises("BACKEND_SUBMITTED", <<"FIRST_TOKEN_READY", "STREAMING", "DISCONNECTED", "CANCEL_PROPAGATED",
                                        "CANCELLED">>)
  BY <1>1, Table, WalkFive
<1>9. /\ Walk("STREAMING", <<"DISCONNECTED", "CANCEL_PROPAGATED", "CANCELLED">>) = "CANCELLED"
      /\ ~Raises("STREAMING", <<"DISCONNECTED", "CANCEL_PROPAGATED", "CANCELLED">>)
  BY <1>1, Table, WalkThree
<1>10. QED
  BY <1>2, <1>4, <1>5, <1>6, <1>7, <1>8, <1>9

\* The end of the try block, and of the handler: the failure of a backend after
\* the first token of an answer that is not streamed is a refused step.
LEMMA WalksEnd ==
  /\ \A s \in {"FIRST_TOKEN_READY", "STREAMING"} :
        /\ Walk(s, <<"TERMINAL_FRAME_SENT", "CLIENT_COMPLETED", "CLEANED">>) = "CLEANED"
        /\ ~Raises(s, <<"TERMINAL_FRAME_SENT", "CLIENT_COMPLETED", "CLEANED">>)
  /\ \A s \in {"CANCELLED", "TIMED_OUT"} : Walk(s, <<"CLEANED">>) = "CLEANED" /\ ~Raises(s, <<"CLEANED">>)
  /\ \A s \in {"ROUTED", "BACKEND_SUBMITTED", "STREAMING"} : Walk(s, <<"BACKEND_FAILED", "CLEANED">>) = "CLEANED"
  /\ Walk("FIRST_TOKEN_READY", <<"BACKEND_FAILED", "CLEANED">>) = "FIRST_TOKEN_READY"
<1>1. {"ROUTED", "BACKEND_SUBMITTED", "FIRST_TOKEN_READY", "STREAMING", "TERMINAL_FRAME_SENT",
       "CLIENT_COMPLETED", "CLEANED", "CANCELLED", "TIMED_OUT", "BACKEND_FAILED"} \subseteq REQUEST_STATES
  BY States
<1>2. \A s \in {"FIRST_TOKEN_READY", "STREAMING"} :
        /\ Walk(s, <<"TERMINAL_FRAME_SENT", "CLIENT_COMPLETED", "CLEANED">>) = "CLEANED"
        /\ ~Raises(s, <<"TERMINAL_FRAME_SENT", "CLIENT_COMPLETED", "CLEANED">>)
  BY <1>1, Table, WalkThree
<1>3. \A s \in {"CANCELLED", "TIMED_OUT"} : Walk(s, <<"CLEANED">>) = "CLEANED" /\ ~Raises(s, <<"CLEANED">>)
  BY <1>1, Table, WalkOne
<1>4. \A s \in {"ROUTED", "BACKEND_SUBMITTED", "STREAMING"} : Walk(s, <<"BACKEND_FAILED", "CLEANED">>) = "CLEANED"
  BY <1>1, Table, WalkTwo
<1>5. Walk("FIRST_TOKEN_READY", <<"BACKEND_FAILED", "CLEANED">>) = "FIRST_TOKEN_READY"
  BY <1>1, Table, RefusedTwo
<1>6. QED
  BY <1>2, <1>3, <1>4, <1>5

\* A walk ends in a state of the machine.
LEMMA WalksFailed ==
  ASSUME NEW s \in REQUEST_STATES
  PROVE  Walk(s, FailurePath(s)) \in REQUEST_STATES
<1>1. {"BACKEND_FAILED", "CLEANED"} \subseteq REQUEST_STATES
  BY States
<1>2. \A a \in REQUEST_STATES : Walk(s, <<a>>) \in {s, a}
  <2> TAKE a \in REQUEST_STATES
  <2>1. CASE a \in ALLOWED_REQUEST_TRANSITIONS[s]
    BY <2>1, WalkOne
  <2>2. CASE a \notin ALLOWED_REQUEST_TRANSITIONS[s]
    <3> DEFINE path == <<a>>
               n == 1
    <3>1. path \in Seq(REQUEST_STATES) /\ n \in Nat \ {0} /\ Len(path) = n /\ path[1] = a
      OBVIOUS
    <3> HIDE DEF path, n
    <3>2. Walk(s, path) = s
      BY <2>2, <3>1, WalkRefused
    <3>3. QED
      BY <3>2 DEF path
  <2>3. QED
    BY <2>1, <2>2
<1>3. Walk(s, <<"BACKEND_FAILED", "CLEANED">>) \in {s, "CLEANED"}
  <2>1. CASE "BACKEND_FAILED" \in ALLOWED_REQUEST_TRANSITIONS[s]
    BY <1>1, <2>1, Table, WalkTwo
  <2>2. CASE "BACKEND_FAILED" \notin ALLOWED_REQUEST_TRANSITIONS[s]
    BY <1>1, <2>2, RefusedTwo
  <2>3. QED
    BY <2>1, <2>2
<1>4. QED
  BY <1>1, <1>2, <1>3 DEF FailurePath

-----------------------------------------------------------------------------
(***************************************************************************)
(* One step of one thread.                                                 *)
(***************************************************************************)
Codes == {"", "protocol_failure", "backend_failed"} \cup Rejections \cup Stopped
Wires == {"nothing", "chunk", "terminal", "body", "error"}
Records ==
    [pc : Places, machine : REQUEST_STATES, id : Ids \cup {NoId}, stream : BOOLEAN, code : Codes,
     head : BOOLEAN, wire : Wires, opened : BOOLEAN, told : BOOLEAN, deaf : BOOLEAN, cleaned : BOOLEAN,
     some : BOOLEAN, missed : BOOLEAN, finish : BOOLEAN, gone : BOOLEAN, noticed : BOOLEAN, reg : Nat]
Serving == {r \in Requests : req[r].pc \in InServe}

\* The invariant in the terms of this section.
LEMMA InvParts ==
  Inv <=> /\ service \in ServiceStates /\ inflight \in Nat /\ cancelled \subseteq Ids
          /\ raced \in BOOLEAN /\ req \in [Requests -> Records]
          /\ ~raced => inflight = Cardinality(Serving)
          /\ \A r \in Requests : RequestOK(req[r])
BY DEF Inv, InflightSound, TypeOK, Records, Codes, Wires, Serving

\* A step changes the request of its thread only.
OnlyRequest(r) == req' = [p \in Requests |-> IF p = r THEN req'[r] ELSE req[p]]

\* A step that neither enters nor leaves _serve.
LEMMA ThreadStep ==
  ASSUME Inv, NEW r \in Requests, OnlyRequest(r), req'[r] \in Records, RequestOK(req'[r]),
         req'[r].pc \in InServe <=> req[r].pc \in InServe,
         UNCHANGED <<service, inflight, cancelled, raced>>
  PROVE  Inv'
<1>1. \A p \in Requests \ {r} : req'[p] = req[p]
  BY DEF OnlyRequest
<1>2. Serving' = Serving
  BY <1>1 DEF Serving
<1>3. req' \in [Requests -> Records]
  BY InvParts DEF OnlyRequest
<1>4. \A p \in Requests : RequestOK(req'[p])
  BY <1>1, InvParts
<1>5. /\ service' \in ServiceStates /\ inflight' \in Nat /\ cancelled' \subseteq Ids
      /\ raced' \in BOOLEAN /\ (~raced' => inflight' = Cardinality(Serving'))
  BY <1>2, InvParts
<1>6. QED
  BY <1>3, <1>4, <1>5 DEF Inv, InflightSound, TypeOK, Records, Codes, Wires, Serving

\* A transition inside the try block that is not refused.
LEMMA TryStep ==
  ASSUME Inv, NEW r \in Requests, NEW path, NEW new, Try(r, path, new), ~Raises(req[r].machine, path)
  PROVE  OnlyRequest(r) /\ req'[r] = [new EXCEPT !.machine = Walk(req[r].machine, path)]
<1>1. req \in [Requests -> Records]
  BY InvParts
<1>2. req' = [req EXCEPT ![r] = [new EXCEPT !.machine = Walk(req[r].machine, path)]]
  BY DEF Try
<1>3. QED
  BY <1>1, <1>2 DEF OnlyRequest

\* Before the backend: what a refusal leaves.
LEMMA RejectStep ==
  ASSUME Inv, NEW r \in Requests, NEW why \in Rejections, Reject(r, why),
         \/ req[r].pc = "new" /\ why \in {"invalid", "unavailable"}
         \/ req[r].pc = "validate" /\ why \in {"invalid", "deadline_infeasible"}
         \/ req[r].pc = "admit" /\ why \in {"overload", "deadline_infeasible"}
         \/ req[r].pc = "route" /\ why = "unavailable"
  PROVE  Inv'
<1>0. req \in [Requests -> Records] /\ req[r] \in Records /\ RequestOK(req[r])
  BY InvParts
<1> DEFINE s == req[r].machine
           path == Prelude(s, Target(why)) \o <<Target(why), "CLEANED">>
<1>1. /\ Untouched(req[r])
      /\ s = IF req[r].pc = "new" THEN "CLIENT_SCHEDULED" ELSE IF req[r].pc = "validate" THEN "RECEIVED"
             ELSE IF req[r].pc = "admit" THEN "ADMISSION_PENDING" ELSE "QUEUED"
  BY <1>0 DEF RequestOK
<1>2. /\ OnlyRequest(r)
      /\ req'[r] = [req[r] EXCEPT !.pc = IF Raises(s, path) THEN "escaped" ELSE "done",
                                  !.machine = Walk(s, path), !.code = why, !.head = TRUE, !.wire = "error"]
      /\ UNCHANGED <<service, inflight, cancelled, raced>>
  BY <1>0 DEF Reject, OnlyRequest
<1>3. path = Prelude(s, Target(why)) \o <<Target(why), "CLEANED">>
  OBVIOUS
<1> HIDE DEF path, s
<1>4. RefusalEnds(s, why, path)
  <2>1. RefusedAt(s, why)
    BY <1>1 DEF RefusedAt
  <2>2. QED
    BY <1>3, <2>1, WalksRejected
<1> DEFINE place == IF Raises(s, path) THEN "escaped" ELSE "done"
           state == Walk(s, path)
<1>5. place \in Places /\ state \in REQUEST_STATES /\ why \in Codes /\ "error" \in Wires
  BY <1>4, States DEF RefusalEnds, Places, Ended, Codes, Wires
<1>6. /\ place \notin InServe /\ place \in {"done", "escaped"}
      /\ place = "done" => state = "CLEANED"
  BY <1>4 DEF RefusalEnds, InServe
<1>7. req'[r] = [req[r] EXCEPT !.pc = place, !.machine = state, !.code = why, !.head = TRUE, !.wire = "error"]
  BY <1>2
<1> HIDE DEF place, state
<1>8. req'[r] \in Records
  BY <1>0, <1>5, <1>7, ZenonT(60) DEF Records
<1>9. /\ req'[r].pc = place /\ req'[r].machine = state
      /\ req'[r].code = why /\ req'[r].wire = "error" /\ req'[r].told = req[r].told
      /\ req'[r].deaf = req[r].deaf /\ req'[r].cleaned = req[r].cleaned /\ req'[r].opened = req[r].opened
  BY <1>0, <1>7 DEF Records
<1>10. RequestOK(req'[r])
  <2>1. ~req'[r].told /\ req'[r].cleaned = req'[r].opened
    BY <1>1, <1>9 DEF Untouched
  <2>2. why # "" /\ why \notin Stopped
    BY DEF Rejections, Stopped
  <2>3. ToldOK(req'[r])
    BY <1>9, <2>1, <2>2 DEF ToldOK
  <2>4. place = "done" => Final(req'[r])
    BY <1>6, <1>9, <2>2, <2>3 DEF Final
  <2>5. Escaped(req'[r])
    BY <1>9, <2>3 DEF Escaped
  <2>6. QED
    BY <1>6, <1>9, <2>1, <2>4, <2>5 DEF RequestOK
<1>11. req'[r].pc \in InServe <=> req[r].pc \in InServe
  BY <1>6, <1>9 DEF InServe
<1>12. QED
  BY <1>2, <1>8, <1>10, <1>11, ThreadStep

\* A control request is answered at once; a request for the model is received.
LEMMA ArriveStep ==
  ASSUME Inv, NEW r \in Requests,
         HandleControl(r) \/ \E id \in Ids, stream \in BOOLEAN : Receive(r, id, stream)
  PROVE  Inv'
<1>0. req \in [Requests -> Records] /\ req[r] \in Records /\ RequestOK(req[r])
  BY InvParts
<1>1. /\ req[r].pc = "new" /\ Untouched(req[r]) /\ req[r].machine = "CLIENT_SCHEDULED"
      /\ UNCHANGED <<service, inflight, cancelled, raced>>
  BY <1>0 DEF HandleControl, Receive, RequestOK
<1>2. CASE HandleControl(r)
  <2>1. /\ OnlyRequest(r)
        /\ req'[r] = [req[r] EXCEPT !.pc = "done", !.head = TRUE, !.wire = "body", !.machine = "CLEANED"]
    BY <1>0, <1>1, <1>2, WalkControl DEF HandleControl, OnlyRequest
  <2>2. "done" \in Places /\ "CLEANED" \in REQUEST_STATES /\ "body" \in Wires
    BY States DEF Places, Ended, Wires
  <2>3. req'[r] \in Records
    BY <1>0, <2>1, <2>2 DEF Records
  <2>4. /\ req'[r].pc = "done" /\ req'[r].wire = "body" /\ req'[r].machine = "CLEANED"
        /\ req'[r].code = req[r].code /\ req'[r].told = req[r].told /\ req'[r].missed = req[r].missed
        /\ req'[r].cleaned = req[r].cleaned /\ req'[r].opened = req[r].opened
        /\ req'[r].deaf = req[r].deaf
    BY <1>0, <2>1 DEF Records
  <2>5. RequestOK(req'[r])
    BY <1>1, <2>4 DEF RequestOK, Untouched, Final, ToldOK, Stopped
  <2>6. req'[r].pc \in InServe <=> req[r].pc \in InServe
    BY <1>1, <2>4 DEF InServe
  <2>7. QED
    BY <1>1, <2>1, <2>3, <2>5, <2>6, ThreadStep
<1>3. ASSUME NEW id \in Ids, NEW stream \in BOOLEAN, Receive(r, id, stream)
      PROVE  Inv'
  <2>1. /\ OnlyRequest(r)
        /\ req'[r] = [req[r] EXCEPT !.pc = "validate", !.machine = "RECEIVED", !.id = id, !.stream = stream]
    BY <1>0, <1>1, <1>3, WalksIn DEF Receive, OnlyRequest
  <2>2. "validate" \in Places /\ "RECEIVED" \in REQUEST_STATES
    BY States DEF Places
  <2>3. req'[r] \in Records
    BY <1>0, <2>1, <2>2 DEF Records
  <2>4. Untouched(req'[r]) /\ req'[r].pc = "validate" /\ req'[r].machine = "RECEIVED"
    BY <1>0, <1>1, <2>1 DEF Records, Untouched
  <2>5. RequestOK(req'[r])
    BY <2>4 DEF RequestOK, Ended
  <2>6. req'[r].pc \in InServe <=> req[r].pc \in InServe
    BY <1>1, <2>4 DEF InServe
  <2>7. QED
    BY <1>1, <2>1, <2>3, <2>5, <2>6, ThreadStep
<1>4. QED
  BY <1>2, <1>3

\* Validation, admission and routing.
LEMMA ApproachStep ==
  ASSUME Inv, NEW r \in Requests, Validate(r) \/ Admit(r) \/ Route(r)
  PROVE  Inv'
<1>0. req \in [Requests -> Records] /\ req[r] \in Records /\ RequestOK(req[r])
  BY InvParts
<1>1. {"invalid", "overload", "unavailable", "deadline_infeasible"} = Rejections
  BY DEF Rejections
<1>2. CASE \/ req[r].pc = "validate" /\ (Reject(r, "invalid") \/ Reject(r, "deadline_infeasible"))
           \/ req[r].pc = "admit" /\ (Reject(r, "overload") \/ Reject(r, "deadline_infeasible"))
           \/ req[r].pc = "route" /\ Reject(r, "unavailable")
  BY <1>1, <1>2, RejectStep
<1>3. ASSUME NEW old, NEW new \in Places, NEW to \in REQUEST_STATES,
             \/ old = "validate" /\ new = "admit" /\ to = "ADMISSION_PENDING"
             \/ old = "admit" /\ new = "route" /\ to = "QUEUED"
             \/ old = "route" /\ new = "entered" /\ to = "ROUTED"
             \/ old \in {"admit", "route"} /\ new = "escaped",
             req[r].pc = old, OnlyRequest(r),
             UNCHANGED <<service, inflight, cancelled, raced>>,
             \/ req'[r] = [req[r] EXCEPT !.machine = to, !.pc = new]
             \/ req'[r] = [req[r] EXCEPT !.machine = to, !.pc = new, !.reg = inflight]
      PROVE  Inv'
  <2>1. inflight \in Nat
    BY InvParts
  <2>2. req'[r] \in Records
    BY <1>0, <1>3, <2>1, ZenonT(60) DEF Records
  <2>3. Untouched(req[r])
    BY <1>0, <1>3 DEF RequestOK
  <2>4. Untouched(req'[r]) /\ req'[r].pc = new /\ req'[r].machine = to
    BY <1>0, <1>3, <2>3, ZenonT(60) DEF Records, Untouched
  <2>5. RequestOK(req'[r])
    <3>1. Escaped(req'[r]) /\ req'[r].cleaned = req'[r].opened
      BY <2>4 DEF Escaped, Untouched, ToldOK, Stopped
    <3>2. QED
      BY <1>3, <2>4, <3>1 DEF RequestOK
  <2>6. req'[r].pc \in InServe <=> req[r].pc \in InServe
    BY <1>3, <2>4 DEF InServe
  <2>7. QED
    BY <1>3, <2>2, <2>5, <2>6, ThreadStep
<1>4. {"admit", "route", "entered"} \subseteq Places /\ {"ADMISSION_PENDING", "QUEUED", "ROUTED"} \subseteq REQUEST_STATES
  BY States DEF Places
<1>5. CASE req[r].pc = "validate" /\ Advance(r, <<"VALIDATED", "ADMISSION_PENDING">>, "admit")
  <2>1. req[r].machine = "RECEIVED"
    BY <1>0, <1>5 DEF RequestOK
  <2>2. /\ OnlyRequest(r) /\ req'[r] = [req[r] EXCEPT !.machine = "ADMISSION_PENDING", !.pc = "admit"]
        /\ UNCHANGED <<service, inflight, cancelled, raced>>
    BY <1>0, <1>5, <2>1, WalksIn DEF Advance, OnlyRequest
  <2>3. QED
    BY <1>3, <1>4, <1>5, <2>2
<1>6. CASE req[r].pc = "admit" /\ Advance(r, <<"QUEUED">>, "route")
  <2>1. req[r].machine = "ADMISSION_PENDING"
    BY <1>0, <1>6 DEF RequestOK
  <2>2. /\ OnlyRequest(r) /\ req'[r] = [req[r] EXCEPT !.machine = "QUEUED", !.pc = "route"]
        /\ UNCHANGED <<service, inflight, cancelled, raced>>
    BY <1>0, <1>6, <2>1, WalksIn DEF Advance, OnlyRequest
  <2>3. QED
    BY <1>3, <1>4, <1>6, <2>2
<1>7. CASE (req[r].pc \in {"admit", "route"}) /\ Advance(r, <<>>, "escaped")
  <2>1. req[r].machine \in REQUEST_STATES
    BY <1>0 DEF Records
  <2> DEFINE path == <<>>
             n == 0
  <2>2. path \in Seq(REQUEST_STATES) /\ n \in Nat /\ Len(path) = n /\ n = 0
    OBVIOUS
  <2>3. Advance(r, path, "escaped")
    BY <1>7
  <2> HIDE DEF path, n
  <2>4. Walk(req[r].machine, path) = req[r].machine
    BY <2>1, <2>2, WalkNowhere
  <2>5. /\ OnlyRequest(r) /\ req'[r] = [req[r] EXCEPT !.machine = req[r].machine, !.pc = "escaped"]
        /\ UNCHANGED <<service, inflight, cancelled, raced>>
    BY <1>0, <2>3, <2>4 DEF Advance, OnlyRequest
  <2>6. "escaped" \in Places
    BY DEF Places
  <2>7. QED
    BY <1>3, <1>7, <2>1, <2>5, <2>6
<1>8. CASE Route(r) /\ ~Reject(r, "unavailable") /\ ~Advance(r, <<>>, "escaped")
  <2>1. req[r].pc = "route" /\ req[r].machine = "QUEUED"
    BY <1>0, <1>8 DEF Route, RequestOK
  <2>2. /\ OnlyRequest(r) /\ req'[r] = [req[r] EXCEPT !.machine = "ROUTED", !.pc = "entered", !.reg = inflight]
        /\ UNCHANGED <<service, inflight, cancelled, raced>>
    <3> DEFINE to == Walk(req[r].machine, <<"ROUTED">>)
    <3>1. to = "ROUTED"
      BY <2>1, WalksIn
    <3>2. /\ req' = [req EXCEPT ![r].machine = to, ![r].pc = "entered", ![r].reg = inflight]
          /\ UNCHANGED <<service, inflight, cancelled, raced>>
      BY <1>8 DEF Route
    <3> HIDE DEF to
    <3>3. OnlyRequest(r) /\ req'[r] = [req[r] EXCEPT !.machine = to, !.pc = "entered", !.reg = inflight]
      BY <1>0, <3>2 DEF OnlyRequest
    <3>4. QED
      BY <3>1, <3>2, <3>3
  <2>3. QED
    BY <1>3, <1>4, <2>1, <2>2
<1>9. QED
  BY <1>2, <1>5, <1>6, <1>7, <1>8 DEF Validate, Admit, Route

-----------------------------------------------------------------------------
(***************************************************************************)
(* The counter of requests in flight.                                      *)
(***************************************************************************)

\* The requests in _serve are finitely many.
LEMMA ServingFinite == IsFiniteSet(Serving) /\ Cardinality(Serving) \in Nat
<1>1. Serving \subseteq Requests
  BY DEF Serving
<1>2. QED
  BY <1>1, GatewayAssumption, FS_Subset, FS_CardinalityType

\* A step that stores the counter.
LEMMA CounterStep ==
  ASSUME Inv, NEW r \in Requests, OnlyRequest(r), req'[r] \in Records, RequestOK(req'[r]),
         inflight' \in Nat, raced' \in BOOLEAN, UNCHANGED <<service, cancelled>>,
         ~raced' => inflight' = Cardinality(Serving')
  PROVE  Inv'
<1>1. \A p \in Requests \ {r} : req'[p] = req[p]
  BY DEF OnlyRequest
<1>2. req' \in [Requests -> Records]
  BY InvParts DEF OnlyRequest
<1>3. \A p \in Requests : RequestOK(req'[p])
  BY <1>1, InvParts
<1>4. service' \in ServiceStates /\ cancelled' \subseteq Ids
  BY InvParts
<1>5. QED
  BY <1>2, <1>3, <1>4 DEF Inv, InflightSound, TypeOK, Records, Codes, Wires, Serving

\* The request enters _serve.
LEMMA EnterStep ==
  ASSUME Inv, NEW r \in Requests, EnterStore(r)
  PROVE  Inv'
<1>0. /\ req \in [Requests -> Records] /\ req[r] \in Records /\ RequestOK(req[r])
      /\ inflight \in Nat /\ raced \in BOOLEAN /\ (~raced => inflight = Cardinality(Serving))
  BY InvParts
<1>1. /\ req[r].pc = "entered" /\ inflight' = req[r].reg + 1 /\ raced' = (raced \/ inflight # req[r].reg)
      /\ UNCHANGED <<service, cancelled>>
      /\ OnlyRequest(r) /\ req'[r] = [req[r] EXCEPT !.pc = "open", !.reg = 0]
  BY <1>0 DEF EnterStore, OnlyRequest
<1>2. "open" \in Places /\ 0 \in Nat
  BY DEF Places, InServe
<1>3. req'[r] \in Records /\ req[r].reg \in Nat
  BY <1>0, <1>1, <1>2 DEF Records
<1>4. Untouched(req[r]) /\ req[r].machine = "ROUTED"
  BY <1>0, <1>1 DEF RequestOK
<1>5. Untouched(req'[r]) /\ req'[r].pc = "open" /\ req'[r].machine = "ROUTED"
  BY <1>0, <1>1, <1>4 DEF Records, Untouched
<1>6. RequestOK(req'[r])
  BY <1>5 DEF RequestOK, Ended
<1>7. r \notin Serving /\ Serving' = Serving \cup {r}
  BY <1>1, <1>5 DEF Serving, InServe, OnlyRequest
<1>8. Cardinality(Serving') = Cardinality(Serving) + 1
  BY <1>7, ServingFinite, FS_AddElement
<1>9. ~raced' => inflight' = Cardinality(Serving')
  BY <1>0, <1>1, <1>8
<1>10. inflight' \in Nat /\ raced' \in BOOLEAN
  BY <1>0, <1>1, <1>3
<1>11. QED
  BY <1>1, <1>3, <1>6, <1>9, <1>10, CounterStep

\* The finally block of _serve.
LEMMA LeaveStep ==
  ASSUME Inv, NEW r \in Requests, Leave(r)
  PROVE  Inv'
<1>0. /\ req \in [Requests -> Records] /\ req[r] \in Records /\ RequestOK(req[r])
      /\ inflight \in Nat /\ raced \in BOOLEAN /\ (~raced => inflight = Cardinality(Serving))
  BY InvParts
<1> DEFINE place == IF req[r].pc = "leaving" THEN "done" ELSE "escaped"
<1>1. /\ req[r].pc \in {"leaving", "throwing"} /\ inflight' = (IF req[r].reg = 0 THEN 0 ELSE req[r].reg - 1)
      /\ raced' = (raced \/ inflight # req[r].reg) /\ UNCHANGED <<service, cancelled>>
      /\ OnlyRequest(r) /\ req'[r] = [req[r] EXCEPT !.pc = place, !.reg = 0, !.cleaned = req[r].opened]
  BY <1>0 DEF Leave, OnlyRequest
<1>2. place \in Places /\ 0 \in Nat /\ place \notin InServe /\ place \in {"done", "escaped"}
  BY DEF Places, Ended, InServe
<1>13. place = "done" <=> req[r].pc = "leaving"
  OBVIOUS
<1> HIDE DEF place
<1>3. req'[r] \in Records /\ req[r].reg \in Nat
  BY <1>0, <1>1, <1>2 DEF Records
<1>4. /\ place = "done" => Final(req[r])
      /\ place = "escaped" => BrokenOK(req[r])
  BY <1>0, <1>1, <1>13 DEF RequestOK
<1>5. /\ req'[r].pc = place /\ req'[r].deaf = req[r].deaf /\ req'[r].head = req[r].head
      /\ req'[r].cleaned = req[r].opened /\ req'[r].opened = req[r].opened
      /\ req'[r].machine = req[r].machine /\ req'[r].code = req[r].code /\ req'[r].stream = req[r].stream
      /\ req'[r].some = req[r].some /\ req'[r].told = req[r].told /\ req'[r].gone = req[r].gone
      /\ req'[r].wire = req[r].wire /\ req'[r].missed = req[r].missed
  BY <1>0, <1>1 DEF Records
<1>6. /\ place = "done" => Final(req'[r])
      /\ place = "escaped" => Escaped(req'[r])
  BY <1>4, <1>5 DEF Final, BrokenOK, Escaped, ToldOK
<1>7. RequestOK(req'[r])
  BY <1>2, <1>5, <1>6 DEF RequestOK
<1>8. r \in Serving /\ Serving' = Serving \ {r}
  BY <1>1, <1>2, <1>5 DEF Serving, InServe, OnlyRequest
<1>9. Cardinality(Serving') = Cardinality(Serving) - 1 /\ Cardinality(Serving) \in Nat /\ Cardinality(Serving') \in Nat
  <2>1. IsFiniteSet(Serving') /\ Cardinality(Serving') \in Nat
    BY <1>8, ServingFinite, FS_RemoveElement, FS_Subset, FS_CardinalityType
  <2>2. QED
    BY <1>8, <2>1, ServingFinite, FS_RemoveElement
<1>10. ~raced' => inflight' = Cardinality(Serving')
  <2>1. ~raced' => inflight = Cardinality(Serving) /\ req[r].reg = inflight
    BY <1>0, <1>1
  <2>2. req[r].reg = Cardinality(Serving) => inflight' = Cardinality(Serving')
    BY <1>1, <1>3, <1>9
  <2>3. QED
    BY <2>1, <2>2
<1>11. inflight' \in Nat /\ raced' \in BOOLEAN
  BY <1>0, <1>1, <1>3
<1>12. QED
  BY <1>1, <1>3, <1>7, <1>10, <1>11, CounterStep

-----------------------------------------------------------------------------
(***************************************************************************)
(* The session with the backend.                                           *)
(***************************************************************************)

\* Inside _serve the counter is left alone.
LEMMA SessionStep ==
  ASSUME Inv, NEW r \in Requests, OnlyRequest(r), req'[r] \in Records, RequestOK(req'[r]),
         req[r].pc \in InServe, req'[r].pc \in InServe,
         UNCHANGED <<service, inflight, cancelled, raced>>
  PROVE  Inv'
BY ThreadStep

\* A call of the backend raises.
LEMMA ThrowsStep ==
  ASSUME Inv, NEW r \in Requests, NEW q \in Records, Throws(r, q), req[r].pc \in InServe,
         BrokenOK(q), q.code = "" \/ (q.code \in Stopped /\ q.deaf /\ q.machine = "STREAMING")
  PROVE  Inv'
<1>0. req \in [Requests -> Records] /\ inflight \in Nat
  BY InvParts
<1> DEFINE code == IF q.code = "" THEN "backend_failed" ELSE q.code
<1>1. PICK new \in {[q EXCEPT !.pc = "except", !.code = code], [q EXCEPT !.pc = "throwing", !.reg = inflight]} :
        req' = [req EXCEPT ![r] = new]
  BY DEF Throws
<1>2. OnlyRequest(r) /\ req'[r] = new /\ UNCHANGED <<service, inflight, cancelled, raced>>
  BY <1>0, <1>1 DEF OnlyRequest, Throws
<1>3. code \in Codes /\ {"except", "throwing"} \subseteq Places
  BY DEF Codes, Records, Places, InServe
<1>4. code = "backend_failed" \/ (code \in Stopped /\ q.deaf /\ q.machine = "STREAMING")
  OBVIOUS
<1> HIDE DEF code
<1>5. CASE new = [q EXCEPT !.pc = "except", !.code = code]
  <2>1. /\ new \in Records /\ new.pc = "except" /\ new.code = code /\ new.machine = q.machine
        /\ new.wire = q.wire /\ new.head = q.head /\ new.gone = q.gone /\ new.told = q.told
        /\ new.deaf = q.deaf
    BY <1>3, <1>5 DEF Records
  <2>2. "backend_failed" \notin Stopped
    BY DEF Stopped
  <2>3. FailedOK(new)
    BY <1>4, <2>1, <2>2 DEF FailedOK, BrokenOK, ToldOK
  <2>4. RequestOK(new) /\ new.pc \in InServe
    BY <2>1, <2>3 DEF RequestOK, InServe
  <2>5. QED
    BY <1>2, <2>1, <2>4, SessionStep
<1>6. CASE new = [q EXCEPT !.pc = "throwing", !.reg = inflight]
  <2>1. /\ new \in Records /\ new.pc = "throwing" /\ new.code = q.code
        /\ new.wire = q.wire /\ new.head = q.head /\ new.gone = q.gone /\ new.told = q.told
        /\ new.deaf = q.deaf
    BY <1>0, <1>3, <1>6 DEF Records
  <2>2. BrokenOK(new)
    BY <2>1 DEF BrokenOK, ToldOK
  <2>3. RequestOK(new) /\ new.pc \in InServe
    BY <2>1, <2>2 DEF RequestOK, InServe
  <2>4. QED
    BY <1>2, <2>1, <2>3, SessionStep
<1>7. QED
  BY <1>1, <1>5, <1>6

\* The backend is asked for a session.
LEMMA OpenStep ==
  ASSUME Inv, NEW r \in Requests, Open(r) \/ OpenFails(r)
  PROVE  Inv'
<1>0. req \in [Requests -> Records] /\ req[r] \in Records /\ RequestOK(req[r])
  BY InvParts
<1>1. /\ req[r].pc = "open" /\ Untouched(req[r]) /\ req[r].machine = "ROUTED"
      /\ UNCHANGED <<service, inflight, cancelled, raced>>
  BY <1>0 DEF Open, OpenFails, Throws, RequestOK
<1>2. CASE Open(r)
  <2> DEFINE new == [req[r] EXCEPT !.pc = "loop", !.opened = TRUE]
  <2>1. OnlyRequest(r) /\ req'[r] = [new EXCEPT !.machine = "BACKEND_SUBMITTED"]
    <3>1. Try(r, <<"BACKEND_SUBMITTED">>, new)
      BY <1>2 DEF Open
    <3> HIDE DEF new
    <3>2. /\ Walk(req[r].machine, <<"BACKEND_SUBMITTED">>) = "BACKEND_SUBMITTED"
          /\ ~Raises(req[r].machine, <<"BACKEND_SUBMITTED">>)
      BY <1>1, WalksIn
    <3>3. OnlyRequest(r) /\ req'[r] = [new EXCEPT !.machine = Walk(req[r].machine, <<"BACKEND_SUBMITTED">>)]
      BY <3>1, <3>2, TryStep
    <3>4. QED
      BY <3>2, <3>3
  <2>2. "loop" \in Places /\ "BACKEND_SUBMITTED" \in REQUEST_STATES
    BY States DEF Places, InServe
  <2>3. req'[r] \in Records
    BY <1>0, <2>1, <2>2 DEF Records
  <2>4. /\ req'[r].pc = "loop" /\ req'[r].opened /\ req'[r].machine = "BACKEND_SUBMITTED"
        /\ req'[r].code = req[r].code /\ req'[r].head = req[r].head /\ req'[r].wire = req[r].wire
        /\ req'[r].told = req[r].told /\ req'[r].some = req[r].some /\ req'[r].missed = req[r].missed
        /\ req'[r].finish = req[r].finish /\ req'[r].noticed = req[r].noticed /\ req'[r].deaf = req[r].deaf
    BY <1>0, <2>1 DEF Records
  <2>5. RequestOK(req'[r])
    BY <1>1, <2>4 DEF RequestOK, Served, Untouched, Ended
  <2>6. QED
    BY <1>1, <2>1, <2>3, <2>4, <2>5, SessionStep DEF InServe
<1>3. CASE OpenFails(r)
  <2>1. PICK opened \in BOOLEAN : Throws(r, [req[r] EXCEPT !.opened = opened])
    BY <1>3 DEF OpenFails
  <2> DEFINE q == [req[r] EXCEPT !.opened = opened]
  <2>2. /\ q \in Records /\ q.wire = req[r].wire /\ q.head = req[r].head /\ q.code = req[r].code
        /\ q.told = req[r].told /\ q.deaf = req[r].deaf
    BY <1>0 DEF Records
  <2>3. Throws(r, q)
    BY <2>1
  <2> HIDE DEF q
  <2>4. BrokenOK(q) /\ q.code = ""
    BY <1>1, <2>2 DEF BrokenOK, ToldOK, Untouched, Stopped
  <2>5. req[r].pc \in InServe
    BY <1>1 DEF InServe
  <2>6. QED
    BY <2>2, <2>3, <2>4, <2>5, ThrowsStep
<1>4. QED
  BY <1>2, <1>3

\* A turn of the loop.
LEMMA InLoop ==
  ASSUME Inv, NEW r \in Requests, req[r].pc = "loop"
  PROVE  /\ req \in [Requests -> Records] /\ req[r] \in Records
         /\ Served(req[r]) /\ req[r].code = "" /\ req[r].machine \in InSession
<1>1. req \in [Requests -> Records] /\ req[r] \in Records /\ RequestOK(req[r])
  BY InvParts
<1>2. Served(req[r]) /\ req[r].code = ""
  BY <1>1 DEF RequestOK
<1>3. QED
  BY <1>1, <1>2 DEF Served, InSession

\* The loop is left: the request was cancelled, lost its client or ran out of
\* time, and no token is lost on the way but the one the socket refused.
LEMMA StopStep ==
  ASSUME Inv, NEW r \in Requests, req[r].pc = "loop", NEW q \in Records, OnlyRequest(r), req'[r] = q,
         q.pc = "after", q.code \in Stopped, q.told, q.opened = req[r].opened, q.deaf = req[r].deaf,
         q.machine \in {"CANCELLED", "TIMED_OUT"}, q.noticed => q.gone, q.wire = req[r].wire,
         UNCHANGED <<service, inflight, cancelled, raced>>
  PROVE  Inv'
<1>1. Served(req[r])
  BY InLoop
<1>2. RequestOK(req'[r])
  BY <1>1 DEF RequestOK, StoppedOK, Served, Ended
<1>3. QED
  BY <1>2, SessionStep DEF InServe

\* The three looks before the next chunk.
LEMMA LooksStep ==
  ASSUME Inv, NEW r \in Requests, LoopCancelled(r) \/ LoopDisconnected(r) \/ LoopDeadline(r)
  PROVE  Inv'
<1>0. req[r].pc = "loop" /\ UNCHANGED <<service, inflight, cancelled, raced>>
  BY DEF LoopCancelled, LoopDisconnected, LoopDeadline, StopSession
<1>1. /\ req \in [Requests -> Records] /\ req[r] \in Records
      /\ Served(req[r]) /\ req[r].code = "" /\ req[r].machine \in InSession /\ ~req[r].noticed
  BY <1>0, InLoop DEF Served
<1>2. ASSUME NEW path, NEW to, NEW new,
             Try(r, path, new), ~Raises(req[r].machine, path), Walk(req[r].machine, path) = to
      PROVE  OnlyRequest(r) /\ req'[r] = [new EXCEPT !.machine = to]
  BY <1>2, TryStep
<1>3. /\ "after" \in Places /\ {"CANCELLED", "TIMED_OUT"} \subseteq REQUEST_STATES
      /\ {"client_cancelled", "client_disconnected", "deadline_exceeded"} = Stopped /\ Stopped \subseteq Codes
  BY States DEF Places, InServe, Stopped, Codes
<1>4. CASE LoopDisconnected(r)
  <2> DEFINE new == [req[r] EXCEPT !.pc = "after", !.told = TRUE, !.noticed = TRUE,
                                   !.code = "client_disconnected"]
  <2>1. Try(r, <<"DISCONNECTED", "CANCEL_PROPAGATED", "CANCELLED">>, new) /\ req[r].gone
    BY <1>4 DEF LoopDisconnected
  <2> HIDE DEF new
  <2>2. OnlyRequest(r) /\ req'[r] = [new EXCEPT !.machine = "CANCELLED"]
    BY <1>1, <1>2, <2>1, WalksOut
  <2>3. /\ req'[r] \in Records /\ req'[r].pc = "after" /\ req'[r].code \in Stopped /\ req'[r].told
        /\ req'[r].opened = req[r].opened /\ req'[r].machine = "CANCELLED" /\ req'[r].gone
        /\ req'[r].deaf = req[r].deaf
        /\ req'[r].wire = req[r].wire
    BY <1>1, <1>3, <2>1, <2>2, ZenonT(60) DEF new, Records
  <2>4. QED
    BY <1>0, <2>2, <2>3, StopStep
<1>5. ASSUME NEW why \in Stopped, NEW to \in {"CANCELLED", "TIMED_OUT"}, OnlyRequest(r),
             req'[r] = [[req[r] EXCEPT !.pc = "after", !.told = TRUE, !.code = why] EXCEPT !.machine = to]
      PROVE  Inv'
  <2> DEFINE stopped == [req[r] EXCEPT !.pc = "after", !.told = TRUE, !.code = why]
  <2>1. /\ stopped \in Records /\ stopped.pc = "after" /\ stopped.code = why /\ stopped.told
        /\ stopped.opened = req[r].opened /\ stopped.noticed = req[r].noticed
        /\ stopped.deaf = req[r].deaf /\ stopped.wire = req[r].wire
    BY <1>1, <1>3, <1>5 DEF Records
  <2>2. req'[r] = [stopped EXCEPT !.machine = to] /\ to \in REQUEST_STATES
    BY <1>3, <1>5
  <2> HIDE DEF stopped
  <2>3. /\ req'[r] \in Records /\ req'[r].pc = stopped.pc /\ req'[r].code = stopped.code
        /\ req'[r].told = stopped.told /\ req'[r].opened = stopped.opened /\ req'[r].machine = to
        /\ req'[r].noticed = stopped.noticed /\ req'[r].deaf = stopped.deaf /\ req'[r].wire = stopped.wire
    BY <2>1, <2>2 DEF Records
  <2>4. /\ req'[r].pc = "after" /\ req'[r].code \in Stopped /\ req'[r].told
        /\ req'[r].opened = req[r].opened /\ req'[r].deaf = req[r].deaf
        /\ req'[r].machine \in {"CANCELLED", "TIMED_OUT"} /\ ~req'[r].noticed
        /\ req'[r].wire = req[r].wire
    BY <1>1, <1>5, <2>1, <2>3
  <2>5. QED
    BY <1>0, <1>5, <2>3, <2>4, StopStep
<1>6. CASE LoopCancelled(r)
  <2> DEFINE new == [req[r] EXCEPT !.pc = "after", !.told = TRUE, !.code = "client_cancelled"]
  <2>1. Try(r, <<"CANCEL_REQUESTED", "CANCEL_PROPAGATED", "CANCELLED">>, new)
    BY <1>6 DEF LoopCancelled, StopSession
  <2>2. OnlyRequest(r) /\ req'[r] = [new EXCEPT !.machine = "CANCELLED"]
    <3> HIDE DEF new
    <3>1. QED
      BY <1>1, <1>2, <2>1, WalksOut
  <2>3. QED
    BY <1>3, <1>5, <2>2
<1>7. CASE LoopDeadline(r)
  <2> DEFINE new == [req[r] EXCEPT !.pc = "after", !.told = TRUE, !.code = "deadline_exceeded"]
  <2>1. Try(r, <<"TIMED_OUT">>, new)
    BY <1>7 DEF LoopDeadline, StopSession
  <2>2. OnlyRequest(r) /\ req'[r] = [new EXCEPT !.machine = "TIMED_OUT"]
    <3> HIDE DEF new
    <3>1. QED
      BY <1>1, <1>2, <2>1, WalksOut
  <2>3. QED
    BY <1>3, <1>5, <2>2
<1>8. QED
  BY <1>4, <1>6, <1>7

\* What a chunk does to the machine is never refused.
LEMMA ChunkWalks ==
  ASSUME Inv, NEW r \in Requests, req[r].pc = "loop"
  PROVE  /\ ~Raises(req[r].machine, ChunkPath(r))
         /\ Walk(req[r].machine, ChunkPath(r)) = IF req[r].stream THEN "STREAMING" ELSE "FIRST_TOKEN_READY"
         /\ req[r].stream =>
              LET path == ChunkPath(r) \o <<"DISCONNECTED", "CANCEL_PROPAGATED", "CANCELLED">>
              IN  ~Raises(req[r].machine, path) /\ Walk(req[r].machine, path) = "CANCELLED"
<1>1. req[r] \in Records /\ Served(req[r])
  BY InLoop
<1>2. CASE req[r].some
  <2>1. /\ ChunkPath(r) = <<>> \o <<>>
        /\ req[r].machine = IF req[r].stream THEN "STREAMING" ELSE "FIRST_TOKEN_READY"
    BY <1>1, <1>2 DEF Served, ChunkPath
  <2>2. req[r].machine \in REQUEST_STATES
    BY <1>1 DEF Records
  <2>3. QED
    BY <2>1, <2>2, WalksChunk
<1>3. CASE ~req[r].some /\ req[r].stream
  <2>1. ChunkPath(r) = <<"FIRST_TOKEN_READY">> \o <<"STREAMING">> /\ req[r].machine = "BACKEND_SUBMITTED"
    BY <1>1, <1>3 DEF Served, ChunkPath
  <2>2. QED
    BY <1>3, <2>1, WalksChunk
<1>4. CASE ~req[r].some /\ ~req[r].stream
  <2>1. ChunkPath(r) = <<"FIRST_TOKEN_READY">> \o <<>> /\ req[r].machine = "BACKEND_SUBMITTED"
    BY <1>1, <1>4 DEF Served, ChunkPath
  <2>2. QED
    BY <1>4, <2>1, WalksChunk
<1>5. QED
  BY <1>2, <1>3, <1>4

\* A chunk is passed on.
LEMMA ChunkStep ==
  ASSUME Inv, NEW r \in Requests, NEW last \in BOOLEAN, Chunk(r, last)
  PROVE  Inv'
<1>0. req[r].pc = "loop" /\ UNCHANGED <<service, inflight, cancelled, raced>>
  BY DEF Chunk, Asks
<1>1. req[r] \in Records /\ Served(req[r]) /\ req[r].code = ""
  BY <1>0, InLoop
<1> DEFINE to == IF req[r].stream THEN "STREAMING" ELSE "FIRST_TOKEN_READY"
           frame == IF req[r].stream THEN "chunk" ELSE req[r].wire
           head == req[r].head \/ req[r].stream
           new == [req[r] EXCEPT !.some = TRUE, !.finish = last, !.head = head, !.wire = frame]
<1>2. Try(r, ChunkPath(r), new)
  BY DEF Chunk
<1>3. OnlyRequest(r) /\ req'[r] = [new EXCEPT !.machine = to]
  <2> HIDE DEF new
  <2>1. QED
    BY <1>0, <1>2, ChunkWalks, TryStep
<1>4. to \in REQUEST_STATES /\ frame \in Wires /\ head \in BOOLEAN
  BY <1>1, States DEF Records, Wires
<1> HIDE DEF to, frame, head
<1>5. req'[r] \in Records
  BY <1>1, <1>3, <1>4 DEF Records
<1>6. /\ req'[r].pc = "loop" /\ req'[r].machine = to /\ req'[r].wire = frame /\ req'[r].head = head
      /\ req'[r].some /\ req'[r].stream = req[r].stream /\ req'[r].opened = req[r].opened
      /\ req'[r].told = req[r].told /\ req'[r].missed = req[r].missed /\ req'[r].noticed = req[r].noticed
      /\ req'[r].code = req[r].code /\ req'[r].deaf = req[r].deaf
  BY <1>0, <1>1, <1>3 DEF Records
<1>7. Served(req'[r])
  <2>1. req'[r].machine = IF ~req'[r].some THEN "BACKEND_SUBMITTED"
                          ELSE IF req'[r].stream THEN "STREAMING" ELSE "FIRST_TOKEN_READY"
    BY <1>6 DEF to
  <2>2. req'[r].wire = IF req'[r].stream /\ req'[r].some THEN "chunk" ELSE "nothing"
    BY <1>1, <1>6 DEF frame, Served
  <2>3. req'[r].head <=> req'[r].stream /\ req'[r].some
    BY <1>1, <1>6 DEF head, Served
  <2>4. QED
    BY <1>1, <1>6, <2>1, <2>2, <2>3 DEF Served
<1>8. RequestOK(req'[r])
  BY <1>1, <1>6, <1>7 DEF RequestOK, Ended
<1>9. QED
  BY <1>0, <1>3, <1>5, <1>6, <1>8, SessionStep DEF InServe

\* The socket refuses the chunk.
LEMMA ChunkRefusedStep ==
  ASSUME Inv, NEW r \in Requests, ChunkRefused(r)
  PROVE  Inv'
<1>0. req[r].pc = "loop" /\ req[r].stream /\ req[r].gone /\ UNCHANGED <<service, inflight, cancelled, raced>>
  BY DEF ChunkRefused, Asks, WriteRefused
<1>1. req[r] \in Records
  BY <1>0, InLoop
<1> DEFINE path == ChunkPath(r) \o <<"DISCONNECTED", "CANCEL_PROPAGATED", "CANCELLED">>
           new == [req[r] EXCEPT !.some = TRUE, !.missed = TRUE, !.head = TRUE, !.noticed = TRUE,
                                 !.pc = "after", !.told = TRUE, !.code = "client_disconnected"]
<1>2. Try(r, path, new)
  BY DEF ChunkRefused
<1>3. ~Raises(req[r].machine, path) /\ Walk(req[r].machine, path) = "CANCELLED"
  BY <1>0, ChunkWalks
<1>4. OnlyRequest(r) /\ req'[r] = [new EXCEPT !.machine = "CANCELLED"]
  <2> HIDE DEF new, path
  <2>1. QED
    BY <1>2, <1>3, TryStep
<1>5. "after" \in Places /\ "CANCELLED" \in REQUEST_STATES /\ "client_disconnected" \in Stopped /\ Stopped \subseteq Codes
  BY States DEF Places, InServe, Stopped, Codes
<1>6. req'[r] \in Records
  <2>1. new \in Records
    BY <1>1, <1>5 DEF Records
  <2> HIDE DEF new
  <2>2. QED
    BY <1>4, <1>5, <2>1 DEF Records
<1>7. /\ req'[r].pc = "after" /\ req'[r].code = "client_disconnected" /\ req'[r].told
      /\ req'[r].opened = req[r].opened /\ req'[r].machine = "CANCELLED" /\ req'[r].gone = req[r].gone
      /\ req'[r].deaf = req[r].deaf
      /\ req'[r].wire = req[r].wire
  BY <1>1, <1>4 DEF Records
<1>8. QED
  BY <1>0, <1>4, <1>5, <1>6, <1>7, StopStep

\* The chunks end.
LEMMA EndStep ==
  ASSUME Inv, NEW r \in Requests, EndOfChunks(r)
  PROVE  Inv'
<1>0. req[r].pc = "loop" /\ UNCHANGED <<service, inflight, cancelled, raced>>
  BY DEF EndOfChunks, Asks
<1>1. req \in [Requests -> Records] /\ req[r] \in Records /\ Served(req[r]) /\ req[r].code = ""
  BY <1>0, InLoop
<1>2. OnlyRequest(r) /\ req'[r] = [req[r] EXCEPT !.pc = "after"] /\ "after" \in Places
  BY <1>1 DEF EndOfChunks, OnlyRequest, Places, InServe
<1>3. req'[r] \in Records
  BY <1>1, <1>2 DEF Records
<1>4. /\ req'[r].pc = "after" /\ req'[r].code = req[r].code /\ req'[r].machine = req[r].machine
      /\ req'[r].wire = req[r].wire /\ req'[r].head = req[r].head /\ req'[r].stream = req[r].stream
      /\ req'[r].some = req[r].some /\ req'[r].opened = req[r].opened /\ req'[r].told = req[r].told
      /\ req'[r].missed = req[r].missed /\ req'[r].noticed = req[r].noticed /\ req'[r].finish = req[r].finish
      /\ req'[r].deaf = req[r].deaf
  BY <1>1, <1>2 DEF Records
<1>5. Served(req'[r])
  BY <1>1, <1>4 DEF Served
<1>6. RequestOK(req'[r])
  BY <1>1, <1>4, <1>5 DEF RequestOK
<1>7. QED
  BY <1>0, <1>2, <1>3, <1>4, <1>6, SessionStep DEF InServe

\* The backend raises in next_chunk, or in the cancel of one of the stops.
LEMMA RaisesStep ==
  ASSUME Inv, NEW r \in Requests, BackendRaises(r) \/ CancelRaises(r) \/ RefusedRaises(r)
  PROVE  Inv'
<1>0. req[r].pc = "loop" /\ req[r].pc \in InServe
  BY DEF BackendRaises, CancelRaises, RefusedRaises, Asks, InServe
<1>1. req[r] \in Records /\ Served(req[r]) /\ req[r].code = ""
  BY <1>0, InLoop
<1>2. /\ ~req[r].told /\ ~req[r].deaf /\ req[r].wire \in {"nothing", "chunk"}
      /\ req[r].head => req[r].wire = "chunk"
  BY <1>1 DEF Served
<1>3. CASE BackendRaises(r)
  <2>1. BrokenOK(req[r])
    BY <1>1, <1>2 DEF BrokenOK, ToldOK, Stopped
  <2>2. QED
    BY <1>0, <1>1, <1>3, <2>1, ThrowsStep DEF BackendRaises
<1>4. CASE CancelRaises(r)
  <2>1. PICK first \in {"CANCEL_REQUESTED", "DISCONNECTED", "TIMED_OUT"} :
           Throws(r, [req[r] EXCEPT !.machine = first, !.deaf = TRUE,
                                    !.noticed = @ \/ first = "DISCONNECTED"])
    BY <1>4 DEF CancelRaises
  <2> DEFINE saw == req[r].noticed \/ first = "DISCONNECTED"
             q == [req[r] EXCEPT !.machine = first, !.deaf = TRUE, !.noticed = saw]
  <2>2. Throws(r, q)
    BY <2>1
  <2>3. saw \in BOOLEAN /\ first \in REQUEST_STATES
    BY <1>1, States DEF Records
  <2> HIDE DEF saw
  <2>4. /\ q \in Records /\ q.wire = req[r].wire /\ q.head = req[r].head /\ q.code = req[r].code
        /\ q.told = req[r].told /\ q.deaf
    BY <1>1, <2>3 DEF Records
  <2> HIDE DEF q
  <2>5. BrokenOK(q) /\ q.code = ""
    BY <1>1, <1>2, <2>4 DEF BrokenOK, ToldOK
  <2>6. QED
    BY <1>0, <2>2, <2>4, <2>5, ThrowsStep
<1>5. CASE RefusedRaises(r)
  <2> DEFINE to == Walk(req[r].machine, ChunkPath(r))
             q == [req[r] EXCEPT !.machine = to, !.deaf = TRUE, !.some = TRUE, !.missed = TRUE,
                                 !.head = TRUE, !.noticed = TRUE, !.code = "client_disconnected"]
  <2>1. Throws(r, q) /\ req[r].stream /\ req[r].gone
    BY <1>5 DEF RefusedRaises, WriteRefused
  <2>2. to = "STREAMING"
    BY <1>0, <2>1, ChunkWalks
  <2>3. to \in REQUEST_STATES /\ "client_disconnected" \in Stopped /\ Stopped \subseteq Codes
    BY <2>2, States DEF Stopped, Codes
  <2> HIDE DEF to
  <2>4. /\ q \in Records /\ q.wire = req[r].wire /\ q.code = "client_disconnected" /\ q.gone
        /\ q.told = req[r].told /\ q.deaf /\ q.machine = to
    BY <1>1, <2>1, <2>3 DEF Records
  <2> HIDE DEF q
  <2>5. BrokenOK(q)
    BY <1>2, <2>4 DEF BrokenOK, ToldOK
  <2>6. QED
    BY <1>0, <2>1, <2>2, <2>3, <2>4, <2>5, ThrowsStep
<1>6. QED
  BY <1>3, <1>4, <1>5

-----------------------------------------------------------------------------
(***************************************************************************)
(* The answer.                                                             *)
(***************************************************************************)

\* What the end of the try block does to the machine is never refused.
LEMMA AnswerWalks ==
  ASSUME Inv, NEW r \in Requests, req[r].pc = "after"
  PROVE  /\ ~Raises(req[r].machine, AnswerPath(r))
         /\ Walk(req[r].machine, AnswerPath(r))
               = IF req[r].code = "" /\ ~req[r].finish THEN req[r].machine ELSE "CLEANED"
<1>1. req[r] \in Records /\ RequestOK(req[r])
  BY InvParts
<1>2. CASE Served(req[r]) /\ req[r].code = "" /\ req[r].finish
  <2>1. /\ AnswerPath(r) = <<"TERMINAL_FRAME_SENT", "CLIENT_COMPLETED", "CLEANED">>
        /\ req[r].machine \in {"FIRST_TOKEN_READY", "STREAMING"}
    BY <1>2 DEF AnswerPath, Succeeded, Served
  <2>2. QED
    BY <1>2, <2>1, WalksEnd
<1>3. CASE Served(req[r]) /\ req[r].code = "" /\ ~req[r].finish
  <2>1. AnswerPath(r) = <<>>
    BY <1>3 DEF AnswerPath, Succeeded, Served
  <2>2. req[r].machine \in REQUEST_STATES
    BY <1>1 DEF Records
  <2>3. <<>> \o <<>> = <<>>
    <3>1. <<>> \in Seq(REQUEST_STATES)
      OBVIOUS
    <3>2. QED
      BY <3>1, ConcatEmptySeq
  <2>4. QED
    BY <1>3, <2>1, <2>2, <2>3, WalksChunk
<1>4. CASE StoppedOK(req[r])
  <2>1. req[r].machine \in {"CANCELLED", "TIMED_OUT"} /\ req[r].code # ""
    BY <1>4 DEF StoppedOK, Stopped
  <2>2. AnswerPath(r) = <<"CLEANED">>
    BY <2>1 DEF AnswerPath, Succeeded
  <2>3. QED
    BY <2>1, <2>2, WalksEnd
<1>5. QED
  BY <1>1, <1>2, <1>3, <1>4 DEF RequestOK

\* The answer is written, or refused because the client has left.
LEMMA AnswerStep ==
  ASSUME Inv, NEW r \in Requests, NEW accepted \in BOOLEAN, Answer(r, accepted)
  PROVE  Inv'
<1>0. /\ req[r].pc = "after" /\ UNCHANGED <<service, inflight, cancelled, raced>>
      /\ IF accepted THEN WriteAccepted(r) ELSE WriteRefused(r)
  BY DEF Answer
<1>1. req[r] \in Records /\ RequestOK(req[r]) /\ inflight \in Nat
  BY InvParts
<1>2. (Served(req[r]) /\ req[r].code = "") \/ StoppedOK(req[r])
  BY <1>0, <1>1 DEF RequestOK
<1> DEFINE to == IF req[r].code = "" /\ ~req[r].finish THEN req[r].machine ELSE "CLEANED"
           frame == IF accepted THEN LastFrame(r) ELSE req[r].wire
           saw == req[r].noticed \/ ~accepted
           code == IF req[r].code = "" /\ ~req[r].finish THEN "protocol_failure" ELSE req[r].code
           new == [req[r] EXCEPT !.pc = "leaving", !.reg = inflight, !.head = TRUE, !.noticed = saw,
                                 !.wire = frame, !.code = code]
<1>3. Try(r, AnswerPath(r), new)
  BY DEF Answer
<1>4. OnlyRequest(r) /\ req'[r] = [new EXCEPT !.machine = to]
  <2> DEFINE path == AnswerPath(r)
  <2>1. ~Raises(req[r].machine, path) /\ Walk(req[r].machine, path) = to
    BY <1>0, AnswerWalks
  <2>2. Try(r, path, new)
    BY <1>3
  <2> HIDE DEF new, to, path
  <2>3. OnlyRequest(r) /\ req'[r] = [new EXCEPT !.machine = Walk(req[r].machine, path)]
    BY <2>1, <2>2, TryStep
  <2>4. QED
    BY <2>1, <2>3
<1>5. /\ "leaving" \in Places /\ to \in REQUEST_STATES /\ frame \in Wires /\ saw \in BOOLEAN /\ code \in Codes
  BY <1>1, States DEF Records, Wires, Codes, LastFrame, Places, InServe
<1> HIDE DEF to, frame, saw, code
<1>6. req'[r] \in Records
  <2>1. new \in Records
    BY <1>1, <1>5 DEF Records
  <2> HIDE DEF new
  <2>2. QED
    BY <1>4, <1>5, <2>1 DEF Records
<1>7. /\ req'[r].pc = "leaving" /\ req'[r].machine = to /\ req'[r].wire = frame /\ req'[r].code = code
      /\ req'[r].told = req[r].told /\ req'[r].gone = req[r].gone /\ req'[r].missed = req[r].missed
      /\ req'[r].deaf = req[r].deaf
  BY <1>1, <1>4 DEF Records
<1>8. ~req[r].gone => accepted
  BY <1>0 DEF WriteRefused
<1>9. Final(req'[r])
  <2>1. CASE Served(req[r]) /\ req[r].code = "" /\ req[r].finish
    <3>1. /\ to = "CLEANED" /\ code = "" /\ frame # "error" /\ (accepted => frame \in {"terminal", "body"})
      BY <2>1 DEF to, code, frame, LastFrame, Succeeded, Served
    <3>2. ~req[r].told /\ ~req[r].missed
      BY <2>1 DEF Served
    <3>3. QED
      BY <1>7, <1>8, <3>1, <3>2 DEF Final, ToldOK, Stopped, Rejections
  <2>2. CASE Served(req[r]) /\ req[r].code = "" /\ ~req[r].finish
    <3>1. to \in InSession /\ code = "protocol_failure" /\ frame \notin {"terminal", "body"} /\ (accepted => frame = "error")
      BY <2>2 DEF to, code, frame, LastFrame, Succeeded, Served, InSession
    <3>2. ~req[r].told
      BY <2>2 DEF Served
    <3>3. QED
      BY <1>7, <1>8, <3>1, <3>2 DEF Final, ToldOK, Stopped, Rejections
  <2>3. CASE StoppedOK(req[r])
    <3>1. req[r].code # ""
      BY <2>3 DEF StoppedOK, Stopped
    <3>2. to = "CLEANED" /\ code \in Stopped /\ frame \notin {"terminal", "body"} /\ (accepted => frame = "error")
      BY <2>3, <3>1 DEF to, code, frame, LastFrame, Succeeded, StoppedOK
    <3>3. req[r].told
      BY <2>3 DEF StoppedOK
    <3>4. QED
      BY <1>7, <1>8, <3>2, <3>3 DEF Final, ToldOK, Stopped, Rejections
  <2>4. QED
    BY <1>2, <2>1, <2>2, <2>3
<1>10. RequestOK(req'[r])
  BY <1>7, <1>9 DEF RequestOK
<1>11. QED
  BY <1>0, <1>4, <1>6, <1>7, <1>10, SessionStep DEF InServe

\* The handler.
LEMMA ExceptStep ==
  ASSUME Inv, NEW r \in Requests, NEW accepted \in BOOLEAN, Except(r, accepted)
  PROVE  Inv'
<1>0. /\ req[r].pc = "except" /\ UNCHANGED <<service, inflight, cancelled, raced>>
      /\ IF accepted THEN WriteAccepted(r) ELSE WriteRefused(r)
  BY DEF Except
<1>1. req \in [Requests -> Records] /\ req[r] \in Records /\ RequestOK(req[r]) /\ inflight \in Nat
  BY InvParts
<1>2. FailedOK(req[r])
  BY <1>0, <1>1 DEF RequestOK
<1> DEFINE to == Walk(req[r].machine, FailurePath(req[r].machine))
           frame == IF accepted /\ ~req[r].head THEN "error" ELSE req[r].wire
           saw == req[r].noticed \/ (~accepted /\ ~req[r].head)
<1>3. to \in REQUEST_STATES /\ (req[r].code \in Stopped => to = "CLEANED")
  <2>1. req[r].machine \in REQUEST_STATES
    BY <1>1 DEF Records
  <2>2. to \in REQUEST_STATES
    BY <2>1, WalksFailed
  <2>3. req[r].code \in Stopped => req[r].machine = "STREAMING"
    BY <1>2 DEF FailedOK, Stopped
  <2>4. FailurePath("STREAMING") = <<"BACKEND_FAILED", "CLEANED">>
    BY DEF FailurePath
  <2>5. QED
    BY <2>2, <2>3, <2>4, WalksEnd
<1>4. req' = [req EXCEPT ![r].pc = "leaving", ![r].reg = inflight, ![r].machine = to,
                         ![r].wire = frame, ![r].noticed = saw, ![r].head = TRUE]
  BY DEF Except
<1>5. "leaving" \in Places /\ to \in REQUEST_STATES /\ frame \in Wires /\ saw \in BOOLEAN
  BY <1>1, <1>3, States DEF Records, Wires, Places, InServe
<1> HIDE DEF to, frame, saw
<1>6. /\ OnlyRequest(r)
      /\ req'[r] = [req[r] EXCEPT !.pc = "leaving", !.reg = inflight, !.machine = to,
                                  !.wire = frame, !.noticed = saw, !.head = TRUE]
  BY <1>1, <1>4 DEF OnlyRequest
<1>7. req'[r] \in Records
  BY <1>1, <1>5, <1>6, ZenonT(60) DEF Records
<1>8. /\ req'[r].pc = "leaving" /\ req'[r].machine = to /\ req'[r].wire = frame /\ req'[r].code = req[r].code
      /\ req'[r].told = req[r].told /\ req'[r].gone = req[r].gone /\ req'[r].missed = req[r].missed
      /\ req'[r].deaf = req[r].deaf
  BY <1>1, <1>6 DEF Records
<1>9. ~req[r].gone => accepted
  BY <1>0 DEF WriteRefused
<1>10. Final(req'[r])
  <2>1. /\ req[r].code = "backend_failed" \/ req[r].code \in Stopped
        /\ BrokenOK(req[r])
    BY <1>2 DEF FailedOK
  <2>2. /\ frame \notin {"terminal", "body"}
        /\ accepted /\ ~req[r].gone => frame # "nothing"
    BY <2>1 DEF frame, BrokenOK
  <2>3. ToldOK(req'[r])
    BY <1>8, <2>1 DEF ToldOK, BrokenOK
  <2>4. req[r].code # "" /\ req[r].code \notin Rejections
    BY <2>1 DEF Stopped, Rejections
  <2>5. QED
    BY <1>3, <1>8, <1>9, <2>2, <2>3, <2>4 DEF Final
<1>11. RequestOK(req'[r])
  BY <1>8, <1>10 DEF RequestOK
<1>12. QED
  BY <1>0, <1>6, <1>7, <1>8, <1>11, SessionStep DEF InServe

\* The transport answers for an exception.
LEMMA DispatchStep ==
  ASSUME Inv, NEW r \in Requests, NEW accepted \in BOOLEAN, Dispatch(r, accepted)
  PROVE  Inv'
<1>0. /\ req[r].pc = "escaped" /\ UNCHANGED <<service, inflight, cancelled, raced>>
      /\ IF accepted THEN WriteAccepted(r) ELSE WriteRefused(r)
  BY DEF Dispatch
<1>1. req \in [Requests -> Records] /\ req[r] \in Records /\ RequestOK(req[r])
  BY InvParts
<1>2. Escaped(req[r]) /\ req[r].cleaned = req[r].opened
  BY <1>0, <1>1 DEF RequestOK
<1> DEFINE frame == IF accepted /\ ~req[r].head THEN "error" ELSE req[r].wire
<1>3. OnlyRequest(r) /\ req'[r] = [req[r] EXCEPT !.pc = "raised", !.head = TRUE, !.wire = frame]
  BY <1>1 DEF Dispatch, OnlyRequest
<1>4. /\ frame \in Wires /\ "raised" \in Places /\ frame \notin {"terminal", "body"}
      /\ ~req[r].gone => frame # "nothing"
  BY <1>0, <1>1, <1>2 DEF Records, Wires, Places, Ended, Escaped, WriteRefused
<1> HIDE DEF frame
<1>5. req'[r] \in Records
  BY <1>1, <1>3, <1>4 DEF Records
<1>6. /\ req'[r].pc = "raised" /\ req'[r].wire = frame /\ req'[r].gone = req[r].gone
      /\ req'[r].code = req[r].code /\ req'[r].told = req[r].told /\ req'[r].deaf = req[r].deaf
      /\ req'[r].cleaned = req[r].cleaned /\ req'[r].opened = req[r].opened
  BY <1>1, <1>3 DEF Records
<1>7. RequestOK(req'[r])
  BY <1>2, <1>4, <1>6 DEF RequestOK, Escaped, ToldOK
<1>8. req'[r].pc \in InServe <=> req[r].pc \in InServe
  BY <1>0, <1>6 DEF InServe
<1>9. QED
  BY <1>0, <1>3, <1>5, <1>7, <1>8, ThreadStep

-----------------------------------------------------------------------------
(***************************************************************************)
(* The other steps, and the invariant.                                     *)
(***************************************************************************)

\* A request that is refused on sight.
LEMMA RefusedOnSightStep ==
  ASSUME Inv, NEW r \in Requests, RejectUnknown(r) \/ RejectNotServing(r)
  PROVE  Inv'
<1>1. "invalid" \in Rejections /\ "unavailable" \in Rejections
  BY DEF Rejections
<1>2. CASE RejectUnknown(r)
  <2>1. req[r].pc = "new" /\ Reject(r, "invalid")
    BY <1>2 DEF RejectUnknown
  <2>2. QED
    BY <1>1, <2>1, RejectStep
<1>3. CASE RejectNotServing(r)
  <2>1. req[r].pc = "new" /\ Reject(r, "unavailable")
    BY <1>3 DEF RejectNotServing
  <2>2. QED
    BY <1>1, <2>1, RejectStep
<1>4. QED
  BY <1>2, <1>3

\* The thread is given back.
LEMMA ReturnStep ==
  ASSUME Inv, NEW r \in Requests, Return(r)
  PROVE  Inv'
<1>1. /\ req[r].pc \in Ended /\ req' = [req EXCEPT ![r] = Fresh]
      /\ UNCHANGED <<service, inflight, cancelled, raced>>
  BY DEF Return
<1>2. req \in [Requests -> Records]
  BY InvParts
<1>3. OnlyRequest(r) /\ req'[r] = Fresh
  BY <1>1, <1>2 DEF OnlyRequest
<1>4. Fresh \in Records
  <2>1. "CLIENT_SCHEDULED" \in REQUEST_STATES
    BY States
  <2>2. QED
    BY <2>1 DEF Fresh, Records, Codes, Wires, Places
<1>5. RequestOK(Fresh)
  BY DEF Fresh, RequestOK, Untouched
<1>6. Fresh.pc \notin InServe /\ req[r].pc \notin InServe
  BY <1>1 DEF Fresh, InServe, Ended
<1>7. QED
  BY <1>1, <1>3, <1>4, <1>5, <1>6, ThreadStep

\* The client goes away.
LEMMA LeavesStep ==
  ASSUME Inv, NEW r \in Requests, ClientLeaves(r)
  PROVE  Inv'
<1>1. /\ req[r].pc \in {"loop", "after"} /\ req' = [req EXCEPT ![r].gone = TRUE]
      /\ UNCHANGED <<service, inflight, cancelled, raced>>
  BY DEF ClientLeaves
<1>2. req \in [Requests -> Records] /\ req[r] \in Records /\ RequestOK(req[r])
  BY InvParts
<1>3. OnlyRequest(r) /\ req'[r] = [req[r] EXCEPT !.gone = TRUE]
  BY <1>1, <1>2 DEF OnlyRequest
<1>4. req'[r] \in Records
  BY <1>2, <1>3 DEF Records
<1>5. /\ req'[r].pc = req[r].pc /\ req'[r].gone = TRUE /\ req'[r].code = req[r].code
      /\ req'[r].machine = req[r].machine /\ req'[r].wire = req[r].wire /\ req'[r].head = req[r].head
      /\ req'[r].stream = req[r].stream /\ req'[r].some = req[r].some /\ req'[r].opened = req[r].opened
      /\ req'[r].told = req[r].told /\ req'[r].missed = req[r].missed
      /\ req'[r].noticed = req[r].noticed /\ req'[r].finish = req[r].finish /\ req'[r].deaf = req[r].deaf
  BY <1>2, <1>3 DEF Records
<1>6. /\ Served(req[r]) => Served(req'[r])
      /\ StoppedOK(req[r]) => StoppedOK(req'[r])
  BY <1>5 DEF Served, StoppedOK
<1>7. RequestOK(req'[r])
  BY <1>1, <1>2, <1>5, <1>6 DEF RequestOK, Ended
<1>8. QED
  BY <1>1, <1>3, <1>4, <1>5, <1>7, ThreadStep

\* Steps of the service that touch neither the requests nor the counter.
LEMMA ServiceStep ==
  ASSUME Inv,
         \/ \E id \in Ids : RequestCancel(id)
         \/ BeginDrain \/ ForceCancel \/ Close \/ UNCHANGED vars
  PROVE  Inv'
<1>1. /\ UNCHANGED <<inflight, req, raced>>
      /\ service' \in ServiceStates /\ cancelled' \subseteq Ids
  BY InvParts DEF RequestCancel, BeginDrain, ForceCancel, Close, vars, ServiceStates
<1>2. QED
  BY <1>1 DEF Inv, InflightSound, TypeOK

\* Every step of the gateway keeps the invariant.
LEMMA InvStep ==
  ASSUME Inv, [Next]_vars
  PROVE  Inv'
<1>1. ASSUME NEW r \in Requests, Handle(r)
      PROVE  Inv'
  BY <1>1, ArriveStep, RefusedOnSightStep DEF Handle
<1>2. ASSUME NEW r \in Requests, Serve(r)
      PROVE  Inv'
  <2>1. CASE Validate(r) \/ Admit(r) \/ Route(r)
    BY <2>1, ApproachStep
  <2>2. CASE EnterStore(r)
    BY <2>2, EnterStep
  <2>3. CASE Open(r) \/ OpenFails(r)
    BY <2>3, OpenStep
  <2>4. CASE LoopCancelled(r) \/ LoopDisconnected(r) \/ LoopDeadline(r)
    BY <2>4, LooksStep
  <2>5. ASSUME NEW last \in BOOLEAN, Chunk(r, last)
        PROVE  Inv'
    BY <2>5, ChunkStep
  <2>6. CASE ChunkRefused(r)
    BY <2>6, ChunkRefusedStep
  <2>7. CASE EndOfChunks(r)
    BY <2>7, EndStep
  <2>12. CASE BackendRaises(r) \/ CancelRaises(r) \/ RefusedRaises(r)
    BY <2>12, RaisesStep
  <2>8. ASSUME NEW accepted \in BOOLEAN, Answer(r, accepted) \/ Except(r, accepted) \/ Dispatch(r, accepted)
        PROVE  Inv'
    BY <2>8, AnswerStep, ExceptStep, DispatchStep
  <2>9. CASE Leave(r)
    BY <2>9, LeaveStep
  <2>10. CASE Return(r)
    BY <2>10, ReturnStep
  <2>11. QED
    BY <1>2, <2>1, <2>2, <2>3, <2>4, <2>5, <2>6, <2>7, <2>8, <2>9, <2>10, <2>12 DEF Serve
<1>3. ASSUME NEW r \in Requests, ClientLeaves(r)
      PROVE  Inv'
  BY <1>3, LeavesStep
<1>4. CASE \/ \E id \in Ids : RequestCancel(id)
           \/ BeginDrain \/ ForceCancel \/ Close \/ UNCHANGED vars
  BY <1>4, ServiceStep
<1>5. QED
  BY <1>1, <1>2, <1>3, <1>4 DEF Next

\* The gateway starts with idle threads and a counter at zero.
LEMMA InitInv == Init => Inv
<1> SUFFICES ASSUME Init PROVE Inv
  OBVIOUS
<1>1. Fresh \in Records
  <2>1. "CLIENT_SCHEDULED" \in REQUEST_STATES
    BY States
  <2>2. QED
    BY <2>1 DEF Fresh, Records, Codes, Wires, Places
<1>2. RequestOK(Fresh) /\ Fresh.pc \notin InServe
  BY DEF Fresh, RequestOK, Untouched, InServe
<1>3. \A r \in Requests : req[r] = Fresh
  BY DEF Init
<1>4. req \in [Requests -> Records]
  BY <1>1 DEF Init
<1>5. Serving = {}
  BY <1>2, <1>3 DEF Serving
<1>6. Cardinality(Serving) = 0
  BY <1>5, FS_EmptySet
<1>7. /\ service \in ServiceStates /\ inflight = 0 /\ inflight \in Nat
      /\ cancelled \subseteq Ids /\ raced \in BOOLEAN
  BY DEF Init, ServiceStates
<1>8. QED
  BY <1>2, <1>3, <1>4, <1>6, <1>7, InvParts

\* The invariant of the gateway holds in every reachable state: at every
\* place of its thread a request looks as RequestOK says, so handle() and
\* _serve() never see one of their own transitions refused in the try block.
THEOREM Invariance == Spec => []Inv
<1>1. QED
  BY InitInv, InvStep, PTL DEF Spec

\* health() and the admission policy are told the number of requests being
\* served as long as no two updates of self._inflight have met, for any
\* number of threads; every variable keeps its type.
THEOREM InflightHolds == Spec => []InflightSound
<1>1. Inv => InflightSound
  BY DEF Inv
<1>2. QED
  BY <1>1, Invariance, PTL

\* Whatever meets a request, one that is recorded as completed, refused,
\* cancelled, timed out or disconnected ends in CLEANED: no step that handle()
\* and _serve() take on the way is refused by the table of transitions.
THEOREM CleanedHolds == Spec => []EndsCleaned
<1>1. Inv => EndsCleaned
  BY DEF Inv, EndsCleaned, RequestOK, Final
<1>2. QED
  BY <1>1, Invariance, PTL

\* A session that was opened is cleaned up on every way out of _serve, and
\* the backend is told to stop exactly for the requests that were stopped.
THEOREM ReleasedHolds == Spec => []BackendReleased
<1>1. ASSUME Inv, NEW r \in Requests
      PROVE  /\ req[r].pc \in Ended => req[r].cleaned = req[r].opened
             /\ ToldOK(req[r])
  <2>1. req[r].pc \in Places /\ RequestOK(req[r])
    BY <1>1, InvParts DEF Records
  <2>2. req[r].pc \in Ended => req[r].cleaned = req[r].opened
    BY <2>1 DEF RequestOK, Ended
  <2>3. "" \notin Stopped
    BY DEF Stopped
  <2>4. Untouched(req[r]) => ToldOK(req[r])
    BY <2>3 DEF Untouched, ToldOK
  <2>5. Served(req[r]) /\ req[r].code = "" => ToldOK(req[r])
    BY <2>3 DEF Served, ToldOK
  <2>6. StoppedOK(req[r]) => ToldOK(req[r])
    BY DEF StoppedOK, ToldOK
  <2>7. FailedOK(req[r]) \/ BrokenOK(req[r]) \/ Final(req[r]) \/ Escaped(req[r]) => ToldOK(req[r])
    BY DEF FailedOK, BrokenOK, Final, Escaped
  <2>8. QED
    BY <2>1, <2>2, <2>4, <2>5, <2>6, <2>7 DEF RequestOK, Places, InServe, Ended
<1>2. Inv => BackendReleased
  BY <1>1 DEF BackendReleased, ToldOK
<1>3. QED
  BY <1>2, Invariance, PTL

\* What a client is shown at the end is what the service records, and a client
\* that stays is never left without an answer, whichever call raised.
THEOREM TruthfulAnswers == Spec => []AnswerTruthful
<1>1. Inv => AnswerTruthful
  BY DEF Inv, AnswerTruthful, RequestOK, Final, Escaped, Ended
<1>2. QED
  BY <1>1, Invariance, PTL

=============================================================================
