----------------------------- MODULE GatewayCancel -----------------------------
(***************************************************************************)
(* The idempotent order cancellation of gateway-service: HTTP requests     *)
(* that carry the same X-Idempotency-Key share one call to order-service.  *)
(* The first one leads: it leaves a record in an in-memory map, performs   *)
(* the call and closes the record; the others wait for that and copy the   *)
(* answer.  A record is named by the request that leads it.  Names shared  *)
(* by most specifications begin with Cancel here, so that GatewayProofs    *)
(* can extend this module together with Checkout.                          *)
(***************************************************************************)

CONSTANTS Requests,   \* HTTP requests, retries of a client included
          Keys,       \* idempotency keys
          NoHeader,   \* the header is empty
          KeyOf,      \* KeyOf[r]: the request's key, or NoHeader
          PrintOf,    \* PrintOf[r]: its fingerprint (order and reason)
          NoRecord    \* no record

ASSUME GatewayConstants ==
    /\ NoHeader \notin Keys
    /\ NoRecord \notin Requests
    /\ DOMAIN KeyOf = Requests
    /\ \A r \in Requests : KeyOf[r] \in Keys \cup {NoHeader}
    /\ DOMAIN PrintOf = Requests

VARIABLES cancelIdempotency,   \* the map: key -> record
          record,   \* by leader: "open", or closed with a "result" or an "error"
          pc,       \* where in CancelOrder the request is
          follows,  \* the record a request waits for
          answer    \* what performCancelOrder, or CancelOrder, returned to it

cancelVars == <<cancelIdempotency, record, pc, follows, answer>>

TypeOK ==
    /\ cancelIdempotency \in [Keys -> Requests \cup {NoRecord}]
    /\ record \in [Requests -> {"open", "result", "error"}]
    /\ pc \in [Requests -> {"start", "perform", "finish", "wait", "answered", "lost"}]
    /\ follows \in [Requests -> Requests \cup {NoRecord}]
    /\ answer \in [Requests -> {"none", "result", "error", "conflict"}]

CancelInit ==
    /\ cancelIdempotency = [k \in Keys |-> NoRecord]
    /\ record = [r \in Requests |-> "open"]
    /\ pc = [r \in Requests |-> "start"]
    /\ follows = [r \in Requests |-> NoRecord]
    /\ answer = [r \in Requests |-> "none"]

-----------------------------------------------------------------------------

\* A request without a key is not recorded.
PerformWithoutKey(r) ==
    /\ pc[r] = "start"
    /\ KeyOf[r] = NoHeader
    /\ pc' = [pc EXCEPT ![r] = "perform"]
    /\ UNCHANGED <<cancelIdempotency, record, follows, answer>>

\* Mutant: a record that is still open is overwritten by the next request.
LeadAlone(r) ==
    /\ pc[r] = "start"
    /\ KeyOf[r] # NoHeader
    /\ cancelIdempotency[KeyOf[r]] # NoRecord => record[cancelIdempotency[KeyOf[r]]] = "open"
    /\ cancelIdempotency' = [cancelIdempotency EXCEPT ![KeyOf[r]] = r]
    /\ pc' = [pc EXCEPT ![r] = "perform"]
    /\ UNCHANGED <<record, follows, answer>>

\* beginCancelIdempotency, first request of its key: leave a record.
Lead(r) ==
    /\ pc[r] = "start"
    /\ KeyOf[r] # NoHeader
    /\ cancelIdempotency[KeyOf[r]] = NoRecord
    /\ cancelIdempotency' = [cancelIdempotency EXCEPT ![KeyOf[r]] = r]
    /\ pc' = [pc EXCEPT ![r] = "perform"]
    /\ UNCHANGED <<record, follows, answer>>

\* Mutant: the fingerprints are not compared.
SameKey(r, lead) == lead # NoRecord

\* The key is recorded for the same cancellation.
SameRequest(r, lead) == lead # NoRecord /\ PrintOf[lead] = PrintOf[r]

\* beginCancelIdempotency, later request: wait for the record.
Follow(r) ==
    /\ pc[r] = "start"
    /\ KeyOf[r] # NoHeader
    /\ SameRequest(r, cancelIdempotency[KeyOf[r]])
    /\ follows' = [follows EXCEPT ![r] = cancelIdempotency[KeyOf[r]]]
    /\ pc' = [pc EXCEPT ![r] = "wait"]
    /\ UNCHANGED <<cancelIdempotency, record, answer>>

\* beginCancelIdempotency: ErrIdempotencyConflict.
Conflict(r) ==
    /\ pc[r] = "start"
    /\ KeyOf[r] # NoHeader
    /\ cancelIdempotency[KeyOf[r]] # NoRecord
    /\ ~SameRequest(r, cancelIdempotency[KeyOf[r]])
    /\ answer' = [answer EXCEPT ![r] = "conflict"]
    /\ pc' = [pc EXCEPT ![r] = "answered"]
    /\ UNCHANGED <<cancelIdempotency, record, follows>>

\* performCancelOrder returns: the order as cancelled, or an error of
\* order-service, the timeout, or the disconnection of this request's client.
performCancelOrder(r) ==
    /\ pc[r] = "perform"
    /\ \E a \in {"result", "error"} : answer' = [answer EXCEPT ![r] = a]
    /\ pc' = [pc EXCEPT ![r] = IF KeyOf[r] = NoHeader THEN "answered" ELSE "finish"]
    /\ UNCHANGED <<cancelIdempotency, record, follows>>

\* Mutants: the record is always kept; it is always dropped; it is not closed
\* when the call failed.
FinishKeeping(r) ==
    /\ pc[r] = "finish"
    /\ record' = [record EXCEPT ![r] = answer[r]]
    /\ pc' = [pc EXCEPT ![r] = "answered"]
    /\ UNCHANGED <<cancelIdempotency, follows, answer>>

FinishDropping(r) ==
    /\ pc[r] = "finish"
    /\ record' = [record EXCEPT ![r] = answer[r]]
    /\ cancelIdempotency' = [cancelIdempotency EXCEPT ![KeyOf[r]] = NoRecord]
    /\ pc' = [pc EXCEPT ![r] = "answered"]
    /\ UNCHANGED <<follows, answer>>

FinishWithoutClose(r) ==
    /\ pc[r] = "finish"
    /\ record' = IF answer[r] = "error" THEN record ELSE [record EXCEPT ![r] = answer[r]]
    /\ cancelIdempotency' = IF answer[r] = "error"
                            THEN [cancelIdempotency EXCEPT ![KeyOf[r]] = NoRecord]
                            ELSE cancelIdempotency
    /\ pc' = [pc EXCEPT ![r] = "answered"]
    /\ UNCHANGED <<follows, answer>>

\* finishCancelIdempotency: close the record, and after an error drop it from the
\* map so that the client may retry.
finishCancelIdempotency(r) ==
    /\ pc[r] = "finish"
    /\ record' = [record EXCEPT ![r] = answer[r]]
    /\ cancelIdempotency' = IF answer[r] = "error"
                            THEN [cancelIdempotency EXCEPT ![KeyOf[r]] = NoRecord]
                            ELSE cancelIdempotency
    /\ pc' = [pc EXCEPT ![r] = "answered"]
    /\ UNCHANGED <<follows, answer>>

\* <-record.done
Wake(r) ==
    /\ pc[r] = "wait"
    /\ record[follows[r]] # "open"
    /\ answer' = [answer EXCEPT ![r] = record[follows[r]]]
    /\ pc' = [pc EXCEPT ![r] = "answered"]
    /\ UNCHANGED <<cancelIdempotency, record, follows>>

\* The gateway restarts: the map and every request under way are gone.
Restart ==
    /\ \E r \in Requests : pc[r] \notin {"start", "lost"}
    /\ cancelIdempotency' = [k \in Keys |-> NoRecord]
    /\ record' = [r \in Requests |-> "open"]
    /\ pc' = [r \in Requests |-> IF pc[r] = "start" THEN "start" ELSE "lost"]
    /\ follows' = [r \in Requests |-> NoRecord]
    /\ UNCHANGED answer

CancelNext ==
    \/ \E r \in Requests :
          \/ PerformWithoutKey(r)
          \/ Lead(r)
          \/ Follow(r)
          \/ Conflict(r)
          \/ performCancelOrder(r)
          \/ finishCancelIdempotency(r)
          \/ Wake(r)
    \/ Restart

CancelSpec == CancelInit /\ [][CancelNext]_cancelVars

\* performCancelOrder returns after checkoutTimeout at the latest, and a goroutine
\* that can run does.
FairCancelSpec ==
    /\ CancelSpec
    /\ \A r \in Requests : /\ WF_cancelVars(performCancelOrder(r))
                           /\ WF_cancelVars(finishCancelIdempotency(r))
                           /\ WF_cancelVars(Wake(r))

-----------------------------------------------------------------------------
(* Properties *)

\* Two requests with one key are never at order-service together, although the
\* mutex is not held during the call and a failed leader gives its key free.
SingleFlight ==
    \A r, s \in Requests :
        /\ {pc[r], pc[s]} \subseteq {"perform", "finish"}
        /\ KeyOf[r] = KeyOf[s] /\ KeyOf[r] # NoHeader
        => r = s

\* While the gateway runs, a key is used for one successful cancellation, and
\* whoever copies the result of another request asked for the same cancellation.
OneResultPerKey ==
    \A r, s \in Requests :
        /\ record[r] = "result" /\ record[s] = "result" /\ KeyOf[r] = KeyOf[s] => r = s
        /\ follows[r] = s => PrintOf[s] = PrintOf[r] /\ KeyOf[s] = KeyOf[r]

\* A failure is not remembered: a key in the map belongs to a call under way or
\* to one that succeeded, so a retry after an error reaches order-service.
ErrorIsRetried ==
    \A k \in Keys : cancelIdempotency[k] # NoRecord =>
        \/ record[cancelIdempotency[k]] = "result"
        \/ pc[cancelIdempotency[k]] \in {"perform", "finish"}

\* Nobody waits for ever on record.done, which has no timeout of its own: the
\* leader closes it whatever its call returns.
WaiterIsAnswered ==
    \A r \in Requests : pc[r] = "wait" ~> pc[r] \in {"answered", "lost"}

=============================================================================
