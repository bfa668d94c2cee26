--------------------------- MODULE OutboxDispatcher ---------------------------
(***************************************************************************)
(* The outbox dispatchers of order-service: one goroutine per replica that *)
(* claims a batch of order_outbox_events rows, publishes each to Kafka and *)
(* records the outcome.                                                    *)
(*                                                                         *)
(* A row is named by its rank in created_at order, the order of the claim. *)
(* A claim's locked_at is a lease: after LockTimeout the row may be        *)
(* claimed again whether or not its holder is still at work, and no later  *)
(* statement checks who holds it.  Ten rows of five seconds each outlast   *)
(* the default 30 s lease, so a lease may expire at any time.              *)
(***************************************************************************)
EXTENDS Naturals, FiniteSets

CONSTANTS Dispatchers,
          Events,      \* outbox rows, by rank in created_at order
          BatchSize,   \* LIMIT of the claim
          Rejected     \* events the broker never accepts (too large, say)

ASSUME OutboxConstants ==
    /\ Events \subseteq Nat
    /\ BatchSize \in Nat \ {0}
    /\ Rejected \subseteq Events

VARIABLES stored,      \* rows that exist
          published,   \* rows whose published_at is set
          lock,        \* locked_at: "free" (NULL), "held", or "expired"
          kafka,       \* events the topics hold (once or more often)
          batch,       \* rows each dispatcher has claimed and not yet tried
          pc,          \* where in the loop over its batch it is
          cur          \* the row it is about to mark or release, 0 if none

rowVars == <<stored, published, lock>>
vars == <<stored, published, lock, kafka, batch, pc, cur>>

TypeOK ==
    /\ stored \subseteq Events
    /\ published \subseteq stored
    /\ lock \in [Events -> {"free", "held", "expired"}]
    /\ kafka \subseteq stored
    /\ batch \in [Dispatchers -> SUBSET stored]
    /\ pc \in [Dispatchers -> {"next", "mark", "release"}]
    /\ cur \in [Dispatchers -> Events \cup {0}]

Init ==
    /\ stored = {}
    /\ published = {}
    /\ lock = [e \in Events |-> "free"]
    /\ kafka = {}
    /\ batch = [d \in Dispatchers |-> {}]
    /\ pc = [d \in Dispatchers |-> "next"]
    /\ cur = [d \in Dispatchers |-> 0]

-----------------------------------------------------------------------------

\* A transaction of order-service commits an event row (OrderService).
\* created_at comes from the replicas' clocks, so commits need not follow it.
InsertEvent(e) ==
    /\ e \notin stored
    /\ stored' = stored \cup {e}
    /\ UNCHANGED <<published, lock, kafka, batch, pc, cur>>

\* locked_at falls behind claimedAt - lockTimeout.
ExpireLock(e) ==
    /\ lock[e] = "held"
    /\ lock' = [lock EXCEPT ![e] = "expired"]
    /\ UNCHANGED <<stored, published, kafka, batch, pc, cur>>

\* Mutants: the claim does not ask whether a row is published; it never takes over an
\* expired lease.
ClaimablePublished == {e \in stored : lock[e] # "held"}

ClaimableFree == {e \in stored \ published : lock[e] = "free"}

\* The WHERE clause of ClaimPendingOrderOutboxEvents.
Claimable == {e \in stored \ published : lock[e] # "held"}

\* T is what ORDER BY created_at LIMIT BatchSize leaves of S.
Oldest(T, S) ==
    /\ Cardinality(T) = IF Cardinality(S) < BatchSize THEN Cardinality(S) ELSE BatchSize
    /\ \A t \in T, u \in S \ T : t < u

\* Rows another dispatcher's MARK or RELEASE statement may have locked when the
\* claim runs; FOR UPDATE SKIP LOCKED passes over them.
RowLocked(d) == {cur[x] : x \in {y \in Dispatchers \ {d} : pc[y] # "next"}}

\* dispatchOnce: the claim.  RETURNING gives the rows in no particular order.
Claim(d) ==
    /\ pc[d] = "next"
    /\ batch[d] = {}
    /\ \E skipped \in SUBSET RowLocked(d) :
       \E T \in SUBSET (Claimable \ skipped) :
          /\ Oldest(T, Claimable \ skipped)
          /\ lock' = [e \in Events |-> IF e \in T THEN "held" ELSE lock[e]]
          /\ batch' = [batch EXCEPT ![d] = T]
    /\ UNCHANGED <<stored, published, kafka, pc, cur>>

\* The loop takes the next row of the batch.
TakeRow(d, e, next) ==
    /\ pc[d] = "next"
    /\ e \in batch[d]
    /\ batch' = [batch EXCEPT ![d] = @ \ {e}]
    /\ cur' = [cur EXCEPT ![d] = e]
    /\ pc' = [pc EXCEPT ![d] = next]
    /\ UNCHANGED rowVars

\* Publish returns after all replicas acknowledged.
PublishAcked(d, e) ==
    /\ e \notin Rejected
    /\ TakeRow(d, e, "mark")
    /\ kafka' = kafka \cup {e}

\* Mutant: the error of Publish is dropped.
PublishUnchecked(d, e) ==
    /\ TakeRow(d, e, "mark")
    /\ \/ kafka' = kafka
       \/ e \notin Rejected /\ kafka' = kafka \cup {e}

\* Publish fails or times out; a write that timed out may still have arrived.
PublishFailed(d, e) ==
    /\ TakeRow(d, e, "release")
    /\ \/ kafka' = kafka
       \/ e \notin Rejected /\ kafka' = kafka \cup {e}

\* The loop is done with its row.
NextRow(d) ==
    /\ pc' = [pc EXCEPT ![d] = "next"]
    /\ cur' = [cur EXCEPT ![d] = 0]

\* MarkOrderOutboxEventPublished
MarkPublished(d, e) ==
    /\ pc[d] = "mark"
    /\ e = cur[d]
    /\ published' = published \cup {e}
    /\ lock' = [lock EXCEPT ![e] = "free"]
    /\ NextRow(d)
    /\ UNCHANGED <<stored, kafka, batch>>

\* ReleaseOrderOutboxEvent
ReleaseEvent(d, e) ==
    /\ pc[d] = "release"
    /\ e = cur[d]
    /\ lock' = [lock EXCEPT ![e] = "free"]
    /\ NextRow(d)
    /\ UNCHANGED <<stored, published, kafka, batch>>

\* The statement fails: it is logged and the loop continues.
StatementFailed(d) ==
    /\ pc[d] \in {"mark", "release"}
    /\ NextRow(d)
    /\ UNCHANGED <<stored, published, lock, kafka, batch>>

\* The process stops and a new one starts; its claims stay locked.
Crash(d) ==
    /\ pc[d] # "next" \/ batch[d] # {}
    /\ batch' = [batch EXCEPT ![d] = {}]
    /\ NextRow(d)
    /\ UNCHANGED <<stored, published, lock, kafka>>

Next ==
    \/ \E e \in Events : InsertEvent(e) \/ ExpireLock(e)
    \/ \E d \in Dispatchers :
          \/ Claim(d)
          \/ \E e \in Events :
                \/ PublishAcked(d, e)
                \/ PublishFailed(d, e)
                \/ MarkPublished(d, e)
                \/ ReleaseEvent(d, e)
          \/ StatementFailed(d)
          \/ Crash(d)

Spec == Init /\ [][Next]_vars

\* The ticker fires, time passes, and a dispatcher does not stop in the middle of
\* its loop for ever.  Kafka and Postgres may fail any number of times, but not
\* every time: a publish of an acceptable event, or a statement, that is tried
\* again and again succeeds at last.
Fairness ==
    /\ \A e \in Events : WF_vars(ExpireLock(e))
    /\ \A d \in Dispatchers :
          /\ WF_vars(Claim(d))
          /\ WF_vars(\E e \in Events : PublishAcked(d, e) \/ PublishFailed(d, e))
          /\ WF_vars(\E e \in Events : ReleaseEvent(d, e))
    /\ \A e \in Events :
          /\ SF_vars(\E d \in Dispatchers : PublishAcked(d, e))
          /\ SF_vars(\E d \in Dispatchers : MarkPublished(d, e))

FairSpec == Spec /\ Fairness

-----------------------------------------------------------------------------
(* Properties *)

\* A row is marked published only if its event is in Kafka, whichever dispatcher
\* publishes, marks, releases or crashes in between: the outbox loses nothing.
PublishedIsDelivered == published \subseteq kafka

\* Release and Claim by a dispatcher that lost its lease never put a published
\* row back to work: a row once published is not claimed again.
PublishedStaysDone ==
    [][/\ published \subseteq published'
       /\ \A d \in Dispatchers : (batch'[d] \ batch[d]) \cap published = {}]_vars

\* The dispatchers implement an at-least-once relay.
R == INSTANCE EventRelay WITH delivered <- kafka, confirmed <- published

SafeRelay == R!SafeRelay

\* "Kafka delivery is handled asynchronously by the outbox dispatcher": every
\* stored event the broker accepts reaches Kafka and is marked, although up to
\* BatchSize - 1 older rows fail for ever and are claimed first every time.
RelayFair == R!Relay

=============================================================================
