------------------------------ MODULE OrderService ------------------------------
(***************************************************************************)
(* The write side of order-service: the orders and order_outbox_events     *)
(* tables, and the service methods that gRPC handlers and Kafka consumers  *)
(* run concurrently against them.                                          *)
(*                                                                         *)
(* A caller is one goroutine (of one or several replicas) inside a service *)
(* method.  A method is cut where another one can interleave: between the  *)
(* read that decides, the read inside the update transaction, and the      *)
(* transaction's commit.  The tables' rows carry what the methods decide   *)
(* on: the status, the cancel reason, the idempotency key and the request  *)
(* (everything ordersMatchForIdempotency compares).                        *)
(***************************************************************************)
EXTENDS Naturals

CONSTANTS Callers,    \* goroutines running a service method
          OrderIDs,   \* values newOrderID can return
          Keys,       \* idempotency keys clients use
          Requests,   \* contents of a CreateOrder request, key aside
          NoKey,      \* no idempotency key (NULL in the table)
          NoOrder,    \* no row with this primary key
          None        \* a CreateOrder answer that names no order

Status == {"PENDING", "AWAITING_PAYMENT", "CONFIRMED", "CANCELLED"}

\* Methods that cancel the order; each writes a cancel reason of its own.
CancellingOps == {"CancelOrder", "MarkInventoryReservationFailed",
                  "MarkPaymentFailed", "MarkPaymentCreationFailed"}

Ops == CancellingOps \cup {"MarkInventoryReserved", "MarkPaymentCaptured"}

Reasons == CancellingOps \cup {""}

OrderRow == [status: Status, reason: Reasons,
             key: Keys \cup {NoKey}, request: Requests]

\* The primary key of an outbox row is its type and order: "outbox-<id>" or
\* "outbox-cancelled-<id>".
OutboxRow == [type: {"order.created", "order.cancelled"},
              id: OrderIDs, reason: Reasons]

ASSUME OrderConstants ==
    /\ NoKey \notin Keys
    /\ NoOrder \notin OrderRow
    /\ None \notin OrderIDs

VARIABLES orders,     \* table orders (with order_items): id -> row
          outbox,     \* table order_outbox_events
          call        \* what each caller is in the middle of, or was answered last

vars == <<orders, outbox, call>>

Idle == [pc |-> "idle"]

\* "insert" to "write" are points inside a method; "created" and "updated" are a
\* finished call with its answer, which the caller keeps until its next call.
Call == {Idle}
    \cup [pc: {"insert", "reread"}, key: Keys \cup {NoKey}, request: Requests]
    \cup [pc: {"begin"}, op: Ops, id: OrderIDs, row: OrderRow]
    \cup [pc: {"write"}, op: Ops, id: OrderIDs, row: OrderRow, existing: Status]
    \cup [pc: {"created"}, key: Keys \cup {NoKey}, request: Requests,
          id: OrderIDs \cup {None}]
    \cup [pc: {"updated"}, op: Ops, id: OrderIDs, status: Status]

Free(c) == call[c].pc \in {"idle", "created", "updated"}

TypeOK ==
    /\ orders \in [OrderIDs -> OrderRow \cup {NoOrder}]
    /\ outbox \subseteq OutboxRow
    /\ call \in [Callers -> Call]

Init ==
    /\ orders = [o \in OrderIDs |-> NoOrder]
    /\ outbox = {}
    /\ call = [c \in Callers |-> Idle]

-----------------------------------------------------------------------------
(* CreateOrder *)

\* The orders GetOrderByIdempotencyKey can return: the column is UNIQUE, and
\* NULL is equal to no key.
GetOrderByIdempotencyKey(k) ==
    {o \in OrderIDs : orders[o] # NoOrder /\ orders[o].key = k /\ k # NoKey}

\* Mutant: the content of the request is not compared.
MatchAlways(existing, request) == TRUE

ordersMatchForIdempotency(existing, request) == existing.request = request

\* The order already stored under the key answers the call, if it was created
\* by the same request; otherwise the answer is ErrIdempotencyKeyConflict.
AnswerExisting(k, r, o) ==
    [pc |-> "created", key |-> k, request |-> r,
     id |-> IF ordersMatchForIdempotency(orders[o], r) THEN o ELSE None]

\* Normalisation, validation and the first look-up of the key.
CreateOrder(c, k, r) ==
    /\ Free(c)
    /\ \/ \E o \in GetOrderByIdempotencyKey(k) :
             call' = [call EXCEPT ![c] = AnswerExisting(k, r, o)]
       \/ /\ GetOrderByIdempotencyKey(k) = {}
          /\ call' = [call EXCEPT ![c] = [pc |-> "insert", key |-> k, request |-> r]]
    /\ UNCHANGED <<orders, outbox>>

\* Mutant: the status is left at the zero value of its enum.
NewOrderUnspecified(k, r) ==
    [status |-> "UNSPECIFIED", reason |-> "", key |-> k, request |-> r]

\* The row CreateOrder inserts.
NewOrder(k, r) == [status |-> "PENDING", reason |-> "", key |-> k, request |-> r]

\* insertOrderCreatedOutboxEvent
CreatedEvent(o) == [type |-> "order.created", id |-> o, reason |-> ""]

\* Mutant: the column has no UNIQUE constraint.
KeyNotUnique(k) == TRUE

\* The UNIQUE constraint on idempotency_key admits a row with key k.
KeyFree(k) == GetOrderByIdempotencyKey(k) = {}

\* The transaction that inserts the order, its items and its order.created
\* event.  The client may never see the answer to a commit that succeeded.
InsertOrder(c) ==
    /\ call[c].pc = "insert"
    /\ \E o \in OrderIDs :
          /\ orders[o] = NoOrder
          /\ KeyFree(call[c].key)
          /\ orders' = [orders EXCEPT ![o] = NewOrder(call[c].key, call[c].request)]
          /\ outbox' = outbox \cup {CreatedEvent(o)}
          /\ \E answer \in {Idle, [pc |-> "created", key |-> call[c].key,
                                   request |-> call[c].request, id |-> o]} :
                call' = [call EXCEPT ![c] = answer]

\* Mutant: every unique violation is taken for the key's.
InsertAnyExists(c) ==
    /\ call[c].pc = "insert"
    /\ \E o \in OrderIDs : orders[o] # NoOrder
    /\ call' = [call EXCEPT ![c].pc = "reread"]
    /\ UNCHANGED <<orders, outbox>>

\* mapCreateOrderError: the key was taken between the look-up and the insert.
\* A row that violates both constraints may be reported as either.
InsertKeyExists(c) ==
    /\ call[c].pc = "insert"
    /\ GetOrderByIdempotencyKey(call[c].key) # {}
    /\ call' = [call EXCEPT ![c].pc = "reread"]
    /\ UNCHANGED <<orders, outbox>>

\* mapCreateOrderError: two calls drew the same UnixNano identifier.
InsertIDExists(c) ==
    /\ call[c].pc = "insert"
    /\ \E o \in OrderIDs : orders[o] # NoOrder
    /\ call' = [call EXCEPT ![c] = Idle]
    /\ UNCHANGED <<orders, outbox>>

\* The second look-up, after the unique key was found taken.
RereadOrder(c) ==
    /\ call[c].pc = "reread"
    /\ \E o \in GetOrderByIdempotencyKey(call[c].key) :
          call' = [call EXCEPT ![c] = AnswerExisting(call[c].key, call[c].request, o)]
    /\ UNCHANGED <<orders, outbox>>

-----------------------------------------------------------------------------
(* Status changes *)

\* The method answers with the order as it read it and writes nothing.
AnswerUnchanged(c, op, o) ==
    /\ call' = [call EXCEPT ![c] =
           [pc |-> "updated", op |-> op, id |-> o, status |-> orders[o].status]]
    /\ UNCHANGED <<orders, outbox>>

\* Mutant: the update parameters leave the idempotency key out.
UpdatedRowNoKey(row, op, to) ==
    [row EXCEPT !.status = to, !.key = NoKey,
                !.reason = IF to = "CANCELLED" THEN op ELSE ""]

\* The row read, its status and reason replaced (cancelOrderWithReason when the
\* new status is CANCELLED).
UpdatedRow(row, op, to) ==
    [row EXCEPT !.status = to, !.reason = IF to = "CANCELLED" THEN op ELSE ""]

\* The method goes on to UpdateOrder with the row it read and changed.
PrepareUpdate(c, op, o, to) ==
    /\ call' = [call EXCEPT ![c] =
           [pc |-> "begin", op |-> op, id |-> o, row |-> UpdatedRow(orders[o], op, to)]]
    /\ UNCHANGED <<orders, outbox>>

\* Read the order, and update it if its status is one of from.
transitionOrder(c, op, o, from, to) ==
    /\ Free(c)
    /\ orders[o] # NoOrder
    /\ \/ orders[o].status \in from /\ PrepareUpdate(c, op, o, to)
       \/ orders[o].status \notin from /\ AnswerUnchanged(c, op, o)

canCancelOrder(s) == s \in {"PENDING", "AWAITING_PAYMENT", "CONFIRMED"}

CancelOrder(c, o) ==
    /\ Free(c)
    /\ orders[o] # NoOrder
    /\ \/ orders[o].status = "CANCELLED" /\ AnswerUnchanged(c, "CancelOrder", o)
       \/ /\ orders[o].status # "CANCELLED"
          /\ canCancelOrder(orders[o].status)
          /\ PrepareUpdate(c, "CancelOrder", o, "CANCELLED")

MarkInventoryReserved(c, o) ==
    transitionOrder(c, "MarkInventoryReserved", o, {"PENDING"}, "AWAITING_PAYMENT")

MarkInventoryReservationFailed(c, o) ==
    transitionOrder(c, "MarkInventoryReservationFailed", o,
                    {"PENDING", "AWAITING_PAYMENT"}, "CANCELLED")

MarkPaymentCaptured(c, o) ==
    transitionOrder(c, "MarkPaymentCaptured", o,
                    {"PENDING", "AWAITING_PAYMENT"}, "CONFIRMED")

MarkPaymentFailed(c, o) ==
    transitionOrder(c, "MarkPaymentFailed", o,
                    {"PENDING", "AWAITING_PAYMENT"}, "CANCELLED")

MarkPaymentCreationFailed(c, o) ==
    transitionOrder(c, "MarkPaymentCreationFailed", o,
                    {"PENDING", "AWAITING_PAYMENT"}, "CANCELLED")

\* UpdateOrder: BEGIN and the unlocked read of the current row.
BeginUpdate(c) ==
    /\ call[c].pc = "begin"
    /\ call' = [call EXCEPT ![c] =
           [pc |-> "write", op |-> call[c].op, id |-> call[c].id,
            row |-> call[c].row, existing |-> orders[call[c].id].status]]
    /\ UNCHANGED <<orders, outbox>>

\* Mutant: the cancellation of a CONFIRMED order is not announced.
announcesEarlyCancel(existing, row) ==
    existing \in {"PENDING", "AWAITING_PAYMENT"} /\ row.status = "CANCELLED"

\* An order.cancelled event is written when the update makes the order CANCELLED
\* and the row read in the transaction was not.
announcesCancel(existing, row) ==
    existing # row.status /\ row.status = "CANCELLED"

HasCancelEvent(o) == \E e \in outbox : e.type = "order.cancelled" /\ e.id = o

CancelledEvent(o, row) ==
    [type |-> "order.cancelled", id |-> o, reason |-> row.reason]

\* Mutant: the outbox has no primary key, so a second event is inserted.
CommitUpdateTwice(c) ==
    /\ call[c].pc = "write"
    /\ outbox' = IF announcesCancel(call[c].existing, call[c].row)
                 THEN outbox \cup {CancelledEvent(call[c].id, call[c].row)}
                 ELSE outbox
    /\ orders' = [orders EXCEPT ![call[c].id] = call[c].row]
    /\ call' = [call EXCEPT ![c] = [pc |-> "updated", op |-> call[c].op,
                     id |-> call[c].id, status |-> call[c].row.status]]

\* UpdateOrder: the UPDATE of the whole row, the items, the event and COMMIT.
\* The row lock the UPDATE takes makes them one step for the other callers.
CommitUpdate(c) ==
    /\ call[c].pc = "write"
    /\ \/ /\ announcesCancel(call[c].existing, call[c].row)
          /\ ~HasCancelEvent(call[c].id)
          /\ outbox' = outbox \cup {CancelledEvent(call[c].id, call[c].row)}
       \/ /\ ~announcesCancel(call[c].existing, call[c].row)
          /\ UNCHANGED outbox
    /\ orders' = [orders EXCEPT ![call[c].id] = call[c].row]
    /\ \E answer \in {Idle, [pc |-> "updated", op |-> call[c].op, id |-> call[c].id,
                             status |-> call[c].row.status]} :
          call' = [call EXCEPT ![c] = answer]

\* The event's primary key is taken: the transaction is rolled back and the
\* method returns the error.
RollbackUpdate(c) ==
    /\ call[c].pc = "write"
    /\ announcesCancel(call[c].existing, call[c].row)
    /\ HasCancelEvent(call[c].id)
    /\ call' = [call EXCEPT ![c] = Idle]
    /\ UNCHANGED <<orders, outbox>>

\* A database error, an expired context or a crash ends the method; an open
\* transaction is rolled back.
Abort(c) ==
    /\ ~Free(c)
    /\ call' = [call EXCEPT ![c] = Idle]
    /\ UNCHANGED <<orders, outbox>>

Next ==
    \E c \in Callers :
        \/ \E k \in Keys \cup {NoKey}, r \in Requests : CreateOrder(c, k, r)
        \/ InsertOrder(c)
        \/ InsertKeyExists(c)
        \/ InsertIDExists(c)
        \/ RereadOrder(c)
        \/ \E o \in OrderIDs :
              \/ CancelOrder(c, o)
              \/ MarkInventoryReserved(c, o)
              \/ MarkInventoryReservationFailed(c, o)
              \/ MarkPaymentCaptured(c, o)
              \/ MarkPaymentFailed(c, o)
              \/ MarkPaymentCreationFailed(c, o)
        \/ BeginUpdate(c)
        \/ CommitUpdate(c)
        \/ RollbackUpdate(c)
        \/ Abort(c)

Spec == Init /\ [][Next]_vars

-----------------------------------------------------------------------------
(* Properties *)

\* UpdateOrder inserts order.cancelled only when the status it read inside the
\* transaction differs from CANCELLED.  That read takes no lock, so this is what
\* could go wrong: an order is CANCELLED and nobody is told, and its stock is
\* never released.  Every CANCELLED order has its event in the outbox.
CancelledHasEvent ==
    \A o \in OrderIDs :
        (orders[o] # NoOrder /\ orders[o].status = "CANCELLED") => HasCancelEvent(o)

\* Whoever was told that an order is CANCELLED (by CancelOrder, or by one of the
\* Mark methods before its Kafka message is acknowledged) can rely on the
\* order.cancelled event, even if a stale UPDATE has overwritten the status.
AnsweredCancelHasEvent ==
    \A c \in Callers :
        (call[c].pc = "updated" /\ call[c].status = "CANCELLED") => HasCancelEvent(call[c].id)

\* The outbox and the orders table agree (both are written in one transaction):
\* an order has exactly one order.created row, an event row names a stored
\* order, and no order is announced as cancelled twice.
OutboxConsistent ==
    /\ \A o \in OrderIDs : orders[o] # NoOrder <=> CreatedEvent(o) \in outbox
    /\ \A e \in outbox : orders[e.id] # NoOrder
    /\ \A e, f \in outbox : (e.type = f.type /\ e.id = f.id) => e = f

\* An idempotency key is bound to one order, whatever calls race for it.
KeyNamesOneOrder ==
    \A k \in Keys : \A o, p \in GetOrderByIdempotencyKey(k) : o = p

\* The second look-up after a unique violation always finds the order, so the
\* ErrOrderNotFound branch of CreateOrder's recovery is dead.
RereadFinds(c) ==
    call[c].pc = "reread" => GetOrderByIdempotencyKey(call[c].key) # {}

\* What CreateOrder answers stays true: an answer that names an order names the
\* one stored under the key (so all answers to one key name the same order), and
\* it was created by the same request; a conflict answer means that the key
\* belongs to another request.  A call that lost the race for its key gets one of
\* these answers and no third.
CreateAnswersHold ==
    \A c \in Callers :
        /\ RereadFinds(c)
        /\ call[c].pc = "created" =>
              IF call[c].id = None
              THEN \E o \in GetOrderByIdempotencyKey(call[c].key) :
                      orders[o].request # call[c].request
              ELSE /\ orders[call[c].id] # NoOrder
                   /\ orders[call[c].id].key = call[c].key
                   /\ orders[call[c].id].request = call[c].request

\* UpdateOrder writes the whole row from a copy read earlier; whatever it
\* overwrites, it is never another request or another key, and no order or
\* event disappears.
OrderIdentityKept ==
    [][/\ \A o \in OrderIDs : orders[o] # NoOrder =>
             /\ orders'[o] # NoOrder
             /\ orders'[o].key = orders[o].key
             /\ orders'[o].request = orders[o].request
       /\ outbox \subseteq outbox']_vars

\* A caller on its way to UPDATE targets an order that exists, and the copy it
\* carries agrees with the table on everything no method changes.
RowIsCopy ==
    \A c \in Callers : call[c].pc \in {"begin", "write"} =>
        /\ orders[call[c].id] # NoOrder
        /\ call[c].row.key = orders[call[c].id].key
        /\ call[c].row.request = orders[call[c].id].request

\* A transaction that read CANCELLED, and so will not announce a cancellation, can
\* count on the event, even if the order is no longer CANCELLED when it commits.
WriteKnowsEvent ==
    \A c \in Callers :
        (call[c].pc = "write" /\ call[c].existing = "CANCELLED") => HasCancelEvent(call[c].id)

\* The inductive invariant behind the cancellation properties.
CancelInv ==
    /\ TypeOK
    /\ RowIsCopy
    /\ WriteKnowsEvent
    /\ CancelledHasEvent
    /\ AnsweredCancelHasEvent

-----------------------------------------------------------------------------
(* What the README promises, and a stale UPDATE breaks *)

\* Caller c was answered by method op that its order is in status s.
Answered(c, op, s) ==
    call[c].pc = "updated" /\ call[c].op = op /\ call[c].status = s

\* README: "`payment.failed` cancels the order".  Once the consumer's method has
\* answered that the order is CANCELLED, it is, and stays so.
PaymentFailedCancels ==
    \A c \in Callers : Answered(c, "MarkPaymentFailed", "CANCELLED") =>
        orders[call[c].id].status = "CANCELLED"

=============================================================================
