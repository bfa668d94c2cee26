---------------------------------- MODULE Saga ----------------------------------
(***************************************************************************)
(* order-service, inventory-service and payment-service joined by their    *)
(* events: an order is placed, its stock reserved, its payment created and *)
(* decided by a client, and the order follows.  The services are the       *)
(* modules OrderService, Inventory and Payment; this module says which     *)
(* event lets which handler start.                                         *)
(*                                                                         *)
(* An event is written once and stays; the order in which the topics are   *)
(* read is free, as they have a consumer each.  Each consumer of           *)
(* order-service is one of its callers.  A second event with the same      *)
(* content but another id (the publishers draw it from the clock), a mark  *)
(* that expired in Redis and a stop before the commit all make a consumer  *)
(* of order-service handle an event again (RefetchEvent).  Payments are    *)
(* created by the consumer only, as the gateway has no route for it, and   *)
(* decided by calls that may overlap.                                      *)
(***************************************************************************)
EXTENDS Naturals, Sequences

CONSTANTS Orders, Products, Items, Total,   \* as in Inventory
          PaymentCallers,                   \* clients that capture, fail or cancel payments
          NoOrder, NoPayment, NoKey, None,
          MaxFaults                         \* bound on crashes, failed calls and replays

\* The topics order-service consumes.
Topics == {"inventory.reserved", "inventory.reservation_failed",
           "payment.captured", "payment.failed", "payment.creation_failed"}

VARIABLES orders, outbox, ocall,            \* OrderService
          mark,     \* where each consumer of order-service is with its event
          lost,     \* history: an update overwrote a status its method had not read
          available, reserved, reservation, cpc, item, outcome, xpc, listed, overtaken,
          iprocessed,                       \* Inventory
          payments, events, kpc, pprocessed, pcall,   \* Payment
          revised,  \* history: orders whose payment was decided, and then decided
                    \* otherwise by a call that had read PENDING before
          faults

orderVars == <<orders, outbox, ocall, mark, lost>>
inventoryVars == <<available, reserved, reservation, cpc, item, outcome, xpc, listed,
                   overtaken, iprocessed>>
paymentVars == <<payments, events, kpc, pprocessed, pcall, revised>>
vars == <<orderVars, inventoryVars, paymentVars, faults>>

O == INSTANCE OrderService
        WITH Callers <- Topics \cup {"client"}, OrderIDs <- Orders, Keys <- {},
             Requests <- {"request"}, call <- ocall

I == INSTANCE Inventory WITH processed <- iprocessed

P == INSTANCE Payment WITH Callers <- PaymentCallers, call <- pcall, processed <- pprocessed

ASSUME SagaConstants ==
    /\ O!OrderConstants
    /\ I!InventoryConstants
    /\ P!PaymentConstants

\* The orders have been placed (CreateOrder is the business of OrderService).
Init ==
    /\ orders = [o \in Orders |-> O!NewOrder(NoKey, "request")]
    /\ outbox = {O!CreatedEvent(o) : o \in Orders}
    /\ ocall = [c \in Topics \cup {"client"} |-> O!Idle]
    /\ I!Init /\ P!Init
    /\ mark = [t \in Topics |-> [o \in Orders |-> "wait"]]
    /\ lost = FALSE
    /\ revised = {}

Fault == faults < MaxFaults /\ faults' = faults + 1

-----------------------------------------------------------------------------
(* order-service *)

\* The event of topic t about order o has been published.
Published(t, o) ==
    CASE t = "inventory.reserved" -> "reserved" \in outcome[o]
      [] t = "inventory.reservation_failed" -> "reservation_failed" \in outcome[o]
      [] OTHER -> t \in events[o]

\* Mutant: payment.captured is expected after inventory.reserved was handled.
CapturedInOrderOnly(c, o) ==
    O!transitionOrder(c, "MarkPaymentCaptured", o, {"AWAITING_PAYMENT"}, "CONFIRMED")

MarkPaymentCaptured(c, o) == O!MarkPaymentCaptured(c, o)

\* The method that the consumer of topic t calls.
HandleEvent(t, o) ==
    \/ t = "inventory.reserved" /\ O!MarkInventoryReserved(t, o)
    \/ t = "inventory.reservation_failed" /\ O!MarkInventoryReservationFailed(t, o)
    \/ t = "payment.captured" /\ MarkPaymentCaptured(t, o)
    \/ t = "payment.failed" /\ O!MarkPaymentFailed(t, o)
    \/ t = "payment.creation_failed" /\ O!MarkPaymentCreationFailed(t, o)

\* The service is done with the event of c (order o) when its method has answered;
\* after an error it meets the event again.
NextMark(c, o) ==
    [mark EXCEPT ![c][o] = CASE ocall'[c].pc = "updated" -> "done"
                             [] ocall'[c].pc = "idle" -> "wait"
                             [] OTHER -> "call"]

\* A consumer fetches an event and begins to handle it.
ConsumeEvent(t, o) ==
    /\ mark[t][o] = "wait" /\ Published(t, o)
    /\ HandleEvent(t, o)
    /\ mark' = NextMark(t, o)
    /\ UNCHANGED <<lost, inventoryVars, paymentVars, faults>>

\* The statuses in which a method changes an order.
From(op) == CASE op = "CancelOrder" -> {"PENDING", "AWAITING_PAYMENT", "CONFIRMED"}
              [] op = "MarkInventoryReserved" -> {"PENDING"}
              [] OTHER -> {"PENDING", "AWAITING_PAYMENT"}

\* A method goes on, to its answer or to its error; the answer to its commit may be
\* lost, which is a fault.
UpdateStep(c) ==
    /\ \/ O!BeginUpdate(c) /\ UNCHANGED <<lost, faults>>
       \/ /\ O!CommitUpdate(c)
          /\ IF ocall'[c].pc = "idle" THEN Fault ELSE UNCHANGED faults
          /\ lost' = (lost \/ orders[ocall[c].id].status \notin From(ocall[c].op))
       \/ O!RollbackUpdate(c) /\ UNCHANGED <<lost, faults>>
    /\ mark' = IF c \in Topics THEN NextMark(c, ocall[c].id) ELSE mark
    /\ UNCHANGED <<inventoryVars, paymentVars>>

\* It fails, or the process stops.
UpdateFails(c) ==
    /\ ocall[c].pc \in {"begin", "write"} /\ O!Abort(c) /\ Fault
    /\ mark' = IF c \in Topics THEN NextMark(c, ocall[c].id) ELSE mark
    /\ UNCHANGED <<lost, inventoryVars, paymentVars>>

\* An event that was handled is handled again.
RefetchEvent(t, o) ==
    /\ mark[t][o] = "done" /\ Fault
    /\ mark' = [mark EXCEPT ![t][o] = "wait"]
    /\ UNCHANGED <<orders, outbox, ocall, lost, inventoryVars, paymentVars>>

\* A client cancels an order.
CancelOrder(o) ==
    /\ O!CancelOrder("client", o)
    /\ UNCHANGED <<mark, lost, inventoryVars, paymentVars, faults>>

-----------------------------------------------------------------------------
(* inventory-service *)

\* Its consumers receive what the outbox relays (EventRelay).
ReceiveOrderEvent(o) ==
    /\ \/ O!CreatedEvent(o) \in outbox /\ I!OrderCreated(o)
       \/ O!HasCancelEvent(o) /\ I!OrderCancelled(o)
    /\ UNCHANGED <<orderVars, paymentVars>>

InventoryStep(o) ==
    /\ I!HandleCreated(o) \/ I!HandleCancelled(o)
    /\ UNCHANGED <<orderVars, paymentVars>>

\* The relay or Kafka delivers an event again.
RedeliverOrderEvent(o) ==
    /\ I!RedeliverCreated(o) \/ I!RedeliverCancelled(o)
    /\ UNCHANGED <<orderVars, paymentVars>>

InventoryFails ==
    /\ I!ServiceStops \/ \E e \in iprocessed : I!ExpireMark(e)
    /\ UNCHANGED <<orderVars, paymentVars>>

-----------------------------------------------------------------------------
(* payment-service *)

ReceiveReserved(o) ==
    /\ Published("inventory.reserved", o) /\ P!InventoryReserved(o)
    /\ UNCHANGED <<orderVars, inventoryVars, revised>>

PaymentStep(o) ==
    /\ P!HandleReserved(o)
    /\ UNCHANGED <<orderVars, inventoryVars, revised>>

\* A client decides the payment: it captures, fails or cancels it.
DecidePayment(c, o) ==
    /\ P!CapturePayment(c, o) \/ P!FailPayment(c, o) \/ P!CancelPayment(c, o)
    /\ UNCHANGED <<orderVars, inventoryVars, revised>>

\* The row is written from the copy read before: another call's decision is overwritten.
WritePayment(c) ==
    /\ P!UpdatePayment(c)
    /\ revised' = IF payments[pcall[c].order].status = "PENDING" THEN revised
                  ELSE revised \cup {pcall[c].order}
    /\ UNCHANGED <<orderVars, inventoryVars>>

AnnouncePayment(c) ==
    /\ P!PublishResult(c)
    /\ UNCHANGED <<orderVars, inventoryVars, revised>>

DecisionStep(c) == WritePayment(c) \/ AnnouncePayment(c)

PaymentFails ==
    /\ (\E o \in Orders : P!RefetchReserved(o)) \/ (\E c \in PaymentCallers : P!CallFails(c))
    /\ UNCHANGED <<orderVars, inventoryVars, revised>>

-----------------------------------------------------------------------------

Next ==
    \/ \E c \in Topics \cup {"client"} : UpdateStep(c) \/ UpdateFails(c)
    \/ \E o \in Orders :
          \/ CancelOrder(o)
          \/ \E t \in Topics : ConsumeEvent(t, o) \/ RefetchEvent(t, o)
          \/ ReceiveOrderEvent(o) \/ InventoryStep(o) \/ RedeliverOrderEvent(o)
          \/ ReceiveReserved(o) \/ PaymentStep(o)
          \/ \E c \in PaymentCallers : DecidePayment(c, o)
    \/ \E c \in PaymentCallers : DecisionStep(c)
    \/ InventoryFails \/ PaymentFails

Spec == Init /\ [][Next]_vars

\* Each service runs on, after a restart too: as long as one of its handlers can
\* take a step, one of them does.  Clients need not do anything.
OrderProgress ==
    \/ \E c \in Topics \cup {"client"} : UpdateStep(c)
    \/ \E t \in Topics, o \in Orders : ConsumeEvent(t, o)

InventoryProgress == \E o \in Orders : ReceiveOrderEvent(o) \/ InventoryStep(o)

PaymentProgress ==
    \/ \E o \in Orders : ReceiveReserved(o) \/ PaymentStep(o)
    \/ \E c \in PaymentCallers : DecisionStep(c)

FairSpec ==
    /\ Spec
    /\ WF_vars(OrderProgress) /\ WF_vars(InventoryProgress) /\ WF_vars(PaymentProgress)

-----------------------------------------------------------------------------
(* Properties *)

HasStatus(o, s) == orders[o].status = s

\* A CONFIRMED order holds all of its stock and its capture was announced, although
\* three services decide on copies of their own, events are replayed, marks expire and a
\* replayed reservation may fail and be rolled back.  Its payment is CAPTURED, unless a
\* FailPayment or CancelPayment that had read PENDING overwrote the status.  An update
\* of the order that overwrites another (order_failed_lost) breaks all of it.
ConfirmedHoldsStock ==
    \A o \in Orders : HasStatus(o, "CONFIRMED") /\ ~lost =>
        /\ \A p \in Products : reservation[o][p] >= I!Demand(o)[p]
        /\ "payment.captured" \in events[o] /\ payments[o] # NoPayment
        /\ payments[o].status = "CAPTURED" \/ o \in revised

\* An order waits for a client: its payment is stored, and no result is announced (a
\* cancelled payment never is, and neither is one whose publication failed).
AwaitsClient(o) ==
    /\ HasStatus(o, "AWAITING_PAYMENT")
    /\ payments[o] # NoPayment
    /\ events[o] \cap {"payment.captured", "payment.failed"} = {}

\* Every order is confirmed or cancelled in the end, unless it waits for its client:
\* events that come in any order, late, again or after the order has moved on leave
\* no order behind, unless an update was lost or inventory-service stops for ever at
\* releases of orders whose two events it handles at once.
OrderSettles ==
    \/ \A o \in Orders :
          <>[](HasStatus(o, "CONFIRMED") \/ HasStatus(o, "CANCELLED") \/ AwaitsClient(o) \/ lost)
    \/ I!ReleasesKeepFailing

\* An order that is CANCELLED has given its stock back in the end and takes none
\* again, whoever cancelled it and at which point of its reservation and payment, as
\* long as no update is lost and its order.created is not handled, or handled again
\* after its mark expired, once order.cancelled has come.
CancelledGivesBack ==
    \/ \A o \in Orders :
          <>[](HasStatus(o, "CANCELLED") => reservation[o] = I!Nothing \/ o \in overtaken \/ lost)
    \/ I!ReleasesKeepFailing

=============================================================================
