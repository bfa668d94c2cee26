------------------------------ MODULE GatewayProofs ------------------------------
(***************************************************************************)
(* Proofs about what gateway-service promises its clients: about Checkout, *)
(* for any attempts and bodies and any width of an amount, and about       *)
(* GatewayCancel, for any requests and keys.  order-service's part of a    *)
(* checkout is taken from OrderServiceProofs.                              *)
(***************************************************************************)
EXTENDS Checkout, GatewayCancel, FiniteSetTheorems, WellFoundedInduction, TLAPS

OP == INSTANCE OrderServiceProofs
        WITH Callers <- Attempts, Keys <- {IdempotencyKey(b) : b \in Bodies} \ {NoKey},
             Requests <- {OrderOf(b) : b \in {c \in Bodies : ValidCheckout(c)}}

-----------------------------------------------------------------------------
(* What the client, the gateway and order-service know of one attempt *)

\* The gateway passes the request on.
Accepted(b) == b \in Bodies /\ ShouldBindJSON(b) /\ ValidCheckout(b)

\* Order o of the table was placed with body b.
Fits(table, o, b) ==
    /\ o \in OrderIDs /\ table[o] # NoOrder
    /\ table[o].key = IdempotencyKey(b) /\ table[o].request = OrderOf(b)

\* An attempt h, the call c that serves it, the orders ins that it stored.
AttemptOK(h, c, ins, table) ==
    /\ h.pc \in {"new", "sent", "answered"}
    /\ h.pc # "new" => h.body \in Bodies
    /\ h.pc = "new" => c.pc = "idle" /\ ins = {}
    /\ h.pc = "sent" => Accepted(h.body)
    /\ c.pc # "idle" =>
          /\ c.pc \in {"insert", "reread", "created"}
          /\ h.pc # "new" /\ Accepted(h.body)
          /\ c.key = IdempotencyKey(h.body) /\ c.request = OrderOf(h.body)
          /\ c.pc = "insert" => OneCurrency(OrderOf(h.body))
    /\ h.pc = "answered" /\ h.code = 201 => Accepted(h.body) /\ Fits(table, h.id, h.body)
    /\ h.pc = "answered" /\ h.code = 400 => c.pc = "idle" /\ ins = {}
    /\ \A o \in ins :
          /\ h.pc # "new" /\ Accepted(h.body) /\ Fits(table, o, h.body)
          /\ OneCurrency(OrderOf(h.body)) /\ Storable(OrderOf(h.body))

AttemptsInv ==
    /\ http = [a \in Attempts |-> http[a]]
    /\ inserted = [a \in Attempts |-> inserted[a]]
    /\ \A a \in Attempts : AttemptOK(http[a], call[a], inserted[a], orders)

\* The payment made for an order.
PaymentOf(order) ==
    toPaymentDBParams(createPayment(InventoryReservedPayload(OrderCreatedPayload(order))))

PaymentsInv ==
    /\ payments = [o \in OrderIDs |-> payments[o]]
    /\ \A o \in OrderIDs : payments[o] # NoPayment =>
          orders[o] # NoOrder /\ payments[o] = PaymentOf(orders[o].request)

\* The invariants of order-service, from its own proofs.
OrdersInv ==
    OP!CancelInv /\ OP!KeyNamesOneOrder /\ OP!OutboxConsistent /\ OP!AnswersInv

CheckoutInv == OrdersInv /\ AttemptsInv /\ PaymentsInv

-----------------------------------------------------------------------------

\* The assumption of the instantiated proofs.
LEMMA OrderServiceConstants == OP!OrderConstants
  BY CheckoutConstants, Zenon DEF O!OrderConstants, OP!OrderConstants, O!OrderRow,
     OP!OrderRow, O!Status, OP!Status, O!Reasons, OP!Reasons, O!CancellingOps,
     OP!CancellingOps

\* Steps of order-service in Checkout are steps of OrderService.
LEMMA ServiceSteps ==
    ASSUME NEW a \in Attempts
    PROVE  /\ O!InsertOrder(a) => OP!InsertOrder(a)
           /\ O!InsertKeyExists(a) => OP!InsertKeyExists(a)
           /\ O!InsertIDExists(a) => OP!InsertIDExists(a)
           /\ O!RereadOrder(a) => OP!RereadOrder(a)
           /\ O!Abort(a) => OP!Abort(a)
           /\ \A k, r : O!CreateOrder(a, k, r) => OP!CreateOrder(a, k, r)
  BY Zenon DEF O!Free, OP!Free, O!Idle, OP!Idle, O!GetOrderByIdempotencyKey,
     OP!GetOrderByIdempotencyKey, O!ordersMatchForIdempotency,
     OP!ordersMatchForIdempotency, O!AnswerExisting, OP!AnswerExisting, O!NewOrder,
     OP!NewOrder, O!CreatedEvent, OP!CreatedEvent, O!KeyFree, OP!KeyFree,
     O!InsertOrder, OP!InsertOrder, O!InsertKeyExists, OP!InsertKeyExists,
     O!InsertIDExists, OP!InsertIDExists, O!RereadOrder, OP!RereadOrder, O!Abort,
     OP!Abort, O!CreateOrder, OP!CreateOrder

\* The request of a checkout that is passed on is one of OrderService's.
LEMMA RequestKnown ==
    ASSUME NEW b, Accepted(b)
    PROVE  /\ IdempotencyKey(b) \in ({IdempotencyKey(c) : c \in Bodies} \ {NoKey}) \cup {NoKey}
           /\ OrderOf(b) \in {OrderOf(c) : c \in {d \in Bodies : ValidCheckout(d)}}
<1>. HIDE DEF IdempotencyKey, OrderOf, ValidCheckout
<1>. QED  BY DEF Accepted

\* A step of Checkout is one of order-service or leaves its state alone.
LEMMA CheckoutSteps ==
    ASSUME AttemptsInv, [Next]_vars
    PROVE  [OP!Next]_(OP!vars)
<1>1. CASE UNCHANGED vars
  BY <1>1 DEF vars, OP!vars
<1>2. ASSUME NEW a \in Attempts,
             \/ \E b \in Bodies : PostCheckout(a, b)
             \/ Respond(a) \/ GiveUp(a)
      PROVE  [OP!Next]_(OP!vars)
  BY <1>2 DEF PostCheckout, Respond, GiveUp, OP!vars
<1>3. ASSUME NEW a \in Attempts, ServeCreateOrder(a)
      PROVE  [OP!Next]_(OP!vars)
  <2>1. Accepted(http[a].body)
    BY <1>3 DEF ServeCreateOrder, Waiting, AttemptsInv, AttemptOK
  <2>2. CASE O!CreateOrder(a, IdempotencyKey(http[a].body), OrderOf(http[a].body))
    <3>1. OP!CreateOrder(a, IdempotencyKey(http[a].body), OrderOf(http[a].body))
      BY <2>2, ServiceSteps
    <3>. HIDE DEF IdempotencyKey, OrderOf
    <3>. QED  BY <2>1, <3>1, RequestKnown, Zenon DEF OP!Next
  <2>3. CASE UNCHANGED <<orders, outbox, call>>
    BY <2>3 DEF OP!vars
  <2>. QED  BY <1>3, <2>2, <2>3, Zenon DEF ServeCreateOrder
<1>4. ASSUME NEW a \in Attempts,
             StoreOrder(a) \/ StoreFails(a) \/ Reread(a) \/ ServeFails(a)
      PROVE  [OP!Next]_(OP!vars)
  BY <1>4, ServiceSteps, Zenon DEF StoreOrder, StoreFails, Reread, ServeFails, OP!Next
<1>5. ASSUME NEW o \in OrderIDs, MakePayment(o)
      PROVE  [OP!Next]_(OP!vars)
  BY <1>5 DEF MakePayment, OP!vars
<1>. QED  BY <1>1, <1>2, <1>3, <1>4, <1>5, Zenon DEF Next

\* The invariants of order-service hold, and no order loses its key or its request.
LEMMA OrdersStep ==
    ASSUME OrdersInv, AttemptsInv, [Next]_vars
    PROVE  OrdersInv' /\ OP!IdentityStep
<1>1. [OP!Next]_(OP!vars)
  BY CheckoutSteps
<1>. QED  BY <1>1, OrderServiceConstants, OP!CancelInductive, OP!StepKeepsIdentity, OP!KeyStep,
             OP!OutboxStep, OP!AnswersStep DEF OrdersInv

-----------------------------------------------------------------------------
(* One step of one attempt *)

\* An error of order-service, or no answer from it, is neither 201 nor 400.
LEMMA ErrorCodes ==
    ASSUME NEW status \in {"InvalidArgument", "AlreadyExists", "Internal",
                           "DeadlineExceeded", "Canceled"}
    PROVE  statusCodeForError(wrapDownstreamError(status)) \in {408, 502, 504}
<1>1. wrapDownstreamError(status) \in {"ErrTimeout", "ErrRequestCanceled", "ErrDownstreamFailed"}
  BY DEF wrapDownstreamError
<1>. QED  BY <1>1 DEF statusCodeForError

\* The errors of CreateOrder.
LEMMA OrderErrors ==
    /\ mapOrderError("ErrInvalidOrder") = "InvalidArgument"
    /\ mapOrderError("ErrOrderAlreadyExists") = "AlreadyExists"
    /\ mapOrderError("ErrIdempotencyKeyConflict") = "AlreadyExists"
    /\ mapOrderError("check") = "Internal"
  BY DEF mapOrderError

\* The gateway answers an attempt with an error.
ErrorAnswer(h) ==
    {[pc |-> "answered", body |-> h.body, code |-> code, id |-> None] : code \in {408, 502, 504}}

\* A gateway that waits answers an error with a code that claims nothing of the order.
LEMMA AnswerErrorStep ==
    ASSUME AttemptsInv, NEW a \in Attempts,
           NEW status \in {"InvalidArgument", "AlreadyExists", "Internal",
                           "DeadlineExceeded", "Canceled"},
           AnswerError(a, status)
    PROVE  \E h \in ErrorAnswer(http[a]) : http' = [http EXCEPT ![a] = h]
<1>. DEFINE code == statusCodeForError(wrapDownstreamError(status))
            h == [pc |-> "answered", body |-> http[a].body, code |-> code, id |-> None]
<1>1. code \in {408, 502, 504}
  BY ErrorCodes
<1>2. http' = [http EXCEPT ![a] = h]
  BY DEF AnswerError, Answer
<1>. HIDE DEF code
<1>3. h \in ErrorAnswer(http[a])
  BY <1>1 DEF ErrorAnswer
<1>. QED  BY <1>2, <1>3

\* What is known of an attempt stays true when it is answered with an error, when its
\* call ends, and when the tables change.
LEMMA AttemptKept ==
    ASSUME NEW h, NEW c, NEW ins, NEW table, AttemptOK(h, c, ins, table)
    PROVE  /\ h.pc = "sent" => \A e \in ErrorAnswer(h) : AttemptOK(e, c, ins, table)
           /\ AttemptOK(h, O!Idle, ins, table)
<1>1. ASSUME h.pc = "sent", NEW e \in ErrorAnswer(h) PROVE AttemptOK(e, c, ins, table)
  <2>1. /\ e.pc = "answered" /\ e.body = h.body /\ e.code # 201 /\ e.code # 400
    BY DEF ErrorAnswer
  <2>. QED  BY <1>1, <2>1 DEF AttemptOK
<1>2. AttemptOK(h, O!Idle, ins, table)
  BY DEF AttemptOK, O!Idle
<1>. QED  BY <1>1, <1>2

\* Orders keep their key and request, so what is known of an attempt stays true.
LEMMA TableGrows ==
    ASSUME OP!IdentityStep, NEW h, NEW c, NEW ins, AttemptOK(h, c, ins, orders)
    PROVE  AttemptOK(h, c, ins, orders')
<1>1. \A o, b : Fits(orders, o, b) => Fits(orders', o, b)
  BY DEF OP!IdentityStep, Fits
<1>. QED  BY <1>1 DEF AttemptOK

\* A step of one attempt leaves the others alone.
LEMMA OneAttempt ==
    ASSUME AttemptsInv, OP!CancelInv, OP!IdentityStep, NEW a \in Attempts, NEW h, NEW c, NEW ins,
           http' = [http EXCEPT ![a] = h],
           call' = [call EXCEPT ![a] = c],
           inserted' = [inserted EXCEPT ![a] = ins],
           AttemptOK(h, c, ins, orders')
    PROVE  AttemptsInv'
<1>1. ASSUME NEW d \in Attempts PROVE AttemptOK(http'[d], call'[d], inserted'[d], orders')
  <2>1. CASE d = a
    <3>1. http'[d] = h /\ call'[d] = c /\ inserted'[d] = ins
      BY <2>1 DEF AttemptsInv, OP!CancelInv, OP!TypeOK
    <3>. QED  BY <3>1
  <2>2. CASE d # a
    <3>1. http'[d] = http[d] /\ call'[d] = call[d] /\ inserted'[d] = inserted[d]
      BY <2>2 DEF AttemptsInv, OP!CancelInv, OP!TypeOK
    <3>. QED  BY <3>1, TableGrows DEF AttemptsInv
  <2>. QED  BY <2>1, <2>2
<1>2. http' = [d \in Attempts |-> http'[d]] /\ inserted' = [d \in Attempts |-> inserted'[d]]
  BY DEF AttemptsInv
<1>. QED  BY <1>1, <1>2 DEF AttemptsInv

\* What OneAttempt needs when a step leaves one of the functions alone.
LEMMA Unmoved ==
    ASSUME AttemptsInv, OP!CancelInv, NEW a \in Attempts
    PROVE  /\ http = [http EXCEPT ![a] = http[a]]
           /\ call = [call EXCEPT ![a] = call[a]]
           /\ inserted = [inserted EXCEPT ![a] = inserted[a]]
           /\ AttemptOK(http[a], call[a], inserted[a], orders)
<1>1. call = [d \in Attempts |-> call[d]]
  BY DEF OP!CancelInv, OP!TypeOK
<1>. QED  BY <1>1 DEF AttemptsInv

\* The gateway's steps.
LEMMA GatewayStep ==
    ASSUME CheckoutInv, OP!IdentityStep, NEW a \in Attempts,
           (\E b \in Bodies : PostCheckout(a, b)) \/ Respond(a) \/ GiveUp(a)
    PROVE  AttemptsInv'
<1>0. AttemptsInv /\ OP!CancelInv
  BY DEF CheckoutInv, OrdersInv
<1>1. /\ orders' = orders
      /\ call' = [call EXCEPT ![a] = call[a]] /\ inserted' = [inserted EXCEPT ![a] = inserted[a]]
  BY <1>0, Unmoved DEF PostCheckout, Respond, GiveUp
<1>2. ASSUME NEW b \in Bodies, PostCheckout(a, b) PROVE AttemptsInv'
  <2>. DEFINE h == IF ShouldBindJSON(b) /\ ValidCheckout(b)
                   THEN [pc |-> "sent", body |-> b]
                   ELSE [pc |-> "answered", body |-> b, code |-> 400, id |-> None]
  <2>1. http[a].pc = "new" /\ http' = [http EXCEPT ![a] = h]
    BY <1>2 DEF PostCheckout
  <2>2. call[a].pc = "idle" /\ inserted[a] = {}
    BY <1>0, <2>1 DEF AttemptsInv, AttemptOK
  <2>3. AttemptOK(h, call[a], inserted[a], orders')
    BY <2>2 DEF AttemptOK, Accepted
  <2>. HIDE DEF h
  <2>. QED  BY <1>0, <1>1, <2>1, <2>3, OneAttempt
<1>3. ASSUME NEW h \in ErrorAnswer(http[a]), Waiting(a), http' = [http EXCEPT ![a] = h]
      PROVE  AttemptsInv'
  <2>1. AttemptOK(h, call[a], inserted[a], orders')
    BY <1>0, <1>1, <1>3, AttemptKept DEF Waiting, AttemptsInv
  <2>. QED  BY <1>0, <1>1, <1>3, <2>1, OneAttempt
<1>4. CASE GiveUp(a)
  BY <1>0, <1>3, <1>4, AnswerErrorStep DEF GiveUp
<1>5. CASE Respond(a)
  <2>1. CASE call[a].id # None
    <3>. DEFINE h == [pc |-> "answered", body |-> http[a].body, code |-> 201, id |-> call[a].id]
    <3>1. http' = [http EXCEPT ![a] = h] /\ call[a].pc = "created"
      BY <1>5, <2>1 DEF Respond, Answer
    <3>2. Accepted(http[a].body) /\ Fits(orders, call[a].id, http[a].body)
      BY <2>1, <3>1 DEF CheckoutInv, OrdersInv, OP!AnswersInv, OP!AnswerHolds, AttemptsInv,
         AttemptOK, Fits
    <3>3. AttemptOK(h, call[a], inserted[a], orders')
      BY <1>0, <1>1, <3>1, <3>2 DEF AttemptsInv, AttemptOK
    <3>. HIDE DEF h
    <3>. QED  BY <1>0, <1>1, <3>1, <3>3, OneAttempt
  <2>2. CASE call[a].id = None
    BY <1>0, <1>3, <1>5, <2>2, AnswerErrorStep, OrderErrors DEF Respond
  <2>. QED  BY <2>1, <2>2
<1>. QED  BY <1>2, <1>4, <1>5

\* CreateOrder begins to serve an attempt.
LEMMA ServeStep ==
    ASSUME CheckoutInv, OP!IdentityStep, NEW a \in Attempts, ServeCreateOrder(a)
    PROVE  AttemptsInv'
<1>. DEFINE body == http[a].body
            k == IdempotencyKey(body)
            r == OrderOf(body)
<1>0. AttemptsInv /\ OP!CancelInv /\ Waiting(a) /\ call[a].pc = "idle"
  BY DEF CheckoutInv, OrdersInv, ServeCreateOrder, O!Idle
<1>1. inserted' = [inserted EXCEPT ![a] = inserted[a]]
  BY <1>0, Unmoved DEF ServeCreateOrder
<1>2. CASE /\ O!CreateOrder(a, k, r)
           /\ call'[a].pc = "insert" => OneCurrency(r)
           /\ UNCHANGED http
  <2>. DEFINE Serves(c) == c.pc \in {"insert", "created"} /\ c.key = k /\ c.request = r
  <2>1. PICK c : call' = [call EXCEPT ![a] = c] /\ Serves(c)
    <3>1. \A o : Serves(O!AnswerExisting(k, r, o))
      BY DEF O!AnswerExisting
    <3>2. Serves([pc |-> "insert", key |-> k, request |-> r])
      OBVIOUS
    <3>. HIDE DEF k, r, Serves
    <3>. QED  BY <1>2, <3>1, <3>2, Zenon DEF O!CreateOrder
  <2>2. call'[a] = c /\ orders' = orders
    BY <1>0, <1>2, <2>1 DEF OP!CancelInv, OP!TypeOK, O!CreateOrder
  <2>3. http' = [http EXCEPT ![a] = http[a]]
    BY <1>0, <1>2, Unmoved
  <2>4. AttemptOK(http[a], c, inserted[a], orders')
    <3>. HIDE DEF k, r
    <3>1. AttemptOK(http[a], call[a], inserted[a], orders) /\ http[a].pc = "sent"
      BY <1>0 DEF AttemptsInv, Waiting
    <3>2. c.pc = "insert" => OneCurrency(r)
      BY <1>2, <2>2
    <3>. QED  BY <2>1, <2>2, <3>1, <3>2 DEF AttemptOK, k, r
  <2>. QED  BY <1>0, <1>1, <2>1, <2>3, <2>4, OneAttempt
<1>3. CASE /\ AnswerError(a, mapOrderError("ErrInvalidOrder"))
           /\ UNCHANGED <<orders, outbox, call>>
  <2>1. PICK h \in ErrorAnswer(http[a]) : http' = [http EXCEPT ![a] = h]
    BY <1>0, <1>3, AnswerErrorStep, OrderErrors
  <2>2. AttemptOK(h, call[a], inserted[a], orders')
    BY <1>0, <1>3, AttemptKept DEF Waiting, AttemptsInv
  <2>3. call' = [call EXCEPT ![a] = call[a]]
    BY <1>0, <1>3, Unmoved
  <2>. QED  BY <1>0, <1>1, <2>1, <2>2, <2>3, OneAttempt
<1>. QED  BY <1>2, <1>3, Zenon DEF ServeCreateOrder

\* A call of order-service ends without an answer; a gateway that waits answers an error.
LEMMA EndStep ==
    ASSUME AttemptsInv, OP!CancelInv, OP!IdentityStep, NEW a \in Attempts, NEW ins,
           NEW status \in {"InvalidArgument", "AlreadyExists", "Internal",
                           "DeadlineExceeded", "Canceled"},
           call' = [call EXCEPT ![a] = O!Idle], inserted' = [inserted EXCEPT ![a] = ins],
           AttemptOK(http[a], call[a], ins, orders'),
           IF Waiting(a) THEN AnswerError(a, status) ELSE UNCHANGED http
    PROVE  AttemptsInv'
<1>1. CASE Waiting(a)
  <2>1. PICK h \in ErrorAnswer(http[a]) : http' = [http EXCEPT ![a] = h]
    BY <1>1, AnswerErrorStep
  <2>2. AttemptOK(h, call[a], ins, orders')
    BY <1>1, AttemptKept DEF Waiting
  <2>3. AttemptOK(h, O!Idle, ins, orders')
    BY <2>2, AttemptKept
  <2>. QED  BY <2>1, <2>3, OneAttempt
<1>2. CASE ~Waiting(a)
  <2>1. AttemptOK(http[a], O!Idle, ins, orders')
    BY AttemptKept
  <2>2. http' = [http EXCEPT ![a] = http[a]]
    BY <1>2, Unmoved
  <2>. QED  BY <2>1, <2>2, OneAttempt
<1>. QED  BY <1>1, <1>2

\* The order of an attempt is stored.
LEMMA StoreStep ==
    ASSUME CheckoutInv, OP!IdentityStep, NEW a \in Attempts, StoreOrder(a)
    PROVE  AttemptsInv'
<1>0. AttemptsInv /\ OP!CancelInv /\ call[a].pc = "insert" /\ Storable(call[a].request)
  BY DEF CheckoutInv, OrdersInv, StoreOrder
<1>. DEFINE body == http[a].body
            row == O!NewOrder(call[a].key, call[a].request)
<1>1. PICK o \in OrderIDs :
         /\ orders[o] = NoOrder
         /\ orders' = [orders EXCEPT ![o] = row]
         /\ \E c \in {O!Idle, [pc |-> "created", key |-> call[a].key,
                               request |-> call[a].request, id |-> o]} :
               call' = [call EXCEPT ![a] = c]
  <2>. HIDE DEF row
  <2>. QED  BY Zenon DEF StoreOrder, O!InsertOrder, row
<1>2. PICK c \in {O!Idle, [pc |-> "created", key |-> call[a].key,
                           request |-> call[a].request, id |-> o]} :
         call' = [call EXCEPT ![a] = c]
  BY <1>1
<1>3. /\ http[a].pc # "new" /\ Accepted(body) /\ OneCurrency(OrderOf(body))
      /\ call[a].key = IdempotencyKey(body) /\ call[a].request = OrderOf(body)
  BY <1>0 DEF AttemptsInv, AttemptOK
<1>4. row # NoOrder /\ row.key = call[a].key /\ row.request = call[a].request
  <2>1. row \in OP!OrderRow
    <3>. HIDE DEF IdempotencyKey, OrderOf
    <3>. QED  BY <1>3, RequestKnown DEF O!NewOrder, OP!OrderRow, OP!Status, OP!Reasons
  <2>. QED  BY <2>1, OrderServiceConstants DEF OP!OrderConstants, O!NewOrder
<1>. DEFINE ins == {p \in OrderIDs : orders[p] # orders'[p]}
<1>5. orders'[o] = row /\ \A p \in ins : p = o
  BY <1>0, <1>1 DEF OP!CancelInv, OP!TypeOK
<1>6. Fits(orders', o, body)
  BY <1>3, <1>4, <1>5 DEF Fits
<1>7. inserted' = [inserted EXCEPT ![a] = ins] /\ call'[a] = c
  BY <1>0, <1>2 DEF StoreOrder, OP!CancelInv, OP!TypeOK
<1>8. AttemptOK(http[a], call[a], ins, orders')
  <2>. HIDE DEF ins, row
  <2>1. AttemptOK(http[a], call[a], inserted[a], orders')
    BY <1>0, TableGrows DEF AttemptsInv
  <2>. QED  BY <1>0, <1>3, <1>5, <1>6, <2>1 DEF AttemptOK
<1>. HIDE DEF ins, row
<1>9. CASE c = O!Idle
  BY <1>0, <1>2, <1>7, <1>8, <1>9, EndStep DEF StoreOrder
<1>10. CASE c = [pc |-> "created", key |-> call[a].key, request |-> call[a].request, id |-> o]
  <2>1. http' = http
    BY <1>7, <1>10 DEF StoreOrder, O!Idle
  <2>2. http' = [http EXCEPT ![a] = http[a]]
    BY <1>0, <2>1, Unmoved
  <2>3. AttemptOK(http[a], c, ins, orders')
    BY <1>0, <1>8, <1>10 DEF AttemptOK
  <2>. QED  BY <1>0, <1>2, <1>7, <2>2, <2>3, OneAttempt
<1>. QED  BY <1>9, <1>10

\* The other steps of order-service.
LEMMA CallStep ==
    ASSUME CheckoutInv, OP!IdentityStep, NEW a \in Attempts,
           StoreFails(a) \/ Reread(a) \/ ServeFails(a)
    PROVE  AttemptsInv'
<1>0. AttemptsInv /\ OP!CancelInv
  BY DEF CheckoutInv, OrdersInv
<1>1. orders' = orders /\ inserted' = [inserted EXCEPT ![a] = inserted[a]]
  BY <1>0, Unmoved DEF StoreFails, Reread, ServeFails, O!Abort, O!InsertKeyExists,
     O!InsertIDExists, O!RereadOrder
<1>2. AttemptOK(http[a], call[a], inserted[a], orders')
  BY <1>0, <1>1 DEF AttemptsInv
<1>3. CASE ServeFails(a)
  BY <1>0, <1>1, <1>2, <1>3, EndStep DEF ServeFails, O!Abort
<1>4. CASE O!Abort(a) /\ IF Waiting(a) THEN AnswerError(a, mapOrderError("check"))
                                       ELSE UNCHANGED http
  BY <1>0, <1>1, <1>2, <1>4, EndStep, OrderErrors DEF O!Abort
<1>5. CASE O!InsertIDExists(a) /\ IF Waiting(a)
                                  THEN AnswerError(a, mapOrderError("ErrOrderAlreadyExists"))
                                  ELSE UNCHANGED http
  BY <1>0, <1>1, <1>2, <1>5, EndStep, OrderErrors DEF O!InsertIDExists
<1>6. ASSUME NEW c, call[a].pc # "idle", c.pc \in {"reread", "created"},
             c.key = call[a].key, c.request = call[a].request,
             call' = [call EXCEPT ![a] = c], UNCHANGED http
      PROVE  AttemptsInv'
  <2>1. http' = [http EXCEPT ![a] = http[a]]
    BY <1>0, <1>6, Unmoved
  <2>2. AttemptOK(http[a], c, inserted[a], orders')
    BY <1>2, <1>6 DEF AttemptOK
  <2>. QED  BY <1>0, <1>1, <1>6, <2>1, <2>2, OneAttempt
<1>7. CASE O!InsertKeyExists(a) /\ UNCHANGED http
  <2>. DEFINE c == [call[a] EXCEPT !.pc = "reread"]
  <2>1. call[a].pc = "insert" /\ call' = [call EXCEPT ![a] = c]
    BY <1>7 DEF O!InsertKeyExists
  <2>2. call[a] = [pc |-> call[a].pc, key |-> call[a].key, request |-> call[a].request]
    BY <1>0, <2>1, OrderServiceConstants, OP!CallFields DEF OP!CancelInv
  <2>3. c.pc = "reread" /\ c.key = call[a].key /\ c.request = call[a].request
    BY <2>2
  <2>. HIDE DEF c
  <2>. QED  BY <1>6, <1>7, <2>1, <2>3
<1>8. CASE Reread(a)
  <2>1. PICK c : /\ call' = [call EXCEPT ![a] = c]
                 /\ c.pc = "created" /\ c.key = call[a].key /\ c.request = call[a].request
    BY <1>8 DEF Reread, O!RereadOrder, O!AnswerExisting
  <2>2. call[a].pc = "reread" /\ UNCHANGED http
    BY <1>8 DEF Reread, O!RereadOrder
  <2>. QED  BY <1>6, <2>1, <2>2
<1>. QED  BY <1>3, <1>4, <1>5, <1>7, <1>8, Zenon DEF StoreFails

\* The payments are made from the orders.
LEMMA PaymentsStep ==
    ASSUME CheckoutInv, OP!IdentityStep, [Next]_vars
    PROVE  PaymentsInv'
<1>1. CASE payments' = payments
  BY <1>1 DEF CheckoutInv, PaymentsInv, OP!IdentityStep
<1>2. ASSUME NEW o \in OrderIDs, MakePayment(o) PROVE PaymentsInv'
  <2>1. orders' = orders /\ orders[o] # NoOrder
    <3>1. O!CreatedEvent(o) = OP!CreatedEvent(o)
      BY DEF O!CreatedEvent, OP!CreatedEvent
    <3>. QED  BY <1>2, <3>1 DEF MakePayment, CheckoutInv, OrdersInv, OP!OutboxConsistent
  <2>2. payments' = [payments EXCEPT ![o] = PaymentOf(orders[o].request)]
    BY <1>2 DEF MakePayment, PaymentOf
  <2>. HIDE DEF PaymentOf
  <2>. QED  BY <2>1, <2>2 DEF CheckoutInv, PaymentsInv
<1>3. CASE UNCHANGED vars
  BY <1>1, <1>3 DEF vars
<1>4. ASSUME NEW a \in Attempts,
             \/ \E b \in Bodies : PostCheckout(a, b)
             \/ ServeCreateOrder(a) \/ StoreOrder(a) \/ StoreFails(a) \/ Reread(a)
             \/ ServeFails(a) \/ Respond(a) \/ GiveUp(a)
      PROVE  payments' = payments
  BY <1>4, Zenon DEF PostCheckout, ServeCreateOrder, StoreOrder, StoreFails, Reread, ServeFails,
     Respond, GiveUp
<1>. QED  BY <1>1, <1>2, <1>3, <1>4, Zenon DEF Next

\* CheckoutInv is inductive.
LEMMA CheckoutInductive ==
    /\ Init => CheckoutInv
    /\ CheckoutInv /\ [Next]_vars => CheckoutInv'
<1>1. ASSUME Init PROVE CheckoutInv
  <2>1. OP!Init
    BY <1>1, Zenon DEF Init, O!Init, OP!Init, O!Idle, OP!Idle
  <2>2. OP!CancelInv
    BY <2>1, OrderServiceConstants, OP!CancelInductive
  <2>3. /\ \A a \in Attempts : call[a].pc = "idle"
        /\ \A o \in OrderIDs : orders[o] = NoOrder
        /\ outbox = {}
    BY <2>1 DEF OP!Init, OP!Idle
  <2>4. OP!KeyNamesOneOrder /\ OP!OutboxConsistent /\ OP!AnswersInv
    BY <2>3 DEF OP!KeyNamesOneOrder, OP!GetOrderByIdempotencyKey, OP!OutboxConsistent,
       OP!AnswersInv, OP!AnswerHolds
  <2>5. AttemptsInv
    BY <1>1, <2>3 DEF Init, AttemptsInv, AttemptOK
  <2>6. PaymentsInv
    BY <1>1 DEF Init, PaymentsInv
  <2>. QED  BY <2>2, <2>4, <2>5, <2>6 DEF CheckoutInv, OrdersInv
<1>2. ASSUME CheckoutInv, [Next]_vars PROVE CheckoutInv'
  <2>1. OrdersInv' /\ OP!IdentityStep
    BY <1>2, OrdersStep DEF CheckoutInv
  <2>2. AttemptsInv'
    <3>1. CASE UNCHANGED vars \/ \E o \in OrderIDs : MakePayment(o)
      BY <1>2, <3>1 DEF vars, MakePayment, CheckoutInv, AttemptsInv
    <3>2. ASSUME NEW a \in Attempts,
                 \/ \E b \in Bodies : PostCheckout(a, b)
                 \/ ServeCreateOrder(a) \/ StoreOrder(a) \/ StoreFails(a) \/ Reread(a)
                 \/ ServeFails(a) \/ Respond(a) \/ GiveUp(a)
          PROVE  AttemptsInv'
      BY <1>2, <2>1, <3>2, GatewayStep, ServeStep, StoreStep, CallStep, Zenon
    <3>. QED  BY <1>2, <3>1, <3>2, Zenon DEF Next
  <2>. QED  BY <1>2, <2>1, <2>2, PaymentsStep DEF CheckoutInv
<1>. QED  BY <1>1, <1>2

-----------------------------------------------------------------------------
(* Retries *)

\* Orders placed under one key are one order: order-service stores a key once.
LEMMA OneOrderPerKey ==
    ASSUME CheckoutInv, NEW b \in Bodies, TrimSpace(b.key) # "",
           NEW d \in Bodies, IdempotencyKey(d) = IdempotencyKey(b),
           NEW o, Fits(orders, o, b), NEW p, Fits(orders, p, d)
    PROVE  o = p
<1>. DEFINE key == IdempotencyKey(b)
<1>1. key # NoKey
  BY CheckoutConstants DEF IdempotencyKey
<1>2. key \in {IdempotencyKey(c) : c \in Bodies} \ {NoKey}
  BY <1>1
<1>3. o \in OP!GetOrderByIdempotencyKey(key) /\ p \in OP!GetOrderByIdempotencyKey(key)
  BY <1>1 DEF Fits, OP!GetOrderByIdempotencyKey
<1>. HIDE DEF key
<1>. QED  BY <1>2, <1>3 DEF CheckoutInv, OrdersInv, OP!KeyNamesOneOrder

\* Attempts with one key lead to one order.
THEOREM CheckoutOnce == Spec => []CheckoutConverges
<1>1. ASSUME CheckoutInv PROVE CheckoutConverges
  <2>1. ASSUME NEW a \in Attempts, NEW b \in Attempts, Answered(a, 201), Answered(b, 201),
               IdempotencyKey(http[a].body) = IdempotencyKey(http[b].body),
               TrimSpace(http[a].body.key) # ""
        PROVE  http[a].id = http[b].id
    <3>1. /\ http[a].body \in Bodies /\ Fits(orders, http[a].id, http[a].body)
          /\ http[b].body \in Bodies /\ Fits(orders, http[b].id, http[b].body)
      BY <1>1, <2>1 DEF CheckoutInv, AttemptsInv, AttemptOK, Answered
    <3>. QED  BY <1>1, <2>1, <3>1, OneOrderPerKey
  <2>2. ASSUME NEW k, k # ""
        PROVE  Cardinality(UNION {inserted[a] : a \in {c \in Attempts :
                          http[c].pc # "new" /\ TrimSpace(http[c].body.key) = k}}) <= 1
    <3>. DEFINE S == UNION {inserted[a] : a \in {c \in Attempts :
                          http[c].pc # "new" /\ TrimSpace(http[c].body.key) = k}}
    <3>1. ASSUME NEW o \in S, NEW p \in S PROVE o = p
      <4>1. PICK a \in Attempts : o \in inserted[a] /\ http[a].pc # "new"
                                    /\ TrimSpace(http[a].body.key) = k
        OBVIOUS
      <4>2. PICK b \in Attempts : p \in inserted[b] /\ http[b].pc # "new"
                                    /\ TrimSpace(http[b].body.key) = k
        OBVIOUS
      <4>3. /\ http[a].body \in Bodies /\ Fits(orders, o, http[a].body)
            /\ http[b].body \in Bodies /\ Fits(orders, p, http[b].body)
        BY <1>1, <4>1, <4>2 DEF CheckoutInv, AttemptsInv, AttemptOK
      <4>4. IdempotencyKey(http[b].body) = IdempotencyKey(http[a].body)
        BY <4>1, <4>2 DEF IdempotencyKey
      <4>5. TrimSpace(http[a].body.key) # ""
        BY <2>2, <4>1
      <4>. HIDE DEF S
      <4>6. ASSUME NEW x \in Bodies, NEW y \in Bodies, TrimSpace(x.key) # "",
                   IdempotencyKey(y) = IdempotencyKey(x),
                   Fits(orders, o, x), Fits(orders, p, y)
            PROVE  o = p
        BY <1>1, <4>6, OneOrderPerKey
      <4>. QED  BY <4>3, <4>4, <4>5, <4>6
    <3>2. Cardinality(S) <= 1
      <4>. HIDE DEF S
      <4>1. CASE S = {}
        BY <4>1, FS_EmptySet
      <4>2. CASE S # {}
        <5>1. PICK o \in S : S = {o}
          BY <3>1, <4>2
        <5>2. Cardinality({o}) = 1
          BY FS_Singleton
        <5>. QED  BY <5>1, <5>2
      <4>. QED  BY <4>1, <4>2
    <3>. QED  BY <3>2
  <2>. QED  BY <2>1, <2>2 DEF CheckoutConverges
<1>. QED  BY <1>1, CheckoutInductive, PTL DEF Spec

-----------------------------------------------------------------------------
(* Conversions *)

\* The table of an enum with two names.
LEMMA TwoNames ==
    ASSUME NEW x, NEW y
    PROVE  DOMAIN <<x, y>> = {1, 2} /\ <<x, y>>[1] = x /\ <<x, y>>[2] = y
  OBVIOUS

\* The number of a name of an enum.
LEMMA ValueOfName ==
    ASSUME NEW x, NEW y, x # y
    PROVE  Value(<<x, y>>, x) = 1 /\ Value(<<x, y>>, y) = 2
<1>. DEFINE names == <<x, y>>
<1>0. DOMAIN names = {1, 2} /\ names[1] = x /\ names[2] = y
  BY TwoNames
<1>1. {n \in DOMAIN names : names[n] = x} = {1} /\ {n \in DOMAIN names : names[n] = y} = {2}
  <2>. HIDE DEF names
  <2>. QED  BY <1>0
<1>2. ASSUME NEW n \in Nat PROVE Max({0} \cup {n}) = n
  <2>1. n \in {0} \cup {n} /\ \A m \in {0} \cup {n} : n >= m
    OBVIOUS
  <2>2. ASSUME NEW k \in {0} \cup {n}, \A m \in {0} \cup {n} : k >= m PROVE k = n
    BY <2>2
  <2>. QED  BY <2>1, <2>2 DEF Max
<1>. QED  BY <1>1, <1>2 DEF Value

\* A currency that the gateway accepts is passed on as a number and comes back as its name.
LEMMA CurrencyRoundTrip ==
    ASSUME NEW t, normalizeCurrency(t) # ""
    PROVE  LET name == normalizeCurrency(t)
               number == Value(Currency_name, normalizeCurrency(name))
           IN  /\ number \in {1, 2}
               /\ Currency_name[number] = name
               /\ Value(Currency_name, name) = number
               /\ Value(PaymentV1Currency_name, name) = number
               /\ PaymentV1Currency_name[number] = name
<1>1. normalizeCurrency(t) \in {"CURRENCY_USD", "CURRENCY_EUR"}
  BY DEF normalizeCurrency
<1>2. /\ TrimSpace("CURRENCY_USD") = "CURRENCY_USD" /\ ToUpper("CURRENCY_USD") = "CURRENCY_USD"
      /\ TrimSpace("CURRENCY_EUR") = "CURRENCY_EUR" /\ ToUpper("CURRENCY_EUR") = "CURRENCY_EUR"
  <2>1. /\ DOMAIN Currency_name = {1, 2}
        /\ Currency_name[1] = "CURRENCY_USD" /\ Currency_name[2] = "CURRENCY_EUR"
    BY TwoNames, Zenon DEF Currency_name
  <2>2. "CURRENCY_USD" \in Range(Currency_name) /\ "CURRENCY_EUR" \in Range(Currency_name)
    <3>. HIDE DEF Currency_name
    <3>. QED  BY <2>1 DEF Range
  <2>. QED  BY <2>2, CheckoutConstants
<1>3. normalizeCurrency(normalizeCurrency(t)) = normalizeCurrency(t)
  BY <1>1, <1>2 DEF normalizeCurrency
<1>4. /\ Value(Currency_name, "CURRENCY_USD") = 1 /\ Value(Currency_name, "CURRENCY_EUR") = 2
      /\ PaymentV1Currency_name = Currency_name
      /\ Currency_name[1] = "CURRENCY_USD" /\ Currency_name[2] = "CURRENCY_EUR"
  BY ValueOfName DEF Currency_name, PaymentV1Currency_name
<1>. HIDE DEF Currency_name, Value
<1>. QED  BY <1>1, <1>3, <1>4

\* So is a payment method.
LEMMA MethodRoundTrip ==
    ASSUME NEW t, normalizePaymentMethod(t) # ""
    PROVE  LET name == normalizePaymentMethod(t)
               number == Value(PaymentMethodType_name, name)
           IN  /\ PaymentMethodType_name[number] = name
               /\ Value(PaymentV1MethodType_name, name) = number
               /\ PaymentV1MethodType_name[number] = name
<1>. DEFINE card == "PAYMENT_METHOD_TYPE_CARD"
            cash == "PAYMENT_METHOD_TYPE_CASH"
<1>1. normalizePaymentMethod(t) \in {card, cash}
  BY DEF normalizePaymentMethod
<1>2. /\ Value(PaymentMethodType_name, card) = 1 /\ Value(PaymentMethodType_name, cash) = 2
      /\ PaymentV1MethodType_name = PaymentMethodType_name
      /\ PaymentMethodType_name[1] = card /\ PaymentMethodType_name[2] = cash
  BY ValueOfName DEF PaymentMethodType_name, PaymentV1MethodType_name
<1>. HIDE DEF PaymentMethodType_name, Value
<1>. QED  BY <1>1, <1>2

-----------------------------------------------------------------------------
(* The lines of an order, stored as rows and read in the order of their positions *)

\* A property of 0, and of every number after one that has it.  It is given as the set of
\* the numbers that have it.
LEMMA CountUp ==
    ASSUME NEW n \in Nat, NEW G, 0 \in G, \A i \in 0 .. n : i # n /\ i \in G => i + 1 \in G
    PROVE  \A i \in 0 .. n : i \in G
<1>. DEFINE B == {i \in 0 .. n : i \notin G}
            R == OpToRel(<, Nat)
<1>. SUFFICES ASSUME B # {} PROVE FALSE
  OBVIOUS
<1>1. R = {p \in Nat \X Nat : p[1] < p[2]} /\ B \subseteq Nat
  BY DEF OpToRel
<1>2. IsWellFoundedOn(R, Nat)
  BY NatLessThanWellFounded
<1>3. PICK i \in B : \A j \in B : ~(<<j, i>> \in R)
  <2>. HIDE DEF R, B
  <2>. QED  BY <1>1, <1>2, WFMin
<1>4. i \in Nat /\ i # 0 /\ i - 1 \in 0 .. n /\ i - 1 # n
  OBVIOUS
<1>5. i - 1 \notin B
  <2>1. <<i - 1, i>> \in R
    <3>. HIDE DEF R, B
    <3>. QED  BY <1>1, <1>4
  <2>. HIDE DEF R, B
  <2>. QED  BY <1>3, <2>1
<1>6. i - 1 \in G
  BY <1>4, <1>5
<1>. QED  BY <1>4, <1>6

\* n increasing numbers from 1 to n are 1 to n.
LEMMA IncreasingIsIdentity ==
    ASSUME NEW n \in Nat, NEW p \in [1 .. n -> 1 .. n],
           \A i, j \in 1 .. n : i < j => p[i] < p[j]
    PROVE  \A i \in 1 .. n : p[i] = i
<1>. DEFINE Up == {i \in Nat : i \in 1 .. n => p[i] >= i}
            Down == {i \in Nat : n - i \in 1 .. n => p[n - i] <= n - i}
<1>1. \A i \in 0 .. n : i \in Up
  <2>1. 0 \in Up
    OBVIOUS
  <2>2. ASSUME NEW i \in 0 .. n, i # n, i \in Up PROVE i + 1 \in Up
    <3>1. CASE i = 0
      BY <3>1
    <3>2. CASE i # 0
      <4>1. i \in 1 .. n /\ i + 1 \in 1 .. n /\ p[i] >= i
        BY <2>2, <3>2
      <4>2. p[i] \in Int /\ p[i + 1] \in Int /\ p[i] < p[i + 1]
        BY <4>1
      <4>. QED  BY <4>1, <4>2
    <3>. QED  BY <3>1, <3>2
  <2>. HIDE DEF Up
  <2>. QED  BY <2>1, <2>2, CountUp
<1>2. \A i \in 0 .. n : i \in Down
  <2>1. 0 \in Down
    OBVIOUS
  <2>2. ASSUME NEW i \in 0 .. n, i # n, i \in Down PROVE i + 1 \in Down
    <3>1. CASE n - (i + 1) = 0
      BY <3>1
    <3>2. CASE n - (i + 1) # 0
      <4>1. n - i \in 1 .. n /\ n - (i + 1) \in 1 .. n /\ p[n - i] <= n - i
        BY <2>2, <3>2
      <4>2. p[n - i] \in Int /\ p[n - (i + 1)] \in Int /\ p[n - (i + 1)] < p[n - i]
        BY <4>1
      <4>. QED  BY <4>1, <4>2
    <3>. QED  BY <3>1, <3>2
  <2>. HIDE DEF Down
  <2>. QED  BY <2>1, <2>2, CountUp
<1>. QED
  <2>. SUFFICES ASSUME NEW i \in 1 .. n PROVE p[i] = i
    OBVIOUS
  <2>1. i \in Up /\ n - i \in Down
    <3>1. i \in 0 .. n /\ n - i \in 0 .. n
      OBVIOUS
    <3>. HIDE DEF Up, Down
    <3>. QED  BY <1>1, <1>2, <3>1
  <2>2. n - (n - i) = i
    OBVIOUS
  <2>. QED  BY <2>1, <2>2

\* Rows numbered from 0 are read in the order of their numbers.
LEMMA RowsInOrder ==
    ASSUME NEW n \in Nat, NEW f, f = [i \in 1 .. n |-> f[i]],
           \A i \in 1 .. n : f[i].position = i - 1
    PROVE  ListOrderItemsByOrderID({f[i] : i \in 1 .. n}) = f
<1>. DEFINE R == {f[i] : i \in 1 .. n}
            Sorted(g) == \A i, j \in DOMAIN g : i < j => g[i].position < g[j].position
<1>1. ASSUME NEW i \in 1 .. n, NEW j \in 1 .. n, f[i] = f[j] PROVE i = j
  BY <1>1
<1>2. Cardinality(R) = n
  <2>1. f \in Bijection(1 .. n, R)
    <3>1. f \in [1 .. n -> R] /\ \A t \in R : \E i \in 1 .. n : f[i] = t
      OBVIOUS
    <3>. HIDE DEF R
    <3>. QED  BY <1>1, <3>1 DEF Bijection, Injection, Surjection, IsInjective
  <2>2. ExistsBijection(1 .. n, R)
    BY <2>1 DEF ExistsBijection
  <2>3. IsFiniteSet(1 .. n) /\ Cardinality(1 .. n) = n
    <3>1. /\ IsFiniteSet(1 .. n)
          /\ Cardinality(1 .. n) = IF 1 > n THEN 0 ELSE n - 1 + 1
      BY FS_Interval
    <3>. QED  BY <3>1
  <2>. HIDE DEF R
  <2>. QED  BY <2>2, <2>3, FS_Bijection
<1>3. f \in SetToSeqs(R) /\ Sorted(f)
  <2>1. f \in [1 .. n -> R] /\ Sorted(f)
    OBVIOUS
  <2>. HIDE DEF R
  <2>. QED  BY <1>1, <1>2, <2>1 DEF SetToSeqs
<1>4. ASSUME NEW g \in SetToSeqs(R), Sorted(g) PROVE g = f
  <2>1. g \in [1 .. n -> R]
    <3>. HIDE DEF R
    <3>. QED  BY <1>2 DEF SetToSeqs
  <2>. DEFINE p == [i \in 1 .. n |-> g[i].position + 1]
  <2>2. ASSUME NEW i \in 1 .. n PROVE p[i] \in 1 .. n /\ f[p[i]] = g[i]
    <3>1. PICK j \in 1 .. n : g[i] = f[j]
      BY <2>1
    <3>2. p[i] = j
      BY <3>1
    <3>. QED  BY <3>1, <3>2
  <2>3. \A i, j \in 1 .. n : i < j => p[i] < p[j]
    <3>1. ASSUME NEW i \in 1 .. n PROVE g[i].position \in Int
      BY <2>1
    <3>2. ASSUME NEW i \in 1 .. n, NEW j \in 1 .. n, i < j
          PROVE  g[i].position < g[j].position
      BY <1>4, <2>1, <3>2
    <3>. HIDE DEF R, Sorted
    <3>. QED  BY <3>1, <3>2
  <2>4. p \in [1 .. n -> 1 .. n]
    BY <2>2
  <2>5. \A i \in 1 .. n : p[i] = i
    <3>. HIDE DEF p
    <3>. QED  BY <2>3, <2>4, IncreasingIsIdentity
  <2>6. \A i \in 1 .. n : g[i] = f[i]
    <3>. HIDE DEF p
    <3>. QED  BY <2>2, <2>5
  <2>. QED  BY <2>1, <2>6
<1>. HIDE DEF R, Sorted
<1>5. ListOrderItemsByOrderID(R) = CHOOSE g \in SetToSeqs(R) : Sorted(g)
  BY DEF ListOrderItemsByOrderID, Sorted
<1>. QED  BY <1>3, <1>4, <1>5 DEF R

\* A line of the request, with its currency by name.
AskedLine(item) ==
    [product |-> TrimSpace(item.product), quantity |-> item.quantity, price |-> item.price,
     currency |-> normalizeCurrency(item.currency)]

\* The lines of a request that is passed on.
LEMMA AcceptedLines ==
    ASSUME NEW b, Accepted(b)
    PROVE  /\ Len(b.items) \in Nat \ {0} /\ DOMAIN b.items = 1 .. Len(b.items)
           /\ 1 \in 1 .. Len(b.items)
           /\ \A i \in 1 .. Len(b.items) :
                 /\ b.items[i].quantity \in Nat \ {0} /\ b.items[i].price \in Nat \ {0}
                 /\ normalizeCurrency(b.items[i].currency) # ""
<1>1. b.items \in Seq(Line) /\ b.items # <<>>
  BY CheckoutConstants DEF Accepted, ShouldBindJSON
<1>2. Len(b.items) \in Nat /\ DOMAIN b.items = 1 .. Len(b.items)
  BY <1>1
<1>3. Len(b.items) # 0
  BY <1>1
<1>4. ASSUME NEW i \in 1 .. Len(b.items)
      PROVE  b.items[i].quantity \in Int /\ b.items[i].price \in Int
  <2>1. b.items[i] \in Line
    BY <1>1, <1>4
  <2>. QED  BY <2>1 DEF Line
<1>5. ASSUME NEW i \in 1 .. Len(b.items)
      PROVE  /\ b.items[i].quantity > 0 /\ b.items[i].price > 0
             /\ normalizeCurrency(b.items[i].currency) # ""
  BY <1>2, <1>5 DEF Accepted, ValidCheckout
<1>6. ASSUME NEW x \in Int, x > 0 PROVE x \in Nat \ {0}
  BY <1>6
<1>7. ASSUME NEW i \in 1 .. Len(b.items)
      PROVE  b.items[i].quantity \in Nat \ {0} /\ b.items[i].price \in Nat \ {0}
  BY <1>4, <1>5, <1>6, Zenon
<1>8. Len(b.items) \in Nat \ {0} /\ 1 \in 1 .. Len(b.items)
  BY <1>2, <1>3
<1>. QED  BY <1>2, <1>5, <1>7, <1>8, Zenon

\* The order as order-service receives it.
LEMMA OrderLines ==
    ASSUME NEW b, Accepted(b)
    PROVE  /\ DOMAIN OrderOf(b).items = 1 .. Len(b.items)
           /\ \A i \in 1 .. Len(b.items) :
                 OrderOf(b).items[i] =
                    [product  |-> TrimSpace(b.items[i].product),
                     quantity |-> b.items[i].quantity,
                     price    |-> b.items[i].price,
                     currency |-> Value(Currency_name,
                                        normalizeCurrency(normalizeCurrency(b.items[i].currency)))]
<1>1. DOMAIN b.items = 1 .. Len(b.items)
  BY AcceptedLines
<1>2. OrderOf(b).items = mapCreateOrderItemsToProto(mapCheckoutItemsToOrderItems(b.items))
  BY DEF OrderOf
<1>3. /\ DOMAIN mapCheckoutItemsToOrderItems(b.items) = 1 .. Len(b.items)
      /\ \A i \in 1 .. Len(b.items) :
            mapCheckoutItemsToOrderItems(b.items)[i] = AskedLine(b.items[i])
  BY <1>1 DEF mapCheckoutItemsToOrderItems, AskedLine
<1>4. ASSUME NEW x, NEW y, NEW z, NEW c, NEW d
      PROVE  [[product |-> x, quantity |-> y, price |-> z, currency |-> c]
                 EXCEPT !.currency = d]
                = [product |-> x, quantity |-> y, price |-> z, currency |-> d]
  OBVIOUS
<1>. DEFINE items == mapCheckoutItemsToOrderItems(b.items)
            Number(c) == Value(Currency_name, normalizeCurrency(c))
<1>5. /\ DOMAIN OrderOf(b).items = 1 .. Len(b.items)
      /\ \A i \in 1 .. Len(b.items) :
            OrderOf(b).items[i] = [items[i] EXCEPT !.currency = Number(items[i].currency)]
  <2>. HIDE DEF mapCheckoutItemsToOrderItems
  <2>. QED  BY <1>2, <1>3 DEF mapCreateOrderItemsToProto
<1>6. ASSUME NEW i \in 1 .. Len(b.items)
      PROVE  OrderOf(b).items[i] =
                [product |-> TrimSpace(b.items[i].product),
                 quantity |-> b.items[i].quantity, price |-> b.items[i].price,
                 currency |-> Number(normalizeCurrency(b.items[i].currency))]
  <2>1. items[i] = AskedLine(b.items[i])
    BY <1>3, <1>6, Zenon
  <2>2. AskedLine(b.items[i]).currency = normalizeCurrency(b.items[i].currency)
    BY DEF AskedLine
  <2>3. OrderOf(b).items[i] = [AskedLine(b.items[i]) EXCEPT
                                 !.currency = Number(normalizeCurrency(b.items[i].currency))]
    BY <1>5, <1>6, <2>1, <2>2, Zenon
  <2>. HIDE DEF items, Number
  <2>. QED  BY <1>4, <2>3, Zenon DEF AskedLine
<1>. QED  BY <1>5, <1>6

\* What the client is shown of an order is what it asked for.
LEMMA OrderShown ==
    ASSUME NEW b, Accepted(b)
    PROVE  /\ OrderView(OrderOf(b)).customer = Asked(b).customer
           /\ OrderView(OrderOf(b)).address = Asked(b).address
           /\ OrderView(OrderOf(b)).items = Asked(b).items
<1>. DEFINE n == Len(b.items)
            order == OrderOf(b)
            Row(i) == [position |-> i - 1,
                       product  |-> order.items[i].product,
                       quantity |-> order.items[i].quantity,
                       price    |-> order.items[i].price,
                       currency |-> Currency_name[order.items[i].currency],
                       total    |-> LineTotal(order.items[i])]
            lines == [i \in 1 .. n |-> Row(i)]
<1>1. n \in Nat /\ DOMAIN b.items = 1 .. n /\ DOMAIN order.items = 1 .. n
  BY AcceptedLines, OrderLines
<1>2. insertOrderItems(order) = {lines[i] : i \in 1 .. n}
  <2>1. insertOrderItems(order) = {Row(i) : i \in 1 .. n}
    BY <1>1 DEF insertOrderItems
  <2>2. \A i \in 1 .. n : lines[i] = Row(i)
    OBVIOUS
  <2>. HIDE DEF lines, Row
  <2>. QED  BY <2>1, <2>2
<1>3. ListOrderItemsByOrderID(insertOrderItems(order)) = lines
  <2>1. lines = [i \in 1 .. n |-> lines[i]] /\ \A i \in 1 .. n : lines[i].position = i - 1
    OBVIOUS
  <2>. HIDE DEF lines, n, order
  <2>. QED  BY <1>1, <1>2, <2>1, RowsInOrder
<1>. DEFINE row == toOrderDBParams(order)
            read == mapDBOrder(row, lines)
            shown == mapProtoOrder(read)
<1>4. OrderView(order) = shown
  BY <1>3 DEF OrderView
<1>5. /\ shown.customer = order.customer /\ shown.address = order.address
      /\ shown.items = [i \in DOMAIN read.items |->
                          [read.items[i] EXCEPT !.currency = Currency_name[@]]]
  <2>1. /\ read.customer = order.customer /\ read.address = order.address
        /\ DOMAIN read = {"customer", "address", "total", "currency", "items"}
    <3>. HIDE DEF order, lines
    <3>. QED  BY DEF mapDBOrder, toOrderDBParams
  <2>2. ASSUME NEW r, NEW x, NEW y,
               {"customer", "address", "items"} \subseteq DOMAIN r
        PROVE  LET m == [r EXCEPT !.currency = x, !.items = y]
               IN  m.customer = r.customer /\ m.address = r.address /\ m.items = y
    BY <2>2
  <2>. HIDE DEF order, lines, read
  <2>3. {"customer", "address", "items"} \subseteq DOMAIN read
    BY <2>1
  <2>. DEFINE named == [i \in DOMAIN read.items |->
                          [read.items[i] EXCEPT !.currency = Currency_name[@]]]
  <2>4. shown = [read EXCEPT !.currency = Currency_name[read.currency], !.items = named]
    BY DEF mapProtoOrder
  <2>. HIDE DEF shown, named
  <2>5. shown.customer = read.customer /\ shown.address = read.address /\ shown.items = named
    BY <2>2, <2>3, <2>4, Zenon
  <2>. QED  BY <2>1, <2>5 DEF named
<1>6. read.items = [i \in 1 .. n |-> [product |-> lines[i].product,
                                      quantity |-> lines[i].quantity,
                                      price |-> lines[i].price,
                                      currency |-> Value(Currency_name, lines[i].currency)]]
  <2>1. DOMAIN lines = 1 .. n
    OBVIOUS
  <2>. HIDE DEF order, lines
  <2>. QED  BY <2>1 DEF mapDBOrder
<1>7. ASSUME NEW i \in 1 .. n PROVE shown.items[i] = AskedLine(b.items[i])
  <2>. DEFINE asked == AskedLine(b.items[i])
              name == normalizeCurrency(b.items[i].currency)
              number == Value(Currency_name, normalizeCurrency(name))
  <2>1. /\ asked.currency = name /\ name # ""
        /\ asked = [product |-> asked.product, quantity |-> asked.quantity,
                    price |-> asked.price, currency |-> name]
    BY AcceptedLines DEF AskedLine
  <2>2. order.items[i] = [product |-> asked.product, quantity |-> asked.quantity,
                          price |-> asked.price, currency |-> number]
    BY OrderLines DEF AskedLine
  <2>3. Currency_name[number] = name /\ Value(Currency_name, name) = number
    BY <2>1, CurrencyRoundTrip
  <2>. HIDE DEF asked, name, number, order
  <2>4. lines[i].product = asked.product /\ lines[i].quantity = asked.quantity
          /\ lines[i].price = asked.price /\ lines[i].currency = name
    <3>1. lines[i] = Row(i)
      OBVIOUS
    <3>. HIDE DEF lines
    <3>2. /\ order.items[i].product = asked.product
          /\ order.items[i].quantity = asked.quantity
          /\ order.items[i].price = asked.price /\ order.items[i].currency = number
      BY <2>2
    <3>3. /\ Row(i).product = order.items[i].product
          /\ Row(i).quantity = order.items[i].quantity
          /\ Row(i).price = order.items[i].price
          /\ Row(i).currency = Currency_name[order.items[i].currency]
      <4>. HIDE DEF Currency_name
      <4>. QED  OBVIOUS
    <3>. HIDE DEF Row
    <3>. QED  BY <2>3, <3>1, <3>2, <3>3, Zenon
  <2>. HIDE DEF lines
  <2>5. read.items[i] = [product |-> asked.product, quantity |-> asked.quantity,
                         price |-> asked.price, currency |-> number]
    BY <1>6, <2>3, <2>4
  <2>6. i \in DOMAIN read.items
    BY <1>6
  <2>. HIDE DEF read
  <2>7. shown.items[i] = [read.items[i] EXCEPT !.currency = Currency_name[@]]
    BY <1>5, <2>6
  <2>8. shown.items[i] = asked
    <3>1. ASSUME NEW x, NEW y, NEW z, NEW c
          PROVE  [[product |-> x, quantity |-> y, price |-> z, currency |-> c]
                     EXCEPT !.currency = Currency_name[@]]
                    = [product |-> x, quantity |-> y, price |-> z,
                       currency |-> Currency_name[c]]
      <4>. HIDE DEF Currency_name
      <4>. QED  OBVIOUS
    <3>. HIDE DEF shown, Currency_name
    <3>2. shown.items[i] = [product |-> asked.product, quantity |-> asked.quantity,
                            price |-> asked.price, currency |-> Currency_name[number]]
      BY <2>5, <2>7, <3>1
    <3>. QED  BY <2>1, <2>3, <3>2
  <2>. QED  BY <2>8 DEF asked
<1>8. shown.items = [i \in 1 .. n |-> AskedLine(b.items[i])]
  <2>1. shown.items = [i \in 1 .. n |-> shown.items[i]]
    <3>1. DOMAIN read.items = 1 .. n
      BY <1>6
    <3>. HIDE DEF read
    <3>2. DOMAIN shown.items = 1 .. n /\ shown.items = [i \in DOMAIN shown.items |-> shown.items[i]]
      BY <1>5, <3>1
    <3>. HIDE DEF shown
    <3>. QED  BY <3>2
  <2>. HIDE DEF shown
  <2>. QED  BY <1>7, <2>1
<1>9. Asked(b).items = [i \in 1 .. n |-> AskedLine(b.items[i])]
  BY <1>1 DEF Asked, AskedLine
<1>10. order.customer = Asked(b).customer /\ order.address = Asked(b).address
  BY DEF OrderOf, Asked
<1>. HIDE DEF shown, order
<1>. QED  BY <1>4, <1>5, <1>8, <1>9, <1>10 DEF order

\* A client that was answered 201 is shown the order it asked for, and one that was answered
\* 400 has stored nothing.
THEOREM AnswersTrue == Spec => []AnswerTellsTruth
<1>1. ASSUME CheckoutInv PROVE AnswerTellsTruth
  <2>1. ASSUME NEW a \in Attempts, Answered(a, 201)
        PROVE  LET shown == OrderView(orders[http[a].id].request)
                   asked == Asked(http[a].body)
               IN  /\ shown.customer = asked.customer /\ shown.address = asked.address
                   /\ shown.items = asked.items
    <3>1. Accepted(http[a].body) /\ orders[http[a].id].request = OrderOf(http[a].body)
      BY <1>1, <2>1 DEF CheckoutInv, AttemptsInv, AttemptOK, Answered, Fits
    <3>. QED  BY <3>1, OrderShown
  <2>2. ASSUME NEW a \in Attempts, Answered(a, 400) PROVE inserted[a] = {}
    BY <1>1, <2>2 DEF CheckoutInv, AttemptsInv, AttemptOK, Answered
  <2>. QED  BY <2>1, <2>2, Zenon DEF AnswerTellsTruth
<1>. QED  BY <1>1, CheckoutInductive, PTL DEF Spec

-----------------------------------------------------------------------------
(* Totals *)

\* One line is added to a sum: exactly, or as int64 values are.
Add(kind, sum, item) ==
    IF kind = "int64" THEN Wrap(sum + LineTotal(item)) ELSE sum + item.quantity * item.price

\* The sum of the lines at s, from those of the smaller sets in h.
SumAt(h, kind, items, s) ==
    IF s = {} THEN 0 ELSE Add(kind, h[s \ {Max(s)}], items[Max(s)])

IsFold(h, kind, items, n) == h = [s \in SUBSET (1 .. n) |-> SumAt(h, kind, items, s)]

\* The largest number of a set.
LEMMA MaxIsLast ==
    ASSUME NEW n \in Nat, NEW s \in SUBSET (1 .. n), n \in s
    PROVE  Max(s) = n
<1>1. \A y \in s : n >= y
  OBVIOUS
<1>2. ASSUME NEW x \in s, \A y \in s : x >= y PROVE x = n
  BY <1>1, <1>2
<1>. QED  BY <1>1, <1>2 DEF Max

\* The sums of one more line.
LEMMA FoldExtends ==
    ASSUME NEW m \in Nat, NEW kind, NEW items, NEW h, IsFold(h, kind, items, m)
    PROVE  \E g : IsFold(g, kind, items, m + 1)
<1>. DEFINE g == [s \in SUBSET (1 .. (m + 1)) |->
                    IF m + 1 \in s THEN Add(kind, h[s \ {m + 1}], items[m + 1]) ELSE h[s]]
<1>1. SUBSET (1 .. m) \subseteq SUBSET (1 .. (m + 1)) /\ \A s \in SUBSET (1 .. m) : m + 1 \notin s
  OBVIOUS
<1>2. \A s \in SUBSET (1 .. m) : g[s] = h[s]
  <2>. HIDE DEF Add
  <2>. QED  BY <1>1
<1>3. ASSUME NEW s \in SUBSET (1 .. (m + 1)) PROVE g[s] = SumAt(g, kind, items, s)
  <2>1. CASE m + 1 \in s
    <3>1. Max(s) = m + 1 /\ s \ {m + 1} \in SUBSET (1 .. m)
      BY <2>1, MaxIsLast
    <3>2. g[s] = Add(kind, h[s \ {m + 1}], items[m + 1])
      <4>. HIDE DEF Add
      <4>. QED  BY <2>1
    <3>3. g[s \ {m + 1}] = h[s \ {m + 1}]
      BY <1>2, <3>1
    <3>. HIDE DEF g, Add
    <3>. QED  BY <2>1, <3>1, <3>2, <3>3 DEF SumAt
  <2>2. CASE m + 1 \notin s
    <3>1. s \in SUBSET (1 .. m) /\ s \ {Max(s)} \in SUBSET (1 .. m)
      <4>1. s \in SUBSET (1 .. m)
        BY <1>3, <2>2
      <4>2. ASSUME NEW x PROVE s \ {x} \in SUBSET (1 .. m)
        BY <4>1
      <4>. QED  BY <4>1, <4>2, Zenon
    <3>2. g[s] = h[s] /\ g[s \ {Max(s)}] = h[s \ {Max(s)}]
      BY <1>2, <3>1
    <3>3. h[s] = SumAt(h, kind, items, s)
      <4>. HIDE DEF SumAt
      <4>. QED  BY <3>1 DEF IsFold
    <3>. HIDE DEF g, Add
    <3>. QED  BY <3>2, <3>3 DEF SumAt
  <2>. QED  BY <2>1, <2>2
<1>4. g = [s \in SUBSET (1 .. (m + 1)) |-> SumAt(g, kind, items, s)]
  <2>1. g = [s \in SUBSET (1 .. (m + 1)) |-> g[s]]
    <3>. HIDE DEF Add
    <3>. QED  OBVIOUS
  <2>. HIDE DEF g, SumAt
  <2>. QED  BY <1>3, <2>1
<1>. HIDE DEF g, SumAt
<1>. QED  BY <1>4 DEF IsFold

\* There are such sums for every number of lines.
LEMMA FoldExists ==
    ASSUME NEW n \in Nat, NEW kind, NEW items
    PROVE  \E h : IsFold(h, kind, items, n)
<1>. DEFINE G == {m \in Nat : \E h : IsFold(h, kind, items, m)}
<1>1. 0 \in G
  <2>. DEFINE h == [s \in SUBSET (1 .. 0) |-> 0]
  <2>1. SUBSET (1 .. 0) = {{}}
    OBVIOUS
  <2>2. \A s \in SUBSET (1 .. 0) : SumAt(h, kind, items, s) = 0
    BY <2>1 DEF SumAt
  <2>3. h = [s \in SUBSET (1 .. 0) |-> SumAt(h, kind, items, s)]
    <3>. HIDE DEF SumAt
    <3>. QED  BY <2>2
  <2>. HIDE DEF h, SumAt
  <2>. QED  BY <2>3 DEF IsFold
<1>2. ASSUME NEW m \in 0 .. n, m # n, m \in G PROVE m + 1 \in G
  <2>1. PICK h : IsFold(h, kind, items, m)
    BY <1>2
  <2>2. \E g : IsFold(g, kind, items, m + 1)
    BY <2>1, FoldExtends
  <2>. HIDE DEF IsFold
  <2>. QED  BY <2>2
<1>3. \A m \in 0 .. n : m \in G
  <2>. HIDE DEF G
  <2>. QED  BY <1>1, <1>2, CountUp
<1>. HIDE DEF IsFold
<1>. QED  BY <1>3

\* The sum of the first k lines.
LEMMA FoldPrefix ==
    ASSUME NEW n \in Nat, NEW kind, NEW items, NEW h, IsFold(h, kind, items, n)
    PROVE  /\ h[1 .. 0] = 0
           /\ \A k \in 1 .. n : h[1 .. k] = Add(kind, h[1 .. (k - 1)], items[k])
<1>1. \A s \in SUBSET (1 .. n) : h[s] = SumAt(h, kind, items, s)
  <2>. HIDE DEF SumAt
  <2>. QED  BY DEF IsFold
<1>2. 1 .. 0 = {} /\ 1 .. 0 \in SUBSET (1 .. n)
  OBVIOUS
<1>3. ASSUME NEW k \in 1 .. n PROVE h[1 .. k] = Add(kind, h[1 .. (k - 1)], items[k])
  <2>1. 1 .. k \in SUBSET (1 .. n) /\ k \in 1 .. k /\ (1 .. k) \ {k} = 1 .. (k - 1)
    OBVIOUS
  <2>2. Max(1 .. k) = k
    BY <2>1, MaxIsLast
  <2>. HIDE DEF Add
  <2>. QED  BY <1>1, <2>1, <2>2 DEF SumAt
<1>. QED  BY <1>1, <1>2, <1>3 DEF SumAt

\* The loop of CreateOrder.
LEMMA TotalIsFold ==
    ASSUME NEW n \in Nat, NEW order, DOMAIN order.items = 1 .. n
    PROVE  \E h : IsFold(h, "int64", order.items, n) /\ TotalAmount(order) = h[1 .. n]
<1>. DEFINE iter == CHOOSE i : i = [s \in SUBSET (1 .. n) |->
                        IF s = {} THEN 0
                        ELSE Wrap(i[s \ {Max(s)}] + LineTotal(order.items[Max(s)]))]
<1>1. iter = CHOOSE i : IsFold(i, "int64", order.items, n)
  BY DEF IsFold, SumAt, Add
<1>2. IsFold(iter, "int64", order.items, n)
  <2>. HIDE DEF IsFold, iter
  <2>. QED  BY <1>1, FoldExists
<1>3. TotalAmount(order) = iter[1 .. n]
  BY DEF TotalAmount, FoldLeft, MapThenFoldSet
<1>. HIDE DEF iter
<1>. QED  BY <1>2, <1>3

\* The sum without overflow.
LEMMA ExactIsFold ==
    ASSUME NEW n \in Nat, NEW order, DOMAIN order.items = 1 .. n
    PROVE  \E h : IsFold(h, "exact", order.items, n) /\ ExactTotal(order) = h[1 .. n]
<1>. DEFINE iter == CHOOSE i : i = [s \in SUBSET (1 .. n) |->
                        IF s = {} THEN 0
                        ELSE i[s \ {Max(s)}]
                               + order.items[Max(s)].quantity * order.items[Max(s)].price]
<1>1. iter = CHOOSE i : IsFold(i, "exact", order.items, n)
  BY DEF IsFold, SumAt, Add
<1>2. IsFold(iter, "exact", order.items, n)
  <2>. HIDE DEF IsFold, iter
  <2>. QED  BY <1>1, FoldExists
<1>3. ExactTotal(order) = iter[1 .. n]
  BY DEF ExactTotal, FoldLeft, MapThenFoldSet
<1>. HIDE DEF iter
<1>. QED  BY <1>2, <1>3

\* A number that fits into an int64 is not changed.
LEMMA WrapFits ==
    ASSUME NEW x \in Nat, x <= MaxInt64
    PROVE  Wrap(x) = x
<1>1. MaxInt64 \in Nat
  BY CheckoutConstants
<1>2. ASSUME NEW h \in Nat, x < h PROVE ((x + h) % (2 * h)) - h = x
  BY <1>2
<1>3. x + MaxInt64 + 1 = x + (MaxInt64 + 1) /\ MaxInt64 + 1 \in Nat /\ x < MaxInt64 + 1
  BY <1>1
<1>. QED  BY <1>2, <1>3 DEF Wrap

\* A sum that fits is computed exactly: no addition on the way to it overflows.
LEMMA TotalExact ==
    ASSUME NEW n \in Nat, NEW order, NEW body,
           DOMAIN order.items = 1 .. n, DOMAIN body.items = 1 .. n,
           \A i \in 1 .. n : /\ order.items[i].quantity = body.items[i].quantity
                             /\ order.items[i].price = body.items[i].price
                             /\ body.items[i].quantity * body.items[i].price \in Nat,
           ExactTotal(body) <= MaxInt64
    PROVE  TotalAmount(order) = ExactTotal(body)
<1>1. PICK h : IsFold(h, "int64", order.items, n) /\ TotalAmount(order) = h[1 .. n]
  BY TotalIsFold
<1>2. PICK e : IsFold(e, "exact", body.items, n) /\ ExactTotal(body) = e[1 .. n]
  BY ExactIsFold
<1>. DEFINE G == {j \in Nat : /\ e[1 .. j] \in Nat
                              /\ e[1 .. j] <= MaxInt64 => h[1 .. j] = e[1 .. j]}
<1>3. 0 \in G
  <2>1. h[1 .. 0] = 0 /\ e[1 .. 0] = 0
    BY <1>1, <1>2, FoldPrefix
  <2>. QED  BY <2>1
<1>4. ASSUME NEW j \in 0 .. n, j # n, j \in G PROVE j + 1 \in G
  <2>. DEFINE k == j + 1
              x == body.items[k].quantity * body.items[k].price
  <2>1. k \in 1 .. n /\ k \in Nat /\ k - 1 = j
    BY <1>4
  <2>2. /\ h[1 .. k] = Add("int64", h[1 .. (k - 1)], order.items[k])
        /\ e[1 .. k] = Add("exact", e[1 .. (k - 1)], body.items[k])
    <3>. HIDE DEF k, Add
    <3>1. \A i \in 1 .. n : h[1 .. i] = Add("int64", h[1 .. (i - 1)], order.items[i])
      BY <1>1, FoldPrefix
    <3>2. \A i \in 1 .. n : e[1 .. i] = Add("exact", e[1 .. (i - 1)], body.items[i])
      BY <1>2, FoldPrefix
    <3>. QED  BY <2>1, <3>1, <3>2, Zenon
  <2>. HIDE DEF k
  <2>3. h[1 .. k] = Wrap(h[1 .. j] + Wrap(x)) /\ e[1 .. k] = e[1 .. j] + x /\ x \in Nat
    <3>. HIDE DEF Wrap
    <3>. QED  BY <2>1, <2>2 DEF Add, LineTotal
  <2>4. e[1 .. j] \in Nat /\ (e[1 .. j] <= MaxInt64 => h[1 .. j] = e[1 .. j])
    BY <1>4
  <2>. HIDE DEF x
  <2>5. e[1 .. k] \in Nat
    BY <2>3, <2>4
  <2>6. ASSUME e[1 .. k] <= MaxInt64 PROVE h[1 .. k] = e[1 .. k]
    <3>1. x <= MaxInt64 /\ e[1 .. j] <= MaxInt64
      BY <2>3, <2>4, <2>6, CheckoutConstants
    <3>2. h[1 .. j] = e[1 .. j] /\ Wrap(x) = x
      BY <2>3, <2>4, <3>1, WrapFits
    <3>3. Wrap(e[1 .. k]) = e[1 .. k]
      BY <2>5, <2>6, WrapFits
    <3>. HIDE DEF Wrap
    <3>. QED  BY <2>3, <3>2, <3>3
  <2>7. k \in G
    BY <2>1, <2>5, <2>6
  <2>. QED  BY <2>7 DEF k
<1>5. \A j \in 0 .. n : j \in G
  <2>. HIDE DEF G
  <2>. QED  BY <1>3, <1>4, CountUp
<1>6. n \in G
  <2>. HIDE DEF G
  <2>. QED  BY <1>5
<1>. QED  BY <1>1, <1>2, <1>6

\* The payment of an order is shown with the total of the order, in its currency and with
\* its method, after their names have been parsed and formatted twice.
LEMMA PaymentShown ==
    ASSUME NEW b, Accepted(b)
    PROVE  LET shown == PaymentView(PaymentOf(OrderOf(b)))
           IN  /\ shown.amount = TotalAmount(OrderOf(b))
               /\ shown.currency = normalizeCurrency(b.items[1].currency)
               /\ shown.method = normalizePaymentMethod(b.method)
<1>. DEFINE order == OrderOf(b)
            currency == normalizeCurrency(b.items[1].currency)
            method == normalizePaymentMethod(b.method)
            c == Value(Currency_name, normalizeCurrency(currency))
            m == Value(PaymentMethodType_name, method)
            amount == TotalAmount(order)
<1>1. order.items[1].currency = c /\ order.method = m
  <2>1. 1 \in 1 .. Len(b.items)
    BY AcceptedLines, Zenon
  <2>2. order.items[1] = [product |-> TrimSpace(b.items[1].product),
                          quantity |-> b.items[1].quantity, price |-> b.items[1].price,
                          currency |-> c]
    BY <2>1, OrderLines, Zenon
  <2>3. order.method = m
    BY DEF OrderOf
  <2>. HIDE DEF c
  <2>. QED  BY <2>2, <2>3
<1>2. /\ Currency_name[c] = currency /\ Value(PaymentV1Currency_name, currency) = c
      /\ PaymentV1Currency_name[c] = currency
  <2>1. 1 \in 1 .. Len(b.items)
    BY AcceptedLines, Zenon
  <2>2. currency # ""
    BY <2>1, AcceptedLines, Zenon
  <2>. QED  BY <2>2, CurrencyRoundTrip, Zenon
<1>3. /\ PaymentMethodType_name[m] = method /\ Value(PaymentV1MethodType_name, method) = m
      /\ PaymentV1MethodType_name[m] = method
  <2>1. method # ""
    BY DEF Accepted, ValidCheckout
  <2>. QED  BY <2>1, MethodRoundTrip, Zenon
<1>. HIDE DEF order, currency, method, c, m, amount
<1>4. InventoryReservedPayload(OrderCreatedPayload(order))
        = [amount |-> amount, currency |-> currency, method |-> method]
  BY <1>1, <1>2, <1>3 DEF InventoryReservedPayload, OrderCreatedPayload, amount
<1>. DEFINE numbers == [amount |-> amount, currency |-> c, method |-> m]
            names == [amount |-> amount, currency |-> currency, method |-> method]
<1>5. createPayment(names) = numbers
  BY <1>2, <1>3 DEF createPayment
<1>. DEFINE fields == {"amount", "currency", "method"}
<1>6. toPaymentDBParams(numbers) = names
  <2>. DEFINE r == toPaymentDBParams(numbers)
  <2>1. DOMAIN r = fields /\ r = [f \in DOMAIN r |-> r[f]]
    BY DEF toPaymentDBParams
  <2>2. r.amount = amount /\ r.currency = currency /\ r.method = method
    BY <1>2, <1>3 DEF toPaymentDBParams
  <2>. HIDE DEF r
  <2>3. r = names
    BY <2>1, <2>2
  <2>. QED  BY <2>3 DEF r
<1>7. mapDBPayment(names) = numbers
  <2>. DEFINE r == mapDBPayment(names)
  <2>1. DOMAIN r = fields /\ r = [f \in DOMAIN r |-> r[f]]
    BY DEF mapDBPayment
  <2>2. r.amount = amount /\ r.currency = c /\ r.method = m
    BY <1>2, <1>3 DEF mapDBPayment
  <2>. HIDE DEF r
  <2>3. r = numbers
    BY <2>1, <2>2
  <2>. QED  BY <2>3 DEF r
<1>8. PaymentView(PaymentOf(order)) = names
  <2>. HIDE DEF numbers
  <2>. QED  BY <1>4, <1>5, <1>6, <1>7, Zenon DEF PaymentOf, PaymentView, mapProtoPayment
<1>9. names.amount = amount /\ names.currency = currency /\ names.method = method
  OBVIOUS
<1>. HIDE DEF names
<1>. QED  BY <1>8, <1>9 DEF order, currency, method, amount

\* All lines of an order in one currency were asked for in one currency.
LEMMA OneCurrencyAsked ==
    ASSUME NEW b, Accepted(b), OneCurrency(OrderOf(b)), NEW i \in 1 .. Len(b.items)
    PROVE  normalizeCurrency(b.items[i].currency) = normalizeCurrency(b.items[1].currency)
<1>. DEFINE name(j) == normalizeCurrency(b.items[j].currency)
            number(j) == Value(Currency_name, normalizeCurrency(name(j)))
<1>1. 1 \in 1 .. Len(b.items) /\ DOMAIN OrderOf(b).items = 1 .. Len(b.items)
  BY AcceptedLines, OrderLines, Zenon
<1>2. ASSUME NEW j \in 1 .. Len(b.items)
      PROVE  OrderOf(b).items[j].currency = number(j) /\ Currency_name[number(j)] = name(j)
  <2>1. OrderOf(b).items[j] = [product |-> TrimSpace(b.items[j].product),
                               quantity |-> b.items[j].quantity, price |-> b.items[j].price,
                               currency |-> number(j)]
    BY <1>2, OrderLines, Zenon
  <2>2. name(j) # ""
    BY <1>2, AcceptedLines, Zenon
  <2>3. Currency_name[number(j)] = name(j)
    BY <2>2, CurrencyRoundTrip, Zenon
  <2>. HIDE DEF number, name
  <2>. QED  BY <2>1, <2>3
<1>3. OrderOf(b).items[i].currency = OrderOf(b).items[1].currency
  BY <1>1 DEF OneCurrency
<1>4. number(i) = number(1)
  BY <1>1, <1>2, <1>3, Zenon
<1>5. name(i) = Currency_name[number(i)] /\ name(1) = Currency_name[number(1)]
  BY <1>1, <1>2, Zenon
<1>6. name(i) = name(1)
  <2>. HIDE DEF name, number
  <2>. QED  BY <1>4, <1>5, Zenon
<1>. QED  BY <1>6

\* The client is charged the sum of the lines it asked for, in their currency and by its
\* method; the amount is positive, even where the sum is too large for it.
THEOREM ChargesTrue == Spec => []ChargedAsAsked
<1>1. ASSUME CheckoutInv, NEW a \in Attempts, NEW o \in inserted[a], payments[o] # NoPayment
      PROVE  LET shown == PaymentView(payments[o])
                 body  == http[a].body
             IN  /\ shown.method = normalizePaymentMethod(body.method)
                 /\ \A i \in DOMAIN body.items :
                       shown.currency = normalizeCurrency(body.items[i].currency)
                 /\ shown.amount > 0
                 /\ ExactTotal(body) <= MaxInt64 => shown.amount = ExactTotal(body)
  <2>. DEFINE b == http[a].body
              order == OrderOf(b)
              n == Len(b.items)
  <2>1. /\ Accepted(b) /\ Fits(orders, o, b) /\ OneCurrency(order) /\ Storable(order)
    BY <1>1 DEF CheckoutInv, AttemptsInv, AttemptOK
  <2>2. payments[o] = PaymentOf(order)
    BY <1>1, <2>1 DEF CheckoutInv, PaymentsInv, Fits
  <2>3. n \in Nat /\ DOMAIN b.items = 1 .. n /\ DOMAIN order.items = 1 .. n
    BY <2>1, AcceptedLines, OrderLines
  <2>. DEFINE shown == PaymentView(payments[o])
  <2>4. /\ shown.amount = TotalAmount(order)
        /\ shown.currency = normalizeCurrency(b.items[1].currency)
        /\ shown.method = normalizePaymentMethod(b.method)
    BY <2>1, <2>2, PaymentShown, Zenon
  <2>5. ASSUME NEW i \in DOMAIN b.items
        PROVE  shown.currency = normalizeCurrency(b.items[i].currency)
    <3>1. normalizeCurrency(b.items[i].currency) = normalizeCurrency(b.items[1].currency)
      BY <2>1, <2>3, <2>5, OneCurrencyAsked, Zenon
    <3>. QED  BY <2>4, <3>1, Zenon
  <2>6. shown.amount > 0
    BY <2>1, <2>4, Zenon DEF Storable
  <2>7. ASSUME ExactTotal(b) <= MaxInt64 PROVE shown.amount = ExactTotal(b)
    <3>1. ASSUME NEW i \in 1 .. n
          PROVE  /\ order.items[i].quantity = b.items[i].quantity
                 /\ order.items[i].price = b.items[i].price
                 /\ b.items[i].quantity * b.items[i].price \in Nat
      <4>1. b.items[i].quantity \in Nat \ {0} /\ b.items[i].price \in Nat \ {0}
        BY <2>1, <3>1, AcceptedLines, Zenon
      <4>2. ASSUME NEW x \in Nat \ {0}, NEW y \in Nat \ {0} PROVE x * y \in Nat
        OBVIOUS
      <4>. DEFINE number == Value(Currency_name,
                              normalizeCurrency(normalizeCurrency(b.items[i].currency)))
      <4>3. order.items[i] = [product |-> TrimSpace(b.items[i].product),
                              quantity |-> b.items[i].quantity, price |-> b.items[i].price,
                              currency |-> number]
        BY <2>1, <3>1, OrderLines, Zenon
      <4>. HIDE DEF b, order, number
      <4>4. b.items[i].quantity * b.items[i].price \in Nat
        BY <4>1, <4>2, Zenon
      <4>. QED  BY <4>3, <4>4
    <3>. HIDE DEF b, order, n
    <3>2. TotalAmount(order) = ExactTotal(b)
      BY <2>3, <2>7, <3>1, TotalExact
    <3>. QED  BY <2>4, <3>2, Zenon
  <2>. HIDE DEF shown
  <2>. QED  BY <2>4, <2>5, <2>6, <2>7, Zenon DEF shown
<1>2. CheckoutInv => ChargedAsAsked
  BY <1>1, Zenon DEF ChargedAsAsked
<1>. QED  BY <1>2, CheckoutInductive, PTL DEF Spec

-----------------------------------------------------------------------------
(* Order cancellation *)

Flying(r) == pc[r] \in {"perform", "finish"}

\* Who leads: a request with a key at order-service owns the map's entry for its
\* key, and so does the leader of a record that was closed with a result.
LeaderInMap ==
    \A r \in Requests :
        /\ Flying(r) /\ KeyOf[r] # NoHeader => cancelIdempotency[KeyOf[r]] = r
        /\ record[r] = "result" => KeyOf[r] # NoHeader /\ cancelIdempotency[KeyOf[r]] = r

\* The map's entry of a key names a request with that key, whose call is under way or
\* succeeded.
MapNamesLeader ==
    \A k \in Keys : cancelIdempotency[k] # NoRecord =>
        /\ KeyOf[cancelIdempotency[k]] = k
        /\ record[cancelIdempotency[k]] = "result" \/ Flying(cancelIdempotency[k])

\* A record is closed when its leader is done.
ClosedIsDone == \A r \in Requests : record[r] # "open" => pc[r] = "answered"

\* A leader about to close its record has an outcome to put in it.
FinishHasOutcome ==
    \A r \in Requests : pc[r] = "finish" =>
        KeyOf[r] # NoHeader /\ answer[r] \in {"result", "error"}

\* A waiting request waits for a record of the same cancellation.
WaitsForSame ==
    \A r \in Requests :
        /\ pc[r] = "wait" => follows[r] # NoRecord
        /\ follows[r] # NoRecord =>
              PrintOf[follows[r]] = PrintOf[r] /\ KeyOf[follows[r]] = KeyOf[r]

\* The inductive invariant.
GatewayInv ==
    /\ TypeOK
    /\ LeaderInMap
    /\ MapNamesLeader
    /\ ClosedIsDone
    /\ FinishHasOutcome
    /\ WaitsForSame

-----------------------------------------------------------------------------

\* A gateway that just started keeps no records and has no requests under way.
LEMMA GatewayInit == CancelInit => GatewayInv
<1>. SUFFICES ASSUME CancelInit PROVE GatewayInv
  OBVIOUS
<1>1. TypeOK
  BY DEF CancelInit, TypeOK
<1>2. /\ \A r \in Requests : pc[r] = "start" /\ record[r] = "open" /\ follows[r] = NoRecord
      /\ \A k \in Keys : cancelIdempotency[k] = NoRecord
  BY DEF CancelInit
<1>. QED  BY <1>1, <1>2 DEF GatewayInv, LeaderInMap, MapNamesLeader, ClosedIsDone,
               FinishHasOutcome, WaitsForSame, Flying

\* A request without a key goes to order-service and touches no record.
LEMMA PerformWithoutKeyStep ==
    ASSUME GatewayInv, NEW r \in Requests, PerformWithoutKey(r)
    PROVE  GatewayInv'
<1>. USE DEF GatewayInv, PerformWithoutKey
<1>1. TypeOK'
  BY DEF TypeOK
<1>2. \A s \in Requests : pc'[s] = IF s = r THEN "perform" ELSE pc[s]
  BY DEF TypeOK
<1>3. LeaderInMap'
  BY <1>2 DEF LeaderInMap, Flying
<1>4. MapNamesLeader'
  BY <1>2 DEF MapNamesLeader, Flying, TypeOK
<1>5. ClosedIsDone' /\ FinishHasOutcome' /\ WaitsForSame'
  BY <1>2 DEF ClosedIsDone, FinishHasOutcome, WaitsForSame
<1>. QED  BY <1>1, <1>3, <1>4, <1>5

\* The first request of its key: nobody else of the key is at order-service, because
\* whoever is owns the map's entry.
LEMMA LeadStep ==
    ASSUME GatewayInv, NEW r \in Requests, Lead(r)
    PROVE  GatewayInv'
<1>. USE DEF GatewayInv, Lead
<1>0. KeyOf[r] \in Keys
  BY GatewayConstants
<1>1. TypeOK'
  BY <1>0 DEF TypeOK
<1>2. \A s \in Requests : pc'[s] = IF s = r THEN "perform" ELSE pc[s]
  BY DEF TypeOK
<1>3. \A k \in Keys : cancelIdempotency'[k] = IF k = KeyOf[r] THEN r ELSE cancelIdempotency[k]
  BY DEF TypeOK
<1>4. LeaderInMap'
  <2>. SUFFICES ASSUME NEW s \in Requests, s # r, KeyOf[s] = KeyOf[r]
                PROVE  ~Flying(s) /\ record[s] # "result"
    BY <1>0, <1>2, <1>3, GatewayConstants DEF LeaderInMap, Flying, ClosedIsDone
  <2>. QED  BY GatewayConstants DEF LeaderInMap
<1>5. MapNamesLeader'
  BY <1>0, <1>2, <1>3 DEF MapNamesLeader, Flying, TypeOK
<1>6. ClosedIsDone' /\ FinishHasOutcome' /\ WaitsForSame'
  BY <1>2 DEF ClosedIsDone, FinishHasOutcome, WaitsForSame
<1>. QED  BY <1>1, <1>4, <1>5, <1>6

\* A later request of the key waits.
LEMMA FollowStep ==
    ASSUME GatewayInv, NEW r \in Requests, Follow(r)
    PROVE  GatewayInv'
<1>. USE DEF GatewayInv, Follow, SameRequest
<1>0. KeyOf[r] \in Keys
  BY GatewayConstants
<1>. DEFINE lead == cancelIdempotency[KeyOf[r]]
<1>1. TypeOK'
  BY <1>0 DEF TypeOK
<1>2. \A s \in Requests : /\ pc'[s] = IF s = r THEN "wait" ELSE pc[s]
                          /\ follows'[s] = IF s = r THEN lead ELSE follows[s]
  BY DEF TypeOK
<1>3. LeaderInMap'
  BY <1>2 DEF LeaderInMap, Flying
<1>4. MapNamesLeader'
  BY <1>2 DEF MapNamesLeader, Flying, TypeOK
<1>5. ClosedIsDone' /\ FinishHasOutcome'
  BY <1>2 DEF ClosedIsDone, FinishHasOutcome
<1>6. WaitsForSame'
  BY <1>0, <1>2 DEF WaitsForSame, MapNamesLeader
<1>. QED  BY <1>1, <1>3, <1>4, <1>5, <1>6

\* A request that is answered without having led: with a conflict, or with the answer
\* of the record it waited for.
LEMMA AnsweredStep ==
    ASSUME GatewayInv, NEW r \in Requests, Conflict(r) \/ Wake(r)
    PROVE  GatewayInv'
<1>. USE DEF GatewayInv
<1>1. PICK a \in {"result", "error", "conflict"} : answer' = [answer EXCEPT ![r] = a]
  BY DEF Conflict, Wake, TypeOK, WaitsForSame
<1>2. /\ pc[r] \in {"start", "wait"}
      /\ pc' = [pc EXCEPT ![r] = "answered"]
      /\ UNCHANGED <<cancelIdempotency, record, follows>>
  BY DEF Conflict, Wake
<1>3. TypeOK'
  BY <1>1, <1>2 DEF TypeOK
<1>4. \A s \in Requests : /\ pc'[s] = IF s = r THEN "answered" ELSE pc[s]
                          /\ answer'[s] = IF s = r THEN a ELSE answer[s]
  BY <1>1, <1>2 DEF TypeOK
<1>5. LeaderInMap'
  BY <1>2, <1>4 DEF LeaderInMap, Flying
<1>6. MapNamesLeader'
  BY <1>2, <1>4 DEF MapNamesLeader, Flying, TypeOK
<1>7. ClosedIsDone' /\ FinishHasOutcome' /\ WaitsForSame'
  BY <1>2, <1>4 DEF ClosedIsDone, FinishHasOutcome, WaitsForSame
<1>. QED  BY <1>3, <1>5, <1>6, <1>7

\* The call returns; a request with a key still owns its entry.
LEMMA PerformStep ==
    ASSUME GatewayInv, NEW r \in Requests, performCancelOrder(r)
    PROVE  GatewayInv'
<1>. USE DEF GatewayInv
<1>1. PICK a \in {"result", "error"} : answer' = [answer EXCEPT ![r] = a]
  BY DEF performCancelOrder
<1>2. /\ pc[r] = "perform"
      /\ pc' = [pc EXCEPT ![r] = IF KeyOf[r] = NoHeader THEN "answered" ELSE "finish"]
      /\ UNCHANGED <<cancelIdempotency, record, follows>>
  BY DEF performCancelOrder
<1>3. TypeOK'
  BY <1>1, <1>2 DEF TypeOK
<1>4. \A s \in Requests :
         /\ pc'[s] = IF s # r THEN pc[s] ELSE IF KeyOf[r] = NoHeader THEN "answered" ELSE "finish"
         /\ answer'[s] = IF s = r THEN a ELSE answer[s]
  BY <1>1, <1>2 DEF TypeOK
<1>5. LeaderInMap'
  BY <1>2, <1>4 DEF LeaderInMap, Flying
<1>6. MapNamesLeader'
  BY <1>2, <1>4, GatewayConstants DEF MapNamesLeader, Flying, TypeOK
<1>7. ClosedIsDone' /\ FinishHasOutcome' /\ WaitsForSame'
  BY <1>2, <1>4 DEF ClosedIsDone, FinishHasOutcome, WaitsForSame
<1>. QED  BY <1>3, <1>5, <1>6, <1>7

\* The leader closes its record: a result stays in the map, an error gives the key
\* free.
LEMMA FinishStep ==
    ASSUME GatewayInv, NEW r \in Requests, finishCancelIdempotency(r)
    PROVE  GatewayInv'
<1>. USE DEF GatewayInv, finishCancelIdempotency
<1>0. /\ KeyOf[r] \in Keys /\ answer[r] \in {"result", "error"}
      /\ cancelIdempotency[KeyOf[r]] = r
  BY GatewayConstants DEF FinishHasOutcome, LeaderInMap, Flying
<1>1. TypeOK'
  BY <1>0 DEF TypeOK
<1>2. \A s \in Requests : /\ pc'[s] = IF s = r THEN "answered" ELSE pc[s]
                          /\ record'[s] = IF s = r THEN answer[r] ELSE record[s]
  BY DEF TypeOK
<1>3. \A k \in Keys :
         cancelIdempotency'[k] = IF answer[r] = "error" /\ k = KeyOf[r]
                                 THEN NoRecord ELSE cancelIdempotency[k]
  BY DEF TypeOK
<1>4. LeaderInMap'
  <2>. SUFFICES ASSUME NEW s \in Requests, s # r,
                       KeyOf[s] # NoHeader, Flying(s) \/ record[s] = "result"
                PROVE  KeyOf[s] \in Keys /\ KeyOf[s] # KeyOf[r]
    BY <1>0, <1>2, <1>3, GatewayConstants DEF LeaderInMap, Flying
  <2>. QED  BY <1>0, GatewayConstants DEF LeaderInMap
<1>5. MapNamesLeader'
  BY <1>0, <1>2, <1>3 DEF MapNamesLeader, Flying, TypeOK
<1>6. ClosedIsDone' /\ FinishHasOutcome' /\ WaitsForSame'
  BY <1>2 DEF ClosedIsDone, FinishHasOutcome, WaitsForSame
<1>. QED  BY <1>1, <1>4, <1>5, <1>6

\* A restart empties the map and closes nothing.
LEMMA RestartStep ==
    ASSUME GatewayInv, Restart
    PROVE  GatewayInv'
<1>. USE DEF GatewayInv, Restart
<1>1. TypeOK'
  BY DEF TypeOK
<1>2. /\ \A r \in Requests : pc'[r] \in {"start", "lost"} /\ record'[r] = "open"
                             /\ follows'[r] = NoRecord
      /\ \A k \in Keys : cancelIdempotency'[k] = NoRecord
  BY DEF TypeOK
<1>. QED  BY <1>1, <1>2 DEF LeaderInMap, MapNamesLeader, ClosedIsDone,
               FinishHasOutcome, WaitsForSame, Flying

\* GatewayInv is inductive.
LEMMA GatewayInductive ==
    /\ CancelInit => GatewayInv
    /\ GatewayInv /\ [CancelNext]_cancelVars => GatewayInv'
<1>1. ASSUME GatewayInv, UNCHANGED cancelVars PROVE GatewayInv'
  BY <1>1 DEF cancelVars, GatewayInv, TypeOK, LeaderInMap, MapNamesLeader, ClosedIsDone,
              FinishHasOutcome, WaitsForSame, Flying
<1>2. ASSUME GatewayInv, CancelNext PROVE GatewayInv'
  BY <1>2, PerformWithoutKeyStep, LeadStep, FollowStep, AnsweredStep, PerformStep,
     FinishStep, RestartStep, Zenon DEF CancelNext
<1>. QED  BY <1>1, <1>2, GatewayInit

\* Every reachable state is well typed.
THEOREM GatewayTypeCorrect == CancelSpec => []TypeOK
<1>1. GatewayInv => TypeOK
  BY DEF GatewayInv
<1>. QED  BY <1>1, GatewayInductive, PTL DEF CancelSpec

\* At most one request of a key is at order-service, although the mutex is not held
\* during the call: both would own the map's one entry for the key.
THEOREM SingleFlightHolds == CancelSpec => []SingleFlight
<1>1. GatewayInv => SingleFlight
  BY DEF GatewayInv, LeaderInMap, SingleFlight, Flying
<1>. QED  BY <1>1, GatewayInductive, PTL DEF CancelSpec

\* A key has one successful cancellation between two restarts, and a copied result is
\* that of the same cancellation.
THEOREM OneResult == CancelSpec => []OneResultPerKey
<1>1. GatewayInv => OneResultPerKey
  BY GatewayConstants DEF GatewayInv, LeaderInMap, WaitsForSame, OneResultPerKey, TypeOK
<1>. QED  BY <1>1, GatewayInductive, PTL DEF CancelSpec

\* A key in the map belongs to a call under way or to one that succeeded.
THEOREM ErrorRetried == CancelSpec => []ErrorIsRetried
<1>1. GatewayInv => ErrorIsRetried
  BY DEF GatewayInv, MapNamesLeader, ErrorIsRetried, Flying
<1>. QED  BY <1>1, GatewayInductive, PTL DEF CancelSpec

=============================================================================
