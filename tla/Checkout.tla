--------------------------------- MODULE Checkout ---------------------------------
(***************************************************************************)
(* POST /checkout from the HTTP request to the payment: the gateway checks *)
(* and converts the request, calls CreateOrder of order-service with a     *)
(* deadline and turns the outcome into a status code; the order is stored, *)
(* its event carries amount and payment method through inventory-service   *)
(* to payment-service, and GET routes show order and payment to the        *)
(* client.                                                                 *)
(*                                                                         *)
(* CreateOrder is that of OrderService; what the reservation and the       *)
(* payment go through is the business of Saga.  Here the data is real:     *)
(* texts with blanks, names and numbers of enums, and amounts of a fixed   *)
(* width.  An attempt is one HTTP request; a client that retries makes     *)
(* another attempt with the same key, while the first may still be served. *)
(***************************************************************************)
EXTENDS Integers, Sequences, SequencesExt, FiniteSetsExt

CONSTANTS Attempts,
          Bodies,       \* request bodies: customer, address, method, items and key
          OrderIDs, NoOrder, NoPayment, NoKey, None,
          Padded,       \* texts with blanks around them, and what TrimSpace leaves
          Upper,        \* texts with small letters, and what ToUpper makes of them
          MaxInt64      \* largest amount

\* A line of a request body.
Line == [product : STRING, quantity : Int, price : Int, currency : STRING]

TrimSpace(t) == IF t \in DOMAIN Padded THEN Padded[t] ELSE t
ToUpper(t) == IF t \in DOMAIN Upper THEN Upper[t] ELSE t

-----------------------------------------------------------------------------
(* Enums *)

\* Currency and PaymentMethodType of order.v1, by number; 0 is UNSPECIFIED.
Currency_name == <<"CURRENCY_USD", "CURRENCY_EUR">>
PaymentMethodType_name == <<"PAYMENT_METHOD_TYPE_CARD", "PAYMENT_METHOD_TYPE_CASH">>

\* The enums of payment.v1 are types of their own.
PaymentV1Currency_name == <<"CURRENCY_USD", "CURRENCY_EUR">>
PaymentV1MethodType_name == <<"PAYMENT_METHOD_TYPE_CARD", "PAYMENT_METHOD_TYPE_CASH">>

\* The number of a name, 0 if it has none.
Value(names, t) == Max({0} \cup {n \in DOMAIN names : names[n] = t})

-----------------------------------------------------------------------------
(* Gateway: from the body to the gRPC request *)

\* The `required` tags of CheckoutRequest and of the structs in it.  Those of an
\* item are not checked: the slice has no `dive`.
ShouldBindJSON(b) ==
    b.customer # "" /\ b.items # <<>> /\ b.address # "" /\ b.method # ""

normalizeCurrency(t) ==
    CASE ToUpper(TrimSpace(t)) \in {"USD", "CURRENCY_USD"} -> "CURRENCY_USD"
      [] ToUpper(TrimSpace(t)) \in {"EUR", "CURRENCY_EUR"} -> "CURRENCY_EUR"
      [] OTHER -> ""

normalizePaymentMethod(t) ==
    CASE ToUpper(TrimSpace(t)) \in {"CARD", "PAYMENT_METHOD_TYPE_CARD"}
            -> "PAYMENT_METHOD_TYPE_CARD"
      [] ToUpper(TrimSpace(t)) \in {"CASH", "PAYMENT_METHOD_TYPE_CASH"}
            -> "PAYMENT_METHOD_TYPE_CASH"
      [] OTHER -> ""

\* What Checkout refuses: blank texts, lines without product, quantity or price,
\* unknown currencies and payment methods.
ValidCheckout(b) ==
    /\ TrimSpace(b.customer) # "" /\ TrimSpace(b.address) # ""
    /\ normalizePaymentMethod(b.method) # ""
    /\ \A i \in DOMAIN b.items :
          /\ TrimSpace(b.items[i].product) # ""
          /\ b.items[i].quantity > 0 /\ b.items[i].price > 0
          /\ normalizeCurrency(b.items[i].currency) # ""

\* Mutant: the key is left out of the request.
KeyNotForwarded(b) == NoKey

IdempotencyKey(b) == IF TrimSpace(b.key) = "" THEN NoKey ELSE TrimSpace(b.key)

mapCheckoutItemsToOrderItems(items) ==
    [i \in DOMAIN items |-> [product  |-> TrimSpace(items[i].product),
                             quantity |-> items[i].quantity,
                             price    |-> items[i].price,
                             currency |-> normalizeCurrency(items[i].currency)]]

\* The order client parses the currency again, into the number of the enum.
mapCreateOrderItemsToProto(items) ==
    [i \in DOMAIN items |->
        [items[i] EXCEPT !.currency = Value(Currency_name, normalizeCurrency(@))]]

\* The order of the CreateOrder request, as order-service receives it.
OrderOf(b) ==
    [customer |-> TrimSpace(b.customer),
     address  |-> TrimSpace(b.address),
     method   |-> Value(PaymentMethodType_name, normalizePaymentMethod(b.method)),
     items    |-> mapCreateOrderItemsToProto(mapCheckoutItemsToOrderItems(b.items))]

-----------------------------------------------------------------------------
(* order-service: totals and rows *)

\* Go's int64: what is above MaxInt64 starts again at -(MaxInt64 + 1).
Wrap(n) == ((n + MaxInt64 + 1) % (2 * (MaxInt64 + 1))) - (MaxInt64 + 1)

\* Mutant: the product is taken in the narrower type of the quantity.
NarrowLineTotal(item) ==
    LET half == (MaxInt64 + 1) \div 8
    IN  ((item.quantity * item.price + half) % (2 * half)) - half

LineTotal(item) == Wrap(item.quantity * item.price)

\* The loop of CreateOrder: every addition may overflow.
TotalAmount(order) ==
    FoldLeft(LAMBDA sum, item : Wrap(sum + LineTotal(item)), 0, order.items)

\* All lines are in the currency of the first.
OneCurrency(order) ==
    \A i \in DOMAIN order.items : order.items[i].currency = order.items[1].currency

\* The CHECK constraints on the amounts of orders and order_items.
Storable(order) ==
    /\ TotalAmount(order) > 0
    /\ \A i \in DOMAIN order.items : LineTotal(order.items[i]) > 0

\* The row of orders, with its enums by name, and the rows of order_items, each with
\* its position.
toOrderDBParams(order) ==
    [customer |-> order.customer, address |-> order.address,
     method   |-> PaymentMethodType_name[order.method],
     currency |-> Currency_name[order.items[1].currency],
     total    |-> TotalAmount(order)]

insertOrderItems(order) ==
    {[position |-> i - 1,
      product  |-> order.items[i].product, quantity |-> order.items[i].quantity,
      price    |-> order.items[i].price,
      currency |-> Currency_name[order.items[i].currency],
      total    |-> LineTotal(order.items[i])] : i \in DOMAIN order.items}

\* Mutant: the items come back in the order of their products.
ListItemsByProduct(rows) ==
    CHOOSE lines \in SetToSeqs(rows) :
        \A i, j \in DOMAIN lines : i < j =>
            lines[i].product = "apple" \/ lines[j].product # "apple"

\* ORDER BY item_position
ListOrderItemsByOrderID(rows) ==
    CHOOSE lines \in SetToSeqs(rows) :
        \A i, j \in DOMAIN lines : i < j => lines[i].position < lines[j].position

\* The order as it is read: the names in its rows become enums again.
mapDBOrder(row, lines) ==
    [customer |-> row.customer, address |-> row.address, total |-> row.total,
     currency |-> Value(Currency_name, row.currency),
     items    |-> [i \in DOMAIN lines |->
                     [product  |-> lines[i].product,
                      quantity |-> lines[i].quantity,
                      price    |-> lines[i].price,
                      currency |-> Value(Currency_name, lines[i].currency)]]]

\* The gateway turns the enums of the gRPC answer into names.
mapProtoOrder(order) ==
    [order EXCEPT !.currency = Currency_name[@],
                  !.items = [i \in DOMAIN order.items |->
                               [order.items[i] EXCEPT !.currency = Currency_name[@]]]]

\* What the client is shown by GET /orders/{id}.
OrderView(order) ==
    mapProtoOrder(mapDBOrder(toOrderDBParams(order),
                             ListOrderItemsByOrderID(insertOrderItems(order))))

-----------------------------------------------------------------------------
(* From the order to its payment *)

\* NewOrderCreatedOutboxMessage, as far as the payment needs it.
OrderCreatedPayload(order) ==
    [amount |-> TotalAmount(order),
     currency |-> Currency_name[order.items[1].currency],
     method |-> PaymentMethodType_name[order.method]]

\* The InventoryReserved event repeats the total and the payment details.
InventoryReservedPayload(created) ==
    [amount |-> created.amount, currency |-> created.currency, method |-> created.method]

\* parseCurrency and parsePaymentMethod of payment-service: names become numbers of
\* the enums of payment.v1.
createPayment(reserved) ==
    [amount   |-> reserved.amount,
     currency |-> Value(PaymentV1Currency_name, reserved.currency),
     method   |-> Value(PaymentV1MethodType_name, reserved.method)]

\* The row of payments holds names,
toPaymentDBParams(payment) ==
    [payment EXCEPT !.currency = PaymentV1Currency_name[@],
                    !.method   = PaymentV1MethodType_name[@]]

\* which are parsed when it is read
mapDBPayment(row) ==
    [row EXCEPT !.currency = Value(PaymentV1Currency_name, @),
                !.method   = Value(PaymentV1MethodType_name, @)]

\* and made from the enums again by the gateway.
mapProtoPayment(payment) == toPaymentDBParams(payment)

\* What the client is shown by GET /orders/{id}/payment.
PaymentView(row) == mapProtoPayment(mapDBPayment(row))

-----------------------------------------------------------------------------
(* Status codes *)

\* mapOrderError
mapOrderError(err) ==
    CASE err = "ErrInvalidOrder" -> "InvalidArgument"
      [] err \in {"ErrOrderAlreadyExists", "ErrIdempotencyKeyConflict"} -> "AlreadyExists"
      [] OTHER -> "Internal"

\* Mutant: a deadline is taken for a precondition that failed.
TimeoutIsRefusal(code) ==
    CASE code \in {"DeadlineExceeded", "FailedPrecondition"} -> "ErrPreconditionFailed"
      [] code = "Canceled" -> "ErrRequestCanceled"
      [] code = "NotFound" -> "ErrDownstreamNotFound"
      [] OTHER -> "ErrDownstreamFailed"

wrapDownstreamError(code) ==
    CASE code = "DeadlineExceeded" -> "ErrTimeout"
      [] code = "Canceled" -> "ErrRequestCanceled"
      [] code = "FailedPrecondition" -> "ErrPreconditionFailed"
      [] code = "NotFound" -> "ErrDownstreamNotFound"
      [] OTHER -> "ErrDownstreamFailed"

statusCodeForError(err) ==
    CASE err = "ErrTimeout" -> 504
      [] err = "ErrRequestCanceled" -> 408
      [] err = "ErrIdempotencyConflict" -> 409
      [] err \in {"ErrInvalidInput", "ErrPreconditionFailed", "ErrUnsupportedCurrency",
                  "ErrUnsupportedPaymentMethod"} -> 400
      [] err = "ErrDownstreamNotFound" -> 404
      [] err = "ErrDownstreamFailed" -> 502

-----------------------------------------------------------------------------

VARIABLES http,       \* each attempt: what it asks and how it was answered
          orders, outbox, call,   \* order-service; every attempt has a handler there
          inserted,   \* history: the orders each attempt's handler stored
          payments    \* the rows of payments, made from the orders' events

vars == <<http, orders, outbox, call, inserted, payments>>

O == INSTANCE OrderService
        WITH Callers <- Attempts, Keys <- {IdempotencyKey(b) : b \in Bodies} \ {NoKey},
             Requests <- {OrderOf(b) : b \in {c \in Bodies : ValidCheckout(c)}}

\* No key is no text, and the names of the enums have neither blanks nor small letters.
ASSUME CheckoutConstants ==
    /\ O!OrderConstants
    /\ MaxInt64 \in Nat
    /\ Bodies \subseteq [customer : STRING, address : STRING, method : STRING,
                          key : STRING, items : Seq(Line)]
    /\ \A b \in Bodies : TrimSpace(b.key) # NoKey
    /\ \A t \in Range(Currency_name) : TrimSpace(t) = t /\ ToUpper(t) = t

Init ==
    /\ http = [a \in Attempts |-> [pc |-> "new"]]
    /\ O!Init
    /\ inserted = [a \in Attempts |-> {}]
    /\ payments = [o \in OrderIDs |-> NoPayment]

Answer(a, code, id) ==
    http' = [http EXCEPT ![a] = [pc |-> "answered", body |-> @.body, code |-> code, id |-> id]]

AnswerError(a, status) == Answer(a, statusCodeForError(wrapDownstreamError(status)), None)

Waiting(a) == http[a].pc = "sent"

\* The gateway's handler, up to the gRPC call.
PostCheckout(a, b) ==
    /\ http[a].pc = "new"
    /\ http' = [http EXCEPT ![a] =
                  IF ShouldBindJSON(b) /\ ValidCheckout(b)
                  THEN [pc |-> "sent", body |-> b]
                  ELSE [pc |-> "answered", body |-> b, code |-> 400, id |-> None]]
    /\ UNCHANGED <<orders, outbox, call, inserted, payments>>

\* The request arrives: the handler looks for the key and, if there is no such order,
\* checks the currencies.
ServeCreateOrder(a) ==
    /\ Waiting(a) /\ call[a] = O!Idle
    /\ LET order == OrderOf(http[a].body)
       IN  \/ /\ O!CreateOrder(a, IdempotencyKey(http[a].body), order)
              /\ call'[a].pc = "insert" => OneCurrency(order)
              /\ UNCHANGED http
           \/ /\ ~OneCurrency(order) /\ O!KeyFree(IdempotencyKey(http[a].body))
              /\ AnswerError(a, mapOrderError("ErrInvalidOrder"))
              /\ UNCHANGED <<orders, outbox, call>>
    /\ UNCHANGED <<inserted, payments>>

\* The transaction commits.
StoreOrder(a) ==
    /\ call[a].pc = "insert" /\ Storable(call[a].request)
    /\ O!InsertOrder(a)
    /\ inserted' = [inserted EXCEPT ![a] = {o \in OrderIDs : orders[o] # orders'[o]}]
    /\ IF call'[a] = O!Idle /\ Waiting(a) THEN AnswerError(a, "Internal") ELSE UNCHANGED http
    /\ UNCHANGED payments

\* A unique or check constraint is violated.
StoreFails(a) ==
    /\ \/ /\ call[a].pc = "insert" /\ ~Storable(call[a].request)
          /\ O!Abort(a)
          /\ IF Waiting(a) THEN AnswerError(a, mapOrderError("check")) ELSE UNCHANGED http
       \/ O!InsertKeyExists(a) /\ UNCHANGED http
       \/ /\ O!InsertIDExists(a)
          /\ IF Waiting(a) THEN AnswerError(a, mapOrderError("ErrOrderAlreadyExists"))
             ELSE UNCHANGED http
    /\ UNCHANGED <<inserted, payments>>

Reread(a) ==
    /\ O!RereadOrder(a)
    /\ UNCHANGED <<http, inserted, payments>>

\* A database error, a deadline that the handler notices, or a crash of order-service.
ServeFails(a) ==
    /\ O!Abort(a)
    /\ IF Waiting(a) THEN AnswerError(a, "Internal") ELSE UNCHANGED http
    /\ UNCHANGED <<inserted, payments>>

\* The answer of order-service reaches the gateway: the order, or a key conflict.
Respond(a) ==
    /\ Waiting(a) /\ call[a].pc = "created"
    /\ IF call[a].id # None THEN Answer(a, 201, call[a].id)
       ELSE AnswerError(a, mapOrderError("ErrIdempotencyKeyConflict"))
    /\ UNCHANGED <<orders, outbox, call, inserted, payments>>

\* checkoutTimeout passes, or the client hangs up.  The handler in order-service goes
\* on until it notices.
GiveUp(a) ==
    /\ Waiting(a)
    /\ \E status \in {"DeadlineExceeded", "Canceled"} : AnswerError(a, status)
    /\ UNCHANGED <<orders, outbox, call, inserted, payments>>

\* The order's event has led to a reservation, and that to a payment.
MakePayment(o) ==
    /\ O!CreatedEvent(o) \in outbox /\ payments[o] = NoPayment
    /\ payments' = [payments EXCEPT ![o] =
          toPaymentDBParams(createPayment(
              InventoryReservedPayload(OrderCreatedPayload(orders[o].request))))]
    /\ UNCHANGED <<http, orders, outbox, call, inserted>>

Next ==
    \/ \E a \in Attempts :
          \/ \E b \in Bodies : PostCheckout(a, b)
          \/ ServeCreateOrder(a) \/ StoreOrder(a) \/ StoreFails(a) \/ Reread(a)
          \/ ServeFails(a) \/ Respond(a) \/ GiveUp(a)
    \/ \E o \in OrderIDs : MakePayment(o)

Spec == Init /\ [][Next]_vars

-----------------------------------------------------------------------------
(* Properties *)

Answered(a, code) == http[a].pc = "answered" /\ http[a].code = code

\* What the client asked for, in the names the API shows.
Asked(b) ==
    [customer |-> TrimSpace(b.customer), address |-> TrimSpace(b.address),
     items |-> [i \in DOMAIN b.items |->
                  [product |-> TrimSpace(b.items[i].product),
                   quantity |-> b.items[i].quantity, price |-> b.items[i].price,
                   currency |-> normalizeCurrency(b.items[i].currency)]]]

\* Attempts under one key, together or one after the other, also after a 504 or 502
\* whose order was stored, lead to one order: those answered with 201 name the same
\* order, and no second order is stored under the key.
CheckoutConverges ==
    /\ \A a, b \in Attempts :
          Answered(a, 201) /\ Answered(b, 201)
            /\ IdempotencyKey(http[a].body) = IdempotencyKey(http[b].body)
              => http[a].id = http[b].id \/ TrimSpace(http[a].body.key) = ""
    /\ \A k \in {TrimSpace(b.key) : b \in Bodies} \ {""} :
          Cardinality(UNION {inserted[a] : a \in {c \in Attempts :
                          http[c].pc # "new" /\ TrimSpace(http[c].body.key) = k}}) <= 1

\* An order answered with 201, which may be one an earlier attempt stored, is shown
\* with the customer, address and lines this attempt asked for, in their order; and
\* an attempt answered with 400 has stored nothing.
AnswerTellsTruth ==
    \A a \in Attempts :
        /\ Answered(a, 201) =>
              LET shown == OrderView(orders[http[a].id].request)
                  asked == Asked(http[a].body)
              IN  /\ shown.customer = asked.customer /\ shown.address = asked.address
                  /\ shown.items = asked.items
        /\ Answered(a, 400) => inserted[a] = {}

ExactTotal(order) ==
    FoldLeft(LAMBDA sum, item : sum + item.quantity * item.price, 0, order.items)

\* The payment the client is shown for an order is over the sum of its lines, in
\* their currency and by the method the client named, after the conversions of four
\* services; a sum that does not fit into an amount is not caught (but never becomes
\* zero or negative).
ChargedAsAsked ==
    \A a \in Attempts : \A o \in inserted[a] : payments[o] # NoPayment =>
        LET shown == PaymentView(payments[o])
            body  == http[a].body
        IN  /\ shown.method = normalizePaymentMethod(body.method)
            /\ \A i \in DOMAIN body.items :
                  shown.currency = normalizeCurrency(body.items[i].currency)
            /\ shown.amount > 0
            /\ ExactTotal(body) <= MaxInt64 => shown.amount = ExactTotal(body)

=============================================================================
