-------------------------------- MODULE Payment --------------------------------
(***************************************************************************)
(* payment-service: the payments table, the inventory.reserved consumer    *)
(* that creates an order's payment, and the gRPC handlers that capture,    *)
(* fail and cancel it.  Events are written to Kafka directly, after the    *)
(* database update and outside its transaction.                            *)
(*                                                                         *)
(* order_id is UNIQUE, so a payment is named by its order.  A caller is a  *)
(* goroutine running a gRPC handler; the consumer has one handler per      *)
(* order, whose events share a partition.                                  *)
(***************************************************************************)
EXTENDS Naturals

CONSTANTS Orders,
          Callers,
          NoPayment,   \* no row for the order
          MaxFaults    \* bound on crashes and failed calls

Final == {"CAPTURED", "FAILED", "CANCELLED"}

\* key: the consumer's "payment:create:<order>", or one a gRPC client chose.
PaymentRow == [status: Final \cup {"PENDING"}, key: {"consumer", "client"}]

ASSUME PaymentConstants ==
    /\ NoPayment \notin PaymentRow
    /\ MaxFaults \in Nat

EventTypes == {"payment.created", "payment.creation_failed",
               "payment.captured", "payment.failed"}

VARIABLES payments,    \* table payments, by order
          events,      \* payment.* events published for each order
          kpc,         \* where the inventory.reserved handler of each order is
          processed,   \* orders whose inventory.reserved is marked in Redis
          call,        \* what each gRPC caller is doing, or was answered last
          faults

consumerVars == <<kpc, processed>>
vars == <<payments, events, kpc, processed, call, faults>>

Idle == [pc |-> "idle"]

Call == {Idle} \cup [pc: {"write", "publish", "answered"}, order: Orders, to: Final]

TypeOK ==
    /\ payments \in [Orders -> PaymentRow \cup {NoPayment}]
    /\ events \in [Orders -> SUBSET EventTypes]
    /\ kpc \in [Orders -> {"absent", "fetch", "lookup", "insert", "publishCreated",
                           "publishFailed", "mark", "commit", "done"}]
    /\ processed \subseteq Orders
    /\ call \in [Callers -> Call]
    /\ faults \in 0 .. MaxFaults

Init ==
    /\ payments = [o \in Orders |-> NoPayment]
    /\ events = [o \in Orders |-> {}]
    /\ kpc = [o \in Orders |-> "absent"]
    /\ processed = {}
    /\ call = [c \in Callers |-> Idle]
    /\ faults = 0

Fault == faults < MaxFaults /\ faults' = faults + 1

NewPayment(key) == [status |-> "PENDING", key |-> key]

PublishEvent(o, type) == events' = [events EXCEPT ![o] = @ \cup {type}]

-----------------------------------------------------------------------------
(* Consumer of inventory.reserved *)

Goto(o, pc) == kpc' = [kpc EXCEPT ![o] = pc]

\* inventory-service publishes the event.
InventoryReserved(o) ==
    /\ kpc[o] = "absent"
    /\ Goto(o, "fetch")
    /\ UNCHANGED <<payments, events, processed, call, faults>>

FetchReserved(o) ==
    /\ kpc[o] = "fetch"
    /\ Goto(o, IF o \in processed THEN "commit" ELSE "lookup")
    /\ UNCHANGED <<payments, events, processed, call, faults>>

\* Mutant: the payment is looked up by its order, not by the idempotency key.
LookupByOrder(o) ==
    /\ kpc[o] = "lookup"
    /\ Goto(o, IF payments[o] # NoPayment THEN "publishCreated" ELSE "insert")
    /\ UNCHANGED <<payments, events, processed, call, faults>>

\* CreatePayment: look up the idempotency key; a payment found is returned.
LookupPayment(o) ==
    /\ kpc[o] = "lookup"
    /\ Goto(o, IF payments[o] # NoPayment /\ payments[o].key = "consumer"
               THEN "publishCreated" ELSE "insert")
    /\ UNCHANGED <<payments, events, processed, call, faults>>

\* Mutant: the insert overwrites a row that exists.
UpsertPayment(o) ==
    /\ kpc[o] = "insert"
    /\ payments' = [payments EXCEPT ![o] = NewPayment("consumer")]
    /\ Goto(o, "publishCreated")
    /\ UNCHANGED <<events, processed, call, faults>>

InsertPayment(o) ==
    /\ kpc[o] = "insert"
    /\ payments[o] = NoPayment
    /\ payments' = [payments EXCEPT ![o] = NewPayment("consumer")]
    /\ Goto(o, "publishCreated")
    /\ UNCHANGED <<events, processed, call, faults>>

\* createPayment returns an error of any kind: ErrPaymentAlreadyExists, when a
\* gRPC client created the order's payment under its own key or another payment
\* drew the same UnixNano identifier; or a failed look-up or insert.  The insert
\* may have been done when its answer is lost.
CreatePaymentFails(o) ==
    /\ \/ /\ kpc[o] = "insert"
          /\ \E q \in Orders : payments[q] # NoPayment
          /\ UNCHANGED <<payments, faults>>
       \/ /\ kpc[o] \in {"lookup", "insert"}
          /\ Fault
          /\ UNCHANGED payments
       \/ /\ kpc[o] = "insert"
          /\ Fault
          /\ payments[o] = NoPayment
          /\ payments' = [payments EXCEPT ![o] = NewPayment("consumer")]
    /\ Goto(o, "publishFailed")
    /\ UNCHANGED <<events, processed, call>>

\* Mutant: a payment that could not be created is not announced.
PublishCreatedOnly(o) ==
    /\ \/ kpc[o] = "publishCreated" /\ PublishEvent(o, "payment.created")
       \/ kpc[o] = "publishFailed" /\ UNCHANGED events
    /\ Goto(o, "mark")
    /\ UNCHANGED <<payments, processed, call, faults>>

\* PublishPaymentCreated, PublishPaymentCreationFailed
PublishCreation(o) ==
    /\ \/ kpc[o] = "publishCreated" /\ PublishEvent(o, "payment.created")
       \/ kpc[o] = "publishFailed" /\ PublishEvent(o, "payment.creation_failed")
    /\ Goto(o, "mark")
    /\ UNCHANGED <<payments, processed, call, faults>>

MarkProcessed(o) ==
    /\ kpc[o] = "mark"
    /\ processed' = processed \cup {o}
    /\ Goto(o, "commit")
    /\ UNCHANGED <<payments, events, call, faults>>

CommitMessage(o) ==
    /\ kpc[o] = "commit"
    /\ Goto(o, "done")
    /\ UNCHANGED <<payments, events, processed, call, faults>>

\* The handler returns an error or the process stops before the event is marked,
\* or inventory-service publishes the outcome again under a new event id.
RefetchReserved(o) ==
    /\ Fault
    /\ kpc[o] \notin {"absent", "fetch"}
    /\ Goto(o, "fetch")
    /\ \/ processed' = processed \ {o} /\ kpc[o] = "done"
       \/ processed' = processed
    /\ UNCHANGED <<payments, events, call>>

-----------------------------------------------------------------------------
(* gRPC handlers *)

Free(c) == call[c].pc \in {"idle", "answered"}

\* CreatePayment under a client's own key, for an order without a payment.
GRPCCreatePayment(o) ==
    /\ payments[o] = NoPayment
    /\ payments' = [payments EXCEPT ![o] = NewPayment("client")]
    /\ UNCHANGED <<events, consumerVars, call, faults>>

\* The switch on the status read: already there, or PENDING and to be updated.
\* Any other status is answered with an error and nothing changes.
ReadPayment(c, o, to) ==
    /\ Free(c)
    /\ payments[o] # NoPayment
    /\ payments[o].status \in {to, "PENDING"}
    /\ call' = [call EXCEPT ![c] =
           [pc |-> IF payments[o].status = to THEN "answered" ELSE "write",
            order |-> o, to |-> to]]
    /\ UNCHANGED <<payments, events, consumerVars, faults>>

CapturePayment(c, o) == ReadPayment(c, o, "CAPTURED")

FailPayment(c, o) == ReadPayment(c, o, "FAILED")

CancelPayment(c, o) == ReadPayment(c, o, "CANCELLED")

\* UpdatePayment: the whole row is written from the copy read before.  A
\* cancellation is not announced.
UpdatePayment(c) ==
    /\ call[c].pc = "write"
    /\ payments' = [payments EXCEPT ![call[c].order].status = call[c].to]
    /\ call' = [call EXCEPT ![c].pc =
                  IF call[c].to = "CANCELLED" THEN "answered" ELSE "publish"]
    /\ UNCHANGED <<events, consumerVars, faults>>

\* Mutant: the two topics are swapped.
PublishSwapped(c) ==
    /\ call[c].pc = "publish"
    /\ PublishEvent(call[c].order,
                    IF call[c].to = "CAPTURED" THEN "payment.failed" ELSE "payment.captured")
    /\ call' = [call EXCEPT ![c].pc = "answered"]
    /\ UNCHANGED <<payments, consumerVars, faults>>

\* PublishPaymentCaptured, PublishPaymentFailed
PublishResult(c) ==
    /\ call[c].pc = "publish"
    /\ PublishEvent(call[c].order,
                    IF call[c].to = "CAPTURED" THEN "payment.captured" ELSE "payment.failed")
    /\ call' = [call EXCEPT ![c].pc = "answered"]
    /\ UNCHANGED <<payments, consumerVars, faults>>

\* The update or the publish fails, or the process stops: the client is told of
\* an error, or nothing.
CallFails(c) ==
    /\ ~Free(c)
    /\ Fault
    /\ call' = [call EXCEPT ![c] = Idle]
    /\ UNCHANGED <<payments, events, consumerVars>>

-----------------------------------------------------------------------------

HandleReserved(o) ==
    \/ FetchReserved(o)
    \/ LookupPayment(o)
    \/ InsertPayment(o)
    \/ CreatePaymentFails(o)
    \/ PublishCreation(o)
    \/ MarkProcessed(o)
    \/ CommitMessage(o)

Next ==
    \/ \E o \in Orders :
          \/ InventoryReserved(o)
          \/ HandleReserved(o)
          \/ RefetchReserved(o)
          \/ GRPCCreatePayment(o)
    \/ \E c \in Callers :
          \/ \E o \in Orders :
                CapturePayment(c, o) \/ FailPayment(c, o) \/ CancelPayment(c, o)
          \/ UpdatePayment(c)
          \/ PublishResult(c)
          \/ CallFails(c)

Spec == Init /\ [][Next]_vars

\* Handlers that have started run on, and a stopped service is restarted.
FairSpec ==
    /\ Spec
    /\ \A o \in Orders : WF_vars(HandleReserved(o))
    /\ \A c \in Callers : WF_vars(UpdatePayment(c)) /\ WF_vars(PublishResult(c))

-----------------------------------------------------------------------------
(* Properties *)

\* payment.created is published only for a payment that is stored, and for the
\* order the event names.
CreatedIsStored ==
    \A o \in Orders : "payment.created" \in events[o] =>
        payments[o] # NoPayment /\ payments[o].key = "consumer"

\* UpdatePayment writes a whole row read earlier, but a payment whose capture or
\* failure was announced is never PENDING again, and none disappears.
AnnouncedIsClosed ==
    \A o \in Orders : events[o] \cap {"payment.captured", "payment.failed"} # {} =>
        payments[o] # NoPayment /\ payments[o].status # "PENDING"

\* Every inventory.reserved leads to payment.created or payment.creation_failed.
ReservedIsAnswered ==
    \A o \in Orders : kpc[o] = "fetch" ~>
        events[o] \cap {"payment.created", "payment.creation_failed"} # {}

\* A captured payment is announced, and order-service will confirm the order, when
\* nothing fails: overlapping calls that overwrite each other's status do not
\* suppress the event.  A failed publish does: the update is committed before, and the
\* client's retry finds CAPTURED and publishes nothing.
CaptureIsAnnounced ==
    \A o \in Orders :
        (payments[o] # NoPayment /\ payments[o].status = "CAPTURED")
            ~> ("payment.captured" \in events[o] \/ faults > 0)

=============================================================================
