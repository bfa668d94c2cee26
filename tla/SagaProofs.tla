------------------------------- MODULE SagaProofs -------------------------------
(***************************************************************************)
(* Proofs about Saga, for any number of orders, products, lines, payment   *)
(* calls and faults.  The invariants of the three services come from their own proof *)
(* modules, instantiated as Saga instantiates the services; the facts that *)
(* join the services are stated here.                                      *)
(***************************************************************************)
EXTENDS Saga, TLAPS

Callers == Topics \cup {"client"}

OP == INSTANCE OrderServiceProofs
        WITH OrderIDs <- Orders, Keys <- {}, Requests <- {"request"}, call <- ocall

IP == INSTANCE InventoryProofs WITH processed <- iprocessed

PP == INSTANCE PaymentProofs WITH Callers <- PaymentCallers, call <- pcall,
                                  processed <- pprocessed

-----------------------------------------------------------------------------
(* The steps of Saga are steps of its services *)

OrderAction ==
    \/ \E c \in Callers : UpdateStep(c) \/ UpdateFails(c)
    \/ \E o \in Orders :
          CancelOrder(o) \/ \E t \in Topics : ConsumeEvent(t, o) \/ RefetchEvent(t, o)

InventoryAction ==
    \/ \E o \in Orders : ReceiveOrderEvent(o) \/ InventoryStep(o) \/ RedeliverOrderEvent(o)
    \/ InventoryFails

PaymentAction ==
    \/ \E o \in Orders :
          \/ ReceiveReserved(o) \/ PaymentStep(o)
          \/ \E c \in PaymentCallers : DecidePayment(c, o)
    \/ \E c \in PaymentCallers : DecisionStep(c)
    \/ PaymentFails

\* Every step is a step of one service.
LEMMA OneService == Next <=> OrderAction \/ InventoryAction \/ PaymentAction
  BY Zenon DEF Next, OrderAction, InventoryAction, PaymentAction, Callers

\* The assumptions of the instantiated proofs.
LEMMA ServiceConstants ==
    OP!OrderConstants /\ IP!InventoryConstants /\ PP!PaymentConstants
<1>1. OP!OrderConstants
  BY SagaConstants, Zenon DEF O!OrderConstants, OP!OrderConstants, O!OrderRow, OP!OrderRow,
     O!Status, OP!Status, O!Reasons, OP!Reasons, O!CancellingOps, OP!CancellingOps
<1>2. IP!InventoryConstants
  BY SagaConstants, Zenon DEF I!InventoryConstants, IP!InventoryConstants, I!IsFiniteSet,
     IP!IsFiniteSet
<1>3. PP!PaymentConstants
  BY SagaConstants, Zenon DEF P!PaymentConstants, PP!PaymentConstants, P!PaymentRow,
     PP!PaymentRow, P!Final, PP!Final
<1>. QED  BY <1>1, <1>2, <1>3

\* Steps of order-service.
LEMMA OrderSteps ==
    ASSUME NEW c \in Callers
    PROVE  /\ O!BeginUpdate(c) \/ O!CommitUpdate(c) \/ O!RollbackUpdate(c) \/ O!Abort(c) => OP!Next
           /\ \A o \in Orders :
                 O!CancelOrder(c, o) \/ O!MarkInventoryReserved(c, o)
                    \/ O!MarkInventoryReservationFailed(c, o) \/ O!MarkPaymentCaptured(c, o)
                    \/ O!MarkPaymentFailed(c, o) \/ O!MarkPaymentCreationFailed(c, o) => OP!Next
<1>. USE DEF O!Free, OP!Free, O!Idle, OP!Idle, O!announcesCancel, OP!announcesCancel,
         O!HasCancelEvent, OP!HasCancelEvent, O!CancelledEvent, OP!CancelledEvent,
         O!transitionOrder, OP!transitionOrder, O!PrepareUpdate, OP!PrepareUpdate,
         O!AnswerUnchanged, OP!AnswerUnchanged, O!UpdatedRow, OP!UpdatedRow,
         O!canCancelOrder, OP!canCancelOrder
<1>1. /\ O!BeginUpdate(c) => OP!BeginUpdate(c)
      /\ O!CommitUpdate(c) => OP!CommitUpdate(c)
      /\ O!RollbackUpdate(c) => OP!RollbackUpdate(c)
      /\ O!Abort(c) => OP!Abort(c)
  BY Zenon DEF O!BeginUpdate, OP!BeginUpdate, O!CommitUpdate, OP!CommitUpdate,
     O!RollbackUpdate, OP!RollbackUpdate, O!Abort, OP!Abort
<1>2. ASSUME NEW o \in Orders
      PROVE  /\ O!CancelOrder(c, o) => OP!CancelOrder(c, o)
             /\ O!MarkInventoryReserved(c, o) => OP!MarkInventoryReserved(c, o)
             /\ O!MarkInventoryReservationFailed(c, o) => OP!MarkInventoryReservationFailed(c, o)
             /\ O!MarkPaymentCaptured(c, o) => OP!MarkPaymentCaptured(c, o)
             /\ O!MarkPaymentFailed(c, o) => OP!MarkPaymentFailed(c, o)
             /\ O!MarkPaymentCreationFailed(c, o) => OP!MarkPaymentCreationFailed(c, o)
  BY Zenon DEF O!CancelOrder, OP!CancelOrder, O!MarkInventoryReserved,
     OP!MarkInventoryReserved, O!MarkInventoryReservationFailed,
     OP!MarkInventoryReservationFailed, O!MarkPaymentCaptured, OP!MarkPaymentCaptured,
     O!MarkPaymentFailed, OP!MarkPaymentFailed, O!MarkPaymentCreationFailed,
     OP!MarkPaymentCreationFailed
<1>. QED  BY <1>1, <1>2, Zenon DEF OP!Next

\* Steps of inventory-service.
LEMMA InventorySteps ==
    /\ \A o \in Orders :
          I!OrderCreated(o) \/ I!OrderCancelled(o) \/ I!HandleCreated(o)
             \/ I!HandleCancelled(o) \/ I!RedeliverCreated(o) \/ I!RedeliverCancelled(o) => IP!Next
    /\ I!ServiceStops \/ (\E e \in iprocessed : I!ExpireMark(e)) => IP!Next
<1>. USE DEF I!Fault, IP!Fault, I!Nothing, IP!Nothing, I!stockVars, IP!stockVars,
         I!createdVars, IP!createdVars, I!cancelVars, IP!cancelVars, I!Line, IP!Line,
         I!CreatedInHand, IP!CreatedInHand, I!CancelledInHand, IP!CancelledInHand,
         I!AtMostOne, IP!AtMostOne, I!ProcessStops, IP!ProcessStops,
         I!OvertakenIf, IP!OvertakenIf
<1>1. ASSUME NEW o \in Orders
      PROVE  /\ I!OrderCreated(o) => IP!OrderCreated(o)
             /\ I!OrderCancelled(o) => IP!OrderCancelled(o)
             /\ I!RedeliverCreated(o) => IP!RedeliverCreated(o)
             /\ I!RedeliverCancelled(o) => IP!RedeliverCancelled(o)
  BY Zenon DEF I!OrderCreated, IP!OrderCreated, I!OrderCancelled, IP!OrderCancelled,
     I!RedeliverCreated, IP!RedeliverCreated, I!RedeliverCancelled, IP!RedeliverCancelled
<1>2. ASSUME NEW o \in Orders, I!HandleCreated(o) PROVE IP!HandleCreated(o)
  BY <1>2, Zenon DEF I!HandleCreated, IP!HandleCreated, I!FetchCreated, IP!FetchCreated,
     I!ReserveStock, IP!ReserveStock, I!Reserve, IP!Reserve, I!ReserveFails,
     IP!ReserveFails, I!RollbackLine, IP!RollbackLine, I!Releasable, IP!Releasable,
     I!Release, IP!Release, I!CannotRollback, IP!CannotRollback, I!RollbackFails,
     IP!RollbackFails, I!ReserveAllReturns, IP!ReserveAllReturns, I!PublishOutcome,
     IP!PublishOutcome, I!MarkCreatedProcessed, IP!MarkCreatedProcessed,
     I!CommitCreated, IP!CommitCreated
<1>3. ASSUME NEW o \in Orders, I!HandleCancelled(o) PROVE IP!HandleCancelled(o)
  BY <1>3, Zenon DEF I!HandleCancelled, IP!HandleCancelled, I!FetchCancelled,
     IP!FetchCancelled, I!ListReservations, IP!ListReservations, I!ReleaseListed,
     IP!ReleaseListed, I!CannotRelease, IP!CannotRelease, I!ReleaseListedFails,
     IP!ReleaseListedFails, I!MarkCancelledProcessed, IP!MarkCancelledProcessed,
     I!CommitCancelled, IP!CommitCancelled
<1>4. I!ServiceStops => IP!ServiceStops
  BY Zenon DEF I!ServiceStops, IP!ServiceStops
<1>5. ASSUME NEW e \in iprocessed, I!ExpireMark(e) PROVE IP!ExpireMark(e)
  BY <1>5, Zenon DEF I!ExpireMark, IP!ExpireMark
<1>. QED  BY <1>1, <1>2, <1>3, <1>4, <1>5, Zenon DEF IP!Next

\* Steps of payment-service.
LEMMA PaymentSteps ==
    /\ \A c \in PaymentCallers :
          P!UpdatePayment(c) \/ P!PublishResult(c) \/ P!CallFails(c) => PP!Next
    /\ \A o \in Orders : P!InventoryReserved(o) \/ P!HandleReserved(o) \/ P!RefetchReserved(o)
          => PP!Next
    /\ \A c \in PaymentCallers, o \in Orders :
          P!CapturePayment(c, o) \/ P!FailPayment(c, o) \/ P!CancelPayment(c, o) => PP!Next
<1>. USE DEF P!Fault, PP!Fault, P!Idle, PP!Idle, P!Free, PP!Free, P!Goto, PP!Goto,
         P!PublishEvent, PP!PublishEvent, P!NewPayment, PP!NewPayment,
         P!consumerVars, PP!consumerVars
<1>1. ASSUME NEW c \in PaymentCallers
      PROVE  /\ P!UpdatePayment(c) => PP!UpdatePayment(c)
             /\ P!PublishResult(c) => PP!PublishResult(c)
             /\ P!CallFails(c) => PP!CallFails(c)
  BY Zenon DEF P!UpdatePayment, PP!UpdatePayment, P!PublishResult, PP!PublishResult,
     P!CallFails, PP!CallFails
<1>2. ASSUME NEW o \in Orders
      PROVE  /\ P!InventoryReserved(o) => PP!InventoryReserved(o)
             /\ P!HandleReserved(o) => PP!HandleReserved(o)
             /\ P!RefetchReserved(o) => PP!RefetchReserved(o)
  BY Zenon DEF P!InventoryReserved, PP!InventoryReserved, P!HandleReserved,
     PP!HandleReserved, P!RefetchReserved, PP!RefetchReserved, P!FetchReserved,
     PP!FetchReserved, P!LookupPayment, PP!LookupPayment, P!InsertPayment,
     PP!InsertPayment, P!CreatePaymentFails, PP!CreatePaymentFails, P!PublishCreation,
     PP!PublishCreation, P!MarkProcessed, PP!MarkProcessed, P!CommitMessage,
     PP!CommitMessage
<1>3. ASSUME NEW c \in PaymentCallers, NEW o \in Orders
      PROVE  /\ P!CapturePayment(c, o) => PP!CapturePayment(c, o)
             /\ P!FailPayment(c, o) => PP!FailPayment(c, o)
             /\ P!CancelPayment(c, o) => PP!CancelPayment(c, o)
  BY Zenon DEF P!CapturePayment, PP!CapturePayment, P!FailPayment, PP!FailPayment,
     P!CancelPayment, PP!CancelPayment, P!ReadPayment, PP!ReadPayment
<1>. QED  BY <1>1, <1>2, <1>3, Zenon DEF PP!Next

-----------------------------------------------------------------------------
(* The invariants of the services *)

ServicesInv == OP!CancelInv /\ IP!StockInv /\ IP!HeldInv /\ PP!PaymentInv

\* What a step of one service does to the variables of the others: nothing, but for
\* the fault it may count.
LEMMA ServiceEffects ==
    /\ OrderAction =>
          /\ UNCHANGED <<inventoryVars, paymentVars>> /\ (faults' = faults \/ Fault)
          /\ [OP!Next]_<<orders, outbox, ocall>>
    /\ InventoryAction => UNCHANGED <<orderVars, paymentVars>> /\ IP!Next
    /\ PaymentAction => UNCHANGED <<orderVars, inventoryVars>> /\ PP!Next
<1>1. ASSUME OrderAction
      PROVE  /\ UNCHANGED <<inventoryVars, paymentVars>> /\ (faults' = faults \/ Fault)
             /\ [OP!Next]_<<orders, outbox, ocall>>
  <2>0. "client" \in Callers /\ Topics \subseteq Callers
    BY DEF Callers
  <2>1. ASSUME NEW c \in Callers, UpdateStep(c)
        PROVE  UNCHANGED <<inventoryVars, paymentVars>> /\ (faults' = faults \/ Fault) /\ OP!Next
    BY <2>1, OrderSteps, Zenon DEF UpdateStep
  <2>2. ASSUME NEW c \in Callers, UpdateFails(c)
        PROVE  UNCHANGED <<inventoryVars, paymentVars>> /\ (faults' = faults \/ Fault) /\ OP!Next
    BY <2>2, OrderSteps, Zenon DEF UpdateFails
  <2>3. ASSUME NEW o \in Orders, CancelOrder(o)
        PROVE  UNCHANGED <<inventoryVars, paymentVars>> /\ (faults' = faults \/ Fault) /\ OP!Next
    BY <2>0, <2>3, OrderSteps, Zenon DEF CancelOrder
  <2>4. ASSUME NEW o \in Orders, NEW t \in Topics, ConsumeEvent(t, o)
        PROVE  UNCHANGED <<inventoryVars, paymentVars>> /\ (faults' = faults \/ Fault) /\ OP!Next
    BY <2>0, <2>4, OrderSteps, Zenon DEF ConsumeEvent, HandleEvent, MarkPaymentCaptured
  <2>5. ASSUME NEW o \in Orders, NEW t \in Topics, RefetchEvent(t, o)
        PROVE  /\ UNCHANGED <<inventoryVars, paymentVars>> /\ (faults' = faults \/ Fault)
               /\ UNCHANGED <<orders, outbox, ocall>>
    BY <2>5, Zenon DEF RefetchEvent
  <2>. QED  BY <1>1, <2>1, <2>2, <2>3, <2>4, <2>5, Zenon DEF OrderAction
<1>2. InventoryAction => UNCHANGED <<orderVars, paymentVars>> /\ IP!Next
  BY InventorySteps, Zenon DEF InventoryAction, ReceiveOrderEvent, InventoryStep,
     RedeliverOrderEvent, InventoryFails
<1>3. PaymentAction => UNCHANGED <<orderVars, inventoryVars>> /\ PP!Next
  BY PaymentSteps, Zenon DEF PaymentAction, ReceiveReserved, PaymentStep, DecidePayment,
     PaymentFails, DecisionStep, WritePayment, AnnouncePayment
<1>. QED  BY <1>1, <1>2, <1>3

\* The invariants of inventory-service survive the steps of the other services.
LEMMA InventoryKept ==
    ASSUME IP!StockInv, IP!HeldInv, UNCHANGED inventoryVars, faults' \in 0 .. MaxFaults
    PROVE  IP!StockInv' /\ IP!HeldInv'
<1>. USE DEF inventoryVars
<1>1. IP!StockInv'
  BY DEF IP!StockInv, IP!TypeOK, IP!ItemInRange, IP!StockConserved
<1>2. IP!HeldInv'
  BY DEF IP!HeldInv, IP!HeldOrder, IP!Promised
<1>. QED  BY <1>1, <1>2

\* So do those of payment-service.
LEMMA PaymentKept ==
    ASSUME PP!PaymentInv, UNCHANGED paymentVars, faults' \in 0 .. MaxFaults
    PROVE  PP!PaymentInv'
  BY DEF paymentVars, PP!PaymentInv, PP!TypeOK, PP!ConsumerHasPayment,
     PP!CallerHasPayment, PP!CreatedIsStored, PP!AnnouncedIsClosed

\* And those of order-service.
LEMMA OrderKept ==
    ASSUME OP!CancelInv, UNCHANGED orderVars PROVE OP!CancelInv'
<1>1. UNCHANGED OP!vars
  BY DEF orderVars, OP!vars
<1>. QED  BY <1>1, ServiceConstants, OP!CancelInductive

LEMMA ServicesInitially == Init => ServicesInv
<1>. SUFFICES ASSUME Init PROVE ServicesInv
  OBVIOUS
<1>1. IP!StockInv /\ IP!HeldInv
  <2>1. IP!Init
    BY Zenon DEF Init, I!Init, IP!Init, I!Nothing, IP!Nothing
  <2>. QED  BY <2>1, ServiceConstants, IP!StockInductive, IP!HeldInductive
<1>2. PP!PaymentInv
  <2>1. PP!Init
    BY Zenon DEF Init, P!Init, PP!Init, P!Idle, PP!Idle
  <2>. QED  BY <2>1, ServiceConstants, PP!PaymentInductive
<1>3. OP!CancelInv
  <2>1. /\ orders = [o \in Orders |-> [status |-> "PENDING", reason |-> "", key |-> NoKey,
                                       request |-> "request"]]
        /\ outbox = {[type |-> "order.created", id |-> o, reason |-> ""] : o \in Orders}
        /\ ocall = [c \in Callers |-> [pc |-> "idle"]]
    BY DEF Init, O!NewOrder, O!CreatedEvent, O!Idle, Callers
  <2>2. OP!TypeOK
    <3>1. ASSUME NEW o \in Orders PROVE orders[o] \in OP!OrderRow
      BY <2>1 DEF OP!OrderRow, OP!Status, OP!Reasons
    <3>2. ASSUME NEW e \in outbox PROVE e \in OP!OutboxRow
      <4>1. PICK o \in Orders : e = [type |-> "order.created", id |-> o, reason |-> ""]
        BY <2>1
      <4>. QED  BY <4>1 DEF OP!OutboxRow, OP!Reasons
    <3>3. ASSUME NEW c \in Callers PROVE ocall[c] \in OP!Call
      BY <2>1 DEF OP!Call, OP!Idle
    <3>4. orders = [o \in Orders |-> orders[o]] /\ ocall = [c \in Callers |-> ocall[c]]
      BY <2>1
    <3>. QED  BY <3>1, <3>2, <3>3, <3>4 DEF OP!TypeOK
  <2>3. \A c \in Callers : ocall[c].pc = "idle"
    BY <2>1
  <2>4. \A o \in Orders : orders[o].status = "PENDING"
    BY <2>1
  <2>. QED  BY <2>2, <2>3, <2>4 DEF OP!CancelInv, OP!RowIsCopy, OP!WriteKnowsEvent,
               OP!CancelledHasEvent, OP!AnsweredCancelHasEvent
<1>. QED  BY <1>1, <1>2, <1>3 DEF ServicesInv

\* The invariants of the services hold of their composition.
LEMMA ServicesStep == ASSUME ServicesInv, [Next]_vars PROVE ServicesInv'
<1>0. faults \in 0 .. MaxFaults /\ MaxFaults \in Nat
  BY ServiceConstants DEF ServicesInv, IP!StockInv, IP!TypeOK, IP!InventoryConstants
<1>1. CASE UNCHANGED vars
  BY <1>0, <1>1, InventoryKept, PaymentKept, OrderKept DEF vars, ServicesInv
<1>2. CASE OrderAction
  <2>1. faults' \in 0 .. MaxFaults
    BY <1>0, <1>2, ServiceEffects DEF Fault
  <2>2. OP!CancelInv'
    BY <1>2, ServiceEffects, ServiceConstants, OP!CancelInductive DEF ServicesInv, OP!vars
  <2>. QED  BY <1>2, <2>1, <2>2, ServiceEffects, InventoryKept, PaymentKept DEF ServicesInv
<1>3. CASE InventoryAction
  <2>1. IP!StockInv' /\ IP!HeldInv'
    BY <1>3, ServiceEffects, ServiceConstants, IP!StockInductive, IP!HeldInductive
       DEF ServicesInv
  <2>2. faults' \in 0 .. MaxFaults
    BY <2>1 DEF IP!StockInv, IP!TypeOK
  <2>. QED  BY <1>3, <2>1, <2>2, ServiceEffects, OrderKept, PaymentKept DEF ServicesInv
<1>4. CASE PaymentAction
  <2>1. PP!PaymentInv'
    BY <1>4, ServiceEffects, ServiceConstants, PP!PaymentInductive DEF ServicesInv
  <2>2. faults' \in 0 .. MaxFaults
    BY <2>1 DEF PP!PaymentInv, PP!TypeOK
  <2>. QED  BY <1>4, <2>1, <2>2, ServiceEffects, OrderKept, InventoryKept DEF ServicesInv
<1>. QED  BY <1>1, <1>2, <1>3, <1>4, OneService

-----------------------------------------------------------------------------
(* What joins the services *)

\* A method that is about to write CONFIRMED handles a payment.captured.
CapturedKnown ==
    \A c \in Callers :
        ocall[c].pc \in {"begin", "write"} /\ ocall[c].row.status = "CONFIRMED" =>
            "payment.captured" \in events[ocall[c].id]

\* Unless an update was lost, a CONFIRMED order was paid and a cancelled one stays so.
StatusAgrees ==
    ~lost => \A o \in Orders :
        /\ HasStatus(o, "CONFIRMED") => "payment.captured" \in events[o]
        /\ O!HasCancelEvent(o) => HasStatus(o, "CANCELLED")

\* Stock is released for a cancellation that was announced.
ReleaseCaused == \A o \in Orders : xpc[o] # "absent" => O!HasCancelEvent(o)

\* A payment is created for stock that was reserved.
PaymentCaused ==
    \A o \in Orders :
        kpc[o] # "absent" \/ payments[o] # NoPayment => "reserved" \in outcome[o]

\* The status is what the caller decided that publishes it, unless another call wrote
\* over it.
DecisionCurrent ==
    \A c \in PaymentCallers : pcall[c].pc = "publish" =>
        payments[pcall[c].order].status = pcall[c].to \/ pcall[c].order \in revised

\* payment.captured speaks of a payment that is stored, and CAPTURED unless another call
\* wrote over the status.
CapturedStored ==
    \A o \in Orders : "payment.captured" \in events[o] =>
        payments[o] # NoPayment /\ (payments[o].status = "CAPTURED" \/ o \in revised)

JoinInv ==
    /\ CapturedKnown
    /\ StatusAgrees
    /\ ReleaseCaused
    /\ PaymentCaused
    /\ DecisionCurrent
    /\ CapturedStored

\* A step of order-service that only changes the call of c.
LEMMA CallJoin ==
    ASSUME ServicesInv, JoinInv, NEW c \in Callers, NEW v, ocall' = [ocall EXCEPT ![c] = v],
           v.pc \in {"begin", "write"} /\ v.row.status = "CONFIRMED" =>
               "payment.captured" \in events[v.id],
           UNCHANGED <<orders, outbox, lost, inventoryVars, paymentVars>>
    PROVE  JoinInv'
<1>1. ocall \in [Callers -> OP!Call]
  BY DEF ServicesInv, OP!CancelInv, OP!TypeOK
<1>2. CapturedKnown'
  BY <1>1 DEF JoinInv, CapturedKnown, paymentVars
<1>3. StatusAgrees'
  BY DEF JoinInv, StatusAgrees, HasStatus, O!HasCancelEvent, paymentVars
<1>4. ReleaseCaused'
  BY DEF JoinInv, ReleaseCaused, O!HasCancelEvent, inventoryVars
<1>5. PaymentCaused' /\ DecisionCurrent' /\ CapturedStored'
  BY DEF JoinInv, PaymentCaused, DecisionCurrent, CapturedStored, inventoryVars, paymentVars
<1>. QED  BY <1>2, <1>3, <1>4, <1>5 DEF JoinInv

\* A method that begins may write CONFIRMED only when it is MarkPaymentCaptured.
LEMMA MethodJoin ==
    ASSUME ServicesInv, JoinInv, NEW c \in Callers, NEW o \in Orders, NEW op, NEW from, NEW to,
           to = "CONFIRMED" => "payment.captured" \in events[o],
           O!transitionOrder(c, op, o, from, to),
           UNCHANGED <<lost, inventoryVars, paymentVars>>
    PROVE  JoinInv'
<1>0. orders[o] \in OP!OrderRow \cup {NoOrder} /\ orders[o] # NoOrder
  BY DEF O!transitionOrder, ServicesInv, OP!CancelInv, OP!TypeOK
<1>1. CASE O!PrepareUpdate(c, op, o, to)
  <2>. DEFINE v == [pc |-> "begin", op |-> op, id |-> o, row |-> O!UpdatedRow(orders[o], op, to)]
  <2>1. v.row.status = to
    BY <1>0 DEF O!UpdatedRow, OP!OrderRow
  <2>. QED  BY <1>1, <2>1, CallJoin DEF O!PrepareUpdate
<1>2. CASE O!AnswerUnchanged(c, op, o)
  BY <1>2, CallJoin DEF O!AnswerUnchanged
<1>. QED  BY <1>1, <1>2 DEF O!transitionOrder

\* Steps of order-service that write nothing.
LEMMA ConsumeJoin ==
    ASSUME ServicesInv, JoinInv, NEW o \in Orders, NEW t \in Topics, ConsumeEvent(t, o)
    PROVE  JoinInv'
<1>1. t \in Callers /\ UNCHANGED <<lost, inventoryVars, paymentVars>>
  BY DEF ConsumeEvent, Callers
<1>2. CASE t = "payment.captured" /\ MarkPaymentCaptured(t, o)
  <2>1. "payment.captured" \in events[o]
    BY <1>2 DEF ConsumeEvent, Published
  <2>. QED  BY <1>1, <1>2, <2>1, MethodJoin DEF MarkPaymentCaptured, O!MarkPaymentCaptured
<1>3. CASE \/ O!MarkInventoryReserved(t, o) \/ O!MarkInventoryReservationFailed(t, o)
           \/ O!MarkPaymentFailed(t, o) \/ O!MarkPaymentCreationFailed(t, o)
  BY <1>1, <1>3, MethodJoin DEF O!MarkInventoryReserved, O!MarkInventoryReservationFailed,
     O!MarkPaymentFailed, O!MarkPaymentCreationFailed
<1>. QED  BY <1>2, <1>3 DEF ConsumeEvent, HandleEvent

LEMMA CancelJoin ==
    ASSUME ServicesInv, JoinInv, NEW o \in Orders, CancelOrder(o)
    PROVE  JoinInv'
<1>1. "client" \in Callers /\ UNCHANGED <<lost, inventoryVars, paymentVars>>
  BY DEF CancelOrder, Callers
<1>2. O!transitionOrder("client", "CancelOrder", o,
                        {"PENDING", "AWAITING_PAYMENT", "CONFIRMED"}, "CANCELLED")
  BY DEF CancelOrder, O!CancelOrder, O!transitionOrder, O!canCancelOrder
<1>. QED  BY <1>1, <1>2, MethodJoin

\* The commit: a status that a method had read is replaced, or lost becomes true.
LEMMA CommitJoin ==
    ASSUME ServicesInv, JoinInv, NEW c \in Callers, O!CommitUpdate(c),
           ~lost' => ~lost /\ orders[ocall[c].id].status \in From(ocall[c].op),
           UNCHANGED <<inventoryVars, paymentVars>>
    PROVE  JoinInv'
<1>. DEFINE id == ocall[c].id
            row == ocall[c].row
<1>0. /\ ocall \in [Callers -> OP!Call] /\ ocall[c].pc = "write"
      /\ orders' = [orders EXCEPT ![id] = row]
      /\ outbox \subseteq outbox'
      /\ \A e \in outbox' \ outbox : e.id = id /\ row.status = "CANCELLED"
      /\ ocall' = [ocall EXCEPT ![c] = ocall'[c]]
      /\ ocall'[c].pc \in {"idle", "updated"}
  BY DEF ServicesInv, OP!CancelInv, OP!TypeOK, O!CommitUpdate, O!announcesCancel,
     O!CancelledEvent, O!Idle
<1>1. id \in Orders /\ orders = [o \in Orders |-> orders[o]]
  BY <1>0 DEF ServicesInv, OP!CancelInv, OP!TypeOK, OP!Call, OP!Idle
<1>2. CapturedKnown'
  BY <1>0 DEF JoinInv, CapturedKnown, paymentVars
<1>3. StatusAgrees'
  <2>. SUFFICES ASSUME ~lost', NEW o \in Orders
                PROVE  /\ HasStatus(o, "CONFIRMED")' => "payment.captured" \in events[o]
                       /\ O!HasCancelEvent(o)' => HasStatus(o, "CANCELLED")'
    BY DEF StatusAgrees, paymentVars
  <2>1. ~lost /\ orders[id].status # "CANCELLED"
    BY DEF From
  <2>2. CASE o = id
    <3>1. ~O!HasCancelEvent(o)
      BY <2>1, <2>2 DEF JoinInv, StatusAgrees, HasStatus
    <3>2. O!HasCancelEvent(o)' => row.status = "CANCELLED"
      BY <1>0, <3>1 DEF O!HasCancelEvent
    <3>3. row.status = "CONFIRMED" => "payment.captured" \in events[id]
      BY <1>0 DEF JoinInv, CapturedKnown
    <3>. QED  BY <1>0, <1>1, <2>2, <3>2, <3>3 DEF HasStatus
  <2>3. CASE o # id
    <3>1. O!HasCancelEvent(o)' => O!HasCancelEvent(o)
      BY <1>0, <2>3 DEF O!HasCancelEvent
    <3>. QED  BY <1>0, <1>1, <2>1, <2>3, <3>1 DEF JoinInv, StatusAgrees, HasStatus
  <2>. QED  BY <2>2, <2>3
<1>4. ReleaseCaused'
  BY <1>0 DEF JoinInv, ReleaseCaused, O!HasCancelEvent, inventoryVars
<1>5. PaymentCaused' /\ DecisionCurrent' /\ CapturedStored'
  BY DEF JoinInv, PaymentCaused, DecisionCurrent, CapturedStored, inventoryVars, paymentVars
<1>. QED  BY <1>2, <1>3, <1>4, <1>5 DEF JoinInv

\* Every step of order-service keeps what joins it to the others.
LEMMA OrderJoin == ASSUME ServicesInv, JoinInv, OrderAction PROVE JoinInv'
<1>1. ASSUME NEW c \in Callers, UpdateStep(c) PROVE JoinInv'
  <2>0. UNCHANGED <<inventoryVars, paymentVars>>
    BY <1>1 DEF UpdateStep
  <2>1. CASE O!BeginUpdate(c) /\ UNCHANGED lost
    <3>. DEFINE v == [pc |-> "write", op |-> ocall[c].op, id |-> ocall[c].id,
                      row |-> ocall[c].row, existing |-> orders[ocall[c].id].status]
    <3>1. v.row.status = "CONFIRMED" => "payment.captured" \in events[v.id]
      BY <2>1 DEF O!BeginUpdate, JoinInv, CapturedKnown
    <3>2. ocall' = [ocall EXCEPT ![c] = v] /\ UNCHANGED <<orders, outbox>>
      BY <2>1 DEF O!BeginUpdate
    <3>. HIDE DEF v
    <3>. QED  BY <2>0, <2>1, <3>1, <3>2, CallJoin
  <2>2. CASE /\ O!CommitUpdate(c)
             /\ lost' = (lost \/ orders[ocall[c].id].status \notin From(ocall[c].op))
    <3>1. ~lost' => ~lost /\ orders[ocall[c].id].status \in From(ocall[c].op)
      BY <2>2, Zenon
    <3>. QED  BY <2>0, <2>2, <3>1, CommitJoin
  <2>3. CASE O!RollbackUpdate(c) /\ UNCHANGED lost
    BY <2>0, <2>3, CallJoin DEF O!RollbackUpdate, O!Idle
  <2>. QED  BY <1>1, <2>1, <2>2, <2>3, Zenon DEF UpdateStep
<1>2. ASSUME NEW c \in Callers, UpdateFails(c) PROVE JoinInv'
  BY <1>2, CallJoin DEF UpdateFails, O!Abort, O!Idle
<1>3. ASSUME NEW o \in Orders, NEW t \in Topics, RefetchEvent(t, o) PROVE JoinInv'
  BY <1>3 DEF RefetchEvent, JoinInv, CapturedKnown, StatusAgrees, HasStatus,
     O!HasCancelEvent, ReleaseCaused, PaymentCaused, DecisionCurrent, CapturedStored,
     inventoryVars, paymentVars
<1>. QED  BY <1>1, <1>2, <1>3, ConsumeJoin, CancelJoin, Zenon DEF OrderAction

\* Every step of inventory-service does: outcomes are not taken back, and only an
\* announced cancellation starts a release.
LEMMA InventoryJoin == ASSUME ServicesInv, JoinInv, InventoryAction PROVE JoinInv'
<1>0. UNCHANGED <<orderVars, paymentVars>>
  BY ServiceEffects
<1>1. /\ cpc \in [Orders -> {"absent", "fetch", "reserve", "rollback", "publishReserved",
                             "publishFailed", "mark", "commit", "done"}]
      /\ outcome = [o \in Orders |-> outcome[o]] /\ xpc = [o \in Orders |-> xpc[o]]
  BY DEF ServicesInv, IP!StockInv, IP!TypeOK
<1>2. ASSUME NEW C, NEW X \in SUBSET I!CancelledInHand, I!ProcessStops(C, X),
             NEW x \in Orders
      PROVE  /\ outcome[x] \subseteq outcome'[x]
             /\ xpc'[x] # "absent" => xpc[x] # "absent"
  BY <1>2 DEF I!ProcessStops, I!CancelledInHand
<1>3. I!AtMostOne(I!CancelledInHand) \subseteq SUBSET I!CancelledInHand
  BY DEF I!AtMostOne
<1>4. ASSUME NEW o \in Orders, NEW x \in Orders,
             ReceiveOrderEvent(o) \/ InventoryStep(o) \/ RedeliverOrderEvent(o)
      PROVE  /\ outcome[x] \subseteq outcome'[x]
             /\ xpc'[x] # "absent" => xpc[x] # "absent" \/ O!HasCancelEvent(x)
  <2>1. CASE ReceiveOrderEvent(o)
    BY <1>1, <2>1 DEF ReceiveOrderEvent, I!OrderCreated, I!OrderCancelled, I!cancelVars,
       I!createdVars
  <2>2. CASE I!HandleCreated(o) /\ ~I!RollbackFails(o)
    BY <1>1, <2>2 DEF I!HandleCreated, I!FetchCreated, I!ReserveStock, I!ReserveFails,
       I!RollbackLine, I!ReserveAllReturns, I!PublishOutcome, I!MarkCreatedProcessed,
       I!CommitCreated, I!cancelVars
  <2>3. CASE I!HandleCancelled(o) /\ ~I!ReleaseListedFails(o)
    BY <1>1, <2>3 DEF I!HandleCancelled, I!FetchCancelled, I!ListReservations,
       I!ReleaseListed, I!MarkCancelledProcessed, I!CommitCancelled, I!createdVars
  <2>4. CASE I!RollbackFails(o)
    BY <1>2, <1>3, <2>4 DEF I!RollbackFails
  <2>5. CASE I!ReleaseListedFails(o)
    <3>1. {o} \subseteq I!CancelledInHand
      BY <2>5 DEF I!ReleaseListedFails, I!CannotRelease, I!CancelledInHand
    <3>. QED  BY <1>2, <2>5, <3>1 DEF I!ReleaseListedFails
  <2>6. CASE RedeliverOrderEvent(o)
    BY <1>1, <2>6 DEF RedeliverOrderEvent, I!RedeliverCreated, I!RedeliverCancelled,
       I!cancelVars, I!createdVars
  <2>. QED  BY <1>4, <2>1, <2>2, <2>3, <2>4, <2>5, <2>6, Zenon DEF InventoryStep
<1>5. ASSUME NEW x \in Orders, InventoryFails
      PROVE  /\ outcome[x] \subseteq outcome'[x]
             /\ xpc'[x] # "absent" => xpc[x] # "absent" \/ O!HasCancelEvent(x)
  <2>1. CASE I!ServiceStops
    BY <1>2, <1>3, <2>1 DEF I!ServiceStops
  <2>2. CASE \E e \in iprocessed : I!ExpireMark(e)
    BY <2>2 DEF I!ExpireMark, I!createdVars, I!cancelVars
  <2>. QED  BY <1>5, <2>1, <2>2 DEF InventoryFails
<1>6. \A x \in Orders : /\ outcome[x] \subseteq outcome'[x]
                        /\ xpc'[x] # "absent" => xpc[x] # "absent" \/ O!HasCancelEvent(x)
  BY <1>4, <1>5, Zenon DEF InventoryAction
<1>7. CapturedKnown' /\ StatusAgrees' /\ DecisionCurrent' /\ CapturedStored'
  BY <1>0 DEF JoinInv, CapturedKnown, StatusAgrees, HasStatus, O!HasCancelEvent,
     DecisionCurrent, CapturedStored, orderVars, paymentVars
<1>8. ReleaseCaused'
  BY <1>0, <1>6 DEF JoinInv, ReleaseCaused, O!HasCancelEvent, orderVars
<1>9. PaymentCaused'
  BY <1>0, <1>6 DEF JoinInv, PaymentCaused, paymentVars
<1>. QED  BY <1>7, <1>8, <1>9 DEF JoinInv

\* A step of payment-service keeps JoinInv if it takes back no event, creates payments
\* for reserved stock only, and keeps what is about payments.
LEMMA PaymentFrame ==
    ASSUME ServicesInv, JoinInv, UNCHANGED <<orderVars, inventoryVars>>,
           \A x \in Orders : events[x] \subseteq events'[x],
           PaymentCaused', DecisionCurrent', CapturedStored'
    PROVE  JoinInv'
<1>1. CapturedKnown'
  <2>1. \A c \in Callers : ocall[c].pc \in {"begin", "write"} => ocall[c].id \in Orders
    BY DEF ServicesInv, OP!CancelInv, OP!TypeOK, OP!Call, OP!Idle
  <2>. QED  BY <2>1 DEF JoinInv, CapturedKnown, orderVars
<1>2. StatusAgrees' /\ ReleaseCaused'
  BY DEF JoinInv, StatusAgrees, ReleaseCaused, HasStatus, O!HasCancelEvent, orderVars,
     inventoryVars
<1>. QED  BY <1>1, <1>2 DEF JoinInv

\* The consumer of inventory.reserved: it starts when the stock is reserved and never
\* touches a payment that exists.
LEMMA ConsumerJoin ==
    ASSUME ServicesInv, JoinInv, NEW o \in Orders, UNCHANGED <<orderVars, inventoryVars>>,
           ReceiveReserved(o) \/ PaymentStep(o) \/ P!RefetchReserved(o), UNCHANGED revised
    PROVE  JoinInv'
<1>1. /\ payments = [x \in Orders |-> payments[x]] /\ events = [x \in Orders |-> events[x]]
      /\ kpc = [x \in Orders |-> kpc[x]]
      /\ \A c \in PaymentCallers : pcall[c].pc = "publish" =>
            pcall[c].order \in Orders /\ payments[pcall[c].order] # NoPayment
  BY DEF ServicesInv, PP!PaymentInv, PP!TypeOK, PP!Call, PP!Idle, PP!CallerHasPayment
<1>2. /\ UNCHANGED <<pcall, revised>>
      /\ \A x \in Orders \ {o} : kpc'[x] = kpc[x] /\ payments'[x] = payments[x]
      /\ kpc[o] # "absent" \/ "reserved" \in outcome[o]
      /\ payments'[o] = payments[o] \/ payments[o] = NoPayment
      /\ \A x \in Orders : events[x] \subseteq events'[x]
      /\ \A x \in Orders : "payment.captured" \in events'[x] => "payment.captured" \in events[x]
  <2>. USE <1>1 DEF P!Goto
  <2>1. CASE ReceiveReserved(o)
    BY <2>1 DEF ReceiveReserved, Published, P!InventoryReserved
  <2>2. CASE P!FetchReserved(o) \/ P!LookupPayment(o) \/ P!MarkProcessed(o) \/ P!CommitMessage(o)
    BY <2>2 DEF P!FetchReserved, P!LookupPayment, P!MarkProcessed, P!CommitMessage
  <2>3. CASE P!InsertPayment(o)
    BY <2>3 DEF P!InsertPayment
  <2>4. CASE P!CreatePaymentFails(o)
    BY <2>4 DEF P!CreatePaymentFails
  <2>5. CASE P!PublishCreation(o)
    <3>1. PICK type \in {"payment.created", "payment.creation_failed"} :
             events' = [events EXCEPT ![o] = @ \cup {type}]
      BY <2>5 DEF P!PublishCreation, P!PublishEvent
    <3>2. /\ \A x \in Orders : events[x] \subseteq events'[x]
          /\ \A x \in Orders : "payment.captured" \in events'[x] =>
                "payment.captured" \in events[x]
      BY <3>1
    <3>. QED  BY <2>5, <3>2 DEF P!PublishCreation
  <2>6. CASE P!RefetchReserved(o)
    BY <2>6 DEF P!RefetchReserved
  <2>. QED  BY <2>1, <2>2, <2>3, <2>4, <2>5, <2>6, Zenon DEF PaymentStep, P!HandleReserved
<1>3. PaymentCaused'
  BY <1>2 DEF JoinInv, PaymentCaused, inventoryVars
<1>4. DecisionCurrent'
  BY <1>1, <1>2 DEF JoinInv, DecisionCurrent
<1>5. CapturedStored'
  BY <1>2 DEF JoinInv, CapturedStored
<1>. QED  BY <1>2, <1>3, <1>4, <1>5, PaymentFrame

\* The clients: they decide payments that are PENDING when they read them, and publish
\* what they decided.
LEMMA ClientJoin ==
    ASSUME ServicesInv, JoinInv, UNCHANGED <<orderVars, inventoryVars>>, NEW c \in PaymentCallers,
           \/ \E o \in Orders : DecidePayment(c, o)
           \/ DecisionStep(c)
           \/ P!CallFails(c) /\ UNCHANGED revised
    PROVE  JoinInv'
<1>. DEFINE o == pcall[c].order
            to == pcall[c].to
<1>0. /\ payments \in [Orders -> PP!PaymentRow \cup {NoPayment}]
      /\ events = [x \in Orders |-> events[x]]
      /\ pcall \in [PaymentCallers -> PP!Call]
      /\ \A d \in PaymentCallers :
            /\ pcall[d].pc \in {"write", "publish"} =>
                  pcall[d].order \in Orders /\ payments[pcall[d].order] # NoPayment
            /\ pcall[d].pc = "publish" => payments[pcall[d].order].status # "PENDING"
      /\ \A x \in Orders : "payment.captured" \in events[x] =>
            payments[x].status # "PENDING"
  BY DEF ServicesInv, PP!PaymentInv, PP!TypeOK, PP!Call, PP!Idle, PP!CallerHasPayment,
     PP!AnnouncedIsClosed
<1>1. ASSUME UNCHANGED <<payments, events, kpc, revised>>,
             pcall' = [pcall EXCEPT ![c] = pcall'[c]], pcall'[c].pc # "publish"
      PROVE  JoinInv'
  <2>1. \A d \in PaymentCallers : pcall'[d].pc = "publish" => pcall'[d] = pcall[d]
    BY <1>0, <1>1
  <2>2. DecisionCurrent'
    BY <1>1, <2>1 DEF JoinInv, DecisionCurrent
  <2>. QED  BY <1>1, <2>2, PaymentFrame DEF JoinInv, PaymentCaused, CapturedStored, inventoryVars
<1>2. ASSUME NEW x \in Orders, DecidePayment(c, x) PROVE JoinInv'
  <2>1. PICK s : P!ReadPayment(c, x, s)
    BY <1>2 DEF DecidePayment, P!CapturePayment, P!FailPayment, P!CancelPayment
  <2>2. /\ UNCHANGED <<payments, events, kpc, revised>>
        /\ pcall' = [pcall EXCEPT ![c] = pcall'[c]] /\ pcall'[c].pc # "publish"
    BY <1>0, <1>2, <2>1 DEF DecidePayment, P!ReadPayment, P!consumerVars
  <2>. QED  BY <1>1, <2>2
<1>3. CASE P!CallFails(c) /\ UNCHANGED revised
  <2>1. /\ UNCHANGED <<payments, events, kpc, revised>>
        /\ pcall' = [pcall EXCEPT ![c] = pcall'[c]] /\ pcall'[c].pc # "publish"
    BY <1>0, <1>3 DEF P!CallFails, P!Idle, P!consumerVars
  <2>. QED  BY <1>1, <2>1
<1>4. CASE WritePayment(c)
  <2>1. /\ o \in Orders /\ payments[o] # NoPayment /\ payments[o] \in PP!PaymentRow
        /\ revised \subseteq revised'
        /\ payments[o].status # "PENDING" => o \in revised'
    BY <1>0, <1>4 DEF WritePayment, P!UpdatePayment
  <2>2. /\ payments' = [payments EXCEPT ![o] = payments'[o]] /\ payments'[o] # NoPayment
        /\ payments'[o].status = to /\ UNCHANGED <<events, kpc>>
        /\ pcall' = [pcall EXCEPT ![c] = pcall'[c]]
        /\ pcall'[c].order = o /\ pcall'[c].to = to
    <3>1. /\ payments' = [payments EXCEPT ![o] = [payments[o] EXCEPT !.status = to]]
          /\ UNCHANGED <<events, kpc>>
      BY <1>4 DEF WritePayment, P!UpdatePayment, P!consumerVars
    <3>2. payments'[o] = [payments[o] EXCEPT !.status = to]
      BY <1>0, <2>1, <3>1
    <3>3. pcall[c] \in [pc: {"write", "publish", "answered"}, order: Orders, to: PP!Final]
      BY <1>0, <1>4 DEF WritePayment, P!UpdatePayment, PP!Call, PP!Idle
    <3>4. payments'[o].status = to /\ payments'[o] # NoPayment
      <4>1. payments'[o] \in PP!PaymentRow
        BY <2>1, <3>2, <3>3 DEF PP!PaymentRow
      <4>2. NoPayment \notin PP!PaymentRow
        BY ServiceConstants DEF PP!PaymentConstants
      <4>. QED  BY <2>1, <3>2, <4>1, <4>2 DEF PP!PaymentRow
    <3>5. PICK pc \in {"answered", "publish"} : pcall' = [pcall EXCEPT ![c].pc = pc]
      BY <1>4 DEF WritePayment, P!UpdatePayment
    <3>6. /\ pcall' = [pcall EXCEPT ![c] = pcall'[c]]
          /\ pcall'[c].order = o /\ pcall'[c].to = to
      BY <1>0, <3>3, <3>5
    <3>. QED  BY <1>0, <2>1, <3>1, <3>2, <3>4, <3>6
  <2>3. PaymentCaused'
    BY <1>0, <2>1, <2>2 DEF JoinInv, PaymentCaused, inventoryVars
  <2>4. DecisionCurrent'
    <3>. SUFFICES ASSUME NEW d \in PaymentCallers, pcall'[d].pc = "publish"
                  PROVE  \/ payments'[pcall'[d].order].status = pcall'[d].to
                         \/ pcall'[d].order \in revised'
      BY DEF DecisionCurrent
    <3>1. CASE d = c
      BY <2>2, <3>1
    <3>2. CASE d # c
      <4>1. pcall'[d] = pcall[d]
        BY <1>0, <2>2, <3>2
      <4>2. CASE pcall[d].order = o
        BY <1>0, <2>1, <4>1, <4>2
      <4>3. CASE pcall[d].order # o
        BY <1>0, <2>1, <2>2, <4>1, <4>3 DEF JoinInv, DecisionCurrent
      <4>. QED  BY <4>2, <4>3
    <3>. QED  BY <3>1, <3>2
  <2>5. CapturedStored'
    <3>. SUFFICES ASSUME NEW x \in Orders, "payment.captured" \in events[x]
                  PROVE  payments'[x] # NoPayment /\ (payments'[x].status = "CAPTURED" \/ x \in revised')
      BY <2>2 DEF CapturedStored
    <3>1. CASE x = o
      BY <1>0, <2>1, <2>2, <3>1
    <3>2. CASE x # o
      BY <1>0, <2>1, <2>2, <3>2 DEF JoinInv, CapturedStored
    <3>. QED  BY <3>1, <3>2
  <2>. QED  BY <2>2, <2>3, <2>4, <2>5, PaymentFrame
<1>5. CASE AnnouncePayment(c)
  <2>1. /\ o \in Orders /\ payments[o] # NoPayment
        /\ payments[o].status = to \/ o \in revised
    BY <1>0, <1>5 DEF AnnouncePayment, P!PublishResult, JoinInv, DecisionCurrent
  <2>2. /\ UNCHANGED <<payments, kpc, revised>>
        /\ pcall' = [pcall EXCEPT ![c] = pcall'[c]] /\ pcall'[c].pc # "publish"
    <3>1. pcall[c] \in [pc: {"write", "publish", "answered"}, order: Orders, to: PP!Final]
      BY <1>0, <1>5 DEF AnnouncePayment, P!PublishResult, PP!Call, PP!Idle
    <3>. QED  BY <1>0, <1>5, <3>1 DEF AnnouncePayment, P!PublishResult, P!consumerVars
  <2>3. /\ \A x \in Orders : events[x] \subseteq events'[x]
        /\ \A x \in Orders : "payment.captured" \in events'[x] =>
              "payment.captured" \in events[x] \/ (x = o /\ to = "CAPTURED")
    BY <1>0, <1>5, <2>1 DEF AnnouncePayment, P!PublishResult, P!PublishEvent
  <2>4. PaymentCaused'
    BY <2>2 DEF JoinInv, PaymentCaused, inventoryVars
  <2>5. DecisionCurrent'
    <3>1. \A d \in PaymentCallers : pcall'[d].pc = "publish" => pcall'[d] = pcall[d]
      BY <1>0, <2>2
    <3>. QED  BY <2>2, <3>1 DEF JoinInv, DecisionCurrent
  <2>6. CapturedStored'
    BY <2>1, <2>2, <2>3 DEF JoinInv, CapturedStored
  <2>. QED  BY <2>3, <2>4, <2>5, <2>6, PaymentFrame
<1>. QED  BY <1>2, <1>3, <1>4, <1>5 DEF DecisionStep

\* The invariants of the services and what joins them are inductive together.
LEMMA SagaInductive ==
    /\ Init => ServicesInv /\ JoinInv
    /\ ServicesInv /\ JoinInv /\ [Next]_vars => (ServicesInv /\ JoinInv)'
<1>1. ASSUME Init PROVE JoinInv
  <2>0. /\ orders = [o \in Orders |-> [status |-> "PENDING", reason |-> "", key |-> NoKey,
                                       request |-> "request"]]
        /\ outbox = {[type |-> "order.created", id |-> o, reason |-> ""] : o \in Orders}
        /\ ocall = [c \in Callers |-> [pc |-> "idle"]]
    BY <1>1 DEF Init, O!NewOrder, O!CreatedEvent, O!Idle, Callers
  <2>1. /\ \A c \in Callers : ocall[c].pc = "idle"
        /\ \A o \in Orders : HasStatus(o, "PENDING")
        /\ \A e \in outbox : e.type = "order.created"
    <3>1. \A c \in Callers : ocall[c].pc = "idle"
      BY <2>0
    <3>2. \A o \in Orders : HasStatus(o, "PENDING")
      BY <2>0 DEF HasStatus
    <3>3. ASSUME NEW e \in outbox PROVE e.type = "order.created"
      <4>1. PICK o \in Orders : e = [type |-> "order.created", id |-> o, reason |-> ""]
        BY <2>0
      <4>. QED  BY <4>1
    <3>. QED  BY <3>1, <3>2, <3>3
  <2>2. \A o \in Orders : xpc[o] = "absent"
    BY <1>1 DEF Init, I!Init
  <2>3. /\ \A o \in Orders : kpc[o] = "absent" /\ payments[o] = NoPayment /\ events[o] = {}
        /\ \A c \in PaymentCallers : pcall[c].pc = "idle"
    BY <1>1 DEF Init, P!Init, P!Idle
  <2>. QED  BY <2>1, <2>2, <2>3 DEF JoinInv, CapturedKnown, StatusAgrees, HasStatus,
               O!HasCancelEvent, ReleaseCaused, PaymentCaused, DecisionCurrent, CapturedStored
<1>2. ASSUME ServicesInv, JoinInv, UNCHANGED vars PROVE JoinInv'
  BY <1>2 DEF vars, orderVars, inventoryVars, paymentVars, JoinInv, CapturedKnown,
     StatusAgrees, HasStatus, O!HasCancelEvent, ReleaseCaused, PaymentCaused,
     DecisionCurrent, CapturedStored
<1>3. ASSUME ServicesInv, JoinInv, PaymentAction PROVE JoinInv'
  <2>1. UNCHANGED <<orderVars, inventoryVars>>
    BY <1>3, ServiceEffects
  <2>2. ASSUME NEW o \in Orders, ReceiveReserved(o) \/ PaymentStep(o) PROVE JoinInv'
    <3>1. UNCHANGED revised
      BY <2>2 DEF ReceiveReserved, PaymentStep
    <3>. QED  BY <1>3, <2>1, <2>2, <3>1, ConsumerJoin
  <2>3. CASE PaymentFails
    <3>1. UNCHANGED revised
      BY <2>3 DEF PaymentFails
    <3>. QED  BY <1>3, <2>1, <2>3, <3>1, ConsumerJoin, ClientJoin, Zenon DEF PaymentFails
  <2>. QED  BY <1>3, <2>1, <2>2, <2>3, ClientJoin, Zenon DEF PaymentAction
<1>. QED  BY <1>1, <1>2, <1>3, OneService, OrderJoin, InventoryJoin, ServicesInitially,
             ServicesStep

-----------------------------------------------------------------------------

\* Unless an update of an order was lost, a CONFIRMED order holds all of its stock and
\* its capture was announced, and its payment is CAPTURED or was decided once more by a
\* call that had read PENDING: for any number of orders and products, any lines, any
\* number of overlapping payment calls, and any number of crashes, replays, expired
\* marks and failed calls in the three services.
THEOREM ConfirmedIsWhole == Spec => []ConfirmedHoldsStock
<1>1. ASSUME ServicesInv, JoinInv PROVE ConfirmedHoldsStock
  <2>. SUFFICES ASSUME NEW o \in Orders, HasStatus(o, "CONFIRMED"), ~lost
                PROVE  /\ \A p \in Products : reservation[o][p] >= I!Demand(o)[p]
                       /\ "payment.captured" \in events[o] /\ payments[o] # NoPayment
                       /\ payments[o].status = "CAPTURED" \/ o \in revised
    BY DEF ConfirmedHoldsStock
  <2>1. /\ "payment.captured" \in events[o] /\ payments[o] # NoPayment
        /\ payments[o].status = "CAPTURED" \/ o \in revised
    BY <1>1 DEF JoinInv, StatusAgrees, CapturedStored
  <2>2. "reserved" \in outcome[o]
    BY <1>1, <2>1 DEF JoinInv, PaymentCaused
  <2>3. xpc[o] = "absent"
    BY <1>1 DEF JoinInv, StatusAgrees, ReleaseCaused, HasStatus
  <2>4. \A p \in Products : reservation[o][p] >= IP!Demand(o)[p]
    BY <1>1, <2>2, <2>3 DEF ServicesInv, IP!HeldInv, IP!HeldOrder, IP!Promised
  <2>5. IP!Demand(o) = I!Demand(o)
    BY Zenon DEF IP!Demand, I!Demand, IP!MapThenSumSet, I!MapThenSumSet,
       IP!MapThenFoldSet, I!MapThenFoldSet
  <2>. QED  BY <2>1, <2>4, <2>5
<1>. QED  BY <1>1, SagaInductive, PTL DEF Spec

=============================================================================
