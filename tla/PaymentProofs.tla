----------------------------- MODULE PaymentProofs -----------------------------
(***************************************************************************)
(* Proofs about Payment, for any number of orders, gRPC callers and faults.*)
(***************************************************************************)
EXTENDS Payment, TLAPS

\* The consumer announces payment.created for a payment that it stored, or found
\* stored, under its own key.
ConsumerHasPayment ==
    \A o \in Orders : kpc[o] = "publishCreated" =>
        payments[o] # NoPayment /\ payments[o].key = "consumer"

\* A handler past its read works on a payment that exists, and one past its update on
\* a payment that is closed.
CallerHasPayment ==
    \A c \in Callers :
        /\ call[c].pc \in {"write", "publish"} => payments[call[c].order] # NoPayment
        /\ call[c].pc = "publish" => payments[call[c].order].status # "PENDING"

\* The inductive invariant.
PaymentInv ==
    /\ TypeOK
    /\ ConsumerHasPayment
    /\ CallerHasPayment
    /\ CreatedIsStored
    /\ AnnouncedIsClosed

\* What no step does to a payment: delete it, change its idempotency key, or make it
\* PENDING again, although UpdatePayment writes the whole row from a stale copy.
PaymentKept(o) ==
    payments[o] # NoPayment =>
        /\ payments'[o] # NoPayment
        /\ payments'[o].key = payments[o].key
        /\ payments[o].status # "PENDING" => payments'[o].status # "PENDING"

-----------------------------------------------------------------------------
(* Types *)

\* A new payment is a row, and no row is NoPayment.
LEMMA NewPaymentType ==
    ASSUME NEW key \in {"consumer", "client"}
    PROVE  /\ NewPayment(key) \in PaymentRow
           /\ NewPayment(key) # NoPayment
           /\ NewPayment(key).key = key
  BY PaymentConstants DEF NewPayment, PaymentRow

\* A caller past its read holds the fields of a call.
LEMMA CallFields ==
    ASSUME TypeOK, NEW c \in Callers, call[c].pc \in {"write", "publish"}
    PROVE  /\ call[c].order \in Orders
           /\ call[c].to \in Final
           /\ call[c] = [pc |-> call[c].pc, order |-> call[c].order, to |-> call[c].to]
<1>1. call[c] \in Call
  BY DEF TypeOK
<1>. QED  BY <1>1 DEF Call, Idle

\* The next fault is counted within the bound.
LEMMA FaultType == ASSUME TypeOK, Fault PROVE faults' \in 0 .. MaxFaults
  BY PaymentConstants DEF TypeOK, Fault

-----------------------------------------------------------------------------
(* The payments table *)

\* Only the two inserts and the update write the table.
LEMMA TableStep ==
    ASSUME [Next]_vars
    PROVE  \/ UNCHANGED payments
           \/ \E o \in Orders, key \in {"consumer", "client"} :
                 /\ payments[o] = NoPayment
                 /\ payments' = [payments EXCEPT ![o] = NewPayment(key)]
           \/ \E c \in Callers : UpdatePayment(c)
<1>. DEFINE Goal == \/ UNCHANGED payments
                    \/ \E o \in Orders, key \in {"consumer", "client"} :
                          /\ payments[o] = NoPayment
                          /\ payments' = [payments EXCEPT ![o] = NewPayment(key)]
                    \/ \E c \in Callers : UpdatePayment(c)
<1>1. CASE UNCHANGED vars
  BY <1>1 DEF vars
<1>2. ASSUME NEW o \in Orders, InventoryReserved(o) \/ RefetchReserved(o)
      PROVE  Goal
  BY <1>2 DEF InventoryReserved, RefetchReserved
<1>3. ASSUME NEW o \in Orders, HandleReserved(o) PROVE Goal
  <2>1. CASE InsertPayment(o) \/ CreatePaymentFails(o)
    BY <2>1 DEF InsertPayment, CreatePaymentFails
  <2>2. CASE FetchReserved(o) \/ LookupPayment(o) \/ PublishCreation(o)
             \/ MarkProcessed(o) \/ CommitMessage(o)
    BY <2>2 DEF FetchReserved, LookupPayment, PublishCreation, MarkProcessed, CommitMessage
  <2>. QED  BY <1>3, <2>1, <2>2 DEF HandleReserved
<1>4. ASSUME NEW o \in Orders, GRPCCreatePayment(o) PROVE Goal
  BY <1>4 DEF GRPCCreatePayment
<1>5. ASSUME NEW c \in Callers, NEW o \in Orders,
             CapturePayment(c, o) \/ FailPayment(c, o) \/ CancelPayment(c, o)
      PROVE  Goal
  BY <1>5 DEF CapturePayment, FailPayment, CancelPayment, ReadPayment
<1>6. ASSUME NEW c \in Callers, UpdatePayment(c) \/ PublishResult(c) \/ CallFails(c)
      PROVE  Goal
  BY <1>6 DEF PublishResult, CallFails
<1>. QED  BY <1>1, <1>2, <1>3, <1>4, <1>5, <1>6, Zenon DEF Next

\* An update changes the status of an existing row to a final one.
LEMMA UpdateRow ==
    ASSUME PaymentInv, NEW c \in Callers, UpdatePayment(c)
    PROVE  LET o == call[c].order IN
           /\ o \in Orders /\ payments[o] \in PaymentRow
           /\ payments'[o] \in PaymentRow /\ payments'[o] # NoPayment
           /\ payments'[o].key = payments[o].key
           /\ payments'[o].status = call[c].to /\ call[c].to # "PENDING"
           /\ payments' = [payments EXCEPT ![o] = payments'[o]]
<1>. DEFINE o == call[c].order
<1>1. o \in Orders /\ call[c].to \in Final
  BY CallFields DEF PaymentInv, UpdatePayment
<1>2. payments[o] \in PaymentRow
  BY <1>1 DEF PaymentInv, CallerHasPayment, TypeOK, UpdatePayment
<1>3. payments' = [payments EXCEPT ![o] = [payments[o] EXCEPT !.status = call[c].to]]
  BY DEF UpdatePayment
<1>4. payments'[o] = [payments[o] EXCEPT !.status = call[c].to]
  BY <1>1, <1>3 DEF PaymentInv, TypeOK
<1>5. payments'[o] \in PaymentRow /\ payments'[o].key = payments[o].key
      /\ payments'[o].status = call[c].to
  BY <1>1, <1>2, <1>4 DEF PaymentRow
<1>6. payments'[o] # NoPayment /\ call[c].to # "PENDING"
  BY <1>1, <1>5, PaymentConstants DEF Final
<1>. QED  BY <1>1, <1>2, <1>3, <1>4, <1>5, <1>6

\* No step deletes or reopens a payment.
LEMMA StepKeepsPayment ==
    ASSUME PaymentInv, [Next]_vars, NEW o \in Orders
    PROVE  PaymentKept(o)
<1>1. CASE UNCHANGED payments
  BY <1>1 DEF PaymentKept
<1>2. ASSUME NEW p \in Orders, NEW key, payments[p] = NoPayment,
             payments' = [payments EXCEPT ![p] = NewPayment(key)]
      PROVE  PaymentKept(o)
  BY <1>2 DEF PaymentKept, PaymentInv, TypeOK
<1>3. ASSUME NEW c \in Callers, UpdatePayment(c) PROVE PaymentKept(o)
  BY <1>3, UpdateRow DEF PaymentKept, PaymentInv, TypeOK
<1>. QED  BY <1>1, <1>2, <1>3, TableStep

\* The table keeps its type.
LEMMA TableType ==
    ASSUME PaymentInv, [Next]_vars
    PROVE  payments' \in [Orders -> PaymentRow \cup {NoPayment}]
<1>1. ASSUME NEW c \in Callers, UpdatePayment(c)
      PROVE  payments' \in [Orders -> PaymentRow \cup {NoPayment}]
  <2>1. PICK o \in Orders, row \in PaymentRow : payments' = [payments EXCEPT ![o] = row]
    BY <1>1, UpdateRow
  <2>. QED  BY <2>1 DEF PaymentInv, TypeOK
<1>. QED  BY <1>1, TableStep, NewPaymentType DEF PaymentInv, TypeOK

-----------------------------------------------------------------------------
(* The handlers *)

\* The part of the invariant that a step may only break by what it does to kpc, call
\* and events: every payment that was there still is.
LEMMA KeptStep ==
    ASSUME PaymentInv, [Next]_vars, TypeOK',
           \A o \in Orders : kpc'[o] # kpc[o] /\ kpc'[o] = "publishCreated" =>
               payments'[o] # NoPayment /\ payments'[o].key = "consumer",
           \A c \in Callers : call'[c] # call[c] =>
               /\ call'[c].pc \in {"write", "publish"} =>
                     call'[c].order \in Orders /\ payments'[call'[c].order] # NoPayment
               /\ call'[c].pc = "publish" => payments'[call'[c].order].status # "PENDING",
           \A o \in Orders : "payment.created" \in events'[o] =>
               "payment.created" \in events[o] \/ kpc[o] = "publishCreated",
           \A o \in Orders : events'[o] \cap {"payment.captured", "payment.failed"} # {} =>
               \/ events[o] \cap {"payment.captured", "payment.failed"} # {}
               \/ \E c \in Callers : call[c].pc = "publish" /\ call[c].order = o
    PROVE  PaymentInv'
<1>1. \A o \in Orders : PaymentKept(o)
  BY StepKeepsPayment
<1>2. ConsumerHasPayment'
  BY <1>1 DEF PaymentInv, ConsumerHasPayment, PaymentKept
<1>3. CallerHasPayment'
  <2>1. ASSUME NEW c \in Callers, call'[c] = call[c], call[c].pc \in {"write", "publish"}
        PROVE  /\ payments'[call[c].order] # NoPayment
               /\ call[c].pc = "publish" => payments'[call[c].order].status # "PENDING"
    <3>1. call[c].order \in Orders
      BY <2>1, CallFields DEF PaymentInv
    <3>. QED  BY <1>1, <2>1, <3>1 DEF PaymentInv, CallerHasPayment, PaymentKept
  <2>. QED  BY <2>1 DEF CallerHasPayment
<1>4. CreatedIsStored'
  BY <1>1 DEF PaymentInv, CreatedIsStored, ConsumerHasPayment, PaymentKept
<1>5. AnnouncedIsClosed'
  BY <1>1 DEF PaymentInv, AnnouncedIsClosed, CallerHasPayment, PaymentKept
<1>. QED  BY <1>2, <1>3, <1>4, <1>5 DEF PaymentInv

\* The consumer's steps, and its restart.
LEMMA ConsumerStep ==
    ASSUME PaymentInv, NEW o \in Orders, Next,
           InventoryReserved(o) \/ HandleReserved(o) \/ RefetchReserved(o)
    PROVE  PaymentInv'
<1>. DEFINE PCs == {"absent", "fetch", "lookup", "insert", "publishCreated",
                    "publishFailed", "mark", "commit", "done"}
<1>1. ASSUME NEW pc \in PCs \ {"publishCreated"}, Goto(o, pc), UNCHANGED <<events, call>>,
             processed' \subseteq Orders, faults' \in 0 .. MaxFaults
      PROVE  PaymentInv'
  <2>1. TypeOK'
    BY <1>1, TableType DEF PaymentInv, TypeOK, Goto
  <2>2. \A p \in Orders : kpc'[p] = kpc[p] \/ kpc'[p] # "publishCreated"
    BY <1>1 DEF PaymentInv, TypeOK, Goto
  <2>. QED  BY <1>1, <2>1, <2>2, KeptStep
<1>2. ASSUME Goto(o, "publishCreated"), UNCHANGED <<events, processed, call, faults>>,
             payments'[o] # NoPayment, payments'[o].key = "consumer"
      PROVE  PaymentInv'
  <2>1. TypeOK'
    BY <1>2, TableType DEF PaymentInv, TypeOK, Goto
  <2>2. \A p \in Orders : kpc'[p] # kpc[p] => p = o
    BY <1>2 DEF PaymentInv, TypeOK, Goto
  <2>. QED  BY <1>2, <2>1, <2>2, KeptStep
<1>3. processed \subseteq Orders /\ faults \in 0 .. MaxFaults
  BY DEF PaymentInv, TypeOK
<1>4. CASE InventoryReserved(o)
  BY <1>1, <1>3, <1>4 DEF InventoryReserved
<1>5. CASE FetchReserved(o)
  BY <1>1, <1>3, <1>5 DEF FetchReserved
<1>6. CASE LookupPayment(o)
  <2>1. CASE payments[o] # NoPayment /\ payments[o].key = "consumer"
    BY <1>2, <1>6, <2>1 DEF LookupPayment
  <2>2. CASE ~(payments[o] # NoPayment /\ payments[o].key = "consumer")
    BY <1>1, <1>3, <1>6, <2>2 DEF LookupPayment
  <2>. QED  BY <2>1, <2>2
<1>7. CASE InsertPayment(o)
  <2>1. payments'[o] = NewPayment("consumer")
    BY <1>7 DEF InsertPayment, PaymentInv, TypeOK
  <2>. QED  BY <1>2, <1>7, <2>1, NewPaymentType DEF InsertPayment
<1>8. CASE CreatePaymentFails(o)
  <2>1. faults' \in 0 .. MaxFaults
    BY <1>3, <1>8, FaultType DEF CreatePaymentFails, PaymentInv
  <2>. QED  BY <1>1, <1>3, <1>8, <2>1 DEF CreatePaymentFails
<1>9. CASE PublishCreation(o)
  <2>1. PICK type \in {"payment.created", "payment.creation_failed"} :
           /\ PublishEvent(o, type)
           /\ type = "payment.created" => kpc[o] = "publishCreated"
    BY <1>9 DEF PublishCreation
  <2>2. TypeOK'
    BY <1>9, <2>1, TableType DEF PublishCreation, PaymentInv, TypeOK, Goto, PublishEvent,
       EventTypes
  <2>3. \A p \in Orders : events'[p] = IF p = o THEN events[p] \cup {type} ELSE events[p]
    BY <2>1 DEF PaymentInv, TypeOK, PublishEvent
  <2>4. \A p \in Orders : kpc'[p] = kpc[p] \/ kpc'[p] # "publishCreated"
    BY <1>9 DEF PublishCreation, PaymentInv, TypeOK, Goto
  <2>. QED  BY <1>9, <2>1, <2>2, <2>3, <2>4, KeptStep DEF PublishCreation
<1>10. CASE MarkProcessed(o)
  BY <1>1, <1>3, <1>10 DEF MarkProcessed
<1>11. CASE CommitMessage(o)
  BY <1>1, <1>3, <1>11 DEF CommitMessage
<1>12. CASE RefetchReserved(o)
  <2>1. faults' \in 0 .. MaxFaults
    BY <1>12, FaultType DEF RefetchReserved, PaymentInv
  <2>. QED  BY <1>1, <1>3, <1>12, <2>1 DEF RefetchReserved
<1>. QED  BY <1>4, <1>5, <1>6, <1>7, <1>8, <1>9, <1>10, <1>11, <1>12 DEF HandleReserved

\* The gRPC handlers.
LEMMA CallerStep ==
    ASSUME PaymentInv, NEW c \in Callers, Next,
           \/ \E o \in Orders :
                 CapturePayment(c, o) \/ FailPayment(c, o) \/ CancelPayment(c, o)
           \/ UpdatePayment(c) \/ PublishResult(c) \/ CallFails(c)
    PROVE  PaymentInv'
<1>1. ASSUME NEW v \in Call, call' = [call EXCEPT ![c] = v],
             UNCHANGED <<kpc, processed>>, faults' \in 0 .. MaxFaults,
             v.pc \in {"write", "publish"} =>
                 v.order \in Orders /\ payments'[v.order] # NoPayment,
             v.pc = "publish" => payments'[v.order].status # "PENDING",
             \/ UNCHANGED events
             \/ /\ call[c].pc = "publish"
                /\ \E type \in {"payment.captured", "payment.failed"} :
                      PublishEvent(call[c].order, type)
      PROVE  PaymentInv'
  <2>1. TypeOK'
    <3>1. events' \in [Orders -> SUBSET EventTypes]
      BY <1>1 DEF PublishEvent, EventTypes, PaymentInv, TypeOK
    <3>. QED  BY <1>1, <3>1, TableType DEF PaymentInv, TypeOK
  <2>2. \A d \in Callers : call'[d] = IF d = c THEN v ELSE call[d]
    BY <1>1 DEF PaymentInv, TypeOK
  <2>3. \A p \in Orders :
           events'[p] = events[p] \/ (/\ call[c].pc = "publish" /\ call[c].order = p
                                      /\ \E type \in {"payment.captured", "payment.failed"} :
                                            events'[p] = events[p] \cup {type})
    BY <1>1 DEF PublishEvent, PaymentInv, TypeOK
  <2>. QED  BY <1>1, <2>1, <2>2, <2>3, KeptStep
<1>2. faults \in 0 .. MaxFaults
  BY DEF PaymentInv, TypeOK
<1>3. ASSUME NEW o \in Orders, NEW to \in Final, ReadPayment(c, o, to)
      PROVE  PaymentInv'
  <2>. DEFINE v == [pc |-> IF payments[o].status = to THEN "answered" ELSE "write",
                    order |-> o, to |-> to]
  <2>1. v \in Call /\ v.pc \in {"answered", "write"} /\ v.order = o
    BY DEF Call
  <2>. QED  BY <1>1, <1>2, <1>3, <2>1 DEF ReadPayment, consumerVars
<1>4. CASE UpdatePayment(c)
  <2>. DEFINE next == IF call[c].to = "CANCELLED" THEN "answered" ELSE "publish"
              v == [pc |-> next, order |-> call[c].order, to |-> call[c].to]
  <2>1. /\ call[c].order \in Orders /\ call[c].to \in Final
        /\ call[c] = [pc |-> call[c].pc, order |-> call[c].order, to |-> call[c].to]
    BY <1>4, CallFields DEF UpdatePayment, PaymentInv
  <2>2. [call[c] EXCEPT !.pc = next] = v /\ v \in Call /\ v.order = call[c].order
    BY <2>1 DEF Call
  <2>3. call' = [call EXCEPT ![c] = v]
    BY <1>4, <2>2 DEF UpdatePayment
  <2>4. payments'[v.order] # NoPayment /\ payments'[v.order].status # "PENDING"
    BY <1>4, <2>2, UpdateRow
  <2>5. UNCHANGED <<events, kpc, processed, faults>>
    BY <1>4 DEF UpdatePayment, consumerVars
  <2>. QED  BY <1>1, <1>2, <2>1, <2>2, <2>3, <2>4, <2>5
<1>5. CASE PublishResult(c)
  <2>. DEFINE v == [pc |-> "answered", order |-> call[c].order, to |-> call[c].to]
  <2>1. /\ call[c].order \in Orders /\ call[c].to \in Final
        /\ call[c] = [pc |-> call[c].pc, order |-> call[c].order, to |-> call[c].to]
    BY <1>5, CallFields DEF PublishResult, PaymentInv
  <2>2. [call[c] EXCEPT !.pc = "answered"] = v /\ v \in Call
    BY <2>1 DEF Call
  <2>. QED  BY <1>1, <1>2, <1>5, <2>2 DEF PublishResult, consumerVars
<1>6. CASE CallFails(c)
  <2>1. Idle \in Call /\ Idle.pc = "idle"
    BY DEF Idle, Call
  <2>. QED  BY <1>1, <1>6, <2>1, FaultType DEF CallFails, consumerVars, PaymentInv
<1>7. {"CAPTURED", "FAILED", "CANCELLED"} = Final
  BY DEF Final
<1>. QED  BY <1>3, <1>4, <1>5, <1>6, <1>7 DEF CapturePayment, FailPayment, CancelPayment

\* PaymentInv is inductive.
LEMMA PaymentInductive ==
    /\ Init => PaymentInv
    /\ PaymentInv /\ [Next]_vars => PaymentInv'
<1>1. ASSUME Init PROVE PaymentInv
  <2>1. TypeOK
    BY <1>1, PaymentConstants DEF Init, TypeOK, Call
  <2>2. /\ \A o \in Orders : kpc[o] = "absent" /\ events[o] = {}
        /\ \A c \in Callers : call[c] = Idle
    BY <1>1 DEF Init
  <2>3. CallerHasPayment
    BY <2>2 DEF CallerHasPayment, Idle
  <2>. QED  BY <2>1, <2>2, <2>3 DEF PaymentInv, ConsumerHasPayment, CreatedIsStored,
              AnnouncedIsClosed
<1>2. ASSUME PaymentInv, UNCHANGED vars PROVE PaymentInv'
  BY <1>2 DEF vars, PaymentInv, TypeOK, ConsumerHasPayment, CallerHasPayment,
              CreatedIsStored, AnnouncedIsClosed
<1>3. ASSUME PaymentInv, Next PROVE PaymentInv'
  <2>1. ASSUME NEW o \in Orders, GRPCCreatePayment(o) PROVE PaymentInv'
    <3>1. TypeOK'
      BY <1>3, <2>1, TableType DEF GRPCCreatePayment, consumerVars, PaymentInv, TypeOK
    <3>. QED  BY <1>3, <2>1, <3>1, KeptStep DEF GRPCCreatePayment, consumerVars
  <2>. QED  BY <1>3, <2>1, ConsumerStep, CallerStep, Zenon DEF Next
<1>. QED  BY <1>1, <1>2, <1>3

-----------------------------------------------------------------------------

\* Every reachable state is well typed.
THEOREM PaymentTypeCorrect == Spec => []TypeOK
<1>1. PaymentInv => TypeOK
  BY DEF PaymentInv
<1>. QED  BY <1>1, PaymentInductive, PTL DEF Spec

\* payment.created is published only for a stored payment of the consumer's key.
THEOREM CreatedStored == Spec => []CreatedIsStored
<1>1. PaymentInv => CreatedIsStored
  BY DEF PaymentInv
<1>. QED  BY <1>1, PaymentInductive, PTL DEF Spec

\* A payment whose capture or failure was announced is never PENDING again, whatever
\* stale rows overlapping calls write.
THEOREM AnnouncedClosed == Spec => []AnnouncedIsClosed
<1>1. PaymentInv => AnnouncedIsClosed
  BY DEF PaymentInv
<1>. QED  BY <1>1, PaymentInductive, PTL DEF Spec

\* No step of the service deletes a payment, changes its idempotency key or makes it
\* PENDING again.
THEOREM PaymentsKept == Spec => [][\A o \in Orders : PaymentKept(o)]_vars
<1>1. PaymentInv /\ [Next]_vars => [\A o \in Orders : PaymentKept(o)]_vars
  BY StepKeepsPayment
<1>. QED  BY <1>1, PaymentInductive, PTL DEF Spec

=============================================================================
