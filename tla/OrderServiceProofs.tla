--------------------------- MODULE OrderServiceProofs ---------------------------
(***************************************************************************)
(* Proofs about OrderService, for any number of callers, orders, keys and  *)
(* requests.                                                               *)
(***************************************************************************)
EXTENDS OrderService, TLAPS

-----------------------------------------------------------------------------
(* Types *)

\* A row that exists, with a new status and a matching reason, is a row.
LEMMA UpdatedRowType ==
    ASSUME NEW row \in OrderRow, NEW op \in Ops, NEW to \in Status,
           to = "CANCELLED" => op \in CancellingOps
    PROVE  /\ UpdatedRow(row, op, to) \in OrderRow
           /\ UpdatedRow(row, op, to).key = row.key
           /\ UpdatedRow(row, op, to).request = row.request
  BY DEF UpdatedRow, OrderRow, Ops, Reasons, Status, CancellingOps

\* A caller inside an update holds the fields of one.
LEMMA CallFields ==
    ASSUME TypeOK, NEW c \in Callers
    PROVE  /\ call[c].pc \in {"insert", "reread"} =>
                 call[c].key \in Keys \cup {NoKey} /\ call[c].request \in Requests
           /\ call[c].pc \in {"insert", "reread"} =>
                 call[c] = [pc |-> call[c].pc, key |-> call[c].key,
                            request |-> call[c].request]
           /\ call[c].pc \in {"begin", "write"} =>
                 call[c].op \in Ops /\ call[c].id \in OrderIDs /\ call[c].row \in OrderRow
           /\ call[c].pc = "write" => call[c].existing \in Status
           /\ call[c].pc = "updated" => call[c].id \in OrderIDs /\ call[c].status \in Status
<1>1. call[c] \in Call
  BY DEF TypeOK
<1>. QED  BY <1>1 DEF Call, Idle

-----------------------------------------------------------------------------
(* Cancellation *)

\* What CancelInv asks of the value of one caller's call.
CallOK(v) ==
    /\ v.pc \in {"begin", "write"} =>
          /\ orders[v.id] # NoOrder
          /\ v.row.key = orders[v.id].key
          /\ v.row.request = orders[v.id].request
    /\ (v.pc = "write" /\ v.existing = "CANCELLED") => HasCancelEvent(v.id)
    /\ (v.pc = "updated" /\ v.status = "CANCELLED") => HasCancelEvent(v.id)

\* A step that only moves one caller to a call that is in order.
LEMMA LocalStep ==
    ASSUME CancelInv, NEW c \in Callers, NEW v \in Call, CallOK(v),
           call' = [call EXCEPT ![c] = v], UNCHANGED <<orders, outbox>>
    PROVE  CancelInv'
<1>1. TypeOK'
  BY DEF CancelInv, TypeOK
<1>2. ASSUME NEW d \in Callers PROVE call'[d] = IF d = c THEN v ELSE call[d]
  BY DEF CancelInv, TypeOK
<1>3. RowIsCopy'
  BY <1>2 DEF CancelInv, RowIsCopy, CallOK
<1>4. WriteKnowsEvent'
  BY <1>2 DEF CancelInv, WriteKnowsEvent, CallOK, HasCancelEvent
<1>5. CancelledHasEvent'
  BY DEF CancelInv, CancelledHasEvent, HasCancelEvent
<1>6. AnsweredCancelHasEvent'
  BY <1>2 DEF CancelInv, AnsweredCancelHasEvent, CallOK, HasCancelEvent
<1>. QED  BY <1>1, <1>3, <1>4, <1>5, <1>6 DEF CancelInv

\* A caller that gives up.
LEMMA IdleOK == Idle \in Call /\ CallOK(Idle)
  BY DEF Idle, Call, CallOK

\* The six methods that read an order and either answer or prepare an update.
LEMMA MethodStep ==
    ASSUME CancelInv, NEW c \in Callers, NEW o \in OrderIDs, NEW op \in Ops,
           NEW to \in Status, to = "CANCELLED" => op \in CancellingOps,
           orders[o] # NoOrder,
           AnswerUnchanged(c, op, o) \/ PrepareUpdate(c, op, o, to)
    PROVE  CancelInv'
<1>1. orders[o] \in OrderRow
  BY DEF CancelInv, TypeOK
<1>2. CASE AnswerUnchanged(c, op, o)
  <2>. DEFINE v == [pc |-> "updated", op |-> op, id |-> o, status |-> orders[o].status]
  <2>1. v \in Call
    BY <1>1 DEF Call, OrderRow
  <2>2. CallOK(v)
    BY DEF CallOK, CancelInv, CancelledHasEvent
  <2>. QED  BY <1>2, <2>1, <2>2, LocalStep DEF AnswerUnchanged
<1>3. CASE PrepareUpdate(c, op, o, to)
  <2>. DEFINE row == UpdatedRow(orders[o], op, to)
              v == [pc |-> "begin", op |-> op, id |-> o, row |-> row]
  <2>1. row \in OrderRow /\ row.key = orders[o].key /\ row.request = orders[o].request
    BY <1>1, UpdatedRowType
  <2>2. v \in Call
    BY <2>1 DEF Call
  <2>3. CallOK(v)
    BY <2>1 DEF CallOK
  <2>. QED  BY <1>3, <2>2, <2>3, LocalStep DEF PrepareUpdate
<1>. QED  BY <1>2, <1>3

\* CreateOrder's look-ups and its failed inserts only move the caller.
LEMMA CreateStep ==
    ASSUME CancelInv, NEW c \in Callers,
           \/ \E k \in Keys \cup {NoKey}, r \in Requests : CreateOrder(c, k, r)
           \/ InsertKeyExists(c)
           \/ RereadOrder(c)
    PROVE  CancelInv'
<1>1. ASSUME NEW k \in Keys \cup {NoKey}, NEW r \in Requests, NEW o \in OrderIDs
      PROVE  AnswerExisting(k, r, o) \in Call /\ CallOK(AnswerExisting(k, r, o))
  BY DEF AnswerExisting, Call, CallOK
<1>2. CASE \E k \in Keys \cup {NoKey}, r \in Requests : CreateOrder(c, k, r)
  <2>1. PICK k \in Keys \cup {NoKey}, r \in Requests : CreateOrder(c, k, r)
    BY <1>2
  <2>. DEFINE v == [pc |-> "insert", key |-> k, request |-> r]
  <2>2. v \in Call /\ CallOK(v)
    BY DEF Call, CallOK
  <2>3. CASE call' = [call EXCEPT ![c] = v]
    BY <2>1, <2>2, <2>3, LocalStep DEF CreateOrder
  <2>4. CASE \E o \in GetOrderByIdempotencyKey(k) :
                call' = [call EXCEPT ![c] = AnswerExisting(k, r, o)]
    BY <2>1, <2>4, <1>1, LocalStep DEF CreateOrder, GetOrderByIdempotencyKey
  <2>. QED  BY <2>1, <2>3, <2>4 DEF CreateOrder
<1>3. CASE InsertKeyExists(c)
  <2>. DEFINE v == [call[c] EXCEPT !.pc = "reread"]
  <2>1. /\ call[c] = [pc |-> "insert", key |-> call[c].key, request |-> call[c].request]
        /\ call[c].key \in Keys \cup {NoKey}
        /\ call[c].request \in Requests
    BY <1>3, CallFields DEF InsertKeyExists, CancelInv
  <2>2. v = [pc |-> "reread", key |-> call[c].key, request |-> call[c].request]
    BY <2>1
  <2>3. v \in Call /\ CallOK(v)
    BY <2>1, <2>2 DEF Call, CallOK
  <2>. QED  BY <1>3, <2>3, LocalStep DEF InsertKeyExists
<1>4. CASE RereadOrder(c)
  <2>1. call[c].key \in Keys \cup {NoKey} /\ call[c].request \in Requests
    BY <1>4, CallFields DEF RereadOrder, CancelInv
  <2>2. PICK o \in OrderIDs :
           call' = [call EXCEPT ![c] = AnswerExisting(call[c].key, call[c].request, o)]
    BY <1>4 DEF RereadOrder, GetOrderByIdempotencyKey
  <2>. QED  BY <1>4, <1>1, <2>1, <2>2, LocalStep DEF RereadOrder
<1>. QED  BY <1>2, <1>3, <1>4

\* The insert adds an order that is not CANCELLED; the copies other callers hold
\* are of other orders.
LEMMA InsertStep ==
    ASSUME CancelInv, NEW c \in Callers, InsertOrder(c)
    PROVE  CancelInv'
<1>1. call[c].key \in Keys \cup {NoKey} /\ call[c].request \in Requests
  BY CallFields DEF InsertOrder, CancelInv
<1>2. PICK o \in OrderIDs :
         /\ orders[o] = NoOrder
         /\ orders' = [orders EXCEPT ![o] = NewOrder(call[c].key, call[c].request)]
         /\ outbox' = outbox \cup {CreatedEvent(o)}
         /\ \E answer \in {Idle, [pc |-> "created", key |-> call[c].key,
                                  request |-> call[c].request, id |-> o]} :
               call' = [call EXCEPT ![c] = answer]
  BY DEF InsertOrder
<1>3. PICK v \in Call : v.pc \in {"idle", "created"} /\ call' = [call EXCEPT ![c] = v]
  <2>1. Idle \in Call /\ Idle.pc = "idle"
    BY DEF Idle, Call
  <2>. DEFINE w == [pc |-> "created", key |-> call[c].key,
                    request |-> call[c].request, id |-> o]
  <2>2. w \in Call /\ w.pc = "created"
    BY <1>1 DEF Call
  <2>. QED  BY <1>2, <2>1, <2>2
<1>4. NewOrder(call[c].key, call[c].request) \in OrderRow
  BY <1>1 DEF NewOrder, OrderRow, Status, Reasons
<1>5. CreatedEvent(o) \in OutboxRow
  BY DEF CreatedEvent, OutboxRow, Reasons
<1>6. TypeOK'
  BY <1>2, <1>3, <1>4, <1>5 DEF TypeOK, CancelInv
<1>7. ASSUME NEW p \in OrderIDs, HasCancelEvent(p) PROVE HasCancelEvent(p)'
  BY <1>2, <1>7 DEF HasCancelEvent
<1>8. ASSUME NEW d \in Callers, call'[d].pc \in {"begin", "write", "updated"}
      PROVE  call'[d] = call[d] /\ call[d].id \in OrderIDs
  <2>1. call'[d] = call[d]
    BY <1>3, <1>8 DEF CancelInv, TypeOK
  <2>. QED  BY <1>8, <2>1, CallFields DEF CancelInv
<1>9. ASSUME NEW p \in OrderIDs, orders[p] # NoOrder PROVE orders'[p] = orders[p]
  BY <1>2, <1>9 DEF CancelInv, TypeOK
<1>10. RowIsCopy'
  BY <1>8, <1>9 DEF CancelInv, RowIsCopy
<1>11. WriteKnowsEvent'
  BY <1>7, <1>8 DEF CancelInv, WriteKnowsEvent
<1>12. AnsweredCancelHasEvent'
  BY <1>7, <1>8 DEF CancelInv, AnsweredCancelHasEvent
<1>13. CancelledHasEvent'
  <2>. SUFFICES ASSUME NEW p \in OrderIDs, orders'[p] # NoOrder,
                       orders'[p].status = "CANCELLED"
                PROVE  HasCancelEvent(p)'
    BY DEF CancelledHasEvent
  <2>1. p # o
    BY <1>2 DEF CancelInv, TypeOK, NewOrder
  <2>2. orders'[p] = orders[p]
    BY <1>2, <2>1 DEF CancelInv, TypeOK
  <2>. QED  BY <1>7, <2>2 DEF CancelInv, CancelledHasEvent
<1>. QED  BY <1>6, <1>10, <1>11, <1>12, <1>13 DEF CancelInv

\* The read inside the transaction sees CANCELLED only if the event is there.
LEMMA BeginStep ==
    ASSUME CancelInv, NEW c \in Callers, BeginUpdate(c)
    PROVE  CancelInv'
<1>. DEFINE v == [pc |-> "write", op |-> call[c].op, id |-> call[c].id,
                  row |-> call[c].row, existing |-> orders[call[c].id].status]
<1>1. call[c].op \in Ops /\ call[c].id \in OrderIDs /\ call[c].row \in OrderRow
  BY CallFields DEF CancelInv, BeginUpdate
<1>2. /\ orders[call[c].id] # NoOrder
      /\ call[c].row.key = orders[call[c].id].key
      /\ call[c].row.request = orders[call[c].id].request
  BY DEF CancelInv, RowIsCopy, BeginUpdate
<1>3. orders[call[c].id].status \in Status
  BY <1>1, <1>2 DEF CancelInv, TypeOK, OrderRow
<1>4. v \in Call
  BY <1>1, <1>3 DEF Call
<1>5. CallOK(v)
  BY <1>1, <1>2 DEF CallOK, CancelInv, CancelledHasEvent
<1>. QED  BY <1>4, <1>5, LocalStep DEF BeginUpdate

\* The commit: a row that becomes CANCELLED brings its event, or read CANCELLED
\* before and so finds it there.
LEMMA CommitStep ==
    ASSUME CancelInv, NEW c \in Callers, CommitUpdate(c)
    PROVE  CancelInv'
<1>. DEFINE o == call[c].id
            row == call[c].row
<1>1. /\ call[c].pc = "write" /\ call[c].op \in Ops /\ o \in OrderIDs
      /\ row \in OrderRow /\ call[c].existing \in Status
  BY CallFields DEF CancelInv, CommitUpdate
<1>2. /\ orders[o] # NoOrder /\ row.key = orders[o].key
      /\ row.request = orders[o].request
  BY <1>1 DEF CancelInv, RowIsCopy
<1>3. /\ orders' = [orders EXCEPT ![o] = row]
      /\ outbox' = outbox \/ outbox' = outbox \cup {CancelledEvent(o, row)}
  BY DEF CommitUpdate
<1>4. PICK v \in Call : /\ v.pc = "idle" \/ (v.pc = "updated" /\ v.id = o /\ v.status = row.status)
                        /\ call' = [call EXCEPT ![c] = v]
  <2>1. Idle \in Call /\ Idle.pc = "idle"
    BY DEF Idle, Call
  <2>. DEFINE w == [pc |-> "updated", op |-> call[c].op, id |-> o, status |-> row.status]
  <2>2. w \in Call /\ w.pc = "updated" /\ w.id = o /\ w.status = row.status
    BY <1>1 DEF Call, OrderRow
  <2>. QED  BY <2>1, <2>2 DEF CommitUpdate
<1>5. CancelledEvent(o, row) \in OutboxRow
  BY <1>1 DEF CancelledEvent, OutboxRow, OrderRow
<1>6. TypeOK'
  BY <1>1, <1>3, <1>4, <1>5 DEF CancelInv, TypeOK
<1>. DEFINE Announced(p) == \E e \in outbox' : e.type = "order.cancelled" /\ e.id = p
<1>7. ASSUME NEW p \in OrderIDs, HasCancelEvent(p) PROVE Announced(p)
  BY <1>3, <1>7 DEF HasCancelEvent
<1>8. row.status = "CANCELLED" => Announced(o)
  <2>. SUFFICES ASSUME row.status = "CANCELLED" PROVE Announced(o)
    OBVIOUS
  <2>1. CASE call[c].existing = "CANCELLED"
    BY <1>1, <1>7, <2>1 DEF CancelInv, WriteKnowsEvent
  <2>2. CASE call[c].existing # "CANCELLED"
    <3>1. outbox' = outbox \cup {CancelledEvent(o, row)}
      BY <2>2 DEF CommitUpdate, announcesCancel
    <3>2. CancelledEvent(o, row).type = "order.cancelled" /\ CancelledEvent(o, row).id = o
      BY DEF CancelledEvent
    <3>3. CancelledEvent(o, row) \in outbox'
      BY <3>1
    <3>. QED  BY <3>2, <3>3
  <2>. QED  BY <2>1, <2>2
<1>9. ASSUME NEW p \in OrderIDs
      PROVE  orders'[p] = IF p = o THEN row ELSE orders[p]
  BY <1>3 DEF CancelInv, TypeOK
<1>10. ASSUME NEW d \in Callers PROVE call'[d] = IF d = c THEN v ELSE call[d]
  BY <1>4 DEF CancelInv, TypeOK
<1>11. CancelledHasEvent'
  BY <1>7, <1>8, <1>9 DEF CancelInv, CancelledHasEvent, HasCancelEvent
<1>12. RowIsCopy'
  <2>. SUFFICES ASSUME NEW d \in Callers, call'[d].pc \in {"begin", "write"}
                PROVE  /\ orders'[call'[d].id] # NoOrder
                       /\ call'[d].row.key = orders'[call'[d].id].key
                       /\ call'[d].row.request = orders'[call'[d].id].request
    BY DEF RowIsCopy
  <2>1. call'[d] = call[d]
    BY <1>4, <1>10
  <2>2. call[d].id \in OrderIDs
    BY <2>1, CallFields DEF CancelInv
  <2>3. /\ orders[call[d].id] # NoOrder
        /\ call[d].row.key = orders[call[d].id].key
        /\ call[d].row.request = orders[call[d].id].request
    BY <2>1 DEF CancelInv, RowIsCopy
  <2>4. row # NoOrder
    BY <1>1, OrderConstants
  <2>. QED  BY <1>2, <1>9, <2>1, <2>2, <2>3, <2>4
<1>13. WriteKnowsEvent'
  <2>. SUFFICES ASSUME NEW d \in Callers, call'[d].pc = "write",
                       call'[d].existing = "CANCELLED"
                PROVE  Announced(call'[d].id)
    BY DEF WriteKnowsEvent, HasCancelEvent
  <2>1. call'[d] = call[d]
    BY <1>4, <1>10
  <2>2. call[d].id \in OrderIDs /\ HasCancelEvent(call[d].id)
    BY <2>1, CallFields DEF CancelInv, WriteKnowsEvent
  <2>. QED  BY <1>7, <2>1, <2>2
<1>14. AnsweredCancelHasEvent'
  <2>. SUFFICES ASSUME NEW d \in Callers, call'[d].pc = "updated",
                       call'[d].status = "CANCELLED"
                PROVE  Announced(call'[d].id)
    BY DEF AnsweredCancelHasEvent, HasCancelEvent
  <2>1. CASE d = c
    BY <1>4, <1>8, <1>10, <2>1
  <2>2. CASE d # c
    <3>1. call'[d] = call[d]
      BY <1>10, <2>2
    <3>2. call[d].id \in OrderIDs /\ HasCancelEvent(call[d].id)
      BY <3>1, CallFields DEF CancelInv, AnsweredCancelHasEvent
    <3>. QED  BY <1>7, <3>1, <3>2
  <2>. QED  BY <2>1, <2>2
<1>. QED  BY <1>6, <1>11, <1>12, <1>13, <1>14 DEF CancelInv

\* CancelInv holds at the start and is kept by every step.
LEMMA CancelInductive ==
    /\ Init => CancelInv
    /\ CancelInv /\ [Next]_vars => CancelInv'
<1>1. Init => CancelInv
  <2>. SUFFICES ASSUME Init PROVE CancelInv
    OBVIOUS
  <2>1. \A c \in Callers : call[c] = Idle
    BY DEF Init
  <2>2. \A o \in OrderIDs : orders[o] = NoOrder
    BY DEF Init
  <2>3. TypeOK
    BY IdleOK DEF Init, TypeOK
  <2>4. RowIsCopy /\ WriteKnowsEvent /\ AnsweredCancelHasEvent
    BY <2>1 DEF RowIsCopy, WriteKnowsEvent, AnsweredCancelHasEvent, Idle
  <2>5. CancelledHasEvent
    BY <2>2 DEF CancelledHasEvent
  <2>. QED  BY <2>3, <2>4, <2>5 DEF CancelInv
<1>2. CancelInv /\ [Next]_vars => CancelInv'
  <2>. SUFFICES ASSUME CancelInv, [Next]_vars PROVE CancelInv'
    OBVIOUS
  <2>1. CASE UNCHANGED vars
    BY <2>1 DEF vars, CancelInv, TypeOK, RowIsCopy, WriteKnowsEvent,
                CancelledHasEvent, AnsweredCancelHasEvent, HasCancelEvent
  <2>2. CASE Next
    <3>1. PICK c \in Callers :
            \/ \E k \in Keys \cup {NoKey}, r \in Requests : CreateOrder(c, k, r)
            \/ InsertOrder(c)
            \/ InsertKeyExists(c)
            \/ InsertIDExists(c)
            \/ RereadOrder(c)
            \/ \E o \in OrderIDs :
                  \/ CancelOrder(c, o)
                  \/ MarkInventoryReserved(c, o)
                  \/ MarkInventoryReservationFailed(c, o)
                  \/ MarkPaymentCaptured(c, o)
                  \/ MarkPaymentFailed(c, o)
                  \/ MarkPaymentCreationFailed(c, o)
            \/ BeginUpdate(c)
            \/ CommitUpdate(c)
            \/ RollbackUpdate(c)
            \/ Abort(c)
      BY <2>2, Zenon DEF Next
    <3>2. CASE \E k \in Keys \cup {NoKey}, r \in Requests : CreateOrder(c, k, r)
      BY <3>2, CreateStep
    <3>3. CASE InsertOrder(c)
      BY <3>3, InsertStep
    <3>4. CASE InsertKeyExists(c) \/ RereadOrder(c)
      BY <3>4, CreateStep
    <3>5. CASE InsertIDExists(c) \/ RollbackUpdate(c) \/ Abort(c)
      BY <3>5, IdleOK, LocalStep DEF InsertIDExists, RollbackUpdate, Abort
    <3>6. CASE \E o \in OrderIDs :
                  \/ CancelOrder(c, o)
                  \/ MarkInventoryReserved(c, o)
                  \/ MarkInventoryReservationFailed(c, o)
                  \/ MarkPaymentCaptured(c, o)
                  \/ MarkPaymentFailed(c, o)
                  \/ MarkPaymentCreationFailed(c, o)
      <4>1. PICK o \in OrderIDs :
                  \/ CancelOrder(c, o)
                  \/ MarkInventoryReserved(c, o)
                  \/ MarkInventoryReservationFailed(c, o)
                  \/ MarkPaymentCaptured(c, o)
                  \/ MarkPaymentFailed(c, o)
                  \/ MarkPaymentCreationFailed(c, o)
        BY <3>6
      <4>2. PICK op \in Ops, to \in Status :
               /\ to = "CANCELLED" => op \in CancellingOps
               /\ orders[o] # NoOrder
               /\ AnswerUnchanged(c, op, o) \/ PrepareUpdate(c, op, o, to)
        BY <4>1, Zenon DEF CancelOrder, MarkInventoryReserved,
             MarkInventoryReservationFailed, MarkPaymentCaptured, MarkPaymentFailed,
             MarkPaymentCreationFailed, transitionOrder, Ops, CancellingOps, Status
      <4>. QED  BY <4>2, MethodStep
    <3>7. CASE BeginUpdate(c)
      BY <3>7, BeginStep
    <3>8. CASE CommitUpdate(c)
      BY <3>8, CommitStep
    <3>. QED  BY <3>1, <3>2, <3>3, <3>4, <3>5, <3>6, <3>7, <3>8
  <2>. QED  BY <2>1, <2>2
<1>. QED  BY <1>1, <1>2

\* Every reachable state of the tables and callers is well typed.
THEOREM TypeCorrect == Spec => []TypeOK
<1>1. CancelInv => TypeOK
  BY DEF CancelInv
<1>. QED  BY <1>1, CancelInductive, PTL DEF Spec

\* Every CANCELLED order has its order.cancelled event, whatever the interleaving
\* of UpdateOrder's unlocked reads and blind writes.
THEOREM CancelAnnounced == Spec => []CancelledHasEvent
<1>1. CancelInv => CancelledHasEvent
  BY DEF CancelInv
<1>. QED  BY <1>1, CancelInductive, PTL DEF Spec

\* Whoever was answered CANCELLED can rely on the event.
THEOREM AnsweredCancelAnnounced == Spec => []AnsweredCancelHasEvent
<1>1. CancelInv => AnsweredCancelHasEvent
  BY DEF CancelInv
<1>. QED  BY <1>1, CancelInductive, PTL DEF Spec

-----------------------------------------------------------------------------
(* Identity of orders and idempotency keys *)

\* Only the insert and the commit of an update touch the tables.
LEMMA TablesStep ==
    ASSUME [Next]_vars
    PROVE  \/ UNCHANGED <<orders, outbox>>
           \/ \E c \in Callers : InsertOrder(c) \/ CommitUpdate(c)
<1>1. CASE UNCHANGED vars
  BY <1>1 DEF vars
<1>2. CASE Next
  <2>1. ASSUME NEW c \in Callers, NEW o \in OrderIDs, NEW op, NEW from, NEW to,
               transitionOrder(c, op, o, from, to)
        PROVE  UNCHANGED <<orders, outbox>>
    BY <2>1 DEF transitionOrder, PrepareUpdate, AnswerUnchanged
  <2>2. ASSUME NEW c \in Callers, NEW o \in OrderIDs,
               \/ CancelOrder(c, o)
               \/ MarkInventoryReserved(c, o)
               \/ MarkInventoryReservationFailed(c, o)
               \/ MarkPaymentCaptured(c, o)
               \/ MarkPaymentFailed(c, o)
               \/ MarkPaymentCreationFailed(c, o)
        PROVE  UNCHANGED <<orders, outbox>>
    <3>1. CASE CancelOrder(c, o)
      BY <3>1 DEF CancelOrder, PrepareUpdate, AnswerUnchanged
    <3>. QED
      BY <2>1, <2>2, <3>1, Zenon DEF MarkInventoryReserved,
         MarkInventoryReservationFailed, MarkPaymentCaptured, MarkPaymentFailed,
         MarkPaymentCreationFailed
  <2>3. ASSUME NEW c \in Callers,
               \/ \E k \in Keys \cup {NoKey}, r \in Requests : CreateOrder(c, k, r)
               \/ InsertKeyExists(c) \/ InsertIDExists(c) \/ RereadOrder(c)
               \/ BeginUpdate(c) \/ RollbackUpdate(c) \/ Abort(c)
        PROVE  UNCHANGED <<orders, outbox>>
    BY <2>3 DEF CreateOrder, InsertKeyExists, InsertIDExists, RereadOrder,
                BeginUpdate, RollbackUpdate, Abort
  <2>. QED  BY <1>2, <2>2, <2>3, Zenon DEF Next
<1>. QED  BY <1>1, <1>2

\* What OrderIdentityKept says of one step.
IdentityStep ==
    /\ \A o \in OrderIDs : orders[o] # NoOrder =>
          /\ orders'[o] # NoOrder
          /\ orders'[o].key = orders[o].key
          /\ orders'[o].request = orders[o].request
    /\ outbox \subseteq outbox'

\* A blind UPDATE from a stale copy keeps the key and the request, because every
\* copy agrees with the table on them (RowIsCopy).
LEMMA StepKeepsIdentity ==
    ASSUME CancelInv, [Next]_vars
    PROVE  IdentityStep
<1>1. CASE UNCHANGED <<orders, outbox>>
  BY <1>1 DEF IdentityStep
<1>2. ASSUME NEW c \in Callers, InsertOrder(c) PROVE IdentityStep
  BY <1>2 DEF InsertOrder, IdentityStep, CancelInv, TypeOK
<1>3. ASSUME NEW c \in Callers, CommitUpdate(c) PROVE IdentityStep
  <2>1. call[c].id \in OrderIDs /\ call[c].row \in OrderRow
    BY <1>3, CallFields DEF CancelInv, CommitUpdate
  <2>2. /\ call[c].row.key = orders[call[c].id].key
        /\ call[c].row.request = orders[call[c].id].request
    BY <1>3 DEF CancelInv, RowIsCopy, CommitUpdate
  <2>3. call[c].row # NoOrder
    BY <2>1, OrderConstants
  <2>4. orders' = [orders EXCEPT ![call[c].id] = call[c].row] /\ outbox \subseteq outbox'
    BY <1>3 DEF CommitUpdate
  <2>. QED  BY <2>1, <2>2, <2>3, <2>4 DEF IdentityStep, CancelInv, TypeOK
<1>. QED  BY <1>1, <1>2, <1>3, TablesStep

\* No order or event disappears, and no update replaces an order's key or request.
THEOREM IdentityKept == Spec => OrderIdentityKept
<1>1. CancelInv /\ [Next]_vars => [IdentityStep]_vars
  BY StepKeepsIdentity
<1>. QED  BY <1>1, CancelInductive, PTL DEF Spec, OrderIdentityKept, IdentityStep

\* A step that adds no order leaves every key with the orders it had.
LEMMA KeyStep ==
    ASSUME CancelInv, KeyNamesOneOrder, [Next]_vars
    PROVE  KeyNamesOneOrder'
<1>. SUFFICES ASSUME NEW k \in Keys, NEW o \in OrderIDs, NEW p \in OrderIDs,
                     orders'[o] # NoOrder, orders'[o].key = k,
                     orders'[p] # NoOrder, orders'[p].key = k
              PROVE  o = p
  BY DEF KeyNamesOneOrder, GetOrderByIdempotencyKey
<1>0. k # NoKey
  BY OrderConstants
<1>1. CASE orders[o] # NoOrder /\ orders[p] # NoOrder
  <2>1. orders[o].key = k /\ orders[p].key = k
    BY <1>1, StepKeepsIdentity DEF IdentityStep
  <2>. QED  BY <1>0, <1>1, <2>1 DEF KeyNamesOneOrder, GetOrderByIdempotencyKey
<1>2. CASE orders[o] = NoOrder \/ orders[p] = NoOrder
  <2>1. PICK c \in Callers : InsertOrder(c)
    <3>1. ASSUME NEW c \in Callers, CommitUpdate(c), NEW q \in OrderIDs,
                 orders[q] = NoOrder
          PROVE  orders'[q] = NoOrder
      <4>1. orders[call[c].id] # NoOrder
        BY <3>1 DEF CancelInv, RowIsCopy, CommitUpdate
      <4>. QED  BY <3>1, <4>1 DEF CommitUpdate, CancelInv, TypeOK
    <3>. QED  BY <1>2, <3>1, TablesStep
  <2>2. PICK q \in OrderIDs :
           /\ GetOrderByIdempotencyKey(call[c].key) = {}
           /\ orders' = [orders EXCEPT ![q] = NewOrder(call[c].key, call[c].request)]
    BY <2>1 DEF InsertOrder, KeyFree
  <2>3. ASSUME NEW x \in OrderIDs
        PROVE  orders'[x] = IF x = q THEN NewOrder(call[c].key, call[c].request)
                                     ELSE orders[x]
    BY <2>2 DEF CancelInv, TypeOK
  <2>4. call[c].key = k
    <3>0. NewOrder(call[c].key, call[c].request).key = call[c].key
      BY DEF NewOrder
    <3>1. orders'[q].key = call[c].key
      BY <2>3, <3>0
    <3>2. q = o \/ q = p
      BY <1>2, <2>3
    <3>. QED  BY <3>1, <3>2
  <2>5. \A x \in OrderIDs : orders[x] # NoOrder => orders[x].key # k
    BY <1>0, <2>2, <2>4 DEF GetOrderByIdempotencyKey
  <2>. QED  BY <2>3, <2>5
<1>. QED  BY <1>1, <1>2

\* However many CreateOrder calls race for an idempotency key, it names one order.
THEOREM KeyUnique == Spec => []KeyNamesOneOrder
<1>1. Init => KeyNamesOneOrder
  BY DEF Init, KeyNamesOneOrder, GetOrderByIdempotencyKey
<1>2. CancelInv /\ KeyNamesOneOrder /\ [Next]_vars => KeyNamesOneOrder'
  BY KeyStep
<1>. QED  BY <1>1, <1>2, CancelInductive, PTL DEF Spec

-----------------------------------------------------------------------------
(* The outbox agrees with the orders *)

\* One transaction inserts an order with its order.created row, and only the update
\* of a stored order adds another row, once.
LEMMA OutboxStep ==
    ASSUME CancelInv, OutboxConsistent, [Next]_vars
    PROVE  OutboxConsistent'
<1>1. CASE UNCHANGED <<orders, outbox>>
  BY <1>1 DEF OutboxConsistent
<1>2. ASSUME NEW c \in Callers, InsertOrder(c) PROVE OutboxConsistent'
  <2>1. PICK o \in OrderIDs :
           /\ orders[o] = NoOrder
           /\ orders' = [orders EXCEPT ![o] = NewOrder(call[c].key, call[c].request)]
           /\ outbox' = outbox \cup {CreatedEvent(o)}
    BY <1>2 DEF InsertOrder
  <2>2. NewOrder(call[c].key, call[c].request) # NoOrder
    <3>1. call[c].key \in Keys \cup {NoKey} /\ call[c].request \in Requests
      BY <1>2, CallFields DEF InsertOrder, CancelInv
    <3>2. NewOrder(call[c].key, call[c].request) \in OrderRow
      BY <3>1 DEF NewOrder, OrderRow, Status, Reasons
    <3>. QED  BY <3>2, OrderConstants
  <2>3. ASSUME NEW p \in OrderIDs
        PROVE  orders'[p] # NoOrder <=> (p = o \/ orders[p] # NoOrder)
    BY <2>1, <2>2 DEF CancelInv, TypeOK
  <2>4. ASSUME NEW e \in outbox PROVE e.id \in OrderIDs /\ e.id # o
    BY <2>1 DEF OutboxConsistent, CancelInv, TypeOK, OutboxRow
  <2>5. ASSUME NEW p \in OrderIDs
        PROVE  CreatedEvent(p).id = p /\ CreatedEvent(p).type = "order.created"
    BY DEF CreatedEvent
  <2>6. \A p \in OrderIDs : orders'[p] # NoOrder <=> CreatedEvent(p) \in outbox'
    BY <2>1, <2>3, <2>5 DEF OutboxConsistent
  <2>7. \A e \in outbox' : orders'[e.id] # NoOrder
    BY <2>1, <2>3, <2>4, <2>5 DEF OutboxConsistent
  <2>8. \A e, f \in outbox' : (e.type = f.type /\ e.id = f.id) => e = f
    BY <2>1, <2>4, <2>5 DEF OutboxConsistent
  <2>. QED  BY <2>6, <2>7, <2>8 DEF OutboxConsistent, CreatedEvent
<1>3. ASSUME NEW c \in Callers, CommitUpdate(c) PROVE OutboxConsistent'
  <2>. DEFINE o == call[c].id
              E == CancelledEvent(o, call[c].row)
  <2>1. o \in OrderIDs /\ call[c].row \in OrderRow /\ orders[o] # NoOrder
    BY <1>3, CallFields DEF CancelInv, RowIsCopy, CommitUpdate
  <2>2. call[c].row # NoOrder
    BY <2>1, OrderConstants
  <2>3. \A p \in OrderIDs : orders'[p] # NoOrder <=> orders[p] # NoOrder
    BY <1>3, <2>1, <2>2 DEF CommitUpdate, CancelInv, TypeOK
  <2>4. E.id = o /\ E.type = "order.cancelled"
    BY DEF CancelledEvent
  <2>5. \/ outbox' = outbox
        \/ outbox' = outbox \cup {E} /\ ~HasCancelEvent(o)
    BY <1>3 DEF CommitUpdate
  <2>6. \A e \in outbox : e.id \in OrderIDs
    BY DEF CancelInv, TypeOK, OutboxRow
  <2>7. \A p \in OrderIDs : CreatedEvent(p).type = "order.created"
    BY DEF CreatedEvent
  <2>8. \A p \in OrderIDs : orders'[p] # NoOrder <=> CreatedEvent(p) \in outbox'
    BY <2>3, <2>4, <2>5, <2>7 DEF OutboxConsistent
  <2>9. \A e \in outbox' : orders'[e.id] # NoOrder
    BY <2>1, <2>3, <2>4, <2>5, <2>6 DEF OutboxConsistent
  <2>10. \A e, f \in outbox' : (e.type = f.type /\ e.id = f.id) => e = f
    BY <2>4, <2>5 DEF OutboxConsistent, HasCancelEvent
  <2>. QED  BY <2>8, <2>9, <2>10 DEF OutboxConsistent, CreatedEvent
<1>. QED  BY <1>1, <1>2, <1>3, TablesStep

\* The outbox holds one order.created row for each stored order, at most one
\* order.cancelled row, and none for an order that does not exist.
THEOREM OutboxAgrees == Spec => []OutboxConsistent
<1>1. Init => OutboxConsistent
  BY DEF Init, OutboxConsistent
<1>2. CancelInv /\ OutboxConsistent /\ [Next]_vars => OutboxConsistent'
  BY OutboxStep
<1>. QED  BY <1>1, <1>2, CancelInductive, PTL DEF Spec

-----------------------------------------------------------------------------
(* The answers of CreateOrder *)

\* An order stored under key k in a given orders table.
Holds(table, o, k) == table[o] # NoOrder /\ table[o].key = k /\ k # NoKey

\* What CreateAnswersHold asks of one call, by the orders table it is read with.
AnswerHolds(v, table) ==
    /\ v.pc = "reread" => \E o \in OrderIDs : Holds(table, o, v.key)
    /\ v.pc = "created" =>
          IF v.id = None
          THEN \E o \in OrderIDs : Holds(table, o, v.key) /\ table[o].request # v.request
          ELSE /\ v.id \in OrderIDs
               /\ table[v.id] # NoOrder
               /\ table[v.id].key = v.key
               /\ table[v.id].request = v.request

AnswersInv == \A c \in Callers : AnswerHolds(call[c], orders)

\* AnswersInv is CreateAnswersHold, call by call.
LEMMA AnswersImply == AnswersInv => CreateAnswersHold
  BY DEF AnswersInv, AnswerHolds, Holds, CreateAnswersHold, RereadFinds,
         GetOrderByIdempotencyKey

\* The answer built from an order found under the key holds.
LEMMA ExistingHolds ==
    ASSUME NEW k, NEW r, NEW o \in GetOrderByIdempotencyKey(k)
    PROVE  AnswerHolds(AnswerExisting(k, r, o), orders)
<1>1. o \in OrderIDs /\ Holds(orders, o, k) /\ o # None
  BY OrderConstants DEF GetOrderByIdempotencyKey, Holds
<1>2. CASE orders[o].request = r
  BY <1>1, <1>2 DEF AnswerExisting, ordersMatchForIdempotency, AnswerHolds, Holds
<1>3. CASE orders[o].request # r
  BY <1>1, <1>3 DEF AnswerExisting, ordersMatchForIdempotency, AnswerHolds, Holds
<1>. QED  BY <1>2, <1>3

\* What a step does to one caller: nothing, or it leaves the caller with an answer
\* that holds in the new table.
LEMMA CallerStep ==
    ASSUME CancelInv, [Next]_vars, NEW d \in Callers
    PROVE  call'[d] = call[d] \/ AnswerHolds(call'[d], orders')
<1>1. CASE UNCHANGED vars
  BY <1>1 DEF vars
<1>2. ASSUME NEW c \in Callers, NEW v,
             call' = [call EXCEPT ![c] = v], AnswerHolds(v, orders')
      PROVE  call'[d] = call[d] \/ AnswerHolds(call'[d], orders')
  BY <1>2 DEF CancelInv, TypeOK
<1>3. ASSUME NEW v, v.pc \in {"idle", "insert", "begin", "write", "updated"}
      PROVE  AnswerHolds(v, orders')
  BY <1>3 DEF AnswerHolds
<1>4. Idle.pc = "idle"
  BY DEF Idle
<1>5. ASSUME NEW c \in Callers, NEW k \in Keys \cup {NoKey}, NEW r \in Requests,
             CreateOrder(c, k, r)
      PROVE  call'[d] = call[d] \/ AnswerHolds(call'[d], orders')
  <2>1. orders' = orders
    BY <1>5 DEF CreateOrder
  <2>2. CASE \E o \in GetOrderByIdempotencyKey(k) :
                call' = [call EXCEPT ![c] = AnswerExisting(k, r, o)]
    BY <1>2, <2>1, <2>2, ExistingHolds
  <2>3. CASE call' = [call EXCEPT ![c] = [pc |-> "insert", key |-> k, request |-> r]]
    BY <1>2, <1>3, <2>3
  <2>. QED  BY <1>5, <2>2, <2>3 DEF CreateOrder
<1>6. ASSUME NEW c \in Callers, InsertOrder(c)
      PROVE  call'[d] = call[d] \/ AnswerHolds(call'[d], orders')
  <2>. DEFINE row == NewOrder(call[c].key, call[c].request)
  <2>1. PICK o \in OrderIDs :
           /\ orders' = [orders EXCEPT ![o] = row]
           /\ \E answer \in {Idle, [pc |-> "created", key |-> call[c].key,
                                    request |-> call[c].request, id |-> o]} :
                 call' = [call EXCEPT ![c] = answer]
    BY <1>6 DEF InsertOrder
  <2>2. row # NoOrder /\ row.key = call[c].key /\ row.request = call[c].request
    <3>1. call[c].key \in Keys \cup {NoKey} /\ call[c].request \in Requests
      BY <1>6, CallFields DEF InsertOrder, CancelInv
    <3>2. row \in OrderRow
      BY <3>1 DEF NewOrder, OrderRow, Status, Reasons
    <3>. QED  BY <3>2, OrderConstants DEF NewOrder
  <2>3. orders'[o] = row
    BY <2>1 DEF CancelInv, TypeOK
  <2>. DEFINE v == [pc |-> "created", key |-> call[c].key,
                    request |-> call[c].request, id |-> o]
  <2>4. AnswerHolds(v, orders')
    BY <2>2, <2>3, OrderConstants DEF AnswerHolds
  <2>5. CASE call' = [call EXCEPT ![c] = Idle]
    BY <1>2, <1>3, <1>4, <2>5
  <2>6. CASE call' = [call EXCEPT ![c] = v]
    BY <1>2, <2>4, <2>6
  <2>. QED  BY <2>1, <2>5, <2>6
<1>7. ASSUME NEW c \in Callers, InsertKeyExists(c)
      PROVE  call'[d] = call[d] \/ AnswerHolds(call'[d], orders')
  <2>. DEFINE v == [pc |-> "reread", key |-> call[c].key, request |-> call[c].request]
  <2>1. call[c] = [pc |-> "insert", key |-> call[c].key, request |-> call[c].request]
    BY <1>7, CallFields DEF InsertKeyExists, CancelInv
  <2>2. [call[c] EXCEPT !.pc = "reread"] = v
    BY <2>1
  <2>3. AnswerHolds(v, orders')
    BY <1>7 DEF InsertKeyExists, GetOrderByIdempotencyKey, AnswerHolds, Holds
  <2>. QED  BY <1>2, <1>7, <2>2, <2>3 DEF InsertKeyExists
<1>8. ASSUME NEW c \in Callers, RereadOrder(c)
      PROVE  call'[d] = call[d] \/ AnswerHolds(call'[d], orders')
  BY <1>2, <1>8, ExistingHolds DEF RereadOrder
<1>9. ASSUME NEW c \in Callers, NEW o \in OrderIDs,
             \/ CancelOrder(c, o)
             \/ MarkInventoryReserved(c, o)
             \/ MarkInventoryReservationFailed(c, o)
             \/ MarkPaymentCaptured(c, o)
             \/ MarkPaymentFailed(c, o)
             \/ MarkPaymentCreationFailed(c, o)
      PROVE  call'[d] = call[d] \/ AnswerHolds(call'[d], orders')
  <2>1. PICK op, to : AnswerUnchanged(c, op, o) \/ PrepareUpdate(c, op, o, to)
    BY <1>9, Zenon DEF CancelOrder, MarkInventoryReserved,
       MarkInventoryReservationFailed, MarkPaymentCaptured, MarkPaymentFailed,
       MarkPaymentCreationFailed, transitionOrder
  <2>. DEFINE v == [pc |-> "updated", op |-> op, id |-> o, status |-> orders[o].status]
              w == [pc |-> "begin", op |-> op, id |-> o,
                    row |-> UpdatedRow(orders[o], op, to)]
  <2>2. AnswerHolds(v, orders') /\ AnswerHolds(w, orders')
    BY <1>3
  <2>3. call' = [call EXCEPT ![c] = v] \/ call' = [call EXCEPT ![c] = w]
    BY <2>1 DEF AnswerUnchanged, PrepareUpdate
  <2>. QED  BY <1>2, <2>2, <2>3
<1>10. ASSUME NEW c \in Callers, BeginUpdate(c) \/ CommitUpdate(c)
       PROVE  call'[d] = call[d] \/ AnswerHolds(call'[d], orders')
  BY <1>2, <1>3, <1>4, <1>10 DEF BeginUpdate, CommitUpdate
<1>11. ASSUME NEW c \in Callers, InsertIDExists(c) \/ RollbackUpdate(c) \/ Abort(c)
       PROVE  call'[d] = call[d] \/ AnswerHolds(call'[d], orders')
  BY <1>2, <1>3, <1>4, <1>11 DEF InsertIDExists, RollbackUpdate, Abort
<1>. QED  BY <1>1, <1>5, <1>6, <1>7, <1>8, <1>9, <1>10, <1>11, Zenon DEF Next

\* An answer that held goes on holding: orders keep their key and their request.
LEMMA AnswersStep ==
    ASSUME CancelInv, AnswersInv, [Next]_vars
    PROVE  AnswersInv'
<1>. SUFFICES ASSUME NEW d \in Callers, AnswerHolds(call[d], orders)
              PROVE  AnswerHolds(call[d], orders')
  BY CallerStep DEF AnswersInv
<1>. QED  BY StepKeepsIdentity DEF AnswerHolds, Holds, IdentityStep

\* What CreateOrder answered stays true for ever, and a call that lost the race for
\* its key finds the winner's order.
THEOREM CreateAnswersTrue == Spec => []CreateAnswersHold
<1>1. Init => AnswersInv
  <2>. SUFFICES ASSUME Init, NEW c \in Callers PROVE AnswerHolds(call[c], orders)
    BY DEF AnswersInv
  <2>1. call[c] = Idle
    BY DEF Init
  <2>. QED  BY <2>1 DEF Idle, AnswerHolds
<1>2. CancelInv /\ AnswersInv /\ [Next]_vars => AnswersInv'
  BY AnswersStep
<1>. QED  BY <1>1, <1>2, AnswersImply, CancelInductive, PTL DEF Spec

=============================================================================
