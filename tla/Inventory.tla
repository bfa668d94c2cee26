------------------------------- MODULE Inventory -------------------------------
(***************************************************************************)
(* inventory-service: the inventory_stocks and inventory_reservations      *)
(* tables, the order.created consumer that reserves an order's items one   *)
(* by one and undoes them when one fails, and the order.cancelled consumer *)
(* that releases whatever the order holds.                                 *)
(*                                                                         *)
(* The two consumers read different topics and run concurrently.  Events   *)
(* of one order share a partition of their topic, so an order has at most  *)
(* one handler of each kind at a time; orders are handled in parallel by   *)
(* the replicas.  Every transaction is one step, except the release of a   *)
(* cancelled order, which lists the reservations before it locks them.     *)
(***************************************************************************)
EXTENDS Integers, Sequences, FiniteSets, FiniteSetsExt

CONSTANTS Products,
          Orders,
          Items,          \* Items[o]: the order's lines, [product, quantity]
          Total,          \* Total[p]: total_quantity of the product
          MaxFaults       \* bound on crashes and failed calls

ASSUME InventoryConstants ==
    /\ Items \in [Orders -> Seq([product: Products, quantity: Nat \ {0}])]
    /\ Total \in [Products -> Nat]
    /\ IsFiniteSet(Orders)
    /\ MaxFaults \in Nat

VARIABLES available, reserved,   \* columns of inventory_stocks, per product
          reservation,   \* inventory_reservations: quantity per order and product, 0 if no row
          cpc,           \* where the order.created handler of each order is
          item,          \* the line it reserves or rolls back, 0 outside reserveAll
          outcome,       \* inventory.* events published for the order
          xpc,           \* where the order.cancelled handler of each order is
          listed,        \* the quantities that handler listed and will release
          overtaken,     \* history: orders whose order.created was handled, or
                         \* handled again, after their order.cancelled had come
          processed,     \* event ids in Redis
          faults

stockVars == <<available, reserved, reservation>>
createdVars == <<cpc, item, outcome>>
cancelVars == <<xpc, listed, overtaken>>
vars == <<stockVars, createdVars, cancelVars, processed, faults>>

Nothing == [p \in Products |-> 0]

TypeOK ==
    /\ available \in [Products -> Nat]
    /\ reserved \in [Products -> Nat]
    /\ reservation \in [Orders -> [Products -> Nat]]
    /\ cpc \in [Orders -> {"absent", "fetch", "reserve", "rollback", "publishReserved",
                           "publishFailed", "mark", "commit", "done"}]
    /\ item \in [Orders -> Nat]
    /\ \A o \in Orders : item[o] <= Len(Items[o]) + 1
    /\ outcome \in [Orders -> SUBSET {"reserved", "reservation_failed"}]
    /\ xpc \in [Orders -> {"absent", "fetch", "list", "apply", "mark", "commit", "done"}]
    /\ listed \in [Orders -> [Products -> Nat]]
    /\ overtaken \subseteq Orders
    /\ processed \subseteq {"created", "cancelled"} \X Orders
    /\ faults \in 0 .. MaxFaults

Init ==
    /\ available = Total
    /\ reserved = Nothing
    /\ reservation = [o \in Orders |-> Nothing]
    /\ cpc = [o \in Orders |-> "absent"]
    /\ item = [o \in Orders |-> 0]
    /\ outcome = [o \in Orders |-> {}]
    /\ xpc = [o \in Orders |-> "absent"]
    /\ listed = [o \in Orders |-> Nothing]
    /\ overtaken = {}
    /\ processed = {}
    /\ faults = 0

Fault == faults < MaxFaults /\ faults' = faults + 1

-----------------------------------------------------------------------------
(* The process: main.go runs one consumer of each topic in every replica *)

\* The orders whose message a consumer has fetched and not yet committed.
CreatedInHand == {o \in Orders : cpc[o] \notin {"absent", "fetch", "done"}}
CancelledInHand == {o \in Orders : xpc[o] \notin {"absent", "fetch", "done"}}

AtMostOne(S) == {{}} \cup {{o} : o \in S}

\* A process stops, with what its two consumers have in hand (C and X): an error that
\* one of them returns ends both.  After the restart the messages are fetched again.
ProcessStops(C, X) ==
    /\ cpc' = [o \in Orders |-> IF o \in C THEN "fetch" ELSE cpc[o]]
    /\ item' = [o \in Orders |-> IF o \in C THEN 0 ELSE item[o]]
    /\ xpc' = [o \in Orders |-> IF o \in X THEN "fetch" ELSE xpc[o]]
    /\ listed' = [o \in Orders |-> IF o \in X THEN Nothing ELSE listed[o]]
    /\ UNCHANGED <<stockVars, outcome, overtaken, processed>>

\* A crash, or an error of Redis, Kafka or the database that a handler returns.
ServiceStops ==
    /\ Fault
    /\ \E C \in AtMostOne(CreatedInHand), X \in AtMostOne(CancelledInHand) :
           C \cup X # {} /\ ProcessStops(C, X)

\* Redis drops a mark REDIS_EVENT_DEDUP_TTL after MarkProcessed set it.
ExpireMark(e) ==
    /\ e \in processed
    /\ Fault
    /\ processed' = processed \ {e}
    /\ UNCHANGED <<stockVars, createdVars, cancelVars>>

-----------------------------------------------------------------------------
(* Repository *)

\* Mutant: the upsert replaces the quantity of a row that exists.
ReserveReplaces(o, p, q) ==
    /\ available' = [available EXCEPT ![p] = @ - q]
    /\ reserved' = [reserved EXCEPT ![p] = @ + q]
    /\ reservation' = [reservation EXCEPT ![o][p] = q]

\* reserve moves q of p from available to reserved and adds it to the order's
\* reservation (UpsertInventoryReservation adds to a row that exists).
Reserve(o, p, q) ==
    /\ available' = [available EXCEPT ![p] = @ - q]
    /\ reserved' = [reserved EXCEPT ![p] = @ + q]
    /\ reservation' = [reservation EXCEPT ![o][p] = @ + q]

\* ReleaseStock succeeds only if the order has the quantity reserved, and (the
\* WHERE clause of ReleaseInventoryStock) the stock row's reserved column does.
Releasable(o, p, q) == reservation[o][p] >= q /\ reserved[p] >= q

\* Mutants: one of the two columns, or the reservation row, is forgotten.
ReleaseAvailableOnly(o, p, q) ==
    /\ available' = [available EXCEPT ![p] = @ + q]
    /\ reservation' = [reservation EXCEPT ![o][p] = @ - q]
    /\ UNCHANGED reserved

ReleaseKeepsRow(o, p, q) ==
    /\ available' = [available EXCEPT ![p] = @ + q]
    /\ reserved' = [reserved EXCEPT ![p] = @ - q]
    /\ UNCHANGED reservation

\* ReleaseStock on success; the row is deleted when nothing is left of it.
Release(o, p, q) ==
    /\ available' = [available EXCEPT ![p] = @ + q]
    /\ reserved' = [reserved EXCEPT ![p] = @ - q]
    /\ reservation' = [reservation EXCEPT ![o][p] = @ - q]

-----------------------------------------------------------------------------
(* Consumer of order.created *)

\* The outbox of order-service delivers the event (EventRelay).
OrderCreated(o) ==
    /\ cpc[o] = "absent"
    /\ cpc' = [cpc EXCEPT ![o] = "fetch"]
    /\ UNCHANGED <<stockVars, item, outcome, cancelVars, processed, faults>>

\* The orders overtaken once order o is handled from here on.
OvertakenIf(o) == IF xpc[o] = "absent" THEN overtaken ELSE overtaken \cup {o}

\* Mutant: IsProcessed is not asked.
FetchCreatedAgain(o) ==
    /\ cpc[o] = "fetch"
    /\ cpc' = [cpc EXCEPT ![o] = "reserve"]
    /\ item' = [item EXCEPT ![o] = 1]
    /\ overtaken' = OvertakenIf(o)
    /\ UNCHANGED <<stockVars, outcome, xpc, listed, processed, faults>>

\* handleMessage up to reserveAll: an event that is marked is only committed.
FetchCreated(o) ==
    /\ cpc[o] = "fetch"
    /\ \/ /\ <<"created", o>> \in processed
          /\ cpc' = [cpc EXCEPT ![o] = "commit"]
          /\ UNCHANGED <<item, overtaken>>
       \/ /\ <<"created", o>> \notin processed
          /\ cpc' = [cpc EXCEPT ![o] = "reserve"]
          /\ item' = [item EXCEPT ![o] = 1]
          /\ overtaken' = OvertakenIf(o)
    /\ UNCHANGED <<stockVars, outcome, xpc, listed, processed, faults>>

Line(o) == Items[o][item[o]]

\* reserveAll: the current line is reserved.
ReserveStock(o) ==
    /\ cpc[o] = "reserve"
    /\ item[o] <= Len(Items[o])
    /\ Line(o).quantity <= available[Line(o).product]
    /\ Reserve(o, Line(o).product, Line(o).quantity)
    /\ item' = [item EXCEPT ![o] = @ + 1]
    /\ UNCHANGED <<cpc, outcome, cancelVars, processed, faults>>

\* Mutant: the rollback begins at the line that failed.
ReserveFailsOffByOne(o) ==
    /\ cpc[o] = "reserve"
    /\ item[o] <= Len(Items[o])
    /\ Line(o).quantity > available[Line(o).product]
    /\ cpc' = [cpc EXCEPT ![o] = "rollback"]
    /\ UNCHANGED <<stockVars, item, outcome, cancelVars, processed, faults>>

\* reserveAll: ReserveStock fails on the current line, so the earlier ones are
\* rolled back.  Any error counts, a database error too; when it was the answer
\* to COMMIT that was lost, the line is reserved and not rolled back.
ReserveFails(o) ==
    /\ cpc[o] = "reserve"
    /\ item[o] <= Len(Items[o])
    /\ \/ /\ Line(o).quantity > available[Line(o).product]
          /\ UNCHANGED <<stockVars, faults>>
       \/ Fault /\ UNCHANGED stockVars
       \/ /\ Line(o).quantity <= available[Line(o).product]
          /\ Fault
          /\ Reserve(o, Line(o).product, Line(o).quantity)
    /\ cpc' = [cpc EXCEPT ![o] = "rollback"]
    /\ item' = [item EXCEPT ![o] = @ - 1]
    /\ UNCHANGED <<outcome, cancelVars, processed>>

\* releaseReserved: release the line, last one first.
RollbackLine(o) ==
    /\ cpc[o] = "rollback"
    /\ item[o] > 0
    /\ Releasable(o, Line(o).product, Line(o).quantity)
    /\ Release(o, Line(o).product, Line(o).quantity)
    /\ item' = [item EXCEPT ![o] = @ - 1]
    /\ UNCHANGED <<cpc, outcome, cancelVars, processed, faults>>

\* releaseReserved: ReleaseStock does not find what was reserved.
CannotRollback(o) ==
    /\ cpc[o] = "rollback"
    /\ item[o] > 0
    /\ ~Releasable(o, Line(o).product, Line(o).quantity)

\* The handler returns the error and the service stops.
RollbackFails(o) ==
    /\ CannotRollback(o)
    /\ \E X \in AtMostOne(CancelledInHand) : ProcessStops({o}, X)
    /\ UNCHANGED faults

\* reserveAll returns: all lines are reserved, or the rollback is complete.
ReserveAllReturns(o) ==
    /\ \/ /\ cpc[o] = "reserve"
          /\ item[o] > Len(Items[o])
          /\ cpc' = [cpc EXCEPT ![o] = "publishReserved"]
       \/ /\ cpc[o] = "rollback"
          /\ item[o] = 0
          /\ cpc' = [cpc EXCEPT ![o] = "publishFailed"]
    /\ item' = [item EXCEPT ![o] = 0]
    /\ UNCHANGED <<stockVars, outcome, cancelVars, processed, faults>>

\* Mutant: a failed reservation is not announced.
PublishReservedOnly(o) ==
    /\ cpc[o] \in {"publishReserved", "publishFailed"}
    /\ outcome' = IF cpc[o] = "publishFailed" THEN outcome
                  ELSE [outcome EXCEPT ![o] = @ \cup {"reserved"}]
    /\ cpc' = [cpc EXCEPT ![o] = "mark"]
    /\ UNCHANGED <<stockVars, item, cancelVars, processed, faults>>

\* PublishInventoryReserved and PublishInventoryReservationFailed
PublishOutcome(o) ==
    /\ \/ /\ cpc[o] = "publishReserved"
          /\ outcome' = [outcome EXCEPT ![o] = @ \cup {"reserved"}]
       \/ /\ cpc[o] = "publishFailed"
          /\ outcome' = [outcome EXCEPT ![o] = @ \cup {"reservation_failed"}]
    /\ cpc' = [cpc EXCEPT ![o] = "mark"]
    /\ UNCHANGED <<stockVars, item, cancelVars, processed, faults>>

\* The mark lives until ExpireMark.
MarkCreatedProcessed(o) ==
    /\ cpc[o] = "mark"
    /\ processed' = processed \cup {<<"created", o>>}
    /\ cpc' = [cpc EXCEPT ![o] = "commit"]
    /\ UNCHANGED <<stockVars, item, outcome, cancelVars, faults>>

\* CommitMessages
CommitCreated(o) ==
    /\ cpc[o] = "commit"
    /\ cpc' = [cpc EXCEPT ![o] = "done"]
    /\ UNCHANGED <<stockVars, item, outcome, cancelVars, processed, faults>>

\* A second copy of the event from the outbox, or a rebalance before the commit.
RedeliverCreated(o) ==
    /\ cpc[o] \in {"commit", "done"}
    /\ cpc' = [cpc EXCEPT ![o] = "fetch"]
    /\ UNCHANGED <<stockVars, item, outcome, cancelVars, processed, faults>>

-----------------------------------------------------------------------------
(* Consumer of order.cancelled *)

\* order-service cancels an order that exists.  Its two events are in different
\* topics, so the second may be handled while, or before, the first is: it overtakes
\* an order.created that is in hand, or will be handled when it is fetched.
OrderCancelled(o) ==
    /\ xpc[o] = "absent"
    /\ cpc[o] # "absent"
    /\ xpc' = [xpc EXCEPT ![o] = "fetch"]
    /\ overtaken' = IF cpc[o] \in {"commit", "done"} \/ <<"created", o>> \in processed
                    THEN overtaken ELSE overtaken \cup {o}
    /\ UNCHANGED <<stockVars, createdVars, listed, processed, faults>>

FetchCancelled(o) ==
    /\ xpc[o] = "fetch"
    /\ xpc' = [xpc EXCEPT ![o] =
                 IF <<"cancelled", o>> \in processed THEN "commit" ELSE "list"]
    /\ UNCHANGED <<stockVars, createdVars, listed, overtaken, processed, faults>>

\* ReleaseReservationsByOrderID: the list, read without a lock.
ListReservations(o) ==
    /\ xpc[o] = "list"
    /\ listed' = [listed EXCEPT ![o] = reservation[o]]
    /\ xpc' = [xpc EXCEPT ![o] = IF reservation[o] = Nothing THEN "mark" ELSE "apply"]
    /\ UNCHANGED <<stockVars, createdVars, overtaken, processed, faults>>

\* Mutant: the reservation rows are not deleted.
ReleaseListedKeepsRows(o) ==
    /\ xpc[o] = "apply"
    /\ \A p \in Products : reserved[p] >= listed[o][p]
    /\ available' = [p \in Products |-> available[p] + listed[o][p]]
    /\ reserved' = [p \in Products |-> reserved[p] - listed[o][p]]
    /\ xpc' = [xpc EXCEPT ![o] = "mark"]
    /\ listed' = [listed EXCEPT ![o] = Nothing]
    /\ UNCHANGED <<reservation, createdVars, overtaken, processed, faults>>

\* ReleaseReservationsByOrderID: release the listed quantities, delete the rows,
\* and commit.
ReleaseListed(o) ==
    /\ xpc[o] = "apply"
    /\ \A p \in Products : reserved[p] >= listed[o][p]
    /\ available' = [p \in Products |-> available[p] + listed[o][p]]
    /\ reserved' = [p \in Products |-> reserved[p] - listed[o][p]]
    /\ reservation' = [reservation EXCEPT ![o] =
           [p \in Products |-> IF listed[o][p] > 0 THEN 0 ELSE @[p]]]
    /\ xpc' = [xpc EXCEPT ![o] = "mark"]
    /\ listed' = [listed EXCEPT ![o] = Nothing]
    /\ UNCHANGED <<createdVars, overtaken, processed, faults>>

\* ReleaseInventoryStock would match no row.
CannotRelease(o) == xpc[o] = "apply" /\ \E p \in Products : reserved[p] < listed[o][p]

\* The transaction is rolled back and the error stops the service.
ReleaseListedFails(o) ==
    /\ CannotRelease(o)
    /\ \E C \in AtMostOne(CreatedInHand) : ProcessStops(C, {o})
    /\ UNCHANGED faults

MarkCancelledProcessed(o) ==
    /\ xpc[o] = "mark"
    /\ processed' = processed \cup {<<"cancelled", o>>}
    /\ xpc' = [xpc EXCEPT ![o] = "commit"]
    /\ UNCHANGED <<stockVars, createdVars, listed, overtaken, faults>>

CommitCancelled(o) ==
    /\ xpc[o] = "commit"
    /\ xpc' = [xpc EXCEPT ![o] = "done"]
    /\ UNCHANGED <<stockVars, createdVars, listed, overtaken, processed, faults>>

RedeliverCancelled(o) ==
    /\ xpc[o] \in {"commit", "done"}
    /\ xpc' = [xpc EXCEPT ![o] = "fetch"]
    /\ UNCHANGED <<stockVars, createdVars, listed, overtaken, processed, faults>>

-----------------------------------------------------------------------------

HandleCreated(o) ==
    \/ FetchCreated(o)
    \/ ReserveStock(o)
    \/ ReserveFails(o)
    \/ RollbackLine(o)
    \/ RollbackFails(o)
    \/ ReserveAllReturns(o)
    \/ PublishOutcome(o)
    \/ MarkCreatedProcessed(o)
    \/ CommitCreated(o)

HandleCancelled(o) ==
    \/ FetchCancelled(o)
    \/ ListReservations(o)
    \/ ReleaseListed(o)
    \/ ReleaseListedFails(o)
    \/ MarkCancelledProcessed(o)
    \/ CommitCancelled(o)

Next ==
    \/ \E o \in Orders :
          \/ OrderCreated(o)
          \/ HandleCreated(o)
          \/ RedeliverCreated(o)
          \/ OrderCancelled(o)
          \/ HandleCancelled(o)
          \/ RedeliverCancelled(o)
    \/ ServiceStops
    \/ \E e \in processed : ExpireMark(e)

Spec == Init /\ [][Next]_vars

\* Consumers keep running: after an error the service is restarted.
FairSpec ==
    Spec /\ \A o \in Orders : WF_vars(HandleCreated(o)) /\ WF_vars(HandleCancelled(o))

-----------------------------------------------------------------------------
(* Properties *)

\* What the order's lines ask for, per product.
Demand(o) ==
    [p \in Products |->
        MapThenSumSet(LAMBDA i : Items[o][i].quantity,
                      {i \in DOMAIN Items[o] : Items[o][i].product = p})]

\* The two columns of a stock row add up to its total in every interleaving,
\* even where a stale list is released: the CHECK constraints of
\* inventory_stocks never make a statement fail.
StockConserved ==
    \A p \in Products :
        /\ available[p] >= 0 /\ reserved[p] >= 0
        /\ available[p] + reserved[p] = Total[p]

\* The reserved column is the sum of the reservation rows.  Nothing in the schema
\* ties the two tables together; if they part, an order's stock is sold twice or
\* can never be released.  Faults do not part them, retries and rollbacks included;
\* an order.cancelled that overtakes its order.created may, because the list that
\* ReleaseReservationsByOrderID releases is then stale.
LedgerConsistent ==
    overtaken = {} =>
        \A p \in Products : reserved[p] = MapThenSumSet(LAMBDA o : reservation[o][p], Orders)

\* A handled order.created has one outcome, and the stock agrees with it: the
\* order holds all of its lines (inventory.reserved), or none of them
\* (inventory.reservation_failed), until it is cancelled.  Redelivered events and
\* competing orders do not change that; a fault does (NoDoubleReservation).
AllOrNothing ==
    \A o \in Orders :
        /\ faults = 0 /\ overtaken = {}
        /\ cpc[o] = "done" /\ xpc[o] \in {"absent", "list", "apply"}
        => \/ outcome[o] = {"reserved"} /\ reservation[o] = Demand(o)
           \/ outcome[o] = {"reservation_failed"} /\ reservation[o] = Nothing

\* ROADMAP 12: "Make handlers replay-safe".  An order never holds more than it
\* ordered, however often its order.created is handled.
NoDoubleReservation ==
    \A o \in Orders, p \in Products : reservation[o][p] <= Demand(o)[p]

\* README: "`order.cancelled` triggers inventory release".  Once both events of an
\* order are handled, it holds nothing.
CancelReleasesStock ==
    \A o \in Orders : (cpc[o] = "done" /\ xpc[o] = "done") => reservation[o] = Nothing

\* The same for the orders whose order.created was not handled, or handled again,
\* after order.cancelled had come: the release finds everything the order holds, also
\* what a replay before the cancellation (its mark not yet set, or expired) reserved
\* twice and the lines left by a lost answer, whatever other orders do.
CancelInOrderReleases ==
    \A o \in Orders \ overtaken : <<"cancelled", o>> \in processed => reservation[o] = Nothing

\* Releases fail again and again, which stops the service each time.
ReleasesKeepFailing == []<>(\E o \in Orders : CannotRelease(o) \/ CannotRollback(o))

\* Every order.created is answered, although the handlers of a process stop together
\* and a rollback may fail.  One thing prevents it: the releases of orders whose two
\* events are handled at once fail after every restart, and stop the handler each time
\* before it has published.
CreatedIsAnswered ==
    (\A o \in Orders : cpc[o] = "fetch" ~> outcome[o] # {}) \/ ReleasesKeepFailing

\* Every cancelled order gives its stock back: as long as no cancellation was
\* overtaken, ReleaseReservationsByOrderID never fails for ever on a reserved
\* column that is too small.
CancelEventuallyReleases ==
    \A o \in Orders :
        xpc[o] = "fetch" ~> <<"cancelled", o>> \in processed \/ overtaken # {}

=============================================================================
