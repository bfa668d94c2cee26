----------------------------- MODULE ServiceProcess -----------------------------
(***************************************************************************)
(* The process of one service, from main to exit: it acquires its          *)
(* resources one after the other, starts a goroutine for its server, its   *)
(* outbox dispatcher and each of its Kafka consumers, and when one of them *)
(* fails or a signal arrives it drains its server and closes the resources *)
(* in the opposite order, without waiting for the other goroutines.        *)
(*                                                                         *)
(* What an event's handler does is the business of the other modules; here *)
(* it is done once or more often, or can never be done.  The consumed      *)
(* topics hold a backlog, each in one partition.  Nothing in the repository*)
(* restarts a process: the operator does (Start).                          *)
(***************************************************************************)
EXTENDS Integers, Sequences, SequencesExt, FiniteSets

CONSTANTS Services,    \* the services to model, of AllServices
          Backlogs,    \* functions that give some topics a sequence of messages
          FlawedSettings,  \* settings of which one may be wrong
          MaxRPCs,     \* bound on the requests in flight
          MaxFaults    \* bound on failed calls, crashes and signals

AllServices == {"order", "inventory", "payment", "catalog", "gateway"}

Consumers(s) ==
    CASE s = "order" -> {"inventory.reserved", "inventory.reservation_failed",
                         "payment.captured", "payment.failed", "payment.creation_failed"}
      [] s = "inventory" -> {"orders.created", "order.cancelled"}
      [] s = "payment" -> {"inventory.reserved"}
      [] OTHER -> {}

Topics == UNION {Consumers(s) : s \in AllServices}

\* A message is an event of the topic's type with a good payload, one whose payload
\* does not decode, one whose content is always refused (it names no order, or one that
\* does not exist), or no event of the topic's type at all.
Kinds == {"good", "badPayload", "hopeless", "foreign"}
Messages == [id : Nat, kind : Kinds]

ASSUME ProcessConstants ==
    /\ Services \subseteq AllServices
    /\ \A b \in Backlogs : DOMAIN b \subseteq Topics
                           /\ \A t \in DOMAIN b : b[t] \in Seq(Messages)
    /\ MaxRPCs \in Nat /\ MaxFaults \in Nat

\* An id stands for one event of one topic: what Redis marks by its id alone.  Event ids
\* are drawn from the clock, so this is a premise of what needs it, CommittedIsHandled,
\* and no assumption of the module.
EventIdsUnique ==
    \A b \in Backlogs : \A t, u \in DOMAIN b : \A i \in DOMAIN b[t], j \in DOMAIN b[u] :
        b[t][i].id = b[u][j].id => t = u /\ b[t][i] = b[u][j]

-----------------------------------------------------------------------------
(* What main acquires, in its order, and the settings each constructor needs *)

\* main of order-service, with a close deferred after each but the topic names
\* and the dispatcher's configuration, which need none.
OrderResources ==
    <<"topics", "pool", "publisher", "deduplicator", "dispatcherConfig", "inventory.reserved",
      "inventory.reservation_failed", "payment.captured", "payment.failed",
      "payment.creation_failed">>

InventoryResources ==
    <<"pool", "publisher", "deduplicator", "orders.created", "order.cancelled">>

PaymentResources == <<"pool", "publisher", "deduplicator", "inventory.reserved">>

CatalogResources == <<"pool">>

\* The gateway's connections; grpc.NewClient does not connect yet.
GatewayResources == <<"catalogConn", "orderConn", "inventoryConn", "paymentConn">>

Resources(s) ==
    CASE s = "order" -> OrderResources
      [] s = "inventory" -> InventoryResources
      [] s = "payment" -> PaymentResources
      [] s = "catalog" -> CatalogResources
      [] s = "gateway" -> GatewayResources

\* newOrderDatabasePool, newOrderEventPublisher, newOrderEventDeduplicator
OrderClientNeeds ==
    [topics |-> {"KAFKA_ORDER_CREATED_TOPIC", "KAFKA_ORDER_CANCELLED_TOPIC"},
     pool |-> {"ORDER_DATABASE_URL"},
     publisher |-> {"KAFKA_BROKERS", "KAFKA_ORDER_CREATED_TOPIC"},
     deduplicator |-> {"REDIS_ADDR", "REDIS_DB", "REDIS_EVENT_DEDUP_TTL"}]

\* The constructors of the consumers: the topic is a setting of its own.
OrderConsumerNeeds ==
    [t \in Consumers("order") |-> {"KAFKA_BROKERS", t, "KAFKA_ORDER_CONSUMER_GROUP"}]

\* newOutboxDispatcherConfig
OrderDispatcherNeeds ==
    {"ORDER_OUTBOX_POLL_INTERVAL", "ORDER_OUTBOX_LOCK_TIMEOUT",
     "ORDER_OUTBOX_PUBLISH_TIMEOUT", "ORDER_OUTBOX_BATCH_SIZE"}

InventoryNeeds ==
    [r \in ToSet(InventoryResources) |->
        CASE r = "pool" -> {"INVENTORY_DATABASE_URL"}
          [] r = "publisher" -> {"KAFKA_BROKERS", "KAFKA_INVENTORY_RESERVED_TOPIC",
                                 "KAFKA_INVENTORY_RESERVATION_FAILED_TOPIC"}
          [] r = "deduplicator" -> {"REDIS_ADDR", "REDIS_DB", "REDIS_EVENT_DEDUP_TTL"}
          [] OTHER -> {"KAFKA_BROKERS", r, "KAFKA_INVENTORY_CONSUMER_GROUP"}]

PaymentNeeds ==
    [r \in ToSet(PaymentResources) |->
        CASE r = "pool" -> {"PAYMENT_DATABASE_URL"}
          [] r = "publisher" -> {"KAFKA_BROKERS", "KAFKA_PAYMENT_CREATED_TOPIC",
                                 "KAFKA_PAYMENT_CREATION_FAILED_TOPIC",
                                 "KAFKA_PAYMENT_CAPTURED_TOPIC", "KAFKA_PAYMENT_FAILED_TOPIC"}
          [] r = "deduplicator" -> {"REDIS_ADDR", "REDIS_DB", "REDIS_EVENT_DEDUP_TTL"}
          [] OTHER -> {"KAFKA_BROKERS", r, "KAFKA_PAYMENT_CONSUMER_GROUP"}]

\* newCatalogRepository
CatalogNeeds ==
    {"CATALOG_MONGO_URI", "CATALOG_MONGO_DATABASE", "CATALOG_MONGO_COLLECTION"}

Needs(s, r) ==
    CASE s = "order" /\ r \in DOMAIN OrderClientNeeds -> OrderClientNeeds[r]
      [] s = "order" /\ r \in DOMAIN OrderConsumerNeeds -> OrderConsumerNeeds[r]
      [] s = "order" /\ r = "dispatcherConfig" -> OrderDispatcherNeeds
      [] s = "inventory" -> InventoryNeeds[r]
      [] s = "payment" -> PaymentNeeds[r]
      [] s = "catalog" -> CatalogNeeds
      [] OTHER -> {}

Settings(s) == UNION {Needs(s, r) : r \in ToSet(Resources(s))}

\* The goroutines main starts.
Workers(s) ==
    {"server"} \cup Consumers(s) \cup (IF s = "order" THEN {"dispatcher"} ELSE {})

\* A setting of the environment is missing, or blank or malformed.
NoFlaw == <<"", "">>
Flaws(s) == {NoFlaw} \cup ((Settings(s) \cap FlawedSettings) \X {"missing", "malformed"})

\* getenv: a missing setting has its default, except where main gives it none.
NoDefault == {"ORDER_DATABASE_URL", "INVENTORY_DATABASE_URL", "PAYMENT_DATABASE_URL",
              "KAFKA_BROKERS"}

-----------------------------------------------------------------------------

VARIABLES service, flaw,  \* the service and what is wrong with its settings
          log,        \* the messages of each topic
          phase,      \* where main is
          opened,     \* how many of Resources(service) are open
          ctxDone,    \* the context of the goroutines is cancelled
          errs,       \* the error channels of order-service
          live,       \* goroutines that run
          rpcs,       \* requests the server is handling
          at,         \* where the consumer of each topic is
          offset,     \* committed offset of each topic: messages before it are done
          processed,  \* event ids in Redis
          handled,    \* history: how often each message was handled, up to 2
          expired,    \* history: a mark in Redis expired before its topic was consumed
          faults

constVars == <<service, flaw, log>>
mainVars == <<phase, opened, ctxDone, errs, live, rpcs>>
topicVars == <<at, offset, processed, handled, expired>>
vars == <<constVars, mainVars, topicVars, faults>>

Init ==
    /\ service \in Services
    /\ flaw \in Flaws(service)
    /\ \E b \in Backlogs :
          log = [t \in Consumers(service) |-> IF t \in DOMAIN b THEN b[t] ELSE <<>>]
    /\ phase = "down" /\ opened = 0 /\ ctxDone = FALSE /\ errs = {} /\ live = {}
    /\ rpcs = 0
    /\ at = [t \in Consumers(service) |-> "fetch"]
    /\ offset = [t \in Consumers(service) |-> 0]
    /\ processed = {}
    /\ handled = [t \in Consumers(service) |-> [m \in ToSet(log[t]) |-> 0]]
    /\ expired = FALSE
    /\ faults = 0

Fault == faults < MaxFaults /\ faults' = faults + 1

Unusable(x) == flaw = <<x, "malformed">> \/ (flaw = <<x, "missing">> /\ x \in NoDefault)

Open(r) == \E i \in 1..opened : Resources(service)[i] = r

Current(t) == log[t][offset[t] + 1]

-----------------------------------------------------------------------------
(* main *)

\* The process ends, and its goroutines with it.
Down ==
    /\ phase' = "down" /\ opened' = 0 /\ ctxDone' = FALSE /\ errs' = {} /\ live' = {}
    /\ rpcs' = 0
    /\ at' = [t \in DOMAIN at |-> "fetch"]
    /\ UNCHANGED <<constVars, offset, processed, handled, expired>>

Start ==
    /\ phase = "down"
    /\ phase' = "starting"
    /\ UNCHANGED <<constVars, opened, ctxDone, errs, live, rpcs, topicVars, faults>>

\* The next constructor of main succeeds.
Acquire ==
    /\ phase = "starting" /\ opened < Len(Resources(service))
    /\ \A x \in Needs(service, Resources(service)[opened + 1]) : ~Unusable(x)
    /\ opened' = opened + 1
    /\ UNCHANGED <<constVars, phase, ctxDone, errs, live, rpcs, topicVars, faults>>

\* It does not, or net.Listen fails: os.Exit(1), which runs no deferred close.
AcquireFails ==
    /\ phase = "starting"
    /\ \/ Fault
       \/ /\ opened < Len(Resources(service))
          /\ \E x \in Needs(service, Resources(service)[opened + 1]) : Unusable(x)
          /\ UNCHANGED faults
    /\ Down

\* NotifyContext, and the goroutines of the server, the dispatcher and the consumers.
Launch ==
    /\ phase = "starting" /\ opened = Len(Resources(service))
    /\ phase' = "running" /\ live' = Workers(service)
    /\ UNCHANGED <<constVars, opened, ctxDone, errs, rpcs, topicVars, faults>>

\* The context is done.  The consumers that wait for a message and the dispatcher
\* return, which nobody can tell from returning a little later; a consumer in the
\* middle of a message goes on to its next call.
Cancel(workers) ==
    /\ ctxDone' = TRUE
    /\ live' = {w \in workers : w = "server" \/ (w \in Consumers(service) /\ at[w] # "fetch")}

\* SIGINT or SIGTERM
Signal ==
    /\ phase = "running" /\ ~ctxDone /\ Fault
    /\ Cancel(live)
    /\ UNCHANGED <<constVars, phase, opened, errs, rpcs, topicVars>>

\* Mutant: main hears of the server only.
ReportServerOnly(w) ==
    /\ IF w = "server" THEN Cancel(live \ {w})
       ELSE live' = live \ {w} /\ UNCHANGED ctxDone
    /\ UNCHANGED errs

\* A goroutine ends with an error.  Nobody hears of it after the context is done;
\* order-service sends it to main, the other services call stop themselves.
Report(w) ==
    /\ \/ /\ service = "order" /\ ~ctxDone
          /\ errs' = errs \cup {w}
          /\ live' = live \ {w}
          /\ UNCHANGED ctxDone
       \/ /\ service # "order" \/ ctxDone
          /\ Cancel(live \ {w})
          /\ UNCHANGED errs

\* Serve or ListenAndServe returns an error, or the dispatcher panics.
WorkerFails(w) ==
    /\ w \in live \ Consumers(service) /\ Fault
    /\ Report(w)
    /\ UNCHANGED <<constVars, phase, opened, rpcs, topicVars>>

\* main goes on after <-ctx.Done(), or an error that makes it call stop, to
\* GracefulStop (Shutdown in the gateway), which ends Serve.
StopServing ==
    /\ phase = "running"
    /\ ctxDone \/ errs # {}
    /\ phase' = "draining"
    /\ errs' = {}
    /\ Cancel(live \ {"server"})
    /\ UNCHANGED <<constVars, opened, rpcs, topicVars, faults>>

\* Mutant: Stop instead of GracefulStop; handlers go on.
DrainedAtOnce ==
    /\ phase = "draining"
    /\ phase' = "closing"
    /\ UNCHANGED <<constVars, opened, ctxDone, errs, live, rpcs, topicVars, faults>>

\* GracefulStop returns when no request is left, Shutdown at the latest after 10
\* seconds.
Drained ==
    /\ phase = "draining"
    /\ rpcs = 0 \/ service = "gateway"
    /\ phase' = "closing"
    /\ UNCHANGED <<constVars, opened, ctxDone, errs, live, rpcs, topicVars, faults>>

\* The next deferred close, last one first.  The pool's waits for its connections:
\* for the transactions of event handlers.
Close ==
    /\ phase = "closing" /\ opened > 0
    /\ Resources(service)[opened] = "pool" =>
          ~\E t \in Consumers(service) \cap live : at[t] = "handle"
    /\ opened' = opened - 1
    /\ UNCHANGED <<constVars, phase, ctxDone, errs, live, rpcs, topicVars, faults>>

\* main returns.
Exit ==
    /\ phase = "closing" /\ opened = 0
    /\ Down /\ UNCHANGED faults

\* The process is killed.
Crash ==
    /\ phase # "down" /\ Fault
    /\ Down

-----------------------------------------------------------------------------
(* Requests *)

BeginRPC ==
    /\ phase = "running" /\ "server" \in live
    /\ rpcs < MaxRPCs
    /\ rpcs' = rpcs + 1
    /\ UNCHANGED <<constVars, phase, opened, ctxDone, errs, live, topicVars, faults>>

EndRPC ==
    /\ rpcs > 0
    /\ rpcs' = rpcs - 1
    /\ UNCHANGED <<constVars, phase, opened, ctxDone, errs, live, topicVars, faults>>

-----------------------------------------------------------------------------
(* Consumers *)

\* The commit without a handler: no event for this consumer, or, in inventory-service
\* and payment-service, a payload that does not decode.
Dropped(m) == m.kind = "foreign" \/ (m.kind = "badPayload" /\ service # "order")

\* The consumers that reserve stock and create payments announce a refusal as
\* reservation_failed or creation_failed, and are done.
AnnouncesRefusal(t) == t = "orders.created" \/ service = "payment"

\* The handler returns an error whenever it is called.
Poison(t, m) ==
    \/ m.kind = "hopeless" /\ ~AnnouncesRefusal(t)
    \/ m.kind = "badPayload" /\ service = "order"

Running(t, pc) == t \in live \cap Consumers(service) /\ at[t] = pc

\* Mutant: the duplicate is not looked up.
FetchAgain(t) ==
    /\ Running(t, "fetch") /\ ~ctxDone /\ offset[t] < Len(log[t])
    /\ at' = [at EXCEPT ![t] = IF Dropped(Current(t)) THEN "commit" ELSE "handle"]
    /\ UNCHANGED <<constVars, mainVars, offset, processed, handled, expired, faults>>

\* Mutant: a duplicate is dropped without a commit.
FetchSkipsDuplicate(t) ==
    /\ Running(t, "fetch") /\ ~ctxDone /\ offset[t] < Len(log[t])
    /\ at' = [at EXCEPT ![t] = CASE Dropped(Current(t)) -> "commit"
                                  [] Current(t).id \in processed -> "fetch"
                                  [] OTHER -> "handle"]
    /\ UNCHANGED <<constVars, mainVars, offset, processed, handled, expired, faults>>

\* FetchMessage, the envelope, its type and IsProcessed.
Fetch(t) ==
    /\ Running(t, "fetch") /\ ~ctxDone /\ offset[t] < Len(log[t])
    /\ at' = [at EXCEPT ![t] =
                 IF Dropped(Current(t)) \/ Current(t).id \in processed
                 THEN "commit" ELSE "handle"]
    /\ UNCHANGED <<constVars, mainVars, offset, processed, handled, expired, faults>>

\* Mutant: a message is committed whether it was handled or not.
HandleOrNot(t) ==
    /\ Running(t, "handle") /\ Open("pool")
    /\ handled' = IF Poison(t, Current(t)) THEN handled
                  ELSE [handled EXCEPT ![t][Current(t)] = IF @ < 2 THEN @ + 1 ELSE @]
    /\ at' = [at EXCEPT ![t] = "mark"]
    /\ UNCHANGED <<constVars, mainVars, offset, processed, expired, faults>>

\* handleEvent succeeds.
Handle(t) ==
    /\ Running(t, "handle") /\ Open("pool")
    /\ ~Poison(t, Current(t))
    /\ handled' = [handled EXCEPT ![t][Current(t)] = IF @ < 2 THEN @ + 1 ELSE @]
    /\ at' = [at EXCEPT ![t] = "mark"]
    /\ UNCHANGED <<constVars, mainVars, offset, processed, expired, faults>>

MarkProcessed(t) ==
    /\ Running(t, "mark") /\ Open("deduplicator")
    /\ processed' = processed \cup {Current(t).id}
    /\ at' = [at EXCEPT ![t] = "commit"]
    /\ UNCHANGED <<constVars, mainVars, offset, handled, expired, faults>>

CommitMessages(t) ==
    /\ Running(t, "commit") /\ Open(t)
    /\ offset' = [offset EXCEPT ![t] = @ + 1]
    /\ at' = [at EXCEPT ![t] = "fetch"]
    /\ UNCHANGED <<constVars, mainVars, processed, handled, expired, faults>>

\* Run returns: a call fails, at once if the context is done, or the handler can
\* only fail.  Its message stays where it is in the topic.
RunReturns(t) ==
    /\ t \in live \cap Consumers(service)
    /\ \/ Fault
       \/ /\ ctxDone \/ (at[t] = "handle" /\ Poison(t, Current(t)))
          /\ UNCHANGED faults
    /\ Report(t)
    /\ UNCHANGED <<constVars, phase, opened, rpcs, topicVars>>

\* Run returns on the error of a call whose effect took place.
RunReturnsLate(t) ==
    /\ Fault
    /\ \/ /\ Running(t, "handle") /\ ~Poison(t, Current(t))
          /\ handled' = [handled EXCEPT ![t][Current(t)] = IF @ < 2 THEN @ + 1 ELSE @]
          /\ UNCHANGED <<processed, offset>>
       \/ /\ Running(t, "mark")
          /\ processed' = processed \cup {Current(t).id}
          /\ UNCHANGED <<handled, offset>>
       \/ /\ Running(t, "commit")
          /\ offset' = [offset EXCEPT ![t] = @ + 1]
          /\ UNCHANGED <<handled, processed>>
    /\ Report(t)
    /\ UNCHANGED <<constVars, phase, opened, rpcs, at, expired>>

\* The mark of an event expires.
ExpireMark(id) ==
    /\ id \in processed
    /\ processed' = processed \ {id}
    /\ expired' = TRUE
    /\ UNCHANGED <<constVars, mainVars, at, offset, handled, faults>>

Consume(t) == Fetch(t) \/ Handle(t) \/ MarkProcessed(t) \/ CommitMessages(t)

Next ==
    \/ Start \/ Acquire \/ AcquireFails \/ Launch \/ Signal
    \/ StopServing \/ Drained \/ Close \/ Exit \/ Crash
    \/ BeginRPC \/ EndRPC
    \/ \E w \in {"server", "dispatcher"} : WorkerFails(w)
    \/ \E t \in Consumers(service) : Consume(t) \/ RunReturns(t) \/ RunReturnsLate(t)
    \/ \E id \in processed : ExpireMark(id)

Spec == Init /\ [][Next]_vars

\* main and the goroutines go on, requests end (their clients set deadlines), and
\* somebody starts the process again.
FairSpec ==
    /\ Spec
    /\ WF_vars(Start) /\ WF_vars(Acquire) /\ WF_vars(Launch)
    /\ WF_vars(StopServing) /\ WF_vars(Drained) /\ WF_vars(Close) /\ WF_vars(Exit)
    /\ WF_vars(EndRPC)
    /\ \A t \in Topics : /\ WF_vars(t \in Consumers(service) /\ Consume(t))
                         /\ WF_vars(t \in Consumers(service) /\ RunReturns(t))

-----------------------------------------------------------------------------
(* Properties *)

Healthy == \A t \in Consumers(service) : \A m \in ToSet(log[t]) : ~Poison(t, m)

\* A committed offset never passes an event that was not handled, whatever stops the
\* consumer between the effect, the mark in Redis and the commit, and whether or not
\* the mark has expired: events are handled at least once, and one that can never
\* be handled is never skipped.
CommittedIsHandled ==
    \A t \in Consumers(service) : \A i \in 1..offset[t] :
        Dropped(log[t][i]) \/ handled[t][log[t][i]] > 0

\* ROADMAP 12, "Prevent duplicate processing": a copy of an event (the outbox may
\* publish it twice) is not handled again, as long as no call fails, no mark expires
\* and no other consumer of the service meets an event it can never handle.  Such an
\* event stops the whole process, a handler between its effect and its mark too.
HandledOnce ==
    faults = 0 /\ ~expired /\ Healthy =>
        \A t \in Consumers(service) : \A m \in DOMAIN handled[t] : handled[t][m] <= 1

\* A request never meets a closed pool, publisher or connection, and neither does a
\* goroutine before its context is done: main closes them after GracefulStop.  Only
\* the gateway, whose Shutdown gives up, closes connections under its requests.
ServedWithResources ==
    (rpcs > 0 /\ service # "gateway") \/ (live # {} /\ ~ctxDone)
        => opened = Len(Resources(service))

\* One failed goroutine, or a signal, takes the whole process down: no service lingers
\* half alive, with a consumer gone and its server answering, and closing the pool
\* does not wait for ever for an event handler.
FailureStopsProcess ==
    (phase = "running" /\ (ctxDone \/ errs # {} \/ live # Workers(service)))
        ~> phase = "down"

\* A service whose settings are usable consumes its topics to the end, through any
\* finite number of failures and restarts, unless an event in one of them can never be
\* handled: payment-service has none, order-service is kept in a restart loop by any
\* event of an unknown order or with a payload that does not decode.
BacklogConsumed ==
    Healthy /\ (\A x \in Settings(service) : ~Unusable(x))
        => <>[](\A t \in Consumers(service) : offset[t] = Len(log[t]))

=============================================================================
