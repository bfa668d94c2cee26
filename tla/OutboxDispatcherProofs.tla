------------------------ MODULE OutboxDispatcherProofs ------------------------
(***************************************************************************)
(* Proofs about OutboxDispatcher, for any number of dispatchers and rows,  *)
(* any batch size and any set of events the broker rejects.                *)
(***************************************************************************)
EXTENDS OutboxDispatcher, TLAPS

\* A row about to be marked or released exists, and one about to be marked is in
\* Kafka.  Neither depends on the row's lease, which may have expired.
CurrentRow ==
    \A d \in Dispatchers :
        /\ pc[d] # "next" => cur[d] \in stored
        /\ pc[d] = "mark" => cur[d] \in kafka

\* The inductive invariant behind the safety properties.
RelayInv ==
    /\ TypeOK
    /\ CurrentRow
    /\ PublishedIsDelivered

\* The loop's next row is moved from the batch to cur; nothing else of the
\* invariant depends on the batch.
LEMMA TakeRowStep ==
    ASSUME RelayInv, NEW d \in Dispatchers, NEW e \in Events, NEW next \in {"mark", "release"},
           TakeRow(d, e, next),
           kafka' = kafka \/ kafka' = kafka \cup {e},
           next = "mark" => kafka' = kafka \cup {e}
    PROVE  RelayInv'
<1>1. e \in stored
  BY DEF TakeRow, RelayInv, TypeOK
<1>2. TypeOK'
  BY <1>1 DEF TakeRow, RelayInv, TypeOK, rowVars
<1>3. CurrentRow'
  <2>. SUFFICES ASSUME NEW x \in Dispatchers
                PROVE  /\ pc'[x] # "next" => cur'[x] \in stored'
                       /\ pc'[x] = "mark" => cur'[x] \in kafka'
    BY DEF CurrentRow
  <2>1. CASE x = d
    BY <1>1, <2>1 DEF TakeRow, RelayInv, TypeOK, rowVars
  <2>2. CASE x # d
    BY <2>2 DEF TakeRow, RelayInv, TypeOK, CurrentRow, rowVars
  <2>. QED  BY <2>1, <2>2
<1>4. PublishedIsDelivered'
  BY DEF TakeRow, RelayInv, PublishedIsDelivered, rowVars
<1>. QED  BY <1>2, <1>3, <1>4 DEF RelayInv

\* RelayInv holds at the start and is kept by every step.
LEMMA RelayInductive ==
    /\ Init => RelayInv
    /\ RelayInv /\ [Next]_vars => RelayInv'
<1>1. Init => RelayInv
  BY DEF Init, RelayInv, TypeOK, CurrentRow, PublishedIsDelivered
<1>2. RelayInv /\ [Next]_vars => RelayInv'
  <2>. SUFFICES ASSUME RelayInv, [Next]_vars PROVE RelayInv'
    OBVIOUS
  <2>. USE DEF RelayInv
  <2>1. CASE UNCHANGED vars
    BY <2>1 DEF vars, TypeOK, CurrentRow, PublishedIsDelivered
  <2>2. ASSUME NEW e \in Events, InsertEvent(e) PROVE RelayInv'
    BY <2>2 DEF InsertEvent, TypeOK, CurrentRow, PublishedIsDelivered
  <2>3. ASSUME NEW e \in Events, ExpireLock(e) PROVE RelayInv'
    BY <2>3 DEF ExpireLock, TypeOK, CurrentRow, PublishedIsDelivered
  <2>4. ASSUME NEW d \in Dispatchers, Claim(d) PROVE RelayInv'
    <3>1. PICK T \in SUBSET Claimable :
             /\ lock' = [e \in Events |-> IF e \in T THEN "held" ELSE lock[e]]
             /\ batch' = [batch EXCEPT ![d] = T]
      BY <2>4 DEF Claim
    <3>2. T \subseteq stored
      BY DEF Claimable
    <3>3. UNCHANGED <<stored, published, kafka, pc, cur>>
      BY <2>4 DEF Claim
    <3>. QED  BY <3>1, <3>2, <3>3 DEF TypeOK, CurrentRow, PublishedIsDelivered
  <2>5. ASSUME NEW d \in Dispatchers, NEW e \in Events,
               PublishAcked(d, e) \/ PublishFailed(d, e)
        PROVE  RelayInv'
    BY <2>5, TakeRowStep DEF PublishAcked, PublishFailed
  <2>6. ASSUME NEW d \in Dispatchers, NEW e \in Events, MarkPublished(d, e)
        PROVE  RelayInv'
    <3>1. e \in stored /\ e \in kafka
      BY <2>6 DEF MarkPublished, CurrentRow
    <3>. QED  BY <2>6, <3>1 DEF MarkPublished, NextRow, TypeOK, CurrentRow, PublishedIsDelivered
  <2>7. ASSUME NEW d \in Dispatchers, NEW e \in Events, ReleaseEvent(d, e)
        PROVE  RelayInv'
    BY <2>7 DEF ReleaseEvent, NextRow, TypeOK, CurrentRow, PublishedIsDelivered
  <2>8. ASSUME NEW d \in Dispatchers, StatementFailed(d) PROVE RelayInv'
    BY <2>8 DEF StatementFailed, NextRow, TypeOK, CurrentRow, PublishedIsDelivered
  <2>9. ASSUME NEW d \in Dispatchers, Crash(d) PROVE RelayInv'
    BY <2>9 DEF Crash, NextRow, TypeOK, CurrentRow, PublishedIsDelivered
  <2>. QED  BY <2>1, <2>2, <2>3, <2>4, <2>5, <2>6, <2>7, <2>8, <2>9 DEF Next
<1>. QED  BY <1>1, <1>2

\* The tables, topics and dispatchers are well typed in every reachable state.
THEOREM TypeCorrect == Spec => []TypeOK
<1>1. RelayInv => TypeOK
  BY DEF RelayInv
<1>. QED  BY <1>1, RelayInductive, PTL DEF Spec

\* A row is marked published only after its event reached Kafka, whatever leases
\* expire and whichever dispatchers crash between publishing and marking.
THEOREM NothingLost == Spec => []PublishedIsDelivered
<1>1. RelayInv => PublishedIsDelivered
  BY DEF RelayInv
<1>. QED  BY <1>1, RelayInductive, PTL DEF Spec

\* A published row is never claimed or unpublished, even by a dispatcher that
\* releases a row whose lease it lost.
THEOREM PublishedIsFinal == Spec => PublishedStaysDone
<1>. DEFINE Final == /\ published \subseteq published'
                     /\ \A d \in Dispatchers : (batch'[d] \ batch[d]) \cap published = {}
<1>1. RelayInv /\ [Next]_vars => [Final]_vars
  <2>. SUFFICES ASSUME RelayInv, Next PROVE Final
    OBVIOUS
  <2>. USE DEF RelayInv, TypeOK
  <2>1. ASSUME NEW e \in Events, InsertEvent(e) \/ ExpireLock(e) PROVE Final
    BY <2>1 DEF InsertEvent, ExpireLock
  <2>2. ASSUME NEW d \in Dispatchers, Claim(d) PROVE Final
    <3>1. PICK T \in SUBSET Claimable : batch' = [batch EXCEPT ![d] = T]
      BY <2>2 DEF Claim
    <3>2. T \cap published = {}
      BY DEF Claimable
    <3>. QED  BY <2>2, <3>1, <3>2 DEF Claim
  <2>3. ASSUME NEW d \in Dispatchers, NEW e \in Events, NEW next, TakeRow(d, e, next)
        PROVE  Final
    BY <2>3 DEF TakeRow, rowVars
  <2>4. ASSUME NEW d \in Dispatchers, NEW e \in Events,
               MarkPublished(d, e) \/ ReleaseEvent(d, e)
        PROVE  Final
    BY <2>4 DEF MarkPublished, ReleaseEvent
  <2>5. ASSUME NEW d \in Dispatchers, StatementFailed(d) \/ Crash(d) PROVE Final
    BY <2>5 DEF StatementFailed, Crash
  <2>. QED  BY <2>1, <2>2, <2>3, <2>4, <2>5 DEF Next, PublishAcked, PublishFailed
<1>. QED  BY <1>1, RelayInductive, PTL DEF Spec, PublishedStaysDone

\* The dispatchers implement the at-least-once relay of EventRelay: every step of
\* theirs stores, delivers or confirms one event, or changes nothing the relay sees.
THEOREM ImplementsRelay == Spec => SafeRelay
<1>1. Init => R!Init
  BY DEF Init, R!Init
<1>2. RelayInv /\ [Next]_vars => [R!Next]_(R!relayVars)
  <2>. SUFFICES ASSUME RelayInv, [Next]_vars PROVE [R!Next]_(R!relayVars)
    OBVIOUS
  <2>. USE DEF R!relayVars, RelayInv
  <2>1. CASE UNCHANGED vars
    BY <2>1 DEF vars
  <2>2. ASSUME NEW e \in Events, InsertEvent(e) PROVE R!Store(e)
    BY <2>2 DEF InsertEvent, R!Store
  <2>3. ASSUME NEW e \in Events, ExpireLock(e) PROVE UNCHANGED R!relayVars
    BY <2>3 DEF ExpireLock
  <2>4. ASSUME NEW d \in Dispatchers, Claim(d) \/ StatementFailed(d) \/ Crash(d)
        PROVE  UNCHANGED R!relayVars
    BY <2>4 DEF Claim, StatementFailed, Crash
  <2>5. ASSUME NEW d \in Dispatchers, NEW e \in Events,
               PublishAcked(d, e) \/ PublishFailed(d, e)
        PROVE  R!Deliver(e) \/ UNCHANGED R!relayVars
    <3>1. e \in stored /\ UNCHANGED <<stored, published>>
      BY <2>5 DEF PublishAcked, PublishFailed, TakeRow, rowVars, TypeOK
    <3>. QED  BY <2>5, <3>1 DEF PublishAcked, PublishFailed, R!Deliver
  <2>6. ASSUME NEW d \in Dispatchers, NEW e \in Events, MarkPublished(d, e)
        PROVE  R!Confirm(e)
    BY <2>6 DEF MarkPublished, CurrentRow, R!Confirm
  <2>7. ASSUME NEW d \in Dispatchers, NEW e \in Events, ReleaseEvent(d, e)
        PROVE  UNCHANGED R!relayVars
    BY <2>7 DEF ReleaseEvent
  <2>. QED  BY <2>1, <2>2, <2>3, <2>4, <2>5, <2>6, <2>7 DEF Next, R!Next
<1>. QED  BY <1>1, <1>2, RelayInductive, PTL DEF Spec, SafeRelay, R!SafeRelay

===============================================================================
