-------------------------- MODULE ServiceProcessProofs --------------------------
(***************************************************************************)
(* Proofs about ServiceProcess, for every service, any backlog and any     *)
(* number of requests and faults: what main promises its goroutines, and   *)
(* what a consumer promises about the offsets it commits.                  *)
(***************************************************************************)
EXTENDS ServiceProcess, SequenceTheorems, TLAPS

-----------------------------------------------------------------------------
(* Resources *)

\* Where main is says what is open, who runs and who waits for an answer.
MainInv ==
    /\ service \in AllServices
    /\ opened \in 0 .. Len(Resources(service))
    /\ rpcs \in Nat
    /\ phase \in {"down", "starting", "running", "draining", "closing"}
    /\ phase \in {"running", "draining"} => opened = Len(Resources(service))
    /\ phase \in {"down", "starting"} => live = {} /\ rpcs = 0
    /\ phase \in {"draining", "closing"} => ctxDone = TRUE
    /\ phase = "closing" => rpcs = 0 \/ service = "gateway"

\* Every service has a finite list of resources.
LEMMA ResourcesFinite == ASSUME NEW s \in AllServices PROVE Len(Resources(s)) \in Nat
<1>1. CASE s = "order"
  BY <1>1 DEF Resources, OrderResources
<1>2. CASE s = "inventory"
  BY <1>2 DEF Resources, InventoryResources
<1>3. CASE s = "payment"
  BY <1>3 DEF Resources, PaymentResources
<1>4. CASE s = "catalog"
  BY <1>4 DEF Resources, CatalogResources
<1>5. CASE s = "gateway"
  BY <1>5 DEF Resources, GatewayResources
<1>. QED  BY <1>1, <1>2, <1>3, <1>4, <1>5 DEF AllServices

\* A goroutine that ends leaves main and the requests where they are, and starts no other.
LEMMA ReportEffect ==
    ASSUME NEW w, Report(w)
    PROVE  live' \subseteq live \ {w} /\ (ctxDone = TRUE => ctxDone' = TRUE)
  BY DEF Report, Cancel

\* MainInv is inductive.
LEMMA MainInductive ==
    /\ Init => MainInv
    /\ MainInv /\ [Next]_vars => MainInv'
<1>1. ASSUME Init PROVE MainInv
  <2>1. service \in AllServices
    BY <1>1, ProcessConstants DEF Init
  <2>. QED  BY <1>1, <2>1, ResourcesFinite DEF Init, MainInv
<1>2. ASSUME MainInv, UNCHANGED vars PROVE MainInv'
  BY <1>2 DEF MainInv, vars, constVars, mainVars
<1>3. ASSUME MainInv, Next PROVE MainInv'
  <2>0. Len(Resources(service)) \in Nat
    BY <1>3, ResourcesFinite DEF MainInv
  <2>1. ASSUME Down PROVE MainInv'
    BY <1>3, <2>0, <2>1 DEF MainInv, Down, constVars
  <2>2. ASSUME UNCHANGED <<constVars, phase, opened, rpcs>>, live' \subseteq live,
               ctxDone = TRUE => ctxDone' = TRUE
        PROVE  MainInv'
    BY <1>3, <2>2 DEF MainInv, constVars
  <2>3. CASE Start
    BY <1>3, <2>3 DEF MainInv, Start, constVars
  <2>4. CASE Acquire
    BY <1>3, <2>0, <2>4 DEF MainInv, Acquire, constVars
  <2>5. CASE Launch
    BY <1>3, <2>0, <2>5 DEF MainInv, Launch, constVars
  <2>6. CASE Signal
    BY <2>2, <2>6 DEF Signal, Cancel
  <2>7. CASE StopServing
    BY <1>3, <2>7 DEF MainInv, StopServing, Cancel, constVars
  <2>8. CASE Drained
    BY <1>3, <2>8 DEF MainInv, Drained, constVars
  <2>9. CASE Close
    BY <1>3, <2>0, <2>9 DEF MainInv, Close, constVars
  <2>10. CASE AcquireFails \/ Exit \/ Crash
    BY <2>1, <2>10 DEF AcquireFails, Exit, Crash
  <2>11. CASE BeginRPC
    BY <1>3, <2>11 DEF MainInv, BeginRPC, constVars
  <2>12. CASE EndRPC
    BY <1>3, <2>12 DEF MainInv, EndRPC, constVars
  <2>13. ASSUME NEW w, WorkerFails(w) PROVE MainInv'
    BY <2>2, <2>13, ReportEffect DEF WorkerFails
  <2>14. ASSUME NEW t, Consume(t) PROVE MainInv'
    BY <2>2, <2>14 DEF Consume, Fetch, Handle, MarkProcessed, CommitMessages, mainVars
  <2>15. ASSUME NEW t, RunReturns(t) \/ RunReturnsLate(t) PROVE MainInv'
    BY <2>2, <2>15, ReportEffect DEF RunReturns, RunReturnsLate
  <2>16. ASSUME NEW id, ExpireMark(id) PROVE MainInv'
    BY <2>2, <2>16 DEF ExpireMark, mainVars
  <2>. QED  BY <1>3, <2>3, <2>4, <2>5, <2>6, <2>7, <2>8, <2>9, <2>10, <2>11, <2>12,
               <2>13, <2>14, <2>15, <2>16, Zenon DEF Next
<1>. QED  BY <1>1, <1>2, <1>3

\* A request, and a goroutine whose context is not done, finds every resource open.
THEOREM ResourcesOpen == Spec => []ServedWithResources
<1>1. MainInv => ServedWithResources
  BY DEF MainInv, ServedWithResources
<1>. QED  BY <1>1, MainInductive, PTL DEF Spec

-----------------------------------------------------------------------------
(* What a step does to the topics *)

Booting == phase \in {"down", "starting"}

\* The consumer of t goes on to pc, or is gone after an error.
Moves(t, pc) ==
    /\ UNCHANGED <<constVars, phase, expired>>
    /\ \/ at' = [at EXCEPT ![t] = pc] /\ live' = live
       \/ Fault /\ at' = at /\ live' \subseteq live \ {t}

\* Nothing happens to a topic.
Quiet ==
    /\ UNCHANGED <<constVars, topicVars>>
    /\ live' \subseteq live \/ Booting
    /\ Booting' => Booting

Handles(t) ==
    /\ Running(t, "handle") /\ ~Poison(t, Current(t))
    /\ handled' = [handled EXCEPT ![t][Current(t)] = IF @ < 2 THEN @ + 1 ELSE @]
    /\ UNCHANGED <<offset, processed>>
    /\ Moves(t, "mark")

Marks(t) ==
    /\ Running(t, "mark")
    /\ processed' = processed \cup {Current(t).id}
    /\ UNCHANGED <<offset, handled>>
    /\ Moves(t, "commit")

Commits(t) ==
    /\ Running(t, "commit")
    /\ offset' = [offset EXCEPT ![t] = @ + 1]
    /\ UNCHANGED <<processed, handled>>
    /\ Moves(t, "fetch")

\* A step is quiet, ends the process, moves one consumer or expires one mark.
LEMMA StepKinds ==
    ASSUME MainInv, Next
    PROVE  \/ Quiet
           \/ Down
           \/ \E t \in Consumers(service) : Fetch(t) \/ Handles(t) \/ Marks(t) \/ Commits(t)
           \/ \E id \in processed : ExpireMark(id)
<1>1. CASE Start \/ Acquire \/ Drained \/ Close \/ BeginRPC \/ EndRPC
  BY <1>1 DEF Start, Acquire, Drained, Close, BeginRPC, EndRPC, Quiet, Booting
<1>2. CASE Launch
  BY <1>2 DEF Launch, Quiet, Booting
<1>3. CASE Signal \/ StopServing
  BY <1>3 DEF Signal, StopServing, Cancel, Quiet, Booting
<1>4. CASE AcquireFails \/ Exit \/ Crash
  BY <1>4 DEF AcquireFails, Exit, Crash
<1>5. ASSUME NEW w, WorkerFails(w) PROVE Quiet
  BY <1>5, ReportEffect DEF WorkerFails, Quiet, Booting
<1>6. ASSUME NEW t \in Consumers(service), RunReturns(t) PROVE Quiet
  BY <1>6, ReportEffect DEF RunReturns, Quiet, Booting
<1>7. ASSUME NEW t \in Consumers(service), Consume(t)
      PROVE  Fetch(t) \/ Handles(t) \/ Marks(t) \/ Commits(t)
  BY <1>7 DEF Consume, Handle, MarkProcessed, CommitMessages, Handles, Marks, Commits, Moves,
              mainVars
<1>8. ASSUME NEW t \in Consumers(service), RunReturnsLate(t)
      PROVE  Handles(t) \/ Marks(t) \/ Commits(t)
  <2>1. live' \subseteq live \ {t} /\ Fault
    BY <1>8, ReportEffect DEF RunReturnsLate
  <2>2. UNCHANGED <<constVars, phase, at, expired>>
    BY <1>8 DEF RunReturnsLate
  <2>3. \A pc : Moves(t, pc)
    BY <2>1, <2>2 DEF Moves
  <2>. QED  BY <1>8, <2>3 DEF RunReturnsLate, Handles, Marks, Commits
<1>. QED  BY <1>1, <1>2, <1>3, <1>4, <1>5, <1>6, <1>7, <1>8, Zenon DEF Next

-----------------------------------------------------------------------------
(* Types of the topics *)

\* A consumer that runs and has a message has it at its committed offset.  One that
\* is gone may have left its place behind.
TopicInv ==
    /\ at \in [Consumers(service) -> {"fetch", "handle", "mark", "commit"}]
    /\ offset \in [Consumers(service) -> Nat]
    /\ handled = [t \in Consumers(service) |-> handled[t]]
    /\ \A t \in Consumers(service) :
          /\ log[t] \in Seq(Messages)
          /\ handled[t] \in [ToSet(log[t]) -> Nat]
          /\ offset[t] <= Len(log[t])
          /\ Booting => at[t] = "fetch"
          /\ t \in live /\ at[t] # "fetch" => offset[t] < Len(log[t])

\* The message after the committed offset is one of the topic.
LEMMA CurrentInLog ==
    ASSUME TopicInv, NEW t \in Consumers(service), offset[t] < Len(log[t])
    PROVE  Current(t) \in ToSet(log[t]) /\ offset[t] + 1 \in DOMAIN log[t]
<1>1. log[t] \in Seq(Messages) /\ offset[t] \in Nat
  BY DEF TopicInv
<1>2. offset[t] + 1 \in DOMAIN log[t]
  <2>. HIDE DEF Messages
  <2>. QED  BY <1>1
<1>. QED  BY <1>2 DEF Current, ToSet

\* Only the message that is handled is counted.
LEMMA HandlesCounts ==
    ASSUME TopicInv, NEW t \in Consumers(service), Handles(t)
    PROVE  /\ handled' = [u \in Consumers(service) |-> handled'[u]]
           /\ \A u \in Consumers(service) :
                /\ handled'[u] \in [ToSet(log[u]) -> Nat]
                /\ \A m \in ToSet(log[u]) :
                      handled'[u][m] = IF u = t /\ m = Current(t) /\ handled[u][m] < 2
                                       THEN handled[u][m] + 1 ELSE handled[u][m]
           /\ handled'[t][Current(t)] > 0
<1>1. Current(t) \in ToSet(log[t])
  BY CurrentInLog DEF Handles, Running, TopicInv
<1>. DEFINE C == Consumers(service)
            m0 == Current(t)
            S(u) == ToSet(log[u])
<1>2. /\ handled = [u \in C |-> handled[u]]
      /\ \A u \in C : handled[u] \in [S(u) -> Nat]
      /\ handled' = [handled EXCEPT ![t][m0] = IF @ < 2 THEN @ + 1 ELSE @]
      /\ t \in C /\ m0 \in S(t)
  BY <1>1 DEF TopicInv, Handles
<1>. HIDE DEF C, m0, S
<1>3. /\ handled' = [u \in C |-> handled'[u]]
      /\ \A u \in C : u # t => handled'[u] = handled[u]
      /\ handled'[t] = [handled[t] EXCEPT ![m0] = IF @ < 2 THEN @ + 1 ELSE @]
  BY <1>2
<1>4. \A m \in S(t) : handled'[t][m] = IF m = m0 /\ handled[t][m] < 2
                                       THEN handled[t][m] + 1 ELSE handled[t][m]
  BY <1>2, <1>3
<1>5. handled'[t] \in [S(t) -> Nat] /\ handled'[t][m0] > 0
  BY <1>2, <1>3
<1>. QED  BY <1>2, <1>3, <1>4, <1>5 DEF C, m0, S

\* TopicInv is inductive, given MainInv.
LEMMA TopicInductive ==
    /\ Init => TopicInv
    /\ MainInv /\ TopicInv /\ [Next]_vars => TopicInv'
<1>1. ASSUME Init PROVE TopicInv
  <2>1. PICK b \in Backlogs :
          log = [t \in Consumers(service) |-> IF t \in DOMAIN b THEN b[t] ELSE <<>>]
    BY <1>1 DEF Init
  <2>2. \A t \in DOMAIN b : b[t] \in Seq(Messages)
    BY ProcessConstants
  <2>3. ASSUME NEW t \in Consumers(service) PROVE log[t] \in Seq(Messages)
    <3>1. <<>> \in Seq(Messages)
      <4>. HIDE DEF Messages
      <4>. QED  OBVIOUS
    <3>. QED  BY <2>1, <2>2, <3>1
  <2>4. ASSUME NEW t \in Consumers(service) PROVE Len(log[t]) \in Nat
    <3>. HIDE DEF Messages
    <3>. QED  BY <2>3
  <2>. QED  BY <1>1, <2>3, <2>4 DEF Init, TopicInv
<1>2. ASSUME TopicInv, UNCHANGED vars PROVE TopicInv'
  BY <1>2 DEF TopicInv, Booting, vars, constVars, mainVars, topicVars
<1>3. ASSUME MainInv, TopicInv, Next PROVE TopicInv'
  <2>0. \A t \in Consumers(service) : Len(log[t]) \in Nat
    BY <1>3 DEF TopicInv
  <2>1. CASE Quiet
    BY <1>3, <2>1 DEF TopicInv, Quiet, Booting, constVars, topicVars
  <2>2. CASE Down
    BY <1>3, <2>2 DEF TopicInv, Down, constVars
  <2>3. ASSUME NEW t \in Consumers(service), Fetch(t) PROVE TopicInv'
    <3>1. UNCHANGED <<service, log, live, phase, offset, handled>> /\ ~Booting
      BY <1>3, <2>3 DEF Fetch, Running, constVars, mainVars, Booting, MainInv
    <3>2. /\ at' = [at EXCEPT ![t] = at'[t]] /\ at'[t] \in {"handle", "commit"}
          /\ offset[t] < Len(log[t])
      BY <1>3, <2>3 DEF Fetch, TopicInv
    <3>. QED  BY <1>3, <3>1, <3>2 DEF TopicInv, Booting
  <2>4. ASSUME NEW t \in Consumers(service), NEW pc \in {"fetch", "mark", "commit"},
               Moves(t, pc), t \in live, at[t] # "fetch"
        PROVE  /\ UNCHANGED <<service, log, phase>> /\ ~Booting /\ ~Booting'
               /\ at' \in [Consumers(service) -> {"fetch", "handle", "mark", "commit"}]
               /\ \A u \in Consumers(service) \ {t} : at'[u] = at[u]
               /\ live' \subseteq live
               /\ t \in live' => at'[t] = pc
    BY <1>3, <2>4 DEF Moves, TopicInv, MainInv, Booting, constVars
  <2>5. ASSUME NEW t \in Consumers(service), Handles(t) PROVE TopicInv'
    <3>1. Moves(t, "mark") /\ t \in live /\ at[t] = "handle" /\ offset' = offset
      BY <2>5 DEF Handles, Running
    <3>2. offset[t] < Len(log[t])
      BY <1>3, <3>1 DEF TopicInv
    <3>3. /\ handled' = [u \in Consumers(service) |-> handled'[u]]
          /\ \A u \in Consumers(service) : handled'[u] \in [ToSet(log[u]) -> Nat]
      BY <1>3, <2>5, HandlesCounts
    <3>4. service' = service /\ log' = log /\ ~Booting'
      BY <2>4, <3>1
    <3>. QED  BY <1>3, <2>4, <3>1, <3>2, <3>3, <3>4 DEF TopicInv
  <2>6. ASSUME NEW t \in Consumers(service), Marks(t) PROVE TopicInv'
    <3>1. Moves(t, "commit") /\ t \in live /\ at[t] = "mark" /\ UNCHANGED <<offset, handled>>
      BY <2>6 DEF Marks, Running
    <3>2. offset[t] < Len(log[t])
      BY <1>3, <3>1 DEF TopicInv
    <3>. QED  BY <1>3, <2>4, <3>1, <3>2 DEF TopicInv
  <2>7. ASSUME NEW t \in Consumers(service), Commits(t) PROVE TopicInv'
    <3>1. /\ Moves(t, "fetch") /\ t \in live /\ at[t] = "commit" /\ handled' = handled
          /\ offset' = [offset EXCEPT ![t] = @ + 1]
      BY <2>7 DEF Commits, Running
    <3>2. offset[t] < Len(log[t]) /\ offset[t] \in Nat
      BY <1>3, <3>1 DEF TopicInv
    <3>3. /\ offset' \in [Consumers(service) -> Nat]
          /\ \A u \in Consumers(service) \ {t} : offset'[u] = offset[u]
          /\ offset'[t] <= Len(log[t])
      BY <1>3, <2>0, <3>1, <3>2 DEF TopicInv
    <3>. QED  BY <1>3, <2>4, <3>1, <3>3 DEF TopicInv
  <2>8. ASSUME NEW id, ExpireMark(id) PROVE TopicInv'
    BY <1>3, <2>8 DEF TopicInv, ExpireMark, Booting, constVars, mainVars
  <2>. QED  BY <1>3, <2>1, <2>2, <2>3, <2>5, <2>6, <2>7, <2>8, StepKinds
<1>. QED  BY <1>1, <1>2, <1>3

-----------------------------------------------------------------------------
(* At least once *)

Done(t, m) == Dropped(m) \/ handled[t][m] > 0

\* A consumer marks and commits only what is done, and a mark in Redis tells the truth.
LeastInv ==
    /\ \A t, u \in Consumers(service) : \A m \in ToSet(log[t]), n \in ToSet(log[u]) :
          m.id = n.id => t = u /\ m = n
    /\ \A t \in Consumers(service) :
          /\ t \in live /\ at[t] = "mark" => handled[t][Current(t)] > 0
          /\ t \in live /\ at[t] = "commit" => Done(t, Current(t))
          /\ \A m \in ToSet(log[t]) : m.id \in processed => handled[t][m] > 0
          /\ \A i \in 1 .. offset[t] : Done(t, log[t][i])

\* LeastInv is inductive, given the other invariants and that ids are unique.
LEMMA LeastInductive ==
    ASSUME EventIdsUnique
    PROVE  /\ Init => LeastInv
           /\ MainInv /\ TopicInv /\ LeastInv /\ [Next]_vars => LeastInv'
<1>1. ASSUME Init PROVE LeastInv
  <2>1. PICK b \in Backlogs :
          log = [t \in Consumers(service) |-> IF t \in DOMAIN b THEN b[t] ELSE <<>>]
    BY <1>1 DEF Init
  <2>2. ASSUME NEW t \in Consumers(service), NEW m \in ToSet(log[t])
        PROVE  t \in DOMAIN b /\ \E i \in DOMAIN b[t] : m = b[t][i]
    BY <2>1 DEF ToSet
  <2>3. ASSUME NEW t \in Consumers(service), NEW u \in Consumers(service),
               NEW m \in ToSet(log[t]), NEW n \in ToSet(log[u]), m.id = n.id
        PROVE  t = u /\ m = n
    BY <2>2, <2>3, EventIdsUnique DEF EventIdsUnique
  <2>. QED  BY <1>1, <2>3 DEF Init, LeastInv
<1>2. ASSUME LeastInv, UNCHANGED vars PROVE LeastInv'
  BY <1>2 DEF LeastInv, Done, Dropped, Current, vars, constVars, mainVars, topicVars
<1>3. ASSUME MainInv, TopicInv, LeastInv, Next PROVE LeastInv'
  <2>1. CASE Quiet
    BY <1>3, <2>1 DEF LeastInv, TopicInv, Done, Dropped, Current, Quiet, constVars, topicVars
  <2>2. CASE Down
    BY <1>3, <2>2 DEF LeastInv, TopicInv, Done, Dropped, Current, Down, constVars
  <2>3. ASSUME NEW t \in Consumers(service), Fetch(t) PROVE LeastInv'
    <3>1. UNCHANGED <<service, log, live, offset, handled, processed>>
      BY <2>3 DEF Fetch, constVars, mainVars
    <3>2. Current(t) \in ToSet(log[t])
      BY <1>3, <2>3, CurrentInLog DEF Fetch
    <3>3. /\ \A u \in Consumers(service) \ {t} : at'[u] = at[u]
          /\ at'[t] = IF Dropped(Current(t)) \/ Current(t).id \in processed
                      THEN "commit" ELSE "handle"
      BY <1>3, <2>3 DEF Fetch, TopicInv
    <3>4. at'[t] = "commit" => Done(t, Current(t))
      BY <1>3, <3>2, <3>3 DEF LeastInv, Done
    <3>. QED  BY <1>3, <3>1, <3>3, <3>4 DEF LeastInv, Done, Dropped, Current
  <2>4. ASSUME NEW t \in Consumers(service), NEW pc, Moves(t, pc)
        PROVE  /\ UNCHANGED <<service, log>> /\ live' \subseteq live
               /\ \A u \in Consumers(service) \ {t} : at'[u] = at[u]
               /\ t \in live' => at'[t] = pc
    BY <1>3, <2>4 DEF Moves, TopicInv, constVars
  <2>5. ASSUME NEW t \in Consumers(service), Handles(t) PROVE LeastInv'
    <3>1. /\ UNCHANGED <<service, log, offset, processed>> /\ live' \subseteq live
          /\ \A u \in Consumers(service) \ {t} : at'[u] = at[u]
          /\ t \in live' => at'[t] = "mark"
      BY <2>4, <2>5 DEF Handles
    <3>2. /\ \A u \in Consumers(service) : \A m \in ToSet(log[u]) :
                handled[u][m] > 0 => handled'[u][m] > 0
          /\ handled'[t][Current(t)] > 0
      BY <1>3, <2>5, HandlesCounts DEF TopicInv
    <3>3. ASSUME NEW u \in Consumers(service), NEW m \in ToSet(log[u]), Done(u, m)
          PROVE  Done(u, m)'
      BY <3>1, <3>2, <3>3 DEF Done, Dropped
    <3>4. ASSUME NEW u \in Consumers(service), u \in live, at[u] # "fetch"
          PROVE  Current(u) \in ToSet(log[u])
      BY <1>3, <3>4, CurrentInLog DEF TopicInv
    <3>5. ASSUME NEW u \in Consumers(service), NEW i \in 1 .. offset[u]
          PROVE  log[u][i] \in ToSet(log[u])
      <4>1. log[u] \in Seq(Messages) /\ offset[u] \in Nat /\ offset[u] <= Len(log[u])
        BY <1>3 DEF TopicInv
      <4>2. i \in DOMAIN log[u]
        <5>. HIDE DEF Messages
        <5>. QED  BY <4>1
      <4>. QED  BY <4>2 DEF ToSet
    <3>6. \A u \in Consumers(service) : Current(u)' = Current(u)
      BY <3>1 DEF Current
    <3>7. ASSUME NEW u \in Consumers(service), u \in live'
          PROVE  /\ at'[u] = "mark" => handled'[u][Current(u)] > 0
                 /\ at'[u] = "commit" => Done(u, Current(u))'
      BY <1>3, <3>1, <3>2, <3>3, <3>4, <3>6, <3>7 DEF LeastInv
    <3>. QED  BY <1>3, <3>1, <3>2, <3>3, <3>5, <3>6, <3>7 DEF LeastInv, Done
  <2>6. ASSUME NEW t \in Consumers(service), Marks(t) PROVE LeastInv'
    <3>1. /\ UNCHANGED <<service, log, offset, handled>> /\ live' \subseteq live
          /\ \A u \in Consumers(service) \ {t} : at'[u] = at[u]
          /\ t \in live' => at'[t] = "commit"
          /\ processed' = processed \cup {Current(t).id}
          /\ t \in live /\ at[t] = "mark"
      BY <2>4, <2>6 DEF Marks, Running
    <3>2. Current(t) \in ToSet(log[t]) /\ handled[t][Current(t)] > 0
      BY <1>3, <3>1, CurrentInLog DEF TopicInv, LeastInv
    <3>3. ASSUME NEW u \in Consumers(service), NEW m \in ToSet(log[u]), m.id \in processed'
          PROVE  handled[u][m] > 0
      <4>1. CASE m.id \in processed
        BY <1>3, <4>1 DEF LeastInv
      <4>2. CASE m.id = Current(t).id
        BY <1>3, <3>2, <4>2 DEF LeastInv
      <4>. QED  BY <3>1, <3>3, <4>1, <4>2
    <3>. QED  BY <1>3, <3>1, <3>2, <3>3 DEF LeastInv, Done, Dropped, Current
  <2>7. ASSUME NEW t \in Consumers(service), Commits(t) PROVE LeastInv'
    <3>1. /\ UNCHANGED <<service, log, processed, handled>> /\ live' \subseteq live
          /\ \A u \in Consumers(service) \ {t} : at'[u] = at[u]
          /\ t \in live' => at'[t] = "fetch"
          /\ offset' = [offset EXCEPT ![t] = @ + 1]
          /\ t \in live /\ at[t] = "commit"
      BY <2>4, <2>7 DEF Commits, Running
    <3>2. /\ \A u \in Consumers(service) \ {t} : offset'[u] = offset[u]
          /\ offset'[t] = offset[t] + 1 /\ offset[t] \in Nat
      BY <1>3, <3>1 DEF TopicInv
    <3>3. Done(t, log[t][offset[t] + 1])
      BY <1>3, <3>1 DEF LeastInv, Current
    <3>4. ASSUME NEW u \in Consumers(service), NEW i \in 1 .. offset'[u]
          PROVE  Done(u, log[u][i])
      <4>1. CASE u = t /\ i = offset[t] + 1
        BY <3>3, <4>1
      <4>2. CASE i \in 1 .. offset[u]
        BY <1>3, <4>2 DEF LeastInv
      <4>. QED  BY <3>2, <4>1, <4>2
    <3>5. \A u \in Consumers(service) \ {t} : Current(u)' = Current(u)
      BY <3>1, <3>2 DEF Current
    <3>. QED  BY <1>3, <3>1, <3>4, <3>5 DEF LeastInv, Done, Dropped
  <2>8. ASSUME NEW id, ExpireMark(id) PROVE LeastInv'
    BY <1>3, <2>8 DEF LeastInv, Done, Dropped, Current, ExpireMark, constVars, mainVars
  <2>. QED  BY <1>3, <2>1, <2>2, <2>3, <2>5, <2>6, <2>7, <2>8, StepKinds
<1>. QED  BY <1>1, <1>2, <1>3

\* A committed offset never passes an event that was not handled, whatever stops the
\* consumer between effect, mark and commit, if no two events share an id.
THEOREM CommittedHandled ==
    ASSUME EventIdsUnique PROVE Spec => []CommittedIsHandled
<1>1. LeastInv => CommittedIsHandled
  BY DEF LeastInv, CommittedIsHandled, Done
<1>2. /\ Init => LeastInv
      /\ MainInv /\ TopicInv /\ LeastInv /\ [Next]_vars => LeastInv'
  BY LeastInductive
<1>. QED  BY <1>1, <1>2, MainInductive, TopicInductive, PTL DEF Spec

-----------------------------------------------------------------------------
(* At most once *)

\* Without a failed call and without an event that can never be handled, nobody asks
\* the process to stop.
CalmInv ==
    faults = 0 /\ Healthy =>
        ctxDone = FALSE /\ errs = {} /\ phase \in {"down", "starting", "running"}

\* A message that was handled is marked, or is the one its consumer is about to mark,
\* and no message is handled that was handled before.
Once(t) ==
    /\ at[t] = "handle" => handled[t][Current(t)] = 0
    /\ \A m \in ToSet(log[t]) :
          /\ handled[t][m] \in {0, 1}
          /\ handled[t][m] = 1 => m.id \in processed \/ (at[t] = "mark" /\ m = Current(t))

OnceInv ==
    /\ faults \in Nat
    /\ expired \in BOOLEAN
    /\ faults = 0 /\ ~expired /\ Healthy => \A t \in Consumers(service) : Once(t)

\* What the service and its backlog are never changes.
LEMMA ConstantsKept == ASSUME Next PROVE UNCHANGED constVars /\ (Healthy' <=> Healthy)
<1>1. UNCHANGED constVars
  BY DEF Next, Start, Acquire, AcquireFails, Down, Launch, Signal, StopServing, Drained, Close,
         Exit, Crash, BeginRPC, EndRPC, WorkerFails, Consume, Fetch, Handle, MarkProcessed,
         CommitMessages, RunReturns, RunReturnsLate, ExpireMark
<1>. QED  BY <1>1 DEF constVars, Healthy, Poison, AnnouncesRefusal

\* While nothing fails, no consumer has a message it can never handle.
LEMMA NoPoison ==
    ASSUME TopicInv, Healthy, NEW t \in Consumers(service), t \in live, at[t] = "handle"
    PROVE  ~Poison(t, Current(t))
<1>1. Current(t) \in ToSet(log[t])
  BY CurrentInLog DEF TopicInv
<1>. QED  BY <1>1 DEF Healthy

\* A step without a fault keeps the process calm, and ends it only before it runs.
LEMMA CalmStep ==
    ASSUME TopicInv, faults \in Nat, CalmInv, Next, faults' = 0
    PROVE  /\ faults = 0 /\ ~Fault
           /\ CalmInv'
           /\ Healthy /\ Down => Booting
<1>1. ~Fault
  BY DEF Fault
<1>2. faults' = faults
  BY <1>1 DEF Next, Start, Acquire, AcquireFails, Launch, Signal, StopServing, Drained, Close,
         Exit, Crash, BeginRPC, EndRPC, WorkerFails, Consume, Fetch, Handle, MarkProcessed,
         CommitMessages, RunReturns, RunReturnsLate, ExpireMark
<1>3. ASSUME Healthy
      PROVE  /\ ctxDone' = FALSE /\ errs' = {} /\ phase' \in {"down", "starting", "running"}
             /\ Down => Booting
  <2>0. ctxDone = FALSE /\ errs = {} /\ phase \in {"down", "starting", "running"}
    BY <1>2, <1>3 DEF CalmInv
  <2>1. CASE UNCHANGED <<phase, ctxDone, errs>>
    BY <2>0, <2>1 DEF Down, Booting
  <2>2. CASE Start \/ Launch
    BY <2>0, <2>2 DEF Start, Launch, Down
  <2>3. CASE Acquire \/ BeginRPC \/ EndRPC
    BY <2>1, <2>3 DEF Acquire, BeginRPC, EndRPC
  <2>4. CASE AcquireFails
    BY <2>4 DEF AcquireFails, Down, Booting
  <2>5. CASE Signal \/ StopServing \/ Drained \/ Close \/ Exit \/ Crash
    BY <1>1, <2>0, <2>5 DEF Signal, StopServing, Drained, Close, Exit, Crash
  <2>6. ASSUME NEW w, WorkerFails(w) PROVE FALSE
    BY <1>1, <2>6 DEF WorkerFails
  <2>7. ASSUME NEW t \in Consumers(service), RunReturns(t) \/ RunReturnsLate(t) PROVE FALSE
    BY <1>1, <1>3, <2>0, <2>7, NoPoison DEF RunReturns, RunReturnsLate
  <2>8. ASSUME NEW t, Consume(t) PROVE UNCHANGED <<phase, ctxDone, errs>>
    BY <2>8 DEF Consume, Fetch, Handle, MarkProcessed, CommitMessages, mainVars
  <2>9. ASSUME NEW id, ExpireMark(id) PROVE UNCHANGED <<phase, ctxDone, errs>>
    BY <2>9 DEF ExpireMark, mainVars
  <2>. QED  BY <2>1, <2>2, <2>3, <2>4, <2>5, <2>6, <2>7, <2>8, <2>9, Zenon DEF Next
<1>. QED  BY <1>1, <1>2, <1>3, ConstantsKept DEF CalmInv

\* Every step without a fault and without an expired mark keeps Once.
LEMMA OnceStep ==
    ASSUME MainInv, TopicInv, Next, ~Fault, ~expired', Down => Booting,
           \A t \in Consumers(service) : Once(t)
    PROVE  \A t \in Consumers(service) : Once(t)'
<1>. SUFFICES ASSUME NEW u \in Consumers(service) PROVE Once(u)'
  OBVIOUS
<1>0. Once(u)
  OBVIOUS
<1>1. CASE Quiet
  BY <1>0, <1>1 DEF Quiet, Once, Current, constVars, topicVars
<1>2. CASE Down
  <2>1. at'[u] = "fetch" /\ at[u] = "fetch"
    BY <1>2 DEF Down, TopicInv
  <2>. QED  BY <1>0, <1>2, <2>1 DEF Down, Once, constVars
<1>3. ASSUME NEW t \in Consumers(service), Fetch(t) PROVE Once(u)'
  <2>1. /\ UNCHANGED <<log, offset, handled, processed>> /\ Current(u)' = Current(u)
        /\ u # t => at'[u] = at[u]
        /\ at[t] = "fetch"
        /\ at'[t] = IF Dropped(Current(t)) \/ Current(t).id \in processed
                    THEN "commit" ELSE "handle"
    BY <1>3 DEF Fetch, Running, constVars, Current, TopicInv
  <2>2. CASE u # t
    BY <1>0, <2>1, <2>2 DEF Once
  <2>3. CASE u = t
    <3>1. Current(t) \in ToSet(log[t])
      BY <1>3, CurrentInLog DEF Fetch
    <3>2. at'[t] = "handle" => handled[t][Current(t)] = 0
      BY <1>0, <2>1, <2>3, <3>1 DEF Once
    <3>. QED  BY <1>0, <2>1, <2>3, <3>2 DEF Once
  <2>. QED  BY <2>2, <2>3
<1>4. ASSUME NEW t \in Consumers(service), NEW pc, Moves(t, pc)
      PROVE  log' = log /\ (u # t => at'[u] = at[u]) /\ at'[t] = pc
  BY <1>4 DEF Moves, constVars, TopicInv
<1>5. ASSUME NEW t \in Consumers(service), Handles(t) PROVE Once(u)'
  <2>1. /\ UNCHANGED <<log, offset, processed>> /\ at[t] = "handle" /\ at'[t] = "mark"
        /\ u # t => at'[u] = at[u]
    BY <1>4, <1>5 DEF Handles, Running
  <2>2. Current(u)' = Current(u)
    BY <2>1 DEF Current
  <2>3. \A m \in ToSet(log[u]) :
           handled'[u][m] = IF u = t /\ m = Current(t) /\ handled[u][m] < 2
                            THEN handled[u][m] + 1 ELSE handled[u][m]
    BY <1>5, HandlesCounts
  <2>4. CASE u # t
    <3>1. handled'[u] = handled[u]
      BY <1>5, <2>4 DEF Handles, TopicInv
    <3>. QED  BY <1>0, <2>1, <2>2, <2>4, <3>1 DEF Once
  <2>5. CASE u = t
    <3>1. handled[t][Current(t)] = 0
      BY <1>0, <2>1, <2>5 DEF Once
    <3>. QED  BY <1>0, <2>1, <2>2, <2>3, <2>5, <3>1 DEF Once
  <2>. QED  BY <2>4, <2>5
<1>6. ASSUME NEW t \in Consumers(service), Marks(t) PROVE Once(u)'
  <2>1. /\ UNCHANGED <<log, offset, handled>> /\ at[t] = "mark" /\ at'[t] = "commit"
        /\ u # t => at'[u] = at[u]
        /\ processed' = processed \cup {Current(t).id}
    BY <1>4, <1>6 DEF Marks, Running
  <2>2. Current(u)' = Current(u)
    BY <2>1 DEF Current
  <2>. QED  BY <1>0, <2>1, <2>2 DEF Once
<1>7. ASSUME NEW t \in Consumers(service), Commits(t) PROVE Once(u)'
  <2>1. /\ UNCHANGED <<log, handled, processed>> /\ at[t] = "commit" /\ at'[t] = "fetch"
        /\ u # t => at'[u] = at[u] /\ offset'[u] = offset[u]
    BY <1>4, <1>7 DEF Commits, Running, TopicInv
  <2>2. CASE u # t
    BY <1>0, <2>1, <2>2 DEF Once, Current
  <2>3. CASE u = t
    BY <1>0, <2>1, <2>3 DEF Once
  <2>. QED  BY <2>2, <2>3
<1>8. ASSUME NEW id, ExpireMark(id) PROVE FALSE
  BY <1>8 DEF ExpireMark
<1>. QED  BY <1>1, <1>2, <1>3, <1>5, <1>6, <1>7, <1>8, StepKinds

\* OnceInv is inductive, given the other invariants.
LEMMA OnceInductive ==
    /\ Init => CalmInv /\ OnceInv
    /\ MainInv /\ TopicInv /\ CalmInv /\ OnceInv /\ [Next]_vars => CalmInv' /\ OnceInv'
<1>1. ASSUME Init PROVE CalmInv /\ OnceInv
  <2>1. CalmInv
    BY <1>1 DEF Init, CalmInv
  <2>2. ASSUME NEW t \in Consumers(service) PROVE Once(t)
    <3>1. at[t] = "fetch" /\ \A m \in ToSet(log[t]) : handled[t][m] = 0
      BY <1>1 DEF Init
    <3>. QED  BY <3>1 DEF Once
  <2>3. faults \in Nat /\ expired \in BOOLEAN
    BY <1>1 DEF Init
  <2>. QED  BY <2>1, <2>2, <2>3 DEF OnceInv
<1>2. ASSUME CalmInv, OnceInv, UNCHANGED vars PROVE CalmInv' /\ OnceInv'
  BY <1>2 DEF CalmInv, OnceInv, Once, Current, Healthy, Poison, AnnouncesRefusal, vars,
              constVars, mainVars, topicVars
<1>3. ASSUME MainInv, TopicInv, CalmInv, OnceInv, Next PROVE CalmInv' /\ OnceInv'
  <2>1. faults \in Nat
    BY <1>3 DEF OnceInv
  <2>2. faults' \in Nat
    BY <1>3, <2>1 DEF Fault, Next, Start, Acquire, AcquireFails, Launch, Signal, StopServing,
       Drained, Close, Exit, Crash, BeginRPC, EndRPC, WorkerFails, Consume, Fetch, Handle,
       MarkProcessed, CommitMessages, RunReturns, RunReturnsLate, ExpireMark
  <2>3. expired' \in BOOLEAN
    BY <1>3, StepKinds DEF OnceInv, Quiet, Down, Fetch, Handles, Marks, Commits, Moves,
       ExpireMark, topicVars
  <2>4. CASE faults' = 0
    <3>1. CalmInv' /\ faults = 0 /\ ~Fault /\ (Healthy /\ Down => Booting)
      BY <1>3, <2>1, <2>4, CalmStep
    <3>2. ASSUME ~expired', Healthy PROVE \A t \in Consumers(service) : Once(t)'
      <4>1. ~expired
        BY <1>3, <3>2, StepKinds DEF Quiet, Down, Fetch, Handles, Marks, Commits, Moves,
           ExpireMark, topicVars
      <4>2. \A t \in Consumers(service) : Once(t)
        BY <1>3, <3>1, <3>2, <4>1 DEF OnceInv
      <4>. QED  BY <1>3, <3>1, <3>2, <4>2, OnceStep
    <3>3. service' = service /\ (Healthy' <=> Healthy)
      BY <1>3, ConstantsKept DEF constVars
    <3>. QED  BY <2>2, <2>3, <3>1, <3>2, <3>3 DEF OnceInv
  <2>5. CASE faults' # 0
    BY <2>2, <2>5, <2>3 DEF CalmInv, OnceInv
  <2>. QED  BY <2>4, <2>5
<1>. QED  BY <1>1, <1>2, <1>3

\* A copy of an event is not handled again, as long as no call fails, no mark expires
\* and no consumer of the service meets an event it can never handle.
THEOREM HandledAtMostOnce == Spec => []HandledOnce
<1>1. TopicInv /\ OnceInv => HandledOnce
  <2>. SUFFICES ASSUME TopicInv, OnceInv, faults = 0, ~expired, Healthy,
                       NEW t \in Consumers(service), NEW m \in DOMAIN handled[t]
                PROVE  handled[t][m] <= 1
    BY DEF HandledOnce
  <2>. QED  BY DEF TopicInv, OnceInv, Once
<1>. QED  BY <1>1, MainInductive, TopicInductive, OnceInductive, PTL DEF Spec

=============================================================================
