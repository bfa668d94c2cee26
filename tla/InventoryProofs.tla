---------------------------- MODULE InventoryProofs ----------------------------
(***************************************************************************)
(* Proofs about Inventory, for any number of orders, products and faults,  *)
(* in five layers: the stock rows balance; handlers of one order do not    *)
(* disturb each other when its events are handled in order; the ledger     *)
(* agrees with the stock; an order holds all of its lines or none; and     *)
(* what was promised to an order is held until it is cancelled.  Lemmas    *)
(* about sums over finite sets come first.                                 *)
(***************************************************************************)
EXTENDS Inventory, FiniteSetTheorems, TLAPS

-----------------------------------------------------------------------------
(* Sums over finite sets *)

\* MapThenSumSet adds the elements of a set in the order in which CHOOSE picks them; the
\* lemmas say what such a sum does when one element or one summand changes.  Inductions
\* are over the subsets of a finite set, with the claim given as the set of subsets it
\* holds for.

Pick(s) == CHOOSE x \in s : TRUE

\* h[s] is the sum of f over s, for every subset s of S.
IsSum(h, f, S) ==
    h = [s \in SUBSET S |-> IF s = {} THEN 0 ELSE f[Pick(s)] + h[s \ {Pick(s)}]]

Sums(f, S) == CHOOSE h : IsSum(h, f, S)

\* The sum of f over S.
Sum(f, S) == Sums(f, S)[S]

-----------------------------------------------------------------------------

\* A family of sets that contains T whenever it contains the strict subsets of T
\* contains every subset of a finite set.
LEMMA SubsetInduction ==
    ASSUME NEW S, IsFiniteSet(S), NEW G,
           \A T \in SUBSET S : (\A U \in SUBSET T : U # T => U \in G) => T \in G
    PROVE  \A T \in SUBSET S : T \in G
<1>. DEFINE B == (SUBSET S) \ G
            R == StrictSubsetOrdering(S)
<1>. SUFFICES ASSUME B # {} PROVE FALSE
  OBVIOUS
<1>1. IsWellFoundedOn(R, SUBSET S)
  <2>1. IsWellFoundedOn(R, FiniteSubsetsOf(S))
    BY FS_StrictSubsetOrderingWellFounded
  <2>2. FiniteSubsetsOf(S) = SUBSET S
    BY FS_FiniteSubsetsOfFinite
  <2>. QED  BY <2>1, <2>2
<1>2. B \subseteq SUBSET S
  OBVIOUS
<1>3. \E T \in B : \A U \in B : ~(<<U, T>> \in R)
  <2>. HIDE DEF B, R
  <2>. QED  BY <1>1, <1>2, WFMin
<1>4. PICK T \in B : \A U \in B : ~(<<U, T>> \in R)
  BY <1>3
<1>5. ASSUME NEW U \in SUBSET T, U # T PROVE U \in G
  <2>1. <<U, T>> \in R
    BY <1>5 DEF StrictSubsetOrdering
  <2>2. U \in SUBSET S
    OBVIOUS
  <2>3. U \notin B
    <3>. HIDE DEF B, R
    <3>. QED  BY <1>4, <2>1
  <2>. QED  BY <2>2, <2>3
<1>. QED  BY <1>4, <1>5

\* The element picked is one of the set.
LEMMA PickIn == ASSUME NEW s, s # {} PROVE Pick(s) \in s
  BY DEF Pick

\* The equation of IsSum, at one subset.
SumAt(h, f, s) ==
    /\ s = {} => h[s] = 0
    /\ s # {} => h[s] = f[Pick(s)] + h[s \ {Pick(s)}]

\* The sums of the subsets of T, from those of a larger set.
SubSums(h, T) == [s \in SUBSET T |-> h[s]]

\* IsSum gives the equation at every subset.
LEMMA SumEquation ==
    ASSUME NEW S, NEW f, NEW h, IsSum(h, f, S), NEW s \in SUBSET S
    PROVE  SumAt(h, f, s)
<1>. DEFINE body(t) == IF t = {} THEN 0 ELSE f[Pick(t)] + h[t \ {Pick(t)}]
<1>1. h = [t \in SUBSET S |-> body(t)]
  BY DEF IsSum
<1>2. h[s] = body(s)
  <2>. HIDE DEF body
  <2>. QED  BY <1>1
<1>. QED  BY <1>2 DEF SumAt

\* Two functions that satisfy the equation for summands that agree on S are equal.
LEMMA SumUnique ==
    ASSUME NEW S, IsFiniteSet(S), NEW f, NEW g, \A x \in S : f[x] = g[x],
           NEW h, IsSum(h, f, S), NEW k, IsSum(k, g, S)
    PROVE  h = k
<1>. DEFINE G == {T \in SUBSET S : h[T] = k[T]}
<1>1. ASSUME NEW T \in SUBSET S, \A U \in SUBSET T : U # T => U \in G
      PROVE  T \in G
  <2>1. SumAt(h, f, T) /\ SumAt(k, g, T)
    BY SumEquation
  <2>2. CASE T = {}
    BY <2>1, <2>2 DEF SumAt
  <2>3. CASE T # {}
    <3>1. Pick(T) \in T
      BY <2>3, PickIn
    <3>2. T \ {Pick(T)} \in G
      BY <1>1, <3>1
    <3>. QED  BY <2>1, <2>3, <3>1, <3>2 DEF SumAt
  <2>. QED  BY <2>2, <2>3
<1>2. \A T \in SUBSET S : T \in G
  <2>. HIDE DEF G
  <2>. QED  BY <1>1, SubsetInduction
<1>3. \A T \in SUBSET S : h[T] = k[T]
  BY <1>2
<1>4. /\ DOMAIN h = SUBSET S /\ h = [T \in DOMAIN h |-> h[T]]
      /\ DOMAIN k = SUBSET S /\ k = [T \in DOMAIN k |-> k[T]]
  BY DEF IsSum
<1>. QED  BY <1>3, <1>4

\* The sums over the subsets of S include those over the subsets of T.
LEMMA SumRestrict ==
    ASSUME NEW S, NEW T \in SUBSET S, NEW f, NEW h, IsSum(h, f, S)
    PROVE  IsSum(SubSums(h, T), f, T)
<1>. DEFINE k == SubSums(h, T)
            body(s) == IF s = {} THEN 0 ELSE f[Pick(s)] + k[s \ {Pick(s)}]
<1>1. ASSUME NEW s \in SUBSET T PROVE h[s] = body(s)
  <2>1. s \in SUBSET S /\ s \ {Pick(s)} \in SUBSET T
    OBVIOUS
  <2>2. k[s \ {Pick(s)}] = h[s \ {Pick(s)}]
    BY <2>1 DEF SubSums
  <2>3. SumAt(h, f, s)
    BY <2>1, SumEquation
  <2>. QED  BY <2>2, <2>3 DEF SumAt
<1>2. k = [s \in SUBSET T |-> body(s)]
  <2>. HIDE DEF body
  <2>. QED  BY <1>1 DEF SubSums
<1>. QED  BY <1>2 DEF IsSum

\* The equation has a solution over every finite set.
LEMMA SumExists ==
    ASSUME NEW S, IsFiniteSet(S), NEW f
    PROVE  \E h : IsSum(h, f, S)
<1>. DEFINE G == {T \in SUBSET S : \E h : IsSum(h, f, T)}
<1>1. ASSUME NEW T \in SUBSET S, \A U \in SUBSET T : U # T => U \in G
      PROVE  T \in G
  <2>. DEFINE sub(s) == Sums(f, s)
              h == [s \in SUBSET T |-> IF s = {} THEN 0
                                       ELSE f[Pick(s)] + sub(s \ {Pick(s)})[s \ {Pick(s)}]]
              body(s) == IF s = {} THEN 0 ELSE f[Pick(s)] + h[s \ {Pick(s)}]
  <2>1. ASSUME NEW U \in SUBSET T, U # T PROVE IsSum(sub(U), f, U)
    <3>1. \E k : IsSum(k, f, U)
      BY <1>1, <2>1
    <3>. QED  BY <3>1 DEF Sums
  <2>2. ASSUME NEW U \in SUBSET T, U # T PROVE h[U] = sub(U)[U]
    <3>. DEFINE V == U \ {Pick(U)}
    <3>0. U \in SUBSET U /\ IsFiniteSet(U)
      BY FS_Subset
    <3>1. IsSum(sub(U), f, U)
      BY <2>1, <2>2
    <3>2. SumAt(sub(U), f, U)
      BY <3>0, <3>1, SumEquation
    <3>3. CASE U = {}
      BY <3>2, <3>3 DEF SumAt
    <3>4. CASE U # {}
      <4>1. V \in SUBSET U /\ V \in SUBSET T /\ V # T /\ IsFiniteSet(V)
        BY <2>2, <3>0, FS_Subset
      <4>2. IsSum(SubSums(sub(U), V), f, V)
        BY <3>1, <4>1, SumRestrict
      <4>3. IsSum(sub(V), f, V)
        BY <2>1, <4>1
      <4>4. sub(V) = SubSums(sub(U), V)
        BY <4>1, <4>2, <4>3, SumUnique
      <4>5. sub(V)[V] = sub(U)[V]
        BY <4>4 DEF SubSums
      <4>6. sub(U)[U] = f[Pick(U)] + sub(U)[V]
        BY <3>2, <3>4 DEF SumAt
      <4>7. h[U] = f[Pick(U)] + sub(V)[V]
        BY <3>4
      <4>. QED  BY <4>5, <4>6, <4>7
    <3>. QED  BY <3>3, <3>4
  <2>3. ASSUME NEW s \in SUBSET T PROVE h[s] = body(s)
    <3>1. CASE s = {}
      BY <3>1
    <3>2. CASE s # {}
      <4>1. s \ {Pick(s)} \in SUBSET T /\ s \ {Pick(s)} # T
        BY <3>2, PickIn
      <4>. QED  BY <2>2, <3>2, <4>1
    <3>. QED  BY <3>1, <3>2
  <2>4. h = [s \in SUBSET T |-> body(s)]
    <3>1. h = [s \in SUBSET T |-> h[s]]
      OBVIOUS
    <3>. HIDE DEF h, body
    <3>. QED  BY <2>3, <3>1
  <2>5. IsSum(h, f, T)
    BY <2>4 DEF IsSum
  <2>. QED  BY <2>5
<1>2. \A T \in SUBSET S : T \in G
  <2>. HIDE DEF G
  <2>. QED  BY <1>1, SubsetInduction
<1>. QED  BY <1>2

\* Sums satisfies the equation.
LEMMA SumsIsSum ==
    ASSUME NEW S, IsFiniteSet(S), NEW f
    PROVE  IsSum(Sums(f, S), f, S)
  BY SumExists DEF Sums

-----------------------------------------------------------------------------

\* Summands that agree on S have the same sum.
LEMMA SumAgrees ==
    ASSUME NEW S, IsFiniteSet(S), NEW f, NEW g, \A x \in S : f[x] = g[x]
    PROVE  Sum(f, S) = Sum(g, S)
<1>1. IsSum(Sums(f, S), f, S) /\ IsSum(Sums(g, S), g, S)
  BY SumsIsSum
<1>2. Sums(f, S) = Sums(g, S)
  BY <1>1, SumUnique
<1>. QED  BY <1>2 DEF Sum

\* The recursion: the picked element first, then the others.
LEMMA SumStep ==
    ASSUME NEW S, IsFiniteSet(S), NEW f
    PROVE  /\ S = {} => Sum(f, S) = 0
           /\ S # {} => Sum(f, S) = f[Pick(S)] + Sum(f, S \ {Pick(S)})
<1>. DEFINE V == S \ {Pick(S)}
            h == Sums(f, S)
<1>1. IsSum(h, f, S) /\ S \in SUBSET S
  BY SumsIsSum
<1>2. SumAt(h, f, S)
  BY <1>1, SumEquation
<1>3. V \in SUBSET S /\ IsFiniteSet(V)
  BY FS_Subset
<1>4. IsSum(SubSums(h, V), f, V)
  BY <1>1, <1>3, SumRestrict
<1>5. IsSum(Sums(f, V), f, V)
  BY <1>3, SumsIsSum
<1>6. Sums(f, V) = SubSums(h, V)
  BY <1>3, <1>4, <1>5, SumUnique
<1>7. Sum(f, V) = h[V]
  BY <1>6 DEF Sum, SubSums
<1>. QED  BY <1>2, <1>7 DEF SumAt, Sum

\* A sum of natural numbers is one.
LEMMA SumType ==
    ASSUME NEW S, IsFiniteSet(S), NEW f, \A x \in S : f[x] \in Nat
    PROVE  Sum(f, S) \in Nat
<1>. DEFINE G == {T \in SUBSET S : Sum(f, T) \in Nat}
<1>1. ASSUME NEW T \in SUBSET S, \A U \in SUBSET T : U # T => U \in G
      PROVE  T \in G
  <2>1. IsFiniteSet(T)
    BY FS_Subset
  <2>2. CASE T = {}
    BY <2>1, <2>2, SumStep
  <2>3. CASE T # {}
    <3>1. Pick(T) \in T
      BY <2>3, PickIn
    <3>2. T \ {Pick(T)} \in G
      BY <1>1, <3>1
    <3>3. Sum(f, T) = f[Pick(T)] + Sum(f, T \ {Pick(T)})
      BY <2>1, <2>3, SumStep
    <3>. QED  BY <3>1, <3>2, <3>3
  <2>. QED  BY <2>2, <2>3
<1>2. \A T \in SUBSET S : T \in G
  <2>. HIDE DEF G
  <2>. QED  BY <1>1, SubsetInduction
<1>. QED  BY <1>2

\* A sum of zeros is zero.
LEMMA SumZero ==
    ASSUME NEW S, IsFiniteSet(S), NEW f, \A x \in S : f[x] = 0
    PROVE  Sum(f, S) = 0
<1>. DEFINE G == {T \in SUBSET S : Sum(f, T) = 0}
<1>1. ASSUME NEW T \in SUBSET S, \A U \in SUBSET T : U # T => U \in G
      PROVE  T \in G
  <2>1. IsFiniteSet(T)
    BY FS_Subset
  <2>2. CASE T = {}
    BY <2>1, <2>2, SumStep
  <2>3. CASE T # {}
    <3>1. Pick(T) \in T
      BY <2>3, PickIn
    <3>2. T \ {Pick(T)} \in G
      BY <1>1, <3>1
    <3>3. Sum(f, T) = f[Pick(T)] + Sum(f, T \ {Pick(T)})
      BY <2>1, <2>3, SumStep
    <3>. QED  BY <3>1, <3>2, <3>3
  <2>. QED  BY <2>2, <2>3
<1>2. \A T \in SUBSET S : T \in G
  <2>. HIDE DEF G
  <2>. QED  BY <1>1, SubsetInduction
<1>. QED  BY <1>2

\* Any element may be added first: a sum does not depend on the order.
LEMMA SumRemove ==
    ASSUME NEW S, IsFiniteSet(S), NEW f, \A x \in S : f[x] \in Nat, NEW x \in S
    PROVE  Sum(f, S) = f[x] + Sum(f, S \ {x})
<1>. DEFINE G == {T \in SUBSET S : \A y \in T : Sum(f, T) = f[y] + Sum(f, T \ {y})}
<1>1. ASSUME NEW T \in SUBSET S, \A U \in SUBSET T : U # T => U \in G
      PROVE  T \in G
  <2>. SUFFICES ASSUME NEW y \in T PROVE Sum(f, T) = f[y] + Sum(f, T \ {y})
    OBVIOUS
  <2>. DEFINE z == Pick(T)
  <2>1. IsFiniteSet(T) /\ IsFiniteSet(T \ {y}) /\ IsFiniteSet(T \ {z})
    BY FS_Subset
  <2>2. z \in T /\ Sum(f, T) = f[z] + Sum(f, T \ {z})
    BY <2>1, PickIn, SumStep
  <2>3. CASE y = z
    BY <2>2, <2>3
  <2>4. CASE y # z
    <3>1. T \ {z} \in G /\ T \ {y} \in G
      BY <1>1, <2>2
    <3>2. Sum(f, T \ {z}) = f[y] + Sum(f, (T \ {z}) \ {y})
      BY <2>4, <3>1
    <3>3. Sum(f, T \ {y}) = f[z] + Sum(f, (T \ {y}) \ {z})
      BY <2>2, <2>4, <3>1
    <3>4. (T \ {z}) \ {y} = (T \ {y}) \ {z}
      OBVIOUS
    <3>5. Sum(f, (T \ {z}) \ {y}) \in Nat
      <4>1. IsFiniteSet((T \ {z}) \ {y})
        BY FS_Subset
      <4>2. \A w \in (T \ {z}) \ {y} : f[w] \in Nat
        OBVIOUS
      <4>. QED  BY <4>1, <4>2, SumType
    <3>6. f[y] \in Nat /\ f[z] \in Nat
      BY <2>2
    <3>. QED  BY <2>2, <3>2, <3>3, <3>4, <3>5, <3>6
  <2>. QED  BY <2>3, <2>4
<1>2. \A T \in SUBSET S : T \in G
  <2>. HIDE DEF G
  <2>. QED  BY <1>1, SubsetInduction
<1>. QED  BY <1>2

\* One summand changes: the sum changes by the difference.
LEMMA SumChange ==
    ASSUME NEW S, IsFiniteSet(S), NEW f, NEW g, NEW x \in S,
           \A y \in S : f[y] \in Nat /\ g[y] \in Nat,
           \A y \in S : y # x => f[y] = g[y]
    PROVE  /\ Sum(g, S) = Sum(f, S) - f[x] + g[x]
           /\ Sum(f, S) >= f[x]
<1>1. IsFiniteSet(S \ {x})
  BY FS_Subset
<1>2. Sum(f, S) = f[x] + Sum(f, S \ {x}) /\ Sum(g, S) = g[x] + Sum(g, S \ {x})
  BY SumRemove
<1>3. Sum(f, S \ {x}) = Sum(g, S \ {x})
  BY <1>1, SumAgrees
<1>4. Sum(f, S \ {x}) \in Nat
  BY <1>1, SumType
<1>. QED  BY <1>2, <1>3, <1>4

-----------------------------------------------------------------------------

\* MapThenSumSet, for summands of the form f[o][p].
SumOf(f, p, S) == MapThenSumSet(LAMBDA o : f[o][p], S)

\* Such a sum is a Sum.
LEMMA SumOfIsSum ==
    ASSUME NEW S, IsFiniteSet(S), NEW f, NEW p
    PROVE  SumOf(f, p, S) = Sum([o \in S |-> f[o][p]], S)
<1>. DEFINE g == [o \in S |-> f[o][p]]
            h == Sums(g, S)
            body(i, s) == IF s = {} THEN 0
                          ELSE f[CHOOSE x \in s : TRUE][p] + i[s \ {CHOOSE x \in s : TRUE}]
            iter == CHOOSE i : i = [s \in SUBSET S |-> body(i, s)]
<1>1. IsSum(h, g, S)
  BY SumsIsSum
<1>2. ASSUME NEW i PROVE (i = [s \in SUBSET S |-> body(i, s)]) <=> IsSum(i, g, S)
  <2>. DEFINE sum(s) == IF s = {} THEN 0 ELSE g[Pick(s)] + i[s \ {Pick(s)}]
  <2>1. ASSUME NEW s \in SUBSET S PROVE body(i, s) = sum(s)
    <3>1. CASE s = {}
      BY <3>1
    <3>2. CASE s # {}
      <4>1. g[Pick(s)] = f[Pick(s)][p]
        BY <3>2, PickIn
      <4>. QED  BY <3>2, <4>1 DEF Pick
    <3>. QED  BY <3>1, <3>2
  <2>2. [s \in SUBSET S |-> body(i, s)] = [s \in SUBSET S |-> sum(s)]
    <3>. HIDE DEF body, sum
    <3>. QED  BY <2>1
  <2>. QED  BY <2>2 DEF IsSum
<1>3. IsSum(iter, g, S)
  <2>1. \E i : i = [s \in SUBSET S |-> body(i, s)]
    <3>1. h = [s \in SUBSET S |-> body(h, s)]
      BY <1>1, <1>2
    <3>. HIDE DEF body, h
    <3>. QED  BY <3>1
  <2>2. iter = [s \in SUBSET S |-> body(iter, s)]
    <3>. HIDE DEF body
    <3>. QED  BY <2>1
  <2>. QED  BY <1>2, <2>2
<1>4. iter = h
  BY <1>1, <1>3, SumUnique
<1>5. SumOf(f, p, S) = iter[S]
  BY DEF SumOf, MapThenSumSet, MapThenFoldSet
<1>. QED  BY <1>4, <1>5 DEF Sum

\* The steps of one order's two events, but for the failures that stop the process.
CreatedStep(o) ==
    \/ OrderCreated(o)
    \/ FetchCreated(o)
    \/ ReserveStock(o)
    \/ ReserveFails(o)
    \/ RollbackLine(o)
    \/ ReserveAllReturns(o)
    \/ PublishOutcome(o)
    \/ MarkCreatedProcessed(o)
    \/ CommitCreated(o)
    \/ RedeliverCreated(o)

CancelStep(o) ==
    \/ OrderCancelled(o)
    \/ FetchCancelled(o)
    \/ ListReservations(o)
    \/ ReleaseListed(o)
    \/ MarkCancelledProcessed(o)
    \/ CommitCancelled(o)
    \/ RedeliverCancelled(o)

\* A process stops, for any reason, with some of the handlers that are in hand.
StopStep ==
    /\ \E C \in SUBSET CreatedInHand, X \in SUBSET CancelledInHand : ProcessStops(C, X)
    /\ faults' = faults \/ Fault

ExpireStep == \E e \in processed : ExpireMark(e)

\* The failures are stops.
LEMMA FailuresStop ==
    ASSUME NEW o \in Orders, RollbackFails(o) \/ ReleaseListedFails(o)
    PROVE  StopStep
<1>1. CASE RollbackFails(o)
  <2>1. PICK X \in AtMostOne(CancelledInHand) : ProcessStops({o}, X)
    BY <1>1 DEF RollbackFails
  <2>2. {o} \in SUBSET CreatedInHand
    BY <1>1 DEF RollbackFails, CannotRollback, CreatedInHand
  <2>3. X \in SUBSET CancelledInHand
    BY DEF AtMostOne
  <2>. QED  BY <1>1, <2>1, <2>2, <2>3 DEF StopStep, RollbackFails
<1>2. CASE ReleaseListedFails(o)
  <2>1. PICK C \in AtMostOne(CreatedInHand) : ProcessStops(C, {o})
    BY <1>2 DEF ReleaseListedFails
  <2>2. {o} \in SUBSET CancelledInHand
    BY <1>2 DEF ReleaseListedFails, CannotRelease, CancelledInHand
  <2>3. C \in SUBSET CreatedInHand
    BY DEF AtMostOne
  <2>. QED  BY <1>2, <2>1, <2>2, <2>3 DEF StopStep, ReleaseListedFails
<1>. QED  BY <1>1, <1>2

\* Every step is a step of one order's handlers, a stop or an expiry.
LEMMA StepKinds ==
    ASSUME Next
    PROVE  (\E o \in Orders : CreatedStep(o) \/ CancelStep(o)) \/ StopStep \/ ExpireStep
<1>1. CASE ServiceStops
  <2>1. PICK C \in AtMostOne(CreatedInHand), X \in AtMostOne(CancelledInHand) :
            ProcessStops(C, X)
    BY <1>1 DEF ServiceStops
  <2>2. C \in SUBSET CreatedInHand /\ X \in SUBSET CancelledInHand
    BY DEF AtMostOne
  <2>. QED  BY <1>1, <2>1, <2>2 DEF StopStep, ServiceStops
<1>2. CASE ExpireStep
  BY <1>2
<1>3. ASSUME NEW o \in Orders,
             \/ OrderCreated(o) \/ HandleCreated(o) \/ RedeliverCreated(o)
             \/ OrderCancelled(o) \/ HandleCancelled(o) \/ RedeliverCancelled(o)
      PROVE  CreatedStep(o) \/ CancelStep(o) \/ RollbackFails(o) \/ ReleaseListedFails(o)
  BY <1>3, Zenon DEF HandleCreated, HandleCancelled, CreatedStep, CancelStep
<1>4. ASSUME NEW o \in Orders,
             \/ OrderCreated(o) \/ HandleCreated(o) \/ RedeliverCreated(o)
             \/ OrderCancelled(o) \/ HandleCancelled(o) \/ RedeliverCancelled(o)
      PROVE  CreatedStep(o) \/ CancelStep(o) \/ StopStep
  BY <1>3, <1>4, FailuresStop, Zenon
<1>. QED  BY <1>1, <1>2, <1>4, Zenon DEF Next, ExpireStep

-----------------------------------------------------------------------------
(* Layer 1: types, and the balance of a stock row *)

Created(o) == <<"created", o>> \in processed

Cancelled(o) == <<"cancelled", o>> \in processed

\* The line a handler reserves, or rolls back next, is a line of the order.
ItemInRange ==
    \A o \in Orders :
        /\ cpc[o] = "reserve" => item[o] >= 1
        /\ cpc[o] = "rollback" => item[o] < Len(Items[o])

StockInv == TypeOK /\ ItemInRange /\ StockConserved

\* A line of an order names a product and a quantity.
LEMMA LineType ==
    ASSUME TypeOK, NEW o \in Orders, item[o] >= 1, item[o] <= Len(Items[o])
    PROVE  Line(o).product \in Products /\ Line(o).quantity \in Nat
<1>. DEFINE L == [product: Products, quantity: Nat \ {0}]
<1>1. Items[o] \in Seq(L)
  BY InventoryConstants
<1>2. item[o] \in 1 .. Len(Items[o])
  BY <1>1 DEF TypeOK
<1>3. Items[o][item[o]] \in L
  <2>. HIDE DEF L
  <2>. QED  BY <1>1, <1>2
<1>. QED  BY <1>3 DEF Line

\* The three stock columns keep their types and their balance.
StockTyped ==
    /\ available \in [Products -> Nat]
    /\ reserved \in [Products -> Nat]
    /\ reservation \in [Orders -> [Products -> Nat]]
    /\ StockConserved

\* ReserveStock and ReleaseStock, on success.
LEMMA MoveStock ==
    ASSUME StockInv, NEW o \in Orders, NEW p \in Products, NEW q \in Nat,
           \/ q <= available[p] /\ Reserve(o, p, q)
           \/ Releasable(o, p, q) /\ Release(o, p, q)
    PROVE  StockTyped'
<1>. USE DEF StockInv, TypeOK
<1>1. CASE q <= available[p] /\ Reserve(o, p, q)
  <2>1. available' \in [Products -> Nat] /\ reserved' \in [Products -> Nat]
    BY <1>1 DEF Reserve
  <2>2. reservation' \in [Orders -> [Products -> Nat]]
    BY <1>1 DEF Reserve
  <2>3. StockConserved'
    BY <1>1 DEF Reserve, StockConserved
  <2>. QED  BY <2>1, <2>2, <2>3 DEF StockTyped
<1>2. CASE Releasable(o, p, q) /\ Release(o, p, q)
  <2>1. available' \in [Products -> Nat] /\ reserved' \in [Products -> Nat]
    BY <1>2 DEF Release, Releasable
  <2>2. reservation' \in [Orders -> [Products -> Nat]]
    BY <1>2 DEF Release, Releasable
  <2>3. StockConserved'
    BY <1>2 DEF Release, Releasable, StockConserved
  <2>. QED  BY <2>1, <2>2, <2>3 DEF StockTyped
<1>. QED  BY <1>1, <1>2

\* A step of the order.created handler that leaves the stock typed.
LEMMA CreatedTyped ==
    ASSUME StockInv, NEW o \in Orders, StockTyped',
           cpc' = [cpc EXCEPT ![o] = cpc'[o]],
           cpc'[o] \in {"absent", "fetch", "reserve", "rollback", "publishReserved",
                        "publishFailed", "mark", "commit", "done"},
           item' = [item EXCEPT ![o] = item'[o]],
           item'[o] \in Nat, item'[o] <= Len(Items[o]) + 1,
           cpc'[o] = "reserve" => item'[o] >= 1,
           cpc'[o] = "rollback" => item'[o] < Len(Items[o]),
           outcome' \in [Orders -> SUBSET {"reserved", "reservation_failed"}],
           UNCHANGED <<xpc, listed>>, overtaken' \subseteq Orders,
           processed' \subseteq {"created", "cancelled"} \X Orders,
           faults' \in 0 .. MaxFaults
    PROVE  StockInv'
<1>. USE DEF StockInv
<1>1. TypeOK'
  BY DEF TypeOK, StockTyped
<1>2. ItemInRange'
  BY DEF TypeOK, ItemInRange
<1>. QED  BY <1>1, <1>2 DEF StockTyped

\* A step of the order.cancelled handler that leaves the stock typed.
LEMMA CancelTyped ==
    ASSUME StockInv, NEW o \in Orders, StockTyped',
           NEW pc \in {"absent", "fetch", "list", "apply", "mark", "commit", "done"},
           xpc' = [xpc EXCEPT ![o] = pc], UNCHANGED createdVars,
           listed' \in [Orders -> [Products -> Nat]],
           overtaken' \subseteq Orders,
           processed' \subseteq {"created", "cancelled"} \X Orders,
           faults' \in 0 .. MaxFaults
    PROVE  StockInv'
<1>. USE DEF StockInv
<1>1. TypeOK'
  BY DEF TypeOK, createdVars, StockTyped
<1>2. ItemInRange'
  BY DEF ItemInRange, createdVars
<1>. QED  BY <1>1, <1>2 DEF StockTyped

\* The next fault is counted within the bound.
LEMMA FaultType == ASSUME TypeOK, Fault PROVE faults' \in 0 .. MaxFaults
  BY InventoryConstants DEF TypeOK, Fault

\* The order.created handler, its arrival and redelivery.
LEMMA StockCreated ==
    ASSUME StockInv, NEW o \in Orders, CreatedStep(o)
    PROVE  StockInv'
<1>0. /\ item[o] \in Nat /\ Len(Items[o]) \in Nat /\ item[o] <= Len(Items[o]) + 1
      /\ item \in [Orders -> Nat] /\ cpc = [x \in Orders |-> cpc[x]]
      /\ cpc[o] = "reserve" => item[o] >= 1
      /\ cpc[o] = "rollback" => item[o] < Len(Items[o])
      /\ outcome \in [Orders -> SUBSET {"reserved", "reservation_failed"}]
      /\ overtaken \subseteq Orders
      /\ processed \subseteq {"created", "cancelled"} \X Orders
      /\ faults \in 0 .. MaxFaults
  <2>1. Items[o] \in Seq([product: Products, quantity: Nat \ {0}])
    BY InventoryConstants
  <2>. QED  BY <2>1 DEF StockInv, TypeOK, ItemInRange
<1>1. UNCHANGED stockVars => StockTyped'
  BY DEF StockInv, TypeOK, StockTyped, StockConserved, stockVars
<1>. USE DEF cancelVars
<1>2. CASE OrderCreated(o)
  BY <1>0, <1>1, <1>2, CreatedTyped DEF OrderCreated
<1>3. CASE FetchCreated(o)
  <2>1. overtaken' \subseteq Orders
    BY <1>0, <1>3 DEF FetchCreated, OvertakenIf
  <2>. QED  BY <1>0, <1>1, <1>3, <2>1, CreatedTyped DEF FetchCreated
<1>4. CASE ReserveStock(o)
  <2>1. Line(o).product \in Products /\ Line(o).quantity \in Nat
    BY <1>0, <1>4, LineType DEF ReserveStock, StockInv
  <2>2. StockTyped'
    BY <1>4, <2>1, MoveStock DEF ReserveStock
  <2>3. /\ item' = [item EXCEPT ![o] = item[o] + 1] /\ item'[o] = item[o] + 1
        /\ cpc' = [cpc EXCEPT ![o] = "reserve"] /\ cpc'[o] = "reserve"
        /\ item[o] + 1 \in Nat /\ item[o] + 1 >= 1 /\ item[o] + 1 <= Len(Items[o]) + 1
    BY <1>0, <1>4 DEF ReserveStock
  <2>4. UNCHANGED <<outcome, cancelVars, processed, faults>>
    BY <1>4 DEF ReserveStock
  <2>. QED  BY <1>0, <2>2, <2>3, <2>4, CreatedTyped
<1>5. CASE ReserveFails(o)
  <2>1. Line(o).product \in Products /\ Line(o).quantity \in Nat
    BY <1>0, <1>5, LineType DEF ReserveFails, StockInv
  <2>2. StockTyped'
    BY <1>1, <1>5, <2>1, MoveStock DEF ReserveFails
  <2>3. faults' \in 0 .. MaxFaults
    BY <1>0, <1>5, FaultType DEF ReserveFails, StockInv
  <2>4. /\ item' = [item EXCEPT ![o] = item[o] - 1] /\ item'[o] = item[o] - 1
        /\ cpc' = [cpc EXCEPT ![o] = "rollback"] /\ cpc'[o] = "rollback"
        /\ item[o] - 1 \in Nat /\ item[o] - 1 < Len(Items[o])
        /\ item[o] - 1 <= Len(Items[o]) + 1
    BY <1>0, <1>5 DEF ReserveFails
  <2>5. UNCHANGED <<outcome, cancelVars, processed>>
    BY <1>5 DEF ReserveFails
  <2>. QED  BY <1>0, <2>2, <2>3, <2>4, <2>5, CreatedTyped
<1>6. CASE RollbackLine(o)
  <2>1. Line(o).product \in Products /\ Line(o).quantity \in Nat
    BY <1>0, <1>6, LineType DEF RollbackLine, StockInv
  <2>2. StockTyped'
    BY <1>6, <2>1, MoveStock DEF RollbackLine
  <2>3. /\ item' = [item EXCEPT ![o] = item[o] - 1] /\ item'[o] = item[o] - 1
        /\ cpc' = [cpc EXCEPT ![o] = "rollback"] /\ cpc'[o] = "rollback"
        /\ item[o] - 1 \in Nat /\ item[o] - 1 < Len(Items[o])
        /\ item[o] - 1 <= Len(Items[o]) + 1
    BY <1>0, <1>6 DEF RollbackLine
  <2>4. UNCHANGED <<outcome, cancelVars, processed, faults>>
    BY <1>6 DEF RollbackLine
  <2>. QED  BY <1>0, <2>2, <2>3, <2>4, CreatedTyped
<1>7. CASE ReserveAllReturns(o)
  <2>1. /\ item' = [item EXCEPT ![o] = 0] /\ item'[o] = 0
        /\ cpc' = [cpc EXCEPT ![o] = cpc'[o]]
        /\ cpc'[o] \in {"publishReserved", "publishFailed"}
    BY <1>0, <1>7 DEF ReserveAllReturns
  <2>2. 0 <= Len(Items[o]) + 1
    BY <1>0
  <2>3. StockTyped' /\ UNCHANGED <<outcome, cancelVars, processed, faults>>
    BY <1>1, <1>7 DEF ReserveAllReturns
  <2>. QED  BY <1>0, <2>1, <2>2, <2>3, CreatedTyped
<1>8. CASE PublishOutcome(o)
  <2>1. outcome' \in [Orders -> SUBSET {"reserved", "reservation_failed"}]
    BY <1>0, <1>8 DEF PublishOutcome
  <2>2. item' = item /\ cpc' = [cpc EXCEPT ![o] = "mark"] /\ UNCHANGED stockVars
        /\ UNCHANGED cancelVars /\ processed' = processed /\ faults' = faults
    BY <1>8 DEF PublishOutcome
  <2>. QED  BY <1>0, <1>1, <2>1, <2>2, CreatedTyped
<1>9. CASE MarkCreatedProcessed(o)
  <2>1. processed' \subseteq {"created", "cancelled"} \X Orders
    BY <1>0, <1>9 DEF MarkCreatedProcessed
  <2>. QED  BY <1>0, <1>1, <1>9, <2>1, CreatedTyped DEF MarkCreatedProcessed
<1>10. CASE CommitCreated(o)
  BY <1>0, <1>1, <1>10, CreatedTyped DEF CommitCreated
<1>11. CASE RedeliverCreated(o)
  BY <1>0, <1>1, <1>11, CreatedTyped DEF RedeliverCreated
<1>. QED  BY <1>2, <1>3, <1>4, <1>5, <1>6, <1>7, <1>8, <1>9, <1>10, <1>11
          DEF CreatedStep

\* The order.cancelled handler, its arrival and redelivery.
LEMMA StockCancelled ==
    ASSUME StockInv, NEW o \in Orders, CancelStep(o)
    PROVE  StockInv'
<1>0. /\ listed \in [Orders -> [Products -> Nat]]
      /\ reservation \in [Orders -> [Products -> Nat]]
      /\ Nothing \in [Products -> Nat]
      /\ overtaken \subseteq Orders
      /\ processed \subseteq {"created", "cancelled"} \X Orders
      /\ faults \in 0 .. MaxFaults
  BY DEF StockInv, TypeOK, Nothing
<1>1. UNCHANGED stockVars => StockTyped'
  BY DEF StockInv, TypeOK, StockTyped, StockConserved, stockVars
<1>2. CASE OrderCancelled(o)
  BY <1>0, <1>1, <1>2, CancelTyped DEF OrderCancelled
<1>3. CASE FetchCancelled(o)
  BY <1>0, <1>1, <1>3, CancelTyped DEF FetchCancelled
<1>4. CASE ListReservations(o)
  <2>1. listed' \in [Orders -> [Products -> Nat]]
    BY <1>0, <1>4 DEF ListReservations
  <2>. QED  BY <1>0, <1>1, <1>4, <2>1, CancelTyped DEF ListReservations
<1>5. CASE ReleaseListed(o)
  <2>1. available' \in [Products -> Nat] /\ reserved' \in [Products -> Nat]
    BY <1>0, <1>5 DEF ReleaseListed, StockInv, TypeOK
  <2>2. reservation' \in [Orders -> [Products -> Nat]]
    BY <1>0, <1>5 DEF ReleaseListed
  <2>3. StockConserved'
    BY <1>0, <1>5 DEF ReleaseListed, StockInv, TypeOK, StockConserved
  <2>4. StockTyped'
    BY <2>1, <2>2, <2>3 DEF StockTyped
  <2>5. listed' \in [Orders -> [Products -> Nat]]
    BY <1>0, <1>5 DEF ReleaseListed
  <2>. QED  BY <1>0, <1>5, <2>4, <2>5, CancelTyped DEF ReleaseListed
<1>6. CASE MarkCancelledProcessed(o)
  <2>1. processed' \subseteq {"created", "cancelled"} \X Orders
    BY <1>0, <1>6 DEF MarkCancelledProcessed
  <2>. QED  BY <1>0, <1>1, <1>6, <2>1, CancelTyped DEF MarkCancelledProcessed
<1>7. CASE CommitCancelled(o)
  BY <1>0, <1>1, <1>7, CancelTyped DEF CommitCancelled
<1>8. CASE RedeliverCancelled(o)
  BY <1>0, <1>1, <1>8, CancelTyped DEF RedeliverCancelled
<1>. QED  BY <1>2, <1>3, <1>4, <1>5, <1>6, <1>7, <1>8
          DEF CancelStep

\* A process stops, or a mark expires.
LEMMA StockService ==
    ASSUME StockInv, StopStep \/ ExpireStep
    PROVE  StockInv'
<1>0. /\ Nothing \in [Products -> Nat]
      /\ \A o \in Orders : Len(Items[o]) \in Nat
  <2>1. \A o \in Orders : Items[o] \in Seq([product: Products, quantity: Nat \ {0}])
    BY InventoryConstants
  <2>. QED  BY <2>1 DEF Nothing
<1>1. CASE StopStep
  <2>1. PICK C \in SUBSET CreatedInHand, X \in SUBSET CancelledInHand : ProcessStops(C, X)
    BY <1>1 DEF StopStep
  <2>2. faults' \in 0 .. MaxFaults
    BY <1>1, FaultType DEF StopStep, StockInv, TypeOK
  <2>3. TypeOK'
    BY <1>0, <2>1, <2>2 DEF StockInv, TypeOK, ProcessStops, stockVars
  <2>4. ItemInRange' /\ StockConserved'
    BY <2>1 DEF StockInv, TypeOK, ItemInRange, StockConserved, ProcessStops, stockVars
  <2>. QED  BY <2>3, <2>4 DEF StockInv
<1>2. CASE ExpireStep
  <2>1. faults' \in 0 .. MaxFaults
    BY <1>2, FaultType DEF ExpireStep, ExpireMark, StockInv
  <2>. QED  BY <1>2, <2>1 DEF ExpireStep, ExpireMark, StockInv, TypeOK, ItemInRange,
               StockConserved, stockVars, createdVars, cancelVars
<1>. QED  BY <1>1, <1>2

\* StockInv is inductive.
LEMMA StockInductive ==
    /\ Init => StockInv
    /\ StockInv /\ [Next]_vars => StockInv'
<1>1. ASSUME Init PROVE StockInv
  <2>0. \A o \in Orders : Len(Items[o]) \in Nat
    <3>1. \A o \in Orders : Items[o] \in Seq([product: Products, quantity: Nat \ {0}])
      BY InventoryConstants
    <3>. QED  BY <3>1
  <2>1. TypeOK
    BY <1>1, <2>0, InventoryConstants DEF Init, TypeOK, Nothing
  <2>2. ItemInRange
    BY <1>1 DEF Init, ItemInRange
  <2>3. StockConserved
    BY <1>1, InventoryConstants DEF Init, StockConserved, Nothing
  <2>. QED  BY <2>1, <2>2, <2>3 DEF StockInv
<1>2. ASSUME StockInv, UNCHANGED vars PROVE StockInv'
  BY <1>2 DEF vars, stockVars, createdVars, cancelVars, StockInv, TypeOK, ItemInRange,
              StockConserved
<1>3. ASSUME StockInv, Next PROVE StockInv'
  BY <1>3, StepKinds, StockCreated, StockCancelled, StockService, Zenon
<1>. QED  BY <1>1, <1>2, <1>3

\* Every reachable state is well typed.
THEOREM InventoryTypeCorrect == Spec => []TypeOK
<1>1. StockInv => TypeOK
  BY DEF StockInv
<1>. QED  BY <1>1, StockInductive, PTL DEF Spec

\* The two columns of a stock row always add up to its total, and neither is ever
\* negative, even where a stale list is released.
THEOREM StockBalanced == Spec => []StockConserved
<1>1. StockInv => StockConserved
  BY DEF StockInv
<1>. QED  BY <1>1, StockInductive, PTL DEF Spec

-----------------------------------------------------------------------------
(* Layer 2: the order of one order's events *)

\* An order.created that is marked is not being handled.
CreatedIsMarked ==
    \A o \in Orders : Created(o) => cpc[o] \in {"fetch", "commit", "done"}

\* A cancellation is handled after it arrived; if it was not overtaken, order.created
\* has not been handled since, and so its handler has the reservations of the order for
\* itself: what it listed is still there, and what it released stays so.
ReleaseExact ==
    \A o \in Orders :
        /\ Cancelled(o) => xpc[o] # "absent"
        /\ o \notin overtaken =>
              /\ xpc[o] # "absent" => cpc[o] \in {"fetch", "commit", "done"}
              /\ xpc[o] = "apply" => listed[o] = reservation[o]
              /\ xpc[o] = "mark" => reservation[o] = Nothing
              /\ Cancelled(o) => reservation[o] = Nothing

OrderInv == CreatedIsMarked /\ ReleaseExact

\* A step of one order leaves the rest of an order alone.
Untouched(o) ==
    /\ cpc'[o] = cpc[o] /\ item'[o] = item[o] /\ outcome'[o] = outcome[o]
    /\ xpc'[o] = xpc[o] /\ listed'[o] = listed[o] /\ reservation'[o] = reservation[o]
    /\ o \in overtaken' <=> o \in overtaken
    /\ Created(o)' <=> Created(o)
    /\ Cancelled(o)' <=> Cancelled(o)

\* What the order.created handler of o can do, seen from its order.cancelled handler.
LEMMA CreatedEffect ==
    ASSUME StockInv, NEW o \in Orders, CreatedStep(o)
    PROVE  /\ UNCHANGED <<xpc, listed>>
           /\ \/ overtaken' = overtaken
              \/ cpc[o] = "fetch" /\ UNCHANGED stockVars /\ overtaken' = OvertakenIf(o)
           /\ \A x \in Orders \ {o} : Untouched(x)
           /\ reservation'[o] = reservation[o] \/ cpc[o] \in {"reserve", "rollback"}
           /\ \/ processed' = processed
              \/ /\ cpc[o] = "mark" /\ cpc'[o] = "commit"
                 /\ processed' = processed \cup {<<"created", o>>}
           /\ cpc[o] \in {"fetch", "commit", "done"} =>
                 \/ cpc'[o] \in {"fetch", "commit", "done"}
                 \/ ~Created(o) /\ overtaken' = OvertakenIf(o)
<1>. USE DEF StockInv, TypeOK, Untouched, Created, Cancelled
<1>1. CASE OrderCreated(o)
  BY <1>1 DEF OrderCreated, cancelVars, stockVars
<1>2. CASE FetchCreated(o)
  BY <1>2 DEF FetchCreated, OvertakenIf, stockVars
<1>3. CASE ReserveStock(o)
  BY <1>3 DEF ReserveStock, Reserve, cancelVars
<1>4. CASE ReserveFails(o)
  BY <1>4 DEF ReserveFails, Reserve, cancelVars, stockVars
<1>5. CASE RollbackLine(o)
  BY <1>5 DEF RollbackLine, Release, cancelVars
<1>6. CASE ReserveAllReturns(o)
  BY <1>6 DEF ReserveAllReturns, cancelVars, stockVars
<1>7. CASE PublishOutcome(o)
  BY <1>7 DEF PublishOutcome, cancelVars, stockVars
<1>8. CASE MarkCreatedProcessed(o)
  BY <1>8 DEF MarkCreatedProcessed, cancelVars, stockVars
<1>9. CASE CommitCreated(o)
  BY <1>9 DEF CommitCreated, cancelVars, stockVars
<1>10. CASE RedeliverCreated(o)
  BY <1>10 DEF RedeliverCreated, cancelVars, stockVars
<1>. QED  BY <1>1, <1>2, <1>3, <1>4, <1>5, <1>6, <1>7, <1>8, <1>9, <1>10,
             Zenon DEF CreatedStep

\* What the order.cancelled handler of o can do, seen from its order.created handler
\* and from other orders.
LEMMA CancelEffect ==
    ASSUME StockInv, NEW o \in Orders, CancelStep(o)
    PROVE  /\ UNCHANGED createdVars
           /\ \A x \in Orders \ {o} : Untouched(x)
           /\ Created(o)' <=> Created(o)
<1>. USE DEF StockInv, TypeOK, Untouched, Created, Cancelled
<1>1. CASE OrderCancelled(o)
  BY <1>1 DEF OrderCancelled, createdVars, stockVars
<1>2. CASE FetchCancelled(o)
  BY <1>2 DEF FetchCancelled, createdVars, stockVars
<1>3. CASE ListReservations(o)
  BY <1>3 DEF ListReservations, createdVars, stockVars
<1>4. CASE ReleaseListed(o)
  BY <1>4 DEF ReleaseListed, createdVars
<1>5. CASE MarkCancelledProcessed(o)
  BY <1>5 DEF MarkCancelledProcessed, createdVars, stockVars
<1>6. CASE CommitCancelled(o)
  BY <1>6 DEF CommitCancelled, createdVars, stockVars
<1>7. CASE RedeliverCancelled(o)
  BY <1>7 DEF RedeliverCancelled, createdVars, stockVars
<1>. QED  BY <1>1, <1>2, <1>3, <1>4, <1>5, <1>6, <1>7, Zenon
          DEF CancelStep

\* What a stop or an expiry can do: handlers go back to their fetch and marks go, and
\* nothing else changes.
LEMMA ServiceEffect ==
    ASSUME StockInv, StopStep \/ ExpireStep
    PROVE  /\ UNCHANGED <<stockVars, outcome, overtaken>>
           /\ processed' \subseteq processed
           /\ \A o \in Orders :
                 /\ cpc'[o] = cpc[o] \/ cpc'[o] = "fetch"
                 /\ (xpc'[o] = xpc[o] /\ listed'[o] = listed[o]) \/ xpc'[o] = "fetch"
                 /\ xpc'[o] = "absent" <=> xpc[o] = "absent"
                 /\ cpc'[o] \in {"reserve", "rollback"} => item'[o] = item[o]
<1>1. CASE StopStep
  <2>1. PICK C \in SUBSET CreatedInHand, X \in SUBSET CancelledInHand : ProcessStops(C, X)
    BY <1>1 DEF StopStep
  <2>. QED  BY <2>1 DEF ProcessStops, CreatedInHand, CancelledInHand, stockVars
<1>2. CASE ExpireStep
  BY <1>2 DEF ExpireStep, ExpireMark, createdVars, cancelVars
<1>. QED  BY <1>1, <1>2

\* While the two handlers of an order keep out of each other's way, the steps of the
\* first leave the promises of the second alone.
LEMMA OrderCreatedStep ==
    ASSUME StockInv, OrderInv, NEW o \in Orders, CreatedStep(o)
    PROVE  OrderInv'
<1>0. /\ xpc' = xpc /\ listed' = listed /\ overtaken \subseteq overtaken'
      /\ processed' = processed \/ processed' = processed \cup {<<"created", o>>}
  BY CreatedEffect DEF OvertakenIf
<1>1. CreatedIsMarked'
  <2>1. ASSUME NEW x \in Orders \ {o}, Created(x)'
        PROVE  cpc'[x] \in {"fetch", "commit", "done"}
    BY <2>1, CreatedEffect DEF OrderInv, CreatedIsMarked, Untouched
  <2>2. Created(o)' => cpc'[o] \in {"fetch", "commit", "done"}
    <3>1. CASE processed' = processed
      BY <3>1, CreatedEffect DEF OrderInv, CreatedIsMarked, Created
    <3>2. CASE cpc'[o] = "commit"
      BY <3>2
    <3>. QED  BY <3>1, <3>2, CreatedEffect
  <2>. QED  BY <2>1, <2>2 DEF CreatedIsMarked
<1>2. ReleaseExact'
  <2>1. ASSUME NEW x \in Orders, reservation'[x] # reservation[x]
        PROVE  cpc[x] \in {"reserve", "rollback"}
    BY <2>1, CreatedEffect DEF Untouched
  <2>2. ASSUME NEW x \in Orders, x \notin overtaken', xpc[x] # "absent"
        PROVE  cpc'[x] \in {"fetch", "commit", "done"}
    <3>1. x \notin overtaken /\ cpc[x] \in {"fetch", "commit", "done"}
      BY <1>0, <2>2 DEF OrderInv, ReleaseExact
    <3>. QED  BY <2>2, <3>1, CreatedEffect DEF Untouched, OvertakenIf
  <2>3. \A x \in Orders : Cancelled(x)' <=> Cancelled(x)
    BY <1>0 DEF Cancelled
  <2>. QED  BY <1>0, <2>1, <2>2, <2>3 DEF OrderInv, ReleaseExact
<1>. QED  BY <1>1, <1>2 DEF OrderInv

\* The steps of the order.cancelled handler.
LEMMA OrderCancelStep ==
    ASSUME StockInv, OrderInv, NEW o \in Orders, CancelStep(o)
    PROVE  OrderInv'
<1>1. CreatedIsMarked'
  <2>1. \A x \in Orders : cpc'[x] = cpc[x] /\ (Created(x)' <=> Created(x))
    BY CancelEffect DEF createdVars, Untouched
  <2>. QED  BY <2>1 DEF OrderInv, CreatedIsMarked
<1>. DEFINE Exact(x) ==
        /\ Cancelled(x) => xpc[x] # "absent"
        /\ x \notin overtaken =>
              /\ xpc[x] # "absent" => cpc[x] \in {"fetch", "commit", "done"}
              /\ xpc[x] = "apply" => listed[x] = reservation[x]
              /\ xpc[x] = "mark" => reservation[x] = Nothing
              /\ Cancelled(x) => reservation[x] = Nothing
<1>2. ASSUME NEW x \in Orders \ {o} PROVE Exact(x)'
  BY CancelEffect DEF OrderInv, ReleaseExact, Untouched
<1>3. Exact(o)'
  <2>0. UNCHANGED createdVars
    BY CancelEffect
  <2>. USE <2>0 DEF StockInv, TypeOK, OrderInv, ReleaseExact, Created, Cancelled, createdVars
  <2>1. CASE OrderCancelled(o)
    BY <2>1 DEF OrderCancelled, stockVars, CreatedIsMarked
  <2>2. CASE FetchCancelled(o)
    BY <2>2 DEF FetchCancelled, stockVars
  <2>3. CASE ListReservations(o)
    BY <2>3 DEF ListReservations, stockVars
  <2>4. CASE ReleaseListed(o)
    <3>1. /\ xpc' = [xpc EXCEPT ![o] = "mark"] /\ overtaken' = overtaken
          /\ processed' = processed /\ xpc[o] = "apply"
          /\ reservation'[o] = [p \in Products |-> IF listed[o][p] > 0 THEN 0
                                                   ELSE reservation[o][p]]
      BY <2>4 DEF ReleaseListed
    <3>2. o \notin overtaken => reservation'[o] = Nothing
      <4>1. o \notin overtaken => listed[o] = reservation[o]
        BY <3>1
      <4>2. \A p \in Products : listed[o][p] \in Nat
        OBVIOUS
      <4>. QED  BY <3>1, <4>1, <4>2 DEF Nothing
    <3>. QED  BY <3>1, <3>2
  <2>5. CASE MarkCancelledProcessed(o)
    BY <2>5 DEF MarkCancelledProcessed, stockVars
  <2>6. CASE CommitCancelled(o)
    BY <2>6 DEF CommitCancelled, stockVars
  <2>7. CASE RedeliverCancelled(o)
    BY <2>7 DEF RedeliverCancelled, stockVars
  <2>. QED  BY <2>1, <2>2, <2>3, <2>4, <2>5, <2>6, <2>7 DEF CancelStep
<1>4. ReleaseExact'
  BY <1>2, <1>3 DEF ReleaseExact, Nothing
<1>. QED  BY <1>1, <1>4 DEF OrderInv

\* A stop or an expiry: a handler that goes back to its fetch has listed nothing.
LEMMA OrderService ==
    ASSUME StockInv, OrderInv, StopStep \/ ExpireStep
    PROVE  OrderInv'
<1>1. /\ \A o \in Orders : (Created(o)' => Created(o)) /\ (Cancelled(o)' => Cancelled(o))
      /\ reservation' = reservation /\ overtaken' = overtaken
  BY ServiceEffect DEF Created, Cancelled, stockVars
<1>2. CreatedIsMarked'
  BY <1>1, ServiceEffect DEF OrderInv, CreatedIsMarked
<1>3. ReleaseExact'
  BY <1>1, ServiceEffect DEF OrderInv, ReleaseExact, Nothing
<1>. QED  BY <1>2, <1>3 DEF OrderInv

\* OrderInv is inductive, given StockInv.
LEMMA OrderInductive ==
    /\ Init => OrderInv
    /\ StockInv /\ OrderInv /\ [Next]_vars => OrderInv'
<1>1. ASSUME Init PROVE OrderInv
  BY <1>1 DEF Init, OrderInv, CreatedIsMarked, ReleaseExact, Created, Cancelled
<1>2. ASSUME OrderInv, UNCHANGED vars PROVE OrderInv'
  BY <1>2 DEF vars, stockVars, createdVars, cancelVars, OrderInv, CreatedIsMarked,
              ReleaseExact, Created, Cancelled, Nothing
<1>3. ASSUME StockInv, OrderInv, Next PROVE OrderInv'
  BY <1>3, StepKinds, OrderCreatedStep, OrderCancelStep, OrderService, Zenon
<1>. QED  BY <1>1, <1>2, <1>3

\* Once the cancellation of an order is handled, the order holds nothing, whatever was
\* replayed (with its mark expired, too), lost or left behind before the cancellation
\* came, as long as its order.created was not handled, or handled again, after that.
THEOREM InOrderReleased == Spec => []CancelInOrderReleases
<1>1. OrderInv => CancelInOrderReleases
  BY DEF OrderInv, ReleaseExact, CancelInOrderReleases, Cancelled
<1>. QED  BY <1>1, StockInductive, OrderInductive, PTL DEF Spec

-----------------------------------------------------------------------------
(* Layer 3: the ledger *)

\* What each order holds of a product.
Held(p) == [o \in Orders |-> reservation[o][p]]

\* LedgerConsistent, with Sum for MapThenSumSet.
LedgerInv == overtaken = {} => \A p \in Products : reserved[p] = Sum(Held(p), Orders)

\* LedgerInv is LedgerConsistent.
LEMMA LedgerIsSum == LedgerInv => LedgerConsistent
<1>1. ASSUME NEW p \in Products
      PROVE  MapThenSumSet(LAMBDA o : reservation[o][p], Orders) = Sum(Held(p), Orders)
  <2>1. MapThenSumSet(LAMBDA o : reservation[o][p], Orders) = SumOf(reservation, p, Orders)
    BY DEF SumOf
  <2>. QED  BY <2>1, InventoryConstants, SumOfIsSum DEF Held
<1>. QED  BY <1>1 DEF LedgerInv, LedgerConsistent

\* Reservations of one order change by as much as the reserved column.
LEMMA LedgerMove ==
    ASSUME StockInv, StockTyped', NEW o \in Orders,
           overtaken' = overtaken, LedgerInv,
           \A x \in Orders \ {o} : reservation'[x] = reservation[x],
           overtaken = {} => \A p \in Products :
               reserved'[p] - reserved[p] = reservation'[o][p] - reservation[o][p]
    PROVE  LedgerInv'
<1>. SUFFICES ASSUME overtaken = {}, NEW p \in Products
              PROVE  reserved'[p] = Sum(Held(p)', Orders)
  BY DEF LedgerInv, Held
<1>. DEFINE f == Held(p)
            g == Held(p)'
<1>1. \A x \in Orders : f[x] \in Nat /\ g[x] \in Nat
  BY DEF Held, StockInv, TypeOK, StockTyped
<1>2. \A x \in Orders : x # o => f[x] = g[x]
  BY DEF Held
<1>3. Sum(g, Orders) = Sum(f, Orders) - f[o] + g[o]
  <2>. HIDE DEF f, g
  <2>1. IsFiniteSet(Orders)
    BY InventoryConstants
  <2>. QED  BY <1>1, <1>2, <2>1, SumChange
<1>4. f[o] = reservation[o][p] /\ g[o] = reservation'[o][p]
  BY DEF Held
<1>5. reserved[p] = Sum(f, Orders)
  BY DEF LedgerInv
<1>6. reserved[p] \in Nat /\ reserved'[p] \in Nat
  BY DEF StockInv, TypeOK, StockTyped
<1>. QED  BY <1>1, <1>3, <1>4, <1>5, <1>6

\* A step that touches neither table.
LEMMA LedgerSame ==
    ASSUME LedgerInv, UNCHANGED stockVars, overtaken' = {} => overtaken = {}
    PROVE  LedgerInv'
  BY DEF LedgerInv, Held, stockVars

\* ReserveStock and ReleaseStock move the two tables together.
LEMMA LedgerLine ==
    ASSUME StockInv, LedgerInv, StockTyped', overtaken' = overtaken,
           NEW o \in Orders, NEW p \in Products, NEW q \in Nat,
           Reserve(o, p, q) \/ Release(o, p, q)
    PROVE  LedgerInv'
<1>1. \A x \in Orders \ {o} : reservation'[x] = reservation[x]
  BY DEF Reserve, Release, StockInv, TypeOK
<1>2. ASSUME NEW y \in Products
      PROVE  reserved'[y] - reserved[y] = reservation'[o][y] - reservation[o][y]
  <2>1. /\ reserved[y] \in Nat /\ reservation[o][y] \in Nat
        /\ reserved \in [Products -> Nat] /\ reservation \in [Orders -> [Products -> Nat]]
    BY DEF StockInv, TypeOK
  <2>2. CASE Reserve(o, p, q)
    BY <2>1, <2>2 DEF Reserve
  <2>3. CASE Release(o, p, q)
    BY <2>1, <2>3 DEF Release
  <2>. QED  BY <2>2, <2>3
<1>. QED  BY <1>1, <1>2, LedgerMove

\* LedgerInv is kept by every step.  The release of a listed order is exact because
\* the list is (ReleaseExact), if no cancellation was overtaken.
LEMMA LedgerInductive ==
    /\ Init => LedgerInv
    /\ StockInv /\ OrderInv /\ LedgerInv /\ [Next]_vars => LedgerInv'
<1>1. ASSUME Init PROVE LedgerInv
  <2>. SUFFICES ASSUME NEW p \in Products PROVE reserved[p] = Sum(Held(p), Orders)
    BY DEF LedgerInv
  <2>1. \A o \in Orders : Held(p)[o] = 0
    BY <1>1 DEF Init, Held, Nothing
  <2>2. Sum(Held(p), Orders) = 0
    BY <2>1, InventoryConstants, SumZero
  <2>. QED  BY <1>1, <2>2 DEF Init, Nothing
<1>2. ASSUME LedgerInv, UNCHANGED vars PROVE LedgerInv'
  BY <1>2, LedgerSame DEF vars, cancelVars
<1>3. ASSUME StockInv, OrderInv, LedgerInv, NEW o \in Orders, CreatedStep(o), StockInv'
      PROVE  LedgerInv'
  <2>1. StockTyped' /\ overtaken \subseteq overtaken'
    BY <1>3, CreatedEffect DEF StockInv, TypeOK, StockTyped, OvertakenIf
  <2>2. CASE UNCHANGED stockVars
    BY <1>3, <2>1, <2>2, LedgerSame
  <2>3. ASSUME overtaken' = overtaken, item[o] >= 1, item[o] <= Len(Items[o]),
               \/ Reserve(o, Line(o).product, Line(o).quantity)
               \/ Release(o, Line(o).product, Line(o).quantity)
        PROVE  LedgerInv'
    BY <1>3, <2>1, <2>3, LineType, LedgerLine DEF StockInv
  <2>4. CASE ReserveStock(o) \/ ReserveFails(o) \/ RollbackLine(o)
    <3>1. /\ cpc[o] = "reserve" => item[o] >= 1
          /\ cpc[o] = "rollback" => item[o] < Len(Items[o])
          /\ item[o] \in Nat /\ Len(Items[o]) \in Nat
      <4>1. Items[o] \in Seq([product: Products, quantity: Nat \ {0}])
        BY InventoryConstants
      <4>. QED  BY <1>3, <4>1 DEF StockInv, TypeOK, ItemInRange
    <3>. QED  BY <2>2, <2>3, <2>4, <3>1
              DEF ReserveStock, ReserveFails, RollbackLine, cancelVars
  <2>5. CASE FetchCreated(o) \/ ReserveAllReturns(o) \/ PublishOutcome(o)
             \/ MarkCreatedProcessed(o) \/ CommitCreated(o) \/ OrderCreated(o)
             \/ RedeliverCreated(o)
    BY <2>2, <2>5 DEF FetchCreated, ReserveAllReturns, PublishOutcome,
       MarkCreatedProcessed, CommitCreated, OrderCreated, RedeliverCreated
  <2>. QED  BY <1>3, <2>4, <2>5, Zenon DEF CreatedStep
<1>4. ASSUME StockInv, OrderInv, LedgerInv, NEW o \in Orders, CancelStep(o), StockInv'
      PROVE  LedgerInv'
  <2>1. CASE ReleaseListed(o)
    <3>1. StockTyped' /\ overtaken' = overtaken
      BY <1>4, <2>1 DEF StockInv, TypeOK, StockTyped, ReleaseListed
    <3>2. \A x \in Orders \ {o} : reservation'[x] = reservation[x]
      BY <1>4, <2>1 DEF ReleaseListed, StockInv, TypeOK
    <3>3. ASSUME overtaken = {}, NEW p \in Products
          PROVE  reserved'[p] - reserved[p] = reservation'[o][p] - reservation[o][p]
      <4>1. listed[o] = reservation[o]
        BY <1>4, <2>1, <3>3 DEF OrderInv, ReleaseExact, ReleaseListed
      <4>2. reserved[p] \in Nat /\ reservation[o][p] \in Nat /\ listed[o][p] \in Nat
        BY <1>4 DEF StockInv, TypeOK
      <4>3. reserved'[p] = reserved[p] - listed[o][p]
        BY <2>1 DEF ReleaseListed
      <4>4. reservation'[o][p] = IF listed[o][p] > 0 THEN 0 ELSE reservation[o][p]
        BY <1>4, <2>1 DEF ReleaseListed, StockInv, TypeOK
      <4>. QED  BY <4>1, <4>2, <4>3, <4>4
    <3>. QED  BY <1>4, <3>1, <3>2, <3>3, LedgerMove
  <2>2. CASE OrderCancelled(o)
    BY <1>4, <2>2, LedgerSame DEF OrderCancelled
  <2>3. CASE FetchCancelled(o) \/ ListReservations(o) \/ MarkCancelledProcessed(o)
             \/ CommitCancelled(o) \/ RedeliverCancelled(o)
    BY <1>4, <2>3, LedgerSame DEF FetchCancelled, ListReservations,
       MarkCancelledProcessed, CommitCancelled, RedeliverCancelled
  <2>. QED  BY <1>4, <2>1, <2>2, <2>3, Zenon DEF CancelStep
<1>5. ASSUME StockInv, LedgerInv, StopStep \/ ExpireStep PROVE LedgerInv'
  BY <1>5, ServiceEffect, LedgerSame
<1>6. ASSUME StockInv, OrderInv, LedgerInv, Next PROVE LedgerInv'
  <2>1. StockInv'
    BY <1>6, StockInductive
  <2>. QED  BY <1>3, <1>4, <1>5, <1>6, <2>1, StepKinds, Zenon
<1>. QED  BY <1>1, <1>2, <1>6

\* As long as no cancellation was overtaken, the reserved column of every product is
\* the sum of the reservation rows, through faults, rollbacks and replays.
THEOREM LedgerAgrees == Spec => []LedgerConsistent
  BY StockInductive, OrderInductive, LedgerInductive, LedgerIsSum, PTL DEF Spec

-----------------------------------------------------------------------------
(* Layer 4: all lines or none *)

\* What the first n lines of an order ask for.
Partial(o, n) ==
    [p \in Products |->
        MapThenSumSet(LAMBDA i : Items[o][i].quantity,
                      {i \in 1 .. n : Items[o][i].product = p})]

\* The stock an order holds agrees with the outcome that was published for it.
Settled(o) ==
    \/ outcome[o] = {"reserved"} /\ reservation[o] = Demand(o)
    \/ outcome[o] = {"reservation_failed"} /\ reservation[o] = Nothing

\* The cancellation of the order has not released anything yet.
Unreleased(o) ==
    xpc[o] \in {"absent", "list", "apply"} \/ (xpc[o] = "fetch" /\ ~Cancelled(o))

\* What the order holds at each point of its order.created handler, when nothing
\* failed and no cancellation was overtaken.
WholeOrder(o) ==
    /\ cpc[o] = "absent" \/ (cpc[o] = "fetch" /\ ~Created(o)) =>
          outcome[o] = {} /\ reservation[o] = Nothing
    /\ cpc[o] = "reserve" => outcome[o] = {} /\ reservation[o] = Partial(o, item[o] - 1)
    /\ cpc[o] = "rollback" => outcome[o] = {} /\ reservation[o] = Partial(o, item[o])
    /\ cpc[o] = "publishReserved" => outcome[o] = {} /\ reservation[o] = Demand(o)
    /\ cpc[o] = "publishFailed" => outcome[o] = {} /\ reservation[o] = Nothing
    /\ cpc[o] = "mark" => Settled(o)
    /\ Created(o) /\ Unreleased(o) => Settled(o)
    /\ cpc[o] \in {"commit", "done"} \/ xpc[o] # "absent" => Created(o)
    /\ xpc[o] \in {"list", "apply"} => ~Cancelled(o)
    /\ xpc[o] \in {"commit", "done"} => Cancelled(o)

WholeInv == faults = 0 /\ overtaken = {} => \A o \in Orders : WholeOrder(o)

\* The lines of an order, and those of its first n that ask for p.
Lines(o) == 1 .. Len(Items[o])

LinesOf(o, p, n) == {i \in 1 .. n : Items[o][i].product = p}

Quantity(o) == [i \in Lines(o) |-> Items[o][i].quantity]

\* Every line of an order names a product and a quantity.
LEMMA ItemsType ==
    ASSUME NEW o \in Orders
    PROVE  /\ Len(Items[o]) \in Nat
           /\ DOMAIN Items[o] = Lines(o)
           /\ \A i \in Lines(o) : /\ Items[o][i].product \in Products
                                  /\ Items[o][i].quantity \in Nat
<1>. DEFINE L == [product: Products, quantity: Nat \ {0}]
<1>1. Items[o] \in Seq(L)
  BY InventoryConstants
<1>2. \A i \in Lines(o) : Items[o][i] \in L
  <2>. HIDE DEF L
  <2>. QED  BY <1>1 DEF Lines
<1>3. Len(Items[o]) \in Nat /\ DOMAIN Items[o] = Lines(o)
  <2>. HIDE DEF L
  <2>. QED  BY <1>1 DEF Lines
<1>. QED  BY <1>2, <1>3

\* The lines of an order are finitely many.
LEMMA LinesFinite ==
    ASSUME NEW o \in Orders, NEW p, NEW n \in 0 .. Len(Items[o])
    PROVE  /\ IsFiniteSet(LinesOf(o, p, n))
           /\ LinesOf(o, p, n) \subseteq Lines(o)
<1>0. Len(Items[o]) \in Nat
  BY ItemsType
<1>1. IsFiniteSet(1 .. n)
  BY <1>0, FS_Interval
<1>2. LinesOf(o, p, n) \subseteq 1 .. n
  BY DEF LinesOf
<1>3. IsFiniteSet(LinesOf(o, p, n))
  BY <1>1, <1>2, FS_Subset
<1>. QED  BY <1>0, <1>2, <1>3 DEF Lines

\* Partial as a Sum.
LEMMA PartialIsSum ==
    ASSUME NEW o \in Orders, NEW p \in Products, NEW n \in 0 .. Len(Items[o])
    PROVE  Partial(o, n)[p] = Sum(Quantity(o), LinesOf(o, p, n))
<1>. DEFINE S == LinesOf(o, p, n)
            f == [i \in S |-> Items[o][i]["quantity"]]
<1>1. IsFiniteSet(S) /\ S \subseteq Lines(o)
  BY LinesFinite
<1>2. Partial(o, n)[p] = SumOf(Items[o], "quantity", S)
  BY DEF Partial, SumOf, LinesOf
<1>3. SumOf(Items[o], "quantity", S) = Sum(f, S)
  <2>. HIDE DEF S
  <2>. QED  BY <1>1, SumOfIsSum
<1>4. \A i \in S : f[i] = Quantity(o)[i]
  BY <1>1 DEF Quantity
<1>5. Sum(f, S) = Sum(Quantity(o), S)
  <2>. HIDE DEF S, f
  <2>. QED  BY <1>1, <1>4, SumAgrees
<1>. QED  BY <1>2, <1>3, <1>5

\* No lines ask for nothing.
LEMMA PartialNone == ASSUME NEW o \in Orders PROVE Partial(o, 0) = Nothing
<1>0. 0 \in 0 .. Len(Items[o])
  BY ItemsType
<1>1. ASSUME NEW p \in Products PROVE Partial(o, 0)[p] = 0
  <2>1. LinesOf(o, p, 0) = {}
    BY DEF LinesOf
  <2>2. Partial(o, 0)[p] = Sum(Quantity(o), {})
    BY <1>0, <2>1, PartialIsSum
  <2>3. IsFiniteSet({})
    BY FS_EmptySet
  <2>. QED  BY <2>2, <2>3, SumStep
<1>. QED  BY <1>1 DEF Partial, Nothing

\* All lines ask for what the order asks for.
LEMMA PartialAll == ASSUME NEW o \in Orders PROVE Partial(o, Len(Items[o])) = Demand(o)
  BY ItemsType DEF Partial, Demand, Lines

\* Partial is a quantity per product.
LEMMA PartialType ==
    ASSUME NEW o \in Orders, NEW n \in 0 .. Len(Items[o])
    PROVE  Partial(o, n) \in [Products -> Nat]
<1>1. ASSUME NEW p \in Products PROVE Partial(o, n)[p] \in Nat
  <2>1. IsFiniteSet(LinesOf(o, p, n)) /\ LinesOf(o, p, n) \subseteq Lines(o)
    BY LinesFinite
  <2>2. \A i \in LinesOf(o, p, n) : Quantity(o)[i] \in Nat
    BY <2>1, ItemsType DEF Quantity
  <2>. QED  BY <2>1, <2>2, PartialIsSum, SumType
<1>. QED  BY <1>1 DEF Partial

\* One line more asks for its quantity of its product, and for nothing else.
LEMMA PartialStep ==
    ASSUME NEW o \in Orders, NEW n \in Lines(o), NEW p \in Products
    PROVE  Partial(o, n)[p] = Partial(o, n - 1)[p]
                              + (IF Items[o][n].product = p THEN Items[o][n].quantity ELSE 0)
<1>0. /\ Len(Items[o]) \in Nat /\ n \in Nat /\ n - 1 \in 0 .. Len(Items[o])
      /\ n \in 0 .. Len(Items[o])
  BY ItemsType DEF Lines
<1>. DEFINE S == LinesOf(o, p, n)
            T == LinesOf(o, p, n - 1)
<1>1. Partial(o, n)[p] = Sum(Quantity(o), S) /\ Partial(o, n - 1)[p] = Sum(Quantity(o), T)
  BY <1>0, PartialIsSum
<1>2. IsFiniteSet(S) /\ S \subseteq Lines(o)
  BY <1>0, LinesFinite
<1>3. Partial(o, n - 1)[p] \in Nat
  BY <1>0, PartialType
<1>4. CASE Items[o][n].product = p
  <2>1. n \in S /\ S \ {n} = T
    BY <1>0, <1>4 DEF LinesOf
  <2>2. \A i \in S : Quantity(o)[i] \in Nat
    BY <1>2, ItemsType DEF Quantity
  <2>3. Sum(Quantity(o), S) = Quantity(o)[n] + Sum(Quantity(o), S \ {n})
    <3>. HIDE DEF S, T
    <3>. QED  BY <1>2, <2>1, <2>2, SumRemove
  <2>4. Quantity(o)[n] = Items[o][n].quantity /\ Items[o][n].quantity \in Nat
    BY ItemsType DEF Quantity
  <2>5. Partial(o, n)[p] = Items[o][n].quantity + Partial(o, n - 1)[p]
    BY <1>1, <2>1, <2>3, <2>4
  <2>. QED  BY <1>3, <1>4, <2>4, <2>5
<1>5. CASE Items[o][n].product # p
  <2>1. S = T
    BY <1>0, <1>5 DEF LinesOf
  <2>. QED  BY <1>1, <1>3, <1>5, <2>1
<1>. QED  BY <1>4, <1>5

\* What an order holds after its n-th line is reserved.
LEMMA LineReserved ==
    ASSUME StockInv, NEW o \in Orders, NEW n \in Lines(o),
           reservation[o] = Partial(o, n - 1),
           Reserve(o, Items[o][n].product, Items[o][n].quantity), StockInv'
    PROVE  reservation'[o] = Partial(o, n)
<1>1. /\ reservation \in [Orders -> [Products -> Nat]]
      /\ reservation' \in [Orders -> [Products -> Nat]]
  BY DEF StockInv, TypeOK
<1>2. /\ Partial(o, n) = [p \in Products |-> Partial(o, n)[p]]
      /\ n - 1 \in 0 .. Len(Items[o])
  BY ItemsType DEF Partial, Lines
<1>3. Partial(o, n - 1) \in [Products -> Nat]
  BY <1>2, PartialType
<1>4. ASSUME NEW p \in Products PROVE reservation'[o][p] = Partial(o, n)[p]
  BY <1>1, <1>3, PartialStep, ItemsType DEF Reserve
<1>. QED  BY <1>1, <1>2, <1>4

\* What an order holds after its n-th line is rolled back.
LEMMA LineReleased ==
    ASSUME StockInv, NEW o \in Orders, NEW n \in Lines(o),
           reservation[o] = Partial(o, n),
           Release(o, Items[o][n].product, Items[o][n].quantity), StockInv'
    PROVE  reservation'[o] = Partial(o, n - 1)
<1>1. /\ reservation \in [Orders -> [Products -> Nat]]
      /\ reservation' \in [Orders -> [Products -> Nat]]
  BY DEF StockInv, TypeOK
<1>2. /\ Partial(o, n - 1) = [p \in Products |-> Partial(o, n - 1)[p]]
      /\ n - 1 \in 0 .. Len(Items[o])
  BY ItemsType DEF Partial, Lines
<1>3. Partial(o, n - 1) \in [Products -> Nat]
  BY <1>2, PartialType
<1>4. ASSUME NEW p \in Products PROVE reservation'[o][p] = Partial(o, n - 1)[p]
  BY <1>1, <1>3, PartialStep, ItemsType DEF Release
<1>. QED  BY <1>1, <1>2, <1>4

\* The reserved column is at least what one order holds.
LEMMA HeldReserved ==
    ASSUME StockInv, LedgerInv, overtaken = {}, NEW o \in Orders, NEW p \in Products
    PROVE  reserved[p] >= reservation[o][p]
<1>1. \A x \in Orders : Held(p)[x] \in Nat
  BY DEF Held, StockInv, TypeOK
<1>2. Held(p)[o] = reservation[o][p]
  BY DEF Held
<1>3. IsFiniteSet(Orders)
  BY InventoryConstants
<1>4. Sum(Held(p), Orders) >= Held(p)[o]
  BY <1>1, <1>3, SumChange
<1>5. reserved[p] = Sum(Held(p), Orders)
  BY DEF LedgerInv
<1>. QED  BY <1>2, <1>4, <1>5

\* So a line that an order holds can be rolled back,
LEMMA RollbackNeverFails ==
    ASSUME StockInv, LedgerInv, overtaken = {}, NEW o \in Orders, WholeOrder(o)
    PROVE  ~CannotRollback(o)
<1>. SUFFICES ASSUME cpc[o] = "rollback", item[o] > 0
              PROVE  Releasable(o, Line(o).product, Line(o).quantity)
  BY DEF CannotRollback
<1>. DEFINE n == item[o]
            p == Items[o][n].product
            q == Items[o][n].quantity
<1>0. n \in Lines(o) /\ n - 1 \in 0 .. Len(Items[o])
  BY ItemsType DEF StockInv, TypeOK, ItemInRange, Lines
<1>1. p \in Products /\ q \in Nat
  BY <1>0, ItemsType
<1>2. Partial(o, n - 1)[p] \in Nat
  BY <1>0, <1>1, PartialType
<1>3. Partial(o, n)[p] = Partial(o, n - 1)[p] + q
  BY <1>0, <1>1, PartialStep
<1>4. reservation[o][p] \in Nat /\ reserved[p] \in Nat
  BY <1>1 DEF StockInv, TypeOK
<1>5. reservation[o][p] >= q
  BY <1>1, <1>2, <1>3, <1>4 DEF WholeOrder
<1>6. reserved[p] >= reservation[o][p]
  BY <1>1, HeldReserved
<1>. QED  BY <1>1, <1>4, <1>5, <1>6 DEF Releasable, Line

\* and so can a list of what it holds.
LEMMA ReleaseNeverFails ==
    ASSUME StockInv, OrderInv, LedgerInv, overtaken = {}, NEW o \in Orders
    PROVE  ~CannotRelease(o)
<1>. SUFFICES ASSUME xpc[o] = "apply", NEW p \in Products PROVE ~(reserved[p] < listed[o][p])
  BY DEF CannotRelease
<1>1. listed[o] = reservation[o]
  BY DEF OrderInv, ReleaseExact
<1>2. reserved[p] \in Nat /\ reservation[o][p] \in Nat
  BY DEF StockInv, TypeOK
<1>. QED  BY <1>1, <1>2, HeldReserved

\* The order.created handler keeps WholeOrder.
LEMMA WholeCreated ==
    ASSUME StockInv, OrderInv, StockInv', faults = 0, faults' = 0,
           NEW o \in Orders, WholeOrder(o), CreatedStep(o)
    PROVE  WholeOrder(o)'
<1>0. /\ Created(o) => cpc[o] \in {"fetch", "commit", "done"}
      /\ cpc[o] \in {"commit", "done"} \/ xpc[o] # "absent" => Created(o)
      /\ xpc'[o] = xpc[o]
      /\ Cancelled(o)' <=> Cancelled(o)
  BY CreatedEffect DEF OrderInv, CreatedIsMarked, Cancelled, WholeOrder
<1>1. /\ cpc = [x \in Orders |-> cpc[x]] /\ item \in [Orders -> Nat]
      /\ outcome = [x \in Orders |-> outcome[x]]
      /\ item[o] \in Nat /\ Len(Items[o]) \in Nat /\ item[o] <= Len(Items[o]) + 1
      /\ cpc[o] = "reserve" => item[o] >= 1
      /\ cpc[o] = "rollback" => item[o] < Len(Items[o])
  BY ItemsType DEF StockInv, TypeOK, ItemInRange
<1>2. ~Fault
  BY DEF Fault
<1>3. Partial(o, 0) = Nothing /\ Partial(o, Len(Items[o])) = Demand(o)
  BY PartialNone, PartialAll
<1>4. CASE OrderCreated(o)
  BY <1>0, <1>1, <1>4 DEF OrderCreated, WholeOrder, Settled, Unreleased, Created, stockVars
<1>5. CASE FetchCreated(o)
  BY <1>0, <1>1, <1>3, <1>5
     DEF FetchCreated, WholeOrder, Settled, Unreleased, Created, stockVars
<1>6. CASE ReserveStock(o)
  <2>1. item[o] \in Lines(o)
    BY <1>1, <1>6 DEF ReserveStock, Lines
  <2>2. reservation'[o] = Partial(o, item[o])
    BY <1>6, <2>1, LineReserved DEF ReserveStock, Line, WholeOrder
  <2>3. /\ cpc[o] = "reserve" /\ cpc'[o] = "reserve" /\ item'[o] = item[o] + 1
        /\ outcome'[o] = outcome[o] /\ processed' = processed
    BY <1>1, <1>6 DEF ReserveStock
  <2>4. item'[o] - 1 = item[o]
    BY <1>1, <2>3
  <2>. QED  BY <1>0, <2>2, <2>3, <2>4 DEF WholeOrder, Created
<1>7. CASE ReserveFails(o)
  <2>1. /\ cpc[o] = "reserve" /\ cpc'[o] = "rollback" /\ item'[o] = item[o] - 1
        /\ outcome'[o] = outcome[o] /\ processed' = processed
        /\ reservation'[o] = reservation[o]
    BY <1>1, <1>2, <1>7 DEF ReserveFails, stockVars
  <2>. QED  BY <1>0, <2>1 DEF WholeOrder, Created
<1>8. CASE RollbackLine(o)
  <2>1. item[o] \in Lines(o)
    BY <1>1, <1>8 DEF RollbackLine, Lines
  <2>2. reservation'[o] = Partial(o, item[o] - 1)
    BY <1>8, <2>1, LineReleased DEF RollbackLine, Line, WholeOrder
  <2>3. /\ cpc[o] = "rollback" /\ cpc'[o] = "rollback" /\ item'[o] = item[o] - 1
        /\ outcome'[o] = outcome[o] /\ processed' = processed
    BY <1>1, <1>8 DEF RollbackLine
  <2>. QED  BY <1>0, <2>2, <2>3 DEF WholeOrder, Created
<1>9. CASE ReserveAllReturns(o)
  <2>1. /\ outcome'[o] = outcome[o] /\ processed' = processed
        /\ reservation'[o] = reservation[o]
    BY <1>9 DEF ReserveAllReturns, stockVars
  <2>2. CASE cpc[o] = "reserve"
    <3>1. item[o] - 1 = Len(Items[o]) /\ cpc'[o] = "publishReserved"
      BY <1>1, <1>9, <2>2 DEF ReserveAllReturns
    <3>. QED  BY <1>0, <1>3, <2>1, <2>2, <3>1 DEF WholeOrder, Created
  <2>3. CASE cpc[o] = "rollback"
    <3>1. item[o] = 0 /\ cpc'[o] = "publishFailed"
      BY <1>1, <1>9, <2>3 DEF ReserveAllReturns
    <3>. QED  BY <1>0, <1>3, <2>1, <2>3, <3>1 DEF WholeOrder, Created
  <2>. QED  BY <1>9, <2>2, <2>3 DEF ReserveAllReturns
<1>10. CASE PublishOutcome(o)
  <2>1. /\ cpc'[o] = "mark" /\ processed' = processed /\ reservation'[o] = reservation[o]
        /\ cpc[o] \in {"publishReserved", "publishFailed"}
    BY <1>1, <1>10 DEF PublishOutcome, stockVars
  <2>2. Settled(o)'
    BY <1>1, <1>10 DEF PublishOutcome, stockVars, Settled, WholeOrder
  <2>. QED  BY <1>0, <2>1, <2>2 DEF WholeOrder, Created
<1>11. CASE MarkCreatedProcessed(o)
  <2>1. /\ cpc[o] = "mark" /\ cpc'[o] = "commit" /\ Created(o)'
        /\ reservation'[o] = reservation[o] /\ outcome'[o] = outcome[o]
    BY <1>1, <1>11 DEF MarkCreatedProcessed, stockVars, Created
  <2>. QED  BY <1>0, <2>1 DEF WholeOrder, Settled
<1>12. CASE CommitCreated(o)
  BY <1>0, <1>1, <1>12 DEF CommitCreated, WholeOrder, Settled, Unreleased, Created, stockVars
<1>13. CASE RedeliverCreated(o)
  BY <1>0, <1>1, <1>13
     DEF RedeliverCreated, WholeOrder, Settled, Unreleased, Created, stockVars
<1>. QED  BY <1>4, <1>5, <1>6, <1>7, <1>8, <1>9, <1>10, <1>11, <1>12, <1>13, Zenon
          DEF CreatedStep

\* The order.cancelled handler keeps WholeOrder: it only runs once order.created is
\* handled, and what it has released it never lists again.
LEMMA WholeCancelled ==
    ASSUME StockInv, OrderInv, faults = 0, faults' = 0, overtaken = {}, overtaken' = {},
           NEW o \in Orders, WholeOrder(o), CancelStep(o)
    PROVE  WholeOrder(o)'
<1>0. /\ Created(o) => cpc[o] \in {"fetch", "commit", "done"}
      /\ Created(o)' <=> Created(o)
      /\ xpc[o] # "absent" => Created(o)
      /\ Cancelled(o) => xpc[o] # "absent"
      /\ UNCHANGED createdVars
  BY CancelEffect DEF OrderInv, CreatedIsMarked, ReleaseExact, WholeOrder
<1>1. xpc = [x \in Orders |-> xpc[x]]
  BY DEF StockInv, TypeOK
<1>. USE DEF WholeOrder, Settled, Unreleased, createdVars
<1>2. CASE OrderCancelled(o)
  BY <1>0, <1>1, <1>2 DEF OrderCancelled, Created, Cancelled, stockVars
<1>3. CASE FetchCancelled(o)
  BY <1>0, <1>1, <1>3 DEF FetchCancelled, Cancelled, stockVars
<1>4. CASE ListReservations(o)
  BY <1>0, <1>1, <1>4 DEF ListReservations, Cancelled, stockVars
<1>5. CASE ReleaseListed(o)
  <2>1. /\ xpc[o] = "apply" /\ xpc'[o] = "mark" /\ processed' = processed
    BY <1>1, <1>5 DEF ReleaseListed
  <2>. QED  BY <1>0, <2>1 DEF Cancelled
<1>6. CASE MarkCancelledProcessed(o)
  BY <1>0, <1>1, <1>6 DEF MarkCancelledProcessed, Cancelled, stockVars
<1>7. CASE CommitCancelled(o)
  BY <1>0, <1>1, <1>7 DEF CommitCancelled, Cancelled, stockVars
<1>8. CASE RedeliverCancelled(o)
  BY <1>0, <1>1, <1>8 DEF RedeliverCancelled, Cancelled, stockVars
<1>. QED  BY <1>2, <1>3, <1>4, <1>5, <1>6, <1>7, <1>8, Zenon DEF CancelStep

\* Faults are never forgotten, and neither is an overtaken cancellation.
LEMMA HistoryGrows ==
    ASSUME StockInv, Next
    PROVE  faults' >= faults /\ overtaken \subseteq overtaken'
<1>0. faults \in Nat
  BY InventoryConstants DEF StockInv, TypeOK
<1>1. ASSUME NEW o \in Orders, CreatedStep(o)
      PROVE  overtaken \subseteq overtaken' /\ (faults' = faults \/ Fault)
  <2>1. overtaken \subseteq overtaken'
    BY <1>1, CreatedEffect DEF OvertakenIf
  <2>2. faults' = faults \/ Fault
    BY <1>1 DEF CreatedStep, OrderCreated, FetchCreated, ReserveStock,
       ReserveFails, RollbackLine, ReserveAllReturns, PublishOutcome,
       MarkCreatedProcessed, CommitCreated, RedeliverCreated
  <2>. QED  BY <2>1, <2>2
<1>2. ASSUME NEW o \in Orders, CancelStep(o)
      PROVE  overtaken \subseteq overtaken' /\ (faults' = faults \/ Fault)
  BY <1>2 DEF CancelStep, OrderCancelled, FetchCancelled, ListReservations, ReleaseListed,
     MarkCancelledProcessed, CommitCancelled, RedeliverCancelled
<1>3. ASSUME StopStep \/ ExpireStep
      PROVE  overtaken \subseteq overtaken' /\ (faults' = faults \/ Fault)
  BY <1>3, ServiceEffect DEF StopStep, ExpireStep, ExpireMark
<1>4. overtaken \subseteq overtaken' /\ (faults' = faults \/ Fault)
  BY <1>1, <1>2, <1>3, StepKinds, Zenon
<1>. QED  BY <1>0, <1>4 DEF Fault

\* WholeInv is inductive, given the other layers.
LEMMA WholeInductive ==
    /\ Init => WholeInv
    /\ StockInv /\ OrderInv /\ LedgerInv /\ WholeInv /\ [Next]_vars => WholeInv'
<1>1. ASSUME Init PROVE WholeInv
  BY <1>1 DEF Init, WholeInv, WholeOrder, Created, Cancelled
<1>2. ASSUME WholeInv, UNCHANGED vars PROVE WholeInv'
  BY <1>2 DEF vars, stockVars, createdVars, cancelVars, WholeInv, WholeOrder, Settled,
              Unreleased, Created, Cancelled
<1>3. ASSUME StockInv, OrderInv, LedgerInv, WholeInv, Next PROVE WholeInv'
  <2>. SUFFICES ASSUME faults' = 0, overtaken' = {}, NEW x \in Orders
                PROVE  WholeOrder(x)'
    BY DEF WholeInv
  <2>1. StockInv' /\ faults = 0 /\ overtaken = {}
    <3>1. faults \in Nat
      BY <1>3, InventoryConstants DEF StockInv, TypeOK
    <3>. QED  BY <1>3, <3>1, StockInductive, HistoryGrows
  <2>2. WholeOrder(x)
    BY <1>3, <2>1 DEF WholeInv
  <2>3. PICK o \in Orders : CreatedStep(o) \/ CancelStep(o)
    <3>1. ~ServiceStops /\ ~ExpireStep
      BY <2>1 DEF ServiceStops, ExpireStep, ExpireMark, Fault
    <3>2. ASSUME NEW o \in Orders PROVE ~RollbackFails(o) /\ ~ReleaseListedFails(o)
      BY <1>3, <2>1, RollbackNeverFails, ReleaseNeverFails
         DEF WholeInv, RollbackFails, ReleaseListedFails
    <3>. QED  BY <1>3, <3>1, <3>2, Zenon
              DEF Next, ExpireStep, HandleCreated, HandleCancelled, CreatedStep, CancelStep
  <2>4. CASE x = o
    BY <1>3, <2>1, <2>2, <2>3, <2>4, WholeCreated, WholeCancelled
  <2>5. CASE x # o
    <3>1. Untouched(x)
      BY <1>3, <2>3, <2>5, CreatedEffect, CancelEffect
    <3>. QED  BY <2>2, <3>1 DEF Untouched, WholeOrder, Settled, Unreleased
  <2>. QED  BY <2>4, <2>5
<1>. QED  BY <1>1, <1>2, <1>3

\* A handled order.created has one outcome and the stock agrees with it, all lines
\* or none, for any number of competing orders, of lines and of redeliveries.
THEOREM HandledWhole == Spec => []AllOrNothing
<1>1. WholeInv => AllOrNothing
  BY DEF WholeInv, WholeOrder, Settled, Unreleased, AllOrNothing
<1>. QED  BY <1>1, StockInductive, OrderInductive, LedgerInductive, WholeInductive, PTL
          DEF Spec

-----------------------------------------------------------------------------
(* Layer 5: a published reservation is held until the cancellation comes *)

\* What an order has been promised.
Promised(o, p) == IF "reserved" \in outcome[o] THEN Demand(o)[p] ELSE 0

\* The order.created handler of an order that is handled again, and may fail again,
\* gives back no more than it took this time: what was promised before stays.
HeldOrder(o) ==
    xpc[o] = "absent" =>
        \A p \in Products :
            /\ reservation[o][p] >= Promised(o, p)
            /\ cpc[o] = "reserve" =>
                  reservation[o][p] >= Promised(o, p) + Partial(o, item[o] - 1)[p]
            /\ cpc[o] = "rollback" =>
                  reservation[o][p] >= Promised(o, p) + Partial(o, item[o])[p]
            /\ cpc[o] = "publishReserved" => reservation[o][p] >= Demand(o)[p]

HeldInv == \A o \in Orders : HeldOrder(o)

\* An order whose inventory.reserved was published holds all it asked for.
ReservedIsHeld ==
    \A o \in Orders : "reserved" \in outcome[o] /\ xpc[o] = "absent" =>
        \A p \in Products : reservation[o][p] >= Demand(o)[p]

\* The order.created handler keeps HeldOrder, with any faults.
LEMMA HeldCreated ==
    ASSUME StockInv, StockInv', NEW o \in Orders, HeldOrder(o), CreatedStep(o)
    PROVE  HeldOrder(o)'
<1>. SUFFICES ASSUME xpc'[o] = "absent", NEW p \in Products
              PROVE  /\ reservation'[o][p] >= Promised(o, p)'
                     /\ cpc'[o] = "reserve" => reservation'[o][p] >=
                           Promised(o, p)' + Partial(o, item'[o] - 1)[p]
                     /\ cpc'[o] = "rollback" => reservation'[o][p] >=
                           Promised(o, p)' + Partial(o, item'[o])[p]
                     /\ cpc'[o] = "publishReserved" => reservation'[o][p] >= Demand(o)[p]
  BY DEF HeldOrder
<1>0. /\ reservation[o][p] >= Promised(o, p)
      /\ cpc[o] = "reserve" =>
            reservation[o][p] >= Promised(o, p) + Partial(o, item[o] - 1)[p]
      /\ cpc[o] = "rollback" => reservation[o][p] >= Promised(o, p) + Partial(o, item[o])[p]
      /\ cpc[o] = "publishReserved" => reservation[o][p] >= Demand(o)[p]
  BY CreatedEffect DEF HeldOrder
<1>1. /\ cpc = [x \in Orders |-> cpc[x]] /\ item \in [Orders -> Nat]
      /\ outcome = [x \in Orders |-> outcome[x]]
      /\ reservation \in [Orders -> [Products -> Nat]]
      /\ reservation[o][p] \in Nat /\ reservation'[o][p] \in Nat
      /\ item[o] \in Nat /\ Len(Items[o]) \in Nat /\ item[o] <= Len(Items[o]) + 1
      /\ cpc[o] = "reserve" => item[o] >= 1
      /\ cpc[o] = "rollback" => item[o] < Len(Items[o])
  BY ItemsType DEF StockInv, TypeOK, ItemInRange
<1>2. Partial(o, 0)[p] = 0 /\ Partial(o, Len(Items[o]))[p] = Demand(o)[p]
  BY PartialNone, PartialAll DEF Nothing
<1>3. ASSUME NEW n \in 0 .. Len(Items[o]) PROVE Partial(o, n)[p] \in Nat
  BY PartialType
<1>4. Demand(o)[p] \in Nat /\ Promised(o, p) \in Nat
  BY <1>1, <1>2, <1>3 DEF Promised
<1>5. outcome'[o] = outcome[o] => Promised(o, p)' = Promised(o, p)
  BY DEF Promised
<1>6. CASE OrderCreated(o)
  BY <1>0, <1>1, <1>5, <1>6 DEF OrderCreated, stockVars
<1>7. CASE FetchCreated(o)
  <2>1. /\ outcome'[o] = outcome[o] /\ reservation'[o] = reservation[o]
        /\ cpc'[o] = "commit" \/ (cpc'[o] = "reserve" /\ item'[o] = 1)
    BY <1>1, <1>7 DEF FetchCreated, stockVars
  <2>. QED  BY <1>0, <1>2, <1>4, <1>5, <2>1
<1>8. ASSUME NEW n \in Lines(o), reservation[o][p] >= Promised(o, p) + Partial(o, n - 1)[p],
             Reserve(o, Items[o][n].product, Items[o][n].quantity)
      PROVE  reservation'[o][p] >= Promised(o, p) + Partial(o, n)[p]
  <2>1. /\ Items[o][n].product \in Products /\ Items[o][n].quantity \in Nat
        /\ n - 1 \in 0 .. Len(Items[o])
    BY ItemsType DEF Lines
  <2>2. reservation'[o][p] = reservation[o][p]
            + (IF Items[o][n].product = p THEN Items[o][n].quantity ELSE 0)
    BY <1>1, <1>8, <2>1 DEF Reserve
  <2>3. Partial(o, n - 1)[p] \in Nat
    BY <1>3, <2>1
  <2>. QED  BY <1>1, <1>4, <1>8, <2>1, <2>2, <2>3, PartialStep
<1>9. CASE ReserveStock(o)
  <2>1. item[o] \in Lines(o)
    BY <1>1, <1>9 DEF ReserveStock, Lines
  <2>2. reservation'[o][p] >= Promised(o, p) + Partial(o, item[o])[p]
    BY <1>0, <1>8, <1>9, <2>1 DEF ReserveStock, Line
  <2>3. /\ cpc'[o] = "reserve" /\ item'[o] - 1 = item[o] /\ outcome'[o] = outcome[o]
        /\ item[o] \in 0 .. Len(Items[o])
    BY <1>1, <1>9 DEF ReserveStock
  <2>. QED  BY <1>1, <1>3, <1>4, <1>5, <2>2, <2>3
<1>10. CASE ReserveFails(o)
  <2>1. /\ cpc[o] = "reserve" /\ cpc'[o] = "rollback" /\ item'[o] = item[o] - 1
        /\ outcome'[o] = outcome[o] /\ item[o] \in Lines(o) /\ item[o] - 1 \in 0 .. Len(Items[o])
    BY <1>1, <1>10 DEF ReserveFails, Lines
  <2>2. Partial(o, item[o] - 1)[p] \in Nat
    BY <1>3, <2>1
  <2>3. reservation'[o][p] >= reservation[o][p]
    <3>1. CASE reservation' = reservation
      BY <1>1, <3>1
    <3>2. CASE Reserve(o, Line(o).product, Line(o).quantity)
      <4>1. Line(o).product \in Products /\ Line(o).quantity \in Nat
        BY <2>1, ItemsType DEF Line
      <4>. QED  BY <1>1, <3>2, <4>1 DEF Reserve
    <3>. QED  BY <1>10, <3>1, <3>2 DEF ReserveFails, stockVars
  <2>. QED  BY <1>0, <1>1, <1>4, <1>5, <2>1, <2>2, <2>3
<1>11. CASE RollbackLine(o)
  <2>. DEFINE n == item[o]
  <2>1. /\ n \in Lines(o) /\ n - 1 \in 0 .. Len(Items[o]) /\ cpc[o] = "rollback"
        /\ cpc'[o] = "rollback" /\ item'[o] = n - 1 /\ outcome'[o] = outcome[o]
    BY <1>1, <1>11 DEF RollbackLine, Lines
  <2>2. Items[o][n].product \in Products /\ Items[o][n].quantity \in Nat
    BY <2>1, ItemsType
  <2>3. reservation'[o][p] = reservation[o][p]
            - (IF Items[o][n].product = p THEN Items[o][n].quantity ELSE 0)
    BY <1>1, <1>11, <2>2 DEF RollbackLine, Line, Release
  <2>4. Partial(o, n)[p] = Partial(o, n - 1)[p]
            + (IF Items[o][n].product = p THEN Items[o][n].quantity ELSE 0)
    BY <2>1, PartialStep
  <2>5. Partial(o, n - 1)[p] \in Nat
    BY <1>3, <2>1
  <2>6. reservation'[o][p] >= Promised(o, p) + Partial(o, n - 1)[p]
    <3>. HIDE DEF n
    <3>. QED  BY <1>0, <1>1, <1>4, <2>1, <2>2, <2>3, <2>4, <2>5 DEF n
  <2>. QED  BY <1>1, <1>4, <1>5, <2>1, <2>5, <2>6
<1>12. CASE ReserveAllReturns(o)
  <2>1. outcome'[o] = outcome[o] /\ reservation'[o] = reservation[o]
    BY <1>12 DEF ReserveAllReturns, stockVars
  <2>2. CASE cpc[o] = "reserve"
    <3>1. item[o] - 1 = Len(Items[o]) /\ cpc'[o] = "publishReserved"
      BY <1>1, <1>12, <2>2 DEF ReserveAllReturns
    <3>. QED  BY <1>0, <1>1, <1>2, <1>4, <1>5, <2>1, <2>2, <3>1
  <2>3. CASE cpc[o] # "reserve"
    <3>1. cpc'[o] = "publishFailed"
      BY <1>1, <1>12, <2>3 DEF ReserveAllReturns
    <3>. QED  BY <1>0, <1>5, <2>1, <3>1
  <2>. QED  BY <2>2, <2>3
<1>13. CASE PublishOutcome(o)
  <2>1. cpc'[o] = "mark" /\ reservation'[o] = reservation[o]
    BY <1>1, <1>13 DEF PublishOutcome, stockVars
  <2>2. CASE cpc[o] = "publishReserved"
    <3>1. Promised(o, p)' = Demand(o)[p]
      BY <1>1, <1>13, <2>2 DEF PublishOutcome, Promised
    <3>. QED  BY <1>0, <2>1, <2>2, <3>1
  <2>3. CASE cpc[o] # "publishReserved"
    <3>1. Promised(o, p)' = Promised(o, p)
      BY <1>1, <1>13, <2>3 DEF PublishOutcome, Promised
    <3>. QED  BY <1>0, <2>1, <3>1
  <2>. QED  BY <2>2, <2>3
<1>14. CASE MarkCreatedProcessed(o) \/ CommitCreated(o) \/ RedeliverCreated(o)
  <2>1. /\ cpc'[o] \in {"commit", "done", "fetch"} /\ outcome'[o] = outcome[o]
        /\ reservation'[o] = reservation[o]
    BY <1>1, <1>14 DEF MarkCreatedProcessed, CommitCreated, RedeliverCreated, stockVars
  <2>. QED  BY <1>0, <1>5, <2>1
<1>. QED  BY <1>6, <1>7, <1>9, <1>10, <1>11, <1>12, <1>13, <1>14,
             Zenon DEF CreatedStep

\* HeldInv is inductive, given StockInv: the order.cancelled handler takes nothing from
\* an order that it was not told to cancel.
LEMMA HeldInductive ==
    /\ Init => HeldInv
    /\ StockInv /\ HeldInv /\ [Next]_vars => HeldInv'
<1>1. ASSUME Init PROVE HeldInv
  BY <1>1 DEF Init, HeldInv, HeldOrder, Promised, Nothing
<1>2. ASSUME HeldInv, UNCHANGED vars PROVE HeldInv'
  BY <1>2 DEF vars, stockVars, createdVars, cancelVars, HeldInv, HeldOrder, Promised
<1>3. ASSUME StockInv, HeldInv, Next, NEW x \in Orders PROVE HeldOrder(x)'
  <2>1. StockInv' /\ HeldOrder(x)
    BY <1>3, StockInductive DEF HeldInv
  <2>2. ASSUME NEW o \in Orders, CreatedStep(o) \/ CancelStep(o) PROVE HeldOrder(x)'
    <3>1. CASE x = o /\ CreatedStep(o)
      BY <1>3, <2>1, <3>1, HeldCreated
    <3>2. CASE x = o /\ CancelStep(o)
      <4>1. xpc'[o] # "absent"
        BY <1>3, <3>2 DEF StockInv, TypeOK, CancelStep, OrderCancelled, FetchCancelled,
           ListReservations, ReleaseListed, MarkCancelledProcessed, CommitCancelled,
           RedeliverCancelled
      <4>. QED  BY <3>2, <4>1 DEF HeldOrder
    <3>3. CASE x # o
      <4>1. Untouched(x)
        BY <1>3, <2>2, <3>3, CreatedEffect, CancelEffect
      <4>. QED  BY <2>1, <4>1 DEF Untouched, HeldOrder, Promised
    <3>. QED  BY <2>2, <3>1, <3>2, <3>3
  <2>3. ASSUME StopStep \/ ExpireStep PROVE HeldOrder(x)'
    BY <1>3, <2>1, <2>3, ServiceEffect DEF HeldOrder, Promised, stockVars
  <2>. QED  BY <1>3, <2>2, <2>3, StepKinds, Zenon
<1>. QED  BY <1>1, <1>2, <1>3 DEF HeldInv

\* An order whose inventory.reserved was published holds all it asked for until its
\* cancellation arrives, although the handler may run again, fail at any line and
\* roll back.
THEOREM ReservationKept == Spec => []ReservedIsHeld
<1>1. HeldInv => ReservedIsHeld
  BY DEF HeldInv, HeldOrder, Promised, ReservedIsHeld
<1>. QED  BY <1>1, StockInductive, HeldInductive, PTL DEF Spec

=============================================================================
