------------------------------ MODULE ListingProofs ------------------------------
(***************************************************************************)
(* Proofs about Listing, for any set of rows, any requests and any page    *)
(* size: an answer is the window it says it is, and a walk misses no row   *)
(* that was stored when it began and not deleted since.                    *)
(***************************************************************************)
EXTENDS Listing, FiniteSetTheorems, WellFoundedInduction, TLAPS

-----------------------------------------------------------------------------
(* Positions and windows *)

\* A set of numbers that is not empty has a smallest one.
LEMMA LeastNumber ==
    ASSUME NEW S \in SUBSET Nat, S # {}
    PROVE  \E x \in S : \A y \in S : x <= y
<1>. DEFINE R == OpToRel(<, Nat)
<1>1. R = {p \in Nat \X Nat : p[1] < p[2]}
  BY DEF OpToRel
<1>2. IsWellFoundedOn(R, Nat)
  BY NatLessThanWellFounded
<1>3. PICK x \in S : \A y \in S : ~(<<y, x>> \in R)
  <2>. HIDE DEF R
  <2>. QED  BY <1>2, WFMin
<1>4. ASSUME NEW y \in S PROVE x <= y
  <2>. HIDE DEF R
  <2>1. x \in Nat /\ y \in Nat
    OBVIOUS
  <2>2. ~(y < x)
    BY <1>1, <1>3, <2>1
  <2>. QED  BY <2>1, <2>2
<1>. QED  BY <1>4

\* A table of numbered rows.
Table(t) == t \in SUBSET Nat /\ IsFiniteSet(t)

\* The position of a row lies between 1 and the number of rows.
LEMMA PositionType ==
    ASSUME NEW t, Table(t), NEW r \in Nat
    PROVE  /\ Position(t, r) \in Nat /\ Cardinality(t) \in Nat
           /\ Position(t, r) <= Cardinality(t)
           /\ r \in t => Position(t, r) >= 1
<1>. DEFINE S == {x \in t : x <= r}
<1>1. IsFiniteSet(S) /\ Cardinality(S) <= Cardinality(t)
  BY FS_Subset DEF Table
<1>2. Cardinality(S) \in Nat /\ Cardinality(t) \in Nat
  BY <1>1, FS_CardinalityType DEF Table
<1>3. r \in t => Cardinality(S) # 0
  BY <1>1, FS_EmptySet
<1>. QED  BY <1>1, <1>2, <1>3 DEF Position

\* A row that comes later has a higher position.
LEMMA PositionOrder ==
    ASSUME NEW t, Table(t), NEW x \in t, NEW y \in t, x < y
    PROVE  Position(t, x) < Position(t, y)
<1>. DEFINE S == {z \in t : z <= x}
            T == {z \in t : z <= y}
<1>0. t \subseteq Nat
  BY DEF Table
<1>1. IsFiniteSet(T) /\ IsFiniteSet(S)
  BY FS_Subset DEF Table
<1>2. S \in SUBSET T /\ y \in T /\ y \notin S
  <2>1. x \in Nat /\ y \in Nat /\ \A z \in t : z \in Nat
    BY <1>0
  <2>2. ASSUME NEW z \in S PROVE z \in T
    BY <2>1
  <2>3. y \in T /\ y \notin S
    BY <2>1
  <2>. HIDE DEF S, T
  <2>. QED  BY <2>2, <2>3
<1>3. Cardinality(S) <= Cardinality(T) /\ Cardinality(S) # Cardinality(T)
  <2>. HIDE DEF S, T
  <2>. QED  BY <1>1, <1>2, FS_Subset
<1>4. Cardinality(S) \in Nat /\ Cardinality(T) \in Nat
  BY <1>1, FS_CardinalityType
<1>. QED  BY <1>3, <1>4 DEF Position

\* Inserted rows push a row to higher positions, never to lower ones.
LEMMA PositionGrows ==
    ASSUME NEW t, NEW u, Table(u), t \subseteq u, NEW r
    PROVE  Position(t, r) <= Position(u, r)
<1>. DEFINE S == {x \in t : x <= r}
            T == {x \in u : x <= r}
<1>1. IsFiniteSet(T) /\ S \in SUBSET T
  BY FS_Subset DEF Table
<1>2. Cardinality(S) <= Cardinality(T)
  <2>. HIDE DEF S, T
  <2>. QED  BY <1>1, FS_Subset
<1>. QED  BY <1>2 DEF Position

\* The rows at the first n positions.
First(t, n) == {x \in t : Position(t, x) <= n}

\* They are n at most.
LEMMA FirstAtMost ==
    ASSUME NEW t, Table(t), NEW n \in Nat
    PROVE  IsFiniteSet(First(t, n)) /\ Cardinality(First(t, n)) <= n
<1>0. t \subseteq Nat /\ IsFiniteSet(t)
  BY DEF Table
<1>1. First(t, n) \in SUBSET t
  BY DEF First
<1>2. IsFiniteSet(First(t, n))
  BY <1>0, <1>1, FS_Subset
<1>3. CASE First(t, n) = {}
  BY <1>2, <1>3, FS_EmptySet
<1>4. CASE First(t, n) # {}
  <2>. DEFINE D == {n - Position(t, x) : x \in First(t, n)}
  <2>1. D \in SUBSET Nat /\ D # {}
    <3>1. ASSUME NEW x \in First(t, n) PROVE n - Position(t, x) \in Nat
      <4>1. x \in Nat /\ Position(t, x) <= n
        BY <1>0 DEF First
      <4>2. Position(t, x) \in Nat
        BY <4>1, PositionType
      <4>. QED  BY <4>1, <4>2
    <3>. QED  BY <1>4, <3>1
  <2>2. PICK d \in D : \A e \in D : d <= e
    <3>. HIDE DEF D
    <3>. QED  BY <2>1, LeastNumber
  <2>3. PICK x \in First(t, n) : d = n - Position(t, x)
    BY <2>2
  <2>4. ASSUME NEW y \in First(t, n) PROVE y <= x
    <3>1. n - Position(t, x) <= n - Position(t, y)
      BY <2>2, <2>3
    <3>2. Position(t, x) \in Nat /\ Position(t, y) \in Nat /\ x \in t /\ y \in t
      BY <1>0, PositionType DEF First
    <3>. QED  BY <1>0, <3>1, <3>2, PositionOrder
  <2>5. First(t, n) \in SUBSET {y \in t : y <= x}
    BY <2>4 DEF First
  <2>6. IsFiniteSet({y \in t : y <= x})
    BY <1>0, FS_Subset
  <2>7. Cardinality(First(t, n)) <= Position(t, x)
    BY <2>5, <2>6, FS_Subset DEF Position
  <2>8. /\ Position(t, x) <= n /\ Position(t, x) \in Nat
        /\ Cardinality(First(t, n)) \in Nat
    BY <1>0, <1>2, PositionType, FS_CardinalityType DEF First
  <2>. QED  BY <1>2, <2>7, <2>8
<1>. QED  BY <1>3, <1>4

\* They are n at least, if a row lies behind them.
LEMMA FirstAtLeast ==
    ASSUME NEW t, Table(t), NEW n \in Nat, NEW r \in t, Position(t, r) > n
    PROVE  Cardinality(First(t, n)) >= n
<1>0. t \subseteq Nat /\ IsFiniteSet(t)
  BY DEF Table
<1>. DEFINE B == t \ First(t, n)
<1>1. B \in SUBSET Nat /\ r \in B
  <2>1. r \in Nat
    BY <1>0
  <2>2. Position(t, r) \in Nat
    BY <2>1, PositionType
  <2>3. r \notin First(t, n)
    BY <2>2 DEF First
  <2>. QED  BY <1>0, <2>3
<1>2. PICK m \in B : \A y \in B : m <= y
  <2>. HIDE DEF B
  <2>. QED  BY <1>1, LeastNumber
<1>. DEFINE S == {x \in t : x <= m}
<1>3. IsFiniteSet(First(t, n))
  BY <1>0, FS_Subset DEF First
<1>4. S \in SUBSET (First(t, n) \cup {m})
  <2>1. ASSUME NEW x \in S, x \notin First(t, n) PROVE x = m
    <3>1. x \in Nat /\ m \in Nat /\ x <= m /\ m <= x
      BY <1>0, <1>2, <2>1
    <3>. QED  BY <3>1
  <2>. QED  BY <2>1
<1>5. /\ IsFiniteSet(First(t, n) \cup {m})
      /\ Cardinality(First(t, n) \cup {m}) = Cardinality(First(t, n)) + 1
  BY <1>2, <1>3, FS_AddElement
<1>6. Cardinality(S) <= Cardinality(First(t, n)) + 1
  <2>. HIDE DEF S
  <2>. QED  BY <1>4, <1>5, FS_Subset
<1>7. Cardinality(S) > n /\ Cardinality(S) \in Nat
  <2>1. Position(t, m) \in Nat /\ ~(Position(t, m) <= n)
    BY <1>0, <1>2, PositionType DEF First
  <2>. QED  BY <2>1 DEF Position
<1>8. Cardinality(First(t, n)) \in Nat
  BY <1>3, FS_CardinalityType
<1>. QED  BY <1>6, <1>7, <1>8

\* A window that is not full is the last: no row lies behind it.
LEMMA ShortWindow ==
    ASSUME NEW t, Table(t), NEW limit \in Nat, NEW offset \in Nat,
           Cardinality(Window(t, limit, offset)) < limit, NEW r \in t
    PROVE  Position(t, r) <= offset + limit
<1>0. t \subseteq Nat /\ IsFiniteSet(t)
  BY DEF Table
<1>. SUFFICES ASSUME Position(t, r) > offset + limit PROVE FALSE
  BY <1>0, PositionType
<1>. DEFINE W == Window(t, limit, offset)
            A == First(t, offset)
            B == First(t, offset + limit)
<1>1. Cardinality(B) >= offset + limit
  BY FirstAtLeast
<1>2. IsFiniteSet(A) /\ Cardinality(A) <= offset /\ IsFiniteSet(B)
  BY FirstAtMost
<1>3. IsFiniteSet(W)
  BY <1>0, FS_Subset DEF Window
<1>4. B \in SUBSET (A \cup W)
  <2>1. ASSUME NEW x \in B, x \notin A PROVE x \in W
    <3>1. x \in t /\ x \in Nat /\ Position(t, x) <= offset + limit
          /\ ~(Position(t, x) <= offset)
      BY <1>0, <2>1 DEF First
    <3>2. Position(t, x) \in Nat
      BY <3>1, PositionType
    <3>3. Position(t, x) \in (offset + 1) .. (offset + limit)
      BY <3>1, <3>2
    <3>. QED  BY <3>1, <3>3 DEF Window
  <2>. QED  BY <2>1
<1>5. /\ IsFiniteSet(A \cup W)
      /\ Cardinality(A \cup W) <= Cardinality(A) + Cardinality(W)
  <2>. HIDE DEF A, W
  <2>1. /\ IsFiniteSet(A \cup W) /\ IsFiniteSet(A \cap W)
        /\ Cardinality(A \cup W) = Cardinality(A) + Cardinality(W) - Cardinality(A \cap W)
    BY <1>2, <1>3, FS_Union, FS_Intersection
  <2>2. /\ Cardinality(A \cup W) \in Nat /\ Cardinality(A \cap W) \in Nat
        /\ Cardinality(A) \in Nat /\ Cardinality(W) \in Nat
    BY <1>2, <1>3, <2>1, FS_CardinalityType
  <2>. QED  BY <2>1, <2>2
<1>6. Cardinality(B) <= Cardinality(A \cup W)
  <2>. HIDE DEF A, B, W
  <2>. QED  BY <1>4, <1>5, FS_Subset
<1>7. /\ Cardinality(A) \in Nat /\ Cardinality(B) \in Nat /\ Cardinality(W) \in Nat
      /\ Cardinality(A \cup W) \in Nat
  BY <1>2, <1>3, <1>5, FS_CardinalityType
<1>. QED  BY <1>1, <1>2, <1>5, <1>6, <1>7

\* A window behind the last row is empty.
LEMMA WindowPastEnd ==
    ASSUME NEW t, Table(t), NEW limit \in Nat, NEW offset \in Nat, Cardinality(t) <= offset
    PROVE  Window(t, limit, offset) = {}
<1>1. ASSUME NEW r \in t PROVE Position(t, r) <= offset /\ Position(t, r) \in Nat
  <2>1. r \in Nat
    BY DEF Table
  <2>2. /\ Position(t, r) \in Nat /\ Cardinality(t) \in Nat
        /\ Position(t, r) <= Cardinality(t)
    BY <2>1, PositionType
  <2>. QED  BY <2>2
<1>. QED  BY <1>1 DEF Window

-----------------------------------------------------------------------------
(* Types *)

\* Every number of rows fits into 32 bits.
LEMMA TableType ==
    ASSUME NEW t \in SUBSET Rows
    PROVE  /\ Table(t) /\ Cardinality(t) \in Nat
           /\ Cardinality(t) <= Cardinality(Rows) /\ Cardinality(Rows) < MaxInt32
           /\ Cardinality(Rows) \in Nat /\ MaxInt32 \in Nat
<1>0. /\ IsFiniteSet(Rows) /\ Rows \in SUBSET Nat
      /\ Cardinality(Rows) < MaxInt32 /\ MaxInt32 \in Nat
  BY ListingConstants
<1>1. IsFiniteSet(t) /\ Cardinality(t) <= Cardinality(Rows)
  BY <1>0, FS_Subset
<1>2. Cardinality(t) \in Nat /\ Cardinality(Rows) \in Nat
  BY <1>0, <1>1, FS_CardinalityType
<1>. QED  BY <1>0, <1>1, <1>2 DEF Table

\* Go's conversion yields an int32, and leaves one that is not negative alone.
LEMMA Int32Type ==
    ASSUME NEW n \in Int
    PROVE  Int32(n) \in Int32s /\ (n \in 0 .. MaxInt32 => Int32(n) = n)
<1>. DEFINE range == 2 * (MaxInt32 + 1)
            low == n % range
<1>0. MaxInt32 \in Nat
  BY ListingConstants
<1>1. range \in Nat /\ range > 0
  BY <1>0
<1>2. low \in 0 .. (range - 1)
  <2>. HIDE DEF range
  <2>. QED  BY <1>1
<1>3. n \in 0 .. MaxInt32 => low = n
  <2>1. n \in 0 .. MaxInt32 => n \in Nat /\ n < range
    BY <1>0
  <2>. HIDE DEF range
  <2>. QED  BY <1>1, <2>1
<1>4. Int32(n) = IF low > MaxInt32 THEN low - range ELSE low
  BY DEF Int32
<1>. QED  BY <1>0, <1>2, <1>3, <1>4 DEF Int32s

\* The gateway's page and page_size are what the services can serve.
LEMMA HTTPType ==
    /\ \A p \in Pages : HTTPPage(p) \in Int
    /\ \A s \in Int : HTTPSize(s) \in 1 .. MaxSize
    /\ \A s \in Int : Int32(HTTPSize(s)) = HTTPSize(s)
    /\ MaxSize \in Nat /\ MaxSize <= MaxInt32
<1>0. MaxSize \in Nat /\ MaxSize <= MaxInt32 /\ DefaultSize \in 1 .. MaxSize
      /\ MaxInt32 \in Nat /\ Pages \subseteq Int
  BY ListingConstants
<1>1. \A p \in Pages : HTTPPage(p) \in Int
  BY <1>0 DEF HTTPPage
<1>2. \A s \in Int : HTTPSize(s) \in 1 .. MaxSize
  BY <1>0 DEF HTTPSize
<1>3. \A s \in Int : HTTPSize(s) \in 0 .. MaxInt32 /\ HTTPSize(s) \in Int
  BY <1>0, <1>2
<1>. QED  BY <1>0, <1>1, <1>2, <1>3, Int32Type

\* A client that does not walk.
LEMMA NoWalkType ==
    NoWalk \in [at : {"off", "on", "ended"}, page : 1..(Cardinality(Rows) + 1),
                size : Sizes \cup {0}]
<1>1. 1 \in 1 .. (Cardinality(Rows) + 1) /\ 0 \in Sizes \cup {0}
  BY TableType
<1>. QED  BY <1>1 DEF NoWalk

\* The walk's page and size are numbers the gateway passes on.
LEMMA WalkType ==
    ASSUME TypeOK
    PROVE  /\ walk.page \in Nat /\ walk.page >= 1 /\ walk.page <= MaxInt32
           /\ walk.size \in Int
<1>1. walk.page \in 1 .. (Cardinality(Rows) + 1) /\ walk.size \in Sizes \cup {0}
  BY DEF TypeOK
<1>2. Cardinality(Rows) \in Nat /\ MaxInt32 \in Nat /\ Cardinality(Rows) < MaxInt32
  BY TableType
<1>3. \A x \in Sizes \cup {0} : x \in Int
  BY ListingConstants
<1>4. walk.size \in Int
  BY <1>1, <1>3, Zenon
<1>. QED  BY <1>1, <1>2, <1>4

\* Every step keeps the types.
LEMMA TypeStep == ASSUME TypeOK, Next PROVE TypeOK'
<1>. USE DEF TypeOK
<1>0. /\ Cardinality(table) \in 0 .. Cardinality(Rows) /\ Cardinality(Rows) \in Nat
      /\ Cardinality(Rows) < MaxInt32 /\ MaxInt32 \in Nat
      /\ Sizes \subseteq Int /\ 0 \in Int32s
  BY TableType, ListingConstants DEF Int32s
<1>1. NoCall \in [at : {"none", "count", "select"}, page : Int32s, size : Int32s,
                  total : 0..Cardinality(Rows)]
  BY <1>0 DEF NoCall
<1>2. ASSUME NEW p \in Int32s, NEW s \in Int32s, Request(p, s),
             UNCHANGED <<listing, table, walkVars>>
      PROVE  TypeOK'
  BY <1>0, <1>2 DEF Request, walkVars
<1>3. ASSUME NEW r \in Rows, InsertRow(r) PROVE TypeOK'
  BY <1>3 DEF InsertRow, walkVars
<1>4. ASSUME NEW r \in Rows, DeleteRow(r) PROVE TypeOK'
  BY <1>4 DEF DeleteRow
<1>5. ASSUME NEW p \in Pages, NEW s \in Sizes, GRPCList(p, s) \/ HTTPList(p, s) PROVE TypeOK'
  <2>1. Int32(HTTPPage(p)) \in Int32s /\ Int32(HTTPSize(s)) \in Int32s
    <3>1. HTTPPage(p) \in Int /\ HTTPSize(s) \in Int
      BY <1>0, HTTPType
    <3>. QED  BY <3>1, Int32Type
  <2>. QED  BY <1>2, <1>5, <2>1 DEF GRPCList, HTTPList
<1>6. ASSUME NEW s \in Sizes, StartWalk(s) PROVE TypeOK'
  <2>1. 1 \in 1 .. (Cardinality(Rows) + 1) /\ s \in Sizes \cup {0}
    BY <1>0
  <2>2. walk' \in [at : {"off", "on", "ended"}, page : 1..(Cardinality(Rows) + 1),
                   size : Sizes \cup {0}]
    BY <1>6, <2>1 DEF StartWalk
  <2>. QED  BY <1>6, <2>2 DEF StartWalk
<1>7. CASE WalkPage
  <2>1. Int32(HTTPPage(walk.page)) \in Int32s /\ Int32(HTTPSize(walk.size)) \in Int32s
    <3>1. walk.page \in Int /\ walk.size \in Int
      BY WalkType
    <3>2. HTTPPage(walk.page) \in Int /\ HTTPSize(walk.size) \in Int
      BY <3>1, HTTPType DEF HTTPPage
    <3>. QED  BY <3>2, Int32Type
  <2>. QED  BY <1>2, <1>7, <2>1 DEF WalkPage
<1>8. CASE RefuseNegative \/ ListFails
  BY <1>1, <1>8 DEF RefuseNegative, ListFails, walkVars
<1>9. ASSUME NEW rows \in SUBSET Rows, NEW total \in 0 .. Cardinality(Rows)
      PROVE  Answered(call, rows, total) \in [rows : SUBSET Rows, page : 1..MaxInt32,
                                              pageSize : 0..MaxInt32]
  <2>1. call.page \in Int32s /\ call.size \in Int32s
    OBVIOUS
  <2>2. Page(call) \in 1 .. MaxInt32
    BY <1>0, <2>1 DEF Page, Int32s
  <2>3. clampInt64ToInt32(Limit(call, total)) \in 0 .. MaxInt32
    BY <1>0, <2>1 DEF Limit, Int32s, clampInt64ToInt32
  <2>. QED  BY <2>2, <2>3 DEF Answered
<1>10. CASE CountRows
  <2>1. Answered(call, {}, Cardinality(table)) \in [rows : SUBSET Rows, page : 1..MaxInt32,
                                                    pageSize : 0..MaxInt32]
    BY <1>0, <1>9
  <2>. QED  BY <1>0, <1>1, <1>10, <2>1 DEF CountRows, walkVars
<1>11. CASE SelectRows
  <2>1. \A limit, offset : Window(table, limit, offset) \in SUBSET Rows
    BY DEF Window
  <2>2. call.total \in 0 .. Cardinality(Rows)
    OBVIOUS
  <2>3. answer' \in [rows : SUBSET Rows, page : 1..MaxInt32, pageSize : 0..MaxInt32]
    BY <1>9, <1>11, <2>1, <2>2 DEF SelectRows
  <2>. QED  BY <1>1, <1>11, <2>3 DEF SelectRows, walkVars
<1>12. CASE TakePage
  <2>1. answer.rows \subseteq Rows
    BY DEF NoAnswer
  <2>2. walk' \in [at : {"off", "on", "ended"}, page : 1..(Cardinality(Rows) + 1),
                   size : Sizes \cup {0}]
    <3>1. CASE ShortPage
      BY <1>12, <3>1 DEF TakePage
    <3>2. CASE ~ShortPage
      BY <1>0, <1>12, <3>2 DEF TakePage
    <3>. QED  BY <3>1, <3>2
  <2>. QED  BY <1>12, <2>1, <2>2 DEF TakePage
<1>13. CASE ForgetWalk
  <2>1. NoWalk \in [at : {"off", "on", "ended"}, page : 1..(Cardinality(Rows) + 1),
                    size : Sizes \cup {0}]
    BY <1>0, NoWalkType
  <2>. QED  BY <1>13, <2>1 DEF ForgetWalk
<1>. QED  BY <1>3, <1>4, <1>5, <1>6, <1>7, <1>8, <1>10, <1>11, <1>12, <1>13, Zenon DEF Next

\* TypeOK is inductive.
LEMMA TypeInductive == (Init => TypeOK) /\ (TypeOK /\ [Next]_vars => TypeOK')
<1>1. ASSUME Init PROVE TypeOK
  <2>1. Cardinality(Rows) \in Nat /\ 0 \in Int32s
    BY TableType, ListingConstants DEF Int32s
  <2>2. NoCall \in [at : {"none", "count", "select"}, page : Int32s, size : Int32s,
                    total : 0..Cardinality(Rows)]
    BY <2>1 DEF NoCall
  <2>3. walk \in [at : {"off", "on", "ended"}, page : 1..(Cardinality(Rows) + 1),
                  size : Sizes \cup {0}]
    BY <1>1, NoWalkType DEF Init
  <2>4. call \in [at : {"none", "count", "select"}, page : Int32s, size : Int32s,
                  total : 0..Cardinality(Rows)]
    BY <1>1, <2>2 DEF Init
  <2>. QED  BY <1>1, <2>3, <2>4 DEF Init, TypeOK
<1>2. ASSUME TypeOK, UNCHANGED vars PROVE TypeOK'
  BY <1>2 DEF TypeOK, vars
<1>. QED  BY <1>1, <1>2, TypeStep

\* Every reachable state is well typed: page numbers and sizes are int32 everywhere
\* behind the gateway, and an answer's page is positive.
THEOREM ListingTypeCorrect == Spec => []TypeOK
  BY TypeInductive, PTL DEF Spec

-----------------------------------------------------------------------------
(* An answer is a window *)

\* While a call is served there is no answer, and the SELECT is only made for a page
\* that begins before the counted end.
CallInv ==
    /\ call.at = "none" => call = NoCall
    /\ call.at # "none" => answer = NoAnswer
    /\ call.at = "select" => Offset(call, call.total) < call.total

\* The numbers a repository computes from a request, after its defaults.
LEMMA LimitType ==
    ASSUME TypeOK, NEW total \in 0 .. Cardinality(Rows)
    PROVE  /\ Limit(call, total) \in Nat /\ Limit(call, total) <= MaxInt32
           /\ clampInt64ToInt32(Limit(call, total)) = Limit(call, total)
           /\ Page(call) \in Nat /\ Page(call) >= 1
           /\ Offset(call, total) \in Nat
<1>0. /\ Cardinality(Rows) \in Nat /\ MaxInt32 \in Nat /\ Cardinality(Rows) < MaxInt32
      /\ call.page \in Int32s /\ call.size \in Int32s
  BY TableType DEF TypeOK
<1>1. Limit(call, total) \in Nat /\ Limit(call, total) <= MaxInt32
  BY <1>0 DEF Limit, Int32s
<1>2. Page(call) \in Nat /\ Page(call) >= 1
  BY <1>0 DEF Page, Int32s
<1>3. clampInt64ToInt32(Limit(call, total)) = Limit(call, total)
  BY <1>0, <1>1 DEF clampInt64ToInt32
<1>4. Offset(call, total) \in Nat
  BY <1>1, <1>2 DEF Offset
<1>. QED  BY <1>1, <1>2, <1>3, <1>4

\* The answer after COUNT: a page past the end.
LEMMA CountAnswers ==
    ASSUME TypeOK, CountRows, answer' # answer
    PROVE  /\ answer' = [rows |-> {}, page |-> Page(call),
                         pageSize |-> Limit(call, Cardinality(table))]
           /\ Cardinality(table) <= Offset(call, Cardinality(table))
<1>. DEFINE total == Cardinality(table)
<1>1. Table(table) /\ total \in Nat /\ total \in 0 .. Cardinality(Rows)
  BY TableType DEF TypeOK
<1>2. /\ clampInt64ToInt32(Limit(call, total)) = Limit(call, total)
      /\ Offset(call, total) \in Nat
  BY <1>1, LimitType
<1>3. (total = 0 \/ Offset(call, total) >= total) /\ answer' = Answered(call, {}, total)
  BY DEF CountRows
<1>4. total <= Offset(call, total)
  BY <1>1, <1>2, <1>3
<1>. QED  BY <1>2, <1>3, <1>4 DEF Answered

\* The answer after SELECT: the window, cut nowhere.
LEMMA SelectAnswers ==
    ASSUME TypeOK, CallInv, SelectRows
    PROVE  answer' = [rows |-> Window(table, Limit(call, call.total), Offset(call, call.total)),
                      page |-> Page(call), pageSize |-> Limit(call, call.total)]
<1>1. /\ call.total \in 0 .. Cardinality(Rows) /\ call.at = "select"
      /\ Cardinality(Rows) \in Nat /\ MaxInt32 \in Nat /\ Cardinality(Rows) < MaxInt32
  BY TableType DEF TypeOK, SelectRows
<1>2. /\ clampInt64ToInt32(Limit(call, call.total)) = Limit(call, call.total)
      /\ Offset(call, call.total) \in Nat
  BY <1>1, LimitType
<1>3. Offset(call, call.total) < call.total
  BY <1>1 DEF CallInv
<1>4. clampInt64ToInt32(Offset(call, call.total)) = Offset(call, call.total)
  BY <1>1, <1>2, <1>3 DEF clampInt64ToInt32
<1>. QED  BY <1>2, <1>4 DEF SelectRows, Answered

\* CallInv is inductive.
LEMMA CallInductive ==
    /\ Init => CallInv
    /\ TypeOK /\ CallInv /\ [Next]_vars => CallInv'
<1>1. ASSUME Init PROVE CallInv
  BY <1>1 DEF Init, CallInv, NoCall
<1>2. ASSUME CallInv, UNCHANGED vars PROVE CallInv'
  BY <1>2 DEF CallInv, vars
<1>3. ASSUME TypeOK, CallInv, Next PROVE CallInv'
  <2>1. ASSUME NEW p, NEW s, Request(p, s) PROVE CallInv'
    BY <2>1 DEF Request, CallInv
  <2>2. ASSUME call' = NoCall PROVE CallInv'
    BY <2>2 DEF CallInv, NoCall
  <2>3. ASSUME UNCHANGED <<call, answer>> PROVE CallInv'
    BY <1>3, <2>3 DEF CallInv
  <2>4. ASSUME call' = call, answer' = NoAnswer PROVE CallInv'
    BY <1>3, <2>4 DEF CallInv
  <2>5. ASSUME NEW r, InsertRow(r) \/ DeleteRow(r) PROVE CallInv'
    BY <2>3, <2>5 DEF InsertRow, DeleteRow
  <2>6. ASSUME NEW p, NEW s, GRPCList(p, s) \/ HTTPList(p, s) PROVE CallInv'
    BY <2>1, <2>6 DEF GRPCList, HTTPList
  <2>7. ASSUME NEW s, StartWalk(s) PROVE CallInv'
    BY <2>4, <2>7 DEF StartWalk
  <2>8. CASE WalkPage
    BY <2>1, <2>8 DEF WalkPage
  <2>9. CASE RefuseNegative \/ SelectRows \/ ListFails
    BY <2>2, <2>9 DEF RefuseNegative, SelectRows, ListFails
  <2>10. CASE CountRows
    <3>1. CASE call' = NoCall
      BY <2>2, <3>1
    <3>2. CASE call' # NoCall
      <4>. DEFINE total == Cardinality(table)
      <4>1. /\ call' = [call EXCEPT !.at = "select", !.total = total] /\ answer' = answer
            /\ ~(Offset(call, total) >= total) /\ call.at = "count"
        BY <2>10, <3>2 DEF CountRows
      <4>2. total \in 0 .. Cardinality(Rows) /\ total \in Nat
        BY <1>3, TableType DEF TypeOK
      <4>3. Offset(call, total) \in Nat
        BY <1>3, <4>2, LimitType
      <4>4. /\ call'.page = call.page /\ call'.size = call.size /\ call'.total = total
            /\ call'.at = "select"
        BY <1>3, <4>1 DEF TypeOK
      <4>5. Offset(call', call'.total) = Offset(call, total)
        BY <4>4 DEF Offset, Page, Limit
      <4>6. answer = NoAnswer
        BY <1>3, <4>1 DEF CallInv
      <4>. QED  BY <4>1, <4>2, <4>3, <4>4, <4>5, <4>6 DEF CallInv
    <3>. QED  BY <3>1, <3>2
  <2>11. CASE TakePage
    BY <2>4, <2>11 DEF TakePage
  <2>12. CASE ForgetWalk
    BY <2>3, <2>12 DEF ForgetWalk
  <2>. QED  BY <1>3, <2>5, <2>6, <2>7, <2>8, <2>9, <2>10, <2>11, <2>12, Zenon DEF Next
<1>. QED  BY <1>1, <1>2, <1>3

\* A step that answers.
LEMMA AnswerStep ==
    ASSUME Next, answer' # answer, answer' # NoAnswer
    PROVE  CountRows \/ SelectRows
  BY DEF Next, InsertRow, DeleteRow, GRPCList, HTTPList, Request, StartWalk, WalkPage,
         RefuseNegative, ListFails, TakePage, ForgetWalk

\* The rows of an answer are those that its page and page_size stand for, for any table,
\* request and int32: no default, cut or clamp on the way gets lost.
THEOREM AnswersAreWindows == Spec => AnswerIsWindow
<1>1. ASSUME TypeOK, CallInv, Next, answer' # answer, answer' # NoAnswer
      PROVE  answer'.rows = Window(table, answer'.pageSize,
                                   (answer'.page - 1) * answer'.pageSize)
  <2>1. CASE CountRows
    <3>. DEFINE total == Cardinality(table)
    <3>1. /\ answer' = [rows |-> {}, page |-> Page(call), pageSize |-> Limit(call, total)]
          /\ total <= Offset(call, total)
      BY <1>1, <2>1, CountAnswers
    <3>2. Table(table) /\ total \in 0 .. Cardinality(Rows)
      BY <1>1, TableType DEF TypeOK
    <3>3. Limit(call, total) \in Nat /\ Offset(call, total) \in Nat
      BY <1>1, <3>2, LimitType
    <3>4. Window(table, Limit(call, total), Offset(call, total)) = {}
      BY <3>1, <3>2, <3>3, WindowPastEnd
    <3>. QED  BY <3>1, <3>4 DEF Offset
  <2>2. CASE SelectRows
    BY <1>1, <2>2, SelectAnswers DEF Offset
  <2>. QED  BY <1>1, <2>1, <2>2, AnswerStep
<1>2. TypeOK /\ CallInv /\ [Next]_vars
        => [answer' # answer /\ answer' # NoAnswer
              => answer'.rows = Window(table, answer'.pageSize,
                                       (answer'.page - 1) * answer'.pageSize)]_vars
  BY <1>1
<1>. QED  BY <1>2, TypeInductive, CallInductive, PTL DEF Spec, AnswerIsWindow

-----------------------------------------------------------------------------
(* A walk misses nothing *)

\* Of the rows the walk must meet, those at the first n positions are in rows.
Covered(n, rows) == \A r \in start : Position(table, r) <= n => r \in rows

WalkSize == HTTPSize(walk.size)

\* The walk has been answered every row on the pages it has taken, counted by today's
\* positions: inserts only move a row to a later page.  A short page is the last one.
WalkInv ==
    /\ walk.at = "on" =>
          /\ call.at # "none" => call.page = walk.page /\ call.size = WalkSize
          /\ answer # NoAnswer => answer.pageSize = WalkSize
          /\ ~deleted =>
                /\ start \subseteq table
                /\ answer = NoAnswer => Covered((walk.page - 1) * WalkSize, seen)
                /\ answer # NoAnswer => Covered(walk.page * WalkSize, seen \cup answer.rows)
                /\ answer # NoAnswer /\ ShortPage => start \subseteq seen \cup answer.rows
    /\ WalkMissesNothing

\* Rows inserted into the table keep what is covered covered.
LEMMA CoveredInsert ==
    ASSUME TypeOK, TypeOK', UNCHANGED start, table \subseteq table', NEW n \in Nat, NEW rows,
           Covered(n, rows)
    PROVE  Covered(n, rows)'
<1>. SUFFICES ASSUME NEW r \in start, Position(table', r) <= n PROVE r \in rows
  BY DEF Covered
<1>1. Table(table) /\ Table(table') /\ r \in Nat
  BY TableType, ListingConstants DEF TypeOK
<1>2. Position(table, r) <= Position(table', r)
  BY <1>1, PositionGrows
<1>3. Position(table, r) \in Nat /\ Position(table', r) \in Nat
  BY <1>1, PositionType
<1>. QED  BY <1>2, <1>3 DEF Covered

\* The numbers of the page the walk is at.
LEMMA WalkNumbers ==
    ASSUME TypeOK
    PROVE  /\ WalkSize \in Nat /\ WalkSize >= 1 /\ walk.page \in Nat /\ walk.page >= 1
           /\ (walk.page - 1) * WalkSize \in Nat /\ walk.page * WalkSize \in Nat
           /\ (walk.page - 1) * WalkSize + WalkSize = walk.page * WalkSize
           /\ Int32(HTTPPage(walk.page)) = walk.page
           /\ Int32(WalkSize) = WalkSize
<1>1. /\ walk.page \in Nat /\ walk.page >= 1 /\ walk.page <= MaxInt32 /\ walk.size \in Int
      /\ MaxInt32 \in Nat
  BY WalkType, TableType
<1>2. WalkSize \in Nat /\ WalkSize >= 1 /\ Int32(WalkSize) = WalkSize
  BY <1>1, HTTPType DEF WalkSize
<1>3. Int32(HTTPPage(walk.page)) = walk.page
  <2>1. HTTPPage(walk.page) = walk.page /\ walk.page \in 0 .. MaxInt32
    BY <1>1 DEF HTTPPage
  <2>. QED  BY <1>1, <2>1, Int32Type
<1>4. /\ (walk.page - 1) * WalkSize \in Nat /\ walk.page * WalkSize \in Nat
      /\ (walk.page - 1) * WalkSize + WalkSize = walk.page * WalkSize
  BY <1>1, <1>2
<1>. QED  BY <1>1, <1>2, <1>3, <1>4

\* The call of a walk asks for its page in its size.
LEMMA WalkCall ==
    ASSUME TypeOK, WalkInv, walk.at = "on", call.at # "none",
           NEW total \in 0 .. Cardinality(Rows)
    PROVE  /\ Limit(call, total) = WalkSize
           /\ Offset(call, total) = (walk.page - 1) * WalkSize
<1>1. call.page = walk.page /\ call.size = WalkSize
  BY DEF WalkInv
<1>. QED  BY <1>1, WalkNumbers DEF Limit, Offset, Page

\* COUNT answers a page past the end: the walk has met every row.
LEMMA WalkCounts ==
    ASSUME TypeOK, CallInv, WalkInv, CountRows, TypeOK'
    PROVE  WalkInv'
<1>. DEFINE total == Cardinality(table)
<1>0. UNCHANGED <<listing, table, walk, start, seen, deleted>> /\ call.at = "count"
  BY DEF CountRows, walkVars
<1>1. /\ Table(table) /\ total \in Nat /\ total \in 0 .. Cardinality(Rows)
      /\ answer = NoAnswer
  BY TableType DEF TypeOK, CallInv, CountRows
<1>2. WalkMissesNothing'
  BY <1>0 DEF WalkInv, WalkMissesNothing
<1>3. CASE walk.at # "on"
  BY <1>0, <1>2, <1>3 DEF WalkInv
<1>4. CASE walk.at = "on" /\ answer' # answer
  <2>1. /\ answer' = [rows |-> {}, page |-> Page(call), pageSize |-> Limit(call, total)]
        /\ total <= Offset(call, total)
    BY <1>4, CountAnswers
  <2>2. call' = NoCall
    BY <1>4 DEF CountRows
  <2>3. Limit(call, total) = WalkSize /\ Offset(call, total) = (walk.page - 1) * WalkSize
    BY <1>0, <1>1, <1>4, WalkCall
  <2>4. ASSUME ~deleted PROVE start \subseteq seen /\ start \subseteq table
    <3>1. Covered((walk.page - 1) * WalkSize, seen) /\ start \subseteq table
      BY <1>1, <1>4, <2>4 DEF WalkInv
    <3>2. ASSUME NEW r \in start PROVE Position(table, r) <= (walk.page - 1) * WalkSize
      <4>1. r \in Nat
        BY ListingConstants DEF TypeOK
      <4>2. Position(table, r) \in Nat /\ Position(table, r) <= total
        BY <1>1, <4>1, PositionType
      <4>. QED  BY <1>1, <2>1, <2>3, <4>2, WalkNumbers
    <3>. QED  BY <3>1, <3>2 DEF Covered
  <2>5. answer'.pageSize = WalkSize /\ answer'.rows = {} /\ WalkSize' = WalkSize
    BY <1>0, <2>1, <2>3 DEF WalkSize
  <2>6. call'.at = "none" /\ walk'.at = "on"
    BY <1>0, <1>4, <2>2 DEF NoCall
  <2>7. answer' # NoAnswer
    BY <1>1, <1>4
  <2>. QED  BY <1>0, <1>2, <2>4, <2>5, <2>6, <2>7 DEF WalkInv, Covered
<1>5. CASE walk.at = "on" /\ answer' = answer
  <2>1. call'.page = call.page /\ call'.size = call.size
    <3>1. call' = [call EXCEPT !.at = "select", !.total = total]
      <4>1. Answered(call, {}, total) # NoAnswer
        <5>1. Page(call) >= 1 /\ Page(call) \in Nat
          BY <1>1, LimitType
        <5>. QED  BY <5>1 DEF Answered, NoAnswer
      <4>. QED  BY <1>1, <1>5, <4>1 DEF CountRows
    <3>. QED  BY <3>1 DEF TypeOK
  <2>2. call.page = walk.page /\ call.size = WalkSize /\ WalkSize' = WalkSize
    BY <1>0, <1>5 DEF WalkInv, WalkSize
  <2>. QED  BY <1>0, <1>1, <1>2, <1>5, <2>1, <2>2 DEF WalkInv, Covered
<1>. QED  BY <1>3, <1>4, <1>5

\* SELECT answers the next page: it covers one page more, and all rows if it is short.
LEMMA WalkSelects ==
    ASSUME TypeOK, CallInv, WalkInv, SelectRows
    PROVE  WalkInv'
<1>0. UNCHANGED <<listing, table, walk, start, seen, deleted>> /\ call.at = "select"
  BY DEF SelectRows, walkVars
<1>1. Table(table) /\ call.total \in 0 .. Cardinality(Rows) /\ answer = NoAnswer
  BY <1>0, TableType DEF TypeOK, CallInv
<1>2. WalkMissesNothing'
  BY <1>0 DEF WalkInv, WalkMissesNothing
<1>3. CASE walk.at # "on"
  BY <1>0, <1>2, <1>3 DEF WalkInv
<1>4. CASE walk.at = "on"
  <2>. DEFINE offset == (walk.page - 1) * WalkSize
              W == Window(table, WalkSize, offset)
  <2>0. /\ WalkSize \in Nat /\ WalkSize >= 1 /\ offset \in Nat
        /\ offset + WalkSize = walk.page * WalkSize
    BY WalkNumbers
  <2>1. answer'.rows = W /\ answer'.pageSize = WalkSize
    BY <1>0, <1>1, <1>4, SelectAnswers, WalkCall
  <2>2. /\ call'.at = "none" /\ walk'.at = "on" /\ WalkSize' = WalkSize
        /\ (walk.page * WalkSize)' = walk.page * WalkSize
    BY <1>0, <1>4 DEF SelectRows, NoCall, WalkSize
  <2>3. answer' # NoAnswer
    BY <2>0, <2>1 DEF NoAnswer
  <2>4. ASSUME ~deleted
        PROVE  /\ start \subseteq table
               /\ Covered(walk.page * WalkSize, seen \cup W)
               /\ Cardinality(W) < WalkSize => start \subseteq seen \cup W
    <3>1. Covered(offset, seen) /\ start \subseteq table
      BY <1>1, <1>4, <2>4 DEF WalkInv
    <3>2. ASSUME NEW r \in start, Position(table, r) <= offset + WalkSize
          PROVE  r \in seen \cup W
      <4>1. r \in Nat /\ r \in table
        BY <3>1, ListingConstants DEF TypeOK
      <4>2. Position(table, r) \in Nat
        BY <1>1, <4>1, PositionType
      <4>3. CASE Position(table, r) <= offset
        BY <3>1, <4>3 DEF Covered
      <4>4. CASE ~(Position(table, r) <= offset)
        <5>1. Position(table, r) \in (offset + 1) .. (offset + WalkSize)
          BY <2>0, <3>2, <4>2, <4>4
        <5>. QED  BY <4>1, <5>1 DEF Window
      <4>. QED  BY <4>3, <4>4
    <3>3. ASSUME Cardinality(W) < WalkSize, NEW r \in start
          PROVE  Position(table, r) <= offset + WalkSize
      <4>1. r \in table
        BY <3>1
      <4>2. Table(table) /\ WalkSize \in Nat /\ offset \in Nat
        BY <1>1, <2>0
      <4>. HIDE DEF offset
      <4>. QED  BY <3>3, <4>1, <4>2, ShortWindow
    <3>. QED  BY <2>0, <3>1, <3>2, <3>3 DEF Covered
  <2>. HIDE DEF W
  <2>5. ~deleted' => /\ start' \subseteq table'
                     /\ Covered(walk.page * WalkSize, seen \cup answer.rows)'
                     /\ ShortPage' => start' \subseteq seen' \cup answer'.rows
    BY <1>0, <2>1, <2>2, <2>4 DEF Covered, ShortPage
  <2>. QED  BY <1>2, <2>1, <2>2, <2>3, <2>5 DEF WalkInv
<1>. QED  BY <1>3, <1>4

\* The client takes a page: after a short one it has met every row.
LEMMA WalkTakes ==
    ASSUME TypeOK, CallInv, WalkInv, TakePage
    PROVE  WalkInv'
<1>0. /\ UNCHANGED <<listing, table, call, start, deleted>> /\ walk.at = "on"
      /\ answer # NoAnswer /\ answer' = NoAnswer /\ seen' = seen \cup answer.rows
      /\ walk \in [at : {"off", "on", "ended"}, page : 1..(Cardinality(Rows) + 1),
                   size : Sizes \cup {0}]
  BY DEF TakePage, TypeOK
<1>1. CASE ShortPage
  <2>1. walk'.at = "ended"
    BY <1>0, <1>1 DEF TakePage
  <2>2. ~deleted => start \subseteq seen \cup answer.rows
    BY <1>0, <1>1 DEF WalkInv
  <2>. QED  BY <1>0, <2>1, <2>2 DEF WalkInv, WalkMissesNothing
<1>2. CASE ~ShortPage
  <2>1. walk'.at = "on" /\ walk'.page = walk.page + 1 /\ walk'.size = walk.size
    BY <1>0, <1>2 DEF TakePage
  <2>2. WalkSize' = WalkSize /\ walk'.page - 1 = walk.page
    BY <2>1, WalkType DEF WalkSize
  <2>3. ~deleted => Covered(walk.page * WalkSize, seen \cup answer.rows) /\ start \subseteq table
    BY <1>0 DEF WalkInv
  <2>4. call'.at = "none"
    BY <1>0 DEF CallInv
  <2>5. ~deleted' => Covered((walk.page - 1) * WalkSize, seen)' /\ start' \subseteq table'
    BY <1>0, <2>2, <2>3 DEF Covered
  <2>. QED  BY <1>0, <2>1, <2>4, <2>5 DEF WalkInv, WalkMissesNothing
<1>. QED  BY <1>1, <1>2

\* WalkInv is inductive, given the other invariants.
LEMMA WalkInductive ==
    /\ Init => WalkInv
    /\ TypeOK /\ CallInv /\ WalkInv /\ [Next]_vars => WalkInv'
<1>1. ASSUME Init PROVE WalkInv
  BY <1>1 DEF Init, WalkInv, WalkMissesNothing, NoWalk
<1>2. ASSUME WalkInv, UNCHANGED vars PROVE WalkInv'
  BY <1>2 DEF WalkInv, WalkMissesNothing, Covered, WalkSize, ShortPage, vars
<1>3. ASSUME TypeOK, CallInv, WalkInv, Next PROVE WalkInv'
  <2>0. TypeOK' /\ Table(table)
    BY <1>3, TypeStep, TableType DEF TypeOK
  <2>1. ASSUME NEW r \in Rows, InsertRow(r) PROVE WalkInv'
    <3>1. UNCHANGED <<listing, call, answer, walk, start, seen, deleted>>
          /\ table \subseteq table'
      BY <2>1 DEF InsertRow, walkVars
    <3>2. \A n \in Nat, rows \in {seen, seen \cup answer.rows} :
             Covered(n, rows) => Covered(n, rows)'
      BY <1>3, <2>0, <3>1, CoveredInsert
    <3>3. (walk.page - 1) * WalkSize \in Nat /\ walk.page * WalkSize \in Nat
      BY <1>3, WalkNumbers
    <3>4. WalkMissesNothing' /\ WalkSize' = WalkSize /\ ShortPage' = ShortPage
      BY <1>3, <3>1 DEF WalkInv, WalkMissesNothing, WalkSize, ShortPage
    <3>5. /\ Covered((walk.page - 1) * WalkSize, seen)
                => Covered((walk.page - 1) * WalkSize, seen)'
          /\ Covered(walk.page * WalkSize, seen \cup answer.rows)
                => Covered(walk.page * WalkSize, seen \cup answer.rows)'
      BY <3>1, <3>2, <3>3, <3>4 DEF Covered
    <3>. QED  BY <1>3, <3>1, <3>4, <3>5 DEF WalkInv
  <2>2. ASSUME NEW r \in Rows, DeleteRow(r) PROVE WalkInv'
    <3>1. /\ UNCHANGED <<call, answer, walk, start, seen>>
          /\ deleted' = (deleted \/ walk.at = "on")
      BY <2>2 DEF DeleteRow
    <3>. QED  BY <1>3, <3>1 DEF WalkInv, WalkMissesNothing, WalkSize
  <2>3. ASSUME NEW p \in Pages, NEW s \in Sizes, GRPCList(p, s) \/ HTTPList(p, s)
        PROVE  WalkInv'
    BY <1>3, <2>3 DEF GRPCList, HTTPList, walkVars, WalkInv, WalkMissesNothing
  <2>4. ASSUME NEW s \in Sizes, StartWalk(s) PROVE WalkInv'
    <3>1. /\ call'.at = "none" /\ answer' = NoAnswer /\ start' = table' /\ table' = table
          /\ walk'.at = "on" /\ walk'.page = 1
      BY <2>4 DEF StartWalk, NoCall
    <3>2. (walk'.page - 1) * WalkSize' = 0
      <4>1. WalkSize' = HTTPSize(s)
        BY <2>4 DEF StartWalk, WalkSize
      <4>2. s \in Int
        BY ListingConstants
      <4>3. HTTPSize(s) \in 1 .. MaxSize /\ MaxSize \in Nat
        BY <4>2, HTTPType
      <4>4. WalkSize' \in Int /\ walk'.page - 1 = 0
        BY <3>1, <4>1, <4>3
      <4>. QED  BY <4>4
    <3>3. \A r \in table : Position(table, r) >= 1 /\ Position(table, r) \in Nat
      BY <2>0, PositionType DEF Table
    <3>4. Covered((walk.page - 1) * WalkSize, seen)'
      BY <3>1, <3>2, <3>3 DEF Covered
    <3>. QED  BY <3>1, <3>4 DEF WalkInv, WalkMissesNothing
  <2>5. CASE WalkPage
    <3>1. /\ call'.page = walk.page /\ call'.size = WalkSize /\ answer' = NoAnswer
          /\ answer = NoAnswer /\ UNCHANGED <<table, walk, start, seen, deleted>>
      BY <1>3, <2>5, WalkNumbers DEF WalkPage, Request, walkVars, WalkSize
    <3>. QED  BY <1>3, <3>1 DEF WalkInv, WalkMissesNothing, WalkSize, Covered
  <2>6. CASE RefuseNegative \/ ListFails
    <3>1. call'.at = "none" /\ UNCHANGED <<table, answer, walk, start, seen, deleted>>
      BY <2>6 DEF RefuseNegative, ListFails, NoCall, walkVars
    <3>. QED  BY <1>3, <3>1 DEF WalkInv, WalkMissesNothing, WalkSize, Covered, ShortPage
  <2>7. CASE CountRows
    BY <1>3, <2>0, <2>7, WalkCounts
  <2>8. CASE SelectRows
    BY <1>3, <2>8, WalkSelects
  <2>9. CASE TakePage
    BY <1>3, <2>9, WalkTakes
  <2>10. CASE ForgetWalk
    BY <2>10 DEF ForgetWalk, NoWalk, WalkInv, WalkMissesNothing
  <2>. QED  BY <1>3, <2>1, <2>2, <2>3, <2>4, <2>5, <2>6, <2>7, <2>8, <2>9, <2>10, Zenon
            DEF Next
<1>. QED  BY <1>1, <1>2, <1>3

\* A walk that met its last page has been answered every row that was stored when it
\* began, whatever was inserted meanwhile, unless a row was deleted during the walk.
THEOREM WalkComplete == Spec => []WalkMissesNothing
<1>1. WalkInv => WalkMissesNothing
  BY DEF WalkInv
<1>. QED  BY <1>1, TypeInductive, CallInductive, WalkInductive, PTL DEF Spec

=============================================================================
