------------------------------- MODULE Listing -------------------------------
(***************************************************************************)
(* The paged listings: a customer's orders and payments, by created_at and *)
(* id, and the catalog's products, by _id.  All three count the rows in    *)
(* one statement and read a window of them by LIMIT and OFFSET in another, *)
(* while rows are inserted and, in the catalog, deleted.                   *)
(*                                                                         *)
(* A row is named by its rank in the listing's order.  created_at is taken *)
(* before the commit and product ids are chosen by the client, so a row    *)
(* may appear anywhere in the order.  A client walks a listing through the *)
(* gateway, page after page, and stops after a page with fewer rows than   *)
(* the page_size it was answered; single calls ask for any page.           *)
(***************************************************************************)
EXTENDS Integers, FiniteSets

CONSTANTS Rows,          \* rows, by rank
          Listings,      \* the listings to model, of "orders", "payments", "catalog"
          Pages, Sizes,  \* values of page and page_size in requests
          DefaultSize,   \* defaultOrderListPageSize and the like
          MaxSize,       \* maxOrderListPageSize and the like
          MaxInt32       \* largest page number and page size of the gRPC API

ASSUME ListingConstants ==
    /\ Rows \subseteq Nat /\ IsFiniteSet(Rows)
    /\ Listings \subseteq {"orders", "payments", "catalog"}
    /\ Pages \subseteq Int /\ Sizes \subseteq Int
    /\ MaxInt32 \in Nat
    /\ DefaultSize \in 1..MaxSize /\ MaxSize \in 1..MaxInt32
    /\ Cardinality(Rows) < MaxInt32

VARIABLES listing,   \* the listing this behaviour is about
          table,     \* the rows stored
          call,      \* the gRPC call being served, with the total it counted
          answer,    \* the last call's answer, NoAnswer after an error
          walk,      \* the walking client: "off", "on" or "ended", its page and size
          start,     \* history: the rows stored when the walk began
          seen,      \* the rows the walk was answered
          deleted    \* history: a row was deleted during the walk

vars == <<listing, table, call, answer, walk, start, seen, deleted>>
walkVars == <<walk, start, seen, deleted>>

NoAnswer == [rows |-> {}, page |-> 0, pageSize |-> 0]
NoCall == [at |-> "none", page |-> 0, size |-> 0, total |-> 0]
NoWalk == [at |-> "off", page |-> 1, size |-> 0]

Int32s == -(MaxInt32 + 1)..MaxInt32

TypeOK ==
    /\ listing \in Listings
    /\ table \subseteq Rows
    /\ call \in [at : {"none", "count", "select"}, page : Int32s, size : Int32s,
                 total : 0..Cardinality(Rows)]
    /\ answer = NoAnswer \/ answer \in [rows : SUBSET Rows, page : 1..MaxInt32,
                                        pageSize : 0..MaxInt32]
    /\ walk \in [at : {"off", "on", "ended"}, page : 1..(Cardinality(Rows) + 1),
                 size : Sizes \cup {0}]
    /\ start \subseteq Rows /\ seen \subseteq Rows
    /\ deleted \in BOOLEAN

Init ==
    /\ listing \in Listings
    /\ table = {}
    /\ call = NoCall
    /\ answer = NoAnswer
    /\ walk = NoWalk
    /\ start = {} /\ seen = {} /\ deleted = FALSE

-----------------------------------------------------------------------------

\* CreateOrder, CreatePayment or CreateProduct commits a row.  CreateProduct
\* of a stored id, and UpdateProduct, change no row's place.
InsertRow(r) ==
    /\ r \notin table
    /\ table' = table \cup {r}
    /\ UNCHANGED <<listing, call, answer, walkVars>>

\* DeleteProduct.  Orders and payments are never deleted.
DeleteRow(r) ==
    /\ listing = "catalog"
    /\ r \in table
    /\ table' = table \ {r}
    /\ deleted' = (deleted \/ walk.at = "on")
    /\ UNCHANGED <<listing, call, answer, walk, start, seen>>

-----------------------------------------------------------------------------

\* The gateway's HTTP handlers: defaults and the cap on page_size.
HTTPPage(p) == IF p <= 0 THEN 1 ELSE p

\* Mutant: page_size is passed on as it comes, only capped.
HTTPSizeNoDefault(s) == IF s > MaxSize THEN MaxSize ELSE s

HTTPSize(s) ==
    IF s <= 0 THEN DefaultSize ELSE IF s > MaxSize THEN MaxSize ELSE s

\* Go's int32(n) in the gateway's gRPC clients: the low bits of n.
Int32(n) ==
    LET range == 2 * (MaxInt32 + 1)
        low == n % range
    IN  IF low > MaxInt32 THEN low - range ELSE low

Request(p, s) ==
    /\ call' = [at |-> "count", page |-> p, size |-> s, total |-> 0]
    /\ answer' = NoAnswer

\* A gRPC client calls the service itself.
GRPCList(p, s) ==
    /\ call = NoCall /\ walk.at # "on"
    /\ p \in Int32s /\ s \in Int32s
    /\ Request(p, s)
    /\ UNCHANGED <<listing, table, walkVars>>

\* One HTTP request for a page, through handler, gateway service and client.
HTTPList(p, s) ==
    /\ call = NoCall /\ walk.at # "on"
    /\ Request(Int32(HTTPPage(p)), Int32(HTTPSize(s)))
    /\ UNCHANGED <<listing, table, walkVars>>

\* A client begins a walk with pages of size s.
StartWalk(s) ==
    /\ call = NoCall /\ walk.at = "off"
    /\ walk' = [at |-> "on", page |-> 1, size |-> s]
    /\ answer' = NoAnswer
    /\ start' = table /\ seen' = {} /\ deleted' = FALSE
    /\ UNCHANGED <<listing, table, call>>

\* The walking client asks for its page, again after an error.
WalkPage ==
    /\ call = NoCall /\ walk.at = "on" /\ answer = NoAnswer
    /\ Request(Int32(HTTPPage(walk.page)), Int32(HTTPSize(walk.size)))
    /\ UNCHANGED <<listing, table, walkVars>>

-----------------------------------------------------------------------------

\* The repositories' defaults.
Page(c) == IF c.page <= 0 THEN 1 ELSE c.page
Limit(c, total) == IF c.size <= 0 THEN total ELSE c.size

\* Mutant: pages are taken to count from zero.
OffsetFromZero(c, total) == Page(c) * Limit(c, total)

Offset(c, total) == (Page(c) - 1) * Limit(c, total)

clampInt64ToInt32(n) == IF n > MaxInt32 THEN MaxInt32 ELSE IF n < 0 THEN 0 ELSE n

Position(t, r) == Cardinality({x \in t : x <= r})

\* ORDER BY ... LIMIT limit OFFSET offset
Window(t, limit, offset) == {r \in t : Position(t, r) \in (offset + 1)..(offset + limit)}

\* Mutant: the answer's page_size is the total, as for a request without one.
AnsweredTotalSize(c, rows, total) ==
    [rows |-> rows, page |-> Page(c), pageSize |-> total]

\* The gRPC handlers' answer: page and page_size as they were understood.
Answered(c, rows, total) ==
    [rows |-> rows, page |-> Page(c), pageSize |-> clampInt64ToInt32(Limit(c, total))]

\* Catalog refuses negative numbers, in the service and in the repository.
RefuseNegative ==
    /\ call.at = "count"
    /\ listing = "catalog" /\ (call.page < 0 \/ call.size < 0)
    /\ call' = NoCall
    /\ UNCHANGED <<listing, table, answer, walkVars>>

\* SELECT COUNT(*), and the answer if the page is past the end.
CountRows ==
    LET total == Cardinality(table) IN
    /\ call.at = "count"
    /\ ~(listing = "catalog" /\ (call.page < 0 \/ call.size < 0))
    /\ IF total = 0 \/ Offset(call, total) >= total
         THEN /\ answer' = Answered(call, {}, total)
              /\ call' = NoCall
         ELSE /\ call' = [call EXCEPT !.at = "select", !.total = total]
              /\ UNCHANGED answer
    /\ UNCHANGED <<listing, table, walkVars>>

\* The SELECT of the window, which may meet other rows than were counted.
SelectRows ==
    LET limit == clampInt64ToInt32(Limit(call, call.total))
        offset == clampInt64ToInt32(Offset(call, call.total)) IN
    /\ call.at = "select"
    /\ answer' = Answered(call, Window(table, limit, offset), call.total)
    /\ call' = NoCall
    /\ UNCHANGED <<listing, table, walkVars>>

\* A statement fails or the gateway's readTimeout passes: no answer.
ListFails ==
    /\ call.at \in {"count", "select"}
    /\ call' = NoCall
    /\ UNCHANGED <<listing, table, answer, walkVars>>

ShortPage == Cardinality(answer.rows) < answer.pageSize

\* The walking client takes its page; a short one is its last.  The bound on
\* the page is what Rows can fill.
TakePage ==
    /\ walk.at = "on" /\ answer # NoAnswer
    /\ ShortPage \/ walk.page <= Cardinality(Rows)
    /\ seen' = seen \cup answer.rows
    /\ answer' = NoAnswer
    /\ walk' = IF ShortPage THEN [walk EXCEPT !.at = "ended"]
                            ELSE [walk EXCEPT !.page = @ + 1]
    /\ UNCHANGED <<listing, table, call, start, deleted>>

\* The client is done with what it collected.
ForgetWalk ==
    /\ walk.at = "ended"
    /\ walk' = NoWalk
    /\ start' = {} /\ seen' = {} /\ deleted' = FALSE
    /\ UNCHANGED <<listing, table, call, answer>>

Next ==
    \/ \E r \in Rows : InsertRow(r) \/ DeleteRow(r)
    \/ \E p \in Pages, s \in Sizes : GRPCList(p, s) \/ HTTPList(p, s)
    \/ \E s \in Sizes : StartWalk(s)
    \/ WalkPage \/ RefuseNegative \/ CountRows \/ SelectRows \/ ListFails
    \/ TakePage \/ ForgetWalk

Spec == Init /\ [][Next]_vars

(* A walking client goes on; a call may fail any number of times, not always. *)
FairSpec ==
    /\ Spec
    /\ WF_vars(WalkPage) /\ WF_vars(TakePage)
    /\ SF_vars(CountRows) /\ SF_vars(SelectRows)

-----------------------------------------------------------------------------

(***************************************************************************)
(* The rows of an answer are exactly the rows that the page and page_size  *)
(* in the same answer stand for, in the table as it is when the answer is  *)
(* made, although the defaults are applied in the gateway, the repository  *)
(* and the gRPC handler separately, page numbers are cut to 32 bits and    *)
(* the table changes between COUNT and SELECT.                             *)
(***************************************************************************)
AnswerIsWindow ==
    [][answer' # answer /\ answer' # NoAnswer
         => answer'.rows = Window(table, answer'.pageSize,
                                  (answer'.page - 1) * answer'.pageSize)]_vars

(***************************************************************************)
(* A walk that met its last page has been answered every row that was      *)
(* stored when it began, unless a row was deleted during the walk.  Rows   *)
(* inserted meanwhile may push others to a later page, so that they are    *)
(* answered twice, but never past the walk.                                *)
(***************************************************************************)
WalkMissesNothing == walk.at = "ended" /\ ~deleted => start \subseteq seen

(***************************************************************************)
(* Every walk through the gateway meets its last page, whatever page_size  *)
(* it asks for: the gateway's default keeps a page_size of 0 from the      *)
(* services, which would answer it with an empty table's size, so that no  *)
(* page would ever be short.                                               *)
(***************************************************************************)
WalkEnds == (walk.at = "on") ~> (walk.at = "ended")

===============================================================================
