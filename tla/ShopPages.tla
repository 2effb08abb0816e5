------------------------------ MODULE ShopPages ------------------------------
(***************************************************************************)
(* A browser on the product list or on the order history: which page of    *)
(* rows it asks for, what it shows of the answers, and the orders it       *)
(* sends.  The page does not wait for one answer before it asks again.     *)
(*                                                                         *)
(* A change of the query and the effect that fetches for it are one step.  *)
(* What the backend does with a fetch is in Listing, with an order in      *)
(* OrderDelivery; the rows do not change while they are looked at.         *)
(***************************************************************************)
EXTENDS Integers, FiniteSets, FiniteSetsExt, Functions

CONSTANTS
    Searches,   \* what can be searched for, with its searchType; Everything
                \* is the empty search
    Everything,
    Found,      \* search -> the ids of its rows
    Sizes,      \* pageSizeOptions
    FirstSize,  \* the page size of a new page (20)
    MaxFetches, \* bound: lists asked for
    MaxEntries  \* bound: quantities typed, and orders sent

ASSUME PageAssumption ==
    /\ Everything \in Searches
    /\ Found \in [Searches -> SUBSET Nat]
    /\ \A s \in Searches : IsFiniteSet(Found[s])
    /\ Sizes \subseteq Nat \ {0} /\ FirstSize \in Sizes
    /\ MaxFetches \in Nat \ {0} /\ MaxEntries \in Nat

VARIABLES
    view,       \* "product" or "orders"
    query,      \* searchQuery, page, pageSize and sortModel
    pending,    \* pendingSearchQuery
    rows,       \* products or ordersRow
    total,      \* totalCount
    isLoading,
    inflight,   \* requests for a list that are not answered
    fetches,    \* how many there have been
    quantities, \* products with a quantity in the form
    posts,      \* orders on their way, taken or not, their answers awaited or not
    sent,       \* how many there have been
    entered,    \* product -> how often a quantity was typed
    ordered     \* product -> how often the backend took an order of it

list == <<query, rows, total, isLoading, inflight, fetches>>
form == <<quantities, posts, sent, entered, ordered>>

VARIABLES
    overlapped, \* the last request was sent before another was answered
    strayed,    \* one was overlapped or failed since the page was opened
    repeated    \* an order was sent while another was on its way, or an
                \* answer got lost

history == <<overlapped, strayed, repeated>>

vars == <<view, pending, list, form, history>>

Items == UNION {Found[s] : s \in Searches}

Queries == [search : Searches, page : Nat \ {0}, size : Sizes,
            order : {"asc", "desc"}]

-----------------------------------------------------------------------------
FirstQuery(v) ==
    [search |-> Everything, page |-> 1, size |-> FirstSize,
     order |-> IF v = "product" THEN "asc" ELSE "desc"]

(* Where the backend starts: only the product list has its offset set.     *)
Offset(v, q) == IF v = "product" THEN (q.page - 1) * q.size ELSE 0

Hits(q) == Cardinality(Found[q.search])

Before(q, x, y) == IF q.order = "asc" THEN x < y ELSE x > y

(* The row that n others come before.                                      *)
RowAfter(q, n) ==
    CHOOSE x \in Found[q.search] :
        Cardinality({y \in Found[q.search] : Before(q, y, x)}) = n

(* The rows the backend answers with.                                      *)
Answer(v, q) ==
    [i \in 1 .. Min({Hits(q) - Offset(v, q), q.size}) |->
        RowAfter(q, Offset(v, q) + i - 1)]

Shown == Range(rows)

(* Variant: the request is built from the search before this one.          *)
Asked_StaleSearch(new) == [new EXCEPT !.search = query.search]

(* The request is built from the state of the render it belongs to.        *)
Asked(new) == new

(* fetchProducts and fetchOrders, run because the query has changed.       *)
Fetch(new) ==
    /\ fetches < MaxFetches
    /\ new # query
    /\ query' = new
    /\ isLoading' = TRUE
    /\ inflight' = inflight \union {[id |-> fetches, asked |-> Asked(new)]}
    /\ fetches' = fetches + 1
    /\ overlapped' = (inflight # {})
    /\ strayed' = (strayed \/ inflight # {})
    /\ UNCHANGED <<view, rows, total, form, repeated>>

Init ==
    /\ view \in {"product", "orders"}
    /\ query = FirstQuery(view)
    /\ pending = Everything
    /\ rows = <<>> /\ total = 0
    /\ isLoading = TRUE
    /\ inflight = {[id |-> 0, asked |-> FirstQuery(view)]}
    /\ fetches = 1
    /\ quantities = {} /\ posts = {} /\ sent = 0
    /\ entered = [p \in Items |-> 0]
    /\ ordered = [p \in Items |-> 0]
    /\ overlapped = FALSE /\ strayed = FALSE /\ repeated = FALSE

-----------------------------------------------------------------------------
TypeSearch(s) ==
    /\ ~isLoading /\ s # pending
    /\ pending' = s
    /\ UNCHANGED <<view, list, form, history>>

(* Variant: the page stays the one it was.                                 *)
SearchFrom_SamePage(s) == [query EXCEPT !.search = s]

(* A new search starts on its first page.                                  *)
SearchFrom(s) == [query EXCEPT !.search = s, !.page = 1]

HandleSearch ==
    /\ ~isLoading
    /\ Fetch(SearchFrom(pending))
    /\ UNCHANGED pending

HandleReset ==
    /\ ~isLoading
    /\ Fetch(SearchFrom(Everything))
    /\ pending' = Everything

(* The pages the grid offers, which it numbers from 0.                     *)
GridPages == {p \in 0 .. total : p * query.size < total}

(* These three are not disabled while a list is loading.                   *)
HandlePageChange(newPage) ==
    /\ newPage # query.page - 1
    /\ Fetch([query EXCEPT !.page = newPage + 1])
    /\ UNCHANGED pending

HandlePageSizeChange(size) ==
    /\ size # query.size
    /\ Fetch([query EXCEPT !.size = size, !.page = 1])
    /\ UNCHANGED pending

HandleSortModelChange(order) ==
    /\ Fetch([query EXCEPT !.order = order])
    /\ UNCHANGED pending

(* An answer, whichever request it belongs to.                             *)
ListArrives(f) ==
    /\ f \in inflight
    /\ rows' = Answer(view, f.asked)
    /\ total' = Hits(f.asked)
    /\ isLoading' = FALSE
    /\ inflight' = inflight \ {f}
    /\ UNCHANGED <<view, query, pending, fetches, form, history>>

(* Variant: only an answer ends the loading.                               *)
Finally_AnswersOnly == UNCHANGED isLoading

(* finally: the list is no longer loading, whatever came of it.            *)
Finally == isLoading' = FALSE

(* No answer, or an error: no rows; the total stays.                       *)
ListFails(f) ==
    /\ f \in inflight
    /\ rows' = <<>>
    /\ Finally
    /\ inflight' = inflight \ {f}
    /\ strayed' = TRUE
    /\ UNCHANGED <<view, query, pending, total, fetches, form, overlapped, repeated>>

-----------------------------------------------------------------------------
(* The rows have a field for the quantity; no rows, no field.              *)
HandleQuantityChange(p) ==
    /\ view = "product" /\ ~isLoading /\ p \in Shown
    /\ entered[p] < MaxEntries
    /\ quantities' = quantities \union {p}
    /\ entered' = [entered EXCEPT ![p] = @ + 1]
    /\ UNCHANGED <<view, pending, list, posts, sent, ordered, history>>

(* handleSubmit up to its await: of the rows that are shown.               *)
HandleSubmit ==
    /\ view = "product" /\ ~isLoading
    /\ sent < MaxEntries
    /\ quantities \intersect Shown # {}
    /\ sent' = sent + 1
    /\ posts' = posts \union
           {[id |-> sent, items |-> quantities \intersect Shown,
             taken |-> FALSE, awaited |-> TRUE]}
    /\ repeated' = (repeated \/ posts # {})
    /\ UNCHANGED <<view, pending, list, quantities, entered, ordered,
                   overlapped, strayed>>

(* The backend commits the order, whether or not someone waits for it.     *)
OrderTaken(o) ==
    /\ o \in posts /\ ~o.taken
    /\ posts' = (posts \ {o}) \union
           {n \in {[o EXCEPT !.taken = TRUE]} : o.awaited}
    /\ ordered' = [p \in Items |-> ordered[p] + IF p \in o.items THEN 1 ELSE 0]
    /\ UNCHANGED <<view, pending, list, quantities, sent, entered, history>>

(* Variant: the quantities stay in the form.                               *)
AfterOrder_Kept == quantities

(* All quantities go, those of rows that were not shown too.               *)
AfterOrder == {}

OrderConfirmed(o) ==
    /\ o \in posts /\ o.taken
    /\ posts' = posts \ {o}
    /\ quantities' = AfterOrder
    /\ UNCHANGED <<view, pending, list, sent, entered, ordered, history>>

(* The backend rolls the order back; the form stays as it is.              *)
OrderFails(o) ==
    /\ o \in posts /\ ~o.taken
    /\ posts' = posts \ {o}
    /\ UNCHANGED <<view, pending, list, quantities, sent, entered, ordered, history>>

(* No answer: an error for the browser, while the backend may go on.       *)
OrderUnanswered(o) ==
    /\ o \in posts /\ o.awaited
    /\ posts' = (posts \ {o}) \union
           {n \in {[o EXCEPT !.awaited = FALSE]} : ~o.taken}
    /\ repeated' = TRUE
    /\ UNCHANGED <<view, pending, list, quantities, sent, entered, ordered,
                   overlapped, strayed>>

Next ==
    \/ \E s \in Searches : TypeSearch(s)
    \/ HandleSearch \/ HandleReset
    \/ \E p \in GridPages : HandlePageChange(p)
    \/ \E size \in Sizes : HandlePageSizeChange(size)
    \/ \E order \in {"asc", "desc"} : HandleSortModelChange(order)
    \/ \E f \in inflight : ListArrives(f) \/ ListFails(f)
    \/ \E p \in Items : HandleQuantityChange(p)
    \/ HandleSubmit
    \/ \E o \in posts :
           \/ OrderTaken(o) \/ OrderConfirmed(o)
           \/ OrderFails(o) \/ OrderUnanswered(o)

(* A request is answered or fails; nobody has to click.                    *)
Spec ==
    /\ Init /\ [][Next]_vars
    /\ \A i \in 0 .. MaxFetches :
           WF_vars(\E f \in inflight : f.id = i /\ (ListArrives(f) \/ ListFails(f)))

-----------------------------------------------------------------------------
(* Every variable keeps its shape; a page is never numbered 0.             *)
TypeOK ==
    /\ view \in {"product", "orders"}
    /\ query \in Queries
    /\ pending \in Searches
    /\ Shown \subseteq Items /\ total \in Nat
    /\ isLoading \in BOOLEAN
    /\ inflight \subseteq [id : 0 .. MaxFetches, asked : Queries]
    /\ fetches \in 0 .. MaxFetches
    /\ quantities \subseteq Items
    /\ posts \subseteq [id : 0 .. MaxEntries, items : SUBSET Items,
                       taken : BOOLEAN, awaited : BOOLEAN]
    /\ entered \in [Items -> Nat] /\ ordered \in [Items -> Nat]
    /\ overlapped \in BOOLEAN /\ strayed \in BOOLEAN /\ repeated \in BOOLEAN

(* Once all answers are there, the grid shows the rows of its own search,  *)
(* page, size and order, or none if a request has failed or overlapped     *)
(* another since the page was opened (strayed) -- unless the last two      *)
(* requests overlapped: then the answer that comes last decides.           *)
SettledIsAsked ==
    inflight = {} /\ ~overlapped =>
        \/ rows = Answer(view, query) /\ total = Hits(query)
        \/ rows = <<>> /\ strayed

(* As long as no request failed or overlapped another, the user is never   *)
(* on a page past the end: with any hit at all there are rows to see.      *)
PageExists ==
    inflight = {} /\ ~strayed /\ Hits(query) > 0 => rows # <<>>

(* The grid does not show its loading state for ever, however the answers  *)
(* and failures come.                                                      *)
LoadingEnds == isLoading ~> ~isLoading

(* What was typed once is ordered once, unless the button is pressed again *)
(* before the answer, or the answer to an order gets lost.                 *)
OrderedOnce == ~repeated => \A p \in Items : ordered[p] <= entered[p]
=============================================================================
