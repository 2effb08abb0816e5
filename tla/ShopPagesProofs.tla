-------------------------- MODULE ShopPagesProofs --------------------------
(***************************************************************************)
(* Theorems about ShopPages for every table, all searches and page sizes,  *)
(* and any number of requests and orders.                                  *)
(***************************************************************************)
EXTENDS ShopPages, FiniteSetTheorems, TLAPS

-----------------------------------------------------------------------------
(* The rows of a search, counted and numbered.                             *)

LEMMA FoundIsFinite ==
    ASSUME NEW q \in Queries
    PROVE  /\ IsFiniteSet(Found[q.search]) /\ Found[q.search] \subseteq Nat
           /\ Hits(q) \in Nat /\ q.size \in Nat \ {0} /\ q.page \in Nat \ {0}
           /\ Found[q.search] \subseteq Items
<1>1. q.search \in Searches /\ q.size \in Nat \ {0} /\ q.page \in Nat \ {0}
  BY PageAssumption DEF Queries
<1> QED
  BY <1>1, PageAssumption, FS_CardinalityType DEF Hits, Items

(* Every number below Hits is that of a row: no two rows have the same     *)
(* number of rows before them, and there are as many numbers as rows.      *)
LEMMA RowAfterIsFound ==
    ASSUME NEW q \in Queries, NEW n \in 0 .. Hits(q) - 1
    PROVE  RowAfter(q, n) \in Found[q.search]
<1> DEFINE F == Found[q.search]
           Pre(x) == {y \in F : Before(q, y, x)}
           rank == [x \in F |-> Cardinality(Pre(x))]
           N == 0 .. Hits(q) - 1
<1>1. IsFiniteSet(F) /\ F \subseteq Nat /\ Hits(q) \in Nat /\ Hits(q) = Cardinality(F)
  BY FoundIsFinite DEF Hits
<1>2. ASSUME NEW x \in F
      PROVE  IsFiniteSet(Pre(x)) /\ Cardinality(Pre(x)) \in N
  <2>1. x \notin Pre(x) /\ Pre(x) \subseteq F
    BY <1>1 DEF Before
  <2>2. IsFiniteSet(Pre(x)) /\ Cardinality(Pre(x)) <= Cardinality(F)
            /\ Cardinality(Pre(x)) # Cardinality(F)
    BY <1>1, <2>1, FS_Subset
  <2>3. Cardinality(Pre(x)) \in Nat
    BY <2>2, FS_CardinalityType
  <2> QED
    BY <1>1, <2>2, <2>3
<1>3. ASSUME NEW x \in F, NEW y \in F, Before(q, x, y)
      PROVE  Cardinality(Pre(x)) # Cardinality(Pre(y))
  <2>1. Pre(x) \subseteq Pre(y) /\ x \in Pre(y) /\ x \notin Pre(x)
    BY <1>1, <1>3 DEF Before
  <2> QED
    BY <1>2, <2>1, FS_Subset
<1>4. rank \in Injection(F, N)
  <2>1. ASSUME NEW x \in F, NEW y \in F, rank[x] = rank[y] PROVE x = y
    <3>1. x = y \/ Before(q, x, y) \/ Before(q, y, x)
      BY <1>1 DEF Before
    <3> QED
      BY <1>3, <2>1, <3>1
  <2>2. rank \in [F -> N]
    BY <1>2
  <2> HIDE DEF rank
  <2> QED
    BY <2>1, <2>2 DEF Injection, IsInjective
<1>5. IsFiniteSet(N) /\ Cardinality(N) = Cardinality(F)
  BY <1>1, FS_Interval
<1>6. rank \in Surjection(F, N)
  BY <1>4, <1>5, FS_Injection
<1>7. PICK x \in F : rank[x] = n
  <2> HIDE DEF rank
  <2> QED
    BY <1>6 DEF Surjection
<1> QED
  BY <1>7 DEF RowAfter

(* An answer has rows of the search only, and some if the page exists.     *)
LEMMA AnswerRows ==
    ASSUME NEW v, NEW q \in Queries
    PROVE  /\ Range(Answer(v, q)) \subseteq Found[q.search]
           /\ Hits(q) > Offset(v, q) => Answer(v, q) # <<>>
<1> DEFINE len == Min({Hits(q) - Offset(v, q), q.size})
<1>1. Hits(q) \in Nat /\ q.size \in Nat \ {0} /\ q.page \in Nat \ {0}
  BY FoundIsFinite
<1>2. Offset(v, q) \in Nat
  <2>1. (q.page - 1) \in Nat /\ q.size \in Nat
    BY <1>1
  <2>2. \A a, b \in Nat : a * b \in Nat
    OBVIOUS
  <2> QED
    BY <2>1, <2>2 DEF Offset
<1> DEFINE off == Offset(v, q)
<1>3. len \in {Hits(q) - off, q.size} /\ len <= Hits(q) - off /\ len <= q.size
  <2>1. \A a, b \in Int : \E x \in {a, b} : \A y \in {a, b} : x <= y
    OBVIOUS
  <2>2. Hits(q) - off \in Int /\ q.size \in Int
    BY <1>1, <1>2
  <2> HIDE DEF off
  <2>3. \E x \in {Hits(q) - off, q.size} : \A y \in {Hits(q) - off, q.size} : x <= y
    BY <2>1, <2>2
  <2> QED
    BY <2>3 DEF Min, off
<1>4. Answer(v, q) = [i \in 1 .. len |-> RowAfter(q, off + i - 1)]
  BY DEF Answer
<1> HIDE DEF len, off
<1>5. ASSUME NEW i \in 1 .. len PROVE off + i - 1 \in 0 .. Hits(q) - 1
  BY <1>1, <1>2, <1>3 DEF off
<1>6. Range(Answer(v, q)) \subseteq Found[q.search]
  BY <1>4, <1>5, RowAfterIsFound DEF Range
<1>7. ASSUME Hits(q) > off PROVE Answer(v, q) # <<>>
  <2>1. 1 \in DOMAIN Answer(v, q)
    BY <1>1, <1>2, <1>3, <1>4, <1>7 DEF off
  <2> QED
    BY <2>1
<1> QED
  BY <1>6, <1>7 DEF off

-----------------------------------------------------------------------------
(* Requests have numbers that were given out.                              *)
ShapeInv ==
    /\ TypeOK
    /\ \A f \in inflight : f.id < fetches
    /\ \A o \in posts : o.id < sent
    /\ sent \in 0 .. MaxEntries

(* Without an overlap at most one request is on its way, for the query.    *)
FetchInv == ~overlapped => \A f, g \in inflight : f = g /\ f.asked = query

(* Without a request that failed or was overlapped, the page exists, and   *)
(* the total by which the grid pages is that of the query.                 *)
ReachInv ==
    ~strayed =>
        /\ ~overlapped
        /\ Hits(query) > 0 => Offset(view, query) < Hits(query)
        /\ inflight = {} => rows = Answer(view, query) /\ total = Hits(query)

(* Until an order is repeated there is one at most on its way, of what is  *)
(* in the form; and what is in the form has not been ordered yet, unless   *)
(* by this one.                                                            *)
OrderInv ==
    ~repeated =>
        /\ \A o \in posts : o.items \subseteq quantities /\ o.awaited
        /\ \A o, n \in posts : o = n
        /\ \A p \in quantities :
               (\A o \in posts : o.taken => p \notin o.items) => ordered[p] < entered[p]

PagesInv == ShapeInv /\ FetchInv /\ SettledIsAsked /\ ReachInv /\ OrderInv /\ OrderedOnce

-----------------------------------------------------------------------------
LEMMA FirstQueryIsOne ==
    ASSUME NEW v \in {"product", "orders"}
    PROVE  FirstQuery(v) \in Queries /\ FirstQuery(v).page = 1
BY PageAssumption DEF FirstQuery, Queries

LEMMA PageOne ==
    ASSUME NEW q \in Queries
    PROVE  [q EXCEPT !.page = 1] \in Queries /\ [q EXCEPT !.page = 1].page = 1
BY DEF Queries

LEMMA OnFirstPage ==
    ASSUME NEW q \in Queries, NEW s \in Searches
    PROVE  /\ [q EXCEPT !.search = s, !.page = 1] \in Queries
           /\ [q EXCEPT !.search = s, !.page = 1].page = 1
<1> DEFINE new == [q EXCEPT !.search = s, !.page = 1]
<1>1. [q EXCEPT !.search = s] \in Queries
  BY DEF Queries
<1>2. new = [[q EXCEPT !.search = s] EXCEPT !.page = 1]
  BY DEF Queries
<1> HIDE DEF new
<1>3. new \in Queries /\ new.page = 1
  BY <1>1, <1>2, PageOne
<1> QED
  BY <1>3 DEF new

LEMMA FirstPageStartsAtZero ==
    ASSUME NEW v, NEW q \in Queries, q.page = 1
    PROVE  Offset(v, q) = 0
<1>1. q.size \in Nat
  BY FoundIsFinite
<1>2. \A a \in Nat : (1 - 1) * a = 0
  OBVIOUS
<1> QED
  BY <1>1, <1>2 DEF Offset

LEMMA NoRows == Range(<<>>) = {}
BY DEF Range

LEMMA InitPages == Init => PagesInv
<1> SUFFICES ASSUME Init PROVE PagesInv
  OBVIOUS
<1>1. query \in Queries /\ Offset(view, query) = 0 /\ Hits(query) \in Nat
  BY FirstQueryIsOne, FirstPageStartsAtZero, FoundIsFinite DEF Init
<1>2. ShapeInv
  <2>1. view \in {"product", "orders"} /\ pending \in Searches /\ isLoading \in BOOLEAN
    BY PageAssumption DEF Init
  <2>2. inflight \subseteq [id : 0 .. MaxFetches, asked : Queries]
            /\ fetches \in 0 .. MaxFetches /\ \A f \in inflight : f.id < fetches
    BY <1>1, PageAssumption DEF Init
  <2>3. Shown \subseteq Items /\ total \in Nat
    BY NoRows DEF Init, Shown
  <2>4. quantities \subseteq Items /\ posts = {} /\ sent \in 0 .. MaxEntries
    BY PageAssumption DEF Init
  <2>5. entered \in [Items -> Nat] /\ ordered \in [Items -> Nat]
    BY DEF Init
  <2>6. overlapped \in BOOLEAN /\ strayed \in BOOLEAN /\ repeated \in BOOLEAN
    BY DEF Init
  <2> QED
    BY <1>1, <2>1, <2>2, <2>3, <2>4, <2>5, <2>6 DEF ShapeInv, TypeOK
<1>3. inflight # {} /\ \A f, g \in inflight : f = g /\ f.asked = query
  BY DEF Init
<1>4. FetchInv /\ SettledIsAsked /\ ReachInv
  BY <1>1, <1>3 DEF Init, FetchInv, SettledIsAsked, ReachInv
<1>5. OrderInv /\ OrderedOnce
  BY DEF Init, OrderInv, OrderedOnce
<1> QED
  BY <1>2, <1>4, <1>5 DEF PagesInv

(* A request for a list, from any of the controls.                         *)
LEMMA FetchKeeps ==
    ASSUME PagesInv, NEW new \in Queries, Fetch(new), pending' \in Searches,
           inflight = {} /\ ~strayed /\ Hits(new) > 0 => Offset(view, new) < Hits(new)
    PROVE  PagesInv'
<1> USE DEF Fetch, PagesInv, form
<1>1. ShapeInv'
  <2>1. fetches \in Nat /\ fetches + 1 \in 0 .. MaxFetches /\ fetches \in 0 .. MaxFetches
    BY PageAssumption DEF ShapeInv, TypeOK
  <2>2. inflight' \subseteq [id : 0 .. MaxFetches, asked : Queries]
            /\ \A f \in inflight' : f.id < fetches'
    BY <2>1 DEF ShapeInv, TypeOK, Asked
  <2> QED
    BY <2>1, <2>2 DEF ShapeInv, TypeOK, Shown, Range
<1>2. inflight' # {} /\ (inflight = {} => \A f, g \in inflight' : f = g /\ f.asked = query')
  <2> DEFINE f0 == [id |-> fetches, asked |-> new]
  <2>1. inflight' = inflight \union {f0} /\ f0.asked = new /\ query' = new
    BY DEF Asked
  <2> HIDE DEF f0
  <2> QED
    BY <2>1
<1>5. FetchInv' /\ SettledIsAsked'
  BY <1>2 DEF FetchInv, SettledIsAsked
<1>3. ReachInv'
  BY <1>2 DEF ReachInv
<1>4. OrderInv' /\ OrderedOnce'
  BY DEF OrderInv, OrderedOnce
<1> QED
  BY <1>1, <1>3, <1>4, <1>5

(* An action that leaves the list alone, and one that leaves the form.     *)
LEMMA ListUnchanged ==
    ASSUME PagesInv, UNCHANGED <<view, list, overlapped, strayed>>
    PROVE  FetchInv' /\ SettledIsAsked' /\ ReachInv'
BY DEF PagesInv, list, FetchInv, SettledIsAsked, ReachInv

LEMMA FormUnchanged ==
    ASSUME PagesInv, UNCHANGED <<form, repeated>>
    PROVE  OrderInv' /\ OrderedOnce'
BY DEF PagesInv, form, OrderInv, OrderedOnce

LEMMA SearchKeeps ==
    ASSUME PagesInv, HandleSearch \/ HandleReset
    PROVE  PagesInv'
<1>1. PICK s \in Searches : Fetch(SearchFrom(s)) /\ pending' \in Searches
  BY PageAssumption DEF HandleSearch, HandleReset, PagesInv, ShapeInv, TypeOK
<1>2. SearchFrom(s) \in Queries /\ SearchFrom(s).page = 1
  <2>1. query \in Queries
    BY DEF PagesInv, ShapeInv, TypeOK
  <2> QED
    BY <2>1, OnFirstPage DEF SearchFrom
<1>3. Offset(view, SearchFrom(s)) = 0
  BY <1>2, FirstPageStartsAtZero
<1> HIDE DEF SearchFrom
<1> QED
  BY <1>1, <1>2, <1>3, FetchKeeps

LEMMA PageChangeKeeps ==
    ASSUME PagesInv, NEW p \in GridPages, HandlePageChange(p)
    PROVE  PagesInv'
<1> DEFINE new == [query EXCEPT !.page = p + 1]
<1>1. p \in Nat /\ p * query.size < total /\ query \in Queries
  BY DEF GridPages, PagesInv, ShapeInv, TypeOK
<1>2. new \in Queries /\ new.page = p + 1 /\ new.size = query.size
          /\ new.search = query.search
  BY <1>1 DEF Queries
<1>3. inflight = {} /\ ~strayed => total = Hits(query)
  BY DEF PagesInv, ReachInv
<1>4. Hits(new) = Hits(query)
  BY <1>2 DEF Hits
<1>5. p + 1 - 1 = p
  BY <1>1
<1>6. Offset(view, new) \in {p * query.size, 0}
  <2> HIDE DEF new
  <2>1. new.page - 1 = p /\ new.size = query.size
    BY <1>1, <1>2, <1>5
  <2> QED
    BY <2>1 DEF Offset
<1>7. Fetch(new) /\ pending' \in Searches
  BY DEF HandlePageChange, PagesInv, ShapeInv, TypeOK
<1> HIDE DEF new
<1>8. inflight = {} /\ ~strayed /\ Hits(new) > 0 => Offset(view, new) < Hits(new)
  BY <1>1, <1>3, <1>4, <1>6
<1> QED
  BY <1>2, <1>7, <1>8, FetchKeeps

LEMMA PageSizeKeeps ==
    ASSUME PagesInv, NEW size \in Sizes, HandlePageSizeChange(size)
    PROVE  PagesInv'
<1> DEFINE new == [query EXCEPT !.size = size, !.page = 1]
<1>1. new \in Queries /\ new.page = 1
  <2>1. query \in Queries
    BY DEF PagesInv, ShapeInv, TypeOK
  <2>2. size \in Nat \ {0}
    BY PageAssumption
  <2>3. [query EXCEPT !.size = size] \in Queries
    BY <2>1 DEF Queries
  <2>4. new = [[query EXCEPT !.size = size] EXCEPT !.page = 1]
    BY <2>1 DEF Queries
  <2> HIDE DEF new
  <2> QED
    BY <2>3, <2>4, PageOne
<1>2. Fetch(new) /\ pending' \in Searches
  BY DEF HandlePageSizeChange, PagesInv, ShapeInv, TypeOK
<1> HIDE DEF new
<1>3. Offset(view, new) = 0
  BY <1>1, FirstPageStartsAtZero
<1> QED
  BY <1>1, <1>2, <1>3, FetchKeeps

LEMMA SortKeeps ==
    ASSUME PagesInv, NEW order \in {"asc", "desc"}, HandleSortModelChange(order)
    PROVE  PagesInv'
<1> DEFINE new == [query EXCEPT !.order = order]
<1>1. new \in Queries /\ new.page = query.page /\ new.size = query.size
          /\ new.search = query.search
  BY DEF Queries, PagesInv, ShapeInv, TypeOK
<1>2. Fetch(new) /\ pending' \in Searches
  BY DEF HandleSortModelChange, PagesInv, ShapeInv, TypeOK
<1>3. Hits(new) = Hits(query) /\ Offset(view, new) = Offset(view, query)
  BY <1>1 DEF Hits, Offset
<1> HIDE DEF new
<1>4. ~strayed /\ Hits(new) > 0 => Offset(view, new) < Hits(new)
  BY <1>3 DEF PagesInv, ReachInv
<1> QED
  BY <1>1, <1>2, <1>4, FetchKeeps

LEMMA AnswerKeeps ==
    ASSUME PagesInv, NEW f \in inflight, ListArrives(f) \/ ListFails(f)
    PROVE  PagesInv'
<1> USE DEF PagesInv, ShapeInv
<1>1. f.asked \in Queries
  BY DEF TypeOK
<1>2. Hits(f.asked) \in Nat /\ Range(Answer(view, f.asked)) \subseteq Items
  BY <1>1, FoundIsFinite, AnswerRows
<1>3. ~overlapped => inflight \ {f} = {} /\ f.asked = query
  BY DEF FetchInv
<1>4. CASE ListArrives(f)
  <2>1. ShapeInv'
    BY <1>2, <1>4 DEF ListArrives, TypeOK, Shown, form, history
  <2>2. FetchInv' /\ SettledIsAsked' /\ ReachInv'
    BY <1>3, <1>4 DEF ListArrives, FetchInv, SettledIsAsked, ReachInv, history
  <2>3. OrderInv' /\ OrderedOnce'
    BY <1>4, FormUnchanged DEF ListArrives, history
  <2> QED
    BY <2>1, <2>2, <2>3
<1>5. CASE ListFails(f)
  <2>1. ShapeInv'
    BY <1>5, NoRows DEF ListFails, Finally, TypeOK, Shown, form
  <2>2. FetchInv' /\ SettledIsAsked' /\ ReachInv'
    BY <1>3, <1>5 DEF ListFails, FetchInv, SettledIsAsked, ReachInv
  <2>3. OrderInv' /\ OrderedOnce'
    BY <1>5, FormUnchanged DEF ListFails
  <2> QED
    BY <2>1, <2>2, <2>3
<1> QED
  BY <1>4, <1>5

LEMMA FormKeeps ==
    ASSUME PagesInv,
           \/ \E p \in Items : HandleQuantityChange(p)
           \/ HandleSubmit
           \/ \E o \in posts : OrderTaken(o) \/ OrderConfirmed(o) \/ OrderFails(o)
                                  \/ OrderUnanswered(o)
    PROVE  PagesInv'
<1> USE DEF PagesInv, ShapeInv
<1>1. ASSUME NEW p \in Items, HandleQuantityChange(p) PROVE PagesInv'
  <2>1. ShapeInv'
    BY <1>1 DEF HandleQuantityChange, TypeOK, Shown, list, history
  <2>2. OrderInv' /\ OrderedOnce'
    BY <1>1 DEF HandleQuantityChange, TypeOK, OrderInv, OrderedOnce, history
  <2>3. FetchInv' /\ SettledIsAsked' /\ ReachInv'
    BY <1>1, ListUnchanged DEF HandleQuantityChange, history
  <2> QED
    BY <2>1, <2>2, <2>3
<1>2. CASE HandleSubmit
  <2> DEFINE o == [id |-> sent, items |-> quantities \intersect Shown,
                   taken |-> FALSE, awaited |-> TRUE]
  <2>4. sent \in Nat /\ sent' = sent + 1 /\ sent' \in 0 .. MaxEntries
            /\ sent \in 0 .. MaxEntries
    BY <1>2, PageAssumption DEF HandleSubmit
  <2>5. /\ o \in [id : 0 .. MaxEntries, items : SUBSET Items, taken : BOOLEAN,
                   awaited : BOOLEAN]
        /\ o.id = sent /\ o.items \subseteq quantities /\ ~o.taken /\ o.awaited
    BY <2>4 DEF TypeOK
  <2>6. posts' = posts \union {o} /\ (~repeated' => ~repeated /\ posts = {})
    BY <1>2 DEF HandleSubmit
  <2> HIDE DEF o
  <2>1. ShapeInv'
    <3>1. posts' \subseteq [id : 0 .. MaxEntries, items : SUBSET Items, taken : BOOLEAN,
                            awaited : BOOLEAN]
              /\ \A n \in posts' : n.id < sent'
      BY <2>4, <2>5, <2>6 DEF TypeOK
    <3>2. repeated' \in BOOLEAN
      BY <1>2 DEF HandleSubmit, TypeOK
    <3> QED
      BY <1>2, <2>4, <3>1, <3>2 DEF HandleSubmit, TypeOK, Shown, list
  <2>2. OrderInv' /\ OrderedOnce'
    BY <1>2, <2>5, <2>6 DEF HandleSubmit, OrderInv, OrderedOnce
  <2>3. FetchInv' /\ SettledIsAsked' /\ ReachInv'
    BY <1>2, ListUnchanged DEF HandleSubmit
  <2> QED
    BY <2>1, <2>2, <2>3
<1>3. ASSUME NEW o \in posts, OrderTaken(o) PROVE PagesInv'
  <2> DEFINE t == [o EXCEPT !.taken = TRUE]
  <2>4. /\ t \in [id : 0 .. MaxEntries, items : SUBSET Items, taken : BOOLEAN,
                   awaited : BOOLEAN]
        /\ t.id = o.id /\ t.items = o.items /\ t.taken
        /\ t.awaited = o.awaited /\ ~o.taken /\ o.items \subseteq Items
    BY <1>3 DEF OrderTaken, TypeOK
  <2>5. posts' = (posts \ {o}) \union {n \in {t} : o.awaited}
    BY <1>3 DEF OrderTaken
  <2>6. \A p \in Items : /\ ordered[p] \in Nat /\ entered[p] \in Nat
                          /\ ordered'[p] = ordered[p] + IF p \in o.items THEN 1 ELSE 0
    BY <1>3 DEF OrderTaken, TypeOK
  <2> HIDE DEF t
  <2>1. ShapeInv'
    <3>1. posts' \subseteq [id : 0 .. MaxEntries, items : SUBSET Items, taken : BOOLEAN,
                            awaited : BOOLEAN]
              /\ \A n \in posts' : n.id < sent
      BY <2>4, <2>5 DEF TypeOK
    <3>2. ordered' \in [Items -> Nat]
      BY <1>3 DEF OrderTaken, TypeOK
    <3> QED
      BY <1>3, <3>1, <3>2 DEF OrderTaken, TypeOK, Shown, list, history
  <2>2. OrderInv' /\ OrderedOnce'
    <3> SUFFICES ASSUME ~repeated PROVE OrderInv' /\ OrderedOnce'
      BY <1>3 DEF OrderTaken, OrderInv, OrderedOnce, history
    <3>1. o.items \subseteq quantities /\ posts = {o} /\ posts' = {t}
      BY <2>5 DEF OrderInv
    <3>2. quantities' = quantities /\ entered' = entered /\ quantities \subseteq Items
      BY <1>3 DEF OrderTaken, TypeOK
    <3>3. ASSUME NEW p \in Items
          PROVE  /\ ordered'[p] <= entered[p]
                 /\ p \in quantities /\ p \notin o.items => ordered'[p] < entered[p]
      BY <2>4, <2>6, <3>1 DEF OrderInv, OrderedOnce
    <3> QED
      BY <2>4, <3>1, <3>2, <3>3 DEF OrderInv, OrderedOnce
  <2>3. FetchInv' /\ SettledIsAsked' /\ ReachInv'
    BY <1>3, ListUnchanged DEF OrderTaken, history
  <2> QED
    BY <2>1, <2>2, <2>3
<1>4. ASSUME NEW o \in posts, OrderConfirmed(o) \/ OrderFails(o) PROVE PagesInv'
  <2>1. ShapeInv'
    BY <1>4 DEF OrderConfirmed, OrderFails, AfterOrder, TypeOK, Shown, list, history
  <2>2. OrderInv' /\ OrderedOnce'
    BY <1>4 DEF OrderConfirmed, OrderFails, AfterOrder, TypeOK, OrderInv, OrderedOnce, history
  <2>3. FetchInv' /\ SettledIsAsked' /\ ReachInv'
    BY <1>4, ListUnchanged DEF OrderConfirmed, OrderFails, history
  <2> QED
    BY <2>1, <2>2, <2>3
<1>5. ASSUME NEW o \in posts, OrderUnanswered(o) PROVE PagesInv'
  <2>1. ShapeInv'
    BY <1>5 DEF OrderUnanswered, TypeOK, Shown, list
  <2>2. OrderInv' /\ OrderedOnce'
    BY <1>5 DEF OrderUnanswered, OrderInv, OrderedOnce
  <2>3. FetchInv' /\ SettledIsAsked' /\ ReachInv'
    BY <1>5, ListUnchanged DEF OrderUnanswered
  <2> QED
    BY <2>1, <2>2, <2>3
<1> QED
  BY <1>1, <1>2, <1>3, <1>4, <1>5

LEMMA NextPages == PagesInv /\ [Next]_vars => PagesInv'
<1> SUFFICES ASSUME PagesInv, [Next]_vars PROVE PagesInv'
  OBVIOUS
<1>1. ASSUME pending' \in Searches, UNCHANGED <<view, list, form, history>> PROVE PagesInv'
  <2>1. ShapeInv'
    BY <1>1 DEF PagesInv, ShapeInv, TypeOK, Shown, list, form, history
  <2> QED
    BY <1>1, <2>1, ListUnchanged, FormUnchanged DEF PagesInv, history
<1>2. ASSUME NEW s \in Searches, TypeSearch(s) PROVE PagesInv'
  BY <1>1, <1>2 DEF TypeSearch
<1>3. CASE UNCHANGED vars
  BY <1>1, <1>3 DEF vars, PagesInv, ShapeInv, TypeOK
<1> QED
  BY <1>2, <1>3, SearchKeeps, PageChangeKeeps, PageSizeKeeps, SortKeeps, AnswerKeeps,
     FormKeeps DEF Next

LEMMA PagesAlways == Spec => []PagesInv
BY InitPages, NextPages, PTL DEF Spec

-----------------------------------------------------------------------------
(* Every variable keeps its shape; no page is numbered 0, and the grid     *)
(* shows rows of the table only.                                           *)
THEOREM TypeCorrect == Spec => []TypeOK
<1>1. PagesInv => TypeOK
  BY DEF PagesInv, ShapeInv
<1> QED
  BY <1>1, PagesAlways, PTL

(* A grid that waits for nothing shows what its query asks for, or nothing *)
(* after a failure, unless the last two requests overlapped.               *)
THEOREM SettledIsAskedAlways == Spec => []SettledIsAsked
<1>1. PagesInv => SettledIsAsked
  BY DEF PagesInv
<1> QED
  BY <1>1, PagesAlways, PTL

(* Without failures and overlaps no control leads to a page past the end.  *)
THEOREM PageExistsAlways == Spec => []PageExists
<1>1. PagesInv => PageExists
  <2> SUFFICES ASSUME PagesInv, inflight = {}, ~strayed, Hits(query) > 0
               PROVE  rows # <<>>
    BY DEF PageExists
  <2>1. query \in Queries /\ Hits(query) > Offset(view, query) /\ rows = Answer(view, query)
    <3>1. query \in Queries /\ Offset(view, query) < Hits(query)
              /\ rows = Answer(view, query)
      BY DEF PagesInv, ShapeInv, TypeOK, ReachInv
    <3> QED
      BY <3>1
  <2> QED
    BY <2>1, AnswerRows
<1> QED
  BY <1>1, PagesAlways, PTL

(* What was typed once is ordered at most once.                            *)
THEOREM OrderedOnceAlways == Spec => []OrderedOnce
<1>1. PagesInv => OrderedOnce
  BY DEF PagesInv
<1> QED
  BY <1>1, PagesAlways, PTL
=============================================================================
