------------------------------ MODULE Listing ------------------------------
(***************************************************************************)
(* The two paged lists of the shop, read by one user who leafs through     *)
(* them from the first page to the last:                                   *)
(*                                                                         *)
(*  - POST product   ProductHandler.List and ListProducts;                 *)
(*  - POST orders    OrderHandler.List, FetchOrders and ListOrders.        *)
(*                                                                         *)
(* Each page is two statements outside any transaction: COUNT for the      *)
(* total, then SELECT with LIMIT and OFFSET.  Meanwhile other requests     *)
(* commit orders of the same user and change their status.  Products never *)
(* change, nor do names, so that a search only makes the tables smaller.   *)
(***************************************************************************)
EXTENDS Integers, Sequences, FiniteSets, SequencesExt

CONSTANTS
    MaxOrders,     \* bound: orders of this user
    ProductValue,  \* products.value, by product_id from 1
    PageSizes,     \* page_size of a request; 0: left out
    DefaultSize    \* the page size when none is asked for (20)

ASSUME ListingAssumption ==
    /\ MaxOrders \in Nat
    /\ ProductValue \in Seq(Nat)
    /\ PageSizes \subseteq Nat
    /\ DefaultSize \in Nat \ {0}

VARIABLES
    status,  \* orders.shipped_status of the user's orders; "none": no such row
    pc,      \* how far the request is; "idle" and "left" between two lists
    list,    \* the list being read
    sort,    \* [field, order] of the request
    page,    \* req.Page
    size,    \* req.PageSize after the defaults
    total,   \* what COUNT returned
    data,    \* what SELECT returned
    leafed,  \* history: the rows of all pages so far
    before   \* history: the rows there were when the first page was asked for

vars == <<status, pc, list, sort, page, size, total, data, leafed, before>>
request == <<list, sort, page, size, before>>

OrderId == 1 .. MaxOrders
Products == DOMAIN ProductValue

(* The sort fields the clients send for each list, and the orders.         *)
Sorts ==
    [products |-> [field : {"product_id", "value"}, order : {"asc", "desc"}],
     orders |-> [field : {"order_id", "shipped_status"}, order : {"asc", "desc"}]]

Init ==
    /\ status = [o \in OrderId |-> "none"]
    /\ pc = "idle"
    /\ list = "products"
    /\ sort = [field |-> "product_id", order |-> "asc"]
    /\ page = 1 /\ size = DefaultSize
    /\ total = 0 /\ data = <<>>
    /\ leafed = <<>> /\ before = {}

(* JOIN products keeps every order: product_id is a foreign key.           *)
Rows(l) == IF l = "products" THEN Products ELSE {o \in OrderId : status[o] # "none"}

-----------------------------------------------------------------------------
(* Other requests: OrderDelivery has them in full.                         *)

CommitOrders ==
    /\ \E S \in SUBSET {o \in OrderId : status[o] = "none"} :
        /\ S # {}
        /\ status' = [o \in OrderId |-> IF o \in S THEN "shipping" ELSE status[o]]
    /\ UNCHANGED <<pc, request, total, data, leafed>>

UpdateStatus ==
    /\ \E o \in Rows("orders"), s \in {"delivering", "completed"} :
        status' = [status EXCEPT ![o] = s]
    /\ UNCHANGED <<pc, request, total, data, leafed>>

-----------------------------------------------------------------------------
PageSize(n) == IF n <= 0 THEN DefaultSize ELSE n

(* The first page of a list.                                               *)
OpenList ==
    /\ pc \in {"idle", "left"}
    /\ \E l \in {"products", "orders"}, n \in PageSizes :
        /\ list' = l
        /\ sort' \in Sorts[l]
        /\ size' = PageSize(n)
        /\ before' = Rows(l)
    /\ page' = 1
    /\ total' = 0 /\ data' = <<>>
    /\ leafed' = <<>>
    /\ pc' = "asked"
    /\ UNCHANGED status

Count ==
    /\ pc = "asked"
    /\ total' = Cardinality(Rows(list))
    /\ pc' = "counted"
    /\ UNCHANGED <<status, request, data, leafed>>

(* ProductHandler.List sets req.Offset; OrderHandler.List leaves it at 0.  *)
Offset == IF list = "products" THEN (page - 1) * size ELSE 0

StatusRank == [completed |-> 1, delivering |-> 2, shipping |-> 3]

SortKey(r) ==
    CASE sort.field = "value" -> ProductValue[r]
      [] sort.field = "shipped_status" -> StatusRank[status[r]]
      [] OTHER -> r

(* Variants: the order asked for is ignored; nothing orders equal keys.    *)
MayPrecede_Ascending(a, b) ==
    \/ SortKey(a) < SortKey(b)
    \/ SortKey(a) = SortKey(b) /\ (list = "products" => a < b)

MayPrecede_NoTieBreak(a, b) ==
    \/ IF sort.order = "asc" THEN SortKey(a) < SortKey(b) ELSE SortKey(a) > SortKey(b)
    \/ SortKey(a) = SortKey(b)

(* ORDER BY: products of equal key by product_id, orders of equal key in   *)
(* any order.                                                              *)
MayPrecede(a, b) ==
    \/ IF sort.order = "asc" THEN SortKey(a) < SortKey(b) ELSE SortKey(a) > SortKey(b)
    \/ SortKey(a) = SortKey(b) /\ (list = "products" => a < b)

Sortings(S) ==
    {s \in SetToSeqs(S) : \A j, k \in 1 .. Len(s) : j < k => MayPrecede(s[j], s[k])}

(* LIMIT size OFFSET Offset.                                               *)
Limit(s) ==
    SubSeq(s, Offset + 1, IF Offset + size < Len(s) THEN Offset + size ELSE Len(s))

(* Variant: the rows come from a cache filled when the list was opened.    *)
SelectPage_Cached ==
    /\ pc = "counted"
    /\ \E s \in Sortings(before) : data' = Limit(s)
    /\ leafed' = leafed \o data'
    /\ pc' = "answered"
    /\ UNCHANGED <<status, request, total>>

SelectPage ==
    /\ pc = "counted"
    /\ \E s \in Sortings(Rows(list)) : data' = Limit(s)
    /\ leafed' = leafed \o data'
    /\ pc' = "answered"
    /\ UNCHANGED <<status, request, total>>

(* A statement fails or WithTimeout gives up: 500, the reader leaves.      *)
Fail ==
    /\ pc \in {"asked", "counted"}
    /\ pc' = "idle"
    /\ UNCHANGED <<status, request, total, data, leafed>>

(* The page control of the client counts pages by the latest total.        *)
NextPage ==
    /\ pc = "answered" /\ page * size < total
    /\ page' = page + 1
    /\ total' = 0 /\ data' = <<>>
    /\ pc' = "asked"
    /\ UNCHANGED <<status, list, sort, size, before, leafed>>

LeaveList ==
    /\ pc = "answered" /\ page * size >= total
    /\ pc' = "left"
    /\ UNCHANGED <<status, request, total, data, leafed>>

Next ==
    \/ CommitOrders \/ UpdateStatus
    \/ OpenList \/ Count \/ SelectPage \/ Fail \/ NextPage \/ LeaveList

Spec == Init /\ [][Next]_vars

-----------------------------------------------------------------------------
(* Every variable keeps its shape.                                         *)
TypeOK ==
    /\ status \in [OrderId -> {"none", "shipping", "delivering", "completed"}]
    /\ pc \in {"idle", "asked", "counted", "answered", "left"}
    /\ list \in {"products", "orders"}
    /\ sort \in Sorts[list]
    /\ page \in Nat \ {0} /\ size \in Nat \ {0}
    /\ total \in Nat
    /\ data \in Seq(Rows(list)) /\ Len(data) <= size
    /\ before \subseteq Rows(list)

(* No page is shorter than the total beside it says: rows are counted      *)
(* before they are read and none is ever deleted.  Of the order history    *)
(* this is said of the first page only.                                    *)
PageIsFilled ==
    pc = "answered" /\ (list = "products" \/ page = 1) =>
        \/ Len(data) = size
        \/ Len(data) >= total - (page - 1) * size

(* Leafing through the products shows each of them once, whatever they are *)
(* sorted by: equal keys keep one order from page to page.                 *)
ProductsOnce ==
    pc = "left" /\ list = "products" =>
        Len(leafed) = Cardinality(Products) /\ Range(leafed) = Products

(* The history sorted by order_id, newest first: every order there was     *)
(* when it was opened is on the first page or older than all that are.     *)
NewestFirst ==
    /\ pc = "answered" /\ list = "orders" /\ page = 1
    /\ sort = [field |-> "order_id", order |-> "desc"]
    => \A o \in before : o \in Range(data) \/ \A d \in Range(data) : o < d

(* Leafing through the order history shows every order, when none is added *)
(* meanwhile and they are sorted by order_id: the API takes a page number. *)
HistoryIsReachable ==
    /\ pc = "left" /\ list = "orders" /\ sort.field = "order_id"
    /\ Rows("orders") = before
    => Range(leafed) = before
=============================================================================
