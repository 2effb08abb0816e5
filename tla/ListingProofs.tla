--------------------------- MODULE ListingProofs ---------------------------
(***************************************************************************)
(* Theorems about Listing for any products, orders and page sizes.         *)
(***************************************************************************)
EXTENDS Listing, FiniteSetTheorems, SequenceTheorems, WellFoundedInduction, TLAPS

-----------------------------------------------------------------------------
(* The tables and their orderings.                                         *)

LEMMA RowsAreFinite ==
    ASSUME NEW l \in {"products", "orders"}
    PROVE  Rows(l) \subseteq Nat /\ IsFiniteSet(Rows(l)) /\ Cardinality(Rows(l)) \in Nat
<1>1. Products = 1 .. Len(ProductValue) /\ Len(ProductValue) \in Nat
  BY ListingAssumption, LenProperties DEF Products
<1>2. IsFiniteSet(Products) /\ Products \subseteq Nat
  BY <1>1, FS_Interval
<1>3. IsFiniteSet(OrderId) /\ OrderId \subseteq Nat
  BY ListingAssumption, FS_Interval DEF OrderId
<1>4. Rows(l) \subseteq Nat /\ IsFiniteSet(Rows(l))
  <2>1. {o \in OrderId : status[o] # "none"} \in SUBSET OrderId
    OBVIOUS
  <2>2. IsFiniteSet({o \in OrderId : status[o] # "none"})
    BY <1>3, <2>1, FS_Subset
  <2> QED
    BY <1>2, <1>3, <2>2 DEF Rows
<1> QED
  BY <1>4, FS_CardinalityType

LEMMA ProductsAreFinite == IsFiniteSet(Products) /\ Cardinality(Products) \in Nat
  BY RowsAreFinite DEF Rows

(* A sorting lists every row once.                                         *)
LEMMA SortingShape ==
    ASSUME NEW S, IsFiniteSet(S), NEW s \in Sortings(S)
    PROVE  /\ Cardinality(S) \in Nat /\ Len(s) = Cardinality(S)
           /\ s \in Seq(S) /\ s \in [1 .. Len(s) -> S]
           /\ \A j, k \in 1 .. Len(s) : j # k => s[j] # s[k]
           /\ \A x \in S : \E k \in 1 .. Len(s) : s[k] = x
           /\ \A j, k \in 1 .. Len(s) : j < k => MayPrecede(s[j], s[k])
<1> DEFINE c == Cardinality(S)
<1>1. c \in Nat
  BY FS_CardinalityType
<1>2. s \in [1 .. c -> S] /\ \A j, k \in 1 .. c : j # k => s[j] # s[k]
  BY DEF Sortings, SetToSeqs
<1>3. s \in Seq(S) /\ Len(s) = c
  BY <1>1, <1>2
<1>4. s \in Injection(1 .. c, S)
  BY <1>2 DEF Injection, IsInjective
<1>5. IsFiniteSet(1 .. c) /\ Cardinality(1 .. c) = c
  BY <1>1, FS_Interval
<1>6. s \in Surjection(1 .. c, S)
  BY <1>4, <1>5, FS_Injection
<1>7. \A x \in S : \E k \in 1 .. c : s[k] = x
  BY <1>6 DEF Surjection
<1>8. \A j, k \in 1 .. Len(s) : j < k => MayPrecede(s[j], s[k])
  BY DEF Sortings
<1> QED
  BY <1>1, <1>2, <1>3, <1>7, <1>8

(* Of two products one comes before the other, whatever they are sorted    *)
(* by.                                                                     *)
LEMMA ProductsAreOrdered ==
    ASSUME list = "products", sort \in Sorts[list],
           NEW a \in Products, NEW b \in Products,
           MayPrecede(a, b), MayPrecede(b, a)
    PROVE  FALSE
<1>1. SortKey(a) \in Int /\ SortKey(b) \in Int /\ a \in Int /\ b \in Int
  <2>1. sort.field \in {"product_id", "value"}
    BY DEF Sorts
  <2>2. \A p \in Products : ProductValue[p] \in Int /\ p \in Int
    BY ListingAssumption, LenProperties DEF Products
  <2> QED
    BY <2>1, <2>2 DEF SortKey
<1>2. sort.order \in {"asc", "desc"}
  BY DEF Sorts
<1> QED
  BY <1>1, <1>2 DEF MayPrecede

(* So there is only one sorting of the products: where two differed first, *)
(* either product would come before the other.                             *)
LEMMA OneSorting ==
    ASSUME list = "products", sort \in Sorts[list],
           NEW s \in Sortings(Products), NEW t \in Sortings(Products)
    PROVE  s = t
<1> DEFINE D == {i \in 1 .. Len(s) : s[i] # t[i]}
<1>1. IsFiniteSet(Products)
  BY ProductsAreFinite
<1>2. Len(s) = Len(t) /\ Len(s) \in Nat /\ s \in Seq(Products) /\ t \in Seq(Products)
  BY <1>1, SortingShape
<1>3. ASSUME D # {} PROVE FALSE
  <2>1. D \subseteq Nat
    BY <1>2
  <2>2. PICK i \in D : \A j \in D : ~(j < i)
    <3> DEFINE R == OpToRel(<, Nat)
    <3>1. IsWellFoundedOn(R, Nat)
      BY NatLessThanWellFounded
    <3>2. \A i, j \in Nat : j < i => <<j, i>> \in R
      BY DEF OpToRel
    <3> HIDE DEF R, D
    <3>3. \E i \in D : \A j \in D : ~(<<j, i>> \in R)
      BY <1>3, <2>1, <3>1, WFMin
    <3> QED
      BY <2>1, <3>2, <3>3
  <2>3. \A j \in 1 .. Len(s) : j < i => s[j] = t[j]
    BY <1>2, <2>1, <2>2
  <2>4. i \in 1 .. Len(s) /\ s[i] \in Products /\ t[i] \in Products /\ s[i] # t[i]
    BY <1>1, <1>2, <2>2, SortingShape
  <2>a. \A x \in Products : \E k \in 1 .. Len(s) : s[k] = x
    BY <1>1, SortingShape
  <2>b. \A x \in Products : \E k \in 1 .. Len(t) : t[k] = x
    BY <1>1, SortingShape
  <2>5. PICK k \in 1 .. Len(s) : s[k] = t[i]
    BY <2>4, <2>a
  <2>6. PICK l \in 1 .. Len(t) : t[l] = s[i]
    BY <2>4, <2>b
  <2>7. k > i
    <3>1. k # i
      BY <2>4, <2>5
    <3>2. ~(k < i)
      <4>1. ASSUME k < i PROVE FALSE
        <5>1. t[k] = t[i]
          BY <2>3, <2>5, <4>1
        <5> QED
          BY <1>1, <1>2, <2>4, <3>1, <5>1, SortingShape
      <4> QED
        BY <4>1
    <3> QED
      BY <1>2, <3>1, <3>2
  <2>8. l > i
    <3>1. l # i
      BY <2>4, <2>6
    <3>2. ~(l < i)
      <4>1. ASSUME l < i PROVE FALSE
        <5>1. s[l] = s[i]
          BY <1>2, <2>3, <2>6, <4>1
        <5> QED
          BY <1>1, <1>2, <2>4, <3>1, <5>1, SortingShape
      <4> QED
        BY <4>1
    <3> QED
      BY <1>2, <3>1, <3>2
  <2>9. MayPrecede(s[i], t[i])
    BY <1>1, <2>4, <2>5, <2>7, SortingShape
  <2>10. MayPrecede(t[i], s[i])
    BY <1>1, <1>2, <2>4, <2>6, <2>8, SortingShape
  <2> QED
    BY <2>4, <2>9, <2>10, ProductsAreOrdered
<1> QED
  BY <1>2, <1>3, SeqEqual

LEMMA Products1 ==
    \A p, n \in Nat \ {0} :
        (p - 1) * n \in Nat /\ p * n \in Nat /\ p * n = (p - 1) * n + n
  OBVIOUS

LEMMA OffsetShape ==
    ASSUME TypeOK
    PROVE  /\ Offset \in Nat /\ (page - 1) * size \in Nat
           /\ page * size = (page - 1) * size + size
           /\ list = "products" \/ page = 1 => Offset = (page - 1) * size
<1>1. (page - 1) * size \in Nat /\ page * size = (page - 1) * size + size
  BY Products1 DEF TypeOK
<1>2. page = 1 => (page - 1) * size = 0
  BY DEF TypeOK
<1> QED
  BY <1>1, <1>2 DEF Offset, TypeOK

(* A page: full, or all that is left; and row Offset + i of the sorting at *)
(* place i.                                                                *)
LEMMA LimitShape ==
    ASSUME TypeOK, NEW s \in Sortings(Rows(list))
    PROVE  /\ Limit(s) \in Seq(Rows(list)) /\ Len(Limit(s)) <= size
           /\ \/ Len(Limit(s)) = size
              \/ Len(Limit(s)) >= Cardinality(Rows(list)) - Offset
           /\ \A i \in 1 .. Len(Limit(s)) :
                Offset + i \in 1 .. Len(s) /\ Limit(s)[i] = s[Offset + i]
           /\ \A k \in 1 .. Len(s) :
                Offset < k /\ k <= Offset + size =>
                    k - Offset \in 1 .. Len(Limit(s)) /\ Limit(s)[k - Offset] = s[k]
<1> DEFINE off == Offset
           c == Cardinality(Rows(list))
           end == IF off + size < Len(s) THEN off + size ELSE Len(s)
<1>1. list \in {"products", "orders"} /\ size \in Nat \ {0}
  BY DEF TypeOK
<1>2. IsFiniteSet(Rows(list)) /\ c \in Nat
  BY <1>1, RowsAreFinite
<1>3. Len(s) = c /\ s \in [1 .. Len(s) -> Rows(list)]
  BY <1>2, SortingShape
<1>4. off \in Nat
  BY OffsetShape
<1>5. Limit(s) = SubSeq(s, off + 1, end)
  BY DEF Limit
<1> HIDE DEF off, c
<1>6. end \in Int /\ end <= c /\ end <= off + size
          /\ (end = off + size \/ end = c) /\ off + 1 \in Int
  BY <1>1, <1>2, <1>3, <1>4
<1> HIDE DEF end
<1>7. \A i \in off + 1 .. end : s[i] \in Rows(list)
  BY <1>2, <1>3, <1>4, <1>6
<1>8. /\ Limit(s) \in Seq(Rows(list))
      /\ Len(Limit(s)) = IF off + 1 <= end THEN end - off ELSE 0
      /\ \A i \in 1 .. end - off : Limit(s)[i] = s[off + i]
  <2> DEFINE first == off + 1
  <2>1. first \in Int /\ end \in Int /\ \A i \in first .. end : s[i] \in Rows(list)
    BY <1>6, <1>7
  <2>2. end - first + 1 = end - off /\ \A i \in Int : first + i - 1 = off + i
    BY <1>4, <1>6
  <2>3. Limit(s) = SubSeq(s, first, end)
    BY <1>5
  <2> HIDE DEF first
  <2>4. /\ SubSeq(s, first, end) \in Seq(Rows(list))
        /\ Len(SubSeq(s, first, end)) = IF first <= end THEN end - first + 1 ELSE 0
        /\ \A i \in 1 .. end - first + 1 : SubSeq(s, first, end)[i] = s[first + i - 1]
    BY <2>1, SubSeqProperties
  <2>5. first <= end <=> off + 1 <= end
    BY DEF first
  <2> QED
    BY <1>4, <1>6, <2>2, <2>3, <2>4, <2>5
<1>9. Len(Limit(s)) <= size /\ (Len(Limit(s)) = size \/ Len(Limit(s)) >= c - off)
  BY <1>1, <1>2, <1>4, <1>6, <1>8
<1>10. \A i \in 1 .. Len(Limit(s)) : off + i \in 1 .. Len(s) /\ Limit(s)[i] = s[off + i]
  BY <1>2, <1>3, <1>4, <1>6, <1>8
<1>11. ASSUME NEW k \in 1 .. Len(s), off < k, k <= off + size
       PROVE  k - off \in 1 .. Len(Limit(s)) /\ Limit(s)[k - off] = s[k]
  BY <1>1, <1>2, <1>3, <1>4, <1>6, <1>8, <1>11
<1> QED
  BY <1>8, <1>9, <1>10, <1>11 DEF off, c

-----------------------------------------------------------------------------
(* The inductive invariant: rows are only added after they were counted,   *)
(* and the pages so far are the first rows of one sorting.                 *)

CountInv ==
    /\ pc = "counted" => total <= Cardinality(Rows(list))
    /\ pc \in {"counted", "answered", "left"} /\ list = "products" =>
            total = Cardinality(Products)
    /\ pc = "left" => page * size >= total

End == IF page * size < Cardinality(Products) THEN page * size ELSE Cardinality(Products)

LeafInv ==
    list = "products" =>
        /\ pc \in {"asked", "counted"} =>
                /\ (page - 1) * size <= Cardinality(Products)
                /\ \A s \in Sortings(Products) : leafed = SubSeq(s, 1, (page - 1) * size)
        /\ pc \in {"answered", "left"} =>
                \E s \in Sortings(Products) : leafed = SubSeq(s, 1, End)

ListInv == TypeOK /\ CountInv /\ LeafInv /\ PageIsFilled /\ NewestFirst

LEMMA InitList == Init => ListInv
<1> SUFFICES ASSUME Init PROVE ListInv
  OBVIOUS
<1>1. sort \in Sorts[list]
  BY DEF Init, Sorts
<1>2. TypeOK
  BY <1>1, ListingAssumption DEF Init, TypeOK
<1> QED
  BY <1>2 DEF Init, ListInv, CountInv, LeafInv, PageIsFilled, NewestFirst

(* Orders are added or change their status: no row goes away.              *)
LEMMA RowsGrow ==
    ASSUME TypeOK, list' = list, CommitOrders \/ UpdateStatus \/ UNCHANGED status
    PROVE  /\ Rows(list) \subseteq Rows(list)'
           /\ Cardinality(Rows(list)) <= Cardinality(Rows(list))'
           /\ Cardinality(Rows(list))' \in Nat
<1>1. Rows(list) \subseteq Rows(list)'
  BY DEF TypeOK, CommitOrders, UpdateStatus, Rows
<1>2. IsFiniteSet(Rows(list))'
  <2>1. {o \in OrderId : status'[o] # "none"} \in SUBSET OrderId
    OBVIOUS
  <2>2. IsFiniteSet(OrderId) /\ IsFiniteSet(Products)
    BY ListingAssumption, FS_Interval, LenProperties DEF OrderId, Products
  <2>3. IsFiniteSet({o \in OrderId : status'[o] # "none"})
    BY <2>1, <2>2, FS_Subset
  <2> QED
    BY <2>2, <2>3 DEF Rows
<1> QED
  BY <1>1, <1>2, FS_Subset, FS_CardinalityType

(* The order of the products does not hang on any order's status.          *)
LEMMA SortingsStay ==
    ASSUME list = "products", sort \in Sorts[list], list' = list, sort' = sort
    PROVE  Sortings(Products)' = Sortings(Products)
<1>1. sort.field # "shipped_status"
  BY DEF Sorts
<1>2. \A p : SortKey(p)' = SortKey(p)
  BY <1>1 DEF SortKey
<1>3. \A a, b : MayPrecede(a, b)' <=> MayPrecede(a, b)
  BY <1>2 DEF MayPrecede
<1> QED
  BY <1>3 DEF Sortings, Products

LEMMA OthersKeep ==
    ASSUME ListInv, CommitOrders \/ UpdateStatus \/ UNCHANGED vars
    PROVE  ListInv'
<1>1. UNCHANGED <<pc, request, total, data, leafed>>
  BY DEF CommitOrders, UpdateStatus, vars, request
<1>2. /\ Rows(list) \subseteq Rows(list)' /\ Cardinality(Rows(list)) <= Cardinality(Rows(list))'
      /\ TypeOK /\ list \in {"products", "orders"} /\ Cardinality(Rows(list))' \in Nat
  BY <1>1, RowsGrow DEF ListInv, TypeOK, vars, request
<1>3. TypeOK'
  <2>1. status' \in [OrderId -> {"none", "shipping", "delivering", "completed"}]
    BY DEF ListInv, TypeOK, CommitOrders, UpdateStatus, vars
  <2>2. data' \in Seq(Rows(list)') /\ before' \subseteq Rows(list)'
    <3>1. data \in Seq(Rows(list)) /\ before \subseteq Rows(list)
      BY <1>2 DEF TypeOK
    <3>2. data \in Seq(Rows(list)')
      BY <1>2, <3>1, SeqMonotonic
    <3> QED
      BY <1>1, <1>2, <3>1, <3>2 DEF request
  <2> QED
    BY <1>1, <2>1, <2>2 DEF ListInv, TypeOK, request, Rows, Products, Sorts
<1>4. CountInv'
  <2>1. Cardinality(Rows(list)) \in Nat /\ total \in Nat
    BY <1>2, RowsAreFinite DEF TypeOK
  <2> QED
    BY <1>1, <1>2, <2>1 DEF ListInv, CountInv, request, Products
<1>5. LeafInv'
  <2>1. CASE list = "products"
    <3>1. Sortings(Products)' = Sortings(Products)
      BY <1>1, <1>2, <2>1, SortingsStay DEF TypeOK, request
    <3>2. Products' = Products /\ End' = End
      BY <1>1 DEF End, Products, request
    <3> QED
      BY <1>1, <3>1, <3>2 DEF ListInv, LeafInv, request
  <2> QED
    BY <1>1, <2>1 DEF LeafInv, request
<1>6. PageIsFilled' /\ NewestFirst'
  BY <1>1 DEF ListInv, PageIsFilled, NewestFirst, request, Range
<1> QED
  BY <1>3, <1>4, <1>5, <1>6 DEF ListInv

LEMMA OpenKeeps ==
    ASSUME ListInv, OpenList
    PROVE  ListInv'
<1>1. /\ list' \in {"products", "orders"} /\ sort' \in Sorts[list'] /\ page' = 1
      /\ total' = 0 /\ data' = <<>> /\ leafed' = <<>> /\ pc' = "asked" /\ status' = status
      /\ size' \in Nat \ {0} /\ before' = Rows(list')
  BY ListingAssumption DEF OpenList, PageSize
<1>2. Rows(list)' = Rows(list')
  BY <1>1 DEF Rows, Products
<1>3. TypeOK'
  <2>1. <<>> \in Seq(Rows(list')) /\ Len(<<>>) = 0
    OBVIOUS
  <2>2. status \in [OrderId -> {"none", "shipping", "delivering", "completed"}]
    BY DEF ListInv, TypeOK
  <2> QED
    BY <1>1, <1>2, <2>1, <2>2 DEF TypeOK, Sorts
<1>4. LeafInv'
  <2>1. (page' - 1) * size' = 0
    <3>1. page' - 1 = 0 /\ size' \in Nat
      BY <1>1
    <3>2. \A k \in Nat : 0 * k = 0
      OBVIOUS
    <3> QED
      BY <3>1, <3>2
  <2>2. Cardinality(Products) \in Nat /\ Products' = Products
    BY ProductsAreFinite DEF Products
  <2>3. \A s : SubSeq(s, 1, (page' - 1) * size') = <<>>
    <3>1. \A s : SubSeq(s, 1, 0) = <<>>
      BY SubSeqEmpty
    <3> QED
      BY <2>1, <3>1
  <2>4. (page' - 1) * size' <= Cardinality(Products)
    BY <2>1, <2>2
  <2> HIDE DEF Products
  <2> QED
    BY <1>1, <2>2, <2>3, <2>4 DEF LeafInv
<1> QED
  BY <1>1, <1>3, <1>4 DEF ListInv, CountInv, PageIsFilled, NewestFirst

LEMMA CountKeeps ==
    ASSUME ListInv, Count
    PROVE  ListInv'
<1>1. /\ pc = "asked" /\ pc' = "counted" /\ total' = Cardinality(Rows(list))
      /\ UNCHANGED <<status, list, sort, page, size, before, data, leafed>>
  BY DEF Count, request
<1>2. TypeOK /\ list \in {"products", "orders"} /\ Cardinality(Rows(list)) \in Nat
  BY RowsAreFinite DEF ListInv, TypeOK
<1>3. Rows(list)' = Rows(list) /\ Products' = Products
  BY <1>1 DEF Rows, Products
<1>4. TypeOK'
  BY <1>1, <1>2, <1>3 DEF TypeOK, Sorts
<1>5. CountInv'
  BY <1>1, <1>2, <1>3 DEF CountInv, Rows
<1>6. LeafInv'
  <2>1. list = "products" => Sortings(Products)' = Sortings(Products)
    BY <1>1, <1>2, SortingsStay DEF TypeOK
  <2> QED
    BY <1>1, <1>3, <2>1 DEF ListInv, LeafInv
<1> QED
  BY <1>1, <1>4, <1>5, <1>6 DEF ListInv, PageIsFilled, NewestFirst

LEMMA FailKeeps ==
    ASSUME ListInv, Fail
    PROVE  ListInv'
<1>1. /\ pc' = "idle" /\ UNCHANGED <<status, list, sort, page, size, before, total, data, leafed>>
  BY DEF Fail, request
<1>2. Rows(list)' = Rows(list)
  BY <1>1 DEF Rows, Products
<1>3. TypeOK'
  BY <1>1, <1>2 DEF ListInv, TypeOK, Sorts
<1> QED
  BY <1>1, <1>3 DEF ListInv, CountInv, LeafInv, PageIsFilled, NewestFirst

LEMMA LeaveKeeps ==
    ASSUME ListInv, LeaveList
    PROVE  ListInv'
<1>1. /\ pc = "answered" /\ page * size >= total /\ pc' = "left"
      /\ UNCHANGED <<status, list, sort, page, size, before, total, data, leafed>>
  BY DEF LeaveList, request
<1>2. Rows(list)' = Rows(list) /\ Products' = Products
  BY <1>1 DEF Rows, Products
<1>3. TypeOK'
  BY <1>1, <1>2 DEF ListInv, TypeOK, Sorts
<1>4. LeafInv'
  <2>1. list = "products" => Sortings(Products)' = Sortings(Products)
    BY <1>1, SortingsStay DEF ListInv, TypeOK
  <2>2. End' = End
    BY <1>1, <1>2 DEF End
  <2> QED
    BY <1>1, <2>1, <2>2 DEF ListInv, LeafInv
<1> QED
  BY <1>1, <1>2, <1>3, <1>4 DEF ListInv, CountInv, PageIsFilled, NewestFirst

LEMMA NextPageKeeps ==
    ASSUME ListInv, NextPage
    PROVE  ListInv'
<1>1. /\ pc = "answered" /\ page * size < total /\ pc' = "asked" /\ page' = page + 1
      /\ total' = 0 /\ data' = <<>>
      /\ UNCHANGED <<status, list, sort, size, before, leafed>>
  BY DEF NextPage
<1>2. TypeOK /\ sort \in Sorts[list] /\ page \in Nat \ {0} /\ size \in Nat \ {0}
  BY DEF ListInv, TypeOK
<1>3. Rows(list)' = Rows(list) /\ Products' = Products
  BY <1>1 DEF Rows, Products
<1>4. TypeOK'
  <2>1. page + 1 \in Nat \ {0} /\ <<>> \in Seq(Rows(list)) /\ Len(<<>>) = 0
    BY <1>2
  <2> QED
    BY <1>1, <1>2, <1>3, <2>1 DEF TypeOK, Sorts
<1>5. LeafInv'
  <2>1. SUFFICES ASSUME list = "products"
        PROVE  /\ page * size <= Cardinality(Products)
               /\ \A s \in Sortings(Products) : leafed = SubSeq(s, 1, page * size)
    <3>1. page' - 1 = page
      BY <1>1, <1>2
    <3>2. list = "products" => Sortings(Products)' = Sortings(Products)
      BY <1>1, <1>2, SortingsStay
    <3> QED
      BY <1>1, <1>3, <3>1, <3>2 DEF LeafInv
  <2>2. page * size < Cardinality(Products)
    BY <1>1, <2>1 DEF ListInv, CountInv
  <2>3. End = page * size
    BY <2>2 DEF End
  <2>4. PICK s \in Sortings(Products) : leafed = SubSeq(s, 1, page * size)
    BY <1>1, <2>1, <2>3 DEF ListInv, LeafInv
  <2>5. \A t \in Sortings(Products) : t = s
    BY <1>2, <2>1, OneSorting
  <2>6. page * size \in Nat /\ Cardinality(Products) \in Nat
    BY <1>2, Products1, ProductsAreFinite
  <2> QED
    BY <2>2, <2>4, <2>5, <2>6
<1> QED
  BY <1>1, <1>4, <1>5 DEF ListInv, CountInv, PageIsFilled, NewestFirst

(* A page of products continues the sorting where the last page ended.     *)
LEMMA SelectLeafs ==
    ASSUME ListInv, pc = "counted", list = "products", NEW s \in Sortings(Products)
    PROVE  leafed \o Limit(s) = SubSeq(s, 1, End)
<1> DEFINE off == (page - 1) * size
           c == Cardinality(Products)
<1>1. TypeOK /\ c \in Nat /\ size \in Nat \ {0}
  BY ProductsAreFinite DEF ListInv, TypeOK
<1>2. Offset = off /\ off \in Nat /\ page * size = off + size
  BY <1>1, OffsetShape
<1>3. leafed = SubSeq(s, 1, off) /\ off <= c
  BY DEF ListInv, LeafInv
<1>4. Len(s) = c /\ s \in Seq(Products)
  BY ProductsAreFinite, SortingShape
<1>5. Limit(s) = SubSeq(s, off + 1, End)
  BY <1>2, <1>4 DEF Limit, End
<1>6. End \in off .. c
  BY <1>1, <1>2, <1>3 DEF End
<1> HIDE DEF off, c
<1>7. 1 \in 1 .. Len(s) + 1 /\ off \in 1 - 1 .. Len(s) /\ End \in off .. Len(s)
  BY <1>1, <1>2, <1>3, <1>4, <1>6
<1>8. SubSeq(s, 1, off) \o SubSeq(s, off + 1, End) = SubSeq(s, 1, End)
  BY <1>4, <1>7, ConcatAdjacentSubSeq
<1> QED
  BY <1>3, <1>5, <1>8

LEMMA SelectKeeps ==
    ASSUME ListInv, SelectPage
    PROVE  ListInv'
<1>1. PICK s \in Sortings(Rows(list)) : data' = Limit(s)
  BY DEF SelectPage
<1>2. /\ pc = "counted" /\ pc' = "answered" /\ leafed' = leafed \o data'
      /\ UNCHANGED <<status, list, sort, page, size, before, total>>
  BY DEF SelectPage, request
<1>3. TypeOK /\ list \in {"products", "orders"} /\ sort \in Sorts[list] /\ size \in Nat \ {0}
  BY DEF ListInv, TypeOK
<1>4. Rows(list)' = Rows(list) /\ Products' = Products
  BY <1>2 DEF Rows, Products
<1>5. /\ IsFiniteSet(Rows(list)) /\ Cardinality(Rows(list)) \in Nat /\ Rows(list) \subseteq Nat
  BY <1>3, RowsAreFinite
<1>5a. /\ Len(s) \in Nat /\ s \in [1 .. Len(s) -> Rows(list)]
       /\ \A j, k \in 1 .. Len(s) : j # k => s[j] # s[k]
       /\ \A x \in Rows(list) : \E k \in 1 .. Len(s) : s[k] = x
       /\ \A j, k \in 1 .. Len(s) : j < k => MayPrecede(s[j], s[k])
  <2> DEFINE R == Rows(list)
  <2>1. IsFiniteSet(R) /\ s \in Sortings(R)
    BY <1>1, <1>5
  <2> HIDE DEF R
  <2>2. Cardinality(R) \in Nat /\ Len(s) = Cardinality(R)
    BY <2>1, SortingShape
  <2>3. /\ s \in [1 .. Len(s) -> R]
        /\ \A j, k \in 1 .. Len(s) : j # k => s[j] # s[k]
        /\ \A x \in R : \E k \in 1 .. Len(s) : s[k] = x
        /\ \A j, k \in 1 .. Len(s) : j < k => MayPrecede(s[j], s[k])
    BY <2>1, SortingShape
  <2> QED
    BY <2>2, <2>3 DEF R
<1>6. TypeOK'
  BY <1>1, <1>2, <1>3, <1>4, LimitShape DEF TypeOK, Sorts
<1>7. CountInv'
  BY <1>2, <1>4 DEF ListInv, CountInv
<1>8. LeafInv'
  <2>1. CASE list = "products"
    <3>1. Rows(list) = Products
      BY <2>1 DEF Rows
    <3>2. leafed' = SubSeq(s, 1, End)
      BY <1>1, <1>2, <2>1, <3>1, SelectLeafs
    <3>3. End' = End
      BY <1>2, <1>4 DEF End
    <3>4. Sortings(Products)' = Sortings(Products)
      BY <1>2, <1>3, <2>1, SortingsStay
    <3> QED
      BY <1>1, <1>2, <3>1, <3>2, <3>3, <3>4 DEF LeafInv
  <2> QED
    BY <1>2, <2>1 DEF LeafInv
<1>9. PageIsFilled'
  <2>1. SUFFICES ASSUME list = "products" \/ page = 1
        PROVE  Len(data') = size \/ Len(data') >= total - (page - 1) * size
    BY <1>2 DEF PageIsFilled
  <2>2. Offset = (page - 1) * size /\ Offset \in Nat
    BY <1>3, <2>1, OffsetShape
  <2>3. total <= Cardinality(Rows(list)) /\ total \in Nat
    BY <1>2 DEF ListInv, CountInv, TypeOK
  <2>4. Len(data') = size \/ Len(data') >= Cardinality(Rows(list)) - Offset
    BY <1>1, <1>3, LimitShape
  <2>5. Len(data') \in Nat
    BY <1>6 DEF TypeOK
  <2> QED
    BY <1>5, <2>2, <2>3, <2>4, <2>5
<1>10. NewestFirst'
  <2>1. SUFFICES ASSUME list = "orders", page = 1,
                        sort = [field |-> "order_id", order |-> "desc"],
                        NEW o \in before, o \notin Range(data'), NEW d \in Range(data')
                 PROVE  o < d
    BY <1>2 DEF NewestFirst
  <2>2. Offset = 0
    BY <2>1 DEF Offset
  <2>3. o \in Rows(list)
    BY <1>3 DEF TypeOK
  <2>4. PICK k \in 1 .. Len(s) : s[k] = o
    BY <1>5a, <2>3
  <2>5. PICK j \in 1 .. Len(data') : data'[j] = d
    BY <1>6, <2>1, LenProperties DEF TypeOK, Range
  <2>6. j \in 1 .. Len(s) /\ s[j] = d /\ j <= size
    <3>1. Offset + j \in 1 .. Len(s) /\ data'[j] = s[Offset + j] /\ Len(data') <= size
      BY <1>1, <1>3, <2>5, LimitShape
    <3>2. Offset + j = j
      BY <2>2
    <3> QED
      BY <1>3, <2>5, <3>1, <3>2
  <2>7. Len(s) \in Nat
    BY <1>5a
  <2>8. ~(k <= size)
    <3>1. ASSUME k <= size PROVE FALSE
      <4>1. Offset < k /\ k <= Offset + size /\ k - Offset = k
        BY <1>3, <2>2, <2>7, <3>1
      <4>2. k \in 1 .. Len(Limit(s)) /\ Limit(s)[k] = s[k]
        BY <1>1, <1>3, <4>1, LimitShape
      <4>3. o \in Range(data')
        BY <1>1, <1>6, <2>4, <4>2, LenProperties DEF TypeOK, Range
      <4> QED
        BY <2>1, <4>3
    <3> QED
      BY <3>1
  <2>9. j < k
    BY <1>3, <2>6, <2>7, <2>8
  <2>10. MayPrecede(d, o) /\ d # o /\ d \in Nat /\ o \in Nat
    BY <1>5, <1>5a, <2>4, <2>6, <2>9
  <2> QED
    BY <2>1, <2>10 DEF MayPrecede, SortKey
<1> QED
  BY <1>6, <1>7, <1>8, <1>9, <1>10 DEF ListInv

-----------------------------------------------------------------------------
LEMMA ListAlways == Spec => []ListInv
<1>1. ASSUME ListInv, [Next]_vars PROVE ListInv'
  BY <1>1, OthersKeep, OpenKeeps, CountKeeps, SelectKeeps, FailKeeps, NextPageKeeps,
     LeaveKeeps DEF Next
<1> QED
  BY InitList, <1>1, PTL DEF Spec

(* The lists, requests and pages of Listing keep their shape.              *)
THEOREM TypeCorrect == Spec => []TypeOK
<1>1. ListInv => TypeOK
  BY DEF ListInv
<1> QED
  BY ListAlways, <1>1, PTL

(* No page of the products and no first page of the history is shorter     *)
(* than the total beside it says, whatever is ordered between COUNT and    *)
(* SELECT.                                                                 *)
THEOREM PageIsFilledAlways == Spec => []PageIsFilled
<1>1. ListInv => PageIsFilled
  BY DEF ListInv
<1> QED
  BY ListAlways, <1>1, PTL

(* Whoever leafs through the products to the end has seen each once.       *)
THEOREM ProductsOnceAlways == Spec => []ProductsOnce
<1>1. ListInv => ProductsOnce
  <2> SUFFICES ASSUME ListInv, pc = "left", list = "products"
               PROVE  Len(leafed) = Cardinality(Products) /\ Range(leafed) = Products
    BY DEF ProductsOnce
  <2>1. TypeOK /\ page * size \in Nat /\ Cardinality(Products) \in Nat
    BY Products1, ProductsAreFinite DEF ListInv, TypeOK
  <2>2. End = Cardinality(Products)
    BY <2>1 DEF ListInv, CountInv, End
  <2>3. PICK s \in Sortings(Products) : leafed = SubSeq(s, 1, Cardinality(Products))
    BY <2>2 DEF ListInv, LeafInv
  <2>4. /\ s \in Seq(Products) /\ Len(s) = Cardinality(Products)
        /\ s \in [1 .. Len(s) -> Products]
        /\ \A x \in Products : \E k \in 1 .. Len(s) : s[k] = x
    BY ProductsAreFinite, SortingShape
  <2>5. leafed = s
    BY <2>3, <2>4, SubSeqFull
  <2> QED
    BY <2>4, <2>5 DEF Range
<1> QED
  BY ListAlways, <1>1, PTL

(* The first page of the history, newest first, leaves out only orders     *)
(* older than all it shows.                                                *)
THEOREM NewestFirstAlways == Spec => []NewestFirst
<1>1. ListInv => NewestFirst
  BY DEF ListInv
<1> QED
  BY ListAlways, <1>1, PTL
=============================================================================
