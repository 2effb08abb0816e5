--------------------------- MODULE KnapsackProofs ---------------------------
(***************************************************************************)
(* Theorems about Knapsack for any number of orders and any weights,       *)
(* values and capacity.  The table is followed row by row beside a rival:  *)
(* no induction over the orders is needed beyond that of the steps.        *)
(***************************************************************************)
EXTENDS Knapsack, TLAPS

(* Where the table is used, and what it looks like while it is.            *)
TableInv ==
    /\ input \in Inputs
    /\ pc \in {"sort", "take"} => UseGreedy
    /\ pc \in {"fill", "back"} => ~UseGreedy /\ n > 0 /\ dp \in [0 .. n -> [Columns -> Nat]]
    /\ pc \in {"start", "fill"} => i \in Nat /\ 1 <= i /\ i <= n + 1
    /\ pc = "start" => i = 1
    /\ pc = "back" => i \in 0 .. n /\ w \in Columns

(* Where a filled row differs from the row above it, it took the order.    *)
RowsInv ==
    pc \in {"fill", "back"} =>
        \A k \in 1 .. n, c \in Columns :
            (pc = "back" \/ k < i) /\ dp[k][c] # dp[k - 1][c] =>
                weight[k] <= c /\ dp[k][c] = dp[k - 1][c - weight[k]] + value[k]

(* No order in 1..k is worth anything without weighing anything.           *)
NothingForNothing(k) == \A o \in 1 .. k : weight[o] = 0 => value[o] = 0

(* Row 0 is worth nothing, and column 0 what the weightless orders are.    *)
EdgeInv ==
    pc \in {"fill", "back"} =>
        /\ \A c \in Columns : dp[0][c] = 0
        /\ \A k \in 0 .. n : NothingForNothing(k) => dp[k][0] = 0

(* Every column the rival has room in is worth as much as the rival.       *)
RivalInv ==
    /\ pc \in {"start", "fill", "back"} => rivalWeight \in Nat /\ rivalValue \in Nat
    /\ pc = "start" => rivalWeight = 0 /\ rivalValue = 0
    /\ pc = "fill" => \A c \in Columns : rivalWeight <= c => dp[i - 1][c] >= rivalValue
    /\ pc = "fill" /\ i = 1 => rivalWeight = 0 /\ rivalValue = 0
    /\ pc = "back" => \A c \in Columns : rivalWeight <= c => dp[n][c] >= rivalValue

(* What is taken and what the table still promises make up the total.      *)
TraceInv ==
    /\ pc \in {"start", "fill", "back"} => totalWeight \in Nat /\ selectedValue \in Nat
    /\ pc \in {"start", "fill"} => totalWeight = 0 /\ selectedValue = 0
    /\ pc \in {"start", "sort", "take"} => totalValue = selectedValue
    /\ pc \in {"start", "sort"} => totalWeight = 0 /\ totalValue = 0
    /\ pc = "back" =>
        /\ totalWeight + w = capacity
        /\ selectedValue + dp[i][w] = dp[n][capacity]

KInv ==
    /\ TableInv /\ RowsInv /\ EdgeInv /\ RivalInv /\ TraceInv
    /\ PlanFits /\ TableIsOptimal

-----------------------------------------------------------------------------
LEMMA InputShape ==
    ASSUME input \in Inputs
    PROVE  /\ n \in Nat /\ capacity \in Nat
           /\ \A o \in 1 .. n : weight[o] \in Nat /\ value[o] \in Nat
BY InputsAssumption DEF n, weight, value, capacity

LEMMA InitK == Init => KInv
BY InputShape, ThresholdsAssumption
   DEF Init, KInv, TableInv, RowsInv, EdgeInv, RivalInv, TraceInv, PlanFits, TableIsOptimal, Columns

(* A new row holds naturals, is at least the row above it in every column, *)
(* and at least the value of the order on top of what is left beside it.   *)
LEMMA RowFacts ==
    ASSUME input \in Inputs, NEW o \in 1 .. n, NEW prev \in [Columns -> Nat]
    PROVE  /\ Row(prev, o) \in [Columns -> Nat]
           /\ \A c \in Columns : Row(prev, o)[c] >= prev[c]
           /\ \A c \in Columns : weight[o] <= c =>
                /\ c - weight[o] \in Columns
                /\ Row(prev, o)[c] >= prev[c - weight[o]] + value[o]
           /\ \A c \in Columns : Row(prev, o)[c] # prev[c] =>
                /\ weight[o] <= c
                /\ Row(prev, o)[c] = prev[c - weight[o]] + value[o]
<1>1. /\ n \in Nat /\ capacity \in Nat
      /\ weight[o] \in Nat /\ value[o] \in Nat
  BY InputShape
<1>2. \A c \in Columns : weight[o] <= c => c - weight[o] \in Columns
  BY <1>1 DEF Columns
<1>3. \A c \in Columns : prev[c] \in Nat
  OBVIOUS
<1> QED
  BY <1>1, <1>2, <1>3 DEF Row

LEMMA FillK == KInv /\ FillRow => KInv'
<1> SUFFICES ASSUME KInv, FillRow PROVE KInv'
  OBVIOUS
<1>1. /\ input \in Inputs /\ input' = input /\ pc = "fill" /\ pc' = "fill"
      /\ i \in 1 .. n /\ i' = i + 1 /\ n \in Nat /\ n > 0 /\ ~UseGreedy
      /\ dp \in [0 .. n -> [Columns -> Nat]]
      /\ dp' = [dp EXCEPT ![i] = Row(dp[i - 1], i)]
  BY InputShape DEF KInv, TableInv, FillRow, n
<1>2. /\ n' = n /\ weight' = weight /\ value' = value /\ capacity' = capacity
      /\ Columns' = Columns /\ (~UseGreedy)'
  BY <1>1 DEF n, weight, value, capacity, Columns, UseGreedy
<1>3. dp[i - 1] \in [Columns -> Nat] /\ i - 1 \in 0 .. n
  BY <1>1
<1>4. dp' \in [0 .. n -> [Columns -> Nat]] /\ dp'[i] = Row(dp[i - 1], i)
      /\ dp'[i] \in [Columns -> Nat]
      /\ \A k \in 0 .. n : k # i => dp'[k] = dp[k]
  <2>1. i \in 0 .. n /\ Row(dp[i - 1], i) \in [Columns -> Nat]
    <3>1. input \in Inputs /\ i \in 1 .. n /\ i \in 0 .. n /\ dp[i - 1] \in [Columns -> Nat]
      BY <1>1, <1>3
    <3>2. Row(dp[i - 1], i) \in [Columns -> Nat]
      BY <3>1, RowFacts
    <3> QED
      BY <3>1, <3>2
  <2>2. /\ dp' \in [0 .. n -> [Columns -> Nat]] /\ dp'[i] = Row(dp[i - 1], i)
        /\ \A k \in 0 .. n : k # i => dp'[k] = dp[k]
    BY <1>1, <2>1
  <2> QED
    BY <2>1, <2>2
<1>5. TableInv'
  BY <1>1, <1>2, <1>4 DEF TableInv
<1>6. RowsInv'
  <2> DEFINE Took(k, c) ==
        weight[k] <= c /\ dp'[k][c] = dp'[k - 1][c - weight[k]] + value[k]
  <2>1. \A k \in 1 .. n, c \in Columns : k < i /\ dp'[k][c] # dp'[k - 1][c] => Took(k, c)
    <3>1. \A k \in 1 .. n : k < i => dp'[k] = dp[k] /\ dp'[k - 1] = dp[k - 1]
      BY <1>1, <1>4
    <3>2. \A k \in 1 .. n, c \in Columns : k < i /\ dp[k][c] # dp[k - 1][c] =>
            weight[k] <= c /\ dp[k][c] = dp[k - 1][c - weight[k]] + value[k]
      BY <1>1 DEF KInv, RowsInv
    <3> QED
      BY <3>1, <3>2
  <2>2. \A c \in Columns : dp'[i][c] # dp'[i - 1][c] => Took(i, c)
    <3>1. dp'[i - 1] = dp[i - 1]
      BY <1>1, <1>3, <1>4
    <3>2. \A c \in Columns : Row(dp[i - 1], i)[c] # dp[i - 1][c] =>
            weight[i] <= c /\ Row(dp[i - 1], i)[c] = dp[i - 1][c - weight[i]] + value[i]
      BY <1>1, <1>3, RowFacts
    <3> QED
      BY <1>4, <3>1, <3>2
  <2> HIDE DEF Took
  <2>3. \A k \in 1 .. n, c \in Columns : k < i' /\ dp'[k][c] # dp'[k - 1][c] => Took(k, c)
    <3>1. \A k \in 1 .. n : k < i' => k < i \/ k = i
      BY <1>1
    <3> QED
      BY <2>1, <2>2, <3>1
  <2> QED
    BY <1>1, <1>2, <2>3 DEF RowsInv, Took
<1>7. EdgeInv'
  <2>1. \A c \in Columns : dp'[0][c] = 0
    BY <1>1, <1>4 DEF KInv, EdgeInv
  <2>2. ASSUME NothingForNothing(i)
        PROVE  dp'[i][0] = 0
    <3>1. 0 \in Columns /\ weight[i] \in Nat /\ (weight[i] = 0 => value[i] = 0)
      BY <1>1, <2>2, InputShape DEF Columns, NothingForNothing
    <3>2. NothingForNothing(i - 1)
      BY <1>1, <2>2 DEF NothingForNothing
    <3>3. dp[i - 1][0] = 0
      BY <1>1, <1>3, <3>2 DEF KInv, EdgeInv
    <3>4. ~(weight[i] <= 0 /\ dp[i - 1][0 - weight[i]] + value[i] > dp[i - 1][0])
      BY <3>1, <3>3
    <3> QED
      BY <1>4, <3>1, <3>3, <3>4 DEF Row
  <2>3. \A k \in 0 .. n : NothingForNothing(k) => dp'[k][0] = 0
    BY <1>1, <1>4, <2>2 DEF KInv, EdgeInv
  <2>4. \A k \in 0 .. n : NothingForNothing(k)' <=> NothingForNothing(k)
    BY <1>2 DEF NothingForNothing
  <2> QED
    BY <1>1, <1>2, <2>1, <2>3, <2>4 DEF EdgeInv
<1>8. RivalInv'
  <2>1. weight[i] \in Nat /\ value[i] \in Nat
    BY <1>1, InputShape
  <2>2. rivalWeight \in Nat /\ rivalValue \in Nat
        /\ \A c \in Columns : rivalWeight <= c => dp[i - 1][c] >= rivalValue
    BY <1>1 DEF KInv, RivalInv
  <2>3. /\ rivalWeight' = rivalWeight + IF i \in rival THEN weight[i] ELSE 0
        /\ rivalValue' = rivalValue + IF i \in rival THEN value[i] ELSE 0
    BY DEF FillRow, PassRival
  <2>4. ASSUME NEW c \in Columns, rivalWeight' <= c PROVE dp'[i][c] >= rivalValue'
    <3>1. dp[i - 1][c] \in Nat /\ dp'[i][c] \in Nat
      BY <1>3, <1>4
    <3>4. c \in Nat
      BY <1>1, InputShape DEF Columns
    <3>2. CASE i \in rival
      <4>4. weight[i] <= c /\ rivalWeight <= c - weight[i]
        BY <2>1, <2>2, <2>3, <2>4, <3>2, <3>4
      <4>1. rivalWeight <= c - weight[i] /\ weight[i] <= c /\ c - weight[i] \in Columns
        BY <1>1, <1>3, <4>4, RowFacts
      <4>2. dp[i - 1][c - weight[i]] \in Nat /\ dp[i - 1][c - weight[i]] >= rivalValue
        BY <1>3, <2>2, <4>1
      <4>3. dp'[i][c] >= dp[i - 1][c - weight[i]] + value[i]
        BY <1>1, <1>3, <1>4, <4>1, RowFacts
      <4> QED
        BY <2>1, <2>2, <2>3, <3>1, <3>2, <4>2, <4>3
    <3>3. CASE i \notin rival
      <4>1. dp'[i][c] >= dp[i - 1][c]
        BY <1>1, <1>3, <1>4, RowFacts
      <4>2. rivalValue' = rivalValue /\ rivalWeight <= c
        BY <2>2, <2>3, <2>4, <3>3
      <4> QED
        BY <2>2, <3>1, <4>1, <4>2
    <3> QED
      BY <3>2, <3>3
  <2>5. rivalWeight' \in Nat /\ rivalValue' \in Nat
    BY <2>1, <2>2, <2>3
  <2>6. i' - 1 = i /\ i' # 1
    BY <1>1
  <2> QED
    BY <1>1, <1>2, <2>4, <2>5, <2>6 DEF RivalInv
<1>9. TraceInv' /\ PlanFits' /\ TableIsOptimal'
  BY <1>1, <1>2, InputShape DEF KInv, TraceInv, PlanFits, TableIsOptimal, FillRow, plan
<1> QED
  BY <1>5, <1>6, <1>7, <1>8, <1>9 DEF KInv

LEMMA PartOfSum == \A a, b, c \in Nat : a + b = c => a <= c
OBVIOUS

LEMMA BacktrackK == KInv /\ Backtrack => KInv'
<1> SUFFICES ASSUME KInv, Backtrack PROVE KInv'
  OBVIOUS
<1>1. /\ input \in Inputs /\ input' = input /\ pc = "back" /\ pc' = "back" /\ dp' = dp
      /\ i \in 1 .. n /\ i' = i - 1 /\ n \in Nat /\ n > 0 /\ ~UseGreedy
      /\ w \in Columns /\ w > 0 /\ capacity \in Nat
      /\ dp \in [0 .. n -> [Columns -> Nat]]
      /\ UNCHANGED <<totalValue, rivals>>
  BY InputShape DEF KInv, TableInv, Backtrack
<1>2. /\ n' = n /\ weight' = weight /\ value' = value /\ capacity' = capacity
      /\ Columns' = Columns /\ (~UseGreedy)'
  BY <1>1 DEF n, weight, value, capacity, Columns, UseGreedy
<1>3. /\ totalWeight \in Nat /\ selectedValue \in Nat
      /\ totalWeight + w = capacity /\ selectedValue + dp[i][w] = dp[n][capacity]
  BY <1>1 DEF KInv, TraceInv
<1>a. totalWeight \in Nat /\ totalWeight + w = capacity
  BY <1>3
<1>4. /\ w' \in Columns /\ totalWeight' \in Nat /\ selectedValue' \in Nat
      /\ totalWeight' + w' = capacity /\ selectedValue' + dp[i'][w'] = dp[n][capacity]
  <2>1. CASE dp[i][w] # dp[i - 1][w]
    <3>1. weight[i] \in Nat /\ value[i] \in Nat
      BY <1>1, InputShape
    <3>2. weight[i] <= w /\ dp[i][w] = dp[i - 1][w - weight[i]] + value[i]
      BY <1>1, <2>1 DEF KInv, RowsInv
    <3>3. /\ w' = w - weight[i] /\ totalWeight' = totalWeight + weight[i]
          /\ selectedValue' = selectedValue + value[i]
      BY <2>1 DEF Backtrack, Take
    <3>6. w \in Nat /\ w <= capacity /\ capacity \in Nat
      BY <1>1 DEF Columns
    <3>4. w' \in Columns
      BY <3>1, <3>2, <3>3, <3>6 DEF Columns
    <3>5. dp[i'][w'] \in Nat /\ dp[i'][w'] = dp[i - 1][w - weight[i]]
      BY <1>1, <3>3, <3>4
    <3>7. totalWeight' \in Nat /\ totalWeight' + w' = capacity
      BY <1>a, <3>1, <3>3, <3>6
    <3>8. selectedValue' \in Nat /\ selectedValue' + dp[i'][w'] = dp[n][capacity]
      BY <1>3, <3>1, <3>2, <3>3, <3>5
    <3> QED
      BY <3>4, <3>7, <3>8
  <2>2. CASE dp[i][w] = dp[i - 1][w]
    BY <1>1, <1>3, <2>2 DEF Backtrack
  <2> QED
    BY <2>1, <2>2
<1>5. TableInv' /\ RowsInv' /\ EdgeInv' /\ RivalInv'
  <2>1. TableInv'
    <3>1. i' \in 0 .. n
      BY <1>1
    <3>2. dp' \in [0 .. n' -> [Columns' -> Nat]] /\ i' \in 0 .. n' /\ w' \in Columns'
      BY <1>1, <1>2, <1>4, <3>1
    <3>3. input' \in Inputs /\ pc' = "back" /\ (~UseGreedy)' /\ n' > 0
      BY <1>1, <1>2
    <3> QED
      BY <3>2, <3>3 DEF TableInv
  <2>2. RowsInv'
    BY <1>1, <1>2 DEF KInv, RowsInv
  <2>3. EdgeInv'
    BY <1>1, <1>2 DEF KInv, EdgeInv, NothingForNothing
  <2>4. RivalInv'
    BY <1>1, <1>2 DEF KInv, RivalInv, rivals
  <2> QED
    BY <2>1, <2>2, <2>3, <2>4
<1>6. PlanFits'
  <2>1. w' \in Nat /\ capacity \in Nat
    BY <1>1, <1>4 DEF Columns
  <2>2. totalWeight' \in Nat /\ totalWeight' + w' = capacity
    BY <1>4
  <2>3. totalWeight' <= capacity
    BY <2>1, <2>2, PartOfSum
  <2> QED
    BY <1>2, <2>3 DEF PlanFits
<1>7. TraceInv' /\ TableIsOptimal'
  BY <1>1, <1>2, <1>4 DEF TraceInv, TableIsOptimal
<1> QED
  BY <1>5, <1>6, <1>7 DEF KInv

LEMMA ReturnK == KInv /\ Return => KInv'
<1> SUFFICES ASSUME KInv, Return PROVE KInv'
  OBVIOUS
<1>1. /\ input \in Inputs /\ input' = input /\ pc = "back" /\ pc' = "done"
      /\ i \in 0 .. n /\ n \in Nat /\ ~UseGreedy /\ w \in Columns /\ capacity \in Nat
      /\ dp \in [0 .. n -> [Columns -> Nat]] /\ (i = 0 \/ w = 0)
      /\ totalValue' = dp[n][capacity] /\ dp[n][capacity] \in Nat
      /\ UNCHANGED <<totalWeight, selectedValue, rivals>>
  BY InputShape DEF KInv, TableInv, Return, Columns
<1>2. /\ n' = n /\ weight' = weight /\ capacity' = capacity
  BY <1>1 DEF n, weight, capacity
<1>3. PlanFits'
  BY <1>1, <1>2 DEF KInv, PlanFits
<1>5. TableIsOptimal'
  <2>1. capacity \in Columns
    BY <1>1 DEF Columns
  <2> QED
    BY <1>1, <1>2, <2>1 DEF KInv, RivalInv, TableIsOptimal, BeatsRival, rivals
<1>6. TableInv' /\ RowsInv' /\ EdgeInv' /\ RivalInv' /\ TraceInv'
  BY <1>1 DEF TableInv, RowsInv, EdgeInv, RivalInv, TraceInv
<1> QED
  BY <1>3, <1>5, <1>6 DEF KInv

-----------------------------------------------------------------------------
LEMMA NextK == KInv /\ [Next]_vars => KInv'
<1> SUFFICES ASSUME KInv, [Next]_vars PROVE KInv'
  OBVIOUS
<1> USE DEF TableInv, RowsInv, EdgeInv, NothingForNothing, RivalInv, TraceInv, PlanFits,
            TableIsOptimal, BeatsRival, n, weight, value, capacity, Columns, UseGreedy
<1>1. ASSUME Empty PROVE KInv'
  BY <1>1, InputsAssumption DEF KInv, Empty, plan, rivals
<1>2. ASSUME Start PROVE KInv'
  BY <1>2, InputsAssumption DEF KInv, Start, plan, rivals
<1>3. ASSUME Cancel PROVE KInv'
  BY <1>3 DEF KInv, Cancel, plan, rivals
<1>4. ASSUME StartBacktrack PROVE KInv'
  <2>1. /\ n \in Nat /\ n > 0 /\ capacity \in Nat /\ i = n + 1 /\ i - 1 = n
        /\ i' = n /\ w' = capacity /\ pc = "fill" /\ pc' = "back"
        /\ UNCHANGED <<input, dp, totalWeight, selectedValue, rivals>>
    BY <1>4, InputShape DEF KInv, StartBacktrack, plan
  <2>2. dp[n][capacity] \in Nat
    BY <2>1 DEF KInv
  <2>3. \A k \in 1 .. n : k < i
    BY <2>1
  <2>4. TableInv' /\ RowsInv'
    BY <2>1, <2>3 DEF KInv
  <2>5. EdgeInv' /\ RivalInv'
    BY <2>1 DEF KInv, rivals
  <2>6. TraceInv' /\ PlanFits' /\ TableIsOptimal'
    BY <2>1, <2>2 DEF KInv
  <2> QED
    BY <2>4, <2>5, <2>6 DEF KInv
<1>5. ASSUME StartGreedy PROVE KInv'
  BY <1>5 DEF KInv, StartGreedy, plan, rivals
<1>9. ASSUME Compare PROVE KInv'
  BY <1>9 DEF KInv, Compare, plan, rivals
<1>10. ASSUME NextPlace PROVE KInv'
  BY <1>10 DEF KInv, NextPlace, plan, rivals
<1>6. ASSUME TakeNext PROVE KInv'
  BY <1>6 DEF KInv, TakeNext, Take, PassRival, plan
<1>7. ASSUME ReturnGreedy PROVE KInv'
  BY <1>7 DEF KInv, ReturnGreedy, plan, rivals
<1>8. CASE UNCHANGED vars
  BY <1>8 DEF KInv, vars, plan, rivals
<1> QED
  BY <1>1, <1>2, <1>3, <1>4, <1>5, <1>6, <1>7, <1>8, <1>9, <1>10, FillK, BacktrackK, ReturnK DEF Next

LEMMA KInvariant == Spec => []KInv
BY InitK, NextK, PTL DEF Spec

(* No plan is heavier than the robot can carry, for any orders.            *)
THEOREM PlanFitsAlways == Spec => []PlanFits
BY KInvariant, PTL DEF KInv

(* The table's value is that of the best choice of orders that fits.       *)
THEOREM TableIsOptimalAlways == Spec => []TableIsOptimal
BY KInvariant, PTL DEF KInv

-----------------------------------------------------------------------------
(* The greedy choice: the exchange sort, and then one order after another. *)

(* t gives each of the orders 1..m one place.                              *)
Permutes(t, m) ==
    /\ t \in [1 .. m -> 1 .. m]
    /\ \A o \in 1 .. m : \E p \in 1 .. m : t[p] = o
    /\ \A p, q \in 1 .. m : t[p] = t[q] => p = q

(* Of the places before i each has an order that none behind it is better  *)
(* than, and so has place i among those before j.                          *)
SortInv ==
    pc \in {"sort", "take"} =>
        /\ Permutes(sorted, n)
        /\ pc = "sort" =>
            /\ i \in 1 .. n /\ j \in i + 1 .. n + 1
            /\ \A p, q \in 1 .. n : p < i /\ p < q => ~Better(sorted[q], sorted[p])
            /\ \A q \in 1 .. n : i < q /\ q < j => ~Better(sorted[q], sorted[i])
        /\ pc = "take" =>
            /\ i \in 1 .. n + 1
            /\ \A p, q \in 1 .. n : p < q => ~Better(sorted[q], sorted[p])

(* The orders passed so far are in the plan or do not fit any more.        *)
TakenInv ==
    /\ pc \in {"start", "sort"} => selected = <<>> /\ rivalWeight = 0 /\ rivalValue = 0
    /\ pc = "take" =>
        /\ totalWeight \in Nat /\ totalValue \in Nat
        /\ rivalWeight \in Nat /\ rivalValue \in Nat
        /\ selected \in Seq(1 .. n)
        /\ \A o \in Range(selected) : \E p \in 1 .. i - 1 : sorted[p] = o
        /\ \A p \in 1 .. i - 1 :
            sorted[p] \in Range(selected) \/ totalWeight + weight[sorted[p]] > capacity

(* A load of weight W and value V is ahead of the rival so far by at least *)
(* what its extra weight is worth at the rate of order o.                  *)
Ahead(V, W, o) == (V - rivalValue) * weight[o] >= (W - rivalWeight) * value[o]

AllTaken == rivalValue <= totalValue /\ \A k \in i .. n : Ahead(totalValue, totalWeight, sorted[k])

(* o is the first order that did not fit, beside V and W at that time.     *)
LeftOut(o, V, W) ==
    /\ o \notin Range(selected)
    /\ W + weight[o] > capacity
    /\ Ahead(V, W, o)
    /\ \A k \in i .. n : ~Better(sorted[k], o)

GapInv ==
    pc = "take" =>
        \/ AllTaken
        \/ \E p \in 1 .. i - 1, V \in 0 .. totalValue, W \in 0 .. totalWeight :
              LeftOut(sorted[p], V, W)

GreedyInv == SortInv /\ TakenInv /\ GapInv /\ GreedyFillsUp /\ GreedyMissesLess

-----------------------------------------------------------------------------
(* Products, which the solvers need in small portions.                     *)

LEMMA TimesMono == \A a, b \in Int, c \in Nat : a <= b => a * c <= b * c
OBVIOUS
LEMMA TimesCancel == \A a, b, c \in Int : c > 0 /\ a * c <= b * c => a <= b
OBVIOUS
LEMMA TimesSwap == \A a, b, c \in Int : (a * b) * c = (a * c) * b
OBVIOUS

(* q is worth no more per weight than x, and x less than y: so is q.       *)
LEMMA Through ==
    ASSUME NEW vq \in Nat, NEW wq \in Nat, NEW vx \in Nat, NEW wx \in Nat, NEW vy \in Nat, NEW wy \in Nat,
           vq * wx <= vx * wq, vy * wx > vx * wy
    PROVE  vq * wy <= vy * wq
<1>1. wx > 0
  <2> SUFFICES ASSUME wx = 0 PROVE FALSE
    OBVIOUS
  <2> QED
    OBVIOUS
<1>2. (vq * wx) * wy <= (vx * wq) * wy
  BY TimesMono
<1>3. (vx * wy) * wq <= (vy * wx) * wq
  BY TimesMono
<1>4. (vq * wx) * wy = (vq * wy) * wx /\ (vx * wq) * wy = (vx * wy) * wq /\ (vy * wx) * wq = (vy * wq) * wx
  BY TimesSwap
<1>5. (vq * wy) * wx <= (vy * wq) * wx
  BY <1>2, <1>3, <1>4
<1>6. vq * wy \in Int /\ vy * wq \in Int
  OBVIOUS
<1> QED
  BY <1>1, <1>5, <1>6, TimesCancel

(* The load grows by o, which k is no better than.                         *)
LEMMA AheadTake ==
    ASSUME NEW d \in Int, NEW e \in Int, NEW vo \in Nat, NEW wo \in Nat, NEW vk \in Nat, NEW wk \in Nat,
           d * wk >= e * vk, vk * wo <= vo * wk
    PROVE  (d + vo) * wk >= (e + wo) * vk
<1>1. (d + vo) * wk = d * wk + vo * wk /\ (e + wo) * vk = e * vk + wo * vk
  OBVIOUS
<1> QED
  BY <1>1

(* The rival grows by o, which is no better than b.                        *)
LEMMA AheadPass ==
    ASSUME NEW d \in Int, NEW e \in Int, NEW vo \in Nat, NEW wo \in Nat, NEW vb \in Nat, NEW wb \in Nat,
           d * wb >= e * vb, vo * wb <= vb * wo
    PROVE  (d - vo) * wb >= (e - wo) * vb
<1>1. (d - vo) * wb = d * wb - vo * wb /\ (e - wo) * vb = e * vb - wo * vb
  OBVIOUS
<1> QED
  BY <1>1

(* A load that is behind a rival which weighs less than it with b on top   *)
(* is behind by less than b is worth.                                      *)
LEMMA LessThanOne ==
    ASSUME NEW d \in Int, NEW e \in Int, NEW v \in Nat, NEW u \in Nat,
           d * u >= e * v, e + u > 0, u > 0, d < 0
    PROVE  d + v > 0
<1> SUFFICES ASSUME d <= 0 - v PROVE FALSE
  OBVIOUS
<1>1. d * u <= (0 - v) * u
  BY TimesMono
<1>2. (1 - u) * v <= e * v
  BY TimesMono
<1>3. (1 - u) * v = v - u * v /\ (0 - v) * u = 0 - u * v
  OBVIOUS
<1>4. u * v \in Int /\ d * u \in Int /\ e * v \in Int
  OBVIOUS
<1>5. v <= 0
  BY <1>1, <1>2, <1>3, <1>4
<1>6. v = 0
  BY <1>5
<1>7. d * u >= 0
  BY <1>6
<1>8. d * u <= (-1) * u
  <2>1. d <= -1
    OBVIOUS
  <2> QED
    BY <2>1, TimesMono
<1> QED
  BY <1>7, <1>8

-----------------------------------------------------------------------------
LEMMA BetterThrough ==
    ASSUME input \in Inputs, NEW q \in 1 .. n, NEW x \in 1 .. n, NEW y \in 1 .. n,
           ~Better(q, x), Better(y, x)
    PROVE  ~Better(q, y) /\ ~Better(x, y)
<1>1. \A o \in {q, x, y} : weight[o] \in Nat /\ value[o] \in Nat
  BY InputShape
<1>2. value[q] * weight[x] <= value[x] * weight[q] /\ value[y] * weight[x] > value[x] * weight[y]
  <2>1. \A k, l \in Nat : k * l \in Nat
    OBVIOUS
  <2> QED
    BY <1>1, <2>1 DEF Better
<1>3. value[q] * weight[y] <= value[y] * weight[q]
  BY <1>1, <1>2, Through
<1> QED
  BY <1>1, <1>2, <1>3 DEF Better

LEMMA NotBetterThanItself == ASSUME input \in Inputs, NEW x \in 1 .. n PROVE ~Better(x, x)
<1>1. weight[x] \in Nat /\ value[x] \in Nat
  BY InputShape
<1> QED
  BY <1>1 DEF Better

(* An exchange leaves every order its one place.                           *)
LEMMA SwapFacts ==
    ASSUME NEW m \in Nat, NEW t, NEW a \in 1 .. m, NEW b \in 1 .. m, Permutes(t, m)
    PROVE  /\ Permutes(Swap(t, a, b), m)
           /\ Swap(t, a, b)[a] = t[b] /\ Swap(t, a, b)[b] = t[a]
           /\ \A p \in 1 .. m : p # a /\ p # b => Swap(t, a, b)[p] = t[p]
<1> DEFINE u == Swap(t, a, b)
           g(p) == IF p = a THEN b ELSE IF p = b THEN a ELSE p
<1>0. /\ t \in [1 .. m -> 1 .. m]
      /\ \A o \in 1 .. m : \E p \in 1 .. m : t[p] = o
      /\ \A p, q \in 1 .. m : t[p] = t[q] => p = q
  BY DEF Permutes
<1>1. u \in [1 .. m -> 1 .. m] /\ \A p \in 1 .. m : u[p] = t[g(p)]
  BY <1>0 DEF Swap
<1>2. \A p \in 1 .. m : g(p) \in 1 .. m /\ g(g(p)) = p
  OBVIOUS
<1> HIDE DEF u, g
<1>3. ASSUME NEW o \in 1 .. m PROVE \E p \in 1 .. m : u[p] = o
  <2>1. PICK p \in 1 .. m : t[p] = o
    BY <1>0
  <2>2. u[g(p)] = t[p]
    BY <1>1, <1>2
  <2> QED
    BY <1>2, <2>1, <2>2
<1>4. ASSUME NEW p \in 1 .. m, NEW q \in 1 .. m, u[p] = u[q] PROVE p = q
  <2>1. g(p) = g(q)
    BY <1>0, <1>1, <1>2, <1>4
  <2> QED
    BY <1>2, <2>1
<1>5. Permutes(u, m)
  BY <1>1, <1>3, <1>4 DEF Permutes
<1> QED
  BY <1>1, <1>5 DEF u, g

LEMMA InitG == Init => GreedyInv
BY DEF Init, GreedyInv, SortInv, TakenInv, GapInv, GreedyFillsUp, GreedyMissesLess

LEMMA StartG == KInv /\ GreedyInv /\ StartGreedy => GreedyInv'
<1> SUFFICES ASSUME KInv, GreedyInv, StartGreedy PROVE GreedyInv'
  OBVIOUS
<1>1. /\ n \in Nat /\ n > 0 /\ pc = "start" /\ pc' = "sort" /\ i = 1 /\ i' = 1 /\ j' = 2
      /\ sorted' = [k \in 1 .. n |-> k] /\ input' = input
      /\ UNCHANGED <<selected, rivalWeight, rivalValue>>
  BY InputShape DEF KInv, TableInv, StartGreedy, plan, rivals
<1>2. n' = n
  BY <1>1 DEF n
<1>3. SortInv'
  BY <1>1, <1>2 DEF SortInv, Permutes
<1> QED
  BY <1>1, <1>3 DEF GreedyInv, TakenInv, GapInv, GreedyFillsUp, GreedyMissesLess

LEMMA CompareG == KInv /\ GreedyInv /\ Compare => GreedyInv'
<1> SUFFICES ASSUME KInv, GreedyInv, Compare PROVE GreedyInv'
  OBVIOUS
<1> DEFINE s == sorted'
<1>1. /\ input \in Inputs /\ n \in Nat /\ pc = "sort" /\ pc' = "sort"
      /\ i \in 1 .. n /\ i' = i /\ j \in i + 1 .. n /\ j' = j + 1 /\ input' = input
      /\ UNCHANGED <<selected, rivalWeight, rivalValue>>
  BY InputShape DEF KInv, TableInv, GreedyInv, SortInv, Compare, plan, rivals
<1>2. /\ Permutes(sorted, n)
      /\ \A p, q \in 1 .. n : p < i /\ p < q => ~Better(sorted[q], sorted[p])
      /\ \A q \in 1 .. n : i < q /\ q < j => ~Better(sorted[q], sorted[i])
  BY <1>1 DEF GreedyInv, SortInv
<1>3. /\ Permutes(s, n)
      /\ \A p, q \in 1 .. n : p < i /\ p < q => ~Better(s[q], s[p])
      /\ \A q \in 1 .. n : i < q /\ q < j + 1 => ~Better(s[q], s[i])
  <2>1. CASE Better(sorted[j], sorted[i])
    <3>0. s = Swap(sorted, i, j)
      BY <2>1 DEF Compare
    <3> HIDE DEF s
    <3>1. n \in Nat /\ i \in 1 .. n /\ j \in 1 .. n /\ Permutes(sorted, n)
      BY <1>1, <1>2
    <3>2. /\ Permutes(s, n) /\ s[i] = sorted[j] /\ s[j] = sorted[i]
          /\ \A p \in 1 .. n : p # i /\ p # j => s[p] = sorted[p]
      BY <3>0, <3>1, SwapFacts
    <3>3. \A p, q \in 1 .. n : p < i /\ p < q => ~Better(s[q], s[p])
      <4> SUFFICES ASSUME NEW p \in 1 .. n, NEW q \in 1 .. n, p < i, p < q
                   PROVE  ~Better(s[q], s[p])
        OBVIOUS
      <4>1. s[p] = sorted[p]
        BY <1>1, <3>2
      <4>2. \E k \in 1 .. n : p < k /\ s[q] = sorted[k]
        BY <1>1, <3>2
      <4> QED
        BY <1>2, <4>1, <4>2
    <3>4. \A q \in 1 .. n : i < q /\ q < j + 1 => ~Better(s[q], s[i])
      <4> SUFFICES ASSUME NEW q \in 1 .. n, i < q, q < j + 1 PROVE ~Better(s[q], s[i])
        OBVIOUS
      <4>1. sorted[q] \in 1 .. n /\ sorted[i] \in 1 .. n /\ sorted[j] \in 1 .. n
        BY <3>1 DEF Permutes
      <4>2. CASE q = j
        <5>1. ~Better(sorted[i], sorted[i])
          BY <1>1, <4>1, NotBetterThanItself
        <5> QED
          BY <1>1, <2>1, <3>2, <4>1, <4>2, <5>1, BetterThrough
      <4>3. CASE q # j
        <5>1. q < j /\ q # i
          BY <1>1, <4>3
        <5>2. s[q] = sorted[q] /\ ~Better(sorted[q], sorted[i])
          BY <1>2, <3>2, <4>3, <5>1
        <5> QED
          BY <1>1, <2>1, <3>2, <4>1, <5>2, BetterThrough
      <4> QED
        BY <4>2, <4>3
    <3> QED
      BY <3>2, <3>3, <3>4
  <2>2. CASE ~Better(sorted[j], sorted[i])
    <3>1. s = sorted
      BY <2>2 DEF Compare
    <3>2. \A q \in 1 .. n : i < q /\ q < j + 1 => q < j \/ q = j
      BY <1>1
    <3> HIDE DEF s
    <3> QED
      BY <1>2, <2>2, <3>1, <3>2
  <2> QED
    BY <2>1, <2>2
<1>4. n' = n /\ \A x, y : Better(x, y)' <=> Better(x, y)
  BY <1>1 DEF Better, value, weight, n
<1>5. \A p, q : Better(sorted[q], sorted[p])' <=> Better(s[q], s[p])
  BY <1>1 DEF Better, value, weight
<1> HIDE DEF s
<1>6. Permutes(sorted, n)' <=> Permutes(s, n)
  BY <1>4 DEF Permutes, s
<1>7. SortInv'
  BY <1>1, <1>3, <1>4, <1>5, <1>6 DEF SortInv, s
<1> QED
  BY <1>1, <1>7 DEF GreedyInv, TakenInv, GapInv, GreedyFillsUp, GreedyMissesLess

LEMMA NextPlaceG == KInv /\ GreedyInv /\ NextPlace => GreedyInv'
<1> SUFFICES ASSUME KInv, GreedyInv, NextPlace PROVE GreedyInv'
  OBVIOUS
<1>1. /\ input \in Inputs /\ n \in Nat /\ pc = "sort"
      /\ i \in 1 .. n /\ j = n + 1 /\ input' = input /\ sorted' = sorted
      /\ selected = <<>> /\ totalWeight = 0 /\ totalValue = 0 /\ rivalWeight = 0 /\ rivalValue = 0
      /\ UNCHANGED <<selected, totalWeight, totalValue, rivalWeight, rivalValue>>
  <2>1. /\ pc = "sort" /\ j > n /\ input' = input /\ sorted' = sorted
        /\ UNCHANGED <<selected, totalWeight, totalValue, rivalWeight, rivalValue>>
    BY DEF NextPlace, plan, rivals
  <2>2. input \in Inputs /\ n \in Nat /\ i \in 1 .. n /\ j \in i + 1 .. n + 1
    BY <2>1, InputShape DEF KInv, TableInv, GreedyInv, SortInv
  <2>3. selected = <<>> /\ totalWeight = 0 /\ totalValue = 0 /\ rivalWeight = 0 /\ rivalValue = 0
    BY <2>1 DEF KInv, TraceInv, GreedyInv, TakenInv
  <2> QED
    BY <2>1, <2>2, <2>3
<1>2. /\ Permutes(sorted, n)
      /\ \A p, q \in 1 .. n : p <= i /\ p < q => ~Better(sorted[q], sorted[p])
  BY <1>1 DEF GreedyInv, SortInv
<1>3. n' = n /\ \A p, q : Better(sorted[q], sorted[p])' <=> Better(sorted[q], sorted[p])
  BY <1>1 DEF Better, value, weight, n
<1>4. Permutes(sorted, n)'
  BY <1>1, <1>2, <1>3 DEF Permutes
<1>5. CASE i < n - 1
  <2>1. pc' = "sort" /\ i' = i + 1 /\ j' = i + 2
    BY <1>1, <1>5 DEF NextPlace
  <2>2. SortInv'
    BY <1>1, <1>2, <1>3, <1>4, <1>5, <2>1 DEF SortInv
  <2> QED
    BY <1>1, <2>1, <2>2 DEF GreedyInv, TakenInv, GapInv, GreedyFillsUp, GreedyMissesLess
<1>6. CASE ~(i < n - 1)
  <2>1. pc' = "take" /\ i' = 1
    BY <1>6 DEF NextPlace
  <2>2. \A p, q \in 1 .. n : p < q => p <= i
    BY <1>1, <1>6
  <2>3. SortInv'
    BY <1>1, <1>2, <1>3, <1>4, <2>1, <2>2 DEF SortInv
  <2>4. TakenInv'
    BY <1>1, <2>1 DEF TakenInv, Range
  <2>5. AllTaken'
    <3>1. \A o \in 1 .. n : weight[o] \in Nat /\ value[o] \in Nat
      BY <1>1, InputShape
    <3>2. \A k \in 1 .. n : sorted[k] \in 1 .. n
      BY <1>2 DEF Permutes
    <3> QED
      BY <1>1, <1>3, <2>1, <3>1, <3>2 DEF AllTaken, Ahead, weight, value
  <2> QED
    BY <2>1, <2>3, <2>4, <2>5 DEF GreedyInv, GapInv, GreedyFillsUp, GreedyMissesLess
<1> QED
  BY <1>5, <1>6

(* What is ahead of the rival at the rate of b stays so when the rival     *)
(* passes an order that is no better than b.                               *)
LEMMA PassAhead ==
    ASSUME input \in Inputs, UNCHANGED input, rivalWeight \in Nat, rivalValue \in Nat,
           NEW V \in Nat, NEW W \in Nat, NEW b \in 1 .. n, NEW o \in 1 .. n,
           PassRival(o), Ahead(V, W, b), ~Better(o, b)
    PROVE  (V - rivalValue') * weight[b] >= (W - rivalWeight') * value[b]
<1>1. weight[b] \in Nat /\ value[b] \in Nat /\ weight[o] \in Nat /\ value[o] \in Nat
  BY InputShape
<1>2. (V - rivalValue) * weight[b] >= (W - rivalWeight) * value[b]
  BY DEF Ahead
<1>4. CASE o \in rival
  <2>1. rivalWeight' = rivalWeight + weight[o] /\ rivalValue' = rivalValue + value[o]
    BY <1>4 DEF PassRival
  <2>2. value[o] * weight[b] <= value[b] * weight[o]
    <3>1. value[o] * weight[b] \in Nat /\ value[b] * weight[o] \in Nat
      BY <1>1
    <3> QED
      BY <3>1 DEF Better
  <2>3. ((V - rivalValue) - value[o]) * weight[b] >= ((W - rivalWeight) - weight[o]) * value[b]
    <3>1. V - rivalValue \in Int /\ W - rivalWeight \in Int
      OBVIOUS
    <3> QED
      BY <1>1, <1>2, <2>2, <3>1, AheadPass
  <2>4. /\ V - rivalValue' = (V - rivalValue) - value[o]
        /\ W - rivalWeight' = (W - rivalWeight) - weight[o]
    BY <1>1, <2>1
  <2> QED
    BY <2>3, <2>4
<1>5. CASE o \notin rival
  <2>1. rivalWeight' = rivalWeight /\ rivalValue' = rivalValue
    BY <1>5 DEF PassRival
  <2> QED
    BY <1>2, <2>1
<1> QED
  BY <1>4, <1>5

(* When o is taken, the load stays ahead at the rate of k, which is no     *)
(* better, whether the rival has o too or not.                             *)
LEMMA TakeAhead ==
    ASSUME input \in Inputs, UNCHANGED input, rivalWeight \in Nat, rivalValue \in Nat,
           NEW V \in Nat, NEW W \in Nat, NEW k \in 1 .. n, NEW o \in 1 .. n,
           PassRival(o), Ahead(V, W, k), ~Better(k, o)
    PROVE  ((V + value[o]) - rivalValue') * weight[k] >= ((W + weight[o]) - rivalWeight') * value[k]
<1>1. weight[k] \in Nat /\ value[k] \in Nat /\ weight[o] \in Nat /\ value[o] \in Nat
  BY InputShape
<1>2. (V - rivalValue) * weight[k] >= (W - rivalWeight) * value[k]
  BY DEF Ahead
<1>4. CASE o \in rival
  <2>1. rivalWeight' = rivalWeight + weight[o] /\ rivalValue' = rivalValue + value[o]
    BY <1>4 DEF PassRival
  <2>2. /\ (V + value[o]) - rivalValue' = V - rivalValue
        /\ (W + weight[o]) - rivalWeight' = W - rivalWeight
    BY <1>1, <2>1
  <2> QED
    BY <1>2, <2>2
<1>5. CASE o \notin rival
  <2>1. rivalWeight' = rivalWeight /\ rivalValue' = rivalValue
    BY <1>5 DEF PassRival
  <2>2. value[k] * weight[o] <= value[o] * weight[k]
    <3>1. value[k] * weight[o] \in Nat /\ value[o] * weight[k] \in Nat
      BY <1>1
    <3> QED
      BY <3>1 DEF Better
  <2>3. ((V - rivalValue) + value[o]) * weight[k] >= ((W - rivalWeight) + weight[o]) * value[k]
    <3>1. V - rivalValue \in Int /\ W - rivalWeight \in Int
      OBVIOUS
    <3> QED
      BY <1>1, <1>2, <2>2, <3>1, AheadTake
  <2>4. /\ (V + value[o]) - rivalValue' = (V - rivalValue) + value[o]
        /\ (W + weight[o]) - rivalWeight' = (W - rivalWeight) + weight[o]
    BY <1>1, <2>1
  <2> QED
    BY <2>3, <2>4
<1> QED
  BY <1>4, <1>5

LEMMA RangeOfAppend ==
    ASSUME NEW S, NEW s \in Seq(S), NEW o \in S
    PROVE  Append(s, o) \in Seq(S) /\ Range(Append(s, o)) = Range(s) \cup {o}
<1>1. /\ Append(s, o) \in Seq(S) /\ Len(Append(s, o)) = Len(s) + 1 /\ Len(s) \in Nat
      /\ DOMAIN Append(s, o) = 1 .. Len(s) + 1 /\ DOMAIN s = 1 .. Len(s)
      /\ \A k \in 1 .. Len(s) : Append(s, o)[k] = s[k]
      /\ Append(s, o)[Len(s) + 1] = o
  OBVIOUS
<1>2. Range(Append(s, o)) \subseteq Range(s) \cup {o}
  BY <1>1 DEF Range
<1>3. Range(s) \cup {o} \subseteq Range(Append(s, o))
  BY <1>1 DEF Range
<1> QED
  BY <1>1, <1>2, <1>3

(* A sum of naturals is no smaller than its first part.                    *)
LEMMA SumGrows == \A a, b \in Nat : a + b \in Nat /\ a + b >= a
  OBVIOUS

LEMMA TakeNextG == KInv /\ GreedyInv /\ TakeNext => GreedyInv'
<1> SUFFICES ASSUME KInv, GreedyInv, TakeNext PROVE GreedyInv'
  OBVIOUS
<1> PICK o : o = sorted[i]
  OBVIOUS
<1>1. /\ input \in Inputs /\ n \in Nat /\ capacity \in Nat
      /\ pc = "take" /\ pc' = "take" /\ i \in 1 .. n /\ i' = i + 1
      /\ input' = input /\ sorted' = sorted /\ Permutes(sorted, n) /\ o \in 1 .. n
      /\ PassRival(o)
  <2>1. pc = "take" /\ i <= n /\ pc' = pc /\ i' = i + 1 /\ input' = input /\ sorted' = sorted /\ PassRival(o)
    BY DEF TakeNext, sorting
  <2>2. /\ input \in Inputs /\ n \in Nat /\ capacity \in Nat /\ i \in 1 .. n + 1 /\ Permutes(sorted, n)
    BY <2>1, InputShape DEF KInv, TableInv, GreedyInv, SortInv
  <2>3. i \in 1 .. n /\ o \in 1 .. n
    BY <2>1, <2>2 DEF Permutes
  <2> QED
    BY <2>1, <2>2, <2>3
<1>2. /\ totalWeight \in Nat /\ totalValue \in Nat /\ rivalWeight \in Nat /\ rivalValue \in Nat
      /\ selected \in Seq(1 .. n)
      /\ \A x \in Range(selected) : \E p \in 1 .. i - 1 : sorted[p] = x
      /\ \A p \in 1 .. i - 1 :
          sorted[p] \in Range(selected) \/ totalWeight + weight[sorted[p]] > capacity
  BY <1>1 DEF GreedyInv, TakenInv
<1>3. \A p, q \in 1 .. n : p < q => ~Better(sorted[q], sorted[p])
  BY <1>1 DEF GreedyInv, SortInv
<1>4. /\ \A p \in 1 .. n : sorted[p] \in 1 .. n /\ weight[sorted[p]] \in Nat /\ value[sorted[p]] \in Nat
      /\ \A p, q \in 1 .. n : sorted[p] = sorted[q] => p = q
  BY <1>1, InputShape DEF Permutes
<1>5. /\ n' = n /\ weight' = weight /\ value' = value /\ capacity' = capacity
      /\ \A x, y : Better(x, y)' <=> Better(x, y)
  BY <1>1 DEF Better, value, weight, n, capacity
<1>6. SortInv'
  <2>1. \A p, q : Better(sorted[q], sorted[p])' <=> Better(sorted[q], sorted[p])
    BY <1>1, <1>5 DEF Better
  <2>2. Permutes(sorted, n)'
    BY <1>1, <1>5 DEF Permutes
  <2> QED
    BY <1>1, <1>3, <1>5, <2>1, <2>2 DEF SortInv
<1>7. weight[o] \in Nat /\ value[o] \in Nat
  BY <1>1, InputShape
<1>8. \/ /\ totalWeight + weight[o] <= capacity
         /\ selected' = Append(selected, o)
         /\ totalWeight' = totalWeight + weight[o] /\ totalValue' = totalValue + value[o]
      \/ /\ totalWeight + weight[o] > capacity
         /\ UNCHANGED <<selected, totalWeight, totalValue>>
  BY <1>1, <1>2, <1>7 DEF TakeNext, Take, plan
<1>9. /\ \/ Range(selected') = Range(selected) \cup {o}
         \/ Range(selected') = Range(selected) /\ totalWeight' + weight[o] > capacity
      /\ selected' \in Seq(1 .. n)
      /\ totalWeight' \in Nat /\ totalValue' \in Nat
      /\ totalWeight' >= totalWeight /\ totalValue' >= totalValue
  <2>1. Append(selected, o) \in Seq(1 .. n) /\ Range(Append(selected, o)) = Range(selected) \cup {o}
    BY <1>1, <1>2, RangeOfAppend
  <2>2. CASE totalWeight + weight[o] <= capacity
    <3>1. /\ selected' = Append(selected, o)
          /\ totalWeight' = totalWeight + weight[o] /\ totalValue' = totalValue + value[o]
      BY <1>1, <1>2, <1>7, <1>8, <2>2
    <3>2. Range(selected') = Range(selected) \cup {o} /\ selected' \in Seq(1 .. n)
      BY <2>1, <3>1
    <3>3. /\ totalWeight' \in Nat /\ totalValue' \in Nat
          /\ totalWeight' >= totalWeight /\ totalValue' >= totalValue
      <4>1. totalWeight' \in Nat /\ totalWeight' >= totalWeight
        BY <1>2, <1>7, <3>1, SumGrows
      <4>2. totalValue' \in Nat /\ totalValue' >= totalValue
        BY <1>2, <1>7, <3>1, SumGrows
      <4> QED
        BY <4>1, <4>2
    <3> QED
      BY <3>2, <3>3
  <2>3. CASE totalWeight + weight[o] > capacity
    <3>1. selected' = selected /\ totalWeight' = totalWeight /\ totalValue' = totalValue
      BY <1>1, <1>2, <1>7, <1>8, <2>3
    <3>2. Range(selected') = Range(selected)
      BY <3>1
    <3> QED
      BY <1>1, <1>2, <1>7, <2>3, <3>1, <3>2
  <2> QED
    BY <1>1, <1>2, <1>7, <2>2, <2>3
<1>10. /\ rivalWeight' \in Nat /\ rivalValue' \in Nat /\ rivalValue' >= rivalValue
       /\ rivalValue' <= rivalValue + value[o]
  <2>1. /\ rivalWeight' = rivalWeight + IF o \in rival THEN weight[o] ELSE 0
        /\ rivalValue' = rivalValue + IF o \in rival THEN value[o] ELSE 0
    BY <1>1 DEF PassRival
  <2>2. CASE o \in rival
    BY <1>2, <1>7, <2>1, <2>2
  <2>3. CASE o \notin rival
    BY <1>2, <1>7, <2>1, <2>3
  <2> QED
    BY <2>2, <2>3
<1>11. TakenInv'
  <2>1. \A x \in Range(selected') : \E p \in 1 .. i : sorted[p] = x
    BY <1>1, <1>2, <1>9
  <2>2. ASSUME NEW p \in 1 .. i
        PROVE  sorted[p] \in Range(selected') \/ totalWeight' + weight[sorted[p]] > capacity
    <3>1. CASE p < i
      <4>1. p \in 1 .. i - 1 /\ weight[sorted[p]] \in Nat
        BY <1>1, <1>4, <3>1
      <4>2. sorted[p] \in Range(selected) \/ totalWeight + weight[sorted[p]] > capacity
        BY <1>2, <4>1
      <4>3. sorted[p] \in Range(selected) => sorted[p] \in Range(selected')
        BY <1>9
      <4>4. totalWeight + weight[sorted[p]] > capacity => totalWeight' + weight[sorted[p]] > capacity
        <5>1. totalWeight \in Nat /\ totalWeight' \in Nat /\ totalWeight' >= totalWeight /\ capacity \in Nat
          BY <1>1, <1>2, <1>9
        <5> QED
          BY <4>1, <5>1
      <4> QED
        BY <4>2, <4>3, <4>4
    <3>2. CASE p = i
      BY <1>9, <3>2
    <3> QED
      BY <1>1, <3>1, <3>2
  <2> QED
    BY <1>1, <1>5, <1>9, <1>10, <2>1, <2>2 DEF TakenInv
<1>12. GapInv'
  <2>1. ASSUME NEW p \in 1 .. i - 1, NEW V \in 0 .. totalValue, NEW W \in 0 .. totalWeight,
               LeftOut(sorted[p], V, W)
        PROVE  GapInv'
    <3>1. p \in 1 .. n /\ p # i /\ sorted[p] \in 1 .. n /\ sorted[p] # o
      BY <1>1, <1>4
    <3>2. sorted[p] \notin Range(selected')
      BY <1>9, <2>1, <3>1 DEF LeftOut
    <3>3. ~Better(o, sorted[p])
      BY <1>1, <2>1 DEF LeftOut
    <3>4. Ahead(V, W, sorted[p])'
      <4>1. Ahead(V, W, sorted[p]) /\ V \in Nat /\ W \in Nat
        BY <1>2, <2>1 DEF LeftOut
      <4>2. (V - rivalValue') * weight[sorted[p]] >= (W - rivalWeight') * value[sorted[p]]
        BY <1>1, <1>2, <3>1, <3>3, <4>1, PassAhead
      <4> QED
        BY <1>1, <1>5, <4>2 DEF Ahead
    <3>5. \A k \in i + 1 .. n : ~Better(sorted[k], sorted[p])
      BY <1>1, <2>1 DEF LeftOut
    <3>6. \A k : Better(sorted[k], sorted[p])' <=> Better(sorted[k], sorted[p])
      BY <1>1, <1>5 DEF Better
    <3>7. W + weight[sorted[p]] > capacity
      BY <2>1 DEF LeftOut
    <3>8. LeftOut(sorted[p], V, W)'
      BY <1>1, <1>5, <3>2, <3>4, <3>5, <3>6, <3>7 DEF LeftOut
    <3>9. p \in 1 .. i' - 1 /\ V \in 0 .. totalValue' /\ W \in 0 .. totalWeight'
      BY <1>1, <1>2, <1>9
    <3> QED
      BY <1>1, <3>8, <3>9 DEF GapInv
  <2>2. CASE AllTaken
    <3>1. /\ rivalValue <= totalValue
          /\ \A k \in i .. n : Ahead(totalValue, totalWeight, sorted[k])
      BY <2>2 DEF AllTaken
    <3>2. \A k \in i + 1 .. n : ~Better(sorted[k], o) /\ sorted[k] \in 1 .. n
      BY <1>1, <1>3, <1>4
    <3>3. CASE totalWeight + weight[o] <= capacity
      <4>1. totalWeight' = totalWeight + weight[o] /\ totalValue' = totalValue + value[o]
        BY <1>1, <1>2, <1>7, <1>8, <3>3
      <4>2. ASSUME NEW k \in i + 1 .. n PROVE Ahead(totalValue, totalWeight, sorted[k])'
        <5>1. Ahead(totalValue, totalWeight, sorted[k]) /\ ~Better(sorted[k], o) /\ sorted[k] \in 1 .. n
          BY <1>1, <3>1, <3>2
        <5>2. ((totalValue + value[o]) - rivalValue') * weight[sorted[k]]
                >= ((totalWeight + weight[o]) - rivalWeight') * value[sorted[k]]
          BY <1>1, <1>2, <5>1, TakeAhead
        <5> QED
          BY <1>1, <1>5, <4>1, <5>2 DEF Ahead
      <4>3. \A k \in i + 1 .. n : Ahead(totalValue, totalWeight, sorted[k])'
        BY <4>2
      <4>4. rivalValue' <= totalValue'
        BY <1>2, <1>7, <1>10, <3>1, <4>1
      <4>5. AllTaken'
        BY <1>1, <1>5, <4>3, <4>4 DEF AllTaken
      <4> QED
        BY <1>1, <4>5 DEF GapInv
    <3>4. CASE totalWeight + weight[o] > capacity
      <4>1. UNCHANGED <<selected, totalWeight, totalValue>>
        BY <1>1, <1>2, <1>7, <1>8, <3>4
      <4>2. o \notin Range(selected)
        <5>1. \A p \in 1 .. i - 1 : p \in 1 .. n /\ p # i
          BY <1>1
        <5> QED
          BY <1>1, <1>2, <1>4, <5>1
      <4>3. (totalValue - rivalValue') * weight[o] >= (totalWeight - rivalWeight') * value[o]
        <5>1. Ahead(totalValue, totalWeight, o)
          BY <1>1, <3>1
        <5>2. ~Better(o, o)
          BY <1>1, NotBetterThanItself
        <5> QED
          BY <1>1, <1>2, <5>1, <5>2, PassAhead
      <4> PICK p \in 1 .. n, V \in Nat, W \in Nat : p = i /\ V = totalValue /\ W = totalWeight
        BY <1>1, <1>2
      <4>4. Ahead(V, W, sorted[p])'
        BY <1>1, <1>5, <4>3 DEF Ahead
      <4>5. \A k : Better(sorted[k], sorted[p])' <=> Better(sorted[k], o)
        BY <1>1, <1>5 DEF Better
      <4>6. LeftOut(sorted[p], V, W)'
        BY <1>1, <1>5, <3>2, <3>4, <4>1, <4>2, <4>4, <4>5 DEF LeftOut
      <4>7. p \in 1 .. i' - 1 /\ V \in 0 .. totalValue' /\ W \in 0 .. totalWeight'
        BY <1>1, <1>2, <4>1
      <4> QED
        BY <1>1, <4>6, <4>7 DEF GapInv
    <3> QED
      BY <1>1, <1>2, <1>7, <3>3, <3>4
  <2> QED
    BY <1>1, <2>1, <2>2 DEF GreedyInv, GapInv
<1> QED
  BY <1>1, <1>6, <1>11, <1>12 DEF GreedyInv, GreedyFillsUp, GreedyMissesLess

(* At the end a rival worth more than the plan is behind the order left    *)
(* out first by less than the value of that order.                         *)
LEMMA ReturnGreedyG == KInv /\ GreedyInv /\ ReturnGreedy => GreedyInv'
<1> SUFFICES ASSUME KInv, GreedyInv, ReturnGreedy PROVE GreedyInv'
  OBVIOUS
<1>1. /\ input \in Inputs /\ n \in Nat /\ capacity \in Nat /\ pc = "take" /\ pc' = "done" /\ i = n + 1
      /\ Permutes(sorted, n) /\ totalWeight <= capacity
      /\ UNCHANGED <<input, selected, totalWeight, totalValue, rivalWeight, rivalValue>>
  <2>1. /\ pc = "take" /\ i > n /\ pc' = "done"
        /\ UNCHANGED <<input, selected, totalWeight, totalValue, rivalWeight, rivalValue>>
    BY DEF ReturnGreedy, plan, rivals
  <2>2. input \in Inputs /\ n \in Nat /\ capacity \in Nat /\ i \in 1 .. n + 1 /\ Permutes(sorted, n)
    BY <2>1, InputShape DEF KInv, TableInv, GreedyInv, SortInv
  <2> QED
    BY <2>1, <2>2 DEF KInv, PlanFits
<1>2. /\ totalWeight \in Nat /\ totalValue \in Nat /\ rivalWeight \in Nat /\ rivalValue \in Nat
      /\ \A p \in 1 .. n :
          sorted[p] \in Range(selected) \/ totalWeight + weight[sorted[p]] > capacity
  BY <1>1 DEF GreedyInv, TakenInv
<1>3. n' = n /\ weight' = weight /\ value' = value /\ capacity' = capacity
  BY <1>1 DEF value, weight, n, capacity
<1>4. GreedyFillsUp'
  <2>1. \A o \in 1 .. n : \E p \in 1 .. n : sorted[p] = o
    BY <1>1 DEF Permutes
  <2> QED
    BY <1>1, <1>2, <1>3, <2>1 DEF GreedyFillsUp
<1>5. ASSUME rivalWeight <= capacity, totalValue < rivalValue
      PROVE  \E o \in 1 .. n : o \notin Range(selected) /\ totalValue + value[o] > rivalValue
  <2>1. ~AllTaken
    BY <1>2, <1>5 DEF AllTaken
  <2>2. PICK p \in 1 .. i - 1, V \in 0 .. totalValue, W \in 0 .. totalWeight : LeftOut(sorted[p], V, W)
    BY <1>1, <2>1 DEF GreedyInv, GapInv
  <2>3. PICK b \in 1 .. n : b = sorted[p]
    BY <1>1, <2>2 DEF Permutes
  <2>4. weight[b] \in Nat /\ value[b] \in Nat
    BY <1>1, <2>3, InputShape
  <2>5. /\ b \notin Range(selected)
        /\ W + weight[b] > capacity
        /\ (V - rivalValue) * weight[b] >= (W - rivalWeight) * value[b]
    BY <2>2, <2>3 DEF LeftOut, Ahead
  <2>6. /\ V - rivalValue \in Int /\ W - rivalWeight \in Int /\ V - rivalValue < 0
        /\ weight[b] > 0 /\ (W - rivalWeight) + weight[b] > 0
    BY <1>1, <1>2, <1>5, <2>2, <2>4, <2>5
  <2>7. (V - rivalValue) + value[b] > 0
    BY <2>4, <2>5, <2>6, LessThanOne
  <2>8. totalValue + value[b] > rivalValue
    BY <1>2, <2>2, <2>4, <2>7
  <2> QED
    BY <2>3, <2>5, <2>8
<1>6. GreedyMissesLess'
  <2>1. BeatsRival' <=> (rivalWeight <= capacity => totalValue >= rivalValue)
    BY <1>1, <1>3 DEF BeatsRival
  <2> QED
    BY <1>1, <1>2, <1>3, <1>5, <2>1 DEF GreedyMissesLess
<1> QED
  BY <1>1, <1>4, <1>6 DEF GreedyInv, SortInv, TakenInv, GapInv

(* The steps of the table and of a request without orders.                 *)
LEMMA TableG ==
    ASSUME KInv, GreedyInv, Empty \/ Start \/ FillRow \/ Cancel \/ StartBacktrack \/ Backtrack \/ Return
    PROVE  GreedyInv'
<1>1. CASE Empty
  <2>1. /\ pc = "start" /\ pc' = "done" /\ n = 0 /\ totalValue = 0 /\ rivalValue = 0
        /\ UNCHANGED <<input, totalValue, rivalValue>>
    BY <1>1 DEF Empty, KInv, TraceInv, RivalInv, plan, rivals
  <2>2. n' = 0
    BY <2>1 DEF n
  <2>3. GreedyFillsUp' /\ BeatsRival'
    BY <2>1, <2>2 DEF GreedyFillsUp, BeatsRival
  <2> QED
    BY <2>1, <2>3 DEF GreedyInv, SortInv, TakenInv, GapInv, GreedyMissesLess
<1>2. CASE Start \/ FillRow \/ Cancel \/ StartBacktrack \/ Backtrack
  <2>1. pc' \in {"fill", "back", "cancelled"}
    BY <1>2 DEF Start, FillRow, Cancel, StartBacktrack, Backtrack
  <2> QED
    BY <2>1 DEF GreedyInv, SortInv, TakenInv, GapInv, GreedyFillsUp, GreedyMissesLess
<1>3. CASE Return
  <2>1. pc' = "done" /\ UNCHANGED input /\ ~UseGreedy
    BY <1>3 DEF Return, KInv, TableInv
  <2>2. ~UseGreedy'
    BY <2>1 DEF UseGreedy, n, capacity
  <2> QED
    BY <2>1, <2>2 DEF GreedyInv, SortInv, TakenInv, GapInv, GreedyFillsUp, GreedyMissesLess
<1> QED
  BY <1>1, <1>2, <1>3

LEMMA StutterG == KInv /\ GreedyInv /\ UNCHANGED vars => GreedyInv'
<1> SUFFICES ASSUME GreedyInv, UNCHANGED vars PROVE GreedyInv'
  OBVIOUS
<1>1. UNCHANGED <<input, pc, i, j, sorted, selected, totalWeight, totalValue, rivalWeight, rivalValue>>
  BY DEF vars, sorting, plan, rivals
<1>2. /\ n' = n /\ weight' = weight /\ value' = value /\ capacity' = capacity
      /\ UseGreedy' = UseGreedy
  BY <1>1 DEF n, weight, value, capacity, UseGreedy
<1>3. SortInv'
  BY <1>1, <1>2 DEF GreedyInv, SortInv, Permutes, Better
<1>4. TakenInv'
  BY <1>1, <1>2 DEF GreedyInv, TakenInv
<1>5. GapInv'
  BY <1>1, <1>2 DEF GreedyInv, GapInv, AllTaken, LeftOut, Ahead, Better
<1>6. GreedyFillsUp' /\ GreedyMissesLess'
  BY <1>1, <1>2 DEF GreedyInv, GreedyFillsUp, GreedyMissesLess, BeatsRival
<1> QED
  BY <1>3, <1>4, <1>5, <1>6 DEF GreedyInv

LEMMA NextG == KInv /\ GreedyInv /\ [Next]_vars => GreedyInv'
BY TableG, StartG, CompareG, NextPlaceG, TakeNextG, ReturnGreedyG, StutterG DEF Next

LEMMA GreedyInvariant == Spec => []GreedyInv
BY KInvariant, InitG, NextG, PTL DEF Spec

(* Greedy leaves out no order that would still fit: the orders passed are  *)
(* in the plan or do not fit, and the plan only grows.                     *)
THEOREM GreedyFillsUpAlways == Spec => []GreedyFillsUp
BY GreedyInvariant, PTL DEF GreedyInv

(* What greedy misses is less than the value of one order it left out, for *)
(* any orders and any other choice that fits: by the rates of value per    *)
(* weight the sort puts the orders in, not by trying the choices.          *)
THEOREM GreedyMissesLessAlways == Spec => []GreedyMissesLess
BY GreedyInvariant, PTL DEF GreedyInv

-----------------------------------------------------------------------------
(* The trace back lists only orders behind row i, the greedy choice only   *)
(* orders at places before i: the next one is not in the plan yet.         *)
OnceInv ==
    /\ ListedOnce
    /\ pc \in {"start", "fill", "sort"} => selected = <<>>
    /\ pc = "back" => selected \in Seq(1 .. n) /\ \A o \in Range(selected) : o > i

LEMMA AppendOnce ==
    ASSUME NEW S, NEW s \in Seq(S), NEW o \in S, o \notin Range(s), IsInjective(s)
    PROVE  IsInjective(Append(s, o))
<1>1. /\ Len(s) \in Nat /\ DOMAIN Append(s, o) = 1 .. Len(s) + 1 /\ DOMAIN s = 1 .. Len(s)
      /\ \A k \in 1 .. Len(s) : Append(s, o)[k] = s[k]
      /\ Append(s, o)[Len(s) + 1] = o
  OBVIOUS
<1>2. \A k \in 1 .. Len(s) : s[k] # o
  BY <1>1 DEF Range
<1>3. \A a, b \in 1 .. Len(s) : s[a] = s[b] => a = b
  BY <1>1 DEF IsInjective
<1> SUFFICES ASSUME NEW a \in 1 .. Len(s) + 1, NEW b \in 1 .. Len(s) + 1,
                    Append(s, o)[a] = Append(s, o)[b]
             PROVE  a = b
  BY <1>1 DEF IsInjective
<1>4. CASE a \in 1 .. Len(s) /\ b \in 1 .. Len(s)
  BY <1>1, <1>3, <1>4
<1>5. CASE a = Len(s) + 1 \/ b = Len(s) + 1
  BY <1>1, <1>2, <1>5
<1> QED
  BY <1>1, <1>4, <1>5

LEMMA OnceInit == Init => OnceInv
BY DEF Init, OnceInv, ListedOnce, IsInjective

LEMMA OnceNext == KInv /\ GreedyInv /\ OnceInv /\ [Next]_vars => OnceInv'
<1> SUFFICES ASSUME KInv, GreedyInv, OnceInv, [Next]_vars PROVE OnceInv'
  OBVIOUS
<1>1. CASE Backtrack
  <2>1. /\ pc = "back" /\ pc' = "back" /\ n \in Nat /\ n' = n /\ i \in 1 .. n /\ i' = i - 1
        /\ selected \in Seq(1 .. n) /\ \A o \in Range(selected) : o > i
    BY <1>1, InputShape DEF Backtrack, KInv, TableInv, OnceInv, n
  <2>2. selected' = Append(selected, i) \/ selected' = selected
    BY <1>1 DEF Backtrack, Take
  <2>3. CASE selected' = Append(selected, i)
    <3>1. i \notin Range(selected)
      BY <2>1
    <3>2. selected' \in Seq(1 .. n) /\ Range(selected') = Range(selected) \cup {i}
      BY <2>1, <2>3, RangeOfAppend
    <3>3. IsInjective(selected')
      BY <2>1, <2>3, <3>1, AppendOnce DEF OnceInv, ListedOnce
    <3>4. \A o \in Range(selected') : o > i'
      <4>1. \A o \in Range(selected) : o \in Int /\ o > i
        BY <2>1 DEF Range
      <4>2. \A o \in Range(selected) : o > i - 1
        BY <2>1, <4>1
      <4>3. i > i - 1
        BY <2>1
      <4> QED
        BY <2>1, <3>2, <4>2, <4>3
    <3>5. selected' \in Seq(1 .. n')
      BY <2>1, <3>2
    <3> QED
      BY <2>1, <3>3, <3>4, <3>5 DEF OnceInv, ListedOnce
  <2>4. CASE selected' = selected
    <3>1. \A o \in Range(selected) : o > i'
      <4>1. Range(selected) \subseteq 1 .. n
        BY <2>1 DEF Range
      <4> QED
        BY <2>1, <4>1
    <3> QED
      BY <2>1, <2>4, <3>1 DEF OnceInv, ListedOnce
  <2> QED
    BY <2>2, <2>3, <2>4
<1>2. CASE TakeNext
  <2>1. pc = "take" /\ pc' = "take" /\ i \in 1 .. n /\ n \in Nat /\ Permutes(sorted, n)
    BY <1>2, InputShape DEF TakeNext, KInv, TableInv, GreedyInv, SortInv
  <2>2. /\ selected \in Seq(1 .. n) /\ sorted[i] \in 1 .. n
        /\ \A x \in Range(selected) : \E p \in 1 .. i - 1 : sorted[p] = x
        /\ \A p \in 1 .. i - 1 : sorted[p] # sorted[i]
    <3>1. /\ selected \in Seq(1 .. n)
          /\ \A x \in Range(selected) : \E p \in 1 .. i - 1 : sorted[p] = x
      BY <2>1 DEF GreedyInv, TakenInv
    <3>2. sorted[i] \in 1 .. n
      BY <2>1 DEF Permutes
    <3>3. \A p \in 1 .. i - 1 : sorted[p] # sorted[i]
      <4>1. \A p \in 1 .. i - 1 : p \in 1 .. n /\ p # i
        BY <2>1
      <4> QED
        BY <2>1, <4>1 DEF Permutes
    <3> QED
      BY <3>1, <3>2, <3>3
  <2>3. sorted[i] \notin Range(selected)
    BY <2>2
  <2>4. selected' = Append(selected, sorted[i]) \/ selected' = selected
    BY <1>2 DEF TakeNext, Take, plan
  <2>5. IsInjective(selected')
    <3>1. IsInjective(selected)
      BY DEF OnceInv, ListedOnce
    <3>2. IsInjective(Append(selected, sorted[i]))
      BY <2>2, <2>3, <3>1, AppendOnce
    <3> QED
      BY <2>4, <3>1, <3>2
  <2> QED
    BY <2>1, <2>5 DEF OnceInv, ListedOnce
<1>3. CASE UNCHANGED selected /\ pc' \in {"fill", "sort"} /\ pc \in {"start", "fill", "sort"}
  BY <1>3 DEF OnceInv, ListedOnce
<1>4. CASE UNCHANGED selected /\ pc' \in {"take", "done", "cancelled"}
  BY <1>4 DEF OnceInv, ListedOnce
<1>5. CASE StartBacktrack
  BY <1>5 DEF StartBacktrack, plan, OnceInv, ListedOnce, Range
<1>6. CASE UNCHANGED vars
  BY <1>6 DEF vars, plan, OnceInv, ListedOnce, n
<1> QED
  BY <1>1, <1>2, <1>3, <1>4, <1>5, <1>6
     DEF Next, Empty, Start, FillRow, Cancel, Return, StartGreedy, Compare, NextPlace, ReturnGreedy, plan

(* A plan lists no order twice, by either algorithm and for any orders.    *)
THEOREM ListedOnceAlways == Spec => []ListedOnce
<1>1. OnceInv => ListedOnce
  BY DEF OnceInv
<1> QED
  BY <1>1, OnceInit, OnceNext, KInvariant, GreedyInvariant, PTL DEF Spec

(* The trace stops at row 0 or at column 0.  There nothing is left to gain *)
(* but by weightless orders, and those of the rows not reached are not     *)
(* listed.                                                                 *)
LEMMA ReturnTotals == KInv /\ OnceInv /\ Return => TotalsAgree'
<1> SUFFICES ASSUME KInv, OnceInv, Return,
                    \A o \in 1 .. n' : weight'[o] = 0 /\ value'[o] > 0 => o \in Range(selected')
             PROVE  totalValue' = selectedValue'
  BY DEF TotalsAgree
<1>1. /\ input \in Inputs /\ pc = "back" /\ i \in 0 .. n /\ n \in Nat /\ w \in Columns
      /\ dp \in [0 .. n -> [Columns -> Nat]] /\ (i = 0 \/ w = 0)
      /\ totalValue' = dp[n][capacity]
      /\ UNCHANGED <<input, selected, selectedValue>>
  BY InputShape DEF KInv, TableInv, Return, Columns
<1>2. n' = n /\ weight' = weight /\ value' = value
  BY <1>1 DEF n, weight, value
<1>3. NothingForNothing(i)
  <2> SUFFICES ASSUME NEW o \in 1 .. i, weight[o] = 0 PROVE value[o] = 0
    BY DEF NothingForNothing
  <2>1. o \in 1 .. n /\ ~(o > i)
    BY <1>1
  <2>2. o \notin Range(selected)
    BY <1>1, <2>1 DEF OnceInv
  <2>3. value[o] \in Nat
    BY <1>1, <2>1, InputShape
  <2> QED
    BY <1>1, <1>2, <2>1, <2>2, <2>3
<1>4. dp[i][w] = 0
  BY <1>1, <1>3 DEF KInv, EdgeInv
<1>5. selectedValue \in Nat /\ selectedValue + dp[i][w] = dp[n][capacity]
  BY <1>1 DEF KInv, TraceInv
<1> QED
  BY <1>1, <1>4, <1>5

LEMMA TotalsNext == KInv /\ OnceInv /\ TotalsAgree /\ [Next]_vars => TotalsAgree'
<1> SUFFICES ASSUME KInv, OnceInv, TotalsAgree, [Next]_vars PROVE TotalsAgree'
  OBVIOUS
<1>1. CASE Return
  BY <1>1, ReturnTotals
<1>2. CASE Empty \/ ReturnGreedy
  BY <1>2 DEF Empty, ReturnGreedy, plan, KInv, TraceInv, TotalsAgree
<1>3. CASE UNCHANGED vars
  BY <1>3 DEF vars, plan, TotalsAgree, n, weight, value
<1>4. CASE pc' # "done"
  BY <1>4 DEF TotalsAgree
<1> QED
  BY <1>1, <1>2, <1>3, <1>4
     DEF Next, Start, FillRow, Cancel, StartBacktrack, Backtrack, StartGreedy, Compare, NextPlace,
         TakeNext

(* The announced value is the value of the listed orders, unless an order  *)
(* of value that weighs nothing is missing from the list.                  *)
THEOREM TotalsAgreeAlways == Spec => []TotalsAgree
<1>1. Init => TotalsAgree
  BY DEF Init, TotalsAgree
<1> QED
  BY <1>1, OnceInit, OnceNext, TotalsNext, KInvariant, GreedyInvariant, PTL DEF Spec

-----------------------------------------------------------------------------
(* The stages a plan still has before it, the places of the stage it is    *)
(* at, and the comparisons of that place.                                  *)
StagesLeft ==
    CASE pc = "start" -> 3 [] pc \in {"fill", "sort"} -> 2 [] pc \in {"back", "take"} -> 1 [] OTHER -> 0
PlacesLeft ==
    CASE pc = "sort" -> n - i [] pc = "back" -> i [] pc \in {"fill", "take"} -> n + 1 - i [] OTHER -> 0
ComparesLeft == IF pc = "sort" THEN n + 1 - j ELSE 0

(* A step goes on to a later stage, a later place or the next comparison.  *)
MovesOn ==
    \/ StagesLeft' < StagesLeft
    \/ StagesLeft' = StagesLeft /\ PlacesLeft' < PlacesLeft
    \/ StagesLeft' = StagesLeft /\ PlacesLeft' = PlacesLeft /\ ComparesLeft' < ComparesLeft

WorkLeft == {StagesLeft, PlacesLeft, ComparesLeft} \subseteq Nat

LEMMA WorkIsNat == KInv /\ GreedyInv => WorkLeft
<1> SUFFICES ASSUME KInv, GreedyInv PROVE WorkLeft
  OBVIOUS
<1>1. n \in Nat
  BY InputShape DEF KInv, TableInv
<1>2. StagesLeft \in Nat
  BY DEF StagesLeft
<1>3. PlacesLeft \in Nat /\ ComparesLeft \in Nat
  BY <1>1 DEF KInv, TableInv, GreedyInv, SortInv, PlacesLeft, ComparesLeft
<1> QED
  BY <1>2, <1>3 DEF WorkLeft

LEMMA StepMovesOn == KInv /\ GreedyInv /\ Next => MovesOn
<1> SUFFICES ASSUME KInv, GreedyInv, Next PROVE MovesOn
  OBVIOUS
<1>1. n \in Nat /\ n' = n
  BY InputShape
     DEF KInv, TableInv, n, Next, Empty, Start, FillRow, Cancel, StartBacktrack, Backtrack, Return,
         StartGreedy, Compare, NextPlace, TakeNext, ReturnGreedy
<1> USE <1>1 DEF MovesOn, StagesLeft, PlacesLeft, ComparesLeft
<1>2. CASE Empty \/ Start \/ Cancel \/ StartBacktrack \/ Return \/ StartGreedy \/ ReturnGreedy
  BY <1>2 DEF Empty, Start, Cancel, StartBacktrack, Return, StartGreedy, ReturnGreedy
<1>3. CASE FillRow
  BY <1>3 DEF FillRow, KInv, TableInv
<1>4. CASE Backtrack
  BY <1>4 DEF Backtrack, KInv, TableInv
<1>5. CASE Compare
  BY <1>5 DEF Compare, GreedyInv, SortInv
<1>6. CASE NextPlace
  BY <1>6 DEF NextPlace, GreedyInv, SortInv
<1>7. CASE TakeNext
  BY <1>7 DEF TakeNext, GreedyInv, SortInv
<1> QED
  BY <1>2, <1>3, <1>4, <1>5, <1>6, <1>7 DEF Next

(* A plan is made in finitely many steps, by either algorithm: each step   *)
(* lowers, in this order, the stages, the places or the comparisons left,  *)
(* which are natural numbers.                                              *)
THEOREM PlansRunOut == Spec => [][WorkLeft /\ WorkLeft' /\ MovesOn]_vars
<1>1. KInv /\ GreedyInv /\ WorkLeft /\ WorkLeft' /\ [Next]_vars =>
        [WorkLeft /\ WorkLeft' /\ MovesOn]_vars
  BY StepMovesOn
<1> QED
  BY <1>1, WorkIsNat, KInvariant, GreedyInvariant, PTL DEF Spec
=============================================================================
