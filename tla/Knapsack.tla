------------------------------ MODULE Knapsack ------------------------------
(***************************************************************************)
(* selectOrdersForDeliveryOptimized and selectOrdersGreedy of              *)
(* service/robot.go: which of the shipping orders a plan takes.            *)
(*                                                                         *)
(* Orders are 1..n in the order the SELECT returned them.  A rival is any  *)
(* other choice of orders, fixed at the start and totalled as the code     *)
(* goes along the orders; the code never sees it.  A plan is optimal when  *)
(* it is worth at least as much as every rival that fits.                  *)
(***************************************************************************)
EXTENDS Integers, Sequences, SequencesExt

CONSTANTS
    Inputs,         \* records [weight, value, capacity] a request may meet
    GreedyItems,    \* more orders than this: greedy (1000 in the code)
    GreedyCapacity, \* a larger capacity than this: greedy (10000)
    CheckEvery      \* rows between two looks at the context (100)

ASSUME ThresholdsAssumption ==
    GreedyItems \in Nat /\ GreedyCapacity \in Nat /\ CheckEvery \in Nat \ {0}

(* products.weight and products.value are INT UNSIGNED: weight 0 may occur.*)
ASSUME InputsAssumption ==
    \A in \in Inputs :
        /\ in.weight \in Seq(Nat)
        /\ in.value \in Seq(Nat)
        /\ Len(in.value) = Len(in.weight)
        /\ in.capacity \in Nat

VARIABLES
    input,         \* the orders and the capacity
    pc,            \* "start", "fill", "back", "sort", "take", "done", "cancelled"
    dp,            \* the table, rows 0..n, once it is allocated
    i,             \* the row being filled or traced back, the position sorted or taken
    j,             \* greedy: the position compared with i
    w,             \* the weight left while tracing back
    sorted,        \* greedy: the orders by value per weight
    selected,      \* the plan's orders, in the order they were appended
    totalWeight, totalValue,
    selectedValue, \* ghost: the value of the selected orders
    rival,         \* ghost: another set of orders
    rivalWeight, rivalValue \* ghost: of the rival's orders passed so far

plan == <<selected, totalWeight, totalValue, selectedValue>>
rivals == <<rival, rivalWeight, rivalValue>>
sorting == <<j, sorted>>
vars == <<input, pc, dp, i, w, sorting, plan, rivals>>

n == Len(input.weight)
weight == input.weight
value == input.value
capacity == input.capacity
Columns == 0 .. capacity

Init ==
    /\ input \in Inputs
    /\ pc = "start"
    /\ dp = <<>>
    /\ i = 1 /\ j = 1
    /\ w = capacity
    /\ sorted = <<>>
    /\ selected = <<>>
    /\ totalWeight = 0 /\ totalValue = 0 /\ selectedValue = 0
    /\ rival \in SUBSET (1 .. n)
    /\ rivalWeight = 0 /\ rivalValue = 0

PassRival(o) ==
    /\ rivalWeight' = rivalWeight + IF o \in rival THEN weight[o] ELSE 0
    /\ rivalValue' = rivalValue + IF o \in rival THEN value[o] ELSE 0
    /\ UNCHANGED rival

-----------------------------------------------------------------------------
UseGreedy == n > GreedyItems \/ capacity > GreedyCapacity

Empty ==
    /\ pc = "start" /\ n = 0
    /\ pc' = "done"
    /\ UNCHANGED <<input, dp, i, w, sorting, plan, rivals>>

Start ==
    /\ pc = "start" /\ n > 0 /\ ~UseGreedy
    /\ pc' = "fill"
    /\ dp' = [k \in 0 .. n |-> [c \in Columns |-> 0]]
    /\ UNCHANGED <<input, i, w, sorting, plan, rivals>>

(* Variant: an order as heavy as the column does not fit.                  *)
Row_Strict(prev, o) ==
    [c \in Columns |->
        IF weight[o] < c /\ prev[c - weight[o]] + value[o] > prev[c]
        THEN prev[c - weight[o]] + value[o]
        ELSE prev[c]]

(* Row i: leave order i out, or take it on top of the best of row i - 1.   *)
Row(prev, o) ==
    [c \in Columns |->
        IF weight[o] <= c /\ prev[c - weight[o]] + value[o] > prev[c]
        THEN prev[c - weight[o]] + value[o]
        ELSE prev[c]]

FillRow ==
    /\ pc = "fill" /\ i <= n
    /\ dp' = [dp EXCEPT ![i] = Row(dp[i - 1], i)]
    /\ i' = i + 1
    /\ PassRival(i)
    /\ UNCHANGED <<input, pc, w, sorting, plan>>

(* Every CheckEvery rows the context is looked at before the row is filled.*)
Cancel ==
    /\ pc = "fill" /\ i <= n /\ i % CheckEvery = 0
    /\ pc' = "cancelled"
    /\ UNCHANGED <<input, dp, i, w, sorting, plan, rivals>>

StartBacktrack ==
    /\ pc = "fill" /\ i > n
    /\ pc' = "back"
    /\ i' = n
    /\ w' = capacity
    /\ UNCHANGED <<input, dp, sorting, plan, rivals>>

Take(o) ==
    /\ selected' = Append(selected, o)
    /\ totalWeight' = totalWeight + weight[o]
    /\ selectedValue' = selectedValue + value[o]

(* Variant: the weight left is not reduced by what is taken.               *)
Backtrack_SameRoom ==
    /\ pc = "back" /\ i > 0 /\ w > 0
    /\ IF dp[i][w] # dp[i - 1][w]
       THEN Take(i)
       ELSE UNCHANGED <<selected, totalWeight, selectedValue>>
    /\ i' = i - 1
    /\ UNCHANGED <<input, pc, dp, w, sorting, totalValue, rivals>>

Backtrack ==
    /\ pc = "back" /\ i > 0 /\ w > 0
    /\ IF dp[i][w] # dp[i - 1][w]
       THEN Take(i) /\ w' = w - weight[i]
       ELSE UNCHANGED <<selected, totalWeight, selectedValue, w>>
    /\ i' = i - 1
    /\ UNCHANGED <<input, pc, dp, sorting, totalValue, rivals>>

Return ==
    /\ pc = "back" /\ ~(i > 0 /\ w > 0)
    /\ totalValue' = dp[n][capacity]
    /\ pc' = "done"
    /\ UNCHANGED <<input, dp, i, w, sorting, selected, totalWeight, selectedValue, rivals>>

-----------------------------------------------------------------------------
(* value/weight of a is greater than that of b.  The code divides floats;  *)
(* with weight 0 that is infinity or NaN, which compare as written here.   *)
Better(a, b) == value[a] * weight[b] > value[b] * weight[a]

(* Variant: one half of the exchange is lost.                              *)
Swap_Half(s, a, b) == [s EXCEPT ![a] = s[b]]

Swap(s, a, b) == [s EXCEPT ![a] = s[b], ![b] = s[a]]

StartGreedy ==
    /\ pc = "start" /\ n > 0 /\ UseGreedy
    /\ pc' = "sort"
    /\ sorted' = [k \in 1 .. n |-> k]
    /\ j' = 2
    /\ UNCHANGED <<input, dp, i, w, plan, rivals>>

(* Variant: the more valuable order comes first, whatever it weighs.       *)
Compare_ByValue ==
    /\ pc = "sort" /\ j <= n
    /\ sorted' = IF value[sorted[j]] > value[sorted[i]] THEN Swap(sorted, i, j) ELSE sorted
    /\ j' = j + 1
    /\ UNCHANGED <<input, pc, dp, i, w, plan, rivals>>

(* The exchange sort: every order behind place i that is better comes to i.*)
Compare ==
    /\ pc = "sort" /\ j <= n
    /\ sorted' = IF Better(sorted[j], sorted[i]) THEN Swap(sorted, i, j) ELSE sorted
    /\ j' = j + 1
    /\ UNCHANGED <<input, pc, dp, i, w, plan, rivals>>

NextPlace ==
    /\ pc = "sort" /\ j > n
    /\ IF i < n - 1
       THEN i' = i + 1 /\ j' = i + 2 /\ UNCHANGED pc
       ELSE i' = 1 /\ pc' = "take" /\ UNCHANGED j
    /\ UNCHANGED <<input, dp, w, sorted, plan, rivals>>

(* Variants: the room is looked at before the order is put on; the first   *)
(* order that does not fit ends the plan.                                  *)
TakeNext_Overfull ==
    /\ pc = "take" /\ i <= n
    /\ LET o == sorted[i] IN
        /\ PassRival(o)
        /\ IF totalWeight < capacity
           THEN Take(o) /\ totalValue' = totalValue + value[o]
           ELSE UNCHANGED plan
    /\ i' = i + 1
    /\ UNCHANGED <<input, pc, dp, w, sorting>>

TakeNext_Stops ==
    /\ pc = "take" /\ i <= n
    /\ LET o == sorted[i] IN
        /\ PassRival(o)
        /\ IF totalWeight + weight[o] <= capacity
           THEN Take(o) /\ totalValue' = totalValue + value[o] /\ i' = i + 1
           ELSE UNCHANGED plan /\ i' = n + 1
    /\ UNCHANGED <<input, pc, dp, w, sorting>>

TakeNext ==
    /\ pc = "take" /\ i <= n
    /\ LET o == sorted[i] IN
        /\ PassRival(o)
        /\ IF totalWeight + weight[o] <= capacity
           THEN Take(o) /\ totalValue' = totalValue + value[o]
           ELSE UNCHANGED plan
    /\ i' = i + 1
    /\ UNCHANGED <<input, pc, dp, w, sorting>>

ReturnGreedy ==
    /\ pc = "take" /\ i > n
    /\ pc' = "done"
    /\ UNCHANGED <<input, dp, i, w, sorting, plan, rivals>>

Next ==
    \/ Empty \/ Start \/ FillRow \/ Cancel \/ StartBacktrack \/ Backtrack \/ Return
    \/ StartGreedy \/ Compare \/ NextPlace \/ TakeNext \/ ReturnGreedy

Spec == Init /\ [][Next]_vars /\ WF_vars(Next)

-----------------------------------------------------------------------------
(* A plan never weighs more than the robot carries, by either algorithm:   *)
(* the trace back never goes below the weight that is left.                *)
PlanFits == totalWeight <= capacity

(* No order is in a plan twice: the trace back and the sorted places pass  *)
(* every order once.                                                       *)
ListedOnce == IsInjective(selected)

(* The value a plan announces, read from the table, is the value of the    *)
(* orders it lists, found by tracing back: the two are computed apart.     *)
(* The trace stops at w = 0: a weightless order of some value may then be  *)
(* counted and not listed, and nothing else makes the two differ.          *)
TotalsAgree ==
    pc = "done" /\ (\A o \in 1 .. n : weight[o] = 0 /\ value[o] > 0 => o \in Range(selected)) =>
        totalValue = selectedValue

BeatsRival == rivalWeight <= capacity => totalValue >= rivalValue

(* The table finds the greatest total value of any choice that fits.       *)
TableIsOptimal == pc = "done" /\ ~UseGreedy => BeatsRival

(* Every plan has the greatest total value that fits, as the service       *)
(* manual says of plans, whichever algorithm made it.                      *)
PlanIsOptimal == pc = "done" => BeatsRival

(* Greedy leaves out no order that would still fit.                        *)
GreedyFillsUp ==
    pc = "done" /\ UseGreedy =>
        \A o \in 1 .. n : o \in Range(selected) \/ totalWeight + weight[o] > capacity

(* What the greedy choice misses is less than the value of one order that  *)
(* it left out: no choice that fits is worth as much as the plan with that *)
(* order on top.  This rests on the sort by value per weight.              *)
GreedyMissesLess ==
    pc = "done" /\ UseGreedy /\ ~BeatsRival =>
        \E o \in 1 .. n : o \notin Range(selected) /\ totalValue + value[o] > rivalValue
=============================================================================
