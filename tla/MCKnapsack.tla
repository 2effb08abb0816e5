----------------------------- MODULE MCKnapsack -----------------------------
(* Small instances of Knapsack.                                            *)
EXTENDS Knapsack

(* Up to three orders of weight 0..3 and value 0..2, capacities 0..4.      *)
SmallInputs ==
    UNION {[weight : [1 .. m -> 0 .. 3], value : [1 .. m -> 0 .. 2], capacity : 0 .. 4]
              : m \in 0 .. 3}

(* The capacity just above the limit, with the code's own limits: three    *)
(* orders, of which the best by value per weight leaves the most room.     *)
LargeCapacity ==
    [weight : {<<6000, 5000, 5001>>}, value : [1 .. 3 -> 5 .. 7], capacity : {10001}]
=============================================================================
