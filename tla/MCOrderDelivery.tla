-------------------------- MODULE MCOrderDelivery --------------------------
(* Small instances of OrderDelivery: the second of three orders fills the  *)
(* robot alone and is worth as much as the other two, of which the last    *)
(* weighs nothing and may be left out of a load.                           *)
EXTENDS OrderDelivery, TLC

WeightTable == <<2, 3, 0>>
ValueTable == <<3, 4, 1>>

OrderWeight == [o \in OrderId |-> WeightTable[o]]
OrderValue == [o \in OrderId |-> ValueTable[o]]

(* Robots, users and goroutines are interchangeable; orders are not.       *)
Symmetry == Permutations(Robots) \union Permutations(Users) \union Permutations(Plans)
=============================================================================
