--------------------------- MODULE OrderLifecycle ---------------------------
(***************************************************************************)
(* What StoreLink promises about an order, without requests, transactions  *)
(* or faults: it is placed, taken off the shipping list once, handed to a  *)
(* robot at most once, and completed only by the robot that was handed it. *)
(* Nothing goes back.                                                      *)
(***************************************************************************)
EXTENDS Integers

CONSTANT OrderId

VARIABLES
    status,  \* the committed orders.shipped_status
    handed   \* orders that some robot has been handed

vars == <<status, handed>>

Init ==
    /\ status = [o \in OrderId |-> "none"]
    /\ handed = {}

(* The orders of S go from one status to the next, all at once.            *)
Move(S, from, to) ==
    /\ S # {}
    /\ \A o \in S : status[o] = from
    /\ status' = [o \in OrderId |-> IF o \in S THEN to ELSE status[o]]

Place(S) == Move(S, "none", "shipping") /\ UNCHANGED handed

Assign(S) == Move(S, "shipping", "delivering") /\ UNCHANGED handed

HandOut(S) ==
    /\ S # {} /\ S \intersect handed = {}
    /\ \A o \in S : status[o] = "delivering"
    /\ handed' = handed \union S
    /\ UNCHANGED status

Complete(o) == o \in handed /\ Move({o}, "delivering", "completed") /\ UNCHANGED handed

Next ==
    \/ \E S \in SUBSET OrderId : Place(S) \/ Assign(S) \/ HandOut(S)
    \/ \E o \in OrderId : Complete(o)

Spec == Init /\ [][Next]_vars
=============================================================================
