--------------------------- MODULE MCRequestPool ---------------------------
(* Small instances of RequestPool: more transactions than connections,     *)
(* two of them over the same rows.                                         *)
EXTENDS RequestPool, TLC

CONSTANTS plan1, plan2, order1, status1

MixedKinds ==
    (plan1 :> "plan") @@ (plan2 :> "plan") @@ (order1 :> "order")
        @@ (status1 :> "status")
=============================================================================
