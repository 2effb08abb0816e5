-------------------------- MODULE MCLoadTestWorker --------------------------
(* Small instances of LoadTestWorker.                                      *)
EXTENDS LoadTestWorker, TLC

CONSTANTS m1, m2, m3

OneTeam == (m1 :> "team") @@ (m2 :> "team") @@ (m3 :> "team")
Teams == (m1 :> "first") @@ (m2 :> "second") @@ (m3 :> "third")

Symmetry == Permutations(Workers)
=============================================================================
