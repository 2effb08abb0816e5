---------------------------- MODULE MCEvaluation ----------------------------
(* Small instances of Evaluation.                                          *)
EXTENDS Evaluation

OneTeam == [m \in Requests |-> "team"]
=============================================================================
