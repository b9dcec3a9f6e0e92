--------------------------- MODULE MCGoalManager ---------------------------
(* GoalManager on two destinations. *)
EXTENDS GoalManager
=============================================================================
