-------------------------- MODULE MCCmdConditioner --------------------------
(***************************************************************************)
(* The thresholds of nav2_travel.yaml; commands on both sides of each of   *)
(* them, and small enough to be inside the deadband without a slowdown.    *)
(***************************************************************************)
EXTENDS CmdConditioner

MCCommands == {Still,
               [linear |-> 10, angular |-> 20],
               [linear |-> 20, angular |-> 20],
               [linear |-> 20, angular |-> 40]}
=============================================================================
