----------------------------- MODULE MCLioNode ------------------------------
(* A lidar with a scan in each period of the IMU, and a small local map:   *)
(* its edge is one step from a vehicle that moves two, so it moves.          *)
EXTENDS LioNode
MCMoves == {-2, 2}
MCCorrections == {-1, 1}
MCDurations == {-1, 1}
=============================================================================
