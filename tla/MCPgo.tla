------------------------------- MODULE MCPgo --------------------------------
(* Three keyframes between two places.  The shortest loop takes two          *)
(* keyframes, and two GPS samples apart from each other give an alignment.   *)
EXTENDS Pgo

MCPositions == {0, 1}
MCEnuPositions == {0, 1}
MCCorrections == {0, 2}
=============================================================================
