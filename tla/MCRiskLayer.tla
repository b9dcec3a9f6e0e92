---------------------------- MODULE MCRiskLayer -----------------------------
(* Three cells; anchors of the memory that are confirmed, doubtful or        *)
(* retired.  A grid covers two or three of the cells.  A max_cost of 300 is  *)
(* used as 253.                                                              *)
EXTENDS RiskLayer

MCPoses == {0, 2}
MCShifts == {0}
MCMaxCosts == {200, 300}
MCDecays == << 100, 41 >>
MCOtherBounds == { {1}, {0, 1, 2} }
MCObstacles == { {}, {0} }

Anchor(state, p_usable, map_x) ==
  [state |-> state, p_usable |-> p_usable, severity |-> 100, map_x |-> map_x]

MCAnchorLists ==
  { << Anchor("confirmed", 100, 0), Anchor("stale", 80, 0), Anchor("candidate", 70, 2) >>,
    << Anchor("retired", 100, 0) >> }
=============================================================================
