-------------------------- MODULE MCGpsRouteRunner --------------------------
(* Two waypoints, three subgoals: the segment to the second one is cut in    *)
(* two.  Two faults, in any pairing and at any moment: jumps of the          *)
(* localization, shifts of the alignment, false successes of Nav2 and        *)
(* detours.  A jump of 2 is warned of, one of 3 ends the route when the      *)
(* watchdog sees it.                                                         *)
EXTENDS GpsRouteRunner

MCWaypoints == << 1, 3 >>
MCOffsets == {<<0, 0>>, <<1, 0>>}
MCJumps == {<<-3, 0>>, <<2, 0>>}
=============================================================================
