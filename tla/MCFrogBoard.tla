---------------------------- MODULE MCFrogBoard ----------------------------
(***************************************************************************)
(* Two phones and room for both.  A tick is 50 ms; the windows are cut to  *)
(* three and four ticks.  Three are enough for one lost frame and one      *)
(* interrupted build_command, and the fourth is one in which the last      *)
(* phone may leave after its Disable has got through.  The periods keep    *)
(* their order (heartbeat < watchdog of the lower controller < phone       *)
(* timeout).                                                               *)
(***************************************************************************)
EXTENDS FrogBoard, TLC

Symmetry == Permutations(Phones)
=============================================================================
