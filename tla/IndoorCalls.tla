---------------------------- MODULE IndoorCalls ----------------------------
(***************************************************************************)
(* The three action goals of indoor navigation, shared by the two nodes    *)
(* that own their ends:                                                    *)
(*   "pose"   FoxgloveNavigationAdapter -> bt_navigator (navigate_to_pose) *)
(*   "named"  FoxgloveNavigationAdapter -> IndoorNavigationManager         *)
(*   "nav"    IndoorNavigationManager   -> bt_navigator (navigate_to_pose) *)
(***************************************************************************)
EXTENDS RosAction

Links == {"pose", "named", "nav"}

VARIABLE call

CallsInit == call = [l \in Links |-> NoCall]

(* bt_navigator, external.  A goal it preempts for another one is aborted. *)
BtNavigator(l) == \E c \in ServerStep(call[l]) : call' = [call EXCEPT ![l] = c]
=============================================================================
