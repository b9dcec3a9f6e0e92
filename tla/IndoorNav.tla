----------------------------- MODULE IndoorNav -----------------------------
(***************************************************************************)
(* Indoor navigation in travel mode: the Foxglove adapter, the indoor      *)
(* navigation manager and bt_navigator.  Each node hears of localization   *)
(* on a subscription of its own, so the two may disagree at any moment.    *)
(* All goals of the manager come from the adapter.                         *)
(***************************************************************************)
EXTENDS FoxgloveAdapter, IndoorManager

vars == <<adapter, manager, call>>

Init == AdapterInit /\ ManagerInit /\ CallsInit

Nav2 == BtNavigator("pose") \/ BtNavigator("nav")

Next ==
  \/ AdapterNext /\ UNCHANGED manager
  \/ ManagerNext /\ UNCHANGED adapter
  \/ Nav2 /\ UNCHANGED <<adapter, manager>>

Spec == Init /\ [][Next]_vars

(* Each executor serves an answer that is there, and bt_navigator ends     *)
(* every goal it was given.                                                *)
FairSpec ==
  /\ Spec
  /\ WF_vars(AdapterAnswers /\ UNCHANGED manager)
  /\ WF_vars(ManagerAnswers /\ UNCHANGED adapter)
  /\ \A l \in {"pose", "nav"} : WF_vars(BtNavigator(l) /\ UNCHANGED <<adapter, manager>>)

----------------------------------------------------------------------------
TypeOK ==
  /\ call \in [Links -> Call]
  /\ localized \in BOOLEAN /\ host \in BOOLEAN /\ chassis_ready \in BOOLEAN
  /\ pending_goal \in BOOLEAN /\ cancel_when_accepted \in BOOLEAN
  /\ active \in BOOLEAN /\ cancel_requested \in BOOLEAN
  /\ mLocalized \in BOOLEAN /\ goal_reserved \in BOOLEAN /\ named_goal \in BOOLEAN
  /\ mCancel \in BOOLEAN /\ canceling \in BOOLEAN
  /\ localization_not_ready_since \in Never .. LocalizationGrace
  /\ chassis_not_ready_since \in Never .. ChassisGrace
  /\ blind \in 0 .. LocalizationGrace + 1
  /\ active_source \in Kinds
  /\ status \in {"IDLE", "SENDING", "NAVIGATING", "CANCELING",
                 "SUCCEEDED", "CANCELED", "REJECTED", "FAILED"}
  /\ due \subseteq {"localization", "chassis"}
  /\ pc \in Steps

(* The robot never drives to two places: of the goals these two nodes send *)
(* bt_navigator at most one is outstanding, whichever way it was asked for.*)
OneDestination == ~(Outstanding(call["pose"]) /\ Outstanding(call["nav"]))

(* indoor_mapping_navigation_design.md:354, "rejection, exception, and     *)
(* cancellation paths must all release the concurrency reservation": the   *)
(* manager is reserved exactly while a named goal is open, and what it     *)
(* leaves to bt_navigator ends before the named goal does.                 *)
ReservationReleased ==
  /\ goal_reserved <=> call["named"].server = "executing"
  /\ Outstanding(call["nav"]) => goal_reserved

(* A goal of bt_navigator that is wanted no more has a cancel request on   *)
(* its way, is about to get one, or has ended: however the cancel crosses  *)
(* the acceptance of the goal on either of the two links.                  *)
Stopping(l) == call[l].server = "executing" => call[l].cancel

ManagerStops ==
  \/ call["named"].cancel
  \/ mCancel /\ (pc \in {"accepted", "send_goal"} \/ Stopping("nav"))

CancelReachesNav2 ==
  /\ cancel_when_accepted => pending_goal
  /\ cancel_requested =>
       /\ Stopping("pose")
       /\ call["named"].server = "executing" => ManagerStops
  /\ ~mLocalized /\ pc \notin {"idle", "accepted", "send_goal"} => Stopping("nav")

(* Once the chassis has been out of host mode for the grace period, no     *)
(* goal is left that is not being cancelled.                               *)
NoGoalWithoutChassis ==
  ~chassis_ready => /\ pending_goal => cancel_when_accepted
                    /\ active => cancel_requested

(* A goal outlives the loss of localization by the grace period and the    *)
(* period of the timer, whatever the adapter does with its own clock.      *)
BlindDrivingIsBounded ==
  blind > LocalizationGrace /\ active /\ "localization" \notin due => cancel_requested

(* Both: no grace period is extended by reports that repeat, by a goal that *)
(* is accepted meanwhile, or by the order in which the timers fire.        *)
GraceIsBounded == NoGoalWithoutChassis /\ BlindDrivingIsBounded

(* The latched status never shows a goal under way when there is none.     *)
NoGhostGoal ==
  status \in {"SENDING", "NAVIGATING", "CANCELING"} => pending_goal \/ active

(* Every goal the adapter sends comes to an end it can report.             *)
GoalsEnd == pending_goal \/ active ~> ~pending_goal /\ ~active

----------------------------------------------------------------------------
(* The inductive invariant behind these: what the adapter knows of its     *)
(* goal, what the manager's program counter says of its two goals, and how *)
(* the clock of the adapter compares with the time driven blind.           *)

Awaits == {"send_goal", "cancel_goal", "get_result"}
Driving == {"cancel_goal", "get_result"}

AdapterInv ==
  /\ ~(pending_goal /\ active)
  /\ cancel_when_accepted => pending_goal
  /\ cancel_requested => active
  /\ \A k \in Kinds : Outstanding(call[k]) <=> (pending_goal \/ active) /\ active_source = k
  /\ \A k \in Kinds : call[k].handle <=> active /\ active_source = k
  /\ active => call[active_source].server \in {"executing"} \cup Ended

ManagerInv ==
  /\ goal_reserved <=> pc # "idle"
  /\ named_goal <=> pc \in Awaits
  /\ call["named"].server = "executing" <=> pc # "idle"
  /\ Outstanding(call["nav"]) <=> pc \in Awaits
  /\ call["nav"].handle <=> pc \in Driving
  /\ pc \in Driving => call["nav"].server \in {"executing"} \cup Ended
  /\ canceling => mCancel
  /\ mCancel => pc # "idle"

StopInv ==
  /\ cancel_requested => Stopping("pose")
  /\ cancel_requested /\ call["named"].server = "executing" => call["named"].cancel \/ mCancel
  /\ pc \in Driving /\ ~mLocalized => mCancel
  /\ pc \in Driving /\ mCancel => Stopping("nav")

GraceInv ==
  /\ localized => localization_not_ready_since = Never /\ blind = 0
  /\ pending_goal => blind = 0
  /\ (pending_goal \/ active) /\ ~localized => localization_not_ready_since # Never
  /\ active /\ ~localized =>
       \/ blind <= localization_not_ready_since
       \/ cancel_requested
       \/ "localization" \in due /\ localization_not_ready_since = LocalizationGrace

IInv == TypeOK /\ AdapterInv /\ ManagerInv /\ StopInv /\ GraceInv /\ NoGoalWithoutChassis /\ NoGhostGoal
=============================================================================
