-------------------------- MODULE FoxgloveAdapter --------------------------
(***************************************************************************)
(* FoxgloveNavigationAdapter (foxglove_adapter_node.py): turns clicked     *)
(* poses and destination names into action goals, one at a time, and       *)
(* cancels the goal when the operator asks, when localization stays away   *)
(* longer than a grace period or when the chassis leaves host mode.        *)
(*                                                                         *)
(* Time is counted in periods of the two 0.1 s timers.  The executor is    *)
(* taken to run both timers in every period.                               *)
(***************************************************************************)
EXTENDS IndoorCalls, Integers

CONSTANTS
  LocalizationGrace,   \* localization_cancel_grace_s, in timer periods
  ChassisGrace         \* chassis_cancel_grace_s

ASSUME GracePeriods == {LocalizationGrace, ChassisGrace} \subseteq Nat

Kinds == {"pose", "named"}
Never == -1            \* a *_since that is None

VARIABLES
  localized,
  localization_not_ready_since,   \* its age, up to the grace period
  host,                           \* chassis_mode = CTRL_MODE_HOST
  chassis_ready,
  chassis_not_ready_since,        \* its age
  pending_goal,
  cancel_when_accepted,
  active,                         \* active_goal_handle is not None
  cancel_requested,
  active_source,
  status,                         \* last published /foxglove/navigation/status
  due,                            \* timers that have yet to run in this period
  blind                           \* history: periods a goal has been active without localization

health  == <<localized, localization_not_ready_since, blind>>
chassis == <<host, chassis_ready, chassis_not_ready_since>>
goal    == <<pending_goal, cancel_when_accepted, active, cancel_requested, active_source>>
adapter == <<health, chassis, goal, status, due>>

AdapterInit ==
  /\ localized = FALSE /\ localization_not_ready_since = Never /\ blind = 0
  /\ host = FALSE /\ chassis_ready = FALSE /\ chassis_not_ready_since = Never
  /\ pending_goal = FALSE /\ cancel_when_accepted = FALSE
  /\ active = FALSE /\ cancel_requested = FALSE
  /\ active_source = "pose"
  /\ status = "IDLE"
  /\ due = {}

----------------------------------------------------------------------------
(* Topics *)

(* A not-ready report starts the grace period only if none is running.     *)
OnLocalization_restarts(ready) ==     \* mutant: every report restarts it
  /\ localized' = ready
  /\ localization_not_ready_since' = IF ready THEN Never ELSE 0
  /\ blind' = IF ready THEN 0 ELSE blind
  /\ UNCHANGED <<chassis, goal, status, due, call>>

OnLocalization_announces(ready) ==    \* mutant: recovery is announced without a goal
  /\ localized' = ready
  /\ localization_not_ready_since' =
       IF ready THEN Never
       ELSE IF localization_not_ready_since = Never THEN 0 ELSE localization_not_ready_since
  /\ blind' = IF ready THEN 0 ELSE blind
  /\ status' = IF ready /\ ~localized THEN "NAVIGATING" ELSE status
  /\ UNCHANGED <<chassis, goal, due, call>>

OnLocalization(ready) ==
  LET starts  == ~ready /\ localization_not_ready_since = Never
      changed == ready # localized
      told    == (ready /\ changed) \/ (starts /\ ~cancel_requested)
  IN /\ localized' = ready
     /\ localization_not_ready_since' =
          IF ready THEN Never ELSE IF starts THEN 0 ELSE localization_not_ready_since
     /\ blind' = IF ready THEN 0 ELSE blind
     /\ status' = IF active /\ told THEN "NAVIGATING"
                  ELSE IF changed /\ ~pending_goal /\ ~active THEN "IDLE"
                  ELSE status
     /\ UNCHANGED <<chassis, goal, due, call>>

OnChassisStatus(hostMode) ==
  /\ host' = hostMode
  /\ chassis_ready' = (hostMode \/ chassis_ready)
  /\ chassis_not_ready_since' = IF hostMode THEN Never
                                ELSE IF chassis_not_ready_since = Never THEN 0
                                ELSE chassis_not_ready_since
  /\ status' = IF hostMode /\ ~chassis_ready /\ ~active THEN "IDLE" ELSE status
  /\ UNCHANGED <<health, goal, due, call>>

----------------------------------------------------------------------------
(* Goals from Foxglove *)

GoalIsAvailable_pendingOnly ==        \* mutant: only a goal not yet accepted counts
  localized /\ chassis_ready /\ ~pending_goal

GoalIsAvailable == localized /\ chassis_ready /\ ~pending_goal /\ ~active

Reject ==
  /\ status' = "REJECTED"
  /\ UNCHANGED <<health, chassis, goal, due, call>>

(* on_pose_goal and on_named_goal.  usable: the pose is finite and can be  *)
(* transformed or the name is not empty, and the action server is there.   *)
OnGoal(kind, usable) ==
  \/ ~(GoalIsAvailable /\ usable) /\ Reject
  \/ /\ GoalIsAvailable /\ usable
     /\ active_source' = kind
     /\ pending_goal' = TRUE
     /\ status' = "SENDING"
     /\ call' = [call EXCEPT ![kind] = NewCall]
     /\ UNCHANGED <<health, chassis, due, cancel_when_accepted, active, cancel_requested>>

FinishGoal(state) ==
  /\ pending_goal' = FALSE
  /\ cancel_when_accepted' = FALSE
  /\ active' = FALSE
  /\ cancel_requested' = FALSE
  /\ localization_not_ready_since' = IF localized THEN Never ELSE 0
  /\ status' = state
  /\ UNCHANGED <<localized, blind, chassis, active_source, due>>

OnGoalResponse ==
  LET kind == active_source IN
  /\ pending_goal /\ ResponseReady(call[kind])
  /\ IF Accepted(call[kind])
     THEN /\ pending_goal' = FALSE
          /\ active' = TRUE
          /\ cancel_requested' = cancel_when_accepted
          /\ cancel_when_accepted' = FALSE
          /\ status' = IF cancel_when_accepted THEN "CANCELING" ELSE "NAVIGATING"
          /\ call' = [call EXCEPT ![kind] =
                        IF cancel_when_accepted THEN Canceled(WithHandle(@)) ELSE WithHandle(@)]
          /\ localization_not_ready_since' =
               IF ~cancel_when_accepted /\ ~localized /\ localization_not_ready_since = Never
               THEN 0 ELSE localization_not_ready_since
          /\ UNCHANGED <<localized, blind, chassis, active_source, due>>
     ELSE /\ FinishGoal("REJECTED")
          /\ call' = [call EXCEPT ![kind] = Consumed(@)]

ResultStatus(server) == CASE server = "succeeded" -> "SUCCEEDED"
                          [] server = "canceled"  -> "CANCELED"
                          [] OTHER                -> "FAILED"

OnResult_successOnly ==               \* mutant: a goal that failed is not finished
  /\ active /\ ResultReady(call[active_source])
  /\ call[active_source].server = "succeeded"
  /\ FinishGoal("SUCCEEDED")
  /\ call' = [call EXCEPT ![active_source] = Released(Consumed(@))]

OnResult ==
  /\ active /\ ResultReady(call[active_source])
  /\ FinishGoal(ResultStatus(call[active_source].server))
  /\ call' = [call EXCEPT ![active_source] = Released(Consumed(@))]

(* An answer that cannot be read; by then the server has ended the goal.   *)
OnFutureException ==
  /\ \/ pending_goal /\ ResponseReady(call[active_source])
     \/ active /\ ResultReady(call[active_source])
  /\ call[active_source].server # "executing"
  /\ FinishGoal("FAILED")
  /\ call' = [call EXCEPT ![active_source] = Released(Consumed(@))]

(* Feedback is taken to precede the result, and may precede the response.  *)
OnFeedback ==
  /\ call[active_source].server = "executing"
  /\ ~cancel_requested
  /\ status' = "NAVIGATING"
  /\ UNCHANGED <<health, chassis, goal, due, call>>

----------------------------------------------------------------------------
(* Cancelling *)

CancelActive ==
  /\ cancel_requested' = TRUE
  /\ call' = [call EXCEPT ![active_source] = Canceled(@)]
  /\ status' = "CANCELING"
  /\ UNCHANGED <<pending_goal, cancel_when_accepted, active, active_source>>

CancelLater ==
  /\ cancel_when_accepted' = TRUE
  /\ status' = "CANCELING"
  /\ UNCHANGED <<pending_goal, active, cancel_requested, active_source, call>>

(* The service; the calls that change nothing are left out.                *)
OnCancel ==
  /\ \/ pending_goal /\ CancelLater
     \/ ~pending_goal /\ active /\ ~cancel_requested /\ CancelActive
  /\ UNCHANGED <<health, chassis, due>>

EnforceLocalizationLossGrace ==
  /\ "localization" \in due
  /\ due' = due \ {"localization"}
  /\ IF ~localized /\ localization_not_ready_since = LocalizationGrace
        /\ active /\ ~cancel_requested
     THEN CancelActive
     ELSE UNCHANGED <<goal, status, call>>
  /\ UNCHANGED <<health, chassis>>

EnforceChassisModeGrace ==
  /\ "chassis" \in due
  /\ due' = due \ {"chassis"}
  /\ IF chassis_ready /\ chassis_not_ready_since = ChassisGrace
     THEN /\ chassis_ready' = FALSE
          /\ \/ active /\ ~cancel_requested /\ CancelActive
             \/ ~(active /\ ~cancel_requested) /\ pending_goal /\ CancelLater
             \/ /\ ~(active /\ ~cancel_requested) /\ ~pending_goal
                /\ status' = "IDLE"
                /\ UNCHANGED <<goal, call>>
     ELSE UNCHANGED <<chassis_ready, goal, status, call>>
  /\ UNCHANGED <<health, host, chassis_not_ready_since>>

(* A period passes; ages stop counting where nothing depends on them.      *)
Older(age, grace) == IF age \in 0 .. grace - 1 THEN age + 1 ELSE age

Tick ==
  /\ due = {}
  /\ due' = {"localization", "chassis"}
  /\ localization_not_ready_since' = Older(localization_not_ready_since, LocalizationGrace)
  /\ chassis_not_ready_since' = Older(chassis_not_ready_since, ChassisGrace)
  /\ blind' = IF localized \/ ~active THEN 0 ELSE Older(blind, LocalizationGrace + 1)
  /\ UNCHANGED <<localized, host, chassis_ready, goal, status, call>>

----------------------------------------------------------------------------
AdapterAnswers == OnGoalResponse \/ OnResult

AdapterNext ==
  \/ \E ready \in BOOLEAN : OnLocalization(ready) \/ OnChassisStatus(ready)
  \/ \E kind \in Kinds, usable \in BOOLEAN : OnGoal(kind, usable)
  \/ AdapterAnswers
  \/ OnFutureException
  \/ OnFeedback
  \/ OnCancel
  \/ EnforceLocalizationLossGrace
  \/ EnforceChassisModeGrace
  \/ Tick
=============================================================================
