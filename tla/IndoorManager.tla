--------------------------- MODULE IndoorManager ---------------------------
(***************************************************************************)
(* IndoorNavigationManager (manager_node.py): the action server behind     *)
(* /navigate_named_destination, which drives one navigate_to_pose goal per *)
(* named goal.  execute is a coroutine: it runs in one piece up to each    *)
(* await, and every other callback may run while it waits.                 *)
(***************************************************************************)
EXTENDS IndoorCalls

VARIABLES
  mLocalized,        \* localized
  goal_reserved,
  named_goal,        \* named_goal_handle is not None
  mCancel,           \* cancel_requested
  canceling,         \* goal_handle.is_cancel_requested of the goal in hand
  pc                 \* where execute is

manager == <<mLocalized, goal_reserved, named_goal, mCancel, canceling, pc>>

(* "accepted": not started.  Then the three awaits of execute.             *)
Steps == {"idle", "accepted", "send_goal", "cancel_goal", "get_result"}

ManagerInit ==
  /\ mLocalized = FALSE
  /\ goal_reserved = FALSE
  /\ named_goal = FALSE
  /\ mCancel = FALSE
  /\ canceling = FALSE
  /\ pc = "idle"

----------------------------------------------------------------------------
ManagerLocalization(ready) ==
  /\ mLocalized' = ready
  /\ IF ~ready /\ call["nav"].handle /\ ~mCancel
     THEN mCancel' = TRUE /\ call' = [call EXCEPT !["nav"] = Canceled(@)]
     ELSE UNCHANGED <<mCancel, call>>
  /\ UNCHANGED <<goal_reserved, named_goal, canceling, pc>>

GoalRefused == goal_reserved \/ call["nav"].handle \/ named_goal \/ ~mLocalized

(* known: backend, map and destination are this manager's.                 *)
ManagerGoal(known) ==
  /\ call["named"].server = "requested"
  /\ IF GoalRefused \/ ~known
     THEN /\ call' = [call EXCEPT !["named"].server = "rejected"]
          /\ UNCHANGED manager
     ELSE /\ call' = [call EXCEPT !["named"].server = "executing"]
          /\ goal_reserved' = TRUE
          /\ mCancel' = FALSE
          /\ canceling' = FALSE
          /\ pc' = "accepted"
          /\ UNCHANGED <<mLocalized, named_goal>>

(* A cancel request for a goal that has ended never reaches on_cancel.     *)
ManagerCancel ==
  /\ call["named"].cancel
  /\ IF call["named"].server = "executing"
     THEN /\ mCancel' = TRUE
          /\ canceling' = TRUE
          /\ call' = [call EXCEPT !["named"].cancel = FALSE, !["nav"] = Canceled(@)]
     ELSE /\ call' = [call EXCEPT !["named"].cancel = FALSE]
          /\ UNCHANGED <<mCancel, canceling>>
  /\ UNCHANGED <<mLocalized, goal_reserved, named_goal, pc>>

----------------------------------------------------------------------------
(* execute *)

Answered(c) == c.server \in Ended \cup {"rejected"}

(* The outcome and the finally clause, which only drops the handle of the  *)
(* goal given to bt_navigator.  goal_handle.canceled() raises for a goal   *)
(* nobody asked to cancel; the exception handler then aborts it.           *)
Return(outcome) ==
  LET raises == outcome = "canceled" /\ ~canceling IN
  /\ call' = [call EXCEPT !["named"].server = IF raises THEN "aborted" ELSE outcome,
                          !["nav"] = Released(IF Answered(@) THEN Consumed(@) ELSE @)]
  /\ goal_reserved' = FALSE
  /\ named_goal' = FALSE
  /\ mCancel' = FALSE
  /\ canceling' = FALSE
  /\ pc' = "idle"
  /\ UNCHANGED mLocalized

Await(step) ==
  /\ pc' = step
  /\ UNCHANGED <<mLocalized, goal_reserved, canceling>>

(* Up to the await of send_goal_async.                                     *)
Execute(serverReady) ==
  /\ pc = "accepted"
  /\ \/ ~mLocalized /\ Return("aborted")
     \/ mLocalized /\ (mCancel \/ canceling) /\ Return("canceled")
     \/ /\ mLocalized /\ ~mCancel /\ ~canceling
        /\ ~serverReady /\ Return("aborted")
     \/ /\ mLocalized /\ ~mCancel /\ ~canceling
        /\ serverReady
        /\ named_goal' = TRUE
        /\ call' = [call EXCEPT !["nav"] = NewCall]
        /\ Await("send_goal")
        /\ UNCHANGED mCancel

GoalSent_unchecked ==                 \* mutant: nothing is checked after the await
  /\ pc = "send_goal" /\ ResponseReady(call["nav"])
  /\ \/ ~Accepted(call["nav"]) /\ Return("aborted")
     \/ /\ Accepted(call["nav"])
        /\ call' = [call EXCEPT !["nav"] = WithHandle(@)]
        /\ Await("get_result")
        /\ UNCHANGED <<named_goal, mCancel>>

(* Localization and cancel are checked again: both may have changed while  *)
(* the goal had no handle.                                                 *)
GoalSent ==
  /\ pc = "send_goal" /\ ResponseReady(call["nav"])
  /\ \/ ~Accepted(call["nav"]) /\ Return("aborted")
     \/ /\ Accepted(call["nav"])
        /\ IF mCancel \/ canceling \/ ~mLocalized
           THEN /\ mCancel' = TRUE
                /\ call' = [call EXCEPT !["nav"] = Canceled(WithHandle(@))]
                /\ Await("cancel_goal")
           ELSE /\ call' = [call EXCEPT !["nav"] = WithHandle(@)]
                /\ Await("get_result")
                /\ UNCHANGED mCancel
        /\ UNCHANGED named_goal

CancelAnswered ==
  /\ pc = "cancel_goal" /\ ~call["nav"].cancel
  /\ Await("get_result")
  /\ UNCHANGED <<named_goal, mCancel, call>>

GotResult_early ==                    \* mutant: a canceled goal returns before its result
  /\ pc = "get_result" /\ (mCancel \/ ResultReady(call["nav"]))
  /\ \/ mCancel /\ Return("canceled")
     \/ ~mCancel /\ call["nav"].server = "succeeded" /\ Return("succeeded")
     \/ ~mCancel /\ call["nav"].server # "succeeded" /\ Return("aborted")

GotResult ==
  LET canceled == mCancel \/ canceling \/ call["nav"].server = "canceled"
      arrived  == call["nav"].server = "succeeded" /\ mLocalized
  IN /\ pc = "get_result" /\ ResultReady(call["nav"])
     /\ \/ canceled /\ Return("canceled")
        \/ ~canceled /\ ~arrived /\ Return("aborted")
        \/ ~canceled /\ arrived /\ Return("succeeded")

(* An await raises; by then bt_navigator has ended the goal.               *)
ExecuteRaises ==
  /\ \/ pc = "send_goal" /\ ResponseReady(call["nav"])
     \/ pc = "get_result" /\ ResultReady(call["nav"])
  /\ call["nav"].server # "executing"
  /\ Return("aborted")

----------------------------------------------------------------------------
ManagerAnswers ==
  \/ \E known \in BOOLEAN : ManagerGoal(known)
  \/ \E serverReady \in BOOLEAN : Execute(serverReady)
  \/ GoalSent
  \/ CancelAnswered
  \/ GotResult
  \/ ManagerCancel

ManagerNext ==
  \/ \E ready \in BOOLEAN : ManagerLocalization(ready)
  \/ ManagerAnswers
  \/ ExecuteRaises
=============================================================================
