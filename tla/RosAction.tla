----------------------------- MODULE RosAction -----------------------------
(***************************************************************************)
(* One goal of a ROS 2 action, seen from both ends.  The action servers    *)
(* (Nav2's navigate_to_pose, compute_route, follow_path) and the rclpy     *)
(* action client are not part of the repository; what is modelled here is  *)
(* the protocol its nodes rely on:                                         *)
(*   - send_goal_async puts a request in flight; the server accepts or     *)
(*     rejects it and the response reaches the client later;               *)
(*   - an accepted goal ends succeeded, aborted or (only after a cancel    *)
(*     request) canceled, possibly before the client has seen the response;*)
(*   - cancel_goal_async puts a cancel request in flight; on a goal that   *)
(*     has already ended it has no effect;                                 *)
(*   - the result is handed over once, after the client asked for it.      *)
(***************************************************************************)
EXTENDS FiniteSets

ServerState == {"none", "requested", "executing", "rejected",
                "succeeded", "canceled", "aborted", "done"}

Ended == {"succeeded", "canceled", "aborted"}

(* handle: the client holds the accepted goal's handle                     *)
(* cancel: a cancel request is on its way to the server                    *)
Call == [server : ServerState, handle : BOOLEAN, cancel : BOOLEAN]

NoCall  == [server |-> "none", handle |-> FALSE, cancel |-> FALSE]
NewCall == [NoCall EXCEPT !.server = "requested"]

(* The goal has been sent and its outcome has not reached the client.      *)
Outstanding(c) == c.server \notin {"none", "done"}

ResponseReady(c) == ~c.handle /\ c.server \in {"executing", "rejected"} \cup Ended
Accepted(c)      == c.server # "rejected"
ResultReady(c)   == c.handle /\ c.server \in Ended

WithHandle(c) == [c EXCEPT !.handle = TRUE]
Canceled(c)   == IF c.handle THEN [c EXCEPT !.cancel = TRUE] ELSE c
Consumed(c)   == [c EXCEPT !.server = "done"]
Released(c)   == [c EXCEPT !.handle = FALSE]

(* What the server may make of the call next.                              *)
ServerStep(c) ==
  (CASE c.server = "requested" -> {[c EXCEPT !.server = r] : r \in {"executing", "rejected"}}
     [] c.server = "executing" -> {[c EXCEPT !.server = r] : r \in {"succeeded", "aborted"}}
     [] OTHER -> {})
  \cup
  (CASE c.cancel /\ c.server = "executing" -> {[c EXCEPT !.server = "canceled", !.cancel = FALSE]}
     [] c.cancel /\ c.server # "executing" -> {[c EXCEPT !.cancel = FALSE]}
     [] OTHER -> {})
=============================================================================
