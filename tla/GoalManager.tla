---------------------------- MODULE GoalManager ----------------------------
(***************************************************************************)
(* GPSGoalManager (goal_manager_node.py): one destination at a time is     *)
(* turned into a chain of action goals                                     *)
(*        compute_route  ->  [navigate_to_pose]  ->  follow_path           *)
(* The node runs in a single-threaded executor, so every callback is one   *)
(* atomic step; goal responses, results and topics interleave between      *)
(* them.  A topic message may arrive at any time and any number of times   *)
(* (the CLI publishes each request three times).                           *)
(***************************************************************************)
EXTENDS RosAction

CONSTANTS
  Destinations,        \* names in scene_points
  UnknownName,         \* a name that is not one
  None,
  GoalIds,             \* identifiers of goals; one that nobody refers to any
                       \* more is used again, so three are enough
  UseRoutePoseStart,   \* parameter use_route_pose_start
  RequireNavReady      \* parameter require_nav_ready

ASSUME GoalManagerConstants ==
  /\ UnknownName \notin Destinations
  /\ None \notin Destinations \cup GoalIds
  /\ UseRoutePoseStart \in BOOLEAN
  /\ RequireNavReady \in BOOLEAN

Stages == {"compute_route", "navigate_to_pose", "follow_path"}

VARIABLES
  navReady,             \* system_status = "NAV_READY"
  anchorKnown,          \* nearest_anchor_id is not None
  busy,
  cancel_requested,
  current_target_name,
  pending_path,         \* the destination the stored route leads to, or None
  handle,               \* the three goal handles
  goals,                 \* the goals at the servers, with what was sent in each
  status                \* last state published on /gps_goal_manager/status

request == <<busy, cancel_requested, current_target_name, pending_path>>
vars == <<navReady, anchorKnown, request, handle, goals, status>>

(* What a goal asks for stays with it: to is the destination of a route that*)
(* is to be computed or followed.  A goal to the anchor has none.          *)
Goal == [stage : Stages, to : Destinations \cup {None}, call : Call]

Unused == [stage |-> "compute_route", to |-> None, call |-> NoCall]
NoHandles == [s \in Stages |-> None]

Init ==
  /\ navReady = FALSE
  /\ anchorKnown = FALSE
  /\ busy = FALSE
  /\ cancel_requested = FALSE
  /\ current_target_name = None
  /\ pending_path = None
  /\ handle = NoHandles
  /\ goals = [g \in GoalIds |-> Unused]
  /\ status = "IDLE"

----------------------------------------------------------------------------
(* Helpers of the node                                                     *)

(* The goals after the callback that reports the end of those in ended: to *)
(* cancel one of them has no effect any more.                              *)
After(ended) == [g \in GoalIds |-> IF g \in ended THEN Unused ELSE goals[g]]

(* The handles are dropped; what a server still executes is not stopped by *)
(* that, and its answers still reach their callbacks.                      *)
ResetRequest(ended) ==
  /\ busy' = FALSE
  /\ cancel_requested' = FALSE
  /\ current_target_name' = None
  /\ pending_path' = None
  /\ handle' = NoHandles
  /\ goals' = After(ended)

Finish(state, ended) ==
  /\ status' = state
  /\ ResetRequest(ended)

Reject ==
  /\ status' = "REJECTED"
  /\ UNCHANGED <<request, handle, goals>>

Free(g) == ~Outstanding(goals[g].call) /\ \A s \in Stages : handle[s] # g

Send(ended, stage, to) ==
  /\ \E g \in GoalIds :
        /\ Free(g)
        /\ goals' = [After(ended) EXCEPT ![g] = [stage |-> stage, to |-> to, call |-> NewCall]]
  /\ UNCHANGED handle

SendFollowPath(ended, path) ==
  IF path = None
  THEN Finish("FAILED", ended)
  ELSE /\ status' = "FOLLOWING_ROUTE"
       /\ Send(ended, "follow_path", path)
       /\ pending_path' = path
       /\ UNCHANGED <<busy, cancel_requested, current_target_name>>

SendNavigateToAnchor(ended, path) ==
  /\ status' = "NAVIGATING_TO_ANCHOR"
  /\ Send(ended, "navigate_to_pose", None)
  /\ pending_path' = path
  /\ UNCHANGED <<busy, cancel_requested, current_target_name>>

----------------------------------------------------------------------------
(* Topic callbacks                                                         *)

SystemStatusCallback ==
  /\ navReady' = ~navReady
  /\ UNCHANGED <<anchorKnown, request, handle, goals, status>>

NearestAnchorIdCallback ==
  /\ anchorKnown' = ~anchorKnown
  /\ UNCHANGED <<navReady, request, handle, goals, status>>

(* A name is refused unless the manager is idle, navigation is ready, the  *)
(* start is known and the name exists; then the request is taken and the   *)
(* route is asked for.  serversReady and poseKnown are what                *)
(* _action_servers_ready and the TF lookup answer.                         *)
GotoNameRefused_whileBusy(name) ==    \* mutant: a new target replaces the old one
  \/ RequireNavReady /\ ~navReady
  \/ ~UseRoutePoseStart /\ ~anchorKnown
  \/ name \notin Destinations

GotoNameRefused(name) ==
  \/ busy
  \/ RequireNavReady /\ ~navReady
  \/ ~UseRoutePoseStart /\ ~anchorKnown
  \/ name \notin Destinations

GotoNameCallback(name, serversReady, poseKnown) ==
  /\ UNCHANGED <<navReady, anchorKnown>>
  /\ \/ /\ busy /\ name = current_target_name
        /\ UNCHANGED <<request, handle, goals, status>>
     \/ /\ GotoNameRefused(name)
        /\ ~(busy /\ name = current_target_name)
        /\ Reject
     \/ /\ ~GotoNameRefused(name) /\ ~serversReady
        /\ status' = "FAILED"
        /\ UNCHANGED <<request, handle, goals>>
     \/ /\ ~GotoNameRefused(name) /\ serversReady
        /\ UseRoutePoseStart /\ ~poseKnown
        /\ Finish("FAILED", {})
     \/ /\ ~GotoNameRefused(name) /\ serversReady
        /\ UseRoutePoseStart => poseKnown
        /\ busy' = TRUE
        /\ cancel_requested' = FALSE
        /\ current_target_name' = name
        /\ pending_path' = None
        /\ status' = "COMPUTING_ROUTE"
        /\ Send({}, "compute_route", name)

StopCallback_forgets ==               \* mutant: the request is reset at once
  /\ busy
  /\ Finish("CANCEL_REQUESTED", {})
  /\ UNCHANGED <<navReady, anchorKnown>>

StopCallback ==
  /\ UNCHANGED <<navReady, anchorKnown, handle>>
  /\ \/ /\ ~busy
        /\ status' = "IDLE"
        /\ UNCHANGED <<request, goals>>
     \/ /\ busy
        /\ cancel_requested' = TRUE
        /\ status' = "CANCEL_REQUESTED"
        /\ goals' = [g \in GoalIds |-> IF \E s \in Stages : handle[s] = g
                                     THEN [goals[g] EXCEPT !.call = Canceled(@)]
                                     ELSE goals[g]]
        /\ UNCHANGED <<busy, current_target_name, pending_path>>

----------------------------------------------------------------------------
(* Action client callbacks.  Each belongs to one goal, whatever the request*)
(* in force by then.                                                       *)

GoalAccepted(g) ==
  /\ goals' = [goals EXCEPT ![g].call = WithHandle(@)]
  /\ handle' = [handle EXCEPT ![goals[g].stage] = g]
  /\ UNCHANGED <<request, status>>

OnGoalResponse_silent(g) ==           \* mutant: a rejection is only logged
  /\ ResponseReady(goals[g].call)
  /\ Accepted(goals[g].call)
  /\ GoalAccepted(g)
  /\ UNCHANGED <<navReady, anchorKnown>>

(* The three goal response callbacks differ only in the stage.             *)
OnGoalResponse(g) ==
  /\ ResponseReady(goals[g].call)
  /\ IF Accepted(goals[g].call) THEN GoalAccepted(g) ELSE Finish("FAILED", {g})
  /\ UNCHANGED <<navReady, anchorKnown>>

(* A result that is not a success ends the request.                        *)
OnUnsuccessfulResult(g) ==
  /\ ResultReady(goals[g].call)
  /\ goals[g].call.server # "succeeded"
  /\ Finish(IF goals[g].call.server = "canceled" THEN "CANCELLED" ELSE "FAILED", {g})
  /\ UNCHANGED <<navReady, anchorKnown>>

Succeeded(g, stage) ==
  /\ goals[g].stage = stage
  /\ ResultReady(goals[g].call)
  /\ goals[g].call.server = "succeeded"
  /\ UNCHANGED <<navReady, anchorKnown>>

(* The route that arrives leads where its own goal asked for.  emptyPath:  *)
(* it has no poses.  farFromAnchor: the pose is unknown or farther than    *)
(* navigate_to_anchor_tolerance_m from the anchor.                         *)
OnComputeRouteResult(g, emptyPath, farFromAnchor) ==
  /\ Succeeded(g, "compute_route")
  /\ \/ emptyPath /\ Finish("FAILED", {g})
     \/ /\ ~emptyPath
        /\ ~UseRoutePoseStart /\ farFromAnchor
        /\ SendNavigateToAnchor({g}, goals[g].to)
     \/ /\ ~emptyPath
        /\ UseRoutePoseStart \/ ~farFromAnchor
        /\ SendFollowPath({g}, goals[g].to)

OnNavigateResult(g) ==
  /\ Succeeded(g, "navigate_to_pose")
  /\ SendFollowPath({g}, pending_path)

OnFollowPathResult(g) ==
  /\ Succeeded(g, "follow_path")
  /\ Finish("SUCCEEDED", {g})

(* A future may raise instead of answering.  The goal is taken to be lost  *)
(* with the server that held it.                                           *)
OnFutureException(g) ==
  /\ Outstanding(goals[g].call)
  /\ Finish("FAILED", {g})
  /\ UNCHANGED <<navReady, anchorKnown>>

Server(g) ==
  /\ \E c \in ServerStep(goals[g].call) : goals' = [goals EXCEPT ![g].call = c]
  /\ UNCHANGED <<navReady, anchorKnown, request, handle, status>>

----------------------------------------------------------------------------
Callback(g) ==
  \/ OnGoalResponse(g)
  \/ OnUnsuccessfulResult(g)
  \/ \E emptyPath, farFromAnchor \in BOOLEAN :
        OnComputeRouteResult(g, emptyPath, farFromAnchor)
  \/ OnNavigateResult(g)
  \/ OnFollowPathResult(g)

Next ==
  \/ SystemStatusCallback
  \/ NearestAnchorIdCallback
  \/ \E name \in Destinations \cup {UnknownName}, serversReady, poseKnown \in BOOLEAN :
        GotoNameCallback(name, serversReady, poseKnown)
  \/ StopCallback
  \/ \E g \in GoalIds : Callback(g) \/ OnFutureException(g) \/ Server(g)

Spec == Init /\ [][Next]_vars

(* The executor runs a callback that is ready, and a server eventually     *)
(* answers a goal it was given.                                            *)
FairSpec == Spec /\ \A g \in GoalIds : WF_vars(Callback(g)) /\ WF_vars(Server(g))

----------------------------------------------------------------------------
TypeOK ==
  /\ navReady \in BOOLEAN
  /\ anchorKnown \in BOOLEAN
  /\ busy \in BOOLEAN
  /\ cancel_requested \in BOOLEAN
  /\ current_target_name \in Destinations \cup {None}
  /\ pending_path \in Destinations \cup {None}
  /\ handle \in [Stages -> GoalIds \cup {None}]
  /\ goals \in [GoalIds -> Goal]
  /\ status \in {"IDLE", "REJECTED", "COMPUTING_ROUTE", "NAVIGATING_TO_ANCHOR",
                 "FOLLOWING_ROUTE", "CANCEL_REQUESTED", "SUCCEEDED", "CANCELLED", "FAILED"}

(* The manager is busy exactly while one of its goals is outstanding: no   *)
(* early return leaves it wedged with no callback to come, and none of its *)
(* goals keeps running after it called itself idle or alongside another.   *)
Pending == {g \in GoalIds : Outstanding(goals[g].call)}

BusyIffOneGoal ==
  IF busy THEN \E g \in GoalIds : Pending = {g} ELSE Pending = {}

(* The route that the controller server follows was computed for the       *)
(* target in force, whatever requests arrived while the chain of goals was *)
(* running: the route of an earlier target is not taken for this one's.    *)
FollowsCurrentTarget ==
  \A g \in Pending : goals[g].stage = "follow_path" => goals[g].to = current_target_name

(* So were the stored route and the one that is being computed.            *)
RouteOfCurrentTarget ==
  /\ pending_path \in {None, current_target_name}
  /\ \A g \in Pending : goals[g].stage = "compute_route" => goals[g].to = current_target_name

(* A request ends: it succeeds, fails or is cancelled.                     *)
RequestEnds == busy ~> ~busy

=============================================================================
