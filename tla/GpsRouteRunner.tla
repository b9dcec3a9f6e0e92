--------------------------- MODULE GpsRouteRunner ---------------------------
(* The node gps_route_runner drives a route of GPS waypoints.  Each segment  *)
(* is cut into subgoals that go to Nav2 one at a time; while Nav2 drives, a  *)
(* watchdog looks at the pose, and a subgoal is computed anew when the       *)
(* transform between the route and the map shifts.                           *)
(*                                                                           *)
(* The waypoints lie on a straight line.  A place has two coordinates, along *)
(* that line and across it: the runner computes with the first one only,     *)
(* the vehicle, the pose, the fix and the aligner have both.                 *)
(* truth is where the vehicle is, truth + drift where the map says it is,    *)
(* and the aligner's transform adds an offset to a place of the route (its   *)
(* rotation is left out).  The true offset is 0, so a fix received at truth  *)
(* lies at truth in the map as well.  What is published for the operator is  *)
(* left out, and so are the zero commands that follow a failure: they change *)
(* nothing at Nav2.                                                          *)
EXTENDS Integers, Sequences, RosAction

CONSTANTS
  Nothing,
  waypoints,                 \* where they lie along the line; start_ref is at 0
  segment_length_m,
  waypoint_tolerance_m,
  success_shortfall_tolerance_m,
  divergence_abort_m,        \* between the pose and the fix
  shift_cancel_threshold_m,
  step_warn_m, step_abort_m, warn_count_abort,
  tf_stale_abort_count,      \* checks without a pose in tf_stale_abort_s, more
                             \* than the number that is asked for besides
  GoalTolerance,             \* of Nav2's goal checker
  Offsets,                   \* what the aligner may send
  Jumps,                     \* what the pose in the map may jump by
  MaxFaults                  \* bound on the faults, of all kinds together

Places == Int \X Int

ASSUME RouteAssumption ==
  /\ waypoints \in Seq(Nat) \ {<<>>}
  /\ \A i \in 2..Len(waypoints) : waypoints[i - 1] < waypoints[i]
  /\ segment_length_m \in Nat \ {0}
  /\ {waypoint_tolerance_m, success_shortfall_tolerance_m, divergence_abort_m,
      shift_cancel_threshold_m, step_warn_m, step_abort_m, GoalTolerance} \subseteq Nat
  /\ {warn_count_abort, tf_stale_abort_count} \subseteq Nat \ {0}
  /\ Offsets \subseteq Places /\ Jumps \subseteq Places /\ Nothing \notin Places

VARIABLES
  truth, drift,
  furthest,                  \* history: how far along the line it has been
  fix,                       \* _latest_fix, Nothing when it is not valid
  alignment,                 \* _latest_alignment
  cooled,                    \* the cooldown since the last shift is over
  at,                        \* where run is waiting
  outcome,
  wp,                        \* waypoint_index
  progress,                  \* current_progress_m
  goal,                      \* the subgoal: its place in the map, its progress
                             \* and alignment_at_send
  watch,                     \* last_pose, warning_count, tf_stale_count
  goalCall,                  \* the goal at Nav2
  left,                      \* where the goal that a shift left at Nav2 leads
  rolled,                    \* the vehicle has moved since the last check
  unchecked,                 \* history: progress was read while no fix vouched
                             \* for the pose
  faults                     \* history: how many shifts of the alignment, jumps,
                             \* detours and false successes there have been

world == << truth, drift, furthest, fix, alignment, faults >>
runner == << at, outcome, wp, progress, goal, watch, unchecked >>
routeVars == << world, runner, cooled, goalCall, left, rolled >>

Plus(p, q)  == << p[1] + q[1], p[2] + q[2] >>
Minus(p, q) == << p[1] - q[1], p[2] - q[2] >>
Square(n)   == n * n
Within(d, p, q) == Square(p[1] - q[1]) + Square(p[2] - q[2]) <= Square(d)
Larger(a, b) == IF a < b THEN b ELSE a
Smaller(a, b) == IF a < b THEN a ELSE b

Origin == << 0, 0 >>
NoGoal == [map |-> Origin, target |-> 0, alignment |-> Origin]
NoWatch == [last |-> Nothing, warnings |-> 0, stale |-> 0]

RouteInit ==
  /\ truth = Origin /\ drift = Origin /\ furthest = 0
  /\ fix = Nothing /\ alignment = Nothing /\ cooled = TRUE
  /\ at = "startup" /\ outcome = "running" /\ wp = 1 /\ progress = 0
  /\ goal = NoGoal /\ watch = NoWatch
  /\ goalCall = NoCall /\ left = Nothing /\ rolled = FALSE
  /\ unchecked = FALSE
  /\ faults = 0

-----------------------------------------------------------------------------
(* The messages, as long as the node is there, and the world.                *)
Fault == faults < MaxFaults /\ faults' = faults + 1

FixCallback ==
  /\ at # "done"
  /\ fix' \in {truth, Nothing} \ {fix}
  /\ UNCHANGED << truth, drift, furthest, alignment, faults, runner, cooled,
                  goalCall, left, rolled >>

(* A transform that has not changed is ignored.                              *)
AlignmentCallback ==
  /\ at # "done"
  /\ alignment' \in Offsets \ {alignment}
  /\ IF alignment = Nothing THEN UNCHANGED faults ELSE Fault
  /\ UNCHANGED << truth, drift, furthest, fix, runner, cooled, goalCall, left, rolled >>

(* The localization moves the vehicle in the map.                            *)
Jump ==
  /\ \E j \in Jumps : drift' = Plus(drift, j)
  /\ Fault
  /\ UNCHANGED << truth, furthest, fix, alignment, runner, cooled, goalCall, left, rolled >>

CooldownElapses ==
  /\ at # "done" /\ ~cooled /\ cooled' = TRUE
  /\ UNCHANGED << world, runner, goalCall, left, rolled >>

Pose == Plus(truth, drift)

(* Nav2 drives to the one goal it has.  Between two checks of the watchdog   *)
(* the vehicle moves by one.                                                 *)
Destination ==
  CASE goalCall.server = "executing" -> goal.map
    [] left # Nothing -> left
    [] OTHER -> Pose

Moves(place) ==
  /\ Pose # Destination
  /\ at = "watch" => ~rolled
  /\ truth' = place
  /\ furthest' = Larger(furthest, place[1])
  /\ rolled' = (at = "watch")
  /\ UNCHANGED << drift, fix, alignment, runner, cooled, goalCall, left >>

Drive ==
  /\ \E axis \in 1..2 :
       /\ Pose[axis] # Destination[axis]
       /\ Moves([truth EXCEPT ![axis] = IF Pose[axis] < Destination[axis] THEN @ + 1 ELSE @ - 1])
  /\ UNCHANGED faults

(* The controller leaves the line, round an obstacle.                        *)
Detour ==
  /\ \E step \in {-1, 1} : Moves([truth EXCEPT ![2] = @ + step])
  /\ Fault

Arrived(c) == c.server = "succeeded" /\ goalCall.server = "executing"
Premature == ~Within(GoalTolerance, Pose, goal.map)

(* Accepting a goal preempts the one before it.                              *)
Nav2Step ==
  /\ \E c \in ServerStep(goalCall) :
       /\ goalCall' = c
       /\ left' = IF goalCall.server = "requested" /\ c.server = "executing"
                    THEN Nothing ELSE left
       /\ IF Arrived(c) /\ Premature THEN Fault ELSE UNCHANGED faults
  /\ UNCHANGED << truth, drift, furthest, fix, alignment, runner, cooled, rolled >>

LeftGoalEnds ==
  /\ left # Nothing /\ left' = Nothing
  /\ UNCHANGED << world, runner, cooled, goalCall, rolled >>

-----------------------------------------------------------------------------
(* The runner.                                                               *)
End(how) == at' = "done" /\ outcome' = how

SegmentStart == IF wp = 1 THEN 0 ELSE waypoints[wp - 1]
TotalLength == waypoints[wp] - SegmentStart

(* _map_to_enu and _progress_on_segment of the current pose: how far along   *)
(* the segment it lies.  How far to the side of it is computed and dropped.  *)
ProjectedProgress ==
  LET along == Minus(Pose, alignment)[1] - SegmentStart
  IN  Larger(0, Smaller(TotalLength, along))

(* The plausible bug: a divergence is only warned of.                        *)
MutantMapGpsConsistent(offset) == TRUE

(* _map_gps_consistent: without a valid fix there is nothing to compare.     *)
MapGpsConsistent(offset) ==
  fix # Nothing => Within(divergence_abort_m, Pose, Plus(fix, offset))

(* The waits for fixes that agree, near start_ref, for Nav2 and for the      *)
(* alignment, which keeps the value it has at the end of its wait.           *)
StartUp ==
  /\ at = "startup"
  /\ fix # Nothing /\ alignment # Nothing
  /\ at' = "locate"
  /\ goal' = [goal EXCEPT !.alignment = alignment]
  /\ UNCHANGED << world, outcome, wp, progress, watch, unchecked, cooled, goalCall,
                  left, rolled >>

StartUpFails ==
  /\ at = "startup"
  /\ End("aborted")
  /\ UNCHANGED << world, wp, progress, goal, watch, unchecked, cooled, goalCall,
                  left, rolled >>

(* The pose stays away: _lookup_current_pose raises, and main ends the node. *)
LookupFails ==
  /\ at \in {"locate", "begin", "choose", "verify"}
  /\ End("aborted")
  /\ UNCHANGED << world, wp, progress, goal, watch, unchecked, cooled, goalCall,
                  left, rolled >>

Locate ==
  /\ at = "locate"
  /\ IF MapGpsConsistent(goal.alignment) THEN at' = "begin" /\ UNCHANGED outcome
                                         ELSE End("failed")
  /\ UNCHANGED << world, wp, progress, goal, watch, unchecked, cooled, goalCall,
                  left, rolled >>

(* _run_waypoint up to its loop: this pose is not compared with the fix.     *)
BeginWaypoint ==
  /\ at = "begin"
  /\ progress' = ProjectedProgress
  /\ unchecked' = (fix = Nothing \/ ~MapGpsConsistent(alignment))
  /\ at' = "choose"
  /\ UNCHANGED << world, outcome, wp, goal, watch, cooled, goalCall, left, rolled >>

(* The plausible bug: a waypoint that is met exactly is not reached.         *)
MutantReached(p) == TotalLength - p < waypoint_tolerance_m

Reached(p) == TotalLength - p <= waypoint_tolerance_m

NextWaypoint ==
  /\ IF wp = Len(waypoints) THEN End("succeeded")
                            ELSE at' = "begin" /\ UNCHANGED outcome
  /\ wp' = wp + 1
  /\ UNCHANGED << goal, goalCall >>

SendSubgoal ==
  LET target == Smaller(TotalLength, progress' + segment_length_m)
  IN  /\ goal' = [map |-> Plus(<< SegmentStart + target, 0 >>, alignment), target |-> target,
                  alignment |-> alignment]
      /\ goalCall' = NewCall
      /\ at' = "response"
      /\ UNCHANGED << outcome, wp >>

Diverged ==
  /\ ~MapGpsConsistent(alignment)
  /\ End("failed")
  /\ UNCHANGED << world, wp, progress, goal, watch, unchecked, cooled, goalCall,
                  left, rolled >>

ReadProgress ==
  /\ MapGpsConsistent(alignment)
  /\ progress' = Larger(progress, ProjectedProgress)
  /\ unchecked' = (unchecked \/ fix = Nothing)
  /\ UNCHANGED << world, watch, cooled, left, rolled >>

(* The loop of _run_waypoint.                                                *)
ChooseSubgoal ==
  /\ at = "choose"
  /\ \/ Diverged
     \/ /\ ReadProgress
        /\ IF Reached(progress') THEN NextWaypoint ELSE SendSubgoal

(* _send_goal waits for the response without a timeout.  The pose it starts  *)
(* to compare with may be missing.                                           *)
Response ==
  /\ at = "response" /\ ResponseReady(goalCall)
  /\ IF Accepted(goalCall)
       THEN /\ goalCall' = WithHandle(goalCall)
            /\ at' = "watch"
            /\ \E last \in {Pose, Nothing} : watch' = [NoWatch EXCEPT !.last = last]
            /\ UNCHANGED outcome
       ELSE /\ goalCall' = Consumed(goalCall)
            /\ End("failed")
            /\ UNCHANGED watch
  /\ rolled' = FALSE
  /\ UNCHANGED << world, wp, progress, goal, unchecked, cooled, left >>

ResultArrives ==
  /\ goalCall' = Consumed(goalCall)
  /\ IF goalCall.server = "succeeded" THEN at' = "verify" /\ UNCHANGED outcome
                                  ELSE End("failed")
  /\ UNCHANGED << watch, left, cooled >>

(* The goal has moved in the map since it was sent.                          *)
Shifted == cooled /\ ~Within(shift_cancel_threshold_m, alignment, goal.alignment)

(* The goal stays at Nav2, to be preempted by the next one.                  *)
LeaveForNewGoal ==
  /\ left' = goal.map
  /\ goalCall' = NoCall
  /\ cooled' = FALSE
  /\ at' = "choose"
  /\ UNCHANGED << outcome, watch >>

(* The plausible bug: the route ends and its goal is not cancelled.          *)
MutantAbortGoalWithWatchdog ==
  /\ End("failed")
  /\ UNCHANGED << goalCall, watch, left, cooled >>

AbortGoalWithWatchdog ==
  /\ goalCall' = Canceled(goalCall)
  /\ End("failed")
  /\ UNCHANGED << watch, left, cooled >>

WatchOn(w) == watch' = w /\ UNCHANGED << at, outcome, goalCall, left, cooled >>

NoPoseSeen ==
  IF watch.stale + 1 >= tf_stale_abort_count
    THEN AbortGoalWithWatchdog
    ELSE WatchOn([watch EXCEPT !.stale = @ + 1])

PoseSeen ==
  LET seen == [watch EXCEPT !.last = Pose, !.stale = 0]
      Farther(d) == ~Within(d, Pose, watch.last)
  IN  IF watch.last = Nothing THEN WatchOn(seen)
      ELSE IF \/ Farther(step_abort_m)
              \/ Farther(step_warn_m) /\ watch.warnings + 1 >= warn_count_abort
        THEN AbortGoalWithWatchdog
      ELSE WatchOn([seen EXCEPT !.warnings = IF Farther(step_warn_m) THEN @ + 1 ELSE 0])

(* One turn of the loop of _send_goal.                                       *)
Monitor ==
  /\ at = "watch"
  /\ IF ResultReady(goalCall) THEN ResultArrives
     ELSE IF Shifted THEN LeaveForNewGoal
     ELSE NoPoseSeen \/ PoseSeen
  /\ rolled' = FALSE
  /\ UNCHANGED << world, wp, progress, goal, unchecked >>

(* _verify_nav2_success_progress.                                            *)
Tolerance == Larger(waypoint_tolerance_m, success_shortfall_tolerance_m)

VerifySuccess ==
  /\ at = "verify"
  /\ \/ Diverged
     \/ /\ ReadProgress
        /\ IF goal.target - progress' <= Tolerance
             THEN at' = "choose" /\ UNCHANGED outcome
             ELSE End("failed")
        /\ UNCHANGED << wp, goal, goalCall >>

Runner ==
  \/ StartUp \/ StartUpFails \/ LookupFails \/ Locate \/ BeginWaypoint
  \/ ChooseSubgoal \/ Response \/ Monitor \/ VerifySuccess

Nav2 == Nav2Step \/ Drive

RouteNext ==
  \/ FixCallback \/ AlignmentCallback \/ Jump \/ CooldownElapses \/ LeftGoalEnds \/ Detour
  \/ Nav2 \/ Runner

RouteSpec == RouteInit /\ [][RouteNext]_routeVars

(* The runner's thread goes on, and Nav2 answers every goal and drives it to *)
(* an end.                                                                   *)
RouteFairSpec == RouteSpec /\ WF_routeVars(Runner) /\ WF_routeVars(Nav2)

-----------------------------------------------------------------------------
(* Once the route has ended, by success, failure or an exception, the        *)
(* vehicle moves only while the cancellation of its goal is on the way, or   *)
(* when the route ended before the goal that a shift left at Nav2 was        *)
(* preempted: _send_goal returns GOAL_STATUS_ALIGNMENT_SHIFT without a       *)
(* cancel, and the next goal may be rejected, not needed, or never sent.     *)
StopsWithRoute ==
  [][truth' # truth /\ at = "done" => goalCall.cancel \/ left # Nothing]_routeVars

(* docs-EN/devlog/2026-07.md:1384: a route whose pose has parted from the    *)
(* fix ends "instead of marking the waypoint reached".  A waypoint counts    *)
(* as reached only when the vehicle has come as far along the route as the   *)
(* tolerances say, whatever Nav2 reports, wherever the pose jumps and        *)
(* however the alignment moves while progress is kept; a fix that is long    *)
(* past serves as well.  How far to the side it is does not count: the       *)
(* runner drops that, and so a vehicle abreast of a waypoint has reached it. *)
(* Excepted are the readings no valid fix vouched for (the first one of a    *)
(* waypoint is not even compared by BeginWaypoint), and a waypoint no        *)
(* farther from the one before than the tolerance, which counts as reached   *)
(* when that one does.                                                       *)
ReachedIsAbreast ==
  [][wp' # wp /\ ~unchecked' /\ waypoint_tolerance_m < TotalLength =>
       furthest >= waypoints[wp] - waypoint_tolerance_m - divergence_abort_m]_routeVars

(* Every route comes to an end: subgoals, repeats after a shift and repeats  *)
(* after a success that fell short do not go on for ever.  This needs        *)
(* GoalTolerance <= waypoint_tolerance_m: a Nav2 that succeeds farther from  *)
(* the last subgoal than the waypoint's tolerance, and nearer than the       *)
(* shortfall's, would be sent that subgoal again and again.                  *)
RouteEnds == <>(at = "done")
=============================================================================
