# A TLA+ model of the frogbot2026 vehicle software

This directory models the control logic of the vehicle: the nodes that decide
whether, where and how it moves.  The modules are checked with TLC on small
instances (`PROJECT.json`, `runs`), and the theorems in the `*_proofs` modules
are proved with TLAPS for every value of the constants.

    tlc -workers 2 -config X.cfg M        # a run: module M, configuration X.cfg
    tlapm M_proofs.tla                    # the proofs about module M

## 1. The system

A Jetson host runs ROS 2 nodes; an STM32 lower controller drives the wheels and
listens to the host on a serial line.  The nodes exchange messages over topics,
services and actions.  There is no shared memory between nodes, and most nodes run
their callbacks one at a time, so what is hard lies in the *order* of messages, in
results that come back after the situation has changed, in what silence means, and
in processes that stop.  Three have threads of their own: FrogBoard, the local map
of the lidar odometry and the costmap with the friction layer.

### Components

The path of a command to the wheels, in travel mode:

| Component | Source | State it keeps | Operations |
|---|---|---|---|
| Localization command gate | `bringup/scripts/localization_cmd_gate.py` | last report and age of four inputs, whether it forwards | four input callbacks, command callback, timer |
| Collision Monitor | nav2 (external) | - | reduces or stops a command |
| Post-collision conditioner | `bringup/scripts/post_collision_cmd_conditioner.py` | last reference command and its age | two command callbacks |
| Serial velocity output | `sensor_drivers/serial_twistctl` | last command's age, previous output of the limiter | command callback, watchdog timer, frame write |
| Lower controller | external firmware | wheel speed, age of the last frame | frame, timeout |
| FrogBoard phone server | `scripts/frogboard_server` | enable flag, two press windows, clients, joystick, serial proxy | websocket handlers, serial thread, broadcast |

Localization on a prior map:

| Component | Source | State | Operations |
|---|---|---|---|
| Prior-map localizer | `perception/localizer` | state machine, attempts, failures, offset, epoch | relocalize service, timer, input gaps |
| Prior-map TF authority | `bringup/scripts/prior_map_tf_authority.py` | transform in use, seed, AMCL window, whether a manual pose is pending | pose, transform, status, odometry and AMCL callbacks, timers |
| Initial-pose bridge | `bringup/scripts/initialpose_relocalize_bridge.py` | - | pose callback calls the service |
| AMCL | nav2 (external) | - | estimates around the seed |

Indoor navigation:

| Component | Source | State | Operations |
|---|---|---|---|
| Foxglove adapter | `indoor_navigation_manager/foxglove_adapter_node.py` | pending goal, active goal, cancel flags, two grace clocks, latched status | goal and cancel topics, localization and chassis reports, goal responses, results, two timers |
| Indoor navigation manager | `indoor_navigation_manager/manager_node.py` | reservation, current goals, cancel flag | action server; its `execute` is a coroutine |
| bt_navigator | nav2 (external) | goals | accept, end, cancel |

GPS navigation:

| Component | Source | State | Operations |
|---|---|---|---|
| GPS goal manager | `gps_waypoint_dispatcher/goal_manager_node.py` | busy, target, stored path, three goal handles | goto and stop topics, three chains of response and result callbacks |
| GPS route runner | `gps_route_runner_node.py` | waypoint, progress, alignment, watchdog counters | a synchronous route loop that spins the node while it waits |
| RTK map->odom corrector | `rtk_map_odom_corrector_node.py` | last output, last accepted target, alignments | four inputs, timer |
| GPS global aligner | `gps_global_aligner_node.py` | samples, fit | inputs, timer |
| GPS anchor localizer | `gnss_calibration` | GNSS window, anchor | inputs, timer |
| command-line menu | `scripts/nav_gps_menu.py` | last status | one request at a time |

Perception and mapping, in C++:

| Component | Source | State | Operations |
|---|---|---|---|
| FAST-LIO2 odometry | `perception/fastlio2` | buffers, package, filter state, edges of the local map | IMU and scan callbacks, timer |
| Incremental k-d tree | `fastlio2/src/map_builder/ikd_Tree.cpp` | tree, subtree under rebuild, logger, two mutexes, counter of searches | add, delete and search by the mapping thread; a rebuild thread |
| RTK factor-graph localizer | `perception/rtk_fgo_localizer` | buffers, graph and its window, frame anchor, state machine | six inputs, timer |
| Pose-graph mapping | `perception/pgo_gps_fusion` | keyframes, loops, factors, GPS pairs and alignment, correction window | scan and fix callbacks, timer, save service |

Friction risk (FRC):

| Component | Source | State | Operations |
|---|---|---|---|
| Risk pipeline | `frc/frc_nodes_cpp` | anchors, overruns | odometry, anchors, tick |
| Costmap layer | `frc/frc_costmap_layer` | latest grid and its age, enabled | grid, enable and disable; updateBounds and updateCosts on the costmap's thread |
| Event marker, memory, health, trials | `frc/frc_nodes_cpp`, `frc/frc_nodes` | events, anchors | single-threaded |

Beside these: survey mode (`survey_node.py`, a five-state exploration machine),
the receiver drivers, mapping-session scripts, point-cloud conversion and vendored
drivers.  `PROJECT.json` lists each with its sources and,
when it is not modelled, the reason.

### How they interact

    Nav2 -> gate -> Collision Monitor -> conditioner -> serial_twistctl -> STM32
              ^                                     FrogBoard --^   ^-- PS2 gamepad
    localizer --transform, status--> TF authority --tf_active, status--> gate, adapter
        ^                                |  ^
        +--- bridge <--/initialpose      v  |  (seed, estimates)
                                        AMCL
    operator -> Foxglove adapter --pose goal-----------------> bt_navigator
                        +--named goal--> manager --goal------>      "
    CLI -> GPS goal manager --compute_route, navigate, follow_path--> Nav2
    aligner --ENU to map--> GPS route runner --navigate_to_pose-----> Nav2
    IMU, lidar -> FAST-LIO2 (k-d tree) --odometry, scans--> pose graph, RTK localizer
    memory --anchors--> risk pipeline --grid--> costmap layer --costs--> Nav2

### What is hard, and what makes each part correct

* **GPS goal manager.** Three asynchronous goals in a chain, each with a response
  and a result, while new targets and stops arrive.  Correct when it is busy
  exactly while one of its goals is outstanding, when the route being followed is
  that of the target in force, and when every request ends.
* **Command chain.** Three independent layers must stop the vehicle when commands,
  localization or processes vanish (`docs-EN/commands.md`, `architecture.md`).
  Correct when each surviving layer bounds how long the wheels turn, and when a
  command released after a stop does not jump.
* **FrogBoard.** The asyncio loop and the serial thread share the enable flag and
  the press windows without a lock, and the UART may lose a frame.  Correct when a
  press has taken effect by the end of its window and every phone shows the truth.
* **Map localization.** Transform, status, seed and estimates travel on separate
  topics in no order.  Correct when the transform in use is a real alignment, does
  not jump under a moving vehicle, and comes into use at all.
* **Indoor navigation.** A cancel may cross the acceptance of a goal on each of two
  links in a row.  Correct when no goal is left driving that nobody wants, when
  there is one destination at a time and the manager is never wedged, and when
  driving without localization or chassis is bounded by the grace periods.
* **Route runner.** A synchronous loop against an action server, while the pose may
  jump and the alignment shift.  Correct when the vehicle stops with the route, when
  a waypoint is counted only once the vehicle is abreast of it, and when every route ends.
* **k-d tree.** A subtree is rebuilt in a copy while the original is changed and
  searched.  Correct when the copy with the logged operations always equals the
  original, when no search is in the tree while it is taken apart, and when nobody
  waits for ever.
* **FAST-LIO2.** Scans and samples arrive out of order, late or not at all.  Correct
  when the filter predicts forward and over each interval once, takes each scan
  once, and the local map forgets nothing near.
* **RTK localizer.** Keyframes are numbered, the numbers change when the window is
  rebuilt, and several lists refer to them.  Correct when every measurement stays at
  its keyframe, no wheel motion counts twice, and a fix is committed exactly while it
  has been trusted for long enough.
* **Pose-graph mapping.** The solver moves what has been published.  Correct when it
  has each factor once, the alignment is that of the keyframes as they are, a jump is
  announced, and a saved map is of one session.
* **Risk layer.** Bounds and costs are two steps on another thread.  Correct when risk
  only raises costs, below the obstacle level unless `max_cost` allows it, and fades when
  its source is silent.
* **Parts without a model.** The corrector must recover from a degraded stretch; survey
  mode must not mistake an old goal's result for that of the new one.

`PROJECT.json`, `hazards`, lists the places in the code where each can go wrong.
Smaller ones, for the models to come or beside them:

* `rtk_map_odom_corrector_node.py:371`: the alignment in force changes between external, scene
  and bootstrap, and the map pose with it.
* `server.py:240`: the port fails between a press and its frame, and the window runs out
  while it is opened again; `:292`: a second subscribe overwrites the entry of the first.
* `prior_map_tf_authority.py:249`: a new manual pose leaves `waiting_odom_for_seed` set.
* `manager_node.py:173`: a server that dies with a goal in hand is never noticed;
  `foxglove_adapter_node.py:321`: nor is a chassis whose status stops coming.

## 2. Modules

| Module | Models | Notes |
|---|---|---|
| `RosAction` | one client's goal at an action server | response, result, cancel; used by GoalManager, IndoorCalls and GpsRouteRunner |
| `GoalManager` | `goal_manager_node.py` | one action per callback; each goal keeps what was sent with it, so a late answer is one to an earlier request |
| `GpsRouteRunner` | `gps_route_runner_node.py` with one action server | one action per stretch of the loop between two waits; places have a coordinate along the route and one across |
| `TwistCtl` | `serial_twistctl` and the lower controller | limiter, watchdog, lost frames, node death; the lower controller's watchdog may be faster or slower than the host's |
| `CmdGate` | `localization_cmd_gate.py` | used by TravelChain |
| `TravelChain` | gate, Collision Monitor, TwistCtl and the topics between them | EXTENDS TwistCtl and CmdGate |
| `CmdConditioner` | `post_collision_cmd_conditioner.py` with its two input topics | rational arithmetic as integer cross products |
| `FrogBoard` | `server.py`, `protocol.py` | `build_command` and the proxy loop cut where the other thread can run |
| `Localizer`, `PriorMapTf` | localizer state machine; TF authority | pure operators on a record each |
| `MapLocalization` | both, the bridge, AMCL and the topics | the composition; nothing orders the status and the transform topic |
| `IndoorCalls` | the three goal links (pose, named, nav) | one `RosAction` call each |
| `FoxgloveAdapter`, `IndoorManager` | the two nodes | the coroutine is cut at its three awaits |
| `IndoorNav` | both with bt_navigator, localization and chassis | the composition |
| `LioNode` | `lio_node.cpp`, `map_builder.cpp`, `imu_processor.cpp`, the map trimming of `lidar_processor.cpp` | buffers, `syncPackage`, the three stages, prediction intervals; an update moves the pose after the map was cut |
| `IkdRebuild` | `ikd_Tree.cpp` with the mapping thread that uses it | cut where a mutex is taken or released and where the other thread can see a change |
| `FgoGraph` | `fgo_graph.cpp` | pure operators on a graph record |
| `RtkFgo` | `rtk_fgo_node.cpp`, state machine, gate, buffers | EXTENDS FgoGraph; one action for the whole timer |
| `KeyframeWindow` | what the graph promises its node | abstract specification; RtkFgo implements it (`KeepsMeasurements`) |
| `Pgo` | `pgo_node.cpp`, `simple_pgo.cpp` | one action for the timer's keyframe branch; the solver is external; maps saved with and without patches |
| `RiskLayer` | risk pipeline and costmap layer | two threads; `updateBounds` and `updateCosts` apart; `max_cost` set at run time |

`MC*` modules give constants that a `.cfg` cannot express.  Each definition is
mapped to its lines in `PROJECT.json`, `map`.  Definitions described as a mutant or
a plausible bug stand before the definition they alter; no specification uses them.
`PROJECT.json`, `mutants`, says which property finds which.

### Abstractions

* *Time* is counted in ticks of the period that matters in the module (0.1 s timer
  periods in FoxgloveAdapter, 50 ms in FrogBoard).  An age stops at the first
  value past the largest threshold it is compared with.
* *Messages*: a latched or periodic topic is an input that may change at any time;
  a queue is modelled where its order or depth matters (TravelChain
  `Depth`, CmdConditioner `TopicDepth`, MapLocalization `StatusDepth`).
* *Poses and transforms* in MapLocalization are epochs: the number of the
  alignment they belong to.  `Near` says which of them lie within the jump gate.  In
  Pgo they are coordinates on a line, in GpsRouteRunner one along the route and one
  across, and the true position is kept apart from the estimate where a property is
  about the difference.
* *Estimates*: where the code asks a solver, a registration or a filter for a number,
  the model takes any of a few, or only whether it passed the gate that follows.
* *Speeds* are small integers.  The limiter's step per tick is `MaxIncrease`.
* *Action servers* accept or reject, run, and end with success, abort or, after a
  cancel, cancellation.  A goal that replaces another aborts it.
* *Exceptions* of a future are an outcome of their own.

## 3. Runs

Every run finishes within a few minutes on two workers.

| Run | Checks | Bounds, and why they suffice |
|---|---|---|
| `goal_anchor` | BusyIffOneGoal, FollowsCurrentTarget, RequestEnds | two destinations and an unknown name: a request can meet one for the same and for another target, at every stage; three goal identifiers, used again: a goal under way and two late ones |
| `gps_route` | StopsWithRoute, ReachedIsAbreast, RouteEnds | two waypoints and three subgoals, so that a fault can come before, in and after each; two faults of any kind at any moment: a jump of two sizes (warned of; ends the route), a shift of the alignment, a false success, a step off the line |
| `travel_chain` | LimiterKnowsChassis, MotionIsFresh, NoCommandJump, ThreeCommandLossLayers | one axis, commands of -1, 0 and 2 with a limiter that allows 1: a command that reverses needs a stop, one that accelerates two steps; topics of two messages: a stop queued behind a motion; lower controllers that give up before and after the host |
| `conditioner` | OnlySlowedLosesLinear (violated) | the launched thresholds, commands on both sides of each, topics of one message that are read in any order |
| `frogboard` | EnableReachesChassis, DisableReachesChassis | two phones, windows of three and four ticks, one lost frame: a phone can leave before, at and after the ticks a press needs |
| `map_localization` | CurrentWasAligned, NoJump, LocalizedBecomesActive | one manual pose after the automatic start, two failures, an AMCL window of two: a pose can arrive while the answer to the start, a status or an estimate is under way, and a status before the transform sent ahead of it |
| `indoor_nav` | OneDestination, ReservationReleased, CancelReachesNav2, GraceIsBounded, NoGhostGoal, GoalsEnd | grace periods of two and one timer periods, so that reports can come between them |
| `ikd_rebuild` | SearchLocked, LogCovers, ReplaceKeepsContents, NobodyWaitsForEver | three points, two below the son: one cell across its edge, boxes that cover it, touch it and cover all; two searches; an operation begins with at most one logged, and may log two |
| `lio_node` | PredictsForward, TilesTime, TakesEachScanOnce, NothingNearIsForgotten | six stamps, three samples and two scans in the buffers, one message out of order; a map whose edge is one step away, predictions and corrections of a step in either direction |
| `rtk_fgo` | GraphSolvable, WheelCountedOnce, LockedIffStrongTicks, KeepsMeasurements | four timer periods with a window of three keyframes: it is rebuilt with every kind of factor in it; three strong ticks to lock, which are fewer than there are |
| `risk_layer` | RiskOnlyRaises, RiskFades | three cells, grids of two or three, anchors that are confirmed, doubtful and retired; `max_cost` of 200 and of 300, which the code uses as 253, changed at any time; obstacles of other layers inside and outside |
| `pgo` | SolverHasEachFactorOnce, AlignmentFollowsGraph, SavedMapIsWhole, JumpIsAnnounced | three keyframes: a loop over two, one between two GPS pairs; two sessions: the second map may be shorter, and each may be saved with and without patches |

`ikd_rebuild` does not check for deadlock because scans may stop and the tree may
crash (below); `NobodyWaitsForEver` says what matters of it.  `lio_node` does not
because its stamps are bounded, `gps_route` because a route that has ended stays ended.

What some of the properties rest on, which the runs brought out:

* `FollowsCurrentTarget` speaks of the destination each goal was sent for, not of what the
  node believes of it.
* `ReachedIsAbreast` is about the distance along the route: how far the vehicle is to the
  side of a waypoint, the code computes and drops (`gps_route_runner_node.py:934`).  It
  needs a valid fix: a reading no fix vouched for is excepted, because the
  code does not compare it, and so is a waypoint nearer to the one before than the
  tolerance: the proof brought out that a progress of zero reaches it.
* `StopsWithRoute` excepts the goal that an alignment shift leaves at Nav2.
* `LimiterKnowsChassis` and `NoCommandJump` except a chassis that the lower controller
  stopped before the host gave up (`StoppedByItself`): the limiter then still remembers a
  speed, and the first frame may command it from rest.  With the 250 ms that
  `server.py:38` states against the host's 300 ms this can happen.  `MotionIsFresh`
  and `ThreeCommandLossLayers` have no exception: the faster of the two counts.
* `DisableReachesChassis` excepts the last phone that presses Disable and leaves within
  `MaxDrops + 2` ticks; one that stays those ticks may leave before the window ends.
* `CurrentWasAligned` excepts a seed taken from a status that overtook its transform
  (`overtaken`).  `NoJump` and `LocalizedBecomesActive` have no exception.
* `LockedIffStrongTicks` counts ticks, and several may judge the same fix.
* `RiskOnlyRaises` lets risk make an obstacle of a cell only if its risk was full under a
  `max_cost` of 253 or more (`full`).
* `SavedMapIsWhole` is about a map that has poses: `poses.txt` and the patches belong to
  each other.  One saved without patches has none.
* `JumpIsAnnounced` is checked by the tick.  Within one, the transform is sent before the
  status (`pgo_node.cpp:1201`, `:1205`).
* `LogCovers` and `ReplaceKeepsContents` hold for a rebuild whose log was empty when it
  began, whose copy was not empty, and in which no operation reached a root under
  rebuild without its lock (`guarded`).  The code can break each of the three, and the
  model does; it prints an error in the first case and may crash in the second.
* `TilesTime` and `TakesEachScanOnce` hold while messages come in order;
  `PredictsForward` always.

### Disagreements

Noted while modelling; the models follow the code.

GPS navigation:

* A stop between the sending of a goal and its response finds no handle to cancel, and
  nothing reads `cancel_requested`: the next stage is sent
  (`goal_manager_node.py:396`; `docs-EN/commands.md:641` says it stops the task).
* The route runner leaves its goal at Nav2 after an alignment shift, for the next goal
  to preempt (`gps_route_runner_node.py:810`); when the route ends, the waypoint turns
  out to be reached or the next goal is rejected, Nav2 goes on driving.
* It waits for a goal response without a timeout (`:769`); compares a pose legitimately
  moved during a TF gap with the one before the gap, and may end the route; does not
  compare the first pose of a waypoint with the fix (`:910`; devlog `2026-07.md:1384`
  says a pose that parted from it ends the route); waits two seconds for a cancel and
  never reads its answer (`:753`).
* Progress is the projection on the segment alone: a vehicle metres to the side of a
  waypoint has reached it (`:934`, `:1031`, `:607`).
* A Nav2 goal tolerance wider than `waypoint_xy_tolerance_m` would have it repeat the
  last subgoal for ever where `gps_planning.md:290` has it stop "instead of resending
  the same subgoal"; both are 0.35 m as configured.
* `rtk_fgo_node.cpp:456` counts the newest fix and sentence again at every tick: a
  single good point locks the localizer (`rtk_fgo.md:159`: "a single good point must not
  recover the system.  Recovery requires consecutive consistent samples").

Phones, localization, indoor navigation:

* A phone presses Disable and leaves at once; `reset` finds the flag already false,
  clears the Disable window, and the chassis stays armed (`protocol.py:64`,
  `server.py:309`).
* `server.py:38` and `:212` say that the lower controller's watchdog is 250 ms,
  `architecture.md:163` that it is 500 ms.  The host gives up after 300 to 400 ms.  With the
  first value the chassis stops behind the limiter's back, and a command that comes in
  between jumps, which `commands.md:191` excludes.
* After the last ROS command FrogBoard sends nothing for 0.5 s (`server.py:214`), longer
  than 250 ms.
* A frame without `ctrl_mode` is read as mode 0 by the serial reader.
* A status sent before the localizer took the manual pose makes the authority take its
  previous transform for the answer (`prior_map_tf_authority.py:277`;
  `commands.md:193` says the pose withdraws the transform).
* A status that overtakes its transform makes the authority take the transform it read
  before for the answer: the identity, after the start.  The right one, when it comes, is
  not taken (`prior_map_tf_authority.py:210`, `:245`).
* With `continuous_icp` off, a localizer that an input gap made DEGRADED is not LOCALIZED
  again before the next relocalization (`localizer_node.cpp:660`).
* The localizer publishes its last or the identity offset on the transform topic while
  it is not localized (`localizer_node.cpp:372`); the authority has to know.
* A cancel the manager itself started ends in `aborted`, error 6, because `canceled()` is
  called on a goal no client asked to cancel (`manager_node.py:179`;
  `architecture.md:164`).
* `indoor_mapping_navigation_design.md:259` lets only LOCALIZED navigate; both nodes
  accept DEGRADED, and the manager cancels a named goal at once where the adapter
  gives 5 s.
* A command that Collision Monitor did not touch may be compared with a newer reference
  and lose its linear part (`post_collision_cmd_conditioner.py:82`; the comment at `:73`
  says that only a slowed one does).  This is the finding the run `conditioner` shows.
* `architecture.md:163` has the conditioner raise rotation to 0.20 rad/s from 0.08 rad/s;
  the code drops the linear part from 0.16 rad/s and never changes the angular one, as
  `devlog/2026-07.md:139` says.

Perception and mapping:

* `rebuild_flag` is cleared after `working_flag_mutex` is released (`ikd_Tree.cpp:350`): an
  operation in between is logged for a rebuild that is over and replayed by the next.
  An addition with downsampling asks once whether the root is being rebuilt (`:511`).  An
  emptied subtree is replaced by a null pointer under a mutex that is not held
  (`:280`).
* `fastlio2.md:79` says lio_odom keeps the sensor's time; the code stamps it with
  `now()`.
* A rejected update restores the state from before the prediction
  (`map_builder.cpp:33`, as `devlog/2026-07.md:1517` says) but not the time and the sample
  the prediction reached (`imu_processor.cpp:94`): the next one starts at the end of the
  package from the state at its beginning.
* `commands.md:433` promises patches and poses one to one; a save without `save_patches`
  empties `poses.txt` and leaves the patches of the map saved before (`pgo_node.cpp:1359`).
* `frc_layer.cpp:119` clamps `max_cost` to 253, with which a full risk counts as an
  obstacle in the event marker (`event_marker`, cost 253); it is 200 as configured.
* `frc.md:51`: the watchdog lets raised cells fade, `/frc/disable` leaves them where no
  other layer asks for a redraw.

## 4. Fairness

* `GoalManager`, `IndoorNav`: the executor runs a callback that is ready, and a server
  ends what it accepted.  The code has no timeout on these answers, so without the
  second assumption nothing can be promised.  In `IndoorNav` both 0.1 s timers
  run in every period: the executor is idle most of the time.
* `GpsRouteRunner`: weak fairness of the runner's thread and of Nav2, which answers every
  goal and drives it to an end.  Nothing is assumed of fixes, alignment and pose.
* `MapLocalization`: weak fairness of the localizer's timer with a report, and of reading a
  transform and a status once there is one.  `LocalizedBecomesActive` makes
  no promise for a localizer that does not stay localized.
* `IkdRebuild`: weak fairness of both threads and of each search that was begun, which
  is what the operating system gives.  Mutexes need no more, because the threads that
  compete for them do so a bounded number of times.  That scans come is not assumed.
* `RiskLayer`: weak fairness of the clock, of the delivery of a published grid and of the
  costmap's periodic update.  Nothing says that the pipeline ticks.
* The other runs check safety only and state no fairness.

## 5. Refinement

`KeyframeWindow` says in a page what the RTK localizer wants of its factor graph: the
last keyframes, by their time stamps, and at each the measurements it was given,
until the keyframe leaves.  `RtkFgo!KeepsMeasurements` reads the graph's numbered
states and factors by stamp and checks that every step of the node is a step of that
window or leaves it alone.  This is where a wrong renumbering in `rebuildActiveWindow`
shows: the graph would still be solvable.

## 6. Proofs

Every safety invariant and every action property of a passing run is also a theorem:
the run shows it on a small instance, the theorem for every value of the constants.

| Module | Theorem | States |
|---|---|---|
| `Requests_proofs` | TypeCorrect, OneGoalForTheTarget, FollowsTheTarget | GoalManager, for any set of destinations and both parameters |
| | EnableArrives, DisableArrives | FrogBoard, for any number of phones and any windows that outlast the frames lost; the phone that leaves at once is excepted as in the property |
| | RouteStopsTheVehicle, ReachesWhatItCounts | GpsRouteRunner, for any route, tolerances and faults, in both coordinates |
| `TravelChain_proofs` | TypeCorrect, LimiterIsRight, StopsInTime, NoJump | TwistCtl, for any axes, speeds and timeouts, whichever gives up first |
| | ChainTypeCorrect, StopsWithinEveryLayer | the chain, for any timeouts, periods and depths |
| `MapLocalization_proofs` | MapTypeCorrect, PublishesAligned, NeverJumps | for any `Near`, window, bounds, depth and number of manual poses |
| `IndoorNav_proofs` | IndoorTypeCorrect, DrivesToOnePlace, ReleasesReservation, CancelsArrive, GracePeriodsHold, StatusIsTrue | for any grace periods and destinations |
| `RtkFgo_proofs` | TypeCorrect, LockedByStrongTicks, AlwaysSolvable, CountsWheelOnce, ImplementsWindow | for any numbers of samples, tolerances, window and receiver times |
| `IkdRebuild_proofs` | TypeCorrect, SearchesKeepOut, CopyKeepsUp, ReplacesWithTheSame | for any points, boxes, voxels, length of the log and number of searching threads |
| `LioNode_proofs` | NeverPredictsBack, PredictsEachTimeOnce, TakesTheOldestScan, KeepsWhatIsNear | for any stamps, buffers, messages out of order, corrections and sizes of the map |
| `Maps_proofs` | EachFactorOnce, AlignedWithTheMap, MapOfOneSession, CorrectionIsAnnounced | Pgo, for any number of keyframes, loops, samples, saves and sessions and any corrections |
| | RaisesOnly | RiskLayer, for any anchors, poses, bounds, obstacles and values of `max_cost` |

Most type invariants are conjuncts of the inductive invariants; where one is a theorem of
its own it is not in a run.  Two axes, NaN and larger speeds of `TwistCtl`, and
`UseRoutePoseStart = TRUE` of `GoalManager`, are covered by the proofs only.

### What is assumed

The named `ASSUME`s of the modules, which TLC evaluates for the constants of the runs.
Besides the types of constants:

* `TravelChainConstants`: Collision Monitor leaves a stop a stop.
* `TreeAssumption`: the searching threads are finitely many.
* `FrogBoardWindows`: the repeat windows outlast the lost frames by two ticks, one that
  the press falls into and one that gets through.  0.5 s at 20 Hz are ten ticks.
* `MapAssumption`: `cube_len` is at least what one move of the map deletes (`mov_dist`), the
  margin that triggers it (`move_thresh * det_range`), `det_range` and the way from the
  predicted pose, at which the map is cut, to the pose that the update leaves together:
  its correction, or the prediction taken back when it is rejected.  A cube of 300 m leaves 96 m for the default
  `det_range`.
* `RiskAssumption`: the types alone; `max_cost` may be any integer, which the code clamps.
* `RouteAssumption`: waypoints lie one after the other.  They may be nearer to
  each other than the tolerance: `ReachedIsAbreast` excepts those, which the code
  counts as reached together with the one before (`gps_route_runner_node.py:937` with a
  progress of zero).  Nothing is assumed of Nav2's goal tolerance.

`Near` of MapLocalization is an arbitrary relation, the solvers' corrections and the
servers' answers are arbitrary choices.

### The arguments

Each proof has the same shape: an invariant holds initially, each action preserves it
(one step per action), and it implies the property.

* *GoalManager*: BusyIffOneGoal is inductive with FollowsCurrentTarget once the route that
  is stored or being computed is known to be one to the target in force
  (`RouteOfCurrentTarget`).  Goals keep their destination, so this speaks of every goal
  at a server, not of the last of its stage; a callback then knows that its goal is the
  only one outstanding.
* *FrogBoard*: both windows count ticks of the proxy thread.  A tick that began in
  the window does not end without a frame that carries the press (`FrameOfTick`), and so
  as long as the chassis has not obeyed, one frame has been lost in each whole tick
  (`AllLost`).  `EnableInv` and `DisableInv` add what the shared flag and the other thread
  can change in between; `spoiled` marks a press after which the serial
  line failed or the operator took over, `cut` one whose window the leaving phone ended
  before a frame was sure to have got through (`Undecided`).  A later press starts the
  history again.
* *GpsRouteRunner*: `GoalInv` says where the runner waits while its goal is at Nav2, and
  that after the route has ended only a goal under cancellation is left.  `ProgressInv`
  says that progress a fix has vouched for lies within the divergence of how far along
  the route the vehicle has been (`furthest`); it survives the pose and the alignment it
  was computed from.  That a pose near the fix in the plane projects near it on the
  line is `WithinAlong` and `ProjectionLemma`.
* *TwistCtl*: the limiter is right or the chassis has `StoppedByItself`, which only a faster
  lower controller can do.  MotionIsFresh is not inductive: after a watchdog run the age may be
  just under the timeout.  `MotionIsCommanded` says how the age of the command
  compares with the watchdog's own clock, and that the chassis heard each command.
* *TravelChain*: a stop is under way.  Since the vehicle was last permitted to move,
  the topics hold stops only (`OnlyStopsUnderWay`), no frame moved it
  (`MotionWasPermitted`), and the gate's timer has not run or its stop is still in
  a topic (`StopIsUnderWay`).
* *MapLocalization*: `NoJump` needs that a seed and a window of estimates belong to the
  transform the authority already checked against the gate (`SeedIsWanted`,
  `TargetIsNear`); `CurrentWasAligned` needs that the transform of a success
  is sent before its status (`SuccessIsAligned`), so that a status read behind it speaks
  of an alignment the authority has (`StatusIsAligned`); one that overtook it sets
  `overtaken` when it is used (`UsesAligned`).
* *IndoorNav*: what each node knows of its goals (`AdapterInv`, `ManagerInv` by program
  counter), where a cancel is when it has not arrived (`StopInv`), and how the
  adapter's clock compares with the time driven blind (`GraceInv`).
* *RtkFgo*: the machine's own counter equals the history of strong ticks, and a tick
  never leaves it in recovery (`CountsTheRun`): the tick that enters recovery tries the
  commit and leaves it locked or dropped.  The types need that `closest` returns a
  sample of its buffer (`ClosestIsSample`, from the least distance, `LeastElement`) and
  that an unfinished anchor run is shorter than what it asks for (`Unfinished`).
  For the graph, `Coherent` says that keyframes are numbered by their place and ascend in
  time, that a motion joins each to the one before, and that fixes and headings belong
  to keyframes there are.  `GraphFollows` says that the newest one is that of
  `last_lio_stamp_`, `WheelFollows` that the wheel intervals follow each other up to
  `previous_wheel_stamp_`; rebuilding the window renumbers all of it at once.  The
  refinement follows step by step: every branch of the timer is a step of the window
  or leaves it alone.
* *IkdRebuild*: `LockInv` says that the counter of searches is -1 exactly where the rebuild
  thread has shut it and otherwise counts the searches inside; that a search is in the
  tree only during the filter update, in which the mapping thread hands over no new
  subtree; and that an uncounted search began with nothing to rebuild.  For the contents,
  `HandInv` says which thread holds the subtree, and that whoever waits for the lock of a
  subtree finds it under rebuild still, or nothing; and `CoverInv` that the copy with the
  logged operations applied is, point by point, the subtree with those the mapping
  thread has done to it, at every place where one of the two may stand in between.
  An operation acts on each point by itself, so a log of any length needs no
  induction over it: it is followed one operation at a time.
* *LioNode*: `SampleInv` says how the samples in the buffer, the package and the time the
  filter has reached are ordered, `ScanInv` that a package under way holds the oldest
  scan of the buffer.  `NothingNearIsForgotten` is inductive once the map is known to keep
  its size (`MapInv`); what the update does to the pose after the cut is bounded by
  `MapAssumption`.
* *Pgo*: `GraphInv` says what the lists of new factors and the solver hold together,
  `AlignInv` that pairs and alignment follow the keyframes, and `OffsetInv` that the
  published transform, the status and the last one agree.  `SavedMapIsWhole` is
  inductive with them.
* *RiskLayer*: every published grid holds percentages (`IsGrid`, from the strongest
  anchor of a cell, `StrongestExists`), so the layer adds at most the clamped `max_cost`
  (`CapType`), less than 253 where the risk is not full, and marks no obstacle of its
  own otherwise (`RaisedCosts`, `InflatedCosts`).

Only model-checked: the six liveness properties (`RequestEnds`, `RouteEnds`,
`LocalizedBecomesActive`, `GoalsEnd`, `NobodyWaitsForEver`, `RiskFades`), because ENABLED and
fairness are out of the prover's reach; and `OnlySlowedLosesLinear`, which the code breaks.

## 7. Assumptions of the models

* FrogBoard: the two threads switch only where CPython 3.10 may switch and a field is
  read or written; the lower controller answers a frame at once.
* MapLocalization: `continuous_icp` is false, as launched; a topic delivers its own
  messages in order, and nothing orders the two; a pose in flight to AMCL is not yet an
  estimate; alignments of different epochs differ by more than the spread of the
  window, and `Near` says which are within the gate.
* IndoorNav: an answer cannot be read (exception) only after the server ended the goal;
  feedback comes before the result; all named goals come from the adapter; each
  node hears of localization at its own time.
* TravelChain: Collision Monitor forwards a command, a reduced one or a stop, and
  dies without a last message.  The conditioner is a separate module: it changes
  the size of a command and never produces one of its own.
* GpsRouteRunner: the waypoints lie on a straight line, which the vehicle, its pose, the
  fix and the alignment may leave; the alignment does not turn; between two looks of the
  watchdog the vehicle moves by one step; faults are bounded (`MaxFaults`).  The run, and
  with it `RouteEnds`, has `GoalTolerance <= waypoint_tolerance_m`.
* IkdRebuild: one subtree may be rebuilt alone and its father is the root; balance and
  size are the choice which subtree is handed over; `MaxLog` bounds the operations
  logged when one begins.  Reads of the subtree's root without the lock are not
  checked.  `Delete_Points`, `Add_Point_Boxes` and `Radius_Search` are never called.
* LioNode: an empty scan is a scan of negative duration; the number of matched points is
  any outcome; `MaxReorders` bounds messages out of order.
* RtkFgo: `imu_enabled` is false, as in `rtk_fgo.yaml`; `GnssStamps` says when the slower
  receiver may deliver; z, covariances, the smoother and the diagnostics are left out;
  the check at `rtk_fgo_node.cpp:490` cannot reject after the anchor is initialized.
* Pgo: with nothing but odometry the solver leaves keyframes where they are; once it has a
  loop or a GPS factor, every update may move each keyframe by one of `Corrections`,
  within `MaxGlobal`.
* RiskLayer: the other layers want any bounds and mark any obstacles; the inflation layer
  is the last, as configured.

## 8. Not modelled

* Numerical estimation (the Kalman filter's algebra, ICP, Scan Context, the solvers),
  point clouds, the geometry of costmaps and of the k-d tree, parsing of receiver
  messages, wording of status texts, markers and logs: data that the properties do
  not tell apart, or beyond a model checker.  In the C++ nodes that are modelled, what is
  left out is parameter loading, publishing and diagnostics.
* Vendored drivers (Livox SDK and ROS driver, serial library, CH341 and IMU drivers),
  which are the larger part of the C++ lines: used unchanged, without this
  project's logic.
* Batch scripts, launch and network scripts, offline training, older planners.
* In FrogBoard, a client's subscriptions and launch tasks.
* The RTK map->odom corrector, the global aligner, the GPS menu and survey mode: control
  logic that stands beside the components above and could be modelled the same way; their
  outputs are free inputs of the models that use them.
* A process that dies with a goal in hand is modelled only on the command chain; a node
  that starts again only in Pgo, where the saved map outlives it.

## 9. Plan

1. *Done*: GPS goal manager and route runner, command chain, FrogBoard, map localization,
   indoor navigation, FAST-LIO2 with its tree, RTK localizer, pose graph, risk layer.
2. *Done*: proofs of every safety invariant and action property of the runs, and of the
   refinement of `KeyframeWindow`.
3. **RTK map->odom corrector** on a line, with the aligner's alignment as input: the
   step bound of the output for every target, and whether the gate lets a
   vehicle back in after a degraded stretch.
4. **Survey mode**: one goal and one service call in flight; whose result a
   result is, no map lost or tested for ever.
5. **Menu with goal manager**: composition; the status the menu takes as the answer.
