------------------------------- MODULE RtkFgo -------------------------------
(* The node rtk_fgo_localizer: sensor messages fill buffers, and a timer     *)
(* extends the factor graph with the newest FAST-LIO pose, judges the newest *)
(* fix against the newest GGA sentence, moves the state machine and commits  *)
(* the fix when the machine trusts it.  One thread runs every callback.      *)
(*                                                                           *)
(* Positions and angles are abstracted: how far the fix is from the estimate *)
(* is any value the tick may find.  Time counts the periods of the timer.    *)
(* Counters stop at the threshold they are compared with.  IMU factors       *)
(* (imu_enabled is false in rtk_fgo.yaml), the smoother of the published     *)
(* pose, the diagnostics and FAULT_HOLD, which update(..., true) never       *)
(* enters, are left out; a tick before the first FAST-LIO message only       *)
(* publishes that it waits.                                                  *)
EXTENDS FgoGraph, FiniteSets

CONSTANTS
  MaxStamp,                  \* bound on the clock
  GnssStamps,                \* when the receiver may deliver: it is slower
                             \* than the timer
  WheelTolerance,            \* 0.20 s, in periods
  HeadingTolerance,          \* 0.5 s, in periods
  wheel_enabled, rtk_position_enabled, rtk_heading_enabled,
  use_rtk_heading_for_yaw,
  recovery_min_samples,
  degraded_to_local_samples,
  bootstrap_required_consecutive_samples

ASSUME NodeAssumption ==
  /\ {WheelTolerance, HeadingTolerance} \cup GnssStamps \subseteq Nat
  /\ MaxStamp \in Nat \ {0}
  /\ {wheel_enabled, rtk_position_enabled, rtk_heading_enabled,
      use_rtk_heading_for_yaw} \subseteq BOOLEAN
  /\ {recovery_min_samples, degraded_to_local_samples,
      bootstrap_required_consecutive_samples} \subseteq Nat \ {0}

VARIABLES
  clock,                     \* stamp of the messages that arrive now
  lio,                       \* fastlio_buffer_.latest(), 0 for none
  wheel_buffer_, heading_buffer_,     \* stamps
  fix,                       \* the stamp of fix_buffer_.latest(), 0 when there
                             \* is none or it is not valid
  nmea,                      \* what the sentence of nmea_buffer_.latest() says
  graph_, last_lio_stamp_, previous_wheel_stamp_,
  anchor,                    \* initialized, and the run that leads there
  sm,                        \* LocalizationStateMachine
  run                        \* history: the strong ticks in a row, since the
                             \* last rejected commit

sensors == << clock, lio, wheel_buffer_, heading_buffer_, fix >>
vars == << sensors, nmea, graph_, last_lio_stamp_, previous_wheel_stamp_, anchor,
           sm, run >>

Capped(n, bound) == IF n < bound THEN n ELSE bound

(* "poor" is a sentence below the limits on satellites or HDOP or with no    *)
(* fix, "float" one whose quality is RTK float or any other but RTK fixed.   *)
Sentences == {"none", "fixed", "float", "poor"}

Init ==
  /\ clock = 1 /\ lio = 0 /\ wheel_buffer_ = {} /\ heading_buffer_ = {}
  /\ fix = 0
  /\ nmea = "none"
  /\ graph_ = EmptyGraph /\ last_lio_stamp_ = 0 /\ previous_wheel_stamp_ = 0
  /\ anchor = [initialized |-> FALSE, count |-> 0, headings |-> 0]
  /\ sm = [state |-> "local", strong |-> 0, invalid |-> 0]
  /\ run = 0

-----------------------------------------------------------------------------
(* The messages.  A sample leaves its buffer two seconds after it, more than *)
(* any tolerance, so no buffer is pruned here.                               *)
Rest == << graph_, last_lio_stamp_, previous_wheel_stamp_, anchor,
           sm, run >>

Advance ==
  /\ clock < MaxStamp
  /\ clock' = clock + 1
  /\ UNCHANGED << lio, wheel_buffer_, heading_buffer_, fix, nmea, Rest >>

OnFastLio ==
  /\ lio' = clock
  /\ UNCHANGED << clock, wheel_buffer_, heading_buffer_, fix, nmea, Rest >>

OnWheel ==
  /\ wheel_buffer_' = wheel_buffer_ \cup {clock}
  /\ UNCHANGED << clock, lio, heading_buffer_, fix, nmea, Rest >>

OnHeading ==
  /\ clock \in GnssStamps
  /\ heading_buffer_' = heading_buffer_ \cup {clock}
  /\ UNCHANGED << clock, lio, wheel_buffer_, fix, nmea, Rest >>

OnFix ==
  /\ clock \in GnssStamps
  /\ fix' \in {0, clock}
  /\ UNCHANGED << clock, lio, wheel_buffer_, heading_buffer_, nmea, Rest >>

(* Only a sentence that parses as GGA is kept.                               *)
OnNmea ==
  /\ nmea' \in Sentences \ {"none"}
  /\ UNCHANGED << sensors, Rest >>

Distance(a, b) == IF a < b THEN b - a ELSE a - b

(* TimestampedBuffer::closest: of two samples as near, the later; 0 for none *)
Closest(buffer, stamp, tolerance) ==
  LET near == {s \in buffer : Distance(s, stamp) <= tolerance}
      Better(s, t) == \/ Distance(s, stamp) < Distance(t, stamp)
                      \/ Distance(s, stamp) = Distance(t, stamp) /\ s >= t
  IN IF near = {} THEN 0 ELSE CHOOSE s \in near : \A t \in near : Better(s, t)

-----------------------------------------------------------------------------
(* The timer: first the keyframe.                                            *)
NewKeyframe == last_lio_stamp_ # 0 /\ lio > last_lio_stamp_

(* The stamp of the newest keyframe, after this.                             *)
KeyframeStamp == IF last_lio_stamp_ = 0 \/ NewKeyframe THEN lio ELSE last_lio_stamp_

WheelSample ==
  IF NewKeyframe /\ wheel_enabled THEN Closest(wheel_buffer_, lio, WheelTolerance)
                                  ELSE 0

WheelPose == << previous_wheel_stamp_, WheelSample >>

WithKeyframe ==
  LET extended == AddFastLioBetween(graph_, lio, << last_lio_stamp_, lio >>)
  IN CASE last_lio_stamp_ = 0 -> AddInitialState(lio)
       [] NewKeyframe ->
            IF WheelSample # 0 /\ previous_wheel_stamp_ # 0
              THEN AddWheelPlanarFactorForLatestTransition(extended, WheelPose)
              ELSE extended
       [] OTHER -> graph_

(* The plausible bug: the pose before is kept when a wheel factor is added.  *)
MutantPreviousWheel ==
  IF WheelSample # 0 /\ previous_wheel_stamp_ = 0 THEN WheelSample
                                                  ELSE previous_wheel_stamp_

PreviousWheel == IF WheelSample # 0 THEN WheelSample ELSE previous_wheel_stamp_

LatestHeading == Closest(heading_buffer_, KeyframeStamp, HeadingTolerance)

(* There is a sentence and a valid fix; before, the gate rejects at once.    *)
Judges == nmea # "none" /\ fix # 0

(* updateFrameAnchorBootstrap: a run of fixed samples, with headings that    *)
(* agree when the yaw is taken from them.  An interrupted run begins again.  *)
Candidate == nmea = "fixed" /\ (use_rtk_heading_for_yaw => LatestHeading # 0)

AfterBootstrap(stable) ==
  LET needed   == bootstrap_required_consecutive_samples
      count    == anchor.count + 1
      headings == IF use_rtk_heading_for_yaw THEN Capped(anchor.headings + 1, needed)
                                             ELSE anchor.headings
      Run(i, c, h) == [initialized |-> i, count |-> c, headings |-> h]
  IN IF ~Judges \/ anchor.initialized THEN anchor
     ELSE IF ~Candidate THEN Run(FALSE, 0, 0)
     ELSE IF count < needed THEN Run(FALSE, count, headings)
     ELSE IF use_rtk_heading_for_yaw /\ (headings < needed \/ ~stable)
       THEN Run(FALSE, 0, 0)
     ELSE Run(TRUE, count, headings)

(* evaluateLatestRtkGate and evaluateRtkGate.  The innovation is "near" up   *)
(* to the strong limit and "weak" up to the weak one; a heading or a speed   *)
(* that is out of its limit rejects like a "far" one.  The check against     *)
(* max_anchor_position_innovation_m asks for an unfinished run and so can    *)
(* never reject here.                                                        *)
Decision(a, innovation) ==
  IF \/ ~Judges \/ ~a.initialized \/ nmea = "poor" \/ innovation = "far"
     \/ nmea = "fixed" /\ innovation = "weak"
    THEN "rejected"
    ELSE IF nmea = "fixed" THEN "strong" ELSE "weak"

(* A fix that has just anchored the map lies at the estimate.                *)
Decisions(a) ==
  {Decision(a, innovation) :
     innovation \in IF a.initialized = anchor.initialized
                      THEN {"near", "weak", "far"} ELSE {"near"}}

-----------------------------------------------------------------------------
(* LocalizationStateMachine.                                                 *)
AcceptStrongCandidate ==
  LET strong == Capped(sm.strong + 1, recovery_min_samples)
      waits  == sm.state \in {"local", "degraded", "candidate"}
      state  == IF ~waits THEN sm.state
                ELSE IF strong >= recovery_min_samples THEN "recovery" ELSE "candidate"
  IN [state |-> state, strong |-> strong, invalid |-> 0]

Dropped(state) ==
  CASE state = "locked" -> "degraded"
    [] state \in {"candidate", "recovery"} -> "local"
    [] OTHER -> state

AcceptWeakOrDiagnostic ==
  [state |-> Dropped(sm.state), strong |-> 0, invalid |-> sm.invalid]

AcceptRejected ==
  LET invalid == Capped(sm.invalid + 1, degraded_to_local_samples)
      gone    == sm.state = "degraded" /\ invalid >= degraded_to_local_samples
  IN [state |-> IF gone THEN "local" ELSE Dropped(sm.state),
      strong |-> 0, invalid |-> invalid]

Update(decision) ==
  CASE decision = "strong" -> AcceptStrongCandidate
    [] decision = "rejected" -> AcceptRejected
    [] OTHER -> AcceptWeakOrDiagnostic

MarkRecoveryCommitted(s) ==
  IF s.state = "recovery"
    THEN [state |-> "locked", strong |-> recovery_min_samples, invalid |-> 0]
    ELSE s

(* The plausible bug: a rejected commit leaves the count of strong samples.  *)
MutantMarkRecoveryRejected(s) == [s EXCEPT !.state = Dropped(@), !.invalid = 0]

MarkRecoveryRejected(s) == [state |-> Dropped(s.state), strong |-> 0, invalid |-> 0]

Tries(decision, s) ==
  rtk_position_enabled /\ decision = "strong" /\ s.state \in {"recovery", "locked"}

(* A committed fix brings the heading of the keyframe, when there is one.    *)
WithFix(g) ==
  LET committed == ShadowRtkCommit(g, << fix, fix >>)
      heading   == << LatestHeading, LatestHeading >>
  IN IF rtk_heading_enabled /\ LatestHeading # 0 THEN AddRtkHeading(committed, heading)
                                                 ELSE committed

(* The end of the tick: the fix is committed, or its commit is rejected by   *)
(* the trial optimization, when the machine tries it.                        *)
Conclude(g, decision, s, accepted) ==
  /\ IF ~Tries(decision, s)
       THEN sm' = s /\ graph_' = g
       ELSE IF accepted
         THEN sm' = MarkRecoveryCommitted(s) /\ graph_' = WithFix(g)
         ELSE sm' = MarkRecoveryRejected(s) /\ graph_' = g
  /\ run' = IF decision # "strong" \/ (Tries(decision, s) /\ ~accepted)
              THEN 0 ELSE Capped(run + 1, recovery_min_samples)

(* onTimer.  graph_ has an estimate from the first keyframe on, which is when *)
(* last_lio_stamp_ is set.                                                   *)
OnTimer ==
  /\ lio # 0
  /\ UNCHANGED << sensors, nmea >>
  /\ \E a \in {AfterBootstrap(stable) : stable \in BOOLEAN}, g \in {WithKeyframe} :
       /\ anchor' = a
       /\ \E d \in Decisions(a) : \E accepted \in {TRUE, ~Tries(d, Update(d))} :
            Conclude(g, d, Update(d), accepted)
  /\ last_lio_stamp_' = KeyframeStamp
  /\ previous_wheel_stamp_' = PreviousWheel

Next ==
  \/ Advance \/ OnFastLio \/ OnWheel \/ OnHeading \/ OnFix \/ OnNmea
  \/ OnTimer

Spec == Init /\ [][Next]_vars

-----------------------------------------------------------------------------
Stamps == 0..MaxStamp

(* Every variable has a value of its kind; buffered stamps are in the past.  *)
TypeOK ==
  /\ clock \in 1..MaxStamp /\ lio \in 0..clock
  /\ wheel_buffer_ \subseteq 1..clock /\ heading_buffer_ \subseteq 1..clock
  /\ fix \in 0..clock
  /\ nmea \in Sentences
  /\ last_lio_stamp_ \in 0..lio /\ previous_wheel_stamp_ \in Stamps
  /\ LET counts == 0..bootstrap_required_consecutive_samples
     IN  anchor \in [initialized : BOOLEAN, count : counts, headings : counts]
  /\ sm \in [state : {"local", "candidate", "recovery", "locked", "degraded"},
             strong : 0..recovery_min_samples, invalid : 0..degraded_to_local_samples]
  /\ run \in 0..recovery_min_samples

(* The optimizer can always solve the graph: its variables are numbered      *)
(* without a gap, each has its velocity and bias priors, the oldest has the  *)
(* pose prior and each later one hangs on the one before it, whatever was    *)
(* dropped from the window and renumbered.                                   *)
GraphSolvable ==
  LET n == Len(graph_.states)
      Has(kind, from, to) ==
        \E f \in graph_.factors : f.kind = kind /\ f.from = from /\ f.to = to
  IN /\ n <= max_states
     /\ \A i \in 1..n : graph_.states[i].index = i - 1 /\ Has("motion", i - 1, i - 1)
     /\ \A i \in 2..n : Has("lio", i - 2, i - 1)
     /\ n > 0 => Has("prior", 0, 0)
     /\ \A f \in graph_.factors : f.from < n /\ f.to < n

(* The numbered factors mean what they meant when they were added: read by   *)
(* the stamps of their keyframes, they are a window in which a measurement   *)
(* stays at its keyframe until that keyframe is dropped.                     *)
StampOf(i) == graph_.states[i + 1].stamp_s

Measurements ==
  {[kind |-> f.kind, from |-> StampOf(f.from), to |-> StampOf(f.to), data |-> f.data] :
     f \in {f \in graph_.factors : f.kind \notin {"prior", "motion"}}}

Window ==
  INSTANCE KeyframeWindow WITH
    window <- [i \in 1..Len(graph_.states) |-> graph_.states[i].stamp_s],
    measurements <- Measurements

KeepsMeasurements == Window!Spec

(* No wheel motion is counted twice: the wheel poses of successive           *)
(* transitions are measured over successive intervals, also when a sample    *)
(* was missing at a keyframe or serves two of them.                          *)
WheelCountedOnce ==
  \A t, u \in graph_.transitions :
    t.wheel # NoPose /\ u.wheel # NoPose =>
      /\ t.wheel[1] <= t.wheel[2]
      /\ t.to_index < u.to_index => t.wheel[2] <= u.wheel[1]

(* The machine is locked, and commits a fix at every tick, exactly when the  *)
(* last recovery_min_samples ticks or more judged a fix strong and none of   *)
(* them had its commit rejected, whatever it has been through before.  These *)
(* are ticks and not samples.  Every tick judges the newest fix again        *)
(* (rtk_fgo_node.cpp:456), so that one fix with no other after it locks the  *)
(* machine: the code does not keep rtk_fgo.md:159, "a single good point must *)
(* not recover the system.  Recovery requires consecutive consistent         *)
(* samples".                                                                 *)
LockedIffStrongTicks ==
  rtk_position_enabled => (sm.state = "locked" <=> run >= recovery_min_samples)

(* Why LockedIffStrongTicks holds: the machine counts the run itself, and it  *)
(* is never left in recovery, where the same tick tries the commit.          *)
CountsTheRun ==
  /\ sm.strong = run
  /\ rtk_position_enabled =>
       /\ sm.state # "recovery"
       /\ sm.state = "locked" <=> run = recovery_min_samples
=============================================================================
