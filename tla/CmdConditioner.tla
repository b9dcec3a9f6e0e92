--------------------------- MODULE CmdConditioner ---------------------------
(***************************************************************************)
(* PostCollisionCmdConditioner (post_collision_cmd_conditioner.py) with    *)
(* the two topics that feed it.  The gate's command goes to Collision      *)
(* Monitor (external), whose output the conditioner receives, and directly *)
(* to the conditioner, as the reference a slowdown is recognised against.  *)
(* Nothing orders the two topics.  When a slowdown leaves a turn with a    *)
(* linear speed too small to overcome friction, the linear part is dropped.*)
(*                                                                         *)
(* Speeds are integers (cm/s, 0.01 rad/s).                                 *)
(***************************************************************************)
EXTENDS Integers, Sequences

CONSTANTS
  GateCommands,            \* what the gate publishes: [linear, angular]
  None,
  InPlaceLinear,           \* in_place_linear_threshold
  LinearDeadband,          \* linear_deadband
  TurningAngular,          \* turning_angular_threshold
  AngularZero,             \* angular_zero_threshold
  RatioPercent,            \* slowdown_ratio_threshold
  ReferenceTimeout,        \* reference_timeout_s in ticks
  MonitorPercent,          \* external: Collision Monitor's slowdown_ratio
  TopicDepth               \* QoS history depth

Still == [linear |-> 0, angular |-> 0]

VARIABLES
  monitorInput,     \* /cmd_vel_localized on its way to Collision Monitor
  referenceInput,   \* /cmd_vel_localized on its way to the conditioner
  safeRaw,          \* /cmd_vel_safe_raw: [origin |-> command, cmd |-> monitor's output]
  last_reference,
  referenceAge,     \* ticks since last_reference_time, up to ReferenceTimeout + 1
  published         \* the last [origin, cmd, out] published on /cmd_vel_safe

conditionerVars == <<monitorInput, referenceInput, safeRaw, last_reference, referenceAge, published>>

ConditionerInit ==
  /\ monitorInput = << >>
  /\ referenceInput = << >>
  /\ safeRaw = << >>
  /\ last_reference = None
  /\ referenceAge = 0
  /\ published = [origin |-> Still, cmd |-> Still, out |-> Still]

----------------------------------------------------------------------------
Magnitude(x) == IF x < 0 THEN -x ELSE x

Push(queue, msg) ==
  IF Len(queue) < TopicDepth THEN Append(queue, msg) ELSE Append(Tail(queue), msg)

Reduces(output, reference, threshold) ==
  /\ Magnitude(reference) > threshold
  /\ 100 * Magnitude(output) < RatioPercent * Magnitude(reference)

IsSlowdownOutput(msg) ==
  /\ Magnitude(msg.linear) > 0 \/ Magnitude(msg.angular) > AngularZero
  /\ last_reference # None
  /\ referenceAge <= ReferenceTimeout
  /\ \/ Reduces(msg.linear, last_reference.linear, InPlaceLinear)
     \/ Reduces(msg.angular, last_reference.angular, AngularZero)

StalledTurn(msg) ==
  /\ InPlaceLinear < Magnitude(msg.linear) /\ Magnitude(msg.linear) < LinearDeadband
  /\ Magnitude(msg.angular) >= TurningAngular

ConditionCommand(msg) ==
  IF StalledTurn(msg) /\ IsSlowdownOutput(msg)
  THEN [msg EXCEPT !.linear = 0]
  ELSE msg

(* External: what Collision Monitor makes of a command.                    *)
Slowed(c) == [linear  |-> (c.linear * MonitorPercent) \div 100,
              angular |-> (c.angular * MonitorPercent) \div 100]
MonitorOutputs(c) == {c, Slowed(c), Still}

----------------------------------------------------------------------------
GatePublishes(c) ==
  /\ monitorInput' = Push(monitorInput, c)
  /\ referenceInput' = Push(referenceInput, c)
  /\ UNCHANGED <<safeRaw, last_reference, referenceAge, published>>

MonitorPublishes(out) ==
  /\ monitorInput # << >>
  /\ out \in MonitorOutputs(Head(monitorInput))
  /\ safeRaw' = Push(safeRaw, [origin |-> Head(monitorInput), cmd |-> out])
  /\ monitorInput' = Tail(monitorInput)
  /\ UNCHANGED <<referenceInput, last_reference, referenceAge, published>>

OnReferenceCmdVel ==
  /\ referenceInput # << >>
  /\ last_reference' = Head(referenceInput)
  /\ referenceAge' = 0
  /\ referenceInput' = Tail(referenceInput)
  /\ UNCHANGED <<monitorInput, safeRaw, published>>

ConditionerOnCmdVel ==
  /\ safeRaw # << >>
  /\ LET msg == Head(safeRaw)
     IN  published' = [origin |-> msg.origin, cmd |-> msg.cmd, out |-> ConditionCommand(msg.cmd)]
  /\ safeRaw' = Tail(safeRaw)
  /\ UNCHANGED <<monitorInput, referenceInput, last_reference, referenceAge>>

ConditionerTick ==
  /\ referenceAge' = IF referenceAge <= ReferenceTimeout THEN referenceAge + 1 ELSE referenceAge
  /\ UNCHANGED <<monitorInput, referenceInput, safeRaw, last_reference, published>>

ConditionerNext ==
  \/ \E c \in GateCommands : GatePublishes(c)
  \/ \E c \in GateCommands : \E out \in MonitorOutputs(c) : MonitorPublishes(out)
  \/ OnReferenceCmdVel
  \/ ConditionerOnCmdVel
  \/ ConditionerTick

ConditionerSpec == ConditionerInit /\ [][ConditionerNext]_conditionerVars

----------------------------------------------------------------------------
(* The conditioner "only removes a collision-slowed linear component that  *)
(* cannot break static friction" (post_collision_cmd_conditioner.py:73): a *)
(* command that loses its linear part is one Collision Monitor has slowed. *)
(* The code does not keep this.  It compares a command with the latest     *)
(* reference, and a command that was passed on unchanged can meet the      *)
(* reference of a faster one that was sent after it.                       *)
OnlySlowedLosesLinear ==
  [][published' # published /\ published'.out # published'.cmd =>
       published'.cmd # published'.origin]_conditionerVars
=============================================================================
