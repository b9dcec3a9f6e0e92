------------------------------ MODULE CmdGate ------------------------------
(***************************************************************************)
(* LocalizationCmdGate (localization_cmd_gate.py): lets a velocity command *)
(* through only while the localizer's sensors, the prior-map TF authority  *)
(* and the obstacle cloud are all ready and fresh, and repeats zero while  *)
(* they are not or the command itself has gone stale.                      *)
(*                                                                         *)
(* Ages are counted in ticks up to one past the timeout, which also stands *)
(* for an input never received (the stamp is None).  The diagnostics the   *)
(* node publishes about itself are left out.                               *)
(***************************************************************************)
EXTENDS Integers, Sequences

CONSTANTS
  Timeout,       \* per input: status_, authority_, obstacle_, cmd_timeout_s in ticks
  GatePeriod,    \* the period of on_timer, 1 / publish_hz
  Commands,      \* velocity commands
  Stop,          \* the command Twist()
  Depth          \* QoS history depth of a command topic

Inputs == {"status", "authority", "obstacle", "cmd"}

ASSUME CmdGateConstants ==
  /\ Timeout \in [Inputs -> Nat]
  /\ GatePeriod \in Nat \ {0}
  /\ Stop \in Commands
  /\ Depth \in Nat \ {0}

VARIABLES
  gateAlive,          \* the node runs
  sensors_ready,
  authority_active,
  age,                \* ticks since last_{status,authority,obstacle,cmd}_time
  gateTimer,          \* ticks since on_timer last ran
  localized           \* /cmd_vel_localized: published, not yet taken by the monitor

gateVars == <<gateAlive, sensors_ready, authority_active, age, gateTimer, localized>>

GateInit ==
  /\ gateAlive = TRUE
  /\ sensors_ready = FALSE
  /\ authority_active = FALSE
  /\ age = [i \in Inputs |-> Timeout[i] + 1]
  /\ gateTimer = 0
  /\ localized = << >>

----------------------------------------------------------------------------
(* KEEP_LAST: a full topic drops its oldest message.                       *)
Publish(queue, msg) ==
  IF Len(queue) < Depth THEN Append(queue, msg) ELSE Append(Tail(queue), msg)

IsFresh(i) == age[i] <= Timeout[i]

IsAllowed ==
  /\ sensors_ready /\ IsFresh("status")
  /\ authority_active /\ IsFresh("authority")
  /\ IsFresh("obstacle")

----------------------------------------------------------------------------
Received(i) == age' = [age EXCEPT ![i] = 0]

(* A status that reports the sensors not ready stops the vehicle at once.  *)
OnStatus(ready) ==
  /\ gateAlive
  /\ sensors_ready' = ready
  /\ Received("status")
  /\ localized' = IF ready THEN localized ELSE Publish(localized, Stop)
  /\ UNCHANGED <<gateAlive, authority_active, gateTimer>>

OnCmdVel(msg) ==
  /\ gateAlive
  /\ Received("cmd")
  /\ localized' = Publish(localized, IF IsAllowed THEN msg ELSE Stop)
  /\ UNCHANGED <<gateAlive, sensors_ready, authority_active, gateTimer>>

OnObstacle ==
  /\ gateAlive
  /\ Received("obstacle")
  /\ UNCHANGED <<gateAlive, sensors_ready, authority_active, gateTimer, localized>>

(* active is FALSE for a payload that does not parse.                      *)
OnAuthority(active) ==
  /\ gateAlive
  /\ authority_active' = active
  /\ Received("authority")
  /\ UNCHANGED <<gateAlive, sensors_ready, gateTimer, localized>>

GateTimerDue == gateAlive /\ gateTimer = GatePeriod

OnTimer_commandOnly ==      \* mutant: zero is repeated only for a stale command
  /\ GateTimerDue
  /\ gateTimer' = 0
  /\ localized' = IF ~IsFresh("cmd") THEN Publish(localized, Stop) ELSE localized
  /\ UNCHANGED <<gateAlive, sensors_ready, authority_active, age>>

OnTimer ==
  /\ GateTimerDue
  /\ gateTimer' = 0
  /\ localized' = IF ~IsAllowed \/ ~IsFresh("cmd")
                  THEN Publish(localized, Stop)
                  ELSE localized
  /\ UNCHANGED <<gateAlive, sensors_ready, authority_active, age>>

(* The process ends, and what it knew is gone with it.                     *)
GateCrash ==
  /\ gateAlive
  /\ gateAlive' = FALSE
  /\ sensors_ready' = FALSE /\ authority_active' = FALSE
  /\ age' = [i \in Inputs |-> Timeout[i] + 1]
  /\ gateTimer' = 0
  /\ UNCHANGED localized

GateStep ==
  \/ \E ready \in BOOLEAN : OnStatus(ready)
  \/ \E msg \in Commands : OnCmdVel(msg)
  \/ OnObstacle
  \/ \E active \in BOOLEAN : OnAuthority(active)
  \/ OnTimer
  \/ GateCrash

(* One tick on the gate's clocks.                                          *)
GateTick ==
  /\ ~GateTimerDue
  /\ IF gateAlive
     THEN /\ age' = [i \in Inputs |-> IF IsFresh(i) THEN age[i] + 1 ELSE age[i]]
          /\ gateTimer' = gateTimer + 1
     ELSE UNCHANGED <<age, gateTimer>>
  /\ UNCHANGED <<gateAlive, sensors_ready, authority_active>>

GateTypeOK ==
  /\ gateAlive \in BOOLEAN
  /\ sensors_ready \in BOOLEAN
  /\ authority_active \in BOOLEAN
  /\ age \in [Inputs -> Nat]
  /\ \A i \in Inputs : age[i] <= Timeout[i] + 1
  /\ gateTimer \in 0..GatePeriod
  /\ localized \in Seq(Commands)
=============================================================================
