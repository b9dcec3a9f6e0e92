---------------------------- MODULE TravelChain ----------------------------
(***************************************************************************)
(* The Travel motion chain as system_travel.launch.py wires it:            *)
(*                                                                         *)
(*   /cmd_vel -> localization_cmd_gate -> /cmd_vel_localized               *)
(*     -> Collision Monitor -> post_collision_cmd_conditioner              *)
(*     -> /cmd_vel_safe -> serial_twistctl -> chassis                      *)
(*                                                                         *)
(* Collision Monitor is external (Nav2): for each command it receives it   *)
(* publishes the command, a reduced one or a stop.  The conditioner (see   *)
(* CmdConditioner) may then drop the linear part.  Both together are one   *)
(* hop here: Reduced(c) is the set of commands c may leave them as.        *)
(* A queued message is handled within the tick, so Tick waits until the    *)
(* topics are empty; what waits for a dead process is lost.                *)
(***************************************************************************)
EXTENDS CmdGate, TwistCtl

CONSTANT Reduced(_)   \* what the monitor and the conditioner may make of a command

ASSUME TravelChainConstants ==
  /\ Commands \subseteq Twist
  /\ Stop = Zero
  /\ Reduced(Stop) = {Stop}
  /\ \A c \in Commands : Reduced(c) \subseteq Commands

VARIABLES
  monitorAlive,      \* Collision Monitor and the conditioner run
  safe,              \* /cmd_vel_safe: published, not yet taken by serial_twistctl
  blocked            \* history: ticks since the vehicle was last permitted to move

chainVars == <<gateVars, vars, monitorAlive, safe, blocked>>

(* The vehicle may move: everything the gate asks for is reported good and *)
(* every report is fresh.                                                  *)
Permitted ==
  /\ gateAlive /\ sensors_ready /\ authority_active
  /\ \A i \in Inputs : age[i] <= Timeout[i]

ChainInit ==
  /\ GateInit
  /\ Init
  /\ monitorAlive = TRUE
  /\ safe = << >>
  /\ blocked = 0

----------------------------------------------------------------------------
StillBlocked == blocked' = IF Permitted' THEN 0 ELSE blocked

GateAction ==
  /\ GateStep
  /\ StillBlocked
  /\ UNCHANGED <<vars, monitorAlive, safe>>

Monitor(out) ==
  /\ monitorAlive
  /\ localized # << >>
  /\ out \in Reduced(Head(localized))
  /\ localized' = Tail(localized)
  /\ safe' = Publish(safe, out)
  /\ UNCHANGED <<gateAlive, sensors_ready, authority_active, age, gateTimer, vars, monitorAlive, blocked>>

MonitorCrash ==
  /\ monitorAlive
  /\ monitorAlive' = FALSE
  /\ UNCHANGED <<gateVars, vars, safe, blocked>>

SerialTwist(dt, received) ==
  /\ safe # << >>
  /\ TwistCallback(Head(safe), dt, received)
  /\ safe' = Tail(safe)
  /\ UNCHANGED <<gateVars, monitorAlive, blocked>>

SerialOther ==
  /\ \/ \E received \in BOOLEAN : WatchdogCallback(received) \/ Shutdown(received)
     \/ Crash
  /\ UNCHANGED <<gateVars, monitorAlive, safe, blocked>>

(* Nobody has a message left to handle in this tick.                       *)
Quiet ==
  /\ monitorAlive => localized = << >>
  /\ twistAlive => safe = << >>

ChainTick ==
  /\ Quiet
  /\ GateTick
  /\ Tick
  /\ blocked' = IF Permitted' THEN 0 ELSE Least(blocked + 1, mcuTimeout + 1)
  /\ localized' = << >>      \* whatever waits for a dead process is lost
  /\ safe' = << >>
  /\ UNCHANGED monitorAlive

ChainNext ==
  \/ GateAction
  \/ \E out \in Commands : Monitor(out)
  \/ MonitorCrash
  \/ \E dt \in 0..DtCap, received \in BOOLEAN : SerialTwist(dt, received)
  \/ SerialOther
  \/ ChainTick

ChainSpec == ChainInit /\ [][ChainNext]_chainVars

----------------------------------------------------------------------------
ChainTypeOK ==
  /\ GateTypeOK
  /\ TypeOK
  /\ monitorAlive \in BOOLEAN
  /\ safe \in Seq(Commands)
  /\ blocked \in 0..(mcuTimeout + 1)

(* indoor_mapping_navigation_design.md: three command-loss layers.  The    *)
(* vehicle moves only if it was permitted to not longer ago than           *)
(*   - one gate period, while every process lives and frames arrive;       *)
(*   - the serial watchdog, when the gate or the monitor has died;         *)
(*   - the lower controller's watchdog, whatever else fails.               *)
ThreeCommandLossLayers ==
  wheels # Zero =>
    /\ blocked <= mcuTimeout
    /\ twistAlive /\ lastWriteOk => blocked < WatchdogTimeout + WatchdogPeriod
    /\ gateAlive /\ monitorAlive /\ twistAlive /\ lastWriteOk => blocked <= GatePeriod

(* Why it holds.  Since the vehicle was last permitted to move,            *)
(* only stops have been under way to the chassis;                          *)
OnlyStopsUnderWay ==
  /\ Permitted => blocked = 0
  /\ blocked > 0 => /\ \A i \in DOMAIN localized : localized[i] = Stop
                   /\ \A i \in DOMAIN safe : safe[i] = Stop

(* the chassis has received no frame that would move it;                   *)
MotionWasPermitted ==
  wheels # Zero => blocked <= frameAge

(* and the gate's timer has not run, or its stop is still under way.       *)
StopIsUnderWay ==
  gateAlive /\ monitorAlive /\ twistAlive /\ lastWriteOk /\ wheels # Zero =>
    /\ blocked <= GatePeriod
    /\ localized = << >> /\ safe = << >> => blocked <= gateTimer

ChainIInv == ChainTypeOK /\ IInv /\ OnlyStopsUnderWay /\ MotionWasPermitted /\ StopIsUnderWay
=============================================================================
