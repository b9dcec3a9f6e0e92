------------------------------ MODULE TwistCtl ------------------------------
(***************************************************************************)
(* SerialTwistCtlNode (serial_twistctl_node.cpp): the last host node of    *)
(* the motion chain.  It limits how fast a velocity command may grow,      *)
(* writes it to the serial line and enforces zero when commands stop.      *)
(* The lower controller behind the line is external: it keeps the last     *)
(* frame it received and has a watchdog of its own.                        *)
(*                                                                         *)
(* Time advances in ticks.  A timer fires in the tick it is due (Tick      *)
(* waits for it); message callbacks happen between ticks in any order.     *)
(***************************************************************************)
EXTENDS Integers

CONSTANTS
  Axes,              \* {"linear", "angular"}: the two components limited separately
  MaxSpeed,          \* bound of the velocities commanded
  NaN,               \* a target that is not a finite number
  MaxIncrease,       \* max_*_acceleration, speed units per tick
  DtCap,             \* acceleration_dt_cap_s in ticks
  EnableLimit,       \* parameter enable_acceleration_limit
  WatchdogTimeout,   \* command_timeout_ms in ticks
  WatchdogPeriod,    \* watchdog_period_ms in ticks
  McuTimeouts        \* external: what the lower controller's own watchdog may be

ASSUME TwistCtlConstants ==
  /\ MaxSpeed \in Nat
  /\ NaN \notin Int
  /\ MaxIncrease \in Nat
  /\ DtCap \in Nat \ {0}
  /\ EnableLimit \in BOOLEAN
  /\ WatchdogTimeout \in Nat \ {0}
  /\ WatchdogPeriod \in Nat \ {0}
  /\ McuTimeouts \subseteq Nat \ {0}

Speed == (-MaxSpeed)..MaxSpeed
Twist == [Axes -> Speed \cup {NaN}]
Zero  == [a \in Axes |-> 0]

(* What the node may write: the limiter lets nothing but numbers through.  *)
Output == [Axes -> IF EnableLimit THEN Speed ELSE Speed \cup {NaN}]

VARIABLES
  twistAlive,      \* the node runs
  messageAge,      \* ticks since last_message_time_
  outputAge,       \* ticks since last_output_time_, up to DtCap
  watchdogAge,     \* ticks since the watchdog timer last fired
  previous,        \* previous_linear_x_, previous_angular_z_
  wheels,          \* external: the command the chassis carries out
  mcuTimeout,      \* external: the lower controller's watchdog; the repository
                   \* says 500 ms (architecture.md:163) and 250 ms (server.py:38),
                   \* against 300 ms + 100 ms of the host
  frameAge,        \* external: ticks since the last frame the chassis received
  lastWriteOk      \* history: the last frame written was received

node == <<twistAlive, messageAge, outputAge, watchdogAge, previous>>
chassis == <<wheels, mcuTimeout, frameAge, lastWriteOk>>
vars == <<node, chassis>>

Init ==
  /\ twistAlive = TRUE
  /\ messageAge = 0
  /\ outputAge = 0
  /\ watchdogAge = 0
  /\ previous = Zero
  /\ wheels = Zero
  /\ mcuTimeout \in McuTimeouts
  /\ frameAge = 0
  /\ lastWriteOk = TRUE

----------------------------------------------------------------------------
(* Pure helpers *)

Abs(x) == IF x < 0 THEN -x ELSE x
CopySign(magnitude, x) == IF x < 0 THEN -magnitude ELSE magnitude
Least(x, y) == IF x <= y THEN x ELSE y
Opposite(x, y) == (x < 0 /\ y > 0) \/ (x > 0 /\ y < 0)

LimitCommandAcceleration_reversal(prev, target, maxIncrease) ==  \* mutant: no stop on reversal
  IF NaN \in {target, prev} \/ MaxIncrease = 0 THEN 0
  ELSE IF Abs(target) <= Abs(prev) THEN target
  ELSE CopySign(Least(Abs(target), Abs(prev) + maxIncrease), target)

(* maxIncrease counts whole speed units: 0 is an increase of less than one, *)
(* which the code allows; it commands zero only for a limit of zero.        *)
LimitCommandAcceleration(prev, target, maxIncrease) ==
  IF NaN \in {target, prev} \/ MaxIncrease = 0 THEN 0
  ELSE IF target = 0 \/ Opposite(prev, target) THEN 0
  ELSE IF Abs(target) <= Abs(prev) THEN target
  ELSE CopySign(Least(Abs(target), Abs(prev) + maxIncrease), target)

(* send_command: the frame reaches the chassis, or it does not (the port   *)
(* is closed, the write throws or is partial).                             *)
SendCommand(twist, received) ==
  /\ lastWriteOk' = received
  /\ IF received
     THEN wheels' = twist /\ frameAge' = 0
     ELSE UNCHANGED <<wheels, frameAge>>
  /\ UNCHANGED mcuTimeout

----------------------------------------------------------------------------
(* Actions *)

Due(dt) == dt \in 0..DtCap /\ dt \in (outputAge - 1)..(outputAge + 1)

TwistCallback_keepsTarget(msg, dt, received) ==  \* mutant: remembers what was asked for
  LET limited == [a \in Axes |->
                    IF EnableLimit
                    THEN LimitCommandAcceleration(previous[a], msg[a], MaxIncrease * dt)
                    ELSE msg[a]]
  IN  /\ twistAlive
      /\ Due(dt)
      /\ messageAge' = 0
      /\ previous' = msg
      /\ outputAge' = 0
      /\ SendCommand(limited, received)
      /\ UNCHANGED <<twistAlive, watchdogAge>>

(* dt is the time since the last output, capped; outputAge counts it to    *)
(* within one tick.                                                        *)
TwistCallback(msg, dt, received) ==
  LET limited == [a \in Axes |->
                    IF EnableLimit
                    THEN LimitCommandAcceleration(previous[a], msg[a], MaxIncrease * dt)
                    ELSE msg[a]]
  IN  /\ twistAlive
      /\ Due(dt)
      /\ messageAge' = 0
      /\ previous' = limited
      /\ outputAge' = 0
      /\ SendCommand(limited, received)
      /\ UNCHANGED <<twistAlive, watchdogAge>>

WatchdogDue == twistAlive /\ watchdogAge = WatchdogPeriod

WatchdogCallback_keepsLimiter(received) ==   \* mutant: the limiter is not reset
  /\ WatchdogDue
  /\ watchdogAge' = 0
  /\ IF messageAge >= WatchdogTimeout
     THEN SendCommand(Zero, received) /\ UNCHANGED <<outputAge, previous>>
     ELSE UNCHANGED <<outputAge, previous, chassis>>
  /\ UNCHANGED <<twistAlive, messageAge>>

WatchdogCallback_late(received) ==           \* mutant: the timeout must be exceeded
  /\ WatchdogDue
  /\ watchdogAge' = 0
  /\ IF messageAge > WatchdogTimeout
     THEN SendCommand(Zero, received) /\ previous' = Zero /\ outputAge' = 0
     ELSE UNCHANGED <<outputAge, previous, chassis>>
  /\ UNCHANGED <<twistAlive, messageAge>>

WatchdogCallback(received) ==
  /\ WatchdogDue
  /\ watchdogAge' = 0
  /\ IF messageAge >= WatchdogTimeout
     THEN /\ previous' = Zero          \* reset_acceleration_limiter
          /\ outputAge' = 0
          /\ SendCommand(Zero, received)
     ELSE UNCHANGED <<outputAge, previous, chassis>>
  /\ UNCHANGED <<twistAlive, messageAge>>

(* The process ends, and what it knew is gone with it.                     *)
Ends ==
  /\ twistAlive
  /\ twistAlive' = FALSE
  /\ messageAge' = 0 /\ outputAge' = 0 /\ watchdogAge' = 0
  /\ previous' = Zero

(* The node is shut down: its destructor sends zero.                       *)
Shutdown(received) ==
  /\ Ends
  /\ SendCommand(Zero, received)

(* The process is killed: nothing is sent.                                 *)
Crash ==
  /\ Ends
  /\ UNCHANGED chassis

(* One tick passes.  The chassis stops by itself when frames stay away.    *)
Tick ==
  /\ ~WatchdogDue
  /\ IF twistAlive
     THEN /\ messageAge' = Least(messageAge + 1, WatchdogTimeout + WatchdogPeriod)
          /\ outputAge' = Least(outputAge + 1, DtCap)
          /\ watchdogAge' = watchdogAge + 1
     ELSE UNCHANGED <<messageAge, outputAge, watchdogAge>>
  /\ frameAge' = Least(frameAge + 1, mcuTimeout)
  /\ wheels' = IF frameAge' = mcuTimeout THEN Zero ELSE wheels
  /\ UNCHANGED <<twistAlive, previous, mcuTimeout, lastWriteOk>>

Next ==
  \/ \E msg \in Twist, dt \in 0..DtCap, received \in BOOLEAN : TwistCallback(msg, dt, received)
  \/ \E received \in BOOLEAN : WatchdogCallback(received) \/ Shutdown(received)
  \/ Crash
  \/ Tick

Spec == Init /\ [][Next]_vars

----------------------------------------------------------------------------
TypeOK ==
  /\ twistAlive \in BOOLEAN
  /\ messageAge \in 0..(WatchdogTimeout + WatchdogPeriod)
  /\ outputAge \in 0..DtCap
  /\ watchdogAge \in 0..WatchdogPeriod
  /\ previous \in Output
  /\ wheels \in Output
  /\ mcuTimeout \in McuTimeouts
  /\ frameAge \in 0..mcuTimeout
  /\ lastWriteOk \in BOOLEAN

(* The lower controller has stopped the chassis before the host gave up,   *)
(* which it does only when its watchdog is the faster one.                 *)
StoppedByItself ==
  /\ wheels = Zero /\ frameAge = mcuTimeout
  /\ mcuTimeout < WatchdogTimeout + WatchdogPeriod

(* What the limiter remembers is what the chassis does, as long as frames  *)
(* arrive, through timeouts, limited commands and stops: the limiter is    *)
(* wrong only when the lower controller stops behind its back.             *)
LimiterKnowsChassis ==
  twistAlive /\ lastWriteOk => wheels = previous \/ StoppedByItself

(* commands.md:191: no command jump when a stop is released.  A frame      *)
(* never reverses the speed without a stop in between, and never raises it *)
(* by more than the capped acceleration allows, with one exception: after  *)
(* a chassis has stopped by itself the first frame may command the speed   *)
(* the limiter still remembers, and its acceleration on top, from rest.    *)
NoCommandJump ==
  [][EnableLimit /\ lastWriteOk =>
       \A a \in Axes :
         LET known == IF StoppedByItself THEN previous[a] ELSE wheels[a]
         IN  /\ ~Opposite(wheels[a], wheels'[a])
             /\ Abs(wheels'[a]) <= Abs(known) + MaxIncrease * DtCap]_vars

(* However the node dies and whichever frames are lost, a chassis in       *)
(* motion has heard a frame within the lower controller's timeout, and     *)
(* while the host lives and its frames arrive, a command within the host's.*)
MotionIsFresh ==
  wheels # Zero =>
    /\ frameAge < mcuTimeout
    /\ twistAlive /\ lastWriteOk => messageAge < WatchdogTimeout + WatchdogPeriod

(* Why MotionIsFresh holds: a motion the limiter remembers was commanded   *)
(* within the timeout when the watchdog last looked, and the chassis has   *)
(* heard every command since.                                              *)
MotionIsCommanded ==
  twistAlive /\ lastWriteOk /\ previous # Zero =>
    /\ messageAge < WatchdogTimeout + watchdogAge
    /\ frameAge <= messageAge

IInv == TypeOK /\ LimiterKnowsChassis /\ MotionIsFresh /\ MotionIsCommanded
=============================================================================
