------------------------- MODULE TravelChain_proofs -------------------------
(***************************************************************************)
(* Theorems about TravelChain, for any timeouts and periods, any commands  *)
(* and queue depth, and any reduction of a command that keeps a stop.      *)
(***************************************************************************)
EXTENDS TravelChain, TLAPS

-----------------------------------------------------------------------------
(* The serial output by itself: TwistCtl, for any speeds, axes, timeouts   *)
(* and periods that satisfy its assumptions.                               *)

(* The limiter's result for one axis: a number, no reversal, and no larger *)
(* than the previous command by more than the increase allowed.            *)
LEMMA LimiterResult ==
  ASSUME NEW prev \in Speed, NEW target \in Speed \cup {NaN}, NEW inc \in Nat
  PROVE  /\ LimitCommandAcceleration(prev, target, inc) \in Speed
         /\ ~Opposite(prev, LimitCommandAcceleration(prev, target, inc))
         /\ Abs(LimitCommandAcceleration(prev, target, inc)) <= Abs(prev) + inc
<1> DEFINE r == LimitCommandAcceleration(prev, target, inc)
<1>0. MaxSpeed \in Nat /\ MaxIncrease \in Nat /\ NaN \notin Int
  BY TwistCtlConstants
<1>1. prev \in Int /\ prev # NaN /\ -MaxSpeed <= prev /\ prev <= MaxSpeed
  BY <1>0 DEF Speed
<1>2. CASE r = 0
  BY <1>0, <1>1, <1>2 DEF Speed, Opposite, Abs
<1>3. CASE r # 0
  <2>1. target # NaN /\ target # 0 /\ ~Opposite(prev, target)
    BY <1>3 DEF LimitCommandAcceleration
  <2>2. target \in Int /\ -MaxSpeed <= target /\ target <= MaxSpeed
    BY <1>0, <2>1 DEF Speed
  <2>3. r = IF Abs(target) <= Abs(prev) THEN target
            ELSE CopySign(Least(Abs(target), Abs(prev) + inc), target)
    BY <1>3 DEF LimitCommandAcceleration
  <2> QED
    BY <1>0, <1>1, <2>1, <2>2, <2>3 DEF Speed, Opposite, Abs, CopySign, Least
<1> QED
  BY <1>2, <1>3

(* A command of zero is written as zero.                                   *)
LEMMA ZeroStaysZero ==
  ASSUME NEW prev, NEW inc
  PROVE  LimitCommandAcceleration(prev, 0, inc) = 0
  BY DEF LimitCommandAcceleration

(* The increase grows with the capped time step.                           *)
LEMMA IncreaseBound ==
  ASSUME NEW dt \in 0..DtCap
  PROVE  /\ MaxIncrease * dt \in Nat
         /\ MaxIncrease * dt <= MaxIncrease * DtCap
<1>1. MaxIncrease \in Nat /\ DtCap \in Nat
  BY TwistCtlConstants
<1> QED
  BY <1>1

(* What twist_callback writes.                                             *)
Limited(msg, dt) ==
  [a \in Axes |-> IF EnableLimit
                  THEN LimitCommandAcceleration(previous[a], msg[a], MaxIncrease * dt)
                  ELSE msg[a]]

LEMMA LimitedIsOutput ==
  ASSUME TypeOK, NEW msg \in Twist, NEW dt \in 0..DtCap
  PROVE  Limited(msg, dt) \in Output
<1> SUFFICES ASSUME NEW a \in Axes
             PROVE  (IF EnableLimit
                     THEN LimitCommandAcceleration(previous[a], msg[a], MaxIncrease * dt)
                     ELSE msg[a]) \in IF EnableLimit THEN Speed ELSE Speed \cup {NaN}
  BY DEF Limited, Output
<1>1. msg[a] \in Speed \cup {NaN}
  BY DEF Twist
<1>2. CASE EnableLimit
  <2>1. previous[a] \in Speed
    BY <1>2 DEF TypeOK, Output
  <2> QED
    BY <1>1, <1>2, <2>1, IncreaseBound, LimiterResult
<1>3. CASE ~EnableLimit
  BY <1>1, <1>3
<1> QED
  BY <1>2, <1>3, TwistCtlConstants

LEMMA ZeroIsOutput == Zero \in Output
<1>1. 0 \in Speed
  BY TwistCtlConstants DEF Speed
<1> QED
  BY <1>1 DEF Zero, Output

LEMMA InitIInv == Init => IInv
<1> SUFFICES ASSUME Init PROVE IInv
  OBVIOUS
<1>1. TypeOK
  BY ZeroIsOutput, TwistCtlConstants DEF Init, TypeOK
<1> QED
  BY <1>1 DEF Init, IInv, LimiterKnowsChassis, MotionIsFresh, MotionIsCommanded

LEMMA TwistCallbackIInv ==
  ASSUME IInv, NEW msg \in Twist, NEW dt \in 0..DtCap, NEW received \in BOOLEAN,
         TwistCallback(msg, dt, received)
  PROVE  IInv'
<1> USE DEF IInv
<1>1. /\ twistAlive /\ twistAlive' = TRUE
      /\ messageAge' = 0 /\ outputAge' = 0 /\ watchdogAge' = watchdogAge
      /\ previous' = Limited(msg, dt)
      /\ SendCommand(Limited(msg, dt), received)
  BY DEF TwistCallback, Limited, TypeOK
<1>2. Limited(msg, dt) \in Output
  BY LimitedIsOutput
<1>3. WatchdogTimeout \in Nat \ {0} /\ WatchdogPeriod \in Nat \ {0}
      /\ mcuTimeout \in Nat \ {0} /\ mcuTimeout' = mcuTimeout /\ DtCap \in Nat
  BY <1>1, TwistCtlConstants DEF SendCommand, TypeOK
<1>4. TypeOK'
  BY <1>1, <1>2, <1>3 DEF TypeOK, SendCommand
<1>5. LimiterKnowsChassis'
  BY <1>1 DEF LimiterKnowsChassis, SendCommand
<1>6. MotionIsFresh'
  BY <1>1, <1>3 DEF MotionIsFresh, TypeOK, SendCommand
<1>7. MotionIsCommanded'
  BY <1>1, <1>3 DEF MotionIsCommanded, TypeOK, SendCommand
<1> QED
  BY <1>4, <1>5, <1>6, <1>7

LEMMA WatchdogCallbackIInv ==
  ASSUME IInv, NEW received \in BOOLEAN, WatchdogCallback(received)
  PROVE  IInv'
<1> USE DEF IInv
<1>1. WatchdogTimeout \in Nat \ {0} /\ WatchdogPeriod \in Nat \ {0}
      /\ mcuTimeout \in Nat \ {0} /\ mcuTimeout' = mcuTimeout /\ DtCap \in Nat
  BY TwistCtlConstants DEF WatchdogCallback, SendCommand, chassis, TypeOK
<1>2. /\ twistAlive /\ twistAlive' = twistAlive
      /\ watchdogAge' = 0 /\ messageAge' = messageAge
  BY DEF WatchdogCallback, WatchdogDue
<1>3. CASE messageAge >= WatchdogTimeout
  <2>1. previous' = Zero /\ outputAge' = 0 /\ SendCommand(Zero, received)
    BY <1>3 DEF WatchdogCallback
  <2> QED
    BY <1>1, <1>2, <2>1, ZeroIsOutput
       DEF TypeOK, LimiterKnowsChassis, StoppedByItself, MotionIsFresh, MotionIsCommanded, SendCommand
<1>4. CASE ~(messageAge >= WatchdogTimeout)
  <2>1. previous' = previous /\ outputAge' = outputAge /\ wheels' = wheels
        /\ frameAge' = frameAge /\ lastWriteOk' = lastWriteOk
    BY <1>4 DEF WatchdogCallback, chassis
  <2> QED
    BY <1>1, <1>2, <1>4, <2>1
       DEF TypeOK, LimiterKnowsChassis, StoppedByItself, MotionIsFresh, MotionIsCommanded
<1> QED
  BY <1>3, <1>4

LEMMA ShutdownIInv ==
  ASSUME IInv, NEW received \in BOOLEAN, Shutdown(received) \/ Crash
  PROVE  IInv'
<1> USE DEF IInv
<1>1. /\ twistAlive' = FALSE /\ messageAge' = 0 /\ outputAge' = 0 /\ watchdogAge' = 0
      /\ previous' = Zero
  BY DEF Shutdown, Crash, Ends
<1>3. SendCommand(Zero, received) \/ UNCHANGED chassis
  BY DEF Shutdown, Crash
<1>2. mcuTimeout \in Nat \ {0} /\ mcuTimeout' = mcuTimeout
  BY <1>3, TwistCtlConstants DEF SendCommand, chassis, TypeOK
<1>4. \/ wheels' = Zero /\ frameAge' = 0
      \/ wheels' = wheels /\ frameAge' = frameAge
  BY <1>3 DEF SendCommand, chassis
<1>5. lastWriteOk' \in BOOLEAN
  BY <1>3 DEF SendCommand, chassis, TypeOK
<1>6. TypeOK'
  <2>1. wheels' \in Output /\ frameAge' \in 0..mcuTimeout
    BY <1>2, <1>4, ZeroIsOutput DEF TypeOK
  <2>2. messageAge' \in 0..(WatchdogTimeout + WatchdogPeriod) /\ outputAge' \in 0..DtCap
        /\ watchdogAge' \in 0..WatchdogPeriod /\ previous' \in Output
    BY <1>1, ZeroIsOutput, TwistCtlConstants
  <2>3. mcuTimeout' \in McuTimeouts
    BY <1>2 DEF TypeOK
  <2> QED
    BY <1>1, <1>2, <1>5, <2>1, <2>2, <2>3 DEF TypeOK
<1>7. MotionIsFresh'
  BY <1>1, <1>2, <1>4 DEF MotionIsFresh
<1>8. LimiterKnowsChassis' /\ MotionIsCommanded'
  BY <1>1 DEF LimiterKnowsChassis, MotionIsCommanded
<1> QED
  BY <1>6, <1>7, <1>8

LEMMA BelowBoth ==
  ASSUME NEW m \in Nat, NEW w \in Nat, NEW x \in Nat, NEW p \in Nat, x <= p, m < w + x
  PROVE  m < w + p
  OBVIOUS

LEMMA TickIInv ==
  ASSUME IInv, Tick
  PROVE  IInv'
<1> USE DEF IInv
<1>1. WatchdogTimeout \in Nat \ {0} /\ WatchdogPeriod \in Nat \ {0}
      /\ mcuTimeout \in Nat \ {0} /\ mcuTimeout' = mcuTimeout /\ DtCap \in Nat \ {0}
  BY TwistCtlConstants DEF Tick, TypeOK
<1>2. /\ UNCHANGED <<twistAlive, previous, lastWriteOk>>
      /\ frameAge' = Least(frameAge + 1, mcuTimeout)
      /\ wheels' = IF frameAge' = mcuTimeout THEN Zero ELSE wheels
  BY DEF Tick
<1>3. CASE twistAlive
  <2>1. watchdogAge < WatchdogPeriod /\ watchdogAge' = watchdogAge + 1
    BY <1>1, <1>3 DEF Tick, WatchdogDue, TypeOK
  <2>2. messageAge' = Least(messageAge + 1, WatchdogTimeout + WatchdogPeriod)
        /\ outputAge' = Least(outputAge + 1, DtCap)
    BY <1>3 DEF Tick
  <2>3. TypeOK'
    BY <1>1, <1>2, <2>1, <2>2, ZeroIsOutput DEF TypeOK, Least
  <2>4. ASSUME lastWriteOk, previous # Zero
        PROVE  /\ messageAge' < WatchdogTimeout + watchdogAge'
               /\ frameAge' <= messageAge'
    BY <1>1, <1>2, <1>3, <2>1, <2>2, <2>4 DEF TypeOK, MotionIsCommanded, Least
  <2>8. watchdogAge' <= WatchdogPeriod /\ watchdogAge' \in Nat
    BY <1>1, <2>1 DEF TypeOK
  <2>9. messageAge' \in Nat
    BY <1>1, <2>2 DEF TypeOK, Least
  <2>10. messageAge' < WatchdogTimeout + watchdogAge' => messageAge' < WatchdogTimeout + WatchdogPeriod
    BY <1>1, <2>8, <2>9, BelowBoth
  <2>5. LimiterKnowsChassis'
    <3>1. SUFFICES ASSUME lastWriteOk, wheels' # previous
                   PROVE  StoppedByItself'
      BY <1>2 DEF LimiterKnowsChassis
    <3>2. CASE wheels = previous
      <4>1. wheels' = Zero /\ frameAge' = mcuTimeout /\ previous # Zero
        BY <1>2, <3>1, <3>2
      <4>2. messageAge' < WatchdogTimeout + watchdogAge' /\ frameAge' <= messageAge'
        BY <2>4, <3>1, <4>1
      <4>4. mcuTimeout <= messageAge'
        BY <4>1, <4>2
      <4>5. mcuTimeout < WatchdogTimeout + WatchdogPeriod
        BY <1>1, <2>9, <2>10, <4>2, <4>4
      <4> QED
        BY <1>1, <4>1, <4>5 DEF StoppedByItself
    <3>3. CASE StoppedByItself
      BY <1>1, <1>2, <3>3 DEF StoppedByItself, Least
    <3> QED
      BY <1>3, <3>1, <3>2, <3>3 DEF LimiterKnowsChassis
  <2>6. MotionIsCommanded'
    BY <1>2, <2>4 DEF MotionIsCommanded
  <2>7. MotionIsFresh'
    <3>1. wheels' # Zero => frameAge' < mcuTimeout
      BY <1>1, <1>2 DEF TypeOK, Least
    <3>2. ASSUME wheels' # Zero, lastWriteOk
          PROVE  messageAge' < WatchdogTimeout + WatchdogPeriod
      <4>1. previous # Zero
        BY <1>2, <1>3, <3>2 DEF LimiterKnowsChassis, StoppedByItself
      <4>2. messageAge' < WatchdogTimeout + watchdogAge'
        BY <1>2, <2>4, <3>2, <4>1
      <4> QED
        BY <2>10, <4>2
    <3> QED
      BY <1>1, <1>2, <3>1, <3>2 DEF MotionIsFresh
  <2> QED
    BY <2>3, <2>5, <2>6, <2>7
<1>4. CASE ~twistAlive
  <2>1. UNCHANGED <<messageAge, outputAge, watchdogAge>>
    BY <1>4 DEF Tick
  <2> QED
    BY <1>1, <1>2, <1>4, <2>1, ZeroIsOutput
       DEF TypeOK, LimiterKnowsChassis, StoppedByItself, MotionIsFresh, MotionIsCommanded, Least
<1> QED
  BY <1>3, <1>4

LEMMA StutterIInv ==
  ASSUME IInv, UNCHANGED vars
  PROVE  IInv'
  BY DEF IInv, vars, node, chassis, TypeOK, LimiterKnowsChassis, StoppedByItself, MotionIsFresh, MotionIsCommanded

LEMMA NextIInv == IInv /\ [Next]_vars => IInv'
<1> SUFFICES ASSUME IInv, [Next]_vars PROVE IInv'
  OBVIOUS
<1>1. CASE \E msg \in Twist, dt \in 0..DtCap, received \in BOOLEAN : TwistCallback(msg, dt, received)
  BY <1>1, TwistCallbackIInv
<1>2. CASE \E received \in BOOLEAN : WatchdogCallback(received) \/ Shutdown(received)
  BY <1>2, WatchdogCallbackIInv, ShutdownIInv
<1>3. CASE Crash
  BY <1>3, ShutdownIInv
<1>4. CASE Tick
  BY <1>4, TickIInv
<1>5. CASE UNCHANGED vars
  BY <1>5, StutterIInv
<1> QED
  BY <1>1, <1>2, <1>3, <1>4, <1>5 DEF Next

LEMMA Invariance == Spec => []IInv
<1> QED
  BY InitIInv, NextIInv, PTL DEF Spec

(* Every variable keeps its type; with the limiter on, only numbers are    *)
(* written to the serial line.                                             *)
THEOREM TypeCorrect == Spec => []TypeOK
<1>1. IInv => TypeOK
  BY DEF IInv
<1> QED
  BY <1>1, Invariance, PTL

(* While frames arrive, the limiter works from the speed the chassis has,  *)
(* unless a faster watchdog of the chassis has stopped it.                 *)
THEOREM LimiterIsRight == Spec => []LimiterKnowsChassis
<1>1. IInv => LimiterKnowsChassis
  BY DEF IInv
<1> QED
  BY <1>1, Invariance, PTL

(* Lost frames, a dead node or missing commands never leave the chassis in *)
(* motion beyond the timeout of the layer that is still there.             *)
THEOREM StopsInTime == Spec => []MotionIsFresh
<1>1. IInv => MotionIsFresh
  BY DEF IInv
<1> QED
  BY <1>1, Invariance, PTL

(* What one step may do to the chassis.                                    *)
Known(a) == IF StoppedByItself THEN previous[a] ELSE wheels[a]

SmoothStep ==
  EnableLimit /\ lastWriteOk =>
    \A a \in Axes : /\ ~Opposite(wheels[a], wheels'[a])
                    /\ Abs(wheels'[a]) <= Abs(Known(a)) + MaxIncrease * DtCap

LEMMA StepIsSmooth ==
  ASSUME IInv, Next
  PROVE  SmoothStep
<1> SUFFICES ASSUME EnableLimit, lastWriteOk, NEW a \in Axes
             PROVE  /\ ~Opposite(wheels[a], wheels'[a])
                    /\ Abs(wheels'[a]) <= Abs(Known(a)) + MaxIncrease * DtCap
  BY DEF SmoothStep
<1>1. wheels[a] \in Speed /\ previous[a] \in Speed
  BY DEF IInv, TypeOK, Output
<1>2. /\ wheels[a] \in Int /\ previous[a] \in Int /\ Known(a) \in Int
      /\ MaxIncrease * DtCap \in Nat
  BY <1>1, TwistCtlConstants DEF Speed, Known
<1>8. StoppedByItself => wheels[a] = 0
  BY DEF StoppedByItself, Zero
<1>3. wheels'[a] \in {wheels[a], 0} =>
         /\ ~Opposite(wheels[a], wheels'[a])
         /\ Abs(wheels'[a]) <= Abs(Known(a)) + MaxIncrease * DtCap
  BY <1>2, <1>8 DEF Opposite, Abs, Known
<1>4. ASSUME NEW msg \in Twist, NEW dt \in 0..DtCap, NEW received \in BOOLEAN,
             TwistCallback(msg, dt, received), received
      PROVE  /\ ~Opposite(wheels[a], wheels'[a])
             /\ Abs(wheels'[a]) <= Abs(Known(a)) + MaxIncrease * DtCap
  <2>1. Known(a) = previous[a]
    BY <1>4 DEF IInv, LimiterKnowsChassis, TwistCallback, Known
  <2>2. wheels'[a] = LimitCommandAcceleration(previous[a], msg[a], MaxIncrease * dt)
    BY <1>4 DEF TwistCallback, SendCommand
  <2>3. msg[a] \in Speed \cup {NaN}
    BY DEF Twist
  <2>4. /\ wheels'[a] \in Speed
        /\ ~Opposite(previous[a], wheels'[a])
        /\ Abs(wheels'[a]) <= Abs(previous[a]) + MaxIncrease * dt
    BY <1>1, <2>2, <2>3, IncreaseBound, LimiterResult
  <2>5. wheels'[a] \in Int
    BY <2>4, TwistCtlConstants DEF Speed
  <2>6. ~Opposite(wheels[a], wheels'[a])
    BY <1>2, <1>8, <2>1, <2>4, <2>5 DEF Known, Opposite
  <2> QED
    BY <1>2, <2>1, <2>4, <2>5, <2>6, IncreaseBound DEF Abs
<1>5. ASSUME NEW msg \in Twist, NEW dt \in 0..DtCap, NEW received \in BOOLEAN,
             TwistCallback(msg, dt, received), ~received
      PROVE  wheels'[a] = wheels[a]
  BY <1>5 DEF TwistCallback, SendCommand
<1>6. ASSUME NEW received \in BOOLEAN, WatchdogCallback(received) \/ Shutdown(received)
      PROVE  wheels'[a] \in {wheels[a], 0}
  BY <1>6 DEF WatchdogCallback, Shutdown, SendCommand, chassis, Zero
<1>7. CASE Crash \/ Tick
  <2>1. wheels'[a] \in {wheels[a], 0}
    BY <1>7 DEF Crash, Tick, chassis, Zero
  <2> QED
    BY <1>3, <2>1
<1> QED
  BY <1>3, <1>4, <1>5, <1>6, <1>7 DEF Next

(* No frame reverses the speed without a stop, or raises it by more than   *)
(* the capped acceleration above what the chassis did, or, after a stop of *)
(* its own, above what the limiter remembers.                              *)
THEOREM NoJump == Spec => NoCommandJump
<1>1. IInv /\ [Next]_vars =>
        [EnableLimit /\ lastWriteOk =>
           \A a \in Axes :
             LET known == IF StoppedByItself THEN previous[a] ELSE wheels[a]
             IN  /\ ~Opposite(wheels[a], wheels'[a])
                 /\ Abs(wheels'[a]) <= Abs(known) + MaxIncrease * DtCap]_vars
  BY StepIsSmooth DEF SmoothStep, Known
<1> QED
  BY <1>1, Invariance, PTL DEF Spec, NoCommandJump

-----------------------------------------------------------------------------
(* The chain.                                                              *)

OnlyStops(q) == \A i \in DOMAIN q : q[i] = Stop

(* A published message is on the topic; stops on stops stay stops.         *)
LEMMA PublishLemma ==
  ASSUME NEW q \in Seq(Commands), NEW msg \in Commands
  PROVE  /\ Publish(q, msg) \in Seq(Commands)
         /\ Publish(q, msg) # << >>
         /\ OnlyStops(q) /\ msg = Stop => OnlyStops(Publish(q, msg))
<1>0. Depth \in Nat \ {0}
  BY CmdGateConstants
<1>1. CASE Len(q) < Depth
  <2>1. Publish(q, msg) = Append(q, msg)
    BY <1>1 DEF Publish
  <2> QED
    BY <2>1 DEF OnlyStops
<1>2. CASE ~(Len(q) < Depth)
  <2>1. q # << >>
    BY <1>0, <1>2
  <2>2. Tail(q) \in Seq(Commands) /\ (OnlyStops(q) => OnlyStops(Tail(q)))
    BY <2>1 DEF OnlyStops
  <2>3. Publish(q, msg) = Append(Tail(q), msg)
    BY <1>2 DEF Publish
  <2> QED
    BY <2>2, <2>3 DEF OnlyStops
<1> QED
  BY <1>1, <1>2

(* Taking a message from a topic.                                          *)
LEMMA TakeLemma ==
  ASSUME NEW q \in Seq(Commands), q # << >>
  PROVE  /\ Head(q) \in Commands
         /\ Tail(q) \in Seq(Commands)
         /\ OnlyStops(q) => Head(q) = Stop /\ OnlyStops(Tail(q))
  BY DEF OnlyStops

LEMMA EmptyLemma == << >> \in Seq(Commands) /\ OnlyStops(<< >>)
  BY DEF OnlyStops

(* What any step of the gate does: it publishes nothing but stops unless   *)
(* the vehicle may move, and its timer never runs without a stop unless    *)
(* the vehicle may move.                                                   *)
GateEffect ==
  /\ GateTypeOK'
  /\ gateAlive' => gateAlive
  /\ \/ localized' = localized /\ (gateTimer' = gateTimer \/ Permitted' \/ ~gateAlive')
     \/ \E m \in Commands : localized' = Publish(localized, m) /\ (m = Stop \/ Permitted')

LEMMA ReceivedLemma ==
  ASSUME GateTypeOK, NEW i \in Inputs, Received(i)
  PROVE  /\ age' \in [Inputs -> Nat]
         /\ \A j \in Inputs : age'[j] <= Timeout[j] + 1
         /\ age'[i] <= Timeout[i]
         /\ \A j \in Inputs \ {i} : age'[j] = age[j]
<1>1. Timeout \in [Inputs -> Nat]
  BY CmdGateConstants
<1>2. age \in [Inputs -> Nat] /\ \A j \in Inputs : age[j] <= Timeout[j] + 1
  BY DEF GateTypeOK
<1>3. age' = [age EXCEPT ![i] = 0]
  BY DEF Received
<1>4. age' \in [Inputs -> Nat] /\ age'[i] = 0
  BY <1>2, <1>3
<1>5. \A j \in Inputs \ {i} : age'[j] = age[j]
  BY <1>2, <1>3
<1>6. Timeout[i] \in Nat
  BY <1>1
<1>7. age'[i] <= Timeout[i]
  BY <1>4, <1>6
<1>8. ASSUME NEW j \in Inputs PROVE age'[j] <= Timeout[j] + 1
  <2>1. CASE j = i
    BY <2>1, <1>4, <1>6
  <2>2. CASE j # i
    BY <2>2, <1>2, <1>5
  <2> QED
    BY <2>1, <2>2
<1> QED
  BY <1>4, <1>5, <1>7, <1>8

LEMMA StopIsCommand == Stop \in Commands
  BY CmdGateConstants

LEMMA GateStepEffect ==
  ASSUME GateTypeOK, GateStep
  PROVE  GateEffect
<1> USE StopIsCommand
<1>0. localized \in Seq(Commands)
  BY DEF GateTypeOK
<1>1. ASSUME NEW ready \in BOOLEAN, OnStatus(ready) PROVE GateEffect
  <2>1. "status" \in Inputs /\ Received("status")
    BY <1>1 DEF OnStatus, Inputs
  <2>2. \/ localized' = localized
        \/ localized' = Publish(localized, Stop)
    BY <1>1 DEF OnStatus
  <2>3. localized' \in Seq(Commands)
    BY <1>0, <2>2, PublishLemma
  <2>4. UNCHANGED <<gateAlive, authority_active, gateTimer>> /\ sensors_ready' = ready
    BY <1>1 DEF OnStatus
  <2>5. GateTypeOK'
    BY <2>1, <2>3, <2>4, ReceivedLemma DEF GateTypeOK
  <2> QED
    BY <2>2, <2>4, <2>5 DEF GateEffect
<1>2. ASSUME NEW msg \in Commands, OnCmdVel(msg) PROVE GateEffect
  <2>1. "cmd" \in Inputs /\ Received("cmd")
    BY <1>2 DEF OnCmdVel, Inputs
  <2>2. UNCHANGED <<gateAlive, sensors_ready, authority_active, gateTimer>>
    BY <1>2 DEF OnCmdVel
  <2>3. CASE IsAllowed
    <3>1. localized' = Publish(localized, msg)
      BY <1>2, <2>3 DEF OnCmdVel
    <3>2. \A i \in Inputs : age'[i] <= Timeout[i]
      BY <2>1, <2>3, ReceivedLemma DEF IsAllowed, IsFresh, Inputs
    <3>3. Permitted'
      BY <1>2, <2>2, <2>3, <3>2 DEF Permitted, IsAllowed, OnCmdVel
    <3>4. localized' \in Seq(Commands)
      BY <1>0, <3>1, PublishLemma
    <3>5. GateTypeOK'
      BY <2>1, <2>2, <3>4, ReceivedLemma DEF GateTypeOK
    <3> QED
      BY <2>2, <3>1, <3>3, <3>5 DEF GateEffect
  <2>4. CASE ~IsAllowed
    <3>1. localized' = Publish(localized, Stop)
      BY <1>2, <2>4 DEF OnCmdVel
    <3>2. localized' \in Seq(Commands)
      BY <1>0, <3>1, PublishLemma
    <3>3. GateTypeOK'
      BY <2>1, <2>2, <3>2, ReceivedLemma DEF GateTypeOK
    <3> QED
      BY <2>2, <3>1, <3>3 DEF GateEffect
  <2> QED
    BY <2>3, <2>4
<1>3. CASE OnObstacle
  <2>1. "obstacle" \in Inputs /\ Received("obstacle")
    BY <1>3 DEF OnObstacle, Inputs
  <2>2. UNCHANGED <<gateAlive, sensors_ready, authority_active, gateTimer, localized>>
    BY <1>3 DEF OnObstacle
  <2>3. GateTypeOK'
    BY <2>1, <2>2, ReceivedLemma DEF GateTypeOK
  <2> QED
    BY <2>2, <2>3 DEF GateEffect
<1>4. ASSUME NEW active \in BOOLEAN, OnAuthority(active) PROVE GateEffect
  <2>1. "authority" \in Inputs /\ Received("authority")
    BY <1>4 DEF OnAuthority, Inputs
  <2>2. UNCHANGED <<gateAlive, sensors_ready, gateTimer, localized>> /\ authority_active' = active
    BY <1>4 DEF OnAuthority
  <2>3. GateTypeOK'
    BY <2>1, <2>2, ReceivedLemma DEF GateTypeOK
  <2> QED
    BY <2>2, <2>3 DEF GateEffect
<1>5. CASE OnTimer
  <2>1. UNCHANGED <<gateAlive, sensors_ready, authority_active, age>> /\ gateTimer' = 0 /\ gateAlive
    BY <1>5 DEF OnTimer, GateTimerDue
  <2>2. 0 \in 0..GatePeriod
    BY CmdGateConstants
  <2>3. CASE IsAllowed /\ IsFresh("cmd")
    <3>1. localized' = localized
      BY <1>5, <2>3 DEF OnTimer
    <3>2. Permitted'
      BY <2>1, <2>3 DEF Permitted, IsAllowed, IsFresh, Inputs
    <3>3. GateTypeOK'
      BY <2>1, <2>2, <3>1 DEF GateTypeOK
    <3> QED
      BY <2>1, <3>1, <3>2, <3>3 DEF GateEffect
  <2>4. CASE ~(IsAllowed /\ IsFresh("cmd"))
    <3>1. localized' = Publish(localized, Stop)
      BY <1>5, <2>4 DEF OnTimer
    <3>2. localized' \in Seq(Commands)
      BY <1>0, <3>1, PublishLemma
    <3>3. GateTypeOK'
      BY <2>1, <2>2, <3>2 DEF GateTypeOK
    <3> QED
      BY <2>1, <3>1, <3>3 DEF GateEffect
  <2> QED
    BY <2>3, <2>4
<1>6. CASE GateCrash
  <2>1. Timeout \in [Inputs -> Nat] /\ 0 \in 0..GatePeriod
    BY CmdGateConstants
  <2>2. age' = [i \in Inputs |-> Timeout[i] + 1]
    BY <1>6 DEF GateCrash
  <2>3. age' \in [Inputs -> Nat] /\ \A i \in Inputs : age'[i] <= Timeout[i] + 1
    BY <2>1, <2>2
  <2>4. GateTypeOK'
    BY <1>6, <2>1, <2>3 DEF GateCrash, GateTypeOK
  <2> QED
    BY <1>6, <2>4 DEF GateCrash, GateEffect
<1> QED
  BY <1>1, <1>2, <1>3, <1>4, <1>5, <1>6 DEF GateStep

----------------------------------------------------------------------------
(* A stop taken by the serial node stops the chassis if the frame arrives. *)
LEMMA StopStops ==
  ASSUME NEW dt, TwistCallback(Stop, dt, TRUE)
  PROVE  wheels' = Zero
<1>1. Stop = Zero
  BY TravelChainConstants
<1>2. \A a \in Axes : Zero[a] = 0
  BY DEF Zero
<1>3. [a \in Axes |-> IF EnableLimit
                      THEN LimitCommandAcceleration(previous[a], Zero[a], MaxIncrease * dt)
                      ELSE Zero[a]] = [a \in Axes |-> 0]
  BY <1>2, ZeroStaysZero
<1> QED
  BY <1>1, <1>3 DEF TwistCallback, SendCommand, Zero

LEMMA ChainInitIInv == ChainInit => ChainIInv
<1> SUFFICES ASSUME ChainInit PROVE ChainIInv
  OBVIOUS
<1>1. IInv /\ TypeOK
  BY InitIInv DEF ChainInit, IInv
<1>2. Timeout \in [Inputs -> Nat] /\ GatePeriod \in Nat /\ mcuTimeout \in Nat
  BY <1>1, CmdGateConstants, TwistCtlConstants DEF TypeOK
<1>3. GateTypeOK
  <2>1. age \in [Inputs -> Nat] /\ \A i \in Inputs : age[i] <= Timeout[i] + 1
    BY <1>2 DEF ChainInit, GateInit
  <2>2. localized \in Seq(Commands)
    BY EmptyLemma DEF ChainInit, GateInit
  <2>3. gateAlive \in BOOLEAN /\ sensors_ready \in BOOLEAN /\ authority_active \in BOOLEAN
    BY DEF ChainInit, GateInit
  <2>4. gateTimer \in 0..GatePeriod
    BY <1>2 DEF ChainInit, GateInit
  <2> QED
    BY <2>1, <2>2, <2>3, <2>4 DEF GateTypeOK
<1>4. ChainTypeOK
  BY <1>1, <1>2, <1>3, EmptyLemma DEF ChainInit, ChainTypeOK
<1> QED
  BY <1>1, <1>4
     DEF ChainInit, Init, ChainIInv, OnlyStopsUnderWay, MotionWasPermitted, StopIsUnderWay

LEMMA GateActionIInv ==
  ASSUME ChainIInv, GateAction
  PROVE  ChainIInv'
<1>1. GateEffect
  BY GateStepEffect DEF GateAction, ChainIInv, ChainTypeOK
<1>2. /\ UNCHANGED vars /\ UNCHANGED <<monitorAlive, safe>>
      /\ blocked' = IF Permitted' THEN 0 ELSE blocked
  BY DEF GateAction, StillBlocked
<1>3. UNCHANGED <<twistAlive, messageAge, outputAge, watchdogAge, previous, wheels, mcuTimeout, frameAge, lastWriteOk>>
  BY <1>2 DEF vars, node, chassis
<1>4. IInv' /\ TypeOK'
  BY <1>2, StutterIInv DEF ChainIInv, IInv
<1>5. mcuTimeout \in Nat /\ blocked \in Nat /\ localized \in Seq(Commands)
  BY TwistCtlConstants DEF ChainIInv, ChainTypeOK, GateTypeOK, TypeOK
<1>6. ChainTypeOK'
  BY <1>1, <1>2, <1>3, <1>4, <1>5 DEF ChainIInv, ChainTypeOK, GateEffect
<1>7. OnlyStopsUnderWay'
  <2>1. Permitted' => blocked' = 0
    BY <1>2
  <2>2. ASSUME blocked' > 0
        PROVE  OnlyStops(localized') /\ OnlyStops(safe')
    <3>1. ~Permitted' /\ blocked' = blocked
      BY <1>2, <2>2, <1>5
    <3>2. OnlyStops(localized) /\ OnlyStops(safe)
      BY <3>1, <2>2 DEF ChainIInv, OnlyStopsUnderWay, OnlyStops
    <3>3. localized' = localized \/ localized' = Publish(localized, Stop)
      BY <1>1, <3>1 DEF GateEffect
    <3> QED
      BY <1>2, <1>5, <3>2, <3>3, PublishLemma, StopIsCommand
  <2>3. blocked' > 0 => /\ \A i \in DOMAIN localized' : localized'[i] = Stop
                       /\ \A i \in DOMAIN safe' : safe'[i] = Stop
    BY <2>2 DEF OnlyStops
  <2> QED
    BY <2>1, <2>3 DEF OnlyStopsUnderWay
<1>8. MotionWasPermitted'
  BY <1>2, <1>3, <1>5 DEF ChainIInv, ChainTypeOK, TypeOK, MotionWasPermitted
<1>9. StopIsUnderWay'
  <2>0. GatePeriod \in Nat /\ gateTimer' \in Nat
    BY <1>6, CmdGateConstants DEF ChainTypeOK, GateTypeOK
  <2>1. SUFFICES ASSUME gateAlive', monitorAlive', twistAlive', lastWriteOk', wheels' # Zero
                 PROVE  /\ blocked' <= GatePeriod
                        /\ localized' = << >> /\ safe' = << >> => blocked' <= gateTimer'
    BY DEF StopIsUnderWay
  <2>2. CASE Permitted'
    BY <1>2, <2>0, <2>2
  <2>3. CASE ~Permitted'
    <3>1. blocked' = blocked /\ gateAlive /\ monitorAlive /\ twistAlive /\ lastWriteOk /\ wheels # Zero
      BY <1>1, <1>2, <1>3, <2>1, <2>3 DEF GateEffect
    <3>2. blocked <= GatePeriod /\ (localized = << >> /\ safe = << >> => blocked <= gateTimer)
      BY <3>1 DEF ChainIInv, StopIsUnderWay
    <3>3. \/ localized' = localized /\ gateTimer' = gateTimer
          \/ localized' # << >>
      BY <1>1, <1>5, <2>1, <2>3, PublishLemma DEF GateEffect
    <3> QED
      BY <1>2, <3>1, <3>2, <3>3
  <2> QED
    BY <2>2, <2>3
<1> QED
  BY <1>4, <1>6, <1>7, <1>8, <1>9 DEF ChainIInv

LEMMA MonitorIInv ==
  ASSUME ChainIInv, NEW out \in Commands, Monitor(out)
  PROVE  ChainIInv'
<1>1. /\ UNCHANGED <<gateAlive, sensors_ready, authority_active, age, gateTimer, monitorAlive, blocked>>
      /\ UNCHANGED vars
      /\ localized # << >> /\ out \in Reduced(Head(localized))
      /\ localized' = Tail(localized) /\ safe' = Publish(safe, out)
  BY DEF Monitor
<1>2. UNCHANGED <<twistAlive, messageAge, outputAge, watchdogAge, previous, wheels, mcuTimeout, frameAge, lastWriteOk>>
  BY <1>1 DEF vars, node, chassis
<1>3. IInv' /\ TypeOK'
  BY <1>1, StutterIInv DEF ChainIInv, IInv
<1>4. localized \in Seq(Commands) /\ safe \in Seq(Commands)
  BY DEF ChainIInv, ChainTypeOK, GateTypeOK
<1>5. localized' \in Seq(Commands) /\ safe' \in Seq(Commands) /\ safe' # << >>
  BY <1>1, <1>4, TakeLemma, PublishLemma
<1>6. GateTypeOK'
  BY <1>1, <1>5 DEF ChainIInv, ChainTypeOK, GateTypeOK
<1>7. ChainTypeOK'
  BY <1>1, <1>2, <1>3, <1>5, <1>6 DEF ChainIInv, ChainTypeOK
<1>8. Permitted' <=> Permitted
  BY <1>1 DEF Permitted
<1>9. OnlyStopsUnderWay'
  <2>1. ASSUME blocked > 0
        PROVE  OnlyStops(localized') /\ OnlyStops(safe')
    <3>1. OnlyStops(localized) /\ OnlyStops(safe)
      BY <2>1 DEF ChainIInv, OnlyStopsUnderWay, OnlyStops
    <3>2. Head(localized) = Stop /\ OnlyStops(localized')
      BY <1>1, <1>4, <3>1, TakeLemma
    <3>3. out = Stop
      BY <1>1, <3>2, TravelChainConstants
    <3> QED
      BY <1>1, <1>4, <3>1, <3>2, <3>3, PublishLemma
  <2> QED
    BY <1>1, <1>8, <2>1 DEF ChainIInv, OnlyStopsUnderWay, OnlyStops
<1>10. MotionWasPermitted'
  BY <1>1, <1>2 DEF ChainIInv, MotionWasPermitted
<1>11. StopIsUnderWay'
  BY <1>1, <1>2, <1>5 DEF ChainIInv, StopIsUnderWay
<1> QED
  BY <1>3, <1>7, <1>9, <1>10, <1>11 DEF ChainIInv

LEMMA MonitorCrashIInv ==
  ASSUME ChainIInv, MonitorCrash \/ UNCHANGED chainVars
  PROVE  ChainIInv'
<1>1. /\ UNCHANGED <<gateAlive, sensors_ready, authority_active, age, gateTimer, localized, safe, blocked>>
      /\ UNCHANGED vars /\ monitorAlive' \in BOOLEAN /\ (monitorAlive' => monitorAlive)
  <2>1. CASE MonitorCrash
    BY <2>1 DEF MonitorCrash, gateVars
  <2>2. CASE UNCHANGED chainVars
    <3>1. UNCHANGED <<gateVars, vars, monitorAlive, safe, blocked>>
      BY <2>2 DEF chainVars
    <3> QED
      BY <3>1 DEF gateVars, ChainIInv, ChainTypeOK
  <2> QED
    BY <2>1, <2>2
<1>2. UNCHANGED <<twistAlive, messageAge, outputAge, watchdogAge, previous, wheels, mcuTimeout, frameAge, lastWriteOk>>
  BY <1>1 DEF vars, node, chassis
<1>3. IInv' /\ TypeOK'
  BY <1>1, StutterIInv DEF ChainIInv, IInv
<1>4. ChainTypeOK'
  BY <1>1, <1>2, <1>3 DEF ChainIInv, ChainTypeOK, GateTypeOK
<1>5. Permitted' <=> Permitted
  BY <1>1 DEF Permitted
<1> QED
  BY <1>1, <1>2, <1>3, <1>4, <1>5
     DEF ChainIInv, OnlyStopsUnderWay, MotionWasPermitted, StopIsUnderWay

LEMMA SerialTwistIInv ==
  ASSUME ChainIInv, NEW dt \in 0..DtCap, NEW received \in BOOLEAN, SerialTwist(dt, received)
  PROVE  ChainIInv'
<1>1. /\ UNCHANGED <<gateAlive, sensors_ready, authority_active, age, gateTimer, localized, monitorAlive, blocked>>
      /\ safe # << >> /\ safe' = Tail(safe)
      /\ TwistCallback(Head(safe), dt, received)
  BY DEF SerialTwist, gateVars
<1>2. safe \in Seq(Commands)
  BY DEF ChainIInv, ChainTypeOK
<1>3. Head(safe) \in Commands /\ safe' \in Seq(Commands)
  BY <1>1, <1>2, TakeLemma
<1>4. Head(safe) \in Twist
  BY <1>3, TravelChainConstants
<1>5. IInv' /\ TypeOK'
  BY <1>1, <1>4, TwistCallbackIInv DEF ChainIInv, IInv
<1>14. mcuTimeout' = mcuTimeout
  BY <1>1 DEF TwistCallback, SendCommand
<1>6. ChainTypeOK'
  BY <1>1, <1>3, <1>5, <1>14 DEF ChainIInv, ChainTypeOK, GateTypeOK
<1>7. Permitted' <=> Permitted
  BY <1>1 DEF Permitted
<1>8. OnlyStopsUnderWay'
  BY <1>1, <1>2, <1>7, TakeLemma DEF ChainIInv, OnlyStopsUnderWay, OnlyStops
<1>9. blocked \in Nat /\ frameAge' \in Nat /\ GatePeriod \in Nat /\ gateTimer \in Nat
  BY <1>5, TwistCtlConstants, CmdGateConstants DEF ChainIInv, ChainTypeOK, GateTypeOK, TypeOK
<1>10. received /\ wheels' # Zero => blocked = 0
  <2>1. SUFFICES ASSUME received, wheels' # Zero, blocked > 0 PROVE FALSE
    BY <1>9
  <2>2. OnlyStops(safe)
    BY <2>1 DEF ChainIInv, OnlyStopsUnderWay, OnlyStops
  <2>3. Head(safe) = Stop
    BY <1>1, <1>2, <2>2, TakeLemma
  <2>4. TwistCallback(Stop, dt, TRUE)
    BY <1>1, <2>1, <2>3
  <2> QED
    BY <2>1, <2>4, StopStops
<1>11. /\ lastWriteOk' = received
       /\ ~received => UNCHANGED <<wheels, frameAge>>
  BY <1>1 DEF TwistCallback, SendCommand
<1>12. MotionWasPermitted'
  BY <1>1, <1>9, <1>10, <1>11 DEF ChainIInv, MotionWasPermitted
<1>13. StopIsUnderWay'
  BY <1>1, <1>9, <1>10, <1>11 DEF StopIsUnderWay
<1> QED
  BY <1>5, <1>6, <1>8, <1>12, <1>13 DEF ChainIInv

LEMMA SerialOtherIInv ==
  ASSUME ChainIInv, SerialOther
  PROVE  ChainIInv'
<1>1. /\ UNCHANGED <<gateAlive, sensors_ready, authority_active, age, gateTimer, localized, monitorAlive, safe, blocked>>
      /\ \/ \E received \in BOOLEAN : WatchdogCallback(received) \/ Shutdown(received)
         \/ Crash
  BY DEF SerialOther, gateVars
<1>2. IInv' /\ TypeOK'
  BY <1>1, WatchdogCallbackIInv, ShutdownIInv DEF ChainIInv, IInv
<1>10. mcuTimeout' = mcuTimeout
  BY <1>1 DEF WatchdogCallback, Shutdown, Crash, SendCommand, chassis
<1>3. ChainTypeOK'
  BY <1>1, <1>2, <1>10 DEF ChainIInv, ChainTypeOK, GateTypeOK
<1>4. Permitted' <=> Permitted
  BY <1>1 DEF Permitted
<1>5. OnlyStopsUnderWay'
  BY <1>1, <1>4 DEF ChainIInv, OnlyStopsUnderWay
<1>6. \/ wheels' = Zero
      \/ UNCHANGED <<wheels, frameAge>> /\ (lastWriteOk' => lastWriteOk \/ ~twistAlive')
  <2>1. ASSUME NEW received \in BOOLEAN, WatchdogCallback(received)
        PROVE  \/ wheels' = Zero
               \/ UNCHANGED <<wheels, frameAge>> /\ (lastWriteOk' => lastWriteOk)
    BY <2>1 DEF WatchdogCallback, SendCommand, chassis
  <2>2. ASSUME NEW received \in BOOLEAN, Shutdown(received)
        PROVE  \/ wheels' = Zero
               \/ UNCHANGED <<wheels, frameAge>> /\ ~twistAlive'
    BY <2>2 DEF Shutdown, Ends, SendCommand
  <2>3. CASE Crash
    BY <2>3 DEF Crash, chassis
  <2> QED
    BY <1>1, <2>1, <2>2, <2>3
<1>7. twistAlive' => twistAlive
  BY <1>1 DEF WatchdogCallback, WatchdogDue, Shutdown, Crash, Ends
<1>8. MotionWasPermitted'
  BY <1>1, <1>6 DEF ChainIInv, MotionWasPermitted
<1>9. StopIsUnderWay'
  BY <1>1, <1>6, <1>7 DEF ChainIInv, StopIsUnderWay
<1> QED
  BY <1>2, <1>3, <1>5, <1>8, <1>9 DEF ChainIInv

LEMMA ChainTickIInv ==
  ASSUME ChainIInv, ChainTick
  PROVE  ChainIInv'
<1>1. /\ GateTick /\ Tick /\ Quiet /\ monitorAlive' = monitorAlive
      /\ localized' = << >> /\ safe' = << >>
      /\ blocked' = IF Permitted' THEN 0 ELSE Least(blocked + 1, mcuTimeout + 1)
  BY DEF ChainTick
<1>2. IInv' /\ TypeOK'
  BY <1>1, TickIInv DEF ChainIInv, IInv
<1>3. /\ Timeout \in [Inputs -> Nat] /\ GatePeriod \in Nat /\ mcuTimeout \in Nat
      /\ blocked \in Nat /\ blocked <= mcuTimeout + 1
  BY CmdGateConstants, TwistCtlConstants DEF ChainIInv, ChainTypeOK, TypeOK
<1>4. /\ age \in [Inputs -> Nat] /\ \A i \in Inputs : age[i] <= Timeout[i] + 1
      /\ gateTimer \in 0..GatePeriod /\ gateAlive \in BOOLEAN
      /\ sensors_ready \in BOOLEAN /\ authority_active \in BOOLEAN
  BY DEF ChainIInv, ChainTypeOK, GateTypeOK
<1>5. UNCHANGED <<gateAlive, sensors_ready, authority_active>>
  BY <1>1 DEF GateTick
<1>6. age' \in [Inputs -> Nat] /\ \A i \in Inputs : age'[i] <= Timeout[i] + 1
  <2>1. CASE gateAlive
    <3>1. age' = [i \in Inputs |-> IF age[i] <= Timeout[i] THEN age[i] + 1 ELSE age[i]]
      BY <1>1, <2>1 DEF GateTick, IsFresh
    <3>2. \A i \in Inputs : age[i] \in Nat /\ Timeout[i] \in Nat
      BY <1>3, <1>4
    <3> QED
      BY <1>4, <3>1, <3>2
  <2>2. CASE ~gateAlive
    BY <1>1, <1>4, <2>2 DEF GateTick
  <2> QED
    BY <2>1, <2>2
<1>7. gateTimer' \in 0..GatePeriod /\ (gateAlive => gateTimer' = gateTimer + 1)
  BY <1>1, <1>3, <1>4 DEF GateTick, GateTimerDue
<1>8. blocked' \in 0..(mcuTimeout + 1) /\ blocked' <= blocked + 1
  BY <1>1, <1>3 DEF Least
<1>9. GateTypeOK'
  BY <1>1, <1>4, <1>5, <1>6, <1>7, EmptyLemma DEF GateTypeOK
<1>15. mcuTimeout' = mcuTimeout
  BY <1>1 DEF Tick
<1>10. ChainTypeOK'
  BY <1>1, <1>2, <1>8, <1>9, <1>15, EmptyLemma DEF ChainIInv, ChainTypeOK
<1>11. OnlyStopsUnderWay'
  BY <1>1, EmptyLemma DEF OnlyStopsUnderWay, OnlyStops
<1>12. wheels' # Zero => wheels # Zero /\ frameAge' = frameAge + 1
  BY <1>1, <1>2, <1>3 DEF Tick, Least, ChainIInv, IInv, TypeOK
<1>13. MotionWasPermitted'
  BY <1>2, <1>3, <1>8, <1>12 DEF ChainIInv, MotionWasPermitted, TypeOK, IInv
<1>14. StopIsUnderWay'
  <2>1. SUFFICES ASSUME gateAlive', monitorAlive', twistAlive', lastWriteOk', wheels' # Zero
                 PROVE  blocked' <= GatePeriod /\ blocked' <= gateTimer'
    BY DEF StopIsUnderWay
  <2>2. gateAlive /\ monitorAlive /\ twistAlive /\ lastWriteOk /\ wheels # Zero
    BY <1>1, <1>5, <1>12, <2>1 DEF Tick
  <2>3. localized = << >> /\ safe = << >>
    BY <1>1, <2>2 DEF Quiet
  <2>4. blocked <= gateTimer
    BY <2>2, <2>3 DEF ChainIInv, StopIsUnderWay
  <2> QED
    BY <1>3, <1>4, <1>7, <1>8, <2>2, <2>4
<1> QED
  BY <1>2, <1>10, <1>11, <1>13, <1>14 DEF ChainIInv

LEMMA ChainNextIInv == ChainIInv /\ [ChainNext]_chainVars => ChainIInv'
<1> SUFFICES ASSUME ChainIInv, [ChainNext]_chainVars PROVE ChainIInv'
  OBVIOUS
<1>1. CASE GateAction
  BY <1>1, GateActionIInv
<1>2. CASE \E out \in Commands : Monitor(out)
  BY <1>2, MonitorIInv
<1>3. CASE MonitorCrash \/ UNCHANGED chainVars
  BY <1>3, MonitorCrashIInv
<1>4. CASE \E dt \in 0..DtCap, received \in BOOLEAN : SerialTwist(dt, received)
  BY <1>4, SerialTwistIInv
<1>5. CASE SerialOther
  BY <1>5, SerialOtherIInv
<1>6. CASE ChainTick
  BY <1>6, ChainTickIInv
<1> QED
  BY <1>1, <1>2, <1>3, <1>4, <1>5, <1>6 DEF ChainNext

LEMMA ChainInvariance == ChainSpec => []ChainIInv
<1> QED
  BY ChainInitIInv, ChainNextIInv, PTL DEF ChainSpec

(* Every variable of the chain keeps its type.                             *)
THEOREM ChainTypeCorrect == ChainSpec => []ChainTypeOK
<1>1. ChainIInv => ChainTypeOK
  BY DEF ChainIInv
<1> QED
  BY <1>1, ChainInvariance, PTL

(* The vehicle never moves longer than the surviving layer's bound after   *)
(* it was last permitted to.                                               *)
THEOREM StopsWithinEveryLayer == ChainSpec => []ThreeCommandLossLayers
<1>1. ChainIInv => ThreeCommandLossLayers
  <2> SUFFICES ASSUME ChainIInv, wheels # Zero
               PROVE  /\ blocked <= mcuTimeout
                      /\ twistAlive /\ lastWriteOk => blocked < WatchdogTimeout + WatchdogPeriod
                      /\ gateAlive /\ monitorAlive /\ twistAlive /\ lastWriteOk => blocked <= GatePeriod
    BY DEF ThreeCommandLossLayers
  <2>1. blocked <= frameAge /\ frameAge < mcuTimeout
    BY DEF ChainIInv, MotionWasPermitted, IInv, MotionIsFresh
  <2>2. /\ blocked \in Nat /\ frameAge \in Nat /\ mcuTimeout \in Nat /\ messageAge \in Nat
        /\ WatchdogTimeout \in Nat /\ WatchdogPeriod \in Nat
    BY TwistCtlConstants DEF ChainIInv, ChainTypeOK, TypeOK
  <2>3. twistAlive /\ lastWriteOk => messageAge < WatchdogTimeout + WatchdogPeriod /\ frameAge <= messageAge
    BY DEF ChainIInv, IInv, MotionIsFresh, MotionIsCommanded, LimiterKnowsChassis, StoppedByItself
  <2>4. gateAlive /\ monitorAlive /\ twistAlive /\ lastWriteOk => blocked <= GatePeriod
    BY DEF ChainIInv, StopIsUnderWay
  <2> QED
    BY <2>1, <2>2, <2>3, <2>4
<1> QED
  BY <1>1, ChainInvariance, PTL

=============================================================================
