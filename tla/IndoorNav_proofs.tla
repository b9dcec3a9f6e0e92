-------------------------- MODULE IndoorNav_proofs --------------------------
(***************************************************************************)
(* Theorems about IndoorNav, for any grace periods.                        *)
(***************************************************************************)
EXTENDS IndoorNav, TLAPS

(* What the client's operations do to a call, field by field.              *)
LEMMA CallFields ==
  /\ NoCall \in Call /\ NoCall.server = "none" /\ ~NoCall.handle /\ ~NoCall.cancel
  /\ NewCall \in Call /\ NewCall.server = "requested" /\ ~NewCall.handle /\ ~NewCall.cancel
  /\ \A c \in Call :
       /\ c.server \in ServerState /\ c.handle \in BOOLEAN /\ c.cancel \in BOOLEAN
       /\ WithHandle(c) \in Call
       /\ WithHandle(c).server = c.server /\ WithHandle(c).handle /\ WithHandle(c).cancel = c.cancel
       /\ Canceled(c) \in Call
       /\ Canceled(c).server = c.server /\ Canceled(c).handle = c.handle
       /\ Canceled(c).cancel <=> c.handle \/ c.cancel
       /\ Consumed(c) \in Call
       /\ Consumed(c).server = "done" /\ Consumed(c).handle = c.handle
       /\ Released(c) \in Call
       /\ Released(c).server = c.server /\ ~Released(c).handle
<1>1. /\ NoCall \in Call /\ NoCall.server = "none" /\ ~NoCall.handle /\ ~NoCall.cancel
      /\ NewCall \in Call /\ NewCall.server = "requested" /\ ~NewCall.handle /\ ~NewCall.cancel
  BY DEF NoCall, NewCall, Call, ServerState
<1>2. ASSUME NEW c \in Call
      PROVE  /\ c.server \in ServerState /\ c.handle \in BOOLEAN /\ c.cancel \in BOOLEAN
             /\ WithHandle(c) \in Call
             /\ WithHandle(c).server = c.server /\ WithHandle(c).handle /\ WithHandle(c).cancel = c.cancel
             /\ Consumed(c) \in Call
             /\ Consumed(c).server = "done" /\ Consumed(c).handle = c.handle
             /\ Released(c) \in Call
             /\ Released(c).server = c.server /\ ~Released(c).handle
  BY DEF WithHandle, Consumed, Released, Call, ServerState
<1>3. ASSUME NEW c \in Call
      PROVE  /\ Canceled(c) \in Call
             /\ Canceled(c).server = c.server /\ Canceled(c).handle = c.handle
             /\ Canceled(c).cancel <=> c.handle \/ c.cancel
  <2>1. CASE c.handle
    BY <2>1 DEF Canceled, Call
  <2>2. CASE ~c.handle
    BY <2>2 DEF Canceled, Call
  <2> QED
    BY <2>1, <2>2
<1> QED
  BY <1>1, <1>2, <1>3

(* The server never starts a goal it was not just asked for, keeps a goal  *)
(* that the client waits for, and does not touch the client's handle.      *)
LEMMA ServerFields ==
  ASSUME NEW c \in Call, NEW d \in ServerStep(c)
  PROVE  /\ d \in Call
         /\ d.handle = c.handle
         /\ Outstanding(d) <=> Outstanding(c)
         /\ d.server = "executing" => c.server = "requested"
         /\ c.server \in {"executing"} \cup Ended => d.server \in Ended
<1>1. CASE c.server = "requested" /\ d \in {[c EXCEPT !.server = r] : r \in {"executing", "rejected"}}
  BY <1>1 DEF Call, ServerState, Outstanding, Ended
<1>2. CASE c.server = "executing" /\ d \in {[c EXCEPT !.server = r] : r \in {"succeeded", "aborted"}}
  BY <1>2 DEF Call, ServerState, Outstanding, Ended
<1>3. CASE c.server = "executing" /\ d = [c EXCEPT !.server = "canceled", !.cancel = FALSE]
  BY <1>3 DEF Call, ServerState, Outstanding, Ended
<1>4. CASE c.server # "executing" /\ d = [c EXCEPT !.cancel = FALSE]
  BY <1>4 DEF Call, ServerState, Outstanding, Ended
<1> QED
  BY <1>1, <1>2, <1>3, <1>4 DEF ServerStep

LEMMA InitIInv == Init => IInv
<1> SUFFICES ASSUME Init PROVE IInv
  OBVIOUS
<1> USE DEF Init, AdapterInit, ManagerInit, CallsInit
<1>1. \A l \in Links : call[l] = NoCall
  OBVIOUS
<1>2. TypeOK
  <2>1. call \in [Links -> Call]
    BY CallFields
  <2>2. /\ localization_not_ready_since \in Never .. LocalizationGrace
        /\ chassis_not_ready_since \in Never .. ChassisGrace
        /\ blind \in 0 .. LocalizationGrace + 1
    BY GracePeriods DEF Never
  <2> QED
    BY <2>1, <2>2 DEF TypeOK, Kinds, Steps
<1>3. AdapterInv /\ ManagerInv
  BY <1>1, CallFields DEF AdapterInv, ManagerInv, Kinds, Links, Outstanding, Awaits, Driving
<1>4. StopInv /\ GraceInv /\ NoGoalWithoutChassis /\ NoGhostGoal
  BY DEF StopInv, GraceInv, NoGoalWithoutChassis, NoGhostGoal, Driving, Never
<1> QED
  BY <1>2, <1>3, <1>4 DEF IInv

(* bt_navigator's step on one of its two goals.                            *)
LEMMA Nav2Step ==
  ASSUME IInv, NEW l \in {"pose", "nav"}, BtNavigator(l), UNCHANGED <<adapter, manager>>
  PROVE  IInv'
<1> USE DEF IInv
<1>0. /\ UNCHANGED <<localized, localization_not_ready_since, blind, host, chassis_ready,
                    chassis_not_ready_since, pending_goal, cancel_when_accepted, active,
                    cancel_requested, active_source, status, due>>
      /\ UNCHANGED <<mLocalized, goal_reserved, named_goal, mCancel, canceling, pc>>
  BY DEF adapter, manager, health, chassis, goal
<1>1. PICK c \in ServerStep(call[l]) : call' = [call EXCEPT ![l] = c]
  BY DEF BtNavigator
<1>2. call[l] \in Call
  BY DEF TypeOK, Links
<1>3. /\ c \in Call
      /\ c.handle = call[l].handle
      /\ Outstanding(c) <=> Outstanding(call[l])
      /\ c.server = "executing" => call[l].server = "requested"
      /\ call[l].server \in {"executing"} \cup Ended => c.server \in Ended
  BY <1>1, <1>2, ServerFields
<1>4. call'[l] = c /\ \A k \in Links \ {l} : call'[k] = call[k]
  BY <1>1 DEF TypeOK, Links
<1>t. call' \in [Links -> Call]
  BY <1>1, <1>3, <1>4 DEF TypeOK
<1>5. TypeOK'
  BY <1>0, <1>t DEF TypeOK
<1>v. \A k \in Links : /\ Outstanding(call'[k]) <=> Outstanding(call[k])
                       /\ call'[k].handle = call[k].handle
                       /\ call[k].server \in {"executing"} \cup Ended
                            => call'[k].server \in {"executing"} \cup Ended
  BY <1>3, <1>4
<1>6. AdapterInv'
  <2>1. active_source \in Links
    BY DEF TypeOK, Kinds, Links
  <2> QED
    BY <1>0, <1>v, <2>1 DEF AdapterInv, Kinds, Links
<1>7. ManagerInv'
  <2>1. call'["named"] = call["named"] /\ "nav" \in Links
    BY <1>4 DEF Links
  <2> QED
    BY <1>0, <1>v, <2>1 DEF ManagerInv
<1>8. StopInv'
  <2>1. l = "pose" /\ cancel_requested => c.server # "executing"
    <3>1. ASSUME l = "pose", cancel_requested, c.server = "executing" PROVE FALSE
      <4>1. call["pose"].server = "requested" /\ active
        BY <3>1, <1>3 DEF AdapterInv
      <4>2. active_source = "pose"
        BY <4>1 DEF AdapterInv, Outstanding, Kinds
      <4> QED
        BY <4>1, <4>2 DEF AdapterInv, Ended
    <3> QED
      BY <3>1
  <2>2. l = "nav" /\ pc \in Driving => c.server # "executing"
    BY <1>3 DEF ManagerInv, Ended
  <2> QED
    BY <1>0, <1>4, <2>1, <2>2 DEF StopInv, Stopping, Links
<1>9. GraceInv' /\ NoGoalWithoutChassis' /\ NoGhostGoal'
  BY <1>0 DEF GraceInv, NoGoalWithoutChassis, NoGhostGoal
<1> QED
  BY <1>5, <1>6, <1>7, <1>8, <1>9

(* The updates of single fields the manager makes as a server.             *)
LEMMA FieldUpdates ==
  ASSUME NEW c \in Call, NEW s \in ServerState
  PROVE  /\ [c EXCEPT !.server = s] \in Call
         /\ [c EXCEPT !.server = s].server = s
         /\ [c EXCEPT !.server = s].handle = c.handle
         /\ [c EXCEPT !.server = s].cancel = c.cancel
  BY DEF Call

LEMMA CancelTaken ==
  ASSUME NEW c \in Call
  PROVE  /\ [c EXCEPT !.cancel = FALSE] \in Call
         /\ [c EXCEPT !.cancel = FALSE].server = c.server
         /\ [c EXCEPT !.cancel = FALSE].handle = c.handle
         /\ ~[c EXCEPT !.cancel = FALSE].cancel
  BY DEF Call

(* What a step of the manager has to leave alone for the adapter's half of *)
(* the invariant: of the named goal it may only advance the server's state.*)
LEMMA AdapterFrame ==
  ASSUME IInv, UNCHANGED adapter,
         call' \in [Links -> Call],
         call'["pose"] = call["pose"],
         Outstanding(call'["named"]) <=> Outstanding(call["named"]),
         call'["named"].handle = call["named"].handle,
         call["named"].server \in {"executing"} \cup Ended
           => call'["named"].server \in {"executing"} \cup Ended,
         mLocalized' \in BOOLEAN, goal_reserved' \in BOOLEAN, named_goal' \in BOOLEAN,
         mCancel' \in BOOLEAN, canceling' \in BOOLEAN, pc' \in Steps,
         ManagerInv', StopInv'
  PROVE  IInv'
<1> USE DEF IInv
<1>0. UNCHANGED <<localized, localization_not_ready_since, blind, host, chassis_ready,
                  chassis_not_ready_since, pending_goal, cancel_when_accepted, active,
                  cancel_requested, active_source, status, due>>
  BY DEF adapter, health, chassis, goal
<1>1. TypeOK'
  BY <1>0 DEF TypeOK
<1>2. AdapterInv'
  BY <1>0 DEF AdapterInv, Kinds, TypeOK
<1>3. GraceInv' /\ NoGoalWithoutChassis' /\ NoGhostGoal'
  BY <1>0 DEF GraceInv, NoGoalWithoutChassis, NoGhostGoal
<1> QED
  BY <1>1, <1>2, <1>3

(* Every way out of execute leaves the manager free.                       *)
LEMMA ReturnStep ==
  ASSUME IInv, NEW outcome \in Ended, Return(outcome), UNCHANGED adapter, pc # "idle",
         pc \in Awaits => call["nav"].server \in Ended \cup {"rejected"}
  PROVE  IInv'
<1> USE DEF IInv
<1> DEFINE o == IF outcome = "canceled" /\ ~canceling THEN "aborted" ELSE outcome
           v == IF Answered(call["nav"]) THEN Consumed(call["nav"]) ELSE call["nav"]
<1>1. call["named"] \in Call /\ call["nav"] \in Call /\ o \in Ended
  BY DEF TypeOK, Links, Ended
<1>2. /\ call'["named"] = [call["named"] EXCEPT !.server = o]
      /\ call'["nav"] = Released(v)
      /\ call'["pose"] = call["pose"]
      /\ call' = [call EXCEPT !["named"] = [call["named"] EXCEPT !.server = o], !["nav"] = Released(v)]
  BY DEF Return, TypeOK, Links
<1>3. v \in Call /\ ~Outstanding(v)
  <2>1. CASE Answered(call["nav"])
    BY <1>1, <2>1, CallFields DEF Outstanding
  <2>2. CASE ~Answered(call["nav"])
    BY <1>1, <2>2 DEF Answered, ManagerInv, Awaits
  <2> QED
    BY <2>1, <2>2
<1>4. Released(v) \in Call /\ ~Outstanding(Released(v)) /\ ~Released(v).handle
  BY <1>3, CallFields DEF Outstanding
<1> HIDE DEF v
<1>5. /\ call'["named"] \in Call /\ call'["named"].server = o
      /\ call'["named"].handle = call["named"].handle
  <2>1. o \in ServerState
    BY <1>1 DEF Ended, ServerState
  <2> HIDE DEF o
  <2> QED
    BY <1>1, <1>2, <2>1, FieldUpdates
<1> HIDE DEF o
<1>6. call' \in [Links -> Call]
  BY <1>2, <1>4, <1>5 DEF TypeOK, Links
<1>7. Outstanding(call["named"])
  BY DEF ManagerInv, Outstanding
<1>8. /\ goal_reserved' = FALSE /\ named_goal' = FALSE /\ mCancel' = FALSE
      /\ canceling' = FALSE /\ pc' = "idle" /\ mLocalized' = mLocalized
  BY DEF Return
<1>9. ManagerInv'
  BY <1>1, <1>2, <1>4, <1>5, <1>8 DEF ManagerInv, Awaits, Driving, Ended
<1>10. StopInv'
  <2>1. cancel_requested' = cancel_requested
    BY DEF adapter, goal
  <2> QED
    BY <1>1, <1>2, <1>5, <1>8, <2>1 DEF StopInv, Stopping, Driving, Ended
<1>11. o \notin {"none", "done"}
  BY <1>1 DEF Ended
<1> QED
  BY <1>1, <1>2, <1>5, <1>6, <1>7, <1>8, <1>9, <1>10, <1>11, AdapterFrame
     DEF Outstanding, TypeOK, Steps

LEMMA ManagerStep ==
  ASSUME IInv, ManagerNext, UNCHANGED adapter
  PROVE  IInv'
<1> USE DEF IInv
<1>a. cancel_requested' = cancel_requested
  BY DEF adapter, goal
<1>b. call \in [Links -> Call] /\ \A l \in Links : call[l] \in Call
  BY DEF TypeOK
<1>1. ASSUME NEW ready \in BOOLEAN, ManagerLocalization(ready) PROVE IInv'
  <2> USE <1>1 DEF ManagerLocalization
  <2>1. CASE ~ready /\ call["nav"].handle /\ ~mCancel
    <3>1. call' = [call EXCEPT !["nav"] = Canceled(call["nav"])] /\ mCancel'
      BY <2>1
    <3>2. /\ Canceled(call["nav"]) \in Call
          /\ Canceled(call["nav"]).server = call["nav"].server
          /\ Canceled(call["nav"]).handle = call["nav"].handle
          /\ Canceled(call["nav"]).cancel
      BY <1>b, <2>1, CallFields DEF Links
    <3>3. /\ call' \in [Links -> Call]
          /\ call'["pose"] = call["pose"] /\ call'["named"] = call["named"]
          /\ call'["nav"] = Canceled(call["nav"])
      BY <1>b, <3>1, <3>2 DEF Links
    <3>4. ManagerInv'
      BY <2>1, <3>1, <3>2, <3>3 DEF ManagerInv, Outstanding, Awaits, Driving
    <3>5. StopInv'
      BY <1>a, <3>1, <3>2, <3>3 DEF StopInv, Stopping
    <3> QED
      BY <3>1, <3>3, <3>4, <3>5, AdapterFrame DEF TypeOK
  <2>2. CASE ready \/ ~call["nav"].handle \/ mCancel
    <3>1. UNCHANGED <<call, mCancel>>
      BY <2>2
    <3>2. ManagerInv'
      BY <3>1 DEF ManagerInv
    <3>3. StopInv'
      BY <1>a, <2>2, <3>1 DEF StopInv, Stopping, ManagerInv
    <3> QED
      BY <1>b, <3>1, <3>2, <3>3, AdapterFrame DEF TypeOK
  <2> QED
    BY <2>1, <2>2, <1>b DEF Links, TypeOK
<1>2. ASSUME NEW known \in BOOLEAN, ManagerGoal(known) PROVE IInv'
  <2>1. /\ call["named"].server = "requested" /\ pc = "idle" /\ ~cancel_requested
        /\ ~Outstanding(call["nav"])
    <3>1. call["named"].server = "requested" /\ pc = "idle"
      BY <1>2 DEF ManagerGoal, ManagerInv
    <3>2. ~cancel_requested
      BY <3>1 DEF AdapterInv, Outstanding, Kinds, Ended
    <3> QED
      BY <3>1, <3>2 DEF ManagerInv, Awaits
  <2>2. ASSUME NEW s \in {"rejected", "executing"}, call' = [call EXCEPT !["named"].server = s]
        PROVE  /\ call' \in [Links -> Call]
               /\ call'["pose"] = call["pose"] /\ call'["nav"] = call["nav"]
               /\ call'["named"].server = s
               /\ call'["named"].handle = call["named"].handle
               /\ Outstanding(call'["named"]) /\ Outstanding(call["named"])
    <3>1. s \in ServerState
      BY DEF ServerState
    <3>2. /\ call'["named"] = [call["named"] EXCEPT !.server = s]
          /\ call'["pose"] = call["pose"] /\ call'["nav"] = call["nav"]
          /\ call' = [call EXCEPT !["named"] = [call["named"] EXCEPT !.server = s]]
      BY <1>b, <2>2 DEF Links
    <3>3. /\ call'["named"] \in Call /\ call'["named"].server = s
          /\ call'["named"].handle = call["named"].handle
      BY <1>b, <3>1, <3>2, FieldUpdates DEF Links
    <3> QED
      BY <1>b, <2>1, <3>2, <3>3 DEF Links, Outstanding
  <2>3. CASE GoalRefused \/ ~known
    <3>1. call' = [call EXCEPT !["named"].server = "rejected"] /\ UNCHANGED manager
      BY <1>2, <2>3 DEF ManagerGoal
    <3>2. UNCHANGED <<mLocalized, goal_reserved, named_goal, mCancel, canceling, pc>>
      BY <3>1 DEF manager
    <3>3. ManagerInv'
      BY <2>1, <2>2, <3>1, <3>2 DEF ManagerInv, Awaits, Driving
    <3>4. StopInv'
      BY <1>a, <2>1, <2>2, <3>1, <3>2 DEF StopInv, Driving
    <3> QED
      BY <2>1, <2>2, <3>1, <3>2, <3>3, <3>4, AdapterFrame DEF TypeOK, Ended
  <2>4. CASE ~GoalRefused /\ known
    <3>1. /\ call' = [call EXCEPT !["named"].server = "executing"]
          /\ goal_reserved' = TRUE /\ mCancel' = FALSE /\ canceling' = FALSE /\ pc' = "accepted"
          /\ UNCHANGED <<mLocalized, named_goal>>
      BY <1>2, <2>4 DEF ManagerGoal
    <3>2. ManagerInv'
      BY <2>1, <2>2, <3>1 DEF ManagerInv, Awaits, Driving
    <3>3. StopInv'
      BY <1>a, <2>1, <2>2, <3>1 DEF StopInv, Driving
    <3> QED
      BY <2>1, <2>2, <3>1, <3>2, <3>3, AdapterFrame DEF TypeOK, Steps, Ended
  <2> QED
    BY <2>3, <2>4
<1>3. CASE ManagerCancel
  <2>1. CASE call["named"].server = "executing"
    <3>1. /\ mCancel' = TRUE /\ canceling' = TRUE
          /\ UNCHANGED <<mLocalized, goal_reserved, named_goal, pc>>
          /\ call'["named"] = [call["named"] EXCEPT !.cancel = FALSE]
          /\ call'["nav"] = Canceled(call["nav"])
          /\ call'["pose"] = call["pose"]
          /\ call' = [call EXCEPT !["named"] = [call["named"] EXCEPT !.cancel = FALSE],
                                  !["nav"] = Canceled(call["nav"])]
      BY <1>b, <1>3, <2>1 DEF ManagerCancel, Links
    <3>2. /\ call'["named"] \in Call /\ call'["named"].server = call["named"].server
          /\ call'["named"].handle = call["named"].handle
      BY <1>b, <3>1, CancelTaken DEF Links
    <3>3. /\ call'["nav"] \in Call /\ call'["nav"].server = call["nav"].server
          /\ call'["nav"].handle = call["nav"].handle
          /\ call["nav"].handle => call'["nav"].cancel
      BY <1>b, <3>1, CallFields DEF Links
    <3>4. call' \in [Links -> Call]
      BY <1>b, <3>1, <3>2, <3>3 DEF Links
    <3>5. ManagerInv'
      BY <2>1, <3>1, <3>2, <3>3 DEF ManagerInv, Outstanding
    <3>6. StopInv'
      BY <1>a, <3>1, <3>2, <3>3 DEF StopInv, Stopping, ManagerInv
    <3> QED
      BY <3>1, <3>2, <3>4, <3>5, <3>6, AdapterFrame DEF TypeOK, Outstanding
  <2>2. CASE call["named"].server # "executing"
    <3>1. /\ UNCHANGED <<mLocalized, goal_reserved, named_goal, mCancel, canceling, pc>>
          /\ call'["named"] = [call["named"] EXCEPT !.cancel = FALSE]
          /\ call'["nav"] = call["nav"] /\ call'["pose"] = call["pose"]
          /\ call' = [call EXCEPT !["named"] = [call["named"] EXCEPT !.cancel = FALSE]]
      BY <1>b, <1>3, <2>2 DEF ManagerCancel, Links
    <3>2. /\ call'["named"] \in Call /\ call'["named"].server = call["named"].server
          /\ call'["named"].handle = call["named"].handle
      BY <1>b, <3>1, CancelTaken DEF Links
    <3>3. call' \in [Links -> Call]
      BY <1>b, <3>1, <3>2 DEF Links
    <3>4. ManagerInv'
      BY <3>1, <3>2 DEF ManagerInv, Outstanding
    <3>5. StopInv'
      BY <1>a, <2>2, <3>1, <3>2 DEF StopInv, Stopping
    <3> QED
      BY <3>1, <3>2, <3>3, <3>4, <3>5, AdapterFrame DEF TypeOK, Outstanding
  <2> QED
    BY <2>1, <2>2
<1>4. ASSUME NEW c \in Call, NEW step \in Awaits,
             call["named"].server = "executing",
             call' = [call EXCEPT !["nav"] = c], Outstanding(c),
             c.handle <=> step \in Driving,
             step \in Driving => c.server \in {"executing"} \cup Ended,
             step \in Driving /\ ~mLocalized => mCancel',
             step \in Driving /\ mCancel' => (c.server = "executing" => c.cancel),
             Await(step), named_goal' = TRUE, mCancel' \in BOOLEAN, mCancel => mCancel'
      PROVE  IInv'
  <2>1. /\ call' \in [Links -> Call]
        /\ call'["pose"] = call["pose"] /\ call'["named"] = call["named"]
        /\ call'["nav"] = c
    BY <1>b, <1>4 DEF Links
  <2>2. pc' = step /\ UNCHANGED <<mLocalized, goal_reserved, canceling>>
    BY <1>4 DEF Await
  <2>3. step # "idle" /\ pc # "idle" /\ step \in Steps
    BY <1>4 DEF ManagerInv, Awaits, Steps
  <2>4. ManagerInv'
    BY <1>4, <2>1, <2>2, <2>3 DEF ManagerInv
  <2>5. StopInv'
    BY <1>a, <1>4, <2>1, <2>2, <2>3 DEF StopInv, Stopping
  <2> QED
    BY <1>4, <2>1, <2>2, <2>3, <2>4, <2>5, AdapterFrame DEF TypeOK
<1>5. ASSUME NEW serverReady \in BOOLEAN, Execute(serverReady) PROVE IInv'
  <2>1. pc # "idle" /\ pc \notin Awaits /\ call["named"].server = "executing"
    BY <1>5 DEF Execute, Awaits, ManagerInv
  <2>2. CASE \E outcome \in {"aborted", "canceled"} : Return(outcome)
    BY <2>1, <2>2, ReturnStep DEF Ended
  <2>3. CASE named_goal' = TRUE /\ call' = [call EXCEPT !["nav"] = NewCall]
             /\ Await("send_goal") /\ UNCHANGED mCancel
    BY <1>4, <2>1, <2>3, CallFields DEF Outstanding, Awaits, Driving, TypeOK
  <2> QED
    BY <1>5, <2>2, <2>3 DEF Execute
<1>6. CASE GoalSent
  <2>1. /\ pc = "send_goal" /\ call["named"].server = "executing" /\ named_goal = TRUE
        /\ Outstanding(call["nav"])
        /\ call["nav"].server \in {"executing", "rejected"} \cup Ended
    BY <1>6 DEF GoalSent, ManagerInv, Awaits, ResponseReady, TypeOK
  <2>2. CASE ~Accepted(call["nav"]) /\ Return("aborted")
    BY <2>1, <2>2, ReturnStep DEF Accepted, Ended
  <2>3. CASE Accepted(call["nav"]) /\ (mCancel \/ canceling \/ ~mLocalized)
    <3> DEFINE c == Canceled(WithHandle(call["nav"]))
    <3>1. c \in Call /\ c.server = call["nav"].server /\ c.handle /\ c.cancel
      BY <1>b, CallFields DEF Links
    <3>2. /\ call' = [call EXCEPT !["nav"] = c] /\ mCancel' = TRUE
          /\ Await("cancel_goal") /\ named_goal' = named_goal
      BY <1>6, <2>3 DEF GoalSent
    <3> HIDE DEF c
    <3> QED
      BY <1>4, <2>1, <2>3, <3>1, <3>2 DEF Accepted, Outstanding, Awaits, Driving
  <2>4. CASE Accepted(call["nav"]) /\ ~mCancel /\ ~canceling /\ mLocalized
    <3> DEFINE c == WithHandle(call["nav"])
    <3>1. c \in Call /\ c.server = call["nav"].server /\ c.handle
      BY <1>b, CallFields DEF Links
    <3>2. /\ call' = [call EXCEPT !["nav"] = c] /\ mCancel' = mCancel
          /\ Await("get_result") /\ named_goal' = named_goal
      BY <1>6, <2>4 DEF GoalSent
    <3> HIDE DEF c
    <3>3. /\ mCancel' \in BOOLEAN /\ ~mCancel' /\ mLocalized /\ named_goal' = TRUE
          /\ "get_result" \in Awaits /\ "get_result" \in Driving
      BY <2>1, <2>4, <3>2 DEF TypeOK, Awaits, Driving
    <3>4. Outstanding(c) /\ c.server \in {"executing"} \cup Ended
      BY <2>1, <2>4, <3>1 DEF Accepted, Outstanding, Ended
    <3> QED
      BY <1>4, <2>1, <2>4, <3>1, <3>2, <3>3, <3>4
  <2> QED
    BY <1>6, <2>2, <2>3, <2>4, <2>1 DEF GoalSent, TypeOK
<1>7. CASE CancelAnswered
  <2>1. /\ pc = "cancel_goal" /\ pc' = "get_result"
        /\ UNCHANGED <<mLocalized, goal_reserved, named_goal, mCancel, canceling, call>>
    BY <1>7 DEF CancelAnswered, Await
  <2>2. ManagerInv'
    BY <2>1 DEF ManagerInv, Awaits, Driving
  <2>3. StopInv'
    BY <1>a, <2>1 DEF StopInv, Stopping, Driving
  <2> QED
    BY <1>b, <2>1, <2>2, <2>3, AdapterFrame DEF TypeOK, Steps
<1>8. CASE GotResult
  <2>1. pc = "get_result" /\ call["nav"].server \in Ended
    BY <1>8 DEF GotResult, ResultReady
  <2>2. \E outcome \in Ended : Return(outcome)
    BY <1>8 DEF GotResult, Ended
  <2> QED
    BY <2>1, <2>2, ReturnStep
<1>9. CASE ExecuteRaises
  <2>1. pc # "idle" /\ call["nav"].server \in Ended \cup {"rejected"}
    BY <1>9 DEF ExecuteRaises, ResultReady, ResponseReady
  <2> QED
    BY <1>9, <2>1, ReturnStep DEF ExecuteRaises, Ended
<1> QED
  BY <1>1, <1>2, <1>3, <1>5, <1>6, <1>7, <1>8, <1>9 DEF ManagerNext, ManagerAnswers

(***************************************************************************)
(* The adapter.  Its steps either leave the goal alone or move the call of *)
(* one kind, the only one that can be in use.                              *)
(***************************************************************************)
LEMMA GoalKept ==
  ASSUME IInv, UNCHANGED <<goal, call, manager>>
  PROVE  AdapterInv' /\ ManagerInv' /\ StopInv'
<1>1. UNCHANGED <<pending_goal, cancel_when_accepted, active, cancel_requested, active_source>>
  BY DEF goal
<1>2. UNCHANGED <<mLocalized, goal_reserved, named_goal, mCancel, canceling, pc>>
  BY DEF manager
<1> QED
  BY <1>1, <1>2 DEF IInv, AdapterInv, ManagerInv, StopInv, Stopping

LEMMA KindUpdate ==
  ASSUME IInv, NEW k \in Kinds, NEW c \in Call, call' = [call EXCEPT ![k] = c], UNCHANGED manager,
         active_source' = k, pending_goal \/ active => active_source = k,
         c.server = "executing" <=> call[k].server = "executing",
         ~(pending_goal' /\ active'),
         cancel_when_accepted' => pending_goal',
         cancel_requested' => active',
         Outstanding(c) <=> pending_goal' \/ active',
         c.handle <=> active',
         active' => c.server \in {"executing"} \cup Ended,
         cancel_requested' => (c.server = "executing" => c.cancel)
  PROVE  call' \in [Links -> Call] /\ AdapterInv' /\ ManagerInv' /\ StopInv'
<1> USE DEF IInv
<1>1. UNCHANGED <<mLocalized, goal_reserved, named_goal, mCancel, canceling, pc>>
  BY DEF manager
<1>2. /\ call' \in [Links -> Call]
      /\ call'[k] = c
      /\ \A l \in Links \ {k} : call'[l] = call[l]
  BY DEF TypeOK, Kinds, Links
<1>3. \A j \in Kinds \ {k} : ~Outstanding(call[j]) /\ ~call[j].handle
  BY DEF AdapterInv
<1>4. AdapterInv'
  <2>1. \A j \in Kinds : /\ Outstanding(call'[j]) <=> (pending_goal' \/ active') /\ active_source' = j
                         /\ call'[j].handle <=> active' /\ active_source' = j
    BY <1>2, <1>3 DEF Kinds, Links
  <2> QED
    BY <1>2, <2>1 DEF AdapterInv
<1>5. call'["nav"] = call["nav"] /\ (call'["named"].server = "executing" <=> call["named"].server = "executing")
  BY <1>2 DEF Kinds, Links
<1>6. ManagerInv'
  BY <1>1, <1>5 DEF ManagerInv
<1>7. \A j \in Kinds : cancel_requested' /\ call'[j].server = "executing" => call'[j].cancel
  BY <1>2, <1>3 DEF Outstanding, Kinds, Links
<1>8. StopInv'
  BY <1>1, <1>5, <1>7 DEF StopInv, Stopping, Kinds
<1> QED
  BY <1>2, <1>4, <1>6, <1>8

(* Where the adapter's own call stands.                                    *)
LEMMA SourceCall ==
  ASSUME IInv
  PROVE  /\ active_source \in Kinds
         /\ \A k \in Kinds : call[k] \in Call
         /\ pending_goal \/ active <=> Outstanding(call[active_source])
         /\ active <=> call[active_source].handle
  BY DEF IInv, TypeOK, AdapterInv, Kinds, Links

LEMMA ManagerTypes ==
  ASSUME TypeOK, UNCHANGED manager
  PROVE  /\ mLocalized' \in BOOLEAN /\ goal_reserved' \in BOOLEAN /\ named_goal' \in BOOLEAN
         /\ mCancel' \in BOOLEAN /\ canceling' \in BOOLEAN /\ pc' \in Steps
  BY DEF TypeOK, manager

(* A goal that has ended leaves the adapter without one.                   *)
LEMMA FinishStep ==
  ASSUME IInv, UNCHANGED manager, NEW state \in {"SUCCEEDED", "CANCELED", "REJECTED", "FAILED"},
         FinishGoal(state),
         NEW c \in Call, c.server = "done", ~c.handle,
         call' = [call EXCEPT ![active_source] = c],
         call[active_source].server # "executing"
  PROVE  IInv'
<1> USE DEF IInv
<1>1. /\ pending_goal' = FALSE /\ cancel_when_accepted' = FALSE /\ active' = FALSE
      /\ cancel_requested' = FALSE /\ status' = state
      /\ UNCHANGED <<localized, blind, host, chassis_ready, chassis_not_ready_since, active_source, due>>
      /\ localization_not_ready_since' = IF localized THEN Never ELSE 0
  BY DEF FinishGoal, chassis
<1>2. call' \in [Links -> Call] /\ AdapterInv' /\ ManagerInv' /\ StopInv'
  <2>1. ~Outstanding(c)
    BY DEF Outstanding
  <2> QED
    BY <1>1, <2>1, KindUpdate, SourceCall
<1>3. localization_not_ready_since' \in Never .. LocalizationGrace
  BY <1>1, GracePeriods DEF Never
<1>4. TypeOK'
  BY <1>1, <1>2, <1>3, ManagerTypes DEF TypeOK
<1>5. GraceInv' /\ NoGoalWithoutChassis' /\ NoGhostGoal'
  BY <1>1 DEF GraceInv, NoGoalWithoutChassis, NoGhostGoal
<1> QED
  BY <1>2, <1>4, <1>5

(* A cancel that is sent at once, whoever asks for it.                     *)
LEMMA CancelStep ==
  ASSUME IInv, UNCHANGED manager, CancelActive, active, ~cancel_requested,
         UNCHANGED <<health, host, chassis_not_ready_since>>,
         chassis_ready' \in BOOLEAN, due' \subseteq due
  PROVE  IInv'
<1> USE DEF IInv
<1> DEFINE c == Canceled(call[active_source])
<1>1. /\ cancel_requested' = TRUE /\ status' = "CANCELING"
      /\ UNCHANGED <<pending_goal, cancel_when_accepted, active, active_source>>
      /\ UNCHANGED <<localized, localization_not_ready_since, blind>>
      /\ call' = [call EXCEPT ![active_source] = c]
  BY DEF CancelActive, health
<1>2. c \in Call /\ c.server = call[active_source].server /\ c.handle /\ c.cancel
  BY CallFields, SourceCall
<1> HIDE DEF c
<1>3. call' \in [Links -> Call] /\ AdapterInv' /\ ManagerInv' /\ StopInv'
  <2>1. Outstanding(c) /\ c.server \in {"executing"} \cup Ended /\ ~pending_goal /\ ~cancel_when_accepted
    BY <1>2, SourceCall DEF Outstanding, AdapterInv
  <2> QED
    BY <1>1, <1>2, <2>1, KindUpdate, SourceCall
<1>4. TypeOK'
  BY <1>1, <1>3, ManagerTypes DEF TypeOK
<1>5. GraceInv'
  BY <1>1 DEF GraceInv
<1>6. NoGoalWithoutChassis' /\ NoGhostGoal'
  BY <1>1 DEF NoGoalWithoutChassis, NoGhostGoal, AdapterInv
<1> QED
  BY <1>3, <1>4, <1>5, <1>6

(* A cancel that waits for the goal to be accepted.                        *)
LEMMA LaterStep ==
  ASSUME IInv, UNCHANGED manager, CancelLater, pending_goal,
         UNCHANGED <<health, host, chassis_not_ready_since>>,
         chassis_ready' \in BOOLEAN, due' \subseteq due
  PROVE  IInv'
<1> USE DEF IInv
<1>1. /\ cancel_when_accepted' = TRUE /\ status' = "CANCELING"
      /\ UNCHANGED <<pending_goal, active, cancel_requested, active_source, call>>
      /\ UNCHANGED <<localized, localization_not_ready_since, blind>>
  BY DEF CancelLater, health
<1>2. AdapterInv'
  BY <1>1 DEF AdapterInv
<1>3. ManagerInv' /\ StopInv'
  <2>1. UNCHANGED <<mLocalized, goal_reserved, named_goal, mCancel, canceling, pc>>
    BY DEF manager
  <2> QED
    BY <1>1, <2>1 DEF ManagerInv, StopInv, Stopping
<1>4. TypeOK'
  BY <1>1, ManagerTypes DEF TypeOK
<1>5. GraceInv'
  BY <1>1 DEF GraceInv, AdapterInv
<1>6. NoGoalWithoutChassis' /\ NoGhostGoal'
  BY <1>1 DEF NoGoalWithoutChassis, NoGhostGoal, AdapterInv
<1> QED
  BY <1>2, <1>3, <1>4, <1>5, <1>6

LEMMA AdapterStep ==
  ASSUME IInv, AdapterNext, UNCHANGED manager
  PROVE  IInv'
<1> USE DEF IInv
<1>m. /\ mLocalized' \in BOOLEAN /\ goal_reserved' \in BOOLEAN /\ named_goal' \in BOOLEAN
      /\ mCancel' \in BOOLEAN /\ canceling' \in BOOLEAN /\ pc' \in Steps
  BY ManagerTypes
<1>k. ASSUME UNCHANGED <<goal, call>> PROVE AdapterInv' /\ ManagerInv' /\ StopInv'
  BY <1>k, GoalKept
<1>n. ASSUME UNCHANGED <<health, chassis, goal, due, call>>,
             status' \in {"IDLE", "SENDING", "NAVIGATING", "CANCELING",
                          "SUCCEEDED", "CANCELED", "REJECTED", "FAILED"},
             NoGhostGoal'
      PROVE  IInv'
  <2>1. /\ UNCHANGED <<localized, localization_not_ready_since, blind, host, chassis_ready,
                       chassis_not_ready_since, pending_goal, cancel_when_accepted, active,
                       cancel_requested, active_source, due, call>>
    BY <1>n DEF health, chassis, goal
  <2>2. TypeOK'
    BY <1>m, <1>n, <2>1 DEF TypeOK
  <2>3. GraceInv' /\ NoGoalWithoutChassis'
    BY <2>1 DEF GraceInv, NoGoalWithoutChassis
  <2> QED
    BY <1>k, <1>n, <2>2, <2>3
<1>1. ASSUME NEW ready \in BOOLEAN, OnLocalization(ready) PROVE IInv'
  <2>1. /\ localized' = ready
        /\ localization_not_ready_since' =
             IF ready THEN Never
             ELSE IF localization_not_ready_since = Never THEN 0 ELSE localization_not_ready_since
        /\ blind' = IF ready THEN 0 ELSE blind
        /\ UNCHANGED <<host, chassis_ready, chassis_not_ready_since, pending_goal,
                       cancel_when_accepted, active, cancel_requested, active_source, due, call>>
    BY <1>1 DEF OnLocalization, chassis, goal
  <2>2. /\ status' \in {"NAVIGATING", "IDLE", status}
        /\ status' = "NAVIGATING" => active \/ status = "NAVIGATING"
    BY <1>1 DEF OnLocalization
  <2>3. /\ localization_not_ready_since' \in Never .. LocalizationGrace
        /\ blind' \in 0 .. LocalizationGrace + 1
    BY <2>1, GracePeriods DEF TypeOK, Never
  <2>4. TypeOK'
    BY <1>m, <2>1, <2>2, <2>3 DEF TypeOK
  <2>5. GraceInv'
    <3>1. CASE ready
      BY <2>1, <3>1 DEF GraceInv
    <3>2. CASE ~ready /\ localized
      BY <2>1, <3>2 DEF GraceInv, Never
    <3>3. CASE ~ready /\ ~localized /\ localization_not_ready_since = Never
      BY <2>1, <3>3 DEF GraceInv, Never
    <3>4. CASE ~ready /\ ~localized /\ localization_not_ready_since # Never
      BY <2>1, <3>4 DEF GraceInv
    <3> QED
      BY <3>1, <3>2, <3>3, <3>4 DEF TypeOK
  <2>6. NoGoalWithoutChassis' /\ NoGhostGoal'
    BY <2>1, <2>2 DEF NoGoalWithoutChassis, NoGhostGoal
  <2> QED
    BY <1>k, <1>1, <2>4, <2>5, <2>6 DEF OnLocalization
<1>2. ASSUME NEW hostMode \in BOOLEAN, OnChassisStatus(hostMode) PROVE IInv'
  <2>1. /\ host' = hostMode
        /\ chassis_ready' = (hostMode \/ chassis_ready)
        /\ chassis_not_ready_since' \in {Never, 0, chassis_not_ready_since}
        /\ status' \in {"IDLE", status}
        /\ UNCHANGED <<localized, localization_not_ready_since, blind, pending_goal,
                       cancel_when_accepted, active, cancel_requested, active_source, due, call>>
    BY <1>2 DEF OnChassisStatus, health, goal
  <2>2. chassis_not_ready_since' \in Never .. ChassisGrace
    BY <2>1, GracePeriods DEF TypeOK, Never
  <2>3. TypeOK'
    BY <1>m, <2>1, <2>2 DEF TypeOK
  <2>4. GraceInv' /\ NoGoalWithoutChassis' /\ NoGhostGoal'
    BY <2>1 DEF GraceInv, NoGoalWithoutChassis, NoGhostGoal, TypeOK
  <2> QED
    BY <1>k, <1>2, <2>3, <2>4 DEF OnChassisStatus
<1>3. ASSUME NEW kind \in Kinds, NEW usable \in BOOLEAN, OnGoal(kind, usable) PROVE IInv'
  <2>1. CASE Reject
    BY <1>n, <2>1 DEF Reject, NoGhostGoal
  <2>2. CASE /\ GoalIsAvailable
             /\ active_source' = kind /\ pending_goal' = TRUE /\ status' = "SENDING"
             /\ call' = [call EXCEPT ![kind] = NewCall]
             /\ UNCHANGED <<health, chassis, due, cancel_when_accepted, active, cancel_requested>>
    <3>1. /\ localized /\ chassis_ready /\ ~pending_goal /\ ~active
          /\ ~cancel_when_accepted /\ ~cancel_requested
      BY <2>2 DEF GoalIsAvailable, AdapterInv
    <3>2. ~Outstanding(call[kind])
      BY <3>1 DEF AdapterInv
    <3>3. call' \in [Links -> Call] /\ AdapterInv' /\ ManagerInv' /\ StopInv'
      BY <2>2, <3>1, <3>2, CallFields, KindUpdate DEF Outstanding
    <3>4. UNCHANGED <<localized, localization_not_ready_since, blind, host, chassis_ready,
                      chassis_not_ready_since, cancel_when_accepted, active, cancel_requested, due>>
      BY <2>2 DEF health, chassis
    <3>5. TypeOK'
      BY <1>m, <2>2, <3>3, <3>4 DEF TypeOK
    <3>6. GraceInv' /\ NoGoalWithoutChassis' /\ NoGhostGoal'
      BY <2>2, <3>1, <3>4 DEF GraceInv, NoGoalWithoutChassis, NoGhostGoal
    <3> QED
      BY <3>3, <3>5, <3>6
  <2> QED
    BY <1>3, <2>1, <2>2 DEF OnGoal
<1>4. CASE OnGoalResponse
  <2>1. pending_goal /\ ~active /\ ResponseReady(call[active_source])
    BY <1>4 DEF OnGoalResponse, AdapterInv
  <2>2. CASE ~Accepted(call[active_source])
    <3>1. /\ FinishGoal("REJECTED")
          /\ call' = [call EXCEPT ![active_source] = Consumed(call[active_source])]
      BY <1>4, <2>2 DEF OnGoalResponse
    <3>2. /\ Consumed(call[active_source]) \in Call
          /\ Consumed(call[active_source]).server = "done"
          /\ ~Consumed(call[active_source]).handle
      BY <2>1, SourceCall, CallFields
    <3>3. call[active_source].server # "executing"
      BY <2>2 DEF Accepted
    <3> QED
      BY <3>1, <3>2, <3>3, FinishStep
  <2>3. CASE Accepted(call[active_source])
    <3> DEFINE c == IF cancel_when_accepted THEN Canceled(WithHandle(call[active_source]))
                                           ELSE WithHandle(call[active_source])
    <3>1. c \in Call /\ c.server = call[active_source].server /\ c.handle /\ (cancel_when_accepted => c.cancel)
      BY SourceCall, CallFields
    <3>2. /\ pending_goal' = FALSE /\ active' = TRUE /\ cancel_requested' = cancel_when_accepted
          /\ cancel_when_accepted' = FALSE
          /\ status' \in {"CANCELING", "NAVIGATING"}
          /\ call' = [call EXCEPT ![active_source] = c]
          /\ localization_not_ready_since' =
               IF ~cancel_when_accepted /\ ~localized /\ localization_not_ready_since = Never
               THEN 0 ELSE localization_not_ready_since
          /\ UNCHANGED <<localized, blind, host, chassis_ready, chassis_not_ready_since, active_source, due>>
      BY <1>4, <2>3 DEF OnGoalResponse, chassis
    <3> HIDE DEF c
    <3>3. c.server \in {"executing"} \cup Ended /\ Outstanding(c)
      BY <2>1, <2>3, <3>1 DEF ResponseReady, Accepted, Outstanding, Ended
    <3>4. call' \in [Links -> Call] /\ AdapterInv' /\ ManagerInv' /\ StopInv'
      BY <3>1, <3>2, <3>3, KindUpdate, SourceCall
    <3>5. localization_not_ready_since' \in Never .. LocalizationGrace
      BY <3>2, GracePeriods DEF TypeOK, Never
    <3>6. TypeOK'
      BY <1>m, <3>2, <3>4, <3>5 DEF TypeOK
    <3>7. GraceInv'
      <4>1. blind = 0 /\ (~localized => localization_not_ready_since # Never)
        BY <2>1 DEF GraceInv
      <4>2. /\ localization_not_ready_since' = localization_not_ready_since
            /\ blind' = 0 /\ localized' = localized /\ ~pending_goal' /\ active'
        BY <3>2, <4>1 DEF TypeOK
      <4>3. ~localized => blind' <= localization_not_ready_since'
        BY <4>1, <4>2 DEF TypeOK, Never
      <4> QED
        BY <4>1, <4>2, <4>3 DEF GraceInv
    <3>8. NoGoalWithoutChassis' /\ NoGhostGoal'
      BY <2>1, <3>2 DEF NoGoalWithoutChassis, NoGhostGoal
    <3> QED
      BY <3>4, <3>6, <3>7, <3>8
  <2> QED
    BY <2>2, <2>3
<1>e. /\ Released(Consumed(call[active_source])) \in Call
      /\ Released(Consumed(call[active_source])).server = "done"
      /\ ~Released(Consumed(call[active_source])).handle
  BY SourceCall, CallFields
<1>5. CASE OnResult
  <2>1. ResultStatus(call[active_source].server) \in {"SUCCEEDED", "CANCELED", "REJECTED", "FAILED"}
    BY DEF ResultStatus
  <2>2. /\ FinishGoal(ResultStatus(call[active_source].server))
        /\ call' = [call EXCEPT ![active_source] = Released(Consumed(call[active_source]))]
        /\ call[active_source].server # "executing"
    BY <1>5 DEF OnResult, ResultReady, Ended
  <2> QED
    BY <1>e, <2>1, <2>2, FinishStep
<1>6. CASE OnFutureException
  <2>1. /\ FinishGoal("FAILED")
        /\ call' = [call EXCEPT ![active_source] = Released(Consumed(call[active_source]))]
        /\ call[active_source].server # "executing"
    BY <1>6 DEF OnFutureException
  <2> QED
    BY <1>e, <2>1, FinishStep
<1>7. CASE OnFeedback
  <2>1. pending_goal \/ active
    BY <1>7, SourceCall DEF OnFeedback, Outstanding
  <2>2. UNCHANGED <<pending_goal, active>>
    BY <1>7 DEF OnFeedback, goal
  <2> QED
    BY <1>7, <1>n, <2>1, <2>2 DEF OnFeedback, NoGhostGoal
<1>8. CASE OnCancel
  <2>1. UNCHANGED <<health, host, chassis_not_ready_since>> /\ (chassis_ready' \in BOOLEAN) /\ due' \subseteq due
    BY <1>8 DEF OnCancel, chassis, TypeOK
  <2> QED
    BY <1>8, <2>1, CancelStep, LaterStep DEF OnCancel
<1>9. CASE EnforceLocalizationLossGrace
  <2>1. /\ due' = due \ {"localization"}
        /\ UNCHANGED <<health, host, chassis_ready, chassis_not_ready_since>>
    BY <1>9 DEF EnforceLocalizationLossGrace, chassis
  <2>2. CASE ~localized /\ localization_not_ready_since = LocalizationGrace /\ active /\ ~cancel_requested
    <3>1. CancelActive
      BY <1>9, <2>2 DEF EnforceLocalizationLossGrace
    <3> QED
      BY <2>1, <2>2, <3>1, CancelStep DEF TypeOK
  <2>3. CASE ~(~localized /\ localization_not_ready_since = LocalizationGrace /\ active /\ ~cancel_requested)
    <3>1. UNCHANGED <<goal, status, call>>
      BY <1>9, <2>3 DEF EnforceLocalizationLossGrace
    <3>2. UNCHANGED <<localized, localization_not_ready_since, blind, pending_goal,
                      cancel_when_accepted, active, cancel_requested, active_source>>
      BY <2>1, <3>1 DEF health, goal
    <3>3. TypeOK'
      BY <1>m, <2>1, <3>1, <3>2 DEF TypeOK
    <3>4. GraceInv'
      BY <2>1, <2>3, <3>2 DEF GraceInv
    <3>5. NoGoalWithoutChassis' /\ NoGhostGoal'
      BY <2>1, <3>1, <3>2 DEF NoGoalWithoutChassis, NoGhostGoal
    <3> QED
      BY <1>k, <3>1, <3>3, <3>4, <3>5
  <2> QED
    BY <2>2, <2>3
<1>10. CASE EnforceChassisModeGrace
  <2>1. due' = due \ {"chassis"} /\ UNCHANGED <<health, host, chassis_not_ready_since>>
    BY <1>10 DEF EnforceChassisModeGrace
  <2>2. ASSUME UNCHANGED <<goal, call>>, status' \in {"IDLE", status}, chassis_ready' \in BOOLEAN,
               NoGoalWithoutChassis'
        PROVE  IInv'
    <3>1. UNCHANGED <<localized, localization_not_ready_since, blind, pending_goal,
                      cancel_when_accepted, active, cancel_requested, active_source>>
      BY <2>1, <2>2 DEF health, goal
    <3>2. TypeOK'
      BY <1>m, <2>1, <2>2, <3>1 DEF TypeOK
    <3>3. "localization" \in due => "localization" \in due'
      BY <2>1
    <3>4. GraceInv' /\ NoGhostGoal'
      BY <2>2, <3>1, <3>3 DEF GraceInv, NoGhostGoal
    <3> QED
      BY <1>k, <2>2, <3>2, <3>4
  <2>3. CASE ~(chassis_ready /\ chassis_not_ready_since = ChassisGrace)
    <3>1. UNCHANGED <<chassis_ready, goal, status, call>>
      BY <1>10, <2>3 DEF EnforceChassisModeGrace
    <3>2. NoGoalWithoutChassis'
      BY <3>1 DEF NoGoalWithoutChassis, goal
    <3> QED
      BY <2>2, <3>1, <3>2 DEF TypeOK
  <2>4. CASE chassis_ready /\ chassis_not_ready_since = ChassisGrace
    <3>1. /\ chassis_ready' = FALSE
          /\ \/ active /\ ~cancel_requested /\ CancelActive
             \/ ~(active /\ ~cancel_requested) /\ pending_goal /\ CancelLater
             \/ /\ ~(active /\ ~cancel_requested) /\ ~pending_goal
                /\ status' = "IDLE"
                /\ UNCHANGED <<goal, call>>
      BY <1>10, <2>4 DEF EnforceChassisModeGrace
    <3>2. CASE active /\ ~cancel_requested /\ CancelActive
      BY <2>1, <3>1, <3>2, CancelStep
    <3>3. CASE pending_goal /\ CancelLater
      BY <2>1, <3>1, <3>3, LaterStep
    <3>4. CASE ~(active /\ ~cancel_requested) /\ ~pending_goal /\ status' = "IDLE" /\ UNCHANGED <<goal, call>>
      <4>1. NoGoalWithoutChassis'
        BY <3>4 DEF NoGoalWithoutChassis, goal
      <4> QED
        BY <2>2, <3>1, <3>4, <4>1
    <3> QED
      BY <3>1, <3>2, <3>3, <3>4
  <2> QED
    BY <2>3, <2>4
<1>11. CASE Tick
  <2>1. /\ due = {} /\ due' = {"localization", "chassis"}
        /\ UNCHANGED <<localized, host, chassis_ready, pending_goal, cancel_when_accepted, active,
                       cancel_requested, active_source, status, call>>
        /\ localization_not_ready_since' = Older(localization_not_ready_since, LocalizationGrace)
        /\ chassis_not_ready_since' = Older(chassis_not_ready_since, ChassisGrace)
        /\ blind' = IF localized \/ ~active THEN 0 ELSE Older(blind, LocalizationGrace + 1)
    BY <1>11 DEF Tick, goal
  <2>2. ASSUME NEW g \in Nat, NEW a \in Never .. g
        PROVE  /\ Older(a, g) \in Never .. g
               /\ Older(a, g) = Never <=> a = Never
               /\ a \in 0 .. g => Older(a, g) \in 0 .. g
               /\ a # Never /\ a # g => Older(a, g) = a + 1
               /\ a = g => Older(a, g) = g
    BY <2>2 DEF Older, Never
  <2>3. /\ LocalizationGrace \in Nat /\ ChassisGrace \in Nat /\ LocalizationGrace + 1 \in Nat
        /\ blind \in Never .. LocalizationGrace + 1
    BY GracePeriods DEF TypeOK, Never
  <2>4. /\ localization_not_ready_since' \in Never .. LocalizationGrace
        /\ chassis_not_ready_since' \in Never .. ChassisGrace
        /\ localization_not_ready_since' = Never <=> localization_not_ready_since = Never
        /\ localization_not_ready_since # LocalizationGrace /\ localization_not_ready_since # Never
             => localization_not_ready_since' = localization_not_ready_since + 1
        /\ localization_not_ready_since = LocalizationGrace => localization_not_ready_since' = LocalizationGrace
    BY <2>1, <2>2, <2>3 DEF TypeOK
  <2>5. /\ blind' \in 0 .. LocalizationGrace + 1
        /\ localized \/ ~active => blind' = 0
        /\ blind' <= blind + 1
    BY <2>1, <2>3 DEF TypeOK, Older
  <2>6. TypeOK'
    BY <1>m, <2>1, <2>4, <2>5 DEF TypeOK
  <2>7. GraceInv'
    <3>1. localized => localization_not_ready_since' = Never /\ blind' = 0
      BY <2>4, <2>5 DEF GraceInv
    <3>2. pending_goal => blind' = 0
      BY <2>5 DEF AdapterInv
    <3>3. active /\ ~localized /\ ~cancel_requested =>
            \/ blind' <= localization_not_ready_since'
            \/ localization_not_ready_since' = LocalizationGrace
      <4> SUFFICES ASSUME active, ~localized, ~cancel_requested,
                          localization_not_ready_since # LocalizationGrace
                   PROVE  blind' <= localization_not_ready_since'
        BY <2>4
      <4>1. blind <= localization_not_ready_since /\ localization_not_ready_since # Never
        BY <2>1 DEF GraceInv
      <4> QED
        BY <2>4, <2>5, <4>1 DEF TypeOK, Never
    <3> QED
      BY <2>1, <2>4, <3>1, <3>2, <3>3 DEF GraceInv
  <2>8. NoGoalWithoutChassis' /\ NoGhostGoal'
    BY <2>1 DEF NoGoalWithoutChassis, NoGhostGoal
  <2> QED
    BY <1>11, <1>k, <2>6, <2>7, <2>8 DEF Tick
<1> QED
  BY <1>1, <1>2, <1>3, <1>4, <1>5, <1>6, <1>7, <1>8, <1>9, <1>10, <1>11 DEF AdapterNext, AdapterAnswers

----------------------------------------------------------------------------
LEMMA Inductive == Spec => []IInv
<1>1. IInv /\ [Next]_vars => IInv'
  <2> SUFFICES ASSUME IInv, [Next]_vars PROVE IInv'
    OBVIOUS
  <2>1. CASE AdapterNext /\ UNCHANGED manager
    BY <2>1, AdapterStep
  <2>2. CASE ManagerNext /\ UNCHANGED adapter
    BY <2>2, ManagerStep
  <2>3. CASE Nav2 /\ UNCHANGED <<adapter, manager>>
    BY <2>3, Nav2Step DEF Nav2
  <2>4. CASE UNCHANGED vars
    <3>1. UNCHANGED <<adapter, manager, call>>
      BY <2>4 DEF vars
    <3>2. /\ UNCHANGED <<localized, localization_not_ready_since, blind, host, chassis_ready,
                         chassis_not_ready_since, status, due>>
          /\ UNCHANGED goal
      BY <3>1 DEF adapter, health, chassis
    <3>3. AdapterInv' /\ ManagerInv' /\ StopInv'
      BY <3>1, <3>2, GoalKept
    <3>4. UNCHANGED <<pending_goal, cancel_when_accepted, active, cancel_requested, active_source>>
      BY <3>2 DEF goal
    <3>5. TypeOK'
      BY <3>1, <3>2, <3>4, ManagerTypes DEF TypeOK, IInv
    <3>6. GraceInv' /\ NoGoalWithoutChassis' /\ NoGhostGoal'
      BY <3>2, <3>4 DEF GraceInv, NoGoalWithoutChassis, NoGhostGoal, IInv
    <3> QED
      BY <3>3, <3>5, <3>6 DEF IInv
  <2> QED
    BY <2>1, <2>2, <2>3, <2>4 DEF Next
<1> QED
  BY <1>1, InitIInv, PTL DEF Spec

(* Types, for any grace periods.                                           *)
THEOREM IndoorTypeCorrect == Spec => []TypeOK
<1>1. IInv => TypeOK
  BY DEF IInv
<1> QED
  BY <1>1, Inductive, PTL

(* Adapter and manager never have two goals with bt_navigator: a pose goal *)
(* and a named goal are the adapter's only goal, and the manager's goal    *)
(* lives no longer than the named goal it serves.                          *)
THEOREM DrivesToOnePlace == Spec => []OneDestination
<1>1. ASSUME IInv PROVE OneDestination
  <2>1. Outstanding(call["nav"]) => call["named"].server = "executing"
    BY <1>1 DEF IInv, ManagerInv, Awaits
  <2>2. ~(Outstanding(call["pose"]) /\ Outstanding(call["named"]))
    BY <1>1 DEF IInv, AdapterInv, Kinds
  <2> QED
    BY <2>1, <2>2 DEF OneDestination, Outstanding
<1> QED
  BY <1>1, Inductive, PTL

(* Every way out of the manager's coroutine, at any await, releases the    *)
(* reservation it took with the goal it accepted.                          *)
THEOREM ReleasesReservation == Spec => []ReservationReleased
<1>1. ASSUME IInv PROVE ReservationReleased
  <2>1. goal_reserved <=> call["named"].server = "executing"
    BY <1>1 DEF IInv, ManagerInv
  <2>2. Outstanding(call["nav"]) => call["named"].server = "executing"
    BY <1>1 DEF IInv, ManagerInv, Awaits
  <2> QED
    BY <2>1, <2>2 DEF ReservationReleased
<1> QED
  BY <1>1, Inductive, PTL

(* A cancel crosses the acceptance of the goal on both links and still     *)
(* reaches bt_navigator; a goal the manager drives without localization is *)
(* being canceled.                                                         *)
THEOREM CancelsArrive == Spec => []CancelReachesNav2
<1>1. ASSUME IInv PROVE CancelReachesNav2
  <2>1. pc \in Steps /\ (call["named"].server = "executing" => pc # "idle")
    BY <1>1 DEF IInv, TypeOK, ManagerInv
  <2>2. pc \notin {"idle", "accepted", "send_goal"} => pc \in Driving
    BY <2>1 DEF Steps, Driving
  <2>3. call["named"].server = "executing" /\ mCancel => ManagerStops
    BY <1>1, <2>1, <2>2 DEF IInv, StopInv, ManagerStops
  <2> QED
    BY <1>1, <2>2, <2>3 DEF IInv, AdapterInv, StopInv, CancelReachesNav2, ManagerStops
<1> QED
  BY <1>1, Inductive, PTL

(* The grace periods bound what the robot does without host mode and       *)
(* without localization, for any length of them.                           *)
THEOREM GracePeriodsHold == Spec => []GraceIsBounded
<1>1. ASSUME IInv PROVE GraceIsBounded
  <2>1. ASSUME blind > LocalizationGrace, active, "localization" \notin due, ~cancel_requested PROVE FALSE
    <3>1. ~localized
      BY <1>1, <2>1, GracePeriods DEF IInv, GraceInv
    <3>2. blind <= localization_not_ready_since
      BY <1>1, <2>1, <3>1 DEF IInv, GraceInv
    <3> QED
      BY <1>1, <2>1, <3>2, GracePeriods DEF IInv, TypeOK, Never
  <2> QED
    BY <1>1, <2>1 DEF IInv, GraceIsBounded, BlindDrivingIsBounded
<1> QED
  BY <1>1, Inductive, PTL

(* The status an operator sees belongs to a goal that exists.              *)
THEOREM StatusIsTrue == Spec => []NoGhostGoal
<1>1. IInv => NoGhostGoal
  BY DEF IInv
<1> QED
  BY <1>1, Inductive, PTL
=============================================================================
