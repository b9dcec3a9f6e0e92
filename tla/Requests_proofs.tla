-------------------------- MODULE Requests_proofs --------------------------
(***************************************************************************)
(* Theorems about the three nodes that carry out an operator's requests:   *)
(* GoalManager, for any set of destinations and both settings of its       *)
(* parameters, FrogBoard, for any windows that outlast the frames that are *)
(* lost, and GpsRouteRunner, for any route, tolerances and faults.         *)
(***************************************************************************)
EXTENDS GoalManager, FrogBoard, GpsRouteRunner, TLAPS

-----------------------------------------------------------------------------
(* GoalManager.  Every stage of the chain holds exactly one call, and the  *)
(* target in force is the one whose chain is running.                      *)

(* Whatever an action server does with a goal, the goal stays a well-formed*)
(* call and the client keeps waiting for it exactly if it was waiting.     *)
LEMMA ServerStepLemma ==
  ASSUME NEW c \in Call, NEW d \in ServerStep(c)
  PROVE  d \in Call /\ (Outstanding(d) <=> Outstanding(c))
<1>1. CASE c.server = "requested" /\ d \in {[c EXCEPT !.server = r] : r \in {"executing", "rejected"}}
  BY <1>1 DEF Call, ServerState, Outstanding
<1>2. CASE c.server = "executing" /\ d \in {[c EXCEPT !.server = r] : r \in {"succeeded", "aborted"}}
  BY <1>2 DEF Call, ServerState, Outstanding
<1>3. CASE c.server = "executing" /\ d = [c EXCEPT !.server = "canceled", !.cancel = FALSE]
  BY <1>3 DEF Call, ServerState, Outstanding
<1>4. CASE d = [c EXCEPT !.cancel = FALSE]
  BY <1>4 DEF Call, ServerState, Outstanding
<1> QED
  BY <1>1, <1>2, <1>3, <1>4 DEF ServerStep

(* The calls the client makes and their updates are well-formed calls.     *)
LEMMA CallTypes ==
  /\ NoCall \in Call /\ ~Outstanding(NoCall)
  /\ NewCall \in Call /\ Outstanding(NewCall)
  /\ \A c \in Call : /\ WithHandle(c) \in Call /\ (Outstanding(WithHandle(c)) <=> Outstanding(c))
                     /\ Canceled(c) \in Call /\ (Outstanding(Canceled(c)) <=> Outstanding(c))
                     /\ ResponseReady(c) => Outstanding(c)
                     /\ ResultReady(c) => Outstanding(c)
<1>1. /\ NoCall \in Call /\ ~Outstanding(NoCall)
      /\ NewCall \in Call /\ Outstanding(NewCall)
  BY DEF NoCall, NewCall, Call, ServerState, Outstanding
<1>2. ASSUME NEW c \in Call
      PROVE  /\ WithHandle(c) \in Call /\ (Outstanding(WithHandle(c)) <=> Outstanding(c))
             /\ Canceled(c) \in Call /\ (Outstanding(Canceled(c)) <=> Outstanding(c))
    BY DEF WithHandle, Canceled, Call, ServerState, Outstanding
<1>3. ASSUME NEW c \in Call
      PROVE  (ResponseReady(c) => Outstanding(c)) /\ (ResultReady(c) => Outstanding(c))
  BY DEF ResponseReady, ResultReady, Ended, Call, ServerState, Outstanding
<1> QED
  BY <1>1, <1>2, <1>3

(* Two records of the same goal.                                           *)
SameGoal(a, b) ==
  a.stage = b.stage /\ a.to = b.to /\ (Outstanding(a.call) <=> Outstanding(b.call))

(* A call is updated in its goal.                                          *)
LEMMA UpdatedCall ==
  ASSUME NEW a \in Goal, NEW c \in Call, Outstanding(c) <=> Outstanding(a.call)
  PROVE  [a EXCEPT !.call = c] \in Goal /\ SameGoal([a EXCEPT !.call = c], a)
  BY DEF Goal, SameGoal

(* The goals that a callback leaves, and one that it sends.                *)
LEMMA AfterTypes ==
  ASSUME TypeOK, NEW ended
  PROVE  /\ Unused \in Goal /\ ~Outstanding(Unused.call)
         /\ After(ended) \in [GoalIds -> Goal]
         /\ \A g \in GoalIds : After(ended)[g] = IF g \in ended THEN Unused ELSE goals[g]
<1>1. Unused \in Goal /\ ~Outstanding(Unused.call)
  BY CallTypes DEF Unused, Goal, Stages
<1> QED
  BY <1>1 DEF After, TypeOK

SentAs(g, ended, stage, to) ==
  /\ goals'[g].stage = stage /\ goals'[g].to = to /\ Outstanding(goals'[g].call)
  /\ \A h \in GoalIds : h # g => goals'[h] = IF h \in ended THEN Unused ELSE goals[h]

LEMMA SentTypes ==
  ASSUME TypeOK, NEW ended, NEW stage \in Stages, NEW to \in Destinations \cup {None},
         Send(ended, stage, to)
  PROVE  /\ goals' \in [GoalIds -> Goal]
         /\ handle' = handle
         /\ \E g \in GoalIds : SentAs(g, ended, stage, to)
<1>1. PICK g \in GoalIds :
        /\ Free(g)
        /\ goals' = [After(ended) EXCEPT ![g] = [stage |-> stage, to |-> to, call |-> NewCall]]
  BY DEF Send
<1>2. [stage |-> stage, to |-> to, call |-> NewCall] \in Goal
  BY CallTypes DEF Goal
<1>3. goals' \in [GoalIds -> Goal]
  BY <1>1, <1>2, AfterTypes
<1>4. /\ goals'[g] = [stage |-> stage, to |-> to, call |-> NewCall]
      /\ \A h \in GoalIds : h # g => goals'[h] = After(ended)[h]
  BY <1>1, AfterTypes
<1>5. \A h \in GoalIds : h # g => goals'[h] = IF h \in ended THEN Unused ELSE goals[h]
  BY <1>4, AfterTypes
<1>6. goals'[g].stage = stage /\ goals'[g].to = to /\ Outstanding(goals'[g].call)
  BY <1>4, CallTypes
<1>7. SentAs(g, ended, stage, to)
  BY <1>5, <1>6 DEF SentAs
<1>8. handle' = handle
  BY DEF Send
<1> QED
  BY <1>3, <1>7, <1>8

LEMMA InitTypeOK == Init => TypeOK
<1>1. Unused \in Goal
  BY CallTypes DEF Unused, Goal, Stages
<1> QED
  BY <1>1 DEF Init, TypeOK, NoHandles

(* What the parts of a callback leave well-typed.                          *)
Typed ==
  /\ busy \in BOOLEAN /\ cancel_requested \in BOOLEAN
  /\ current_target_name \in Destinations \cup {None}
  /\ pending_path \in Destinations \cup {None}
  /\ handle \in [Stages -> GoalIds \cup {None}]
  /\ goals \in [GoalIds -> Goal]

LEMMA ResetTypes ==
  ASSUME TypeOK, NEW ended, ResetRequest(ended)
  PROVE  Typed'
<1>1. goals' \in [GoalIds -> Goal]
  BY AfterTypes DEF ResetRequest
<1> QED
  BY <1>1 DEF ResetRequest, Typed, NoHandles

LEMMA FollowTypes ==
  ASSUME TypeOK, NEW ended, NEW path \in Destinations \cup {None}, SendFollowPath(ended, path)
  PROVE  Typed' /\ status' \in {"FAILED", "FOLLOWING_ROUTE"}
<1>1. CASE path = None
  BY <1>1, ResetTypes DEF SendFollowPath, Finish
<1>2. CASE path # None
  <2>1. goals' \in [GoalIds -> Goal] /\ handle' = handle
    BY <1>2, SentTypes DEF SendFollowPath, Stages
  <2> QED
    BY <1>2, <2>1 DEF SendFollowPath, Typed, TypeOK
<1> QED
  BY <1>1, <1>2

LEMMA AcceptedTypes ==
  ASSUME TypeOK, NEW g \in GoalIds, GoalAccepted(g)
  PROVE  /\ Typed'
         /\ \A h \in GoalIds : SameGoal(goals'[h], goals[h])
<1>1. goals[g] \in Goal /\ goals[g].call \in Call /\ goals[g].stage \in Stages
  BY DEF TypeOK, Goal
<1>2. /\ [goals[g] EXCEPT !.call = WithHandle(@)] \in Goal
      /\ SameGoal([goals[g] EXCEPT !.call = WithHandle(@)], goals[g])
  BY <1>1, CallTypes, UpdatedCall
<1>3. goals' = [goals EXCEPT ![g] = [goals[g] EXCEPT !.call = WithHandle(@)]]
  BY DEF GoalAccepted
<1>4. goals' \in [GoalIds -> Goal] /\ \A h \in GoalIds : SameGoal(goals'[h], goals[h])
  BY <1>2, <1>3 DEF TypeOK, SameGoal
<1>5. handle' \in [Stages -> GoalIds \cup {None}]
  BY <1>1 DEF GoalAccepted, TypeOK
<1> QED
  BY <1>4, <1>5 DEF GoalAccepted, Typed, TypeOK, request

LEMMA StopTypes ==
  ASSUME TypeOK, StopCallback
  PROVE  /\ goals' \in [GoalIds -> Goal]
         /\ \A h \in GoalIds : SameGoal(goals'[h], goals[h])
<1>1. CASE goals' = goals
  BY <1>1 DEF TypeOK, SameGoal
<1>2. CASE goals' = [g \in GoalIds |-> IF \E s \in Stages : handle[s] = g
                                     THEN [goals[g] EXCEPT !.call = Canceled(@)]
                                     ELSE goals[g]]
  <2>1. ASSUME NEW g \in GoalIds
        PROVE  goals'[g] \in Goal /\ SameGoal(goals'[g], goals[g])
    <3>1. goals[g] \in Goal /\ goals[g].call \in Call
      BY DEF TypeOK, Goal
    <3>2. /\ [goals[g] EXCEPT !.call = Canceled(@)] \in Goal
          /\ SameGoal([goals[g] EXCEPT !.call = Canceled(@)], goals[g])
      BY <3>1, CallTypes, UpdatedCall
    <3> QED
      BY <1>2, <3>1, <3>2 DEF SameGoal
  <2> QED
    BY <1>2, <2>1
<1> QED
  BY <1>1, <1>2 DEF StopCallback

LEMMA ServerTypes ==
  ASSUME TypeOK, NEW g \in GoalIds, Server(g)
  PROVE  /\ goals' \in [GoalIds -> Goal]
         /\ \A h \in GoalIds : SameGoal(goals'[h], goals[h])
<1>1. PICK c \in ServerStep(goals[g].call) : goals' = [goals EXCEPT ![g].call = c]
  BY DEF Server
<1>2. goals[g] \in Goal /\ goals[g].call \in Call
  BY DEF TypeOK, Goal
<1>3. c \in Call /\ (Outstanding(c) <=> Outstanding(goals[g].call))
  BY <1>2, ServerStepLemma
<1>4. [goals[g] EXCEPT !.call = c] \in Goal /\ SameGoal([goals[g] EXCEPT !.call = c], goals[g])
  BY <1>2, <1>3, UpdatedCall
<1>5. goals' = [goals EXCEPT ![g] = [goals[g] EXCEPT !.call = c]]
  BY <1>1
<1> QED
  BY <1>4, <1>5 DEF TypeOK, SameGoal

(* Every variable keeps its type.                                          *)
THEOREM TypeCorrect == Spec => []TypeOK
<1>1. Init => TypeOK
  BY InitTypeOK
<1>2. TypeOK /\ [Next]_vars => TypeOK'
  <2> SUFFICES ASSUME TypeOK, [Next]_vars PROVE TypeOK'
    OBVIOUS
  <2>0. \A g \in GoalIds : goals[g].to \in Destinations \cup {None}
    BY DEF TypeOK, Goal
  <2>t. ASSUME Typed', navReady' \in BOOLEAN, anchorKnown' \in BOOLEAN,
               status' \in {"FOLLOWING_ROUTE", "SUCCEEDED", "CANCELLED", "FAILED"} \cup {status}
        PROVE  TypeOK'
    BY <2>t DEF Typed, TypeOK
  <2>u. Typed
    BY DEF TypeOK, Typed
  <2>1. CASE SystemStatusCallback
    BY <2>1 DEF SystemStatusCallback, TypeOK, request
  <2>2. CASE NearestAnchorIdCallback
    BY <2>2 DEF NearestAnchorIdCallback, TypeOK, request
  <2>3. ASSUME NEW name \in Destinations \cup {UnknownName},
               NEW serversReady \in BOOLEAN, NEW poseKnown \in BOOLEAN,
               GotoNameCallback(name, serversReady, poseKnown)
        PROVE  TypeOK'
    <3>1. CASE UNCHANGED <<request, handle, goals>>
      BY <3>1, <2>3 DEF GotoNameCallback, Reject, Finish, TypeOK, request
    <3>2. CASE Finish("FAILED", {})
      BY <3>2, <2>3, <2>t, ResetTypes DEF GotoNameCallback, Finish, TypeOK
    <3>3. CASE /\ ~GotoNameRefused(name)
               /\ busy' /\ cancel_requested' = FALSE /\ current_target_name' = name
               /\ pending_path' = None /\ status' = "COMPUTING_ROUTE"
               /\ Send({}, "compute_route", name)
      <4>1. name \in Destinations
        BY <3>3 DEF GotoNameRefused
      <4>2. goals' \in [GoalIds -> Goal] /\ handle' = handle
        BY <3>3, <4>1, SentTypes DEF Stages
      <4> QED
        BY <3>3, <4>1, <4>2, <2>3 DEF GotoNameCallback, TypeOK
    <3> QED
      BY <2>3, <3>1, <3>2, <3>3 DEF GotoNameCallback, Reject
  <2>4. CASE StopCallback
    BY <2>4, StopTypes DEF StopCallback, TypeOK, request
  <2>5. ASSUME NEW g \in GoalIds, OnGoalResponse(g) PROVE TypeOK'
    <3>1. CASE GoalAccepted(g)
      BY <3>1, <2>5, <2>t, AcceptedTypes DEF OnGoalResponse, GoalAccepted, TypeOK
    <3>2. CASE Finish("FAILED", {g})
      BY <3>2, <2>5, <2>t, ResetTypes DEF OnGoalResponse, Finish, TypeOK
    <3> QED
      BY <2>5, <3>1, <3>2 DEF OnGoalResponse
  <2>6. ASSUME NEW g \in GoalIds, OnUnsuccessfulResult(g) PROVE TypeOK'
    BY <2>6, <2>t, ResetTypes DEF OnUnsuccessfulResult, Finish, TypeOK
  <2>7. ASSUME NEW g \in GoalIds, NEW emptyPath \in BOOLEAN, NEW farFromAnchor \in BOOLEAN,
               OnComputeRouteResult(g, emptyPath, farFromAnchor)
        PROVE  TypeOK'
    <3>0. navReady' \in BOOLEAN /\ anchorKnown' \in BOOLEAN
      BY <2>7 DEF OnComputeRouteResult, Succeeded, TypeOK
    <3>1. CASE Finish("FAILED", {g})
      BY <3>0, <3>1, <2>t, ResetTypes DEF Finish
    <3>2. CASE SendNavigateToAnchor({g}, goals[g].to)
      <4>1. goals' \in [GoalIds -> Goal] /\ handle' = handle
        BY <3>2, SentTypes DEF SendNavigateToAnchor, Stages
      <4> QED
        BY <3>0, <3>2, <4>1, <2>0 DEF SendNavigateToAnchor, TypeOK
    <3>3. CASE SendFollowPath({g}, goals[g].to)
      BY <3>0, <3>3, <2>0, <2>t, FollowTypes
    <3> QED
      BY <3>1, <3>2, <3>3, <2>7 DEF OnComputeRouteResult
  <2>8. ASSUME NEW g \in GoalIds, OnNavigateResult(g) PROVE TypeOK'
    BY <2>8, <2>t, <2>u, FollowTypes DEF OnNavigateResult, Succeeded, TypeOK
  <2>9. ASSUME NEW g \in GoalIds, OnFollowPathResult(g) PROVE TypeOK'
    BY <2>9, <2>t, ResetTypes DEF OnFollowPathResult, Succeeded, Finish, TypeOK
  <2>10. ASSUME NEW g \in GoalIds, OnFutureException(g) PROVE TypeOK'
    BY <2>10, <2>t, ResetTypes DEF OnFutureException, Finish, TypeOK
  <2>11. ASSUME NEW g \in GoalIds, Server(g) PROVE TypeOK'
    BY <2>11, ServerTypes DEF Server, TypeOK, request
  <2>12. CASE UNCHANGED vars
    BY <2>12 DEF vars, TypeOK, request
  <2> QED
    BY <2>1, <2>2, <2>3, <2>4, <2>5, <2>6, <2>7, <2>8, <2>9, <2>10, <2>11, <2>12
       DEF Next, Callback
<1> QED
  BY <1>1, <1>2, PTL DEF Spec

(***************************************************************************)
(* The inductive invariant: one goal exactly while busy, and the route that *)
(* is computed, stored or followed leads to the current target.  A late     *)
(* route brings its own destination with it: that it is the current one     *)
(* follows from there being one goal only.                                  *)
(***************************************************************************)
IInv == TypeOK /\ BusyIffOneGoal /\ FollowsCurrentTarget /\ RouteOfCurrentTarget

(* A goal that has a response or a result to deliver is the pending one.   *)
LEMMA ReadyIsPending ==
  ASSUME IInv, NEW g \in GoalIds,
         \/ ResponseReady(goals[g].call) \/ ResultReady(goals[g].call)
         \/ Outstanding(goals[g].call)
  PROVE  busy /\ Pending = {g}
<1>1. goals[g].call \in Call
  BY DEF IInv, TypeOK, Goal
<1>2. g \in Pending
  BY <1>1, CallTypes DEF Pending
<1> QED
  BY <1>2 DEF IInv, BusyIffOneGoal, TypeOK

(* Finishing a request whose last goal has ended leaves nothing behind.    *)
LEMMA ResetEstablishes ==
  ASSUME TypeOK, NEW ended, Pending \subseteq ended, ResetRequest(ended)
  PROVE  BusyIffOneGoal' /\ FollowsCurrentTarget' /\ RouteOfCurrentTarget'
<1>1. Pending' = {}
  <2>1. ASSUME NEW g \in GoalIds PROVE ~Outstanding(goals'[g].call)
    <3>1. goals'[g] = IF g \in ended THEN Unused ELSE goals[g]
      BY AfterTypes DEF ResetRequest
    <3> QED
      BY <3>1, AfterTypes DEF Pending
  <2> QED
    BY <2>1 DEF Pending
<1> QED
  BY <1>1 DEF ResetRequest, BusyIffOneGoal, FollowsCurrentTarget, RouteOfCurrentTarget

(* Sending the next goal when the one that was pending has ended.          *)
LEMMA SendMoves ==
  ASSUME TypeOK, NEW ended, Pending \subseteq ended,
         NEW stage \in Stages, NEW to \in Destinations \cup {None}, Send(ended, stage, to)
  PROVE  \E g \in GoalIds : Pending' = {g} /\ goals'[g].stage = stage /\ goals'[g].to = to
<1>1. PICK g \in GoalIds : SentAs(g, ended, stage, to)
  BY SentTypes
<1>2. \A h \in GoalIds : h # g => ~Outstanding(goals'[h].call)
  BY <1>1, AfterTypes DEF Pending, SentAs
<1>3. Pending' = {g}
  BY <1>1, <1>2 DEF Pending, SentAs
<1> QED
  BY <1>1, <1>3 DEF SentAs

LEMMA IInvStep == TypeOK' /\ IInv /\ [Next]_vars => IInv'
<1> SUFFICES ASSUME TypeOK', IInv, [Next]_vars PROVE IInv'
  OBVIOUS
<1>0. TypeOK /\ BusyIffOneGoal /\ FollowsCurrentTarget /\ RouteOfCurrentTarget
  BY DEF IInv
<1>r. ASSUME NEW how, NEW ended, Pending \subseteq ended, Finish(how, ended)
      PROVE  IInv'
  BY <1>0, <1>r, ResetEstablishes DEF Finish, IInv
<1>f. ASSUME NEW g \in GoalIds, Pending = {g}, busy,
             NEW path, path \in {None, current_target_name}, SendFollowPath({g}, path)
      PROVE  IInv'
  <2>1. CASE path = None
    BY <1>f, <2>1, <1>r DEF SendFollowPath
  <2>2. CASE path # None
    <3>1. path \in Destinations \cup {None} /\ path = current_target_name
      BY <1>f, <1>0, <2>2 DEF TypeOK
    <3>2. \E h \in GoalIds : /\ Pending' = {h} /\ goals'[h].stage = "follow_path"
                             /\ goals'[h].to = path
      BY <1>0, <1>f, <2>2, <3>1, SendMoves DEF SendFollowPath, Stages
    <3>3. busy' /\ pending_path' = path /\ current_target_name' = current_target_name
      BY <1>f, <2>2 DEF SendFollowPath
    <3> QED
      BY <3>1, <3>2, <3>3 DEF IInv, BusyIffOneGoal, FollowsCurrentTarget, RouteOfCurrentTarget
  <2> QED
    BY <2>1, <2>2
<1>k. ASSUME \A g \in GoalIds : SameGoal(goals'[g], goals[g]), busy' = busy,
             current_target_name' = current_target_name, pending_path' = pending_path
      PROVE  IInv'
  <2>1. Pending' = Pending /\ Pending \subseteq GoalIds
    BY <1>k DEF Pending, SameGoal
  <2>2. \A g \in GoalIds : goals'[g].stage = goals[g].stage /\ goals'[g].to = goals[g].to
    BY <1>k DEF SameGoal
  <2>3. BusyIffOneGoal'
    BY <1>0, <1>k, <2>1 DEF BusyIffOneGoal
  <2>4. FollowsCurrentTarget' /\ RouteOfCurrentTarget'
    BY <1>0, <1>k, <2>1, <2>2 DEF FollowsCurrentTarget, RouteOfCurrentTarget
  <2> QED
    BY <2>3, <2>4 DEF IInv
<1>u. ASSUME UNCHANGED <<request, goals>> PROVE IInv'
  BY <1>k, <1>u DEF SameGoal, request
<1>1. CASE SystemStatusCallback
  BY <1>1, <1>u DEF SystemStatusCallback
<1>2. CASE NearestAnchorIdCallback
  BY <1>2, <1>u DEF NearestAnchorIdCallback
<1>3. ASSUME NEW name \in Destinations \cup {UnknownName},
             NEW serversReady \in BOOLEAN, NEW poseKnown \in BOOLEAN,
             GotoNameCallback(name, serversReady, poseKnown)
      PROVE  IInv'
  <2>1. CASE UNCHANGED <<request, handle, goals>>
    BY <2>1, <1>u
  <2>2. CASE ~busy /\ Finish("FAILED", {})
    BY <1>0, <2>2, <1>r DEF BusyIffOneGoal
  <2>3. CASE /\ ~GotoNameRefused(name)
             /\ busy' = TRUE /\ current_target_name' = name /\ pending_path' = None
             /\ Send({}, "compute_route", name)
    <3>1. Pending \subseteq {} /\ name \in Destinations
      BY <1>0, <2>3 DEF BusyIffOneGoal, GotoNameRefused
    <3>2. "compute_route" \in Stages /\ name \in Destinations \cup {None}
      BY <3>1 DEF Stages
    <3>3. \E g \in GoalIds : /\ Pending' = {g} /\ goals'[g].stage = "compute_route"
                             /\ goals'[g].to = name
      BY <1>0, <2>3, <3>1, <3>2, SendMoves
    <3> QED
      BY <2>3, <3>3 DEF IInv, BusyIffOneGoal, FollowsCurrentTarget, RouteOfCurrentTarget
  <2> QED
    BY <1>3, <2>1, <2>2, <2>3 DEF GotoNameCallback, GotoNameRefused, Reject
<1>4. CASE StopCallback
  BY <1>0, <1>4, <1>k, StopTypes DEF StopCallback, request
<1>5. ASSUME NEW g \in GoalIds, OnGoalResponse(g) PROVE IInv'
  <2>1. CASE GoalAccepted(g)
    BY <1>0, <2>1, <1>k, AcceptedTypes DEF GoalAccepted, request
  <2>2. CASE Finish("FAILED", {g})
    BY <1>5, <2>2, <1>r, ReadyIsPending DEF OnGoalResponse
  <2> QED
    BY <1>5, <2>1, <2>2 DEF OnGoalResponse
<1>6. ASSUME NEW g \in GoalIds, OnUnsuccessfulResult(g) PROVE IInv'
  BY <1>6, <1>r, ReadyIsPending DEF OnUnsuccessfulResult
<1>7. ASSUME NEW g \in GoalIds, NEW emptyPath \in BOOLEAN, NEW farFromAnchor \in BOOLEAN,
             OnComputeRouteResult(g, emptyPath, farFromAnchor)
      PROVE  IInv'
  <2>1. busy /\ Pending = {g} /\ goals[g].stage = "compute_route"
    BY <1>7, ReadyIsPending DEF OnComputeRouteResult, Succeeded
  <2>2. goals[g].to = current_target_name
    BY <1>0, <2>1 DEF RouteOfCurrentTarget
  <2>3. CASE Finish("FAILED", {g})
    BY <2>1, <2>3, <1>r
  <2>4. CASE SendNavigateToAnchor({g}, goals[g].to)
    <3>1. \E h \in GoalIds : Pending' = {h} /\ goals'[h].stage = "navigate_to_pose"
      BY <1>0, <2>1, <2>4, SendMoves DEF SendNavigateToAnchor, Stages
    <3>2. busy' /\ pending_path' = current_target_name'
      BY <2>1, <2>2, <2>4 DEF SendNavigateToAnchor
    <3> QED
      BY <3>1, <3>2 DEF IInv, BusyIffOneGoal, FollowsCurrentTarget, RouteOfCurrentTarget
  <2>5. CASE SendFollowPath({g}, goals[g].to)
    BY <2>1, <2>2, <2>5, <1>f
  <2> QED
    BY <1>7, <2>3, <2>4, <2>5 DEF OnComputeRouteResult
<1>8. ASSUME NEW g \in GoalIds, OnNavigateResult(g) PROVE IInv'
  <2>1. busy /\ Pending = {g}
    BY <1>8, ReadyIsPending DEF OnNavigateResult, Succeeded
  <2> QED
    BY <1>0, <1>8, <2>1, <1>f DEF OnNavigateResult, RouteOfCurrentTarget
<1>9. ASSUME NEW g \in GoalIds, OnFollowPathResult(g) PROVE IInv'
  BY <1>9, <1>r, ReadyIsPending DEF OnFollowPathResult, Succeeded
<1>10. ASSUME NEW g \in GoalIds, OnFutureException(g) PROVE IInv'
  BY <1>10, <1>r, ReadyIsPending DEF OnFutureException
<1>11. ASSUME NEW g \in GoalIds, Server(g) PROVE IInv'
  BY <1>0, <1>11, <1>k, ServerTypes DEF Server, request
<1>12. CASE UNCHANGED vars
  BY <1>12, <1>u DEF vars
<1> QED
  BY <1>1, <1>2, <1>3, <1>4, <1>5, <1>6, <1>7, <1>8, <1>9, <1>10, <1>11, <1>12 DEF Next, Callback

(* The invariant holds.                                                      *)
LEMMA Invariant == Spec => []IInv
<1>1. Init => IInv
  <2> SUFFICES ASSUME Init PROVE IInv
    OBVIOUS
  <2>1. Pending = {}
    BY CallTypes DEF Init, Pending, Unused
  <2> QED
    BY <2>1, InitTypeOK
       DEF Init, IInv, BusyIffOneGoal, FollowsCurrentTarget, RouteOfCurrentTarget
<1> QED
  BY <1>1, IInvStep, TypeCorrect, PTL DEF Spec

(* The manager is busy exactly while one of its goals is outstanding at the  *)
(* navigation server: a crossing of cancel, preemption and late answer       *)
(* neither frees it early nor leaves it busy for ever.                       *)
THEOREM OneGoalForTheTarget == Spec => []BusyIffOneGoal
<1>1. IInv => BusyIffOneGoal
  BY DEF IInv
<1> QED
  BY <1>1, Invariant, PTL

(* The vehicle only ever follows the route computed for the target in force, *)
(* also when the route of an earlier target is answered late.                *)
THEOREM FollowsTheTarget == Spec => []FollowsCurrentTarget
<1>1. IInv => FollowsCurrentTarget
  BY DEF IInv
<1> QED
  BY <1>1, Invariant, PTL

-----------------------------------------------------------------------------
(* FrogBoard.  A request is repeated once in every tick that lies whole in *)
(* its window, and so it comes through unless each of these frames is lost.*)

BoardTypes ==
  /\ pc \in {"select", "telemetry", "multiplex", "en_code", "reopen"}
  /\ armLeft \in 0..ArmWindow /\ disableLeft \in 0..DisableWindow
  /\ drops \in 0..MaxDrops
  /\ mcuAge \in 0..McuTimeout

(* Where the proxy thread is in its tick.                                  *)
ProxyInv ==
  /\ pc = "reopen" => spoiled
  /\ ~looped => pc \in {"select", "reopen"}
  /\ pc = "en_code" => ~sent

(* In a tick that began in the window the phone gets the line, and the     *)
(* tick does not end without its frame.                                    *)
FrameOfTick ==
  /\ pc = "select" /\ looped => sent
  /\ pc \in {"telemetry", "multiplex"} => sent \/ phone_active

(* One frame was lost in each whole tick so far, this one included once    *)
(* its frame is out.                                                       *)
AllLost(window, ticks) == drops >= window - 1 - ticks + (IF sent THEN 1 ELSE 0)

EnableInv ==
  press = "enable" /\ ~spoiled =>
    /\ enabled
    /\ 0 < armLeft /\ armLeft < ArmWindow => FrameOfTick /\ (pc = "en_code" => ~frameMoves)
    /\ ~armed => 0 < armLeft /\ (armLeft < ArmWindow => AllLost(ArmWindow, armLeft))
    /\ armLeft = 0 => ~telemetry

DisableInv ==
  press = "disable" /\ ~spoiled =>
    /\ ~enabled /\ armLeft = 0
    /\ ~cut =>
         /\ 0 < disableLeft /\ disableLeft < DisableWindow => FrameOfTick
         /\ armed => /\ 0 < disableLeft
                     /\ disableLeft < DisableWindow => AllLost(DisableWindow, disableLeft)

BoardIInv == BoardTypes /\ ProxyInv /\ EnableInv /\ DisableInv

LEMMA BoardConstants ==
  /\ ArmWindow \in Nat \ {0} /\ DisableWindow \in Nat \ {0} /\ McuTimeout \in Nat \ {0}
  /\ MaxDrops \in Nat
  /\ ArmWindow >= MaxDrops + 2 /\ DisableWindow >= MaxDrops + 2
  BY FrogBoardConstants, FrogBoardWindows

LEMMA BoardInitIInv == BoardInit => BoardIInv
<1> SUFFICES ASSUME BoardInit PROVE BoardIInv
  OBVIOUS
<1>1. /\ pc = "select" /\ armLeft = 0 /\ disableLeft = 0 /\ drops = 0 /\ mcuAge = 0
      /\ sent = FALSE /\ press = "none"
  BY DEF BoardInit
<1>2. BoardTypes
  BY <1>1, BoardConstants DEF BoardTypes
<1>3. ProxyInv /\ EnableInv /\ DisableInv
  BY <1>1 DEF ProxyInv, EnableInv, DisableInv
<1> QED
  BY <1>2, <1>3 DEF BoardIInv

(* What the invariant is about.                                            *)
line == << enabled, armLeft, disableLeft, pc, looped, phone_active, frameMoves, sent,
           armed, mcuAge, telemetry, press, spoiled, cut, drops >>

LEMMA LineStays ==
  ASSUME BoardIInv, UNCHANGED line
  PROVE  BoardIInv'
<1>1. BoardTypes'
  BY DEF line, BoardIInv, BoardTypes
<1>2. ProxyInv'
  BY DEF line, BoardIInv, ProxyInv
<1>3. EnableInv'
  BY DEF line, BoardIInv, EnableInv, FrameOfTick, AllLost
<1>4. DisableInv'
  BY DEF line, BoardIInv, DisableInv, FrameOfTick, AllLost
<1> QED
  BY <1>1, <1>2, <1>3, <1>4 DEF BoardIInv

LEMMA MotorStateIInv ==
  ASSUME BoardIInv, NEW c \in Phones, NEW on \in BOOLEAN, MotorState(c, on)
  PROVE  BoardIInv'
<1>0. /\ enabled' = on
      /\ armLeft' = (IF on THEN ArmWindow ELSE 0)
      /\ disableLeft' = (IF on THEN 0 ELSE DisableWindow)
      /\ press' = (IF on THEN "enable" ELSE "disable")
      /\ spoiled' = (pc = "reopen") /\ cut' = FALSE /\ drops' = 0
      /\ pc' = pc /\ looped' = looped /\ sent' = sent /\ mcuAge' = mcuAge
  BY DEF MotorState, SetEnabled, Pressed, proxy, mcu
<1>1. BoardTypes'
  BY <1>0, BoardConstants DEF BoardIInv, BoardTypes
<1>2. ProxyInv'
  BY <1>0 DEF BoardIInv, ProxyInv
<1>3. EnableInv'
  BY <1>0, BoardConstants DEF EnableInv
<1>4. DisableInv'
  BY <1>0, BoardConstants DEF DisableInv
<1> QED
  BY <1>1, <1>2, <1>3, <1>4 DEF BoardIInv

LEMMA DisconnectLastIInv ==
  ASSUME BoardIInv, NEW c \in Phones, DisconnectLast(c)
  PROVE  BoardIInv'
<1>0. /\ pc' = pc /\ looped' = looped /\ sent' = sent /\ phone_active' = phone_active
      /\ mcuAge' = mcuAge /\ armed' = armed
  BY DEF DisconnectLast, proxy, mcu
<1>1. CASE enabled
  <2>0. /\ enabled' = FALSE /\ armLeft' = 0 /\ disableLeft' = DisableWindow
        /\ press' = "disable" /\ spoiled' = (pc = "reopen") /\ cut' = FALSE /\ drops' = 0
    BY <1>1 DEF DisconnectLast, SetEnabled, Pressed
  <2>1. BoardTypes'
    BY <1>0, <2>0, BoardConstants DEF BoardIInv, BoardTypes
  <2>2. ProxyInv'
    BY <1>0, <2>0 DEF BoardIInv, ProxyInv
  <2>3. EnableInv'
    BY <2>0 DEF EnableInv
  <2>4. DisableInv'
    BY <2>0, BoardConstants DEF DisableInv
  <2> QED
    BY <2>1, <2>2, <2>3, <2>4 DEF BoardIInv
<1>2. CASE ~enabled
  <2>0. /\ armLeft' = 0 /\ disableLeft' = 0 /\ cut' = (cut \/ disableLeft > Undecided)
        /\ enabled' = enabled /\ press' = press /\ spoiled' = spoiled /\ drops' = drops
    BY <1>2 DEF DisconnectLast
  <2>1. BoardTypes'
    BY <1>0, <2>0, BoardConstants DEF BoardIInv, BoardTypes
  <2>2. ProxyInv'
    BY <1>0, <2>0 DEF BoardIInv, ProxyInv
  <2>3. EnableInv'
    BY <1>2, <2>0 DEF BoardIInv, EnableInv
  <2>4. DisableInv'
    <3>1. ~cut' => ~cut /\ ~(disableLeft > Undecided)
      BY <2>0, Zenon
    <3>2. ASSUME press = "disable", ~spoiled, ~cut, ~(disableLeft > Undecided)
          PROVE  ~armed
      <4>1. disableLeft < DisableWindow /\ disableLeft <= DisableWindow - (MaxDrops + 2)
        BY <3>2, BoardConstants DEF BoardIInv, BoardTypes, Undecided
      <4>2. armed => drops >= DisableWindow - 1 - disableLeft
        BY <3>2, <4>1, BoardConstants DEF BoardIInv, BoardTypes, DisableInv, AllLost
      <4> QED
        BY <4>1, <4>2, BoardConstants DEF BoardIInv, BoardTypes
    <3> QED
      BY <1>0, <1>2, <2>0, <3>1, <3>2 DEF BoardIInv, DisableInv
  <2> QED
    BY <2>1, <2>2, <2>3, <2>4 DEF BoardIInv
<1> QED
  BY <1>1, <1>2

-----------------------------------------------------------------------------
(* The proxy thread.                                                       *)

LEMMA SelectIInv ==
  ASSUME BoardIInv, Select
  PROVE  BoardIInv'
<1>0. /\ pc = "select" /\ pc' = "telemetry" /\ looped' = TRUE
      /\ OverrideActive => phone_active'
      /\ enabled' = enabled /\ armLeft' = armLeft /\ disableLeft' = disableLeft
      /\ sent' = sent /\ armed' = armed /\ mcuAge' = mcuAge /\ telemetry' = telemetry
      /\ press' = press /\ spoiled' = spoiled /\ cut' = cut /\ drops' = drops
  BY DEF Select, state, mcu, history
<1>1. BoardTypes'
  BY <1>0 DEF BoardIInv, BoardTypes
<1>2. ProxyInv'
  BY <1>0 DEF ProxyInv
<1>3. armLeft > 0 \/ disableLeft > 0 => FrameOfTick'
  BY <1>0 DEF FrameOfTick, OverrideActive
<1>4. EnableInv'
  BY <1>0, <1>3 DEF BoardIInv, BoardTypes, EnableInv, AllLost
<1>5. DisableInv'
  BY <1>0, <1>3 DEF BoardIInv, BoardTypes, DisableInv, AllLost
<1> QED
  BY <1>1, <1>2, <1>4, <1>5 DEF BoardIInv

LEMMA ReadTelemetryIInv ==
  ASSUME BoardIInv, ReadTelemetry
  PROVE  BoardIInv'
<1>0. /\ pc = "telemetry" /\ pc' = "multiplex" /\ looped' = looped
      /\ phone_active' = phone_active /\ frameMoves' = frameMoves
      /\ armLeft' = armLeft /\ disableLeft' = disableLeft
      /\ sent' = sent /\ armed' = armed /\ mcuAge' = mcuAge /\ telemetry' = telemetry
      /\ press' = press /\ spoiled' = spoiled /\ cut' = cut /\ drops' = drops
  BY DEF ReadTelemetry, mcu, history
<1>1. BoardTypes'
  BY <1>0 DEF BoardIInv, BoardTypes
<1>2. ProxyInv'
  BY <1>0 DEF BoardIInv, ProxyInv
<1>3. FrameOfTick => FrameOfTick'
  BY <1>0 DEF FrameOfTick
<1>4. EnableInv'
  <2>1. enabled' = enabled \/ (enabled /\ telemetry /\ armLeft = 0 /\ enabled' = FALSE)
    BY DEF ReadTelemetry, ChassisSaysDisabled
  <2>2. CASE enabled' = enabled
    BY <1>0, <1>3, <2>2 DEF BoardIInv, EnableInv, AllLost
  <2>3. CASE telemetry /\ armLeft = 0
    BY <1>0, <2>3 DEF BoardIInv, EnableInv
  <2> QED
    BY <2>1, <2>2, <2>3
<1>5. DisableInv'
  <2>1. ~enabled => ~enabled'
    BY DEF ReadTelemetry
  <2> QED
    BY <1>0, <1>3, <2>1 DEF BoardIInv, DisableInv, AllLost
<1> QED
  BY <1>1, <1>2, <1>4, <1>5 DEF BoardIInv

LEMMA PhoneFrameIInv ==
  ASSUME BoardIInv, PhoneFrame
  PROVE  BoardIInv'
<1>0. /\ pc = "multiplex" /\ looped' = looped /\ phone_active' = phone_active
      /\ enabled' = enabled /\ armLeft' = armLeft /\ disableLeft' = disableLeft
      /\ sent' = sent /\ armed' = armed /\ mcuAge' = mcuAge /\ telemetry' = telemetry
      /\ press' = press /\ spoiled' = spoiled /\ cut' = cut /\ drops' = drops
      /\ \/ sent /\ pc' = "select"
         \/ ~sent /\ pc' = "en_code" /\ (enabled /\ 0 < armLeft => ~frameMoves')
  BY DEF PhoneFrame, InArmWindow, state, mcu, history
<1>1. BoardTypes'
  BY <1>0 DEF BoardIInv, BoardTypes
<1>2. ProxyInv'
  BY <1>0 DEF BoardIInv, ProxyInv
<1>3. FrameOfTick'
  BY <1>0 DEF FrameOfTick
<1>4. EnableInv'
  BY <1>0, <1>3 DEF BoardIInv, EnableInv, AllLost
<1>5. DisableInv'
  BY <1>0, <1>3 DEF BoardIInv, DisableInv, AllLost
<1> QED
  BY <1>1, <1>2, <1>4, <1>5 DEF BoardIInv

LEMMA SendPhoneFrameIInv ==
  ASSUME BoardIInv, NEW dropped \in BOOLEAN, SendPhoneFrame(dropped)
  PROVE  BoardIInv'
<1>0. /\ pc = "en_code" /\ pc' = "select" /\ looped' = looped
      /\ enabled' = enabled /\ armLeft' = armLeft /\ disableLeft' = disableLeft
      /\ sent' = TRUE /\ telemetry' = telemetry
      /\ press' = press /\ spoiled' = spoiled /\ cut' = cut
  BY DEF SendPhoneFrame, Frame, state
<1>1. /\ dropped => drops < MaxDrops /\ drops' = drops + 1 /\ mcuAge' = mcuAge
      /\ ~dropped => drops' = drops /\ mcuAge' = 0
      /\ dropped => armed' = armed
      /\ ~dropped /\ armed /\ EnCode # EN_DISABLE => armed'
      /\ ~dropped /\ EnCode = EN_ARM /\ ~frameMoves => armed'
      /\ ~dropped /\ EnCode = EN_DISABLE => ~armed'
  <2>1. EN_DISABLE # EN_ARM
    BY DEF EN_DISABLE, EN_ARM
  <2> QED
    BY <2>1, Zenon DEF SendPhoneFrame, Frame
<1>2. ~sent
  BY <1>0 DEF BoardIInv, ProxyInv
<1>3. BoardTypes'
  BY <1>0, <1>1, BoardConstants DEF BoardIInv, BoardTypes
<1>4. ProxyInv'
  BY <1>0 DEF BoardIInv, ProxyInv
<1>5. FrameOfTick'
  BY <1>0 DEF FrameOfTick
<1>6. EnableInv'
  <2> SUFFICES ASSUME press = "enable", ~spoiled PROVE EnableInv'
    BY <1>0 DEF EnableInv
  <2>1. /\ enabled
        /\ 0 < armLeft /\ armLeft < ArmWindow => ~frameMoves
        /\ ~armed => 0 < armLeft /\ (armLeft < ArmWindow => AllLost(ArmWindow, armLeft))
        /\ armLeft = 0 => ~telemetry
    BY <1>0 DEF BoardIInv, EnableInv
  <2>2. EnCode # EN_DISABLE /\ (0 < armLeft => EnCode = EN_ARM)
    BY <2>1 DEF EnCode, InArmWindow, EN_DISABLE, EN_ARM, EN_NORMAL
  <2>3. ~armed' => 0 < armLeft' /\ (armLeft' < ArmWindow => AllLost(ArmWindow, armLeft)')
    <3>1. CASE dropped
      <4>1. ~armed' => ~armed
        BY <1>1, <3>1
      <4>2. AllLost(ArmWindow, armLeft) => AllLost(ArmWindow, armLeft)'
        BY <1>0, <1>1, <1>2, <3>1, BoardConstants DEF AllLost, BoardIInv, BoardTypes
      <4> QED
        BY <1>0, <2>1, <4>1, <4>2
    <3>2. CASE ~dropped
      <4>1. armed => armed'
        BY <1>1, <2>2, <3>2
      <4>2. 0 < armLeft /\ armLeft < ArmWindow => armed'
        BY <1>1, <2>1, <2>2, <3>2
      <4> QED
        BY <1>0, <2>1, <4>1, <4>2
    <3> QED
      BY <3>1, <3>2
  <2> QED
    BY <1>0, <1>5, <2>1, <2>3 DEF EnableInv
<1>7. DisableInv'
  <2> SUFFICES ASSUME press = "disable", ~spoiled PROVE DisableInv'
    BY <1>0 DEF DisableInv
  <2>1. /\ ~enabled /\ armLeft = 0
        /\ ~cut /\ armed => /\ 0 < disableLeft
                            /\ disableLeft < DisableWindow => AllLost(DisableWindow, disableLeft)
    BY DEF BoardIInv, DisableInv
  <2>2. EnCode = EN_DISABLE /\ EnCode # EN_ARM
    BY <2>1 DEF EnCode, EN_DISABLE, EN_ARM
  <2>3. ~dropped => ~armed'
    BY <1>1, <2>2
  <2>4. dropped => (armed' => armed) /\ drops' = drops + 1
    BY <1>1
  <2>5. ~cut' /\ armed' => /\ 0 < disableLeft'
                           /\ disableLeft' < DisableWindow => AllLost(DisableWindow, disableLeft)'
    <3>1. armed' => dropped /\ armed
      BY <2>3, <2>4
    <3>2. dropped /\ AllLost(DisableWindow, disableLeft) => AllLost(DisableWindow, disableLeft)'
      BY <1>0, <1>2, <2>4, BoardConstants DEF AllLost, BoardIInv, BoardTypes
    <3> QED
      BY <1>0, <2>1, <3>1, <3>2
  <2>6. ~enabled' /\ armLeft' = 0
    BY <1>0, <2>1
  <2> QED
    BY <1>5, <2>5, <2>6 DEF DisableInv
<1> QED
  BY <1>3, <1>4, <1>6, <1>7 DEF BoardIInv

(* The line belongs to ROS or to no one: no frame goes out in a whole tick *)
(* of a window, and none that changes the mode at any time.                *)
LEMMA NotPhone ==
  ASSUME BoardIInv, pc = "multiplex", ~phone_active,
         pc' = "select", looped' = looped,
         enabled' = enabled, armLeft' = armLeft, disableLeft' = disableLeft,
         telemetry' = telemetry, press' = press, spoiled' = spoiled, cut' = cut,
         \/ UNCHANGED << sent, armed, mcuAge, drops >>
         \/ /\ ~sent /\ sent' = TRUE /\ (armed' <=> armed)
            /\ mcuAge' \in {0, mcuAge}
            /\ drops' = drops \/ (drops < MaxDrops /\ drops' = drops + 1)
  PROVE  BoardIInv'
<1>1. BoardTypes'
  BY BoardConstants DEF BoardIInv, BoardTypes
<1>2. ProxyInv'
  BY DEF BoardIInv, ProxyInv
<1>3. /\ drops' >= drops /\ drops \in Nat /\ drops' \in Nat
      /\ armLeft \in Int /\ disableLeft \in Int
  BY BoardConstants DEF BoardIInv, BoardTypes
<1>4. FrameOfTick => /\ sent /\ FrameOfTick'
                     /\ UNCHANGED << sent, armed, drops >>
  <2>1. FrameOfTick => sent
    BY DEF FrameOfTick
  <2>2. sent => UNCHANGED << sent, armed, drops >>
    OBVIOUS
  <2>3. sent' => FrameOfTick'
    BY DEF FrameOfTick
  <2> QED
    BY <2>1, <2>2, <2>3
<1>5. armed' <=> armed
  OBVIOUS
<1>6. EnableInv'
  <2> SUFFICES ASSUME press = "enable", ~spoiled PROVE EnableInv'
    BY DEF EnableInv
  <2>1. /\ enabled
        /\ 0 < armLeft /\ armLeft < ArmWindow => FrameOfTick
        /\ ~armed => 0 < armLeft /\ (armLeft < ArmWindow => AllLost(ArmWindow, armLeft))
        /\ armLeft = 0 => ~telemetry
    BY DEF BoardIInv, EnableInv
  <2>2. ~armed' => 0 < armLeft' /\ (armLeft' < ArmWindow => AllLost(ArmWindow, armLeft)')
    BY <1>4, <1>5, <2>1 DEF AllLost
  <2> QED
    BY <1>4, <2>1, <2>2 DEF EnableInv
<1>7. DisableInv'
  <2> SUFFICES ASSUME press = "disable", ~spoiled PROVE DisableInv'
    BY DEF DisableInv
  <2>1. /\ ~enabled /\ armLeft = 0
        /\ ~cut =>
             /\ 0 < disableLeft /\ disableLeft < DisableWindow => FrameOfTick
             /\ armed => /\ 0 < disableLeft
                         /\ disableLeft < DisableWindow => AllLost(DisableWindow, disableLeft)
    BY DEF BoardIInv, DisableInv
  <2>2. ~cut /\ armed' => /\ 0 < disableLeft'
                          /\ disableLeft' < DisableWindow => AllLost(DisableWindow, disableLeft)'
    BY <1>4, <1>5, <2>1 DEF AllLost
  <2> QED
    BY <1>4, <2>1, <2>2 DEF DisableInv
<1> QED
  BY <1>1, <1>2, <1>6, <1>7 DEF BoardIInv

LEMMA NormalFrame ==
  ASSUME NEW moves \in BOOLEAN, NEW dropped \in BOOLEAN, Frame(EN_NORMAL, moves, dropped)
  PROVE  sent' = TRUE /\ (armed' <=> armed)
<1>0. EN_NORMAL # EN_DISABLE /\ EN_NORMAL # EN_ARM
  BY DEF EN_NORMAL, EN_DISABLE, EN_ARM
<1>1. sent' = TRUE
  BY DEF Frame
<1>2. CASE dropped
  BY <1>1, <1>2 DEF Frame
<1>3. CASE ~dropped
  <2>1. armed' = (\/ armed /\ EN_NORMAL # EN_DISABLE
                  \/ EN_NORMAL = EN_ARM /\ ~moves)
    BY <1>3 DEF Frame
  <2>2. armed' <=> armed
    BY <1>0, <2>1, Zenon
  <2> QED
    BY <1>1, <2>2
<1> QED
  BY <1>2, <1>3

LEMMA ForwardRosIInv ==
  ASSUME BoardIInv, NEW dropped \in BOOLEAN, ForwardRos(dropped)
  PROVE  BoardIInv'
<1>1. /\ pc = "multiplex" /\ ~phone_active /\ pc' = "select" /\ looped' = looped
      /\ enabled' = enabled /\ armLeft' = armLeft /\ disableLeft' = disableLeft
      /\ telemetry' = telemetry /\ press' = press /\ spoiled' = spoiled /\ cut' = cut
  BY DEF ForwardRos, Frame, state, mcu, history
<1>2. CASE sent
  <2>1. UNCHANGED << sent, armed, mcuAge, drops >>
    BY <1>2 DEF ForwardRos, mcu, history
  <2> QED
    BY <1>1, <2>1, NotPhone
<1>3. CASE ~sent
  <2>1. Frame(EN_NORMAL, TRUE, dropped)
    BY <1>3 DEF ForwardRos
  <2>2. sent' = TRUE /\ (armed' <=> armed)
    BY <2>1, NormalFrame
  <2>3. /\ mcuAge' \in {0, mcuAge}
        /\ drops' = drops \/ (drops < MaxDrops /\ drops' = drops + 1)
    BY <2>1 DEF Frame
  <2> QED
    BY <1>1, <1>3, <2>2, <2>3, NotPhone
<1> QED
  BY <1>2, <1>3

LEMMA HeartbeatIInv ==
  ASSUME BoardIInv, NEW dropped \in BOOLEAN, Heartbeat(dropped)
  PROVE  BoardIInv'
<1>1. /\ pc = "multiplex" /\ ~phone_active /\ pc' = "select" /\ looped' = looped
      /\ enabled' = enabled /\ armLeft' = armLeft /\ disableLeft' = disableLeft
      /\ telemetry' = telemetry /\ press' = press /\ spoiled' = spoiled /\ cut' = cut
  BY DEF Heartbeat, Frame, state, mcu, history
<1>2. CASE ~HeartbeatDue
  <2>1. UNCHANGED << sent, armed, mcuAge, drops >>
    BY <1>2 DEF Heartbeat, mcu, history
  <2> QED
    BY <1>1, <2>1, NotPhone
<1>3. CASE HeartbeatDue
  <2>1. Frame(EN_NORMAL, FALSE, dropped) /\ ~sent
    BY <1>3 DEF Heartbeat, HeartbeatDue
  <2>2. sent' = TRUE /\ (armed' <=> armed)
    BY <2>1, NormalFrame
  <2>3. /\ mcuAge' \in {0, mcuAge}
        /\ drops' = drops \/ (drops < MaxDrops /\ drops' = drops + 1)
    BY <2>1 DEF Frame
  <2> QED
    BY <1>1, <2>1, <2>2, <2>3, NotPhone
<1> QED
  BY <1>2, <1>3

LEMMA SerialErrorIInv ==
  ASSUME BoardIInv, SerialError
  PROVE  BoardIInv'
<1>1. /\ pc' = "reopen" /\ spoiled' = TRUE
      /\ armLeft' = armLeft /\ disableLeft' = disableLeft /\ drops' = drops /\ mcuAge' = mcuAge
  BY DEF SerialError, state, mcu
<1> QED
  BY <1>1 DEF BoardIInv, BoardTypes, ProxyInv, EnableInv, DisableInv

LEMMA ReopenIInv ==
  ASSUME BoardIInv, Reopen
  PROVE  BoardIInv'
<1>1. /\ pc' = "select" /\ spoiled' = spoiled /\ spoiled
      /\ armLeft' = armLeft /\ disableLeft' = disableLeft /\ drops' = drops /\ mcuAge' = mcuAge
  BY DEF Reopen, state, mcu, history, BoardIInv, ProxyInv
<1> QED
  BY <1>1 DEF BoardIInv, BoardTypes, ProxyInv, EnableInv, DisableInv

LEMMA TakeoverIInv ==
  ASSUME BoardIInv, Takeover
  PROVE  BoardIInv'
<1>1. /\ spoiled' = TRUE /\ pc' = pc /\ looped' = looped /\ sent' = sent
      /\ armLeft' = armLeft /\ disableLeft' = disableLeft /\ drops' = drops /\ mcuAge' = mcuAge
  BY DEF Takeover, state, proxy
<1> QED
  BY <1>1 DEF BoardIInv, BoardTypes, ProxyInv, EnableInv, DisableInv

(* A tick.  One that began in the window ends with a frame more that was   *)
(* lost, or the lower controller has taken one.                            *)
LEMMA TickCounts ==
  ASSUME NEW window \in Nat, NEW ticks \in 1..window, NEW ticks1, ticks1 = ticks - 1,
         window >= MaxDrops + 2, drops \in 0..MaxDrops, drops' = drops,
         ~sent', ticks < window => sent /\ AllLost(window, ticks)
  PROVE  /\ 0 < ticks1
         /\ ticks1 < window => drops' >= window - 1 - ticks1 + (IF sent' THEN 1 ELSE 0)
<1>1. drops \in Nat /\ drops <= MaxDrops /\ MaxDrops \in Nat /\ ticks \in Nat
  BY BoardConstants
<1>2. CASE ticks = window
  BY <1>1, <1>2
<1>3. CASE ticks < window
  <2>1. drops >= window - 1 - ticks + 1
    BY <1>3 DEF AllLost
  <2> QED
    BY <1>1, <2>1
<1> QED
  BY <1>2, <1>3

LEMMA TickIInv ==
  ASSUME BoardIInv, Tick
  PROVE  BoardIInv'
<1>0. /\ looped' = FALSE /\ sent' = FALSE /\ pc' = pc /\ enabled' = enabled
      /\ phone_active' = phone_active /\ frameMoves' = frameMoves
      /\ press' = press /\ cut' = cut /\ drops' = drops
      /\ armLeft' = Shorter(armLeft) /\ disableLeft' = Shorter(disableLeft)
      /\ mcuAge' = Older(mcuAge, McuTimeout)
  BY DEF Tick
<1>1. pc = "reopen" \/ (pc = "select" /\ looped)
  BY DEF Tick
<1>2. BoardTypes'
  BY <1>0, BoardConstants DEF BoardIInv, BoardTypes, Shorter, Older
<1>3. ProxyInv'
  <2>1. spoiled => spoiled'
    BY Zenon DEF Tick
  <2> QED
    BY <1>0, <1>1, <2>1 DEF BoardIInv, ProxyInv
<1>4. ~spoiled' => ~spoiled /\ pc = "select" /\ looped /\ (armed <=> armed') /\ (armed => ~telemetry')
  <2>1. ~spoiled' => ~spoiled /\ ~(armed /\ mcuAge' = McuTimeout)
    BY Zenon DEF Tick
  <2>2. mcuAge' < McuTimeout \/ mcuAge' = McuTimeout
    BY <1>2, BoardConstants DEF BoardTypes
  <2>3. armed' <=> (armed /\ mcuAge' < McuTimeout)
    BY Zenon DEF Tick
  <2>4. armed => ~telemetry'
    BY Zenon DEF Tick
  <2>5. ~spoiled => pc # "reopen"
    BY DEF BoardIInv, ProxyInv
  <2> QED
    BY <1>1, <2>1, <2>2, <2>3, <2>4, <2>5
<1>5. FrameOfTick'
  BY <1>0, <1>1 DEF FrameOfTick
<1>6. EnableInv'
  <2> SUFFICES ASSUME press = "enable", ~spoiled' PROVE EnableInv'
    BY <1>0 DEF EnableInv
  <2>1. ~spoiled /\ pc = "select" /\ looped /\ (armed <=> armed') /\ (armed => ~telemetry')
    BY <1>4
  <2>2. /\ enabled
        /\ 0 < armLeft /\ armLeft < ArmWindow => sent
        /\ ~armed => 0 < armLeft /\ (armLeft < ArmWindow => AllLost(ArmWindow, armLeft))
    BY <2>1 DEF BoardIInv, EnableInv, FrameOfTick
  <2>3. ASSUME ~armed
        PROVE  0 < armLeft' /\ (armLeft' < ArmWindow => AllLost(ArmWindow, armLeft)')
    <3>1. armLeft \in 1..ArmWindow /\ drops \in 0..MaxDrops
      BY <2>2, <2>3, BoardConstants DEF BoardIInv, BoardTypes
    <3>2. armLeft' = armLeft - 1
      BY <1>0, <3>1 DEF Shorter
    <3>3. armLeft < ArmWindow => sent /\ AllLost(ArmWindow, armLeft)
      BY <2>2, <2>3
    <3> QED
      BY <1>0, <3>1, <3>2, <3>3, BoardConstants, TickCounts DEF AllLost
  <2>4. ~armed' => 0 < armLeft' /\ (armLeft' < ArmWindow => AllLost(ArmWindow, armLeft)')
    BY <2>1, <2>3
  <2>5. armLeft' = 0 => ~telemetry'
    <3>1. armLeft' = 0 => ~(0 < armLeft')
      OBVIOUS
    <3> QED
      BY <2>1, <2>3, <3>1
  <2>6. enabled' /\ pc' # "en_code"
    BY <1>0, <2>1, <2>2
  <2> QED
    BY <1>5, <2>4, <2>5, <2>6 DEF EnableInv
<1>7. DisableInv'
  <2> SUFFICES ASSUME press = "disable", ~spoiled' PROVE DisableInv'
    BY <1>0 DEF DisableInv
  <2>1. ~spoiled /\ pc = "select" /\ looped /\ (armed <=> armed')
    BY <1>4
  <2>2. /\ ~enabled /\ armLeft = 0
        /\ ~cut =>
             /\ 0 < disableLeft /\ disableLeft < DisableWindow => sent
             /\ armed => /\ 0 < disableLeft
                         /\ disableLeft < DisableWindow => AllLost(DisableWindow, disableLeft)
    BY <2>1 DEF BoardIInv, DisableInv, FrameOfTick
  <2>3. ASSUME ~cut, armed
        PROVE  /\ 0 < disableLeft'
               /\ disableLeft' < DisableWindow => AllLost(DisableWindow, disableLeft)'
    <3>1. disableLeft \in 1..DisableWindow /\ drops \in 0..MaxDrops
      BY <2>2, <2>3, BoardConstants DEF BoardIInv, BoardTypes
    <3>2. disableLeft' = disableLeft - 1
      BY <1>0, <3>1 DEF Shorter
    <3>3. disableLeft < DisableWindow => sent /\ AllLost(DisableWindow, disableLeft)
      BY <2>2, <2>3
    <3> QED
      BY <1>0, <3>1, <3>2, <3>3, BoardConstants, TickCounts DEF AllLost
  <2>4. ~cut' /\ armed' => /\ 0 < disableLeft'
                           /\ disableLeft' < DisableWindow => AllLost(DisableWindow, disableLeft)'
    BY <1>0, <2>1, <2>3
  <2>5. ~enabled' /\ armLeft' = 0
    BY <1>0, <2>2 DEF Shorter
  <2> QED
    BY <1>5, <2>4, <2>5 DEF DisableInv
<1> QED
  BY <1>2, <1>3, <1>6, <1>7 DEF BoardIInv

LEMMA BoardNextIInv == BoardIInv /\ [BoardNext]_boardVars => BoardIInv'
<1> SUFFICES ASSUME BoardIInv, [BoardNext]_boardVars PROVE BoardIInv'
  OBVIOUS
<1>1. CASE UNCHANGED line
  BY <1>1, LineStays
<1>2. ASSUME NEW c \in Phones, Connect(c) \/ DisconnectOther(c)
      PROVE  UNCHANGED line
  BY <1>2 DEF Connect, DisconnectOther, line, state, proxy, mcu, history
<1>3. ASSUME NEW c \in Phones, NEW on \in BOOLEAN, Joystick(c, on)
      PROVE  UNCHANGED line
  BY <1>3 DEF Joystick, line, state, proxy, mcu, history
<1>4. BroadcastState => UNCHANGED line
  BY DEF BroadcastState, line, state, proxy, mcu, history
<1>5. RosCommand => UNCHANGED line
  BY DEF RosCommand, line, state, mcu, history
<1>6. UNCHANGED boardVars => UNCHANGED line
  BY DEF boardVars, line, state, proxy, mcu, history
<1>7. ASSUME NEW c \in Phones, DisconnectLast(c)
      PROVE  BoardIInv'
  BY <1>7, DisconnectLastIInv
<1>8. ASSUME NEW c \in Phones, NEW on \in BOOLEAN, MotorState(c, on)
      PROVE  BoardIInv'
  BY <1>8, MotorStateIInv
<1>9. Select \/ ReadTelemetry \/ PhoneFrame => BoardIInv'
  BY SelectIInv, ReadTelemetryIInv, PhoneFrameIInv
<1>10. ASSUME NEW dropped \in BOOLEAN,
              SendPhoneFrame(dropped) \/ ForwardRos(dropped) \/ Heartbeat(dropped)
       PROVE  BoardIInv'
  BY <1>10, SendPhoneFrameIInv, ForwardRosIInv, HeartbeatIInv
<1>11. SerialError \/ Reopen \/ Takeover \/ Tick => BoardIInv'
  BY SerialErrorIInv, ReopenIInv, TakeoverIInv, TickIInv
<1>12. CASE BoardNext
  BY <1>1, <1>2, <1>3, <1>4, <1>5, <1>7, <1>8, <1>9, <1>10, <1>11, <1>12 DEF BoardNext
<1> QED
  BY <1>1, <1>6, <1>12

LEMMA BoardInvariance == BoardSpec => []BoardIInv
  BY BoardInitIInv, BoardNextIInv, PTL DEF BoardSpec

(* An Enable has armed the chassis when its window ends, for any number of *)
(* phones and windows of any length that the line does not lose whole.     *)
THEOREM EnableArrives == BoardSpec => []EnableReachesChassis
<1>1. BoardIInv => EnableReachesChassis
  <2>1. BoardIInv /\ press = "enable" /\ ~spoiled /\ ~armed => 0 < armLeft
    BY DEF BoardIInv, EnableInv
  <2>2. armLeft = 0 => ~(0 < armLeft)
    OBVIOUS
  <2> QED
    BY <2>1, <2>2 DEF EnableReachesChassis
<1> QED
  BY <1>1, BoardInvariance, PTL

(* And a Disable has disarmed it, the one of the last phone that leaves    *)
(* included, unless the last phone pressed it and left before it had been  *)
(* repeated for MaxDrops + 2 ticks.                                        *)
THEOREM DisableArrives == BoardSpec => []DisableReachesChassis
<1>1. BoardIInv => DisableReachesChassis
  <2>1. BoardIInv /\ press = "disable" /\ ~spoiled /\ ~cut /\ armed => 0 < disableLeft
    BY DEF BoardIInv, DisableInv
  <2>2. disableLeft = 0 => ~(0 < disableLeft)
    OBVIOUS
  <2> QED
    BY <2>1, <2>2 DEF DisableReachesChassis
<1> QED
  BY <1>1, BoardInvariance, PTL

-----------------------------------------------------------------------------
(* GpsRouteRunner.  A goal is at Nav2 only while the runner waits for it,  *)
(* or with its cancellation on the way.                                    *)
GoalInv ==
  /\ goalCall \in Call
  /\ at = "watch" => goalCall.handle /\ goalCall.server # "requested"
  /\ at \notin {"response", "watch", "done"} =>
       goalCall.server \notin {"requested", "executing"}
  /\ at = "done" => /\ goalCall.server # "requested"
                    /\ goalCall.server = "executing" => goalCall.cancel

(* Where things are, and what the runner computes with.                    *)
RouteTypes ==
  /\ truth \in Places /\ drift \in Places /\ furthest \in Int
  /\ fix \in Places \cup {Nothing} /\ alignment \in Places \cup {Nothing}
  /\ at \notin {"startup", "done"} => alignment \in Places
  /\ wp \in Nat \ {0} /\ (at # "done" => wp <= Len(waypoints))
  /\ progress \in Int

(* A fix is of a place where the vehicle has been.                         *)
FixInv == truth[1] <= furthest /\ (fix # Nothing => fix[1] <= furthest)

(* Progress that a fix has vouched for is no farther than the divergence   *)
(* from a place where the vehicle has been, and progress is kept while the *)
(* pose jumps and the alignment moves.                                     *)
ProgressInv ==
  at \in {"choose", "response", "watch", "verify"} /\ ~unchecked =>
    progress = 0 \/ SegmentStart + progress <= furthest + divergence_abort_m

RouteIInv == GoalInv /\ RouteTypes /\ FixInv /\ ProgressInv

LEMMA RouteConstants ==
  /\ waypoints \in Seq(Nat) /\ Len(waypoints) \in Nat \ {0}
  /\ \A i \in 1..Len(waypoints) : waypoints[i] \in Nat
  /\ {waypoint_tolerance_m, divergence_abort_m, segment_length_m} \subseteq Nat
  /\ Offsets \subseteq Places /\ Jumps \subseteq Places /\ Nothing \notin Places
<1>1. waypoints \in Seq(Nat) /\ waypoints # <<>>
  BY RouteAssumption
<1>2. Len(waypoints) \in Nat \ {0} /\ \A i \in 1..Len(waypoints) : waypoints[i] \in Nat
  BY <1>1
<1> QED
  BY <1>1, <1>2, RouteAssumption

(* The places of a segment's ends.                                         *)
LEMMA SegmentTypes ==
  ASSUME wp \in Nat \ {0}, wp <= Len(waypoints)
  PROVE  /\ SegmentStart \in Nat /\ TotalLength \in Int
         /\ waypoints[wp] = SegmentStart + TotalLength
<1>1. waypoints[wp] \in Nat
  BY RouteConstants
<1>2. wp # 1 => waypoints[wp - 1] \in Nat
  BY RouteConstants
<1>3. SegmentStart \in Nat
  BY <1>2 DEF SegmentStart
<1> QED
  BY <1>1, <1>3 DEF TotalLength

LEMMA PlaceTypes ==
  ASSUME NEW p \in Places, NEW q \in Places
  PROVE  /\ p[1] \in Int /\ p[2] \in Int
         /\ Plus(p, q) \in Places /\ Minus(p, q) \in Places
         /\ Plus(p, q)[1] = p[1] + q[1] /\ Minus(p, q)[1] = p[1] - q[1]
BY DEF Places, Plus, Minus

(* Within a distance in the plane is within it along the line.             *)
LEMMA SquareMonotone ==
  ASSUME NEW d \in Nat, NEW x \in Int, d < x
  PROVE  d * d < x * x
<1>1. d * x <= x * x /\ d * d <= d * x
  BY SMTT(30)
<1>2. d * x < x * x
  <2>1. (x - d) * x = x * x - d * x
    BY SMTT(30)
  <2>2. (x - d) * x > 0
    BY SMTT(30)
  <2> QED
    BY <2>1, <2>2
<1> QED
  BY <1>1, <1>2

LEMMA WithinAlong ==
  ASSUME NEW d \in Nat, NEW p \in Places, NEW q \in Places, Within(d, p, q)
  PROVE  p[1] - q[1] <= d
<1> DEFINE x == p[1] - q[1]
           y == p[2] - q[2]
<1>1. x \in Int /\ y \in Int
  BY DEF Places
<1>2. x * x + y * y <= d * d
  BY DEF Within, Square
<1>3. y * y >= 0 /\ x * x \in Int /\ y * y \in Int
  BY <1>1
<1>4. x * x <= d * d
  BY <1>2, <1>3
<1>5. d < x => d * d < x * x
  BY <1>1, SquareMonotone
<1> HIDE DEF x, y
<1>6. x <= d
  BY <1>1, <1>3, <1>4, <1>5
<1> QED
  BY <1>6 DEF x

(* A pose that agrees with the fix projects no farther than the vehicle has*)
(* been, up to the divergence.                                             *)
LEMMA ProjectionLemma ==
  ASSUME RouteTypes, FixInv, alignment \in Places, wp <= Len(waypoints)
  PROVE  /\ ProjectedProgress \in Nat
         /\ fix # Nothing /\ MapGpsConsistent(alignment) =>
              \/ ProjectedProgress = 0
              \/ SegmentStart + ProjectedProgress <= furthest + divergence_abort_m
<1>1. /\ SegmentStart \in Nat /\ TotalLength \in Int
  BY SegmentTypes DEF RouteTypes
<1>2. Pose \in Places /\ divergence_abort_m \in Nat /\ furthest \in Int
  BY RouteConstants, PlaceTypes DEF RouteTypes, Pose
<1>6. Pose[1] \in Int /\ alignment[1] \in Int
  BY <1>2, PlaceTypes
<1>7. Minus(Pose, alignment)[1] = Pose[1] - alignment[1]
  BY <1>2, PlaceTypes
<1> DEFINE along == Minus(Pose, alignment)[1] - SegmentStart
<1>3. along \in Int /\ along = Pose[1] - alignment[1] - SegmentStart
  BY <1>1, <1>6, <1>7
<1>4. /\ ProjectedProgress \in Nat
      /\ ProjectedProgress # 0 => ProjectedProgress <= along
  BY <1>1, <1>3 DEF ProjectedProgress, Larger, Smaller
<1>5. ASSUME fix # Nothing, MapGpsConsistent(alignment)
      PROVE  Pose[1] - alignment[1] <= furthest + divergence_abort_m
  <2>1. fix \in Places /\ fix[1] <= furthest
    BY <1>5 DEF RouteTypes, FixInv
  <2>2. Within(divergence_abort_m, Pose, Plus(fix, alignment))
    BY <1>5 DEF MapGpsConsistent
  <2>3. Plus(fix, alignment) \in Places /\ Plus(fix, alignment)[1] = fix[1] + alignment[1]
    BY <2>1, PlaceTypes
  <2>4. Pose[1] - Plus(fix, alignment)[1] <= divergence_abort_m
    BY <1>2, <2>2, <2>3, WithinAlong
  <2>5. fix[1] \in Int
    BY <2>1, PlaceTypes
  <2> QED
    BY <2>1, <2>3, <2>4, <2>5, <1>2, <1>6
<1> QED
  BY <1>1, <1>2, <1>3, <1>4, <1>5, <1>6

LEMMA RouteInitIInv == RouteInit => RouteIInv
<1> SUFFICES ASSUME RouteInit PROVE RouteIInv
  OBVIOUS
<1>1. GoalInv
  BY DEF RouteInit, GoalInv, NoCall, Call, ServerState
<1>2. RouteTypes /\ FixInv
  BY RouteConstants DEF RouteInit, RouteTypes, FixInv, Places, Origin
<1>3. ProgressInv
  BY DEF RouteInit, ProgressInv
<1> QED
  BY <1>1, <1>2, <1>3 DEF RouteIInv

(* The goal and the runner's place, step by step.                          *)
LEMMA GoalStep == GoalInv /\ [RouteNext]_routeVars => GoalInv'
<1> SUFFICES ASSUME GoalInv, [RouteNext]_routeVars PROVE GoalInv'
  OBVIOUS
<1>a. goalCall \in Call
  BY DEF GoalInv
<1>0. ASSUME UNCHANGED <<goalCall, at>> PROVE GoalInv'
  BY <1>0 DEF GoalInv
<1>1. CASE FixCallback \/ AlignmentCallback \/ Jump \/ CooldownElapses \/ LeftGoalEnds
           \/ Drive \/ Detour
  BY <1>0, <1>1 DEF FixCallback, AlignmentCallback, Jump, CooldownElapses, LeftGoalEnds,
                    Drive, Detour, Moves, runner
<1>2. CASE Nav2Step
  <2>1. PICK c \in ServerStep(goalCall) : goalCall' = c
    BY <1>2 DEF Nav2Step
  <2>2. at' = at
    BY <1>2 DEF Nav2Step, runner
  <2>3. goalCall' \in Call
    BY <2>1, <1>a, ServerStepLemma
  <2>4. /\ goalCall'.handle = goalCall.handle
        /\ goalCall'.server \in {goalCall.server, "executing", "rejected", "succeeded",
                                 "aborted", "canceled"}
        /\ goalCall'.server \in {"executing", "rejected"} =>
             goalCall'.server = goalCall.server \/ goalCall.server = "requested"
        /\ goalCall'.server = "executing" /\ goalCall.server = "executing" =>
             goalCall'.cancel = goalCall.cancel
    BY <2>1, <1>a DEF ServerStep, Call, ServerState
  <2> QED
    BY <2>2, <2>3, <2>4 DEF GoalInv
<1>3. CASE StartUp \/ StartUpFails \/ LookupFails \/ Locate \/ BeginWaypoint
  BY <1>3 DEF StartUp, StartUpFails, LookupFails, Locate, BeginWaypoint, End, GoalInv
<1>4. CASE ChooseSubgoal
  <2>1. CASE Diverged
    BY <1>4, <2>1 DEF ChooseSubgoal, Diverged, End, GoalInv
  <2>2. CASE NextWaypoint
    BY <1>4, <2>2 DEF ChooseSubgoal, NextWaypoint, End, GoalInv
  <2>3. CASE SendSubgoal
    BY <2>3, CallTypes DEF SendSubgoal, GoalInv
  <2> QED
    BY <1>4, <2>1, <2>2, <2>3 DEF ChooseSubgoal
<1>5. CASE Response
  <2>1. CASE Accepted(goalCall)
    <3>1. at' = "watch" /\ goalCall' = WithHandle(goalCall) /\ goalCall' \in Call
      BY <1>5, <2>1, <1>a, CallTypes DEF Response
    <3>2. goalCall'.handle /\ goalCall'.server # "requested"
      BY <1>5, <3>1, <1>a DEF Response, ResponseReady, WithHandle, Call, Ended
    <3> QED
      BY <3>1, <3>2 DEF GoalInv
  <2>2. CASE ~Accepted(goalCall)
    <3>1. at' = "done" /\ goalCall' = Consumed(goalCall) /\ goalCall' \in Call
      BY <1>5, <2>2, <1>a DEF Response, End, Consumed, Call, ServerState
    <3>2. goalCall'.server = "done"
      BY <3>1, <1>a DEF Consumed, Call
    <3> QED
      BY <3>1, <3>2 DEF GoalInv
  <2> QED
    BY <2>1, <2>2
<1>6. CASE Monitor
  <2>0. at = "watch" /\ goalCall.handle /\ goalCall.server # "requested"
    BY <1>6 DEF Monitor, GoalInv
  <2>1. CASE ResultArrives
    <3>1. at' \in {"verify", "done"} /\ goalCall' = Consumed(goalCall) /\ goalCall' \in Call
      BY <2>1, <1>a DEF ResultArrives, End, Consumed, Call, ServerState
    <3>2. goalCall'.server = "done"
      BY <3>1, <1>a DEF Consumed, Call
    <3> QED
      BY <3>1, <3>2 DEF GoalInv
  <2>2. CASE LeaveForNewGoal
    BY <2>2, CallTypes DEF LeaveForNewGoal, NoCall, GoalInv
  <2>3. CASE AbortGoalWithWatchdog
    <3>1. at' = "done" /\ goalCall' = Canceled(goalCall) /\ goalCall' \in Call
      BY <2>3, <1>a, CallTypes DEF AbortGoalWithWatchdog, End
    <3>2. goalCall'.server = goalCall.server /\ goalCall'.cancel
      BY <3>1, <2>0, <1>a DEF Canceled, Call
    <3> QED
      BY <3>1, <3>2, <2>0 DEF GoalInv
  <2>4. ASSUME NEW w, WatchOn(w) PROVE GoalInv'
    BY <1>0, <2>4 DEF WatchOn
  <2> QED
    BY <1>6, <2>1, <2>2, <2>3, <2>4 DEF Monitor, NoPoseSeen, PoseSeen
<1>7. CASE VerifySuccess
  <2>1. CASE Diverged
    BY <1>7, <2>1 DEF VerifySuccess, Diverged, End, GoalInv
  <2>2. CASE ~Diverged
    BY <1>7, <2>2 DEF VerifySuccess, End, GoalInv
  <2> QED
    BY <2>1, <2>2
<1>8. CASE UNCHANGED routeVars
  BY <1>0, <1>8 DEF routeVars, runner
<1> QED
  BY <1>1, <1>2, <1>3, <1>4, <1>5, <1>6, <1>7, <1>8 DEF RouteNext, Nav2, Runner

(* However the vehicle moves, it comes to a place.                         *)
LEMMA MoveLemma ==
  ASSUME RouteTypes, Drive \/ Detour
  PROVE  \E place \in Places : Moves(place)
<1>1. ASSUME NEW axis \in 1..2, NEW d \in Int
      PROVE  [truth EXCEPT ![axis] = @ + d] \in Places
  BY <1>1 DEF RouteTypes, Places
<1>2. CASE Drive
  <2>1. PICK axis \in 1..2 :
          Moves([truth EXCEPT ![axis] = IF Pose[axis] < Destination[axis] THEN @ + 1 ELSE @ - 1])
    BY <1>2 DEF Drive
  <2>2. CASE Pose[axis] < Destination[axis]
    BY <1>1, <2>1, <2>2
  <2>3. CASE ~(Pose[axis] < Destination[axis])
    <3>1. truth[axis] - 1 = truth[axis] + (-1)
      BY DEF RouteTypes, Places
    <3>2. Moves([truth EXCEPT ![axis] = @ + (-1)])
      BY <2>1, <2>3, <3>1
    <3> QED
      BY <1>1, <3>2
  <2> QED
    BY <2>2, <2>3
<1>3. CASE Detour
  BY <1>1, <1>3 DEF Detour
<1> QED
  BY <1>2, <1>3

(* Everything else: only the vehicle moves truth, and only three actions   *)
(* of the runner read progress.                                            *)
LEMMA RouteTypesStep == RouteTypes /\ [RouteNext]_routeVars => RouteTypes'
<1> SUFFICES ASSUME RouteTypes, [RouteNext]_routeVars PROVE RouteTypes'
  OBVIOUS
<1>0. ASSUME UNCHANGED <<truth, drift, furthest, fix, alignment, wp, progress>>,
             at' \notin {"startup", "done"} => at \notin {"startup", "done"},
             at' # "done" => at # "done"
      PROVE  RouteTypes'
  BY <1>0 DEF RouteTypes
<1>1. CASE FixCallback \/ AlignmentCallback \/ Jump
  <2>1. fix' \in Places \cup {Nothing} /\ alignment' \in Places \cup {Nothing}
    BY <1>1, RouteConstants DEF RouteTypes, FixCallback, AlignmentCallback, Jump
  <2>2. alignment \in Places => alignment' \in Places
    BY <1>1, RouteConstants DEF RouteTypes, FixCallback, AlignmentCallback, Jump
  <2>3. truth' \in Places /\ drift' \in Places /\ furthest' \in Int
    BY <1>1, RouteConstants, PlaceTypes DEF RouteTypes, FixCallback, AlignmentCallback, Jump
  <2>4. UNCHANGED <<at, wp, progress>>
    BY <1>1 DEF FixCallback, AlignmentCallback, Jump, runner
  <2> QED
    BY <2>1, <2>2, <2>3, <2>4 DEF RouteTypes
<1>12. CASE Drive \/ Detour
  <2>1. PICK place \in Places : Moves(place)
    BY <1>12, MoveLemma
  <2>2. truth' \in Places /\ furthest' \in Int
    BY <2>1, PlaceTypes DEF Moves, Larger, RouteTypes
  <2> QED
    BY <2>1, <2>2 DEF Moves, runner, RouteTypes
<1>2. CASE CooldownElapses \/ LeftGoalEnds \/ Nav2Step
  BY <1>0, <1>2 DEF CooldownElapses, LeftGoalEnds, Nav2Step, world, runner
<1>3. CASE StartUp
  <2>1. alignment \in Places
    BY <1>3 DEF StartUp, RouteTypes
  <2>2. at = "startup" /\ at' = "locate" /\ UNCHANGED <<world, wp, progress>>
    BY <1>3 DEF StartUp
  <2> QED
    BY <2>1, <2>2 DEF RouteTypes, world
<1>4. CASE StartUpFails \/ LookupFails \/ Locate
  BY <1>0, <1>4 DEF StartUpFails, LookupFails, Locate, End, world
<1>5. ASSUME at \in {"begin", "choose", "verify"} PROVE ProjectedProgress \in Int
  <2>1. alignment \in Places /\ wp <= Len(waypoints) /\ wp \in Nat \ {0}
    BY <1>5 DEF RouteTypes
  <2>2. SegmentStart \in Nat /\ TotalLength \in Int
    BY <2>1, SegmentTypes
  <2>3. Pose \in Places
    BY PlaceTypes DEF RouteTypes, Pose
  <2>4. Minus(Pose, alignment)[1] \in Int
    BY <2>1, <2>3, PlaceTypes
  <2> QED
    BY <2>2, <2>4 DEF ProjectedProgress, Larger, Smaller
<1>6. CASE BeginWaypoint
  <2>1. at = "begin" /\ at' = "choose" /\ progress' \in Int /\ UNCHANGED <<world, wp>>
    BY <1>5, <1>6 DEF BeginWaypoint
  <2> QED
    BY <2>1 DEF RouteTypes, world
<1>7. ASSUME at \in {"choose", "verify"}, ReadProgress
      PROVE  progress' \in Int /\ UNCHANGED world
  BY <1>5, <1>7 DEF ReadProgress, RouteTypes, Larger
<1>8. CASE ChooseSubgoal
  <2>0. at = "choose"
    BY <1>8 DEF ChooseSubgoal
  <2>1. CASE Diverged
    BY <1>0, <2>0, <2>1 DEF Diverged, End, world
  <2>2. CASE ReadProgress /\ NextWaypoint
    <3>1. wp' \in Nat \ {0} /\ (at' # "done" => wp' <= Len(waypoints))
      BY <2>0, <2>2, RouteConstants DEF NextWaypoint, RouteTypes, End
    <3>2. at' \in {"begin", "done"}
      BY <2>2 DEF NextWaypoint, End
    <3> QED
      BY <2>0, <2>2, <3>1, <3>2, <1>7 DEF RouteTypes, world
  <2>3. CASE ReadProgress /\ SendSubgoal
    <3>1. at' = "response" /\ UNCHANGED wp
      BY <2>3 DEF SendSubgoal
    <3> QED
      BY <2>0, <2>3, <3>1, <1>7 DEF RouteTypes, world
  <2> QED
    BY <1>8, <2>1, <2>2, <2>3 DEF ChooseSubgoal
<1>9. CASE Response \/ Monitor
  <2>1. at \in {"response", "watch"} /\ UNCHANGED <<world, wp, progress>>
    BY <1>9 DEF Response, Monitor
  <2> QED
    BY <1>0, <2>1 DEF world
<1>10. CASE VerifySuccess
  <2>0. at = "verify"
    BY <1>10 DEF VerifySuccess
  <2>1. CASE Diverged
    BY <1>0, <2>0, <2>1 DEF Diverged, End, world
  <2>2. CASE ReadProgress /\ UNCHANGED wp
    BY <2>0, <2>2, <1>7 DEF RouteTypes, world
  <2> QED
    BY <1>10, <2>1, <2>2 DEF VerifySuccess
<1>11. CASE UNCHANGED routeVars
  BY <1>0, <1>11 DEF routeVars, world, runner
<1> QED
  BY <1>1, <1>2, <1>3, <1>4, <1>6, <1>8, <1>9, <1>10, <1>11, <1>12 DEF RouteNext, Nav2, Runner

LEMMA FixStep == RouteTypes /\ FixInv /\ [RouteNext]_routeVars => FixInv'
<1> SUFFICES ASSUME RouteTypes, FixInv, [RouteNext]_routeVars PROVE FixInv'
  OBVIOUS
<1>1. CASE UNCHANGED <<truth, furthest, fix>>
  BY <1>1 DEF FixInv
<1>2. CASE FixCallback
  BY <1>2 DEF FixCallback, FixInv
<1>3. CASE Drive \/ Detour
  <2>1. PICK place \in Places : Moves(place)
    BY <1>3, MoveLemma
  <2>2. truth' = place /\ furthest' = Larger(furthest, place[1]) /\ fix' = fix
    BY <2>1 DEF Moves
  <2>3. place[1] \in Int /\ (fix # Nothing => fix[1] \in Int) /\ furthest \in Int
    BY PlaceTypes DEF RouteTypes
  <2> QED
    BY <2>2, <2>3 DEF FixInv, Larger
<1> QED
  BY <1>1, <1>2, <1>3 DEF RouteNext, Nav2, Runner, AlignmentCallback, Jump, CooldownElapses,
       LeftGoalEnds, Nav2Step, StartUp, StartUpFails, LookupFails, Locate, BeginWaypoint,
       ChooseSubgoal, Diverged, ReadProgress, Response, Monitor, VerifySuccess, routeVars, world

(* What the runner knows of its progress once it has read the pose.        *)
LEMMA ReadProgressLemma ==
  ASSUME RouteTypes, FixInv, ProgressInv, ReadProgress, at \in {"choose", "verify"},
         ~unchecked'
  PROVE  progress' = 0 \/ SegmentStart + progress' <= furthest + divergence_abort_m
<1>1. alignment \in Places /\ wp <= Len(waypoints) /\ wp \in Nat \ {0}
  BY DEF RouteTypes
<1>2. fix # Nothing /\ ~unchecked /\ MapGpsConsistent(alignment)
  BY DEF ReadProgress
<1>3. progress = 0 \/ SegmentStart + progress <= furthest + divergence_abort_m
  BY <1>2 DEF ProgressInv
<1>4. \/ ProjectedProgress = 0
      \/ SegmentStart + ProjectedProgress <= furthest + divergence_abort_m
  BY <1>1, <1>2, ProjectionLemma
<1>5. progress' = progress \/ progress' = ProjectedProgress
  BY DEF ReadProgress, Larger
<1> QED
  BY <1>3, <1>4, <1>5

LEMMA ProgressStep ==
  RouteTypes /\ FixInv /\ ProgressInv /\ [RouteNext]_routeVars => ProgressInv'
<1> SUFFICES ASSUME RouteTypes, FixInv, ProgressInv, [RouteNext]_routeVars
             PROVE  ProgressInv'
  OBVIOUS
<1> DEFINE Reads == {"choose", "response", "watch", "verify"}
<1>0. ASSUME at' \in Reads => at \in Reads,
             UNCHANGED <<wp, progress, unchecked>>, furthest' \in Int, furthest <= furthest'
      PROVE  ProgressInv'
  <2>1. SegmentStart' = SegmentStart
    BY <1>0 DEF SegmentStart
  <2>2. ASSUME at' \in Reads, ~unchecked'
        PROVE  progress' = 0 \/ SegmentStart' + progress' <= furthest' + divergence_abort_m
    <3>1. at \in Reads /\ ~unchecked /\ progress' = progress
      BY <1>0, <2>2
    <3>2. progress = 0 \/ SegmentStart + progress <= furthest + divergence_abort_m
      BY <3>1 DEF ProgressInv
    <3>3. SegmentStart \in Nat
      <4>1. wp \in Nat \ {0} /\ wp <= Len(waypoints)
        BY <3>1 DEF RouteTypes
      <4> QED
        BY <4>1, SegmentTypes
    <3> QED
      BY <1>0, <2>1, <3>1, <3>2, <3>3, RouteConstants DEF RouteTypes
  <2> QED
    BY <2>2 DEF ProgressInv
<1>1. CASE Drive \/ Detour
  <2>1. PICK place \in Places : Moves(place)
    BY <1>1, MoveLemma
  <2>2. furthest' \in Int /\ furthest <= furthest'
    BY <2>1, PlaceTypes DEF Moves, RouteTypes, Larger
  <2> QED
    BY <1>0, <2>1, <2>2 DEF Moves, runner
<1>2. ASSUME UNCHANGED <<wp, progress, unchecked, furthest>>, at' \in Reads => at \in Reads
      PROVE  ProgressInv'
  BY <1>0, <1>2 DEF RouteTypes
<1>3. CASE \/ FixCallback \/ AlignmentCallback \/ Jump \/ CooldownElapses \/ LeftGoalEnds
           \/ Nav2Step \/ Response \/ Monitor
  BY <1>2, <1>3 DEF FixCallback, AlignmentCallback, Jump, CooldownElapses, LeftGoalEnds,
                    Nav2Step, Response, Monitor, world, runner
<1>4. CASE StartUp \/ StartUpFails \/ LookupFails \/ Locate
  BY <1>4 DEF StartUp, StartUpFails, LookupFails, Locate, End, ProgressInv
<1>5. CASE BeginWaypoint
  <2>1. at = "begin" /\ progress' = ProjectedProgress /\ UNCHANGED <<wp, furthest>>
    BY <1>5 DEF BeginWaypoint, world
  <2>2. ASSUME ~unchecked'
        PROVE  \/ ProjectedProgress = 0
               \/ SegmentStart + ProjectedProgress <= furthest + divergence_abort_m
    <3>1. fix # Nothing /\ MapGpsConsistent(alignment)
      BY <1>5, <2>2 DEF BeginWaypoint
    <3>2. alignment \in Places /\ wp <= Len(waypoints)
      BY <2>1 DEF RouteTypes
    <3> QED
      BY <3>1, <3>2, ProjectionLemma
  <2>3. SegmentStart' = SegmentStart
    BY <2>1 DEF SegmentStart
  <2> QED
    BY <2>1, <2>2, <2>3 DEF ProgressInv
<1>6. ASSUME at \in {"choose", "verify"}, ReadProgress, UNCHANGED wp
      PROVE  ProgressInv'
  <2>1. SegmentStart' = SegmentStart /\ furthest' = furthest
    BY <1>6 DEF SegmentStart, ReadProgress, world
  <2> QED
    BY <1>6, <2>1, ReadProgressLemma DEF ProgressInv
<1>7. CASE ChooseSubgoal
  BY <1>6, <1>7 DEF ChooseSubgoal, Diverged, NextWaypoint, SendSubgoal, End, ProgressInv
<1>8. CASE VerifySuccess
  BY <1>6, <1>8 DEF VerifySuccess, Diverged, End, ProgressInv
<1>9. CASE UNCHANGED routeVars
  BY <1>2, <1>9 DEF routeVars, world, runner
<1> QED
  BY <1>1, <1>3, <1>4, <1>5, <1>7, <1>8, <1>9 DEF RouteNext, Nav2, Runner

LEMMA RouteInvariance == RouteSpec => []RouteIInv
<1>1. RouteIInv /\ [RouteNext]_routeVars => RouteIInv'
  BY GoalStep, RouteTypesStep, FixStep, ProgressStep DEF RouteIInv
<1> QED
  BY RouteInitIInv, <1>1, PTL DEF RouteSpec

(* Once the route has ended the vehicle moves only with a cancellation on  *)
(* its way or toward a goal that a shift left at Nav2.                     *)
THEOREM RouteStopsTheVehicle == RouteSpec => StopsWithRoute
<1>1. ASSUME RouteIInv, [RouteNext]_routeVars, truth' # truth, at = "done"
      PROVE  goalCall.cancel \/ left # Nothing
  <2>1. Drive \/ Detour
    BY <1>1 DEF RouteNext, Nav2, Runner, FixCallback, AlignmentCallback, Jump,
         CooldownElapses, LeftGoalEnds, Nav2Step, StartUp, StartUpFails, LookupFails, Locate,
         BeginWaypoint, ChooseSubgoal, Diverged, ReadProgress, Response, Monitor,
         VerifySuccess, routeVars, world
  <2>2. goalCall.server = "executing" \/ left # Nothing
    BY <2>1 DEF Drive, Detour, Moves, Destination
  <2> QED
    BY <1>1, <2>2 DEF RouteIInv, GoalInv
<1>2. RouteIInv /\ [RouteNext]_routeVars =>
        [truth' # truth /\ at = "done" => goalCall.cancel \/ left # Nothing]_routeVars
  BY <1>1
<1> QED
  BY RouteInvariance, <1>2, PTL DEF RouteSpec, StopsWithRoute

(* A waypoint counts as reached only when the vehicle has come as far      *)
(* along the line as the tolerances say, whatever Nav2, the pose and the   *)
(* alignment do.                                                           *)
THEOREM ReachesWhatItCounts == RouteSpec => ReachedIsAbreast
<1>1. ASSUME RouteIInv, [RouteNext]_routeVars, wp' # wp, ~unchecked',
             waypoint_tolerance_m < TotalLength
      PROVE  furthest >= waypoints[wp] - waypoint_tolerance_m - divergence_abort_m
  <2>1. at = "choose" /\ ReadProgress /\ Reached(progress')
    BY <1>1 DEF RouteNext, Nav2, Runner, FixCallback, AlignmentCallback, Jump, Drive,
         Detour, Moves, CooldownElapses, LeftGoalEnds, Nav2Step, StartUp, StartUpFails, LookupFails, Locate,
         BeginWaypoint, ChooseSubgoal, SendSubgoal, Diverged, Response, Monitor,
         VerifySuccess, routeVars, runner
  <2>2. progress' = 0 \/ SegmentStart + progress' <= furthest + divergence_abort_m
    BY <1>1, <2>1, ReadProgressLemma DEF RouteIInv
  <2>3. wp \in Nat \ {0} /\ wp <= Len(waypoints) /\ furthest \in Int
    BY <1>1, <2>1 DEF RouteIInv, RouteTypes
  <2>4. progress' \in Int
    BY <1>1, RouteTypesStep DEF RouteIInv, RouteTypes
  <2>5. waypoints[wp] = SegmentStart + TotalLength
    BY <2>3, SegmentTypes
  <2>6. /\ SegmentStart \in Nat /\ TotalLength \in Int
        /\ waypoint_tolerance_m \in Nat /\ divergence_abort_m \in Nat
    BY <2>3, SegmentTypes, RouteConstants
  <2>7. waypoint_tolerance_m < TotalLength
    BY <1>1
  <2>8. ASSUME NEW p \in Int, Reached(p),
               p = 0 \/ SegmentStart + p <= furthest + divergence_abort_m
        PROVE  furthest >= waypoints[wp] - waypoint_tolerance_m - divergence_abort_m
    <3>1. TotalLength - p <= waypoint_tolerance_m
      BY <2>8 DEF Reached
    <3>2. SegmentStart + p <= furthest + divergence_abort_m
      BY <2>6, <2>7, <2>8, <3>1
    <3>3. furthest >= SegmentStart + TotalLength - waypoint_tolerance_m - divergence_abort_m
      BY <2>3, <2>6, <2>8, <3>1, <3>2
    <3> QED
      BY <2>3, <2>5, <2>6, <3>3
  <2> QED
    BY <2>1, <2>2, <2>4, <2>8, Zenon
<1>2. RouteIInv /\ [RouteNext]_routeVars =>
        [wp' # wp /\ ~unchecked' /\ waypoint_tolerance_m < TotalLength =>
           furthest >= waypoints[wp] - waypoint_tolerance_m - divergence_abort_m]_routeVars
  BY <1>1
<1> QED
  BY RouteInvariance, <1>2, PTL DEF RouteSpec, ReachedIsAbreast
=============================================================================
