-------------------------- MODULE MapLocalization --------------------------
(***************************************************************************)
(* Prior-map localization in travel mode: the operator's /initialpose goes *)
(* to the authority (PriorMapTf) and to the bridge                         *)
(* (initialpose_relocalize_bridge.py), which gives it to AMCL and calls    *)
(* /localizer/relocalize; the localizer (Localizer) reports its transform  *)
(* and its status on two topics; AMCL follows whatever pose it was given   *)
(* last.  Each node runs its callbacks in one thread.                      *)
(*                                                                         *)
(* The transform topic is latched with depth one: the authority reads the  *)
(* localizer's latest offset if it has not read it yet.  Nothing orders    *)
(* the two topics: a status may be read before a transform that was sent   *)
(* before it (it is `behind' that transform).  A pose on its way to AMCL   *)
(* counts as not yet published.                                            *)
(***************************************************************************)
EXTENDS Localizer, PriorMapTf

CONSTANTS
  MaxPoses,        \* bound on the poses the operator gives
  StatusDepth,     \* depth of /localizer/status (10 in the code)
  MayDrop          \* a relocalize call may be refused

ASSUME MapLocalizationConstants ==
  /\ {MaxPoses, StatusDepth} \subseteq Nat \ {0}
  /\ MayDrop \in BOOLEAN

VARIABLES
  given,           \* poses the operator published
  heard,           \* of those, how many the authority has taken
  bridged,         \* how many the bridge has taken
  loc,             \* the localizer
  tfUnread,        \* its transform topic holds one the authority has not read
  statuses,        \* /localizer/status on its way to the authority
  tracks,          \* external: the transform AMCL's particles stand for
  overtaken        \* history: a status overtook a transform, and seeded from the one before

operator == <<given, bridged>>
vars == <<authority, operator, heard, loc, tfUnread, statuses, tracks, overtaken>>

Init ==
  /\ AuthorityInit
  /\ given = 0 /\ heard = 0 /\ bridged = 0
  /\ loc = Start
  /\ tfUnread = FALSE /\ statuses = <<>>
  /\ tracks = None
  /\ overtaken = FALSE

----------------------------------------------------------------------------
(* The operator and the bridge *)

InitialPose ==
  /\ given < MaxPoses
  /\ given' = given + 1
  /\ UNCHANGED <<authority, heard, bridged, loc, tfUnread, statuses, tracks, overtaken>>

AuthorityHears ==
  /\ heard < given
  /\ heard' = heard + 1
  /\ OnInitialPose
  /\ UNCHANGED <<operator, loc, tfUnread, statuses, tracks, overtaken>>

(* on_initial_pose of the bridge: AMCL gets the pose at once.              *)
BridgeHears ==
  /\ bridged < given
  /\ bridged' = bridged + 1
  /\ tracks' = bridged + 1
  /\ UNCHANGED <<authority, given, heard, loc, tfUnread, statuses, overtaken>>

Relocalize ==
  /\ loc.taken < bridged
  /\ loc' = RelocCB(loc)
  /\ UNCHANGED <<authority, operator, heard, tfUnread, statuses, tracks, overtaken>>

(* The service is not there, or refuses: on_relocalize_done only logs.     *)
RelocalizeRefused ==
  /\ MayDrop
  /\ loc.taken < bridged
  /\ loc' = [loc EXCEPT !.taken = @ + 1]
  /\ UNCHANGED <<authority, operator, heard, tfUnread, statuses, tracks, overtaken>>

----------------------------------------------------------------------------
(* The localizer *)

Publish(status) ==
  LET q == IF Len(statuses) < StatusDepth THEN statuses ELSE Tail(statuses)
  IN  Append(q, [status |-> status, behind |-> tfUnread])

(* timerCB.  report and send stand for the rates of the status and of the  *)
(* repeated transform; work is what the search or the alignment of a       *)
(* manual pose, of which one at most is due, comes to.                     *)
TimerCB(report, work, send) ==
  LET reported == IF report THEN DegradeIfStale(loc) ELSE loc
      worked   == CASE work = "none"   -> reported
                    [] work = "sparse" -> SparseCloud(reported)
                    [] OTHER           -> IF reported.requested
                                          THEN AlignManual(reported, work = "good")
                                          ELSE Search(reported, work = "good")
      repeats  == send /\ (reported.success \/ ~reported.requested)
  IN  /\ work \in {"good", "bad"} => reported.requested \/ SearchDue(reported)
      /\ statuses' = IF report THEN Publish(Status(reported)) ELSE statuses
      /\ IF ~loc.received
         THEN loc' = reported /\ UNCHANGED tfUnread
         ELSE /\ loc' = worked
              /\ tfUnread' = (tfUnread \/ repeats \/ (work = "good" /\ loc.fresh))
      /\ UNCHANGED <<authority, operator, heard, tracks, overtaken>>

(* globalRelocCB, called from outside at any time.                         *)
GlobalRelocCB(good) ==
  /\ loc.received
  /\ loc' = Align(loc, good)
  /\ tfUnread' = (tfUnread \/ (good /\ loc.fresh))
  /\ UNCHANGED <<authority, operator, heard, statuses, tracks, overtaken>>

(* syncCB: an input arrives; or inputs stop, or the grace runs out.        *)
SyncCB ==
  /\ ~loc.fresh
  /\ loc' = [loc EXCEPT !.received = TRUE, !.fresh = TRUE]
  /\ UNCHANGED <<authority, operator, heard, tfUnread, statuses, tracks, overtaken>>

InputsStop ==
  /\ loc.fresh
  /\ loc' = [loc EXCEPT !.fresh = FALSE]
  /\ UNCHANGED <<authority, operator, heard, tfUnread, statuses, tracks, overtaken>>

GraceEnds ==
  /\ loc.trusted
  /\ loc' = [loc EXCEPT !.trusted = FALSE]
  /\ UNCHANGED <<authority, operator, heard, tfUnread, statuses, tracks, overtaken>>

----------------------------------------------------------------------------
(* The authority's other callbacks *)

ReadTransform ==
  /\ tfUnread
  /\ tfUnread' = FALSE
  /\ OnLocalizerTransform(loc.offset)
  /\ statuses' = [i \in DOMAIN statuses |-> [statuses[i] EXCEPT !.behind = FALSE]]
  /\ UNCHANGED <<operator, heard, loc, tracks, overtaken>>

ReadStatus ==
  /\ statuses # <<>>
  /\ LET msg == Head(statuses)
     IN  /\ statuses' = Tail(statuses)
         /\ OnLocalizerStatus(msg.status.allowed, msg.status.accepted)
         /\ overtaken' = \/ overtaken
                         \/ /\ msg.behind /\ known # None
                            /\ ShouldActivate(msg.status.allowed, msg.status.accepted)
  /\ UNCHANGED <<operator, heard, loc, tfUnread, tracks>>

ReadOdom ==
  /\ ~odom \/ waitingOdom
  /\ OnOdom
  /\ UNCHANGED <<operator, heard, loc, tfUnread, statuses, tracks, overtaken>>

PublishTimer(due, progress) ==
  /\ OnPublishTimer(due, progress)
  /\ tracks' = IF SeedDue /\ due THEN amclSeed ELSE tracks
  /\ UNCHANGED <<operator, heard, loc, tfUnread, statuses, overtaken>>

SettleTime ==
  /\ Settled
  /\ UNCHANGED <<operator, heard, loc, tfUnread, statuses, tracks, overtaken>>

(* External: AMCL reports an estimate.                                     *)
AmclReports(restart, outcome) ==
  /\ tracks # None
  /\ OnAmclPose(tracks, restart, outcome)
  /\ UNCHANGED <<operator, heard, loc, tfUnread, statuses, tracks, overtaken>>

Next ==
  \/ InitialPose \/ AuthorityHears \/ BridgeHears
  \/ Relocalize \/ RelocalizeRefused
  \/ \E report, send \in BOOLEAN, work \in {"none", "sparse", "good", "bad"} : TimerCB(report, work, send)
  \/ \E good \in BOOLEAN : GlobalRelocCB(good)
  \/ SyncCB \/ InputsStop \/ GraceEnds
  \/ ReadTransform \/ ReadStatus \/ ReadOdom
  \/ \E due \in BOOLEAN, progress \in {"stale", "partial", "arrive"} : PublishTimer(due, progress)
  \/ SettleTime
  \/ \E restart \in BOOLEAN, outcome \in {"move", "deadband", "noisy", "limited"} :
       AmclReports(restart, outcome)

Spec == Init /\ [][Next]_vars

(* The executors keep serving their timers and subscriptions.              *)
Fairness ==
  /\ WF_vars(\E send \in BOOLEAN, work \in {"none", "sparse", "good", "bad"} : TimerCB(TRUE, work, send))
  /\ WF_vars(ReadTransform) /\ WF_vars(ReadStatus)

FairSpec == Spec /\ Fairness

----------------------------------------------------------------------------
Transforms == {Unaligned} \cup (0..MaxPoses)

LocalizerType ==
  [success : BOOLEAN, requested : BOOLEAN, state : LocStates, accepted : BOOLEAN,
   offset : Transforms, taken : 0..MaxPoses, attempts : 0..MaxAttempts,
   failures : 0..MaxFailures, received : BOOLEAN, fresh : BOOLEAN, trusted : BOOLEAN]

AuthorityTypeOK ==
  /\ {current, known, amclSeed, target} \subseteq Transforms \cup {None}
  /\ {allowed, pendingSeed, manual, waitingOdom, settling, odom} \subseteq BOOLEAN
  /\ attempts \in 0..SeedAttempts
  /\ candidates \in Seq(Transforms) /\ Len(candidates) <= WindowSize

StatusType == [status : [allowed : BOOLEAN, accepted : BOOLEAN], behind : BOOLEAN]

TypeOK ==
  /\ AuthorityTypeOK
  /\ given \in 0..MaxPoses /\ heard \in 0..given /\ bridged \in 0..given
  /\ loc \in LocalizerType /\ loc.taken <= bridged
  /\ tfUnread \in BOOLEAN
  /\ statuses \in Seq(StatusType) /\ Len(statuses) <= StatusDepth
  /\ tracks \in Transforms \cup {None}
  /\ overtaken \in BOOLEAN

(* Inductive strengthening of NoJump: a seed that still waits for its      *)
(* transform, and a target that is being approached, are both permitted    *)
(* before the step that moves the transform.                               *)
SeedIsWanted == pendingSeed => current = None \/ manual

TargetIsNear ==
  target # None => current # None /\ (target = current \/ Near(current, target))

(* Inductive strengthening of CurrentWasAligned: what the authority has    *)
(* been told is not ahead of the transform, and what it is about to be     *)
(* told only by overtaking it.                                             *)
Aligned(t) == t # None /\ t # Unaligned

SuccessIsAligned ==
  /\ loc.success => loc.offset # Unaligned /\ (tfUnread \/ Aligned(known))
  /\ Aligned(known) => loc.offset # Unaligned

StatusIsAligned ==
  /\ \A i \in DOMAIN statuses :
       /\ statuses[i].status.allowed => loc.offset # Unaligned
       /\ statuses[i].status.allowed => Aligned(known) \/ statuses[i].behind
  /\ allowed => loc.offset # Unaligned

UsesAligned ==
  ~overtaken =>
    /\ Unaligned \notin {current, amclSeed, target, tracks}
    /\ \A i \in DOMAIN candidates : candidates[i] # Unaligned

IInv == TypeOK /\ SeedIsWanted /\ TargetIsNear /\ SuccessIsAligned /\ StatusIsAligned /\ UsesAligned

(* Once there is a transform it does not jump by more than the gate unless *)
(* the operator gave a new pose: not for a background recovery of the      *)
(* localizer, and not for an AMCL estimate, however old, that belongs to   *)
(* an earlier seed.                                                        *)
NoJump ==
  [][current # None /\ current' # current => manual \/ Near(current, current')]_current

(* What is published is an alignment of the localizer, never the identity  *)
(* it sends on the same topic while it waits for one, whatever the state   *)
(* of the localizer, AMCL and a manual pose when status and transform come *)
(* in.  One order is excepted: a status that overtakes the transform it    *)
(* belongs to makes the code take the one it read before, and when its own *)
(* is read, it is too late.                                                *)
CurrentWasAligned == ~overtaken => current # Unaligned

(* devlog: the authority does not depend on a state edge; when the         *)
(* localizer settles as localized, its transform is in use in the end.     *)
LocalizedBecomesActive ==
  <>[](loc.state = "LOCALIZED" /\ loc.success /\ loc.fresh) => <>[]TfActive
=============================================================================
