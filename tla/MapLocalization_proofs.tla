----------------------- MODULE MapLocalization_proofs -----------------------
(***************************************************************************)
(* What the authority publishes, for every number of poses, every size of  *)
(* its window and every relation Near.  IInv is inductive; its parts are   *)
(* proved action by action, the localizer's own steps through the lemmas   *)
(* on its operators.                                                       *)
(***************************************************************************)
EXTENDS MapLocalization, TLAPS

USE DEF None, Unaligned

(* The operators of the localizer keep its type, move the offset only to   *)
(* an alignment and have one whenever they succeed.                        *)
LEMMA AlignKeeps ==
  ASSUME NEW l \in LocalizerType, NEW good
  PROVE  /\ Align(l, good) \in LocalizerType
         /\ Align(l, good).taken = l.taken
         /\ Align(l, good).offset \in {l.offset, l.taken}
         /\ Align(l, good).success => \/ Align(l, good).offset = l.taken /\ good /\ l.fresh
                                      \/ l.success /\ Align(l, good).offset = l.offset
  <1>0. /\ 0 \in 0..MaxFailures /\ 0 \in 0..MaxAttempts
        /\ \A n \in 0..MaxFailures : (IF n + 1 < MaxFailures THEN n + 1 ELSE MaxFailures) \in 0..MaxFailures
    BY LocalizerConstants
  <1>1. HandleAlignmentFailure(l) \in LocalizerType
    <2> DEFINE failures == IF l.failures + 1 < MaxFailures THEN l.failures + 1 ELSE MaxFailures
               keep     == l.success /\ l.failures + 1 < MaxFailures
               request  == keep /\ l.requested
               where    == IF keep THEN "DEGRADED" ELSE "LOST"
    <2>1. failures \in 0..MaxFailures
      BY <1>0 DEF LocalizerType
    <2>2. where \in LocStates
      BY DEF LocStates
    <2>3. keep \in BOOLEAN /\ request \in BOOLEAN
      BY DEF LocalizerType
    <2>4. HandleAlignmentFailure(l)
            = [l EXCEPT !.failures = failures, !.accepted = FALSE, !.success = keep,
                        !.requested = request, !.state = where]
      BY DEF HandleAlignmentFailure
    <2> HIDE DEF failures, keep, request, where
    <2> QED BY <2>1, <2>2, <2>3, <2>4 DEF LocalizerType
  <1>2. /\ HandleAlignmentFailure(l).taken = l.taken
        /\ HandleAlignmentFailure(l).offset = l.offset
        /\ HandleAlignmentFailure(l).success => l.success
    BY DEF HandleAlignmentFailure, LocalizerType
  <1>3. ApplyAlignment(l) \in LocalizerType
    <2>1. l.taken \in Transforms /\ "LOCALIZED" \in LocStates
      BY DEF LocalizerType, Transforms, LocStates
    <2> QED BY <1>0, <2>1 DEF ApplyAlignment, LocalizerType
  <1>4. ApplyAlignment(l).taken = l.taken /\ ApplyAlignment(l).offset = l.taken
    BY DEF ApplyAlignment, LocalizerType
  <1>5. CASE good /\ l.fresh
    BY <1>3, <1>4, <1>5 DEF Align
  <1>6. CASE ~(good /\ l.fresh)
    BY <1>1, <1>2, <1>6 DEF Align
  <1> QED BY <1>5, <1>6

LEMMA SearchKeeps ==
  ASSUME NEW l \in LocalizerType, NEW good, SearchDue(l)
  PROVE  /\ Search(l, good) \in LocalizerType
         /\ Search(l, good).taken = l.taken
         /\ Search(l, good).offset \in {l.offset, l.taken}
         /\ Search(l, good).success => Search(l, good).offset = l.taken /\ good /\ l.fresh
  <1> DEFINE m == [l EXCEPT !.attempts = @ + 1]
  <1>1. m \in LocalizerType /\ m.taken = l.taken /\ m.offset = l.offset /\ m.success = l.success /\ ~l.success /\ m.fresh = l.fresh
    BY LocalizerConstants DEF LocalizerType, SearchDue
  <1>2. Search(l, good) = Align(m, good)
    BY DEF Search
  <1> HIDE DEF m
  <1> QED BY <1>1, <1>2, AlignKeeps

LEMMA ReportKeeps ==
  ASSUME NEW l \in LocalizerType
  PROVE  /\ DegradeIfStale(l) \in LocalizerType
         /\ DegradeIfStale(l).taken = l.taken /\ DegradeIfStale(l).offset = l.offset
         /\ DegradeIfStale(l).success = l.success /\ DegradeIfStale(l).fresh = l.fresh
         /\ SparseCloud(l) \in LocalizerType
         /\ SparseCloud(l).taken = l.taken /\ SparseCloud(l).offset = l.offset
         /\ SparseCloud(l).success = l.success
  <1>1. /\ DegradeIfStale(l) \in LocalizerType
        /\ DegradeIfStale(l).taken = l.taken /\ DegradeIfStale(l).offset = l.offset
        /\ DegradeIfStale(l).success = l.success /\ DegradeIfStale(l).fresh = l.fresh
    BY DEF DegradeIfStale, LocalizerType, LocStates
  <1>2. /\ SparseCloud(l) \in LocalizerType
        /\ SparseCloud(l).taken = l.taken /\ SparseCloud(l).offset = l.offset
        /\ SparseCloud(l).success = l.success
    BY DEF SparseCloud, LocalizerType, LocStates
  <1> QED BY <1>1, <1>2

(* A turn of the timer: the localizer keeps its type; when it succeeds it  *)
(* either did before or sends the new transform.                           *)
LEMMA TimerKeeps ==
  ASSUME TypeOK, NEW report \in BOOLEAN, NEW send \in BOOLEAN,
         NEW work \in {"none", "sparse", "good", "bad"}, TimerCB(report, work, send)
  PROVE  /\ loc' \in LocalizerType
         /\ loc'.taken = loc.taken
         /\ loc'.offset \in {loc.offset, loc.taken}
         /\ loc'.success => \/ loc.success /\ loc'.offset = loc.offset
                            \/ loc'.offset = loc.taken /\ tfUnread'
         /\ tfUnread' \in BOOLEAN /\ (tfUnread => tfUnread')
  <1> DEFINE l == IF report THEN DegradeIfStale(loc) ELSE loc
             w == CASE work = "none"   -> l
                    [] work = "sparse" -> SparseCloud(l)
                    [] OTHER           -> IF l.requested
                                          THEN AlignManual(l, work = "good")
                                          ELSE Search(l, work = "good")
  <1>0. loc \in LocalizerType /\ tfUnread \in BOOLEAN
    BY DEF TypeOK
  <1>1. /\ l \in LocalizerType /\ l.taken = loc.taken /\ l.offset = loc.offset
        /\ l.success = loc.success /\ l.fresh = loc.fresh
    BY <1>0, ReportKeeps
  <1>2. work \in {"good", "bad"} => l.requested \/ SearchDue(l)
    BY DEF TimerCB
  <1>3. \/ loc' = l /\ tfUnread' = tfUnread
        \/ loc' = w /\ tfUnread' = (tfUnread \/ (send /\ (l.success \/ ~l.requested))
                                             \/ (work = "good" /\ loc.fresh))
    BY DEF TimerCB
  <1> HIDE DEF l
  <1>4. /\ w \in LocalizerType /\ w.taken = l.taken /\ w.offset \in {l.offset, l.taken}
        /\ w.success => \/ l.success /\ w.offset = l.offset
                        \/ w.offset = l.taken /\ work = "good" /\ l.fresh
    <2>1. CASE work = "none"
      BY <1>1, <2>1
    <2>2. CASE work = "sparse"
      BY <1>1, <2>2, ReportKeeps
    <2>3. CASE work \in {"good", "bad"} /\ l.requested
      BY <1>1, <2>3, AlignKeeps DEF AlignManual
    <2>4. CASE work \in {"good", "bad"} /\ ~l.requested
      BY <1>1, <1>2, <2>4, SearchKeeps
    <2> QED BY <2>1, <2>2, <2>3, <2>4
  <1> HIDE DEF w
  <1>5. CASE loc' = l /\ tfUnread' = tfUnread
    BY <1>0, <1>1, <1>5
  <1>6. CASE loc' = w /\ tfUnread' = (tfUnread \/ (send /\ (l.success \/ ~l.requested))
                                               \/ (work = "good" /\ loc.fresh))
    <2>1. tfUnread' \in BOOLEAN /\ (tfUnread => tfUnread')
      BY <1>6
    <2> QED BY <1>1, <1>4, <1>6, <2>1
  <1> QED BY <1>3, <1>5, <1>6

(* A status that says allowed stands for a localizer that succeeds; the    *)
(* topic keeps its type and its depth.                                     *)
LEMMA StatusKeeps ==
  ASSUME NEW l \in LocalizerType
  PROVE  /\ Status(l) \in [allowed : BOOLEAN, accepted : BOOLEAN]
         /\ Status(l).allowed => l.success
  BY DEF Status, LocalizerType

LEMMA PublishKeeps ==
  ASSUME statuses \in Seq(StatusType), Len(statuses) <= StatusDepth, tfUnread \in BOOLEAN,
         NEW status \in [allowed : BOOLEAN, accepted : BOOLEAN]
  PROVE  /\ Publish(status) \in Seq(StatusType) /\ Len(Publish(status)) <= StatusDepth
         /\ \A i \in DOMAIN Publish(status) :
              \/ \E j \in DOMAIN statuses : Publish(status)[i] = statuses[j]
              \/ Publish(status)[i] = [status |-> status, behind |-> tfUnread]
  <1> DEFINE q == IF Len(statuses) < StatusDepth THEN statuses ELSE Tail(statuses)
             m == [status |-> status, behind |-> tfUnread]
  <1>0. StatusDepth \in Nat /\ StatusDepth > 0 /\ Len(statuses) \in Nat
    BY MapLocalizationConstants
  <1>1. m \in StatusType
    BY DEF StatusType
  <1>2. Publish(status) = Append(q, m)
    BY DEF Publish
  <1>3. q \in Seq(StatusType) /\ Len(q) < StatusDepth
    BY <1>0
  <1>4. \A i \in DOMAIN q : \E j \in DOMAIN statuses : q[i] = statuses[j]
    BY <1>0
  <1> HIDE DEF q, m
  <1>5. Append(q, m) \in Seq(StatusType) /\ Len(Append(q, m)) = Len(q) + 1
    BY <1>1, <1>3
  <1>6. \A i \in DOMAIN Append(q, m) : (i \in DOMAIN q /\ Append(q, m)[i] = q[i]) \/ Append(q, m)[i] = m
    BY <1>1, <1>3
  <1> QED BY <1>0, <1>2, <1>3, <1>4, <1>5, <1>6 DEF m

(* A step of the localizer: what it may change keeps the invariant.        *)
LEMMA LocalizerStep ==
  ASSUME IInv, UNCHANGED <<authority, given, bridged, heard, tracks, overtaken>>,
         loc' \in LocalizerType, loc'.taken <= bridged,
         loc'.offset \in {loc.offset, loc.taken},
         loc'.success => \/ loc.success /\ loc'.offset = loc.offset
                         \/ loc'.offset = loc.taken /\ tfUnread',
         tfUnread' \in BOOLEAN, tfUnread => tfUnread',
         \/ statuses' = statuses
         \/ \E l \in LocalizerType : l.success = loc.success /\ statuses' = Publish(Status(l))
  PROVE  IInv'
  <1>0. /\ TypeOK /\ SeedIsWanted /\ TargetIsNear /\ SuccessIsAligned /\ StatusIsAligned /\ UsesAligned
        /\ UNCHANGED <<current, known, allowed, pendingSeed, manual>>
        /\ UNCHANGED <<amclSeed, waitingOdom, attempts, settling, candidates, target, odom>>
    BY DEF IInv, authority, seeding, amcl
  <1>1. statuses \in Seq(StatusType) /\ Len(statuses) <= StatusDepth /\ tfUnread \in BOOLEAN
    BY <1>0 DEF TypeOK
  <1>2. loc.taken \in 0..MaxPoses /\ loc.offset \in Transforms
    BY <1>0 DEF TypeOK, LocalizerType
  <1>3. loc.offset # Unaligned => loc'.offset # Unaligned
    BY <1>2
  <1>4. /\ statuses' \in Seq(StatusType) /\ Len(statuses') <= StatusDepth
        /\ \A i \in DOMAIN statuses' :
             \/ \E j \in DOMAIN statuses : statuses'[i] = statuses[j]
             \/ /\ statuses'[i].status.allowed => loc.success
                /\ statuses'[i].behind = tfUnread
    <2>1. CASE statuses' = statuses
      BY <1>1, <2>1
    <2>2. ASSUME NEW l \in LocalizerType, l.success = loc.success, statuses' = Publish(Status(l))
          PROVE  <1>4
      BY <1>1, <2>2, StatusKeeps, PublishKeeps
    <2> QED BY <2>1, <2>2
  <1>5. TypeOK'
    BY <1>0, <1>4 DEF TypeOK, AuthorityTypeOK
  <1>6. SeedIsWanted' /\ TargetIsNear'
    BY <1>0 DEF SeedIsWanted, TargetIsNear
  <1>7. SuccessIsAligned'
    <2>1. loc'.success => loc'.offset # Unaligned
      BY <1>0, <1>2 DEF SuccessIsAligned
    <2>2. loc'.success => tfUnread' \/ Aligned(known)
      BY <1>0 DEF SuccessIsAligned
    <2>3. Aligned(known) => loc'.offset # Unaligned
      BY <1>0, <1>3 DEF SuccessIsAligned
    <2> QED BY <1>0, <2>1, <2>2, <2>3 DEF SuccessIsAligned, Aligned
  <1>8. StatusIsAligned'
    <2>1. ASSUME NEW i \in DOMAIN statuses', statuses'[i].status.allowed
          PROVE  loc'.offset # Unaligned /\ (Aligned(known) \/ statuses'[i].behind)
      <3>1. CASE \E j \in DOMAIN statuses : statuses'[i] = statuses[j]
        BY <1>0, <1>3, <2>1, <3>1 DEF StatusIsAligned
      <3>2. CASE loc.success /\ statuses'[i].behind = tfUnread
        BY <1>0, <1>3, <3>2 DEF SuccessIsAligned
      <3> QED BY <1>4, <2>1, <3>1, <3>2
    <2>2. allowed' => loc'.offset # Unaligned
      BY <1>0, <1>3 DEF StatusIsAligned
    <2> QED BY <1>0, <2>1, <2>2 DEF StatusIsAligned, Aligned
  <1>9. UsesAligned'
    BY <1>0 DEF UsesAligned
  <1> QED BY <1>5, <1>6, <1>7, <1>8, <1>9 DEF IInv
LEMMA LocalizerActions ==
  ASSUME IInv,
         \/ Relocalize \/ RelocalizeRefused \/ SyncCB \/ InputsStop \/ GraceEnds
         \/ \E good \in BOOLEAN : GlobalRelocCB(good)
         \/ \E report, send \in BOOLEAN, work \in {"none", "sparse", "good", "bad"} : TimerCB(report, work, send)
  PROVE  IInv'
  <1>0. /\ TypeOK /\ loc \in LocalizerType /\ tfUnread \in BOOLEAN
        /\ loc.taken <= bridged /\ loc.taken \in 0..MaxPoses /\ bridged \in 0..MaxPoses
    BY MapLocalizationConstants DEF IInv, TypeOK, LocalizerType
  <1>1. CASE Relocalize
    <2>1. loc.taken + 1 \in 0..MaxPoses /\ loc.taken + 1 <= bridged
      BY <1>0, <1>1, MapLocalizationConstants DEF Relocalize
    <2>2. /\ loc' \in LocalizerType /\ loc'.taken = loc.taken + 1 /\ loc'.offset = loc.offset
          /\ ~loc'.success
      <3>1. 0 \in 0..MaxFailures /\ 0 \in 0..MaxAttempts /\ "RELOCALIZING" \in LocStates
        BY LocalizerConstants DEF LocStates
      <3> QED BY <1>0, <1>1, <2>1, <3>1 DEF Relocalize, RelocCB, LocalizerType
    <2> QED BY <1>0, <1>1, <2>1, <2>2, LocalizerStep DEF Relocalize, operator
  <1>2. CASE RelocalizeRefused
    <2>1. loc.taken + 1 \in 0..MaxPoses /\ loc.taken + 1 <= bridged
      BY <1>0, <1>2, MapLocalizationConstants DEF RelocalizeRefused
    <2>2. /\ loc' \in LocalizerType /\ loc'.taken = loc.taken + 1 /\ loc'.offset = loc.offset
          /\ loc'.success = loc.success
      BY <1>0, <1>2, <2>1 DEF RelocalizeRefused, LocalizerType
    <2> QED BY <1>0, <1>2, <2>1, <2>2, LocalizerStep DEF RelocalizeRefused, operator
  <1>3. CASE SyncCB \/ InputsStop \/ GraceEnds
    <2>1. /\ loc' \in LocalizerType /\ loc'.taken = loc.taken /\ loc'.offset = loc.offset
          /\ loc'.success = loc.success
      BY <1>0, <1>3 DEF SyncCB, InputsStop, GraceEnds, LocalizerType
    <2>2. UNCHANGED <<authority, given, bridged, heard, tracks, overtaken>> /\ UNCHANGED <<tfUnread, statuses>>
      BY <1>3 DEF SyncCB, InputsStop, GraceEnds, operator
    <2> QED BY <1>0, <2>1, <2>2, LocalizerStep
  <1>4. ASSUME NEW good \in BOOLEAN, GlobalRelocCB(good)
        PROVE  IInv'
    <2>1. tfUnread' = (tfUnread \/ (good /\ loc.fresh)) /\ loc' = Align(loc, good) /\ statuses' = statuses
          /\ UNCHANGED <<authority, given, bridged, heard, tracks, overtaken>>
      BY <1>4 DEF GlobalRelocCB, operator
    <2>2. tfUnread' \in BOOLEAN /\ (tfUnread => tfUnread') /\ (good /\ loc.fresh => tfUnread')
      BY <2>1
    <2> QED BY <1>0, <2>1, <2>2, AlignKeeps, LocalizerStep
  <1>5. ASSUME NEW report \in BOOLEAN, NEW send \in BOOLEAN,
               NEW work \in {"none", "sparse", "good", "bad"}, TimerCB(report, work, send)
        PROVE  IInv'
    <2>1. UNCHANGED <<authority, given, bridged, heard, tracks, overtaken>>
      BY <1>5 DEF TimerCB, operator
    <2>2. \/ statuses' = statuses
          \/ \E l \in LocalizerType : l.success = loc.success /\ statuses' = Publish(Status(l))
      BY <1>0, <1>5, ReportKeeps DEF TimerCB
    <2> QED BY <1>0, <1>5, <2>1, <2>2, TimerKeeps, LocalizerStep
  <1> QED BY <1>1, <1>2, <1>3, <1>4, <1>5

(* The authority takes a transform as its seed.                            *)
LEMMA ActivateKeeps ==
  ASSUME AuthorityTypeOK, NEW t \in Transforms, Activate(t), allowed' \in BOOLEAN,
         known' \in Transforms \cup {None}
  PROVE  /\ AuthorityTypeOK' /\ SeedIsWanted' /\ TargetIsNear'
         /\ t # Unaligned /\ tracks # Unaligned => (Unaligned \notin {current', amclSeed', target', tracks}
                              /\ \A i \in DOMAIN candidates' : candidates'[i] # Unaligned)
  <1>1. /\ current' = t /\ pendingSeed' = FALSE /\ manual' = FALSE /\ amclSeed' \in {t, None}
        /\ waitingOdom' = ~odom /\ attempts' = 0 /\ settling' = TRUE /\ candidates' = <<>>
        /\ target' = None /\ odom' = odom
    BY DEF Activate
  <1>2. candidates' \in Seq(Transforms) /\ Len(candidates') <= WindowSize /\ 0 \in 0..SeedAttempts
    BY <1>1, PriorMapTfConstants
  <1>3. AuthorityTypeOK'
    BY <1>1, <1>2 DEF AuthorityTypeOK
  <1>4. SeedIsWanted' /\ TargetIsNear'
    BY <1>1 DEF SeedIsWanted, TargetIsNear
  <1> QED BY <1>1, <1>3, <1>4
(* A step of the authority leaves the localizer and the topics' types      *)
(* alone; what it does to its own state is left to the action.             *)
LEMMA AuthorityFrame ==
  ASSUME IInv, AuthorityTypeOK', SeedIsWanted', TargetIsNear', UsesAligned',
         UNCHANGED <<known, loc, tfUnread, statuses, given, overtaken>>, allowed' => allowed,
         heard' \in 0..given, bridged' \in 0..given, loc.taken <= bridged',
         tracks' \in Transforms \cup {None}
  PROVE  IInv'
  <1>1. TypeOK'
    BY DEF IInv, TypeOK
  <1>2. SuccessIsAligned' /\ StatusIsAligned'
    BY DEF IInv, SuccessIsAligned, StatusIsAligned, Aligned
  <1> QED BY <1>1, <1>2 DEF IInv

LEMMA OperatorActions ==
  ASSUME IInv, InitialPose \/ AuthorityHears \/ BridgeHears
  PROVE  IInv'
  <1>0. /\ TypeOK /\ AuthorityTypeOK /\ SeedIsWanted /\ TargetIsNear /\ SuccessIsAligned /\ StatusIsAligned
        /\ UsesAligned
        /\ given \in 0..MaxPoses /\ heard \in 0..given /\ bridged \in 0..given /\ loc.taken \in 0..MaxPoses
        /\ loc.taken <= bridged /\ MaxPoses \in Nat
    BY MapLocalizationConstants DEF IInv, TypeOK, LocalizerType
  <1>1. CASE InitialPose
    <2>1. /\ given' = given + 1 /\ given < MaxPoses /\ UNCHANGED <<heard, bridged, loc, tfUnread, statuses, tracks, overtaken>>
          /\ UNCHANGED <<current, known, allowed, pendingSeed, manual>>
          /\ UNCHANGED <<amclSeed, waitingOdom, attempts, settling, candidates, target, odom>>
      BY <1>1 DEF InitialPose, authority, seeding, amcl
    <2>2. AuthorityTypeOK'
      BY <1>0, <2>1 DEF AuthorityTypeOK
    <2>3. TypeOK'
      BY <1>0, <2>1, <2>2 DEF TypeOK
    <2>4. SeedIsWanted' /\ TargetIsNear'
      BY <1>0, <2>1 DEF SeedIsWanted, TargetIsNear
    <2>5. SuccessIsAligned' /\ StatusIsAligned'
      BY <1>0, <2>1 DEF SuccessIsAligned, StatusIsAligned, Aligned
    <2>6. UsesAligned'
      BY <1>0, <2>1 DEF UsesAligned
    <2> QED BY <2>3, <2>4, <2>5, <2>6 DEF IInv
  <1>2. CASE AuthorityHears
    <2>1. /\ heard' = heard + 1 /\ heard < given /\ UNCHANGED <<given, bridged, loc, tfUnread, statuses, tracks, overtaken>>
          /\ manual' = TRUE /\ pendingSeed' = FALSE /\ amclSeed' = None /\ target' = None /\ candidates' = <<>>
          /\ UNCHANGED <<current, known, allowed, waitingOdom, attempts, settling, odom>>
      BY <1>2 DEF AuthorityHears, OnInitialPose, operator
    <2>2. AuthorityTypeOK'
      <3>1. candidates' \in Seq(Transforms) /\ Len(candidates') <= WindowSize
        BY <2>1, PriorMapTfConstants
      <3> QED BY <1>0, <2>1, <3>1 DEF AuthorityTypeOK
    <2>3. SeedIsWanted' /\ TargetIsNear'
      BY <2>1 DEF SeedIsWanted, TargetIsNear
    <2>4. UsesAligned'
      BY <1>0, <2>1 DEF UsesAligned
    <2>5. heard' \in 0..given /\ tracks' \in Transforms \cup {None}
      BY <1>0, <2>1 DEF TypeOK
    <2> QED BY <1>0, <2>1, <2>2, <2>3, <2>4, <2>5, AuthorityFrame
  <1>3. CASE BridgeHears
    <2>1. /\ bridged' = bridged + 1 /\ bridged < given /\ tracks' = bridged + 1
          /\ UNCHANGED <<given, heard, loc, tfUnread, statuses, overtaken>>
          /\ UNCHANGED <<current, known, allowed, pendingSeed, manual>>
          /\ UNCHANGED <<amclSeed, waitingOdom, attempts, settling, candidates, target, odom>>
      BY <1>3 DEF BridgeHears, authority, seeding, amcl
    <2>2. AuthorityTypeOK'
      BY <1>0, <2>1 DEF AuthorityTypeOK
    <2>3. SeedIsWanted' /\ TargetIsNear'
      BY <1>0, <2>1 DEF SeedIsWanted, TargetIsNear
    <2>4. /\ bridged' \in 0..given /\ tracks' \in Transforms \cup {None} /\ tracks' # Unaligned
          /\ loc.taken <= bridged'
      BY <1>0, <2>1 DEF Transforms
    <2>5. UsesAligned'
      BY <1>0, <2>1, <2>4 DEF UsesAligned
    <2> QED BY <1>0, <2>1, <2>2, <2>3, <2>4, <2>5, AuthorityFrame
  <1> QED BY <1>1, <1>2, <1>3
LEMMA ReadActions ==
  ASSUME IInv, ReadTransform \/ ReadStatus
  PROVE  IInv'
  <1>0. /\ TypeOK /\ AuthorityTypeOK /\ SeedIsWanted /\ TargetIsNear /\ SuccessIsAligned /\ StatusIsAligned
        /\ UsesAligned
        /\ loc.offset \in Transforms /\ known \in Transforms \cup {None} /\ allowed \in BOOLEAN
        /\ statuses \in Seq(StatusType) /\ Len(statuses) <= StatusDepth /\ overtaken \in BOOLEAN
    BY DEF IInv, TypeOK, AuthorityTypeOK, LocalizerType
  <1>1. CASE ReadTransform
    <2>1. /\ tfUnread' = FALSE /\ UNCHANGED <<given, bridged, heard, loc, tracks, allowed, overtaken>>
          /\ known' = loc.offset
          /\ statuses' = [i \in DOMAIN statuses |-> [statuses[i] EXCEPT !.behind = FALSE]]
          /\ IF pendingSeed /\ allowed
             THEN Activate(loc.offset)
             ELSE /\ UNCHANGED <<current, pendingSeed, manual>>
                  /\ UNCHANGED <<amclSeed, waitingOdom, attempts, settling, candidates, target, odom>>
      BY <1>1 DEF ReadTransform, OnLocalizerTransform, operator, amcl
    <2>2. /\ statuses' \in Seq(StatusType) /\ Len(statuses') = Len(statuses) /\ DOMAIN statuses' = DOMAIN statuses
          /\ \A i \in DOMAIN statuses : statuses'[i].status = statuses[i].status
      <3>1. DOMAIN statuses = 1..Len(statuses) /\ Len(statuses) \in Nat
        BY <1>0
      <3>2. \A i \in 1..Len(statuses) : statuses[i] \in StatusType
        BY <1>0
      <3>3. \A i \in 1..Len(statuses) : /\ statuses'[i] \in StatusType
                                        /\ statuses'[i].status = statuses[i].status
        BY <2>1, <3>1, <3>2 DEF StatusType
      <3>4. statuses' \in [1..Len(statuses) -> StatusType]
        BY <2>1, <3>1, <3>3
      <3> QED BY <3>1, <3>3, <3>4
    <2>3. /\ AuthorityTypeOK' /\ SeedIsWanted' /\ TargetIsNear' /\ UsesAligned'
      <3>1. CASE pendingSeed /\ allowed
        <4>1. Activate(loc.offset) /\ loc.offset # Unaligned
          BY <1>0, <2>1, <3>1 DEF StatusIsAligned
        <4>2. tracks' = tracks /\ (~overtaken => tracks # Unaligned)
          BY <1>0, <2>1 DEF UsesAligned
        <4>3. allowed' \in BOOLEAN /\ known' \in Transforms \cup {None}
          BY <1>0, <2>1
        <4> QED BY <1>0, <2>1, <4>1, <4>2, <4>3, ActivateKeeps DEF UsesAligned
      <3>2. CASE ~(pendingSeed /\ allowed)
        <4>1. /\ UNCHANGED <<current, pendingSeed, manual>>
              /\ UNCHANGED <<amclSeed, waitingOdom, attempts, settling, candidates, target, odom>>
          BY <2>1, <3>2
        <4>2. AuthorityTypeOK'
          BY <1>0, <2>1, <4>1 DEF AuthorityTypeOK
        <4> QED BY <1>0, <2>1, <4>1, <4>2 DEF SeedIsWanted, TargetIsNear, UsesAligned
      <3> QED BY <3>1, <3>2
    <2>4. TypeOK'
      BY <1>0, <2>1, <2>2, <2>3 DEF TypeOK
    <2>5. loc.offset # None
      BY <1>0 DEF Transforms
    <2>6. SuccessIsAligned' /\ StatusIsAligned'
      BY <1>0, <2>1, <2>2, <2>5 DEF SuccessIsAligned, StatusIsAligned, Aligned
    <2> QED BY <2>3, <2>4, <2>6 DEF IInv
  <1>2. CASE ReadStatus
    <2> DEFINE may == Head(statuses).status.allowed
               accepted == Head(statuses).status.accepted
    <2>1. /\ statuses # <<>> /\ statuses' = Tail(statuses)
          /\ overtaken' = \/ overtaken
                          \/ Head(statuses).behind /\ known # None /\ ShouldActivate(may, accepted)
          /\ UNCHANGED <<given, bridged, heard, loc, tfUnread, tracks, known>>
          /\ allowed' = may
          /\ IF ShouldActivate(may, accepted)
             THEN IF known # None
                  THEN Activate(known)
                  ELSE /\ pendingSeed' = TRUE /\ UNCHANGED <<current, manual>>
                       /\ UNCHANGED <<amclSeed, waitingOdom, attempts, settling, candidates, target, odom>>
             ELSE /\ UNCHANGED <<current, pendingSeed, manual>>
                  /\ UNCHANGED <<amclSeed, waitingOdom, attempts, settling, candidates, target, odom>>
      BY <1>2 DEF ReadStatus, OnLocalizerStatus, operator, amcl
    <2>2. /\ Head(statuses) = statuses[1] /\ 1 \in DOMAIN statuses /\ Head(statuses) \in StatusType
      BY <1>0, <2>1
    <2>3. /\ may \in BOOLEAN /\ overtaken' \in BOOLEAN /\ (~overtaken' => ~overtaken)
          /\ may => loc.offset # Unaligned
          /\ may => Aligned(known) \/ Head(statuses).behind
      BY <1>0, <2>1, <2>2 DEF StatusType, StatusIsAligned
    <2>4. /\ statuses' \in Seq(StatusType) /\ Len(statuses') <= StatusDepth
          /\ \A i \in DOMAIN statuses' : \E j \in DOMAIN statuses : statuses'[i] = statuses[j]
      <3>1. Len(statuses') = Len(statuses) - 1 /\ statuses' \in Seq(StatusType)
        BY <1>0, <2>1
      <3>2. \A i \in 1..Len(statuses') : statuses'[i] = statuses[i + 1]
        BY <1>0, <2>1
      <3> QED BY <1>0, <3>1, <3>2, MapLocalizationConstants
    <2>5. /\ ShouldActivate(may, accepted) => may /\ (current = None \/ manual)
      BY DEF ShouldActivate
    <2> HIDE DEF may, accepted
    <2>6. /\ AuthorityTypeOK' /\ SeedIsWanted' /\ TargetIsNear' /\ UsesAligned'
      <3>1. CASE ShouldActivate(may, accepted) /\ known # None
        <4>1. Activate(known) /\ known \in Transforms /\ (~overtaken' => known # Unaligned)
          BY <1>0, <2>1, <2>3, <2>5, <3>1 DEF Aligned
        <4>2. tracks' = tracks /\ (~overtaken' => tracks # Unaligned)
          BY <1>0, <2>1, <2>3 DEF UsesAligned
        <4>3. allowed' \in BOOLEAN /\ known' \in Transforms \cup {None}
          BY <1>0, <2>1, <2>3
        <4> QED BY <1>0, <4>1, <4>2, <4>3, ActivateKeeps DEF UsesAligned
      <3>2. CASE ~(ShouldActivate(may, accepted) /\ known # None)
        <4>1. /\ UNCHANGED <<current, manual>>
              /\ UNCHANGED <<amclSeed, waitingOdom, attempts, settling, candidates, target, odom>>
              /\ pendingSeed' \in {pendingSeed, TRUE}
              /\ pendingSeed' => pendingSeed \/ current = None \/ manual
          BY <2>1, <2>5, <3>2
        <4>2. pendingSeed' \in BOOLEAN
          BY <1>0, <4>1 DEF AuthorityTypeOK
        <4>3. AuthorityTypeOK'
          BY <1>0, <2>1, <2>3, <4>1, <4>2 DEF AuthorityTypeOK
        <4>4. SeedIsWanted'
          BY <1>0, <4>1 DEF SeedIsWanted
        <4> QED BY <1>0, <2>1, <2>3, <4>1, <4>3, <4>4 DEF TargetIsNear, UsesAligned
      <3> QED BY <3>1, <3>2
    <2>7. TypeOK'
      BY <1>0, <2>1, <2>4, <2>6 DEF TypeOK
    <2>8. SuccessIsAligned' /\ StatusIsAligned'
      BY <1>0, <2>1, <2>3, <2>4 DEF SuccessIsAligned, StatusIsAligned, Aligned
    <2> QED BY <2>6, <2>7, <2>8 DEF IInv
  <1> QED BY <1>1, <1>2
LEMMA WindowKeeps ==
  ASSUME AuthorityTypeOK, NEW t \in Transforms, NEW restart \in BOOLEAN
  PROVE  /\ Window(t, restart) \in Seq(Transforms) /\ Len(Window(t, restart)) <= WindowSize
         /\ \A i \in DOMAIN Window(t, restart) :
              \/ Window(t, restart)[i] = t
              \/ \E j \in DOMAIN candidates : Window(t, restart)[i] = candidates[j]
  <1> DEFINE w == IF restart THEN <<>> ELSE candidates
             s == IF Len(w) < WindowSize THEN w ELSE Tail(w)
  <1>0. candidates \in Seq(Transforms) /\ Len(candidates) <= WindowSize /\ WindowSize \in Nat /\ WindowSize > 0
    BY PriorMapTfConstants DEF AuthorityTypeOK
  <1>1. /\ w \in Seq(Transforms) /\ Len(w) <= WindowSize
        /\ \A i \in DOMAIN w : \E j \in DOMAIN candidates : w[i] = candidates[j]
    BY <1>0
  <1> HIDE DEF w
  <1>2. s \in Seq(Transforms) /\ Len(s) < WindowSize
    BY <1>0, <1>1
  <1>3. \A i \in DOMAIN s : \E j \in DOMAIN w : s[i] = w[j]
    BY <1>0, <1>1
  <1>4. Window(t, restart) = Append(s, t)
    BY DEF Window, w
  <1> HIDE DEF s
  <1>5. Append(s, t) \in Seq(Transforms) /\ Len(Append(s, t)) = Len(s) + 1
    BY <1>2
  <1>6. \A i \in DOMAIN Append(s, t) : Append(s, t)[i] = t \/ (i \in DOMAIN s /\ Append(s, t)[i] = s[i])
    BY <1>2
  <1> QED BY <1>0, <1>1, <1>2, <1>3, <1>4, <1>5, <1>6

LEMMA TimerActions ==
  ASSUME IInv,
         \/ ReadOdom \/ SettleTime
         \/ \E due \in BOOLEAN, progress \in {"stale", "partial", "arrive"} : PublishTimer(due, progress)
         \/ \E restart \in BOOLEAN, outcome \in {"move", "deadband", "noisy", "limited"} :
              AmclReports(restart, outcome)
  PROVE  IInv'
  <1>0. /\ TypeOK /\ AuthorityTypeOK /\ SeedIsWanted /\ TargetIsNear /\ SuccessIsAligned /\ StatusIsAligned
        /\ UsesAligned
        /\ heard \in 0..given /\ bridged \in 0..given /\ loc.taken <= bridged
        /\ tracks \in Transforms \cup {None}
    BY DEF IInv, TypeOK
  <1>1. CASE ReadOdom
    <2>1. /\ UNCHANGED <<given, bridged, heard, loc, tfUnread, statuses, tracks, overtaken>>
          /\ UNCHANGED <<current, known, allowed, pendingSeed, manual, attempts, settling, candidates, target>>
          /\ odom' = TRUE /\ amclSeed' \in {current, amclSeed} /\ waitingOdom' \in {FALSE, waitingOdom}
      BY <1>1 DEF ReadOdom, OnOdom, operator, seeding
    <2>2. AuthorityTypeOK'
      BY <1>0, <2>1 DEF AuthorityTypeOK
    <2>3. SeedIsWanted' /\ TargetIsNear' /\ UsesAligned'
      BY <1>0, <2>1 DEF SeedIsWanted, TargetIsNear, UsesAligned
    <2> QED BY <1>0, <2>1, <2>2, <2>3, AuthorityFrame
  <1>2. CASE SettleTime
    <2>1. /\ UNCHANGED <<given, bridged, heard, loc, tfUnread, statuses, tracks, overtaken>>
          /\ UNCHANGED <<current, known, allowed, pendingSeed, manual, amclSeed, waitingOdom, attempts, candidates, target, odom>>
          /\ settling' = FALSE
      BY <1>2 DEF SettleTime, Settled, operator, seeding
    <2>2. AuthorityTypeOK'
      BY <1>0, <2>1 DEF AuthorityTypeOK
    <2>3. SeedIsWanted' /\ TargetIsNear' /\ UsesAligned'
      BY <1>0, <2>1 DEF SeedIsWanted, TargetIsNear, UsesAligned
    <2> QED BY <1>0, <2>1, <2>2, <2>3, AuthorityFrame
  <1>3. ASSUME NEW due \in BOOLEAN, NEW progress \in {"stale", "partial", "arrive"}, PublishTimer(due, progress)
        PROVE  IInv'
    <2>1. /\ UNCHANGED <<given, bridged, heard, loc, tfUnread, statuses, overtaken>>
          /\ tracks' \in {tracks, amclSeed}
          /\ UNCHANGED <<known, allowed, pendingSeed, manual, amclSeed, waitingOdom, candidates, odom>>
      BY <1>3 DEF PublishTimer, OnPublishTimer, operator
    <2>2. /\ attempts' \in 0..SeedAttempts /\ settling' \in BOOLEAN
      <3>1. SeedAttempts \in Nat /\ attempts \in 0..SeedAttempts /\ settling \in BOOLEAN
        BY <1>0, PriorMapTfConstants DEF AuthorityTypeOK
      <3>2. CASE SeedDue /\ due
        <4>1. attempts < SeedAttempts /\ attempts' = attempts + 1 /\ settling' = TRUE
          BY <1>3, <3>2 DEF PublishTimer, OnPublishTimer, PublishAmclSeed, SeedDue
        <4> QED BY <3>1, <4>1
      <3>3. CASE ~(SeedDue /\ due)
        BY <1>3, <3>1, <3>3 DEF PublishTimer, OnPublishTimer, PublishAmclSeed
      <3> QED BY <3>2, <3>3
    <2>3. \/ current' = current /\ target' \in {target, None}
          \/ target # None /\ current' = target /\ target' \in {target, None}
      BY <1>3 DEF PublishTimer, OnPublishTimer, ApplyCorrectionTarget
    <2>4. AuthorityTypeOK'
      BY <1>0, <2>1, <2>2, <2>3 DEF AuthorityTypeOK
    <2>5. SeedIsWanted' /\ TargetIsNear'
      <3>1. CASE current' = current /\ target' \in {target, None}
        BY <1>0, <2>1, <3>1 DEF SeedIsWanted, TargetIsNear
      <3>2. CASE target # None /\ current' = target /\ target' \in {target, None}
        BY <1>0, <2>1, <3>2 DEF SeedIsWanted, TargetIsNear
      <3> QED BY <2>3, <3>1, <3>2
    <2>6. UsesAligned'
      BY <1>0, <2>1, <2>3 DEF UsesAligned
    <2>7. tracks' \in Transforms \cup {None}
      BY <1>0, <2>1 DEF AuthorityTypeOK
    <2> QED BY <1>0, <2>1, <2>4, <2>5, <2>6, <2>7, AuthorityFrame
  <1>4. ASSUME NEW restart \in BOOLEAN, NEW outcome \in {"move", "deadband", "noisy", "limited"},
               AmclReports(restart, outcome)
        PROVE  IInv'
    <2>1. /\ UNCHANGED <<given, bridged, heard, loc, tfUnread, statuses, tracks, overtaken>>
          /\ tracks # None /\ OnAmclPose(tracks, restart, outcome)
      BY <1>4 DEF AmclReports, operator
    <2>2. CASE Usable(tracks)
      <3>1. /\ amclSeed' = None /\ candidates' = Window(tracks, restart)
            /\ target' \in {target, None, tracks}
            /\ UNCHANGED <<current, known, allowed, pendingSeed, manual, waitingOdom, attempts, settling, odom>>
        BY <2>1, <2>2 DEF OnAmclPose, NextTarget, seeding
      <3>2. tracks \in Transforms /\ (~overtaken => tracks # Unaligned)
        BY <1>0, <2>1 DEF UsesAligned
      <3>3. /\ candidates' \in Seq(Transforms) /\ Len(candidates') <= WindowSize
            /\ ~overtaken => \A i \in DOMAIN candidates' : candidates'[i] # Unaligned
        BY <1>0, <3>1, <3>2, WindowKeeps DEF UsesAligned
      <3>4. AuthorityTypeOK'
        BY <1>0, <3>1, <3>2, <3>3 DEF AuthorityTypeOK
      <3>5. SeedIsWanted' /\ TargetIsNear'
        BY <1>0, <2>2, <3>1 DEF SeedIsWanted, TargetIsNear, Usable
      <3>6. UsesAligned'
        BY <1>0, <2>1, <3>1, <3>2, <3>3 DEF UsesAligned
      <3> QED BY <1>0, <2>1, <3>1, <3>4, <3>5, <3>6, AuthorityFrame
    <2>3. CASE ~Usable(tracks)
      <3>1. /\ UNCHANGED <<current, known, allowed, pendingSeed, manual>>
            /\ UNCHANGED <<amclSeed, waitingOdom, attempts, settling, candidates, target, odom>>
        BY <2>1, <2>3 DEF OnAmclPose, authority, seeding, amcl
      <3>2. AuthorityTypeOK'
        BY <1>0, <3>1 DEF AuthorityTypeOK
      <3>3. SeedIsWanted' /\ TargetIsNear' /\ UsesAligned'
        BY <1>0, <2>1, <3>1 DEF SeedIsWanted, TargetIsNear, UsesAligned
      <3> QED BY <1>0, <2>1, <3>1, <3>2, <3>3, AuthorityFrame
    <2> QED BY <2>2, <2>3
  <1> QED BY <1>1, <1>2, <1>3, <1>4

LEMMA InitIInv == Init => IInv
  <1> SUFFICES ASSUME Init PROVE IInv
    OBVIOUS
  <1>1. Start \in LocalizerType /\ Start.taken = 0 /\ ~Start.success /\ Start.offset = Unaligned
    BY LocalizerConstants, MapLocalizationConstants DEF Start, LocalizerType, LocStates, Transforms
  <1>2. AuthorityTypeOK
    <2>1. /\ 0 \in 0..SeedAttempts /\ WindowSize \in Nat
          /\ <<>> \in Seq(Transforms) /\ Len(<<>>) = 0
      BY PriorMapTfConstants
    <2>2. current = None /\ known = None /\ amclSeed = None /\ target = None /\ candidates = <<>> /\ attempts = 0
      BY DEF Init, AuthorityInit
    <2>3. {allowed, pendingSeed, manual, waitingOdom, settling, odom} \subseteq BOOLEAN
      BY DEF Init, AuthorityInit
    <2>4. {current, known, amclSeed, target} \subseteq Transforms \cup {None}
      BY <2>2
    <2>5. candidates \in Seq(Transforms) /\ Len(candidates) <= WindowSize /\ attempts \in 0..SeedAttempts
      BY <2>1, <2>2, PriorMapTfConstants
    <2> QED BY <2>3, <2>4, <2>5 DEF AuthorityTypeOK
  <1>3. statuses \in Seq(StatusType) /\ Len(statuses) = 0 /\ statuses = <<>> /\ loc = Start
    BY DEF Init
  <1>4. TypeOK
    <2>1. given = 0 /\ heard = 0 /\ bridged = 0 /\ tfUnread = FALSE /\ tracks = None
      BY DEF Init
    <2>2. MaxPoses \in Nat /\ StatusDepth \in Nat
      BY MapLocalizationConstants
    <2>3. given \in 0..MaxPoses /\ heard \in 0..given /\ bridged \in 0..given
      BY <2>1, <2>2
    <2>4. loc \in LocalizerType /\ loc.taken <= bridged /\ Len(statuses) <= StatusDepth
      BY <1>1, <1>3, <2>1, <2>2
    <2>5. tfUnread \in BOOLEAN /\ overtaken \in BOOLEAN /\ tracks \in Transforms \cup {None}
      BY <2>1 DEF Init
    <2> QED BY <1>2, <1>3, <2>3, <2>4, <2>5 DEF TypeOK
  <1>5. SeedIsWanted /\ TargetIsNear /\ UsesAligned
    BY DEF Init, AuthorityInit, SeedIsWanted, TargetIsNear, UsesAligned
  <1>6. SuccessIsAligned /\ StatusIsAligned
    BY <1>1, <1>3 DEF Init, AuthorityInit, SuccessIsAligned, StatusIsAligned, Aligned
  <1> QED BY <1>4, <1>5, <1>6 DEF IInv

LEMMA NextIInv == IInv /\ [Next]_vars => IInv'
  <1> SUFFICES ASSUME IInv, [Next]_vars PROVE IInv'
    OBVIOUS
  <1>1. CASE Next
    BY <1>1, OperatorActions, LocalizerActions, ReadActions, TimerActions DEF Next
  <1>2. CASE UNCHANGED vars
    <2>1. /\ UNCHANGED <<authority, given, bridged, heard, tracks, overtaken>>
          /\ UNCHANGED <<loc, tfUnread, statuses>>
      BY <1>2 DEF vars, operator
    <2>2. loc \in LocalizerType /\ loc.taken <= bridged /\ tfUnread \in BOOLEAN
      BY DEF IInv, TypeOK
    <2> QED BY <2>1, <2>2, LocalizerStep
  <1> QED BY <1>1, <1>2

(* The types of the nodes, their topics and counters, for all bounds.      *)
THEOREM MapTypeCorrect == Spec => []TypeOK
  <1>1. IInv => TypeOK
    BY DEF IInv
  <1> QED BY <1>1, InitIInv, NextIInv, PTL DEF Spec

(* What the authority publishes is an alignment of the localizer, unless   *)
(* a status that seeds it has overtaken the transform it belongs to.       *)
THEOREM PublishesAligned == Spec => []CurrentWasAligned
  <1>1. IInv => CurrentWasAligned
    BY DEF IInv, UsesAligned, CurrentWasAligned
  <1> QED BY <1>1, InitIInv, NextIInv, PTL DEF Spec

LEMMA StepNoJump ==
  ASSUME IInv, [Next]_vars, current # None, current' # current
  PROVE  manual \/ Near(current, current')
  <1>0. SeedIsWanted /\ TargetIsNear
    BY DEF IInv
  <1>1. CASE ReadTransform
    BY <1>0, <1>1 DEF ReadTransform, OnLocalizerTransform, Activate, SeedIsWanted
  <1>2. CASE ReadStatus
    BY <1>0, <1>2 DEF ReadStatus, OnLocalizerStatus, ShouldActivate
  <1>3. ASSUME NEW due \in BOOLEAN, NEW progress \in {"stale", "partial", "arrive"}, PublishTimer(due, progress)
        PROVE  manual \/ Near(current, current')
    BY <1>0, <1>3 DEF PublishTimer, OnPublishTimer, ApplyCorrectionTarget, TargetIsNear
  <1>4. CASE UNCHANGED vars \/ UNCHANGED authority
    BY <1>4 DEF vars, authority, seeding
  <1>5. CASE AuthorityHears \/ ReadOdom \/ SettleTime
    BY <1>5 DEF AuthorityHears, OnInitialPose, ReadOdom, OnOdom, SettleTime, Settled, seeding
  <1>6. ASSUME NEW restart \in BOOLEAN, NEW outcome \in {"move", "deadband", "noisy", "limited"},
               AmclReports(restart, outcome)
        PROVE  manual \/ Near(current, current')
    BY <1>6 DEF AmclReports, OnAmclPose, seeding, authority
  <1>7. ASSUME \/ InitialPose \/ BridgeHears \/ Relocalize \/ RelocalizeRefused \/ SyncCB \/ InputsStop \/ GraceEnds
               \/ \E good \in BOOLEAN : GlobalRelocCB(good)
               \/ \E report, send \in BOOLEAN, work \in {"none", "sparse", "good", "bad"} : TimerCB(report, work, send)
        PROVE  UNCHANGED authority
    BY <1>7 DEF InitialPose, BridgeHears, Relocalize, RelocalizeRefused, SyncCB, InputsStop, GraceEnds,
                GlobalRelocCB, TimerCB
  <1> QED BY <1>1, <1>2, <1>3, <1>4, <1>5, <1>6, <1>7 DEF Next

(* Neither a background recovery of the localizer nor an AMCL estimate     *)
(* moves the transform by more than the gate.                              *)
THEOREM NeverJumps == Spec => NoJump
  <1>1. IInv /\ [Next]_vars => [current # None /\ current' # current => manual \/ Near(current, current')]_current
    BY StepNoJump
  <1> QED BY <1>1, InitIInv, NextIInv, PTL DEF Spec, NoJump
=============================================================================
