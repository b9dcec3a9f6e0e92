---------------------------- MODULE PriorMapTf -----------------------------
(***************************************************************************)
(* The owner of map->odom (prior_map_tf_authority.py): it takes the        *)
(* localizer's transform once as a seed, hands that seed to AMCL and then  *)
(* follows AMCL's estimates in small steps, until an operator asks for a   *)
(* new pose.                                                               *)
(*                                                                         *)
(* Transforms are told apart by their epoch (Localizer).  Near holds of    *)
(* two epochs whose transforms differ by less than the jump gate           *)
(* (max_target_base_jump_m, max_target_yaw_jump_rad).  The state label,    *)
(* diagnostics and residuals are left out, and an AMCL pose rejected for   *)
(* its covariance or odometry skew changes nothing that is kept.           *)
(***************************************************************************)
EXTENDS Integers, Sequences

CONSTANTS
  Near(_, _),
  WindowSize,      \* amcl_candidate_window_size
  MinSamples,      \* amcl_min_consistent_samples
  SeedAttempts     \* amcl_seed_max_attempts

ASSUME PriorMapTfConstants ==
  /\ {WindowSize, MinSamples, SeedAttempts} \subseteq Nat \ {0}
  /\ MinSamples <= WindowSize

None == 0 - 2

VARIABLES
  current,         \* current_map_to_odom
  known,           \* localizer_map_to_odom
  allowed,         \* localizer_allowed
  pendingSeed,     \* pending_localizer_seed
  manual,          \* manual_relocalization_pending
  amclSeed,        \* pending_amcl_seed
  waitingOdom,     \* waiting_odom_for_seed
  attempts,        \* amcl_seed_attempts
  settling,        \* now < ignore_amcl_until
  candidates,      \* amcl_candidates
  target,          \* correction_target_map_to_odom
  odom             \* odom_history is not empty

seeding == <<current, known, allowed, pendingSeed, manual>>
amcl    == <<amclSeed, waitingOdom, attempts, settling, candidates, target, odom>>
authority == <<seeding, amcl>>

AuthorityInit ==
  /\ current = None /\ known = None /\ allowed = FALSE
  /\ pendingSeed = FALSE /\ manual = FALSE
  /\ amclSeed = None /\ waitingOdom = FALSE /\ attempts = 0 /\ settling = FALSE
  /\ candidates = <<>> /\ target = None /\ odom = FALSE

TfActive == current # None /\ ~manual

----------------------------------------------------------------------------
(* try_activate_localizer_seed on the localizer's latest transform t, and  *)
(* prepare_amcl_seed.                                                      *)
Activate(t) ==
  /\ current' = t
  /\ pendingSeed' = FALSE
  /\ manual' = FALSE
  /\ amclSeed' = IF odom THEN t ELSE None
  /\ waitingOdom' = ~odom
  /\ attempts' = 0
  /\ settling' = TRUE
  /\ candidates' = <<>>
  /\ target' = None
  /\ UNCHANGED odom

ShouldActivate_anyStatus(may, accepted) ==     \* mutant: the first status seeds
  current = None \/ (may /\ manual /\ accepted)

(* should_activate_localizer_seed                                          *)
ShouldActivate(may, accepted) == may /\ (current = None \/ (manual /\ accepted))

OnLocalizerStatus_edge(may, accepted) ==     \* mutant: only when the state changes
  /\ allowed' = may
  /\ UNCHANGED known
  /\ IF ShouldActivate(may, accepted) /\ ~allowed /\ known # None
     THEN Activate(known)
     ELSE UNCHANGED <<current, pendingSeed, manual, amcl>>

OnLocalizerStatus(may, accepted) ==
  /\ allowed' = may
  /\ UNCHANGED known
  /\ IF ShouldActivate(may, accepted)
     THEN IF known # None
          THEN Activate(known)
          ELSE pendingSeed' = TRUE /\ UNCHANGED <<current, manual, amcl>>
     ELSE UNCHANGED <<current, pendingSeed, manual, amcl>>

OnLocalizerTransform(t) ==
  /\ known' = t
  /\ UNCHANGED allowed
  /\ IF pendingSeed /\ allowed
     THEN Activate(t)
     ELSE UNCHANGED <<current, pendingSeed, manual, amcl>>

OnInitialPose ==
  /\ manual' = TRUE
  /\ pendingSeed' = FALSE
  /\ amclSeed' = None
  /\ target' = None
  /\ candidates' = <<>>
  /\ UNCHANGED <<current, known, allowed, waitingOdom, attempts, settling, odom>>

OnOdom ==
  /\ odom' = TRUE
  /\ IF current # None /\ waitingOdom
     THEN amclSeed' = current /\ waitingOdom' = FALSE
     ELSE UNCHANGED <<amclSeed, waitingOdom>>
  /\ UNCHANGED <<seeding, attempts, settling, candidates, target>>

(* ignore_amcl_until passes.                                               *)
Settled == settling /\ settling' = FALSE /\ UNCHANGED <<seeding, amclSeed, waitingOdom, attempts, candidates, target, odom>>

----------------------------------------------------------------------------
(* The window after one more sample; restart: amcl_window_reset_s passed.  *)
Window(t, restart) ==
  LET w == IF restart THEN <<>> ELSE candidates
      s == IF Len(w) < WindowSize THEN w ELSE Tail(w)
  IN  Append(s, t)

Agree(w) == \A i \in 1..Len(w) : w[i] = w[Len(w)]

Usable(t) == current # None /\ ~manual /\ ~settling /\ odom /\ Near(current, t)

(* The correction target after a window w that ends in t: none while it is *)
(* unstable or inside the deadband, and the old one while the window fills *)
(* or the last target is younger than min_correction_interval_s.           *)
NextTarget(t, w, outcome) ==
  IF Len(w) < MinSamples THEN target
  ELSE IF ~Agree(w) \/ outcome = "noisy" THEN None
  ELSE IF outcome = "deadband" /\ t = current THEN None
  ELSE IF outcome = "limited" THEN target
  ELSE t

OnAmclPose_anyJump(t, restart, outcome) ==     \* mutant: no jump gate
  /\ current # None /\ ~manual /\ ~settling /\ odom
  /\ amclSeed' = None
  /\ candidates' = Window(t, restart)
  /\ target' = NextTarget(t, candidates', outcome)
  /\ UNCHANGED <<seeding, waitingOdom, attempts, settling, odom>>

(* An estimate that arrives while it cannot be used changes nothing.       *)
OnAmclPose(t, restart, outcome) ==
  IF Usable(t)
  THEN /\ amclSeed' = None
       /\ candidates' = Window(t, restart)
       /\ target' = NextTarget(t, candidates', outcome)
       /\ UNCHANGED <<seeding, waitingOdom, attempts, settling, odom>>
  ELSE UNCHANGED authority

----------------------------------------------------------------------------
SeedDue == amclSeed # None /\ attempts < SeedAttempts

(* publish_amcl_seed_if_needed: due says that the retry period has passed  *)
(* and AMCL listens.                                                       *)
PublishAmclSeed(due) ==
  IF SeedDue /\ due
  THEN attempts' = attempts + 1 /\ settling' = TRUE
  ELSE UNCHANGED <<attempts, settling>>

(* apply_correction_target: the target is dropped when AMCL is stale or    *)
(* when it is reached; until then the transform moves towards it.          *)
ApplyCorrectionTarget(progress) ==
  IF target = None \/ ~odom \/ progress = "partial" THEN UNCHANGED <<current, target>>
  ELSE IF progress = "stale" THEN target' = None /\ UNCHANGED current
  ELSE current' = target /\ target' = IF target = current THEN None ELSE target

OnPublishTimer(due, progress) ==
  /\ PublishAmclSeed(due)
  /\ ApplyCorrectionTarget(progress)
  /\ UNCHANGED <<known, allowed, pendingSeed, manual, amclSeed, waitingOdom, candidates, odom>>
=============================================================================
