----------------------------- MODULE Localizer -----------------------------
(***************************************************************************)
(* The prior-map localizer (localizer_node.cpp) as a function of its own   *)
(* state: every operator takes the node's state, a record, and gives the   *)
(* state after the code it is named for.  One thread spins the node, so    *)
(* MapLocalization takes each callback as one step.                        *)
(*                                                                         *)
(* A transform is known by its epoch: the number of manual poses the       *)
(* localizer had taken when it was computed.  Whether an alignment         *)
(* succeeds is the caller's choice.  continuous_icp is FALSE, as the       *)
(* launch has it, so that the runtime correction is never reached.         *)
(***************************************************************************)
EXTENDS Integers

CONSTANTS
  MaxAttempts,     \* global_max_automatic_attempts
  MaxFailures      \* max_consecutive_failures

ASSUME LocalizerConstants == {MaxAttempts, MaxFailures} \subseteq Nat \ {0}

Unaligned == 0 - 1             \* the offset before any alignment: identity

(* success: localize_success; requested: service_received; accepted: the   *)
(* reason is relocalization_accepted; fresh: the input is not older than   *)
(* max_tf_input_age_s; trusted: last_trusted_stamp is within the grace.    *)
LocStates ==
  {"MAP_LOADED", "WAITING_FOR_SENSORS", "LOCALIZED", "DEGRADED", "RELOCALIZING", "LOST"}

Start ==
  [success |-> FALSE, requested |-> FALSE, state |-> "MAP_LOADED", accepted |-> FALSE,
   offset |-> Unaligned, taken |-> 0, attempts |-> 0, failures |-> 0,
   received |-> FALSE, fresh |-> FALSE, trusted |-> FALSE]

HandleAlignmentFailure(l) ==
  LET failures == l.failures + 1
      keep     == l.success /\ failures < MaxFailures
  IN  [l EXCEPT !.failures  = IF failures < MaxFailures THEN failures ELSE MaxFailures,
                !.accepted  = FALSE,
                !.success   = keep,
                !.requested = keep /\ @,
                !.state     = IF keep THEN "DEGRADED" ELSE "LOST"]

ApplyAlignment(l) ==
  [l EXCEPT !.offset = l.taken, !.success = TRUE, !.requested = FALSE, !.state = "LOCALIZED",
            !.accepted = TRUE, !.failures = 0, !.attempts = 0, !.trusted = TRUE]

(* performGlobalRelocalization and the alignment of a manual pose.         *)
Align(l, good) ==
  IF good /\ l.fresh THEN ApplyAlignment(l) ELSE HandleAlignmentFailure(l)

(* publishStatus also changes the state it reports.                        *)
DegradeIfStale(l) ==
  IF l.success /\ ~(l.received /\ l.fresh)
  THEN [l EXCEPT !.state = "DEGRADED", !.accepted = FALSE]
  ELSE l

(* What the authority takes from a status: localized and sensors_ready,    *)
(* and the reason.                                                         *)
Status(l) ==
  [allowed  |-> /\ l.success /\ l.received /\ l.fresh
                /\ l.state = "LOCALIZED" \/ (l.state = "DEGRADED" /\ l.trusted),
   accepted |-> l.accepted]

SearchDue(l) == ~l.success /\ ~l.requested /\ l.attempts < MaxAttempts

(* The automatic search of timerCB, and a cloud too sparse for it.         *)
Search(l, good) == Align([l EXCEPT !.attempts = @ + 1], good)

SparseCloud(l) ==
  IF l.success THEN l ELSE [l EXCEPT !.state = "WAITING_FOR_SENSORS", !.accepted = FALSE]

(* timerCB's alignment of a manual pose; a stale input only delays it.     *)
AlignManual(l, good) == IF l.fresh THEN Align(l, good) ELSE l

RelocCB(l) ==
  [l EXCEPT !.taken = @ + 1, !.requested = TRUE, !.success = FALSE, !.state = "RELOCALIZING",
            !.accepted = FALSE, !.failures = 0, !.attempts = 0]
=============================================================================
