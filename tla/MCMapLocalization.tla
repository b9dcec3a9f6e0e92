-------------------------- MODULE MCMapLocalization -------------------------
(***************************************************************************)
(* One manual pose after the automatic start, and it lies far away: enough *)
(* for a pose to arrive while a status or an estimate of the seed before   *)
(* it is still under way.                                                  *)
(***************************************************************************)
EXTENDS MapLocalization

NearEpochs(a, b) == a = b \/ (a >= 1 /\ b >= 1)
=============================================================================
