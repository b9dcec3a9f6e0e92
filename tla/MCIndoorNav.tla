---------------------------- MODULE MCIndoorNav ----------------------------
(* IndoorNav with the grace periods the .cfg gives. *)
EXTENDS IndoorNav
=============================================================================
