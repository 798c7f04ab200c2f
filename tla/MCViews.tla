------------------------------ MODULE MCViews ------------------------------
(* Four jobs for two lists of two: each list may be too short. *)
EXTENDS Views

FourIds == 1..4
=============================================================================
