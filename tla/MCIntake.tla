------------------------------ MODULE MCIntake ------------------------------
(* Two requests at a time, one release of each kind, a pool with room. *)
EXTENDS Intake

FirstJob == {1}
TwoJobs == {1, 2}
TwoHandlers == {"h1", "h2"}
OneNzb == {"nzb"}
OneMagnet == {"magnet"}
=============================================================================
