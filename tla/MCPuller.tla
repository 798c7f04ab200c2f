------------------------------ MODULE MCPuller ------------------------------
(***************************************************************************)
(* Instances of Puller for TLC.  The single job has a crash and every      *)
(* history of delete requests; the three jobs compete for a pool of two.   *)
(***************************************************************************)
EXTENDS Puller

OneJob == {1}
TwoJobs == {1, 2}
ThreeJobs == {1, 2, 3}
NoJobs == {}
=============================================================================
