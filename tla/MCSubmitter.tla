---------------------------- MODULE MCSubmitter ----------------------------
(* Three jobs for two workers; somebody else has the release of
   the second, and the last has nothing to send. *)
EXTENDS Submitter

ThreeJobs == {1, 2, 3}
FirstJob == {1}
SecondJob == {2}
LastJob == {3}
=============================================================================
