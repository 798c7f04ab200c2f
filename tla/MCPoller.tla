------------------------------ MODULE MCPoller ------------------------------
(* Jobs 1 and 2 race in one pass; job 2 is in the torrent list. *)
EXTENDS Poller

OneJob == {1}
TwoJobs == {1, 2}
SecondJob == {2}
NoJobs == {}
=============================================================================
