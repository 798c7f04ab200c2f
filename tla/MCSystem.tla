------------------------------ MODULE MCSystem ------------------------------
(* One torrent job on its way through all the loops. *)
EXTENDS System

OneJob == {1}
NoJobs == {}
=============================================================================
