------------------------------ MODULE JobState ------------------------------
(***************************************************************************)
(* The states of a job and the table of internal/job/state.go that says    *)
(* which state may follow which.                                           *)
(***************************************************************************)

ActiveStates == {"NEW", "SUBMITTED", "DOWNLOADING", "COMPLETED_TORBOX"}
Terminal == {"READY", "FAILED", "CANCELED"}
JobStates == ActiveStates \cup Terminal

Successors(from) ==
    CASE from = "NEW"              -> {"SUBMITTED", "FAILED", "CANCELED"}
      [] from = "SUBMITTED"        -> {"DOWNLOADING", "COMPLETED_TORBOX", "FAILED", "CANCELED"}
      [] from = "DOWNLOADING"      -> {"COMPLETED_TORBOX", "FAILED", "CANCELED"}
      [] from = "COMPLETED_TORBOX" -> {"READY", "FAILED", "CANCELED"}
      [] OTHER                     -> {}

CanTransition(from, to) == to \in Successors(from)
=============================================================================
