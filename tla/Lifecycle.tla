----------------------------- MODULE Lifecycle -----------------------------
(***************************************************************************)
(* What a job promises to the programs that watch it: its state moves      *)
(* along the table of JobState, a job that has ended never comes back, and *)
(* only a job that has ended leaves the job table.  "NONE" stands for a    *)
(* job that has no row.                                                    *)
(*                                                                         *)
(* The detailed modules implement this specification with                  *)
(* state <- [j \in Jobs |-> rows[j].state].  The delete of the qBittorrent  *)
(* side does not: it drops active jobs (see Intake).                       *)
(***************************************************************************)
EXTENDS JobState

CONSTANT Jobs

VARIABLE state

\* The program may start on the job table an earlier run left behind.
Init == state \in [Jobs -> JobStates \cup {"NONE"}]

Insert(j) == state[j] = "NONE" /\ state' = [state EXCEPT ![j] = "NEW"]

Move(j) == \E to \in JobStates :
    CanTransition(state[j], to) /\ state' = [state EXCEPT ![j] = to]

Drop(j) == state[j] \in Terminal /\ state' = [state EXCEPT ![j] = "NONE"]

Next == \E j \in Jobs : Insert(j) \/ Move(j) \/ Drop(j)

Spec == Init /\ [][Next]_state
=============================================================================
