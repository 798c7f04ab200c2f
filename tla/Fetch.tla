------------------------------- MODULE Fetch -------------------------------
(***************************************************************************)
(* What Downloader.Run promises to the puller, for the runs that fetch     *)
(* into one directory: it ends well only when every file lies there        *)
(* complete, and a complete directory stays complete.  The promise is void *)
(* for a run that had company, that is another run or somebody who deletes *)
(* the directory, and from then on for the whole directory once two runs   *)
(* have been in it at the same time, until it is deleted.                  *)
(***************************************************************************)
CONSTANT Runs

VARIABLES phase,    \* of each run
          company,  \* the run has not been alone
          shared,   \* two runs have been in the directory at the same time
          full      \* every file lies complete in the directory

vars == <<phase, company, shared, full>>

Running == {r \in Runs : phase[r] = "running"}

Init ==
    /\ phase = [r \in Runs |-> "idle"]
    /\ company = [r \in Runs |-> FALSE]
    /\ shared = FALSE
    /\ full \in BOOLEAN

Returns(r, result) ==
    /\ phase' = [phase EXCEPT ![r] = result]
    /\ company' = [company EXCEPT ![r] = FALSE]
    /\ UNCHANGED <<shared, full>>

Start(r) ==
    /\ phase[r] # "running"
    /\ phase' = [phase EXCEPT ![r] = "running"]
    /\ company' = [i \in Runs |->
           IF i = r THEN Running # {} ELSE company[i] \/ i \in Running]
    /\ shared' = (shared \/ Running # {})
    /\ UNCHANGED full

Work ==
    /\ Running # {}
    /\ full' \in BOOLEAN
    /\ full /\ ~shared => full'
    /\ UNCHANGED <<phase, company, shared>>

EndsWell(r) ==
    /\ r \in Running
    /\ full \/ shared \/ company[r]
    /\ Returns(r, "ok")

EndsBadly(r) == r \in Running /\ Returns(r, "failed")

\* A delete of the directory, by whoever it is, takes files away; with the
\* directory goes what two runs have made of it.
Delete ==
    /\ company' = [r \in Runs |-> company[r] \/ r \in Running]
    /\ shared' \in {shared, shared /\ \E r, s \in Running : r # s}
    /\ full' = FALSE
    /\ UNCHANGED phase

Crash ==
    /\ phase' = [r \in Runs |-> "idle"]
    /\ company' = [r \in Runs |-> FALSE]
    /\ UNCHANGED <<shared, full>>

Next == \/ Work \/ Delete \/ Crash
        \/ \E r \in Runs : Start(r) \/ EndsWell(r) \/ EndsBadly(r)

Spec == Init /\ [][Next]_vars
=============================================================================
