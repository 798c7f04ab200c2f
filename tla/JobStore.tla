------------------------------ MODULE JobStore ------------------------------
(***************************************************************************)
(* The job table of internal/store: one SQLite connection, so each         *)
(* statement is atomic.  Every operator below is one statement (or one     *)
(* transaction) and returns the table it leaves behind.                    *)
(*                                                                         *)
(* Timestamps are kept relative to now: a countdown until an instant that  *)
(* lies ahead, a saturating count since an instant that lies behind.       *)
(***************************************************************************)
EXTENDS JobState, Integers, FiniteSets

CONSTANTS Jobs,        \* nzo_ids, numbered in the order of created_at
          LeaseTicks,  \* how long a claim keeps a row from being claimed again
          ClockCap     \* where the two ages stop counting

ASSUME JobsAssumption == Jobs \subseteq Nat /\ IsFiniteSet(Jobs)
ASSUME StoreClockAssumption == LeaseTicks \in Nat \ {0} /\ ClockCap \in Nat

VARIABLE rows

\* "NONE" is the state of a job that has no row.
Row == [state    : JobStates \cup {"NONE"},
        attempts : Nat,
        wait     : Nat,      \* ticks until next_attempt_at, 0 when NULL or past
        lease    : Nat,      \* ticks until claimed_at is stale, 0 when NULL or stale
        local    : BOOLEAN,  \* local_path is set
        id       : {"none", "queue", "active"},  \* what EffectiveTorboxID finds
        folder   : BOOLEAN,  \* torbox_folder_name is set
        bytes    : Nat,      \* bytes_downloaded
        idle     : Nat,      \* ticks since updated_at
        age      : Nat]      \* ticks since submitted_at

NoRow == [state |-> "NONE", attempts |-> 0, wait |-> 0, lease |-> 0, local |-> FALSE,
          id |-> "none", folder |-> FALSE, bytes |-> 0, idle |-> 0, age |-> 0]

Exists(j) == rows[j].state # "NONE"
Ended(j) == rows[j].state \in Terminal

\* UPDATE jobs SET ..., updated_at = now WHERE nzo_id = j, as row r.
Update(j, r) == IF Exists(j) THEN [rows EXCEPT ![j] = [r EXCEPT !.idle = 0]] ELSE rows

-----------------------------------------------------------------------------
\* Mutant: the table is consulted, the row is not.
AppliesToAny(j, from, to) == CanTransition(from, to) /\ Exists(j)

\* The compare-and-swap of Transition succeeds.
Applies(j, from, to) == CanTransition(from, to) /\ rows[j].state = from

\* Transition(From, To) on a row whose optional columns the caller set in r.
Transition(j, from, to, r) ==
    IF Applies(j, from, to)
    THEN Update(j, [r EXCEPT !.state = to,
                             !.wait  = 0,
                             !.age   = IF to = "SUBMITTED" THEN 0 ELSE @])
    ELSE rows

\* Mutant: READY is written whatever state the row is in by now.
MarkLocalReadyUnguarded(j) ==
    Update(j, [rows[j] EXCEPT !.state = "READY", !.local = TRUE, !.wait = 0, !.lease = 0])

\* Mutant: only the state is written.
MarkLocalReadyStateOnly(j) ==
    IF rows[j].state = "COMPLETED_TORBOX"
    THEN Update(j, [rows[j] EXCEPT !.state = "READY", !.wait = 0, !.lease = 0])
    ELSE rows

\* The local path and READY are written together or not at all.
MarkLocalReady(j) ==
    IF rows[j].state = "COMPLETED_TORBOX"
    THEN Update(j, [rows[j] EXCEPT !.state = "READY", !.local = TRUE,
                                   !.wait = 0, !.lease = 0])
    ELSE rows

\* These three never look at the state of the row.
AttemptFailure(j, ticks) ==
    Update(j, [rows[j] EXCEPT !.attempts = @ + 1, !.wait = ticks, !.lease = 0])
Reschedule(j, ticks) == Update(j, [rows[j] EXCEPT !.wait = ticks, !.lease = 0])
Release(j) == Update(j, [rows[j] EXCEPT !.lease = 0])

SetLocalProgress(j, n) == Update(j, [rows[j] EXCEPT !.bytes = n])
SetTorboxIDs(j, id) == Update(j, [rows[j] EXCEPT !.id = id, !.folder = TRUE])

Delete(j) == [rows EXCEPT ![j] = NoRow]

-----------------------------------------------------------------------------
\* ORDER BY created_at ASC LIMIT n
Oldest(S, n) == {j \in S : Cardinality({i \in S : i < j}) < n}

DueIn(state) == {j \in Jobs : rows[j].state = state /\ rows[j].wait = 0}

ListDueByStates(state, n) == Oldest(DueIn(state), n)
ListByStates(states) == {j \in Jobs : rows[j].state \in states}

Claimable == {j \in DueIn("NEW") : rows[j].lease = 0}
Claim(S) == [j \in Jobs |->
    IF j \in S THEN [rows[j] EXCEPT !.lease = LeaseTicks, !.idle = 0] ELSE rows[j]]

-----------------------------------------------------------------------------
\* One tick of the clock, as every row sees it.
\* Mutant: an instant that has passed moves away again.
CountDownOn(n) == n - 1

CountDown(n) == IF n > 0 THEN n - 1 ELSE 0
CountUp(n) == IF n < ClockCap THEN n + 1 ELSE n

\* Nothing reads the ages of a job outside TorBox's hands, nor any clock of a
\* job that has ended.
Age(r, n) == IF r.state \in {"SUBMITTED", "DOWNLOADING"} THEN CountUp(n) ELSE n


Older(r) == [r EXCEPT !.wait = CountDown(@), !.lease = CountDown(@),
                      !.idle = Age(r, @), !.age = Age(r, @)]
AgedRows == [j \in Jobs |->
    IF rows[j].state \in ActiveStates THEN Older(rows[j]) ELSE rows[j]]

\* The states of the rows, as Lifecycle sees them.
LC == INSTANCE Lifecycle WITH state <- [j \in Jobs |-> rows[j].state]

RowsOK == rows \in [Jobs -> Row]
=============================================================================
