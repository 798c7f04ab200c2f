----------------------------- MODULE Submitter -----------------------------
(***************************************************************************)
(* internal/worker/submitter.go: the dispatcher claims NEW jobs and hands  *)
(* each to a goroutine that asks TorBox to create the download.            *)
(*                                                                         *)
(* TorBox is external, and its account is shared: it opens an entry, or    *)
(* refuses because of a rate or slot limit, or says that it has the        *)
(* release already without naming an id.  Its reply may be lost, and the   *)
(* program may end between a reply and the statement that records it.      *)
(***************************************************************************)
EXTENDS JobStore

CONSTANTS PoolSize,           \* Manager.Options.WorkerPoolSize
          MaxSubmitAttempts,
          BackoffTicks,       \* after a failed create
          LimitTicks,         \* after 429 or ACTIVE_LIMIT
          Empty,              \* jobs with neither blob nor magnet
          Foreign,            \* jobs whose release others of the account have
          Deletable,          \* bound of the model: jobs that may be canceled
          MaxLost,            \* bound of the model: lost replies of one job
          MaxCrashes          \* bound of the model

ASSUME SubmitterAssumption ==
    /\ {PoolSize, MaxSubmitAttempts, BackoffTicks, LimitTicks} \subseteq Nat \ {0}
    /\ {Empty, Foreign, Deletable} \subseteq SUBSET Jobs
    /\ {MaxLost, MaxCrashes} \subseteq Nat

VARIABLES sub,      \* the goroutine of each claimed job
          created,  \* TorBox: entries ever opened for each job
          lost,     \* accepted creates of each job whose reply was never used
          crashes

vars == <<rows, sub, created, lost, crashes>>

Idle == [pc |-> "none", attempts |-> 0, id |-> "none"]

Init ==
    /\ rows = [j \in Jobs |-> [NoRow EXCEPT !.state = "NEW"]]
    /\ sub = [j \in Jobs |-> Idle]
    /\ created = [j \in Jobs |-> 0]
    /\ lost = [j \in Jobs |-> 0]
    /\ crashes = 0

\* dispatchOnce waits for its goroutines, so the whole batch has come back.
CanDispatch == Claimable # {} /\ \A j \in Jobs : sub[j].pc = "none"

Dispatch ==
    LET batch == Oldest(Claimable, PoolSize) IN
    /\ CanDispatch
    /\ rows' = Claim(batch)
    /\ sub' = [j \in Jobs |->
           IF j \in batch THEN [Idle EXCEPT !.pc = "create", !.attempts = rows[j].attempts]
           ELSE Idle]
    /\ UNCHANGED <<created, lost, crashes>>

Return(j) == sub' = [sub EXCEPT ![j] = Idle]

-----------------------------------------------------------------------------
\* TorBox opens an entry, known by its queue id or by its id.
TorboxAccepts(j) ==
    /\ sub[j].pc = "create" /\ j \notin Empty
    /\ created' = [created EXCEPT ![j] = @ + 1]
    /\ \E id \in {"queue", "active"} :
        sub' = [sub EXCEPT ![j].pc = "accepted", ![j].id = id]
    /\ UNCHANGED <<rows, lost, crashes>>

\* The account already has the release, and TorBox answers without ids.
TorboxDuplicate(j) ==
    /\ sub[j].pc = "create" /\ j \notin Empty
    /\ created[j] > 0 \/ j \in Foreign
    /\ sub' = [sub EXCEPT ![j].pc = "accepted"]
    /\ UNCHANGED <<rows, created, lost, crashes>>

-----------------------------------------------------------------------------
SubmitEmpty(j) ==
    /\ sub[j].pc = "create" /\ j \in Empty
    /\ rows' = Transition(j, "NEW", "FAILED", [rows[j] EXCEPT !.lease = 0])
    /\ Return(j)
    /\ UNCHANGED <<created, lost, crashes>>

\* Mutant: only a reply with an active id counts as submitted.
SubmittedIfActive(j) ==
    /\ sub[j].pc = "accepted"
    /\ rows' = IF sub[j].id = "active"
               THEN Transition(j, "NEW", "SUBMITTED",
                               [rows[j] EXCEPT !.lease = 0, !.id = sub[j].id])
               ELSE Release(j)
    /\ Return(j)
    /\ UNCHANGED <<created, lost, crashes>>

\* The reply is recorded, ids or not; a job canceled meanwhile is released.
Submitted(j) ==
    /\ sub[j].pc = "accepted"
    /\ rows' = IF Applies(j, "NEW", "SUBMITTED")
               THEN Transition(j, "NEW", "SUBMITTED",
                               [rows[j] EXCEPT !.lease = 0, !.id = sub[j].id])
               ELSE Release(j)
    /\ Return(j)
    /\ UNCHANGED <<created, lost, crashes>>

\* Mutant: a limit is taken for a fault of the release.
LimitedFails(j) ==
    /\ sub[j].pc = "create" /\ j \notin Empty
    /\ rows' = Transition(j, "NEW", "FAILED", [rows[j] EXCEPT !.lease = 0])
    /\ Return(j)
    /\ UNCHANGED <<created, lost, crashes>>

\* Mutant: the claim stays on a rescheduled row.
LimitedStaysClaimed(j) ==
    /\ sub[j].pc = "create" /\ j \notin Empty
    /\ rows' = Update(j, [rows[j] EXCEPT !.wait = LimitTicks])
    /\ Return(j)
    /\ UNCHANGED <<created, lost, crashes>>

\* 429 or ACTIVE_LIMIT is backpressure and costs no attempt.
SubmitLimited(j) ==
    /\ sub[j].pc = "create" /\ j \notin Empty
    /\ rows' = Reschedule(j, LimitTicks)
    /\ Return(j)
    /\ UNCHANGED <<created, lost, crashes>>

\* Mutant: the job fails one attempt late.
FailureOnceMore(j) ==
    IF sub[j].attempts + 1 > MaxSubmitAttempts
    THEN Transition(j, "NEW", "FAILED", [rows[j] EXCEPT !.lease = 0, !.attempts = @ + 1])
    ELSE AttemptFailure(j, BackoffTicks)

HandleFailure(j) ==
    IF sub[j].attempts + 1 >= MaxSubmitAttempts
    THEN Transition(j, "NEW", "FAILED", [rows[j] EXCEPT !.lease = 0, !.attempts = @ + 1])
    ELSE AttemptFailure(j, BackoffTicks)

\* The call fails before TorBox opened an entry ...
SubmitFails(j) ==
    /\ sub[j].pc = "create" /\ j \notin Empty
    /\ rows' = HandleFailure(j)
    /\ Return(j)
    /\ UNCHANGED <<created, lost, crashes>>

\* ... or times out after: the program cannot tell the two apart.
ReplyLost(j) ==
    /\ sub[j].pc = "accepted" /\ \A i \in Jobs : lost[i] < MaxLost
    /\ lost' = [lost EXCEPT ![j] = @ + 1]
    /\ rows' = HandleFailure(j)
    /\ Return(j)
    /\ UNCHANGED <<created, crashes>>

SubmitStep(j) == SubmitEmpty(j) \/ Submitted(j) \/ SubmitLimited(j) \/ SubmitFails(j)

-----------------------------------------------------------------------------
\* A client cancels the job; its statements act as one (see Puller).
Cancel(j) ==
    /\ j \in Deletable /\ rows[j].state \in ActiveStates
    /\ rows' = Transition(j, rows[j].state, "CANCELED", rows[j])
    /\ UNCHANGED <<sub, created, lost, crashes>>

\* A tick is minutes long and the dispatcher beats every few seconds: what can
\* be claimed is claimed first.  The calls of a batch may take several ticks.
Tick ==
    /\ ~CanDispatch
    /\ rows' = AgedRows
    /\ UNCHANGED <<sub, created, lost, crashes>>

\* The process ends and starts again: claims stay, replies on the way are lost.
Crash ==
    /\ crashes < MaxCrashes
    /\ crashes' = crashes + 1
    /\ lost' = [j \in Jobs |-> lost[j] + IF sub[j].pc = "accepted" THEN 1 ELSE 0]
    /\ sub' = [j \in Jobs |-> Idle]
    /\ UNCHANGED <<rows, created>>

Next ==
    \/ Dispatch \/ Tick \/ Crash
    \/ \E j \in Jobs : \/ TorboxAccepts(j) \/ TorboxDuplicate(j)
                       \/ SubmitStep(j) \/ ReplyLost(j) \/ Cancel(j)

\* The dispatcher beats, time passes, and every call to TorBox returns: the
\* client gives up after 90 seconds.
Fairness == WF_vars(Dispatch) /\ WF_vars(Tick) /\ \A j \in Jobs : WF_vars(SubmitStep(j))

Spec == Init /\ [][Next]_vars /\ Fairness

-----------------------------------------------------------------------------
\* Every variable stays in its type (submitter.go, Claim and Transition).
TypeOK ==
    /\ RowsOK
    /\ sub \in [Jobs -> [pc : {"none", "create", "accepted"}, attempts : Nat,
                         id : {"none", "queue", "active"}]]
    /\ {created, lost} \subseteq [Jobs -> Nat]
    /\ crashes \in 0..MaxCrashes

\* handleSubmitFailure counts on the attempts the claim returned: they are the
\* row's own while the job is being created, and a job still NEW has one left.
SubmitBudget == \A j \in Jobs : rows[j].state = "NEW" =>
    /\ rows[j].attempts < MaxSubmitAttempts
    /\ sub[j].pc # "none" => sub[j].attempts = rows[j].attempts

\* TorBox opens a second entry for a job only after a reply was lost, by a
\* timeout or by a crash: neither the backoff, the lease, a refusal nor a
\* reply without ids makes submitOne create what it knows to be created.
DuplicatesNeedALostReply == \A j \in Jobs : created[j] <= 1 + lost[j]

\* The program reports a job as submitted only when TorBox has its release, and
\* as failed only when the attempts are spent or there was nothing to send.
OutcomeIsTrue == \A j \in Jobs :
    /\ rows[j].state = "SUBMITTED" => created[j] > 0 \/ j \in Foreign
    /\ rows[j].state = "FAILED" => rows[j].attempts = MaxSubmitAttempts \/ j \in Empty

\* A claim whose goroutine is gone is the trace of a crash: in every other
\* case the goroutine gives the claim back, so no job waits out its lease.
ClaimsAreWorked == \A j \in Jobs :
    rows[j].state = "NEW" /\ rows[j].lease > 0 /\ sub[j].pc = "none" => crashes > 0

\* Each change of a row is a move of the state table (state.go).
RefinesLifecycle == LC!Spec

=============================================================================
