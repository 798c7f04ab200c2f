------------------------------- MODULE Puller -------------------------------
(***************************************************************************)
(* internal/worker/puller.go, with the requests of internal/sab/queue.go   *)
(* that cancel a job and internal/worker/discard.go that throws its files  *)
(* away.                                                                   *)
(*                                                                         *)
(* Three kinds of threads meet here.  The puller loop lists the due jobs   *)
(* and then walks through that listing; every pull runs on a goroutine of  *)
(* its own; every delete request of Sonarr or Radarr runs on an HTTP       *)
(* handler.  They share the job table, the inflight map and the disk.      *)
(***************************************************************************)
EXTENDS JobStore

CONSTANTS PoolSize,       \* the limit Tick is called with
          MaxRetries,
          RetryTicks,     \* backoff of scheduleRetry
          ArchiveTicks,   \* archiveWait
          RecheckTicks,   \* Reschedule of awaitExtraction
          Deletable,      \* bound of the model: jobs that get delete requests
          Recorded,       \* bound: jobs that may start with a recorded path
          MaxCrashes      \* bound of the model

ASSUME PullerAssumption ==
    /\ PoolSize \in Nat \ {0}
    /\ MaxRetries \in Nat \ {0}
    /\ {RetryTicks, ArchiveTicks, RecheckTicks} \subseteq Nat \ {0}
    /\ Deletable \subseteq Jobs /\ Recorded \subseteq Jobs
    /\ MaxCrashes \in Nat

VARIABLES todo,     \* jobs of the listing Tick has not come to yet
          seen,     \* what that listing read of them
          pull,     \* inflight, with how far pullOne has got
          since,    \* archivesSince: ticks since the first sight, or Unseen
          disk,     \* what lies in the directory of each job
          client,   \* the delete request being handled for each job
          crashes

vars == <<rows, todo, seen, pull, since, disk, client, crashes>>

Unseen == -1
NotSeen == [attempts |-> 0, local |-> FALSE]
NoPull == [pc |-> "none", attempts |-> 0, aborted |-> FALSE, dir |-> FALSE]
NoRequest == [pc |-> "idle", state |-> "NONE", local |-> FALSE, dir |-> FALSE,
              del |-> FALSE, drop |-> FALSE]

Seen == [attempts : Nat, local : BOOLEAN]
Pull == [pc : {"none", "lookup", "files", "download", "store", "ending"},
         attempts : Nat, aborted : BOOLEAN, dir : BOOLEAN]
Request == [pc : {"idle", "got", "abort", "waiting", "remove", "drop"},
            state : JobStates \cup {"NONE"}, local : BOOLEAN, dir : BOOLEAN,
            del : BOOLEAN, drop : BOOLEAN]

Inflight == {j \in Jobs : pull[j].pc # "none"}

\* A pull in one of these places goes on unless Abort has canceled it.
At(j, pc) == pull[j].pc = pc /\ ~pull[j].aborted

\* A job TorBox still works on, or one it has finished: then perhaps one whose
\* files an earlier version of the program recorded without making it READY.
\* The attempts the submitter spent stay on the row.
RowsIn(s, l) ==
    {[NoRow EXCEPT !.state = s, !.attempts = n, !.local = l, !.id = "active"] :
        n \in 0..MaxRetries - 1}
InitialRows == RowsIn("DOWNLOADING", FALSE) \cup RowsIn("COMPLETED_TORBOX", FALSE)
                                            \cup RowsIn("COMPLETED_TORBOX", TRUE)

Init ==
    /\ rows \in [Jobs -> InitialRows]
    /\ \A j \in Jobs : rows[j].local => j \in Recorded
    /\ todo = {}
    /\ seen = [j \in Jobs |-> NotSeen]
    /\ pull = [j \in Jobs |-> NoPull]
    /\ since = [j \in Jobs |-> Unseen]
    /\ disk = [j \in Jobs |-> IF rows[j].local THEN "full" ELSE "none"]
    /\ client = [j \in Jobs |-> NoRequest]
    /\ crashes = 0

-----------------------------------------------------------------------------
\* The poller sees that TorBox has the release.
TorboxCompletes(j) ==
    /\ rows[j].state = "DOWNLOADING"
    /\ rows' = Transition(j, "DOWNLOADING", "COMPLETED_TORBOX", rows[j])
    /\ UNCHANGED <<todo, seen, pull, since, disk, client, crashes>>

\* Mutant: the pool is looked at once, before the listing, and not again.
TickStartUnbounded(j) ==
    /\ j \in todo /\ \A i \in todo : j <= i
    /\ j \notin Inflight
    /\ pull' = [pull EXCEPT ![j] = [NoPull EXCEPT !.pc = "lookup",
                                                  !.attempts = seen[j].attempts]]
    /\ todo' = todo \ {j}
    /\ UNCHANGED <<rows, seen, since, disk, client, crashes>>

\* Tick, first half: count the running pulls and list the due jobs.
TickList ==
    /\ todo = {}
    /\ Cardinality(Inflight) < PoolSize
    /\ todo' = ListDueByStates("COMPLETED_TORBOX", PoolSize + Cardinality(Inflight))
    /\ seen' = [j \in Jobs |-> IF j \in todo'
                               THEN [attempts |-> rows[j].attempts, local |-> rows[j].local]
                               ELSE NotSeen]
    /\ UNCHANGED <<rows, pull, since, disk, client, crashes>>

\* Tick, second half: the jobs of the listing, oldest first, as it read them.
Next1(j) == j \in todo /\ \A i \in todo : j <= i
Handled(j) ==
    /\ todo' = todo \ {j}
    /\ seen' = [seen EXCEPT ![j] = NotSeen]

TickAlreadyLocal(j) ==
    /\ Next1(j) /\ seen[j].local
    /\ rows' = MarkLocalReady(j)
    /\ Handled(j)
    /\ UNCHANGED <<pull, since, disk, client, crashes>>

TickSkip(j) ==
    /\ Next1(j) /\ ~seen[j].local
    /\ j \in Inflight \/ Cardinality(Inflight) >= PoolSize
    /\ Handled(j)
    /\ UNCHANGED <<rows, pull, since, disk, client, crashes>>

TickStart(j) ==
    /\ Next1(j) /\ ~seen[j].local
    /\ j \notin Inflight
    /\ Cardinality(Inflight) < PoolSize
    /\ pull' = [pull EXCEPT ![j] = [NoPull EXCEPT !.pc = "lookup",
                                                  !.attempts = seen[j].attempts]]
    /\ Handled(j)
    /\ UNCHANGED <<rows, since, disk, client, crashes>>

TickItem(j) == TickAlreadyLocal(j) \/ TickSkip(j) \/ TickStart(j)

-----------------------------------------------------------------------------
\* Mutant: the last attempt is not counted.
ScheduleRetryOnceMore(j) ==
    IF pull[j].attempts + 1 > MaxRetries
    THEN Transition(j, "COMPLETED_TORBOX", "FAILED", rows[j])
    ELSE AttemptFailure(j, RetryTicks)

\* scheduleRetry decides on the attempts of the listing.
ScheduleRetry(j) ==
    IF pull[j].attempts + 1 >= MaxRetries
    THEN Transition(j, "COMPLETED_TORBOX", "FAILED", rows[j])
    ELSE AttemptFailure(j, RetryTicks)

Goto(j, pc) == pull' = [pull EXCEPT ![j].pc = pc]

\* findItem: the TorBox entry with its files, or an error, or no files yet.
LookupFinds(j) ==
    /\ At(j, "lookup")
    /\ Goto(j, "files")
    /\ UNCHANGED <<rows, todo, seen, since, disk, client, crashes>>

LookupFails(j) ==
    /\ At(j, "lookup")
    /\ rows' = ScheduleRetry(j)
    /\ Goto(j, "ending")
    /\ UNCHANGED <<todo, seen, since, disk, client, crashes>>

\* buildFileList finds only archives: awaitExtraction.
ArchivesOnly(j) ==
    /\ At(j, "files")
    /\ IF since[j] < ArchiveTicks
       THEN /\ since' = [since EXCEPT ![j] = IF @ = Unseen THEN 0 ELSE @]
            /\ rows' = Reschedule(j, RecheckTicks)
       ELSE /\ since' = [since EXCEPT ![j] = Unseen]
            /\ rows' = Transition(j, "COMPLETED_TORBOX", "FAILED", rows[j])
    /\ Goto(j, "ending")
    /\ UNCHANGED <<todo, seen, disk, client, crashes>>

FilesFail(j) ==
    /\ At(j, "files")
    /\ since' = [since EXCEPT ![j] = Unseen]
    /\ rows' = ScheduleRetry(j)
    /\ Goto(j, "ending")
    /\ UNCHANGED <<todo, seen, disk, client, crashes>>

FilesResolved(j) ==
    /\ At(j, "files")
    /\ since' = [since EXCEPT ![j] = Unseen]
    /\ pull' = [pull EXCEPT ![j].pc = "download", ![j].dir = TRUE]
    /\ UNCHANGED <<rows, todo, seen, disk, client, crashes>>

\* Downloader.Run.  A canceled download may write until it notices.
DownloadWrites(j) ==
    /\ pull[j].pc = "download"
    /\ disk[j] # "full"
    /\ disk' = [disk EXCEPT ![j] = IF @ = "none" THEN "partial" ELSE "full"]
    /\ UNCHANGED <<rows, todo, seen, pull, since, client, crashes>>

DownloadFails(j) ==
    /\ At(j, "download")
    /\ rows' = ScheduleRetry(j)
    /\ Goto(j, "ending")
    /\ UNCHANGED <<todo, seen, since, disk, client, crashes>>

DownloadDone(j) ==
    /\ At(j, "download")
    /\ disk[j] = "full"
    /\ Goto(j, "store")
    /\ UNCHANGED <<rows, todo, seen, since, disk, client, crashes>>

StoreReady(j) ==
    /\ At(j, "store")
    /\ rows' = MarkLocalReady(j)
    /\ Goto(j, "ending")
    /\ UNCHANGED <<todo, seen, since, disk, client, crashes>>

\* Mutant: the download does not get the context Abort cancels.
PullAbortedUnlessDownloading(j) ==
    /\ pull[j].aborted
    /\ pull[j].pc \notin {"none", "ending", "download"}
    /\ Goto(j, "ending")
    /\ UNCHANGED <<rows, todo, seen, since, disk, client, crashes>>

\* The canceled context ends the call the pull is in, and no retry is due.
PullAborted(j) ==
    /\ pull[j].aborted
    /\ pull[j].pc \notin {"none", "ending"}
    /\ Goto(j, "ending")
    /\ UNCHANGED <<rows, todo, seen, since, disk, client, crashes>>

\* Mutant: finish does not run, so the pull keeps its place in the pool.
FinishNever(j) ==
    /\ pull[j].pc = "ending"
    /\ UNCHANGED vars

\* finish: leave the inflight map and let the waiting Abort go on.
Finish(j) ==
    /\ pull[j].pc = "ending"
    /\ pull' = [pull EXCEPT ![j] = NoPull]
    /\ client' = [client EXCEPT ![j] =
           IF @.pc = "waiting" THEN [@ EXCEPT !.pc = "remove", !.dir = pull[j].dir] ELSE @]
    /\ UNCHANGED <<rows, todo, seen, since, disk, crashes>>

\* What the code and the 90s timeout of the TorBox client bring to an end ...
PullStep(j) ==
    \/ LookupFinds(j) \/ LookupFails(j)
    \/ ArchivesOnly(j) \/ FilesFail(j) \/ FilesResolved(j)
    \/ StoreReady(j) \/ PullAborted(j) \/ Finish(j)

\* ... and what only the CDN can: the download client has no timeout.
DownloadStep(j) == DownloadWrites(j) \/ DownloadFails(j) \/ DownloadDone(j)

-----------------------------------------------------------------------------
\* A delete request for j: mode=queue or, with drop, mode=history; del is
\* del_files=1.  cancel reads the row in one statement ...
ClientGet(j) ==
    /\ j \in Deletable
    /\ client[j].pc = "idle" /\ Exists(j)
    /\ \E del, drop \in BOOLEAN :
        client' = [client EXCEPT ![j] =
            [NoRequest EXCEPT !.pc = "got", !.state = rows[j].state,
                              !.local = rows[j].local, !.del = del, !.drop = drop]]
    /\ UNCHANGED <<rows, todo, seen, pull, since, disk, crashes>>

AfterCancel(c) == IF c.del THEN [c EXCEPT !.pc = "abort"]
                  ELSE IF c.drop THEN [c EXCEPT !.pc = "drop"] ELSE NoRequest
AfterDiscard(c) == IF c.drop THEN [c EXCEPT !.pc = "drop"] ELSE NoRequest

\* ... and in another drops the row of an ended job ...
ClientDropsEnded(j) ==
    /\ client[j].pc = "got" /\ client[j].state \in Terminal
    /\ rows' = Delete(j)
    /\ client' = [client EXCEPT ![j] = IF Exists(j) THEN AfterCancel(@) ELSE NoRequest]
    /\ UNCHANGED <<todo, seen, pull, since, disk, crashes>>

\* Mutant: a cancel that came too late goes on to discard the files.
ClientCancelsAnyway(j) ==
    /\ client[j].pc = "got" /\ client[j].state \notin Terminal
    /\ rows' = Transition(j, client[j].state, "CANCELED", rows[j])
    /\ client' = [client EXCEPT ![j] = AfterCancel(@)]
    /\ UNCHANGED <<todo, seen, pull, since, disk, crashes>>

\* ... or cancels an active one, unless its state has changed since.
ClientCancels(j) ==
    LET from == client[j].state IN
    /\ client[j].pc = "got" /\ from \notin Terminal
    /\ rows' = Transition(j, from, "CANCELED", rows[j])
    /\ client' = [client EXCEPT ![j] =
           IF Applies(j, from, "CANCELED") THEN AfterCancel(@) ELSE NoRequest]
    /\ UNCHANGED <<todo, seen, pull, since, disk, crashes>>

\* Discard: Abort cancels the running pull and waits for it ...
ClientAborts(j) ==
    /\ client[j].pc = "abort"
    /\ pull' = IF j \in Inflight THEN [pull EXCEPT ![j].aborted = TRUE] ELSE pull
    /\ client' = [client EXCEPT ![j].pc = IF j \in Inflight THEN "waiting" ELSE "remove"]
    /\ UNCHANGED <<rows, todo, seen, since, disk, crashes>>

\* ... then the directory goes, if the pull or the row names one ...
ClientRemoves(j) ==
    /\ client[j].pc = "remove"
    /\ disk' = [disk EXCEPT ![j] = IF client[j].dir \/ client[j].local THEN "none" ELSE @]
    /\ client' = [client EXCEPT ![j] = AfterDiscard(@)]
    /\ UNCHANGED <<rows, todo, seen, pull, since, crashes>>

\* ... and a history delete drops the row as well.
ClientDrops(j) ==
    /\ client[j].pc = "drop"
    /\ rows' = Delete(j)
    /\ client' = [client EXCEPT ![j] = NoRequest]
    /\ UNCHANGED <<todo, seen, pull, since, disk, crashes>>

\* The client hangs up: statements fail, Abort stops waiting, RemoveAll runs.
ClientHangsUp(j) ==
    /\ client[j].pc \in {"got", "waiting", "drop"}
    /\ client' = [client EXCEPT ![j] =
           IF @.pc = "waiting"
           THEN [@ EXCEPT !.pc = "remove", !.dir = pull[j].dir, !.drop = FALSE]
           ELSE NoRequest]
    /\ UNCHANGED <<rows, todo, seen, pull, since, disk, crashes>>

ClientStep(j) == \/ ClientDropsEnded(j) \/ ClientCancels(j) \/ ClientAborts(j)
                 \/ ClientRemoves(j) \/ ClientDrops(j)

-----------------------------------------------------------------------------
\* Mutant: the wait for the extraction has no end.
ArchiveClockOn(n) == n + 1

\* The archive wait, from the first sight of archives to archiveWait.
ArchiveClock(n) == IF n \in 0..ArchiveTicks - 1 THEN n + 1 ELSE n

Tick ==
    /\ rows' = AgedRows
    /\ since' = [j \in Jobs |-> ArchiveClock(since[j])]
    /\ UNCHANGED <<todo, seen, pull, disk, client, crashes>>

\* The process ends, cleanly or not, and starts again on the same table.
Crash ==
    /\ crashes < MaxCrashes
    /\ crashes' = crashes + 1
    /\ todo' = {}
    /\ seen' = [j \in Jobs |-> NotSeen]
    /\ pull' = [j \in Jobs |-> NoPull]
    /\ since' = [j \in Jobs |-> Unseen]
    /\ client' = [j \in Jobs |-> NoRequest]
    /\ UNCHANGED <<rows, disk>>

Next ==
    \/ TickList \/ Tick \/ Crash
    \/ \E j \in Jobs :
        \/ TorboxCompletes(j) \/ TickItem(j) \/ PullStep(j) \/ DownloadStep(j)
        \/ ClientGet(j) \/ ClientStep(j) \/ ClientHangsUp(j)

\* Goroutines that can run do run, and time passes.  A client may never
\* come, and nothing makes the CDN answer.
Fairness ==
    /\ WF_vars(TickList) /\ WF_vars(Tick)
    /\ \A j \in Jobs : /\ WF_vars(TickItem(j)) /\ WF_vars(PullStep(j))
                       /\ WF_vars(ClientStep(j))

Spec == Init /\ [][Next]_vars /\ Fairness

\* The same program with a CDN that lets every download end.
CdnAnswers == \A j \in Jobs : WF_vars(DownloadStep(j))
CdnSpec == Spec /\ CdnAnswers

-----------------------------------------------------------------------------
\* Every variable stays in its type (the job table, the inflight map, the
\* archive clocks, the directories and the requests of puller.go and queue.go).
TypeOK ==
    /\ RowsOK
    /\ todo \subseteq Jobs
    /\ seen \in [Jobs -> Seen]
    /\ pull \in [Jobs -> Pull]
    /\ since \in [Jobs -> 0..ArchiveTicks \cup {Unseen}]
    /\ disk \in [Jobs -> {"none", "partial", "full"}]
    /\ client \in [Jobs -> Request]
    /\ crashes \in 0..MaxCrashes

\* Tick checks the pool twice, once before it lists and once for every job it
\* starts: together with pulls that end in between there are never more pulls
\* than the pool has places (puller.go, Tick).
PoolBound == Cardinality(Inflight) <= PoolSize

\* scheduleRetry counts on the attempts its listing read, which may be one
\* behind the row when a pull failed meanwhile.  The error never adds up: the
\* row goes at most one past the attempts at which a fresh reading fails it.
RetryBudget == \A j \in Jobs : rows[j].attempts <= MaxRetries

\* A job is READY only while its files lie complete in its directory, whatever
\* order pulls, aborts, deletes and crashes come in: Sonarr imports from there
\* as soon as it sees READY (MarkLocalReady, Discard).
ReadyIsComplete == \A j \in Jobs : rows[j].state = "READY" => disk[j] = "full"

\* Whatever the loop, the pulls and the requests do to a row, each change is a
\* move of the state table, no ended job comes back to life, and the delete
\* requests never drop the row of an active job (state.go, queue.go cancel).
RefinesLifecycle == LC!Spec

\* A request that waits in Abort gets its answer even if the CDN never sends
\* another byte, because canceling the context ends the read (puller.go Abort).
AbortReturns == \A j \in Jobs : client[j].pc = "waiting" ~> client[j].pc # "waiting"

\* If downloads end one way or another, every completed job leaves
\* COMPLETED_TORBOX: backoff, archive wait and a full pool delay it, none of
\* them starves it (puller.go Tick, ListDueByStates).
CompletedJobsEnd == \A j \in Jobs :
    rows[j].state = "COMPLETED_TORBOX" ~> rows[j].state # "COMPLETED_TORBOX"

-----------------------------------------------------------------------------
(***************************************************************************)
(* The inductive invariant behind RetryBudget, ReadyIsComplete and         *)
(* RefinesLifecycle.                                                       *)
(***************************************************************************)
\* Nothing brings a canceled job, or one without a row, back.
Withdrawn(j) == rows[j].state \in {"CANCELED", "NONE"}

\* What a request has read or done about a job still stands when it goes on.
RequestsHold == \A j \in Jobs :
    /\ client[j].pc \in {"abort", "waiting", "remove", "drop"} => Withdrawn(j)
    /\ client[j].pc = "got" /\ client[j].state \in Terminal
           => rows[j].state \in {client[j].state, "NONE"}

\* Every sign that a job has its files means that they are there.
FilesHold == \A j \in Jobs :
    /\ ~Withdrawn(j)
    /\ rows[j].state = "READY" \/ rows[j].local \/ seen[j].local \/ pull[j].pc = "store"
    => disk[j] = "full"

CanRetry(j) == pull[j].pc \in {"lookup", "files", "download"}

\* A listing is at most one attempt behind the row, and not even that while a
\* pull that may still fail is older than the listing.
AttemptsHold == \A j \in Jobs :
    /\ rows[j].attempts <= MaxRetries
    /\ j \in todo => rows[j].attempts <= seen[j].attempts + 1
    /\ j \in todo /\ CanRetry(j) => rows[j].attempts <= seen[j].attempts
    /\ CanRetry(j) => rows[j].attempts <= pull[j].attempts + 1

\* Rows, listing, pulls, requests and disk agree (puller.go, discard.go).
IInv == RequestsHold /\ FilesHold /\ AttemptsHold

-----------------------------------------------------------------------------
\* discard.go:17-18 says a running pull is stopped before its directory is
\* deleted, so nothing writes into it afterwards: when Discard has a directory to
\* delete, from Abort or from the row, no pull of the job is in its download.
DiscardStopsPull == [][\A j \in Jobs :
    ClientRemoves(j) /\ (client[j].dir \/ client[j].local) => pull[j].pc # "download"]_vars
=============================================================================
