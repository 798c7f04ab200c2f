------------------------------- MODULE System -------------------------------
(***************************************************************************)
(* The worker.Manager of cmd/arrarr/main.go: submitter, poller, puller and *)
(* reaper run side by side on one job table, with the requests of          *)
(* SABnzbd's and qBittorrent's clients.                                    *)
(*                                                                         *)
(* Submitter, Poller and Puller each stand in for the others: with a job   *)
(* that is canceled, completed or created by an action of their own.  Here *)
(* these give way to the real ones.  What TorBox has of a job is one       *)
(* entry; what the client has asked for, one request.                      *)
(***************************************************************************)
EXTENDS JobStore

CONSTANTS PoolSize,                                               \* of both pools
          MaxSubmitAttempts, BackoffTicks, LimitTicks, Empty,     \* Submitter
          Torrents, GraceTicks, MissingTicks, StallTicks,         \* Poller
          CeilingTicks, Size,
          MaxRetries, RetryTicks, ArchiveTicks, RecheckTicks,     \* Puller
          Recorded,
          Deletable, MaxLost, MaxCrashes,  \* bounds of the model, as there
          MaxRequests   \* bound of the model: deletes of one job, of either API

\* Every loop has what its module assumes, and the puller tries a job no less
\* often than the submitter: five times, both (manager.go, NewPuller).
ASSUME SystemAssumption ==
    /\ {PoolSize, MaxSubmitAttempts, BackoffTicks, LimitTicks,
        MaxRetries, RetryTicks, ArchiveTicks, RecheckTicks} \subseteq Nat \ {0}
    /\ MaxSubmitAttempts <= MaxRetries
    /\ {GraceTicks, MissingTicks, StallTicks, CeilingTicks, Size,
        MaxLost, MaxCrashes, MaxRequests} \subseteq Nat
    /\ {Empty, Torrents, Recorded, Deletable} \subseteq SUBSET Jobs
    /\ GraceTicks <= MissingTicks /\ MissingTicks < StallTicks
    /\ StallTicks < CeilingTicks /\ CeilingTicks < ClockCap

VARIABLES sub, created, lost,                  \* Submitter
          entry, pass, pc,                     \* Poller
          todo, seen, pull, since, disk, client, \* Puller
          asked,    \* the id by which a delete with del_files will release the slot
          qbit,     \* the qBittorrent delete being handled for each job
          asks,     \* the deletes that have come for each job
          crashes,
          excuse,   \* history: why TorBox may be left with the download
          wiped,    \* history: a qBittorrent delete has removed files, "now"
                    \* while the download that may miss them goes on
          dropped   \* history: one has dropped the row of an active job

S == INSTANCE Submitter WITH Foreign <- {}
P == INSTANCE Poller
U == INSTANCE Puller

submitter == <<sub, created, lost>>
poller    == <<pass, pc>>
puller    == <<todo, seen, pull, since, disk>>
requests  == <<client, asked, qbit, asks>>
history   == <<excuse, wiped, dropped>>
vars == <<rows, submitter, entry, poller, puller, requests, crashes, history>>

NoDelete == [pc |-> "idle", dir |-> FALSE]

Init ==
    /\ S!Init
    /\ entry = [j \in Jobs |-> P!Gone(P!NewEntry)]
    /\ pass = P!NoPass /\ pc = "match"
    /\ todo = {} /\ seen = [j \in Jobs |-> U!NotSeen]
    /\ pull = [j \in Jobs |-> U!NoPull]
    /\ since = [j \in Jobs |-> U!Unseen]
    /\ disk = [j \in Jobs |-> "none"]
    /\ client = [j \in Jobs |-> U!NoRequest]
    /\ asked = [j \in Jobs |-> "none"]
    /\ qbit = [j \in Jobs |-> NoDelete]
    /\ asks = [j \in Jobs |-> 0]
    /\ excuse = [j \in Jobs |-> FALSE]
    /\ wiped = [j \in Jobs |-> "no"]
    /\ dropped = [j \in Jobs |-> FALSE]

\* Something happened to j that may leave TorBox with a download nobody wants.
Excused(j, why) == excuse' = [excuse EXCEPT ![j] = @ \/ why]

-----------------------------------------------------------------------------
\* Submitter.  TorBox opens an entry, unless it has one of the release.
Dispatch ==
    /\ S!Dispatch
    /\ UNCHANGED <<entry, poller, puller, requests, history>>

Accepts(j) ==
    /\ S!TorboxAccepts(j) /\ entry[j].st = "gone"
    /\ entry' = [entry EXCEPT ![j] = P!NewEntry]
    /\ UNCHANGED <<poller, puller, requests, history>>

Duplicate(j) ==
    /\ S!TorboxDuplicate(j) /\ entry[j].st # "gone"
    /\ UNCHANGED <<entry, poller, puller, requests, history>>

SubmitStep(j) ==
    /\ S!SubmitStep(j)
    /\ Excused(j, S!Submitted(j) /\ rows[j].state # "NEW")
    /\ UNCHANGED <<entry, poller, puller, requests, wiped, dropped>>

ReplyLost(j) ==
    /\ S!ReplyLost(j)
    /\ Excused(j, TRUE)
    /\ UNCHANGED <<entry, poller, puller, requests, wiped, dropped>>

-----------------------------------------------------------------------------
\* Poller, and TorBox.
PollList ==
    /\ P!PollList
    /\ excuse' = [j \in Jobs |-> excuse[j] \/
           (j \in DOMAIN pass' /\ pass'[j].item # entry[j])]
    /\ UNCHANGED <<submitter, puller, requests, wiped, dropped>>

PollStep(j) ==
    /\ P!PollStep(j)
    /\ Excused(j, P!ReleaseSlot(j) /\ entry'[j].st # "gone")
    /\ UNCHANGED <<submitter, puller, requests, crashes, wiped, dropped>>

EntryStep(j) ==
    /\ P!EntryStarts(j) \/ P!EntryProgresses(j) \/ P!EntryEnds(j) \/ P!EntryVanishes(j)
    /\ UNCHANGED <<submitter, puller, requests, history>>

-----------------------------------------------------------------------------
\* Puller.  Only a finished entry lists its files.
TickList ==
    /\ U!TickList
    /\ UNCHANGED <<submitter, entry, poller, asked, qbit, asks, history>>

\* A run that lost files to a delete does not notice (see Downloader).
WipedDone(j) ==
    /\ U!At(j, "download") /\ wiped[j] = "now"
    /\ U!Goto(j, "store")
    /\ UNCHANGED <<rows, todo, seen, since, disk, client, crashes>>

PullerStep(j) ==
    /\ \/ U!TickItem(j) \/ U!DownloadStep(j) \/ WipedDone(j)
       \/ U!PullStep(j) /\ (U!LookupFinds(j) => entry[j].st = "done")
    /\ wiped' = [wiped EXCEPT ![j] =
           IF @ = "now" /\ pull'[j].pc # "download" THEN "once" ELSE @]
    /\ UNCHANGED <<submitter, entry, poller, asked, qbit, asks, excuse, dropped>>

-----------------------------------------------------------------------------
\* SABnzbd's deletes: those of the queue, a history delete only drops the row
\* in the end (see Puller).
Counted(j) == asks[j] < MaxRequests /\ asks' = [asks EXCEPT ![j] = @ + 1]

ClientGet(j) ==
    /\ U!ClientGet(j) /\ ~client'[j].drop /\ Counted(j)
    /\ asked' = [asked EXCEPT ![j] =
           IF client'[j].del /\ rows[j].state \in P!InFlight THEN rows[j].id ELSE "none"]
    /\ UNCHANGED <<submitter, entry, poller, qbit, history>>

\* Without del_files, or before the row has an id, a cancel lets TorBox go on.
ClientStep(j) ==
    /\ U!ClientDropsEnded(j) \/ U!ClientCancels(j) \/ U!ClientAborts(j)
    /\ asked' = [asked EXCEPT ![j] = IF client'[j].pc = "idle" THEN "none" ELSE @]
    /\ Excused(j, /\ rows[j].state \in P!InFlight /\ rows'[j].state = "CANCELED"
                  /\ asked[j] = "none")
    /\ UNCHANGED <<submitter, entry, poller, qbit, asks, wiped, dropped>>

\* Discard releases the slot, which may fail, before it removes the files.
ClientRemoves(j) ==
    LET mayRelease == asked[j] # "none" IN
    /\ U!ClientRemoves(j)
    /\ asked' = [asked EXCEPT ![j] = "none"]
    /\ \E released \in {FALSE, mayRelease} :
        /\ entry' = [entry EXCEPT ![j] = IF released /\ @.st # "gone" THEN P!Gone(@) ELSE @]
        /\ Excused(j, mayRelease /\ ~released)
    /\ UNCHANGED <<submitter, poller, qbit, asks, wiped, dropped>>

\* With the request's context canceled, the release fails too.
ClientHangsUp(j) ==
    /\ U!ClientHangsUp(j)
    /\ asked' = [asked EXCEPT ![j] = "none"]
    /\ Excused(j, client[j].pc = "waiting")
    /\ UNCHANGED <<submitter, entry, poller, qbit, asks, wiped, dropped>>

\* qBittorrent's torrents/delete finds an active job by its info-hash ...
QbitGet(j) ==
    /\ j \in Torrents /\ qbit[j].pc = "idle" /\ Counted(j)
    /\ rows[j].state \in ActiveStates
    /\ \E deleteFiles \in BOOLEAN :
        qbit' = [qbit EXCEPT ![j] =
            IF deleteFiles THEN [pc |-> "remove", dir |-> rows[j].local \/ rows[j].folder]
            ELSE [NoDelete EXCEPT !.pc = "drop"]]
    /\ UNCHANGED <<rows, submitter, entry, poller, puller, client, asked, crashes, history>>

\* ... removes its directory, whoever writes there ...
QbitRemoves(j) ==
    /\ qbit[j].pc = "remove"
    /\ qbit' = [qbit EXCEPT ![j].pc = "drop"]
    /\ IF qbit[j].dir
       THEN /\ disk' = [disk EXCEPT ![j] = "none"]
            /\ wiped' = [wiped EXCEPT ![j] =
                   IF pull[j].pc = "download" THEN "now" ELSE "once"]
       ELSE UNCHANGED <<disk, wiped>>
    /\ UNCHANGED <<rows, submitter, entry, poller, todo, seen, pull, since, client, asked,
                   asks, crashes, excuse, dropped>>

\* ... and drops the row, whatever state it is in by now.
QbitDrops(j) ==
    /\ qbit[j].pc = "drop"
    /\ rows' = Delete(j)
    /\ qbit' = [qbit EXCEPT ![j] = NoDelete]
    /\ dropped' = [dropped EXCEPT ![j] = @ \/ rows[j].state \in ActiveStates]
    /\ Excused(j, rows[j].state \in P!InFlight)
    /\ UNCHANGED <<submitter, entry, poller, puller, client, asked, asks, crashes, wiped>>

QbitHangsUp(j) ==
    /\ qbit[j].pc = "drop"
    /\ qbit' = [qbit EXCEPT ![j] = NoDelete]
    /\ UNCHANGED <<rows, submitter, entry, poller, puller, client, asked, asks, crashes,
                   history>>

-----------------------------------------------------------------------------
\* The reaper drops jobs that ended days ago.
Reap ==
    /\ \E j \in Jobs : Ended(j) /\ rows' = Delete(j)
    /\ UNCHANGED <<submitter, entry, poller, puller, requests, crashes, history>>

\* One clock for all, under the conditions of Submitter and Poller.
Tick ==
    /\ ~S!CanDispatch /\ P!Todo = {}
    /\ rows' = AgedRows
    /\ since' = [j \in Jobs |-> U!ArchiveClock(since[j])]
    /\ UNCHANGED <<submitter, entry, poller, todo, seen, pull, disk, requests, crashes, history>>

\* A reply of TorBox or a release of j is on its way.
Underway(j) == sub[j].pc = "accepted" \/ client[j].pc \in {"abort", "waiting", "remove"}

\* The table, TorBox and the disk are what is left.
Crash ==
    /\ S!Crash
    /\ pass' = P!NoPass /\ pc' = "match"
    /\ todo' = {} /\ seen' = [j \in Jobs |-> U!NotSeen]
    /\ pull' = [j \in Jobs |-> U!NoPull]
    /\ since' = [j \in Jobs |-> U!Unseen]
    /\ client' = [j \in Jobs |-> U!NoRequest]
    /\ asked' = [j \in Jobs |-> "none"]
    /\ qbit' = [j \in Jobs |-> NoDelete]
    /\ excuse' = [j \in Jobs |-> excuse[j] \/ Underway(j)]
    /\ wiped' = [j \in Jobs |-> IF wiped[j] = "now" THEN "once" ELSE wiped[j]]
    /\ UNCHANGED <<entry, disk, asks, dropped>>

Next ==
    \/ Dispatch \/ PollList \/ TickList \/ Reap \/ Tick \/ Crash
    \/ \E j \in Jobs :
        \/ Accepts(j) \/ Duplicate(j) \/ SubmitStep(j) \/ ReplyLost(j)
        \/ PollStep(j) \/ EntryStep(j) \/ PullerStep(j)
        \/ ClientGet(j) \/ ClientStep(j) \/ ClientRemoves(j) \/ ClientHangsUp(j)
        \/ QbitGet(j) \/ QbitRemoves(j) \/ QbitDrops(j) \/ QbitHangsUp(j)

Spec == Init /\ [][Next]_vars

-----------------------------------------------------------------------------
\* Over all the loops a READY job has its files, unless a qBittorrent delete
\* has taken them from under an active job and never got to its row
\* (MarkLocalReady, handleTorrentsDelete).
ReadyIsComplete == \A j \in Jobs :
    rows[j].state = "READY" /\ wiped[j] = "no" => disk[j] = "full"

\* A download that TorBox still counts against the account's limit belongs to
\* an active job.  If it does not, a reply or a release is on its way or was
\* lost, by TorBox, a hang-up or a crash; the torrent list was missing; the
\* client let the data stay or canceled before the row had the id; or a
\* qBittorrent delete took the row: no other order of loops and requests leaves
\* a slot behind (slots.go, discard.go).
SlotsAreAccountedFor == \A j \in Jobs :
    /\ entry[j].st \in {"queued", "downloading"}
    /\ rows[j].state \in Terminal \cup {"NONE"}
    => excuse[j] \/ Underway(j)

\* What Puller's proofs rest on holds among the real loops too: requests and
\* listings are never further from the rows than its invariant says, with the
\* attempts that the submitter has spent (jobs.go AttemptFailure).
PullerIsRight == U!RequestsHold /\ U!AttemptsHold

\* Whatever the loops do at the same time, a job moves along the state table
\* and stays ended, when the drop of an active job counts as its cancel
\* (state.go, handleTorrentsDelete).
Whole == INSTANCE Lifecycle WITH
    state <- [j \in Jobs |-> IF dropped[j] THEN "CANCELED" ELSE rows[j].state]
RefinesLifecycle == Whole!Spec

-----------------------------------------------------------------------------
(***************************************************************************)
(* The inductive invariant behind the properties above.                    *)
(***************************************************************************)
\* Every variable stays in its type, for each loop and for the requests.
TypeOK ==
    /\ S!TypeOK /\ P!TypeOK /\ U!TypeOK
    /\ asked \in [Jobs -> {"none", "queue", "active"}]
    /\ qbit \in [Jobs -> [pc : {"idle", "remove", "drop"}, dir : BOOLEAN]]
    /\ asks \in [Jobs -> 0..MaxRequests]
    /\ {excuse, dropped} \subseteq [Jobs -> BOOLEAN]
    /\ wiped \in [Jobs -> {"no", "now", "once"}]

Early(j) == rows[j].state = "NEW" \/ sub[j].pc # "none"

\* The submitter lets go of a job before poller and puller see it, however
\* long its reply takes: what it works on is new or withdrawn.
LoopsApart == \A j \in Jobs :
    /\ sub[j].pc # "none" => rows[j].state = "NEW" \/ U!Withdrawn(j)
    /\ Early(j) => j \notin P!Todo /\ j \notin todo /\ pull[j].pc = "none"

\* The attempts a claim returned are spent no sooner than those of the row.
SubmitAttemptsHold == \A j \in Jobs :
    /\ rows[j].state = "NEW" => rows[j].attempts < MaxSubmitAttempts
    /\ sub[j].pc # "none" => /\ sub[j].attempts < MaxSubmitAttempts
                             /\ rows[j].attempts <= sub[j].attempts

Waiting(j) == entry[j].st \in {"queued", "downloading"}
Releases(j) == asked[j] # "none" /\ client[j].pc \in {"abort", "waiting", "remove"}

\* An entry that TorBox counts has somebody who still knows of it.
EntriesHold == \A j \in Jobs :
    /\ Waiting(j) => \/ excuse[j] \/ sub[j].pc = "accepted" \/ Releases(j)
                     \/ rows[j].state \in P!InFlight
    /\ asked[j] # "none" => client[j].pc # "idle" /\ client[j].del

\* A pass that will end a job, on its list or after a release, is right about
\* the slot.
PassHolds == \A j \in P!Todo :
    P!Listed(j).st \notin {"queued", "downloading"} \/ P!At(j, "fail")
        => ~Waiting(j) \/ excuse[j]

\* Every sign that a job has its files means that they are there, unless a
\* qBittorrent delete has been at them.
FilesHold == \A j \in Jobs :
    /\ wiped[j] = "no" /\ ~U!Withdrawn(j)
    /\ rows[j].state = "READY" \/ rows[j].local \/ seen[j].local \/ pull[j].pc = "store"
    => disk[j] = "full"

\* The loops agree on what each of them may rely on (manager.go).
IInv == /\ LoopsApart /\ SubmitAttemptsHold /\ EntriesHold /\ PassHolds /\ FilesHold
        /\ PullerIsRight
=============================================================================
