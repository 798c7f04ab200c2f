------------------------------- MODULE Intake -------------------------------
(***************************************************************************)
(* The HTTP side that brings jobs in: internal/sab/addfile.go, the adds,   *)
(* pauses and deletes of internal/qbit, the TorBox webhook of              *)
(* internal/sab/webhook.go with its Pushover notification, and the wake    *)
(* channel they share with submitterLoop.                                  *)
(*                                                                         *)
(* A release is known by its sha256 or info-hash.  Requests run on HTTP    *)
(* handlers, all at once, each statement of theirs by itself.  How the     *)
(* workers submit a job and what becomes of it is the business of          *)
(* Submitter, Poller and Puller: here a job is active until it ends.       *)
(***************************************************************************)
EXTENDS JobStore

CONSTANTS Handlers,      \* HTTP handlers that may run at the same time
          Usenet,        \* releases that come as NZB
          Torrents,      \* releases that come as torrent or magnet
          PoolSize,      \* jobs the submitter claims at once
          Noticed,       \* bound of the model: jobs the webhook names
          MaxNotices     \* bound of the model: notifications of a job, claimed or not

Releases == Usenet \cup Torrents

ASSUME IntakeAssumption ==
    /\ IsFiniteSet(Handlers) /\ Noticed \subseteq Jobs
    /\ PoolSize \in Nat \ {0} /\ MaxNotices \in Nat

VARIABLES release,   \* the release of each job, by sha256 or info-hash
          fresh,     \* nzo_ids not given out yet
          req,       \* the request each handler works on
          raced,     \* releases that two requests were about to insert at once
          wake,      \* a token lies in the wake channel
          loop,      \* submitterLoop: where it is, and its batch
          notice,    \* notification goroutines that have not claimed yet, per job
          sent,      \* pushover_sent_at is set
          pings      \* notifications posted for each job

vars == <<rows, release, fresh, req, raced, wake, loop, notice, sent, pings>>

NoRelease == "none"
Free == [pc |-> "free", release |-> NoRelease, job |-> 0, state |-> "NONE"]

Init ==
    /\ rows = [j \in Jobs |-> NoRow]
    /\ release = [j \in Jobs |-> NoRelease]
    /\ fresh = Jobs
    /\ req = [h \in Handlers |-> Free]
    /\ raced = {}
    /\ wake = FALSE
    /\ loop = [pc |-> "wait", batch |-> {}]
    /\ notice = [j \in Jobs |-> 0]
    /\ sent = [j \in Jobs |-> FALSE]
    /\ pings = [j \in Jobs |-> 0]

Store == <<rows, release, fresh>>
Push == <<notice, sent, pings>>

-----------------------------------------------------------------------------
Active(j) == rows[j].state \in ActiveStates
ActiveOf(r) == {j \in Jobs : Active(j) /\ release[j] = r}

\* Mutant: only jobs not yet submitted count as the same release.
FindQueuedBySHA(r) == {j \in ActiveOf(r) : rows[j].state = "NEW"}

\* FindActiveBySHA: the newest active job of a release, as a set.
FindActiveBySHA(r) == {j \in ActiveOf(r) : \A i \in ActiveOf(r) : i <= j}

Goto(h, pc) == req' = [req EXCEPT ![h].pc = pc]
GotoWake(h) == req' = [req EXCEPT ![h] = [Free EXCEPT !.pc = "wake"]]
Done(h) == req' = [req EXCEPT ![h] = Free]

\* addfile, addurl, or torrents/add has read its body.
AddArrives(h) ==
    /\ req[h].pc = "free" /\ fresh # {}
    /\ \E r \in Releases :
        req' = [req EXCEPT ![h] = [Free EXCEPT !.pc = "dedup", !.release = r]]
    /\ UNCHANGED <<Store, raced, wake, loop, Push>>

\* The release is on its way already: SABnzbd answers with its id, and the
\* qBittorrent handler counts it as added, which ends in a signal.
Dedup(h) ==
    /\ req[h].pc = "dedup"
    /\ IF FindActiveBySHA(req[h].release) = {} THEN Goto(h, "insert")
       ELSE IF req[h].release \in Torrents THEN GotoWake(h) ELSE Done(h)
    /\ raced' = raced \cup {r \in Releases : \E i, k \in Handlers : i # k /\
           \A g \in {i, k} : req'[g].pc = "insert" /\ req'[g].release = r}
    /\ UNCHANGED <<Store, wake, loop, Push>>

\* Mutant: an id is given out again.
InsertReusingId(h) ==
    /\ req[h].pc = "insert" /\ fresh # {}
    /\ LET j == CHOOSE i \in fresh : \A k \in fresh : i <= k IN
        /\ rows' = [rows EXCEPT ![j] = [NoRow EXCEPT !.state = "NEW"]]
        /\ release' = [release EXCEPT ![j] = req[h].release]
    /\ GotoWake(h)
    /\ UNCHANGED <<fresh, raced, wake, loop, Push>>

\* created_at grows with every insert.
Insert(h) ==
    /\ req[h].pc = "insert" /\ fresh # {}
    /\ LET j == CHOOSE i \in fresh : \A k \in fresh : i <= k IN
        /\ rows' = [rows EXCEPT ![j] = [NoRow EXCEPT !.state = "NEW"]]
        /\ release' = [release EXCEPT ![j] = req[h].release]
        /\ fresh' = fresh \ {j}
    /\ GotoWake(h)
    /\ UNCHANGED <<raced, wake, loop, Push>>

\* Mutant: an unbuffered channel takes the token only from a waiting loop.
SignalWakeUnbuffered(h) ==
    /\ req[h].pc = "wake"
    /\ wake' = (loop.pc = "wait")
    /\ Done(h)
    /\ UNCHANGED <<Store, raced, loop, Push>>

\* signalWake leaves a token unless one lies there.
SignalWake(h) ==
    /\ req[h].pc = "wake"
    /\ wake' = TRUE
    /\ Done(h)
    /\ UNCHANGED <<Store, raced, loop, Push>>

\* The client hangs up, and the statement under way fails.  Only the pause
\* handler goes on to its signal.
HangsUp(h) ==
    /\ \/ req[h].pc \in {"dedup", "insert", "delete"} /\ Done(h)
       \/ req[h].pc \in {"pause", "cancel"} /\ GotoWake(h)
    /\ UNCHANGED <<Store, raced, wake, loop, Push>>

-----------------------------------------------------------------------------
\* torrents/delete and torrents/pause look the job up by its info-hash, which
\* finds active jobs only.
QbitArrives(h) ==
    /\ req[h].pc = "free"
    /\ \E r \in Torrents, pc \in {"delete", "pause"} : \E j \in FindActiveBySHA(r) :
        req' = [req EXCEPT ![h] = [Free EXCEPT !.pc = pc, !.release = r, !.job = j]]
    /\ UNCHANGED <<Store, raced, wake, loop, Push>>

\* The row goes, whatever its state is by now.
QbitDeletes(h) ==
    /\ req[h].pc = "delete"
    /\ rows' = Delete(req[h].job)
    /\ release' = [release EXCEPT ![req[h].job] = NoRelease]
    /\ Done(h)
    /\ UNCHANGED <<fresh, raced, wake, loop, Push>>

\* UpdateState reads the row again ...
QbitPauses(h) ==
    LET state == rows[req[h].job].state IN
    /\ req[h].pc = "pause"
    /\ IF CanTransition(state, "CANCELED")
       THEN req' = [req EXCEPT ![h].pc = "cancel", ![h].state = state]
       ELSE GotoWake(h)
    /\ UNCHANGED <<Store, raced, wake, loop, Push>>

\* ... and cancels the job unless it has moved; nobody looks at the result.
QbitCancels(h) ==
    LET j == req[h].job IN
    /\ req[h].pc = "cancel"
    /\ rows' = Transition(j, req[h].state, "CANCELED", rows[j])
    /\ GotoWake(h)
    /\ UNCHANGED <<release, fresh, raced, wake, loop, Push>>

Step(h) == \/ Dedup(h) \/ Insert(h) \/ SignalWake(h)
           \/ QbitDeletes(h) \/ QbitPauses(h) \/ QbitCancels(h)

-----------------------------------------------------------------------------
\* submitterLoop waits for a token or for its ticker ...
Woken ==
    /\ loop.pc = "wait" /\ wake
    /\ wake' = FALSE
    /\ loop' = [loop EXCEPT !.pc = "claim"]
    /\ UNCHANGED <<Store, req, raced, Push>>

Ticked ==
    /\ loop.pc = "wait"
    /\ loop' = [loop EXCEPT !.pc = "claim"]
    /\ UNCHANGED <<Store, req, raced, wake, Push>>

\* ... claims, and waits until the batch is submitted.
Batch(S) == loop' = [pc |-> IF S = {} THEN "wait" ELSE "submit", batch |-> S]

Claims ==
    LET batch == Oldest(Claimable, PoolSize) IN
    /\ loop.pc = "claim"
    /\ rows' = Claim(batch)
    /\ Batch(batch)
    /\ UNCHANGED <<release, fresh, req, raced, wake, Push>>

Submits(j) ==
    /\ loop.pc = "submit" /\ j \in loop.batch
    /\ rows' = IF Applies(j, "NEW", "SUBMITTED")
               THEN Transition(j, "NEW", "SUBMITTED", [rows[j] EXCEPT !.lease = 0])
               ELSE Release(j)
    /\ Batch(loop.batch \ {j})
    /\ UNCHANGED <<release, fresh, req, raced, wake, Push>>

LoopStep == Woken \/ Claims \/ \E j \in Jobs : Submits(j)

\* A worker ends a submitted job, here always the same way ...
Ends(j) ==
    /\ rows[j].state = "SUBMITTED"
    /\ rows' = Transition(j, "SUBMITTED", "FAILED", rows[j])
    /\ UNCHANGED <<release, fresh, req, raced, wake, loop, Push>>

\* ... or a SABnzbd delete cancels one; its statements act as one (see Puller).
SabCancels(j) ==
    /\ Active(j) /\ release[j] \in Usenet
    /\ rows' = Transition(j, rows[j].state, "CANCELED", rows[j])
    /\ wake' = TRUE
    /\ UNCHANGED <<release, fresh, req, raced, loop, Push>>

-----------------------------------------------------------------------------
\* The webhook names a job, by its TorBox id, its folder or its nzo_id, and wakes
\* the submitter.  If its event is one to notify of, a goroutine goes on.  TorBox
\* may deliver the event again.
WebhookArrives(j) ==
    /\ j \in Noticed /\ Exists(j)
    /\ wake' = TRUE
    /\ \E n \in {0, 1} : /\ notice[j] + pings[j] + n <= MaxNotices
                         /\ notice' = [notice EXCEPT ![j] = @ + n]
    /\ UNCHANGED <<Store, req, raced, loop, sent, pings>>

\* Mutant: the column is written without being looked at.
MarkPushoverSentAgain(j) == Exists(j)

\* MarkPushoverSent changes the row of the first caller only.
MarkPushoverSent(j) == Exists(j) /\ ~sent[j]

\* The goroutine claims the notification and then posts it, once: whether
\* Pushover takes it or not, nobody posts it again.
Notifies(j) ==
    /\ notice[j] > 0
    /\ notice' = [notice EXCEPT ![j] = @ - 1]
    /\ IF MarkPushoverSent(j)
       THEN /\ sent' = [sent EXCEPT ![j] = TRUE]
            /\ pings' = [pings EXCEPT ![j] = @ + 1]
            /\ rows' = Update(j, rows[j])
       ELSE UNCHANGED <<rows, sent, pings>>
    /\ UNCHANGED <<release, fresh, req, raced, wake, loop>>

Next ==
    \/ LoopStep \/ Ticked
    \/ \E h \in Handlers : AddArrives(h) \/ QbitArrives(h) \/ Step(h) \/ HangsUp(h)
    \/ \E j \in Jobs : Ends(j) \/ SabCancels(j) \/ WebhookArrives(j) \/ Notifies(j)

Spec == Init /\ [][Next]_vars

-----------------------------------------------------------------------------
\* Every variable stays in its type, and a handler that holds no job has none
\* to act on (addfile.go, qbit/handlers.go, webhook.go).
TypeOK ==
    /\ RowsOK
    /\ release \in [Jobs -> Releases \cup {NoRelease}]
    /\ fresh \subseteq Jobs /\ \A j \in fresh : rows[j] = NoRow
    /\ req \in [Handlers ->
           [pc : {"free", "dedup", "insert", "wake", "delete", "pause", "cancel"},
            release : Releases \cup {NoRelease}, job : Jobs \cup {0},
            state : JobStates \cup {"NONE"}]]
    /\ \A h \in Handlers : req[h].pc \in {"delete", "pause", "cancel"} => req[h].job \in Jobs
    /\ raced \subseteq Releases
    /\ wake \in BOOLEAN
    /\ loop \in [pc : {"wait", "claim", "submit"}, batch : SUBSET Jobs]
    /\ notice \in [Jobs -> 0..MaxNotices]
    /\ sent \in [Jobs -> BOOLEAN]
    /\ pings \in [Jobs -> 0..MaxNotices]

\* Looking for an active job of the release and inserting one are two
\* statements.  Only requests that were between them at the same time leave two
\* active jobs of a release behind: a client that waits for its answers does
\* not, whatever pauses, deletes and ends come in between (addfile.go acceptNZB,
\* qbit/handlers.go insertJob).
DuplicatesNeedARace == \A r \in Releases : Cardinality(ActiveOf(r)) > 1 => r \in raced

\* Deliveries of the webhook that run at the same time claim the notification
\* first and send it afterwards: a job is never notified twice (webhook.go
\* maybeFirePushover).
NotifiedOnce == \A j \in Jobs : pings[j] <= 1

\* No insert is overlooked, however it falls between two looks at the wake
\* channel: while submitterLoop sleeps on a new job, a token lies in the channel
\* or a handler is about to leave one, so nothing has to wait for the ticker as
\* long as the pool has room (signalWake, submitterLoop).
NoInsertOverlooked ==
    loop.pc = "wait" /\ (\E j \in Jobs : rows[j].state = "NEW")
        => wake \/ \E h \in Handlers : req[h].pc = "wake"
=============================================================================
