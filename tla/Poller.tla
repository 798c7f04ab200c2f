------------------------------- MODULE Poller -------------------------------
(***************************************************************************)
(* internal/worker/poller.go and slots.go: a pass reads the submitted jobs *)
(* and TorBox's list once, then works through the jobs on those readings,  *)
(* one statement after the other, while clients cancel jobs and TorBox     *)
(* goes on.                                                                *)
(*                                                                         *)
(* TorBox is external: the entry of a job waits in a queue, downloads,     *)
(* finishes, fails, or vanishes.  A tick is the five minutes of the        *)
(* poller's grace period; a pass is short against it.                      *)
(***************************************************************************)
EXTENDS JobStore

CONSTANTS Torrents,       \* jobs whose entries are in the torrent list
          GraceTicks,     \* grace of handlePollMissing
          MissingTicks,   \* MaxMissingDuration
          StallTicks,     \* MaxStallDuration
          CeilingTicks,   \* MaxPollDuration
          Size,           \* bound of the model: bytes of a download
          MaxCrashes      \* bound of the model

ASSUME PollerAssumption ==
    /\ Torrents \subseteq Jobs
    /\ {GraceTicks, MissingTicks, StallTicks, CeilingTicks, Size, MaxCrashes} \subseteq Nat
    /\ GraceTicks <= MissingTicks /\ MissingTicks < StallTicks
    /\ StallTicks < CeilingTicks /\ CeilingTicks < ClockCap

VARIABLES entry,    \* TorBox: the entry of each job
          pass,     \* the jobs the pass has not finished, each with the row
                    \* and the entry the pass read
          pc,       \* where the pass is with the first of them
          crashes

vars == <<rows, entry, pass, pc, crashes>>

\* still counts the ticks since a download started or last moved.
Entry == [st : {"queued", "downloading", "done", "failed", "gone"},
          bytes : Nat, still : Nat]
NewEntry == [st |-> "queued", bytes |-> 0, still |-> 0]
Gone(e) == [e EXCEPT !.st = "gone", !.bytes = 0, !.still = 0]

Todo == DOMAIN pass
View(j) == pass[j].row
Listed(j) == pass[j].item

InFlight == {"SUBMITTED", "DOWNLOADING"}

NoPass == [j \in {} |-> [row |-> NoRow, item |-> NewEntry]]

\* TorBox answered the create with a queue id, or without ids.
Init ==
    /\ rows \in [Jobs -> {[NoRow EXCEPT !.state = "SUBMITTED", !.id = i] : i \in {"none", "queue"}}]
    /\ entry = [j \in Jobs |-> NewEntry]
    /\ pass = NoPass
    /\ pc = "match"
    /\ crashes = 0

-----------------------------------------------------------------------------
\* TorBox
EntryMoves(j, e) ==
    /\ entry' = [entry EXCEPT ![j] = e]
    /\ UNCHANGED <<rows, pass, pc, crashes>>

EntryStarts(j) ==
    /\ entry[j].st = "queued"
    /\ EntryMoves(j, [entry[j] EXCEPT !.st = "downloading", !.still = 0])
EntryProgresses(j) ==
    /\ entry[j].st = "downloading" /\ entry[j].bytes < Size
    /\ EntryMoves(j, [entry[j] EXCEPT !.bytes = @ + 1, !.still = 0])
EntryEnds(j) ==
    /\ entry[j].st = "downloading"
    /\ \E st \in {"done", "failed"} : EntryMoves(j, [entry[j] EXCEPT !.st = st, !.still = 0])
EntryVanishes(j) ==
    /\ entry[j].st \in {"queued", "downloading"}
    /\ EntryMoves(j, Gone(entry[j]))

-----------------------------------------------------------------------------
\* A pass that cannot read the jobs or the usenet list does nothing; a failed
\* torrent list only leaves the torrents out.
PollList ==
    /\ Todo = {}
    /\ \E torrentsListed \in BOOLEAN :
        pass' = [j \in ListByStates(InFlight) |->
            [row  |-> rows[j],
             item |-> IF j \in Torrents /\ ~torrentsListed THEN Gone(entry[j]) ELSE entry[j]]]
    /\ UNCHANGED <<rows, entry, pc, crashes>>

\* The pass is with j, at a given place.
At(j, place) == j \in Todo /\ (\A i \in Todo : j <= i) /\ pc = place

\* Mutant: the next job starts where this one ended.
NextJobThere(j) ==
    /\ pass' = [i \in Todo \ {j} |-> pass[i]]
    /\ UNCHANGED <<pc, crashes>>

\* Every ending of one job's turn.
NextJob(j) ==
    /\ pass' = [i \in Todo \ {j} |-> pass[i]]
    /\ pc' = "match"
    /\ UNCHANGED crashes

GotoStep(place) == pc' = place /\ UNCHANGED <<pass, crashes>>

\* handlePollMissing
Lost(j) == View(j).age >= GraceTicks /\ View(j).idle > MissingTicks

PollMissing(j) ==
    /\ At(j, "match") /\ Listed(j).st = "gone"
    /\ rows' = IF Lost(j) THEN Transition(j, View(j).state, "FAILED", rows[j]) ELSE rows
    /\ NextJob(j)
    /\ UNCHANGED entry

\* An entry has an id of its own once it is out of the queue.
EntryId(j) == IF Listed(j).st = "queued" THEN View(j).id ELSE "active"

\* applyMyListItem, its first statement: the ids go to the table only.
PollMatch(j) ==
    /\ At(j, "match") /\ Listed(j).st # "gone"
    /\ rows' = IF EntryId(j) # View(j).id \/ ~View(j).folder
               THEN SetTorboxIDs(j, EntryId(j)) ELSE rows
    /\ GotoStep("outcome")
    /\ UNCHANGED entry

\* Mutant: an entry that failed after its download finished counts as done.
OutcomeFinishedFirst(j) == "COMPLETED_TORBOX"

Outcome(j) == IF Listed(j).st = "failed" THEN "FAILED" ELSE "COMPLETED_TORBOX"

PollEnded(j) ==
    /\ At(j, "outcome") /\ Listed(j).st \in {"failed", "done"}
    /\ rows' = Transition(j, View(j).state, Outcome(j), rows[j])
    /\ NextJob(j)
    /\ UNCHANGED entry

\* A started download moves the row on; the copy in memory stays SUBMITTED.
PollStarted(j) ==
    /\ At(j, "outcome") /\ Listed(j).st \in {"queued", "downloading"}
    /\ rows' = IF View(j).state = "SUBMITTED" /\ Listed(j).st = "downloading"
               THEN Transition(j, "SUBMITTED", "DOWNLOADING", rows[j]) ELSE rows
    /\ GotoStep("progress")
    /\ UNCHANGED entry

\* TorBox tells the size of every download that has bytes.
Sized(j) == Listed(j).bytes > 0

\* Mutant: the copy in memory does not follow.
PollProgressTableOnly(j) ==
    /\ At(j, "progress")
    /\ rows' = IF ~Sized(j) \/ Listed(j).bytes = View(j).bytes
               THEN rows ELSE SetLocalProgress(j, Listed(j).bytes)
    /\ GotoStep("ceilings")
    /\ UNCHANGED entry

\* recordRemoteProgress writes a changed amount, to the table and the copy.
PollProgress(j) ==
    /\ At(j, "progress")
    /\ IF ~Sized(j) \/ Listed(j).bytes = View(j).bytes
       THEN UNCHANGED <<rows, pass>>
       ELSE /\ rows' = SetLocalProgress(j, Listed(j).bytes)
            /\ pass' = [pass EXCEPT ![j].row.bytes = Listed(j).bytes, ![j].row.idle = 0]
    /\ pc' = "ceilings"
    /\ UNCHANGED <<entry, crashes>>

Stalled(j) ==
    /\ Listed(j).st = "downloading"
    /\ View(j).age > StallTicks /\ View(j).idle > StallTicks
\* Mutant: a job TorBox never starts is waited for.
OverdueOnceStarted(j) == View(j).age > CeilingTicks /\ Listed(j).bytes > 0
Overdue(j) == View(j).age > CeilingTicks

PollKeeps(j) ==
    /\ At(j, "ceilings") /\ ~Stalled(j) /\ ~Overdue(j)
    /\ NextJob(j)
    /\ UNCHANGED <<rows, entry>>

\* releaseTorboxSlot, by the id of the copy in memory; it may fail.
ReleaseSlot(j) ==
    /\ At(j, "ceilings") /\ (Stalled(j) \/ Overdue(j))
    /\ \E deleted \in {FALSE, View(j).id # "none"} :
        entry' = [entry EXCEPT ![j] = IF deleted /\ @.st # "gone" THEN Gone(@) ELSE @]
    /\ GotoStep("fail")
    /\ UNCHANGED rows

PollGivesUp(j) ==
    /\ At(j, "fail")
    /\ rows' = Transition(j, View(j).state, "FAILED", rows[j])
    /\ NextJob(j)
    /\ UNCHANGED entry

PollStep(j) == \/ PollMissing(j) \/ PollMatch(j) \/ PollEnded(j) \/ PollStarted(j)
               \/ PollProgress(j) \/ PollKeeps(j) \/ ReleaseSlot(j) \/ PollGivesUp(j)

-----------------------------------------------------------------------------
\* A client cancels the job, and with del_files Discard deletes the entry.
Cancel(j) ==
    /\ rows[j].state \in InFlight
    /\ rows' = Transition(j, rows[j].state, "CANCELED", rows[j])
    /\ \E deleted \in {FALSE, rows[j].id # "none"} :
        entry' = [entry EXCEPT ![j] = IF deleted /\ @.st # "gone" THEN Gone(@) ELSE @]
    /\ UNCHANGED <<pass, pc, crashes>>

OlderEntry(e) ==
    [e EXCEPT !.still = IF e.st = "downloading" THEN CountUp(@) ELSE @]

Tick ==
    /\ Todo = {}
    /\ rows' = AgedRows
    /\ entry' = [j \in Jobs |-> OlderEntry(entry[j])]
    /\ UNCHANGED <<pass, pc, crashes>>

Crash ==
    /\ crashes < MaxCrashes
    /\ crashes' = crashes + 1
    /\ pass' = NoPass /\ pc' = "match"
    /\ UNCHANGED <<rows, entry>>

Next ==
    \/ PollList \/ Tick \/ Crash
    \/ \E j \in Jobs : \/ PollStep(j) \/ Cancel(j)
                       \/ EntryStarts(j) \/ EntryProgresses(j)
                       \/ EntryEnds(j) \/ EntryVanishes(j)

\* The ticker beats, TorBox's usenet list can be read now and then, the pass
\* goes on, and time passes whatever the passes do.
Fairness ==
    /\ WF_vars(PollList)
    /\ \A j \in Jobs : WF_vars(PollStep(j))
    /\ SF_vars(Tick)

Spec == Init /\ [][Next]_vars /\ Fairness

-----------------------------------------------------------------------------
\* Every variable stays in its type, and a pass that has ended left no job half
\* way (poller.go pollOnce, applyMyListItem).
TypeOK ==
    /\ RowsOK
    /\ entry \in [Jobs -> Entry]
    /\ Todo \subseteq Jobs
    /\ pass \in [Todo -> [row : Row, item : Entry]]
    /\ pc \in {"match", "outcome", "progress", "ceilings", "fail"}
    /\ Todo = {} => pc = "match"
    /\ crashes \in 0..MaxCrashes

\* A job only moves along the state machine, whatever happened to its row
\* between the read at the start of the pass and the write (poller.go, state.go).
RefinesLifecycle == LC!Spec

\* A job is handed to the puller only when TorBox really finished it, however
\* old the list of the pass is (poller.go applyMyListItem).
CompletedIsDone ==
    \A j \in Jobs : rows[j].state = "COMPLETED_TORBOX" => entry[j].st = "done"

\* A download the poller has already seen running is given up as frozen only
\* after its bytes stood still for the whole stall window: comparing the copy
\* in memory against the clock never catches one that is merely slow
\* (poller.go applyMyListItem, recordRemoteProgress).
MovingDownloadsSurvive ==
    [][\A j \in Jobs :
        ReleaseSlot(j) /\ ~Overdue(j) /\ View(j).state = "DOWNLOADING"
            => Listed(j).still > StallTicks]_vars

\* No job stays in TorBox's hands for good, whatever TorBox does with the
\* entry: the ceilings of the poller end every wait (poller.go MaxPollDuration).
JobsLeaveTorbox ==
    \A j \in Jobs : rows[j].state \in InFlight ~> rows[j].state \notin InFlight

\* slots.go: the job whose entry TorBox was asked to delete ends as failed (or
\* had been ended by somebody else), even when the delete failed.
GivenUpJobFails ==
    [][\A j \in Jobs : PollGivesUp(j) /\ View(j).id # "none"
                           => rows'[j].state \in Terminal]_vars
=============================================================================
