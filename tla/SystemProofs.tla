---------------------------- MODULE SystemProofs ----------------------------
(***************************************************************************)
(* Theorems about System, the loops and the requests at work together, for *)
(* every set of jobs, every size of the pools, every number of attempts,   *)
(* requests and crashes.                                                   *)
(*                                                                         *)
(* The invariant IInv speaks of one job at a time, so the proof does too:  *)
(* Good(j) is its part about j.  A step of one job leaves the others       *)
(* Untouched and has to be looked at for that job only; what it does to    *)
(* the row, to the pull, to the request and so on is a lemma each, and the *)
(* lemma that ends in Good puts them together.  The steps that concern     *)
(* every job at once follow, then the theorems.                            *)
(***************************************************************************)
EXTENDS System, JobStoreProofs

-----------------------------------------------------------------------------
(***************************************************************************)
(* The statements of the job table are those of JobStoreProofs, whichever  *)
(* of the three workers names them (internal/store/jobs.go).               *)
(***************************************************************************)

\* The statements the submitter uses.
LEMMA SubmitterStatements ==
    /\ S!Row = Row /\ S!NoRow = NoRow
    /\ \A j, from, to, r : S!Transition(j, from, to, r) = Transition(j, from, to, r)
    /\ \A j, from, to : S!Applies(j, from, to) <=> Applies(j, from, to)
    /\ \A j, n : S!AttemptFailure(j, n) = AttemptFailure(j, n)
    /\ \A j, n : S!Reschedule(j, n) = Reschedule(j, n)
    /\ \A j : S!Release(j) = Release(j)
    /\ \A B : S!Claim(B) = Claim(B)
  BY DEF S!Row, Row, S!NoRow, NoRow, S!Transition, Transition, S!Applies, Applies,
     S!CanTransition, CanTransition, S!Successors, Successors, S!Update, Update,
     S!Exists, Exists, S!AttemptFailure, AttemptFailure, S!Reschedule, Reschedule,
     S!Release, Release, S!Claim, Claim, S!JobStates, JobStates, S!ActiveStates, ActiveStates,
     S!Terminal, Terminal

\* Those of the poller.
LEMMA PollerStatements ==
    /\ P!Row = Row /\ P!NoRow = NoRow
    /\ \A j, from, to, r : P!Transition(j, from, to, r) = Transition(j, from, to, r)
    /\ \A j, id : P!SetTorboxIDs(j, id) = SetTorboxIDs(j, id)
    /\ \A j, n : P!SetLocalProgress(j, n) = SetLocalProgress(j, n)
  BY DEF P!Row, Row, P!NoRow, NoRow, P!Transition, Transition, P!Applies, Applies,
     P!CanTransition, CanTransition, P!Successors, Successors, P!Update, Update,
     P!Exists, Exists, P!SetTorboxIDs, SetTorboxIDs, P!SetLocalProgress, SetLocalProgress,
     P!JobStates, JobStates, P!ActiveStates, ActiveStates, P!Terminal, Terminal

\* Those of the puller and of SABnzbd's deletes.
LEMMA PullerStatements ==
    /\ U!Row = Row /\ U!JobStates = JobStates /\ U!Terminal = Terminal
    /\ \A j, from, to, r : U!Transition(j, from, to, r) = Transition(j, from, to, r)
    /\ \A j, from, to : U!Applies(j, from, to) <=> Applies(j, from, to)
    /\ \A j : U!MarkLocalReady(j) = MarkLocalReady(j)
    /\ \A j, n : U!AttemptFailure(j, n) = AttemptFailure(j, n)
    /\ \A j, n : U!Reschedule(j, n) = Reschedule(j, n)
    /\ \A j : U!Delete(j) = Delete(j)
  BY DEF U!Row, Row, U!NoRow, NoRow, U!Transition, Transition, U!Applies, Applies,
     U!CanTransition, CanTransition, U!Successors, Successors, U!Update, Update,
     U!Exists, Exists, U!AttemptFailure, AttemptFailure, U!Reschedule, Reschedule,
     U!MarkLocalReady, MarkLocalReady, U!Delete, Delete,
     U!JobStates, JobStates, U!ActiveStates, ActiveStates, U!Terminal, Terminal

-----------------------------------------------------------------------------
(***************************************************************************)
(* TypeOK, variable by variable                                            *)
(***************************************************************************)
Goroutine == [pc : {"none", "create", "accepted"}, attempts : Nat,
              id : {"none", "queue", "active"}]
Reading == [row : Row, item : P!Entry]
QbitRequest == [pc : {"idle", "remove", "drop"}, dir : BOOLEAN]

SubmitterTyped ==
    /\ rows \in [Jobs -> Row]
    /\ sub \in [Jobs -> Goroutine]
    /\ created \in [Jobs -> Nat] /\ lost \in [Jobs -> Nat]
    /\ crashes \in 0..MaxCrashes

PollerTyped ==
    /\ entry \in [Jobs -> P!Entry]
    /\ DOMAIN pass \subseteq Jobs
    /\ pass \in [DOMAIN pass -> Reading]
    /\ pc \in {"match", "outcome", "progress", "ceilings", "fail"}
    /\ DOMAIN pass = {} => pc = "match"

PullerTyped ==
    /\ todo \subseteq Jobs
    /\ seen \in [Jobs -> U!Seen]
    /\ pull \in [Jobs -> U!Pull]
    /\ since \in [Jobs -> 0..ArchiveTicks \cup {-1}]
    /\ disk \in [Jobs -> {"none", "partial", "full"}]

RequestsTyped ==
    /\ client \in [Jobs -> U!Request]
    /\ asked \in [Jobs -> {"none", "queue", "active"}]
    /\ qbit \in [Jobs -> QbitRequest]
    /\ asks \in [Jobs -> 0..MaxRequests]

HistoryTyped ==
    /\ excuse \in [Jobs -> BOOLEAN] /\ dropped \in [Jobs -> BOOLEAN]
    /\ wiped \in [Jobs -> {"no", "now", "once"}]

Typed == SubmitterTyped /\ PollerTyped /\ PullerTyped /\ RequestsTyped /\ HistoryTyped

\* The types, with the names of this module.
LEMMA TypedIsTypeOK == TypeOK <=> Typed
  BY SubmitterStatements, PollerStatements, PullerStatements
     DEF TypeOK, S!TypeOK, P!TypeOK, U!TypeOK, S!RowsOK, P!RowsOK, U!RowsOK, U!Unseen,
         P!Todo, Typed, SubmitterTyped, PollerTyped, PullerTyped, RequestsTyped,
         HistoryTyped, Goroutine, Reading, QbitRequest

-----------------------------------------------------------------------------
(***************************************************************************)
(* One job at a time                                                       *)
(***************************************************************************)
\* The pass is about to fail job i.
AtFail(i) == i \in DOMAIN pass /\ (\A k \in DOMAIN pass : i <= k) /\ pc = "fail"

\* LoopsApart, about job i ...
ApartHolds(i) ==
    /\ sub[i].pc # "none" => rows[i].state \in {"NEW", "CANCELED", "NONE"}
    /\ Early(i) => i \notin DOMAIN pass /\ i \notin todo /\ pull[i].pc = "none"

\* ... SubmitAttemptsHold ...
SpentHolds(i) ==
    /\ rows[i].state = "NEW" => rows[i].attempts < MaxSubmitAttempts
    /\ sub[i].pc # "none" => /\ sub[i].attempts < MaxSubmitAttempts
                             /\ rows[i].attempts <= sub[i].attempts

\* ... EntriesHold ...
EntryHolds(i) ==
    /\ Waiting(i) => \/ excuse[i] \/ sub[i].pc = "accepted" \/ Releases(i)
                     \/ rows[i].state \in {"SUBMITTED", "DOWNLOADING"}
    /\ asked[i] # "none" => client[i].pc # "idle" /\ client[i].del

\* ... PassHolds ...
PassHold(i) ==
    i \in DOMAIN pass /\ (pass[i].item.st \notin {"queued", "downloading"} \/ AtFail(i))
        => ~Waiting(i) \/ excuse[i]

\* ... FilesHold ...
Sign(i) == rows[i].state = "READY" \/ rows[i].local \/ seen[i].local \/ pull[i].pc = "store"
Gone(i) == rows[i].state \in {"CANCELED", "NONE"}
FileHolds(i) == wiped[i] = "no" /\ ~Gone(i) /\ Sign(i) => disk[i] = "full"

\* ... and the two parts of PullerIsRight.
RequestHolds(i) ==
    /\ client[i].pc \in {"abort", "waiting", "remove", "drop"} => Gone(i)
    /\ client[i].pc = "got" /\ client[i].state \in Terminal
           => rows[i].state \in {client[i].state, "NONE"}

Trying(i) == pull[i].pc \in {"lookup", "files", "download"}
AttemptHolds(i) ==
    /\ rows[i].attempts <= MaxRetries
    /\ i \in todo => rows[i].attempts <= seen[i].attempts + 1
    /\ i \in todo /\ Trying(i) => rows[i].attempts <= seen[i].attempts
    /\ Trying(i) => rows[i].attempts <= pull[i].attempts + 1

Good(i) ==
    /\ ApartHolds(i) /\ SpentHolds(i) /\ EntryHolds(i) /\ PassHold(i)
    /\ FileHolds(i) /\ RequestHolds(i) /\ AttemptHolds(i)

\* The invariant is that every job is right.
LEMMA GoodIsIInv ==
    ASSUME Typed
    PROVE  IInv <=> \A i \in Jobs : Good(i)
  <1>1. LoopsApart <=> \A i \in Jobs : ApartHolds(i)
    BY DEF LoopsApart, ApartHolds, U!Withdrawn, P!Todo
  <1>2. SubmitAttemptsHold <=> \A i \in Jobs : SpentHolds(i)
    BY DEF SubmitAttemptsHold, SpentHolds
  <1>3. EntriesHold <=> \A i \in Jobs : EntryHolds(i)
    BY DEF EntriesHold, EntryHolds, P!InFlight
  <1>4. PassHolds <=> \A i \in Jobs : PassHold(i)
    BY DEF PassHolds, PassHold, P!Todo, P!Listed, P!At, AtFail, Typed, PollerTyped
  <1>5. FilesHold <=> \A i \in Jobs : FileHolds(i)
    BY DEF FilesHold, FileHolds, U!Withdrawn, Gone, Sign
  <1>6. U!RequestsHold <=> \A i \in Jobs : RequestHolds(i)
    BY PullerStatements DEF U!RequestsHold, RequestHolds, U!Withdrawn, Gone
  <1>7. U!AttemptsHold <=> \A i \in Jobs : AttemptHolds(i)
    BY DEF U!AttemptsHold, AttemptHolds, U!CanRetry, Trying
  <1> QED BY <1>1, <1>2, <1>3, <1>4, <1>5, <1>6, <1>7 DEF IInv, Good, PullerIsRight

\* A step of another job: of this one it changes the clocks of the row at most.
Untouched(i) ==
    /\ SameCore(rows'[i], rows[i])
    /\ sub'[i] = sub[i] /\ entry'[i] = entry[i]
    /\ i \in DOMAIN pass' <=> i \in DOMAIN pass
    /\ i \in DOMAIN pass => pass'[i].item = pass[i].item
    /\ AtFail(i)' => AtFail(i)
    /\ i \in todo' <=> i \in todo
    /\ seen'[i] = seen[i] /\ pull'[i] = pull[i] /\ disk'[i] = disk[i]
    /\ client'[i] = client[i] /\ asked'[i] = asked[i]
    /\ excuse'[i] = excuse[i] /\ wiped'[i] = wiped[i] /\ dropped'[i] = dropped[i]

\* A job nobody touched stays right.
LEMMA UntouchedStaysGood ==
    ASSUME NEW i \in Jobs, Untouched(i), Good(i)
    PROVE  Good(i)'
  <1>1. rows'[i].state = rows[i].state /\ rows'[i].attempts = rows[i].attempts
        /\ rows'[i].local = rows[i].local
    BY DEF Untouched, SameCore
  <1>2. ApartHolds(i)' /\ SpentHolds(i)'
    BY <1>1 DEF Untouched, Good, ApartHolds, SpentHolds, Early
  <1>3. EntryHolds(i)'
    BY <1>1 DEF Untouched, Good, EntryHolds, Waiting, Releases
  <1>4. PassHold(i)'
    BY <1>1 DEF Untouched, Good, PassHold, Waiting
  <1>5. FileHolds(i)' /\ RequestHolds(i)' /\ AttemptHolds(i)'
    BY <1>1 DEF Untouched, Good, FileHolds, Gone, Sign, RequestHolds, AttemptHolds, Trying
  <1> QED BY <1>2, <1>3, <1>4, <1>5 DEF Good

-----------------------------------------------------------------------------
(***************************************************************************)
(* The submitter                                                           *)
(***************************************************************************)
\* The states the code names are states.
LEMMA StateNames == {"NEW", "SUBMITTED", "DOWNLOADING", "COMPLETED_TORBOX",
                     "READY", "FAILED", "CANCELED"} \subseteq JobStates
  BY DEF JobStates, ActiveStates, Terminal

\* A statement about the row of j, what a failed create does to it, and how a
\* job leaves the submitter.
OnRow(j) == rows' \in [Jobs -> Row] /\ \A i \in Jobs \ {j} : rows'[i] = rows[i]

Spends(j) == /\ rows'[j].state = rows[j].state /\ rows'[j].local = rows[j].local
             /\ rows'[j].attempts = rows[j].attempts + 1
             /\ sub[j].attempts + 1 < MaxSubmitAttempts

Leaves(j) == /\ rows[j].state = "NEW" /\ rows'[j].state \in {"SUBMITTED", "FAILED"}
             /\ rows'[j].local = rows[j].local
             /\ rows'[j].attempts \in {rows[j].attempts, rows[j].attempts + 1}

\* A failed create: the attempt is counted, or the last one ends the job
\* (submitter.go handleFailure).
LEMMA HandleFailureRow ==
    ASSUME Typed, NEW j \in Jobs, rows' = S!HandleFailure(j)
    PROVE  /\ OnRow(j)
           /\ SameCore(rows'[j], rows[j]) \/ Spends(j) \/ Leaves(j)
  <1>1. RowsOK /\ rows[j] \in Row /\ sub[j].attempts \in Nat /\ rows[j].attempts \in Nat
    BY DEF Typed, SubmitterTyped, RowsOK, Goroutine, Row
  <1>2. CASE sub[j].attempts + 1 >= MaxSubmitAttempts
    <2> DEFINE r == [rows[j] EXCEPT !.lease = 0, !.attempts = @ + 1]
    <2>1. rows' = Transition(j, "NEW", "FAILED", r)
      BY <1>2, SubmitterStatements DEF S!HandleFailure
    <2>2. r \in Row /\ r.attempts = rows[j].attempts + 1 /\ r.local = rows[j].local
      <3>1. rows[j].attempts + 1 \in Nat
        BY <1>1
      <3> QED BY <1>1, <3>1 DEF Row
    <2> HIDE DEF r
    <2>3. PICK x \in Row : x = r
      BY <2>2
    <2>4. rows' = Transition(j, "NEW", "FAILED", x) /\ "FAILED" \in JobStates
      BY <2>1, <2>3, StateNames
    <2>5. CASE Applies(j, "NEW", "FAILED")
      BY <1>1, <2>2, <2>3, <2>4, <2>5, TransitionMoves
         DEF OnRow, MovesOn, Leaves, Applies
    <2>6. CASE ~Applies(j, "NEW", "FAILED")
      BY <1>1, <2>2, <2>3, <2>4, <2>6, TransitionMoves DEF OnRow, MovesOn, SameCore
    <2> QED BY <2>5, <2>6
  <1>3. CASE ~(sub[j].attempts + 1 >= MaxSubmitAttempts)
    <2>1. rows' = AttemptFailure(j, BackoffTicks) /\ BackoffTicks \in Nat
          /\ sub[j].attempts + 1 < MaxSubmitAttempts
      BY <1>1, <1>3, SubmitterStatements, SystemAssumption DEF S!HandleFailure
    <2> QED BY <1>1, <2>1, AttemptFailureCounts DEF OnRow, SameCore, Spends
  <1> QED BY <1>2, <1>3

\* What a goroutine's last statement does to its row; a recorded reply makes a
\* new job SUBMITTED (submitter.go submitOne).
LEMMA SubmitterRow ==
    ASSUME Typed, NEW j \in Jobs, S!SubmitStep(j) \/ S!ReplyLost(j)
    PROVE  /\ OnRow(j)
           /\ SameCore(rows'[j], rows[j]) \/ Spends(j) \/ Leaves(j)
           /\ S!Submitted(j) /\ rows[j].state = "NEW" => rows'[j].state = "SUBMITTED"
  <1>1. RowsOK /\ rows[j] \in Row /\ sub[j] \in Goroutine
    BY DEF Typed, SubmitterTyped, RowsOK
  <1>2. CASE S!SubmitEmpty(j)
    <2> DEFINE r == [rows[j] EXCEPT !.lease = 0]
    <2>1. rows' = Transition(j, "NEW", "FAILED", r)
      BY <1>2, SubmitterStatements DEF S!SubmitEmpty
    <2>2. r \in Row /\ r.attempts = rows[j].attempts /\ r.local = rows[j].local
      BY <1>1 DEF Row
    <2>0. ~S!Submitted(j)
      BY <1>2 DEF S!SubmitEmpty, S!Submitted
    <2> HIDE DEF r
    <2>3. PICK x \in Row : x = r
      BY <2>2
    <2>4. rows' = Transition(j, "NEW", "FAILED", x) /\ "FAILED" \in JobStates
      BY <2>1, <2>3, StateNames
    <2>5. CASE Applies(j, "NEW", "FAILED")
      BY <1>1, <2>0, <2>2, <2>3, <2>4, <2>5, TransitionMoves
         DEF OnRow, MovesOn, Leaves, Applies
    <2>6. CASE ~Applies(j, "NEW", "FAILED")
      BY <1>1, <2>0, <2>2, <2>3, <2>4, <2>6, TransitionMoves DEF OnRow, MovesOn, SameCore
    <2> QED BY <2>5, <2>6
  <1>3. CASE S!Submitted(j)
    <2>1. CASE Applies(j, "NEW", "SUBMITTED")
      <3> DEFINE r == [rows[j] EXCEPT !.lease = 0, !.id = sub[j].id]
      <3>1. rows' = Transition(j, "NEW", "SUBMITTED", r)
        BY <1>3, <2>1, SubmitterStatements DEF S!Submitted
      <3>2. r \in Row /\ r.attempts = rows[j].attempts /\ r.local = rows[j].local
        BY <1>1 DEF Row, Goroutine
      <3> HIDE DEF r
      <3>3. PICK x \in Row : x = r
        BY <3>2
      <3>4. rows' = Transition(j, "NEW", "SUBMITTED", x) /\ "SUBMITTED" \in JobStates
        BY <3>1, <3>3, StateNames
      <3> QED BY <1>1, <2>1, <3>2, <3>3, <3>4, TransitionMoves
           DEF OnRow, MovesOn, SameCore, Leaves, Applies
    <2>2. CASE ~Applies(j, "NEW", "SUBMITTED")
      <3>1. rows' = Release(j) /\ rows[j].state # "NEW"
        BY <1>3, <2>2, SubmitterStatements DEF S!Submitted, Applies, CanTransition, Successors
      <3> QED BY <1>1, <3>1, ReleaseKeeps DEF OnRow
    <2> QED BY <2>1, <2>2
  <1>4. CASE S!SubmitLimited(j)
    <2>1. rows' = Reschedule(j, LimitTicks) /\ LimitTicks \in Nat /\ ~S!Submitted(j)
      BY <1>4, SubmitterStatements, SystemAssumption DEF S!SubmitLimited, S!Submitted
    <2> QED BY <1>1, <2>1, RescheduleKeeps DEF OnRow
  <1>5. CASE S!SubmitFails(j)
    BY <1>5, HandleFailureRow DEF S!SubmitFails, S!Submitted
  <1>6. CASE S!ReplyLost(j)
    <2>1. CASE ~S!Submitted(j)
      BY <1>6, <2>1, HandleFailureRow DEF S!ReplyLost
    <2>2. CASE S!Submitted(j)
      BY <1>3, <2>2
    <2> QED BY <2>1, <2>2
  <1> QED BY <1>2, <1>3, <1>4, <1>5, <1>6 DEF S!SubmitStep

\* What has to be shown of a step of job j.
Fine(j) == Typed' /\ (\A i \in Jobs \ {j} : Untouched(i)) /\ Good(j)'

\* What a step of the submitter leaves alone.
SubmitterFrame ==
    /\ UNCHANGED <<todo, seen, pull, since, disk, client, asked, qbit, asks, pass, pc>>
    /\ UNCHANGED <<wiped, dropped>>

\* What the submitter leaves alone.
LEMMA SubmitterFramed ==
    ASSUME NEW j \in Jobs, Accepts(j) \/ Duplicate(j) \/ SubmitStep(j) \/ ReplyLost(j)
    PROVE  SubmitterFrame
  BY DEF Accepts, Duplicate, SubmitStep, ReplyLost, SubmitterFrame, poller, puller,
         requests, history

\* Its steps keep the types and the other jobs.
LEMMA SubmitterTypes ==
    ASSUME Typed, NEW j \in Jobs, Accepts(j) \/ Duplicate(j) \/ SubmitStep(j) \/ ReplyLost(j)
    PROVE  /\ Typed'
           /\ \A i \in Jobs \ {j} : Untouched(i)
  <1>0. SubmitterFrame
    BY SubmitterFramed
  <1>1. PollerTyped' \/ ~(entry' \in [Jobs -> P!Entry])
    BY <1>0 DEF Typed, PollerTyped, SubmitterFrame
  <1>2. PullerTyped' /\ RequestsTyped'
    BY <1>0 DEF Typed, PullerTyped, RequestsTyped, SubmitterFrame
  <1>3. HistoryTyped' /\ entry' \in [Jobs -> P!Entry]
        /\ \A i \in Jobs \ {j} : excuse'[i] = excuse[i] /\ entry'[i] = entry[i]
    <2>1. P!NewEntry \in P!Entry
      BY DEF P!NewEntry, P!Entry
    <2>2. CASE Accepts(j)
      BY <1>0, <2>1, <2>2 DEF Accepts, history, SubmitterFrame, Typed, HistoryTyped, PollerTyped
    <2>3. CASE Duplicate(j)
      BY <1>0, <2>3 DEF Duplicate, history, SubmitterFrame, Typed, HistoryTyped, PollerTyped
    <2>4. CASE SubmitStep(j)
      BY <1>0, <2>4 DEF SubmitStep, Excused, SubmitterFrame, Typed, HistoryTyped, PollerTyped
    <2>5. CASE ReplyLost(j)
      BY <1>0, <2>5 DEF ReplyLost, Excused, SubmitterFrame, Typed, HistoryTyped, PollerTyped
    <2> QED BY <2>2, <2>3, <2>4, <2>5
  <1>4. SubmitterTyped' /\ \A i \in Jobs \ {j} : rows'[i] = rows[i] /\ sub'[i] = sub[i]
    <2>1. sub[j] \in Goroutine
      BY DEF Typed, SubmitterTyped
    <2>2. CASE Accepts(j)
      <3>1. PICK id \in {"queue", "active"} :
                sub' = [sub EXCEPT ![j].pc = "accepted", ![j].id = id]
        BY <2>2 DEF Accepts, S!TorboxAccepts
      <3> QED BY <2>1, <2>2, <3>1
           DEF Accepts, S!TorboxAccepts, Typed, SubmitterTyped, Goroutine
    <2>3. CASE Duplicate(j)
      BY <2>1, <2>3 DEF Duplicate, S!TorboxDuplicate, Typed, SubmitterTyped, Goroutine
    <2>4. CASE SubmitStep(j) \/ ReplyLost(j)
      <3>1. S!SubmitStep(j) \/ S!ReplyLost(j)
        BY <2>4 DEF SubmitStep, ReplyLost
      <3>2. S!Idle \in Goroutine
        BY DEF S!Idle, Goroutine
      <3>3. sub' = [sub EXCEPT ![j] = S!Idle] /\ created' = created /\ crashes' = crashes
            /\ (lost' = lost \/ lost' = [lost EXCEPT ![j] = @ + 1])
        BY <3>1 DEF S!SubmitStep, S!ReplyLost, S!SubmitEmpty, S!Submitted, S!SubmitLimited,
                    S!SubmitFails, S!Return
      <3>4. OnRow(j)
        BY <3>1, SubmitterRow
      <3>5. lost' \in [Jobs -> Nat]
        BY <3>3 DEF Typed, SubmitterTyped
      <3>6. sub' \in [Jobs -> Goroutine] /\ \A i \in Jobs \ {j} : sub'[i] = sub[i]
        BY <3>2, <3>3 DEF Typed, SubmitterTyped
      <3> QED BY <3>3, <3>4, <3>5, <3>6 DEF OnRow, Typed, SubmitterTyped
    <2> QED BY <2>2, <2>3, <2>4
  <1>5. ASSUME NEW i \in Jobs \ {j} PROVE Untouched(i)
    BY <1>0, <1>3, <1>4 DEF Untouched, SameCore, SubmitterFrame, AtFail
  <1> QED BY <1>1, <1>2, <1>3, <1>4, <1>5 DEF Typed

\* They keep the job right: it was new or withdrawn, so neither poller nor
\* puller knew of it, and a reply that cannot be recorded has an excuse.
LEMMA SubmitterGood ==
    ASSUME Typed, NEW j \in Jobs, Good(j),
           Accepts(j) \/ Duplicate(j) \/ SubmitStep(j) \/ ReplyLost(j)
    PROVE  Good(j)'
  <1>0. SubmitterFrame /\ sub[j] \in Goroutine /\ rows[j] \in Row
        /\ MaxSubmitAttempts \in Nat /\ MaxRetries \in Nat /\ MaxSubmitAttempts <= MaxRetries
    BY SubmitterFramed, SystemAssumption DEF Typed, SubmitterTyped
  <1>1. Early(j) /\ sub[j].pc # "none"
    BY DEF Early, Accepts, Duplicate, SubmitStep, ReplyLost, S!TorboxAccepts, S!TorboxDuplicate,
           S!SubmitStep, S!ReplyLost, S!SubmitEmpty, S!Submitted, S!SubmitLimited, S!SubmitFails
  <1>2. /\ rows[j].state \in {"NEW", "CANCELED", "NONE"}
        /\ j \notin DOMAIN pass /\ j \notin todo /\ pull[j].pc = "none"
        /\ sub[j].attempts < MaxSubmitAttempts
        /\ rows[j].attempts <= sub[j].attempts
        /\ rows[j].state = "NEW" => rows[j].attempts < MaxSubmitAttempts
    BY <1>1 DEF Good, ApartHolds, SpentHolds
  <1>3. CASE Accepts(j) \/ Duplicate(j)
    <2>1. rows' = rows /\ sub'[j].pc = "accepted" /\ sub'[j].attempts = sub[j].attempts
      <3>1. CASE Accepts(j)
        BY <1>0, <3>1 DEF Accepts, S!TorboxAccepts, Typed, SubmitterTyped, Goroutine
      <3>2. CASE Duplicate(j)
        BY <1>0, <3>2 DEF Duplicate, S!TorboxDuplicate, Typed, SubmitterTyped, Goroutine
      <3> QED BY <1>3, <3>1, <3>2
    <2>2. excuse' = excuse
      BY <1>3 DEF Accepts, Duplicate, history
    <2> QED BY <1>0, <1>2, <2>1, <2>2
         DEF Good, ApartHolds, SpentHolds, EntryHolds, PassHold, FileHolds, RequestHolds,
             AttemptHolds, SubmitterFrame, Early, Waiting, Releases, Gone, Sign, Trying
  <1>4. CASE SubmitStep(j) \/ ReplyLost(j)
    <2>1. S!SubmitStep(j) \/ S!ReplyLost(j)
      BY <1>4 DEF SubmitStep, ReplyLost
    <2>2. sub'[j].pc = "none" /\ entry' = entry
      <3>1. sub' = [sub EXCEPT ![j] = S!Idle]
        BY <2>1 DEF S!SubmitStep, S!ReplyLost, S!SubmitEmpty, S!Submitted, S!SubmitLimited,
                    S!SubmitFails, S!Return
      <3>2. sub'[j] = S!Idle
        BY <3>1 DEF Typed, SubmitterTyped
      <3>3. S!Idle.pc = "none"
        BY DEF S!Idle
      <3>4. entry' = entry
        BY <1>4 DEF SubmitStep, ReplyLost
      <3> QED BY <3>2, <3>3, <3>4
    <2>3. SameCore(rows'[j], rows[j]) \/ Spends(j) \/ Leaves(j)
      BY <2>1, SubmitterRow
    <2>4. rows[j].attempts \in Nat /\ sub[j].attempts \in Nat
      BY <1>0 DEF Row, Goroutine
    <2>5. ApartHolds(j)'
      BY <1>0, <1>2, <2>2 DEF ApartHolds, SubmitterFrame, Early
    <2>6. SpentHolds(j)'
      BY <1>0, <1>2, <2>2, <2>3, <2>4 DEF SpentHolds, SameCore, Spends, Leaves
    <2>7. EntryHolds(j)'
      <3>1. excuse[j] => excuse'[j]
        BY <1>4 DEF SubmitStep, ReplyLost, Excused, Typed, HistoryTyped
      <3>2. sub[j].pc = "accepted"
                => excuse'[j] \/ rows'[j].state = "SUBMITTED"
        <4>1. CASE ReplyLost(j)
          BY <4>1 DEF ReplyLost, Excused, Typed, HistoryTyped
        <4>2. CASE SubmitStep(j)
          <5>1. sub[j].pc = "accepted" => S!Submitted(j)
            BY <4>2 DEF SubmitStep, S!SubmitStep, S!SubmitEmpty, S!SubmitLimited, S!SubmitFails
          <5>2. S!Submitted(j) /\ rows[j].state # "NEW" => excuse'[j]
            BY <4>2 DEF SubmitStep, Excused, Typed, HistoryTyped
          <5> QED BY <2>1, <5>1, <5>2, SubmitterRow
        <4> QED BY <1>4, <4>1, <4>2
      <3> QED BY <1>0, <1>2, <2>2, <3>1, <3>2
           DEF Good, EntryHolds, SubmitterFrame, Waiting, Releases
    <2>8. PassHold(j)'
      BY <1>0, <1>2 DEF PassHold, SubmitterFrame
    <2>9. FileHolds(j)'
      BY <1>0, <1>2, <2>3
         DEF Good, FileHolds, SubmitterFrame, Gone, Sign, SameCore, Spends, Leaves
    <2>10. RequestHolds(j)'
      BY <1>0, <1>2, <2>3
         DEF Good, RequestHolds, SubmitterFrame, Gone, SameCore, Spends, Leaves, Terminal
    <2>11. AttemptHolds(j)'
      BY <1>0, <1>2, <2>3, <2>4
         DEF Good, AttemptHolds, SubmitterFrame, Trying, SameCore, Spends, Leaves
    <2> QED BY <2>5, <2>6, <2>7, <2>8, <2>9, <2>10, <2>11 DEF Good
  <1> QED BY <1>3, <1>4

-----------------------------------------------------------------------------
(***************************************************************************)
(* The poller and TorBox                                                   *)
(***************************************************************************)
\* A compare-and-swap that sets no column (jobs.go Transition).
LEMMA SwapRow ==
    ASSUME Typed, NEW j \in Jobs, NEW from, NEW to \in JobStates,
           rows' = Transition(j, from, to, rows[j])
    PROVE  /\ OnRow(j)
           /\ rows'[j].attempts = rows[j].attempts /\ rows'[j].local = rows[j].local
           /\ \/ rows'[j].state = rows[j].state
              \/ /\ rows[j].state = from /\ rows'[j].state = to
                 /\ CanTransition(rows[j].state, rows'[j].state)
           /\ Applies(j, from, to) => rows'[j].state = to
           /\ ~Applies(j, from, to) => rows' = rows
  <1>1. RowsOK /\ rows[j] \in Row
    BY DEF Typed, SubmitterTyped, RowsOK
  <1>2. CASE Applies(j, from, to)
    BY <1>1, <1>2, TransitionMoves DEF OnRow, MovesOn, Applies
  <1>3. CASE ~Applies(j, from, to)
    BY <1>1, <1>3, TransitionMoves DEF OnRow, MovesOn
  <1> QED BY <1>2, <1>3

\* The pass has grounds to end j, and what a step of the poller writes.
Decided(j) == pass[j].item.st \notin {"queued", "downloading"} \/ AtFail(j)

PollsRow(j) ==
    /\ OnRow(j)
    /\ rows'[j].attempts = rows[j].attempts /\ rows'[j].local = rows[j].local
    /\ \/ rows'[j].state = rows[j].state
       \/ /\ CanTransition(rows[j].state, rows'[j].state)
          /\ \/ rows'[j].state \in {"FAILED", "COMPLETED_TORBOX"} /\ Decided(j)
             \/ rows[j].state = "SUBMITTED" /\ rows'[j].state = "DOWNLOADING"

\* What the poller writes: an outcome only when the list or a release has
\* decided it (poller.go applyMyListItem, handlePollMissing).
LEMMA PollerRow ==
    ASSUME Typed, NEW j \in Jobs, P!PollStep(j)
    PROVE  PollsRow(j)
  <1>1. RowsOK /\ rows[j] \in Row
    BY DEF Typed, SubmitterTyped, RowsOK
  <1>2. /\ j \in DOMAIN pass /\ pass[j].row \in Row /\ pass[j].item \in P!Entry
    <2>1. j \in DOMAIN pass
      BY DEF P!PollStep, P!PollMissing, P!PollMatch, P!PollEnded, P!PollStarted, P!PollProgress,
             P!PollKeeps, P!ReleaseSlot, P!PollGivesUp, P!At, P!Todo
    <2>2. pass[j] \in Reading
      BY <2>1 DEF Typed, PollerTyped
    <2> QED BY <2>1, <2>2 DEF Reading
  <1>3. CASE UNCHANGED rows
    BY <1>1, <1>3 DEF PollsRow, OnRow, RowsOK
  <1>4. CASE P!PollMissing(j)
    <2>1. \/ UNCHANGED rows
          \/ rows' = Transition(j, pass[j].row.state, "FAILED", rows[j])
      BY <1>4, PollerStatements DEF P!PollMissing, P!View
    <2>2. Decided(j)
      BY <1>4 DEF P!PollMissing, P!Listed, Decided
    <2>3. CASE rows' = Transition(j, pass[j].row.state, "FAILED", rows[j])
      BY <2>2, <2>3, StateNames, SwapRow DEF PollsRow
    <2> QED BY <1>3, <2>1, <2>3
  <1>5. CASE P!PollMatch(j)
    <2>1. P!EntryId(j) \in {"none", "queue", "active"}
      BY <1>2 DEF P!EntryId, P!View, P!Listed, Row
    <2>2. UNCHANGED rows \/ rows' = SetTorboxIDs(j, P!EntryId(j))
      BY <1>5, PollerStatements DEF P!PollMatch
    <2>3. PICK id \in {"none", "queue", "active"} : id = P!EntryId(j)
      BY <2>1
    <2>4. CASE rows' = SetTorboxIDs(j, id)
      BY <1>1, <2>4, SetTorboxIDsKeeps DEF PollsRow, OnRow, SameCore
    <2> QED BY <1>3, <2>2, <2>3, <2>4
  <1>6. CASE P!PollEnded(j)
    <2>1. rows' = Transition(j, pass[j].row.state, P!Outcome(j), rows[j])
      BY <1>6, PollerStatements DEF P!PollEnded, P!View
    <2>2. PICK to \in {"FAILED", "COMPLETED_TORBOX"} : to = P!Outcome(j)
      BY DEF P!Outcome
    <2>3. Decided(j)
      BY <1>6 DEF P!PollEnded, P!Listed, Decided
    <2> QED BY <2>1, <2>2, <2>3, StateNames, SwapRow DEF PollsRow
  <1>7. CASE P!PollStarted(j)
    <2>1. UNCHANGED rows \/ rows' = Transition(j, "SUBMITTED", "DOWNLOADING", rows[j])
      BY <1>7, PollerStatements DEF P!PollStarted, P!View
    <2> QED BY <1>3, <2>1, StateNames, SwapRow DEF PollsRow
  <1>8. CASE P!PollProgress(j)
    <2>1. PICK n \in Nat : n = pass[j].item.bytes
      BY <1>2 DEF P!Entry
    <2>2. UNCHANGED rows \/ rows' = SetLocalProgress(j, n)
      BY <1>8, <2>1, PollerStatements DEF P!PollProgress, P!Listed
    <2>3. CASE rows' = SetLocalProgress(j, n)
      BY <1>1, <2>3, SetLocalProgressWrites DEF PollsRow, OnRow, SameCore
    <2> QED BY <1>3, <2>2, <2>3
  <1>9. CASE P!PollKeeps(j) \/ P!ReleaseSlot(j)
    BY <1>3, <1>9 DEF P!PollKeeps, P!ReleaseSlot
  <1>10. CASE P!PollGivesUp(j)
    <2>1. rows' = Transition(j, pass[j].row.state, "FAILED", rows[j])
      BY <1>10, PollerStatements DEF P!PollGivesUp, P!View
    <2>2. Decided(j)
      BY <1>10 DEF P!PollGivesUp, P!At, P!Todo, AtFail, Decided
    <2> QED BY <2>1, <2>2, StateNames, SwapRow DEF PollsRow
  <1> QED BY <1>4, <1>5, <1>6, <1>7, <1>8, <1>9, <1>10 DEF P!PollStep

\* How far a step brings the pass with the first of its jobs.
LEMMA PassChanges ==
    ASSUME Typed, NEW j \in Jobs, P!PollStep(j)
    PROVE  /\ j \in DOMAIN pass /\ \A k \in DOMAIN pass : j <= k
           /\ pass' \in [DOMAIN pass' -> Reading]
           /\ \A i \in DOMAIN pass' : i \in DOMAIN pass /\ pass'[i].item = pass[i].item
           /\ \A i \in DOMAIN pass \ {j} : i \in DOMAIN pass'
           /\ pc' \in {"match", "outcome", "progress", "ceilings", "fail"}
           /\ j \in DOMAIN pass' \/ pc' = "match"
           /\ pc' = "fail" => P!ReleaseSlot(j) /\ j \in DOMAIN pass'
           /\ entry' = entry \/ P!ReleaseSlot(j)
           /\ crashes' = crashes
  <1>1. /\ j \in DOMAIN pass /\ \A k \in DOMAIN pass : j <= k
        /\ pass \in [DOMAIN pass -> Reading] /\ pass[j] \in Reading
    BY DEF P!PollStep, P!PollMissing, P!PollMatch, P!PollEnded, P!PollStarted, P!PollProgress,
           P!PollKeeps, P!ReleaseSlot, P!PollGivesUp, P!At, P!Todo, Typed, PollerTyped
  <1>2. CASE P!PollMissing(j) \/ P!PollEnded(j) \/ P!PollKeeps(j) \/ P!PollGivesUp(j)
    <2>1. pass' = [i \in DOMAIN pass \ {j} |-> pass[i]] /\ pc' = "match" /\ crashes' = crashes
          /\ entry' = entry
      BY <1>2 DEF P!PollMissing, P!PollEnded, P!PollKeeps, P!PollGivesUp, P!NextJob, P!Todo
    <2> QED BY <1>1, <2>1
  <1>3. CASE P!PollMatch(j) \/ P!PollStarted(j)
    <2>1. pass' = pass /\ pc' \in {"outcome", "progress"} /\ crashes' = crashes /\ entry' = entry
      BY <1>3 DEF P!PollMatch, P!PollStarted, P!GotoStep
    <2> QED BY <1>1, <2>1
  <1>4. CASE P!ReleaseSlot(j)
    <2>1. pass' = pass /\ pc' = "fail" /\ crashes' = crashes
      BY <1>4 DEF P!ReleaseSlot, P!GotoStep
    <2> QED BY <1>1, <1>4, <2>1
  <1>5. CASE P!PollProgress(j)
    <2>1. pc' = "ceilings" /\ crashes' = crashes /\ entry' = entry
      BY <1>5 DEF P!PollProgress
    <2>2. CASE pass' = pass
      BY <1>1, <2>1, <2>2
    <2>3. CASE pass' # pass
      <3>1. pass' = [pass EXCEPT ![j].row.bytes = pass[j].item.bytes, ![j].row.idle = 0]
        BY <1>5, <2>3 DEF P!PollProgress, P!Listed
      <3>2. pass[j].item.bytes \in Nat
        BY <1>1 DEF Reading, P!Entry
      <3> DEFINE r == [pass[j].row EXCEPT !.bytes = pass[j].item.bytes, !.idle = 0]
      <3>3. pass'[j] = [pass[j] EXCEPT !.row = r]
        BY <1>1, <3>1 DEF Reading
      <3>r. r \in Row
        <4>1. pass[j].row \in Row
          BY <1>1 DEF Reading
        <4> QED BY <3>2, <4>1 DEF Row
      <3>4. pass'[j] \in Reading /\ pass'[j].item = pass[j].item
        <4> HIDE DEF r
        <4> QED BY <1>1, <3>r, <3>3 DEF Reading
      <3>5. DOMAIN pass' = DOMAIN pass /\ (\A i \in DOMAIN pass \ {j} : pass'[i] = pass[i])
            /\ pass' = [i \in DOMAIN pass' |-> pass'[i]]
        BY <1>1, <3>1
      <3>6. pass' \in [DOMAIN pass' -> Reading]
        BY <1>1, <3>4, <3>5
      <3> QED BY <1>1, <2>1, <3>4, <3>5, <3>6
    <2> QED BY <2>2, <2>3
  <1> QED BY <1>2, <1>3, <1>4, <1>5 DEF P!PollStep

\* Only an active state has a successor, and NEW is none.
LEMMA Successions ==
    \A s, t : CanTransition(s, t) => /\ s \in ActiveStates /\ t \in JobStates \ {"NEW"}
                                     /\ t = "READY" => s = "COMPLETED_TORBOX"
  BY DEF CanTransition, Successors, ActiveStates, JobStates, Terminal

PollerFrame ==
    UNCHANGED <<sub, created, lost, todo, seen, pull, since, disk, client, asked, qbit, asks,
                crashes, wiped, dropped>>

\* Its steps keep the types and the other jobs, and free a slot or have an excuse.
LEMMA PollerTypes ==
    ASSUME Typed, NEW j \in Jobs, PollStep(j)
    PROVE  /\ Typed' /\ PollerFrame
           /\ \A i \in Jobs \ {j} : Untouched(i)
           /\ entry'[j] = entry[j] \/ entry'[j].st = "gone"
           /\ excuse[j] => excuse'[j]
           /\ P!ReleaseSlot(j) => excuse'[j] \/ entry'[j].st = "gone"
  <1>0. P!PollStep(j) /\ PollerFrame
    BY DEF PollStep, PollerFrame, submitter, puller, requests
  <1>1. /\ entry' \in [Jobs -> P!Entry]
        /\ \A i \in Jobs \ {j} : entry'[i] = entry[i]
        /\ entry'[j] = entry[j] \/ entry'[j].st = "gone"
    <2>1. entry \in [Jobs -> P!Entry]
      BY DEF Typed, PollerTyped
    <2>2. CASE entry' = entry
      BY <2>1, <2>2
    <2>3. CASE P!ReleaseSlot(j)
      <3>1. PICK deleted \in BOOLEAN :
              entry' = [entry EXCEPT ![j] = IF deleted /\ @.st # "gone" THEN P!Gone(@) ELSE @]
        BY <2>3 DEF P!ReleaseSlot
      <3>2. P!Gone(entry[j]) \in P!Entry /\ P!Gone(entry[j]).st = "gone"
        BY <2>1 DEF P!Gone, P!Entry
      <3>3. CASE deleted /\ entry[j].st # "gone"
        <4>1. entry' = [entry EXCEPT ![j] = P!Gone(entry[j])]
          BY <2>1, <3>1, <3>3
        <4> QED BY <2>1, <3>2, <4>1
      <3>4. CASE ~(deleted /\ entry[j].st # "gone")
        <4>1. entry' = [entry EXCEPT ![j] = entry[j]]
          BY <2>1, <3>1, <3>4
        <4> QED BY <2>1, <4>1
      <3> QED BY <3>3, <3>4
    <2> QED BY <1>0, <2>2, <2>3, PassChanges
  <1>2. /\ excuse' \in [Jobs -> BOOLEAN]
        /\ \A i \in Jobs \ {j} : excuse'[i] = excuse[i]
        /\ excuse[j] => excuse'[j]
        /\ P!ReleaseSlot(j) => excuse'[j] \/ entry'[j].st = "gone"
    BY DEF PollStep, Excused, Typed, HistoryTyped
  <1>3. OnRow(j)
    BY <1>0, PollerRow DEF PollsRow
  <1>4. SubmitterTyped' /\ PullerTyped' /\ RequestsTyped' /\ HistoryTyped'
    BY <1>0, <1>2, <1>3 DEF OnRow, PollerFrame, Typed, SubmitterTyped, PullerTyped, RequestsTyped,
                            HistoryTyped
  <1>5. PollerTyped'
    BY <1>0, <1>1, PassChanges DEF Typed, PollerTyped
  <1>6. ASSUME NEW i \in Jobs \ {j} PROVE Untouched(i)
    <2>1. i \in DOMAIN pass' <=> i \in DOMAIN pass
      BY <1>0, PassChanges
    <2>2. i \in DOMAIN pass => pass'[i].item = pass[i].item
      BY <1>0, <2>1, PassChanges
    <2>3. ~AtFail(i)'
      <3> SUFFICES ASSUME AtFail(i)' PROVE FALSE
        OBVIOUS
      <3>1. j \in DOMAIN pass' /\ i \in DOMAIN pass' /\ i <= j
        BY <1>0, PassChanges DEF AtFail
      <3>2. j <= i
        BY <1>0, <3>1, PassChanges
      <3>3. i \in Nat /\ j \in Nat
        BY JobsAssumption
      <3> QED BY <3>1, <3>2, <3>3
    <2> QED BY <1>0, <1>1, <1>2, <1>3, <2>1, <2>2, <2>3
         DEF Untouched, SameCore, PollerFrame, OnRow
  <1> QED BY <1>0, <1>1, <1>2, <1>4, <1>5, <1>6 DEF Typed

\* They keep the job right: the pass holds only what the submitter has let go
\* of, and ends only what no longer takes a slot.
LEMMA PollerGood ==
    ASSUME Typed, NEW j \in Jobs, Good(j), PollStep(j)
    PROVE  Good(j)'
  <1>0. P!PollStep(j) /\ PollerFrame
    BY PollerTypes DEF PollStep
  <1>1. j \in DOMAIN pass /\ ~Early(j)
    BY <1>0, PassChanges DEF Good, ApartHolds
  <1>2. PollsRow(j)
    BY <1>0, PollerRow
  <1>3. /\ rows'[j].state # "NEW" /\ (rows'[j].state = "READY" => rows[j].state = "READY")
        /\ rows[j].state \in {"CANCELED", "NONE", "READY", "FAILED"}
                => rows'[j].state = rows[j].state
    BY <1>1, <1>2, Successions DEF PollsRow, Early, ActiveStates
  <1>4. ApartHolds(j)' /\ SpentHolds(j)'
    BY <1>0, <1>1, <1>3 DEF ApartHolds, SpentHolds, Early, PollerFrame
  <1>5. /\ entry'[j] = entry[j] \/ entry'[j].st = "gone"
        /\ excuse[j] => excuse'[j]
        /\ P!ReleaseSlot(j) => excuse'[j] \/ entry'[j].st = "gone"
    BY PollerTypes
  <1>6. EntryHolds(j)'
    <2>1. Waiting(j)' => Waiting(j)
      BY <1>5 DEF Waiting
    <2>2. rows[j].state \in {"SUBMITTED", "DOWNLOADING"}
              /\ rows'[j].state \notin {"SUBMITTED", "DOWNLOADING"} => ~Waiting(j) \/ excuse[j]
      BY <1>1, <1>2 DEF PollsRow, Decided, Good, PassHold
    <2> QED BY <1>0, <1>5, <2>1, <2>2 DEF Good, EntryHolds, PollerFrame, Releases
  <1>7. PassHold(j)'
    <2>1. j \in DOMAIN pass' => pass'[j].item = pass[j].item
      BY <1>0, PassChanges
    <2>2. AtFail(j)' => P!ReleaseSlot(j)
      BY <1>0, PassChanges DEF AtFail
    <2> QED BY <1>1, <1>5, <2>1, <2>2 DEF Good, PassHold, Waiting
  <1>8. FileHolds(j)'
    BY <1>0, <1>2, <1>3 DEF Good, FileHolds, Gone, Sign, PollerFrame, PollsRow
  <1>9. RequestHolds(j)'
    BY <1>0, <1>2, <1>3 DEF Good, RequestHolds, Gone, PollerFrame, Terminal
  <1>10. AttemptHolds(j)'
    BY <1>0, <1>2 DEF Good, AttemptHolds, Trying, PollerFrame, PollsRow
  <1> QED BY <1>4, <1>6, <1>7, <1>8, <1>9, <1>10 DEF Good

\* TorBox's own steps only move an entry towards its end.
LEMMA EntryFine ==
    ASSUME Typed, NEW j \in Jobs, Good(j), EntryStep(j)
    PROVE  Fine(j) /\ UNCHANGED <<rows, dropped>>
  <1>1. PICK e \in P!Entry :
            /\ entry' = [entry EXCEPT ![j] = e] /\ UNCHANGED <<rows, pass, pc, crashes>>
            /\ entry[j].st \in {"queued", "downloading"}
    <2>0. entry[j] \in P!Entry
      BY DEF Typed, PollerTyped
    <2>1. CASE P!EntryStarts(j)
      <3>1. [entry[j] EXCEPT !.st = "downloading", !.still = 0] \in P!Entry
        BY <2>0 DEF P!Entry
      <3> QED BY <2>1, <3>1 DEF P!EntryStarts, P!EntryMoves
    <2>2. CASE P!EntryProgresses(j)
      <3>1. entry[j].bytes + 1 \in Nat
        BY <2>0 DEF P!Entry
      <3>2. [entry[j] EXCEPT !.bytes = @ + 1, !.still = 0] \in P!Entry
        BY <2>0, <3>1 DEF P!Entry
      <3> QED BY <2>2, <3>2 DEF P!EntryProgresses, P!EntryMoves
    <2>3. CASE P!EntryEnds(j)
      <3>1. \A st \in {"done", "failed"} : [entry[j] EXCEPT !.st = st, !.still = 0] \in P!Entry
        BY <2>0 DEF P!Entry
      <3> QED BY <2>3, <3>1 DEF P!EntryEnds, P!EntryMoves
    <2>4. CASE P!EntryVanishes(j)
      <3>1. P!Gone(entry[j]) \in P!Entry
        BY <2>0 DEF P!Entry, P!Gone
      <3> QED BY <2>4, <3>1 DEF P!EntryVanishes, P!EntryMoves
    <2> QED BY <2>1, <2>2, <2>3, <2>4 DEF EntryStep
  <1>2. UNCHANGED <<sub, created, lost, todo, seen, pull, since, disk, client, asked, qbit, asks,
                    crashes, excuse, wiped, dropped>>
    BY <1>1 DEF EntryStep, submitter, puller, requests, history
  <1>3. Typed'
    BY <1>1, <1>2 DEF Typed, SubmitterTyped, PollerTyped, PullerTyped, RequestsTyped, HistoryTyped
  <1>4. ASSUME NEW i \in Jobs \ {j} PROVE Untouched(i)
    BY <1>1, <1>2 DEF Untouched, SameCore, AtFail, Typed, PollerTyped
  <1>5. Waiting(j)
    BY <1>1 DEF Waiting
  <1>6. ApartHolds(j)' /\ SpentHolds(j)'
    BY <1>1, <1>2 DEF Good, ApartHolds, SpentHolds, Early
  <1>7. EntryHolds(j)'
    BY <1>1, <1>2, <1>5 DEF Good, EntryHolds, Releases
  <1>8. PassHold(j)'
    BY <1>1, <1>2, <1>5 DEF Good, PassHold, AtFail
  <1>9. FileHolds(j)' /\ RequestHolds(j)' /\ AttemptHolds(j)'
    BY <1>1, <1>2 DEF Good, FileHolds, RequestHolds, AttemptHolds, Gone, Sign, Trying
  <1> QED BY <1>1, <1>2, <1>3, <1>4, <1>6, <1>7, <1>8, <1>9 DEF Fine, Good

-----------------------------------------------------------------------------
(***************************************************************************)
(* The puller                                                              *)
(***************************************************************************)
PullerFrame ==
    UNCHANGED <<sub, created, lost, entry, pass, pc, asked, qbit, asks, crashes, excuse, dropped>>

\* Which of the puller's actions PullerStep takes.
PullerActs(j) ==
    U!TickItem(j) \/ U!DownloadStep(j) \/ WipedDone(j) \/ U!PullStep(j)

\* What the puller leaves alone.
LEMMA PullerFramed ==
    ASSUME NEW j \in Jobs, PullerStep(j)
    PROVE  PullerActs(j) /\ PullerFrame
  <1>1. PullerActs(j) /\ UNCHANGED <<sub, created, lost, entry, pass, pc, asked, qbit, asks,
                                     excuse, dropped>>
    BY DEF PullerStep, PullerActs, submitter, poller
  <1>2. crashes' = crashes
    BY <1>1 DEF PullerActs, U!TickItem, U!TickAlreadyLocal, U!TickSkip, U!TickStart,
       U!DownloadStep, U!DownloadWrites, U!DownloadFails, U!DownloadDone, WipedDone, U!PullStep,
       U!LookupFinds, U!LookupFails, U!ArchivesOnly, U!FilesFail, U!FilesResolved, U!StoreReady,
       U!PullAborted, U!Finish
  <1> QED BY <1>1, <1>2 DEF PullerFrame

\* A step about the pull of j.
OnPull(j) == pull' \in [Jobs -> U!Pull] /\ \A i \in Jobs \ {j} : pull'[i] = pull[i]

\* A pull goes to its next place with the attempts it has.
LEMMA GotoPull ==
    ASSUME Typed, NEW j \in Jobs,
           NEW place \in {"lookup", "files", "download", "store", "ending"}, U!Goto(j, place)
    PROVE  /\ OnPull(j)
           /\ pull'[j].pc = place /\ pull'[j].attempts = pull[j].attempts
  BY DEF Typed, PullerTyped, U!Goto, U!Pull, OnPull

\* What a step of the puller writes.
Readies(j) == /\ rows[j].state = "COMPLETED_TORBOX" /\ rows'[j].state = "READY"
              /\ rows'[j].attempts = rows[j].attempts
              /\ pull[j].pc = "store" \/ seen[j].local
Fails(j) == /\ rows[j].state = "COMPLETED_TORBOX" /\ rows'[j].state = "FAILED"
            /\ rows'[j].attempts = rows[j].attempts /\ rows'[j].local = rows[j].local
Counts(j) == /\ rows'[j].state = rows[j].state /\ rows'[j].local = rows[j].local
             /\ rows'[j].attempts = rows[j].attempts + 1
             /\ Trying(j) /\ pull[j].attempts + 1 < MaxRetries /\ ~Trying(j)'

PullsRow(j) ==
    OnRow(j) /\ (SameCore(rows'[j], rows[j]) \/ Readies(j) \/ Fails(j) \/ Counts(j))

\* The last attempt of a pull fails a completed job.
LEMMA FailRow ==
    ASSUME Typed, NEW j \in Jobs,
           rows' = Transition(j, "COMPLETED_TORBOX", "FAILED", rows[j])
    PROVE  PullsRow(j)
  BY StateNames, SwapRow DEF PullsRow, Fails, SameCore

\* A failed attempt of a pull is counted, or is the last one (puller.go
\* scheduleRetry).
LEMMA RetryRow ==
    ASSUME Typed, NEW j \in Jobs, rows' = U!ScheduleRetry(j), Trying(j), ~Trying(j)'
    PROVE  PullsRow(j)
  <1>1. RowsOK /\ pull[j].attempts \in Nat /\ MaxRetries \in Nat /\ RetryTicks \in Nat
    BY SystemAssumption DEF Typed, SubmitterTyped, PullerTyped, RowsOK, U!Pull
  <1>2. CASE pull[j].attempts + 1 >= MaxRetries
    BY <1>2, FailRow, PullerStatements DEF U!ScheduleRetry
  <1>3. CASE ~(pull[j].attempts + 1 >= MaxRetries)
    <2>1. rows' = AttemptFailure(j, RetryTicks) /\ pull[j].attempts + 1 < MaxRetries
      BY <1>1, <1>3, PullerStatements DEF U!ScheduleRetry
    <2> QED BY <1>1, <2>1, AttemptFailureCounts DEF PullsRow, OnRow, SameCore, Counts
  <1> QED BY <1>2, <1>3

\* READY comes from a pull that stores, or from a recorded path.
LEMMA ReadyRow ==
    ASSUME Typed, NEW j \in Jobs, rows' = MarkLocalReady(j), pull[j].pc = "store" \/ seen[j].local
    PROVE  PullsRow(j)
  <1>1. RowsOK
    BY DEF Typed, SubmitterTyped, RowsOK
  <1> QED BY <1>1, MarkLocalReadyMoves DEF PullsRow, OnRow, MovesOn, SameCore, Readies

\* What the puller writes to a row (puller.go Tick, pullOne).
LEMMA PullerRow ==
    ASSUME Typed, NEW j \in Jobs, PullerActs(j)
    PROVE  PullsRow(j)
  <1>1. RowsOK
    BY DEF Typed, SubmitterTyped, RowsOK
  <1>2. CASE UNCHANGED rows
    BY <1>1, <1>2 DEF PullsRow, OnRow, RowsOK, SameCore
  <1>3. CASE U!TickItem(j)
    <2>1. UNCHANGED rows \/ (rows' = MarkLocalReady(j) /\ seen[j].local)
      BY <1>3, PullerStatements DEF U!TickItem, U!TickAlreadyLocal, U!TickSkip, U!TickStart
    <2> QED BY <1>2, <2>1, ReadyRow
  <1>4. CASE U!LookupFails(j) \/ U!FilesFail(j) \/ U!DownloadFails(j)
    <2>1. rows' = U!ScheduleRetry(j) /\ Trying(j) /\ U!Goto(j, "ending")
      BY <1>4 DEF U!LookupFails, U!FilesFail, U!DownloadFails, U!At, Trying
    <2>2. ~Trying(j)'
      BY <2>1, GotoPull DEF Trying
    <2> QED BY <2>1, <2>2, RetryRow
  <1>5. CASE U!StoreReady(j)
    BY <1>5, ReadyRow, PullerStatements DEF U!StoreReady, U!At
  <1>6. CASE U!ArchivesOnly(j)
    <2>1. \/ rows' = Reschedule(j, RecheckTicks) /\ RecheckTicks \in Nat
          \/ rows' = Transition(j, "COMPLETED_TORBOX", "FAILED", rows[j])
      BY <1>6, PullerStatements, SystemAssumption DEF U!ArchivesOnly
    <2> QED BY <1>1, <2>1, FailRow, RescheduleKeeps DEF PullsRow, OnRow
  <1>7. CASE \/ WipedDone(j) \/ U!DownloadWrites(j) \/ U!DownloadDone(j) \/ U!LookupFinds(j)
             \/ U!FilesResolved(j) \/ U!PullAborted(j) \/ U!Finish(j)
    BY <1>2, <1>7 DEF WipedDone, U!DownloadWrites, U!DownloadDone, U!LookupFinds,
                      U!FilesResolved, U!PullAborted, U!Finish
  <1> QED BY <1>3, <1>4, <1>5, <1>6, <1>7 DEF PullerActs, U!DownloadStep, U!PullStep

\* How far a step brings a pull: it starts with what the listing read, or goes
\* on with what it has.
Starts(j) == /\ j \in todo /\ j \notin todo' /\ UNCHANGED rows
             /\ pull'[j].pc = "lookup" /\ pull'[j].attempts = seen[j].attempts
GoesOn(j) == /\ Trying(j)' => Trying(j) /\ pull'[j].attempts = pull[j].attempts
             /\ pull'[j].pc = "store"
                    => pull[j].pc = "store" \/ disk[j] = "full" \/ wiped[j] = "now"
             /\ pull'[j].pc # "none" => pull[j].pc # "none"

\* A step of the puller does one or the other.
LEMMA PullChanges ==
    ASSUME Typed, NEW j \in Jobs, PullerActs(j)
    PROVE  OnPull(j) /\ (Starts(j) \/ GoesOn(j))
  <1>0. pull \in [Jobs -> U!Pull] /\ pull[j] \in U!Pull
    BY DEF Typed, PullerTyped
  <1>1. CASE UNCHANGED pull
    BY <1>0, <1>1 DEF OnPull, GoesOn, Trying
  <1>2. CASE U!TickStart(j)
    <2> DEFINE p == [U!NoPull EXCEPT !.pc = "lookup", !.attempts = seen[j].attempts]
    <2>1. seen[j].attempts \in Nat
      BY DEF Typed, PullerTyped, U!Seen
    <2>2. p \in U!Pull /\ p.pc = "lookup" /\ p.attempts = seen[j].attempts
      BY <2>1 DEF U!NoPull, U!Pull
    <2>3. pull' = [pull EXCEPT ![j] = p] /\ j \in todo /\ todo' = todo \ {j} /\ rows' = rows
      BY <1>2 DEF U!TickStart, U!Next1, U!Handled
    <2> HIDE DEF p
    <2> QED BY <1>0, <2>2, <2>3 DEF OnPull, Starts
  <1>3. CASE U!TickAlreadyLocal(j) \/ U!TickSkip(j) \/ U!DownloadWrites(j)
    BY <1>1, <1>3 DEF U!TickAlreadyLocal, U!TickSkip, U!DownloadWrites
  <1>4. CASE \/ U!LookupFails(j) \/ U!ArchivesOnly(j) \/ U!FilesFail(j) \/ U!DownloadFails(j)
             \/ U!StoreReady(j) \/ U!PullAborted(j)
    <2>1. U!Goto(j, "ending") /\ pull[j].pc # "none"
      BY <1>4 DEF U!LookupFails, U!ArchivesOnly, U!FilesFail, U!DownloadFails, U!StoreReady,
                  U!PullAborted, U!At
    <2> QED BY <2>1, GotoPull DEF GoesOn, Trying
  <1>5. CASE U!LookupFinds(j)
    BY <1>5, GotoPull DEF U!LookupFinds, U!At, GoesOn, Trying
  <1>6. CASE U!DownloadDone(j) \/ WipedDone(j)
    <2>1. /\ U!Goto(j, "store") /\ pull[j].pc = "download"
          /\ disk[j] = "full" \/ wiped[j] = "now"
      BY <1>6 DEF U!DownloadDone, WipedDone, U!At
    <2> QED BY <2>1, GotoPull DEF GoesOn, Trying
  <1>7. CASE U!FilesResolved(j)
    <2> DEFINE p == [pull[j] EXCEPT !.pc = "download", !.dir = TRUE]
    <2>1. p \in U!Pull /\ p.pc = "download" /\ p.attempts = pull[j].attempts
      BY <1>0 DEF U!Pull
    <2>2. pull' = [pull EXCEPT ![j] = p] /\ pull[j].pc = "files"
      BY <1>0, <1>7 DEF U!FilesResolved, U!At, U!Pull
    <2> HIDE DEF p
    <2> QED BY <1>0, <2>1, <2>2 DEF OnPull, GoesOn, Trying
  <1>8. CASE U!Finish(j)
    <2>1. U!NoPull \in U!Pull /\ U!NoPull.pc = "none"
      BY DEF U!NoPull, U!Pull
    <2>2. pull' = [pull EXCEPT ![j] = U!NoPull]
      BY <1>8 DEF U!Finish
    <2> QED BY <1>0, <2>1, <2>2 DEF OnPull, GoesOn, Trying
  <1> QED BY <1>2, <1>3, <1>4, <1>5, <1>6, <1>7, <1>8
       DEF PullerActs, U!TickItem, U!DownloadStep, U!PullStep

\* What a step does to the listing, the disk and the request that waits for it.
LEMMA AroundThePull ==
    ASSUME Typed, NEW j \in Jobs, PullerStep(j)
    PROVE  /\ todo' = todo \/ todo' = todo \ {j}
           /\ seen' \in [Jobs -> U!Seen] /\ \A i \in Jobs \ {j} : seen'[i] = seen[i]
           /\ j \in todo' => seen'[j] = seen[j]
           /\ seen'[j].local => seen[j].local
           /\ since' \in [Jobs -> 0..ArchiveTicks \cup {-1}]
           /\ disk' \in [Jobs -> {"none", "partial", "full"}]
           /\ \A i \in Jobs \ {j} : disk'[i] = disk[i]
           /\ disk[j] = "full" => disk'[j] = "full"
           /\ client' \in [Jobs -> U!Request] /\ \A i \in Jobs \ {j} : client'[i] = client[i]
           /\ \/ client'[j] = client[j]
              \/ client[j].pc = "waiting" /\ client'[j].pc = "remove"
                 /\ client'[j].del = client[j].del
           /\ wiped' \in [Jobs -> {"no", "now", "once"}]
           /\ \A i \in Jobs \ {j} : wiped'[i] = wiped[i]
           /\ wiped'[j] = "no" => wiped[j] = "no"
           /\ j \in todo \/ pull[j].pc # "none"
  <1>0. PullerActs(j) /\ pull[j] \in U!Pull /\ client[j] \in U!Request
    BY PullerFramed DEF Typed, PullerTyped, RequestsTyped
  <1>1. /\ wiped' \in [Jobs -> {"no", "now", "once"}]
        /\ \A i \in Jobs \ {j} : wiped'[i] = wiped[i]
        /\ wiped'[j] = "no" => wiped[j] = "no"
    BY DEF PullerStep, Typed, HistoryTyped
  <1>2. /\ todo' = todo \/ todo' = todo \ {j}
        /\ seen' \in [Jobs -> U!Seen] /\ \A i \in Jobs \ {j} : seen'[i] = seen[i]
        /\ j \in todo' => seen'[j] = seen[j]
        /\ seen'[j].local => seen[j].local
    <2>1. CASE U!TickItem(j)
      <3>1. todo' = todo \ {j} /\ seen' = [seen EXCEPT ![j] = U!NotSeen]
        BY <2>1 DEF U!TickItem, U!TickAlreadyLocal, U!TickSkip, U!TickStart, U!Handled
      <3>2. U!NotSeen \in U!Seen /\ ~U!NotSeen.local
        BY DEF U!NotSeen, U!Seen
      <3> QED BY <3>1, <3>2 DEF Typed, PullerTyped
    <2>2. CASE ~U!TickItem(j)
      <3>1. UNCHANGED <<todo, seen>>
        BY <1>0, <2>2 DEF PullerActs, U!DownloadStep, U!DownloadWrites, U!DownloadFails,
           U!DownloadDone, WipedDone, U!PullStep, U!LookupFinds, U!LookupFails, U!ArchivesOnly,
           U!FilesFail, U!FilesResolved, U!StoreReady, U!PullAborted, U!Finish
      <3> QED BY <3>1 DEF Typed, PullerTyped
    <2> QED BY <2>1, <2>2
  <1>3. since' \in [Jobs -> 0..ArchiveTicks \cup {-1}]
    <2>1. CASE U!ArchivesOnly(j) \/ U!FilesFail(j) \/ U!FilesResolved(j)
      BY <2>1, SystemAssumption
         DEF U!ArchivesOnly, U!FilesFail, U!FilesResolved, U!Unseen, Typed, PullerTyped
    <2>2. CASE ~(U!ArchivesOnly(j) \/ U!FilesFail(j) \/ U!FilesResolved(j))
      <3>1. UNCHANGED since
        BY <1>0, <2>2 DEF PullerActs, U!TickItem, U!TickAlreadyLocal, U!TickSkip, U!TickStart,
           U!DownloadStep, U!DownloadWrites, U!DownloadFails,
           U!DownloadDone, WipedDone, U!PullStep, U!LookupFinds, U!LookupFails,
           U!StoreReady, U!PullAborted, U!Finish
      <3> QED BY <3>1 DEF Typed, PullerTyped
    <2> QED BY <2>1, <2>2
  <1>4. /\ disk' \in [Jobs -> {"none", "partial", "full"}]
        /\ \A i \in Jobs \ {j} : disk'[i] = disk[i]
        /\ disk[j] = "full" => disk'[j] = "full"
    <2>1. CASE U!DownloadWrites(j)
      BY <2>1 DEF U!DownloadWrites, Typed, PullerTyped
    <2>2. CASE ~U!DownloadWrites(j)
      <3>1. UNCHANGED disk
        BY <1>0, <2>2 DEF PullerActs, U!TickItem, U!TickAlreadyLocal, U!TickSkip, U!TickStart,
           U!DownloadStep, U!DownloadFails, U!DownloadDone, WipedDone, U!PullStep,
           U!LookupFinds, U!LookupFails, U!ArchivesOnly,
           U!FilesFail, U!FilesResolved, U!StoreReady, U!PullAborted, U!Finish
      <3> QED BY <3>1 DEF Typed, PullerTyped
    <2> QED BY <2>1, <2>2
  <1>5. /\ client' \in [Jobs -> U!Request] /\ \A i \in Jobs \ {j} : client'[i] = client[i]
        /\ \/ client'[j] = client[j]
           \/ client[j].pc = "waiting" /\ client'[j].pc = "remove"
              /\ client'[j].del = client[j].del
    <2>0. client \in [Jobs -> U!Request]
      BY DEF Typed, RequestsTyped
    <2>1. CASE U!Finish(j)
      <3> DEFINE c == [client[j] EXCEPT !.pc = "remove", !.dir = pull[j].dir]
      <3>1. c \in U!Request /\ c.pc = "remove" /\ c.del = client[j].del
        BY <1>0 DEF U!Request, U!Pull
      <3>2. client' = [client EXCEPT ![j] = IF client[j].pc = "waiting" THEN c ELSE client[j]]
        BY <2>0, <2>1 DEF U!Finish
      <3> HIDE DEF c
      <3> QED BY <2>0, <3>1, <3>2
    <2>2. CASE ~U!Finish(j)
      <3>1. UNCHANGED client
        BY <1>0, <2>2 DEF PullerActs, U!TickItem, U!TickAlreadyLocal, U!TickSkip, U!TickStart,
           U!DownloadStep, U!DownloadWrites, U!DownloadFails, U!DownloadDone, WipedDone,
           U!PullStep, U!LookupFinds, U!LookupFails, U!ArchivesOnly,
           U!FilesFail, U!FilesResolved, U!StoreReady, U!PullAborted
      <3> QED BY <2>0, <3>1
    <2> QED BY <2>1, <2>2
  <1>6. j \in todo \/ pull[j].pc # "none"
    BY <1>0 DEF PullerActs, U!TickItem, U!TickAlreadyLocal, U!TickSkip, U!TickStart, U!Next1,
       U!DownloadStep, U!DownloadWrites, U!DownloadFails, U!DownloadDone, WipedDone,
       U!PullStep, U!LookupFinds, U!LookupFails, U!ArchivesOnly, U!At,
       U!FilesFail, U!FilesResolved, U!StoreReady, U!PullAborted, U!Finish
  <1> QED BY <1>1, <1>2, <1>3, <1>4, <1>5, <1>6

\* Its steps keep the types and the other jobs.
LEMMA PullerTypes ==
    ASSUME Typed, NEW j \in Jobs, PullerStep(j)
    PROVE  Typed' /\ \A i \in Jobs \ {j} : Untouched(i)
  <1>0. PullerActs(j) /\ PullerFrame
    BY PullerFramed
  <1>1. OnRow(j) /\ OnPull(j)
    BY <1>0, PullerRow, PullChanges DEF PullsRow
  <1>2. SubmitterTyped' /\ PollerTyped'
    BY <1>0, <1>1 DEF PullerFrame, OnRow, Typed, SubmitterTyped, PollerTyped
  <1>3. PullerTyped'
    BY <1>1, AroundThePull DEF OnPull, Typed, PullerTyped
  <1>4. RequestsTyped' /\ HistoryTyped'
    BY <1>0, AroundThePull DEF PullerFrame, Typed, RequestsTyped, HistoryTyped
  <1>5. ASSUME NEW i \in Jobs \ {j} PROVE Untouched(i)
    BY <1>0, <1>1, AroundThePull DEF PullerFrame, OnRow, OnPull, Untouched, SameCore, AtFail
  <1> QED BY <1>2, <1>3, <1>4, <1>5 DEF Typed

\* They keep the job right: a sign that the files are there comes from the
\* files, and the attempts on the row are never ahead of the pull's by more than
\* its own.
LEMMA PullerGood ==
    ASSUME Typed, NEW j \in Jobs, Good(j), PullerStep(j)
    PROVE  Good(j)'
  <1>0. PullerActs(j) /\ PullerFrame
    BY PullerFramed
  <1>1. ~Early(j)
    BY AroundThePull DEF Good, ApartHolds
  <1>2. SameCore(rows'[j], rows[j]) \/ Readies(j) \/ Fails(j) \/ Counts(j)
    BY <1>0, PullerRow DEF PullsRow
  <1>3. Starts(j) \/ GoesOn(j)
    BY <1>0, PullChanges
  <1>4. \/ rows'[j].state = rows[j].state
        \/ rows[j].state = "COMPLETED_TORBOX" /\ rows'[j].state \in {"READY", "FAILED"}
    BY <1>2 DEF SameCore, Readies, Fails, Counts
  <1>5. ApartHolds(j)' /\ SpentHolds(j)'
    BY <1>0, <1>1, <1>4 DEF ApartHolds, SpentHolds, Early, PullerFrame
  <1>6. EntryHolds(j)'
    BY <1>0, <1>4, AroundThePull DEF Good, EntryHolds, Waiting, Releases, PullerFrame
  <1>7. PassHold(j)'
    BY <1>0 DEF Good, PassHold, AtFail, Waiting, PullerFrame
  <1>8. FileHolds(j)'
    <2> SUFFICES ASSUME wiped'[j] = "no", ~Gone(j)', Sign(j)' PROVE disk'[j] = "full"
      BY DEF FileHolds
    <2>1. wiped[j] = "no" /\ ~Gone(j)
      BY <1>4, AroundThePull DEF Gone
    <2>2. rows'[j].state = "READY" \/ rows'[j].local => Sign(j)
      BY <1>2 DEF SameCore, Readies, Fails, Counts, Sign
    <2>3. seen'[j].local => Sign(j)
      BY AroundThePull DEF Sign
    <2>4. pull'[j].pc = "store" => Sign(j) \/ disk[j] = "full"
      BY <1>3, <2>1 DEF Starts, GoesOn, Sign
    <2>5. disk[j] = "full"
      BY <2>1, <2>2, <2>3, <2>4 DEF Good, FileHolds, Sign
    <2> QED BY <2>5, AroundThePull
  <1>9. RequestHolds(j)'
    BY <1>4, AroundThePull DEF Good, RequestHolds, Gone, Terminal
  <1>10. AttemptHolds(j)'
    <2>1. /\ rows[j].attempts \in Nat /\ seen[j].attempts \in Nat /\ pull[j].attempts \in Nat
          /\ MaxRetries \in Nat
      BY SystemAssumption DEF Typed, SubmitterTyped, PullerTyped, Row, U!Seen, U!Pull
    <2>2. /\ rows'[j].attempts = rows[j].attempts
          \/ Counts(j)
      BY <1>2 DEF SameCore, Readies, Fails
    <2>3. j \in todo' => j \in todo /\ seen'[j] = seen[j]
      BY AroundThePull
    <2>4. CASE Starts(j)
      BY <2>1, <2>4 DEF Good, AttemptHolds, Starts
    <2>5. CASE GoesOn(j)
      BY <2>1, <2>2, <2>3, <2>5 DEF Good, AttemptHolds, GoesOn, Counts
    <2> QED BY <1>3, <2>4, <2>5
  <1> QED BY <1>5, <1>6, <1>7, <1>8, <1>9, <1>10 DEF Good

-----------------------------------------------------------------------------
(***************************************************************************)
(* The requests                                                            *)
(***************************************************************************)
\* The job is withdrawn, if its row changes at all.
WithdrawsRow(j) ==
    /\ OnRow(j)
    /\ \/ SameCore(rows'[j], rows[j])
       \/ Gone(j)' /\ rows'[j].attempts \in {rows[j].attempts, 0}

\* Canceling a job or dropping its row, or neither, is harmless to whoever works
\* on it (jobs.go Transition, Delete).
LEMMA WithdrawGood ==
    ASSUME Typed, NEW j \in Jobs, Good(j), WithdrawsRow(j), UNCHANGED <<sub, todo, seen, pass, pc>>,
           pull'[j].pc = pull[j].pc, pull'[j].attempts = pull[j].attempts,
           entry'[j] = entry[j] \/ entry'[j].st = "gone", excuse[j] => excuse'[j]
    PROVE  ApartHolds(j)' /\ SpentHolds(j)' /\ PassHold(j)' /\ AttemptHolds(j)'
  <1>1. /\ rows[j].attempts \in Nat /\ seen[j].attempts \in Nat /\ pull[j].attempts \in Nat
        /\ sub[j].attempts \in Nat /\ MaxRetries \in Nat
    BY SystemAssumption
       DEF Typed, SubmitterTyped, PullerTyped, Row, U!Seen, U!Pull, Goroutine
  <1>2. /\ rows'[j].state = rows[j].state \/ rows'[j].state \in {"CANCELED", "NONE"}
        /\ rows'[j].attempts = rows[j].attempts \/ rows'[j].attempts = 0
    BY DEF WithdrawsRow, SameCore, Gone
  <1>3. ApartHolds(j)'
    BY <1>2 DEF Good, ApartHolds, Early
  <1>4. SpentHolds(j)'
    <2>1. rows'[j].state = "NEW" => rows[j].state = "NEW" /\ rows'[j].attempts = rows[j].attempts
      BY DEF WithdrawsRow, SameCore, Gone
    <2> QED BY <1>1, <1>2, <2>1 DEF Good, SpentHolds
  <1>5. PassHold(j)'
    BY DEF Good, PassHold, Waiting, AtFail
  <1>6. AttemptHolds(j)'
    BY <1>1, <1>2 DEF Good, AttemptHolds, Trying
  <1> QED BY <1>3, <1>4, <1>5, <1>6

ClientActs(j) == ClientGet(j) \/ ClientStep(j) \/ ClientRemoves(j) \/ ClientHangsUp(j)

ClientFrame ==
    UNCHANGED <<sub, created, lost, pass, pc, todo, seen, since, crashes, qbit, wiped, dropped>>

\* What SABnzbd's deletes leave alone.
LEMMA ClientFramed ==
    ASSUME NEW j \in Jobs, ClientActs(j)
    PROVE  ClientFrame
  BY DEF ClientActs, ClientGet, ClientStep, ClientRemoves, ClientHangsUp, U!ClientGet,
         U!ClientDropsEnded, U!ClientCancels, U!ClientAborts, U!ClientRemoves, U!ClientHangsUp,
         ClientFrame, submitter, poller, history

\* Delete is a withdrawal.
LEMMA DropRow ==
    ASSUME Typed, NEW j \in Jobs, rows' = Delete(j)
    PROVE  WithdrawsRow(j) /\ rows'[j].state = "NONE"
  <1>1. RowsOK
    BY DEF Typed, SubmitterTyped, RowsOK
  <1> QED BY <1>1, DeleteDrops DEF WithdrawsRow, OnRow, Gone

\* So is a cancel, if it applies.
LEMMA CancelRow ==
    ASSUME Typed, NEW j \in Jobs, NEW from, rows' = Transition(j, from, "CANCELED", rows[j])
    PROVE  /\ WithdrawsRow(j)
           /\ Applies(j, from, "CANCELED") => rows'[j].state = "CANCELED"
           /\ ~Applies(j, from, "CANCELED") => rows' = rows
  BY StateNames, SwapRow DEF WithdrawsRow, SameCore, Gone

\* A request withdraws the job or leaves its row.
LEMMA ClientRow ==
    ASSUME Typed, NEW j \in Jobs, ClientActs(j)
    PROVE  WithdrawsRow(j)
  <1>1. UNCHANGED rows => WithdrawsRow(j)
    BY DEF WithdrawsRow, OnRow, SameCore, Typed, SubmitterTyped
  <1>2. CASE ClientStep(j)
    <2>1. CASE U!ClientDropsEnded(j)
      BY <2>1, DropRow, PullerStatements DEF U!ClientDropsEnded
    <2>2. CASE U!ClientCancels(j)
      <3>1. rows' = Transition(j, client[j].state, "CANCELED", rows[j])
        BY <2>2, PullerStatements DEF U!ClientCancels
      <3> QED BY <3>1, CancelRow
    <2>3. CASE U!ClientAborts(j)
      BY <1>1, <2>3 DEF U!ClientAborts
    <2> QED BY <1>2, <2>1, <2>2, <2>3 DEF ClientStep
  <1>3. CASE ClientGet(j) \/ ClientRemoves(j) \/ ClientHangsUp(j)
    BY <1>1, <1>3 DEF ClientGet, ClientRemoves, ClientHangsUp, U!ClientGet, U!ClientRemoves,
                      U!ClientHangsUp
  <1> QED BY <1>2, <1>3 DEF ClientActs

\* What a request's step leaves of the request.
OnClient(j) == client' \in [Jobs -> U!Request] /\ \A i \in Jobs \ {j} : client'[i] = client[i]

\* A request concerns one job.
LEMMA ClientChanges ==
    ASSUME Typed, NEW j \in Jobs, ClientActs(j)
    PROVE  OnClient(j)
  <1>0. client \in [Jobs -> U!Request] /\ client[j] \in U!Request /\ U!NoRequest \in U!Request
        /\ rows[j] \in Row
    BY DEF Typed, RequestsTyped, SubmitterTyped, U!NoRequest, U!Request
  <1>1. U!AfterCancel(client[j]) \in U!Request /\ U!AfterDiscard(client[j]) \in U!Request
    BY <1>0 DEF U!AfterCancel, U!AfterDiscard, U!Request
  <1>2. ASSUME NEW c \in U!Request, client' = [client EXCEPT ![j] = c]
        PROVE  OnClient(j)
    BY <1>0, <1>2 DEF OnClient
  <1>3. CASE ClientGet(j)
    <2>1. PICK del \in BOOLEAN, drop \in BOOLEAN :
              client' = [client EXCEPT ![j] =
                [U!NoRequest EXCEPT !.pc = "got", !.state = rows[j].state,
                                    !.local = rows[j].local, !.del = del, !.drop = drop]]
      BY <1>3 DEF ClientGet, U!ClientGet
    <2>2. [U!NoRequest EXCEPT !.pc = "got", !.state = rows[j].state,
                              !.local = rows[j].local, !.del = del, !.drop = drop] \in U!Request
      <3>1. rows[j].state \in U!JobStates \cup {"NONE"} /\ rows[j].local \in BOOLEAN
        BY <1>0, PullerStatements DEF Row
      <3> QED BY <3>1 DEF U!NoRequest, U!Request
    <2> QED BY <1>2, <2>1, <2>2
  <1>4. CASE U!ClientDropsEnded(j) \/ U!ClientCancels(j)
    <2>1. PICK b \in BOOLEAN :
            client' = [client EXCEPT ![j] = IF b THEN U!AfterCancel(@) ELSE U!NoRequest]
      BY <1>4 DEF U!ClientDropsEnded, U!ClientCancels
    <2> DEFINE c == IF b THEN U!AfterCancel(client[j]) ELSE U!NoRequest
    <2>2. c \in U!Request
      BY <1>0, <1>1
    <2>3. client' = [client EXCEPT ![j] = c]
      BY <1>0, <2>1
    <2> HIDE DEF c
    <2> QED BY <1>2, <2>2, <2>3
  <1>5. CASE U!ClientAborts(j)
    BY <1>0, <1>5 DEF U!ClientAborts, U!Request, OnClient
  <1>6. CASE U!ClientRemoves(j)
    BY <1>0, <1>1, <1>6 DEF U!ClientRemoves, OnClient
  <1>7. CASE U!ClientHangsUp(j)
    <2> DEFINE r == [client[j] EXCEPT !.pc = "remove", !.dir = pull[j].dir, !.drop = FALSE]
               c == IF client[j].pc = "waiting" THEN r ELSE U!NoRequest
    <2>1. r \in U!Request
      BY <1>0 DEF U!Request, Typed, PullerTyped, U!Pull
    <2>2. client' = [client EXCEPT ![j] = c]
      BY <1>0, <1>7 DEF U!ClientHangsUp
    <2> HIDE DEF r
    <2>3. c \in U!Request
      BY <1>0, <2>1
    <2> HIDE DEF c
    <2> QED BY <1>2, <2>2, <2>3
  <1> QED BY <1>3, <1>4, <1>5, <1>6, <1>7
       DEF ClientActs, ClientStep, ClientRemoves, ClientHangsUp

\* What it does to the pull, the directory, TorBox and the books.
LEMMA AroundTheRequest ==
    ASSUME Typed, NEW j \in Jobs, ClientActs(j)
    PROVE  /\ OnPull(j)
           /\ pull'[j].pc = pull[j].pc /\ pull'[j].attempts = pull[j].attempts
           /\ disk' \in [Jobs -> {"none", "partial", "full"}]
           /\ \A i \in Jobs \ {j} : disk'[i] = disk[i]
           /\ disk' = disk \/ ClientRemoves(j)
           /\ entry' \in [Jobs -> P!Entry] /\ \A i \in Jobs \ {j} : entry'[i] = entry[i]
           /\ entry'[j] = entry[j] \/ entry'[j].st = "gone"
           /\ asked' \in [Jobs -> {"none", "queue", "active"}]
           /\ \A i \in Jobs \ {j} : asked'[i] = asked[i]
           /\ asks' \in [Jobs -> 0..MaxRequests]
           /\ excuse' \in [Jobs -> BOOLEAN] /\ \A i \in Jobs \ {j} : excuse'[i] = excuse[i]
           /\ excuse[j] => excuse'[j]
  <1>0. /\ pull \in [Jobs -> U!Pull] /\ pull[j] \in U!Pull
        /\ disk \in [Jobs -> {"none", "partial", "full"}]
        /\ entry \in [Jobs -> P!Entry] /\ entry[j] \in P!Entry
        /\ asked \in [Jobs -> {"none", "queue", "active"}]
        /\ asks \in [Jobs -> 0..MaxRequests] /\ MaxRequests \in Nat
        /\ excuse \in [Jobs -> BOOLEAN]
        /\ rows[j] \in Row
    BY SystemAssumption DEF Typed, PullerTyped, PollerTyped, RequestsTyped, HistoryTyped,
                            SubmitterTyped
  <1>1. /\ OnPull(j)
        /\ pull'[j].pc = pull[j].pc /\ pull'[j].attempts = pull[j].attempts
    <2>1. CASE U!ClientAborts(j)
      BY <1>0, <2>1 DEF U!ClientAborts, U!Pull, OnPull
    <2>2. CASE UNCHANGED pull
      BY <1>0, <2>2 DEF OnPull
    <2> QED BY <2>1, <2>2
         DEF ClientActs, ClientGet, ClientStep, ClientRemoves, ClientHangsUp, U!ClientGet,
             U!ClientDropsEnded, U!ClientCancels, U!ClientRemoves, U!ClientHangsUp
  <1>2. /\ disk' \in [Jobs -> {"none", "partial", "full"}]
        /\ \A i \in Jobs \ {j} : disk'[i] = disk[i]
        /\ disk' = disk \/ ClientRemoves(j)
    <2>1. CASE ClientRemoves(j)
      BY <1>0, <2>1 DEF ClientRemoves, U!ClientRemoves
    <2>2. CASE ~ClientRemoves(j)
      BY <1>0, <2>2
         DEF ClientActs, ClientGet, ClientStep, ClientHangsUp, U!ClientGet,
             U!ClientDropsEnded, U!ClientCancels, U!ClientAborts, U!ClientHangsUp
    <2> QED BY <2>1, <2>2
  <1>3. /\ entry' \in [Jobs -> P!Entry] /\ \A i \in Jobs \ {j} : entry'[i] = entry[i]
        /\ entry'[j] = entry[j] \/ entry'[j].st = "gone"
    <2>1. CASE ClientRemoves(j)
      <3>1. PICK released \in BOOLEAN :
              entry' = [entry EXCEPT ![j] = IF released /\ @.st # "gone" THEN P!Gone(@) ELSE @]
        BY <2>1 DEF ClientRemoves
      <3>2. P!Gone(entry[j]) \in P!Entry /\ P!Gone(entry[j]).st = "gone"
        BY <1>0 DEF P!Gone, P!Entry
      <3>3. CASE released /\ entry[j].st # "gone"
        <4>1. entry' = [entry EXCEPT ![j] = P!Gone(entry[j])]
          BY <1>0, <3>1, <3>3
        <4> QED BY <1>0, <3>2, <4>1
      <3>4. CASE ~(released /\ entry[j].st # "gone")
        <4>1. entry' = [entry EXCEPT ![j] = entry[j]]
          BY <1>0, <3>1, <3>4
        <4> QED BY <1>0, <4>1
      <3> QED BY <3>3, <3>4
    <2>2. CASE ~ClientRemoves(j)
      BY <1>0, <2>2 DEF ClientActs, ClientGet, ClientStep, ClientHangsUp
    <2> QED BY <2>1, <2>2
  <1>4. /\ asked' \in [Jobs -> {"none", "queue", "active"}]
        /\ \A i \in Jobs \ {j} : asked'[i] = asked[i]
    <2>1. CASE ClientGet(j)
      BY <1>0, <2>1 DEF ClientGet, Row
    <2>2. CASE ClientStep(j)
      BY <1>0, <2>2 DEF ClientStep
    <2>3. CASE ClientRemoves(j) \/ ClientHangsUp(j)
      BY <1>0, <2>3 DEF ClientRemoves, ClientHangsUp
    <2> QED BY <2>1, <2>2, <2>3 DEF ClientActs
  <1>5. asks' \in [Jobs -> 0..MaxRequests]
    <2>1. CASE ClientGet(j)
      BY <1>0, <2>1 DEF ClientGet, Counted
    <2>2. CASE ~ClientGet(j)
      BY <1>0, <2>2 DEF ClientActs, ClientStep, ClientRemoves, ClientHangsUp
    <2> QED BY <2>1, <2>2
  <1>6. /\ excuse' \in [Jobs -> BOOLEAN] /\ \A i \in Jobs \ {j} : excuse'[i] = excuse[i]
        /\ excuse[j] => excuse'[j]
    <2>1. CASE ClientGet(j)
      BY <1>0, <2>1 DEF ClientGet, history
    <2>2. CASE ClientStep(j)
      BY <1>0, <2>2 DEF ClientStep, Excused
    <2>3. CASE ClientRemoves(j)
      BY <1>0, <2>3 DEF ClientRemoves, Excused
    <2>4. CASE ClientHangsUp(j)
      BY <1>0, <2>4 DEF ClientHangsUp, Excused
    <2> QED BY <2>1, <2>2, <2>3, <2>4 DEF ClientActs
  <1> QED BY <1>1, <1>2, <1>3, <1>4, <1>5, <1>6

\* Its steps keep the types and the other jobs.
LEMMA ClientTypes ==
    ASSUME Typed, NEW j \in Jobs, ClientActs(j)
    PROVE  Typed' /\ \A i \in Jobs \ {j} : Untouched(i)
  <1>0. ClientFrame /\ OnRow(j) /\ OnClient(j)
    BY ClientFramed, ClientRow, ClientChanges DEF WithdrawsRow
  <1>1. SubmitterTyped' /\ PollerTyped'
    BY <1>0, AroundTheRequest DEF ClientFrame, OnRow, Typed, SubmitterTyped, PollerTyped
  <1>2. PullerTyped'
    BY <1>0, AroundTheRequest DEF ClientFrame, OnPull, Typed, PullerTyped
  <1>3. RequestsTyped' /\ HistoryTyped'
    BY <1>0, AroundTheRequest DEF ClientFrame, OnClient, Typed, RequestsTyped, HistoryTyped
  <1>4. ASSUME NEW i \in Jobs \ {j} PROVE Untouched(i)
    BY <1>0, AroundTheRequest
       DEF ClientFrame, OnRow, OnPull, OnClient, Untouched, SameCore, AtFail
  <1> QED BY <1>1, <1>2, <1>3, <1>4 DEF Typed

\* Where a request goes after its cancel, and after its discard.
LEMMA AfterTheCancel ==
    ASSUME NEW c \in U!Request
    PROVE  /\ c.del => U!AfterCancel(c).pc = "abort" /\ U!AfterCancel(c).del
           /\ U!AfterCancel(c).pc \in {"abort", "drop", "idle"}
           /\ U!AfterDiscard(c).pc \in {"drop", "idle"}
           /\ U!NoRequest.pc = "idle"
  BY DEF U!AfterCancel, U!AfterDiscard, U!Request, U!NoRequest

\* They keep the job right: a cancel that asks for the slot goes on to Discard,
\* any other has an excuse, and only a withdrawn job loses its files
\* (discard.go).
LEMMA ClientGood ==
    ASSUME Typed, NEW j \in Jobs, Good(j), ClientActs(j)
    PROVE  Good(j)'
  <1>0. ClientFrame /\ WithdrawsRow(j) /\ client[j] \in U!Request
        /\ asked[j] \in {"none", "queue", "active"}
    BY ClientFramed, ClientRow DEF Typed, RequestsTyped
  <1>1. ApartHolds(j)' /\ SpentHolds(j)' /\ PassHold(j)' /\ AttemptHolds(j)'
    BY <1>0, AroundTheRequest, WithdrawGood DEF ClientFrame
  <1>2. FileHolds(j)'
    <2>1. ClientRemoves(j) => Gone(j)'
      BY DEF ClientRemoves, U!ClientRemoves, Good, RequestHolds, Gone
    <2>2. disk' = disk \/ Gone(j)'
      BY <2>1, AroundTheRequest
    <2>3. SameCore(rows'[j], rows[j]) \/ Gone(j)'
      BY <1>0 DEF WithdrawsRow
    <2>4. pull'[j].pc = pull[j].pc
      BY AroundTheRequest
    <2> QED BY <1>0, <2>2, <2>3, <2>4
         DEF Good, FileHolds, Sign, SameCore, Gone, ClientFrame
  \* The parts about the request itself, action by action.
  <1> SUFFICES EntryHolds(j)' /\ RequestHolds(j)'
    BY <1>1, <1>2 DEF Good
  <1> client \in [Jobs -> U!Request]
    BY DEF Typed, RequestsTyped
  <1>3. CASE ClientGet(j)
    <2>1. /\ rows' = rows /\ entry' = entry /\ excuse' = excuse
          /\ client[j].pc = "idle"
          /\ client'[j].pc = "got" /\ client'[j].state = rows[j].state
      BY <1>3 DEF ClientGet, U!ClientGet, U!NoRequest, history
    <2>2. asked'[j] # "none" => client'[j].del
      BY <1>3 DEF ClientGet, Typed, RequestsTyped
    <2>3. ~Releases(j)
      BY <2>1 DEF Releases
    <2>4. EntryHolds(j)'
      BY <1>0, <2>1, <2>2, <2>3 DEF Good, EntryHolds, Waiting, ClientFrame
    <2>5. RequestHolds(j)'
      BY <2>1 DEF RequestHolds
    <2> QED BY <2>4, <2>5
  <1>4. CASE ClientStep(j)
    <2>0. /\ entry' = entry
          /\ asked'[j] = IF client'[j].pc = "idle" THEN "none" ELSE asked[j]
          /\ excuse'[j] = (excuse[j] \/ (/\ rows[j].state \in {"SUBMITTED", "DOWNLOADING"}
                                         /\ rows'[j].state = "CANCELED"
                                         /\ asked[j] = "none"))
      BY <1>4 DEF ClientStep, Excused, P!InFlight, Typed, RequestsTyped, HistoryTyped
    <2>1. CASE U!ClientDropsEnded(j)
      <3>1. client[j].pc = "got" /\ rows'[j].state = "NONE"
        BY <2>1, DropRow, PullerStatements DEF U!ClientDropsEnded
      <3>2. rows[j].state \in Terminal \cup {"NONE"}
        BY <2>1, PullerStatements DEF U!ClientDropsEnded, Good, RequestHolds
      <3>3. client'[j] = U!AfterCancel(client[j]) \/ client'[j] = U!NoRequest
        BY <2>1 DEF U!ClientDropsEnded
      <3>4. ~Releases(j) /\ rows[j].state \notin {"SUBMITTED", "DOWNLOADING"}
        BY <3>1, <3>2 DEF Releases, Terminal
      <3>5. EntryHolds(j)'
        BY <1>0, <2>0, <3>3, <3>4, AfterTheCancel DEF Good, EntryHolds, Waiting, ClientFrame
      <3>6. RequestHolds(j)'
        BY <1>0, <3>1, <3>3, AfterTheCancel DEF RequestHolds, Gone
      <3> QED BY <3>5, <3>6
    <2>2. CASE U!ClientCancels(j)
      <3> DEFINE from == client[j].state
      <3>1. client[j].pc = "got" /\ rows' = Transition(j, from, "CANCELED", rows[j])
        BY <2>2, PullerStatements DEF U!ClientCancels
      <3>2. client'[j] = IF Applies(j, from, "CANCELED") THEN U!AfterCancel(client[j])
                                                         ELSE U!NoRequest
        BY <2>2, PullerStatements DEF U!ClientCancels
      <3>3. ~Releases(j)
        BY <3>1 DEF Releases
      <3>4. CASE Applies(j, from, "CANCELED")
        <4>1. rows'[j].state = "CANCELED" /\ client'[j] = U!AfterCancel(client[j])
          BY <3>1, <3>2, <3>4, CancelRow
        <4>2. EntryHolds(j)'
          <5>1. asked'[j] # "none" => client'[j].pc # "idle" /\ client'[j].del
            BY <1>0, <2>0, <4>1, AfterTheCancel DEF Good, EntryHolds
          <5>2. asked[j] # "none" => Releases(j)'
            BY <1>0, <2>0, <4>1, AfterTheCancel DEF Good, EntryHolds, Releases
          <5>3. Waiting(j)' => excuse'[j] \/ sub'[j].pc = "accepted" \/ Releases(j)'
            BY <1>0, <2>0, <3>3, <4>1, <5>2 DEF Good, EntryHolds, Waiting, ClientFrame
          <5> QED BY <5>1, <5>3 DEF EntryHolds
        <4>3. RequestHolds(j)'
          BY <1>0, <4>1, AfterTheCancel DEF RequestHolds, Gone
        <4> QED BY <4>2, <4>3
      <3>5. CASE ~Applies(j, from, "CANCELED")
        <4>1. rows' = rows /\ client'[j] = U!NoRequest
          BY <3>1, <3>2, <3>5, CancelRow
        <4>2. EntryHolds(j)'
          BY <1>0, <2>0, <3>3, <4>1, AfterTheCancel DEF Good, EntryHolds, Waiting, ClientFrame
        <4>3. RequestHolds(j)'
          BY <1>0, <4>1, AfterTheCancel DEF RequestHolds
        <4> QED BY <4>2, <4>3
      <3> QED BY <3>4, <3>5
    <2>3. CASE U!ClientAborts(j)
      <3>1. /\ client[j].pc = "abort" /\ rows' = rows
            /\ client'[j].pc \in {"waiting", "remove"} /\ client'[j].del = client[j].del
        BY <1>0, <2>3 DEF U!ClientAborts, U!Request
      <3>2. EntryHolds(j)'
        BY <1>0, <2>0, <3>1 DEF Good, EntryHolds, Waiting, Releases, ClientFrame
      <3>3. RequestHolds(j)'
        BY <3>1 DEF Good, RequestHolds, Gone
      <3> QED BY <3>2, <3>3
    <2> QED BY <1>4, <2>1, <2>2, <2>3 DEF ClientStep
  <1>5. CASE ClientRemoves(j)
    <2>1. /\ client[j].pc = "remove" /\ rows' = rows /\ client'[j].pc \in {"drop", "idle"}
          /\ asked'[j] = "none"
      BY <1>0, <1>5, AfterTheCancel
         DEF ClientRemoves, U!ClientRemoves, Typed, RequestsTyped
    <2>2. asked[j] # "none" => entry'[j].st = "gone" \/ excuse'[j]
      <3> SUFFICES ASSUME asked[j] # "none" PROVE entry'[j].st = "gone" \/ excuse'[j]
        OBVIOUS
      <3>1. PICK released \in BOOLEAN :
                /\ entry' = [entry EXCEPT ![j] = IF released /\ @.st # "gone" THEN P!Gone(@) ELSE @]
                /\ excuse' = [excuse EXCEPT ![j] = @ \/ ~released]
        BY <1>5 DEF ClientRemoves, Excused
      <3>2. entry \in [Jobs -> P!Entry] /\ excuse \in [Jobs -> BOOLEAN]
        BY DEF Typed, PollerTyped, HistoryTyped
      <3>3. CASE released
        <4>1. entry'[j] = IF entry[j].st # "gone" THEN P!Gone(entry[j]) ELSE entry[j]
          BY <3>1, <3>2, <3>3
        <4>2. P!Gone(entry[j]).st = "gone"
          BY <3>2 DEF P!Gone, P!Entry
        <4> QED BY <4>1, <4>2
      <3>4. CASE ~released
        BY <3>1, <3>2, <3>4
      <3> QED BY <3>3, <3>4
    <2>3. EntryHolds(j)'
      BY <1>0, <2>1, <2>2, AroundTheRequest DEF Good, EntryHolds, Waiting, Releases, ClientFrame
    <2>4. RequestHolds(j)'
      BY <2>1 DEF Good, RequestHolds, Gone
    <2> QED BY <2>3, <2>4
  <1>6. CASE ClientHangsUp(j)
    <2>1. /\ client[j].pc \in {"got", "waiting", "drop"} /\ rows' = rows /\ entry' = entry
          /\ client[j].pc # "waiting" => client'[j].pc = "idle"
          /\ client[j].pc = "waiting" => client'[j].pc = "remove"
          /\ asked'[j] = "none"
      <3>1. client'[j] = IF client[j].pc = "waiting"
                         THEN [client[j] EXCEPT !.pc = "remove", !.dir = pull[j].dir,
                                                !.drop = FALSE]
                         ELSE U!NoRequest
        BY <1>6 DEF ClientHangsUp, U!ClientHangsUp
      <3>2. client[j].pc = "waiting" => client'[j].pc = "remove"
        BY <1>0, <3>1 DEF U!Request
      <3> QED BY <1>0, <1>6, <3>1, <3>2, AfterTheCancel
           DEF ClientHangsUp, U!ClientHangsUp, Typed, RequestsTyped
    <2>2. excuse'[j] = (excuse[j] \/ client[j].pc = "waiting")
      BY <1>6 DEF ClientHangsUp, Excused, Typed, HistoryTyped
    <2>3. EntryHolds(j)'
      BY <1>0, <2>1, <2>2 DEF Good, EntryHolds, Waiting, Releases, ClientFrame
    <2>4. RequestHolds(j)'
      BY <2>1 DEF Good, RequestHolds, Gone
    <2> QED BY <2>3, <2>4
  <1> QED BY <1>3, <1>4, <1>5, <1>6 DEF ClientActs

-----------------------------------------------------------------------------
(***************************************************************************)
(* qBittorrent's deletes and the reaper                                    *)
(***************************************************************************)
QbitActs(j) == QbitGet(j) \/ QbitRemoves(j) \/ QbitDrops(j) \/ QbitHangsUp(j)

QbitFrame ==
    UNCHANGED <<sub, created, lost, entry, pass, pc, todo, seen, pull, since, client, asked,
                crashes>>

\* What qBittorrent's delete leaves alone (handlers.go handleTorrentsDelete).
LEMMA QbitFramed ==
    ASSUME NEW j \in Jobs, QbitActs(j)
    PROVE  QbitFrame
  BY DEF QbitActs, QbitGet, QbitRemoves, QbitDrops, QbitHangsUp, QbitFrame, submitter, poller,
         puller, history

\* It drops the row or leaves it.
LEMMA QbitRow ==
    ASSUME Typed, NEW j \in Jobs, QbitActs(j)
    PROVE  /\ WithdrawsRow(j)
           /\ rows' = rows \/ (QbitDrops(j) /\ rows'[j].state = "NONE")
  <1>1. CASE QbitDrops(j)
    BY <1>1, DropRow DEF QbitDrops
  <1>2. CASE ~QbitDrops(j)
    <2>1. rows' = rows
      BY <1>2 DEF QbitActs, QbitGet, QbitRemoves, QbitHangsUp
    <2> QED BY <2>1 DEF WithdrawsRow, OnRow, SameCore, Typed, SubmitterTyped
  <1> QED BY <1>1, <1>2

\* What it does to the directory and to the books: whoever loses files or a row
\* to it is marked.
LEMMA AroundTheDelete ==
    ASSUME Typed, NEW j \in Jobs, QbitActs(j)
    PROVE  /\ disk' \in [Jobs -> {"none", "partial", "full"}]
           /\ \A i \in Jobs \ {j} : disk'[i] = disk[i]
           /\ disk'[j] = disk[j] \/ wiped'[j] # "no"
           /\ wiped' \in [Jobs -> {"no", "now", "once"}]
           /\ \A i \in Jobs \ {j} : wiped'[i] = wiped[i]
           /\ wiped'[j] = "no" => wiped[j] = "no"
           /\ qbit' \in [Jobs -> QbitRequest]
           /\ asks' \in [Jobs -> 0..MaxRequests]
           /\ excuse' \in [Jobs -> BOOLEAN] /\ \A i \in Jobs \ {j} : excuse'[i] = excuse[i]
           /\ excuse[j] => excuse'[j]
           /\ QbitDrops(j) /\ rows[j].state \in {"SUBMITTED", "DOWNLOADING"} => excuse'[j]
           /\ dropped' \in [Jobs -> BOOLEAN] /\ \A i \in Jobs \ {j} : dropped'[i] = dropped[i]
  <1>0. /\ disk \in [Jobs -> {"none", "partial", "full"}]
        /\ wiped \in [Jobs -> {"no", "now", "once"}]
        /\ qbit \in [Jobs -> QbitRequest] /\ qbit[j] \in QbitRequest
        /\ asks \in [Jobs -> 0..MaxRequests] /\ MaxRequests \in Nat
        /\ excuse \in [Jobs -> BOOLEAN] /\ dropped \in [Jobs -> BOOLEAN]
        /\ rows[j] \in Row
        /\ NoDelete \in QbitRequest
    BY SystemAssumption DEF Typed, PullerTyped, RequestsTyped, HistoryTyped, SubmitterTyped,
                            NoDelete, QbitRequest
  <1>1. CASE QbitGet(j)
    <2>1. PICK b \in BOOLEAN :
            qbit' = [qbit EXCEPT ![j] =
                IF b THEN [pc |-> "remove", dir |-> rows[j].local \/ rows[j].folder]
                ELSE [NoDelete EXCEPT !.pc = "drop"]]
      BY <1>1 DEF QbitGet
    <2>2. [pc |-> "remove", dir |-> rows[j].local \/ rows[j].folder] \in QbitRequest
      <3>1. rows[j].local \in BOOLEAN /\ rows[j].folder \in BOOLEAN
        BY <1>0 DEF Row
      <3>2. (rows[j].local \/ rows[j].folder) \in BOOLEAN
        BY <3>1
      <3> QED BY <3>2 DEF QbitRequest
    <2>3. [NoDelete EXCEPT !.pc = "drop"] \in QbitRequest
      BY DEF NoDelete, QbitRequest
    <2>4. qbit' \in [Jobs -> QbitRequest]
      <3>1. CASE b
        BY <1>0, <2>1, <2>2, <3>1
      <3>2. CASE ~b
        BY <1>0, <2>1, <2>3, <3>2
      <3> QED BY <3>1, <3>2
    <2>5. asks' \in [Jobs -> 0..MaxRequests]
      BY <1>0, <1>1 DEF QbitGet, Counted
    <2>6. UNCHANGED <<disk, excuse, wiped, dropped>> /\ ~QbitDrops(j)
      BY <1>1 DEF QbitGet, QbitDrops, puller, history
    <2> QED BY <1>0, <2>4, <2>5, <2>6
  <1>2. CASE QbitRemoves(j)
    <2>1. qbit' \in [Jobs -> QbitRequest]
      BY <1>0, <1>2 DEF QbitRemoves, QbitRequest
    <2>2. UNCHANGED <<asks, excuse, dropped>> /\ ~QbitDrops(j)
      BY <1>2 DEF QbitRemoves, QbitDrops
    <2>3. CASE qbit[j].dir
      <3>1. /\ disk' = [disk EXCEPT ![j] = "none"]
            /\ wiped' = [wiped EXCEPT ![j] = IF pull[j].pc = "download" THEN "now" ELSE "once"]
        BY <1>2, <2>3 DEF QbitRemoves
      <3> QED BY <1>0, <2>1, <2>2, <3>1
    <2>4. CASE ~qbit[j].dir
      <3>1. UNCHANGED <<disk, wiped>>
        BY <1>2, <2>4 DEF QbitRemoves
      <3> QED BY <1>0, <2>1, <2>2, <3>1
    <2> QED BY <2>3, <2>4
  <1>3. CASE QbitDrops(j)
    BY <1>0, <1>3 DEF QbitDrops, Excused, P!InFlight, puller
  <1>4. CASE QbitHangsUp(j) /\ ~QbitDrops(j)
    BY <1>0, <1>4 DEF QbitHangsUp, puller, history
  <1> QED BY <1>1, <1>2, <1>3, <1>4 DEF QbitActs

\* Its steps are fine: whoever lost files or a slot to it is marked.
LEMMA QbitFine ==
    ASSUME Typed, NEW j \in Jobs, Good(j), QbitActs(j)
    PROVE  Fine(j)
  <1>0. QbitFrame /\ WithdrawsRow(j) /\ OnRow(j)
    BY QbitFramed, QbitRow DEF WithdrawsRow
  <1>1. Typed'
    <2>1. SubmitterTyped' /\ PollerTyped'
      BY <1>0 DEF QbitFrame, OnRow, Typed, SubmitterTyped, PollerTyped
    <2>2. PullerTyped' /\ RequestsTyped' /\ HistoryTyped'
      BY <1>0, AroundTheDelete DEF QbitFrame, Typed, PullerTyped, RequestsTyped, HistoryTyped
    <2> QED BY <2>1, <2>2 DEF Typed
  <1>2. ASSUME NEW i \in Jobs \ {j} PROVE Untouched(i)
    BY <1>0, AroundTheDelete DEF QbitFrame, OnRow, Untouched, SameCore, AtFail
  <1>3. ApartHolds(j)' /\ SpentHolds(j)' /\ PassHold(j)' /\ AttemptHolds(j)'
    BY <1>0, AroundTheDelete, WithdrawGood DEF QbitFrame
  <1>4. SameCore(rows'[j], rows[j]) \/ Gone(j)'
    BY <1>0 DEF WithdrawsRow
  <1>5. EntryHolds(j)'
    <2>1. rows[j].state \in {"SUBMITTED", "DOWNLOADING"}
              => rows'[j].state = rows[j].state \/ excuse'[j]
      BY QbitRow, AroundTheDelete
    <2> QED BY <1>0, <2>1, AroundTheDelete
         DEF Good, EntryHolds, Waiting, Releases, QbitFrame
  <1>6. FileHolds(j)'
    BY <1>0, <1>4, AroundTheDelete DEF Good, FileHolds, Sign, Gone, SameCore, QbitFrame
  <1>7. RequestHolds(j)'
    BY <1>0, QbitRow DEF Good, RequestHolds, Gone, QbitFrame
  <1> QED BY <1>1, <1>2, <1>3, <1>5, <1>6, <1>7 DEF Fine, Good

\* The reaper only drops what has ended (reaper.go).
LEMMA ReapFine ==
    ASSUME Typed, NEW j \in Jobs, Good(j), Ended(j), rows' = Delete(j), Reap
    PROVE  Fine(j)
  <1>0. /\ UNCHANGED <<sub, created, lost, entry, pass, pc, todo, seen, pull, since, disk, client,
                       asked, qbit, asks, crashes, excuse, wiped, dropped>>
        /\ WithdrawsRow(j) /\ OnRow(j) /\ rows'[j].state = "NONE"
        /\ rows[j].state \notin {"SUBMITTED", "DOWNLOADING"}
    BY DropRow DEF Reap, submitter, poller, puller, requests, history, WithdrawsRow, Ended, Terminal
  <1>1. Typed'
    BY <1>0 DEF OnRow, Typed, SubmitterTyped, PollerTyped, PullerTyped, RequestsTyped, HistoryTyped
  <1>2. ASSUME NEW i \in Jobs \ {j} PROVE Untouched(i)
    BY <1>0 DEF OnRow, Untouched, SameCore, AtFail
  <1>3. ApartHolds(j)' /\ SpentHolds(j)' /\ PassHold(j)' /\ AttemptHolds(j)'
    BY <1>0, WithdrawGood
  <1>4. EntryHolds(j)'
    BY <1>0 DEF Good, EntryHolds, Waiting, Releases
  <1>5. FileHolds(j)' /\ RequestHolds(j)'
    BY <1>0 DEF Good, FileHolds, RequestHolds, Gone
  <1> QED BY <1>1, <1>2, <1>3, <1>4, <1>5 DEF Fine, Good

-----------------------------------------------------------------------------
(***************************************************************************)
(* The steps that concern every job at once                                *)
(***************************************************************************)
AllGood == \A i \in Jobs : Good(i)

\* A claim takes new jobs only, and their attempts are those of the row
\* (submitter.go dispatchOnce).
LEMMA DispatchFine ==
    ASSUME Typed, AllGood, Dispatch
    PROVE  Typed' /\ AllGood'
  <1> DEFINE batch == S!Oldest(S!Claimable, PoolSize)
  <1>0. /\ S!CanDispatch
        /\ rows' = Claim(batch)
        /\ sub' = [i \in Jobs |->
               IF i \in batch THEN [S!Idle EXCEPT !.pc = "create", !.attempts = rows[i].attempts]
               ELSE S!Idle]
        /\ UNCHANGED <<created, lost, crashes, entry, pass, pc, todo, seen, pull, since, disk,
                       client, asked, qbit, asks, excuse, wiped, dropped>>
    BY SubmitterStatements DEF Dispatch, S!Dispatch, poller, puller, requests, history
  <1>1. batch \in SUBSET Jobs /\ \A i \in batch : rows[i].state = "NEW"
    BY DEF S!Oldest, S!Claimable, S!DueIn
  <1>2. \A i \in Jobs : sub[i].pc = "none"
    BY <1>0 DEF S!CanDispatch
  <1> HIDE DEF batch
  <1>3. rows' \in [Jobs -> Row] /\ \A i \in Jobs : SameCore(rows'[i], rows[i])
    BY <1>0, <1>1, ClaimLeases DEF Typed, SubmitterTyped, RowsOK
  <1>4. \A i \in Jobs : rows[i].attempts \in Nat
    BY DEF Typed, SubmitterTyped, Row
  <1>5. \A i \in Jobs : /\ sub'[i] \in Goroutine
                        /\ i \in batch => /\ sub'[i].pc = "create"
                                          /\ sub'[i].attempts = rows[i].attempts
                        /\ i \notin batch => sub'[i].pc = "none"
    BY <1>0, <1>4 DEF S!Idle, Goroutine
  <1>6. sub' \in [Jobs -> Goroutine]
    BY <1>0, <1>5
  <1>7. Typed'
    BY <1>0, <1>3, <1>6
       DEF Typed, SubmitterTyped, PollerTyped, PullerTyped, RequestsTyped, HistoryTyped
  <1>8. ASSUME NEW i \in Jobs PROVE Good(i)'
    <2>0. /\ Good(i) /\ SameCore(rows'[i], rows[i]) /\ sub[i].pc = "none"
          /\ sub'[i].pc \in {"create", "none"} /\ (sub'[i].pc # "none" => rows[i].state = "NEW")
          /\ sub'[i].pc # "none" => sub'[i].attempts = rows[i].attempts
      BY <1>1, <1>2, <1>3, <1>5 DEF AllGood
    <2>1. ApartHolds(i)'
      BY <1>0, <2>0 DEF Good, ApartHolds, Early, SameCore
    <2>2. SpentHolds(i)'
      BY <1>4, <2>0 DEF Good, SpentHolds, SameCore
    <2>3. EntryHolds(i)'
      BY <1>0, <2>0 DEF Good, EntryHolds, SameCore, Waiting, Releases
    <2>4. PassHold(i)'
      BY <1>0, <2>0 DEF Good, PassHold, AtFail, Waiting
    <2>5. FileHolds(i)' /\ RequestHolds(i)' /\ AttemptHolds(i)'
      BY <1>0, <2>0 DEF Good, FileHolds, RequestHolds, AttemptHolds, Sign, Gone, Trying, SameCore
    <2> QED BY <2>1, <2>2, <2>3, <2>4, <2>5 DEF Good
  <1> QED BY <1>7, <1>8 DEF AllGood

\* A pass starts with jobs that are in TorBox's hands, and what it reads of
\* them is right unless the torrent list was missing (poller.go Poll).
LEMMA PollListFine ==
    ASSUME Typed, AllGood, PollList
    PROVE  Typed' /\ AllGood'
  <1>0. /\ P!PollList
        /\ UNCHANGED <<rows, sub, created, lost, crashes, entry, pc, todo, seen, pull, since, disk,
                       client, asked, qbit, asks, wiped, dropped>>
        /\ excuse' = [j \in Jobs |-> excuse[j] \/ (j \in DOMAIN pass' /\ pass'[j].item # entry[j])]
        /\ DOMAIN pass = {} /\ pc = "match"
    BY DEF PollList, P!PollList, P!Todo, submitter, puller, requests, Typed, PollerTyped
  <1> DEFINE listed == P!ListByStates(P!InFlight)
  <1>1. listed \subseteq Jobs /\ \A i \in listed : rows[i].state \in {"SUBMITTED", "DOWNLOADING"}
    BY DEF P!ListByStates, P!InFlight
  <1> HIDE DEF listed
  <1>2. PICK torrentsListed \in BOOLEAN :
            pass' = [j \in listed |->
                [row  |-> rows[j],
                 item |-> IF j \in Torrents /\ ~torrentsListed THEN P!Gone(entry[j]) ELSE entry[j]]]
    BY <1>0 DEF P!PollList, listed
  <1>3. DOMAIN pass' = listed /\ pass' \in [listed -> Reading]
    <2> SUFFICES ASSUME NEW i \in listed PROVE pass'[i] \in Reading
      BY <1>2
    <2>1. rows[i] \in Row /\ entry[i] \in P!Entry
      BY <1>1 DEF Typed, SubmitterTyped, PollerTyped
    <2>2. P!Gone(entry[i]) \in P!Entry
      BY <2>1 DEF P!Gone, P!Entry
    <2> QED BY <1>2, <2>1, <2>2 DEF Reading
  <1>4. excuse' \in [Jobs -> BOOLEAN]
    BY <1>0 DEF Typed, HistoryTyped
  <1>5. Typed'
    BY <1>0, <1>1, <1>3, <1>4
       DEF Typed, SubmitterTyped, PollerTyped, PullerTyped, RequestsTyped, HistoryTyped
  <1>6. ASSUME NEW i \in Jobs PROVE Good(i)'
    <2>0. /\ Good(i) /\ (excuse[i] => excuse'[i])
          /\ i \in DOMAIN pass' => /\ rows[i].state \in {"SUBMITTED", "DOWNLOADING"}
                                   /\ pass'[i].item # entry[i] => excuse'[i]
          /\ ~AtFail(i)'
      BY <1>0, <1>1, <1>3 DEF AllGood, AtFail
    <2>1. ApartHolds(i)'
      BY <1>0, <2>0 DEF Good, ApartHolds, Early
    <2>2. SpentHolds(i)'
      BY <1>0, <2>0 DEF Good, SpentHolds
    <2>3. EntryHolds(i)'
      BY <1>0, <2>0 DEF Good, EntryHolds, Waiting, Releases
    <2>4. PassHold(i)'
      BY <1>0, <2>0 DEF PassHold, Waiting
    <2>5. FileHolds(i)' /\ RequestHolds(i)' /\ AttemptHolds(i)'
      BY <1>0, <2>0 DEF Good, FileHolds, RequestHolds, AttemptHolds, Sign, Gone, Trying
    <2> QED BY <2>1, <2>2, <2>3, <2>4, <2>5 DEF Good
  <1> QED BY <1>5, <1>6 DEF AllGood

\* The puller lists completed jobs, with the attempts and the path of their
\* rows (puller.go Tick).
LEMMA TickListFine ==
    ASSUME Typed, AllGood, TickList
    PROVE  Typed' /\ AllGood'
  <1>0. UNCHANGED <<rows, sub, created, lost, crashes, entry, pass, pc, pull, since, disk,
                    client, asked, qbit, asks, excuse, wiped, dropped>>
    BY DEF TickList, U!TickList, submitter, poller, history
  <1>1. /\ todo' \subseteq Jobs /\ \A i \in todo' : rows[i].state = "COMPLETED_TORBOX"
        /\ seen' = [i \in Jobs |-> IF i \in todo'
                                   THEN [attempts |-> rows[i].attempts, local |-> rows[i].local]
                                   ELSE U!NotSeen]
    BY DEF TickList, U!TickList, U!ListDueByStates, U!Oldest, U!DueIn
  <1>2. ASSUME NEW i \in Jobs
        PROVE  /\ seen'[i] \in U!Seen
               /\ i \in todo' => seen'[i].attempts = rows[i].attempts
               /\ seen'[i].local => rows[i].local
    <2>1. rows[i].attempts \in Nat /\ rows[i].local \in BOOLEAN
      BY DEF Typed, SubmitterTyped, Row
    <2> QED BY <1>1, <2>1 DEF U!NotSeen, U!Seen
  <1>3. seen' \in [Jobs -> U!Seen]
    BY <1>1, <1>2
  <1>4. Typed'
    BY <1>0, <1>1, <1>3
       DEF Typed, SubmitterTyped, PollerTyped, PullerTyped, RequestsTyped, HistoryTyped
  <1>5. ASSUME NEW i \in Jobs PROVE Good(i)'
    <2>0. Good(i) /\ rows[i].attempts \in Nat
      BY DEF AllGood, Typed, SubmitterTyped, Row
    <2>1. ApartHolds(i)'
      BY <1>0, <1>1, <2>0 DEF Good, ApartHolds, Early
    <2>2. SpentHolds(i)' /\ EntryHolds(i)' /\ PassHold(i)' /\ RequestHolds(i)'
      BY <1>0, <2>0
         DEF Good, SpentHolds, EntryHolds, PassHold, RequestHolds, Waiting, Releases, AtFail, Gone
    <2>3. FileHolds(i)'
      BY <1>0, <1>2, <2>0 DEF Good, FileHolds, Sign, Gone
    <2>4. AttemptHolds(i)'
      BY <1>0, <1>2, <2>0 DEF Good, AttemptHolds, Trying
    <2> QED BY <2>1, <2>2, <2>3, <2>4 DEF Good
  <1> QED BY <1>4, <1>5 DEF AllGood

\* Time moves clocks only.
LEMMA TickFine ==
    ASSUME Typed, AllGood, Tick
    PROVE  /\ Typed' /\ AllGood'
           /\ \A i \in Jobs : Untouched(i)
  <1>0. /\ UNCHANGED <<sub, created, lost, crashes, entry, pass, pc, todo, seen, pull, disk,
                       client, asked, qbit, asks, excuse, wiped, dropped>>
        /\ rows' = AgedRows
        /\ since' = [j \in Jobs |-> U!ArchiveClock(since[j])]
    BY DEF Tick, submitter, poller, requests, history
  <1>1. rows' \in [Jobs -> Row] /\ \A i \in Jobs : SameCore(rows'[i], rows[i])
    BY <1>0, AgedRowsKeep DEF Typed, SubmitterTyped, RowsOK
  <1>2. since' \in [Jobs -> 0..ArchiveTicks \cup {-1}]
    <2>1. ArchiveTicks \in Nat
      BY SystemAssumption
    <2>2. \A n \in 0..ArchiveTicks \cup {-1} : U!ArchiveClock(n) \in 0..ArchiveTicks \cup {-1}
      BY <2>1 DEF U!ArchiveClock
    <2> QED BY <1>0, <2>2 DEF Typed, PullerTyped
  <1>3. Typed'
    BY <1>0, <1>1, <1>2
       DEF Typed, SubmitterTyped, PollerTyped, PullerTyped, RequestsTyped, HistoryTyped
  <1>4. ASSUME NEW i \in Jobs PROVE Untouched(i)
    BY <1>0, <1>1 DEF Untouched, AtFail
  <1> QED BY <1>3, <1>4, UntouchedStaysGood DEF AllGood

\* A crash takes with it what only the process knew, and whoever was about to
\* record or release an entry has the excuse (Manager.Run starts from the table).
LEMMA CrashFine ==
    ASSUME Typed, AllGood, Crash
    PROVE  Typed' /\ AllGood'
  <1>0. /\ S!Crash
        /\ pass' = P!NoPass /\ pc' = "match"
        /\ todo' = {} /\ seen' = [i \in Jobs |-> U!NotSeen]
        /\ pull' = [i \in Jobs |-> U!NoPull]
        /\ since' = [i \in Jobs |-> U!Unseen]
        /\ client' = [i \in Jobs |-> U!NoRequest]
        /\ asked' = [i \in Jobs |-> "none"]
        /\ qbit' = [i \in Jobs |-> NoDelete]
        /\ excuse' = [i \in Jobs |-> excuse[i] \/ Underway(i)]
        /\ wiped' = [i \in Jobs |-> IF wiped[i] = "now" THEN "once" ELSE wiped[i]]
        /\ UNCHANGED <<entry, disk, asks, dropped>>
    BY DEF Crash
  <1>1. /\ crashes' \in 0..MaxCrashes
        /\ lost' \in [Jobs -> Nat]
        /\ sub' = [i \in Jobs |-> S!Idle]
        /\ UNCHANGED <<rows, created>>
    BY <1>0, SystemAssumption DEF S!Crash, Typed, SubmitterTyped
  <1>2. S!Idle \in Goroutine /\ S!Idle.pc = "none"
    BY DEF S!Idle, Goroutine
  <1>3. SubmitterTyped'
    BY <1>1, <1>2 DEF Typed, SubmitterTyped
  <1>4. PollerTyped' /\ DOMAIN pass' = {}
    BY <1>0 DEF P!NoPass, Typed, PollerTyped
  <1>5. PullerTyped'
    BY <1>0, SystemAssumption
       DEF Typed, PullerTyped, U!NotSeen, U!Seen, U!NoPull, U!Pull, U!Unseen
  <1>6. RequestsTyped'
    BY <1>0 DEF Typed, RequestsTyped, U!NoRequest, U!Request, NoDelete, QbitRequest
  <1>7. HistoryTyped'
    BY <1>0 DEF Typed, HistoryTyped
  <1>8. ASSUME NEW i \in Jobs PROVE Good(i)'
    <2>0. /\ Good(i)
          /\ sub'[i].pc = "none" /\ seen'[i] = U!NotSeen /\ pull'[i].pc = "none"
          /\ client'[i].pc = "idle" /\ asked'[i] = "none"
          /\ excuse'[i] = (excuse[i] \/ Underway(i))
          /\ wiped'[i] = "no" => wiped[i] = "no"
      BY <1>0, <1>1, <1>2 DEF AllGood, U!NoPull, U!NoRequest
    <2>1. ApartHolds(i)' /\ SpentHolds(i)'
      BY <1>0, <1>1, <1>4, <2>0 DEF Good, ApartHolds, SpentHolds, Early
    <2>2. EntryHolds(i)'
      BY <1>0, <1>1, <2>0 DEF Good, EntryHolds, Waiting, Releases, Underway
    <2>3. PassHold(i)' /\ RequestHolds(i)'
      BY <1>4, <2>0 DEF PassHold, RequestHolds
    <2>4. FileHolds(i)'
      BY <1>0, <1>1, <2>0 DEF Good, FileHolds, Sign, Gone, U!NotSeen
    <2>5. AttemptHolds(i)'
      BY <1>0, <1>1, <2>0 DEF Good, AttemptHolds, Trying
    <2> QED BY <2>1, <2>2, <2>3, <2>4, <2>5 DEF Good
  <1> QED BY <1>3, <1>4, <1>5, <1>6, <1>7, <1>8 DEF Typed, AllGood

-----------------------------------------------------------------------------
(***************************************************************************)
(* The theorems                                                            *)
(***************************************************************************)
\* The table starts with new jobs, and nothing else is there (Init).
LEMMA StartsRight == Init => Typed /\ AllGood
  <1> SUFFICES ASSUME Init PROVE Typed /\ AllGood
    OBVIOUS
  <1>1. SubmitterTyped /\ (\A i \in Jobs : /\ rows[i].state = "NEW" /\ rows[i].attempts = 0
                                           /\ ~rows[i].local /\ sub[i].pc = "none")
    <2>1. [S!NoRow EXCEPT !.state = "NEW"] \in Row
      BY SubmitterStatements, StateNames DEF NoRow, Row
    <2>2. /\ [S!NoRow EXCEPT !.state = "NEW"].state = "NEW"
          /\ [S!NoRow EXCEPT !.state = "NEW"].attempts = 0
          /\ ~[S!NoRow EXCEPT !.state = "NEW"].local
      BY SubmitterStatements DEF NoRow
    <2>3. S!Idle \in Goroutine /\ S!Idle.pc = "none"
      BY DEF S!Idle, Goroutine
    <2>4. /\ rows = [i \in Jobs |-> [S!NoRow EXCEPT !.state = "NEW"]]
          /\ sub = [i \in Jobs |-> S!Idle]
          /\ created = [i \in Jobs |-> 0] /\ lost = [i \in Jobs |-> 0] /\ crashes = 0
      BY DEF Init, S!Init
    <2>5. crashes \in 0..MaxCrashes
      BY <2>4, SystemAssumption
    <2>6. rows \in [Jobs -> Row] /\ sub \in [Jobs -> Goroutine]
      BY <2>1, <2>3, <2>4
    <2>7. SubmitterTyped
      BY <2>4, <2>5, <2>6 DEF SubmitterTyped
    <2>8. ASSUME NEW i \in Jobs
          PROVE  rows[i].state = "NEW" /\ rows[i].attempts = 0 /\ ~rows[i].local
                 /\ sub[i].pc = "none"
      <3>1. rows[i] = [S!NoRow EXCEPT !.state = "NEW"] /\ sub[i] = S!Idle
        BY <2>4
      <3> QED BY <2>2, <2>3, <3>1
    <2> QED BY <2>7, <2>8
  <1>2. PollerTyped /\ DOMAIN pass = {} /\ (\A i \in Jobs : entry[i].st = "gone")
    <2>1. P!Gone(P!NewEntry) \in P!Entry /\ P!Gone(P!NewEntry).st = "gone"
      BY DEF P!Gone, P!NewEntry, P!Entry
    <2> QED BY <2>1 DEF Init, P!NoPass, PollerTyped
  <1>3. /\ PullerTyped /\ todo = {}
        /\ \A i \in Jobs : pull[i].pc = "none" /\ ~seen[i].local
    BY SystemAssumption
       DEF Init, PullerTyped, U!NotSeen, U!Seen, U!NoPull, U!Pull, U!Unseen
  <1>4. /\ RequestsTyped
        /\ \A i \in Jobs : client[i].pc = "idle" /\ asked[i] = "none"
    BY SystemAssumption DEF Init, RequestsTyped, U!NoRequest, U!Request, NoDelete, QbitRequest
  <1>5. HistoryTyped
    BY DEF Init, HistoryTyped
  <1>6. ASSUME NEW i \in Jobs PROVE Good(i)
    <2>0. MaxSubmitAttempts \in Nat \ {0} /\ MaxRetries \in Nat \ {0}
      BY SystemAssumption
    <2>1. ApartHolds(i) /\ SpentHolds(i) /\ EntryHolds(i) /\ PassHold(i)
      BY <1>1, <1>2, <1>3, <1>4, <2>0 DEF ApartHolds, SpentHolds, EntryHolds, PassHold, Waiting
    <2>2. FileHolds(i) /\ RequestHolds(i) /\ AttemptHolds(i)
      BY <1>1, <1>3, <1>4, <2>0 DEF FileHolds, Sign, RequestHolds, AttemptHolds, Trying
    <2> QED BY <2>1, <2>2 DEF Good
  <1> QED BY <1>1, <1>2, <1>3, <1>4, <1>5, <1>6 DEF Typed, AllGood

\* A step that is fine for its job is fine for all.
LEMMA FineIsEnough ==
    ASSUME AllGood, NEW j \in Jobs, Fine(j)
    PROVE  Typed' /\ AllGood'
  <1>1. ASSUME NEW i \in Jobs \ {j} PROVE Good(i)'
    <2>1. Untouched(i) /\ Good(i)
      BY DEF Fine, AllGood
    <2> QED BY <2>1, UntouchedStaysGood
  <1> QED BY <1>1 DEF Fine, AllGood

JobStep(j) ==
    \/ Accepts(j) \/ Duplicate(j) \/ SubmitStep(j) \/ ReplyLost(j)
    \/ PollStep(j) \/ EntryStep(j) \/ PullerStep(j)
    \/ ClientActs(j) \/ QbitActs(j)

\* One job's step, whoever takes it, is fine for that job and leaves the others
\* as they are.
LEMMA JobStepFine ==
    ASSUME Typed, AllGood, NEW j \in Jobs, JobStep(j)
    PROVE  Fine(j)
  <1>0. Good(j)
    BY DEF AllGood
  <1>1. CASE Accepts(j) \/ Duplicate(j) \/ SubmitStep(j) \/ ReplyLost(j)
    BY <1>0, <1>1, SubmitterTypes, SubmitterGood DEF Fine
  <1>2. CASE PollStep(j)
    BY <1>0, <1>2, PollerTypes, PollerGood DEF Fine
  <1>3. CASE EntryStep(j)
    BY <1>0, <1>3, EntryFine
  <1>4. CASE PullerStep(j)
    BY <1>0, <1>4, PullerTypes, PullerGood DEF Fine
  <1>5. CASE ClientActs(j)
    BY <1>0, <1>5, ClientTypes, ClientGood DEF Fine
  <1>6. CASE QbitActs(j)
    BY <1>0, <1>6, QbitFine
  <1> QED BY <1>1, <1>2, <1>3, <1>4, <1>5, <1>6 DEF JobStep

\* Every step keeps the types and the invariant.
LEMMA StaysRight ==
    ASSUME Typed, AllGood, [Next]_vars
    PROVE  Typed' /\ AllGood'
  <1>1. CASE Dispatch
    BY <1>1, DispatchFine
  <1>2. CASE PollList
    BY <1>2, PollListFine
  <1>3. CASE TickList
    BY <1>3, TickListFine
  <1>4. CASE Tick
    BY <1>4, TickFine
  <1>5. CASE Crash
    BY <1>5, CrashFine
  <1>6. CASE Reap
    <2>1. PICK j \in Jobs : Ended(j) /\ rows' = Delete(j)
      BY <1>6 DEF Reap
    <2>2. Fine(j)
      BY <1>6, <2>1, ReapFine DEF AllGood
    <2> QED BY <2>2, FineIsEnough
  <1>7. ASSUME NEW j \in Jobs, JobStep(j) PROVE Typed' /\ AllGood'
    BY <1>7, JobStepFine, FineIsEnough
  <1>8. CASE UNCHANGED vars
    <2>1. UNCHANGED <<rows, sub, created, lost, entry, pass, pc, todo, seen, pull, since, disk,
                      client, asked, qbit, asks, crashes, excuse, wiped, dropped>>
      BY <1>8 DEF vars, submitter, poller, puller, requests, history
    <2>2. Typed'
      BY <2>1 DEF Typed, SubmitterTyped, PollerTyped, PullerTyped, RequestsTyped, HistoryTyped
    <2>3. \A i \in Jobs : Untouched(i)
      BY <2>1 DEF Untouched, SameCore, AtFail
    <2> QED BY <2>2, <2>3, UntouchedStaysGood DEF AllGood
  <1> QED BY <1>1, <1>2, <1>3, <1>4, <1>5, <1>6, <1>7, <1>8
       DEF Next, JobStep, ClientActs, QbitActs

\* So both always hold.
LEMMA TypedAndGood == Spec => [](Typed /\ AllGood)
  <1>1. Init => Typed /\ AllGood
    BY StartsRight
  <1>2. Typed /\ AllGood /\ [Next]_vars => (Typed /\ AllGood)'
    BY StaysRight
  <1> QED BY <1>1, <1>2, PTL DEF Spec

\* Every variable of the composed system stays in its type, whatever loops,
\* requests and crashes do in between (worker/manager.go, sab, qbit).
THEOREM TypeCorrect == Spec => []TypeOK
  <1>1. Typed /\ AllGood => TypeOK
    BY TypedIsTypeOK
  <1> QED BY <1>1, TypedAndGood, PTL

\* The loops agree on what each may rely on: the inductive invariant (see
\* IInv in System).
THEOREM LoopsAgree == Spec => []IInv
  <1>1. Typed /\ AllGood => IInv
    BY GoodIsIInv DEF AllGood
  <1> QED BY <1>1, TypedAndGood, PTL

\* A download that TorBox counts against the limit belongs to an active job, or
\* one of the named accidents has left it there (slots.go, discard.go).
THEOREM SlotsAlwaysAccountedFor == Spec => []SlotsAreAccountedFor
  <1>1. Typed /\ AllGood => SlotsAreAccountedFor
    <2> SUFFICES ASSUME Typed, AllGood, NEW j \in Jobs,
                        entry[j].st \in {"queued", "downloading"},
                        rows[j].state \in Terminal \cup {"NONE"}
                 PROVE  excuse[j] \/ Underway(j)
      BY DEF SlotsAreAccountedFor
    <2>1. EntryHolds(j) /\ Waiting(j)
      BY DEF AllGood, Good, Waiting
    <2>2. rows[j].state \notin {"SUBMITTED", "DOWNLOADING"}
      BY DEF Terminal
    <2> QED BY <2>1, <2>2 DEF EntryHolds, Releases, Underway
  <1> QED BY <1>1, TypedAndGood, PTL

\* A READY job has its files, unless a qBittorrent delete has been at them
\* (jobs.go MarkLocalReady, handlers.go handleTorrentsDelete).
THEOREM ReadyAlwaysComplete == Spec => []ReadyIsComplete
  <1>1. Typed /\ AllGood => ReadyIsComplete
    BY DEF AllGood, Good, FileHolds, Sign, Gone, ReadyIsComplete
  <1> QED BY <1>1, TypedAndGood, PTL

\* What the proofs about the puller alone rest on holds among the real loops:
\* the hypotheses of PullerProofs are met (puller.go, jobs.go AttemptFailure).
THEOREM PullerAlwaysRight == Spec => []PullerIsRight
  <1>1. IInv => PullerIsRight
    BY DEF IInv
  <1> QED BY <1>1, LoopsAgree, PTL

-----------------------------------------------------------------------------
(***************************************************************************)
(* Lifecycle, over all the loops                                           *)
(***************************************************************************)
\* The abstract state of System's mapping.
State == [j \in Jobs |-> IF dropped[j] THEN "CANCELED" ELSE rows[j].state]

\* A step along the state table, or out of the table from its end, as Lifecycle
\* sees it.
Along(s, t) == s = t \/ CanTransition(s, t) \/ (s \in Terminal /\ t = "NONE")

\* Such a step of one job is a step of Lifecycle.
LEMMA AlongRefines ==
    ASSUME NEW j \in Jobs, \A i \in Jobs \ {j} : State'[i] = State[i],
           Along(State[j], State'[j])
    PROVE  [Whole!Next]_State
  <1>1. State' = [State EXCEPT ![j] = State'[j]]
    BY DEF State
  <1>2. CASE State'[j] = State[j]
    BY <1>1, <1>2 DEF State
  <1>3. CASE CanTransition(State[j], State'[j])
    <2>1. State'[j] \in Whole!JobStates /\ Whole!CanTransition(State[j], State'[j])
      BY <1>3 DEF CanTransition, Successors, Whole!CanTransition, Whole!Successors,
                  Whole!JobStates, Whole!ActiveStates, Whole!Terminal, JobStates, ActiveStates,
                  Terminal
    <2>2. Whole!Move(j)
      BY <1>1, <2>1 DEF Whole!Move, State
    <2> QED BY <2>2 DEF Whole!Next
  <1>4. CASE State[j] \in Terminal /\ State'[j] = "NONE"
    <2>1. Whole!Drop(j)
      BY <1>1, <1>4 DEF Whole!Drop, State, Whole!Terminal, Terminal
    <2> QED BY <2>1 DEF Whole!Next
  <1> QED BY <1>2, <1>3, <1>4 DEF Along

\* What a step may do to the row of the one job it is about, and to the books.
MovesRow(j) ==
    /\ \A i \in Jobs \ {j} : rows'[i].state = rows[i].state
    /\ Along(rows[j].state, rows'[j].state)
    /\ dropped' = dropped

\* A dropped job stays canceled, whatever becomes of the row.
LEMMA MovesRowRefines ==
    ASSUME NEW j \in Jobs, MovesRow(j)
    PROVE  [Whole!Next]_State
  <1>1. \A i \in Jobs \ {j} : State'[i] = State[i]
    BY DEF MovesRow, State
  <1>2. Along(State[j], State'[j])
    BY DEF MovesRow, State, Along
  <1> QED BY <1>1, <1>2, AlongRefines

\* The submitter, the poller, TorBox and the puller move a row along the table.
LEMMA LoopsMoveRows ==
    ASSUME Typed, NEW j \in Jobs, Good(j),
           \/ Accepts(j) \/ Duplicate(j) \/ SubmitStep(j) \/ ReplyLost(j)
           \/ PollStep(j) \/ EntryStep(j) \/ PullerStep(j)
    PROVE  MovesRow(j)
  <1>1. CASE Accepts(j) \/ Duplicate(j)
    <2>1. rows' = rows
      BY <1>1 DEF Accepts, Duplicate, S!TorboxAccepts, S!TorboxDuplicate
    <2> QED BY <1>1, <2>1, SubmitterFramed DEF SubmitterFrame, MovesRow, Along
  <1>2. CASE SubmitStep(j) \/ ReplyLost(j)
    <2>1. OnRow(j) /\ (SameCore(rows'[j], rows[j]) \/ Spends(j) \/ Leaves(j))
      BY <1>2, SubmitterRow DEF SubmitStep, ReplyLost
    <2>2. Leaves(j) => CanTransition(rows[j].state, rows'[j].state)
      BY DEF Leaves, CanTransition, Successors
    <2>3. Along(rows[j].state, rows'[j].state)
      BY <2>1, <2>2 DEF Along, SameCore, Spends
    <2> QED BY <1>2, <2>1, <2>3, SubmitterFramed DEF SubmitterFrame, MovesRow, OnRow
  <1>3. CASE PollStep(j)
    <2>1. PollsRow(j) /\ PollerFrame
      BY <1>3, PollerRow, PollerTypes DEF PollStep
    <2> QED BY <2>1 DEF PollsRow, OnRow, PollerFrame, MovesRow, Along
  <1>4. CASE EntryStep(j)
    BY <1>4, EntryFine DEF MovesRow, Along
  <1>5. CASE PullerStep(j)
    <2>1. PullsRow(j) /\ PullerFrame
      BY <1>5, PullerFramed, PullerRow
    <2>2. Readies(j) \/ Fails(j) => CanTransition(rows[j].state, rows'[j].state)
      BY DEF Readies, Fails, CanTransition, Successors
    <2>3. Along(rows[j].state, rows'[j].state)
      BY <2>1, <2>2 DEF PullsRow, Along, SameCore, Counts
    <2> QED BY <2>1, <2>3 DEF PullsRow, OnRow, PullerFrame, MovesRow
  <1> QED BY <1>1, <1>2, <1>3, <1>4, <1>5

\* A request cancels an active job and drops the row of one that has ended,
\* as it read it: it has not come back since.
LEMMA RequestsMoveRows ==
    ASSUME Typed, NEW j \in Jobs, Good(j), ClientActs(j)
    PROVE  MovesRow(j)
  <1>0. OnRow(j) /\ dropped' = dropped
    BY ClientRow, ClientFramed DEF WithdrawsRow, ClientFrame
  <1>1. Along(rows[j].state, rows'[j].state)
    <2>1. CASE U!ClientDropsEnded(j)
      <3>1. rows'[j].state = "NONE"
        BY <2>1, DropRow, PullerStatements DEF U!ClientDropsEnded
      <3>2. rows[j].state \in Terminal \cup {"NONE"}
        BY <2>1, PullerStatements DEF U!ClientDropsEnded, Good, RequestHolds
      <3> QED BY <3>1, <3>2 DEF Along
    <2>2. CASE U!ClientCancels(j)
      <3>1. rows' = Transition(j, client[j].state, "CANCELED", rows[j])
        BY <2>2, PullerStatements DEF U!ClientCancels
      <3> QED BY <3>1, StateNames, SwapRow DEF Along
    <2>3. CASE UNCHANGED rows
      BY <2>3 DEF Along
    <2> QED BY <2>1, <2>2, <2>3
         DEF ClientActs, ClientGet, ClientStep, ClientRemoves, ClientHangsUp, U!ClientGet,
             U!ClientAborts, U!ClientRemoves, U!ClientHangsUp
  <1> QED BY <1>0, <1>1 DEF OnRow, MovesRow

\* The drop of an active job counts as its cancel.
LEMMA DropsRefine ==
    ASSUME Typed, NEW j \in Jobs, QbitActs(j)
    PROVE  [Whole!Next]_State
  <1>0. OnRow(j) /\ dropped \in [Jobs -> BOOLEAN]
    BY QbitRow DEF WithdrawsRow, Typed, HistoryTyped
  <1>1. CASE ~QbitDrops(j)
    <2>1. UNCHANGED <<rows, dropped>>
      BY <1>1 DEF QbitActs, QbitGet, QbitRemoves, QbitHangsUp, history
    <2> QED BY <2>1 DEF State
  <1>2. CASE QbitDrops(j)
    <2>1. /\ rows'[j].state = "NONE"
          /\ dropped' = [dropped EXCEPT ![j] = @ \/ rows[j].state \in ActiveStates]
      BY <1>2, DropRow DEF QbitDrops
    <2>2. \A i \in Jobs \ {j} : State'[i] = State[i]
      BY <1>0, <2>1 DEF OnRow, State
    <2>3. rows[j].state \in ActiveStates \cup Terminal \cup {"NONE"}
      BY DEF Typed, SubmitterTyped, Row, JobStates
    <2>4. rows[j].state \in ActiveStates => CanTransition(rows[j].state, "CANCELED")
      BY DEF ActiveStates, CanTransition, Successors
    <2>5. dropped'[j] <=> dropped[j] \/ rows[j].state \in ActiveStates
      BY <1>0, <2>1
    <2>6. Along(State[j], State'[j])
      BY <2>1, <2>3, <2>4, <2>5 DEF State, Along
    <2> QED BY <2>2, <2>6, AlongRefines
  <1> QED BY <1>1, <1>2

\* Every step of the system is a step of Lifecycle or none.
LEMMA StepsRefine ==
    ASSUME Typed, AllGood, [Next]_vars
    PROVE  [Whole!Next]_State
  <1>1. ASSUME dropped' = dropped, \A i \in Jobs : rows'[i].state = rows[i].state
        PROVE  [Whole!Next]_State
    BY <1>1 DEF State
  <1>2. CASE Dispatch
    <2>1. rows' = Claim(S!Oldest(S!Claimable, PoolSize)) /\ dropped' = dropped
      BY <1>2, SubmitterStatements DEF Dispatch, S!Dispatch, history
    <2>2. PICK batch \in SUBSET Jobs : batch = S!Oldest(S!Claimable, PoolSize)
      BY DEF S!Oldest, S!Claimable, S!DueIn
    <2> QED BY <1>1, <2>1, <2>2, ClaimLeases DEF Typed, SubmitterTyped, RowsOK, SameCore
  <1>3. CASE Tick
    BY <1>1, <1>3, TickFine DEF Untouched, SameCore, Tick, history
  <1>4. CASE Reap
    <2>1. PICK j \in Jobs : rows[j].state \in Terminal /\ rows' = Delete(j) /\ dropped' = dropped
      BY <1>4 DEF Reap, Ended, history
    <2>2. MovesRow(j)
      BY <2>1, DropRow DEF WithdrawsRow, OnRow, MovesRow, Along
    <2> QED BY <2>2, MovesRowRefines
  <1>5. CASE UNCHANGED <<rows, dropped>>
    BY <1>1, <1>5
  <1>6. CASE PollList \/ TickList \/ Crash
    BY <1>5, <1>6 DEF PollList, P!PollList, TickList, U!TickList, Crash, S!Crash, history
  <1>7. ASSUME NEW j \in Jobs, JobStep(j) PROVE [Whole!Next]_State
    BY <1>7, LoopsMoveRows, RequestsMoveRows, MovesRowRefines, DropsRefine DEF JobStep, AllGood
  <1>8. CASE UNCHANGED vars
    BY <1>5, <1>8 DEF vars, history
  <1> QED BY <1>2, <1>3, <1>4, <1>6, <1>7, <1>8 DEF Next, JobStep, ClientActs, QbitActs

\* Whatever the loops and the requests do at the same time, a job moves along
\* the state table, stays ended, and leaves the table ended, when the drop of an
\* active job counts as its cancel (state.go, handlers.go handleTorrentsDelete).
THEOREM ImplementsLifecycle == Spec => RefinesLifecycle
  <1>1. Typed => Whole!Init
    BY DEF Typed, SubmitterTyped, HistoryTyped, Row, Whole!Init, JobStates, ActiveStates,
           Terminal, Whole!JobStates, Whole!ActiveStates, Whole!Terminal
  <1>2. Init => Whole!Init
    BY <1>1, StartsRight
  <1>3. Typed /\ AllGood /\ [Next]_vars => [Whole!Next]_State
    BY StepsRefine
  <1> QED BY <1>2, <1>3, TypedAndGood, PTL DEF RefinesLifecycle, Whole!Spec, Spec, State
=============================================================================
