---------------------------- MODULE PollerProofs ----------------------------
(***************************************************************************)
(* Theorems about Poller for every set of jobs and every length of the     *)
(* windows: what a pass knows from the readings it began with stays true   *)
(* enough to act on while clients and TorBox go on.                        *)
(***************************************************************************)
EXTENDS Poller, JobStoreProofs

Alive == {"queued", "downloading"}
Reading == [row : Row, item : Entry]

\* The row of a job against the entry TorBox has for it.
JobKept(j) ==
    /\ rows[j].state = "COMPLETED_TORBOX" => entry[j].st = "done"
    /\ rows[j].state = "DOWNLOADING" => entry[j].st # "queued"
    /\ entry[j].st \in Alive => rows[j].bytes <= entry[j].bytes
    /\ rows[j].state = "DOWNLOADING" /\ entry[j].st = "downloading"
         /\ rows[j].bytes = entry[j].bytes => rows[j].idle <= entry[j].still

\* What the pass read of a job against what has become of it.
JobSeen(j) ==
    /\ View(j).state \in InFlight
    /\ rows[j].state \in InFlight \cup {"CANCELED"}
    /\ Listed(j).st = "done" => entry[j].st = "done" \/ rows[j].state = "CANCELED"
    /\ Listed(j).st = "downloading" => entry[j].st # "queued"
    /\ Listed(j).st \in Alive /\ entry[j].st \in Alive => Listed(j).bytes <= entry[j].bytes
    /\ Listed(j).st \in Alive => View(j).bytes <= Listed(j).bytes
    /\ View(j).state = "DOWNLOADING" /\ Listed(j).st = "downloading"
         /\ View(j).bytes = Listed(j).bytes => View(j).idle <= Listed(j).still

First(j) == \A i \in Todo : j <= i

\* What the place of the pass tells of the job whose turn it is.
TurnHolds(j) == First(j) =>
    /\ pc # "match" => Listed(j).st # "gone"
    /\ pc \in {"progress", "ceilings", "fail"} => Listed(j).st \in Alive
    /\ pc \in {"ceilings", "fail"} => View(j).bytes = Listed(j).bytes

IInv == /\ \A j \in Jobs : JobKept(j)
        /\ \A j \in Todo : JobSeen(j) /\ TurnHolds(j)

-----------------------------------------------------------------------------
(***************************************************************************)
(* Types                                                                   *)
(***************************************************************************)
\* The types of one job's share of the variables.
LEMMA JobTyped ==
    ASSUME TypeOK, NEW j \in Jobs
    PROVE  /\ RowsOK /\ rows[j] \in Row /\ rows[j].bytes \in Nat /\ rows[j].idle \in Nat
           /\ entry[j] \in Entry /\ entry[j].bytes \in Nat /\ entry[j].still \in Nat
           /\ j \in Nat
  BY JobsAssumption DEF TypeOK, RowsOK, Row, Entry

\* The types of what the pass read of one job.
LEMMA ReadingTyped ==
    ASSUME TypeOK, NEW j \in Todo
    PROVE  /\ j \in Jobs
           /\ pass[j] \in Reading
           /\ View(j) \in Row /\ View(j).bytes \in Nat /\ View(j).idle \in Nat
           /\ View(j).age \in Nat
           /\ Listed(j) \in Entry /\ Listed(j).bytes \in Nat /\ Listed(j).still \in Nat
  BY DEF TypeOK, Reading, View, Listed, Row, Entry

\* An entry that is deleted is gone.
LEMMA GoneTyped ==
    ASSUME NEW e \in Entry
    PROVE  Gone(e) \in Entry /\ Gone(e).st = "gone"
  BY DEF Gone, Entry

\* The pass goes on to another place with the same job.
LEMMA StayTyped ==
    ASSUME TypeOK, NEW place \in {"match", "outcome", "progress", "ceilings", "fail"},
           Todo # {}, GotoStep(place)
    PROVE  /\ pass' \in [Todo' -> Reading] /\ Todo' = Todo /\ Todo' \subseteq Jobs
           /\ pc' = place /\ crashes' \in 0..MaxCrashes
           /\ \A i \in Todo' : pass'[i] = pass[i]
  BY DEF GotoStep, TypeOK, Reading, Todo

\* The pass is done with a job.
LEMMA LeaveTyped ==
    ASSUME TypeOK, NEW j \in Todo, NextJob(j)
    PROVE  /\ pass' \in [Todo' -> Reading] /\ Todo' = Todo \ {j} /\ Todo' \subseteq Jobs
           /\ pc' = "match" /\ crashes' \in 0..MaxCrashes
           /\ \A i \in Todo' : pass'[i] = pass[i]
  BY DEF NextJob, TypeOK, Reading, Todo

\* The parts of TypeOK, under the primes.
LEMMA TypedParts ==
    ASSUME rows' \in [Jobs -> Row], entry' \in [Jobs -> Entry],
           Todo' \subseteq Jobs, pass' \in [Todo' -> Reading],
           pc' \in {"match", "outcome", "progress", "ceilings", "fail"},
           Todo' = {} => pc' = "match",
           crashes' \in 0..MaxCrashes
    PROVE  TypeOK'
  BY DEF TypeOK, RowsOK, Reading

-----------------------------------------------------------------------------
(***************************************************************************)
(* TorBox                                                                  *)
(***************************************************************************)
\* An entry only moves on, and while it lives its bytes only grow.
LEMMA EntryStepHolds ==
    ASSUME TypeOK, IInv, NEW j \in Jobs,
           EntryStarts(j) \/ EntryProgresses(j) \/ EntryEnds(j) \/ EntryVanishes(j)
    PROVE  TypeOK' /\ IInv' /\ UNCHANGED rows
  <1>0. UNCHANGED <<rows, pass, pc, crashes>>
    BY DEF EntryStarts, EntryProgresses, EntryEnds, EntryVanishes, EntryMoves
  <1>1. /\ entry[j] \in Entry /\ entry[j].bytes \in Nat /\ entry[j].st \in Alive
        /\ Gone(entry[j]) \in Entry /\ Gone(entry[j]).st = "gone"
    BY JobTyped, GoneTyped
    DEF EntryStarts, EntryProgresses, EntryEnds, EntryVanishes, Alive
  <1>2. \A i \in Jobs \ {j} : entry'[i] = entry[i]
    BY DEF EntryStarts, EntryProgresses, EntryEnds, EntryVanishes, EntryMoves, TypeOK
  <1>3. /\ entry'[j] \in Entry
        /\ \/ /\ entry[j].st = "queued" /\ entry'[j].st = "downloading"
              /\ entry'[j].bytes = entry[j].bytes
           \/ /\ entry[j].st = "downloading" /\ entry'[j].st = "downloading"
              /\ entry'[j].bytes = entry[j].bytes + 1
           \/ entry'[j].st \in {"done", "failed", "gone"}
    <2>1. CASE EntryStarts(j)
      BY <1>1, <2>1 DEF EntryStarts, EntryMoves, TypeOK, Entry
    <2>2. CASE EntryProgresses(j)
      <3>1. entry[j].bytes + 1 \in Nat
        BY <1>1
      <3> DEFINE e == [entry[j] EXCEPT !.bytes = @ + 1, !.still = 0]
      <3>2. e \in Entry /\ e.st = entry[j].st /\ e.bytes = entry[j].bytes + 1
        BY <1>1, <3>1 DEF Entry
      <3>3. entry' = [entry EXCEPT ![j] = e]
        BY <2>2 DEF EntryProgresses, EntryMoves
      <3> HIDE DEF e
      <3> QED BY <2>2, <3>2, <3>3 DEF EntryProgresses, TypeOK
    <2>3. CASE EntryEnds(j)
      <3>1. PICK st \in {"done", "failed"} :
                entry' = [entry EXCEPT ![j] = [entry[j] EXCEPT !.st = st, !.still = 0]]
        BY <2>3 DEF EntryEnds, EntryMoves
      <3> QED BY <1>1, <3>1 DEF TypeOK, Entry
    <2>4. CASE EntryVanishes(j)
      BY <1>1, <2>4 DEF EntryVanishes, EntryMoves, TypeOK
    <2> QED BY <2>1, <2>2, <2>3, <2>4
  <1>4. entry' \in [Jobs -> Entry]
    <2>1. entry' = [entry EXCEPT ![j] = entry'[j]]
      BY <1>3 DEF EntryStarts, EntryProgresses, EntryEnds, EntryVanishes, EntryMoves, TypeOK
    <2> QED BY <1>3, <2>1 DEF TypeOK
  <1>5. TypeOK'
    BY <1>0, <1>4 DEF TypeOK, RowsOK, Todo
  <1>6. ASSUME NEW i \in Jobs PROVE JobKept(i)'
    <2>1. JobKept(i)
      BY DEF IInv
    <2>2. CASE i # j
      BY <1>0, <1>2, <2>1, <2>2 DEF JobKept
    <2>3. CASE i = j
      <3>1. rows[j].bytes \in Nat
        BY JobTyped
      <3> QED BY <1>0, <1>1, <1>3, <2>1, <2>3, <3>1 DEF JobKept, Alive
    <2> QED BY <2>2, <2>3
  <1>7. ASSUME NEW i \in Todo PROVE JobSeen(i)' /\ TurnHolds(i)'
    <2>1. JobSeen(i) /\ TurnHolds(i) /\ i \in Jobs
      BY DEF IInv, TypeOK
    <2>2. TurnHolds(i)'
      BY <1>0, <2>1 DEF TurnHolds, First, Listed, View, Todo
    <2>3. View(i)' = View(i) /\ Listed(i)' = Listed(i) /\ rows'[i] = rows[i]
      BY <1>0 DEF View, Listed
    <2>4. CASE i # j
      BY <1>2, <2>1, <2>2, <2>3, <2>4 DEF JobSeen
    <2>5. CASE i = j
      <3>1. Listed(j).bytes \in Nat
        BY <2>5, ReadingTyped
      <3> QED BY <1>1, <1>3, <2>1, <2>2, <2>3, <2>5, <3>1 DEF JobSeen, Alive
    <2> QED BY <2>2, <2>4, <2>5
  <1> QED BY <1>0, <1>5, <1>6, <1>7 DEF IInv, Todo

-----------------------------------------------------------------------------
(***************************************************************************)
(* The pass                                                                *)
(***************************************************************************)
\* The step is about the row and the entry of one job.
OnlyTurn(j) == \A i \in Jobs \ {j} : rows'[i] = rows[i] /\ entry'[i] = entry[i]

\* It is one job's turn at a time.
LEMMA OneTurn ==
    ASSUME TypeOK, NEW j \in Todo, NEW i \in Todo, First(j), First(i)
    PROVE  i = j
  <1>1. i \in Nat /\ j \in Nat /\ i <= j /\ j <= i
    BY ReadingTyped, JobsAssumption DEF First
  <1> QED BY <1>1

\* The other jobs of the pass do not notice a step within the turn of one ...
LEMMA StayHolds ==
    ASSUME TypeOK, IInv, NEW j \in Todo, First(j), OnlyTurn(j),
           Todo' = Todo, \A i \in Todo \ {j} : pass'[i] = pass[i],
           JobKept(j)', JobSeen(j)', TurnHolds(j)'
    PROVE  IInv'
  <1>1. ASSUME NEW i \in Jobs PROVE JobKept(i)'
    <2>1. CASE i # j
      BY <2>1 DEF IInv, OnlyTurn, JobKept
    <2> QED BY <2>1
  <1>2. ASSUME NEW i \in Todo PROVE JobSeen(i)' /\ TurnHolds(i)'
    <2>1. CASE i # j
      <3>1. JobSeen(i) /\ i \in Jobs /\ ~First(i)
        BY <2>1, OneTurn, ReadingTyped DEF IInv
      <3>2. View(i)' = View(i) /\ Listed(i)' = Listed(i)
        BY <2>1 DEF View, Listed
      <3>3. rows'[i] = rows[i] /\ entry'[i] = entry[i]
        BY <2>1, <3>1 DEF OnlyTurn
      <3>4. JobSeen(i)'
        BY <3>1, <3>2, <3>3 DEF JobSeen
      <3> QED BY <3>1, <3>4 DEF TurnHolds, First
    <2> QED BY <2>1
  <1> QED BY <1>1, <1>2 DEF IInv

\* ... nor its end.
LEMMA LeaveHolds ==
    ASSUME TypeOK, IInv, NEW j \in Todo, OnlyTurn(j), NextJob(j), JobKept(j)'
    PROVE  IInv'
  <1>1. ASSUME NEW i \in Jobs PROVE JobKept(i)'
    <2>1. CASE i # j
      BY <2>1 DEF IInv, OnlyTurn, JobKept
    <2> QED BY <2>1
  <1>2. ASSUME NEW i \in Todo' PROVE JobSeen(i)' /\ TurnHolds(i)'
    <2>1. i \in Todo /\ i # j /\ i \in Jobs /\ pc' = "match" /\ pass'[i] = pass[i]
      BY LeaveTyped, ReadingTyped
    <2>2. JobSeen(i)
      BY <2>1 DEF IInv
    <2>3. View(i)' = View(i) /\ Listed(i)' = Listed(i)
      BY <2>1 DEF View, Listed
    <2>4. rows'[i] = rows[i] /\ entry'[i] = entry[i]
      BY <2>1 DEF OnlyTurn
    <2>5. JobSeen(i)'
      BY <2>2, <2>3, <2>4 DEF JobSeen
    <2> QED BY <2>1, <2>5 DEF TurnHolds
  <1> QED BY <1>1, <1>2 DEF IInv

\* A move of the row suits the entry if the entry has come as far.
LEMMA MoveKept ==
    ASSUME TypeOK, NEW j \in Jobs, JobKept(j), entry'[j] = entry[j],
           NEW from, NEW to \in JobStates, rows' = Transition(j, from, to, rows[j]),
           Applies(j, from, to) /\ to = "COMPLETED_TORBOX" => entry[j].st = "done",
           Applies(j, from, to) /\ to = "DOWNLOADING" => entry[j].st # "queued"
    PROVE  /\ rows' \in [Jobs -> Row]
           /\ MovesOn(j, rows')
           /\ rows'[j].state \in {rows[j].state, to}
           /\ JobKept(j)'
  <1>0. /\ RowsOK /\ rows[j] \in Row /\ rows[j].bytes \in Nat
        /\ entry[j].still \in Nat /\ entry[j].bytes \in Nat
    BY JobTyped
  <1>1. CASE Applies(j, from, to)
    <2>1. /\ rows' \in [Jobs -> Row] /\ MovesOn(j, rows') /\ rows'[j].state = to
          /\ rows'[j].bytes = rows[j].bytes /\ rows'[j].idle = 0
      BY <1>0, <1>1, TransitionMoves
    <2>2. JobKept(j)'
      BY <1>0, <1>1, <2>1 DEF JobKept
    <2> QED BY <2>1, <2>2
  <1>2. CASE ~Applies(j, from, to)
    <2>1. rows' \in [Jobs -> Row] /\ MovesOn(j, rows') /\ rows' = rows
      BY <1>0, <1>2, TransitionMoves
    <2> QED BY <2>1 DEF JobKept
  <1> QED BY <1>1, <1>2

\* A change of bytes or ids sets updated_at, which suits any entry that is not
\* behind the row.
LEMMA WriteKept ==
    ASSUME TypeOK, NEW j \in Jobs, JobKept(j), entry'[j] = entry[j],
           rows' \in [Jobs -> Row], SameCore(rows'[j], rows[j]), rows'[j].idle = 0,
           entry[j].st \in Alive => rows'[j].bytes <= entry[j].bytes
    PROVE  JobKept(j)'
  BY JobTyped DEF JobKept, SameCore

\* What a step of the pass is given: the job whose turn it is, in order.
LEMMA TurnBegins ==
    ASSUME TypeOK, IInv, NEW j \in Jobs, PollStep(j)
    PROVE  j \in Todo /\ First(j) /\ JobKept(j) /\ JobSeen(j) /\ TurnHolds(j)
  <1>1. j \in Todo /\ First(j)
    BY DEF PollStep, PollMissing, PollMatch, PollEnded, PollStarted, PollProgress,
           PollKeeps, ReleaseSlot, PollGivesUp, At, First
  <1> QED BY <1>1 DEF IInv

\* The verdicts of a pass: missing, ended, or given up (poller.go
\* handlePollMissing, applyMyListItem).
LEMMA VerdictHolds ==
    ASSUME TypeOK, IInv, NEW j \in Jobs, PollMissing(j) \/ PollEnded(j) \/ PollGivesUp(j)
    PROVE  TypeOK' /\ IInv' /\ MovesOn(j, rows')
  <1>1. j \in Todo /\ First(j) /\ JobKept(j) /\ JobSeen(j)
    BY TurnBegins DEF PollStep
  <1>2. NextJob(j) /\ UNCHANGED entry
    BY DEF PollMissing, PollEnded, PollGivesUp
  <1>3. entry'[j] = entry[j] /\ {"FAILED", "COMPLETED_TORBOX"} \subseteq JobStates
    BY <1>2 DEF JobStates, ActiveStates, Terminal
  <1>4. rows' \in [Jobs -> Row] /\ MovesOn(j, rows') /\ JobKept(j)'
    <2>1. CASE rows' = rows
      BY <1>1, <1>3, <2>1, JobTyped DEF MovesOn, RowsOK, JobKept
    <2>2. CASE rows' = Transition(j, View(j).state, "FAILED", rows[j])
      BY <1>1, <1>3, <2>2, MoveKept
    <2>3. CASE rows' = Transition(j, View(j).state, "COMPLETED_TORBOX", rows[j])
               /\ Listed(j).st = "done"
      <3>1. ASSUME Applies(j, View(j).state, "COMPLETED_TORBOX") PROVE entry[j].st = "done"
        BY <1>1, <2>3, <3>1 DEF JobSeen, Applies, InFlight
      <3> QED BY <1>1, <1>3, <2>3, <3>1, MoveKept
    <2> QED BY <2>1, <2>2, <2>3 DEF PollMissing, PollEnded, PollGivesUp, Outcome
  <1>5. TypeOK'
    BY <1>1, <1>2, <1>4, LeaveTyped, TypedParts DEF TypeOK
  <1>6. OnlyTurn(j)
    BY <1>2, <1>4 DEF OnlyTurn, MovesOn
  <1> QED BY <1>1, <1>2, <1>4, <1>5, <1>6, LeaveHolds

\* A job under way is left for the next pass (poller.go applyMyListItem).
LEMMA PollKeepsHolds ==
    ASSUME TypeOK, IInv, NEW j \in Jobs, PollKeeps(j)
    PROVE  TypeOK' /\ IInv' /\ UNCHANGED rows
  <1>1. j \in Todo /\ JobKept(j)
    BY TurnBegins DEF PollStep
  <1>2. NextJob(j) /\ UNCHANGED <<rows, entry>>
    BY DEF PollKeeps
  <1>3. TypeOK'
    BY <1>1, <1>2, LeaveTyped, TypedParts DEF TypeOK, RowsOK
  <1>4. OnlyTurn(j) /\ JobKept(j)'
    BY <1>1, <1>2 DEF OnlyTurn, JobKept
  <1> QED BY <1>1, <1>2, <1>3, <1>4, LeaveHolds

\* Writing the ids leaves row and readings as they agreed (poller.go
\* applyMyListItem).
LEMMA PollMatchHolds ==
    ASSUME TypeOK, IInv, NEW j \in Jobs, PollMatch(j)
    PROVE  TypeOK' /\ IInv' /\ MovesOn(j, rows')
  <1>1. j \in Todo /\ First(j) /\ JobKept(j) /\ JobSeen(j) /\ RowsOK
    BY TurnBegins, JobTyped DEF PollStep
  <1>2. UNCHANGED entry /\ GotoStep("outcome") /\ Listed(j).st # "gone"
    BY DEF PollMatch
  <1>3. /\ rows' \in [Jobs -> Row] /\ \A i \in Jobs \ {j} : rows'[i] = rows[i]
        /\ SameCore(rows'[j], rows[j]) /\ JobKept(j)'
    <2>1. CASE rows' = rows
      BY <1>1, <1>2, <2>1 DEF RowsOK, SameCore, JobKept
    <2>2. CASE rows' = SetTorboxIDs(j, EntryId(j))
      <3>1. EntryId(j) \in {"none", "queue", "active"}
        BY <1>1, ReadingTyped DEF EntryId, Row
      <3>2. /\ rows' \in [Jobs -> Row] /\ \A i \in Jobs \ {j} : rows'[i] = rows[i]
            /\ SameCore(rows'[j], rows[j]) /\ rows'[j].bytes = rows[j].bytes
            /\ rows'[j].idle = 0
        BY <1>1, <2>2, <3>1, SetTorboxIDsKeeps DEF Exists, JobSeen, InFlight
      <3>3. JobKept(j)'
        BY <1>1, <1>2, <3>2, WriteKept DEF JobKept
      <3> QED BY <3>2, <3>3
    <2> QED BY <2>1, <2>2 DEF PollMatch
  <1>4. /\ pass' \in [Todo' -> Reading] /\ Todo' = Todo /\ Todo' \subseteq Jobs
        /\ pc' = "outcome" /\ crashes' \in 0..MaxCrashes
        /\ \A i \in Todo' : pass'[i] = pass[i]
    BY <1>1, <1>2, StayTyped
  <1>5. TypeOK'
    BY <1>1, <1>2, <1>3, <1>4, TypedParts DEF TypeOK
  <1>6. View(j)' = View(j) /\ Listed(j)' = Listed(j)
    BY <1>1, <1>4 DEF View, Listed
  <1>7. JobSeen(j)' /\ TurnHolds(j)'
    BY <1>1, <1>2, <1>3, <1>4, <1>6 DEF JobSeen, TurnHolds, SameCore
  <1>8. OnlyTurn(j) /\ MovesOn(j, rows')
    BY <1>2, <1>3 DEF OnlyTurn, MovesOn, SameCore
  <1> QED BY <1>1, <1>3, <1>4, <1>5, <1>7, <1>8, StayHolds

\* A download that was seen to start has started (poller.go applyMyListItem).
LEMMA PollStartedHolds ==
    ASSUME TypeOK, IInv, NEW j \in Jobs, PollStarted(j)
    PROVE  TypeOK' /\ IInv' /\ MovesOn(j, rows')
  <1>1. j \in Todo /\ First(j) /\ JobKept(j) /\ JobSeen(j) /\ RowsOK
    BY TurnBegins, JobTyped DEF PollStep
  <1>2. UNCHANGED entry /\ GotoStep("progress") /\ Listed(j).st \in Alive
    BY DEF PollStarted, Alive
  <1>3. /\ rows' \in [Jobs -> Row] /\ MovesOn(j, rows') /\ JobKept(j)'
        /\ rows'[j].state \in {rows[j].state, "DOWNLOADING"}
    <2>1. CASE rows' = rows
      BY <1>1, <1>2, <2>1 DEF MovesOn, RowsOK, JobKept
    <2>2. CASE /\ rows' = Transition(j, "SUBMITTED", "DOWNLOADING", rows[j])
               /\ Listed(j).st = "downloading"
      <3>1. entry[j].st # "queued" /\ entry'[j] = entry[j] /\ "DOWNLOADING" \in JobStates
        BY <1>1, <1>2, <2>2 DEF JobSeen, JobStates, ActiveStates
      <3> QED BY <1>1, <2>2, <3>1, MoveKept
    <2> QED BY <2>1, <2>2 DEF PollStarted
  <1>4. /\ pass' \in [Todo' -> Reading] /\ Todo' = Todo /\ Todo' \subseteq Jobs
        /\ pc' = "progress" /\ crashes' \in 0..MaxCrashes
        /\ \A i \in Todo' : pass'[i] = pass[i]
    BY <1>1, <1>2, StayTyped
  <1>5. TypeOK'
    BY <1>1, <1>2, <1>3, <1>4, TypedParts DEF TypeOK
  <1>6. View(j)' = View(j) /\ Listed(j)' = Listed(j)
    BY <1>1, <1>4 DEF View, Listed
  <1>7. JobSeen(j)'
    <2>1. rows'[j].state \in InFlight \cup {"CANCELED"}
      BY <1>1, <1>3 DEF JobSeen, InFlight
    <2>2. rows[j].state = "CANCELED" => rows'[j].state = "CANCELED"
      BY <1>3 DEF MovesOn, CanTransition, Successors
    <2> QED BY <1>1, <1>2, <1>6, <2>1, <2>2 DEF JobSeen
  <1>8. TurnHolds(j)'
    BY <1>2, <1>4, <1>6 DEF TurnHolds, Alive
  <1>9. OnlyTurn(j)
    BY <1>2, <1>3 DEF OnlyTurn, MovesOn
  <1> QED BY <1>1, <1>3, <1>4, <1>5, <1>7, <1>8, <1>9, StayHolds

\* After the bytes are compared, the copy in memory has those of the list, and
\* the time they last changed (poller.go recordRemoteProgress).
LEMMA PollProgressHolds ==
    ASSUME TypeOK, IInv, NEW j \in Jobs, PollProgress(j)
    PROVE  TypeOK' /\ IInv' /\ MovesOn(j, rows')
  <1>1. /\ j \in Todo /\ First(j) /\ JobKept(j) /\ JobSeen(j) /\ RowsOK
        /\ Listed(j).st \in Alive
    BY TurnBegins, JobTyped DEF PollStep, PollProgress, At, TurnHolds
  <1>2. /\ pass[j] \in Reading /\ View(j) \in Row /\ Listed(j) \in Entry
        /\ Listed(j).bytes \in Nat /\ Listed(j).still \in Nat
        /\ pass \in [Todo -> Reading] /\ Todo \subseteq Jobs
    BY <1>1, ReadingTyped DEF TypeOK, Reading
  <1>3. UNCHANGED <<entry, crashes>> /\ pc' = "ceilings"
    BY DEF PollProgress
  <1>4. CASE ~Sized(j) \/ Listed(j).bytes = View(j).bytes
    <2>1. UNCHANGED <<rows, pass>>
      BY <1>4 DEF PollProgress
    <2>2. View(j)' = View(j) /\ Listed(j)' = Listed(j) /\ Todo' = Todo
      BY <2>1 DEF View, Listed, Todo
    <2>3. TypeOK'
      BY <1>1, <1>2, <1>3, <2>1, <2>2, TypedParts DEF TypeOK, RowsOK
    <2>4. JobKept(j)' /\ JobSeen(j)' /\ TurnHolds(j)'
      <3>1. TurnHolds(j)'
        <4>1. View(j).bytes = Listed(j).bytes
          BY <1>1, <1>2, <1>4 DEF Sized, JobSeen, Row
        <4> QED BY <1>1, <1>3, <2>2, <4>1 DEF TurnHolds, Alive
      <3> QED BY <1>1, <1>3, <2>1, <2>2, <3>1 DEF JobKept, JobSeen
    <2>5. OnlyTurn(j) /\ MovesOn(j, rows')
      BY <1>3, <2>1 DEF OnlyTurn, MovesOn
    <2> QED BY <1>1, <2>1, <2>2, <2>3, <2>4, <2>5, StayHolds
  <1>5. CASE Sized(j) /\ Listed(j).bytes # View(j).bytes
    <2> DEFINE v == [View(j) EXCEPT !.bytes = Listed(j).bytes, !.idle = 0]
               p == [pass[j] EXCEPT !.row = v]
    <2>1. v \in Row /\ v.bytes = Listed(j).bytes /\ v.idle = 0 /\ v.state = View(j).state
      BY <1>2 DEF Row
    <2>2. p \in Reading /\ p.row = v /\ p.item = Listed(j)
      <3> HIDE DEF v
      <3> QED BY <1>2, <2>1 DEF Reading, Listed
    <2>3. pass' = [pass EXCEPT ![j] = p]
      BY <1>1, <1>2, <1>5 DEF PollProgress, View, Reading
    <2> HIDE DEF v, p
    <2>4. /\ Todo' = Todo /\ pass' \in [Todo' -> Reading]
          /\ \A i \in Todo \ {j} : pass'[i] = pass[i]
          /\ pass'[j] = p
      BY <1>1, <1>2, <2>2, <2>3 DEF Todo
    <2>5. View(j)' = v /\ Listed(j)' = Listed(j)
      BY <2>2, <2>4 DEF View, Listed
    <2>6. rows' = SetLocalProgress(j, Listed(j).bytes) /\ Exists(j)
      BY <1>1, <1>5 DEF PollProgress, JobSeen, InFlight, Exists
    <2>7. /\ rows' \in [Jobs -> Row] /\ \A i \in Jobs \ {j} : rows'[i] = rows[i]
          /\ SameCore(rows'[j], rows[j])
          /\ rows'[j].bytes = Listed(j).bytes /\ rows'[j].idle = 0
      BY <1>1, <1>2, <2>6, SetLocalProgressWrites
    <2>8. TypeOK'
      BY <1>1, <1>2, <1>3, <2>4, <2>7, TypedParts DEF TypeOK
    <2>9. JobKept(j)'
      <3>1. entry[j].st \in Alive => rows'[j].bytes <= entry[j].bytes
        BY <1>1, <2>7 DEF JobSeen
      <3>2. entry'[j] = entry[j]
        BY <1>3
      <3> QED BY <1>1, <2>7, <3>1, <3>2, WriteKept
    <2>10. JobSeen(j)' /\ TurnHolds(j)'
      <3>1. TurnHolds(j)'
        BY <1>1, <2>1, <2>5 DEF TurnHolds, Alive
      <3>2. rows'[j].state = rows[j].state /\ entry'[j] = entry[j]
        BY <1>3, <2>7 DEF SameCore
      <3>3. v.idle <= Listed(j).still
        BY <1>2, <2>1
      <3>4. View(j)'.bytes <= Listed(j)'.bytes
        BY <1>2, <2>1, <2>5
      <3> QED BY <1>1, <2>1, <2>5, <3>1, <3>2, <3>3, <3>4 DEF JobSeen
    <2>11. OnlyTurn(j) /\ MovesOn(j, rows')
      BY <1>3, <2>7 DEF OnlyTurn, MovesOn, SameCore
    <2> QED BY <1>1, <2>4, <2>8, <2>9, <2>10, <2>11, StayHolds
  <1> QED BY <1>4, <1>5

\* An entry that is deleted is deleted for good, and no job that waits for the
\* puller loses its entry (slots.go releaseTorboxSlot, discard.go Discard).
LEMMA DeletedEntry ==
    ASSUME TypeOK, NEW j \in Jobs, NEW deleted \in BOOLEAN,
           entry' = [entry EXCEPT ![j] = IF deleted /\ @.st # "gone" THEN Gone(@) ELSE @]
    PROVE  /\ entry' \in [Jobs -> Entry]
           /\ \A i \in Jobs \ {j} : entry'[i] = entry[i]
           /\ entry'[j] = entry[j] \/ entry'[j].st = "gone"
  <1> DEFINE e == IF deleted /\ entry[j].st # "gone" THEN Gone(entry[j]) ELSE entry[j]
  <1>1. e \in Entry /\ (e = entry[j] \/ e.st = "gone")
    BY JobTyped, GoneTyped
  <1>2. entry' = [entry EXCEPT ![j] = e]
    OBVIOUS
  <1> HIDE DEF e
  <1> QED BY <1>1, <1>2 DEF TypeOK

\* Releasing a slot takes the entry of a job whose turn it is, which is not one
\* the list called finished (slots.go releaseTorboxSlot).
LEMMA ReleaseSlotHolds ==
    ASSUME TypeOK, IInv, NEW j \in Jobs, ReleaseSlot(j)
    PROVE  TypeOK' /\ IInv' /\ UNCHANGED rows
  <1>1. /\ j \in Todo /\ First(j) /\ JobKept(j) /\ JobSeen(j) /\ RowsOK
        /\ Listed(j).st \in Alive /\ View(j).bytes = Listed(j).bytes
    BY TurnBegins, JobTyped DEF PollStep, ReleaseSlot, At, TurnHolds
  <1>2. UNCHANGED rows /\ GotoStep("fail")
    BY DEF ReleaseSlot
  <1>3. /\ entry' \in [Jobs -> Entry]
        /\ \A i \in Jobs \ {j} : entry'[i] = entry[i]
        /\ entry'[j] = entry[j] \/ entry'[j].st = "gone"
    BY DeletedEntry DEF ReleaseSlot
  <1>4. /\ pass' \in [Todo' -> Reading] /\ Todo' = Todo /\ Todo' \subseteq Jobs
        /\ pc' = "fail" /\ crashes' \in 0..MaxCrashes
        /\ \A i \in Todo' : pass'[i] = pass[i]
    BY <1>1, <1>2, StayTyped
  <1>5. TypeOK'
    BY <1>1, <1>2, <1>3, <1>4, TypedParts DEF TypeOK, RowsOK
  <1>6. View(j)' = View(j) /\ Listed(j)' = Listed(j)
    BY <1>1, <1>4 DEF View, Listed
  <1>7. JobKept(j)' /\ JobSeen(j)'
    BY <1>1, <1>2, <1>3, <1>6 DEF JobKept, JobSeen, InFlight, Alive
  <1>8. TurnHolds(j)'
    BY <1>1, <1>4, <1>6 DEF TurnHolds, Alive
  <1>9. OnlyTurn(j)
    BY <1>2, <1>3 DEF OnlyTurn
  <1> QED BY <1>1, <1>2, <1>4, <1>5, <1>7, <1>8, <1>9, StayHolds

-----------------------------------------------------------------------------
(***************************************************************************)
(* Clients, the clock and the start of a pass                              *)
(***************************************************************************)
\* A cancel takes the row out of every comparison with the entry (queue.go
\* cancel, discard.go Discard).
LEMMA CancelHolds ==
    ASSUME TypeOK, IInv, NEW j \in Jobs, Cancel(j)
    PROVE  TypeOK' /\ IInv' /\ MovesOn(j, rows')
  <1>1. RowsOK /\ rows[j] \in Row /\ JobKept(j) /\ rows[j].state \in InFlight
    BY JobTyped DEF IInv, Cancel
  <1>2. CanTransition(rows[j].state, "CANCELED") /\ "CANCELED" \in JobStates
    BY <1>1 DEF InFlight, CanTransition, Successors, JobStates, Terminal
  <1>3. /\ rows' \in [Jobs -> Row] /\ MovesOn(j, rows') /\ rows'[j].state = "CANCELED"
        /\ rows'[j].bytes = rows[j].bytes
    BY <1>1, <1>2, TransitionMoves DEF Cancel, Applies
  <1>4. /\ entry' \in [Jobs -> Entry]
        /\ \A i \in Jobs \ {j} : entry'[i] = entry[i]
        /\ entry'[j] = entry[j] \/ entry'[j].st = "gone"
    BY DeletedEntry DEF Cancel
  <1>5. UNCHANGED <<pass, pc, crashes>>
    BY DEF Cancel
  <1>6. TypeOK'
    BY <1>3, <1>4, <1>5 DEF TypeOK, RowsOK, Todo
  <1>7. ASSUME NEW i \in Jobs PROVE JobKept(i)'
    <2>1. CASE i # j
      BY <1>3, <1>4, <2>1 DEF IInv, JobKept, MovesOn
    <2>2. CASE i = j
      BY <1>1, <1>3, <1>4, <2>2 DEF JobKept, Alive
    <2> QED BY <2>1, <2>2
  <1>8. ASSUME NEW i \in Todo PROVE JobSeen(i)' /\ TurnHolds(i)'
    <2>1. JobSeen(i) /\ TurnHolds(i) /\ i \in Jobs
      BY DEF IInv, TypeOK
    <2>2. View(i)' = View(i) /\ Listed(i)' = Listed(i)
      BY <1>5 DEF View, Listed
    <2>3. TurnHolds(i)'
      BY <1>5, <2>1, <2>2 DEF TurnHolds, First, Todo
    <2>4. CASE i # j
      BY <1>3, <1>4, <2>1, <2>2, <2>3, <2>4 DEF JobSeen, MovesOn
    <2>5. CASE i = j
      BY <1>3, <1>4, <2>1, <2>2, <2>3, <2>5 DEF JobSeen, Alive
    <2> QED BY <2>4, <2>5
  <1> QED BY <1>3, <1>5, <1>6, <1>7, <1>8 DEF IInv, Todo

\* A pass begins with what is there, except that it may miss the torrents
\* (poller.go pollOnce).
LEMMA PollListHolds ==
    ASSUME TypeOK, IInv, PollList
    PROVE  TypeOK' /\ IInv' /\ UNCHANGED rows
  <1>1. UNCHANGED <<rows, entry, pc, crashes>> /\ pc = "match"
    BY DEF PollList, TypeOK
  <1> DEFINE L == ListByStates(InFlight)
  <1>2. L \subseteq Jobs /\ \A j \in L : rows[j].state \in InFlight
    BY DEF ListByStates
  <1>3. PICK t \in BOOLEAN :
            pass' = [j \in L |->
                [row  |-> rows[j],
                 item |-> IF j \in Torrents /\ ~t THEN Gone(entry[j]) ELSE entry[j]]]
    BY DEF PollList
  <1> HIDE DEF L
  <1>4. Todo' = L
    BY <1>3 DEF Todo
  <1>5. ASSUME NEW j \in L
        PROVE  /\ pass'[j] \in Reading /\ View(j)' = rows[j]
               /\ Listed(j)' = entry[j] \/ Listed(j)'.st = "gone"
    <2>1. j \in Jobs /\ rows[j] \in Row /\ entry[j] \in Entry
          /\ Gone(entry[j]) \in Entry /\ Gone(entry[j]).st = "gone"
      BY <1>2, JobTyped, GoneTyped
    <2>2. pass'[j] = [row |-> rows[j],
                      item |-> IF j \in Torrents /\ ~t THEN Gone(entry[j]) ELSE entry[j]]
      BY <1>3
    <2> QED BY <2>1, <2>2 DEF Reading, View, Listed
  <1>6. pass' \in [L -> Reading]
    BY <1>3, <1>5
  <1>7. TypeOK'
    BY <1>1, <1>2, <1>4, <1>6, TypedParts DEF TypeOK, RowsOK
  <1>8. ASSUME NEW j \in L PROVE JobSeen(j)' /\ TurnHolds(j)'
    <2>1. /\ JobKept(j) /\ rows[j].state \in InFlight /\ View(j)' = rows[j]
          /\ Listed(j)' = entry[j] \/ Listed(j)'.st = "gone"
          /\ rows'[j] = rows[j] /\ entry'[j] = entry[j]
          /\ rows[j].bytes \in Nat /\ entry[j].bytes \in Nat
      BY <1>1, <1>2, <1>5, JobTyped DEF IInv
    <2>2. JobSeen(j)'
      BY <2>1 DEF JobSeen, JobKept, Alive
    <2> QED BY <1>1, <2>2 DEF TurnHolds
  <1>9. ASSUME NEW j \in Jobs PROVE JobKept(j)'
    BY <1>1 DEF IInv, JobKept
  <1> QED BY <1>1, <1>4, <1>7, <1>8, <1>9 DEF IInv

\* The clock of a row never gets ahead of the clock of its entry.
LEMMA TickHolds ==
    ASSUME TypeOK, IInv, Tick
    PROVE  TypeOK' /\ IInv' /\ \A j \in Jobs : rows'[j].state = rows[j].state
  <1>1. UNCHANGED <<pass, pc, crashes>> /\ Todo = {}
    BY DEF Tick
  <1>2. /\ rows' \in [Jobs -> Row]
        /\ \A j \in Jobs : /\ rows'[j].state = rows[j].state
                           /\ rows'[j].bytes = rows[j].bytes
                           /\ rows[j].state = "DOWNLOADING"
                                 => rows'[j].idle = CountUp(rows[j].idle)
    <2>1. RowsOK /\ rows' = AgedRows
      BY DEF Tick, TypeOK
    <2>2. /\ AgedRows \in [Jobs -> Row]
          /\ \A j \in Jobs : /\ SameCore(AgedRows[j], rows[j])
                             /\ AgedRows[j].bytes = rows[j].bytes
                             /\ rows[j].state \in {"SUBMITTED", "DOWNLOADING"}
                                   => AgedRows[j].idle = CountUp(rows[j].idle)
      BY <2>1, AgedRowsKeep
    <2> QED BY <2>1, <2>2 DEF SameCore
  <1>3. \A n \in Nat : CountUp(n) \in Nat
    BY StoreClockAssumption DEF CountUp
  <1>4. ASSUME NEW j \in Jobs
        PROVE  /\ entry'[j] \in Entry
               /\ entry'[j].st = entry[j].st /\ entry'[j].bytes = entry[j].bytes
               /\ entry[j].st = "downloading" => entry'[j].still = CountUp(entry[j].still)
    <2>1. entry[j] \in Entry /\ entry[j].still \in Nat
      BY JobTyped
    <2>2. entry'[j] = OlderEntry(entry[j])
      BY DEF Tick
    <2> QED BY <1>3, <2>1, <2>2 DEF OlderEntry, Entry
  <1>5. entry' \in [Jobs -> Entry]
    BY <1>4 DEF Tick
  <1>6. TypeOK'
    BY <1>1, <1>2, <1>5, TypedParts DEF TypeOK, Reading, Todo
  <1>7. ASSUME NEW j \in Jobs PROVE JobKept(j)'
    <2>1. JobKept(j) /\ rows[j].idle \in Nat /\ entry[j].still \in Nat
      BY JobTyped DEF IInv
    <2>2. rows[j].idle <= entry[j].still => CountUp(rows[j].idle) <= CountUp(entry[j].still)
      BY <2>1, StoreClockAssumption DEF CountUp
    <2> QED BY <1>2, <1>4, <2>1, <2>2 DEF JobKept
  <1> QED BY <1>1, <1>2, <1>6, <1>7 DEF IInv, Todo

\* A crash ends the pass.
LEMMA CrashHolds ==
    ASSUME TypeOK, IInv, Crash
    PROVE  TypeOK' /\ IInv' /\ UNCHANGED rows
  <1>1. /\ UNCHANGED <<rows, entry>> /\ pc' = "match" /\ Todo' = {}
        /\ pass' \in [Todo' -> Reading]
    BY DEF Crash, NoPass, Todo
  <1>2. crashes' \in 0..MaxCrashes
    BY PollerAssumption DEF Crash, TypeOK
  <1>3. TypeOK'
    BY <1>1, <1>2, TypedParts DEF TypeOK, RowsOK
  <1> QED BY <1>1, <1>3 DEF IInv, JobKept

-----------------------------------------------------------------------------
(***************************************************************************)
(* Steps                                                                   *)
(***************************************************************************)
\* Every step keeps types and invariant, and changes the state of at most one
\* row, along the table.
LEMMA StepHolds ==
    ASSUME TypeOK, IInv, [Next]_vars
    PROVE  /\ TypeOK' /\ IInv'
           /\ \/ \A i \in Jobs : rows'[i].state = rows[i].state
              \/ \E j \in Jobs : MovesOn(j, rows')
  <1>1. CASE UNCHANGED vars
    <2>1. \A j \in Todo : View(j)' = View(j) /\ Listed(j)' = Listed(j)
      BY <1>1 DEF vars, View, Listed
    <2> QED BY <1>1, <2>1 DEF vars, TypeOK, RowsOK, IInv, JobKept, JobSeen, TurnHolds,
                              First, Todo
  <1>2. CASE PollList
    BY <1>2, PollListHolds
  <1>3. CASE Tick
    BY <1>3, TickHolds
  <1>4. CASE Crash
    BY <1>4, CrashHolds
  <1>5. ASSUME NEW j \in Jobs, PollStep(j)
        PROVE  TypeOK' /\ IInv' /\ (UNCHANGED rows \/ MovesOn(j, rows'))
    BY <1>5, VerdictHolds, PollMatchHolds, PollStartedHolds, PollProgressHolds,
       PollKeepsHolds, ReleaseSlotHolds DEF PollStep
  <1>6. ASSUME NEW j \in Jobs, Cancel(j) PROVE TypeOK' /\ IInv' /\ MovesOn(j, rows')
    BY <1>6, CancelHolds
  <1>7. ASSUME NEW j \in Jobs,
               EntryStarts(j) \/ EntryProgresses(j) \/ EntryEnds(j) \/ EntryVanishes(j)
        PROVE  TypeOK' /\ IInv' /\ UNCHANGED rows
    BY <1>7, EntryStepHolds
  <1> QED BY <1>1, <1>2, <1>3, <1>4, <1>5, <1>6, <1>7 DEF Next

\* Jobs that were just submitted wait in TorBox's queue.
LEMMA InitHolds == Init => TypeOK /\ IInv
  <1> SUFFICES ASSUME Init PROVE TypeOK /\ IInv
    OBVIOUS
  <1>1. /\ rows \in [Jobs -> Row]
        /\ \A j \in Jobs : rows[j].state = "SUBMITTED" /\ rows[j].bytes = 0
    <2>1. \A i \in {"none", "queue"} :
            LET r == [NoRow EXCEPT !.state = "SUBMITTED", !.id = i]
            IN  r \in Row /\ r.state = "SUBMITTED" /\ r.bytes = 0
      BY DEF NoRow, Row, JobStates, ActiveStates
    <2> DEFINE S == {[NoRow EXCEPT !.state = "SUBMITTED", !.id = i] : i \in {"none", "queue"}}
    <2>2. \A r \in S : r \in Row /\ r.state = "SUBMITTED" /\ r.bytes = 0
      BY <2>1
    <2>3. rows \in [Jobs -> S]
      BY DEF Init
    <2> HIDE DEF S
    <2> QED BY <2>2, <2>3
  <1>2. NewEntry \in Entry /\ NewEntry.bytes = 0 /\ NewEntry.st = "queued"
    BY DEF NewEntry, Entry
  <1>3. Todo = {} /\ pass \in [Todo -> Reading]
    BY DEF Init, NoPass, Todo
  <1>4. TypeOK
    BY <1>1, <1>2, <1>3, PollerAssumption DEF Init, TypeOK, RowsOK, Reading
  <1>5. IInv
    BY <1>1, <1>2, <1>3 DEF Init, IInv, JobKept
  <1> QED BY <1>4, <1>5

\* A slot is given back because the download is frozen only if the readings
\* themselves show it still for the whole window.
LEMMA FrozenIsStill ==
    ASSUME TypeOK, IInv, NEW j \in Jobs,
           ReleaseSlot(j), ~Overdue(j), View(j).state = "DOWNLOADING"
    PROVE  Listed(j).still > StallTicks
  <1>1. j \in Todo /\ JobSeen(j) /\ View(j).bytes = Listed(j).bytes
    BY TurnBegins DEF PollStep, ReleaseSlot, At, TurnHolds
  <1>2. Listed(j).st = "downloading" /\ View(j).idle > StallTicks
    BY DEF ReleaseSlot, Stalled
  <1>3. View(j).idle <= Listed(j).still
    BY <1>1, <1>2 DEF JobSeen
  <1>4. View(j).idle \in Nat /\ Listed(j).still \in Nat /\ StallTicks \in Nat
    BY <1>1, ReadingTyped, PollerAssumption
  <1> QED BY <1>2, <1>3, <1>4

-----------------------------------------------------------------------------
(***************************************************************************)
(* The theorems                                                            *)
(***************************************************************************)
\* Rows, readings and entries agree at every step of every run (poller.go,
\* slots.go).
THEOREM Inductive == Spec => [](TypeOK /\ IInv)
  <1>1. TypeOK /\ IInv /\ [Next]_vars => (TypeOK /\ IInv)'
    BY StepHolds
  <1> QED BY <1>1, InitHolds, PTL DEF Spec

\* Whatever the parameters, no step of a pass, a client, TorBox, the clock or a
\* crash takes a variable out of its type (poller.go).
THEOREM TypeCorrect == Spec => []TypeOK
  BY Inductive, PTL

\* However stale the list a pass works from, only a job whose entry is finished
\* reaches COMPLETED_TORBOX, and the entry stays while it is there (poller.go
\* applyMyListItem).
THEOREM CompletedMeansDone == Spec => []CompletedIsDone
  <1>1. IInv => CompletedIsDone
    BY DEF IInv, JobKept, CompletedIsDone
  <1> QED BY <1>1, Inductive, PTL

\* For every length of the windows, a download seen running is called frozen
\* only when its bytes stood still for longer than MaxStallDuration (poller.go
\* applyMyListItem, recordRemoteProgress).
THEOREM SlowIsNotFrozen == Spec => MovingDownloadsSurvive
  <1> DEFINE A == \A j \in Jobs :
                ReleaseSlot(j) /\ ~Overdue(j) /\ View(j).state = "DOWNLOADING"
                    => Listed(j).still > StallTicks
  <1>1. TypeOK /\ IInv /\ [Next]_vars => [A]_vars
    BY FrozenIsStill
  <1>2. Spec => [][Next]_vars
    BY PTL DEF Spec
  <1>3. MovingDownloadsSurvive <=> [][A]_vars
    BY DEF MovingDownloadsSurvive
  <1> HIDE DEF A
  <1> QED BY <1>1, <1>2, <1>3, Inductive, PTL

-----------------------------------------------------------------------------
\* Poller implements Lifecycle: however stale the row a verdict was reached on,
\* no step of a pass or a client moves a row against the table of state.go.
THEOREM ImplementsLifecycle == Spec => RefinesLifecycle
  <1>1. Spec => Init /\ [][Next]_vars
    BY PTL DEF Spec
  <1>2. Init => LC!Init
    BY InitHolds, RowsStart DEF TypeOK
  <1>3. TypeOK /\ IInv /\ [Next]_vars => [LC!Next]_[j \in Jobs |-> rows[j].state]
    BY StepHolds, MoveRefines DEF MovesOn
  <1> QED BY <1>1, <1>2, <1>3, Inductive, PTL DEF RefinesLifecycle, LC!Spec
=============================================================================
