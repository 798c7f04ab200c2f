---------------------------- MODULE PullerProofs ----------------------------
(***************************************************************************)
(* Theorems about Puller for every set of jobs, every size of the pool,    *)
(* every number of retries and crashes, and every length of the waits.     *)
(***************************************************************************)
EXTENDS Puller, JobStoreProofs, FiniteSetTheorems

\* The retry of a pull fails the job or counts an attempt, and counts it only
\* while the attempts the pull knows of are not spent (puller.go scheduleRetry).
LEMMA ScheduleRetryMoves ==
    ASSUME TypeOK, NEW j \in Jobs
    PROVE  LET rs == ScheduleRetry(j) IN
           /\ rs \in [Jobs -> Row]
           /\ MovesOn(j, rs)
           /\ rs[j].state \in {rows[j].state, "FAILED"}
           /\ rs[j].local = rows[j].local
           /\ \/ rs[j].attempts = rows[j].attempts
              \/ /\ rs[j].attempts = rows[j].attempts + 1
                 /\ pull[j].attempts + 1 < MaxRetries
  <1>1. RowsOK /\ rows[j] \in Row /\ pull[j].attempts \in Nat
    BY DEF TypeOK, RowsOK, Pull
  <1>2. CASE pull[j].attempts + 1 >= MaxRetries
    <2>1. ScheduleRetry(j) = Transition(j, "COMPLETED_TORBOX", "FAILED", rows[j])
      BY <1>2 DEF ScheduleRetry
    <2>2. "FAILED" \in JobStates
      BY DEF JobStates, Terminal
    <2>3. CASE Applies(j, "COMPLETED_TORBOX", "FAILED")
      BY <1>1, <2>1, <2>2, <2>3, TransitionMoves
    <2>4. CASE ~Applies(j, "COMPLETED_TORBOX", "FAILED")
      BY <1>1, <2>1, <2>2, <2>4, TransitionMoves
    <2> QED BY <2>3, <2>4
  <1>3. CASE ~(pull[j].attempts + 1 >= MaxRetries)
    <2>1. ScheduleRetry(j) = AttemptFailure(j, RetryTicks)
      BY <1>3 DEF ScheduleRetry
    <2>2. pull[j].attempts + 1 < MaxRetries
      BY <1>1, <1>3, PullerAssumption
    <2>3. RetryTicks \in Nat
      BY PullerAssumption
    <2> QED BY <1>1, <2>1, <2>2, <2>3, AttemptFailureCounts DEF MovesOn
  <1> QED BY <1>2, <1>3

-----------------------------------------------------------------------------
(***************************************************************************)
(* Types                                                                   *)
(***************************************************************************)
\* The names a job's state can have (state.go).
LEMMA StateNames == {"NEW", "SUBMITTED", "DOWNLOADING", "COMPLETED_TORBOX",
                     "READY", "FAILED", "CANCELED"} \subseteq JobStates
  BY DEF JobStates, ActiveStates, Terminal

\* The program starts in typed variables (puller.go NewPuller).
LEMMA InitTyped == Init => TypeOK
  <1> SUFFICES ASSUME Init PROVE TypeOK
    OBVIOUS
  <1>1. InitialRows \subseteq Row
    <2>1. ASSUME NEW s \in {"DOWNLOADING", "COMPLETED_TORBOX"}, NEW l \in BOOLEAN
          PROVE  RowsIn(s, l) \subseteq Row
      <3> SUFFICES ASSUME NEW n \in 0..MaxRetries - 1
                   PROVE  [NoRow EXCEPT !.state = s, !.attempts = n, !.local = l,
                                        !.id = "active"] \in Row
        BY DEF RowsIn
      <3>1. n \in Nat /\ s \in JobStates
        BY StateNames, PullerAssumption
      <3> QED BY <3>1 DEF NoRow, Row
    <2> QED BY <2>1 DEF InitialRows
  <1>2. RowsOK
    BY <1>1 DEF Init, RowsOK
  <1>3. NotSeen \in Seen /\ NoPull \in Pull /\ NoRequest \in Request
    BY DEF NotSeen, Seen, NoPull, Pull, NoRequest, Request
  <1> QED BY <1>2, <1>3, PullerAssumption DEF Init, TypeOK, Unseen

\* A pull that goes on to another place is still a pull.
LEMMA GotoTyped ==
    ASSUME TypeOK, NEW j \in Jobs,
           NEW pc \in {"lookup", "files", "download", "store", "ending"}, Goto(j, pc)
    PROVE  /\ pull' \in [Jobs -> Pull]
           /\ \A i \in Jobs \ {j} : pull'[i] = pull[i]
           /\ pull'[j].pc = pc /\ pull'[j].attempts = pull[j].attempts
           /\ pull'[j].aborted = pull[j].aborted
  BY DEF TypeOK, Goto, Pull

\* No step of a pull leaves the types (puller.go pullOne, finish).
LEMMA PullStepTyped ==
    ASSUME TypeOK, NEW j \in Jobs, PullStep(j)
    PROVE  TypeOK'
  <1>0. RowsOK /\ rows[j] \in Row
    BY DEF TypeOK, RowsOK
  <1>1. CASE LookupFinds(j)
    BY <1>1, GotoTyped DEF LookupFinds, TypeOK, RowsOK
  <1>2. CASE LookupFails(j)
    <2>1. rows' \in [Jobs -> Row]
      BY <1>2, ScheduleRetryMoves DEF LookupFails
    <2> QED BY <1>2, <2>1, GotoTyped DEF LookupFails, TypeOK, RowsOK
  <1>3. CASE ArchivesOnly(j)
    <2>1. rows' \in [Jobs -> Row]
      <3>1. CASE since[j] < ArchiveTicks
        <4>1. rows' = Reschedule(j, RecheckTicks) /\ RecheckTicks \in Nat
          BY <1>3, <3>1, PullerAssumption DEF ArchivesOnly
        <4> QED BY <1>0, <4>1, RescheduleKeeps
      <3>2. CASE ~(since[j] < ArchiveTicks)
        <4>1. rows' = Transition(j, "COMPLETED_TORBOX", "FAILED", rows[j])
          BY <1>3, <3>2 DEF ArchivesOnly
        <4> QED BY <1>0, <4>1, StateNames, TransitionMoves
      <3> QED BY <3>1, <3>2
    <2>2. since' \in [Jobs -> 0..ArchiveTicks \cup {Unseen}]
      BY <1>3, PullerAssumption DEF ArchivesOnly, Unseen, TypeOK
    <2> QED BY <1>3, <2>1, <2>2, GotoTyped DEF ArchivesOnly, TypeOK, RowsOK
  <1>4. CASE FilesFail(j)
    <2>1. rows' \in [Jobs -> Row]
      BY <1>4, ScheduleRetryMoves DEF FilesFail
    <2> QED BY <1>4, <2>1, GotoTyped DEF FilesFail, TypeOK, RowsOK
  <1>5. CASE FilesResolved(j)
    <2>1. pull \in [Jobs -> Pull] /\ pull[j] \in Pull
      BY DEF TypeOK
    <2> DEFINE p == [pull[j] EXCEPT !.pc = "download", !.dir = TRUE]
    <2>2. p \in Pull
      BY <2>1 DEF Pull
    <2>3. pull' = [pull EXCEPT ![j] = p]
      BY <1>5, <2>1 DEF FilesResolved, Pull
    <2>4. pull' \in [Jobs -> Pull]
      <3> HIDE DEF p
      <3> QED BY <2>1, <2>2, <2>3
    <2>5. since' \in [Jobs -> 0..ArchiveTicks \cup {Unseen}]
      BY <1>5 DEF FilesResolved, TypeOK, Unseen
    <2> QED BY <1>5, <2>4, <2>5 DEF FilesResolved, TypeOK, RowsOK
  <1>6. CASE StoreReady(j)
    <2>1. rows' \in [Jobs -> Row]
      BY <1>0, <1>6, MarkLocalReadyMoves DEF StoreReady
    <2> QED BY <1>6, <2>1, GotoTyped DEF StoreReady, TypeOK, RowsOK
  <1>7. CASE PullAborted(j)
    BY <1>7, GotoTyped DEF PullAborted, TypeOK, RowsOK
  <1>8. CASE Finish(j)
    <2>1. pull' \in [Jobs -> Pull]
      <3>1. NoPull \in Pull
        BY DEF NoPull, Pull
      <3> QED BY <1>8, <3>1 DEF Finish, TypeOK
    <2>2. client' \in [Jobs -> Request]
      <3>1. client \in [Jobs -> Request] /\ client[j] \in Request
        BY DEF TypeOK
      <3>2. pull[j].dir \in BOOLEAN
        BY DEF TypeOK, Pull
      <3> DEFINE c == [client[j] EXCEPT !.pc = "remove", !.dir = pull[j].dir]
      <3>3. c \in Request
        BY <3>1, <3>2 DEF Request
      <3>4. client' = [client EXCEPT ![j] = c] \/ client' = client
        <4>1. client' = [client EXCEPT ![j] = IF client[j].pc = "waiting" THEN c
                                                                 ELSE client[j]]
          BY <1>8, <3>1 DEF Finish
        <4> HIDE DEF c
        <4> QED BY <3>1, <4>1
      <3> HIDE DEF c
      <3> QED BY <3>1, <3>3, <3>4
    <2> QED BY <1>8, <2>1, <2>2 DEF Finish, TypeOK, RowsOK
  <1> QED BY <1>1, <1>2, <1>3, <1>4, <1>5, <1>6, <1>7, <1>8 DEF PullStep

\* Nor does a step of its download (downloader.go Run).
LEMMA DownloadStepTyped ==
    ASSUME TypeOK, NEW j \in Jobs, DownloadStep(j)
    PROVE  TypeOK'
  <1>1. CASE DownloadWrites(j)
    BY <1>1 DEF DownloadWrites, TypeOK, RowsOK
  <1>2. CASE DownloadFails(j)
    <2>1. rows' \in [Jobs -> Row]
      BY <1>2, ScheduleRetryMoves DEF DownloadFails
    <2> QED BY <1>2, <2>1, GotoTyped DEF DownloadFails, TypeOK, RowsOK
  <1>3. CASE DownloadDone(j)
    BY <1>3, GotoTyped DEF DownloadDone, TypeOK, RowsOK
  <1> QED BY <1>1, <1>2, <1>3 DEF DownloadStep

\* Nor does a delete request (queue.go cancel, discard.go Discard).
LEMMA ClientStepTyped ==
    ASSUME TypeOK, NEW j \in Jobs, ClientGet(j) \/ ClientStep(j) \/ ClientHangsUp(j)
    PROVE  TypeOK'
  <1>0. RowsOK /\ rows[j] \in Row /\ client[j] \in Request /\ NoRequest \in Request
    BY DEF TypeOK, RowsOK, NoRequest, Request
  <1>1. AfterCancel(client[j]) \in Request /\ AfterDiscard(client[j]) \in Request
    BY <1>0 DEF AfterCancel, AfterDiscard, Request
  <1>2. CASE ClientGet(j)
    <2>1. PICK del \in BOOLEAN, drop \in BOOLEAN :
              client' = [client EXCEPT ![j] =
                [NoRequest EXCEPT !.pc = "got", !.state = rows[j].state,
                                  !.local = rows[j].local, !.del = del, !.drop = drop]]
      BY <1>2 DEF ClientGet
    <2>2. client' \in [Jobs -> Request]
      BY <1>0, <2>1 DEF TypeOK, NoRequest, Request, Row
    <2> QED BY <1>2, <2>2 DEF ClientGet, TypeOK, RowsOK
  <1>3. CASE ClientDropsEnded(j)
    <2>1. rows' \in [Jobs -> Row]
      BY <1>0, <1>3, DeleteDrops DEF ClientDropsEnded
    <2>2. client' \in [Jobs -> Request]
      BY <1>0, <1>1, <1>3 DEF ClientDropsEnded, TypeOK
    <2> QED BY <1>3, <2>1, <2>2 DEF ClientDropsEnded, TypeOK, RowsOK
  <1>4. CASE ClientCancels(j)
    <2>1. rows' \in [Jobs -> Row]
      BY <1>0, <1>4, StateNames, TransitionMoves DEF ClientCancels
    <2>2. client' \in [Jobs -> Request]
      BY <1>0, <1>1, <1>4 DEF ClientCancels, TypeOK
    <2> QED BY <1>4, <2>1, <2>2 DEF ClientCancels, TypeOK, RowsOK
  <1>5. CASE ClientAborts(j)
    <2>1. pull' \in [Jobs -> Pull]
      BY <1>5 DEF ClientAborts, TypeOK, Pull
    <2>2. client' \in [Jobs -> Request]
      BY <1>0, <1>5 DEF ClientAborts, TypeOK, Request
    <2> QED BY <1>5, <2>1, <2>2 DEF ClientAborts, TypeOK, RowsOK
  <1>6. CASE ClientRemoves(j)
    <2>1. client' \in [Jobs -> Request]
      BY <1>1, <1>6 DEF ClientRemoves, TypeOK
    <2> QED BY <1>6, <2>1 DEF ClientRemoves, TypeOK, RowsOK
  <1>7. CASE ClientDrops(j)
    <2>1. rows' \in [Jobs -> Row]
      BY <1>0, <1>7, DeleteDrops DEF ClientDrops
    <2> QED BY <1>0, <1>7, <2>1 DEF ClientDrops, TypeOK, RowsOK
  <1>8. CASE ClientHangsUp(j)
    <2>1. client' \in [Jobs -> Request]
      BY <1>0, <1>8 DEF ClientHangsUp, TypeOK, Pull, Request
    <2> QED BY <1>8, <2>1 DEF ClientHangsUp, TypeOK, RowsOK
  <1> QED BY <1>2, <1>3, <1>4, <1>5, <1>6, <1>7, <1>8 DEF ClientStep

\* The clocks of the rows and of the archive waits stay in range.
LEMMA TickTyped ==
    ASSUME TypeOK, TickList \/ (\E j \in Jobs : TickItem(j)) \/ Tick
    PROVE  TypeOK'
  <1>0. RowsOK /\ NotSeen \in Seen /\ NoPull \in Pull
    BY DEF TypeOK, NotSeen, Seen, NoPull, Pull
  <1>1. CASE TickList
    <2>1. todo' \subseteq Jobs
      BY <1>1, ListedAreDue DEF TickList
    <2>2. seen' \in [Jobs -> Seen]
      BY <1>0, <1>1 DEF TickList, RowsOK, Row, Seen
    <2> QED BY <1>1, <2>1, <2>2 DEF TickList, TypeOK, RowsOK
  <1>2. ASSUME NEW j \in Jobs, TickItem(j) PROVE TypeOK'
    <2>0. ASSUME Handled(j) PROVE todo' \subseteq Jobs /\ seen' \in [Jobs -> Seen]
      BY <1>0, <2>0 DEF Handled, TypeOK
    <2>1. CASE TickAlreadyLocal(j)
      <3>1. rows' \in [Jobs -> Row]
        BY <1>0, <2>1, MarkLocalReadyMoves DEF TickAlreadyLocal
      <3> QED BY <2>0, <2>1, <3>1 DEF TickAlreadyLocal, TypeOK, RowsOK
    <2>2. CASE TickSkip(j)
      BY <2>0, <2>2 DEF TickSkip, TypeOK, RowsOK
    <2>3. CASE TickStart(j)
      <3>1. pull' \in [Jobs -> Pull]
        BY <1>0, <2>3 DEF TickStart, TypeOK, Seen, NoPull, Pull
      <3> QED BY <2>0, <2>3, <3>1 DEF TickStart, TypeOK, RowsOK
    <2> QED BY <1>2, <2>1, <2>2, <2>3 DEF TickItem
  <1>3. CASE Tick
    <2>1. rows' \in [Jobs -> Row]
      BY <1>0, <1>3, AgedRowsKeep DEF Tick
    <2>2. \A n \in 0..ArchiveTicks \cup {Unseen} :
              ArchiveClock(n) \in 0..ArchiveTicks \cup {Unseen}
      BY PullerAssumption DEF ArchiveClock, Unseen
    <2>3. since' \in [Jobs -> 0..ArchiveTicks \cup {Unseen}]
      BY <1>3, <2>2 DEF Tick, TypeOK
    <2> QED BY <1>3, <2>1, <2>3 DEF Tick, TypeOK, RowsOK
  <1> QED BY <1>1, <1>2, <1>3

\* No step of any thread leaves the types.
LEMMA NextTyped == TypeOK /\ [Next]_vars => TypeOK'
  <1> SUFFICES ASSUME TypeOK, [Next]_vars PROVE TypeOK'
    OBVIOUS
  <1>1. CASE UNCHANGED vars
    BY <1>1 DEF vars, TypeOK, RowsOK
  <1>2. CASE TickList \/ Tick
    BY <1>2, TickTyped
  <1>3. CASE Crash
    <2>1. NotSeen \in Seen /\ NoPull \in Pull /\ NoRequest \in Request
      BY DEF NotSeen, Seen, NoPull, Pull, NoRequest, Request
    <2>2. crashes' \in 0..MaxCrashes
      BY <1>3, PullerAssumption DEF Crash, TypeOK
    <2> QED BY <1>3, <2>1, <2>2 DEF Crash, TypeOK, RowsOK, Unseen
  <1>4. ASSUME NEW j \in Jobs, TorboxCompletes(j) PROVE TypeOK'
    <2>1. rows' \in [Jobs -> Row]
      BY <1>4, StateNames, TransitionMoves DEF TorboxCompletes, TypeOK, RowsOK
    <2> QED BY <1>4, <2>1 DEF TorboxCompletes, TypeOK, RowsOK
  <1>5. ASSUME NEW j \in Jobs, TickItem(j) PROVE TypeOK'
    BY <1>5, TickTyped
  <1>6. ASSUME NEW j \in Jobs, PullStep(j) PROVE TypeOK'
    BY <1>6, PullStepTyped
  <1>7. ASSUME NEW j \in Jobs, DownloadStep(j) PROVE TypeOK'
    BY <1>7, DownloadStepTyped
  <1>8. ASSUME NEW j \in Jobs, ClientGet(j) \/ ClientStep(j) \/ ClientHangsUp(j) PROVE TypeOK'
    BY <1>8, ClientStepTyped
  <1> QED BY <1>1, <1>2, <1>3, <1>4, <1>5, <1>6, <1>7, <1>8 DEF Next

\* Whatever the parameters, no step of the puller, a pull, a request, the clock
\* or a crash takes a variable out of its type.
THEOREM TypeCorrect == Spec => []TypeOK
  BY InitTyped, NextTyped, PTL DEF Spec

-----------------------------------------------------------------------------
(***************************************************************************)
(* The pool                                                                *)
(***************************************************************************)
\* Only a start makes the inflight map grow, and by one job (puller.go begin
\* and finish).
LEMMA InflightGrows ==
    ASSUME TypeOK, [Next]_vars
    PROVE  \/ Inflight' \subseteq Inflight
           \/ \E j \in Jobs : TickStart(j) /\ Inflight' = Inflight \cup {j}
  <1> USE DEF TypeOK
  <1>1. CASE UNCHANGED vars
    BY <1>1 DEF vars, Inflight
  <1>2. CASE TickList \/ Tick \/ Crash
    BY <1>2 DEF TickList, Tick, Crash, Inflight, NoPull
  <1>3. ASSUME NEW j \in Jobs, TorboxCompletes(j) PROVE Inflight' \subseteq Inflight
    BY <1>3 DEF TorboxCompletes, Inflight
  <1>4. ASSUME NEW j \in Jobs, TickItem(j)
        PROVE  \/ Inflight' \subseteq Inflight
               \/ TickStart(j) /\ Inflight' = Inflight \cup {j}
    <2>1. CASE TickAlreadyLocal(j) \/ TickSkip(j)
      BY <2>1 DEF TickAlreadyLocal, TickSkip, Inflight
    <2>2. CASE TickStart(j)
      <3>1. \A i \in Jobs \ {j} : pull'[i] = pull[i]
        BY <2>2 DEF TickStart
      <3>2. pull'[j].pc = "lookup"
        BY <2>2 DEF TickStart, NoPull
      <3> QED BY <2>2, <3>1, <3>2 DEF Inflight
    <2> QED BY <1>4, <2>1, <2>2 DEF TickItem
  <1>5. ASSUME NEW j \in Jobs, PullStep(j) PROVE Inflight' \subseteq Inflight
    <2>1. \A i \in Jobs \ {j} : pull'[i] = pull[i]
      BY <1>5 DEF PullStep, LookupFinds, LookupFails, ArchivesOnly, FilesFail,
                  FilesResolved, StoreReady, PullAborted, Finish, Goto
    <2>2. pull[j].pc # "none"
      BY <1>5 DEF PullStep, LookupFinds, LookupFails, ArchivesOnly, FilesFail,
                  FilesResolved, StoreReady, PullAborted, Finish, At
    <2> QED BY <2>1, <2>2 DEF Inflight
  <1>6. ASSUME NEW j \in Jobs, DownloadStep(j) PROVE Inflight' \subseteq Inflight
    <2>1. \A i \in Jobs \ {j} : pull'[i] = pull[i]
      BY <1>6 DEF DownloadStep, DownloadWrites, DownloadFails, DownloadDone, Goto
    <2>2. pull[j].pc # "none"
      BY <1>6 DEF DownloadStep, DownloadWrites, DownloadFails, DownloadDone, At
    <2> QED BY <2>1, <2>2 DEF Inflight
  <1>7. ASSUME NEW j \in Jobs, ClientGet(j) \/ ClientStep(j) \/ ClientHangsUp(j)
        PROVE  Inflight' \subseteq Inflight
    <2>1. \A i \in Jobs : pull'[i].pc = pull[i].pc
      <3>1. CASE ClientAborts(j)
        BY <3>1 DEF ClientAborts, Pull
      <3>2. CASE ~ClientAborts(j)
        BY <1>7, <3>2 DEF ClientGet, ClientStep, ClientDropsEnded, ClientCancels,
                          ClientRemoves, ClientDrops, ClientHangsUp
      <3> QED BY <3>1, <3>2
    <2> QED BY <2>1 DEF Inflight
  <1> QED BY <1>1, <1>2, <1>3, <1>4, <1>5, <1>6, <1>7 DEF Next

\* A step that starts a pull finds a free place (puller.go Tick).
LEMMA NextPoolBound == TypeOK /\ PoolBound /\ [Next]_vars => PoolBound'
  <1> SUFFICES ASSUME TypeOK, PoolBound, [Next]_vars PROVE PoolBound'
    OBVIOUS
  <1>1. IsFiniteSet(Inflight) /\ Cardinality(Inflight) \in Nat
    BY JobsAssumption, FS_Subset, FS_CardinalityType DEF Inflight
  <1>2. CASE Inflight' \subseteq Inflight
    <2>1. Cardinality(Inflight') <= Cardinality(Inflight) /\ Cardinality(Inflight') \in Nat
      BY <1>1, <1>2, FS_Subset, FS_CardinalityType
    <2> QED BY <1>1, <2>1, PullerAssumption DEF PoolBound
  <1>3. ASSUME NEW j \in Jobs, TickStart(j), Inflight' = Inflight \cup {j}
        PROVE  PoolBound'
    <2>1. j \notin Inflight /\ Cardinality(Inflight) < PoolSize
      BY <1>3 DEF TickStart
    <2>2. Cardinality(Inflight \cup {j}) = Cardinality(Inflight) + 1
      BY <1>1, <2>1, FS_AddElement
    <2> QED BY <1>1, <1>3, <2>1, <2>2, PullerAssumption DEF PoolBound
  <1> QED BY <1>2, <1>3, InflightGrows

\* There are never more pulls than the pool has places, for every size of the
\* pool and every number of jobs (puller.go Tick).
THEOREM PoolBounded == Spec => []PoolBound
  <1>1. Init => PoolBound
    <2> SUFFICES ASSUME Init PROVE PoolBound
      OBVIOUS
    <2>1. Inflight = {}
      BY DEF Init, Inflight, NoPull
    <2> QED BY <2>1, FS_EmptySet, PullerAssumption DEF PoolBound
  <1> QED BY <1>1, NextPoolBound, TypeCorrect, PTL DEF Spec

-----------------------------------------------------------------------------
(***************************************************************************)
(* The rows                                                                *)
(***************************************************************************)
\* No state follows an end, or the lack of a row (state.go).
LEMMA EndsHaveNoSuccessor ==
    \A s \in Terminal \cup {"NONE"} : \A t : ~CanTransition(s, t)
  BY DEF CanTransition, Successors, Terminal

\* The ways in which one step may change the row of a job, with what the step
\* has checked before.
Kept(i) == SameCore(rows'[i], rows[i])
Moved(i) == /\ CanTransition(rows[i].state, rows'[i].state)
            /\ rows'[i].state \in {"COMPLETED_TORBOX", "FAILED", "CANCELED"}
            /\ rows'[i].attempts = rows[i].attempts /\ rows'[i].local = rows[i].local
Readied(i) == /\ rows[i].state = "COMPLETED_TORBOX" /\ rows'[i].state = "READY"
              /\ rows'[i].attempts = rows[i].attempts
              /\ At(i, "store") \/ seen[i].local
Counted(i) == /\ rows'[i].state = rows[i].state /\ rows'[i].local = rows[i].local
              /\ rows'[i].attempts = rows[i].attempts + 1
              /\ CanRetry(i) /\ pull[i].attempts + 1 < MaxRetries
              /\ pull'[i].pc = "ending"
Dropped(i) == /\ \/ client[i].pc = "got" /\ client[i].state \in Terminal
                 \/ client[i].pc = "drop"
              /\ rows'[i].state = "NONE" /\ rows'[i].attempts = 0 /\ ~rows'[i].local

Changed(i) == Moved(i) \/ Readied(i) \/ Counted(i) \/ Dropped(i)

OnlyChanges(j) == (Kept(j) \/ Changed(j)) /\ \A i \in Jobs \ {j} : Kept(i)

\* Every compare-and-swap of the puller, the poller and the requests is one of
\* these (jobs.go Transition).
LEMMA TransitionChanges ==
    ASSUME TypeOK, NEW j \in Jobs, NEW from,
           NEW to \in {"COMPLETED_TORBOX", "FAILED", "CANCELED"},
           rows' = Transition(j, from, to, rows[j])
    PROVE  OnlyChanges(j)
  <1>1. RowsOK /\ rows[j] \in Row /\ to \in JobStates
    BY StateNames DEF TypeOK, RowsOK
  <1>2. CASE Applies(j, from, to)
    BY <1>1, <1>2, TransitionMoves
       DEF OnlyChanges, Kept, Changed, Moved, SameCore, MovesOn, Applies
  <1>3. CASE ~Applies(j, from, to)
    BY <1>1, <1>3, TransitionMoves DEF OnlyChanges, Kept, SameCore
  <1> QED BY <1>2, <1>3

\* scheduleRetry fails the job or counts an attempt (puller.go).
LEMMA RetryChanges ==
    ASSUME TypeOK, NEW j \in Jobs, rows' = ScheduleRetry(j),
           CanRetry(j), pull'[j].pc = "ending"
    PROVE  OnlyChanges(j)
  <1>1. RowsOK /\ rows[j] \in Row /\ pull[j].attempts \in Nat
    BY DEF TypeOK, RowsOK, Pull
  <1>2. CASE pull[j].attempts + 1 >= MaxRetries
    <2>1. rows' = Transition(j, "COMPLETED_TORBOX", "FAILED", rows[j])
      BY <1>2 DEF ScheduleRetry
    <2> QED BY <1>1, <2>1, TransitionChanges
  <1>3. CASE ~(pull[j].attempts + 1 >= MaxRetries)
    <2>1. rows' = AttemptFailure(j, RetryTicks) /\ RetryTicks \in Nat
      BY <1>3, PullerAssumption DEF ScheduleRetry
    <2>2. pull[j].attempts + 1 < MaxRetries
      BY <1>1, <1>3, PullerAssumption
    <2> QED BY <1>1, <2>1, <2>2, AttemptFailureCounts
         DEF OnlyChanges, Kept, Changed, Counted, SameCore
  <1> QED BY <1>2, <1>3

\* READY is written for a finished pull or a recorded path (puller.go).
LEMMA ReadyChanges ==
    ASSUME TypeOK, NEW j \in Jobs, rows' = MarkLocalReady(j), At(j, "store") \/ seen[j].local
    PROVE  OnlyChanges(j)
  <1>1. RowsOK
    BY DEF TypeOK
  <1> QED BY <1>1, MarkLocalReadyMoves
       DEF OnlyChanges, Kept, Changed, Readied, SameCore, MovesOn

\* One step changes one row at most, and in one of these ways.
LEMMA RowsChange ==
    ASSUME TypeOK, [Next]_vars
    PROVE  (\A i \in Jobs : Kept(i)) \/ (\E j \in Jobs : OnlyChanges(j))
  <1>0. RowsOK
    BY DEF TypeOK
  <1>1. CASE UNCHANGED rows
    BY <1>1 DEF Kept, SameCore
  <1>2. CASE Tick
    BY <1>0, <1>2, AgedRowsKeep DEF Tick, Kept
  <1>3. ASSUME NEW j \in Jobs, TorboxCompletes(j) PROVE OnlyChanges(j)
    BY <1>3, TransitionChanges DEF TorboxCompletes
  <1>4. ASSUME NEW j \in Jobs, TickItem(j) PROVE UNCHANGED rows \/ OnlyChanges(j)
    BY <1>4, ReadyChanges DEF TickItem, TickAlreadyLocal, TickSkip, TickStart
  <1>5. ASSUME NEW j \in Jobs, PullStep(j) \/ DownloadStep(j)
        PROVE  UNCHANGED rows \/ (\A i \in Jobs : Kept(i)) \/ OnlyChanges(j)
    <2>1. CASE LookupFails(j)
      BY <2>1, RetryChanges, GotoTyped DEF LookupFails, At, CanRetry
    <2>2. CASE FilesFail(j)
      BY <2>2, RetryChanges, GotoTyped DEF FilesFail, At, CanRetry
    <2>3. CASE DownloadFails(j)
      BY <2>3, RetryChanges, GotoTyped DEF DownloadFails, At, CanRetry
    <2>4. CASE StoreReady(j)
      BY <2>4, ReadyChanges DEF StoreReady
    <2>5. CASE ArchivesOnly(j)
      <3>1. CASE since[j] < ArchiveTicks
        <4>1. rows' = Reschedule(j, RecheckTicks) /\ RecheckTicks \in Nat
          BY <2>5, <3>1, PullerAssumption DEF ArchivesOnly
        <4> QED BY <1>0, <4>1, RescheduleKeeps DEF Kept
      <3>2. CASE ~(since[j] < ArchiveTicks)
        BY <2>5, <3>2, TransitionChanges DEF ArchivesOnly
      <3> QED BY <3>1, <3>2
    <2>6. CASE \/ LookupFinds(j) \/ FilesResolved(j) \/ PullAborted(j) \/ Finish(j)
               \/ DownloadWrites(j) \/ DownloadDone(j)
      BY <2>6 DEF LookupFinds, FilesResolved, PullAborted, Finish, DownloadWrites,
                  DownloadDone
    <2> QED BY <1>5, <2>1, <2>2, <2>3, <2>4, <2>5, <2>6 DEF PullStep, DownloadStep
  <1>6. ASSUME NEW j \in Jobs, ClientGet(j) \/ ClientStep(j) \/ ClientHangsUp(j)
        PROVE  UNCHANGED rows \/ OnlyChanges(j)
    <2>1. CASE ClientDropsEnded(j)
      BY <1>0, <2>1, DeleteDrops
         DEF ClientDropsEnded, OnlyChanges, Changed, Dropped, Kept, SameCore
    <2>2. CASE ClientDrops(j)
      BY <1>0, <2>2, DeleteDrops
         DEF ClientDrops, OnlyChanges, Changed, Dropped, Kept, SameCore
    <2>3. CASE ClientCancels(j)
      BY <2>3, TransitionChanges DEF ClientCancels
    <2>4. CASE ClientGet(j) \/ ClientAborts(j) \/ ClientRemoves(j) \/ ClientHangsUp(j)
      BY <2>4 DEF ClientGet, ClientAborts, ClientRemoves, ClientHangsUp
    <2> QED BY <1>6, <2>1, <2>2, <2>3, <2>4 DEF ClientStep
  <1>7. CASE TickList \/ Crash \/ UNCHANGED vars
    BY <1>1, <1>7 DEF TickList, Crash, vars
  <1> QED BY <1>1, <1>2, <1>3, <1>4, <1>5, <1>6, <1>7 DEF Next

\* What has been withdrawn stays withdrawn (state.go).
LEMMA WithdrawnStays ==
    ASSUME TypeOK, [Next]_vars, NEW i \in Jobs, Withdrawn(i)
    PROVE  Withdrawn(i)'
  <1>1. \A t : ~CanTransition(rows[i].state, t)
    BY EndsHaveNoSuccessor DEF Withdrawn, Terminal
  <1>2. Kept(i) \/ Changed(i)
    BY RowsChange DEF OnlyChanges
  <1> QED BY <1>1, <1>2
       DEF Withdrawn, Kept, SameCore, Changed, Moved, Readied, Counted, Dropped

-----------------------------------------------------------------------------
(***************************************************************************)
(* The requests                                                            *)
(***************************************************************************)
\* A request of another job, or one that is let go on, is where it was.
LEMMA RequestsChange ==
    ASSUME TypeOK, [Next]_vars, NEW i \in Jobs
    PROVE  \/ ClientGet(i) \/ ClientStep(i) \/ ClientHangsUp(i)
           \/ client'[i] = client[i]
           \/ client'[i] = NoRequest
           \/ client[i].pc = "waiting" /\ client'[i].pc = "remove"
  <1>0. client[i] \in Request
    BY DEF TypeOK
  <1>1. CASE UNCHANGED client
    BY <1>1
  <1>2. ASSUME NEW j \in Jobs, Finish(j)
        PROVE  \/ client'[i] = client[i]
               \/ client[i].pc = "waiting" /\ client'[i].pc = "remove"
    BY <1>0, <1>2 DEF Finish, TypeOK, Request
  <1>3. ASSUME NEW j \in Jobs, ClientGet(j) \/ ClientStep(j) \/ ClientHangsUp(j), j # i
        PROVE  client'[i] = client[i]
    BY <1>3 DEF TypeOK, ClientGet, ClientStep, ClientHangsUp, ClientDropsEnded,
                ClientCancels, ClientAborts, ClientRemoves, ClientDrops
  <1>4. ASSUME NEW j \in Jobs, TorboxCompletes(j) \/ TickItem(j) \/ DownloadStep(j)
        PROVE  UNCHANGED client
    BY <1>4 DEF TorboxCompletes, TickItem, TickAlreadyLocal, TickSkip, TickStart,
                DownloadStep, DownloadWrites, DownloadFails, DownloadDone
  <1>5. ASSUME NEW j \in Jobs, PullStep(j), ~Finish(j) PROVE UNCHANGED client
    BY <1>5 DEF PullStep, LookupFinds, LookupFails, ArchivesOnly, FilesFail,
                FilesResolved, StoreReady, PullAborted
  <1>6. CASE Crash
    BY <1>6 DEF Crash
  <1>7. CASE TickList \/ Tick \/ UNCHANGED vars
    BY <1>7 DEF TickList, Tick, vars
  <1> QED BY <1>1, <1>2, <1>3, <1>4, <1>5, <1>6, <1>7 DEF Next

\* What a request has read of an ended job, or done to a live one, still stands
\* after any step of any other thread (queue.go cancel).
LEMMA NextRequestsHold ==
    ASSUME TypeOK, RequestsHold, [Next]_vars
    PROVE  RequestsHold'
  <1> DEFINE Beyond(i) == client[i].pc \in {"abort", "waiting", "remove", "drop"}
             Stale(i) == client[i].pc = "got" /\ client[i].state \in Terminal
  <1> SUFFICES ASSUME NEW i \in Jobs
               PROVE  /\ Beyond(i)' => Withdrawn(i)'
                      /\ Stale(i)' => rows'[i].state \in {client'[i].state, "NONE"}
    BY DEF RequestsHold
  <1>0. /\ RowsOK /\ rows[i] \in Row /\ client[i] \in Request
        /\ Beyond(i) => Withdrawn(i)
        /\ Stale(i) => rows[i].state \in {client[i].state, "NONE"}
    BY DEF RequestsHold, TypeOK, RowsOK
  <1>1. Withdrawn(i) => Withdrawn(i)'
    BY WithdrawnStays
  <1>2. rows[i].state \in Terminal \cup {"NONE"} => rows'[i].state \in {rows[i].state, "NONE"}
    BY EndsHaveNoSuccessor, RowsChange
       DEF OnlyChanges, Kept, SameCore, Changed, Moved, Readied, Counted, Dropped, Terminal
  <1>3. CASE client'[i] = client[i]
    BY <1>0, <1>1, <1>2, <1>3
  <1>4. CASE client'[i] = NoRequest
    BY <1>4 DEF NoRequest
  <1>5. CASE client[i].pc = "waiting" /\ client'[i].pc = "remove"
    BY <1>0, <1>1, <1>5
  <1>6. CASE ClientGet(i)
    <2>1. rows' = rows /\ client'[i].pc = "got" /\ client'[i].state = rows[i].state
      BY <1>6 DEF ClientGet, NoRequest, TypeOK
    <2> QED BY <2>1
  <1>7. CASE ClientDropsEnded(i)
    <2>1. Withdrawn(i)' /\ client'[i].pc # "got"
      BY <1>0, <1>7, DeleteDrops
         DEF ClientDropsEnded, TypeOK, Withdrawn, AfterCancel, NoRequest, Request
    <2> QED BY <2>1
  <1>8. CASE ClientCancels(i)
    <2>1. CASE Applies(i, client[i].state, "CANCELED")
      <3>1. rows'[i].state = "CANCELED"
        BY <1>0, <1>8, <2>1, StateNames, TransitionMoves DEF ClientCancels
      <3>2. client'[i].pc # "got"
        BY <1>0, <1>8, <2>1 DEF ClientCancels, TypeOK, AfterCancel, NoRequest, Request
      <3> QED BY <3>1, <3>2 DEF Withdrawn
    <2>2. CASE ~Applies(i, client[i].state, "CANCELED")
      BY <1>8, <2>2 DEF ClientCancels, TypeOK, NoRequest
    <2> QED BY <2>1, <2>2
  <1>9. CASE ClientAborts(i) \/ ClientRemoves(i) \/ ClientDrops(i)
    <2>1. Beyond(i)
      BY <1>9 DEF ClientAborts, ClientRemoves, ClientDrops
    <2>2. client'[i].pc # "got"
      BY <1>0, <1>9 DEF ClientAborts, ClientRemoves, ClientDrops, TypeOK, AfterDiscard,
                        NoRequest, Request
    <2> QED BY <1>0, <1>1, <2>1, <2>2
  <1>10. CASE ClientHangsUp(i)
    <2>1. client'[i].pc \in {"idle", "remove"}
      BY <1>0, <1>10 DEF ClientHangsUp, TypeOK, NoRequest, Request
    <2>2. client'[i].pc = "remove" => Beyond(i)
      BY <1>0, <1>10 DEF ClientHangsUp, TypeOK, NoRequest, Request
    <2> QED BY <1>0, <1>1, <2>1, <2>2
  <1> QED BY <1>3, <1>4, <1>5, <1>6, <1>7, <1>8, <1>9, <1>10, RequestsChange DEF ClientStep

-----------------------------------------------------------------------------
(***************************************************************************)
(* The listing and the pulls                                               *)
(***************************************************************************)
\* A job is read into a listing, handled, forgotten, or left as it was.
LEMMA ListingChanges ==
    ASSUME TypeOK, [Next]_vars, NEW i \in Jobs
    PROVE  \/ /\ TickList
              /\ i \in todo' => seen'[i] = [attempts |-> rows[i].attempts,
                                            local    |-> rows[i].local]
              /\ i \notin todo' => seen'[i] = NotSeen
           \/ i \notin todo' /\ seen'[i] = NotSeen
           \/ (i \in todo' <=> i \in todo) /\ seen'[i] = seen[i]
  <1>1. CASE UNCHANGED <<todo, seen>>
    BY <1>1
  <1>2. CASE TickList
    BY <1>2 DEF TickList
  <1>3. CASE Crash
    BY <1>3 DEF Crash
  <1>4. ASSUME NEW j \in Jobs, TickItem(j)
        PROVE  \/ i \notin todo' /\ seen'[i] = NotSeen
               \/ (i \in todo' <=> i \in todo) /\ seen'[i] = seen[i]
    BY <1>4 DEF TickItem, TickAlreadyLocal, TickSkip, TickStart, Handled, TypeOK
  <1>5. ASSUME NEW j \in Jobs, TorboxCompletes(j) \/ PullStep(j) \/ DownloadStep(j)
        PROVE  UNCHANGED <<todo, seen>>
    BY <1>5 DEF TorboxCompletes, PullStep, LookupFinds, LookupFails, ArchivesOnly,
                FilesFail, FilesResolved, StoreReady, PullAborted, Finish,
                DownloadStep, DownloadWrites, DownloadFails, DownloadDone
  <1>6. ASSUME NEW j \in Jobs, ClientGet(j) \/ ClientStep(j) \/ ClientHangsUp(j)
        PROVE  UNCHANGED <<todo, seen>>
    BY <1>6 DEF ClientGet, ClientStep, ClientHangsUp, ClientDropsEnded, ClientCancels,
                ClientAborts, ClientRemoves, ClientDrops
  <1>7. CASE Tick \/ UNCHANGED vars
    BY <1>7 DEF Tick, vars
  <1> QED BY <1>1, <1>2, <1>3, <1>4, <1>5, <1>6, <1>7 DEF Next

\* A pull starts with the attempts of the listing and keeps them; it never goes
\* back, and it reaches its last statement with the files on the disk.
LEMMA PullsChange ==
    ASSUME TypeOK, [Next]_vars, NEW i \in Jobs
    PROVE  \/ /\ TickStart(i) /\ i \in todo /\ i \notin todo' /\ UNCHANGED rows
              /\ pull'[i].pc = "lookup" /\ pull'[i].attempts = seen[i].attempts
           \/ /\ CanRetry(i)' => CanRetry(i) /\ pull'[i].attempts = pull[i].attempts
              /\ pull'[i].pc = "store" => pull[i].pc = "store" \/ disk[i] = "full"
  <1> DEFINE GoesOn == /\ CanRetry(i)' => CanRetry(i) /\ pull'[i].attempts = pull[i].attempts
                       /\ pull'[i].pc = "store" => pull[i].pc = "store" \/ disk[i] = "full"
  <1>0. pull[i] \in Pull
    BY DEF TypeOK
  <1>1. CASE pull'[i] = pull[i]
    BY <1>1 DEF CanRetry
  <1>2. CASE Crash
    BY <1>2 DEF Crash, NoPull, CanRetry
  <1>3. ASSUME NEW j \in Jobs, TickItem(j), j # i PROVE pull'[i] = pull[i]
    BY <1>3 DEF TypeOK, TickItem, TickAlreadyLocal, TickSkip, TickStart
  <1>4. CASE TickAlreadyLocal(i) \/ TickSkip(i)
    BY <1>1, <1>4 DEF TickAlreadyLocal, TickSkip
  <1>5. CASE TickStart(i)
    BY <1>5 DEF TickStart, Next1, Handled, TypeOK, Seen, NoPull
  <1>6. ASSUME NEW j \in Jobs, PullStep(j) \/ DownloadStep(j), j # i PROVE pull'[i] = pull[i]
    BY <1>6 DEF TypeOK, PullStep, LookupFinds, LookupFails, ArchivesOnly, FilesFail,
                FilesResolved, StoreReady, PullAborted, Finish, Goto,
                DownloadStep, DownloadWrites, DownloadFails, DownloadDone
  <1>7. CASE PullStep(i) \/ DownloadStep(i)
    <2>1. CASE LookupFinds(i)
      BY <2>1, GotoTyped DEF LookupFinds, At, CanRetry
    <2>2. CASE FilesResolved(i)
      BY <1>0, <2>2 DEF FilesResolved, At, CanRetry, TypeOK, Pull
    <2>3. CASE Finish(i)
      BY <2>3 DEF Finish, NoPull, CanRetry, TypeOK
    <2>4. CASE DownloadDone(i)
      BY <2>4, GotoTyped DEF DownloadDone, CanRetry
    <2>5. CASE DownloadWrites(i)
      BY <1>1, <2>5 DEF DownloadWrites
    <2>6. CASE \/ LookupFails(i) \/ ArchivesOnly(i) \/ FilesFail(i) \/ StoreReady(i)
               \/ PullAborted(i) \/ DownloadFails(i)
      <3>1. Goto(i, "ending")
        BY <2>6 DEF LookupFails, ArchivesOnly, FilesFail, StoreReady, PullAborted,
                    DownloadFails
      <3> QED BY <3>1, GotoTyped DEF CanRetry
    <2> QED BY <1>7, <2>1, <2>2, <2>3, <2>4, <2>5, <2>6 DEF PullStep, DownloadStep
  <1>8. ASSUME NEW j \in Jobs, ClientAborts(j) PROVE GoesOn
    <2>1. pull'[i].pc = pull[i].pc /\ pull'[i].attempts = pull[i].attempts
      BY <1>0, <1>8 DEF ClientAborts, TypeOK, Pull
    <2> QED BY <2>1 DEF CanRetry
  <1>9. ASSUME NEW j \in Jobs, ClientGet(j) \/ ClientStep(j) \/ ClientHangsUp(j),
               ~ClientAborts(j)
        PROVE  pull'[i] = pull[i]
    BY <1>9 DEF ClientGet, ClientStep, ClientHangsUp, ClientDropsEnded, ClientCancels,
                ClientRemoves, ClientDrops
  <1>10. ASSUME NEW j \in Jobs, TorboxCompletes(j) PROVE pull'[i] = pull[i]
    BY <1>10 DEF TorboxCompletes
  <1>11. CASE TickList \/ Tick \/ UNCHANGED vars
    BY <1>1, <1>11 DEF TickList, Tick, vars
  <1> QED BY <1>1, <1>2, <1>3, <1>4, <1>5, <1>6, <1>7, <1>8, <1>9, <1>10, <1>11
       DEF Next, TickItem

-----------------------------------------------------------------------------
(***************************************************************************)
(* The files                                                               *)
(***************************************************************************)
\* The files of a job that has not been withdrawn stay complete.
LEMMA FilesStay ==
    ASSUME TypeOK, RequestsHold, [Next]_vars, NEW i \in Jobs,
           ~Withdrawn(i), disk[i] = "full"
    PROVE  disk'[i] = "full"
  <1>1. CASE UNCHANGED disk
    BY <1>1
  <1>2. ASSUME NEW j \in Jobs, DownloadWrites(j) PROVE disk'[i] = "full"
    BY <1>2 DEF DownloadWrites, TypeOK
  <1>3. ASSUME NEW j \in Jobs, ClientRemoves(j) PROVE disk'[i] = "full"
    <2>1. j # i
      BY <1>3 DEF ClientRemoves, RequestsHold
    <2> QED BY <1>3, <2>1 DEF ClientRemoves, TypeOK
  <1>4. ASSUME NEW j \in Jobs, PullStep(j) \/ DownloadFails(j) \/ DownloadDone(j)
        PROVE  UNCHANGED disk
    BY <1>4 DEF PullStep, LookupFinds, LookupFails, ArchivesOnly, FilesFail,
                FilesResolved, StoreReady, PullAborted, Finish, DownloadFails, DownloadDone
  <1>5. ASSUME NEW j \in Jobs, ClientGet(j) \/ ClientStep(j) \/ ClientHangsUp(j),
               ~ClientRemoves(j)
        PROVE  UNCHANGED disk
    BY <1>5 DEF ClientGet, ClientStep, ClientHangsUp, ClientDropsEnded, ClientCancels,
                ClientAborts, ClientDrops
  <1>6. ASSUME NEW j \in Jobs, TorboxCompletes(j) \/ TickItem(j) PROVE UNCHANGED disk
    BY <1>6 DEF TorboxCompletes, TickItem, TickAlreadyLocal, TickSkip, TickStart
  <1>7. CASE TickList \/ Tick \/ Crash \/ UNCHANGED vars
    BY <1>7 DEF TickList, Tick, Crash, vars
  <1> QED BY <1>1, <1>2, <1>3, <1>4, <1>5, <1>6, <1>7 DEF Next, DownloadStep

\* No step takes the files away from a job that claims to have them (puller.go,
\* discard.go).
LEMMA NextFilesHold ==
    ASSUME TypeOK, RequestsHold, FilesHold, [Next]_vars
    PROVE  FilesHold'
  <1> DEFINE Sign(i) == \/ rows[i].state = "READY" \/ rows[i].local
                        \/ seen[i].local \/ pull[i].pc = "store"
  <1> SUFFICES ASSUME NEW i \in Jobs, ~Withdrawn(i)', Sign(i)'
               PROVE  disk'[i] = "full"
    BY DEF FilesHold
  <1>1. ~Withdrawn(i)
    BY WithdrawnStays
  <1>2. Sign(i) => disk[i] = "full"
    BY <1>1 DEF FilesHold
  <1>3. rows'[i].state = "READY" \/ rows'[i].local => Sign(i)
    BY RowsChange DEF OnlyChanges, Kept, SameCore, Changed, Moved, Readied, Counted,
                      Dropped, At
  <1>4. seen'[i].local => Sign(i)
    <2>1. CASE seen'[i] = [attempts |-> rows[i].attempts, local |-> rows[i].local]
      BY <2>1
    <2>2. CASE seen'[i] = NotSeen
      BY <2>2 DEF NotSeen
    <2>3. CASE seen'[i] = seen[i]
      BY <2>3
    <2> QED BY <2>1, <2>2, <2>3, ListingChanges
  <1>5. pull'[i].pc = "store" => Sign(i) \/ disk[i] = "full"
    BY PullsChange
  <1>6. disk[i] = "full"
    BY <1>2, <1>3, <1>4, <1>5
  <1> QED BY <1>1, <1>6, FilesStay

-----------------------------------------------------------------------------
(***************************************************************************)
(* The attempts                                                            *)
(***************************************************************************)
\* No step lets a listing or a pull fall a second attempt behind its row
\* (puller.go Tick, scheduleRetry).
LEMMA NextAttemptsHold ==
    ASSUME TypeOK, AttemptsHold, [Next]_vars
    PROVE  AttemptsHold'
  <1> SUFFICES ASSUME NEW i \in Jobs
               PROVE  /\ rows'[i].attempts <= MaxRetries
                      /\ i \in todo' => rows'[i].attempts <= seen'[i].attempts + 1
                      /\ i \in todo' /\ CanRetry(i)'
                             => rows'[i].attempts <= seen'[i].attempts
                      /\ CanRetry(i)' => rows'[i].attempts <= pull'[i].attempts + 1
    BY DEF AttemptsHold
  <1>1. /\ rows[i].attempts \in Nat /\ seen[i].attempts \in Nat /\ pull[i].attempts \in Nat
        /\ MaxRetries \in Nat
    BY PullerAssumption DEF TypeOK, RowsOK, Row, Seen, Pull
  <1>2. /\ rows[i].attempts <= MaxRetries
        /\ i \in todo => rows[i].attempts <= seen[i].attempts + 1
        /\ i \in todo /\ CanRetry(i) => rows[i].attempts <= seen[i].attempts
        /\ CanRetry(i) => rows[i].attempts <= pull[i].attempts + 1
    BY DEF AttemptsHold
  <1>3. \/ rows'[i].attempts = rows[i].attempts
        \/ rows'[i].attempts = 0
        \/ Counted(i)
    BY RowsChange DEF OnlyChanges, Kept, SameCore, Changed, Moved, Readied, Dropped
  <1>4. Counted(i) => ~CanRetry(i)'
    BY DEF Counted, CanRetry
  <1>5. rows'[i].attempts <= MaxRetries
    BY <1>1, <1>2, <1>3 DEF Counted
  <1>6. CASE TickList
    BY <1>1, <1>2, <1>5, <1>6 DEF TickList, CanRetry
  <1>7. CASE ~TickList
    <2>1. i \in todo' => i \in todo /\ seen'[i] = seen[i]
      BY <1>7, ListingChanges
    <2>2. CASE TickStart(i) /\ i \in todo /\ i \notin todo' /\ UNCHANGED rows
               /\ pull'[i].attempts = seen[i].attempts
      BY <1>1, <1>2, <1>5, <2>2
    <2>3. CASE CanRetry(i)' => CanRetry(i) /\ pull'[i].attempts = pull[i].attempts
      BY <1>1, <1>2, <1>3, <1>4, <1>5, <2>1, <2>3 DEF Counted
    <2> QED BY <2>2, <2>3, PullsChange
  <1> QED BY <1>6, <1>7

-----------------------------------------------------------------------------
(***************************************************************************)
(* The theorems                                                            *)
(***************************************************************************)
\* The invariant holds of the table an earlier run leaves behind.
LEMMA InitInductive == Init => IInv
  <1> SUFFICES ASSUME Init, NEW j \in Jobs
               PROVE  /\ client[j] = NoRequest /\ pull[j] = NoPull /\ j \notin todo
                      /\ rows[j].attempts <= MaxRetries
                      /\ ~Withdrawn(j) /\ rows[j].state # "READY"
                      /\ seen[j] = NotSeen
                      /\ rows[j].local => disk[j] = "full"
    BY DEF IInv, RequestsHold, FilesHold, AttemptsHold, CanRetry, NoRequest, NoPull, NotSeen
  <1>1. PICK s \in {"DOWNLOADING", "COMPLETED_TORBOX"}, l \in BOOLEAN : rows[j] \in RowsIn(s, l)
    BY DEF Init, InitialRows
  <1>2. PICK n \in 0..MaxRetries - 1 :
            rows[j] = [NoRow EXCEPT !.state = s, !.attempts = n, !.local = l, !.id = "active"]
    BY <1>1 DEF RowsIn
  <1>3. rows[j].state = s /\ rows[j].attempts = n
    BY <1>2 DEF NoRow
  <1>4. n <= MaxRetries
    BY PullerAssumption
  <1> QED BY <1>3, <1>4 DEF Init, Withdrawn

\* Every step keeps the invariant.
LEMMA NextInductive == TypeOK /\ IInv /\ [Next]_vars => IInv'
  BY NextRequestsHold, NextFilesHold, NextAttemptsHold DEF IInv

\* Rows, listing, pulls, requests and disk agree at every step of every run
\* (puller.go, queue.go, discard.go).
THEOREM Inductive == Spec => []IInv
  BY InitInductive, NextInductive, TypeCorrect, PTL DEF Spec

\* However the attempts of a listing fall behind, no job is tried more often
\* than the budget allows (puller.go scheduleRetry).
THEOREM RetriesBounded == Spec => []RetryBudget
  <1>1. IInv => RetryBudget
    BY DEF IInv, AttemptsHold, RetryBudget
  <1> QED BY <1>1, Inductive, PTL

\* Sonarr never sees READY without the files, for any number of jobs, pulls,
\* requests and crashes (puller.go, discard.go).
THEOREM ReadyMeansComplete == Spec => []ReadyIsComplete
  <1>1. IInv => ReadyIsComplete
    BY DEF IInv, FilesHold, ReadyIsComplete, Withdrawn
  <1> QED BY <1>1, Inductive, PTL

-----------------------------------------------------------------------------
\* Every step moves one job along the table, drops an ended one, or changes no
\* state (state.go CanTransition).
LEMMA NextRefines ==
    TypeOK /\ TypeOK' /\ IInv /\ [Next]_vars => [LC!Next]_[j \in Jobs |-> rows[j].state]
  <1> SUFFICES ASSUME TypeOK, TypeOK', IInv, [Next]_vars
               PROVE  [LC!Next]_[j \in Jobs |-> rows[j].state]
    OBVIOUS
  <1>1. CASE \A i \in Jobs : Kept(i)
    BY <1>1 DEF Kept, SameCore
  <1>2. ASSUME NEW j \in Jobs, OnlyChanges(j)
        PROVE  [LC!Next]_[i \in Jobs |-> rows[i].state]
    <2>1. \A i \in Jobs \ {j} : rows'[i].state = rows[i].state
      BY <1>2 DEF OnlyChanges, Kept, SameCore
    <2>2. CASE Kept(j) \/ Counted(j)
      BY <2>1, <2>2, MoveRefines DEF Kept, Counted, SameCore
    <2>3. CASE Moved(j) \/ Readied(j)
      <3>1. CanTransition(rows[j].state, rows'[j].state)
        BY <2>3 DEF Moved, Readied, CanTransition, Successors
      <3> QED BY <2>1, <3>1, MoveRefines
    <2>4. CASE Dropped(j)
      <3>1. rows[j].state \in Terminal \cup {"NONE"} /\ rows'[j].state = "NONE"
        BY <2>4 DEF Dropped, IInv, RequestsHold, Withdrawn, Terminal
      <3>2. CASE rows[j].state = "NONE"
        BY <2>1, <3>1, <3>2, MoveRefines
      <3>3. CASE rows[j].state \in Terminal
        BY <2>1, <3>1, <3>3, DropRefines
      <3> QED BY <3>1, <3>2, <3>3
    <2> QED BY <1>2, <2>2, <2>3, <2>4 DEF OnlyChanges, Changed
  <1> QED BY <1>1, <1>2, RowsChange

\* Puller implements Lifecycle: whatever the loop, the pulls, the requests and
\* the crashes do, each row moves along the table of state.go, ended jobs stay
\* ended, and only ended jobs are dropped.
THEOREM ImplementsLifecycle == Spec => RefinesLifecycle
  <1>1. Spec => Init /\ [][Next]_vars
    BY PTL DEF Spec
  <1>2. Init => LC!Init
    BY InitTyped, RowsStart DEF TypeOK
  <1> QED BY <1>1, <1>2, NextRefines, TypeCorrect, Inductive, PTL DEF RefinesLifecycle, LC!Spec
=============================================================================
