-------------------------- MODULE SubmitterProofs --------------------------
(***************************************************************************)
(* Theorems about Submitter for every set of jobs, every size of the pool, *)
(* every number of attempts, lost replies and crashes.                     *)
(***************************************************************************)
EXTENDS Submitter, Limiter, JobStoreProofs

Sub == [pc : {"none", "create", "accepted"}, attempts : Nat,
        id : {"none", "queue", "active"}]

\* What the row of a job, its goroutine and the entries TorBox holds for it
\* tell of each other.
JobHolds(j) ==
    /\ sub[j].pc # "none" => rows[j].state \in {"NEW", "CANCELED"}
    /\ rows[j].state = "NEW" =>
          /\ rows[j].attempts < MaxSubmitAttempts
          /\ sub[j].pc # "none" => sub[j].attempts = rows[j].attempts
          /\ sub[j].pc = "none" => created[j] <= lost[j]
          /\ rows[j].lease > 0 /\ sub[j].pc = "none" => crashes > 0
    /\ rows[j].state = "SUBMITTED" => created[j] > 0 \/ j \in Foreign
    /\ rows[j].state = "FAILED" => rows[j].attempts = MaxSubmitAttempts \/ j \in Empty
    /\ created[j] <= 1 + lost[j]
    /\ sub[j].pc = "create" => created[j] <= lost[j]
    /\ sub[j].pc = "accepted" => created[j] > 0 \/ j \in Foreign

IInv == \A j \in Jobs : JobHolds(j)

-----------------------------------------------------------------------------
(***************************************************************************)
(* Types                                                                   *)
(***************************************************************************)
\* The types of one job's share of the variables.
LEMMA JobTyped ==
    ASSUME TypeOK, NEW j \in Jobs
    PROVE  /\ RowsOK /\ rows[j] \in Row /\ rows[j].attempts \in Nat /\ rows[j].lease \in Nat
           /\ sub \in [Jobs -> Sub] /\ sub[j] \in Sub /\ sub[j].attempts \in Nat
           /\ created \in [Jobs -> Nat] /\ created[j] \in Nat
           /\ lost \in [Jobs -> Nat] /\ lost[j] \in Nat
           /\ crashes \in Nat
           /\ MaxSubmitAttempts \in Nat \ {0}
  BY SubmitterAssumption DEF TypeOK, RowsOK, Row, Sub

\* A failed create fails a job whose attempts are spent, and counts an attempt
\* on any other (submitter.go handleSubmitFailure).
LEMMA HandleFailureMoves ==
    ASSUME TypeOK, NEW j \in Jobs
    PROVE  LET rs == HandleFailure(j) IN
           /\ rs \in [Jobs -> Row]
           /\ MovesOn(j, rs)
           /\ \/ rs = rows /\ rows[j].state # "NEW"
              \/ /\ rows[j].state = "NEW" /\ rs[j].state = "FAILED"
                 /\ rs[j].attempts = rows[j].attempts + 1
                 /\ sub[j].attempts + 1 >= MaxSubmitAttempts
              \/ /\ rs[j].state = rows[j].state
                 /\ rs[j].attempts \in {rows[j].attempts, rows[j].attempts + 1}
                 /\ Exists(j) => rs[j].lease = 0
                 /\ sub[j].attempts + 1 < MaxSubmitAttempts
  <1>0. RowsOK /\ rows[j] \in Row /\ sub[j].attempts \in Nat /\ MaxSubmitAttempts \in Nat
    BY JobTyped
  <1>1. CASE sub[j].attempts + 1 >= MaxSubmitAttempts
    <2> DEFINE r == [rows[j] EXCEPT !.lease = 0, !.attempts = @ + 1]
    <2>1. r \in Row /\ r.attempts = rows[j].attempts + 1
      <3>1. rows[j].attempts + 1 \in Nat
        BY <1>0 DEF Row
      <3> QED BY <1>0, <3>1 DEF Row
    <2>2. HandleFailure(j) = Transition(j, "NEW", "FAILED", r)
      BY <1>1 DEF HandleFailure
    <2>3. "FAILED" \in JobStates
      BY DEF JobStates, Terminal
    <2>4. Applies(j, "NEW", "FAILED") <=> rows[j].state = "NEW"
      BY DEF Applies, CanTransition, Successors
    <2> HIDE DEF r
    <2>5. CASE rows[j].state = "NEW"
      BY <1>0, <1>1, <2>1, <2>2, <2>3, <2>4, <2>5, TransitionMoves
    <2>6. CASE rows[j].state # "NEW"
      BY <1>0, <2>1, <2>2, <2>3, <2>4, <2>6, TransitionMoves
    <2> QED BY <2>5, <2>6
  <1>2. CASE ~(sub[j].attempts + 1 >= MaxSubmitAttempts)
    <2>1. HandleFailure(j) = AttemptFailure(j, BackoffTicks)
      BY <1>2 DEF HandleFailure
    <2>2. sub[j].attempts + 1 < MaxSubmitAttempts /\ BackoffTicks \in Nat
      BY <1>0, <1>2, SubmitterAssumption
    <2>3. LET rs == AttemptFailure(j, BackoffTicks) IN
          /\ rs \in [Jobs -> Row]
          /\ \A i \in Jobs \ {j} : rs[i] = rows[i]
          /\ rs[j].state = rows[j].state
          /\ rs[j].attempts \in {rows[j].attempts, rows[j].attempts + 1}
          /\ Exists(j) => rs[j].lease = 0
      BY <1>0, <2>2, AttemptFailureCounts
    <2> QED BY <2>1, <2>2, <2>3 DEF MovesOn
  <1> QED BY <1>1, <1>2

\* The row, the goroutine and the entries of every other job are the same.
OnlyJob(j) ==
    /\ \A i \in Jobs \ {j} : /\ rows'[i] = rows[i] /\ sub'[i] = sub[i]
                             /\ created'[i] = created[i] /\ lost'[i] = lost[i]
    /\ crashes' = crashes

\* A goroutine that returns is idle.
LEMMA ReturnTyped ==
    ASSUME TypeOK, NEW j \in Jobs, Return(j)
    PROVE  /\ sub' \in [Jobs -> Sub] /\ sub'[j].pc = "none"
           /\ \A i \in Jobs \ {j} : sub'[i] = sub[i]
  <1>1. Idle \in Sub /\ Idle.pc = "none"
    BY DEF Idle, Sub
  <1> QED BY <1>1, JobTyped DEF Return

\* The parts of TypeOK, under the primes.
LEMMA TypedParts ==
    ASSUME rows' \in [Jobs -> Row], sub' \in [Jobs -> Sub], created' \in [Jobs -> Nat],
           lost' \in [Jobs -> Nat], crashes' \in 0..MaxCrashes
    PROVE  TypeOK'
  BY DEF TypeOK, RowsOK, Sub

\* A step of TorBox moves the goroutine of the job on and touches no row.
LEMMA TorboxStepHolds ==
    ASSUME TypeOK, NEW j \in Jobs, JobHolds(j), TorboxAccepts(j) \/ TorboxDuplicate(j)
    PROVE  TypeOK' /\ OnlyJob(j) /\ JobHolds(j)' /\ UNCHANGED rows
  <1>0. /\ RowsOK /\ rows[j] \in Row /\ sub \in [Jobs -> Sub] /\ sub[j] \in Sub
        /\ created \in [Jobs -> Nat] /\ created[j] \in Nat
        /\ lost \in [Jobs -> Nat] /\ lost[j] \in Nat
        /\ crashes \in 0..MaxCrashes
    BY JobTyped DEF TypeOK
  <1>1. sub[j].pc = "create"
    BY DEF TorboxAccepts, TorboxDuplicate
  <1>2. /\ sub' \in [Jobs -> Sub]
        /\ sub'[j].pc = "accepted" /\ sub'[j].attempts = sub[j].attempts
        /\ \A i \in Jobs \ {j} : sub'[i] = sub[i]
    BY <1>0 DEF TorboxAccepts, TorboxDuplicate, Sub
  <1>3. /\ created' \in [Jobs -> Nat]
        /\ created'[j] \in {created[j], created[j] + 1}
        /\ created'[j] > 0 \/ j \in Foreign
        /\ \A i \in Jobs \ {j} : created'[i] = created[i]
    <2>1. CASE TorboxAccepts(j)
      BY <1>0, <2>1 DEF TorboxAccepts
    <2>2. CASE TorboxDuplicate(j)
      BY <1>0, <2>2 DEF TorboxDuplicate
    <2> QED BY <2>1, <2>2
  <1>4. UNCHANGED <<rows, lost, crashes>>
    BY DEF TorboxAccepts, TorboxDuplicate
  <1>5. TypeOK'
    BY <1>0, <1>2, <1>3, <1>4, TypedParts DEF RowsOK
  <1>6. OnlyJob(j)
    BY <1>2, <1>3, <1>4 DEF OnlyJob
  <1>7. JobHolds(j)'
    BY <1>0, <1>1, <1>2, <1>3, <1>4 DEF JobHolds
  <1> QED BY <1>4, <1>5, <1>6, <1>7

\* An ending of a goroutine, and a cancel, change one row along the table and
\* leave its job in order (submitter.go submitOne).
LEMMA RowStepHolds ==
    ASSUME TypeOK, NEW j \in Jobs, JobHolds(j), SubmitStep(j) \/ ReplyLost(j) \/ Cancel(j)
    PROVE  TypeOK' /\ OnlyJob(j) /\ JobHolds(j)' /\ MovesOn(j, rows')
  <1>0. /\ RowsOK /\ rows[j] \in Row /\ sub \in [Jobs -> Sub] /\ sub[j] \in Sub
        /\ created \in [Jobs -> Nat] /\ created[j] \in Nat
        /\ lost \in [Jobs -> Nat] /\ lost[j] \in Nat
        /\ crashes \in 0..MaxCrashes /\ crashes \in Nat
        /\ rows[j].attempts \in Nat /\ rows[j].lease \in Nat /\ sub[j].attempts \in Nat
        /\ MaxSubmitAttempts \in Nat \ {0}
    BY JobTyped DEF TypeOK
  <1>1. {"SUBMITTED", "FAILED", "CANCELED"} \subseteq JobStates
    BY DEF JobStates, ActiveStates, Terminal
  <1>2. \A to \in {"SUBMITTED", "FAILED"} : Applies(j, "NEW", to) <=> rows[j].state = "NEW"
    BY DEF Applies, CanTransition, Successors
  <1> DEFINE r == [rows[j] EXCEPT !.lease = 0]
             s == [rows[j] EXCEPT !.lease = 0, !.id = sub[j].id]
  <1>3. r \in Row /\ s \in Row /\ r.attempts = rows[j].attempts
    BY <1>0 DEF Row, Sub
  <1> HIDE DEF r, s
  <1>4. CASE SubmitEmpty(j)
    <2>1. rows' = Transition(j, "NEW", "FAILED", r) /\ j \in Empty /\ sub[j].pc = "create"
      BY <1>4 DEF SubmitEmpty, r
    <2>2. /\ rows' \in [Jobs -> Row] /\ MovesOn(j, rows')
          /\ rows[j].state = "NEW" => rows'[j].state = "FAILED"
          /\ rows[j].state # "NEW" => rows' = rows
      BY <1>0, <1>1, <1>2, <1>3, <2>1, TransitionMoves
    <2>3. /\ sub' \in [Jobs -> Sub] /\ sub'[j].pc = "none"
          /\ \A i \in Jobs \ {j} : sub'[i] = sub[i]
          /\ UNCHANGED <<created, lost, crashes>>
      BY <1>4, ReturnTyped DEF SubmitEmpty
    <2>4. JobHolds(j)'
      BY <1>0, <2>1, <2>2, <2>3 DEF JobHolds
    <2> QED BY <1>0, <2>2, <2>3, <2>4, TypedParts DEF OnlyJob, MovesOn
  <1>5. CASE Submitted(j)
    <2>1. sub[j].pc = "accepted"
      BY <1>5 DEF Submitted
    <2>2. /\ rows' \in [Jobs -> Row] /\ MovesOn(j, rows')
          /\ rows[j].state = "NEW" => rows'[j].state = "SUBMITTED"
          /\ rows[j].state # "NEW" => /\ rows'[j].state = rows[j].state
                                      /\ rows'[j].attempts = rows[j].attempts
      <3>1. CASE rows[j].state = "NEW"
        <4>1. rows' = Transition(j, "NEW", "SUBMITTED", s)
          BY <1>2, <1>5, <3>1 DEF Submitted, s
        <4> QED BY <1>0, <1>1, <1>2, <1>3, <3>1, <4>1, TransitionMoves
      <3>2. CASE rows[j].state # "NEW"
        <4>1. rows' = Release(j)
          BY <1>2, <1>5, <3>2 DEF Submitted
        <4> QED BY <1>0, <3>2, <4>1, ReleaseKeeps DEF SameCore, MovesOn
      <3> QED BY <3>1, <3>2
    <2>3. /\ sub' \in [Jobs -> Sub] /\ sub'[j].pc = "none"
          /\ \A i \in Jobs \ {j} : sub'[i] = sub[i]
          /\ UNCHANGED <<created, lost, crashes>>
      BY <1>5, ReturnTyped DEF Submitted
    <2>4. JobHolds(j)'
      BY <1>0, <2>1, <2>2, <2>3 DEF JobHolds
    <2> QED BY <1>0, <2>2, <2>3, <2>4, TypedParts DEF OnlyJob, MovesOn
  <1>6. CASE SubmitLimited(j)
    <2>1. rows' = Reschedule(j, LimitTicks) /\ LimitTicks \in Nat /\ sub[j].pc = "create"
      BY <1>6, SubmitterAssumption DEF SubmitLimited
    <2>2. /\ rows' \in [Jobs -> Row] /\ MovesOn(j, rows')
          /\ rows'[j].state = rows[j].state /\ rows'[j].attempts = rows[j].attempts
          /\ Exists(j) => rows'[j].lease = 0
      BY <1>0, <2>1, RescheduleKeeps DEF SameCore, MovesOn
    <2>3. /\ sub' \in [Jobs -> Sub] /\ sub'[j].pc = "none"
          /\ \A i \in Jobs \ {j} : sub'[i] = sub[i]
          /\ UNCHANGED <<created, lost, crashes>>
      BY <1>6, ReturnTyped DEF SubmitLimited
    <2>4. JobHolds(j)'
      BY <1>0, <2>1, <2>2, <2>3 DEF JobHolds, Exists
    <2> QED BY <1>0, <2>2, <2>3, <2>4, TypedParts DEF OnlyJob, MovesOn
  <1>7. CASE SubmitFails(j) \/ ReplyLost(j)
    <2>1. rows' = HandleFailure(j) /\ sub[j].pc \in {"create", "accepted"} /\ Return(j)
      BY <1>7 DEF SubmitFails, ReplyLost
    <2>2. /\ rows' \in [Jobs -> Row] /\ MovesOn(j, rows')
          /\ \/ rows' = rows /\ rows[j].state # "NEW"
             \/ /\ rows[j].state = "NEW" /\ rows'[j].state = "FAILED"
                /\ rows'[j].attempts = rows[j].attempts + 1
                /\ sub[j].attempts + 1 >= MaxSubmitAttempts
             \/ /\ rows'[j].state = rows[j].state
                /\ rows'[j].attempts \in {rows[j].attempts, rows[j].attempts + 1}
                /\ Exists(j) => rows'[j].lease = 0
                /\ sub[j].attempts + 1 < MaxSubmitAttempts
      BY <2>1, HandleFailureMoves
    <2>3. /\ sub' \in [Jobs -> Sub] /\ sub'[j].pc = "none"
          /\ \A i \in Jobs \ {j} : sub'[i] = sub[i]
      BY <2>1, ReturnTyped
    <2>4. /\ lost' \in [Jobs -> Nat] /\ lost'[j] >= lost[j]
          /\ sub[j].pc = "accepted" => lost'[j] >= lost[j] + 1
          /\ \A i \in Jobs \ {j} : lost'[i] = lost[i]
          /\ UNCHANGED <<created, crashes>>
      BY <1>0, <1>7 DEF SubmitFails, ReplyLost
    <2>5. JobHolds(j)'
      BY <1>0, <2>1, <2>2, <2>3, <2>4 DEF JobHolds, Exists
    <2> QED BY <1>0, <2>2, <2>3, <2>4, <2>5, TypedParts DEF OnlyJob, MovesOn
  <1>8. CASE Cancel(j)
    <2>1. CanTransition(rows[j].state, "CANCELED")
      BY <1>8 DEF Cancel, CanTransition, Successors, ActiveStates
    <2>2. rows' \in [Jobs -> Row] /\ MovesOn(j, rows') /\ rows'[j].state = "CANCELED"
      BY <1>0, <1>1, <1>8, <2>1, TransitionMoves DEF Cancel, Applies
    <2>3. UNCHANGED <<sub, created, lost, crashes>>
      BY <1>8 DEF Cancel
    <2>4. JobHolds(j)'
      BY <1>0, <2>2, <2>3 DEF JobHolds
    <2> QED BY <1>0, <2>2, <2>3, <2>4, TypedParts DEF OnlyJob, MovesOn
  <1> QED BY <1>4, <1>5, <1>6, <1>7, <1>8 DEF SubmitStep

\* A new batch goes by the attempts of its rows, and finds no goroutine at work
\* (submitter.go dispatchOnce, jobs.go Claim).
LEMMA DispatchHolds ==
    ASSUME TypeOK, IInv, Dispatch
    PROVE  TypeOK' /\ IInv' /\ \A i \in Jobs : SameCore(rows'[i], rows[i])
  <1> DEFINE batch == Oldest(Claimable, PoolSize)
  <1>0. RowsOK /\ sub \in [Jobs -> Sub]
    BY DEF TypeOK, Sub
  <1>1. batch \in SUBSET Jobs /\ \A i \in batch : rows[i].state = "NEW"
    BY DEF Oldest, Claimable, DueIn
  <1>2. rows' = Claim(batch) /\ UNCHANGED <<created, lost, crashes>>
    BY DEF Dispatch
  <1>3. sub' = [i \in Jobs |->
            IF i \in batch THEN [Idle EXCEPT !.pc = "create", !.attempts = rows[i].attempts]
            ELSE Idle]
    BY DEF Dispatch
  <1>4. \A i \in Jobs : sub[i].pc = "none"
    BY DEF Dispatch, CanDispatch
  <1> HIDE DEF batch
  <1>5. /\ rows' \in [Jobs -> Row]
        /\ \A i \in Jobs : SameCore(rows'[i], rows[i])
        /\ \A i \in Jobs \ batch : rows'[i] = rows[i]
    BY <1>0, <1>1, <1>2, ClaimLeases
  <1>6. \A i \in Jobs :
            /\ i \in batch => sub'[i].pc = "create" /\ sub'[i].attempts = rows[i].attempts
            /\ i \notin batch => sub'[i].pc = "none"
    BY <1>3 DEF Idle
  <1>7. sub' \in [Jobs -> Sub]
    BY <1>0, <1>3 DEF RowsOK, Row, Idle, Sub
  <1>8. TypeOK'
    BY <1>2, <1>5, <1>7, TypedParts DEF TypeOK
  <1>9. ASSUME NEW i \in Jobs PROVE JobHolds(i)'
    <2>1. JobHolds(i) /\ rows'[i].state = rows[i].state /\ rows'[i].attempts = rows[i].attempts
      BY <1>5 DEF IInv, SameCore
    <2>2. CASE i \in batch
      BY <1>1, <1>2, <1>4, <1>6, <2>1, <2>2 DEF JobHolds
    <2>3. CASE i \notin batch
      BY <1>2, <1>4, <1>5, <1>6, <2>1, <2>3 DEF JobHolds
    <2> QED BY <2>2, <2>3
  <1> QED BY <1>5, <1>8, <1>9 DEF IInv

\* Time wears leases off and touches nothing else the invariant speaks of.
LEMMA TickHolds ==
    ASSUME TypeOK, IInv, Tick
    PROVE  TypeOK' /\ IInv' /\ \A i \in Jobs : SameCore(rows'[i], rows[i])
  <1>1. /\ rows' \in [Jobs -> Row]
        /\ \A i \in Jobs : SameCore(rows'[i], rows[i]) /\ rows'[i].lease <= rows[i].lease
        /\ UNCHANGED <<sub, created, lost, crashes>>
    BY AgedRowsKeep DEF Tick, TypeOK
  <1>2. TypeOK'
    BY <1>1 DEF TypeOK, RowsOK
  <1>3. ASSUME NEW i \in Jobs PROVE JobHolds(i)'
    <2>1. rows[i].lease \in Nat /\ rows'[i].lease \in Nat
      BY <1>1 DEF TypeOK, RowsOK, Row
    <2> QED BY <1>1, <2>1 DEF IInv, JobHolds, SameCore
  <1> QED BY <1>1, <1>2, <1>3 DEF IInv

\* A crash turns each reply on its way into a lost one, and leaves the claims
\* to their leases.
LEMMA CrashHolds ==
    ASSUME TypeOK, IInv, Crash
    PROVE  TypeOK' /\ IInv' /\ UNCHANGED rows
  <1>1. /\ UNCHANGED <<rows, created>> /\ crashes' \in 0..MaxCrashes /\ crashes' > 0
        /\ \A i \in Jobs : sub'[i].pc = "none"
        /\ sub' \in [Jobs -> Sub]
    BY SubmitterAssumption DEF Crash, TypeOK, Idle, Sub
  <1>2. /\ lost' \in [Jobs -> Nat]
        /\ \A i \in Jobs : lost'[i] = lost[i] + IF sub[i].pc = "accepted" THEN 1 ELSE 0
    BY DEF Crash, TypeOK
  <1>3. TypeOK'
    BY <1>1, <1>2, TypedParts DEF TypeOK, RowsOK
  <1>4. ASSUME NEW i \in Jobs PROVE JobHolds(i)'
    <2>1. sub[i].pc \in {"none", "create", "accepted"} /\ created[i] \in Nat /\ lost[i] \in Nat
      BY JobTyped DEF Sub
    <2> QED BY <1>1, <1>2, <2>1 DEF IInv, JobHolds
  <1> QED BY <1>1, <1>3, <1>4 DEF IInv

-----------------------------------------------------------------------------
(***************************************************************************)
(* Steps                                                                   *)
(***************************************************************************)
\* What the jobs a step is not about look like does not matter to them.
LEMMA OthersHold ==
    ASSUME IInv, NEW j \in Jobs, OnlyJob(j), JobHolds(j)'
    PROVE  IInv'
  BY DEF IInv, OnlyJob, JobHolds

\* Every step keeps types and invariant, and changes the state of at most one
\* row, along the table.
LEMMA StepHolds ==
    ASSUME TypeOK, IInv, [Next]_vars
    PROVE  /\ TypeOK' /\ IInv'
           /\ \/ \A i \in Jobs : rows'[i].state = rows[i].state
              \/ \E j \in Jobs : MovesOn(j, rows')
  <1>1. CASE UNCHANGED vars
    BY <1>1 DEF vars, TypeOK, RowsOK, IInv, JobHolds
  <1>2. CASE Dispatch
    BY <1>2, DispatchHolds DEF SameCore
  <1>3. CASE Tick
    BY <1>3, TickHolds DEF SameCore
  <1>4. CASE Crash
    BY <1>4, CrashHolds
  <1>5. ASSUME NEW j \in Jobs, TorboxAccepts(j) \/ TorboxDuplicate(j)
        PROVE  TypeOK' /\ IInv' /\ UNCHANGED rows
    <2>1. JobHolds(j)
      BY DEF IInv
    <2>2. TypeOK' /\ OnlyJob(j) /\ JobHolds(j)' /\ UNCHANGED rows
      BY <1>5, <2>1, TorboxStepHolds
    <2> QED BY <2>2, OthersHold
  <1>6. ASSUME NEW j \in Jobs, SubmitStep(j) \/ ReplyLost(j) \/ Cancel(j)
        PROVE  TypeOK' /\ IInv' /\ MovesOn(j, rows')
    <2>1. JobHolds(j)
      BY DEF IInv
    <2>2. TypeOK' /\ OnlyJob(j) /\ JobHolds(j)' /\ MovesOn(j, rows')
      BY <1>6, <2>1, RowStepHolds
    <2> QED BY <2>2, OthersHold
  <1> QED BY <1>1, <1>2, <1>3, <1>4, <1>5, <1>6 DEF Next

\* A start with NEW jobs only is typed and in order.
LEMMA InitHolds == Init => TypeOK /\ IInv
  <1> SUFFICES ASSUME Init PROVE TypeOK /\ IInv
    OBVIOUS
  <1>1. [NoRow EXCEPT !.state = "NEW"] \in Row
    BY DEF NoRow, Row, JobStates, ActiveStates
  <1>2. TypeOK
    BY <1>1, SubmitterAssumption DEF Init, TypeOK, RowsOK, Idle
  <1>3. IInv
    BY SubmitterAssumption DEF Init, IInv, JobHolds, NoRow, Idle
  <1> QED BY <1>2, <1>3

-----------------------------------------------------------------------------
(***************************************************************************)
(* The theorems                                                            *)
(***************************************************************************)
\* Rows, goroutines and TorBox's entries agree at every step of every run
\* (submitter.go).
THEOREM Inductive == Spec => [](TypeOK /\ IInv)
  <1>1. TypeOK /\ IInv /\ [Next]_vars => (TypeOK /\ IInv)'
    BY StepHolds
  <1> QED BY <1>1, InitHolds, PTL DEF Spec

\* Whatever the parameters, no dispatch, call, cancel, tick or crash takes a
\* variable out of its type (submitter.go).
THEOREM TypeCorrect == Spec => []TypeOK
  BY Inductive, PTL

\* The attempts a goroutine counts on are the row's, and a NEW job has one left
\* (submitter.go handleSubmitFailure).
THEOREM AttemptsAreCurrent == Spec => []SubmitBudget
  <1>1. IInv => SubmitBudget
    BY DEF IInv, JobHolds, SubmitBudget
  <1> QED BY <1>1, Inductive, PTL

\* For any number of jobs, workers, refusals and crashes, TorBox opens at most
\* one entry of a job more than replies of that job were lost (submitter.go
\* submitOne, jobs.go Claim).
THEOREM OneEntryPerReply == Spec => []DuplicatesNeedALostReply
  <1>1. IInv => DuplicatesNeedALostReply
    BY DEF IInv, JobHolds, DuplicatesNeedALostReply
  <1> QED BY <1>1, Inductive, PTL

\* SUBMITTED means that TorBox has the job, FAILED that its attempts are spent
\* or that it had nothing to send (submitter.go submitOne).
THEOREM OutcomesAreTrue == Spec => []OutcomeIsTrue
  <1>1. IInv => OutcomeIsTrue
    BY DEF IInv, JobHolds, OutcomeIsTrue
  <1> QED BY <1>1, Inductive, PTL

\* Only a crash leaves a claim without a goroutine (submitter.go, jobs.go
\* Release, Reschedule, AttemptFailure).
THEOREM ClaimsHaveWorkers == Spec => []ClaimsAreWorked
  <1>1. IInv => ClaimsAreWorked
    BY DEF IInv, JobHolds, ClaimsAreWorked
  <1> QED BY <1>1, Inductive, PTL

-----------------------------------------------------------------------------
\* Submitter implements Lifecycle: no claim, reply, failure, cancel or crash
\* moves a row against the table of state.go.
THEOREM ImplementsLifecycle == Spec => RefinesLifecycle
  <1>1. Spec => Init /\ [][Next]_vars
    BY PTL DEF Spec
  <1>2. Init => LC!Init
    BY InitHolds, RowsStart DEF TypeOK
  <1>3. TypeOK /\ IInv /\ [Next]_vars => [LC!Next]_[j \in Jobs |-> rows[j].state]
    BY StepHolds, MoveRefines DEF MovesOn
  <1> QED BY <1>1, <1>2, <1>3, Inductive, PTL DEF RefinesLifecycle, LC!Spec

-----------------------------------------------------------------------------
(***************************************************************************)
(* The limiter its creates pass (client.go waitCreate), for every rate,    *)
(* hour, number of callers and number of restarts.                         *)
(***************************************************************************)
\* The products below are of two unknowns; these are all the prover needs to
\* know of them.
LEMMA OneMore == \A a, b \in Int : (a + 1) * b = a * b + b
  BY SMT

LEMMA OneLess == \A a, b \in Int : (a - 1) * b = a * b - b
  BY SMT

LEMMA ProductIsInt == \A a, b \in Int : a * b \in Int
  BY SMT

\* A tick pays PerHour at most, and never past the burst.
LEMMA RefillPays ==
  ASSUME tokens \in Int
  PROVE  /\ Refill \in Int /\ Refill <= Full
         /\ Refill >= tokens \/ Refill = Full
         /\ Refill <= tokens + PerHour
  <1>1. PerHour \in Nat /\ Full \in Int
    BY LimiterAssumption, ProductIsInt DEF Full
  <1> QED
    BY <1>1 DEF Refill

\* The limiter's variables stay in their types: never over the burst, and on
\* credit for the waiting calls at most (client.go waitCreate).
THEOREM BucketTypeCorrect == LimiterSpec => []LimiterTypeOK
<1>0. /\ PerHour \in Nat \ {0} /\ Hour \in Nat \ {0} /\ Callers \in Nat \ {0}
      /\ MaxRestarts \in Nat /\ Full \in Nat
  BY LimiterAssumption DEF Full
<1>1. LimiterInit => LimiterTypeOK
  BY <1>0 DEF LimiterInit, LimiterTypeOK, Back
<1>2. LimiterTypeOK /\ [LimiterNext]_limiterVars => LimiterTypeOK'
  <2> SUFFICES ASSUME LimiterTypeOK, [LimiterNext]_limiterVars PROVE LimiterTypeOK'
    OBVIOUS
  <2>0. /\ tokens \in Int /\ pending \in Int /\ pending * Hour \in Int
        /\ \A k \in Back : k # 0 => k - 1 \in Back
    BY <1>0, ProductIsInt DEF LimiterTypeOK, Back
  <2>1. CASE WaitCreate
    <3>1. (pending + 1) * Hour = pending * Hour + Hour
      BY <1>0, <2>0, OneMore
    <3> QED
      BY <1>0, <2>0, <2>1, <3>1 DEF LimiterTypeOK, WaitCreate
  <2>2. CASE Create
    <3>1. made' \in [Back -> Nat]
      BY <2>2 DEF LimiterTypeOK, Create
    <3> QED
      BY <1>0, <2>0, <2>2, <3>1 DEF LimiterTypeOK, Create
  <2>3. CASE RefillTick
    <3>1. made' \in [Back -> Nat] /\ boots' \in [Back -> Nat]
      BY <2>0, <2>3 DEF LimiterTypeOK, RefillTick, Shifted
    <3>2. pending * Hour >= 0
      BY <1>0 DEF LimiterTypeOK
    <3> QED
      BY <1>0, <2>0, <2>3, <3>1, <3>2, RefillPays DEF LimiterTypeOK, RefillTick
  <2>4. CASE Restart
    <3>1. boots' \in [Back -> Nat]
      BY <2>4 DEF LimiterTypeOK, Restart
    <3>2. 0 * Hour = 0
      BY <1>0
    <3> QED
      BY <1>0, <2>4, <3>1, <3>2 DEF LimiterTypeOK, Restart
  <2>5. CASE UNCHANGED limiterVars
    BY <2>5 DEF LimiterTypeOK, limiterVars
  <2> QED
    BY <2>1, <2>2, <2>3, <2>4, <2>5 DEF LimiterNext
<1> QED
  BY <1>1, <1>2, PTL DEF LimiterSpec

\* What TorBox has seen, what is on its way and what is left in the bucket
\* never exceed what bucket, refill, restarts and pool can have given.
THEOREM BucketAlwaysHolds == LimiterSpec => []BucketHolds
<1>0. /\ PerHour \in Nat \ {0} /\ Hour \in Nat \ {0} /\ Callers \in Nat \ {0}
      /\ Full \in Nat /\ Callers * Hour \in Nat
  BY LimiterAssumption DEF Full
<1>1. LimiterInit => BucketHolds
  <2> SUFFICES ASSUME LimiterInit, NEW k \in Back
               PROVE  made[k] * Hour + pending * Hour + tokens
                        <= Full * (1 + boots[k]) + PerHour * k + Callers * Hour
    BY DEF BucketHolds
  <2>1. 0 * Hour = 0 /\ Full * (1 + 0) = Full /\ PerHour * k \in Nat
    BY <1>0 DEF Back
  <2> QED
    BY <1>0, <2>1 DEF LimiterInit
<1>2. LimiterTypeOK /\ BucketHolds /\ [LimiterNext]_limiterVars => BucketHolds'
  <2> SUFFICES ASSUME LimiterTypeOK, BucketHolds, [LimiterNext]_limiterVars, NEW k \in Back
               PROVE  (made[k] * Hour + pending * Hour + tokens
                        <= Full * (1 + boots[k]) + PerHour * k + Callers * Hour)'
    BY DEF BucketHolds, Back
  <2>0. /\ made[k] \in Nat /\ boots[k] \in Nat /\ pending \in Nat /\ tokens \in Int
        /\ made[k] * Hour \in Int /\ pending * Hour \in Int
        /\ Full * (1 + boots[k]) \in Int /\ PerHour * k \in Nat
    BY <1>0, ProductIsInt DEF LimiterTypeOK, Back
  <2>a. made[k] * Hour + pending * Hour + tokens
          <= Full * (1 + boots[k]) + PerHour * k + Callers * Hour
    BY DEF BucketHolds
  <2>1. CASE WaitCreate
    <3>1. (pending + 1) * Hour = pending * Hour + Hour
      BY <1>0, <2>0, OneMore
    <3> QED
      BY <1>0, <2>0, <2>a, <2>1, <3>1 DEF WaitCreate
  <2>2. CASE Create
    <3>1. /\ (pending - 1) * Hour = pending * Hour - Hour
          /\ (made[k] + 1) * Hour = made[k] * Hour + Hour
      BY <1>0, <2>0, OneMore, OneLess
    <3>2. made'[k] = made[k] + 1 /\ pending' = pending - 1
          /\ tokens' = tokens /\ boots' = boots
      BY <2>2 DEF Create
    <3> QED
      BY <1>0, <2>0, <2>a, <3>1, <3>2
  <2>3. CASE RefillTick
    <3>0. /\ tokens' = Refill /\ pending' = pending
          /\ made' = Shifted(made) /\ boots' = Shifted(boots)
      BY <2>3 DEF RefillTick
    <3>1. CASE k = 0
      <4>1. made'[k] = 0 /\ boots'[k] = 0
        BY <3>0, <3>1 DEF Shifted
      <4>2. pending * Hour <= Callers * Hour
        BY <1>0, <2>0 DEF LimiterTypeOK
      <4>3. 0 * Hour = 0 /\ Full * (1 + 0) = Full /\ PerHour * k = 0
        BY <1>0, <3>1
      <4> QED
        BY <1>0, <2>0, <3>0, <4>1, <4>2, <4>3, RefillPays
    <3>2. CASE k # 0
      <4> DEFINE i == k - 1
      <4>1. i \in Back
        BY <1>0, <3>2 DEF Back
      <4>2. made'[k] = made[i] /\ boots'[k] = boots[i]
        BY <3>0, <3>2 DEF Shifted
      <4>3. made[i] * Hour + pending * Hour + tokens
              <= Full * (1 + boots[i]) + PerHour * i + Callers * Hour
        BY <4>1 DEF BucketHolds
      <4>4. PerHour * k = PerHour * i + PerHour
        BY <1>0 DEF Back
      <4>5. /\ made[i] * Hour \in Int /\ Full * (1 + boots[i]) \in Int
            /\ PerHour * i \in Int
        BY <1>0, <4>1, ProductIsInt DEF LimiterTypeOK, Back
      <4> HIDE DEF i
      <4> QED
        BY <1>0, <2>0, <3>0, <4>2, <4>3, <4>4, <4>5, RefillPays
    <3> QED
      BY <3>1, <3>2
  <2>4. CASE Restart
    <3>1. /\ tokens' = Full /\ pending' = 0 /\ made' = made
          /\ boots'[k] = boots[k] + 1
      BY <2>4 DEF Restart, LimiterTypeOK
    <3>2. Full * (1 + (boots[k] + 1)) = Full * (1 + boots[k]) + Full
      BY <1>0, <2>0
    <3>3. tokens + pending * Hour >= 0 /\ 0 * Hour = 0
      BY <1>0 DEF LimiterTypeOK
    <3> QED
      BY <1>0, <2>0, <2>a, <3>1, <3>2, <3>3
  <2>5. CASE UNCHANGED limiterVars
    BY <2>a, <2>5 DEF limiterVars
  <2> QED
    BY <2>1, <2>2, <2>3, <2>4, <2>5 DEF LimiterNext
<1> QED
  BY <1>1, <1>2, BucketTypeCorrect, PTL DEF LimiterSpec

\* Creates are bounded over every stretch of time by burst, refill and pool,
\* and by one more burst for each restart (client.go NewClient, waitCreate).
THEOREM CreatesBounded == LimiterSpec => []CreatesAreBounded
<1>1. LimiterTypeOK /\ BucketHolds => CreatesAreBounded
  <2> SUFFICES ASSUME LimiterTypeOK, BucketHolds, NEW k \in Back
               PROVE  made[k] * Hour <= Full * (1 + boots[k]) + PerHour * k + Callers * Hour
    BY DEF CreatesAreBounded
  <2>1. made[k] * Hour + pending * Hour + tokens
          <= Full * (1 + boots[k]) + PerHour * k + Callers * Hour
    BY DEF BucketHolds
  <2>a. /\ PerHour \in Int /\ Hour \in Int /\ Callers \in Int /\ Full \in Int /\ k \in Int
        /\ made[k] \in Int /\ 1 + boots[k] \in Int /\ pending \in Int /\ tokens \in Int
    BY LimiterAssumption, ProductIsInt DEF LimiterTypeOK, Back, Full
  <2>2. /\ made[k] * Hour \in Int /\ pending * Hour \in Int
        /\ Full * (1 + boots[k]) \in Int /\ PerHour * k \in Int /\ Callers * Hour \in Int
    BY <2>a, ProductIsInt
  <2>3. tokens + pending * Hour >= 0
    BY DEF LimiterTypeOK
  <2> QED
    BY <2>1, <2>2, <2>3, <2>a
<1> QED
  BY <1>1, BucketTypeCorrect, BucketAlwaysHolds, PTL
=============================================================================
