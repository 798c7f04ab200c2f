--------------------------- MODULE JobStoreProofs ---------------------------
(***************************************************************************)
(* What the statements of the job table do, for every set of jobs: the     *)
(* facts the proofs about the workers rest on.                             *)
(***************************************************************************)
EXTENDS JobStore, TLAPS

\* How one statement may change the state of the row of j: not at all, along
\* the table, or (drops only) from the end to no row.
MovesOn(j, rs) ==
    /\ \A i \in Jobs \ {j} : rs[i] = rows[i]
    /\ rs[j].state = rows[j].state \/ CanTransition(rows[j].state, rs[j].state)

\* The columns the properties of the workers speak of are the same.
SameCore(r, s) == r.state = s.state /\ r.attempts = s.attempts /\ r.local = s.local

\* A row with changed columns is a row (the UPDATE of internal/store/jobs.go).
LEMMA UpdateIsTyped ==
    ASSUME RowsOK, NEW j \in Jobs, NEW r \in Row
    PROVE  /\ Update(j, r) \in [Jobs -> Row]
           /\ \A i \in Jobs \ {j} : Update(j, r)[i] = rows[i]
           /\ Update(j, r)[j] = IF Exists(j) THEN [r EXCEPT !.idle = 0] ELSE rows[j]
  BY DEF Update, RowsOK, Row

\* The compare-and-swap keeps the table typed, and writes the state it names or
\* nothing at all (jobs.go Transition).
LEMMA TransitionMoves ==
    ASSUME RowsOK, NEW j \in Jobs, NEW from, NEW to \in JobStates, NEW r \in Row
    PROVE  LET rs == Transition(j, from, to, r) IN
           /\ rs \in [Jobs -> Row]
           /\ MovesOn(j, rs)
           /\ Applies(j, from, to) => /\ rs[j].state = to
                                      /\ rs[j].attempts = r.attempts
                                      /\ rs[j].local = r.local
                                      /\ rs[j].bytes = r.bytes
                                      /\ rs[j].idle = 0
           /\ ~Applies(j, from, to) => rs = rows
  <1>1. CASE ~Applies(j, from, to)
    BY <1>1 DEF Transition, MovesOn, RowsOK
  <1>2. CASE Applies(j, from, to)
    <2> DEFINE s == [r EXCEPT !.state = to, !.wait = 0,
                              !.age = IF to = "SUBMITTED" THEN 0 ELSE @]
    <2>1. /\ s \in Row
          /\ s.state = to /\ s.attempts = r.attempts /\ s.local = r.local
          /\ s.bytes = r.bytes
      BY DEF Row
    <2>2. Transition(j, from, to, r) = Update(j, s)
      BY <1>2 DEF Transition
    <2>3. Exists(j)
      BY <1>2 DEF Applies, CanTransition, Successors, Exists
    <2>4. /\ Update(j, s) \in [Jobs -> Row]
          /\ \A i \in Jobs \ {j} : Update(j, s)[i] = rows[i]
          /\ Update(j, s)[j] = [s EXCEPT !.idle = 0]
      BY <2>1, <2>3, UpdateIsTyped
    <2>5. /\ Update(j, s)[j].state = to
          /\ Update(j, s)[j].attempts = r.attempts
          /\ Update(j, s)[j].local = r.local
          /\ Update(j, s)[j].bytes = r.bytes
          /\ Update(j, s)[j].idle = 0
      BY <2>1, <2>4 DEF Row
    <2>6. CanTransition(rows[j].state, to)
      BY <1>2 DEF Applies
    <2> HIDE DEF s
    <2> QED BY <1>2, <2>2, <2>4, <2>5, <2>6 DEF MovesOn
  <1> QED BY <1>1, <1>2

\* READY comes with the local path, and only out of COMPLETED_TORBOX (jobs.go
\* MarkLocalReady).
LEMMA MarkLocalReadyMoves ==
    ASSUME RowsOK, NEW j \in Jobs
    PROVE  LET rs == MarkLocalReady(j) IN
           /\ rs \in [Jobs -> Row]
           /\ MovesOn(j, rs)
           /\ rows[j].state = "COMPLETED_TORBOX"
                  => rs[j].state = "READY" /\ rs[j].local /\ rs[j].attempts = rows[j].attempts
           /\ rows[j].state # "COMPLETED_TORBOX" => rs = rows
  <1> DEFINE r == [rows[j] EXCEPT !.state = "READY", !.local = TRUE, !.wait = 0, !.lease = 0]
  <1>1. CASE rows[j].state # "COMPLETED_TORBOX"
    BY <1>1 DEF MarkLocalReady, MovesOn, RowsOK
  <1>2. CASE rows[j].state = "COMPLETED_TORBOX"
    <2>1. r \in Row /\ r.state = "READY" /\ r.local /\ r.attempts = rows[j].attempts
      BY DEF RowsOK, Row, JobStates, Terminal
    <2>2. MarkLocalReady(j) = Update(j, r)
      BY <1>2 DEF MarkLocalReady
    <2>3. Exists(j)
      BY <1>2 DEF Exists
    <2> HIDE DEF r
    <2>4. /\ Update(j, r) \in [Jobs -> Row]
          /\ \A i \in Jobs \ {j} : Update(j, r)[i] = rows[i]
          /\ Update(j, r)[j] = [r EXCEPT !.idle = 0]
      BY <2>1, <2>3, UpdateIsTyped
    <2>5. /\ Update(j, r)[j].state = "READY" /\ Update(j, r)[j].local
          /\ Update(j, r)[j].attempts = rows[j].attempts
      BY <2>1, <2>4 DEF Row
    <2>6. CanTransition(rows[j].state, "READY")
      BY <1>2 DEF CanTransition, Successors
    <2> QED BY <1>2, <2>2, <2>4, <2>5, <2>6 DEF MovesOn
  <1> QED BY <1>1, <1>2

\* A failed attempt is counted once and leaves the state alone (jobs.go
\* AttemptFailure).
LEMMA AttemptFailureCounts ==
    ASSUME RowsOK, NEW j \in Jobs, NEW ticks \in Nat
    PROVE  LET rs == AttemptFailure(j, ticks) IN
           /\ rs \in [Jobs -> Row]
           /\ \A i \in Jobs \ {j} : rs[i] = rows[i]
           /\ rs[j].state = rows[j].state /\ rs[j].local = rows[j].local
           /\ rs[j].attempts \in {rows[j].attempts, rows[j].attempts + 1}
           /\ Exists(j) => rs[j].attempts = rows[j].attempts + 1 /\ rs[j].lease = 0
  <1> DEFINE r == [rows[j] EXCEPT !.attempts = @ + 1, !.wait = ticks, !.lease = 0]
  <1>1. /\ r \in Row /\ r.state = rows[j].state /\ r.local = rows[j].local
        /\ r.attempts = rows[j].attempts + 1 /\ r.lease = 0
    <2>1. rows[j] \in Row /\ rows[j].attempts + 1 \in Nat
      BY DEF RowsOK, Row
    <2> QED BY <2>1 DEF Row
  <1>2. AttemptFailure(j, ticks) = Update(j, r)
    BY DEF AttemptFailure
  <1> HIDE DEF r
  <1>3. /\ Update(j, r) \in [Jobs -> Row]
        /\ \A i \in Jobs \ {j} : Update(j, r)[i] = rows[i]
        /\ Update(j, r)[j] = IF Exists(j) THEN [r EXCEPT !.idle = 0] ELSE rows[j]
    BY <1>1, UpdateIsTyped
  <1>4. [r EXCEPT !.idle = 0].state = r.state /\ [r EXCEPT !.idle = 0].local = r.local
        /\ [r EXCEPT !.idle = 0].attempts = r.attempts
        /\ [r EXCEPT !.idle = 0].lease = r.lease
    BY <1>1 DEF Row
  <1> QED BY <1>1, <1>2, <1>3, <1>4

\* Waiting costs no attempt and gives the claim back (jobs.go Reschedule).
LEMMA RescheduleKeeps ==
    ASSUME RowsOK, NEW j \in Jobs, NEW ticks \in Nat
    PROVE  LET rs == Reschedule(j, ticks) IN
           /\ rs \in [Jobs -> Row]
           /\ \A i \in Jobs \ {j} : rs[i] = rows[i]
           /\ \A i \in Jobs : SameCore(rs[i], rows[i])
           /\ Exists(j) => rs[j].lease = 0
  <1> DEFINE r == [rows[j] EXCEPT !.wait = ticks, !.lease = 0]
  <1>1. r \in Row /\ SameCore(r, rows[j]) /\ r.lease = 0
    BY DEF RowsOK, Row, SameCore
  <1>2. Reschedule(j, ticks) = Update(j, r)
    BY DEF Reschedule
  <1> HIDE DEF r
  <1>3. /\ Update(j, r) \in [Jobs -> Row]
        /\ \A i \in Jobs \ {j} : Update(j, r)[i] = rows[i]
        /\ Update(j, r)[j] = IF Exists(j) THEN [r EXCEPT !.idle = 0] ELSE rows[j]
    BY <1>1, UpdateIsTyped
  <1>4. SameCore([r EXCEPT !.idle = 0], r) /\ [r EXCEPT !.idle = 0].lease = r.lease
    BY <1>1 DEF Row, SameCore
  <1> QED BY <1>1, <1>2, <1>3, <1>4 DEF SameCore

\* Giving a claim back changes nothing else (jobs.go Release).
LEMMA ReleaseKeeps ==
    ASSUME RowsOK, NEW j \in Jobs
    PROVE  LET rs == Release(j) IN
           /\ rs \in [Jobs -> Row]
           /\ \A i \in Jobs \ {j} : rs[i] = rows[i]
           /\ \A i \in Jobs : SameCore(rs[i], rows[i])
           /\ Exists(j) => rs[j].lease = 0
  <1> DEFINE r == [rows[j] EXCEPT !.lease = 0]
  <1>1. r \in Row /\ SameCore(r, rows[j]) /\ r.lease = 0
    BY DEF RowsOK, Row, SameCore
  <1>2. Release(j) = Update(j, r)
    BY DEF Release
  <1> HIDE DEF r
  <1>3. /\ Update(j, r) \in [Jobs -> Row]
        /\ \A i \in Jobs \ {j} : Update(j, r)[i] = rows[i]
        /\ Update(j, r)[j] = IF Exists(j) THEN [r EXCEPT !.idle = 0] ELSE rows[j]
    BY <1>1, UpdateIsTyped
  <1>4. SameCore([r EXCEPT !.idle = 0], r) /\ [r EXCEPT !.idle = 0].lease = r.lease
    BY <1>1 DEF Row, SameCore
  <1> QED BY <1>1, <1>2, <1>3, <1>4 DEF SameCore

\* A claim puts a lease on the claimed rows and on no other (jobs.go Claim).
LEMMA ClaimLeases ==
    ASSUME RowsOK, NEW S \in SUBSET Jobs
    PROVE  /\ Claim(S) \in [Jobs -> Row]
           /\ \A i \in Jobs \ S : Claim(S)[i] = rows[i]
           /\ \A i \in Jobs : SameCore(Claim(S)[i], rows[i])
  <1> SUFFICES ASSUME NEW i \in Jobs
               PROVE  LET r == [rows[i] EXCEPT !.lease = LeaseTicks, !.idle = 0]
                      IN  r \in Row /\ SameCore(r, rows[i])
    BY DEF Claim, RowsOK, SameCore
  <1> QED BY StoreClockAssumption DEF RowsOK, Row, SameCore

\* A dropped row is no row (jobs.go Delete).
LEMMA DeleteDrops ==
    ASSUME RowsOK, NEW j \in Jobs
    PROVE  LET rs == Delete(j) IN
           /\ rs \in [Jobs -> Row]
           /\ \A i \in Jobs \ {j} : rs[i] = rows[i]
           /\ rs[j].state = "NONE" /\ rs[j].attempts = 0 /\ ~rs[j].local
  BY DEF Delete, NoRow, RowsOK, Row

\* Writing the ids of TorBox's entry is an update like any other (jobs.go
\* SetTorboxIDs).
LEMMA SetTorboxIDsKeeps ==
    ASSUME RowsOK, NEW j \in Jobs, NEW id \in {"none", "queue", "active"}
    PROVE  LET rs == SetTorboxIDs(j, id) IN
           /\ rs \in [Jobs -> Row]
           /\ \A i \in Jobs \ {j} : rs[i] = rows[i]
           /\ SameCore(rs[j], rows[j]) /\ rs[j].bytes = rows[j].bytes
           /\ Exists(j) => rs[j].idle = 0
  <1> DEFINE r == [rows[j] EXCEPT !.id = id, !.folder = TRUE]
  <1>1. r \in Row /\ SameCore(r, rows[j]) /\ r.bytes = rows[j].bytes
    BY DEF RowsOK, Row, SameCore
  <1>2. SetTorboxIDs(j, id) = Update(j, r)
    BY DEF SetTorboxIDs
  <1> HIDE DEF r
  <1>3. /\ Update(j, r) \in [Jobs -> Row]
        /\ \A i \in Jobs \ {j} : Update(j, r)[i] = rows[i]
        /\ Update(j, r)[j] = IF Exists(j) THEN [r EXCEPT !.idle = 0] ELSE rows[j]
    BY <1>1, UpdateIsTyped
  <1>4. LET s == [r EXCEPT !.idle = 0] IN
        SameCore(s, r) /\ s.bytes = r.bytes /\ s.idle = 0
    BY <1>1 DEF Row, SameCore
  <1> QED BY <1>1, <1>2, <1>3, <1>4 DEF SameCore

\* So is writing the bytes of the download (jobs.go SetLocalProgress).
LEMMA SetLocalProgressWrites ==
    ASSUME RowsOK, NEW j \in Jobs, NEW n \in Nat
    PROVE  LET rs == SetLocalProgress(j, n) IN
           /\ rs \in [Jobs -> Row]
           /\ \A i \in Jobs \ {j} : rs[i] = rows[i]
           /\ SameCore(rs[j], rows[j])
           /\ Exists(j) => rs[j].bytes = n /\ rs[j].idle = 0
  <1> DEFINE r == [rows[j] EXCEPT !.bytes = n]
  <1>1. r \in Row /\ SameCore(r, rows[j]) /\ r.bytes = n
    BY DEF RowsOK, Row, SameCore
  <1>2. SetLocalProgress(j, n) = Update(j, r)
    BY DEF SetLocalProgress
  <1> HIDE DEF r
  <1>3. /\ Update(j, r) \in [Jobs -> Row]
        /\ \A i \in Jobs \ {j} : Update(j, r)[i] = rows[i]
        /\ Update(j, r)[j] = IF Exists(j) THEN [r EXCEPT !.idle = 0] ELSE rows[j]
    BY <1>1, UpdateIsTyped
  <1>4. LET s == [r EXCEPT !.idle = 0] IN
        SameCore(s, r) /\ s.bytes = r.bytes /\ s.idle = 0
    BY <1>1 DEF Row, SameCore
  <1> QED BY <1>1, <1>2, <1>3, <1>4 DEF SameCore

\* Time moves the clocks of a row and nothing else, no lease grows, and the
\* age of the last update of a job in TorBox's hands counts up.
LEMMA AgedRowsKeep ==
    ASSUME RowsOK
    PROVE  /\ AgedRows \in [Jobs -> Row]
           /\ \A i \in Jobs :
                 /\ SameCore(AgedRows[i], rows[i])
                 /\ AgedRows[i].lease <= rows[i].lease
                 /\ AgedRows[i].bytes = rows[i].bytes
                 /\ rows[i].state \in {"SUBMITTED", "DOWNLOADING"}
                       => AgedRows[i].idle = CountUp(rows[i].idle)
  <1> SUFFICES ASSUME NEW i \in Jobs
               PROVE  /\ AgedRows[i] \in Row /\ SameCore(AgedRows[i], rows[i])
                      /\ AgedRows[i].lease <= rows[i].lease
                      /\ AgedRows[i].bytes = rows[i].bytes
                      /\ rows[i].state \in {"SUBMITTED", "DOWNLOADING"}
                            => AgedRows[i].idle = CountUp(rows[i].idle)
    BY DEF AgedRows
  <1>1. \A n \in Nat : CountDown(n) \in Nat /\ CountUp(n) \in Nat /\ CountDown(n) <= n
    BY StoreClockAssumption DEF CountDown, CountUp
  <1>2. rows[i] \in Row
    BY DEF RowsOK
  <1>3. \A n \in Nat : Age(rows[i], n) \in Nat
    BY <1>1 DEF Age
  <1>4. /\ Older(rows[i]) \in Row /\ SameCore(Older(rows[i]), rows[i])
        /\ Older(rows[i]).lease <= rows[i].lease
        /\ Older(rows[i]).bytes = rows[i].bytes
        /\ Older(rows[i]).idle = Age(rows[i], rows[i].idle)
    BY <1>1, <1>2, <1>3 DEF Older, Row, SameCore
  <1>5. rows[i].lease <= rows[i].lease
    BY <1>2 DEF Row
  <1>6. rows[i].state \in {"SUBMITTED", "DOWNLOADING"}
            => /\ rows[i].state \in ActiveStates
               /\ Age(rows[i], rows[i].idle) = CountUp(rows[i].idle)
    BY DEF Age, ActiveStates
  <1> QED BY <1>2, <1>4, <1>5, <1>6 DEF AgedRows, SameCore

\* A listing names jobs that are in the state asked for (jobs.go
\* ListDueByStates).
LEMMA ListedAreDue ==
    ASSUME NEW s, NEW n
    PROVE  /\ ListDueByStates(s, n) \subseteq Jobs
           /\ \A j \in ListDueByStates(s, n) : rows[j].state = s
  BY DEF ListDueByStates, Oldest, DueIn
-----------------------------------------------------------------------------
(***************************************************************************)
(* Lifecycle                                                               *)
(***************************************************************************)
\* Every typed table is a start of Lifecycle.
LEMMA RowsStart == RowsOK => LC!Init
  BY DEF RowsOK, Row, LC!Init, JobStates, ActiveStates, Terminal,
         LC!JobStates, LC!ActiveStates, LC!Terminal

\* A statement that moves one row along the table is a step of Lifecycle
\* (state.go CanTransition).
LEMMA MoveRefines ==
    ASSUME NEW j \in Jobs, \A i \in Jobs \ {j} : rows'[i].state = rows[i].state,
           rows'[j].state = rows[j].state \/ CanTransition(rows[j].state, rows'[j].state)
    PROVE  [LC!Next]_[i \in Jobs |-> rows[i].state]
  <1>1. [i \in Jobs |-> rows'[i].state] =
            [[i \in Jobs |-> rows[i].state] EXCEPT ![j] = rows'[j].state]
    OBVIOUS
  <1>2. CASE rows'[j].state = rows[j].state
    BY <1>2
  <1>3. CASE CanTransition(rows[j].state, rows'[j].state)
    <2>1. rows'[j].state \in JobStates
      BY <1>3 DEF CanTransition, Successors, JobStates, ActiveStates, Terminal
    <2>2. LC!CanTransition(rows[j].state, rows'[j].state) /\ rows'[j].state \in LC!JobStates
      BY <1>3, <2>1 DEF LC!CanTransition, LC!Successors, LC!JobStates, LC!ActiveStates,
                  LC!Terminal, CanTransition, Successors, JobStates, ActiveStates, Terminal
    <2>3. LC!Move(j)
      BY <1>1, <2>2 DEF LC!Move
    <2> QED BY <2>3 DEF LC!Next
  <1> QED BY <1>2, <1>3

\* So is one that drops the row of a job that has ended.
LEMMA DropRefines ==
    ASSUME NEW j \in Jobs, \A i \in Jobs \ {j} : rows'[i].state = rows[i].state,
           rows[j].state \in Terminal, rows'[j].state = "NONE"
    PROVE  [LC!Next]_[i \in Jobs |-> rows[i].state]
  <1>1. [i \in Jobs |-> rows'[i].state] =
            [[i \in Jobs |-> rows[i].state] EXCEPT ![j] = "NONE"]
    OBVIOUS
  <1>2. LC!Drop(j)
    BY <1>1 DEF LC!Drop, LC!Terminal, Terminal
  <1> QED BY <1>2 DEF LC!Next
=============================================================================
