---------------------------- MODULE IntakeProofs ----------------------------
(***************************************************************************)
(* Theorems about Intake for every set of jobs and releases, every number  *)
(* of handlers and of notifications, and about Views.                      *)
(***************************************************************************)
EXTENDS Intake, Views, JobStoreProofs, FiniteSetTheorems, WellFoundedInduction

Req == [pc : {"free", "dedup", "insert", "wake", "delete", "pause", "cancel"},
        release : Releases \cup {NoRelease}, job : Jobs \cup {0},
        state : JobStates \cup {"NONE"}]

OnAJob(q) == q.pc \in {"delete", "pause", "cancel"} => q.job \in Jobs

\* Handler h found no active job of release r and has not inserted its own yet.
Inserting(h, r) == req[h].pc = "insert" /\ req[h].release = r

\* Of two that are active or about to be, at least one pair was seen together.
RaceHolds == \A r \in Releases :
    /\ \A g, h \in Handlers : g # h /\ Inserting(g, r) /\ Inserting(h, r) => r \in raced
    /\ \A h \in Handlers, j \in ActiveOf(r) : Inserting(h, r) => r \in raced
    /\ \A i, j \in ActiveOf(r) : i # j => r \in raced

\* Every notification posted is the one that set the column.
PushHolds == \A j \in Jobs : /\ notice[j] + pings[j] <= MaxNotices
                             /\ pings[j] = IF sent[j] THEN 1 ELSE 0

IInv == RaceHolds /\ PushHolds

Signal == wake \/ \E h \in Handlers : req[h].pc = "wake"

\* A new job can be claimed, and the loop has it or will be told of it.
WakeHolds == \A j \in Jobs : rows[j].state = "NEW" =>
    /\ rows[j].wait = 0
    /\ rows[j].lease = 0 \/ (loop.pc = "submit" /\ j \in loop.batch)
    /\ loop.pc = "wait" => Signal
    /\ loop.pc = "submit" => j \in loop.batch \/ Signal

-----------------------------------------------------------------------------
(***************************************************************************)
(* Finite sets of ids                                                      *)
(***************************************************************************)
\* A finite set of numbers has a largest: the set of what lies above it is the
\* smallest of its kind.
LEMMA HasLargest ==
    ASSUME NEW S \in SUBSET Nat, IsFiniteSet(S), S # {}
    PROVE  \E m \in S : \A i \in S : i <= m
  <1> DEFINE Above(x) == {y \in S : y > x}
             F == {Above(x) : x \in S}
  <1>1. F \subseteq FiniteSubsetsOf(S) /\ F # {}
    <2>1. ASSUME NEW x \in S PROVE Above(x) \in FiniteSubsetsOf(S)
      BY FS_Subset DEF FiniteSubsetsOf
    <2> QED BY <2>1
  <1>2. PICK U \in F : \A V \in F : <<V, U>> \notin StrictSubsetOrdering(S)
    <2> HIDE DEF F
    <2> QED BY <1>1, FS_StrictSubsetOrderingWellFounded, WFMin
  <1>3. PICK m \in S : U = Above(m)
    OBVIOUS
  <1> SUFFICES ASSUME NEW i \in S, i > m PROVE FALSE
    OBVIOUS
  <1>4. \A x \in S : x \in Nat
    OBVIOUS
  <1>5. Above(i) \subseteq U /\ i \in U /\ i \notin Above(i)
    <2>1. \A y \in S : y > i => y > m
      BY <1>4
    <2>2. ~(i > i)
      BY <1>4
    <2> QED BY <1>3, <2>1, <2>2, Zenon
  <1>6. <<Above(i), U>> \in StrictSubsetOrdering(S)
    BY <1>3, <1>5 DEF StrictSubsetOrdering
  <1> QED BY <1>2, <1>6

\* It has a smallest, too.
LEMMA HasSmallest ==
    ASSUME NEW S \in SUBSET Nat, IsFiniteSet(S), S # {}
    PROVE  \E m \in S : \A i \in S : m <= i
  <1> DEFINE Below(x) == {y \in S : y < x}
             F == {Below(x) : x \in S}
  <1>1. F \subseteq FiniteSubsetsOf(S) /\ F # {}
    <2>1. ASSUME NEW x \in S PROVE Below(x) \in FiniteSubsetsOf(S)
      BY FS_Subset DEF FiniteSubsetsOf
    <2> QED BY <2>1
  <1>2. PICK U \in F : \A V \in F : <<V, U>> \notin StrictSubsetOrdering(S)
    <2> HIDE DEF F
    <2> QED BY <1>1, FS_StrictSubsetOrderingWellFounded, WFMin
  <1>3. PICK m \in S : U = Below(m)
    OBVIOUS
  <1> SUFFICES ASSUME NEW i \in S, i < m PROVE FALSE
    OBVIOUS
  <1>4. \A x \in S : x \in Nat
    OBVIOUS
  <1>5. Below(i) \subseteq U /\ i \in U /\ i \notin Below(i)
    <2>1. \A y \in S : y < i => y < m
      BY <1>4
    <2>2. ~(i < i)
      BY <1>4
    <2> QED BY <1>3, <2>1, <2>2, Zenon
  <1>6. <<Below(i), U>> \in StrictSubsetOrdering(S)
    BY <1>3, <1>5 DEF StrictSubsetOrdering
  <1> QED BY <1>2, <1>6

\* A look for an active job of a release that finds none means that there is
\* none (jobs.go FindActiveBySHA).
LEMMA FindsWhatIsThere ==
    ASSUME NEW r, FindActiveBySHA(r) = {}
    PROVE  ActiveOf(r) = {}
  <1>1. ActiveOf(r) \in SUBSET Nat /\ IsFiniteSet(ActiveOf(r))
    BY JobsAssumption, FS_Subset DEF ActiveOf
  <1>2. CASE ActiveOf(r) # {}
    <2>1. \E m \in ActiveOf(r) : \A i \in ActiveOf(r) : i <= m
      BY <1>1, <1>2, HasLargest
    <2> QED BY <2>1 DEF FindActiveBySHA
  <1> QED BY <1>2


\* The id the next job gets.
NextId == CHOOSE i \in fresh : \A k \in fresh : i <= k

\* An insert gets an id that was not given out (jobs.go Insert).
LEMMA NextIdIsFresh ==
    ASSUME TypeOK, fresh # {}
    PROVE  NextId \in fresh
  <1>1. fresh \in SUBSET Nat /\ IsFiniteSet(fresh)
    BY JobsAssumption, FS_Subset DEF TypeOK
  <1>2. \E m \in fresh : \A i \in fresh : m <= i
    BY <1>1, HasSmallest
  <1> QED BY <1>2 DEF NextId

\* The pool has room for every job that waits to be submitted.
Room == Cardinality(Claimable) <= PoolSize

\* With room, a claim takes all that can be claimed (jobs.go Claim).
LEMMA RoomForAll ==
    ASSUME Room
    PROVE  Oldest(Claimable, PoolSize) = Claimable
  <1> SUFFICES ASSUME NEW j \in Claimable
               PROVE  Cardinality({i \in Claimable : i < j}) < PoolSize
    BY DEF Oldest
  <1> DEFINE S == {i \in Claimable : i < j}
  <1>1. Claimable \subseteq Nat /\ IsFiniteSet(Claimable)
    BY JobsAssumption, FS_Subset DEF Claimable, DueIn
  <1>2. S \subseteq Claimable \ {j}
    <2>1. j \in Nat /\ j \notin S
      BY <1>1
    <2> QED BY <2>1
  <1>3. /\ IsFiniteSet(Claimable \ {j})
        /\ Cardinality(Claimable \ {j}) = Cardinality(Claimable) - 1
        /\ Cardinality(Claimable) \in Nat
    BY <1>1, FS_RemoveElement, FS_CardinalityType
  <1>4. IsFiniteSet(S) /\ Cardinality(S) <= Cardinality(Claimable \ {j})
    BY <1>2, <1>3, FS_Subset
  <1>5. Cardinality(S) \in Nat /\ PoolSize \in Nat
    BY <1>4, FS_CardinalityType, IntakeAssumption
  <1> HIDE DEF S
  <1>6. Cardinality(S) < PoolSize
    BY <1>3, <1>4, <1>5 DEF Room
  <1> QED BY <1>6 DEF S

-----------------------------------------------------------------------------
(***************************************************************************)
(* Rows                                                                    *)
(***************************************************************************)
\* No job starts: one that is active was so before, for the same release.
Calm == \A i \in Jobs :
    /\ rows[i] = NoRow => rows'[i] = NoRow
    /\ rows'[i].state \in ActiveStates
           => rows[i].state \in ActiveStates /\ release'[i] = release[i]

\* Nor is one that is new any different.
Quiet == Calm /\ \A i \in Jobs :
    rows'[i].state = "NEW"
           => /\ rows[i].state = "NEW"
              /\ rows'[i].wait = rows[i].wait /\ rows'[i].lease = rows[i].lease

LEMMA StillQuiet == UNCHANGED <<rows, release>> => Quiet
  BY DEF Quiet, Calm

\* Nothing moves back to NEW (state.go CanTransition).
LEMMA NothingBecomesNew ==
    \A s, t : CanTransition(s, t) => s \in ActiveStates /\ t \in JobStates \ {"NEW"}
  BY DEF CanTransition, Successors, ActiveStates, JobStates, Terminal

\* A transition starts no job, whether it applies or not.
LEMMA TransitionIsQuiet ==
    ASSUME RowsOK, NEW j \in Jobs, NEW from, NEW to \in JobStates, NEW r \in Row,
           rows' = Transition(j, from, to, r), UNCHANGED release
    PROVE  RowsOK' /\ Quiet
  <1>1. /\ rows' \in [Jobs -> Row] /\ MovesOn(j, rows')
        /\ Applies(j, from, to) => rows'[j].state = to
        /\ ~Applies(j, from, to) => rows' = rows
    BY TransitionMoves
  <1>2. CASE ~Applies(j, from, to)
    BY <1>1, <1>2, StillQuiet DEF RowsOK
  <1>3. CASE Applies(j, from, to)
    <2>1. CanTransition(rows[j].state, to) /\ rows[j].state = from
      BY <1>3 DEF Applies
    <2>2. rows[j].state \in ActiveStates /\ rows'[j].state # "NEW"
      BY <1>1, <1>3, <2>1, NothingBecomesNew
    <2>3. rows[j] # NoRow
      BY <2>2 DEF NoRow, ActiveStates
    <2> QED BY <1>1, <2>2, <2>3 DEF Quiet, Calm, MovesOn, RowsOK
  <1> QED BY <1>2, <1>3

\* Neither does a delete.
LEMMA DeleteIsQuiet ==
    ASSUME RowsOK, NEW j \in Jobs, rows' = Delete(j),
           \A i \in Jobs \ {j} : release'[i] = release[i]
    PROVE  RowsOK' /\ Quiet
  <1>1. /\ rows' \in [Jobs -> Row] /\ \A i \in Jobs \ {j} : rows'[i] = rows[i]
        /\ rows'[j] = NoRow
    BY DeleteDrops DEF Delete, RowsOK
  <1>2. NoRow.state \notin ActiveStates
    BY DEF NoRow, ActiveStates
  <1> QED BY <1>1, <1>2 DEF Quiet, Calm, RowsOK, ActiveStates

\* Setting pushover_sent_at touches updated_at and nothing else of the row.
LEMMA TouchIsQuiet ==
    ASSUME RowsOK, NEW j \in Jobs, rows' = Update(j, rows[j]), UNCHANGED release
    PROVE  RowsOK' /\ Quiet
  <1>1. rows[j] \in Row
    BY DEF RowsOK
  <1>2. /\ rows' \in [Jobs -> Row] /\ \A i \in Jobs \ {j} : rows'[i] = rows[i]
        /\ rows'[j] = IF Exists(j) THEN [rows[j] EXCEPT !.idle = 0] ELSE rows[j]
    BY <1>1, UpdateIsTyped
  <1>3. LET s == [rows[j] EXCEPT !.idle = 0] IN
        s.state = rows[j].state /\ s.wait = rows[j].wait /\ s.lease = rows[j].lease
    BY <1>1 DEF Row
  <1>4. Exists(j) => rows[j] # NoRow
    BY DEF Exists, NoRow
  <1> QED BY <1>2, <1>3, <1>4 DEF Quiet, Calm, RowsOK

\* A job of the batch is new no more once its turn is over (submitter.go
\* submitOne).
LEMMA SubmitsIsQuiet ==
    ASSUME RowsOK, NEW j \in Jobs, Submits(j)
    PROVE  RowsOK' /\ Quiet /\ rows'[j].state # "NEW"
  <1>1. CASE Applies(j, "NEW", "SUBMITTED")
    <2> DEFINE r == [rows[j] EXCEPT !.lease = 0]
    <2>1. r \in Row /\ "SUBMITTED" \in JobStates
      BY DEF RowsOK, Row, JobStates, ActiveStates
    <2>2. rows' = Transition(j, "NEW", "SUBMITTED", r) /\ UNCHANGED release
      BY <1>1 DEF Submits
    <2> HIDE DEF r
    <2>3. rows'[j].state = "SUBMITTED"
      BY <1>1, <2>1, <2>2, TransitionMoves
    <2> QED BY <2>1, <2>2, <2>3, TransitionIsQuiet
  <1>2. CASE ~Applies(j, "NEW", "SUBMITTED")
    <2>1. rows[j].state # "NEW"
      BY <1>2 DEF Applies, CanTransition, Successors
    <2>2. rows' = Release(j) /\ UNCHANGED release
      BY <1>2 DEF Submits
    <2>3. /\ rows' \in [Jobs -> Row] /\ \A i \in Jobs \ {j} : rows'[i] = rows[i]
          /\ rows'[j].state = rows[j].state
      BY <2>2, ReleaseKeeps DEF SameCore
    <2>4. rows[j] = NoRow => rows' = rows
      BY <2>2 DEF Release, Update, Exists, NoRow
    <2> QED BY <2>1, <2>2, <2>3, <2>4 DEF Quiet, Calm, RowsOK
  <1> QED BY <1>1, <1>2

\* A claim puts its lease on rows that stay what they are (jobs.go Claim).
LEMMA ClaimIsCalm ==
    ASSUME RowsOK, NEW S \in SUBSET Claimable, rows' = Claim(S), UNCHANGED release
    PROVE  /\ RowsOK' /\ Calm
           /\ \A i \in Jobs : rows'[i].state = rows[i].state /\ rows'[i].wait = rows[i].wait
           /\ \A i \in Jobs \ S : rows'[i] = rows[i]
  <1>1. S \in SUBSET Jobs /\ \A i \in S : rows[i].state = "NEW"
    BY DEF Claimable, DueIn
  <1>2. /\ rows' \in [Jobs -> Row]
        /\ \A i \in Jobs : rows'[i].state = rows[i].state
        /\ \A i \in Jobs \ S : rows'[i] = rows[i]
    BY <1>1, ClaimLeases DEF SameCore
  <1>3. \A i \in S : rows[i] # NoRow
    BY <1>1 DEF NoRow
  <1>4. \A i \in Jobs : rows'[i].wait = rows[i].wait
    BY DEF Claim, RowsOK, Row
  <1> QED BY <1>1, <1>2, <1>3, <1>4 DEF Calm, RowsOK

-----------------------------------------------------------------------------
(***************************************************************************)
(* The parts of the invariant                                              *)
(***************************************************************************)
ReqOK == req \in [Handlers -> Req] /\ \A h \in Handlers : OnAJob(req[h])

\* A handler that moves leaves the others where they are.
LEMMA HandlerMoves ==
    ASSUME TypeOK, NEW h \in Handlers, NEW q \in Req, OnAJob(q),
           req' = [req EXCEPT ![h] = q]
    PROVE  ReqOK' /\ req'[h] = q /\ \A g \in Handlers \ {h} : req'[g] = req[g]
  BY DEF TypeOK, ReqOK, Req, OnAJob

\* The types, but for the request of a handler, come in parts.
LEMMA TypedParts ==
    ASSUME RowsOK', release' \in [Jobs -> Releases \cup {NoRelease}],
           fresh' \subseteq Jobs, \A j \in fresh' : rows'[j] = NoRow,
           ReqOK', raced' \subseteq Releases, wake' \in BOOLEAN,
           loop' \in [pc : {"wait", "claim", "submit"}, batch : SUBSET Jobs],
           notice' \in [Jobs -> 0..MaxNotices], sent' \in [Jobs -> BOOLEAN],
           pings' \in [Jobs -> 0..MaxNotices]
    PROVE  TypeOK'
  BY DEF TypeOK, ReqOK, Req, OnAJob

\* Where no job starts and no handler comes to its insert, no race is won.
LEMMA RaceKept ==
    ASSUME TypeOK, RaceHolds, Calm, raced \subseteq raced',
           \A h \in Handlers, r \in Releases : Inserting(h, r)' => Inserting(h, r)
    PROVE  RaceHolds'
  <1> SUFFICES ASSUME NEW r \in Releases
               PROVE  /\ \A g, h \in Handlers :
                            g # h /\ Inserting(g, r)' /\ Inserting(h, r)' => r \in raced'
                      /\ \A h \in Handlers, j \in ActiveOf(r)' : Inserting(h, r)' => r \in raced'
                      /\ \A i, j \in ActiveOf(r)' : i # j => r \in raced'
    BY DEF RaceHolds
  <1>1. ActiveOf(r)' \subseteq ActiveOf(r)
    BY DEF ActiveOf, Active, Calm
  <1> QED BY <1>1 DEF RaceHolds

\* Where no job starts and no token is lost, every new job stays announced.
LEMMA WakeKept ==
    ASSUME WakeHolds, Quiet, UNCHANGED loop, Signal => Signal'
    PROVE  WakeHolds'
  BY DEF WakeHolds, Quiet

-----------------------------------------------------------------------------
(***************************************************************************)
(* Steps                                                                   *)
(***************************************************************************)
\* A handler that starts no job and is not about to.
LEMMA HandlerHolds ==
    ASSUME TypeOK, IInv, NEW h \in Handlers, NEW q \in Req, OnAJob(q), q.pc # "insert",
           req' = [req EXCEPT ![h] = q],
           RowsOK', Quiet, release' \in [Jobs -> Releases \cup {NoRelease}],
           UNCHANGED <<fresh, raced, loop, Push>>,
           wake' \in BOOLEAN, wake => wake', req[h].pc = "wake" => wake'
    PROVE  TypeOK' /\ IInv' /\ (WakeHolds => WakeHolds')
  <1>1. ReqOK' /\ req'[h] = q /\ \A g \in Handlers \ {h} : req'[g] = req[g]
    BY HandlerMoves
  <1>2. \A j \in fresh' : rows'[j] = NoRow
    BY DEF Quiet, Calm, TypeOK
  <1>3. TypeOK'
    BY <1>1, <1>2, TypedParts DEF TypeOK, Push
  <1>4. RaceHolds'
    BY <1>1, RaceKept DEF IInv, Inserting, Quiet
  <1>5. PushHolds'
    BY DEF IInv, PushHolds, Push
  <1>6. Signal => Signal'
    BY <1>1 DEF Signal
  <1> QED BY <1>3, <1>4, <1>5, <1>6, WakeKept DEF IInv

\* A step that no handler takes and that starts no job.
LEMMA OtherHolds ==
    ASSUME TypeOK, IInv, RowsOK', Calm, UNCHANGED <<release, fresh, req, raced>>,
           wake' \in BOOLEAN,
           loop' \in [pc : {"wait", "claim", "submit"}, batch : SUBSET Jobs],
           notice' \in [Jobs -> 0..MaxNotices], sent' \in [Jobs -> BOOLEAN],
           pings' \in [Jobs -> 0..MaxNotices], PushHolds'
    PROVE  TypeOK' /\ IInv'
  <1>1. \A j \in fresh' : rows'[j] = NoRow
    BY DEF Calm, TypeOK
  <1>2. ReqOK'
    BY DEF TypeOK, ReqOK, Req, OnAJob
  <1>3. TypeOK'
    BY <1>1, <1>2, TypedParts DEF TypeOK
  <1>4. RaceHolds'
    BY RaceKept DEF IInv, Inserting
  <1> QED BY <1>3, <1>4 DEF IInv

\* What a handler may go on to.
LEMMA NextReqs ==
    /\ Free \in Req /\ Free.pc = "free" /\ Free.release = NoRelease
    /\ LET q == [Free EXCEPT !.pc = "wake"] IN q \in Req /\ q.pc = "wake"
    /\ \A r \in Releases :
          LET q == [Free EXCEPT !.pc = "dedup", !.release = r] IN q \in Req /\ q.pc = "dedup"
  BY DEF Free, Req

\* Whatever arrives, ends, or acts on an active job keeps the invariant.
LEMMA ArrivalsHold ==
    ASSUME TypeOK, IInv, NEW h \in Handlers,
           AddArrives(h) \/ QbitArrives(h) \/ HangsUp(h) \/ SignalWake(h)
    PROVE  TypeOK' /\ IInv' /\ (WakeHolds => WakeHolds')
  <1>0. RowsOK /\ wake \in BOOLEAN /\ release \in [Jobs -> Releases \cup {NoRelease}]
    BY DEF TypeOK
  <1>1. CASE AddArrives(h)
    <2>1. PICK r \in Releases :
              req' = [req EXCEPT ![h] = [Free EXCEPT !.pc = "dedup", !.release = r]]
      BY <1>1 DEF AddArrives
    <2> DEFINE q == [Free EXCEPT !.pc = "dedup", !.release = r]
    <2>2. q \in Req /\ q.pc = "dedup"
      BY NextReqs
    <2>3. req[h].pc = "free" /\ UNCHANGED <<Store, raced, wake, loop, Push>>
      BY <1>1 DEF AddArrives
    <2>4. RowsOK' /\ Quiet
      BY <1>0, <2>3, StillQuiet DEF Store, RowsOK
    <2> HIDE DEF q
    <2> QED BY <1>0, <2>1, <2>2, <2>3, <2>4, HandlerHolds DEF Store, OnAJob, q
  <1>2. CASE QbitArrives(h)
    <2>1. PICK r \in Torrents, pc \in {"delete", "pause"} : \E j \in FindActiveBySHA(r) :
              req' = [req EXCEPT ![h] = [Free EXCEPT !.pc = pc, !.release = r, !.job = j]]
      BY <1>2 DEF QbitArrives
    <2>2. PICK j \in FindActiveBySHA(r) :
              req' = [req EXCEPT ![h] = [Free EXCEPT !.pc = pc, !.release = r, !.job = j]]
      BY <2>1
    <2> DEFINE q == [Free EXCEPT !.pc = pc, !.release = r, !.job = j]
    <2>3. j \in Jobs /\ r \in Releases
      BY DEF FindActiveBySHA, ActiveOf, Releases
    <2>4. q \in Req /\ q.pc = pc /\ q.job = j
      BY <2>3 DEF Free, Req
    <2>5. req[h].pc = "free" /\ UNCHANGED <<Store, raced, wake, loop, Push>>
      BY <1>2 DEF QbitArrives
    <2>6. RowsOK' /\ Quiet
      BY <1>0, <2>5, StillQuiet DEF Store, RowsOK
    <2> HIDE DEF q
    <2> QED BY <1>0, <2>2, <2>3, <2>4, <2>5, <2>6, HandlerHolds DEF Store, OnAJob, q
  <1>3. CASE HangsUp(h)
    <2>1. /\ req' = [req EXCEPT ![h] = Free] \/ req' = [req EXCEPT ![h] = [Free EXCEPT !.pc = "wake"]]
          /\ req[h].pc # "wake" /\ UNCHANGED <<Store, raced, wake, loop, Push>>
      BY <1>3 DEF HangsUp, Done, GotoWake
    <2>2. RowsOK' /\ Quiet
      BY <1>0, <2>1, StillQuiet DEF Store, RowsOK
    <2>3. PICK q \in Req : req' = [req EXCEPT ![h] = q] /\ q.pc \in {"free", "wake"}
      BY <2>1, NextReqs
    <2> QED BY <1>0, <2>1, <2>2, <2>3, HandlerHolds DEF Store, OnAJob
  <1>4. CASE SignalWake(h)
    <2>1. /\ req' = [req EXCEPT ![h] = Free] /\ wake' = TRUE
          /\ UNCHANGED <<Store, raced, loop, Push>>
      BY <1>4 DEF SignalWake, Done
    <2>2. RowsOK' /\ Quiet
      BY <1>0, <2>1, StillQuiet DEF Store, RowsOK
    <2> QED BY <1>0, <2>1, <2>2, NextReqs, HandlerHolds DEF Store, OnAJob
  <1> QED BY <1>1, <1>2, <1>3, <1>4

LEMMA QbitHolds ==
    ASSUME TypeOK, IInv, NEW h \in Handlers,
           QbitDeletes(h) \/ QbitPauses(h) \/ QbitCancels(h)
    PROVE  TypeOK' /\ IInv' /\ (WakeHolds => WakeHolds')
  <1>0. /\ RowsOK /\ wake \in BOOLEAN /\ release \in [Jobs -> Releases \cup {NoRelease}]
        /\ req[h] \in Req /\ req[h].job \in Jobs /\ rows[req[h].job] \in Row
    BY DEF TypeOK, Req, RowsOK, QbitDeletes, QbitPauses, QbitCancels
  <1>1. CASE QbitDeletes(h)
    <2>1. /\ req[h].pc # "wake" /\ req' = [req EXCEPT ![h] = Free]
          /\ UNCHANGED <<fresh, raced, wake, loop, Push>>
          /\ rows' = Delete(req[h].job)
          /\ release' = [release EXCEPT ![req[h].job] = NoRelease]
      BY <1>1 DEF QbitDeletes, Done
    <2>2. /\ release' \in [Jobs -> Releases \cup {NoRelease}]
          /\ \A i \in Jobs \ {req[h].job} : release'[i] = release[i]
      BY <1>0, <2>1
    <2>3. RowsOK' /\ Quiet
      BY <1>0, <2>1, <2>2, DeleteIsQuiet
    <2> QED BY <1>0, <2>1, <2>2, <2>3, NextReqs, HandlerHolds DEF OnAJob
  <1>2. CASE QbitPauses(h)
    <2>1. UNCHANGED <<Store, raced, wake, loop, Push>> /\ req[h].pc = "pause"
      BY <1>2 DEF QbitPauses
    <2>2. RowsOK' /\ Quiet
      BY <1>0, <2>1, StillQuiet DEF Store, RowsOK
    <2> DEFINE q == [req[h] EXCEPT !.pc = "cancel", !.state = rows[req[h].job].state]
    <2>3. q \in Req /\ q.pc = "cancel" /\ q.job \in Jobs
      BY <1>0 DEF Req, Row
    <2>4. req' = [req EXCEPT ![h] = q] \/ req' = [req EXCEPT ![h] = [Free EXCEPT !.pc = "wake"]]
      BY <1>2 DEF QbitPauses, GotoWake
    <2> HIDE DEF q
    <2>5. CASE req' = [req EXCEPT ![h] = q]
      BY <1>0, <2>1, <2>2, <2>3, <2>5, HandlerHolds DEF Store, OnAJob
    <2>6. CASE req' = [req EXCEPT ![h] = [Free EXCEPT !.pc = "wake"]]
      BY <1>0, <2>1, <2>2, <2>6, NextReqs, HandlerHolds DEF Store, OnAJob
    <2> QED BY <2>4, <2>5, <2>6
  <1>3. CASE QbitCancels(h)
    <2>1. /\ rows' = Transition(req[h].job, req[h].state, "CANCELED", rows[req[h].job])
          /\ req' = [req EXCEPT ![h] = [Free EXCEPT !.pc = "wake"]] /\ req[h].pc = "cancel"
          /\ UNCHANGED <<release, fresh, raced, wake, loop, Push>>
      BY <1>3 DEF QbitCancels, GotoWake
    <2>2. "CANCELED" \in JobStates
      BY DEF JobStates, Terminal
    <2>3. RowsOK' /\ Quiet
      BY <1>0, <2>1, <2>2, TransitionIsQuiet
    <2> QED BY <1>0, <2>1, <2>3, NextReqs, HandlerHolds DEF OnAJob
  <1> QED BY <1>1, <1>2, <1>3

\* A handler that finds no active job of its release goes on to insert one, and
\* meets there every other that did so.
LEMMA DedupHolds ==
    ASSUME TypeOK, IInv, NEW h \in Handlers, Dedup(h)
    PROVE  TypeOK' /\ IInv' /\ (WakeHolds => WakeHolds')
  <1>1. /\ UNCHANGED <<rows, release, fresh, wake, loop, notice, sent, pings>>
        /\ req[h].pc = "dedup" /\ req[h] \in Req
        /\ raced \subseteq raced' /\ raced' \subseteq Releases
    BY DEF Dedup, Store, Push, TypeOK, Req
  <1>2. PICK q \in Req : /\ req' = [req EXCEPT ![h] = q] /\ OnAJob(q)
                         /\ q.pc = "insert" => /\ q.release = req[h].release
                                               /\ ActiveOf(q.release) = {}
    <2> DEFINE q == [req[h] EXCEPT !.pc = "insert"]
    <2>1. q \in Req /\ q.pc = "insert" /\ q.release = req[h].release
      BY <1>1 DEF Req
    <2>2. CASE FindActiveBySHA(req[h].release) = {}
      <3>1. req' = [req EXCEPT ![h] = q] /\ ActiveOf(req[h].release) = {}
        BY <2>2, FindsWhatIsThere DEF Dedup, Goto
      <3> HIDE DEF q
      <3> QED BY <2>1, <3>1 DEF OnAJob
    <2>3. CASE FindActiveBySHA(req[h].release) # {}
      BY <2>3, NextReqs DEF Dedup, Done, GotoWake, OnAJob
    <2> QED BY <2>2, <2>3
  <1>3. ReqOK' /\ req'[h] = q /\ \A g \in Handlers \ {h} : req'[g] = req[g]
    BY <1>2, HandlerMoves
  <1>4. TypeOK'
    BY <1>1, <1>3, TypedParts DEF TypeOK, RowsOK
  <1>5. ASSUME NEW r \in Releases
        PROVE  /\ \A f, g \in Handlers :
                     f # g /\ Inserting(f, r)' /\ Inserting(g, r)' => r \in raced'
               /\ \A g \in Handlers, j \in ActiveOf(r)' : Inserting(g, r)' => r \in raced'
               /\ \A i, j \in ActiveOf(r)' : i # j => r \in raced'
    <2>1. \A f, g \in Handlers :
              f # g /\ Inserting(f, r)' /\ Inserting(g, r)' => r \in raced'
      BY DEF Dedup, Inserting
    <2>2. ActiveOf(r)' = ActiveOf(r)
      BY <1>1 DEF ActiveOf, Active
    <2>3. ASSUME NEW g \in Handlers, NEW j \in ActiveOf(r), Inserting(g, r)'
          PROVE  r \in raced'
      <3>1. g # h
        BY <1>2, <1>3, <2>3 DEF Inserting
      <3> QED BY <1>1, <1>3, <2>3, <3>1 DEF IInv, RaceHolds, Inserting
    <2> QED BY <1>1, <2>1, <2>2, <2>3 DEF IInv, RaceHolds
  <1>6. RaceHolds'
    BY <1>5 DEF RaceHolds
  <1>7. PushHolds'
    BY <1>1 DEF IInv, PushHolds
  <1>8. Signal => Signal'
    BY <1>1, <1>3 DEF Signal
  <1>9. Quiet
    BY <1>1, StillQuiet
  <1> QED BY <1>1, <1>4, <1>6, <1>7, <1>8, <1>9, WakeKept DEF IInv

\* An insert makes an active job of the handler that was about to.
LEMMA InsertHolds ==
    ASSUME TypeOK, IInv, NEW h \in Handlers, Insert(h)
    PROVE  TypeOK' /\ IInv' /\ (WakeHolds => WakeHolds')
  <1> DEFINE n == NextId
             s == req[h].release
             new == [NoRow EXCEPT !.state = "NEW"]
             q == [Free EXCEPT !.pc = "wake"]
  <1>1. /\ n \in fresh /\ n \in Jobs /\ rows[n] = NoRow
        /\ s \in Releases \cup {NoRelease} /\ req[h].pc = "insert"
    <2>1. fresh # {} /\ req[h].pc = "insert"
      BY DEF Insert
    <2>2. n \in fresh
      BY <2>1, NextIdIsFresh
    <2> QED BY <2>1, <2>2 DEF TypeOK
  <1>2. /\ rows' = [rows EXCEPT ![n] = new] /\ release' = [release EXCEPT ![n] = s]
        /\ fresh' = fresh \ {n} /\ req' = [req EXCEPT ![h] = q]
        /\ UNCHANGED <<raced, wake, loop, notice, sent, pings>>
    BY DEF Insert, NextId, GotoWake, Push
  <1>3. new \in Row /\ new.state = "NEW" /\ new.wait = 0 /\ new.lease = 0
    BY DEF NoRow, Row, JobStates, ActiveStates
  <1>4. q \in Req /\ q.pc = "wake"
    BY NextReqs
  <1>5. ReqOK' /\ req'[h] = q /\ \A g \in Handlers \ {h} : req'[g] = req[g]
    BY <1>2, <1>4, HandlerMoves DEF OnAJob
  <1> HIDE DEF n, new, q
  <1>6. /\ rows' \in [Jobs -> Row] /\ rows'[n] = new
        /\ \A i \in Jobs \ {n} : rows'[i] = rows[i]
        /\ release' \in [Jobs -> Releases \cup {NoRelease}] /\ release'[n] = s
        /\ \A i \in Jobs \ {n} : release'[i] = release[i]
    BY <1>1, <1>2, <1>3 DEF TypeOK, RowsOK
  <1>7. TypeOK'
    BY <1>1, <1>2, <1>5, <1>6, TypedParts DEF TypeOK, RowsOK
  <1>8. ASSUME NEW r \in Releases
        PROVE  /\ \A f, g \in Handlers :
                     f # g /\ Inserting(f, r)' /\ Inserting(g, r)' => r \in raced'
               /\ \A g \in Handlers, j \in ActiveOf(r)' : Inserting(g, r)' => r \in raced'
               /\ \A i, j \in ActiveOf(r)' : i # j => r \in raced'
    <2>1. \A g \in Handlers : Inserting(g, r)' => g # h /\ Inserting(g, r)
      BY <1>4, <1>5 DEF Inserting
    <2>2. \A j \in ActiveOf(r)' : j \in ActiveOf(r) \/ (j = n /\ Inserting(h, r))
      BY <1>1, <1>6 DEF ActiveOf, Active, Inserting
    <2> QED BY <1>2, <2>1, <2>2 DEF IInv, RaceHolds
  <1>9. RaceHolds'
    BY <1>8 DEF RaceHolds
  <1>10. PushHolds'
    BY <1>2 DEF IInv, PushHolds
  <1>11. Signal'
    BY <1>4, <1>5 DEF Signal
  <1>12. WakeHolds => WakeHolds'
    BY <1>2, <1>3, <1>6, <1>11 DEF WakeHolds
  <1> QED BY <1>7, <1>9, <1>10, <1>12 DEF IInv

\* The loop starts no job, and with room for all it leaves none it knows of.
LEMMA LoopHolds ==
    ASSUME TypeOK, IInv, LoopStep \/ Ticked
    PROVE  /\ TypeOK' /\ IInv'
           /\ WakeHolds /\ Room => WakeHolds'
  <1>0. /\ RowsOK /\ wake \in BOOLEAN /\ PushHolds
        /\ loop \in [pc : {"wait", "claim", "submit"}, batch : SUBSET Jobs]
        /\ notice \in [Jobs -> 0..MaxNotices] /\ sent \in [Jobs -> BOOLEAN]
        /\ pings \in [Jobs -> 0..MaxNotices]
    BY DEF TypeOK, IInv
  <1>1. CASE Woken \/ Ticked
    <2>1. /\ UNCHANGED <<rows, release, fresh, req, raced, notice, sent, pings>>
          /\ loop' = [loop EXCEPT !.pc = "claim"] /\ loop.pc = "wait" /\ wake' \in BOOLEAN
      BY <1>0, <1>1 DEF Woken, Ticked, Store, Push
    <2>2. /\ loop' \in [pc : {"wait", "claim", "submit"}, batch : SUBSET Jobs]
          /\ loop'.pc = "claim"
      BY <1>0, <2>1
    <2>3. RowsOK' /\ Calm /\ PushHolds'
      BY <1>0, <2>1, StillQuiet DEF Quiet, RowsOK, PushHolds
    <2>4. TypeOK' /\ IInv'
      BY <1>0, <2>1, <2>2, <2>3, OtherHolds
    <2>5. WakeHolds => WakeHolds'
      BY <2>1, <2>2 DEF WakeHolds
    <2> QED BY <2>4, <2>5
  <1>2. ASSUME NEW S \in SUBSET Jobs, Batch(S)
        PROVE  /\ loop' \in [pc : {"wait", "claim", "submit"}, batch : SUBSET Jobs]
               /\ loop'.batch = S /\ loop'.pc = IF S = {} THEN "wait" ELSE "submit"
    BY <1>2 DEF Batch
  <1>3. CASE Claims
    <2> DEFINE S == Oldest(Claimable, PoolSize)
    <2>1. S \in SUBSET Claimable /\ S \in SUBSET Jobs
      BY DEF Oldest, Claimable, DueIn
    <2>2. /\ rows' = Claim(S) /\ Batch(S) /\ loop.pc = "claim"
          /\ UNCHANGED <<release, fresh, req, raced, wake, notice, sent, pings>>
      BY <1>3 DEF Claims, Push
    <2> HIDE DEF S
    <2>3. /\ RowsOK' /\ Calm
          /\ \A i \in Jobs : rows'[i].state = rows[i].state /\ rows'[i].wait = rows[i].wait
          /\ \A i \in Jobs \ S : rows'[i] = rows[i]
      BY <1>0, <2>1, <2>2, ClaimIsCalm
    <2>4. /\ loop' \in [pc : {"wait", "claim", "submit"}, batch : SUBSET Jobs]
          /\ loop'.batch = S /\ loop'.pc = IF S = {} THEN "wait" ELSE "submit"
      BY <1>2, <2>1, <2>2
    <2>5. PushHolds'
      BY <1>0, <2>2 DEF PushHolds
    <2>6. TypeOK' /\ IInv'
      BY <1>0, <2>2, <2>3, <2>4, <2>5, OtherHolds
    <2>7. ASSUME WakeHolds, Room PROVE WakeHolds'
      <3>1. S = Claimable
        BY <2>7, RoomForAll DEF S
      <3>2. \A j \in Jobs : rows[j].state = "NEW" => j \in S
        BY <2>2, <2>7, <3>1 DEF WakeHolds, Claimable, DueIn
      <3> QED BY <2>3, <2>4, <2>7, <3>2 DEF WakeHolds
    <2> QED BY <2>6, <2>7
  <1>4. ASSUME NEW j \in Jobs, Submits(j)
        PROVE  /\ TypeOK' /\ IInv'
               /\ WakeHolds => WakeHolds'
    <2>1. /\ Batch(loop.batch \ {j}) /\ loop.pc = "submit" /\ j \in loop.batch
          /\ UNCHANGED <<release, fresh, req, raced, wake, notice, sent, pings>>
      BY <1>4 DEF Submits, Push
    <2>2. RowsOK' /\ Quiet /\ rows'[j].state # "NEW"
      BY <1>0, <1>4, SubmitsIsQuiet
    <2>3. /\ loop' \in [pc : {"wait", "claim", "submit"}, batch : SUBSET Jobs]
          /\ loop'.batch = loop.batch \ {j}
          /\ loop'.pc = IF loop.batch \ {j} = {} THEN "wait" ELSE "submit"
      BY <1>0, <1>2, <2>1
    <2>4. PushHolds'
      BY <1>0, <2>1 DEF PushHolds
    <2>5. TypeOK' /\ IInv'
      BY <1>0, <2>1, <2>2, <2>3, <2>4, OtherHolds DEF Quiet
    <2>6. ASSUME WakeHolds PROVE WakeHolds'
      <3>1. Signal' <=> Signal
        BY <2>1 DEF Signal
      <3> QED BY <2>1, <2>2, <2>3, <2>6, <3>1 DEF WakeHolds, Quiet
    <2> QED BY <2>5, <2>6
  <1> QED BY <1>1, <1>3, <1>4 DEF LoopStep

\* So do the ends and cancels of the other workers, and the webhook.
LEMMA JobStepHolds ==
    ASSUME TypeOK, IInv, NEW j \in Jobs,
           Ends(j) \/ SabCancels(j) \/ WebhookArrives(j) \/ Notifies(j)
    PROVE  TypeOK' /\ IInv' /\ (WakeHolds => WakeHolds')
  <1>0. /\ RowsOK /\ wake \in BOOLEAN /\ PushHolds /\ rows[j] \in Row
        /\ loop \in [pc : {"wait", "claim", "submit"}, batch : SUBSET Jobs]
        /\ notice \in [Jobs -> 0..MaxNotices] /\ sent \in [Jobs -> BOOLEAN]
        /\ pings \in [Jobs -> 0..MaxNotices] /\ MaxNotices \in Nat
        /\ "FAILED" \in JobStates /\ "CANCELED" \in JobStates
    BY IntakeAssumption DEF TypeOK, IInv, RowsOK, JobStates, Terminal
  <1>1. CASE Ends(j) \/ SabCancels(j)
    <2>1. /\ \E from, to \in {"SUBMITTED", "FAILED", "CANCELED", rows[j].state} :
                 to \in JobStates /\ rows' = Transition(j, from, to, rows[j])
          /\ wake' \in BOOLEAN /\ (wake => wake')
          /\ UNCHANGED <<release, fresh, req, raced, loop, notice, sent, pings>>
      BY <1>0, <1>1 DEF Ends, SabCancels, Push
    <2>2. RowsOK' /\ Quiet
      BY <1>0, <2>1, TransitionIsQuiet
    <2>3. PushHolds'
      BY <1>0, <2>1 DEF PushHolds
    <2>4. TypeOK' /\ IInv'
      BY <1>0, <2>1, <2>2, <2>3, OtherHolds DEF Quiet
    <2> QED BY <2>1, <2>2, <2>4, WakeKept DEF Signal
  <1>2. CASE WebhookArrives(j)
    <2>1. /\ wake' = TRUE /\ UNCHANGED <<rows, release, fresh, req, raced, loop, sent, pings>>
      BY <1>2 DEF WebhookArrives, Store
    <2>2. PICK n \in {0, 1} : /\ notice[j] + pings[j] + n <= MaxNotices
                              /\ notice' = [notice EXCEPT ![j] = @ + n]
      BY <1>2 DEF WebhookArrives
    <2>3. notice[j] + n \in 0..MaxNotices /\ notice'[j] = notice[j] + n
      BY <1>0, <2>2
    <2>4. notice' \in [Jobs -> 0..MaxNotices]
      BY <1>0, <2>2, <2>3
    <2>5. ASSUME NEW i \in Jobs
          PROVE  /\ notice'[i] + pings'[i] <= MaxNotices
                 /\ pings'[i] = IF sent'[i] THEN 1 ELSE 0
      <3>1. CASE i = j
        BY <1>0, <2>1, <2>2, <2>3, <3>1 DEF PushHolds
      <3>2. CASE i # j
        BY <1>0, <2>1, <2>2, <3>2 DEF PushHolds
      <3> QED BY <3>1, <3>2
    <2>6. RowsOK' /\ Quiet /\ PushHolds'
      BY <1>0, <2>1, <2>5, StillQuiet DEF RowsOK, PushHolds
    <2>7. TypeOK' /\ IInv'
      BY <1>0, <2>1, <2>4, <2>6, OtherHolds DEF Quiet
    <2> QED BY <2>1, <2>6, <2>7, WakeKept DEF Signal
  <1>3. CASE Notifies(j)
    <2>1. /\ notice[j] > 0 /\ notice' = [notice EXCEPT ![j] = @ - 1]
          /\ UNCHANGED <<release, fresh, req, raced, wake, loop>>
      BY <1>3 DEF Notifies
    <2>2. /\ notice' \in [Jobs -> 0..MaxNotices] /\ notice'[j] = notice[j] - 1
          /\ \A i \in Jobs \ {j} : notice'[i] = notice[i]
      <3>1. notice[j] - 1 \in 0..MaxNotices
        BY <1>0, <2>1
      <3> QED BY <1>0, <2>1, <3>1
    <2>3. CASE UNCHANGED <<rows, sent, pings>>
      <3>1. RowsOK' /\ Quiet
        BY <1>0, <2>1, <2>3, StillQuiet DEF RowsOK
      <3>2. PushHolds'
        BY <1>0, <2>2, <2>3 DEF PushHolds
      <3>3. TypeOK' /\ IInv'
        BY <1>0, <2>1, <2>2, <2>3, <3>1, <3>2, OtherHolds DEF Quiet
      <3> QED BY <2>1, <3>1, <3>3, WakeKept DEF Signal
    <2>4. CASE /\ MarkPushoverSent(j) /\ sent' = [sent EXCEPT ![j] = TRUE]
               /\ pings' = [pings EXCEPT ![j] = @ + 1] /\ rows' = Update(j, rows[j])
      <3>1. RowsOK' /\ Quiet
        BY <1>0, <2>1, <2>4, TouchIsQuiet
      <3>2. pings[j] = 0 /\ notice[j] + pings[j] <= MaxNotices
        BY <1>0, <2>4 DEF PushHolds, MarkPushoverSent
      <3>3. 1 \in 0..MaxNotices
        BY <1>0, <2>1, <3>2
      <3>4. /\ pings' \in [Jobs -> 0..MaxNotices] /\ pings'[j] = 1
            /\ sent' \in [Jobs -> BOOLEAN] /\ sent'[j] = TRUE
            /\ \A i \in Jobs \ {j} : pings'[i] = pings[i] /\ sent'[i] = sent[i]
        BY <1>0, <2>4, <3>2, <3>3
      <3>5. PushHolds'
        BY <1>0, <2>1, <2>2, <3>2, <3>4 DEF PushHolds
      <3>6. TypeOK' /\ IInv'
        BY <1>0, <2>1, <2>2, <3>1, <3>4, <3>5, OtherHolds DEF Quiet
      <3> QED BY <2>1, <3>1, <3>6, WakeKept DEF Signal
    <2> QED BY <1>3, <2>3, <2>4 DEF Notifies
  <1> QED BY <1>1, <1>2, <1>3

\* Every step keeps types and invariant; with room for all, it keeps every new
\* job announced.
LEMMA StepHolds ==
    ASSUME TypeOK, IInv, [Next]_vars
    PROVE  /\ TypeOK' /\ IInv'
           /\ WakeHolds /\ Room => WakeHolds'
  <1>1. CASE UNCHANGED vars
    <2>1. TypeOK'
      BY <1>1 DEF vars, TypeOK, RowsOK
    <2>2. IInv'
      BY <1>1 DEF vars, IInv, RaceHolds, PushHolds, Inserting, ActiveOf, Active
    <2>3. WakeHolds => WakeHolds'
      BY <1>1 DEF vars, WakeHolds, Signal
    <2> QED BY <2>1, <2>2, <2>3
  <1>2. ASSUME NEW h \in Handlers, AddArrives(h) \/ QbitArrives(h) \/ Step(h) \/ HangsUp(h)
        PROVE  TypeOK' /\ IInv' /\ (WakeHolds => WakeHolds')
    BY <1>2, ArrivalsHold, QbitHolds, DedupHolds, InsertHolds DEF Step
  <1> QED BY <1>1, <1>2, LoopHolds, JobStepHolds DEF Next

\* An empty table is typed and in order.
LEMMA InitHolds == Init => TypeOK /\ IInv /\ WakeHolds
  <1> SUFFICES ASSUME Init PROVE TypeOK /\ IInv /\ WakeHolds
    OBVIOUS
  <1>1. NoRow \in Row /\ NoRow.state = "NONE"
    BY DEF NoRow, Row
  <1>2. Free \in Req /\ Free.pc = "free"
    BY NextReqs
  <1>3. TypeOK
    <2>1. RowsOK /\ \A j \in fresh : rows[j] = NoRow
      BY <1>1 DEF Init, RowsOK
    <2>2. req \in [Handlers -> Req] /\ \A h \in Handlers : req[h].pc = "free"
      BY <1>2 DEF Init
    <2>3. /\ loop \in [pc : {"wait", "claim", "submit"}, batch : SUBSET Jobs]
          /\ 0 \in 0..MaxNotices
      BY IntakeAssumption DEF Init
    <2>4. notice \in [Jobs -> 0..MaxNotices] /\ pings \in [Jobs -> 0..MaxNotices]
      BY <2>3 DEF Init
    <2> QED BY <2>1, <2>2, <2>3, <2>4 DEF Init, TypeOK, Req
  <1>4. RaceHolds
    BY <1>1, <1>2 DEF Init, RaceHolds, Inserting, ActiveOf, Active, ActiveStates
  <1>5. PushHolds /\ WakeHolds
    BY <1>1, IntakeAssumption DEF Init, PushHolds, WakeHolds
  <1> QED BY <1>3, <1>4, <1>5 DEF IInv

-----------------------------------------------------------------------------
(***************************************************************************)
(* The theorems                                                            *)
(***************************************************************************)
\* Requests, rows and the races they saw agree at every step of every run
\* (addfile.go, qbit/handlers.go, webhook.go).
THEOREM Inductive == Spec => [](TypeOK /\ IInv)
  <1>1. TypeOK /\ IInv /\ [Next]_vars => (TypeOK /\ IInv)'
    BY StepHolds
  <1> QED BY <1>1, InitHolds, PTL DEF Spec

\* No request, worker, webhook or notification takes a variable out of its type,
\* and no id is given out twice (addfile.go, qbit/handlers.go, webhook.go).
THEOREM TypeCorrect == Spec => []TypeOK
  BY Inductive, PTL

\* For any number of handlers, releases and jobs, two active jobs of a release
\* mean that two requests for it were between their look and their insert at
\* once (addfile.go acceptNZB, qbit/handlers.go insertJob).
THEOREM DuplicatesAreRaces == Spec => []DuplicatesNeedARace
  <1>1. RaceHolds => DuplicatesNeedARace
    <2> SUFFICES ASSUME RaceHolds, NEW r \in Releases, Cardinality(ActiveOf(r)) > 1
                 PROVE  r \in raced
      BY DEF DuplicatesNeedARace
    <2>1. CASE ActiveOf(r) = {}
      BY <2>1, FS_EmptySet
    <2>2. CASE ActiveOf(r) # {}
      <3>1. PICK j \in ActiveOf(r) : TRUE
        BY <2>2
      <3>2. Cardinality({j}) = 1
        BY FS_Singleton
      <3>3. ActiveOf(r) # {j}
        BY <3>2
      <3> QED BY <3>1, <3>3 DEF RaceHolds
    <2> QED BY <2>1, <2>2
  <1> QED BY <1>1, Inductive, PTL DEF IInv

\* However often and however concurrently TorBox delivers its events, a job is
\* notified at most once (webhook.go maybeFirePushover, jobs.go
\* MarkPushoverSent).
THEOREM OneNotification == Spec => []NotifiedOnce
  <1>1. PushHolds => NotifiedOnce
    BY DEF PushHolds, NotifiedOnce
  <1> QED BY <1>1, Inductive, PTL DEF IInv

\* In every run in which the pool always has room for the jobs that wait, the
\* loop never sleeps on a new job without a token in its channel or a handler
\* about to leave one (submitter.go submitterLoop, addfile.go signalWake).
THEOREM NoInsertIsOverlooked == Spec /\ []Room => []NoInsertOverlooked
  <1>1. Init => TypeOK /\ IInv /\ WakeHolds
    BY InitHolds
  <1>2. TypeOK /\ IInv /\ WakeHolds /\ Room /\ [Next]_vars => (TypeOK /\ IInv /\ WakeHolds)'
    BY StepHolds
  <1>3. WakeHolds => NoInsertOverlooked
    BY DEF WakeHolds, NoInsertOverlooked, Signal
  <1> QED BY <1>1, <1>2, <1>3, PTL DEF Spec

-----------------------------------------------------------------------------
(***************************************************************************)
(* What its clients are shown (Views), for every set of jobs and every     *)
(* limit of the two lists.                                                 *)
(***************************************************************************)
Cut(S, n) == Cardinality(S) = n

\* What the reading has so far: a job that has had a row ever since it began is
\* in the first list, has ended, or was left out of a first list that was full.
ReadingHolds == asked = 1 => \A j \in present :
    /\ j \in Ids /\ state[j] # "NONE"
    /\ j \in first \/ state[j] \in Terminal \/ Cut(first, QueueLimit)

\* LIMIT leaves a job out only of a list that is full.
LEMMA LimitedIsFull ==
    ASSUME NEW C, NEW key, NEW n, NEW S \in Limited(C, key, n), NEW j \in C
    PROVE  S \subseteq C /\ (j \in S \/ Cut(S, n))
  BY DEF Limited, Cut

\* Between the statements a job of the table may end, but not come back; one
\* that leaves is no longer expected (store/jobs.go Transition, Delete, Reap).
LEMMA TableHolds ==
    ASSUME ReadingHolds, state \in [Ids -> JobStates \cup {"NONE"}], NEW j \in Ids,
           Adds(j) \/ Moves(j) \/ Drops(j)
    PROVE  ReadingHolds' /\ state' \in [Ids -> JobStates \cup {"NONE"}]
  <1>1. \A i \in Ids \ {j} : state'[i] = state[i]
    BY DEF Adds, Moves, Drops, L!Insert, L!Move, L!Drop
  <1>2. UNCHANGED <<asked, first>>
    BY DEF Adds, Moves, Drops, reading
  <1>3. state' \in [Ids -> JobStates \cup {"NONE"}]
    BY DEF Adds, Moves, Drops, L!Insert, L!Move, L!Drop, JobStates, ActiveStates, Terminal,
           L!JobStates, L!ActiveStates, L!Terminal
  <1>4. CASE Adds(j)
    <2>1. present' = present /\ state[j] = "NONE"
      BY <1>4 DEF Adds, L!Insert
    <2> QED BY <1>1, <1>2, <1>3, <2>1 DEF ReadingHolds
  <1>5. CASE Moves(j)
    <2>1. PICK to \in L!JobStates : L!CanTransition(state[j], to) /\ state'[j] = to
      BY <1>5 DEF Moves, L!Move
    <2>2. state[j] \notin Terminal /\ to # "NONE"
      BY <2>1 DEF L!CanTransition, L!Successors, L!JobStates, L!ActiveStates, L!Terminal,
                  Terminal
    <2>3. present' = present
      BY <1>5 DEF Moves
    <2> QED BY <1>1, <1>2, <1>3, <2>1, <2>2, <2>3 DEF ReadingHolds
  <1>6. CASE Drops(j)
    <2>1. present' = present \ {j}
      BY <1>6 DEF Drops
    <2> QED BY <1>1, <1>2, <1>3, <2>1 DEF ReadingHolds
  <1> QED BY <1>3, <1>4, <1>5, <1>6

\* The first statement leaves out what has ended, and what a full list has no
\* room for.
LEMMA FirstHolds ==
    ASSUME state \in [Ids -> JobStates \cup {"NONE"}], ReadsFirst
    PROVE  ReadingHolds'
  <1> SUFFICES ASSUME NEW j \in present'
               PROVE  /\ j \in Ids /\ state[j] # "NONE"
                      /\ j \in first' \/ state[j] \in Terminal \/ Cut(first', QueueLimit)
    BY DEF ReadsFirst, table, ReadingHolds, Cut
  <1>1. j \in Ids /\ state[j] # "NONE" /\ first' \in ListActive
    BY DEF ReadsFirst, Statement
  <1>2. CASE state[j] \in ActiveStates
    BY <1>1, <1>2, LimitedIsFull DEF ListActive
  <1> QED BY <1>1, <1>2 DEF JobStates

LEMMA ViewsStepHolds ==
    ASSUME ReadingHolds, state \in [Ids -> JobStates \cup {"NONE"}], [ViewsNext]_viewsVars
    PROVE  /\ ReadingHolds' /\ state' \in [Ids -> JobStates \cup {"NONE"}]
  <1>1. CASE ReadsFirst
    BY <1>1, FirstHolds DEF ReadsFirst, table
  <1>2. CASE ReadsSecond
    BY <1>2 DEF ReadsSecond, table, ReadingHolds
  <1>3. CASE Fails
    BY <1>3 DEF Fails, table, ReadingHolds
  <1>4. ASSUME NEW j \in Ids, Adds(j) \/ Moves(j) \/ Drops(j)
        PROVE  ReadingHolds' /\ state' \in [Ids -> JobStates \cup {"NONE"}]
    BY <1>4, TableHolds
  <1>5. CASE UNCHANGED viewsVars
    BY <1>5 DEF viewsVars, table, reading, ReadingHolds, Cut
  <1> QED BY <1>1, <1>2, <1>3, <1>4, <1>5 DEF ViewsNext

\* A job that is there throughout the reading is in the answer, unless the list
\* of its kind is full.
LEMMA AnswerHolds ==
    ASSUME ReadingHolds, state \in [Ids -> JobStates \cup {"NONE"}], [ViewsNext]_viewsVars,
           asked = 1, asked' = 2, NEW j \in present
    PROVE  \/ j \in first \cup second'
           \/ IF state[j] \in Terminal THEN Cardinality(second') = HistoryLimit
                                       ELSE Cardinality(first) = QueueLimit
  <1>1. second' \in ListReady
    BY DEF ViewsNext, viewsVars, reading, ReadsFirst, ReadsSecond, Fails, Adds, Moves, Drops,
           Statement
  <1>2. /\ j \in Ids
        /\ j \in first \/ state[j] \in Terminal \/ Cut(first, QueueLimit)
    BY DEF ReadingHolds
  <1>3. CASE state[j] \in Terminal
    <2>1. j \in second' \/ Cut(second', HistoryLimit)
      BY <1>1, <1>2, <1>3, LimitedIsFull DEF ListReady
    <2> QED BY <1>3, <2>1 DEF Cut
  <1>4. CASE state[j] \notin Terminal
    BY <1>2, <1>4 DEF Cut
  <1> QED BY <1>3, <1>4

\* No job that has a row throughout a reading is missing from its answer, unless
\* the list of its kind is full (ListByCategory, handleQueue and handleHistory).
THEOREM NoJobVanishes == ViewsSpec => NothingVanishes
  <1> DEFINE Inv == ReadingHolds /\ state \in [Ids -> JobStates \cup {"NONE"}]
  <1>1. ViewsInit => Inv
    BY DEF ViewsInit, ReadingHolds
  <1>2. Inv /\ [ViewsNext]_viewsVars => Inv'
    BY ViewsStepHolds
  <1>3. Inv /\ [ViewsNext]_viewsVars =>
          [asked = 1 /\ asked' = 2 => \A j \in present :
           \/ j \in first \cup second'
           \/ IF state[j] \in Terminal THEN Cardinality(second') = HistoryLimit
                                       ELSE Cardinality(first) = QueueLimit]_viewsVars
    BY AnswerHolds
  <1> HIDE DEF Inv
  <1> QED BY <1>1, <1>2, <1>3, PTL DEF ViewsSpec, NothingVanishes
=============================================================================
