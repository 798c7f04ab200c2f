---------------------------- MODULE EmitterProofs ----------------------------
(***************************************************************************)
(* Theorems about Emitter for every set of jobs, every number of workers,  *)
(* every size of the buffer, every number of posts and of crashes.         *)
(***************************************************************************)
EXTENDS Emitter, JobStoreProofs, FiniteSetTheorems

\* The states in the order the table leads through them.
Rank(s) == CASE s = "NEW" -> 0 [] s = "SUBMITTED" -> 1 [] s = "DOWNLOADING" -> 2
             [] s = "COMPLETED_TORBOX" -> 3 [] s \in Terminal -> 4 [] OTHER -> 5

\* A worker is about to make a move of the table, and the goroutine delivers
\* one that was made.
HandsHold ==
    /\ \A w \in Workers : work[w].pc # "idle" =>
           work[w].move \in Move /\ CanTransition(work[w].move.from, work[w].move.to)
    /\ out.pc # "idle" => out.move \in Move

\* A move that was made lies behind its row, and no other left the same state.
MovesHold ==
    /\ \A m \in moved : Rank(m.from) < Rank(rows[m.job].state)
    /\ \A m, n \in moved : m.job = n.job /\ m.from = n.from => m = n

\* READY comes with a path, and ends the job.
ReadyHolds ==
    /\ \A j \in Jobs : rows[j].state = "READY" => rows[j].local
    /\ \A m \in moved : m.to = "READY" => rows[m.job].state \in {"READY", "NONE"}
    /\ out.pc = "post" /\ out.move.to = "READY" /\ out.loaded => out.path

ToldMoves == {p.move : p \in told}

Apart(P, B, D, L, T) ==
    /\ P \cap B = {} /\ P \cap D = {} /\ P \cap L = {} /\ P \cap T = {}
    /\ B \cap D = {} /\ B \cap L = {} /\ B \cap T = {}
    /\ D \cap L = {} /\ D \cap T = {} /\ L \cap T = {}

InHand(w) == work[w].pc \in {"send", "drop", "again"}
NoneTwice(s) == \A i, k \in 1..Len(s) : s[i] = s[k] => i = k

\* Every move made is in the hands of one worker, or in one slot of the channel,
\* or being delivered, or given up, or told.
PlacesHold ==
    /\ Apart(Pending, Buffered, Delivering, lost, ToldMoves)
    /\ moved = Pending \cup Buffered \cup Delivering \cup lost \cup ToldMoves
    /\ \A v, w \in Workers : InHand(v) /\ InHand(w) /\ work[v].move = work[w].move => v = w
    /\ NoneTwice(ch)

IInv == HandsHold /\ MovesHold /\ ReadyHolds /\ PlacesHold /\ ReadyHasPath

-----------------------------------------------------------------------------
(***************************************************************************)
(* Rows                                                                    *)
(***************************************************************************)
\* The table leads upwards only (state.go).
LEMMA RankGrows ==
    /\ \A s : Rank(s) \in 0..5
    /\ \A s, t : CanTransition(s, t) => Rank(s) < Rank(t)
    /\ \A s \in Terminal : Rank(s) < Rank("NONE") /\ \A t : ~CanTransition(s, t)
  BY DEF Rank, CanTransition, Successors, Terminal

\* A worker's statement makes its move if the row is still where it saw it, and
\* nothing else ever (jobs.go Transition, MarkLocalReady).
LEMMA WriteMoves ==
    ASSUME RowsOK, NEW m \in Move, CanTransition(m.from, m.to)
    PROVE  LET rs == Write(m) IN
           /\ rs \in [Jobs -> Row]
           /\ \A i \in Jobs \ {m.job} : rs[i] = rows[i]
           /\ Applies(m.job, m.from, m.to) => /\ rs[m.job].state = m.to
                                              /\ m.to = "READY" => rs[m.job].local
           /\ ~Applies(m.job, m.from, m.to) => rs = rows
  <1>1. PICK j \in Jobs, from, to \in JobStates : j = m.job /\ from = m.from /\ to = m.to
    BY DEF Move
  <1>2. rows[j] \in Row
    BY DEF RowsOK
  <1>3. CASE to = "READY"
    <2>1. from = "COMPLETED_TORBOX"
      BY <1>1, <1>3 DEF CanTransition, Successors
    <2>2. Write(m) = MarkLocalReady(j)
      BY <1>1, <1>3 DEF Write
    <2>3. Applies(j, from, to) <=> rows[j].state = "COMPLETED_TORBOX"
      BY <1>1, <2>1 DEF Applies
    <2> QED BY <1>1, <1>3, <2>2, <2>3, MarkLocalReadyMoves DEF MovesOn
  <1>4. CASE to # "READY"
    <2>1. Write(m) = Transition(j, from, to, rows[j])
      BY <1>1, <1>4 DEF Write
    <2>2. LET rs == Transition(j, from, to, rows[j]) IN
          /\ rs \in [Jobs -> Row] /\ \A i \in Jobs \ {j} : rs[i] = rows[i]
          /\ Applies(j, from, to) => rs[j].state = to
          /\ ~Applies(j, from, to) => rs = rows
      BY <1>2, TransitionMoves DEF MovesOn
    <2> QED BY <1>1, <1>4, <2>1, <2>2
  <1> QED BY <1>3, <1>4

-----------------------------------------------------------------------------
(***************************************************************************)
(* Places                                                                  *)
(***************************************************************************)
\* Taking the head of the channel takes one event out of it.
LEMMA HeadLeaves ==
    ASSUME ch \in Seq(Move), ch # << >>, NoneTwice(ch), ch' = Tail(ch)
    PROVE  /\ ch' \in Seq(Move) /\ Len(ch') = Len(ch) - 1 /\ Head(ch) \in Move
           /\ Head(ch) \in Buffered /\ Buffered' = Buffered \ {Head(ch)}
           /\ NoneTwice(ch')
  <1>1. /\ ch' \in Seq(Move) /\ Len(ch') = Len(ch) - 1 /\ Len(ch') \in Nat
        /\ \A i \in 1..Len(ch') : ch'[i] = ch[i + 1]
        /\ Head(ch) = ch[1] /\ 1 \in 1..Len(ch) /\ Head(ch) \in Move
    OBVIOUS
  <1>2. \A i \in 1..Len(ch) : i = 1 \/ (i - 1 \in 1..Len(ch') /\ ch'[i - 1] = ch[i])
    BY <1>1
  <1>3. \A i \in 1..Len(ch') : i + 1 \in 1..Len(ch) /\ i + 1 # 1
    BY <1>1
  <1>4. NoneTwice(ch')
    BY <1>1, <1>3 DEF NoneTwice
  <1>5. Buffered' = Buffered \ {Head(ch)}
    <2>1. ASSUME NEW x \in Buffered' PROVE x \in Buffered \ {Head(ch)}
      BY <1>1, <1>3, <2>1 DEF Buffered, NoneTwice
    <2>2. ASSUME NEW x \in Buffered, x # Head(ch) PROVE x \in Buffered'
      BY <1>1, <1>2, <2>2 DEF Buffered
    <2> QED BY <2>1, <2>2
  <1> QED BY <1>1, <1>4, <1>5 DEF Buffered

\* Sending puts one event into it.
LEMMA LastArrives ==
    ASSUME ch \in Seq(Move), NEW m \in Move, m \notin Buffered, NoneTwice(ch),
           ch' = Append(ch, m)
    PROVE  /\ ch' \in Seq(Move) /\ Len(ch') = Len(ch) + 1
           /\ Buffered' = Buffered \cup {m} /\ NoneTwice(ch')
  <1>1. /\ ch' \in Seq(Move) /\ Len(ch') = Len(ch) + 1 /\ Len(ch) \in Nat
        /\ \A i \in 1..Len(ch) : ch'[i] = ch[i]
        /\ ch'[Len(ch) + 1] = m
    OBVIOUS
  <1>2. \A i \in 1..Len(ch') : i \in 1..Len(ch) \/ i = Len(ch) + 1
    BY <1>1
  <1>3. 1..Len(ch) \subseteq 1..Len(ch') /\ Len(ch) + 1 \in 1..Len(ch')
    BY <1>1
  <1>4. NoneTwice(ch')
    <2>1. \A i \in 1..Len(ch) : ch[i] # m
      BY DEF Buffered
    <2> QED BY <1>1, <1>2, <2>1 DEF NoneTwice
  <1>5. Buffered' = Buffered \cup {m}
    BY <1>1, <1>2, <1>3 DEF Buffered
  <1> QED BY <1>1, <1>4, <1>5

Hand(w) == IF InHand(w) THEN {work[w].move} ELSE {}

\* A worker changes what is in its own hands.
LEMMA HandsChange ==
    ASSUME PlacesHold, NEW w \in Workers, \A v \in Workers \ {w} : work'[v] = work[v]
    PROVE  Pending' = (Pending \ Hand(w)) \cup Hand(w)'
  <1>1. ASSUME NEW x \in Pending' PROVE x \in (Pending \ Hand(w)) \cup Hand(w)'
    <2>1. PICK v \in Workers : InHand(v)' /\ x = work'[v].move
      BY <1>1 DEF Pending, InHand
    <2>2. CASE v = w
      BY <2>1, <2>2 DEF Hand
    <2>3. CASE v # w
      <3>1. InHand(v) /\ x = work[v].move
        BY <2>1, <2>3 DEF InHand
      <3>2. x \in Pending
        BY <3>1 DEF Pending, InHand
      <3>3. x \notin Hand(w)
        BY <2>3, <3>1 DEF PlacesHold, Hand
      <3> QED BY <3>2, <3>3
    <2> QED BY <2>2, <2>3
  <1>2. ASSUME NEW x \in Pending, x \notin Hand(w) PROVE x \in Pending'
    <2>1. PICK v \in Workers : InHand(v) /\ x = work[v].move
      BY <1>2 DEF Pending, InHand
    <2>2. v # w
      BY <1>2, <2>1 DEF Hand
    <2>3. InHand(v)' /\ x = work'[v].move
      BY <2>1, <2>2 DEF InHand
    <2> QED BY <2>3 DEF Pending, InHand
  <1>3. Hand(w)' \subseteq Pending'
    BY DEF Hand, Pending, InHand
  <1> QED BY <1>1, <1>2, <1>3

\* No two workers hold the same event, if the one that moves holds what it held,
\* nothing, or something nobody holds.
LEMMA HandsApart ==
    ASSUME PlacesHold, NEW w \in Workers, \A v \in Workers \ {w} : work'[v] = work[v],
           InHand(w)' => Hand(w)' = Hand(w) \/ work'[w].move \notin Pending
    PROVE  (\A u, v \in Workers :
                InHand(u) /\ InHand(v) /\ work[u].move = work[v].move => u = v)'
  <1> SUFFICES ASSUME NEW v \in Workers \ {w}, InHand(w)', InHand(v)',
                      work'[w].move = work'[v].move
               PROVE  FALSE
    BY DEF PlacesHold, InHand
  <1>1. InHand(v) /\ work'[v].move = work[v].move /\ work[v].move \in Pending
    BY DEF InHand, Pending
  <1>2. Hand(w)' = Hand(w) /\ InHand(w) /\ work'[w].move = work[w].move
    BY <1>1 DEF Hand
  <1> QED BY <1>1, <1>2 DEF PlacesHold

\* The places of events are in the variables of workers and delivery.
LEMMA PlacesStay ==
    ASSUME PlacesHold, UNCHANGED <<work, ch, out, moved, told, lost>>
    PROVE  PlacesHold'
  <1>1. UNCHANGED <<Pending, Buffered, Delivering, ToldMoves>>
    BY DEF Pending, Buffered, Delivering, ToldMoves
  <1>2. NoneTwice(ch')
    BY DEF PlacesHold
  <1>3. (\A u, v \in Workers :
            InHand(u) /\ InHand(v) /\ work[u].move = work[v].move => u = v)'
    BY DEF PlacesHold, InHand
  <1> QED BY <1>1, <1>2, <1>3 DEF PlacesHold, Apart

-----------------------------------------------------------------------------
(***************************************************************************)
(* Steps                                                                   *)
(***************************************************************************)
Work == [pc : {"idle", "write", "send", "drop", "again"}, move : Move \cup {NoMove}]
Out == [pc : {"idle", "load", "post"}, move : Move \cup {NoMove},
        loaded : BOOLEAN, path : BOOLEAN, tries : 0..MaxTries - 1]

\* The parts of TypeOK, under the primes.
LEMMA TypedParts ==
    ASSUME RowsOK', work' \in [Workers -> Work], ch' \in Seq(Move), Len(ch') <= BufferSize,
           out' \in Out, moved' \subseteq Move, lost' \subseteq Move, told' \subseteq Payload,
           crashes' \in 0..MaxCrashes
    PROVE  TypeOK'
  BY DEF TypeOK, Work, Out

\* The types of what a step reads.
LEMMA Typed ==
    ASSUME TypeOK
    PROVE  /\ RowsOK /\ work \in [Workers -> Work] /\ out \in Out
           /\ ch \in Seq(Move) /\ Len(ch) \in Nat /\ Len(ch) <= BufferSize
           /\ moved \subseteq Move /\ lost \subseteq Move /\ told \subseteq Payload
           /\ crashes \in 0..MaxCrashes /\ MaxCrashes \in Nat
           /\ BufferSize \in Nat \ {0} /\ MaxTries \in Nat \ {0}
  BY EmitterAssumption DEF TypeOK, Work, Out

\* A worker that decides holds no event yet.
LEMMA WorkerReadsHolds ==
    ASSUME TypeOK, IInv, NEW w \in Workers, WorkerReads(w)
    PROVE  TypeOK' /\ IInv'
  <1>1. /\ UNCHANGED <<rows, ch, out, moved, told, lost, crashes>>
        /\ work[w].pc = "idle"
    BY DEF WorkerReads
  <1>0. PICK j \in Jobs : \E to \in Successors(rows[j].state) :
            work' = [work EXCEPT ![w] =
                [pc |-> "write", move |-> [job |-> j, from |-> rows[j].state, to |-> to]]]
    BY DEF WorkerReads
  <1>2. PICK to \in Successors(rows[j].state) :
            work' = [work EXCEPT ![w] =
                [pc |-> "write", move |-> [job |-> j, from |-> rows[j].state, to |-> to]]]
    BY <1>0
  <1> DEFINE m == [job |-> j, from |-> rows[j].state, to |-> to]
  <1>3. m \in Move /\ CanTransition(m.from, m.to)
    <2>1. CanTransition(rows[j].state, to)
      BY DEF CanTransition
    <2>2. rows[j].state \in JobStates /\ to \in JobStates
      BY <2>1 DEF CanTransition, Successors, JobStates, ActiveStates, Terminal
    <2> QED BY <2>1, <2>2 DEF Move
  <1> HIDE DEF m
  <1>4. /\ work' \in [Workers -> Work] /\ work'[w].pc = "write" /\ work'[w].move = m
        /\ \A v \in Workers \ {w} : work'[v] = work[v]
    BY <1>2, <1>3, Typed DEF Work, m
  <1>5. TypeOK'
    BY <1>1, <1>4, Typed, TypedParts DEF RowsOK
  <1>6. Pending' = Pending
    BY <1>1, <1>4, HandsChange DEF IInv, Hand, InHand
  <1>7. PlacesHold'
    <2>1. (\A u, v \in Workers :
                InHand(u) /\ InHand(v) /\ work[u].move = work[v].move => u = v)'
      BY <1>4, HandsApart DEF IInv, InHand
    <2> QED BY <1>1, <1>6, <2>1 DEF IInv, PlacesHold, Apart, Buffered, Delivering, ToldMoves,
                                   NoneTwice
  <1>8. HandsHold'
    BY <1>1, <1>3, <1>4 DEF IInv, HandsHold
  <1>9. MovesHold' /\ ReadyHolds' /\ ReadyHasPath'
    BY <1>1 DEF IInv, MovesHold, ReadyHolds, ReadyHasPath
  <1> QED BY <1>5, <1>7, <1>8, <1>9 DEF IInv

\* A write that succeeds makes a move that was never made before.
LEMMA WorkerWritesHolds ==
    ASSUME TypeOK, IInv, NEW w \in Workers, WorkerWrites(w)
    PROVE  TypeOK' /\ IInv'
  <1> DEFINE m == work[w].move
  <1>1. /\ UNCHANGED <<ch, out, told, lost, crashes>>
        /\ rows' = Write(m) /\ work[w].pc = "write"
    BY DEF WorkerWrites
  <1>2. m \in Move /\ CanTransition(m.from, m.to)
    BY <1>1 DEF IInv, HandsHold
  <1> HIDE DEF m
  <1>3. CASE ~Applies(m.job, m.from, m.to)
    <2>1. moved' = moved /\ work' = [work EXCEPT ![w] = Idle] /\ rows' = rows
      BY <1>1, <1>2, <1>3, WriteMoves, Typed DEF WorkerWrites, m
    <2>2. /\ work' \in [Workers -> Work] /\ work'[w].pc = "idle"
          /\ \A v \in Workers \ {w} : work'[v] = work[v]
      BY <2>1, Typed DEF Work, Idle
    <2>3. TypeOK'
      BY <1>1, <2>1, <2>2, Typed, TypedParts DEF RowsOK
    <2>4. Pending' = Pending
      BY <1>1, <2>2, HandsChange DEF IInv, Hand, InHand
    <2>5. PlacesHold'
      <3>1. (\A u, v \in Workers :
                  InHand(u) /\ InHand(v) /\ work[u].move = work[v].move => u = v)'
        BY <2>2, HandsApart DEF IInv, InHand
      <3> QED BY <1>1, <2>1, <2>4, <3>1
              DEF IInv, PlacesHold, Apart, Buffered, Delivering, ToldMoves, NoneTwice
    <2>6. HandsHold'
      BY <1>1, <2>2 DEF IInv, HandsHold
    <2>7. MovesHold' /\ ReadyHolds' /\ ReadyHasPath'
      BY <1>1, <2>1 DEF IInv, MovesHold, ReadyHolds, ReadyHasPath
    <2> QED BY <2>3, <2>5, <2>6, <2>7 DEF IInv
  <1>4. CASE Applies(m.job, m.from, m.to)
    <2>1. /\ moved' = moved \cup {m} /\ work' = [work EXCEPT ![w].pc = "send"]
          /\ rows[m.job].state = m.from /\ m.job \in Jobs
      BY <1>2, <1>4 DEF WorkerWrites, m, Applies, Move
    <2>2. /\ rows' \in [Jobs -> Row] /\ \A i \in Jobs \ {m.job} : rows'[i] = rows[i]
          /\ rows'[m.job].state = m.to /\ (m.to = "READY" => rows'[m.job].local)
      BY <1>1, <1>2, <1>4, WriteMoves, Typed
    <2>3. /\ work' \in [Workers -> Work] /\ work'[w].pc = "send" /\ work'[w].move = m
          /\ \A v \in Workers \ {w} : work'[v] = work[v]
      BY <2>1, Typed DEF Work, m
    <2>4. TypeOK'
      BY <1>1, <1>2, <2>1, <2>2, <2>3, Typed, TypedParts DEF RowsOK
    <2>5. \A n \in moved : n.job = m.job => Rank(n.from) < Rank(m.from)
      BY <2>1 DEF IInv, MovesHold
    <2>6. m \notin moved /\ \A n \in moved : n.job = m.job => n.from # m.from
      BY <2>5, RankGrows
    <2>7. Pending' = Pending \cup {m}
      BY <1>1, <2>3, HandsChange DEF IInv, Hand, InHand
    <2>8. PlacesHold'
      <3>1. m \notin Pending
        BY <2>6 DEF IInv, PlacesHold
      <3>2. (\A u, v \in Workers :
                  InHand(u) /\ InHand(v) /\ work[u].move = work[v].move => u = v)'
        BY <2>3, <3>1, HandsApart DEF IInv, InHand
      <3>3. UNCHANGED <<Buffered, Delivering, ToldMoves, lost>> /\ NoneTwice(ch')
        BY <1>1 DEF IInv, PlacesHold, Buffered, Delivering, ToldMoves, NoneTwice
      <3> QED BY <2>1, <2>6, <2>7, <3>2, <3>3 DEF IInv, PlacesHold, Apart
    <2>9. HandsHold'
      BY <1>1, <1>2, <2>3 DEF IInv, HandsHold
    <2>10. Rank(m.from) < Rank(m.to)
      BY <1>2, RankGrows
    <2>11. MovesHold'
      <3>1. ASSUME NEW n \in moved' PROVE Rank(n.from) < Rank(rows'[n.job].state)
        <4>1. CASE n = m
          BY <2>2, <2>10, <4>1
        <4>2. CASE n # m /\ n.job = m.job
          <5>1. Rank(n.from) < Rank(m.from)
            BY <2>1, <2>5, <4>2
          <5> QED BY <2>2, <2>10, <4>2, <5>1, RankGrows
        <4>3. CASE n # m /\ n.job # m.job
          <5>1. n \in moved /\ n.job \in Jobs
            BY <2>1, <4>3, Typed DEF Move
          <5> QED BY <2>2, <4>3, <5>1 DEF IInv, MovesHold
        <4> QED BY <4>1, <4>2, <4>3
      <3> QED BY <2>1, <2>6, <3>1 DEF IInv, MovesHold
    <2>12. ReadyHolds'
      <3>1. \A j \in Jobs : rows'[j].state = "READY" => rows'[j].local
        BY <2>2 DEF IInv, ReadyHolds
      <3>2. ASSUME NEW n \in moved', n.to = "READY" PROVE rows'[n.job].state \in {"READY", "NONE"}
        <4>1. CASE n = m
          BY <2>2, <3>2, <4>1
        <4>2. CASE n # m
          <5>1. n \in moved /\ n.job \in Jobs
            BY <2>1, <4>2, Typed DEF Move
          <5>2. rows[n.job].state \in {"READY", "NONE"}
            BY <3>2, <5>1 DEF IInv, ReadyHolds
          <5>3. \A t : ~CanTransition("READY", t) /\ ~CanTransition("NONE", t)
            BY DEF CanTransition, Successors
          <5>4. n.job # m.job
            BY <1>2, <2>1, <5>2, <5>3
          <5> QED BY <2>2, <5>1, <5>2, <5>4
        <4> QED BY <4>1, <4>2
      <3> QED BY <1>1, <3>1, <3>2 DEF IInv, ReadyHolds
    <2>13. ReadyHasPath'
      BY <1>1 DEF IInv, ReadyHasPath
    <2> QED BY <2>4, <2>8, <2>9, <2>11, <2>12, <2>13 DEF IInv
  <1> QED BY <1>3, <1>4

\* Enqueue passes its event on, drops another, or gives its own up: none is in
\* two places, none in no place (emitter.go Enqueue).
LEMMA EnqueueHolds ==
    ASSUME TypeOK, IInv, NEW w \in Workers, Enqueue(w)
    PROVE  TypeOK' /\ IInv'
  <1> DEFINE m == work[w].move
  <1>1. UNCHANGED <<rows, out, moved, told, crashes>> /\ InHand(w) /\ work \in [Workers -> Work]
    BY Typed DEF Enqueue, Sends, DropsOldest, SendsAgain, InHand
  <1>2. m \in Move /\ CanTransition(m.from, m.to) /\ m \in Pending /\ Hand(w) = {m}
    BY <1>1 DEF IInv, HandsHold, InHand, Pending, Hand
  <1> HIDE DEF m
  <1>3. m \notin Buffered /\ NoneTwice(ch) /\ PlacesHold /\ ch \in Seq(Move)
    BY <1>2, Typed DEF IInv, PlacesHold, Apart
  <1>4. /\ Delivering' = Delivering /\ ToldMoves' = ToldMoves
        /\ MovesHold' /\ ReadyHolds' /\ ReadyHasPath'
    BY <1>1 DEF IInv, MovesHold, ReadyHolds, ReadyHasPath, Delivering, ToldMoves
  <1>5. ASSUME work' = [work EXCEPT ![w] = Idle]
        PROVE  /\ work' \in [Workers -> Work] /\ Pending' = Pending \ {m} /\ HandsHold'
               /\ (\A u, v \in Workers :
                       InHand(u) /\ InHand(v) /\ work[u].move = work[v].move => u = v)'
    <2>1. /\ work' \in [Workers -> Work] /\ work'[w].pc = "idle"
          /\ \A v \in Workers \ {w} : work'[v] = work[v]
      BY <1>1, <1>5 DEF Work, Idle
    <2>2. ~InHand(w)' /\ Hand(w)' = {}
      BY <2>1 DEF InHand, Hand
    <2> QED BY <1>1, <1>2, <1>3, <2>1, <2>2, HandsChange, HandsApart DEF IInv, HandsHold
  <1>6. ASSUME NEW pc \in {"drop", "again"}, work' = [work EXCEPT ![w].pc = pc]
        PROVE  /\ work' \in [Workers -> Work] /\ Pending' = Pending /\ HandsHold'
               /\ (\A u, v \in Workers :
                       InHand(u) /\ InHand(v) /\ work[u].move = work[v].move => u = v)'
    <2>1. /\ work' \in [Workers -> Work] /\ work'[w].pc = pc /\ work'[w].move = m
          /\ \A v \in Workers \ {w} : work'[v] = work[v]
      BY <1>1, <1>6 DEF Work, m
    <2>2. Hand(w)' = Hand(w)
      BY <1>2, <2>1 DEF InHand, Hand
    <2>3. Pending' = Pending
      <3>1. Pending' = (Pending \ Hand(w)) \cup Hand(w)'
        BY <1>3, <2>1, HandsChange
      <3> QED BY <1>2, <2>2, <3>1
    <2>4. HandsHold'
      BY <1>1, <1>2, <2>1 DEF IInv, HandsHold
    <2> QED BY <1>3, <2>1, <2>2, <2>3, <2>4, HandsApart
  <1>7. ASSUME work' \in [Workers -> Work], ch' \in Seq(Move), Len(ch') <= BufferSize,
               lost' \subseteq Move
        PROVE  TypeOK'
    BY <1>1, <1>7, Typed, TypedParts DEF RowsOK
  <1>8. CASE Room /\ ch' = Append(ch, m) /\ lost' = lost /\ work' = [work EXCEPT ![w] = Idle]
    <2>1. /\ ch' \in Seq(Move) /\ Len(ch') = Len(ch) + 1
          /\ Buffered' = Buffered \cup {m} /\ NoneTwice(ch')
      BY <1>2, <1>3, <1>8, LastArrives
    <2>2. Len(ch') <= BufferSize
      BY <1>8, <2>1, Typed DEF Room
    <2>3. PlacesHold'
      BY <1>1, <1>2, <1>3, <1>4, <1>5, <1>8, <2>1 DEF PlacesHold, Apart
    <2> QED BY <1>4, <1>5, <1>7, <1>8, <2>1, <2>2, <2>3, Typed DEF IInv
  <1>9. CASE /\ ch' = ch /\ lost' = lost /\ work' = [work EXCEPT ![w].pc = "drop"]
    <2>1. Buffered' = Buffered /\ NoneTwice(ch')
      BY <1>3, <1>9 DEF Buffered
    <2>2. PlacesHold'
      BY <1>1, <1>3, <1>4, <1>6, <1>9, <2>1 DEF PlacesHold, Apart
    <2> QED BY <1>3, <1>4, <1>6, <1>7, <1>9, <2>2, Typed DEF IInv
  <1>10. CASE DropsOldest(w)
    <2>1. work' = [work EXCEPT ![w].pc = "again"]
      BY <1>10 DEF DropsOldest
    <2>2. CASE ch = << >>
      <3>1. UNCHANGED <<ch, lost>>
        BY <1>10, <2>2 DEF DropsOldest
      <3>2. Buffered' = Buffered /\ NoneTwice(ch')
        BY <1>3, <3>1 DEF Buffered
      <3>3. PlacesHold'
        BY <1>1, <1>3, <1>4, <1>6, <2>1, <3>1, <3>2 DEF PlacesHold, Apart
      <3> QED BY <1>3, <1>4, <1>6, <1>7, <2>1, <3>1, <3>3, Typed DEF IInv
    <2>3. CASE ch # << >>
      <3>1. ch' = Tail(ch) /\ lost' = lost \cup {Head(ch)}
        BY <1>10, <2>3 DEF DropsOldest
      <3>2. /\ ch' \in Seq(Move) /\ Len(ch') = Len(ch) - 1 /\ Head(ch) \in Move
            /\ Head(ch) \in Buffered /\ Buffered' = Buffered \ {Head(ch)}
            /\ NoneTwice(ch')
        BY <1>3, <2>3, <3>1, HeadLeaves
      <3>3. PlacesHold'
        BY <1>1, <1>3, <1>4, <1>6, <2>1, <3>1, <3>2 DEF PlacesHold, Apart
      <3>4. Len(ch') <= BufferSize
        BY <3>2, Typed
      <3> QED BY <1>4, <1>6, <1>7, <2>1, <3>1, <3>2, <3>3, <3>4, Typed DEF IInv
    <2> QED BY <2>2, <2>3
  <1>11. CASE ch' = ch /\ lost' = lost \cup {m} /\ work' = [work EXCEPT ![w] = Idle]
    <2>1. Buffered' = Buffered /\ NoneTwice(ch')
      BY <1>3, <1>11 DEF Buffered
    <2>2. PlacesHold'
      BY <1>1, <1>2, <1>3, <1>4, <1>5, <1>11, <2>1 DEF PlacesHold, Apart
    <2> QED BY <1>2, <1>3, <1>4, <1>5, <1>7, <1>11, <2>2, Typed DEF IInv
  <1> QED BY <1>8, <1>9, <1>10, <1>11 DEF Enqueue, Sends, SendsAgain, m

\* The goroutine takes an event from the channel, and it lies in one place
\* until it is told or given up (emitter.go Run, deliver).
LEMMA DeliveryHolds ==
    ASSUME TypeOK, IInv, Takes \/ Loads \/ PostSucceeds \/ PostFails
    PROVE  TypeOK' /\ IInv'
  <1>1. UNCHANGED <<rows, work, moved, crashes>>
    BY DEF Takes, Loads, PostSucceeds, PostFails
  <1>2. /\ Pending' = Pending /\ MovesHold'
        /\ \A w \in Workers : work'[w].pc # "idle" =>
               work'[w].move \in Move /\ CanTransition(work'[w].move.from, work'[w].move.to)
        /\ (\A u, v \in Workers :
                InHand(u) /\ InHand(v) /\ work[u].move = work[v].move => u = v)'
    BY <1>1 DEF IInv, HandsHold, MovesHold, PlacesHold, InHand, Pending
  <1>3. NoEvent \in Out /\ NoEvent.pc = "idle"
    BY Typed DEF NoEvent, Out
  <1>4. ASSUME ch' \in Seq(Move), Len(ch') <= BufferSize, out' \in Out, lost' \subseteq Move,
               told' \subseteq Payload
        PROVE  TypeOK'
    BY <1>1, <1>4, Typed, TypedParts DEF RowsOK
  <1>5. \A m : IsTold(m, told) <=> m \in ToldMoves
    BY DEF IsTold, ToldMoves
  <1>6. CASE Takes
    <2>1. /\ out.pc = "idle" /\ ch # << >> /\ ch' = Tail(ch) /\ UNCHANGED <<told, lost>>
          /\ out' = [NoEvent EXCEPT !.pc = "load", !.move = Head(ch)]
      BY <1>6 DEF Takes
    <2>2. /\ ch' \in Seq(Move) /\ Len(ch') = Len(ch) - 1 /\ Head(ch) \in Move
          /\ Head(ch) \in Buffered /\ Buffered' = Buffered \ {Head(ch)}
          /\ NoneTwice(ch')
      BY <2>1, HeadLeaves, Typed DEF IInv, PlacesHold
    <2>3. out' \in Out /\ out'.pc = "load" /\ out'.move = Head(ch)
      BY <1>3, <2>1, <2>2 DEF Out
    <2>4. TypeOK'
      <3>1. Len(ch') <= BufferSize
        BY <2>2, Typed
      <3> QED BY <1>4, <2>1, <2>2, <2>3, <3>1, Typed
    <2>5. Delivering = {} /\ Delivering' = {Head(ch)} /\ ToldMoves' = ToldMoves
      <3>1. Head(ch) \notin ToldMoves
        BY <2>2 DEF IInv, PlacesHold, Apart
      <3> QED BY <1>5, <2>1, <2>3, <3>1 DEF Delivering, ToldMoves
    <2>6. PlacesHold'
      BY <1>1, <1>2, <2>1, <2>2, <2>5 DEF IInv, PlacesHold, Apart
    <2>7. HandsHold' /\ ReadyHolds' /\ ReadyHasPath'
      BY <1>1, <1>2, <2>1, <2>2, <2>3 DEF IInv, HandsHold, ReadyHolds, ReadyHasPath
    <2> QED BY <1>2, <2>4, <2>6, <2>7 DEF IInv
  <1>7. CASE Loads
    <2>1. /\ out.pc = "load" /\ UNCHANGED <<ch, told, lost>> /\ out.move \in Move /\ out \in Out
      BY <1>7, Typed DEF Loads, IInv, HandsHold
    <2>2. PICK loaded \in {FALSE, Exists(out.move.job)} :
              out' = [out EXCEPT !.pc = "post", !.loaded = loaded,
                                 !.path = loaded /\ rows[out.move.job].local]
      BY <1>7 DEF Loads
    <2>3. loaded \in BOOLEAN /\ (loaded => Exists(out.move.job))
      BY <2>2 DEF Exists
    <2>4. out.move.job \in Jobs /\ rows[out.move.job].local \in BOOLEAN
      BY <2>1, Typed DEF Move, RowsOK, Row
    <2>5. /\ out' \in Out /\ out'.pc = "post" /\ out'.move = out.move
          /\ out'.loaded = loaded /\ out'.path = (loaded /\ rows[out.move.job].local)
      BY <2>1, <2>2, <2>3, <2>4 DEF Out
    <2>6. TypeOK'
      BY <1>4, <2>1, <2>5, Typed
    <2>7. Delivering' = Delivering /\ ToldMoves' = ToldMoves
      BY <2>1, <2>5 DEF Delivering, ToldMoves
    <2>8. PlacesHold'
      BY <1>1, <1>2, <2>1, <2>7 DEF IInv, PlacesHold, Apart, Buffered, NoneTwice
    <2>9. out.move \in moved
      BY <1>5, <2>1 DEF IInv, PlacesHold, Delivering
    <2>10. out.move.to = "READY" /\ loaded => rows[out.move.job].local
      BY <2>3, <2>4, <2>9 DEF IInv, ReadyHolds, Exists
    <2>11. HandsHold' /\ ReadyHolds' /\ ReadyHasPath'
      BY <1>1, <1>2, <2>1, <2>5, <2>10 DEF IInv, HandsHold, ReadyHolds, ReadyHasPath
    <2> QED BY <1>2, <2>6, <2>8, <2>11 DEF IInv
  <1>8. CASE PostSucceeds \/ PostFails
    <2> DEFINE p == [move |-> out.move, loaded |-> out.loaded, path |-> out.path]
    <2>1. /\ out.pc = "post" /\ ch' = ch /\ out \in Out /\ out.move \in Move
          /\ told' \in {told, told \cup {p}}
      BY <1>8, Typed DEF PostSucceeds, PostFails, Told, IInv, HandsHold
    <2>2. /\ p \in Payload /\ p.move = out.move
          /\ p.move.to = "READY" /\ p.loaded => p.path
      BY <2>1 DEF Payload, Out, IInv, ReadyHolds
    <2> HIDE DEF p
    <2>3. ToldMoves' = IF told' = told THEN ToldMoves ELSE ToldMoves \cup {out.move}
      BY <2>1, <2>2 DEF ToldMoves
    <2>4. \A m : IsTold(m, told') <=> m \in ToldMoves'
      BY DEF IsTold, ToldMoves
    <2>5. Delivering = IF out.move \in ToldMoves THEN {} ELSE {out.move}
      BY <1>5, <2>1 DEF Delivering
    <2>6. /\ Buffered' = Buffered /\ NoneTwice(ch') /\ ReadyHasPath'
          /\ told' \subseteq Payload /\ ch' \in Seq(Move) /\ Len(ch') <= BufferSize
      BY <2>1, <2>2, Typed DEF IInv, PlacesHold, Buffered, ReadyHasPath
    <2>7. CASE /\ out' = NoEvent
               /\ lost' = IF out.move \in ToldMoves' THEN lost ELSE lost \cup {out.move}
      <3>1. Delivering' = {} /\ lost' \subseteq Move
        BY <1>3, <2>1, <2>7, Typed DEF Delivering
      <3>2. TypeOK'
        BY <1>3, <1>4, <2>6, <2>7, <3>1
      <3>3. out.move \in ToldMoves \/ told' = told => ToldMoves' = ToldMoves
        BY <2>3
      <3>4. PlacesHold'
        BY <1>1, <1>2, <2>3, <2>5, <2>6, <2>7, <3>1 DEF IInv, PlacesHold, Apart
      <3>5. HandsHold' /\ ReadyHolds'
        BY <1>1, <1>2, <1>3, <2>7 DEF IInv, HandsHold, ReadyHolds
      <3> QED BY <1>2, <2>6, <3>2, <3>4, <3>5 DEF IInv
    <2>8. CASE out' = [out EXCEPT !.tries = @ + 1] /\ lost' = lost /\ out.tries + 1 # MaxTries
      <3>1. out.tries + 1 \in 0..MaxTries - 1
        BY <2>1, <2>8, Typed DEF Out
      <3>2. /\ out' \in Out /\ out'.pc = "post" /\ out'.move = out.move
            /\ out'.loaded = out.loaded /\ out'.path = out.path
        BY <2>1, <2>8, <3>1 DEF Out
      <3>3. TypeOK'
        BY <1>4, <2>6, <2>8, <3>2, Typed
      <3>4. Delivering' = IF out.move \in ToldMoves' THEN {} ELSE {out.move}
        BY <2>4, <3>2 DEF Delivering
      <3>5. PlacesHold'
        BY <1>1, <1>2, <2>3, <2>5, <2>6, <2>8, <3>4 DEF IInv, PlacesHold, Apart
      <3>6. HandsHold' /\ ReadyHolds'
        BY <1>1, <1>2, <2>1, <3>2 DEF IInv, HandsHold, ReadyHolds
      <3> QED BY <1>2, <2>6, <3>3, <3>5, <3>6 DEF IInv
    <2>9. \/ /\ out' = NoEvent
             /\ lost' = IF out.move \in ToldMoves' THEN lost ELSE lost \cup {out.move}
          \/ out' = [out EXCEPT !.tries = @ + 1] /\ lost' = lost /\ out.tries + 1 # MaxTries
      <3>1. CASE PostSucceeds
        <4>1. told' = told \cup {p} /\ out' = NoEvent /\ lost' = lost
          BY <3>1 DEF PostSucceeds, Told, p
        <4>2. out.move \in ToldMoves'
          BY <2>2, <4>1 DEF ToldMoves
        <4> QED BY <4>1, <4>2
      <3>2. CASE PostFails
        BY <2>4, <3>2 DEF PostFails
      <3> QED BY <1>8, <3>1, <3>2
    <2> QED BY <2>7, <2>8, <2>9
  <1> QED BY <1>6, <1>7, <1>8

\* Whatever the process held when it ended is given up (emitter.go Run).
LEMMA CrashHolds ==
    ASSUME TypeOK, IInv, Crash
    PROVE  TypeOK' /\ IInv'
  <1>1. /\ UNCHANGED <<rows, moved, told>> /\ crashes < MaxCrashes /\ crashes' = crashes + 1
        /\ lost' = lost \cup Pending \cup Buffered \cup Delivering
        /\ work' = [w \in Workers |-> Idle] /\ ch' = << >> /\ out' = NoEvent
    BY DEF Crash
  <1>2. /\ Pending' = {} /\ Buffered' = {} /\ Delivering' = {} /\ ToldMoves' = ToldMoves
        /\ \A w \in Workers : work'[w].pc = "idle"
    BY <1>1 DEF Idle, NoEvent, Pending, Buffered, Delivering, ToldMoves
  <1>3. TypeOK'
    <2>1. work' \in [Workers -> Work] /\ out' \in Out /\ crashes' \in 0..MaxCrashes
      BY <1>1, Typed DEF Idle, NoEvent, Work, Out
    <2>2. ch' \in Seq(Move) /\ Len(ch') <= BufferSize
      BY <1>1, Typed
    <2>3. lost' \subseteq Move
      BY <1>1, Typed DEF IInv, PlacesHold
    <2> QED BY <1>1, <2>1, <2>2, <2>3, Typed, TypedParts DEF RowsOK
  <1>4. PlacesHold'
    <2>1. NoneTwice(ch')
      BY <1>1 DEF NoneTwice
    <2> QED BY <1>1, <1>2, <2>1 DEF IInv, PlacesHold, Apart, InHand
  <1>5. HandsHold' /\ MovesHold' /\ ReadyHolds' /\ ReadyHasPath'
    BY <1>1, <1>2 DEF NoEvent, IInv, HandsHold, MovesHold, ReadyHolds, ReadyHasPath
  <1> QED BY <1>3, <1>4, <1>5 DEF IInv

\* A dropped row lies behind every move of its job.
LEMMA DropEndedHolds ==
    ASSUME TypeOK, IInv, NEW j \in Jobs, DropEnded(j)
    PROVE  TypeOK' /\ IInv'
  <1>1. /\ UNCHANGED <<work, ch, out, moved, told, lost, crashes>>
        /\ rows[j].state \in Terminal /\ rows' = Delete(j)
    BY DEF DropEnded, Ended
  <1>2. /\ rows' \in [Jobs -> Row] /\ \A i \in Jobs \ {j} : rows'[i] = rows[i]
        /\ rows'[j].state = "NONE"
    BY <1>1, DeleteDrops, Typed
  <1>3. TypeOK'
    BY <1>1, <1>2, Typed, TypedParts DEF RowsOK
  <1>4. HandsHold' /\ ReadyHasPath' /\ PlacesHold'
    BY <1>1, PlacesStay DEF IInv, HandsHold, ReadyHasPath
  <1>5. MovesHold'
    <2>1. ASSUME NEW m \in moved PROVE Rank(m.from) < Rank(rows'[m.job].state)
      <3>1. Rank(m.from) < Rank(rows[m.job].state) /\ m.job \in Jobs
        BY Typed DEF IInv, MovesHold, Move
      <3>2. Rank(rows[j].state) < Rank("NONE")
        BY <1>1, RankGrows
      <3>3. CASE m.job = j
        BY <1>2, <3>1, <3>2, <3>3, RankGrows
      <3>4. CASE m.job # j
        BY <1>2, <3>1, <3>4
      <3> QED BY <3>3, <3>4
    <2> QED BY <1>1, <2>1 DEF IInv, MovesHold
  <1>6. ReadyHolds'
    <2>1. \A m \in moved : m.job \in Jobs
      BY Typed DEF Move
    <2> QED BY <1>1, <1>2, <2>1 DEF IInv, ReadyHolds
  <1> QED BY <1>3, <1>4, <1>5, <1>6 DEF IInv

\* Every step keeps types and invariant.
LEMMA StepHolds ==
    ASSUME TypeOK, IInv, [Next]_vars
    PROVE  TypeOK' /\ IInv'
  <1>1. CASE UNCHANGED vars
    <2>1. TypeOK'
      BY <1>1 DEF vars, TypeOK, RowsOK
    <2>2. HandsHold' /\ MovesHold' /\ ReadyHolds' /\ ReadyHasPath'
      BY <1>1 DEF vars, IInv, HandsHold, MovesHold, ReadyHolds, ReadyHasPath
    <2>3. PlacesHold'
      BY <1>1, PlacesStay DEF vars, IInv
    <2> QED BY <2>1, <2>2, <2>3 DEF IInv
  <1>2. ASSUME NEW w \in Workers, WorkerReads(w) \/ WorkerWrites(w) \/ Enqueue(w)
        PROVE  TypeOK' /\ IInv'
    BY <1>2, WorkerReadsHolds, WorkerWritesHolds, EnqueueHolds
  <1> QED BY <1>1, <1>2, DeliveryHolds, CrashHolds, DropEndedHolds DEF Next

\* Before the first move no event is anywhere.
LEMMA InitHolds == Init => TypeOK /\ IInv
  <1> SUFFICES ASSUME Init PROVE TypeOK /\ IInv
    OBVIOUS
  <1>1. [NoRow EXCEPT !.state = "SUBMITTED"] \in Row
    BY DEF NoRow, Row, JobStates, ActiveStates
  <1>2. TypeOK
    <2>1. work \in [Workers -> Work] /\ out \in Out
      BY EmitterAssumption DEF Init, Idle, NoEvent, Work, Out
    <2>2. ch \in Seq(Move) /\ Len(ch) <= BufferSize /\ crashes \in 0..MaxCrashes
      BY EmitterAssumption DEF Init
    <2> QED BY <1>1, <2>1, <2>2 DEF Init, TypeOK, RowsOK, Work, Out
  <1>3. HandsHold /\ MovesHold /\ ReadyHolds /\ ReadyHasPath
    BY DEF Init, HandsHold, MovesHold, ReadyHolds, ReadyHasPath, Idle, NoEvent, NoRow
  <1>4. PlacesHold
    BY DEF Init, PlacesHold, Apart, Pending, Buffered, Delivering, ToldMoves, InHand,
           NoneTwice, Idle, NoEvent
  <1> QED BY <1>2, <1>3, <1>4 DEF IInv

-----------------------------------------------------------------------------
(***************************************************************************)
(* The theorems                                                            *)
(***************************************************************************)
\* Rows, moves and events agree at every step of every run (emitter.go,
\* jobs.go).
THEOREM Inductive == Spec => [](TypeOK /\ IInv)
  <1>1. TypeOK /\ IInv /\ [Next]_vars => (TypeOK /\ IInv)'
    BY StepHolds
  <1> QED BY <1>1, InitHolds, PTL DEF Spec

\* Whatever overflows, fails or ends, no variable leaves its type and the
\* channel never holds more than its capacity (emitter.go New, Enqueue).
THEOREM TypeCorrect == Spec => []TypeOK
  BY Inductive, PTL

\* A set of things that are all the same has none or one.
LEMMA NoneOrOne ==
    ASSUME NEW S, \A x, y \in S : x = y
    PROVE  Cardinality(S) = One(S # {})
  <1>1. CASE S = {}
    BY <1>1, FS_EmptySet DEF One
  <1>2. CASE S # {}
    <2>1. PICK x \in S : S = {x}
      BY <1>2
    <2>2. Cardinality({x}) = 1
      BY FS_Singleton
    <2> QED BY <1>2, <2>1, <2>2 DEF One
  <1> QED BY <1>1, <1>2

\* For every capacity, every number of workers, tries and crashes, an event is
\* in exactly one place if its move was made, and nowhere if it was not
\* (emitter.go Enqueue, deliver).
THEOREM EventsAreAccounted == Spec => []Accounted
  <1>1. TypeOK /\ IInv => Accounted
    <2> SUFFICES ASSUME TypeOK, IInv, NEW m \in Move
                 PROVE  Places(m) = One(m \in moved)
      BY DEF Accounted, One
    <2> DEFINE W == {w \in Workers :
                        work[w].pc \in {"send", "drop", "again"} /\ work[w].move = m}
               C == {i \in 1..Len(ch) : ch[i] = m}
    <2>1. Cardinality(W) = One(m \in Pending)
      <3>1. Cardinality(W) = One(W # {})
        BY NoneOrOne DEF IInv, PlacesHold, InHand
      <3>2. W # {} <=> m \in Pending
        BY DEF Pending
      <3> QED BY <3>1, <3>2
    <2>2. Cardinality(C) = One(m \in Buffered)
      <3>1. Cardinality(C) = One(C # {})
        BY NoneOrOne DEF IInv, PlacesHold, NoneTwice
      <3>2. C # {} <=> m \in Buffered
        BY DEF Buffered
      <3> QED BY <3>1, <3>2
    <2>3. IsTold(m, told) <=> m \in ToldMoves
      BY DEF IsTold, ToldMoves
    <2>4. Places(m) = One(m \in Pending) + One(m \in Buffered)
                          + One(m \in Delivering) + One(m \in lost) + One(m \in ToldMoves)
      <3>1. Places(m) = Cardinality(W) + Cardinality(C) + One(m \in Delivering)
                          + One(m \in lost) + One(IsTold(m, told))
        BY DEF Places
      <3>2. One(IsTold(m, told)) = One(m \in ToldMoves)
        BY <2>3 DEF One
      <3> HIDE DEF W, C
      <3> QED BY <2>1, <2>2, <3>1, <3>2
    <2>5. /\ m \in moved <=> \/ m \in Pending \/ m \in Buffered
                             \/ m \in Delivering \/ m \in lost \/ m \in ToldMoves
          /\ Apart(Pending, Buffered, Delivering, lost, ToldMoves)
      BY DEF IInv, PlacesHold
    <2> QED BY <2>4, <2>5 DEF Apart, One
  <1> QED BY <1>1, Inductive, PTL

\* However the workers race, no two events the tracker gets leave the same state
\* of a job (jobs.go Transition).
THEOREM TheStoryIsOne == Spec => []OneStory
  <1>1. IInv => OneStory
    <2>1. IInv => \A p \in told : p.move \in moved
      BY DEF IInv, PlacesHold, ToldMoves
    <2> QED BY <2>1 DEF IInv, MovesHold, OneStory
  <1> QED BY <1>1, Inductive, PTL

\* Nothing between the write of READY and the post of its event takes the path
\* away from it (jobs.go MarkLocalReady, emitter.go deliver).
THEOREM ReadyComesWithPath == Spec => []ReadyHasPath
  <1>1. IInv => ReadyHasPath
    BY DEF IInv
  <1> QED BY <1>1, Inductive, PTL
=============================================================================
