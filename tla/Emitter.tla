------------------------------- MODULE Emitter -------------------------------
(***************************************************************************)
(* internal/events/emitter.go behind the transition hook of                *)
(* internal/store: whoever moves a job (a worker loop, a pull, a delete    *)
(* request) calls Enqueue after its statement has been committed, outside  *)
(* of any lock.  One goroutine takes the events from the buffer, loads the *)
(* row as it is by then, and posts both to the tracker.                    *)
(*                                                                         *)
(* The state table has no cycle, so a move of a job happens once and names *)
(* its event.                                                              *)
(***************************************************************************)
EXTENDS JobStore, Sequences

CONSTANTS Workers,     \* the goroutines that move jobs
          BufferSize,  \* capacity of the channel
          MaxTries,    \* posts of one event
          MaxCrashes   \* bound of the model

ASSUME EmitterAssumption ==
    /\ IsFiniteSet(Workers)
    /\ {BufferSize, MaxTries} \subseteq Nat \ {0} /\ MaxCrashes \in Nat

VARIABLES work,     \* what each worker is about to write, or to enqueue
          ch,       \* the channel
          out,      \* the event being delivered
          moved,    \* every move of a job so far
          told,     \* every payload the tracker got
          lost,     \* the events given up
          crashes

vars == <<rows, work, ch, out, moved, told, lost, crashes>>

Move == [job : Jobs, from : JobStates, to : JobStates]
NoMove == [job |-> 0, from |-> "NEW", to |-> "NEW"]
Payload == [move : Move, loaded : BOOLEAN, path : BOOLEAN]

Idle == [pc |-> "idle", move |-> NoMove]
NoEvent == [pc |-> "idle", move |-> NoMove, loaded |-> FALSE, path |-> FALSE, tries |-> 0]

\* From SUBMITTED on, the poller, the pulls and the requests move a job.
Init ==
    /\ rows = [j \in Jobs |-> [NoRow EXCEPT !.state = "SUBMITTED"]]
    /\ work = [w \in Workers |-> Idle]
    /\ ch = << >>
    /\ out = NoEvent
    /\ moved = {} /\ told = {} /\ lost = {}
    /\ crashes = 0

-----------------------------------------------------------------------------
\* A worker reads a row and decides where the job goes ...
WorkerReads(w) ==
    /\ work[w].pc = "idle"
    /\ \E j \in Jobs : \E to \in Successors(rows[j].state) :
        work' = [work EXCEPT ![w] =
            [pc |-> "write", move |-> [job |-> j, from |-> rows[j].state, to |-> to]]]
    /\ UNCHANGED <<rows, ch, out, moved, told, lost, crashes>>

Write(m) == IF m.to = "READY" THEN MarkLocalReady(m.job)
                              ELSE Transition(m.job, m.from, m.to, rows[m.job])

\* Mutant: the hook runs although no row was changed.
WorkerWritesAndFires(w) ==
    LET m == work[w].move IN
    /\ work[w].pc = "write"
    /\ rows' = Write(m)
    /\ moved' = moved \cup {m}
    /\ work' = [work EXCEPT ![w].pc = "send"]
    /\ UNCHANGED <<ch, out, told, lost, crashes>>

\* ... and the hook runs if the row was still where the worker saw it.
WorkerWrites(w) ==
    LET m == work[w].move IN
    /\ work[w].pc = "write"
    /\ rows' = Write(m)
    /\ IF Applies(m.job, m.from, m.to)
       THEN moved' = moved \cup {m} /\ work' = [work EXCEPT ![w].pc = "send"]
       ELSE moved' = moved /\ work' = [work EXCEPT ![w] = Idle]
    /\ UNCHANGED <<ch, out, told, lost, crashes>>

\* The row of an ended job may be dropped before its last event is delivered.
DropEnded(j) ==
    /\ Ended(j)
    /\ rows' = Delete(j)
    /\ UNCHANGED <<work, ch, out, moved, told, lost, crashes>>

-----------------------------------------------------------------------------
\* Enqueue: three selects, each atomic, none of them waiting.
Room == Len(ch) < BufferSize

\* Mutant: the first select does not look for room.
SendsUnbounded(w) ==
    /\ work[w].pc = "send"
    /\ ch' = Append(ch, work[w].move)
    /\ work' = [work EXCEPT ![w] = Idle]
    /\ UNCHANGED <<rows, out, moved, told, lost, crashes>>

Sends(w) ==
    /\ work[w].pc = "send"
    /\ IF Room
       THEN ch' = Append(ch, work[w].move) /\ work' = [work EXCEPT ![w] = Idle]
       ELSE ch' = ch /\ work' = [work EXCEPT ![w].pc = "drop"]
    /\ UNCHANGED <<rows, out, moved, told, lost, crashes>>

\* Mutant: the new event is forgotten with the old one.
DropsOldestAndReturns(w) ==
    /\ work[w].pc = "drop"
    /\ ch # << >>
    /\ ch' = Tail(ch) /\ lost' = lost \cup {Head(ch)}
    /\ work' = [work EXCEPT ![w] = Idle]
    /\ UNCHANGED <<rows, out, moved, told, crashes>>

\* By now the buffer may have been emptied by the delivery.
DropsOldest(w) ==
    /\ work[w].pc = "drop"
    /\ IF ch = << >> THEN UNCHANGED <<ch, lost>>
       ELSE ch' = Tail(ch) /\ lost' = lost \cup {Head(ch)}
    /\ work' = [work EXCEPT ![w].pc = "again"]
    /\ UNCHANGED <<rows, out, moved, told, crashes>>

\* Mutant: the last select waits for room.
SendsAgainBlocking(w) ==
    /\ work[w].pc = "again" /\ Room
    /\ ch' = Append(ch, work[w].move)
    /\ work' = [work EXCEPT ![w] = Idle]
    /\ UNCHANGED <<rows, out, moved, told, lost, crashes>>

\* Or another worker has filled it again: then the new event is the one to go.
SendsAgain(w) ==
    /\ work[w].pc = "again"
    /\ IF Room
       THEN ch' = Append(ch, work[w].move) /\ lost' = lost
       ELSE ch' = ch /\ lost' = lost \cup {work[w].move}
    /\ work' = [work EXCEPT ![w] = Idle]
    /\ UNCHANGED <<rows, out, moved, told, crashes>>

Enqueue(w) == Sends(w) \/ DropsOldest(w) \/ SendsAgain(w)

-----------------------------------------------------------------------------
\* Run and deliver
Takes ==
    /\ out.pc = "idle" /\ ch # << >>
    /\ out' = [NoEvent EXCEPT !.pc = "load", !.move = Head(ch)]
    /\ ch' = Tail(ch)
    /\ UNCHANGED <<rows, work, moved, told, lost, crashes>>

\* The row may be gone, and reading it may fail.
Loads ==
    /\ out.pc = "load"
    /\ \E loaded \in {FALSE, Exists(out.move.job)} :
        out' = [out EXCEPT !.pc = "post", !.loaded = loaded,
                           !.path = loaded /\ rows[out.move.job].local]
    /\ UNCHANGED <<rows, work, ch, moved, told, lost, crashes>>

Told == told \cup {[move |-> out.move, loaded |-> out.loaded, path |-> out.path]}

PostSucceeds ==
    /\ out.pc = "post"
    /\ told' = Told
    /\ out' = NoEvent
    /\ UNCHANGED <<rows, work, ch, moved, lost, crashes>>

IsTold(m, payloads) == \E p \in payloads : p.move = m

\* The tracker did not get the event, or got it and its answer was lost or an
\* error.  It is posted again until the tries or the 30 seconds are spent.
PostFails ==
    /\ out.pc = "post"
    /\ told' \in {told, Told}
    /\ \E expired \in {out.tries + 1 = MaxTries, TRUE} :
        IF expired
        THEN /\ out' = NoEvent
             /\ lost' = IF IsTold(out.move, told') THEN lost ELSE lost \cup {out.move}
        ELSE /\ out' = [out EXCEPT !.tries = @ + 1]
             /\ lost' = lost
    /\ UNCHANGED <<rows, work, ch, moved, crashes>>

Pending == {work[w].move : w \in {v \in Workers : work[v].pc \in {"send", "drop", "again"}}}
Buffered == {ch[i] : i \in 1..Len(ch)}
Delivering == IF out.pc # "idle" /\ ~IsTold(out.move, told) THEN {out.move} ELSE {}

\* The process ends: nothing of the buffer is kept.
Crash ==
    /\ crashes < MaxCrashes
    /\ crashes' = crashes + 1
    /\ lost' = lost \cup Pending \cup Buffered \cup Delivering
    /\ work' = [w \in Workers |-> Idle] /\ ch' = << >> /\ out' = NoEvent
    /\ UNCHANGED <<rows, moved, told>>

Next ==
    \/ Takes \/ Loads \/ PostSucceeds \/ PostFails \/ Crash
    \/ \E w \in Workers : WorkerReads(w) \/ WorkerWrites(w) \/ Enqueue(w)
    \/ \E j \in Jobs : DropEnded(j)

\* A running goroutine runs on; nothing makes the tracker answer.
Fairness == \A w \in Workers : WF_vars(Enqueue(w))

Spec == Init /\ [][Next]_vars /\ Fairness

-----------------------------------------------------------------------------
\* Every variable stays in its type, and the channel in its capacity
\* (emitter.go New, Enqueue).
TypeOK ==
    /\ RowsOK
    /\ work \in [Workers -> [pc : {"idle", "write", "send", "drop", "again"},
                             move : Move \cup {NoMove}]]
    /\ ch \in Seq(Move) /\ Len(ch) <= BufferSize
    /\ out \in [pc : {"idle", "load", "post"}, move : Move \cup {NoMove},
                loaded : BOOLEAN, path : BOOLEAN, tries : 0..MaxTries - 1]
    /\ {moved, lost} \subseteq SUBSET Move
    /\ told \subseteq Payload
    /\ crashes \in 0..MaxCrashes

\* How many places an event is in.
One(b) == IF b THEN 1 ELSE 0
Places(m) ==
      Cardinality({w \in Workers : work[w].pc \in {"send", "drop", "again"} /\ work[w].move = m})
    + Cardinality({i \in 1..Len(ch) : ch[i] = m})
    + One(m \in Delivering) + One(m \in lost) + One(IsTold(m, told))

\* However enqueuers, delivery, retries and a full buffer interleave, an event
\* is there if and only if its move happened, and in one place only: it is on
\* its way, or the tracker has it, or it was given up (emitter.go Enqueue).
Accounted == \A m \in Move : Places(m) = IF m \in moved THEN 1 ELSE 0

\* Workers that race for a row never make the tracker believe two stories: no
\* two events leave the same state of a job (jobs.go Transition).
OneStory == \A p, q \in told :
    p.move.job = q.move.job /\ p.move.from = q.move.from => p.move = q.move

\* The tracker is told that a job is READY together with its local path, unless
\* the row could not be loaded any more (jobs.go MarkLocalReady, emitter.go).
ReadyHasPath == \A p \in told : p.move.to = "READY" /\ p.loaded => p.path

\* The state machine never waits for the tracker: every Enqueue returns, even
\* if no event is delivered any more (emitter.go Enqueue).
EnqueueReturns == \A w \in Workers :
    work[w].pc \in {"send", "drop", "again"} ~> work[w].pc \in {"idle", "write"}
=============================================================================
