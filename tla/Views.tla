------------------------------- MODULE Views -------------------------------
(***************************************************************************)
(* What SABnzbd's and qBittorrent's clients are shown: the jobs under way  *)
(* and the jobs that have ended, read by two statements while the workers  *)
(* and the deletes go on.                                                  *)
(*                                                                         *)
(* torrents/info makes both statements in ListByCategory.  For SABnzbd     *)
(* they are two requests, the queue and then the history, in the order its *)
(* clients ask.  Filters by category and by hash look at one job at a time *)
(* and are left out.                                                       *)
(***************************************************************************)
EXTENDS JobState, Integers, FiniteSets

CONSTANTS Ids,           \* nzo_ids, numbered in the order of created_at
          LastSecond,    \* bound of the model: values of completed_at
          QueueLimit,    \* jobs the first statement returns at most
          HistoryLimit   \* jobs the second one returns at most

ASSUME ViewsAssumption ==
    /\ Ids \subseteq Nat /\ IsFiniteSet(Ids)
    /\ {LastSecond, QueueLimit, HistoryLimit} \subseteq Nat \ {0}

VARIABLES state,      \* of each job, "NONE" without a row
          unused,     \* nzo_ids not given out yet
          completed,  \* completed_at of each job that has ended, 0 of others
          asked,      \* how many statements of the reading have been made
          first,      \* the jobs its first statement returned
          second,     \* the jobs its second one returned
          present     \* history: jobs that have had a row ever since it began

table == <<state, unused, completed>>
reading == <<asked, first, second>>
viewsVars == <<table, reading, present>>

L == INSTANCE Lifecycle WITH Jobs <- Ids

ViewsInit ==
    /\ state = [j \in Ids |-> "NONE"]
    /\ unused = Ids
    /\ completed = [j \in Ids |-> 0]
    /\ asked = 0 /\ first = {} /\ second = {}
    /\ present = {}

-----------------------------------------------------------------------------
\* What the workers and the requests do to the table between two statements.
Adds(j) ==
    /\ j \in unused /\ \A i \in unused : j <= i
    /\ L!Insert(j)
    /\ unused' = unused \ {j}
    /\ UNCHANGED <<completed, reading, present>>

\* Whoever ends a job writes completed_at with the state, a time it may have
\* read before another job ended.
Moves(j) ==
    /\ L!Move(j)
    /\ IF state'[j] \in Terminal
       THEN \E t \in 1..LastSecond : completed' = [completed EXCEPT ![j] = t]
       ELSE UNCHANGED completed
    /\ UNCHANGED <<unused, reading, present>>

\* The reaper and SABnzbd drop what has ended, qBittorrent what is active.
Drops(j) ==
    /\ \/ L!Drop(j)
       \/ state[j] \in ActiveStates /\ state' = [state EXCEPT ![j] = "NONE"]
    /\ completed' = [completed EXCEPT ![j] = 0]
    /\ present' = present \ {j}
    /\ UNCHANGED <<unused, reading>>

-----------------------------------------------------------------------------
\* What ORDER BY key ASC LIMIT n may return of C: all of it, or n jobs that no
\* other job comes before.  Jobs with the same key come in any order.
Limited(C, key, n) == {S \in SUBSET C :
    \/ S = C /\ Cardinality(C) <= n
    \/ Cardinality(S) = n /\ \A i \in S, k \in C \ S : key[i] <= key[k]}

\* ORDER BY created_at ASC LIMIT QueueLimit
ListActive ==
    Limited({j \in Ids : state[j] \in ActiveStates}, [j \in Ids |-> j], QueueLimit)

\* ORDER BY completed_at DESC LIMIT HistoryLimit
ListReady ==
    Limited({j \in Ids : state[j] \in Terminal}, [j \in Ids |-> -completed[j]], HistoryLimit)

\* Mutant: what has ended is read first.
StatementEndedFirst(n) == IF n = 1 THEN ListReady ELSE ListActive

Statement(n) == IF n = 1 THEN ListActive ELSE ListReady

ReadsFirst ==
    /\ asked # 1
    /\ asked' = 1 /\ first' \in Statement(1) /\ second' = {}
    /\ present' = {j \in Ids : state[j] # "NONE"}
    /\ UNCHANGED table

\* The second statement completes the answer.
ReadsSecond ==
    /\ asked = 1
    /\ asked' = 2 /\ second' \in Statement(2)
    /\ UNCHANGED <<table, first, present>>

\* The client hangs up, or the second statement fails: there is no answer.
Fails ==
    /\ asked = 1
    /\ asked' = 0 /\ first' = {} /\ second' = {}
    /\ UNCHANGED <<table, present>>

ViewsNext ==
    \/ ReadsFirst \/ ReadsSecond \/ Fails
    \/ \E j \in Ids : Adds(j) \/ Moves(j) \/ Drops(j)

ViewsSpec == ViewsInit /\ [][ViewsNext]_viewsVars

-----------------------------------------------------------------------------
\* A job that had a row throughout the reading is in its answer, though it may
\* end, and others come, go and end, between the statements; only a list of its
\* own kind that is full can leave it out, so however many jobs have ended they
\* hide none that is under way.  A client takes a job that is missing for one
\* that was removed (ListByCategory, handleQueue and handleHistory).
NothingVanishes ==
    [][asked = 1 /\ asked' = 2 => \A j \in present :
           \/ j \in first \cup second'
           \/ IF state[j] \in Terminal THEN Cardinality(second') = HistoryLimit
                                       ELSE Cardinality(first) = QueueLimit]_viewsVars
=============================================================================
