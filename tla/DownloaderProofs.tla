-------------------------- MODULE DownloaderProofs --------------------------
(***************************************************************************)
(* Theorems about Downloader for every number of runs and files, whatever  *)
(* their lengths, and every number of crashes.                             *)
(***************************************************************************)
EXTENDS Downloader, TLAPS

RunRec == [pc : {"idle", "running", "ok", "failed"}, next : 1..LastFile + 1,
           canceled : BOOLEAN, err : BOOLEAN]
Fds == {"none", "part", "dest", "lost"}
TaskRec == [pc : {"none", "stat", "clean", "request", "copy", "rename", "drop"},
            fd : Fds, at : Nat]

\* A run that does not run starts with the first file, and while two runs have
\* not met in the directory there is one at most.
RunsHold ==
    /\ \A r \in Runs \ Running : run[r].next = 1
    /\ ~shared => \A r, s \in Running : r = s

\* A goroutine that is not there has no file open; there is none of a run that
\* does not run, nor of a file that it has not come to.
IdleHolds(f) == \A r \in Runs :
    r \notin Running \/ run[r].next <= f \/ task[r][f].pc = "none" => task[r][f] = NoTask

\* An open file that still has a name lies there.
OpenHolds(f) == \A r \in Runs : /\ task[r][f].fd = "part" => f \in DOMAIN part
                                /\ task[r][f].fd = "dest" => f \in DOMAIN dest

\* What a goroutine wrote when it comes to the rename.
SizeHolds(f) == \A r \in Runs :
    task[r][f].pc = "rename" /\ f \in Sized => task[r][f].at = Length[f]

\* While two runs have not met, a .partial that a goroutine writes is its own
\* and holds what it wrote, and a file that has its name has its bytes.
AloneHolds(f) == ~shared =>
    /\ \A r \in Runs :
          /\ task[r][f].fd # "dest"
          /\ task[r][f].pc \in {"copy", "rename"} /\ f \in DOMAIN part
                => task[r][f].fd = "part" /\ part[f] = 0..task[r][f].at - 1
    /\ f \in DOMAIN dest => Complete(f)

\* Of a run that nobody disturbed, the files that are done have their names.
DoneHolds(f) == \A r \in Running :
    ~shared /\ ~company[r] /\ ~run[r].err /\ f < run[r].next /\ task[r][f].pc = "none"
        => f \in DOMAIN dest

\* Without a crash every .partial has a goroutine that will rename or remove it.
PartHolds(f) == crashes = 0 /\ f \in DOMAIN part => \E r \in Runs :
    task[r][f].pc \in {"copy", "rename", "drop"}

FileHolds(f) == /\ IdleHolds(f) /\ OpenHolds(f) /\ SizeHolds(f)
                /\ AloneHolds(f) /\ DoneHolds(f) /\ PartHolds(f)

IInv == RunsHold /\ \A f \in Files : FileHolds(f)

-----------------------------------------------------------------------------
(***************************************************************************)
(* Listings and goroutines                                                 *)
(***************************************************************************)
\* What it takes to be a listing of the directory.
LEMMA ListingIs ==
    /\ \A L \in Listings : DOMAIN L \subseteq Files /\ L \in [DOMAIN L -> SUBSET Chunks]
    /\ \A S \in SUBSET Files : \A L \in [S -> SUBSET Chunks] : L \in Listings
  BY DEF Listings

\* A file that is put into the directory.
LEMMA PutPuts ==
    ASSUME NEW L \in Listings, NEW f \in Files, NEW data \in SUBSET Chunks
    PROVE  /\ Put(L, f, data) \in Listings /\ DOMAIN Put(L, f, data) = DOMAIN L \cup {f}
           /\ Put(L, f, data)[f] = data
           /\ \A g \in DOMAIN L \ {f} : Put(L, f, data)[g] = L[g]
  <1>1. DOMAIN L \subseteq Files /\ L \in [DOMAIN L -> SUBSET Chunks]
    BY ListingIs
  <1>2. /\ Put(L, f, data) \in [DOMAIN L \cup {f} -> SUBSET Chunks]
        /\ DOMAIN Put(L, f, data) = DOMAIN L \cup {f}
        /\ Put(L, f, data)[f] = data
        /\ \A g \in DOMAIN L \ {f} : Put(L, f, data)[g] = L[g]
    BY <1>1 DEF Put
  <1>3. DOMAIN L \cup {f} \in SUBSET Files
    BY <1>1
  <1> QED BY <1>2, <1>3, ListingIs

\* A file that is taken out of it.
LEMMA WithoutTakes ==
    ASSUME NEW L \in Listings, NEW f \in Files
    PROVE  /\ Without(L, f) \in Listings /\ DOMAIN Without(L, f) = DOMAIN L \ {f}
           /\ \A g \in DOMAIN L \ {f} : Without(L, f)[g] = L[g]
  <1>1. DOMAIN L \subseteq Files /\ L \in [DOMAIN L -> SUBSET Chunks]
    BY ListingIs
  <1>2. /\ Without(L, f) \in [DOMAIN L \ {f} -> SUBSET Chunks]
        /\ DOMAIN Without(L, f) = DOMAIN L \ {f}
        /\ \A g \in DOMAIN L \ {f} : Without(L, f)[g] = L[g]
    BY <1>1 DEF Without, Restrict
  <1>3. DOMAIN L \ {f} \in SUBSET Files
    BY <1>1
  <1> QED BY <1>2, <1>3, ListingIs

\* One goroutine moves on.
LEMMA TaskMoves ==
    ASSUME NEW T \in [Runs -> [Files -> TaskRec]], NEW r \in Runs, NEW f \in Files,
           NEW t \in TaskRec
    PROVE  LET U == [T EXCEPT ![r][f] = t] IN
           /\ U \in [Runs -> [Files -> TaskRec]] /\ U[r][f] = t
           /\ \A s \in Runs : \A g \in Files \ {f} : U[s][g] = T[s][g]
           /\ \A s \in Runs \ {r} : U[s][f] = T[s][f]
  OBVIOUS

\* Where a descriptor of the .partial, or of the file, lies after a move.
Lands(move, fd) == IF fd \in DOMAIN move THEN move[fd] ELSE fd

LEMMA Moves ==
    /\ \A fd \in Fds : Lands([part |-> "lost"], fd) = IF fd = "part" THEN "lost" ELSE fd
    /\ \A fd \in Fds : Lands([part |-> "dest", dest |-> "lost"], fd) =
           IF fd = "part" THEN "dest" ELSE IF fd = "dest" THEN "lost" ELSE fd
    /\ \A fd \in Fds : Lands([part |-> "lost", dest |-> "lost"], fd) =
           IF fd \in {"part", "dest"} THEN "lost" ELSE fd
  BY DEF Lands, Fds

LEMMA RelinkedMoves ==
    ASSUME task \in [Runs -> [Files -> TaskRec]], NEW f \in Files, NEW move,
           \A fd \in Fds : Lands(move, fd) \in Fds
    PROVE  /\ Relinked(f, move) \in [Runs -> [Files -> TaskRec]]
           /\ \A s \in Runs : \A g \in Files \ {f} : Relinked(f, move)[s][g] = task[s][g]
           /\ \A s \in Runs : /\ Relinked(f, move)[s][f].pc = task[s][f].pc
                              /\ Relinked(f, move)[s][f].at = task[s][f].at
                              /\ Relinked(f, move)[s][f].fd = Lands(move, task[s][f].fd)
                              /\ Lands(move, task[s][f].fd) = task[s][f].fd
                                     => Relinked(f, move)[s][f] = task[s][f]
  <1>1. ASSUME NEW s \in Runs
        PROVE  LET row == [task[s] EXCEPT ![f].fd = IF @ \in DOMAIN move THEN move[@] ELSE @] IN
               /\ row \in [Files -> TaskRec] /\ \A g \in Files \ {f} : row[g] = task[s][g]
               /\ row[f].pc = task[s][f].pc /\ row[f].at = task[s][f].at
               /\ row[f].fd = Lands(move, task[s][f].fd)
               /\ Lands(move, task[s][f].fd) = task[s][f].fd => row[f] = task[s][f]
    <2>1. task[s] \in [Files -> TaskRec] /\ task[s][f] \in TaskRec
      OBVIOUS
    <2>2. Lands(move, task[s][f].fd) \in Fds
      BY <2>1 DEF TaskRec
    <2> QED BY <2>1, <2>2 DEF TaskRec, Lands
  <1> QED BY <1>1 DEF Relinked

\* The chunks of a file are chunks.
LEMMA ChunksAre ==
    \A f \in Files : Length[f] \in Nat \ {0} /\ 0..Length[f] - 1 \subseteq Chunks
  BY DownloaderAssumption DEF Chunks

\* The types of what a step reads.
LEMMA Typed ==
    ASSUME TypeOK
    PROVE  /\ run \in [Runs -> RunRec] /\ task \in [Runs -> [Files -> TaskRec]]
           /\ dest \in Listings /\ part \in Listings
           /\ DOMAIN dest # {} \/ DOMAIN part # {} => dir
           /\ company \in [Runs -> BOOLEAN] /\ shared \in BOOLEAN /\ dir \in BOOLEAN
           /\ crashes \in 0..MaxCrashes /\ MaxCrashes \in Nat
           /\ LastFile \in Nat \ {0}
  BY DownloaderAssumption DEF TypeOK, RunRec, TaskRec, Fds

\* The parts of TypeOK, under the primes.
LEMMA TypedParts ==
    ASSUME run' \in [Runs -> RunRec], task' \in [Runs -> [Files -> TaskRec]],
           dest' \in Listings, part' \in Listings,
           DOMAIN dest' # {} \/ DOMAIN part' # {} => dir',
           company' \in [Runs -> BOOLEAN], shared' \in BOOLEAN, dir' \in BOOLEAN,
           crashes' \in 0..MaxCrashes
    PROVE  TypeOK'
  BY DEF TypeOK, RunRec, TaskRec, Fds

LEMMA NoTaskIs ==
    NoTask \in TaskRec /\ NoTask.pc = "none" /\ NoTask.fd = "none" /\ NoTask.at = 0
  BY DEF NoTask, TaskRec, Fds

-----------------------------------------------------------------------------
(***************************************************************************)
(* Steps of a goroutine                                                    *)
(***************************************************************************)
\* No run begins, ends or comes to its next file; an error stays.
RunsStay ==
    /\ run' \in [Runs -> RunRec]
    /\ \A s \in Runs : /\ run'[s].pc = run[s].pc /\ run'[s].next = run[s].next
                       /\ run[s].err => run'[s].err

SameListing(L, M, f) == \A g \in Files \ {f} :
    (g \in DOMAIN M <=> g \in DOMAIN L) /\ (g \in DOMAIN L => M[g] = L[g])

\* A step about file f.
OnlyFile(f) ==
    /\ RunsStay /\ UNCHANGED <<company, shared, crashes>>
    /\ \A s \in Runs : \A g \in Files \ {f} : task'[s][g] = task[s][g]
    /\ SameListing(dest, dest', f) /\ SameListing(part, part', f)

\* A step that leaves file g and its goroutines as they are.
Untouched(g) ==
    /\ RunsStay /\ UNCHANGED <<shared, crashes>>
    /\ \A s \in Runs : task'[s][g] = task[s][g] /\ (company[s] => company'[s])
    /\ (g \in DOMAIN dest' <=> g \in DOMAIN dest) /\ (g \in DOMAIN dest => dest'[g] = dest[g])
    /\ (g \in DOMAIN part' <=> g \in DOMAIN part) /\ (g \in DOMAIN part => part'[g] = part[g])

\* A file that a step leaves alone does not notice it.
LEMMA UntouchedHolds ==
    ASSUME NEW g \in Files, Untouched(g), FileHolds(g)
    PROVE  FileHolds(g)' /\ (Complete(g) => Complete(g)')
  <1>1. Running' = Running /\ UNCHANGED <<shared, crashes>>
    BY DEF Untouched, RunsStay, Running
  <1>2. /\ \A s \in Runs : task'[s][g] = task[s][g]
        /\ (g \in DOMAIN dest' <=> g \in DOMAIN dest) /\ (g \in DOMAIN part' <=> g \in DOMAIN part)
        /\ g \in DOMAIN dest => dest'[g] = dest[g]
        /\ g \in DOMAIN part => part'[g] = part[g]
    BY DEF Untouched
  <1>3. IdleHolds(g)' /\ OpenHolds(g)' /\ SizeHolds(g)' /\ PartHolds(g)'
    <2>1. IdleHolds(g)'
      BY <1>1, <1>2 DEF FileHolds, IdleHolds, Untouched, RunsStay
    <2> QED BY <1>1, <1>2, <2>1 DEF FileHolds, OpenHolds, SizeHolds, PartHolds
  <1>4. Complete(g) <=> Complete(g)'
    BY <1>2 DEF Complete
  <1>5. AloneHolds(g)'
    BY <1>1, <1>2, <1>4 DEF FileHolds, AloneHolds
  <1>6. DoneHolds(g)'
    BY <1>1, <1>2 DEF FileHolds, DoneHolds, Untouched, RunsStay, Running
  <1> QED BY <1>3, <1>4, <1>5, <1>6 DEF FileHolds

\* The other files do not notice it.
LEMMA OtherFilesHold ==
    ASSUME NEW f \in Files, OnlyFile(f), NEW g \in Files \ {f}, FileHolds(g)
    PROVE  FileHolds(g)' /\ (Complete(g) => Complete(g)')
  <1>1. Untouched(g)
    BY DEF OnlyFile, SameListing, Untouched
  <1> QED BY <1>1, UntouchedHolds

\* What a goroutine with a file in hand can rely on.
LEMMA InHand ==
    ASSUME TypeOK, IInv, NEW r \in Runs, NEW f \in Files, task[r][f].pc # "none"
    PROVE  /\ r \in Running /\ FileHolds(f) /\ task[r][f] \in TaskRec
           /\ ~(run[r].next <= f)
           /\ ~shared => \A s \in Runs \ {r} : task[s][f] = NoTask
  <1>1. FileHolds(f) /\ task[r][f] \in TaskRec
    BY Typed DEF IInv
  <1>2. r \in Running /\ ~(run[r].next <= f)
    BY <1>1, NoTaskIs DEF FileHolds, IdleHolds
  <1>3. ~shared => \A s \in Runs \ {r} : s \notin Running
    BY <1>2 DEF IInv, RunsHold
  <1> QED BY <1>1, <1>2, <1>3 DEF FileHolds, IdleHolds

\* A run that notes an error, and one that does not.
LEMMA FailStays ==
    ASSUME TypeOK, NEW r \in Runs, Fail(r) \/ UNCHANGED run
    PROVE  RunsStay /\ (Fail(r) => run'[r].err)
  <1>1. run \in [Runs -> RunRec]
    BY Typed
  <1>2. CASE ~Fail(r)
    BY <1>1, <1>2 DEF RunsStay
  <1>3. CASE Fail(r)
    <2> DEFINE q == [run[r] EXCEPT !.err = TRUE, !.canceled = TRUE]
    <2>1. q \in RunRec /\ q.pc = run[r].pc /\ q.next = run[r].next /\ q.err = TRUE
      BY <1>1 DEF RunRec
    <2>2. run' = [run EXCEPT ![r] = q]
      BY <1>3 DEF Fail
    <2> HIDE DEF q
    <2> QED BY <1>1, <2>1, <2>2 DEF RunsStay
  <1> QED BY <1>2, <1>3

\* A goroutine moves on without touching the directory.
LEMMA MovesOnHolds ==
    ASSUME TypeOK, IInv, NEW r \in Runs, NEW f \in Files, task[r][f].pc # "none",
           NEW t \in TaskRec, task' = [task EXCEPT ![r][f] = t],
           Fail(r) \/ UNCHANGED run, UNCHANGED <<dest, part, History>>,
           dir' = dir \/ dir' = TRUE,
           t.fd \in {"none", task[r][f].fd}, t.at = task[r][f].at \/ t.pc = "none",
           t.pc \in {"copy", "rename"} =>
               /\ task[r][f].pc = "copy" /\ t.fd = task[r][f].fd
               /\ f \in Sized => t.at = Length[f],
           task[r][f].pc \in {"copy", "rename", "drop"} /\ f \in DOMAIN part
               => t.pc \in {"copy", "rename", "drop"},
           t.pc = "none" => t = NoTask /\ (Fail(r) \/ f \in DOMAIN dest)
    PROVE  TypeOK' /\ OnlyFile(f) /\ FileHolds(f)' /\ (Complete(f) => Complete(f)')
  <1>0. UNCHANGED <<dest, part, company, shared, crashes>>
    BY DEF History
  <1>1. /\ task' \in [Runs -> [Files -> TaskRec]] /\ task'[r][f] = t
        /\ \A s \in Runs : \A g \in Files \ {f} : task'[s][g] = task[s][g]
        /\ \A s \in Runs \ {r} : task'[s][f] = task[s][f]
    BY TaskMoves, Typed
  <1>2. RunsStay /\ (Fail(r) => run'[r].err) /\ UNCHANGED <<company, shared, crashes>>
    BY <1>0, FailStays
  <1>3. TypeOK'
    <2>1. /\ DOMAIN dest' # {} \/ DOMAIN part' # {} => dir'
          /\ dir' \in BOOLEAN
      <3>1. CASE dir' = TRUE
        BY <3>1
      <3>2. CASE dir' = dir
        BY <1>0, <3>2, Typed
      <3> QED BY <3>1, <3>2
    <2>2. /\ dest' \in Listings /\ part' \in Listings
          /\ company' \in [Runs -> BOOLEAN] /\ shared' \in BOOLEAN /\ crashes' \in 0..MaxCrashes
      BY <1>0, Typed
    <2>3. run' \in [Runs -> RunRec]
      BY <1>2 DEF RunsStay
    <2> QED BY <1>1, <2>1, <2>2, <2>3, TypedParts
  <1>4. OnlyFile(f)
    BY <1>1, <1>2 DEF OnlyFile, SameListing
  <1>5. r \in Running /\ FileHolds(f) /\ Running' = Running /\ ~(run[r].next <= f)
    BY <1>2, InHand DEF RunsStay, Running
  <1>6. IdleHolds(f)'
    BY <1>1, <1>2, <1>5 DEF FileHolds, IdleHolds, RunsStay
  <1>7. OpenHolds(f)'
    BY <1>1, <1>5 DEF FileHolds, OpenHolds
  <1>8. SizeHolds(f)'
    BY <1>1, <1>5 DEF FileHolds, SizeHolds
  <1>9. AloneHolds(f)'
    BY <1>1, <1>2, <1>5 DEF FileHolds, AloneHolds, Complete
  <1>10. DoneHolds(f)'
    <2> SUFFICES ASSUME NEW s \in Running, ~shared, ~company[s], ~run'[s].err,
                        f < run[s].next, task'[s][f].pc = "none"
                 PROVE  f \in DOMAIN dest
      BY <1>0, <1>2, <1>5 DEF DoneHolds, RunsStay, Running
    <2>1. ~run[s].err
      BY <1>2 DEF RunsStay, Running
    <2>2. CASE s = r
      BY <1>1, <1>2, <2>2
    <2>3. CASE s # r
      BY <1>1, <1>5, <2>1, <2>3 DEF FileHolds, DoneHolds
    <2> QED BY <2>2, <2>3
  <1>11. PartHolds(f)'
    BY <1>1, <1>2, <1>5 DEF FileHolds, PartHolds
  <1> QED BY <1>3, <1>4, <1>6, <1>7, <1>8, <1>9, <1>10, <1>11 DEF FileHolds, Complete

\* A step about file f that leaves company and counters alone is typed if its
\* goroutine and the directory are.
LEMMA StepTyped ==
    ASSUME TypeOK, RunsStay, UNCHANGED History, task' \in [Runs -> [Files -> TaskRec]],
           dest' \in Listings, part' \in Listings,
           dir' = dir, DOMAIN dest' # {} \/ DOMAIN part' # {} => dir
    PROVE  TypeOK'
  <1>1. UNCHANGED <<company, shared, crashes>>
    BY DEF History
  <1>2. company' \in [Runs -> BOOLEAN] /\ shared' \in BOOLEAN /\ crashes' \in 0..MaxCrashes
    BY <1>1, Typed
  <1>3. dir' \in BOOLEAN /\ (DOMAIN dest' # {} \/ DOMAIN part' # {} => dir')
    BY Typed
  <1> QED BY <1>2, <1>3, TypedParts DEF RunsStay

\* The descriptors after the .partial name is gone.
LEMMA UnlinkedMoves ==
    ASSUME TypeOK, NEW f \in Files
    PROVE  /\ Unlinked(f) \in [Runs -> [Files -> TaskRec]]
           /\ \A s \in Runs : \A g \in Files \ {f} : Unlinked(f)[s][g] = task[s][g]
           /\ \A s \in Runs :
                 LET u == Unlinked(f)[s][f]
                     fd == task[s][f].fd
                 IN  /\ u.pc = task[s][f].pc /\ u.at = task[s][f].at
                     /\ fd \in Fds
                     /\ u.fd = IF fd = "part" THEN "lost" ELSE fd
                     /\ fd # "part" => u = task[s][f]
  <1> DEFINE move == [part |-> "lost"]
  <1>1. \A fd \in Fds : Lands(move, fd) = IF fd = "part" THEN "lost" ELSE fd
    BY Moves
  <1>2. \A fd \in Fds : Lands(move, fd) \in Fds
    BY <1>1 DEF Fds
  <1>3. \A s \in Runs : task[s][f].fd \in Fds
    BY Typed DEF TaskRec
  <1> HIDE DEF move
  <1>4. /\ Relinked(f, move) \in [Runs -> [Files -> TaskRec]]
        /\ \A s \in Runs : \A g \in Files \ {f} : Relinked(f, move)[s][g] = task[s][g]
        /\ \A s \in Runs : /\ Relinked(f, move)[s][f].pc = task[s][f].pc
                           /\ Relinked(f, move)[s][f].at = task[s][f].at
                           /\ Relinked(f, move)[s][f].fd = Lands(move, task[s][f].fd)
                           /\ Lands(move, task[s][f].fd) = task[s][f].fd
                                  => Relinked(f, move)[s][f] = task[s][f]
    BY <1>2, RelinkedMoves, Typed
  <1>5. Unlinked(f) = Relinked(f, move)
    BY DEF Unlinked, move
  <1> QED BY <1>1, <1>3, <1>4, <1>5

\* A goroutine removes the .partial name, whoever's it is, and with it goes the
\* claim of every descriptor on it (downloader.go os.Remove).
LEMMA RemovesHolds ==
    ASSUME TypeOK, IInv, NEW r \in Runs, NEW f \in Files, task[r][f].pc # "none",
           RemovePartial(f), NEW t \in TaskRec, task' = [Unlinked(f) EXCEPT ![r][f] = t],
           Fail(r) \/ UNCHANGED run, UNCHANGED <<dest, dir, History>>,
           t.fd # "part", t.fd = "dest" => task[r][f].fd = "dest",
           t.pc \in {"none", "request"}, t.pc = "none" => t = NoTask /\ Fail(r)
    PROVE  TypeOK' /\ OnlyFile(f) /\ FileHolds(f)' /\ (Complete(f) => Complete(f)')
  <1>0. UNCHANGED <<dest, dir, company, shared, crashes>>
    BY DEF History
  <1>1. /\ part' \in Listings /\ DOMAIN part' = DOMAIN part \ {f}
        /\ \A g \in DOMAIN part \ {f} : part'[g] = part[g]
    BY WithoutTakes, Typed DEF RemovePartial
  <1>2. /\ Unlinked(f) \in [Runs -> [Files -> TaskRec]]
        /\ \A s \in Runs : \A g \in Files \ {f} : Unlinked(f)[s][g] = task[s][g]
        /\ \A s \in Runs :
              LET u == Unlinked(f)[s][f]
                  fd == task[s][f].fd
              IN  /\ u.pc = task[s][f].pc /\ u.at = task[s][f].at
                  /\ fd \in Fds
                  /\ u.fd = IF fd = "part" THEN "lost" ELSE fd
                  /\ fd # "part" => u = task[s][f]
    BY UnlinkedMoves
  <1>3. /\ task' \in [Runs -> [Files -> TaskRec]] /\ task'[r][f] = t
        /\ \A s \in Runs : \A g \in Files \ {f} : task'[s][g] = task[s][g]
        /\ \A s \in Runs \ {r} : task'[s][f] = Unlinked(f)[s][f]
    <2>1. PICK T \in [Runs -> [Files -> TaskRec]] : T = Unlinked(f)
      BY <1>2
    <2>2. task' = [T EXCEPT ![r][f] = t]
      BY <2>1
    <2>3. /\ task' \in [Runs -> [Files -> TaskRec]] /\ task'[r][f] = t
          /\ \A s \in Runs : \A g \in Files \ {f} : task'[s][g] = T[s][g]
          /\ \A s \in Runs \ {r} : task'[s][f] = T[s][f]
      BY <2>1, <2>2, TaskMoves
    <2> QED BY <1>2, <2>1, <2>3
  <1>4. RunsStay /\ (Fail(r) => run'[r].err)
    BY FailStays
  <1>5. TypeOK'
    <2>1. dest' \in Listings /\ (DOMAIN dest' # {} \/ DOMAIN part' # {} => dir)
      BY <1>0, <1>1, Typed
    <2> QED BY <1>0, <1>1, <1>3, <1>4, <2>1, StepTyped DEF History
  <1>6. OnlyFile(f)
    BY <1>0, <1>1, <1>3, <1>4 DEF OnlyFile, SameListing
  <1>7. r \in Running /\ FileHolds(f) /\ Running' = Running /\ ~(run[r].next <= f)
    BY <1>4, InHand DEF RunsStay, Running
  <1>8. f \notin DOMAIN part'
    BY <1>1
  <1>9. IdleHolds(f)'
    BY <1>2, <1>3, <1>4, <1>7, NoTaskIs DEF FileHolds, IdleHolds, RunsStay
  <1>10. OpenHolds(f)'
    BY <1>0, <1>2, <1>3, <1>7 DEF FileHolds, OpenHolds
  <1>11. SizeHolds(f)'
    BY <1>2, <1>3, <1>7 DEF FileHolds, SizeHolds
  <1>12. AloneHolds(f)'
    <2>1. Complete(f)' <=> Complete(f)
      BY <1>0 DEF Complete
    <2> QED BY <1>0, <1>2, <1>3, <1>7, <1>8, <2>1 DEF FileHolds, AloneHolds
  <1>13. DoneHolds(f)'
    <2> SUFFICES ASSUME NEW s \in Running, ~shared, ~company[s], ~run'[s].err,
                        f < run[s].next, task'[s][f].pc = "none"
                 PROVE  f \in DOMAIN dest
      BY <1>0, <1>4, <1>7 DEF DoneHolds, RunsStay, Running
    <2>1. ~run[s].err
      BY <1>4 DEF RunsStay, Running
    <2>2. CASE s = r
      BY <1>3, <1>4, <2>2
    <2>3. CASE s # r
      BY <1>2, <1>3, <1>7, <2>1, <2>3 DEF FileHolds, DoneHolds, Running
    <2> QED BY <2>2, <2>3
  <1>14. PartHolds(f)'
    BY <1>8 DEF PartHolds
  <1> QED BY <1>0, <1>5, <1>6, <1>9, <1>10, <1>11, <1>12, <1>13, <1>14 DEF FileHolds, Complete

\* A goroutine creates its .partial, or cuts one that is there (downloader.go
\* os.OpenFile).
LEMMA OpenStepHolds ==
    ASSUME TypeOK, IInv, NEW r \in Runs, NEW f \in Files, Open(r, f)
    PROVE  TypeOK' /\ OnlyFile(f) /\ FileHolds(f)' /\ (Complete(f) => Complete(f)')
  <1> DEFINE t == [pc |-> "copy", fd |-> "part", at |-> 0]
  <1>0. /\ UNCHANGED <<run, dest, dir, company, shared, crashes>> /\ dir
        /\ task[r][f].pc = "request" /\ part' = Put(part, f, {})
        /\ task' = [task EXCEPT ![r][f] = t]
    BY DEF Open, At, History
  <1>1. t \in TaskRec /\ t.pc = "copy" /\ t.fd = "part" /\ t.at = 0
    BY DEF TaskRec, Fds
  <1> HIDE DEF t
  <1>2. /\ part' \in Listings /\ DOMAIN part' = DOMAIN part \cup {f} /\ part'[f] = {}
        /\ \A g \in DOMAIN part \ {f} : part'[g] = part[g]
    <2>1. part \in Listings /\ {} \in SUBSET Chunks
      BY Typed
    <2> QED BY <1>0, <2>1, PutPuts
  <1>3. /\ task' \in [Runs -> [Files -> TaskRec]] /\ task'[r][f] = t
        /\ \A s \in Runs : \A g \in Files \ {f} : task'[s][g] = task[s][g]
        /\ \A s \in Runs \ {r} : task'[s][f] = task[s][f]
    BY <1>0, <1>1, TaskMoves, Typed
  <1>4. RunsStay /\ Running' = Running
    BY <1>0, FailStays DEF Running
  <1>5. TypeOK'
    <2>1. dest' \in Listings
      BY <1>0, Typed
    <2> QED BY <1>0, <1>2, <1>3, <1>4, <2>1, StepTyped DEF History
  <1>6. OnlyFile(f)
    BY <1>0, <1>2, <1>3, <1>4 DEF OnlyFile, SameListing
  <1>7. /\ r \in Running /\ FileHolds(f) /\ ~(run[r].next <= f)
        /\ ~shared => \A s \in Runs \ {r} : task[s][f] = NoTask
    BY <1>0, InHand
  <1>8. IdleHolds(f)'
    BY <1>1, <1>3, <1>4, <1>7 DEF FileHolds, IdleHolds, RunsStay
  <1>9. OpenHolds(f)'
    BY <1>0, <1>1, <1>2, <1>3, <1>7 DEF FileHolds, OpenHolds
  <1>10. SizeHolds(f)'
    BY <1>1, <1>3, <1>7 DEF FileHolds, SizeHolds
  <1>11. AloneHolds(f)'
    <2> SUFFICES ASSUME ~shared PROVE AloneHolds(f)'
      BY <1>0 DEF AloneHolds
    <2>1. Complete(f)' <=> Complete(f)
      BY <1>0 DEF Complete
    <2>2. part'[f] = 0..0 - 1
      BY <1>2
    <2>3. ASSUME NEW s \in Runs
          PROVE  /\ task'[s][f].fd # "dest"
                 /\ task'[s][f].pc \in {"copy", "rename"}
                       => task'[s][f].fd = "part" /\ part'[f] = 0..task'[s][f].at - 1
      <3>1. CASE s = r
        BY <1>1, <1>3, <2>2, <3>1
      <3>2. CASE s # r
        BY <1>3, <1>7, <3>2, NoTaskIs
      <3> QED BY <3>1, <3>2
    <2> QED BY <1>0, <1>7, <2>1, <2>3 DEF FileHolds, AloneHolds
  <1>12. DoneHolds(f)'
    <2> SUFFICES ASSUME NEW s \in Running, ~shared, ~company[s], ~run[s].err,
                        f < run[s].next, task'[s][f].pc = "none"
                 PROVE  f \in DOMAIN dest
      BY <1>0, <1>4 DEF DoneHolds
    <2>1. s # r
      BY <1>1, <1>3
    <2> QED BY <1>3, <1>7, <2>1 DEF FileHolds, DoneHolds, Running
  <1>13. PartHolds(f)'
    BY <1>1, <1>3 DEF PartHolds
  <1> QED BY <1>0, <1>5, <1>6, <1>8, <1>9, <1>10, <1>11, <1>12, <1>13 DEF FileHolds, Complete

\* A goroutine writes a chunk, wherever its file lies by now (downloader.go
\* copyWithProgress).
LEMMA WriteStepHolds ==
    ASSUME TypeOK, IInv, NEW r \in Runs, NEW f \in Files, Write(r, f)
    PROVE  TypeOK' /\ OnlyFile(f) /\ FileHolds(f)' /\ (Complete(f) /\ ~shared => Complete(f)')
  <1> DEFINE n == task[r][f].at
             t == [task[r][f] EXCEPT !.at = n + 1]
  <1>0. /\ UNCHANGED <<run, dir, company, shared, crashes>>
        /\ task[r][f].pc = "copy" /\ n < Length[f]
        /\ task' = [task EXCEPT ![r][f] = t]
        /\ part' = IF task[r][f].fd = "part" THEN Put(part, f, part[f] \cup {n}) ELSE part
        /\ dest' = IF task[r][f].fd = "dest" THEN Put(dest, f, dest[f] \cup {n}) ELSE dest
    BY DEF Write, At, History
  <1>1. /\ t \in TaskRec /\ t.pc = "copy" /\ t.fd = task[r][f].fd /\ t.at = n + 1 /\ n \in Nat
        /\ task[r][f].fd \in Fds
    <2>1. PICK u \in TaskRec : u = task[r][f]
      BY Typed
    <2>2. n \in Nat /\ n + 1 \in Nat
      BY <2>1 DEF TaskRec
    <2>3. t = [u EXCEPT !.at = n + 1]
      BY <2>1
    <2>4. u.pc = "copy" /\ u.fd = task[r][f].fd
      BY <1>0, <2>1
    <2> HIDE DEF t, n
    <2>5. /\ t \in TaskRec /\ t.pc = u.pc /\ t.fd = u.fd /\ t.at = n + 1
          /\ u.fd \in Fds
      BY <2>2, <2>3 DEF TaskRec
    <2> QED BY <2>2, <2>4, <2>5
  <1>2. /\ r \in Running /\ FileHolds(f) /\ ~(run[r].next <= f) /\ {n} \subseteq Chunks
        /\ ~shared => \A s \in Runs \ {r} : task[s][f] = NoTask
    <2>1. n \in Chunks
      BY <1>0, <1>1, ChunksAre
    <2> QED BY <1>0, <2>1, InHand
  <1> HIDE DEF t, n
  <1>3. /\ task' \in [Runs -> [Files -> TaskRec]] /\ task'[r][f] = t
        /\ \A s \in Runs : \A g \in Files \ {f} : task'[s][g] = task[s][g]
        /\ \A s \in Runs \ {r} : task'[s][f] = task[s][f]
    BY <1>0, <1>1, TaskMoves, Typed
  <1>4. /\ part' \in Listings /\ DOMAIN part' = DOMAIN part
        /\ \A g \in DOMAIN part \ {f} : part'[g] = part[g]
        /\ f \in DOMAIN part =>
              part'[f] = IF task[r][f].fd = "part" THEN part[f] \cup {n} ELSE part[f]
    <2>1. CASE task[r][f].fd = "part"
      <3>1. f \in DOMAIN part
        BY <1>2, <2>1 DEF FileHolds, OpenHolds
      <3>2. PICK data \in SUBSET Chunks : data = part[f] \cup {n}
        <4>1. part[f] \cup {n} \in SUBSET Chunks
          BY <1>2, <3>1, ListingIs, Typed
        <4> QED BY <4>1
      <3>3. part \in Listings /\ part' = Put(part, f, data)
        BY <1>0, <2>1, <3>2, Typed
      <3>4. /\ part' \in Listings /\ DOMAIN part' = DOMAIN part \cup {f}
            /\ part'[f] = data
            /\ \A g \in DOMAIN part \ {f} : part'[g] = part[g]
        BY <3>3, PutPuts
      <3> QED BY <2>1, <3>1, <3>2, <3>4
    <2>2. CASE task[r][f].fd # "part"
      BY <1>0, <2>2, Typed
    <2> QED BY <2>1, <2>2
  <1>5. /\ dest' \in Listings /\ DOMAIN dest' = DOMAIN dest
        /\ \A g \in DOMAIN dest \ {f} : dest'[g] = dest[g]
        /\ task[r][f].fd # "dest" => dest' = dest
    <2>1. CASE task[r][f].fd = "dest"
      <3>1. f \in DOMAIN dest
        BY <1>2, <2>1 DEF FileHolds, OpenHolds
      <3>2. PICK data \in SUBSET Chunks : data = dest[f] \cup {n}
        <4>1. dest[f] \cup {n} \in SUBSET Chunks
          BY <1>2, <3>1, ListingIs, Typed
        <4> QED BY <4>1
      <3>3. dest \in Listings /\ dest' = Put(dest, f, data)
        BY <1>0, <2>1, <3>2, Typed
      <3>4. /\ dest' \in Listings /\ DOMAIN dest' = DOMAIN dest \cup {f}
            /\ dest'[f] = data
            /\ \A g \in DOMAIN dest \ {f} : dest'[g] = dest[g]
        BY <3>3, PutPuts
      <3> QED BY <2>1, <3>1, <3>2, <3>4
    <2>2. CASE task[r][f].fd # "dest"
      BY <1>0, <2>2, Typed
    <2> QED BY <2>1, <2>2
  <1>6. RunsStay /\ Running' = Running
    BY <1>0, FailStays DEF Running
  <1>7. TypeOK'
    <2>1. DOMAIN dest' # {} \/ DOMAIN part' # {} => dir
      BY <1>4, <1>5, Typed
    <2> QED BY <1>0, <1>3, <1>4, <1>5, <1>6, <2>1, StepTyped DEF History
  <1>8. OnlyFile(f)
    BY <1>0, <1>3, <1>4, <1>5, <1>6 DEF OnlyFile, SameListing
  <1>9. IdleHolds(f)'
    BY <1>1, <1>2, <1>3, <1>6 DEF FileHolds, IdleHolds, RunsStay
  <1>10. OpenHolds(f)'
    BY <1>1, <1>2, <1>3, <1>4, <1>5 DEF FileHolds, OpenHolds
  <1>11. SizeHolds(f)'
    BY <1>1, <1>2, <1>3 DEF FileHolds, SizeHolds
  <1>12. ~shared => dest' = dest
    BY <1>2, <1>5 DEF FileHolds, AloneHolds
  <1>13. AloneHolds(f)'
    <2> SUFFICES ASSUME ~shared PROVE AloneHolds(f)'
      BY <1>0 DEF AloneHolds
    <2>1. Complete(f)' <=> Complete(f)
      BY <1>12 DEF Complete
    <2>2. ASSUME NEW s \in Runs
          PROVE  /\ task'[s][f].fd # "dest"
                 /\ task'[s][f].pc \in {"copy", "rename"} /\ f \in DOMAIN part'
                       => task'[s][f].fd = "part" /\ part'[f] = 0..task'[s][f].at - 1
      <3>1. CASE s = r
        <4>1. /\ task[r][f].fd # "dest"
              /\ f \in DOMAIN part => task[r][f].fd = "part" /\ part[f] = 0..n - 1
          BY <1>0, <1>2 DEF FileHolds, AloneHolds, n
        <4>2. (0..n - 1) \cup {n} = 0..(n + 1) - 1
          BY <1>1
        <4> QED BY <1>1, <1>3, <1>4, <3>1, <4>1, <4>2
      <3>2. CASE s # r
        BY <1>2, <1>3, <3>2, NoTaskIs
      <3> QED BY <3>1, <3>2
    <2> QED BY <1>2, <1>12, <2>1, <2>2 DEF FileHolds, AloneHolds
  <1>14. DoneHolds(f)'
    <2> SUFFICES ASSUME NEW s \in Running, ~shared, ~company[s], ~run[s].err,
                        f < run[s].next, task'[s][f].pc = "none"
                 PROVE  f \in DOMAIN dest
      BY <1>0, <1>5, <1>6 DEF DoneHolds
    <2>1. s # r
      BY <1>1, <1>3
    <2> QED BY <1>2, <1>3, <2>1 DEF FileHolds, DoneHolds, Running
  <1>15. PartHolds(f)'
    BY <1>1, <1>3 DEF PartHolds
  <1> QED BY <1>7, <1>8, <1>9, <1>10, <1>11, <1>12, <1>13, <1>14, <1>15 DEF FileHolds, Complete

\* What lies under the .partial name becomes the file (downloader.go
\* os.Rename): of a run that is alone, what it wrote.
LEMMA RenameStepHolds ==
    ASSUME TypeOK, IInv, NEW r \in Runs, NEW f \in Files, Rename(r, f)
    PROVE  TypeOK' /\ OnlyFile(f) /\ FileHolds(f)' /\ (Complete(f) /\ ~shared => Complete(f)')
  <1> DEFINE move == [part |-> "dest", dest |-> "lost"]
  <1>0. /\ UNCHANGED <<run, dir, company, shared, crashes>>
        /\ task[r][f].pc = "rename" /\ f \in DOMAIN part
        /\ dest' = Put(dest, f, part[f]) /\ part' = Without(part, f)
        /\ task' = [Relinked(f, move) EXCEPT ![r][f] = NoTask]
    BY DEF Rename, At, History, RemovePartial
  <1>1. /\ r \in Running /\ FileHolds(f)
        /\ ~shared => \A s \in Runs \ {r} : task[s][f] = NoTask
    BY <1>0, InHand
  <1>2. /\ part' \in Listings /\ DOMAIN part' = DOMAIN part \ {f}
        /\ \A g \in DOMAIN part \ {f} : part'[g] = part[g]
    BY <1>0, WithoutTakes, Typed
  <1>3. /\ dest' \in Listings /\ DOMAIN dest' = DOMAIN dest \cup {f} /\ dest'[f] = part[f]
        /\ \A g \in DOMAIN dest \ {f} : dest'[g] = dest[g]
    <2>1. PICK data \in SUBSET Chunks : data = part[f]
      <3>1. part[f] \in SUBSET Chunks
        BY <1>0, ListingIs, Typed
      <3> QED BY <3>1
    <2>2. dest \in Listings /\ dest' = Put(dest, f, data)
      BY <1>0, <2>1, Typed
    <2>3. /\ Put(dest, f, data) \in Listings
          /\ DOMAIN Put(dest, f, data) = DOMAIN dest \cup {f}
          /\ Put(dest, f, data)[f] = data
          /\ \A g \in DOMAIN dest \ {f} : Put(dest, f, data)[g] = dest[g]
      BY <2>2, PutPuts
    <2> QED BY <2>1, <2>2, <2>3
  <1>4. /\ Relinked(f, move) \in [Runs -> [Files -> TaskRec]]
        /\ \A s \in Runs : \A g \in Files \ {f} : Relinked(f, move)[s][g] = task[s][g]
        /\ \A s \in Runs :
              LET u == Relinked(f, move)[s][f]
                  fd == task[s][f].fd
              IN  /\ u.pc = task[s][f].pc /\ u.at = task[s][f].at
                  /\ fd \in Fds /\ u.fd # "part"
                  /\ fd = "none" => u = task[s][f]
    <2>1. \A fd \in Fds : Lands(move, fd) =
              IF fd = "part" THEN "dest" ELSE IF fd = "dest" THEN "lost" ELSE fd
      BY Moves
    <2>2. \A fd \in Fds : Lands(move, fd) \in Fds /\ Lands(move, fd) # "part"
      BY <2>1 DEF Fds
    <2>3. \A s \in Runs : task[s][f].fd \in Fds
      BY Typed DEF TaskRec
    <2> HIDE DEF move
    <2>4. /\ Relinked(f, move) \in [Runs -> [Files -> TaskRec]]
          /\ \A s \in Runs : \A g \in Files \ {f} : Relinked(f, move)[s][g] = task[s][g]
          /\ \A s \in Runs : /\ Relinked(f, move)[s][f].pc = task[s][f].pc
                             /\ Relinked(f, move)[s][f].at = task[s][f].at
                             /\ Relinked(f, move)[s][f].fd = Lands(move, task[s][f].fd)
                             /\ Lands(move, task[s][f].fd) = task[s][f].fd
                                    => Relinked(f, move)[s][f] = task[s][f]
      BY <2>2, RelinkedMoves, Typed
    <2> QED BY <2>1, <2>2, <2>3, <2>4
  <1>5. /\ task' \in [Runs -> [Files -> TaskRec]] /\ task'[r][f] = NoTask
        /\ \A s \in Runs : \A g \in Files \ {f} : task'[s][g] = task[s][g]
        /\ \A s \in Runs \ {r} : task'[s][f] = Relinked(f, move)[s][f]
    <2>1. PICK T \in [Runs -> [Files -> TaskRec]] : T = Relinked(f, move)
      BY <1>4
    <2>2. task' = [T EXCEPT ![r][f] = NoTask]
      BY <1>0, <2>1
    <2>3. /\ task' \in [Runs -> [Files -> TaskRec]] /\ task'[r][f] = NoTask
          /\ \A s \in Runs : \A g \in Files \ {f} : task'[s][g] = T[s][g]
          /\ \A s \in Runs \ {r} : task'[s][f] = T[s][f]
      BY <2>1, <2>2, TaskMoves, NoTaskIs
    <2> QED BY <1>4, <2>1, <2>3
  <1> HIDE DEF move
  <1>6. RunsStay /\ Running' = Running
    BY <1>0, FailStays DEF Running
  <1>7. TypeOK'
    <2>1. dir
      BY <1>0, Typed
    <2> QED BY <1>0, <1>2, <1>3, <1>5, <1>6, <2>1, StepTyped DEF History
  <1>8. OnlyFile(f)
    BY <1>0, <1>2, <1>3, <1>5, <1>6 DEF OnlyFile, SameListing
  <1>9. f \in DOMAIN dest' /\ f \notin DOMAIN part'
    BY <1>2, <1>3
  <1>10. IdleHolds(f)'
    BY <1>1, <1>4, <1>5, <1>6, NoTaskIs DEF FileHolds, IdleHolds, RunsStay
  <1>11. OpenHolds(f)'
    BY <1>4, <1>5, <1>9, NoTaskIs DEF OpenHolds
  <1>12. SizeHolds(f)'
    BY <1>1, <1>4, <1>5, NoTaskIs DEF FileHolds, SizeHolds
  <1>13. ~shared => Complete(f)'
    <2> SUFFICES ASSUME ~shared, f \in Sized PROVE dest'[f] = 0..Length[f] - 1
      BY <1>9 DEF Complete
    <2>1. part[f] = 0..task[r][f].at - 1
      BY <1>0, <1>1 DEF FileHolds, AloneHolds
    <2>2. task[r][f].at = Length[f]
      BY <1>0, <1>1 DEF FileHolds, SizeHolds
    <2> QED BY <1>3, <2>1, <2>2
  <1>14. AloneHolds(f)'
    <2> SUFFICES ASSUME ~shared, NEW s \in Runs PROVE task'[s][f].fd # "dest"
      BY <1>0, <1>9, <1>13 DEF AloneHolds
    <2>1. CASE s = r
      BY <1>5, <2>1, NoTaskIs
    <2>2. CASE s # r
      BY <1>1, <1>4, <1>5, <2>2, NoTaskIs
    <2> QED BY <2>1, <2>2
  <1>15. DoneHolds(f)' /\ PartHolds(f)'
    BY <1>9 DEF DoneHolds, PartHolds
  <1> QED BY <1>7, <1>8, <1>10, <1>11, <1>12, <1>13, <1>14, <1>15 DEF FileHolds

\* A goroutine removes its own .partial before the request, or when it fails.
LEMMA RemoveStepHolds ==
    ASSUME TypeOK, IInv, NEW r \in Runs, NEW f \in Files,
           Clean(r, f) \/ CopyFails(r, f) \/ Drop(r, f)
    PROVE  TypeOK' /\ OnlyFile(f) /\ FileHolds(f)' /\ (Complete(f) => Complete(f)')
  <1>1. CASE Clean(r, f)
    <2> DEFINE u == Unlinked(f)[r][f]
               t == [u EXCEPT !.pc = "request"]
    <2>1. /\ task[r][f].pc # "none" /\ RemovePartial(f) /\ UNCHANGED <<dest, dir, History>>
          /\ UNCHANGED run /\ task' = [Unlinked(f) EXCEPT ![r][f] = t]
      BY <1>1 DEF Clean, At
    <2>2. u \in TaskRec /\ u.fd = IF task[r][f].fd = "part" THEN "lost" ELSE task[r][f].fd
      BY UnlinkedMoves
    <2> HIDE DEF u
    <2>3. t \in TaskRec /\ t.pc = "request" /\ t.fd = u.fd
      BY <2>2 DEF TaskRec
    <2>4. t.fd # "part" /\ (t.fd = "dest" => task[r][f].fd = "dest")
      BY <2>2, <2>3
    <2> HIDE DEF t
    <2> QED BY <2>1, <2>3, <2>4, RemovesHolds
  <1>2. CASE CopyFails(r, f) \/ Drop(r, f)
    <2>1. /\ task[r][f].pc # "none" /\ RemovePartial(f) /\ UNCHANGED <<dest, dir, History>>
          /\ Fail(r) /\ task' = [Unlinked(f) EXCEPT ![r][f] = NoTask]
      BY <1>2 DEF CopyFails, Drop, DropPartial, At
    <2> QED BY <2>1, NoTaskIs, RemovesHolds
  <1> QED BY <1>1, <1>2

\* A goroutine looks at the file, fails before it has opened it, comes to the
\* end of the body, or finds nothing to rename.
LEMMA MoveOnStepHolds ==
    ASSUME TypeOK, IInv, NEW r \in Runs, NEW f \in Files,
           Stat(r, f) \/ RequestFails(r, f) \/ CopyEnds(r, f) \/ RenameFails(r, f)
    PROVE  TypeOK' /\ OnlyFile(f) /\ FileHolds(f)' /\ (Complete(f) => Complete(f)')
  <1> DEFINE t(pc) == [task[r][f] EXCEPT !.pc = pc]
  <1>1. \A pc \in {"clean", "rename", "drop"} :
            t(pc) \in TaskRec /\ t(pc).pc = pc /\ t(pc).fd = task[r][f].fd
                /\ t(pc).at = task[r][f].at
    <2>1. PICK u \in TaskRec : u = task[r][f]
      BY Typed
    <2>2. \A pc \in {"clean", "rename", "drop"} :
              [u EXCEPT !.pc = pc] \in TaskRec /\ [u EXCEPT !.pc = pc].pc = pc
                  /\ [u EXCEPT !.pc = pc].fd = u.fd /\ [u EXCEPT !.pc = pc].at = u.at
      BY DEF TaskRec
    <2> QED BY <2>1, <2>2
  <1>2. CASE Stat(r, f)
    <2>1. /\ task[r][f].pc = "stat" /\ UNCHANGED <<run, dest, part, History>> /\ dir' = TRUE
          /\ \/ f \in DOMAIN dest /\ task' = [task EXCEPT ![r][f] = NoTask]
             \/ task' = [task EXCEPT ![r][f] = t("clean")]
      BY <1>2 DEF Stat, At, Mkdir, Done, Goto
    <2>2. CASE f \in DOMAIN dest /\ task' = [task EXCEPT ![r][f] = NoTask]
      BY <2>1, <2>2, NoTaskIs, MovesOnHolds
    <2>3. CASE task' = [task EXCEPT ![r][f] = t("clean")]
      <3>1. PICK u \in TaskRec : u = t("clean")
        BY <1>1
      <3>2. u.pc = "clean" /\ u.fd = task[r][f].fd /\ u.at = task[r][f].at
        BY <1>1, <3>1
      <3> HIDE DEF t
      <3> QED BY <2>1, <2>3, <3>1, <3>2, MovesOnHolds
    <2> QED BY <2>1, <2>2, <2>3
  <1>3. CASE RequestFails(r, f)
    <2>1. /\ task[r][f].pc = "request" /\ UNCHANGED <<dest, part, dir, History>> /\ Fail(r)
          /\ task' = [task EXCEPT ![r][f] = NoTask]
      BY <1>3 DEF RequestFails, At, Done, files
    <2> QED BY <2>1, NoTaskIs, MovesOnHolds
  <1>4. CASE CopyEnds(r, f)
    <2>1. /\ task[r][f].pc = "copy" /\ UNCHANGED <<run, dest, part, dir, History>>
          /\ f \in Sized => task[r][f].at = Length[f]
          /\ task' = [task EXCEPT ![r][f] = t("rename")]
      BY <1>4 DEF CopyEnds, At, Goto, files
    <2>2. PICK u \in TaskRec : u = t("rename")
      BY <1>1
    <2>3. u.pc = "rename" /\ u.fd = task[r][f].fd /\ u.at = task[r][f].at
      BY <1>1, <2>2
    <2> HIDE DEF t
    <2> QED BY <2>1, <2>2, <2>3, MovesOnHolds
  <1>5. CASE RenameFails(r, f)
    <2>1. /\ task[r][f].pc = "rename" /\ UNCHANGED <<run, dest, part, dir, History>>
          /\ f \notin DOMAIN part
          /\ task' = [task EXCEPT ![r][f] = t("drop")]
      BY <1>5 DEF RenameFails, At, Goto, files
    <2>2. PICK u \in TaskRec : u = t("drop")
      BY <1>1
    <2>3. u.pc = "drop" /\ u.fd = task[r][f].fd /\ u.at = task[r][f].at
      BY <1>1, <2>2
    <2> HIDE DEF t
    <2> QED BY <2>1, <2>2, <2>3, MovesOnHolds
  <1> QED BY <1>2, <1>3, <1>4, <1>5

\* What a step of a goroutine comes to: the invariant, no run begins or ends,
\* and while two runs have not met no file is undone.
LEMMA GoroutineHolds ==
    ASSUME TypeOK, IInv, NEW r \in Runs, NEW f \in Files, FileStep(r, f) \/ CdnStep(r, f)
    PROVE  /\ TypeOK' /\ IInv' /\ RunsStay /\ UNCHANGED <<company, shared>>
           /\ Full /\ ~shared => Full'
           /\ Running # {}
  <1>1. TypeOK' /\ OnlyFile(f) /\ FileHolds(f)' /\ (Complete(f) /\ ~shared => Complete(f)')
    BY MoveOnStepHolds, RemoveStepHolds, OpenStepHolds, WriteStepHolds, RenameStepHolds
       DEF FileStep, CdnStep
  <1>2. RunsStay /\ UNCHANGED <<company, shared>> /\ Running' = Running
    BY <1>1 DEF OnlyFile, RunsStay, Running
  <1>3. RunsHold'
    BY <1>2 DEF IInv, RunsHold, RunsStay
  <1>4. \A g \in Files : FileHolds(g)' /\ (Complete(g) /\ ~shared => Complete(g)')
    BY <1>1, OtherFilesHold DEF IInv
  <1>5. task[r][f].pc # "none"
    BY DEF FileStep, CdnStep, Stat, Clean, Rename, RenameFails, Drop, RequestFails, CopyFails,
           Open, Write, CopyEnds, At
  <1>6. Running # {}
    BY <1>5, InHand
  <1> QED BY <1>1, <1>2, <1>3, <1>4, <1>6 DEF IInv, Full

-----------------------------------------------------------------------------
(***************************************************************************)
(* Steps of a run, of who deletes the directory, and the end of the        *)
(* program                                                                 *)
(***************************************************************************)
\* A run begins on its first file, or on the directory of another run, which
\* is then shared (downloader.go Run).
LEMMA StartHolds ==
    ASSUME TypeOK, IInv, NEW r \in Runs, Start(r)
    PROVE  TypeOK' /\ IInv'
  <1>0. r \notin Running /\ dir' = TRUE /\ UNCHANGED <<task, dest, part, crashes>>
    BY DEF Start, Mkdir
  <1>1. /\ run' \in [Runs -> RunRec] /\ run'[r].pc = "running" /\ run'[r].next = 1
        /\ \A s \in Runs \ {r} : run'[s] = run[s]
    <2>1. PICK q \in RunRec : q = [run[r] EXCEPT !.pc = "running"]
      BY Typed DEF RunRec
    <2>2. run[r].next = 1 /\ q.pc = "running" /\ q.next = run[r].next
      BY <1>0, <2>1, Typed DEF IInv, RunsHold, RunRec
    <2>3. run' = [run EXCEPT ![r] = q]
      BY <2>1 DEF Start
    <2> QED BY <2>2, <2>3, Typed
  <1>2. company' \in [Runs -> BOOLEAN] /\ shared' \in BOOLEAN
    <2>1. \A i \in Runs : (IF i = r THEN Running # {} ELSE company[i] \/ i \in Running) \in BOOLEAN
      BY Typed
    <2> QED BY <2>1, Typed DEF Start
  <1>3. TypeOK'
    <2>1. /\ task' \in [Runs -> [Files -> TaskRec]] /\ dest' \in Listings /\ part' \in Listings
          /\ crashes' \in 0..MaxCrashes
      BY <1>0, Typed
    <2> QED BY <1>0, <1>1, <1>2, <2>1, TypedParts
  <1>4. Running' = Running \cup {r}
    BY <1>1 DEF Running
  <1>5. ~shared' => ~shared /\ Running = {} /\ Running' = {r}
    BY <1>4 DEF Start
  <1>6. RunsHold'
    BY <1>0, <1>1, <1>4, <1>5 DEF IInv, RunsHold
  <1>7. ASSUME NEW f \in Files PROVE FileHolds(f)'
    <2>1. FileHolds(f)
      BY DEF IInv
    <2>2. IdleHolds(f)'
      BY <1>0, <1>1, <1>4, <2>1 DEF FileHolds, IdleHolds
    <2>3. OpenHolds(f)' /\ SizeHolds(f)' /\ PartHolds(f)'
      BY <1>0, <2>1 DEF FileHolds, OpenHolds, SizeHolds, PartHolds
    <2>4. AloneHolds(f)'
      BY <1>0, <1>5, <2>1 DEF FileHolds, AloneHolds, Complete
    <2>5. DoneHolds(f)'
      <3>1. ~(f < 1)
        BY Typed DEF Files
      <3> QED BY <1>1, <1>5, <3>1 DEF DoneHolds
    <2> QED BY <2>2, <2>3, <2>4, <2>5 DEF FileHolds
  <1> QED BY <1>3, <1>6, <1>7 DEF IInv

\* A run puts a goroutine to its next file.
LEMMA SpawnHolds ==
    ASSUME TypeOK, IInv, NEW r \in Runs, Spawn(r)
    PROVE  TypeOK' /\ IInv' /\ UNCHANGED files /\ \A s \in Runs : run'[s].pc = run[s].pc
  <1> DEFINE n == run[r].next
             t == [task[r][n] EXCEPT !.pc = "stat"]
             q == [run[r] EXCEPT !.next = n + 1]
  <1>0. /\ r \in Running /\ n \in Files /\ UNCHANGED <<dest, part, dir, company, shared, crashes>>
        /\ task' = [task EXCEPT ![r][n] = t] /\ run' = [run EXCEPT ![r] = q]
    BY DEF Spawn, files
  <1>1. FileHolds(n) /\ task[r][n] = NoTask /\ n \in 1..LastFile
    <2>1. FileHolds(n) /\ n <= n /\ n \in 1..LastFile
      BY <1>0, Typed DEF IInv, Files
    <2> QED BY <2>1 DEF FileHolds, IdleHolds
  <1>2. t \in TaskRec /\ t.pc = "stat" /\ t.fd = "none" /\ t.at = 0
    <2>1. t = [NoTask EXCEPT !.pc = "stat"]
      BY <1>1
    <2> QED BY <2>1 DEF NoTask, TaskRec, Fds
  <1>3. /\ q \in RunRec /\ q.pc = run[r].pc /\ q.next = n + 1 /\ q.err = run[r].err
        /\ \A g \in Files : (n + 1 <= g => n <= g /\ g # n) /\ (g < n + 1 => g < n \/ g = n)
    <2>1. PICK u \in RunRec : u = run[r]
      BY Typed
    <2>2. n + 1 \in 1..LastFile + 1
      BY <1>1, Typed
    <2>3. q = [u EXCEPT !.next = n + 1]
      BY <2>1
    <2>4. \A g \in Files : (n + 1 <= g => n <= g /\ g # n) /\ (g < n + 1 => g < n \/ g = n)
      BY <1>1, Typed DEF Files
    <2>5. q \in RunRec /\ q.pc = u.pc /\ q.next = n + 1 /\ q.err = u.err
      <3> HIDE DEF q, n
      <3> QED BY <2>2, <2>3 DEF RunRec
    <2> QED BY <2>1, <2>4, <2>5
  <1>4. PICK k \in Files : k = n
    BY <1>0
  <1> HIDE DEF q, t, n
  <1>5. /\ task' \in [Runs -> [Files -> TaskRec]] /\ task'[r][k] = t
        /\ \A s \in Runs : \A g \in Files \ {k} : task'[s][g] = task[s][g]
        /\ \A s \in Runs \ {r} : task'[s][k] = task[s][k]
    <2>1. task' = [task EXCEPT ![r][k] = t]
      BY <1>0, <1>4
    <2> QED BY <1>2, <2>1, TaskMoves, Typed
  <1>6. run' \in [Runs -> RunRec] /\ run'[r] = q /\ \A s \in Runs \ {r} : run'[s] = run[s]
    BY <1>0, <1>3, Typed
  <1>7. Running' = Running /\ \A s \in Runs : run'[s].pc = run[s].pc
    BY <1>3, <1>6 DEF Running
  <1>8. TypeOK'
    <2>1. /\ dest' \in Listings /\ part' \in Listings
          /\ DOMAIN dest' # {} \/ DOMAIN part' # {} => dir'
          /\ company' \in [Runs -> BOOLEAN] /\ shared' \in BOOLEAN /\ dir' \in BOOLEAN
          /\ crashes' \in 0..MaxCrashes
      BY <1>0, Typed
    <2> QED BY <1>5, <1>6, <2>1, TypedParts
  <1>9. RunsHold'
    BY <1>0, <1>6, <1>7 DEF IInv, RunsHold
  <1>10. ASSUME NEW f \in Files PROVE FileHolds(f)'
    <2>1. FileHolds(f)
      BY DEF IInv
    <2>2. IdleHolds(f)'
      <3> SUFFICES ASSUME NEW s \in Runs,
                          s \notin Running \/ run'[s].next <= f \/ task'[s][f].pc = "none"
                   PROVE  task'[s][f] = NoTask
        BY <1>7 DEF IdleHolds
      <3>1. CASE s = r
        <4>1. f # k
          BY <1>0, <1>2, <1>3, <1>4, <1>5, <1>6, <3>1
        <4>2. run[r].next <= f \/ task[r][f].pc = "none"
          BY <1>0, <1>3, <1>5, <1>6, <3>1, <4>1 DEF n
        <4> QED BY <1>5, <2>1, <3>1, <4>1, <4>2 DEF FileHolds, IdleHolds
      <3>2. CASE s # r
        <4>1. task'[s][f] = task[s][f] /\ run'[s] = run[s]
          BY <1>5, <1>6, <3>2
        <4> QED BY <2>1, <4>1 DEF FileHolds, IdleHolds
      <3> QED BY <3>1, <3>2
    <2>3. \A s \in Runs : \/ task'[s][f] = task[s][f]
                          \/ s = r /\ f = k /\ task'[s][f] = t
      BY <1>5
    <2>4. OpenHolds(f)' /\ SizeHolds(f)'
      BY <1>0, <1>2, <2>1, <2>3 DEF FileHolds, OpenHolds, SizeHolds
    <2>5. AloneHolds(f)'
      BY <1>0, <1>2, <2>1, <2>3 DEF FileHolds, AloneHolds, Complete
    <2>6. DoneHolds(f)'
      <3> SUFFICES ASSUME NEW s \in Running, ~shared, ~company[s], ~run'[s].err,
                          f < run'[s].next, task'[s][f].pc = "none"
                   PROVE  f \in DOMAIN dest
        BY <1>0, <1>7 DEF DoneHolds
      <3>1. s \in Runs /\ task[s][f].pc = "none" /\ (s = r => f # k)
        BY <1>2, <1>5, <2>3 DEF Running
      <3>2. ~run[s].err /\ f < run[s].next
        BY <1>3, <1>4, <1>6, <3>1 DEF n
      <3> QED BY <2>1, <3>1, <3>2 DEF FileHolds, DoneHolds
    <2>7. PartHolds(f)'
      <3> SUFFICES ASSUME crashes = 0, f \in DOMAIN part
                   PROVE  \E s \in Runs : task'[s][f].pc \in {"copy", "rename", "drop"}
        BY <1>0 DEF PartHolds
      <3>1. PICK s \in Runs : task[s][f].pc \in {"copy", "rename", "drop"}
        BY <2>1 DEF FileHolds, PartHolds
      <3>2. ~(s = r /\ f = k)
        BY <1>1, <1>4, <3>1, NoTaskIs
      <3> QED BY <2>3, <1>5, <3>1, <3>2
    <2> QED BY <2>2, <2>4, <2>5, <2>6, <2>7 DEF FileHolds
  <1> QED BY <1>0, <1>7, <1>8, <1>9, <1>10 DEF IInv, files

\* A run that is over has no goroutines left, and its caller may start again.
LEMMA FinishHolds ==
    ASSUME TypeOK, IInv, NEW r \in Runs, Finish(r)
    PROVE  TypeOK' /\ IInv'
  <1> DEFINE q == [NoRun EXCEPT !.pc = IF run[r].err THEN "failed" ELSE "ok"]
  <1>0. /\ r \in Running /\ Working(r) = {} /\ UNCHANGED <<task, dest, part, dir, shared, crashes>>
        /\ run' = [run EXCEPT ![r] = q] /\ company' = [company EXCEPT ![r] = FALSE]
    BY DEF Finish, Return, files
  <1>1. q \in RunRec /\ q.pc # "running" /\ q.next = 1
    <2>1. NoRun \in RunRec /\ NoRun.next = 1
      BY Typed DEF NoRun, RunRec
    <2>2. PICK pc \in {"failed", "ok"} : pc = IF run[r].err THEN "failed" ELSE "ok"
      OBVIOUS
    <2>3. q = [NoRun EXCEPT !.pc = pc]
      BY <2>2
    <2> HIDE DEF q
    <2> QED BY <2>1, <2>3 DEF RunRec
  <1> HIDE DEF q
  <1>2. /\ run' \in [Runs -> RunRec] /\ run'[r] = q /\ \A s \in Runs \ {r} : run'[s] = run[s]
        /\ company' \in [Runs -> BOOLEAN] /\ \A s \in Runs \ {r} : company'[s] = company[s]
    BY <1>0, <1>1, Typed
  <1>3. Running' = Running \ {r}
    BY <1>1, <1>2 DEF Running
  <1>4. TypeOK'
    <2>1. /\ task' \in [Runs -> [Files -> TaskRec]] /\ dest' \in Listings /\ part' \in Listings
          /\ DOMAIN dest' # {} \/ DOMAIN part' # {} => dir'
          /\ shared' \in BOOLEAN /\ dir' \in BOOLEAN /\ crashes' \in 0..MaxCrashes
      BY <1>0, Typed
    <2> QED BY <1>2, <2>1, TypedParts
  <1>5. RunsHold'
    BY <1>0, <1>1, <1>2, <1>3 DEF IInv, RunsHold
  <1>6. ASSUME NEW f \in Files PROVE FileHolds(f)'
    <2>1. FileHolds(f) /\ task[r][f].pc = "none"
      BY <1>0 DEF IInv, Working
    <2>2. IdleHolds(f)'
      BY <1>0, <1>2, <1>3, <2>1 DEF FileHolds, IdleHolds
    <2>3. OpenHolds(f)' /\ SizeHolds(f)' /\ PartHolds(f)'
      BY <1>0, <2>1 DEF FileHolds, OpenHolds, SizeHolds, PartHolds
    <2>4. AloneHolds(f)'
      BY <1>0, <2>1 DEF FileHolds, AloneHolds, Complete
    <2>5. DoneHolds(f)'
      BY <1>0, <1>2, <1>3, <2>1 DEF FileHolds, DoneHolds, Running
    <2> QED BY <2>2, <2>3, <2>4, <2>5 DEF FileHolds
  <1> QED BY <1>4, <1>5, <1>6 DEF IInv

\* The context of a run is canceled: its goroutines do not know yet.
LEMMA CancelHolds ==
    ASSUME TypeOK, IInv, NEW r \in Runs, Cancel(r)
    PROVE  TypeOK' /\ IInv' /\ RunsStay
  <1>0. UNCHANGED <<task, dest, part, dir, company, shared, crashes>>
    BY DEF Cancel, files, History
  <1>1. RunsStay
    <2>1. PICK q \in RunRec : q = [run[r] EXCEPT !.canceled = TRUE]
      BY Typed DEF RunRec
    <2>2. q.pc = run[r].pc /\ q.next = run[r].next /\ q.err = run[r].err
      BY <2>1, Typed DEF RunRec
    <2>3. run' = [run EXCEPT ![r] = q]
      BY <2>1 DEF Cancel
    <2> QED BY <2>2, <2>3, Typed DEF RunsStay
  <1>2. TypeOK'
    <2>1. /\ task' \in [Runs -> [Files -> TaskRec]] /\ dest' \in Listings /\ part' \in Listings
          /\ DOMAIN dest' # {} \/ DOMAIN part' # {} => dir'
          /\ company' \in [Runs -> BOOLEAN] /\ shared' \in BOOLEAN /\ dir' \in BOOLEAN
          /\ crashes' \in 0..MaxCrashes
      BY <1>0, Typed
    <2> QED BY <1>1, <2>1, TypedParts DEF RunsStay
  <1>3. Running' = Running
    BY <1>1 DEF RunsStay, Running
  <1>4. RunsHold'
    BY <1>0, <1>1, <1>3 DEF IInv, RunsHold, RunsStay
  <1>5. \A f \in Files : FileHolds(f)'
    <2>1. \A f \in Files : FileHolds(f) /\ Untouched(f)
      BY <1>0, <1>1 DEF IInv, Untouched
    <2> QED BY <2>1, UntouchedHolds
  <1> QED BY <1>1, <1>2, <1>4, <1>5 DEF IInv

\* Whoever deletes the directory was company to the runs.
LEMMA CompanyTyped ==
    ASSUME TypeOK, company' = [r \in Runs |-> company[r] \/ r \in Running]
    PROVE  /\ company' \in [Runs -> BOOLEAN]
           /\ \A r \in Runs : company[r] => company'[r]
           /\ \A r \in Running : company'[r]
  <1>1. \A r \in Runs : (company[r] \/ r \in Running) \in BOOLEAN
    BY Typed
  <1> QED BY <1>1 DEF Running

\* A delete request removes a file under the runs (os.RemoveAll).
LEMMA RemoveFileHolds ==
    ASSUME TypeOK, IInv, NEW f \in Files, RemoveFile(f)
    PROVE  TypeOK' /\ IInv' /\ ~Full'
  <1> DEFINE move == [part |-> "lost", dest |-> "lost"]
  <1>0. /\ UNCHANGED <<run, dir, shared, crashes>> /\ f \in DOMAIN dest \cup DOMAIN part
        /\ dest' = Without(dest, f) /\ part' = Without(part, f)
        /\ task' = Relinked(f, move)
        /\ company' = [r \in Runs |-> company[r] \/ r \in Running]
    BY DEF RemoveFile, RemovePartial
  <1>1. /\ part' \in Listings /\ DOMAIN part' = DOMAIN part \ {f}
        /\ \A g \in DOMAIN part \ {f} : part'[g] = part[g]
    BY <1>0, WithoutTakes, Typed
  <1>2. /\ dest' \in Listings /\ DOMAIN dest' = DOMAIN dest \ {f}
        /\ \A g \in DOMAIN dest \ {f} : dest'[g] = dest[g]
    BY <1>0, WithoutTakes, Typed
  <1>3. /\ task' \in [Runs -> [Files -> TaskRec]]
        /\ \A s \in Runs : \A g \in Files \ {f} : task'[s][g] = task[s][g]
        /\ \A s \in Runs : /\ task'[s][f].pc = task[s][f].pc
                           /\ task'[s][f].at = task[s][f].at
                           /\ task'[s][f].fd \notin {"part", "dest"}
                           /\ task[s][f].fd = "none" => task'[s][f] = task[s][f]
    <2>1. \A fd \in Fds : Lands(move, fd) = IF fd \in {"part", "dest"} THEN "lost" ELSE fd
      BY Moves
    <2>2. \A fd \in Fds : Lands(move, fd) \in Fds /\ Lands(move, fd) \notin {"part", "dest"}
      BY <2>1 DEF Fds
    <2>3. \A s \in Runs : task[s][f].fd \in Fds
      BY Typed DEF TaskRec
    <2> HIDE DEF move
    <2>4. /\ Relinked(f, move) \in [Runs -> [Files -> TaskRec]]
          /\ \A s \in Runs : \A g \in Files \ {f} : Relinked(f, move)[s][g] = task[s][g]
          /\ \A s \in Runs : /\ Relinked(f, move)[s][f].pc = task[s][f].pc
                             /\ Relinked(f, move)[s][f].at = task[s][f].at
                             /\ Relinked(f, move)[s][f].fd = Lands(move, task[s][f].fd)
                             /\ Lands(move, task[s][f].fd) = task[s][f].fd
                                    => Relinked(f, move)[s][f] = task[s][f]
      BY <2>2, RelinkedMoves, Typed
    <2> QED BY <1>0, <2>1, <2>2, <2>3, <2>4
  <1> HIDE DEF move
  <1>4. /\ company' \in [Runs -> BOOLEAN]
        /\ \A r \in Runs : company[r] => company'[r]
        /\ \A r \in Running : company'[r]
    BY <1>0, CompanyTyped
  <1>5. RunsStay /\ Running' = Running
    BY <1>0, Typed DEF RunsStay, Running
  <1>6. TypeOK'
    <2>1. /\ DOMAIN dest' # {} \/ DOMAIN part' # {} => dir'
          /\ shared' \in BOOLEAN /\ dir' \in BOOLEAN /\ crashes' \in 0..MaxCrashes
      BY <1>0, <1>1, <1>2, Typed
    <2> QED BY <1>1, <1>2, <1>3, <1>4, <1>5, <2>1, TypedParts DEF RunsStay
  <1>7. RunsHold'
    BY <1>0, <1>5 DEF IInv, RunsHold
  <1>8. FileHolds(f)'
    <2>1. FileHolds(f) /\ f \notin DOMAIN dest' /\ f \notin DOMAIN part'
      BY <1>1, <1>2 DEF IInv
    <2>2. IdleHolds(f)'
      BY <1>0, <1>3, <1>5, <2>1, NoTaskIs DEF FileHolds, IdleHolds
    <2>3. SizeHolds(f)'
      BY <1>3, <2>1 DEF FileHolds, SizeHolds
    <2>4. OpenHolds(f)' /\ AloneHolds(f)' /\ PartHolds(f)'
      BY <1>3, <2>1 DEF OpenHolds, AloneHolds, PartHolds
    <2>5. DoneHolds(f)'
      BY <1>4, <1>5 DEF DoneHolds
    <2> QED BY <2>2, <2>3, <2>4, <2>5 DEF FileHolds
  <1>9. \A g \in Files \ {f} : FileHolds(g)'
    <2>1. \A g \in Files \ {f} : FileHolds(g) /\ Untouched(g)
      BY <1>0, <1>1, <1>2, <1>3, <1>4, <1>5 DEF IInv, Untouched
    <2> QED BY <2>1, UntouchedHolds
  <1>10. ~Full'
    BY <1>2 DEF Full, Complete
  <1> QED BY <1>6, <1>7, <1>8, <1>9, <1>10 DEF IInv

\* The empty directory goes, and with it what two runs have made of it, if no
\* two of them are still there.
LEMMA RemoveDirHolds ==
    ASSUME TypeOK, IInv, RemoveDir
    PROVE  TypeOK' /\ IInv' /\ ~Full'
  <1>0. /\ UNCHANGED <<run, task, dest, part, crashes>> /\ dir' = FALSE
        /\ DOMAIN dest = {} /\ DOMAIN part = {}
        /\ shared' = (shared /\ \E r, s \in Running : r # s)
        /\ company' = [r \in Runs |-> company[r] \/ r \in Running]
    BY DEF RemoveDir
  <1>1. company' \in [Runs -> BOOLEAN] /\ \A r \in Running : company'[r]
    BY <1>0, CompanyTyped
  <1>2. Running' = Running
    BY <1>0 DEF Running
  <1>3. shared' \in BOOLEAN
    BY <1>0, Typed
  <1>4. TypeOK'
    <2>1. /\ run' \in [Runs -> RunRec] /\ task' \in [Runs -> [Files -> TaskRec]]
          /\ dest' \in Listings /\ part' \in Listings /\ crashes' \in 0..MaxCrashes
          /\ DOMAIN dest' # {} \/ DOMAIN part' # {} => dir'
      BY <1>0, Typed
    <2> QED BY <1>0, <1>1, <1>3, <2>1, TypedParts
  <1>5. RunsHold'
    <2>1. \A s \in Runs \ Running : run[s].next = 1
      BY DEF IInv, RunsHold
    <2>2. ~shared' => \A r, s \in Running : r = s
      BY <1>0 DEF IInv, RunsHold
    <2> QED BY <1>0, <1>2, <2>1, <2>2 DEF RunsHold
  <1>6. ASSUME NEW f \in Files PROVE FileHolds(f)'
    <2>1. FileHolds(f) /\ f \notin DOMAIN dest' /\ f \notin DOMAIN part'
      BY <1>0 DEF IInv
    <2>2. IdleHolds(f)' /\ OpenHolds(f)' /\ SizeHolds(f)'
      BY <1>0, <1>2, <2>1 DEF FileHolds, IdleHolds, OpenHolds, SizeHolds
    <2>3. AloneHolds(f)' /\ PartHolds(f)'
      BY <1>0, <2>1, <2>2 DEF OpenHolds, AloneHolds, PartHolds
    <2>4. DoneHolds(f)'
      BY <1>1, <1>2 DEF DoneHolds
    <2> QED BY <2>2, <2>3, <2>4 DEF FileHolds
  <1>7. ~Full'
    <2>1. 1 \in Files
      BY Typed DEF Files
    <2> QED BY <1>0, <2>1 DEF Full, Complete
  <1> QED BY <1>4, <1>5, <1>6, <1>7 DEF IInv

\* The program ends: the files stay as far as they got.
LEMMA CrashHolds ==
    ASSUME TypeOK, IInv, Crash
    PROVE  TypeOK' /\ IInv'
  <1>0. /\ UNCHANGED <<dest, part, dir, shared>>
        /\ crashes < MaxCrashes /\ crashes' = crashes + 1
        /\ run' = [r \in Runs |-> NoRun] /\ task' = [r \in Runs |-> [f \in Files |-> NoTask]]
        /\ company' = [r \in Runs |-> FALSE]
    BY DEF Crash, files
  <1>1. NoRun \in RunRec /\ NoRun.pc # "running" /\ NoRun.next = 1
    BY Typed DEF NoRun, RunRec
  <1>2. /\ run' \in [Runs -> RunRec] /\ \A r \in Runs : run'[r] = NoRun
        /\ task' \in [Runs -> [Files -> TaskRec]]
        /\ \A r \in Runs : \A f \in Files : task'[r][f] = NoTask
    BY <1>0, <1>1, NoTaskIs
  <1>3. crashes' \in 0..MaxCrashes /\ crashes' # 0
    BY <1>0, Typed
  <1>4. Running' = {}
    BY <1>1, <1>2 DEF Running
  <1>5. TypeOK'
    <2>1. /\ dest' \in Listings /\ part' \in Listings
          /\ DOMAIN dest' # {} \/ DOMAIN part' # {} => dir'
          /\ company' \in [Runs -> BOOLEAN] /\ shared' \in BOOLEAN /\ dir' \in BOOLEAN
      BY <1>0, Typed
    <2> QED BY <1>2, <1>3, <2>1, TypedParts
  <1>6. RunsHold'
    BY <1>1, <1>2, <1>4 DEF RunsHold
  <1>7. ASSUME NEW f \in Files PROVE FileHolds(f)'
    <2>1. FileHolds(f)
      BY DEF IInv
    <2>2. IdleHolds(f)' /\ OpenHolds(f)' /\ SizeHolds(f)' /\ DoneHolds(f)' /\ PartHolds(f)'
      BY <1>2, <1>3, <1>4, NoTaskIs DEF IdleHolds, OpenHolds, SizeHolds, DoneHolds, PartHolds
    <2>3. AloneHolds(f)'
      BY <1>0, <1>2, <2>1, NoTaskIs DEF FileHolds, AloneHolds, Complete
    <2> QED BY <2>2, <2>3 DEF FileHolds
  <1> QED BY <1>5, <1>6, <1>7 DEF IInv

-----------------------------------------------------------------------------
(***************************************************************************)
(* The theorems                                                            *)
(***************************************************************************)
LEMMA InitHolds == Init => TypeOK /\ IInv
  <1> SUFFICES ASSUME Init PROVE TypeOK /\ IInv
    OBVIOUS
  <1>1. NoRun \in RunRec /\ NoRun.pc # "running" /\ NoRun.next = 1
    BY DownloaderAssumption DEF NoRun, RunRec
  <1>2. /\ run \in [Runs -> RunRec] /\ \A r \in Runs : run[r] = NoRun
        /\ task \in [Runs -> [Files -> TaskRec]]
        /\ \A r \in Runs : \A f \in Files : task[r][f] = NoTask
    BY <1>1, NoTaskIs DEF Init
  <1>3. Running = {}
    BY <1>1, <1>2 DEF Running
  <1>4. /\ dest \in Listings /\ part \in Listings /\ DOMAIN dest = {} /\ DOMAIN part = {}
    <2>1. [f \in {} |-> {}] \in [{} -> SUBSET Chunks] /\ {} \in SUBSET Files
      OBVIOUS
    <2> QED BY <2>1, ListingIs DEF Init
  <1>5. TypeOK
    <2>1. company \in [Runs -> BOOLEAN] /\ dir \in BOOLEAN /\ shared \in BOOLEAN
      BY DEF Init
    <2>2. crashes \in 0..MaxCrashes
      BY DownloaderAssumption DEF Init
    <2> QED BY <1>2, <1>4, <2>1, <2>2 DEF TypeOK, RunRec, TaskRec, Fds
  <1>6. RunsHold
    BY <1>1, <1>2, <1>3 DEF RunsHold
  <1>7. \A f \in Files : FileHolds(f)
    BY <1>2, <1>3, <1>4, NoTaskIs DEF FileHolds, IdleHolds, OpenHolds, SizeHolds, AloneHolds,
       DoneHolds, PartHolds
  <1> QED BY <1>5, <1>6, <1>7 DEF IInv

LEMMA StepHolds == TypeOK /\ IInv /\ [Next]_vars => TypeOK' /\ IInv'
  <1> SUFFICES ASSUME TypeOK, IInv, [Next]_vars PROVE TypeOK' /\ IInv'
    OBVIOUS
  <1>1. CASE UNCHANGED vars
    <2>1. UNCHANGED <<run, task, dest, part, dir, company, shared, crashes>>
      BY <1>1 DEF vars, files
    <2>2. TypeOK'
      BY <2>1 DEF TypeOK
    <2>3. Running' = Running
      BY <2>1 DEF Running
    <2>4. RunsHold' /\ \A f \in Files : FileHolds(f)'
      BY <2>1, <2>3 DEF IInv, RunsHold, FileHolds, IdleHolds, OpenHolds, SizeHolds, AloneHolds,
         DoneHolds, PartHolds, Complete
    <2> QED BY <2>2, <2>4 DEF IInv
  <1>2. CASE Crash
    BY <1>2, CrashHolds
  <1>3. CASE RemoveDir
    BY <1>3, RemoveDirHolds
  <1>4. ASSUME NEW f \in Files, RemoveFile(f) PROVE TypeOK' /\ IInv'
    BY <1>4, RemoveFileHolds
  <1>5. ASSUME NEW r \in Runs, Start(r) \/ Cancel(r) PROVE TypeOK' /\ IInv'
    BY <1>5, StartHolds, CancelHolds
  <1>6. ASSUME NEW r \in Runs, Spawn(r) \/ Finish(r) PROVE TypeOK' /\ IInv'
    BY <1>6, SpawnHolds, FinishHolds
  <1>7. ASSUME NEW r \in Runs, NEW f \in Files, FileStep(r, f) \/ CdnStep(r, f)
        PROVE  TypeOK' /\ IInv'
    BY <1>7, GoroutineHolds
  <1> QED BY <1>1, <1>2, <1>3, <1>4, <1>5, <1>6, <1>7 DEF Next, RunStep

\* The inductive invariant: what a goroutine that has a file open may rely on,
\* and what a run has done when its goroutines are over (Run, downloadFile).
THEOREM Inductive == Spec => [](TypeOK /\ IInv)
  <1>1. Init => TypeOK /\ IInv
    BY InitHolds
  <1>2. TypeOK /\ IInv /\ [Next]_vars => TypeOK' /\ IInv'
    BY StepHolds
  <1> QED BY <1>1, <1>2, PTL DEF Spec

\* Every variable stays in its type, and nothing lies in a directory that does
\* not exist, whoever deletes it under the runs (Run, downloadFile).
THEOREM TypeCorrect == Spec => []TypeOK
  BY Inductive, PTL

\* Unless the program ended under a run, a .partial file does not outlive the
\* runs, however many of them and of those who delete the directory have met in
\* it (downloadFile's os.Remove on every failing path).
THEOREM NoPartialIsLeft == Spec => []PartialsAreCleared
  <1>1. TypeOK /\ IInv => PartialsAreCleared
    <2> SUFFICES ASSUME TypeOK, IInv, Running = {}, crashes = 0, NEW f \in DOMAIN part
                 PROVE  FALSE
      BY DEF PartialsAreCleared
    <2>1. f \in Files
      BY ListingIs, Typed
    <2>2. \A r \in Runs : task[r][f].pc = "none"
      BY <2>1, NoTaskIs DEF IInv, FileHolds, IdleHolds
    <2> QED BY <2>1, <2>2 DEF IInv, FileHolds, PartHolds
  <1> QED BY <1>1, Inductive, PTL

-----------------------------------------------------------------------------
(***************************************************************************)
(* What Run promises                                                       *)
(***************************************************************************)
\* The runs of the promise are those of the downloader.
LEMMA SameRunning == Promise!Running = Running
  BY DEF Promise!Running, Running

\* A run that ends without an error, and that nobody disturbed, leaves every
\* file complete behind: it has come to the last one, none of its goroutines
\* has failed, and each that is done has given its file its name.
LEMMA GoodEnd ==
    ASSUME TypeOK, IInv, NEW r \in Runs, Finish(r), ~run[r].err, ~shared, ~company[r]
    PROVE  Full
  <1> SUFFICES ASSUME NEW f \in Files PROVE Complete(f)
    BY DEF Full
  <1>1. r \in Running /\ run[r].next \notin Files /\ Working(r) = {}
    BY DEF Finish
  <1>2. f < run[r].next
    BY <1>1, Typed DEF Files, RunRec
  <1>3. task[r][f].pc = "none"
    BY <1>1 DEF Working
  <1>4. f \in DOMAIN dest
    BY <1>1, <1>2, <1>3 DEF IInv, FileHolds, DoneHolds
  <1> QED BY <1>4 DEF IInv, FileHolds, AloneHolds

LEMMA FetchInit == Init => Promise!Init
  <1> SUFFICES ASSUME Init PROVE Promise!Init
    OBVIOUS
  <1>1. [r \in Runs |-> run[r].pc] = [r \in Runs |-> "idle"]
    BY DEF Init, NoRun
  <1>2. Full \in BOOLEAN
    BY DEF Full, Complete
  <1> QED BY <1>1, <1>2 DEF Init, Promise!Init

LEMMA FetchStep == TypeOK /\ IInv /\ [Next]_vars => [Promise!Next]_(Promise!vars)
  <1> SUFFICES ASSUME TypeOK, IInv, [Next]_vars PROVE [Promise!Next]_(Promise!vars)
    OBVIOUS
  <1> DEFINE Phase == [r \in Runs |-> run[r].pc]
  <1>0. Full' \in BOOLEAN
    BY DEF Full, Complete
  <1>1. CASE UNCHANGED vars
    BY <1>1 DEF vars, files, Promise!vars, Full, Complete
  <1>2. CASE Crash
    <2>1. Phase' = [r \in Runs |-> "idle"]
      BY <1>2 DEF Crash, NoRun
    <2>2. company' = [r \in Runs |-> FALSE] /\ UNCHANGED <<shared, Full>>
      BY <1>2 DEF Crash, files, Full, Complete
    <2> QED BY <2>1, <2>2 DEF Promise!Next, Promise!Crash
  <1>3. CASE RemoveDir
    <2>1. /\ company' = [r \in Runs |-> company[r] \/ r \in Running]
          /\ shared' = (shared /\ \E r, s \in Running : r # s) /\ UNCHANGED Phase
      BY <1>3 DEF RemoveDir
    <2>2. Full' = FALSE
      BY <1>0, <1>3, RemoveDirHolds
    <2> QED BY <2>1, <2>2, SameRunning DEF Promise!Next, Promise!Delete
  <1>4. ASSUME NEW f \in Files, RemoveFile(f) PROVE Promise!Delete
    <2>1. /\ company' = [r \in Runs |-> company[r] \/ r \in Running]
          /\ shared' = shared /\ UNCHANGED Phase
      BY <1>4 DEF RemoveFile
    <2>2. Full' = FALSE
      BY <1>0, <1>4, RemoveFileHolds
    <2> QED BY <2>1, <2>2, SameRunning DEF Promise!Delete
  <1>5. ASSUME NEW r \in Runs, Start(r) PROVE Promise!Start(r)
    <2>1. /\ r \notin Running /\ run' = [run EXCEPT ![r].pc = "running"]
          /\ company' = [i \in Runs |->
                 IF i = r THEN Running # {} ELSE company[i] \/ i \in Running]
          /\ shared' = (shared \/ Running # {}) /\ UNCHANGED <<dest, part>>
      BY <1>5 DEF Start
    <2>2. Phase' = [Phase EXCEPT ![r] = "running"] /\ Phase[r] # "running"
      BY <2>1, Typed DEF RunRec, Running
    <2>3. UNCHANGED Full
      BY <2>1 DEF Full, Complete
    <2> QED BY <2>1, <2>2, <2>3, SameRunning DEF Promise!Start
  <1>6. ASSUME NEW r \in Runs, Spawn(r) PROVE UNCHANGED Promise!vars
    <2>1. UNCHANGED <<dest, company, shared>> /\ \A s \in Runs : run'[s].pc = run[s].pc
      BY <1>6, SpawnHolds DEF Spawn, files
    <2> QED BY <2>1 DEF Promise!vars, Full, Complete
  <1>7. ASSUME NEW r \in Runs, Cancel(r) PROVE UNCHANGED Promise!vars
    <2>1. UNCHANGED <<dest, company, shared>> /\ \A s \in Runs : run'[s].pc = run[s].pc
      BY <1>7, CancelHolds DEF Cancel, files, History, RunsStay
    <2> QED BY <2>1 DEF Promise!vars, Full, Complete
  <1>8. ASSUME NEW r \in Runs, Finish(r) PROVE Promise!EndsWell(r) \/ Promise!EndsBadly(r)
    <2> DEFINE result == IF run[r].err THEN "failed" ELSE "ok"
    <2>1. /\ r \in Running /\ company' = [company EXCEPT ![r] = FALSE]
          /\ run' = [run EXCEPT ![r] = [NoRun EXCEPT !.pc = result]]
          /\ UNCHANGED <<dest, shared>>
      BY <1>8 DEF Finish, Return, files
    <2>2. [NoRun EXCEPT !.pc = result].pc = result
      BY DEF NoRun
    <2>3. Phase' = [Phase EXCEPT ![r] = result]
      <3> HIDE DEF result
      <3> QED BY <2>1, <2>2, Typed
    <2>4. Promise!Returns(r, result)
      BY <2>1, <2>3 DEF Promise!Returns, Full, Complete
    <2>5. ~run[r].err => Full \/ shared \/ company[r]
      BY <1>8, GoodEnd
    <2>6. CASE run[r].err
      BY <2>1, <2>4, <2>6, SameRunning DEF Promise!EndsBadly, Promise!Returns
    <2>7. CASE ~run[r].err
      BY <2>1, <2>4, <2>5, <2>7, SameRunning DEF Promise!EndsWell, Promise!Returns
    <2> QED BY <2>6, <2>7
  <1>9. ASSUME NEW r \in Runs, NEW f \in Files, FileStep(r, f) \/ CdnStep(r, f)
        PROVE  Promise!Work
    <2>1. RunsStay /\ UNCHANGED <<company, shared>> /\ (Full /\ ~shared => Full') /\ Running # {}
      BY <1>9, GoroutineHolds
    <2>2. UNCHANGED Phase
      BY <2>1 DEF RunsStay
    <2> QED BY <1>0, <2>1, <2>2, SameRunning DEF Promise!Work
  <1> QED BY <1>1, <1>2, <1>3, <1>4, <1>5, <1>6, <1>7, <1>8, <1>9
          DEF Next, RunStep, Promise!Next

\* Run ends without an error only when every file is complete, and none is
\* undone by the retries, cancels, cut bodies and crashes after it, unless the
\* run had company in the directory (Run, downloadFile).
THEOREM KeepsThePromise == Spec => ImplementsFetch
  <1>1. Init => Promise!Init
    BY FetchInit
  <1>2. TypeOK /\ IInv /\ [Next]_vars => [Promise!Next]_(Promise!vars)
    BY FetchStep
  <1> QED BY <1>1, <1>2, Inductive, PTL DEF Spec, Promise!Spec, ImplementsFetch
=============================================================================
