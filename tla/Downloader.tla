----------------------------- MODULE Downloader -----------------------------
(***************************************************************************)
(* internal/downloader/downloader.go: Run fetches the files of one job,    *)
(* each on a goroutine of its own, into <file>.partial and renames it when *)
(* it is complete.                                                         *)
(*                                                                         *)
(* All runs here fetch into one directory: the retries of a job do, and so *)
(* do jobs of the same category whose TorBox names are equal.  The CDN and *)
(* whoever deletes the directory are external.                             *)
(***************************************************************************)
EXTENDS Integers, Functions, FiniteSets

CONSTANTS Runs,         \* callers of Run that may be in it at the same time
          LastFile,     \* the files of a job are numbered from 1
          Length,       \* chunks the CDN has of each file
          Sized,        \* files whose size TorBox tells
          Concurrency,  \* DownloadConcurrency
          MaxCrashes    \* bound of the model

Files == 1..LastFile

ASSUME DownloaderAssumption ==
    /\ IsFiniteSet(Runs) /\ LastFile \in Nat \ {0} /\ Sized \subseteq Files
    /\ Length \in [Files -> Nat \ {0}]
    /\ Concurrency \in Nat \ {0} /\ MaxCrashes \in Nat

VARIABLES run,      \* each Run: where it is, the file it spawns next, runCtx
                    \* canceled, firstErr set
          task,     \* the goroutine of each file of each run
          dest,     \* the files of the directory under their own names, each
                    \* with the chunks it holds
          part,     \* those under .partial names
          dir,      \* the directory exists
          company,  \* history: the run has not been alone in the directory
          shared,   \* history: two runs have been in it at the same time,
                    \* since it was last deleted
          crashes

files == <<dest, part, dir>>
vars == <<run, task, files, company, shared, crashes>>

Chunks == UNION {0..Length[f] - 1 : f \in Files}
Listings == UNION {[S -> SUBSET Chunks] : S \in SUBSET Files}

NoRun == [pc |-> "idle", next |-> 1, canceled |-> FALSE, err |-> FALSE]

\* fd says where the open file lies by now: other goroutines may have renamed
\* it or removed its name.  at is what this goroutine has written of it.
NoTask == [pc |-> "none", fd |-> "none", at |-> 0]

Running == {r \in Runs : run[r].pc = "running"}
Working(r) == {f \in Files : task[r][f].pc # "none"}

Init ==
    /\ run = [r \in Runs |-> NoRun]
    /\ task = [r \in Runs |-> [f \in Files |-> NoTask]]
    /\ dest = [f \in {} |-> {}]
    /\ part = [f \in {} |-> {}]
    /\ dir = FALSE
    /\ company = [r \in Runs |-> FALSE]
    /\ shared = FALSE
    /\ crashes = 0

-----------------------------------------------------------------------------
\* The directory.  A goroutine that has a file open goes on writing to it,
\* whatever has become of its name.
Put(listing, f, data) ==
    [g \in DOMAIN listing \cup {f} |-> IF g = f THEN data ELSE listing[g]]
Without(listing, f) == Restrict(listing, DOMAIN listing \ {f})

\* The goroutines that have file f open find it where the move takes it.
Relinked(f, move) == [r \in Runs |->
    [task[r] EXCEPT ![f].fd = IF @ \in DOMAIN move THEN move[@] ELSE @]]

Mkdir == dir' = TRUE

\* os.Remove(partial)
RemovePartial(f) == part' = Without(part, f)
Unlinked(f) == Relinked(f, [part |-> "lost"])

\* What os.Stat sees: the end of the last chunk, holes included.
StatSize(data) == Cardinality(UNION {0..c : c \in data})

-----------------------------------------------------------------------------
\* Run, up to its loop.
Start(r) ==
    /\ r \notin Running
    /\ run' = [run EXCEPT ![r].pc = "running"]
    /\ Mkdir
    /\ company' = [i \in Runs |->
           IF i = r THEN Running # {} ELSE company[i] \/ i \in Running]
    /\ shared' = (shared \/ Running # {})
    /\ UNCHANGED <<task, dest, part, crashes>>

\* The semaphore has room for the next file, canceled or not.
Spawn(r) ==
    /\ r \in Running /\ run[r].next \in Files
    /\ Cardinality(Working(r)) < Concurrency
    /\ task' = [task EXCEPT ![r][run[r].next].pc = "stat"]
    /\ run' = [run EXCEPT ![r].next = @ + 1]
    /\ UNCHANGED <<files, company, shared, crashes>>

Return(r) ==
    /\ run' = [run EXCEPT ![r] =
           [NoRun EXCEPT !.pc = IF run[r].err THEN "failed" ELSE "ok"]]
    /\ company' = [company EXCEPT ![r] = FALSE]
    /\ UNCHANGED <<task, files, shared, crashes>>

\* Mutant: Run returns as soon as it knows of an error.
FinishEarly(r) ==
    /\ r \in Running
    /\ run[r].err \/ (run[r].next \notin Files /\ Working(r) = {})
    /\ Return(r)

\* wg.Wait, and the result.
Finish(r) ==
    /\ r \in Running /\ run[r].next \notin Files /\ Working(r) = {}
    /\ Return(r)

-----------------------------------------------------------------------------
At(r, f, pc) == task[r][f].pc = pc
Goto(r, f, pc) == task' = [task EXCEPT ![r][f].pc = pc]
Done(r, f) == task' = [task EXCEPT ![r][f] = NoTask]
History == <<company, shared, crashes>>

\* Mutant: the siblings of the failed file are not canceled.
FailAlone(r) == run' = [run EXCEPT ![r].err = TRUE]

\* The goroutine returns an error, and the run cancels its siblings.
Fail(r) == run' = [run EXCEPT ![r].err = TRUE, ![r].canceled = TRUE]

\* A file of the expected size is taken for complete.
Stat(r, f) ==
    /\ At(r, f, "stat")
    /\ Mkdir
    /\ IF f \in Sized /\ f \in DOMAIN dest /\ StatSize(dest[f]) = Length[f]
       THEN Done(r, f) ELSE Goto(r, f, "clean")
    /\ UNCHANGED <<run, dest, part, History>>

Clean(r, f) ==
    /\ At(r, f, "clean")
    /\ RemovePartial(f)
    /\ task' = [Unlinked(f) EXCEPT ![r][f].pc = "request"]
    /\ UNCHANGED <<run, dest, dir, History>>

\* No answer, an error status, or the .partial file cannot be opened.
RequestFails(r, f) ==
    /\ At(r, f, "request")
    /\ Fail(r)
    /\ Done(r, f)
    /\ UNCHANGED <<files, History>>

\* Mutant: the open puts a file where the directory is gone.
OpenAnywhere(r, f) ==
    /\ At(r, f, "request")
    /\ part' = Put(part, f, {})
    /\ task' = [task EXCEPT ![r][f] = [pc |-> "copy", fd |-> "part", at |-> 0]]
    /\ UNCHANGED <<run, dest, dir, History>>

\* O_CREATE with O_TRUNC: a .partial another run has open is cut to nothing.
Open(r, f) ==
    /\ At(r, f, "request") /\ dir
    /\ part' = Put(part, f, {})
    /\ task' = [task EXCEPT ![r][f] = [pc |-> "copy", fd |-> "part", at |-> 0]]
    /\ UNCHANGED <<run, dest, dir, History>>

\* One round of copyWithProgress; a read under way when the context is
\* canceled may still deliver.
Write(r, f) ==
    LET t == task[r][f] IN
    /\ At(r, f, "copy") /\ t.at < Length[f]
    /\ task' = [task EXCEPT ![r][f].at = @ + 1]
    /\ part' = IF t.fd = "part" THEN Put(part, f, part[f] \cup {t.at}) ELSE part
    /\ dest' = IF t.fd = "dest" THEN Put(dest, f, dest[f] \cup {t.at}) ELSE dest
    /\ UNCHANGED <<run, dir, History>>

\* Mutant: the size of what was written is not compared.
CopyEndsUnchecked(r, f) ==
    /\ At(r, f, "copy")
    /\ Goto(r, f, "rename")
    /\ UNCHANGED <<run, files, History>>

\* The body ends, perhaps early, which only a known size tells.
CopyEnds(r, f) ==
    /\ At(r, f, "copy")
    /\ f \in Sized => task[r][f].at = Length[f]
    /\ Goto(r, f, "rename")
    /\ UNCHANGED <<run, files, History>>

\* Mutant: the .partial of a failed copy stays.
CopyFailsLeavingPartial(r, f) ==
    /\ At(r, f, "copy")
    /\ Fail(r)
    /\ Done(r, f)
    /\ UNCHANGED <<files, History>>

\* The .partial name is removed, whoever's file it is by now, and the error
\* returned.
DropPartial(r, f) ==
    /\ RemovePartial(f)
    /\ Fail(r)
    /\ task' = [Unlinked(f) EXCEPT ![r][f] = NoTask]
    /\ UNCHANGED <<dest, dir, History>>

\* A read or write error, a canceled context, a failed sync, a wrong size.
CopyFails(r, f) == At(r, f, "copy") /\ DropPartial(r, f)

\* What lies under the .partial name becomes the file, whoever wrote it.
Rename(r, f) ==
    /\ At(r, f, "rename") /\ f \in DOMAIN part
    /\ dest' = Put(dest, f, part[f])
    /\ RemovePartial(f)
    /\ task' = [Relinked(f, [part |-> "dest", dest |-> "lost"]) EXCEPT ![r][f] = NoTask]
    /\ UNCHANGED <<run, dir, History>>

RenameFails(r, f) ==
    /\ At(r, f, "rename") /\ f \notin DOMAIN part
    /\ Goto(r, f, "drop")
    /\ UNCHANGED <<run, files, History>>

Drop(r, f) == At(r, f, "drop") /\ DropPartial(r, f)

\* What the program does by itself ...
FileStep(r, f) ==
    \/ Stat(r, f) \/ Clean(r, f) \/ Rename(r, f) \/ RenameFails(r, f) \/ Drop(r, f)
    \/ run[r].canceled /\ (RequestFails(r, f) \/ CopyFails(r, f))
RunStep(r) == Spawn(r) \/ Finish(r) \/ \E f \in Files : FileStep(r, f)

\* ... and what it needs the CDN or the disk for.
CdnStep(r, f) == \/ RequestFails(r, f) \/ Open(r, f) \/ Write(r, f)
                 \/ CopyEnds(r, f) \/ CopyFails(r, f)

-----------------------------------------------------------------------------
\* Abort, or the end of the program, cancels the context of the run.
Cancel(r) ==
    /\ r \in Running
    /\ run' = [run EXCEPT ![r].canceled = TRUE]
    /\ UNCHANGED <<task, files, History>>

\* os.RemoveAll of a delete request takes one file after the other ...
RemoveFile(f) ==
    /\ f \in DOMAIN dest \cup DOMAIN part
    /\ dest' = Without(dest, f) /\ RemovePartial(f)
    /\ task' = Relinked(f, [part |-> "lost", dest |-> "lost"])
    /\ company' = [r \in Runs |-> company[r] \/ r \in Running]
    /\ UNCHANGED <<run, dir, shared, crashes>>

\* ... and then the directory, if nobody has put a file there again.
RemoveDir ==
    /\ dir /\ DOMAIN dest = {} /\ DOMAIN part = {}
    /\ dir' = FALSE
    /\ company' = [r \in Runs |-> company[r] \/ r \in Running]
    /\ shared' = (shared /\ \E r, s \in Running : r # s)
    /\ UNCHANGED <<run, task, dest, part, crashes>>

\* The process ends.  What it wrote is on disk as far as it got.
Crash ==
    /\ crashes < MaxCrashes
    /\ crashes' = crashes + 1
    /\ run' = [r \in Runs |-> NoRun]
    /\ task' = [r \in Runs |-> [f \in Files |-> NoTask]]
    /\ company' = [r \in Runs |-> FALSE]
    /\ UNCHANGED <<files, shared>>

Next ==
    \/ Crash \/ RemoveDir
    \/ \E f \in Files : RemoveFile(f)
    \/ \E r \in Runs : \/ Start(r) \/ RunStep(r) \/ Cancel(r)
                       \/ \E f \in Files : CdnStep(r, f)

\* Goroutines that can go on do; the CDN may never send another byte.
Fairness == \A r \in Runs : WF_vars(RunStep(r))

Spec == Init /\ [][Next]_vars /\ Fairness

-----------------------------------------------------------------------------
\* Every variable stays in its type, and nothing lies in a directory that does
\* not exist (Run, downloadFile).
TypeOK ==
    /\ run \in [Runs -> [pc : {"idle", "running", "ok", "failed"}, next : 1..LastFile + 1,
                         canceled : BOOLEAN, err : BOOLEAN]]
    /\ task \in [Runs -> [Files ->
           [pc : {"none", "stat", "clean", "request", "copy", "rename", "drop"},
            fd : {"none", "part", "dest", "lost"}, at : Nat]]]
    /\ {dest, part} \subseteq Listings
    /\ DOMAIN dest # {} \/ DOMAIN part # {} => dir
    /\ company \in [Runs -> BOOLEAN] /\ {dir, shared} \subseteq BOOLEAN
    /\ crashes \in 0..MaxCrashes

\* A file with the size TorBox tells has all its bytes; of the others it is
\* only known that they are there.
Complete(f) == f \in DOMAIN dest /\ (f \in Sized => dest[f] = 0..Length[f] - 1)
Full == \A f \in Files : Complete(f)

\* Run ends without an error only when the files are complete, and nobody but
\* a running run touches them: over retries, cancels, cut bodies, crashes and
\* the files they leave behind.  Two runs at a time void this, because each
\* removes, cuts and renames the other's .partial (downloadFile).
Promise == INSTANCE Fetch WITH
    phase <- [r \in Runs |-> run[r].pc], full <- Full
ImplementsFetch == Promise!Spec

\* Once one file has failed or the run has been canceled, Run returns without
\* the CDN's help, though the download client has no timeout (Run, cancel).
FailedRunsReturn == \A r \in Runs :
    r \in Running /\ (run[r].err \/ run[r].canceled) ~> r \notin Running

\* A .partial file outlives the runs only if the program ended under them:
\* every failing path takes its own away, even if another run has meanwhile
\* removed, renamed or opened it (downloadFile).
PartialsAreCleared == Running = {} /\ crashes = 0 => DOMAIN part = {}
=============================================================================
