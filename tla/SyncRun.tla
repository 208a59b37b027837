-------------------------------- MODULE SyncRun --------------------------------
(***************************************************************************)
(* One repository backup pass after another, and the mirrors on disk that  *)
(* outlive them: Run of internal/backup/sync.go, internal/backup/mirror.go *)
(* and SyncBareRepository of internal/git/git.go.                          *)
(*                                                                         *)
(* A run takes the jobs of the settings in turn; a job lists its           *)
(* repositories and works on Concurrency of them at a time, as ParallelFor *)
(* promises; a repository is mirrored, its LFS objects are fetched, and    *)
(* the mirror is archived by an upload that is atomic (AtomicUpload).  The *)
(* collections of issues, merge requests and releases that follow are in   *)
(* CollectionSync; here they end well or not.                              *)
(*                                                                         *)
(* A version stands for all that a remote holds.  Faults counts what goes  *)
(* wrong: failed requests, failed deletes, restarts.                       *)
(***************************************************************************)
EXTENDS Naturals, Sequences, FiniteSets

CONSTANTS Repos,        \* repositories, by the URL they are cloned from
          Dirs, Dir,    \* mirror directories, and that of each repository
          JobLists,     \* the lists of enabled jobs the settings may hold
          Concurrency,  \* concurrency.repositories
          Gone,         \* a remote that is private, or was removed
          Absent,       \* no mirror directory, no archive
          Broken,       \* a directory that a clone has begun to fill
          MaxVersion, MaxFaults, MaxEdits   \* bounds: pushes, faults, reloads

Versions == 0 .. MaxVersion
Jobs == [mode : {"provider", "url"}, repos : SUBSET Repos, cache : BOOLEAN]

ASSUME SyncRunAssumption ==
    /\ Dir \in [Repos -> Dirs]
    /\ Concurrency \in Nat \ {0} /\ MaxVersion \in Nat
    /\ Gone \notin Nat /\ Absent \notin Nat /\ Broken \notin Nat
    /\ JobLists \subseteq Seq(Jobs)

VARIABLES remote,     \* of each repository: its version, or none
          settings,   \* the job list in force
          mirror,     \* of each directory: what is in it
          archive,    \* of each repository: its newest archive
          run,        \* "idle", "next" (job), "list" or "sync"
          jobs, job,  \* the settings of this run, and the number of the job
          complete,   \* pictureComplete
          expected,   \* expectedMirrorDirectories
          work,       \* of each repository: where the job's work on it is
          since,      \* of each repository: its version when that work began
          cancelled,  \* ctx
          owed,       \* history: what this run listed, and all of a job it could not list
          faults, edits

diskVars == <<mirror, archive>>
runVars  == <<run, jobs, job, complete, expected>>
workVars == <<work, since>>
worldVars == <<remote, settings, edits>>
vars == <<worldVars, diskVars, runVars, workVars, cancelled, owed, faults>>

\* form: of the two spellings of the URL, the one in use.
Rest == [at |-> "rest", form |-> 1]
Absence == [content |-> Absent, since |-> 0]

Init ==
    /\ remote \in [Repos -> {0, Gone}]
    /\ settings \in JobLists
    /\ mirror = [d \in Dirs |-> Absent]
    /\ archive = [r \in Repos |-> Absence]
    /\ run = "idle"
    /\ jobs = <<>> /\ job = 1
    /\ complete = TRUE /\ expected = {}
    /\ work = [r \in Repos |-> Rest]
    /\ since = [r \in Repos |-> 0]
    /\ cancelled = FALSE
    /\ owed = {}
    /\ faults = 0 /\ edits = 0

Fault == faults < MaxFaults /\ faults' = faults + 1
NoFault == UNCHANGED faults

TheJob == jobs[job]
Listed == {r \in Repos : work[r].at # "rest"}
Todo == {r \in Repos : work[r].at = "todo"}
Aborted == {r \in Repos : work[r].at = "aborted"}
Busy == {r \in Repos : work[r].at \notin {"rest", "todo", "done", "aborted"}}
Sequential == Concurrency = 1 \/ Cardinality(Listed) <= 1

-----------------------------------------------------------------------------
(* Run. *)

\* Mutant: a picture that was incomplete once stays so.
StartRunAsBefore ==
    /\ run = "idle" /\ ~cancelled
    /\ jobs' = settings /\ job' = 1
    /\ expected' = {}
    /\ owed' = {}
    /\ run' = "next"
    /\ UNCHANGED <<worldVars, diskVars, complete, workVars, cancelled, faults>>

StartRun ==
    /\ run = "idle" /\ ~cancelled
    /\ jobs' = settings /\ job' = 1
    /\ complete' = TRUE /\ expected' = {}
    /\ owed' = {}
    /\ run' = "next"
    /\ UNCHANGED <<worldVars, diskVars, workVars, cancelled, faults>>

\* storageFactory fails: nothing is tried.
StartRunFails ==
    /\ run = "idle" /\ ~cancelled
    /\ Fault
    /\ UNCHANGED <<worldVars, diskVars, runVars, workVars, cancelled, owed>>

TakeJob ==
    /\ run = "next" /\ job <= Len(jobs) /\ ~cancelled
    /\ run' = "list"
    /\ UNCHANGED <<worldVars, diskVars, jobs, job, complete, expected, workVars, cancelled, owed, faults>>

\* Run returns ctx.Err, of which the scheduler reports nothing.
AbandonRun ==
    /\ run = "next" /\ job <= Len(jobs) /\ cancelled
    /\ run' = "idle"
    /\ UNCHANGED <<worldVars, diskVars, jobs, job, complete, expected, workVars, cancelled, owed, faults>>

Enlist(repos) ==
    /\ owed' = owed \cup repos
    /\ work' = [r \in Repos |-> IF r \in repos THEN [at |-> "todo", form |-> 1] ELSE Rest]
    /\ run' = "sync"

\* ListRepositories, or the urls of the settings.
ListJob ==
    /\ run = "list"
    /\ Enlist(IF TheJob.mode = "url" THEN TheJob.repos
              ELSE {r \in TheJob.repos : remote[r] # Gone})
    /\ UNCHANGED <<worldVars, diskVars, jobs, job, complete, expected, since, cancelled, faults>>

\* Mutant: a failed discovery does not spoil the picture.
ListJobFailsUnnoticed ==
    /\ run = "list" /\ TheJob.mode = "provider"
    /\ Fault
    /\ job' = job + 1 /\ run' = "next"
    /\ owed' = owed \cup TheJob.repos
    /\ UNCHANGED <<worldVars, diskVars, jobs, complete, expected, workVars, cancelled>>

\* Discovery fails, or the credential is missing: the picture is not complete.
ListJobFails ==
    /\ run = "list" /\ TheJob.mode = "provider"
    /\ Fault
    /\ complete' = FALSE
    /\ job' = job + 1 /\ run' = "next"
    /\ owed' = owed \cup TheJob.repos
    /\ UNCHANGED <<worldVars, diskVars, jobs, expected, workVars, cancelled>>

ListJobCancelled ==
    /\ run = "list" /\ TheJob.mode = "provider" /\ cancelled
    /\ run' = "idle"
    /\ UNCHANGED <<worldVars, diskVars, jobs, job, complete, expected, workVars, cancelled, owed, faults>>

\* The fan-out returns nil.  In its sequential form it does so even if ctx was
\* cancelled meanwhile; a provider's picture is not complete then.
JobDone ==
    /\ run = "sync" /\ Listed = {r \in Repos : work[r].at = "done"}
    /\ cancelled => Sequential
    /\ complete' = (complete /\ (TheJob.mode = "provider" => ~cancelled))
    /\ job' = job + 1 /\ run' = "next"
    /\ work' = [r \in Repos |-> Rest]
    /\ UNCHANGED <<worldVars, diskVars, jobs, expected, since, cancelled, owed, faults>>

\* The fan-out returns the cancellation, and Run with it.
JobCancelled ==
    /\ run = "sync" /\ Busy = {} /\ cancelled
    /\ ~Sequential \/ Todo # {} \/ Aborted # {}
    /\ run' = "idle"
    /\ work' = [r \in Repos |-> Rest]
    /\ UNCHANGED <<worldVars, diskVars, jobs, job, complete, expected, since, cancelled, owed, faults>>

FinishRun ==
    /\ run' = "idle"
    /\ UNCHANGED <<worldVars, archive, jobs, job, complete, expected, workVars, cancelled, owed>>

Orphans == {d \in Dirs \ expected : mirror[d] # Absent}

\* RemoveOrphans, of a complete picture only; a directory that cannot be removed
\* stays, and Run returns nil all the same.
Cleanup ==
    /\ run = "next" /\ job > Len(jobs) /\ complete
    /\ \/ NoFault /\ mirror' = [d \in Dirs |-> IF d \in Orphans THEN Absent ELSE mirror[d]]
       \/ Fault /\ \E stays \in SUBSET Orphans :
                     /\ stays # {}
                     /\ mirror' = [d \in Dirs |-> IF d \in Orphans \ stays THEN Absent ELSE mirror[d]]
    /\ FinishRun

SkipCleanup ==
    /\ run = "next" /\ job > Len(jobs) /\ ~complete
    /\ NoFault
    /\ FinishRun
    /\ UNCHANGED mirror

-----------------------------------------------------------------------------
(* The work on one repository: syncRepositorySnapshot and what it calls.  An   *)
(* error ends it; the fan-out sees the error only if ctx is cancelled.         *)

At(r, place) == run = "sync" /\ work[r].at = place
Goto(r, place) == work' = [work EXCEPT ![r].at = place]

\* A request, a file or a subprocess fails, for ctx or for another reason.
Failing == (cancelled /\ NoFault) \/ Fault

Fail(r) ==
    /\ Goto(r, IF cancelled THEN "aborted" ELSE "done")
    /\ UNCHANGED <<worldVars, runVars, since, cancelled, owed>>

Pass(r, place) ==
    /\ Goto(r, place)
    /\ NoFault
    /\ UNCHANGED <<worldVars, runVars, since, cancelled, owed>>

\* The directory is expected before anything can go wrong.
BeginRepo(r) ==
    /\ At(r, "todo")
    /\ Cardinality(Busy) < Concurrency
    /\ cancelled => ~Sequential
    /\ expected' = expected \cup {Dir[r]}
    /\ since' = [since EXCEPT ![r] = IF remote[r] = Gone THEN 0 ELSE remote[r]]
    /\ Goto(r, "mirror")
    /\ UNCHANGED <<worldVars, diskVars, run, jobs, job, complete, cancelled, owed, faults>>

\* cache && isBareRepository: what a broken-off clone left may pass for one.
Usable(r) == TheJob.cache /\ mirror[Dir[r]] # Absent

FetchMirror(r) ==
    /\ At(r, "mirror") /\ Usable(r)
    /\ remote[r] # Gone /\ mirror[Dir[r]] # Broken
    /\ mirror' = [mirror EXCEPT ![Dir[r]] = remote[r]]
    /\ Pass(r, "lfs")
    /\ UNCHANGED archive

\* A fetch that ctx cuts short leaves the mirror as it is.
FetchCancelled(r) ==
    /\ At(r, "mirror") /\ Usable(r)
    /\ cancelled /\ NoFault
    /\ Fail(r)
    /\ UNCHANGED diskVars

\* The remote speaks protocol v2 only: the mirror is kept, and the other form of
\* the URL is tried once.
FetchUnreadable(r) ==
    /\ At(r, "mirror") /\ Usable(r)
    /\ Fault
    /\ \/ work[r].form = 1
          /\ work' = [work EXCEPT ![r].form = 2]
          /\ UNCHANGED <<worldVars, runVars, since, cancelled, owed>>
       \/ work[r].form = 2 /\ Fail(r)
    /\ UNCHANGED diskVars

\* freshClone: RemoveAll, then a clone begins.
BeginClone(r) ==
    /\ mirror' = [mirror EXCEPT ![Dir[r]] = Broken]
    /\ Goto(r, "cloning")
    /\ UNCHANGED <<worldVars, archive, runVars, since, cancelled, owed>>

\* Mutant: a mirror that cannot be fetched is reported, and left.
FetchFailsForGood(r) ==
    /\ At(r, "mirror") /\ Usable(r) /\ ~cancelled
    /\ Fault \/ (NoFault /\ (remote[r] = Gone \/ mirror[Dir[r]] = Broken))
    /\ Fail(r)
    /\ UNCHANGED diskVars

\* Mutant: a mirror that cannot be fetched will do as it is.
FetchFailsQuietly(r) ==
    /\ At(r, "mirror") /\ Usable(r) /\ ~cancelled
    /\ Fault \/ (NoFault /\ (remote[r] = Gone \/ mirror[Dir[r]] = Broken))
    /\ Goto(r, "lfs")
    /\ UNCHANGED <<worldVars, diskVars, runVars, since, cancelled, owed>>

\* Any other failure of a fetch: re-clone from scratch.
FetchFails(r) ==
    /\ At(r, "mirror") /\ Usable(r) /\ ~cancelled
    /\ Fault \/ (NoFault /\ (remote[r] = Gone \/ mirror[Dir[r]] = Broken))
    /\ BeginClone(r)

Clone(r) ==
    /\ At(r, "mirror") /\ ~Usable(r)
    /\ NoFault
    /\ BeginClone(r)

\* RemoveAll fails, with some or none of the directory removed.
CloneBlocked(r) ==
    /\ At(r, "mirror") /\ ~Usable(r)
    /\ mirror[Dir[r]] # Absent
    /\ Fault
    /\ mirror' \in {mirror, [mirror EXCEPT ![Dir[r]] = Broken]}
    /\ Fail(r)
    /\ UNCHANGED archive

CloneEnds(r) ==
    /\ At(r, "cloning")
    /\ remote[r] # Gone
    /\ mirror' = [mirror EXCEPT ![Dir[r]] = remote[r]]
    /\ Pass(r, "lfs")
    /\ UNCHANGED archive

\* A clone that fails removes its directory.
CloneFails(r) ==
    /\ At(r, "cloning")
    /\ Failing \/ (NoFault /\ remote[r] = Gone)
    /\ mirror' = [mirror EXCEPT ![Dir[r]] = Absent]
    /\ Fail(r)
    /\ UNCHANGED archive

\* The remote speaks protocol v2 only.
CloneUnreadable(r) ==
    /\ At(r, "cloning") /\ work[r].form = 1
    /\ Fault
    /\ mirror' = [mirror EXCEPT ![Dir[r]] = Absent]
    /\ work' = [work EXCEPT ![r] = [at |-> "mirror", form |-> 2]]
    /\ UNCHANGED <<worldVars, archive, runVars, since, cancelled, owed>>

FetchLFS(r) ==
    /\ At(r, "lfs")
    /\ Pass(r, "archive")
    /\ UNCHANGED diskVars

\* UploadDirectoryAsTarGz, of what is in the directory.
NewArchive(r) == archive' = [archive EXCEPT ![r] = [content |-> mirror[Dir[r]], since |-> since[r]]]

UploadArchive(r) ==
    /\ At(r, "archive")
    /\ NewArchive(r)
    /\ Pass(r, "document")
    /\ UNCHANGED mirror

\* An upload that fails may have been completed.
UploadFails(r) ==
    /\ At(r, "archive")
    /\ Failing
    /\ NewArchive(r) \/ UNCHANGED archive
    /\ Fail(r)
    /\ UNCHANGED mirror

\* metadata.json is uploaded; a mirror that is not cached is removed.
UploadDocument(r) ==
    /\ At(r, "document")
    /\ IF TheJob.cache
       THEN NoFault /\ UNCHANGED mirror
       ELSE \/ NoFault /\ mirror' = [mirror EXCEPT ![Dir[r]] = Absent]
            \/ Fault /\ mirror' \in {mirror, [mirror EXCEPT ![Dir[r]] = Broken]}
    /\ Goto(r, "metadata")
    /\ UNCHANGED <<worldVars, archive, runVars, since, cancelled, owed>>

\* metadataSync.Sync, where the job asks for it (see CollectionSync).
MetadataEnds(r) ==
    /\ At(r, "metadata")
    /\ Pass(r, "done")
    /\ UNCHANGED diskVars

StepFails(r) ==
    /\ \E place \in {"lfs", "document", "metadata"} : At(r, place)
    /\ Failing
    /\ Fail(r)
    /\ UNCHANGED diskVars

RepoStep(r) ==
    \/ BeginRepo(r)
    \/ FetchMirror(r) \/ FetchCancelled(r) \/ FetchUnreadable(r) \/ FetchFails(r)
    \/ Clone(r) \/ CloneBlocked(r) \/ CloneEnds(r) \/ CloneFails(r) \/ CloneUnreadable(r)
    \/ FetchLFS(r) \/ UploadArchive(r) \/ UploadFails(r) \/ UploadDocument(r)
    \/ MetadataEnds(r) \/ StepFails(r)

RunStep ==
    \/ StartRun \/ StartRunFails \/ TakeJob \/ AbandonRun
    \/ ListJob \/ ListJobFails \/ ListJobCancelled
    \/ JobDone \/ JobCancelled \/ Cleanup \/ SkipCleanup

-----------------------------------------------------------------------------
(* The world. *)

Push ==
    /\ \E r \in Repos :
        /\ remote[r] # Gone /\ remote[r] < MaxVersion
        /\ remote' = [remote EXCEPT ![r] = @ + 1]
    /\ UNCHANGED <<settings, edits, diskVars, runVars, workVars, cancelled, owed, faults>>

Vanish ==
    /\ edits < MaxEdits /\ edits' = edits + 1
    /\ \E r \in Repos : remote[r] # Gone /\ remote' = [remote EXCEPT ![r] = Gone]
    /\ UNCHANGED <<settings, diskVars, runVars, workVars, cancelled, owed, faults>>

ReloadSettings ==
    /\ edits < MaxEdits /\ edits' = edits + 1
    /\ \E list \in JobLists \ {settings} : settings' = list
    /\ UNCHANGED <<remote, diskVars, runVars, workVars, cancelled, owed, faults>>

Cancel ==
    /\ ~cancelled /\ Fault
    /\ cancelled' = TRUE
    /\ UNCHANGED <<worldVars, diskVars, runVars, workVars, owed>>

NewProcess ==
    /\ run' = "idle" /\ cancelled' = FALSE
    /\ work' = [r \in Repos |-> Rest]
    /\ UNCHANGED <<worldVars, diskVars, jobs, job, complete, expected, since, owed>>

\* The process ends after its run, and is started again.
Restart == run = "idle" /\ cancelled /\ NoFault /\ NewProcess

\* The process is killed, and started again.
Crash == Fault /\ NewProcess

Next ==
    \/ RunStep \/ \E r \in Repos : RepoStep(r)
    \/ Push \/ Vanish \/ ReloadSettings
    \/ Cancel \/ Restart \/ Crash

Spec == Init /\ [][Next]_vars

\* The schedule brings run after run; within one, goroutines are scheduled and every
\* request is answered, or fails: the store's have a timeout, the forge's rest on
\* the forge, whose client has none.
FairSpec ==
    /\ Spec
    /\ WF_vars(RunStep) /\ WF_vars(Restart)
    /\ \A r \in Repos : WF_vars(RepoStep(r))

-----------------------------------------------------------------------------
\* An archive is never made of a mirror that is half cloned, or older than what the
\* remote held when the work on it began: no error on the way from the remote to
\* the tar file is passed over.
SnapshotFresh ==
    \A r \in Repos : archive[r].content \in {Absent} \cup archive[r].since .. MaxVersion

\* "Local-mirror cleanup only runs when complete, so a discovery error never deletes
\* a valid mirror" (sync.go:91-93): what a run removes as an orphan is the mirror of
\* no repository that it listed, or that belongs to a job it could not list.
CleanupSparesMirrors ==
    [][Cleanup => \A r \in owed : Dir[r] \notin Orphans]_vars

\* "A failed update self-heals by re-cloning from scratch so a cached repository can
\* never get permanently stuck" (git.go:57-59): when pushes and faults have ceased,
\* the newest archive of every repository that the jobs name, and that can be
\* reached, is that of its last version.
Heals ==
    \A r \in Repos : \A v \in Versions :
        <>[](remote[r] = v /\ \E i \in DOMAIN settings : r \in settings[i].repos)
            => <>[](archive[r].content = v)

\* "Local mirrors for repositories that are removed from the config (or disabled) are
\* cleaned off disk automatically" (README.md:185), sooner or later.
OrphansGo ==
    \A r \in Repos :
        <>[](\A i \in DOMAIN settings : r \notin settings[i].repos) => <>[](mirror[Dir[r]] = Absent)
=============================================================================
