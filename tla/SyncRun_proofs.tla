----------------------------- MODULE SyncRun_proofs -----------------------------
(***************************************************************************)
(* No archive is staler than the work that made it, for any number of      *)
(* repositories, jobs, reloads, faults and restarts, provided that every   *)
(* repository has a mirror directory of its own.                           *)
(*                                                                         *)
(* The argument: while the work on a repository has yet to reach its       *)
(* remote, the remote is at least at the version it had when the work      *)
(* began; once it has, the mirror is too, until it is archived.  Nobody    *)
(* else touches the mirror in between: the work of another repository has  *)
(* another directory, and orphans are removed between jobs only.           *)
(***************************************************************************)
EXTENDS SyncRun, TLAPS

\* The name of a directory is a hash of the storage prefix (mirror.go:35), and so its own
\* unless two URLs have one prefix (README.md, section 5).
OwnDirectories == \A r, s \in Repos : Dir[r] = Dir[s] => r = s

Places == {"rest", "todo", "mirror", "cloning", "lfs", "archive", "document",
           "metadata", "done", "aborted"}

Typed ==
    /\ remote \in [Repos -> Versions \cup {Gone}]
    /\ mirror \in [Dirs -> Versions \cup {Absent, Broken}]
    /\ archive \in [Repos -> [content : Versions \cup {Absent, Broken}, since : Versions]]
    /\ work \in [Repos -> [at : Places, form : {1, 2}]]
    /\ since \in [Repos -> Versions]

\* Between jobs nobody works on a repository.
Resting == run # "sync" => \A r \in Repos : work[r].at = "rest"

RemoteAhead(r) == work[r].at \in {"mirror", "cloning"} => remote[r] = Gone \/ since[r] <= remote[r]

MirrorFresh(r) == work[r].at \in {"lfs", "archive"} => mirror[Dir[r]] \in since[r] .. MaxVersion

ArchiveFresh(r) == archive[r].content \in {Absent} \cup archive[r].since .. MaxVersion

Fresh(r) == RemoteAhead(r) /\ MirrorFresh(r) /\ ArchiveFresh(r)

IInv == Typed /\ Resting /\ \A r \in Repos : Fresh(r)

-----------------------------------------------------------------------------
\* At first nobody is at work and nothing is archived.
LEMMA InitIInv == Init => IInv
<1> USE SyncRunAssumption DEF Versions, Places
<1> SUFFICES ASSUME Init PROVE IInv
  OBVIOUS
<1>1. Typed
  BY DEF Init, Typed, Rest, Absence
<1>2. Resting
  BY DEF Init, Resting, Rest
<1>3. \A r \in Repos : Fresh(r)
  BY DEF Init, Rest, Absence, Fresh, RemoteAhead, MirrorFresh, ArchiveFresh
<1> QED
  BY <1>1, <1>2, <1>3 DEF IInv

\* A run, between repositories: what it does to all of them it does to none that is at
\* work, for it lists a job, or clears up, when none is.
LEMMA RunStepIInv == IInv /\ RunStep => IInv'
<1> USE SyncRunAssumption DEF Versions, Places
<1> SUFFICES ASSUME IInv, RunStep PROVE IInv'
  OBVIOUS
<1> USE DEF IInv, worldVars, diskVars, runVars, workVars
<1>1. CASE StartRun \/ StartRunFails \/ TakeJob \/ AbandonRun \/ ListJobFails \/ ListJobCancelled
  <2>1. UNCHANGED <<remote, mirror, archive, work, since>>
    BY <1>1 DEF StartRun, StartRunFails, TakeJob, AbandonRun, ListJobFails, ListJobCancelled
  <2>2. Typed'
    BY <2>1 DEF Typed
  <2>3. Resting'
    BY <1>1, <2>1 DEF Resting, StartRun, StartRunFails, TakeJob, AbandonRun, ListJobFails, ListJobCancelled
  <2>4. \A r \in Repos : Fresh(r)'
    BY <2>1 DEF Fresh, RemoteAhead, MirrorFresh, ArchiveFresh
  <2> QED
    BY <2>2, <2>3, <2>4
<1>2. CASE ListJob \/ JobDone \/ JobCancelled
  <2>1. UNCHANGED <<remote, mirror, archive, since>>
    BY <1>2 DEF ListJob, JobDone, JobCancelled
  <2>2. /\ work' \in [Repos -> [at : Places, form : {1, 2}]]
        /\ \A r \in Repos : work'[r].at \in {"rest", "todo"}
        /\ run' # "sync" => \A r \in Repos : work'[r].at = "rest"
    <3>1. CASE ListJob
      <4>1. PICK repos : Enlist(repos)
        BY <3>1 DEF ListJob
      <4> QED
        BY <4>1 DEF Enlist, Rest
    <3>2. CASE JobDone \/ JobCancelled
      BY <3>2 DEF JobDone, JobCancelled, Rest
    <3> QED
      BY <1>2, <3>1, <3>2
  <2>3. Typed'
    BY <2>1, <2>2 DEF Typed
  <2>4. Resting'
    BY <2>2 DEF Resting
  <2>5. \A r \in Repos : Fresh(r)'
    BY <2>1, <2>2 DEF Fresh, RemoteAhead, MirrorFresh, ArchiveFresh
  <2> QED
    BY <2>3, <2>4, <2>5
<1>3. CASE Cleanup \/ SkipCleanup
  <2>1. run # "sync" /\ run' # "sync" /\ UNCHANGED <<remote, archive, work, since>>
    BY <1>3 DEF Cleanup, SkipCleanup, FinishRun
  <2>2. mirror' \in [Dirs -> Versions \cup {Absent, Broken}]
    BY <1>3 DEF Cleanup, SkipCleanup, Typed
  <2>3. \A r \in Repos : work'[r].at = "rest"
    BY <2>1 DEF Resting
  <2>4. Typed'
    BY <2>1, <2>2 DEF Typed
  <2>5. Resting'
    BY <2>3 DEF Resting
  <2>6. \A r \in Repos : Fresh(r)'
    BY <2>1, <2>3 DEF Fresh, RemoteAhead, MirrorFresh, ArchiveFresh
  <2> QED
    BY <2>4, <2>5, <2>6
<1> QED
  BY <1>1, <1>2, <1>3 DEF RunStep

-----------------------------------------------------------------------------
\* Goto, and the second spelling of a URL, move one repository.
LEMMA GotoMoves ==
    ASSUME Typed, NEW r \in Repos, NEW place \in Places, Goto(r, place)
    PROVE  /\ work' \in [Repos -> [at : Places, form : {1, 2}]]
           /\ work'[r].at = place
           /\ \A s \in Repos \ {r} : work'[s] = work[s]
BY DEF Typed, Goto

LEMMA SecondForm ==
    ASSUME Typed, NEW r \in Repos, work' = [work EXCEPT ![r].form = 2]
    PROVE  /\ work' \in [Repos -> [at : Places, form : {1, 2}]]
           /\ work'[r].at = work[r].at
           /\ \A s \in Repos \ {r} : work'[s] = work[s]
BY DEF Typed

\* A step on one repository leaves alone the place and the mirror of the others.
LEMMA RepoFrame ==
    ASSUME IInv, OwnDirectories, NEW r \in Repos, RepoStep(r)
    PROVE  /\ Typed'
           /\ remote' = remote /\ run = "sync" /\ run' = run
           /\ \A s \in Repos \ {r} : /\ work'[s] = work[s]
                                     /\ since'[s] = since[s]
                                     /\ archive'[s] = archive[s]
                                     /\ mirror'[Dir[s]] = mirror[Dir[s]]
<1> USE SyncRunAssumption DEF IInv, At, Pass, Fail, worldVars, diskVars, runVars, workVars
<1>1. /\ work' \in [Repos -> [at : Places, form : {1, 2}]]
      /\ \A s \in Repos \ {r} : work'[s] = work[s]
  <2>1. CASE \E place \in Places : Goto(r, place)
    BY <2>1, GotoMoves
  <2>2. CASE work' = [work EXCEPT ![r].form = 2]
    BY <2>2, SecondForm
  <2>3. CASE work' = [work EXCEPT ![r] = [at |-> "mirror", form |-> 2]]
    BY <2>3 DEF Typed, Places
  <2>4. CASE RepoStep(r) /\ ~FetchUnreadable(r) /\ ~CloneUnreadable(r)
    <3>1. \E place \in Places : Goto(r, place)
      BY <2>4 DEF RepoStep, BeginRepo, FetchMirror, FetchCancelled, FetchFails, Clone, BeginClone,
            CloneBlocked, CloneEnds, CloneFails, FetchLFS, UploadArchive, UploadFails,
            UploadDocument, MetadataEnds, StepFails, Places
    <3> QED
      BY <2>1, <3>1
  <2> QED
    BY <2>1, <2>2, <2>3, <2>4 DEF RepoStep, FetchUnreadable, CloneUnreadable, Places
<1>2. remote' = remote /\ run = "sync" /\ run' = run
  BY DEF RepoStep, BeginRepo, FetchMirror, FetchCancelled, FetchUnreadable, FetchFails, Clone,
         BeginClone, CloneBlocked, CloneEnds, CloneFails, CloneUnreadable, FetchLFS,
         UploadArchive, UploadFails, UploadDocument, MetadataEnds, StepFails
<1>3. since' \in [Repos -> Versions] /\ \A s \in Repos \ {r} : since'[s] = since[s]
  <2>1. CASE BeginRepo(r)
    BY <2>1 DEF BeginRepo, Typed, Versions
  <2>2. CASE since' = since
    BY <2>2 DEF Typed
  <2> QED
    BY <2>1, <2>2 DEF RepoStep, FetchMirror, FetchCancelled, FetchUnreadable, FetchFails, Clone,
         BeginClone, CloneBlocked, CloneEnds, CloneFails, CloneUnreadable, FetchLFS,
         UploadArchive, UploadFails, UploadDocument, MetadataEnds, StepFails
<1>4. /\ archive' \in [Repos -> [content : Versions \cup {Absent, Broken}, since : Versions]]
      /\ \A s \in Repos \ {r} : archive'[s] = archive[s]
  <2>1. CASE archive' = archive
    BY <2>1 DEF Typed
  <2>2. CASE NewArchive(r)
    BY <2>2 DEF NewArchive, Typed
  <2> QED
    BY <2>1, <2>2 DEF RepoStep, BeginRepo, FetchMirror, FetchCancelled, FetchUnreadable, FetchFails,
         Clone, BeginClone, CloneBlocked, CloneEnds, CloneFails, CloneUnreadable, FetchLFS,
         UploadArchive, UploadFails, UploadDocument, MetadataEnds, StepFails
<1>5. mirror' = mirror \/ \E x \in Versions \cup {Absent, Broken} : mirror' = [mirror EXCEPT ![Dir[r]] = x]
  BY DEF Typed, RepoStep, BeginRepo, FetchMirror, FetchCancelled, FetchUnreadable, FetchFails,
         Clone, BeginClone, CloneBlocked, CloneEnds, CloneFails, CloneUnreadable, FetchLFS,
         UploadArchive, UploadFails, UploadDocument, MetadataEnds, StepFails
<1>6. /\ mirror' \in [Dirs -> Versions \cup {Absent, Broken}]
      /\ \A s \in Repos \ {r} : mirror'[Dir[s]] = mirror[Dir[s]]
  BY <1>5 DEF Typed, OwnDirectories
<1> QED
  BY <1>1, <1>2, <1>3, <1>4, <1>6 DEF Typed

\* ... and keeps its own mirror and archive fresh.
LEMMA RepoOwn ==
    ASSUME IInv, OwnDirectories, NEW r \in Repos, RepoStep(r)
    PROVE  Fresh(r)'
<1> USE SyncRunAssumption DEF IInv, At, Pass, Fail, worldVars, diskVars, runVars, workVars
<1>1. Typed /\ Typed' /\ remote' = remote
  BY RepoFrame
<1>2. CASE BeginRepo(r)
  <2>1. work'[r].at = "mirror" /\ UNCHANGED <<mirror, archive>>
    BY <1>2, GotoMoves DEF BeginRepo, Places
  <2>2. remote[r] = Gone \/ since'[r] <= remote'[r]
    BY <1>1, <1>2 DEF BeginRepo, Typed, Versions
  <2> QED
    BY <1>1, <2>1, <2>2 DEF Fresh, RemoteAhead, MirrorFresh, ArchiveFresh
<1>3. CASE FetchMirror(r) \/ CloneEnds(r)
  <2>1. work'[r].at = "lfs" /\ UNCHANGED <<archive, since>>
    BY <1>3, GotoMoves DEF FetchMirror, CloneEnds, Places
  <2>2. since[r] <= remote[r] /\ mirror'[Dir[r]] = remote[r] /\ remote[r] \in Versions
    BY <1>3 DEF FetchMirror, CloneEnds, Typed, Fresh, RemoteAhead
  <2>3. mirror'[Dir[r]] \in since[r] .. MaxVersion
    BY <2>2 DEF Typed, Versions
  <2> QED
    BY <2>1, <2>3 DEF Fresh, RemoteAhead, MirrorFresh, ArchiveFresh
<1>4. CASE FetchLFS(r)
  BY <1>4, GotoMoves DEF FetchLFS, Places, Fresh, RemoteAhead, MirrorFresh, ArchiveFresh
<1>5. CASE FetchFails(r) \/ Clone(r)
  <2>1. work'[r].at = "cloning" /\ work[r].at = "mirror" /\ UNCHANGED <<archive, since>>
    BY <1>5, GotoMoves DEF FetchFails, Clone, BeginClone, Places
  <2> QED
    BY <1>1, <2>1 DEF Fresh, RemoteAhead, MirrorFresh, ArchiveFresh
<1>6. CASE FetchUnreadable(r) /\ work[r].form = 1
  <2>1. work'[r].at = "mirror" /\ work[r].at = "mirror" /\ UNCHANGED <<archive, since>>
    BY <1>6, SecondForm DEF FetchUnreadable
  <2> QED
    BY <1>1, <2>1 DEF Fresh, RemoteAhead, MirrorFresh, ArchiveFresh
<1>7. CASE CloneUnreadable(r)
  <2>1. work'[r].at = "mirror" /\ work[r].at = "cloning" /\ UNCHANGED <<archive, since>>
    BY <1>7 DEF CloneUnreadable, Typed
  <2> QED
    BY <1>1, <2>1 DEF Fresh, RemoteAhead, MirrorFresh, ArchiveFresh
<1>8. CASE UploadArchive(r) \/ UploadFails(r)
  <2>1. /\ work[r].at = "archive" /\ UNCHANGED <<mirror, since>>
        /\ NewArchive(r) \/ UNCHANGED archive
    BY <1>8 DEF UploadArchive, UploadFails
  <2>2. work'[r].at \in {"document", "done", "aborted"}
    BY <1>8, GotoMoves DEF UploadArchive, UploadFails, Places
  <2>3. ArchiveFresh(r)'
    <3>1. CASE UNCHANGED archive
      BY <3>1 DEF Fresh, ArchiveFresh
    <3>2. CASE NewArchive(r)
      BY <2>1, <3>2 DEF NewArchive, Typed, Fresh, MirrorFresh, ArchiveFresh
    <3> QED
      BY <2>1, <3>1, <3>2
  <2> QED
    BY <2>2, <2>3 DEF Fresh, RemoteAhead, MirrorFresh
<1>9. CASE \/ FetchCancelled(r) \/ (FetchUnreadable(r) /\ work[r].form = 2)
           \/ CloneBlocked(r) \/ CloneFails(r)
           \/ UploadDocument(r) \/ MetadataEnds(r) \/ StepFails(r)
  <2>1. work'[r].at \in {"metadata", "done", "aborted"}
    BY <1>9, GotoMoves DEF FetchCancelled, FetchUnreadable, CloneBlocked, CloneFails, UploadDocument,
          MetadataEnds, StepFails, Places
  <2>2. archive' = archive
    BY <1>9 DEF FetchCancelled, FetchUnreadable, CloneBlocked, CloneFails, UploadDocument,
          MetadataEnds, StepFails
  <2> QED
    BY <2>1, <2>2 DEF Fresh, RemoteAhead, MirrorFresh, ArchiveFresh
<1>10. work[r].form \in {1, 2}
  BY <1>1 DEF Typed
<1> QED
  BY <1>2, <1>3, <1>4, <1>5, <1>6, <1>7, <1>8, <1>9, <1>10 DEF RepoStep

\* Hence a step on one repository keeps all of them fresh.
LEMMA RepoStepIInv ==
    ASSUME IInv, OwnDirectories, NEW r \in Repos, RepoStep(r)
    PROVE  IInv'
<1>1. Typed' /\ Resting'
  BY RepoFrame DEF Resting
<1>2. ASSUME NEW s \in Repos PROVE Fresh(s)'
  <2>1. CASE s = r
    BY <2>1, RepoOwn
  <2>2. CASE s # r
    BY <2>2, RepoFrame DEF IInv, Fresh, RemoteAhead, MirrorFresh, ArchiveFresh
  <2> QED
    BY <2>1, <2>2
<1> QED
  BY <1>1, <1>2 DEF IInv

-----------------------------------------------------------------------------
\* The world moves the remotes forward, or removes them, and forgets who was at work.
LEMMA WorldIInv ==
    ASSUME IInv, Push \/ Vanish \/ ReloadSettings \/ Cancel \/ Restart \/ Crash
    PROVE  IInv'
<1> USE SyncRunAssumption DEF Versions, Places
<1> USE DEF IInv, worldVars, diskVars, runVars, workVars
<1>1. CASE Push \/ Vanish
  <2>1. UNCHANGED <<run, mirror, archive, work, since>>
    BY <1>1 DEF Push, Vanish
  <2>2. /\ remote' \in [Repos -> Versions \cup {Gone}]
        /\ \A r \in Repos : remote'[r] = Gone \/ (remote[r] # Gone /\ remote[r] <= remote'[r])
    <3>1. CASE Push
      <4>1. PICK r \in Repos : remote[r] # Gone /\ remote[r] < MaxVersion
                                /\ remote' = [remote EXCEPT ![r] = @ + 1]
        BY <3>1 DEF Push
      <4> QED
        BY <4>1 DEF Typed
    <3>2. CASE Vanish
      BY <3>2 DEF Vanish, Typed
    <3> QED
      BY <1>1, <3>1, <3>2
  <2>3. Typed' /\ Resting'
    BY <2>1, <2>2 DEF Typed, Resting
  <2>4. ASSUME NEW r \in Repos PROVE Fresh(r)'
    <3>1. RemoteAhead(r)'
      BY <2>1, <2>2 DEF Fresh, RemoteAhead, Typed
    <3> QED
      BY <2>1, <3>1 DEF Fresh, MirrorFresh, ArchiveFresh
  <2> QED
    BY <2>3, <2>4
<1>2. CASE ReloadSettings \/ Cancel
  BY <1>2 DEF ReloadSettings, Cancel, Typed, Resting, Fresh, RemoteAhead, MirrorFresh, ArchiveFresh
<1>3. CASE Restart \/ Crash
  <2>1. UNCHANGED <<remote, mirror, archive, since>> /\ work' = [r \in Repos |-> Rest]
    BY <1>3 DEF Restart, Crash, NewProcess
  <2>2. Typed' /\ Resting'
    BY <2>1 DEF Typed, Resting, Rest
  <2>3. \A r \in Repos : Fresh(r)'
    BY <2>1 DEF Rest, Fresh, RemoteAhead, MirrorFresh, ArchiveFresh
  <2> QED
    BY <2>2, <2>3
<1> QED
  BY <1>1, <1>2, <1>3

\* Nothing changes when nothing happens.
LEMMA StutterIInv == IInv /\ UNCHANGED vars => IInv'
BY DEF vars, IInv, worldVars, diskVars, runVars, workVars, Typed, Resting, Fresh,
       RemoteAhead, MirrorFresh, ArchiveFresh

\* The archive of a repository is of a mirror that is whole, and no older than what the
\* remote held when the work on it began: syncRepositorySnapshot with SyncBareRepository,
\* when no two repositories share a directory.
THEOREM ArchivesFresh == OwnDirectories => (Spec => []SnapshotFresh)
<1> SUFFICES ASSUME OwnDirectories PROVE Spec => []SnapshotFresh
  OBVIOUS
<1>1. IInv /\ [Next]_vars => IInv'
  BY RunStepIInv, RepoStepIInv, WorldIInv, StutterIInv DEF Next
<1>2. IInv => SnapshotFresh
  BY DEF IInv, Fresh, ArchiveFresh, SnapshotFresh
<1> QED
  BY InitIInv, <1>1, <1>2, PTL DEF Spec

-----------------------------------------------------------------------------
(* What cleanup spares: this needs no directories of one's own. *)

PictureTyped ==
    /\ settings \in Seq(Jobs) /\ jobs \in Seq(Jobs) /\ job \in Nat \ {0}
    /\ run = "list" => job <= Len(jobs)
    /\ owed \subseteq Repos
    /\ DOMAIN work = Repos

\* During a run, while the picture is complete: the directory of what the run listed
\* is expected, or the work on it is still to begin.
Covered ==
    run # "idle" /\ complete =>
        \A r \in owed : Dir[r] \in expected \/ (run = "sync" /\ work[r].at = "todo")

\* A repository that moves, moves alone.
LEMMA OthersStay ==
    ASSUME DOMAIN work = Repos, NEW r \in Repos,
           \/ \E place : Goto(r, place)
           \/ work' = [work EXCEPT ![r].form = 2]
           \/ work' = [work EXCEPT ![r] = [at |-> "mirror", form |-> 2]]
    PROVE  DOMAIN work' = Repos /\ \A s \in Repos \ {r} : work'[s] = work[s]
BY DEF Goto

\* Between repositories: a job's listing is added to what is owed with all its work to do,
\* a listing that fails spoils the picture, and a job is done when no work is left to begin.
LEMMA RunStepCovered ==
    ASSUME PictureTyped, Covered, RunStep
    PROVE  PictureTyped' /\ Covered'
<1> USE SyncRunAssumption DEF PictureTyped, Covered, worldVars, diskVars, runVars, workVars
<1>1. CASE StartRun
  BY <1>1 DEF StartRun
<1>2. CASE StartRunFails \/ TakeJob \/ AbandonRun \/ ListJobCancelled
  BY <1>2 DEF StartRunFails, TakeJob, AbandonRun, ListJobCancelled
<1>3. CASE Cleanup \/ SkipCleanup
  BY <1>3 DEF Cleanup, SkipCleanup, FinishRun
<1>4. CASE ListJob \/ ListJobFails
  <2>1. TheJob.repos \subseteq Repos
    <3>1. job <= Len(jobs)
      BY <1>4 DEF ListJob, ListJobFails
    <3>2. jobs[job] \in Jobs
      BY <3>1
    <3> QED
      BY <3>2 DEF TheJob, Jobs
  <2>2. CASE ListJob
    <3>1. PICK repos \in SUBSET Repos : Enlist(repos)
      BY <2>1, <2>2 DEF ListJob
    <3>2. /\ run = "list" /\ run' = "sync"
          /\ UNCHANGED <<settings, jobs, job, complete, expected>>
      BY <2>2, <3>1 DEF ListJob, Enlist
    <3>3. /\ owed' = owed \cup repos /\ DOMAIN work' = Repos
          /\ \A r \in repos : work'[r].at = "todo"
      BY <3>1 DEF Enlist
    <3> QED
      BY <3>2, <3>3
  <2>3. CASE ListJobFails
    BY <2>1, <2>3 DEF ListJobFails
  <2> QED
    BY <1>4, <2>2, <2>3
<1>5. CASE JobDone
  <2>1. /\ run' = "next" /\ (complete' => complete)
        /\ job' = job + 1 /\ DOMAIN work' = Repos
        /\ UNCHANGED <<settings, jobs, expected, owed>>
    BY <1>5 DEF JobDone
  <2>2. run = "sync" /\ \A r \in Repos : work[r].at # "todo"
    BY <1>5 DEF JobDone, Listed
  <2>3. PictureTyped'
    BY <2>1
  <2>4. Covered'
    BY <2>1, <2>2
  <2> QED
    BY <2>3, <2>4
<1>6. CASE JobCancelled
  BY <1>6 DEF JobCancelled
<1> QED
  BY <1>1, <1>2, <1>3, <1>4, <1>5, <1>6 DEF RunStep

\* The work on a repository begins by expecting its directory.
LEMMA RepoStepCovered ==
    ASSUME PictureTyped, Covered, NEW r \in Repos, RepoStep(r)
    PROVE  PictureTyped' /\ Covered'
<1> USE DEF At, Pass, Fail, worldVars, diskVars, runVars, workVars
<1>1. DOMAIN work' = Repos /\ \A s \in Repos \ {r} : work'[s] = work[s]
  <2>1. \/ \E place : Goto(r, place)
        \/ work' = [work EXCEPT ![r].form = 2]
        \/ work' = [work EXCEPT ![r] = [at |-> "mirror", form |-> 2]]
    BY DEF RepoStep, BeginRepo, FetchMirror, FetchCancelled, FetchUnreadable, FetchFails, Clone,
           BeginClone, CloneBlocked, CloneEnds, CloneFails, CloneUnreadable, FetchLFS,
           UploadArchive, UploadFails, UploadDocument, MetadataEnds, StepFails
  <2> QED
    BY <2>1, OthersStay DEF PictureTyped
<1>2. UNCHANGED <<settings, run, jobs, job, complete, owed>> /\ run = "sync"
  BY DEF RepoStep, BeginRepo, FetchMirror, FetchCancelled, FetchUnreadable, FetchFails, Clone,
         BeginClone, CloneBlocked, CloneEnds, CloneFails, CloneUnreadable, FetchLFS,
         UploadArchive, UploadFails, UploadDocument, MetadataEnds, StepFails
<1>3. \/ expected' = expected \cup {Dir[r]}
      \/ expected' = expected /\ work[r].at # "todo"
  BY DEF RepoStep, BeginRepo, FetchMirror, FetchCancelled, FetchUnreadable, FetchFails, Clone,
         BeginClone, CloneBlocked, CloneEnds, CloneFails, CloneUnreadable, FetchLFS,
         UploadArchive, UploadFails, UploadDocument, MetadataEnds, StepFails
<1>4. PictureTyped'
  BY <1>1, <1>2 DEF PictureTyped
<1>5. Covered'
  BY <1>1, <1>2, <1>3 DEF PictureTyped, Covered
<1> QED
  BY <1>4, <1>5

\* The world changes no picture; a process that starts is idle.
LEMMA WorldCovered ==
    ASSUME PictureTyped, Covered,
           Push \/ Vanish \/ ReloadSettings \/ Cancel \/ Restart \/ Crash \/ UNCHANGED vars
    PROVE  PictureTyped' /\ Covered'
BY SyncRunAssumption
   DEF Push, Vanish, ReloadSettings, Cancel, Restart, Crash, NewProcess, vars, PictureTyped,
       Covered, worldVars, diskVars, runVars, workVars

\* RemoveOrphans never removes the mirror of a repository that this run listed, or that
\* belongs to a job whose listing failed: what the comment at sync.go:91 promises, with
\* directories shared or not.
THEOREM CleanupSparesOwed == Spec => CleanupSparesMirrors
<1>1. Init => PictureTyped /\ Covered
  BY SyncRunAssumption DEF Init, PictureTyped, Covered
<1>2. PictureTyped /\ Covered /\ [Next]_vars => (PictureTyped /\ Covered)'
  BY RunStepCovered, RepoStepCovered, WorldCovered DEF Next
<1>3. PictureTyped /\ Covered /\ [Next]_vars
        => [Cleanup => \A r \in owed : Dir[r] \notin Orphans]_vars
  <2> SUFFICES ASSUME PictureTyped, Covered, Cleanup, NEW r \in owed
               PROVE  Dir[r] \notin Orphans
    OBVIOUS
  <2> QED
    BY DEF Covered, Cleanup, Orphans
<1> QED
  BY <1>1, <1>2, <1>3, PTL DEF Spec, CleanupSparesMirrors
=============================================================================
