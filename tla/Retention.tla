------------------------------ MODULE Retention ------------------------------
(***************************************************************************)
(* Retention: RetentionService.Run and apply of                            *)
(* internal/backup/retention.go, over the batched deletes of               *)
(* internal/store/ops.go.                                                  *)
(*                                                                         *)
(* A run lists the two storage roots, keeps of every repository the        *)
(* snapshots that are recent or among the newest, and deletes the rest,    *)
(* together with what else a repository left without snapshots has stored. *)
(* The listing is the only index: what a run leaves half done, the next    *)
(* one has to find there.  Backups and runs alternate in one process,      *)
(* which may be killed between any two requests.                           *)
(*                                                                         *)
(* A key is its parent prefix (a sequence of path segments), its kind and, *)
(* for an archive, the timestamp in its name, counted in days.  A listing  *)
(* stands for its retries.  The order of deletion within one repository is *)
(* the code's; the order of repositories, that of a Go map, is free.       *)
(***************************************************************************)
EXTENDS Integers, FiniteSets, Sequences

CONSTANTS Repositories,  \* projects, nested project snippets, gists
          Prefix,        \* the storage prefix of each, as its path segments
          Projects,      \* those whose issues and the like are backed up
          Settings,      \* the retention settings the operator switches between
          BatchSize,     \* deleteBatchSize: keys in one bulk delete
          MaxAttempts,   \* maxAttempts of execute
          MaxDay,        \* bound: days the model lasts
          Failures,      \* whether requests fail and the process is killed
          KeyErrors      \* whether a bulk delete leaves single keys undeleted

Days  == 1..MaxDay
Roots == {"repositories", "snippets"}

ASSUME RetentionAssumption ==
    /\ Prefix \in [Repositories -> Seq(STRING)]
    /\ \A r \in Repositories : Prefix[r] # <<>> /\ Prefix[r][1] \in Roots
    /\ \A r, s \in Repositories : Prefix[r] = Prefix[s] => r = s
    /\ Projects \subseteq Repositories
    /\ \A s \in Settings : s.days \in Int /\ s.minimum \in Int
    /\ BatchSize \in Nat \ {0} /\ MaxAttempts \in Nat \ {0}
    /\ MaxDay \in Nat \ {0}
    /\ Failures \in BOOLEAN /\ KeyErrors \in BOOLEAN

VARIABLES
    day,        \* today
    objects,    \* the bucket
    phase,      \* the run: "idle", "listing" or "deleting"
    cutoff, minimum,  \* of the run in progress, or of the last one
    unlisted, listFailed, keys,  \* the roots still being listed, and what was listed
    remaining,  \* what DeleteObjects has still to ask for
    single,     \* useSingleObjectDeletes
    attempt, asked,  \* the attempts of a request, and the keys it is repeated for
    clean       \* history: no request of this run, or of the last one, failed

runVars == <<cutoff, minimum, unlisted, listFailed, keys, remaining, single>>
requestVars == <<attempt, asked>>
vars == <<day, objects, phase, runVars, requestVars, clean>>

-----------------------------------------------------------------------------
(* Keys (internal/paths/keys.go). *)

Collections == {"issues", "merge-requests", "releases"}

Archive(r, d) == [dir |-> Prefix[r], kind |-> "archive", time |-> d]
Metadata(r)   == [dir |-> Prefix[r], kind |-> "metadata.json", time |-> 0]
Documents(r)  ==
    {[dir |-> Prefix[r] \o path, kind |-> "document", time |-> 0] :
        path \in {<<"issues">>, <<"releases", "attachments", "v1">>}}

AllKeys ==
    UNION {{Archive(r, d) : d \in Days} \cup {Metadata(r)}
            \cup (IF r \in Projects THEN Documents(r) ELSE {}) : r \in Repositories}

IsArchive(key) == key.kind = "archive"

Archives(ks) == {k \in ks : IsArchive(k)}

\* snapshotsByRepository: the archives that share a parent prefix.
SnapshotsAt(ks, dir) == {k \in Archives(ks) : k.dir = dir}

Newer(ks, key) == {k \in SnapshotsAt(ks, key.dir) : k.time > key.time}

-----------------------------------------------------------------------------
(* What a run decides on, from the keys it listed. *)

\* Mutant: one snapshot too few is protected.
TooFewProtected(ks, key, min) == Cardinality(Newer(ks, key)) < min - 1

\* Among the newest `min` of its repository.
Protected(ks, key, min) == Cardinality(Newer(ks, key)) < min

Expired(ks, min, cut) ==
    {k \in Archives(ks) : ~Protected(ks, k, min) /\ k.time < cut}

\* The prefixes that lose every one of their snapshots.
Emptied(ks, min, cut) ==
    {dir \in {k.dir : k \in Archives(ks)} : SnapshotsAt(ks, dir) \subseteq Expired(ks, min, cut)}

\* Mutant: everything under an emptied prefix.
UnderEmptied(key, emptied) ==
    \E i \in 1..Len(key.dir) : SubSeq(key.dir, 1, i) \in emptied

\* A direct child of an emptied prefix, or anything in one of its collections;
\* not a project snippet nested at {prefix}/snippets/{id}.
IsReclaimableOrphan(key, emptied) ==
    \/ key.dir \in emptied
    \/ \E i \in 2..Len(key.dir) :
        key.dir[i] \in Collections /\ SubSeq(key.dir, 1, i - 1) \in emptied

Orphans(ks, min, cut) ==
    {k \in ks \ Archives(ks) : IsReclaimableOrphan(k, Emptied(ks, min, cut))}

KeysToDelete(ks, min, cut) == Expired(ks, min, cut) \cup Orphans(ks, min, cut)

-----------------------------------------------------------------------------
Init ==
    /\ day = 1
    /\ objects = {}
    /\ phase = "idle"
    /\ cutoff = 0 /\ minimum = 0
    /\ unlisted = {} /\ listFailed = FALSE /\ keys = {}
    /\ remaining = {} /\ single = FALSE
    /\ attempt = 1 /\ asked = {}
    /\ clean = TRUE

Tomorrow ==
    /\ phase = "idle"
    /\ day < MaxDay
    /\ day' = day + 1
    /\ UNCHANGED <<objects, phase, runVars, requestVars, clean>>

\* A backup stores the archive, then metadata.json, then the collections, and
\* may end after any of them.  It never overlaps with a retention run.
BackUp(r) ==
    /\ phase = "idle"
    /\ Archive(r, day) \notin objects
    /\ \/ objects' = objects \cup {Archive(r, day)}
       \/ objects' = objects \cup {Archive(r, day), Metadata(r)}
       \/ /\ r \in Projects
          /\ objects' = objects \cup {Archive(r, day), Metadata(r)} \cup Documents(r)
    /\ UNCHANGED <<day, phase, runVars, requestVars, clean>>

NewRequest == attempt' = 1 /\ asked' = {}

\* Killed, or cancelled, be it in the wait before another attempt.
Stop ==
    /\ Failures
    /\ phase # "idle"
    /\ phase' = "idle"
    /\ remaining' = {}
    /\ NewRequest
    /\ clean' = FALSE
    /\ UNCHANGED <<day, objects, cutoff, minimum, unlisted, listFailed, keys, single>>

\* Run: disabled unless the retention is positive; a negative minimum is 0.
StartRun ==
    /\ phase = "idle"
    /\ \E s \in Settings :
        /\ s.days > 0
        /\ cutoff' = day - s.days
        /\ minimum' = IF s.minimum > 0 THEN s.minimum ELSE 0
    /\ phase' = "listing"
    /\ unlisted' = Roots /\ listFailed' = FALSE /\ keys' = {}
    /\ single' = FALSE
    /\ clean' = TRUE
    /\ UNCHANGED <<day, objects, remaining, requestVars>>

\* One of the two listing goroutines ends.
ListRoot(root) ==
    /\ phase = "listing"
    /\ root \in unlisted
    /\ unlisted' = unlisted \ {root}
    /\ keys' = keys \cup {k \in objects : k.dir[1] = root}
    /\ UNCHANGED <<day, objects, phase, cutoff, minimum, listFailed, remaining, single, requestVars,
                   clean>>

ListRootFails(root) ==
    /\ Failures
    /\ phase = "listing"
    /\ root \in unlisted
    /\ unlisted' = unlisted \ {root}
    /\ listFailed' = TRUE
    /\ clean' = FALSE
    /\ UNCHANGED <<day, objects, phase, cutoff, minimum, keys, remaining, single, requestVars>>

\* After wg.Wait().
Decide ==
    /\ phase = "listing"
    /\ unlisted = {}
    /\ remaining' = IF listFailed THEN {} ELSE KeysToDelete(keys, minimum, cutoff)
    /\ phase' = IF remaining' = {} THEN "idle" ELSE "deleting"
    /\ UNCHANGED <<day, objects, cutoff, minimum, unlisted, listFailed, keys, single, requestVars,
                   clean>>

\* Archives come before orphans, and newer archives of a repository before older.
Before(a, b) ==
    \/ IsArchive(a) /\ ~IsArchive(b)
    \/ IsArchive(a) /\ IsArchive(b) /\ a.dir = b.dir /\ a.time > b.time

\* The keys of the next n, or of all if there are no more than n.
Batches(n) ==
    {batch \in SUBSET remaining :
        /\ Cardinality(batch) = (IF Cardinality(remaining) < n THEN Cardinality(remaining) ELSE n)
        /\ \A a \in remaining \ batch, b \in batch : ~Before(a, b)}

\* The keys a request is for: an attempt after the first is for the same.
Requests == IF attempt > 1 THEN {asked} ELSE Batches(IF single THEN 1 ELSE BatchSize)

\* The loop of DeleteObjects goes on to the batch after this one.
Advance(batch) ==
    /\ remaining' = remaining \ batch
    /\ phase' = IF remaining' = {} THEN "idle" ELSE "deleting"
    /\ NewRequest

\* A bulk delete that reports no error; errors of single keys are not looked at.
DeleteBatch ==
    /\ phase = "deleting"
    /\ ~single
    /\ \E batch \in Requests :
        /\ \E kept \in SUBSET batch :
            /\ kept # {} => KeyErrors
            /\ objects' = objects \ (batch \ kept)
            /\ clean' = (clean /\ kept = {})
        /\ Advance(batch)
    /\ UNCHANGED <<day, cutoff, minimum, unlisted, listFailed, keys, single>>

\* Mutant: the rejected batch is taken to be done.
SkipRejectedBatch ==
    /\ phase = "deleting"
    /\ ~single
    /\ single' = TRUE
    /\ \E batch \in Requests : Advance(batch)
    /\ UNCHANGED <<day, objects, cutoff, minimum, unlisted, listFailed, keys, clean>>

\* isBulkDeleteSchemaError: from here on, and for this batch, key by key.
RejectBulk ==
    /\ phase = "deleting"
    /\ ~single
    /\ single' = TRUE
    /\ NewRequest
    /\ UNCHANGED <<day, objects, phase, cutoff, minimum, unlisted, listFailed, keys, remaining,
                   clean>>

DeleteOne ==
    /\ phase = "deleting"
    /\ single
    /\ \E batch \in Requests : objects' = objects \ batch /\ Advance(batch)
    /\ UNCHANGED <<day, cutoff, minimum, unlisted, listFailed, keys, single, clean>>

\* An attempt fails with a status that is retried, or a broken connection, some
\* of its keys deleted or none; then a wait.
DeleteRetried ==
    /\ Failures
    /\ phase = "deleting"
    /\ attempt < MaxAttempts
    /\ attempt' = attempt + 1
    /\ \E batch \in Requests :
        /\ asked' = batch
        /\ \E gone \in SUBSET batch : objects' = objects \ gone
    /\ UNCHANGED <<day, phase, runVars, clean>>

\* Any other error, a timeout among them, or the last attempt: the run ends.
DeleteFails ==
    /\ Failures
    /\ phase = "deleting"
    /\ \E batch \in Requests :
        \E gone \in SUBSET batch : objects' = objects \ gone
    /\ phase' = "idle"
    /\ remaining' = {}
    /\ NewRequest
    /\ clean' = FALSE
    /\ UNCHANGED <<day, cutoff, minimum, unlisted, listFailed, keys, single>>

Next ==
    \/ Tomorrow \/ Stop \/ StartRun \/ Decide
    \/ \E r \in Repositories : BackUp(r)
    \/ \E root \in Roots : ListRoot(root) \/ ListRootFails(root)
    \/ DeleteBatch \/ RejectBulk \/ DeleteOne \/ DeleteRetried \/ DeleteFails

Spec == Init /\ [][Next]_vars

-----------------------------------------------------------------------------
\* "The newest retentionMinimum snapshots of every repository are always
\* protected" (retention.go:37-38): whatever failed before, a step that deletes a
\* snapshot deletes one older than the cutoff, and leaves `minimum` newer ones.
MinimumKept ==
    [][\A k \in Archives(objects) \ objects' :
        /\ k.time < cutoff
        /\ Cardinality(Newer(objects', k)) >= minimum]_vars

\* The repository a key belongs to, by what stored it.
OwnedBy(r) == {Archive(r, d) : d \in Days} \cup {Metadata(r)} \cup Documents(r)

\* What a repository stores beside its snapshots is deleted only if every snapshot
\* it still has is expired and none is to be kept: a repository that keeps a
\* snapshot keeps its documents, and a snippet nested under a repository that was
\* emptied is judged by its own snapshots (retention.go:161-165).
KeptRepositoryIntact ==
    [][\A r \in Repositories :
        ((OwnedBy(r) \cap objects) \ Archives(objects)) \ objects' # {} =>
            /\ minimum = 0
            /\ \A a \in SnapshotsAt(objects, Prefix[r]) : a.time < cutoff]_vars

Orphaned(r) == SnapshotsAt(objects, Prefix[r]) = {} /\ OwnedBy(r) \cap objects # {}

\* A run in which no request failed leaves no snapshot that has expired, across
\* batches, and whether or not the store turns out to reject bulk deletes.  "When a
\* repository loses all of its snapshots, its remaining non-archive objects are
\* removed too so no orphaned prefix is left behind" (retention.go:87-90): it leaves
\* none of a repository that it emptied.  (A run that fails between the snapshots
\* and the rest leaves an orphan that no later run finds.)
PruneComplete ==
    [][phase # "idle" /\ phase' = "idle" /\ clean' =>
        /\ Expired(objects', minimum, cutoff) = {}
        /\ \A r \in Repositories : Orphaned(r)' => SnapshotsAt(keys, Prefix[r]) = {}]_vars
=============================================================================
