--------------------------- MODULE CollectionSync ---------------------------
(***************************************************************************)
(* The backup of one metadata collection (the issues, merge requests or    *)
(* releases of a repository): syncCollection, processItem,                 *)
(* downloadAttachments and reconcile of internal/backup/metadata.go, with  *)
(* the paged listing of internal/forge/client.go that feeds them.          *)
(*                                                                         *)
(* A producer goroutine lists the collection page by page into a buffered  *)
(* channel; workers store each item's attachment and document and record   *)
(* it; the main goroutine then writes the manifest and deletes the stored  *)
(* documents of items that the listing did not return.  The object store   *)
(* and the upstream project outlive the process, which may be cancelled or *)
(* killed at any point and run again.                                      *)
(*                                                                         *)
(* Abstracted: an item is its number, newer items have larger numbers and  *)
(* are listed first; every item has one attachment; what a document says   *)
(* is reduced to whether it names the stored copy of that attachment.  An  *)
(* upload that reports an error may still have taken effect.               *)
(***************************************************************************)
EXTENDS Naturals, FiniteSets, Sequences

CONSTANTS MaxNumber,   \* bound: items are numbered 1..MaxNumber
          Workers,     \* the worker goroutines of the largest concurrency
          PageSize,    \* items per page of the provider's API
          Source,      \* which provider mapping built the attachments
          Foreign,     \* items whose attachment is on a host of a third party
          MaxRuns,     \* bound: runs of the collection backup
          MaxChanges   \* bound: items created and removed upstream

Numbers == 1..MaxNumber

Sources == {"github", "gitlabUpload", "gitlabReleaseLink", "forgejo"}

ASSUME CollectionAssumption ==
    /\ MaxNumber \in Nat
    /\ PageSize \in Nat \ {0}
    /\ IsFiniteSet(Workers) /\ Workers # {}
    /\ Source \in Sources /\ Foreign \subseteq Numbers
    /\ MaxRuns \in Nat /\ MaxChanges \in Nat

\* The provider mappings that set Attachment.Downloadable: the zero value is
\* FALSE, and only GitLab's release links ever set it, to whether they point
\* to the instance.
Downloadable(n) == Source = "gitlabReleaseLink" /\ n \notin Foreign

VARIABLES
    \* the provider, the number of changes made to it, and whether an item has
    \* been removed from it during the present run (a history variable)
    upstream, changes, shifted,
    \* the object store: documents, those naming a stored attachment,
    \* attachments, and the items of the manifest
    docs, docRef, blobs, manifest,
    \* the process: its context, its runs, the workers it starts for a run, and
    \* the state of the present run
    cancelled, runs, pool,
    producer, pageNo, page, more,
    queue, worker, main, fetched, anyItemFailed, toDelete,
    \* history: items the listing delivered
    delivered

storeVars == <<docs, docRef, blobs, manifest>>
envVars   == <<upstream, changes, shifted, pool>>
prodVars  == <<producer, pageNo, page, more, delivered>>
mainVars  == <<main, toDelete>>
vars == <<envVars, storeVars, cancelled, runs, prodVars, queue, worker,
          mainVars, fetched, anyItemFailed>>

Idle(stage) == [stage |-> stage, item |-> 0, ref |-> FALSE]

NoRun ==
    /\ producer = "ok" /\ pageNo = 1 /\ page = {} /\ more = FALSE /\ delivered = {}
    /\ queue = <<>>
    /\ worker = [w \in Workers |-> Idle("exited")]
    /\ main = "idle" /\ toDelete = {}
    /\ fetched = {} /\ anyItemFailed = FALSE

\* An earlier run left some items stored; upstream has changed since.
Init ==
    /\ upstream \in SUBSET Numbers
    /\ changes = 0 /\ shifted = FALSE
    /\ pool \in (SUBSET Workers) \ {{}}
    /\ docs \in SUBSET Numbers
    /\ docRef = docs /\ blobs = docs /\ manifest = docs
    /\ cancelled = FALSE
    /\ runs \in 0..MaxRuns
    /\ NoRun

-----------------------------------------------------------------------------
(* The world: users of the forge, the operator, the machine. *)

Create ==
    /\ changes < MaxChanges
    /\ \E n \in Numbers :
        /\ \A m \in upstream \cup docs \cup delivered : m < n
        /\ upstream' = upstream \cup {n}
    /\ changes' = changes + 1
    /\ UNCHANGED <<shifted, pool, storeVars, cancelled, runs, prodVars, queue, worker, mainVars,
                   fetched, anyItemFailed>>

Remove ==
    /\ changes < MaxChanges
    /\ \E n \in upstream : upstream' = upstream \ {n}
    /\ changes' = changes + 1
    /\ shifted' = TRUE
    /\ UNCHANGED <<pool, storeVars, cancelled, runs, prodVars, queue, worker, mainVars,
                   fetched, anyItemFailed>>

Cancel ==
    /\ main # "idle"
    /\ ~cancelled
    /\ cancelled' = TRUE
    /\ UNCHANGED <<envVars, storeVars, runs, prodVars, queue, worker, mainVars,
                   fetched, anyItemFailed>>

\* The process is killed, or ends after a cancellation, and is started again.
Restart ==
    /\ main # "idle" \/ cancelled
    /\ cancelled' = FALSE
    /\ producer' = "ok" /\ pageNo' = 1 /\ page' = {} /\ more' = FALSE /\ delivered' = {}
    /\ queue' = <<>>
    /\ worker' = [w \in Workers |-> Idle("exited")]
    /\ main' = "idle" /\ toDelete' = {}
    /\ fetched' = {} /\ anyItemFailed' = FALSE
    /\ UNCHANGED <<envVars, storeVars, runs>>

-----------------------------------------------------------------------------
(* The start of a run. *)

StartRun ==
    /\ main = "idle"
    /\ ~cancelled
    /\ runs < MaxRuns
    /\ runs' = runs + 1
    /\ producer' = "fetch" /\ pageNo' = 1 /\ page' = {} /\ more' = FALSE /\ delivered' = {}
    /\ queue' = <<>>
    /\ worker' = [w \in Workers |-> Idle(IF w \in pool THEN "idle" ELSE "exited")]
    /\ main' = "receive" /\ toDelete' = {}
    /\ fetched' = {} /\ anyItemFailed' = FALSE
    /\ shifted' = FALSE
    /\ UNCHANGED <<upstream, changes, pool, storeVars, cancelled>>

-----------------------------------------------------------------------------
(* The producer: spec.list walks the pages and delivers into the channel. *)

\* The position of an item in the listing, newest first.
Rank(n) == Cardinality({m \in upstream : m >= n})

OnPage(p)  == {n \in upstream : (p - 1) * PageSize < Rank(n) /\ Rank(n) <= p * PageSize}
AfterPage(p) == {n \in upstream : Rank(n) > p * PageSize}

\* A full page (GitHub, Forgejo) or a next-page header (GitLab) promises more.
FetchPage ==
    /\ producer = "fetch"
    /\ ~cancelled
    /\ page' = OnPage(pageNo)
    /\ more' \in {Cardinality(OnPage(pageNo)) >= PageSize, AfterPage(pageNo) # {}}
    /\ producer' = "deliver"
    /\ UNCHANGED <<envVars, storeVars, cancelled, runs, pageNo, delivered, queue, worker,
                   mainVars, fetched, anyItemFailed>>

\* The request, a comment thread or the decoding failed, or ctx was cancelled.
FetchFails ==
    /\ producer = "fetch"
    /\ producer' = "failed"
    /\ UNCHANGED <<envVars, storeVars, cancelled, runs, pageNo, page, more, delivered, queue,
                   worker, mainVars, fetched, anyItemFailed>>

Deliver ==
    /\ producer = "deliver"
    /\ Len(queue) < Cardinality(pool)
    /\ \E n \in page :
        /\ \A m \in page : m <= n
        /\ queue' = Append(queue, n)
        /\ page' = page \ {n}
        /\ delivered' = delivered \cup {n}
    /\ UNCHANGED <<envVars, storeVars, cancelled, runs, producer, pageNo, more, worker,
                   mainVars, fetched, anyItemFailed>>

\* Mutant: a plain send, without the case of ctx.Done().
DeliverBlocks == FALSE /\ UNCHANGED vars

DeliverCancelled ==
    /\ producer = "deliver"
    /\ page # {}
    /\ cancelled
    /\ producer' = "failed"
    /\ UNCHANGED <<envVars, storeVars, cancelled, runs, pageNo, page, more, delivered, queue,
                   worker, mainVars, fetched, anyItemFailed>>

\* Mutant: the listing stops after its first page.
EndAfterPage ==
    /\ producer = "deliver"
    /\ page = {}
    /\ producer' = "ok"
    /\ UNCHANGED <<envVars, storeVars, cancelled, runs, pageNo, page, more, delivered, queue,
                   worker, mainVars, fetched, anyItemFailed>>

EndPage ==
    /\ producer = "deliver"
    /\ page = {}
    /\ IF more THEN producer' = "fetch" /\ pageNo' = pageNo + 1
               ELSE producer' = "ok" /\ UNCHANGED pageNo
    /\ UNCHANGED <<envVars, storeVars, cancelled, runs, page, more, delivered, queue, worker,
                   mainVars, fetched, anyItemFailed>>
-----------------------------------------------------------------------------
(* The workers: processItem, under `for item := range items`. *)

\* main closes the channel once the producer is done.
Closed == main # "receive"

Move(w, stage) == worker' = [worker EXCEPT ![w].stage = stage]

TakeItem(w) ==
    /\ worker[w].stage = "idle"
    /\ queue # <<>>
    /\ worker' = [worker EXCEPT ![w] = [stage |-> "attach", item |-> Head(queue), ref |-> FALSE]]
    /\ queue' = Tail(queue)
    /\ UNCHANGED <<envVars, storeVars, cancelled, runs, prodVars, mainVars, fetched,
                   anyItemFailed>>

ExitOnClosed(w) ==
    /\ worker[w].stage = "idle"
    /\ queue = <<>>
    /\ Closed
    /\ Move(w, "exited")
    /\ UNCHANGED <<envVars, storeVars, cancelled, runs, prodVars, queue, mainVars, fetched,
                   anyItemFailed>>

\* processItem returned an error: a cancelled worker leaves, any other flags
\* the failure and goes on to the next item.
ItemFails(w) ==
    IF cancelled THEN Move(w, "exited") /\ UNCHANGED anyItemFailed
                 ELSE Move(w, "idle") /\ anyItemFailed' = TRUE

SkipAttachment(w) ==
    /\ worker[w].stage = "attach"
    /\ ~Downloadable(worker[w].item)
    /\ ~cancelled
    /\ Move(w, "upload")
    /\ UNCHANGED <<envVars, storeVars, cancelled, runs, prodVars, queue, mainVars, fetched,
                   anyItemFailed>>

StoreAttachment(w) ==
    /\ worker[w].stage = "attach"
    /\ Downloadable(worker[w].item)
    /\ ~cancelled
    /\ blobs' = blobs \cup {worker[w].item}
    /\ worker' = [worker EXCEPT ![w].stage = "upload", ![w].ref = TRUE]
    /\ UNCHANGED <<envVars, docs, docRef, manifest, cancelled, runs, prodVars, queue,
                   mainVars, fetched, anyItemFailed>>

\* A download or an upload that fails costs the item its reference, no more;
\* ctx may be cancelled after the check that came before it.
AttachmentFails(w) ==
    /\ worker[w].stage = "attach"
    /\ Downloadable(worker[w].item)
    /\ blobs' \in {blobs, blobs \cup {worker[w].item}}
    /\ Move(w, "upload")
    /\ UNCHANGED <<envVars, docs, docRef, manifest, cancelled, runs, prodVars, queue,
                   mainVars, fetched, anyItemFailed>>

\* ctx.Err() before the attachment, or Acquire gave up waiting for the throttle.
AttachmentCancelled(w) ==
    /\ worker[w].stage = "attach"
    /\ cancelled
    /\ ItemFails(w)
    /\ UNCHANGED <<envVars, storeVars, cancelled, runs, prodVars, queue, mainVars, fetched>>

PutDoc(w) ==
    /\ docs' = docs \cup {worker[w].item}
    /\ docRef' = IF worker[w].ref THEN docRef \cup {worker[w].item}
                                 ELSE docRef \ {worker[w].item}

UploadDocument(w) ==
    /\ worker[w].stage = "upload"
    /\ ~cancelled
    /\ PutDoc(w)
    /\ Move(w, "record")
    /\ UNCHANGED <<envVars, blobs, manifest, cancelled, runs, prodVars, queue, mainVars,
                   fetched, anyItemFailed>>

\* Mutant: the item is recorded on the failure path too.
UploadFailureRecorded(w) ==
    /\ worker[w].stage = "upload"
    /\ Move(w, "record")
    /\ UNCHANGED <<envVars, storeVars, cancelled, runs, prodVars, queue, mainVars, fetched,
                   anyItemFailed>>

UploadFails(w) ==
    /\ worker[w].stage = "upload"
    /\ PutDoc(w) \/ UNCHANGED <<docs, docRef>>
    /\ ItemFails(w)
    /\ UNCHANGED <<envVars, blobs, manifest, cancelled, runs, prodVars, queue, mainVars,
                   fetched>>

\* Under accumulateLock: the manifest entry and the fetched slug.
RecordItem(w) ==
    /\ worker[w].stage = "record"
    /\ fetched' = fetched \cup {worker[w].item}
    /\ Move(w, "idle")
    /\ UNCHANGED <<envVars, storeVars, cancelled, runs, prodVars, queue, mainVars,
                   anyItemFailed>>

-----------------------------------------------------------------------------
(* The main goroutine of syncCollection. *)

\* <-producerDone, then close(items).
ReceiveProducerDone ==
    /\ main = "receive"
    /\ producer \in {"ok", "failed"}
    /\ main' = "drain"
    /\ UNCHANGED <<envVars, storeVars, cancelled, runs, prodVars, queue, worker, toDelete,
                   fetched, anyItemFailed>>

\* workers.Wait(); an incomplete listing ends the run here.
WorkersDone ==
    /\ main = "drain"
    /\ \A w \in Workers : worker[w].stage = "exited"
    /\ main' = IF producer = "failed" THEN "idle" ELSE "manifest"
    /\ UNCHANGED <<envVars, storeVars, cancelled, runs, prodVars, queue, worker, toDelete,
                   fetched, anyItemFailed>>

\* Mutant: the manifest is uploaded under a context of its own.
UploadManifestAnyway ==
    /\ main = "manifest"
    /\ manifest' = fetched
    /\ main' = IF anyItemFailed THEN "idle" ELSE "list"
    /\ UNCHANGED <<envVars, docs, docRef, blobs, cancelled, runs, prodVars, queue, worker,
                   toDelete, fetched, anyItemFailed>>

UploadManifest ==
    /\ main = "manifest"
    /\ ~cancelled
    /\ manifest' = fetched
    /\ main' = IF anyItemFailed THEN "idle" ELSE "list"
    /\ UNCHANGED <<envVars, docs, docRef, blobs, cancelled, runs, prodVars, queue, worker,
                   toDelete, fetched, anyItemFailed>>

UploadManifestFails ==
    /\ main = "manifest"
    /\ manifest' \in {manifest, fetched}
    /\ main' = "idle"
    /\ UNCHANGED <<envVars, docs, docRef, blobs, cancelled, runs, prodVars, queue, worker,
                   toDelete, fetched, anyItemFailed>>

\* reconcile: the stored documents and attachments of items not fetched.
ListStored ==
    /\ main = "list"
    /\ \/ /\ ~cancelled
          /\ toDelete' = (docs \cup blobs) \ fetched
          /\ main' = IF toDelete' = {} THEN "idle" ELSE "delete"
       \/ main' = "idle" /\ UNCHANGED toDelete
    /\ UNCHANGED <<envVars, storeVars, cancelled, runs, prodVars, queue, worker, fetched,
                   anyItemFailed>>

\* DeleteObjects may fail part of the way, and errors of single keys are not
\* looked at: any part of the keys may remain.
DeleteStale ==
    /\ main = "delete"
    /\ \E goneDocs, goneBlobs \in SUBSET toDelete :
        /\ docs' = docs \ goneDocs
        /\ docRef' = docRef \ goneDocs
        /\ blobs' = blobs \ goneBlobs
    /\ main' = "idle"
    /\ UNCHANGED <<envVars, manifest, cancelled, runs, prodVars, queue, worker, toDelete,
                   fetched, anyItemFailed>>

-----------------------------------------------------------------------------
ProducerStep == FetchPage \/ FetchFails \/ Deliver \/ DeliverCancelled \/ EndPage

WorkerStep(w) ==
    \/ TakeItem(w) \/ ExitOnClosed(w)
    \/ SkipAttachment(w) \/ StoreAttachment(w) \/ AttachmentFails(w) \/ AttachmentCancelled(w)
    \/ UploadDocument(w) \/ UploadFails(w) \/ RecordItem(w)

MainStep ==
    \/ ReceiveProducerDone \/ WorkersDone
    \/ UploadManifest \/ UploadManifestFails \/ ListStored \/ DeleteStale

Next ==
    \/ Create \/ Remove \/ Cancel \/ Restart \/ StartRun
    \/ ProducerStep
    \/ \E w \in Workers : WorkerStep(w)
    \/ MainStep

Spec == Init /\ [][Next]_vars

-----------------------------------------------------------------------------
\* At every moment, a crash included, each item of the stored manifest has its
\* document, and an attachment its document names is stored: documents and
\* attachments go up before the manifest, and deletions come after it.
ManifestBacked ==
    /\ manifest \subseteq docs
    /\ manifest \cap docRef \subseteq blobs

\* "A partial set must not drive deletes" (metadata.go:280-281): when the run
\* comes to compare and delete, every item the listing delivered was stored
\* and recorded, whatever failed or was cancelled before.
ReconcileSeesAll ==
    main \in {"list", "delete"} =>
        /\ producer = "ok"
        /\ queue = <<>>
        /\ delivered \subseteq fetched

\* A document is deleted only when its item is gone from the forge (README.md:276:
\* "removes documents for items that no longer exist upstream"), while items
\* are only added upstream.  An item removed between two page requests moves a
\* live one onto a page already read, and its document is deleted.
NoLiveDeleted ==
    [][(\E n \in docs \ docs' : n \in upstream) => shifted]_vars

\* No run is stuck, whatever fails and whenever it is cancelled: the producer
\* is not left behind a full channel whose workers are gone, nor are the
\* workers or the main goroutine left waiting for what never comes.
NeverStuck ==
    main # "idle" => ENABLED (ProducerStep \/ MainStep \/ \E w \in Workers : WorkerStep(w))
=============================================================================
