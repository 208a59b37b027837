------------------------ MODULE CollectionSync_proofs ------------------------
(***************************************************************************)
(* Theorems about the backup of a collection, for any number of workers,   *)
(* items, pages and runs, with crashes, failures and cancellations         *)
(* anywhere: a comparison that deletes has seen every item the listing     *)
(* delivered, the stored manifest is backed by what is stored, and what is *)
(* deleted is gone from the forge, unless the pages shifted the other way. *)
(***************************************************************************)
EXTENDS CollectionSync, FiniteSetTheorems, WellFoundedInduction, TLAPS

-----------------------------------------------------------------------------
(* The inductive invariant: the way of an item. *)

Stages == {"idle", "attach", "upload", "record", "exited"}

Queued(n) == \E i \in 1..Len(queue) : queue[i] = n
Held(n)   == \E w \in Workers :
                worker[w].stage \in {"attach", "upload", "record"} /\ worker[w].item = n

FlowTypes ==
    /\ upstream \subseteq Numbers /\ page \subseteq Numbers
    /\ pool \subseteq Workers /\ pool # {}
    /\ queue \in Seq(Numbers)
    /\ worker \in [Workers -> [stage : Stages, item : 0..MaxNumber, ref : BOOLEAN]]

\* What main has waited for.
Phases ==
    /\ main \in {"idle", "receive", "drain", "manifest", "list", "delete"}
    /\ main = "drain" => producer \in {"ok", "failed"}
    /\ main \in {"manifest", "list", "delete"} => producer = "ok"
    /\ main \in {"idle", "manifest", "list", "delete"} =>
           \A w \in Workers : worker[w].stage = "exited"

\* What was delivered is recorded, on its way, or given up with a flag.
Accounted ==
    main # "idle" /\ ~cancelled /\ ~anyItemFailed =>
        \A n \in delivered : n \in fetched \/ Queued(n) \/ Held(n)

\* A worker leaves because ctx was cancelled, or because nothing is left to do.
ExitReason ==
    main # "idle" /\ ~cancelled =>
        \A w \in pool : worker[w].stage = "exited" => queue = <<>> /\ Closed

FlowInv == FlowTypes /\ Phases /\ Accounted /\ ExitReason /\ ReconcileSeesAll

-----------------------------------------------------------------------------
\* What taking the head off the channel leaves.
LEMMA TailFacts ==
    ASSUME NEW S, NEW q \in Seq(S), q # <<>>
    PROVE  /\ 1 \in 1..Len(q) /\ Head(q) = q[1] /\ q[1] \in S
           /\ Tail(q) \in Seq(S)
           /\ \A k \in 1..Len(q) : k = 1 \/ \E i \in 1..Len(Tail(q)) : Tail(q)[i] = q[k]
<1>1. /\ 1 \in 1..Len(q) /\ Head(q) = q[1] /\ q[1] \in S /\ Tail(q) \in Seq(S)
      /\ Len(q) \in Nat \ {0} /\ Len(Tail(q)) = Len(q) - 1
      /\ \A i \in 1..Len(Tail(q)) : Tail(q)[i] = q[i + 1]
  OBVIOUS
<1>2. ASSUME NEW k \in 1..Len(q), k # 1
      PROVE  \E i \in 1..Len(Tail(q)) : Tail(q)[i] = q[k]
  <2>1. k - 1 \in 1..Len(Tail(q)) /\ Tail(q)[k - 1] = q[k]
    BY <1>1, <1>2
  <2>. QED
    BY <2>1
<1>. QED
  BY <1>1, <1>2

\* What a send to it does.
LEMMA AppendFacts ==
    ASSUME NEW S, NEW q \in Seq(S), NEW e \in S
    PROVE  /\ Append(q, e) \in Seq(S)
           /\ Len(q) \in Nat /\ Len(Append(q, e)) = Len(q) + 1
           /\ Append(q, e)[Len(q) + 1] = e
           /\ \A i \in 1..Len(q) : Append(q, e)[i] = q[i]
OBVIOUS

\* A worker that moves on keeps its item, and the others are as they were.
LEMMA MoveFacts ==
    ASSUME FlowTypes, NEW w \in Workers, NEW s \in Stages, Move(w, s)
    PROVE  /\ worker' \in [Workers -> [stage : Stages, item : 0..MaxNumber, ref : BOOLEAN]]
           /\ worker'[w].stage = s /\ worker'[w].item = worker[w].item
           /\ worker'[w].ref = worker[w].ref
           /\ \A v \in Workers : v # w => worker'[v] = worker[v]
BY DEF FlowTypes, Move

LEMMA FlowInit == Init => FlowInv
<1> SUFFICES ASSUME Init PROVE FlowInv
    OBVIOUS
<1>1. FlowTypes
  <2>1. MaxNumber \in Nat
    BY CollectionAssumption
  <2>2. worker \in [Workers -> [stage : Stages, item : 0..MaxNumber, ref : BOOLEAN]]
    BY <2>1 DEF Init, NoRun, Idle, Stages
  <2>3. upstream \subseteq Numbers /\ page \subseteq Numbers
    BY Zenon DEF Init, NoRun
  <2>4. queue \in Seq(Numbers)
    <3>1. <<>> \in Seq(Numbers)
      OBVIOUS
    <3>. QED
      BY <3>1 DEF Init, NoRun
  <2>5. pool \subseteq Workers /\ pool # {}
    BY Zenon DEF Init
  <2>. QED
    BY <2>2, <2>3, <2>4, <2>5 DEF FlowTypes
<1>2. Phases
  BY DEF Init, NoRun, Phases, Idle
<1>. QED
  BY <1>1, <1>2 DEF Init, NoRun, FlowInv, Accounted, ExitReason, ReconcileSeesAll

-----------------------------------------------------------------------------
\* Steps of the world and of the producer.
LEMMA WorldFlow == FlowInv /\ (Create \/ Remove \/ Cancel \/ Restart \/ StartRun) => FlowInv'
<1> SUFFICES ASSUME FlowInv, Create \/ Remove \/ Cancel \/ Restart \/ StartRun PROVE FlowInv'
    OBVIOUS
<1> MaxNumber \in Nat
  BY CollectionAssumption
<1>1. CASE Create \/ Remove
  BY <1>1 DEF FlowInv, Create, Remove, FlowTypes, Phases, Accounted, ExitReason, ReconcileSeesAll,
              Closed, Queued, Held, prodVars, mainVars, storeVars
<1>2. CASE Cancel
  BY <1>2 DEF FlowInv, Cancel, FlowTypes, Phases, Accounted, ExitReason, ReconcileSeesAll,
              Closed, Queued, Held, prodVars, mainVars, storeVars, envVars
<1>3. CASE Restart
  BY <1>3 DEF FlowInv, Restart, FlowTypes, Phases, Accounted, ExitReason, ReconcileSeesAll,
              Closed, Idle, Stages, Numbers, storeVars, envVars
<1>4. CASE StartRun
  <2>1. FlowTypes'
    BY <1>4 DEF FlowInv, StartRun, FlowTypes, Idle, Stages, Numbers
  <2>2. ExitReason'
    BY <1>4 DEF FlowInv, StartRun, FlowTypes, ExitReason, Idle
  <2>. QED
    BY <1>4, <2>1, <2>2 DEF FlowInv, StartRun, Phases, Accounted, ReconcileSeesAll
<1>. QED
  BY <1>1, <1>2, <1>3, <1>4

\* The producer delivers only while main waits for it.
LEMMA ProducerFlow == FlowInv /\ ProducerStep => FlowInv'
<1> SUFFICES ASSUME FlowInv, ProducerStep PROVE FlowInv'
    OBVIOUS
<1> USE DEF envVars, mainVars, storeVars
<1>0. main \in {"idle", "receive"}
  BY DEF FlowInv, Phases, ProducerStep, FetchPage, FetchFails, Deliver, DeliverCancelled, EndPage
<1>1. CASE FetchPage \/ FetchFails \/ DeliverCancelled \/ EndPage
  <2>1. FlowTypes' /\ Phases'
    BY <1>0, <1>1 DEF FlowInv, FetchPage, FetchFails, DeliverCancelled, EndPage, FlowTypes, Phases,
         OnPage
  <2>2. Accounted' /\ ReconcileSeesAll'
    BY <1>0, <1>1 DEF FlowInv, FetchPage, FetchFails, DeliverCancelled, EndPage, Phases,
         Accounted, ReconcileSeesAll, Queued, Held
  <2>3. ExitReason'
    BY <1>0, <1>1 DEF FlowInv, FetchPage, FetchFails, DeliverCancelled, EndPage, Phases,
         ExitReason, Closed
  <2>. QED
    BY <2>1, <2>2, <2>3 DEF FlowInv
<1>2. CASE Deliver
  <2>1. PICK n \in page : /\ queue' = Append(queue, n) /\ page' = page \ {n}
                          /\ delivered' = delivered \cup {n}
    BY <1>2 DEF Deliver
  <2>2. /\ queue' \in Seq(Numbers)
        /\ Len(queue) \in Nat /\ Len(queue') = Len(queue) + 1
        /\ queue'[Len(queue) + 1] = n
        /\ \A i \in 1..Len(queue) : queue'[i] = queue[i]
    BY <2>1, AppendFacts DEF FlowInv, FlowTypes
  <2>3. Queued(n)' /\ \A m : Queued(m) => Queued(m)'
    BY <2>2 DEF Queued
  <2>4. FlowTypes' /\ Phases' /\ ReconcileSeesAll'
    BY <1>0, <1>2, <2>1, <2>2 DEF FlowInv, Deliver, FlowTypes, Phases, ReconcileSeesAll
  <2>5. Accounted'
    BY <1>2, <2>1, <2>3 DEF FlowInv, Deliver, Accounted, Held
  <2>6. ExitReason'
    BY <1>0, <1>2 DEF FlowInv, Deliver, ExitReason, Closed
  <2>. QED
    BY <2>4, <2>5, <2>6 DEF FlowInv
<1>. QED
  BY <1>1, <1>2 DEF ProducerStep

\* Main goes on to the manifest only with every worker gone, and to the comparison
\* only if none of them was cancelled.
LEMMA MainFlow == FlowInv /\ MainStep => FlowInv'
<1> SUFFICES ASSUME FlowInv, MainStep PROVE FlowInv'
    OBVIOUS
<1> USE DEF envVars, prodVars, storeVars
<1>1. CASE ReceiveProducerDone
  BY <1>1 DEF FlowInv, ReceiveProducerDone, FlowTypes, Phases, Accounted, ExitReason,
              ReconcileSeesAll, Closed, Queued, Held
<1>2. CASE WorkersDone
  BY <1>2 DEF FlowInv, WorkersDone, FlowTypes, Phases, Accounted, ExitReason,
              ReconcileSeesAll, Closed, Queued, Held
<1>3. CASE UploadManifest
  <2>1. queue = <<>>
    BY <1>3 DEF FlowInv, UploadManifest, FlowTypes, Phases, ExitReason
  <2>2. \A n : ~Queued(n) /\ ~Held(n)
    BY <1>3, <2>1 DEF FlowInv, UploadManifest, Phases, Queued, Held
  <2>3. ~anyItemFailed => delivered \subseteq fetched
    BY <1>3, <2>2 DEF FlowInv, UploadManifest, Accounted
  <2>. QED
    BY <1>3, <2>1, <2>3 DEF FlowInv, UploadManifest, FlowTypes, Phases, Accounted, ExitReason,
              ReconcileSeesAll, Closed
<1>4. CASE UploadManifestFails \/ ListStored \/ DeleteStale
  BY <1>4 DEF FlowInv, UploadManifestFails, ListStored, DeleteStale, FlowTypes, Phases, Accounted,
              ExitReason, ReconcileSeesAll, Closed, Queued, Held
<1>. QED
  BY <1>1, <1>2, <1>3, <1>4 DEF MainStep

\* A worker has an item only in a run that main still waits for.
LEMMA WorkerFlow == ASSUME FlowInv, NEW w \in Workers, WorkerStep(w) PROVE FlowInv'
<1> USE DEF envVars, prodVars, mainVars, storeVars
<1>0. main \in {"receive", "drain"} /\ worker[w].stage # "exited"
  BY DEF FlowInv, Phases, WorkerStep, TakeItem, ExitOnClosed, SkipAttachment, StoreAttachment,
         AttachmentFails, AttachmentCancelled, UploadDocument, UploadFails, RecordItem
<1>1. CASE TakeItem(w)
  <2>1. /\ 1 \in 1..Len(queue) /\ Head(queue) = queue[1] /\ queue[1] \in Numbers
        /\ queue' \in Seq(Numbers)
        /\ \A k \in 1..Len(queue) : k = 1 \/ \E i \in 1..Len(queue') : queue'[i] = queue[k]
    BY <1>1, TailFacts DEF TakeItem, FlowInv, FlowTypes
  <2>2. /\ worker'[w] = [stage |-> "attach", item |-> Head(queue), ref |-> FALSE]
        /\ \A v \in Workers : v # w => worker'[v] = worker[v]
    BY <1>1 DEF TakeItem, FlowInv, FlowTypes
  <2>3. FlowTypes'
    BY <1>1, <2>1 DEF TakeItem, FlowInv, FlowTypes, Stages, Numbers
  <2>4. \A n : Held(n) => Held(n)'
    BY <1>1, <2>2 DEF TakeItem, Held
  <2>5. \A n : Queued(n) => Queued(n)' \/ Held(n)'
    BY <2>1, <2>2 DEF Queued, Held
  <2>6. Accounted'
    BY <1>1, <2>4, <2>5 DEF TakeItem, FlowInv, Accounted
  <2>7. ExitReason'
    BY <1>1, <2>2 DEF TakeItem, FlowInv, FlowTypes, ExitReason, Closed
  <2>8. Phases' /\ ReconcileSeesAll'
    BY <1>0, <1>1 DEF TakeItem, FlowInv, Phases, ReconcileSeesAll
  <2>. QED
    BY <2>3, <2>6, <2>7, <2>8 DEF FlowInv
<1>2. CASE ExitOnClosed(w)
  <2>1. /\ worker'[w].stage = "exited"
        /\ \A v \in Workers : v # w => worker'[v] = worker[v]
        /\ FlowTypes'
    BY <1>2, MoveFacts DEF ExitOnClosed, FlowInv, FlowTypes, Stages
  <2>2. \A n : Held(n) => Held(n)'
    BY <1>2, <2>1 DEF ExitOnClosed, Held
  <2>. QED
    BY <1>0, <1>2, <2>1, <2>2 DEF ExitOnClosed, FlowInv, Phases, Accounted, ExitReason,
              ReconcileSeesAll, Closed, Queued
<1>3. CASE SkipAttachment(w) \/ AttachmentFails(w) \/ UploadDocument(w)
  <2>1. PICK s \in {"upload", "record"} : Move(w, s)
    BY <1>3 DEF SkipAttachment, AttachmentFails, UploadDocument
  <2>2. /\ worker'[w].stage = s /\ worker'[w].item = worker[w].item
        /\ \A v \in Workers : v # w => worker'[v] = worker[v]
        /\ worker' \in [Workers -> [stage : Stages, item : 0..MaxNumber, ref : BOOLEAN]]
    BY <2>1, MoveFacts DEF FlowInv, Stages
  <2>3. UNCHANGED <<upstream, pool, cancelled, producer, page, delivered, queue, main, fetched,
                    anyItemFailed>>
    BY <1>3 DEF SkipAttachment, AttachmentFails, UploadDocument
  <2>4. \A n : Held(n) => Held(n)'
    BY <2>2 DEF Held
  <2>. QED
    BY <1>0, <2>2, <2>3, <2>4 DEF FlowInv, FlowTypes, Phases, Accounted, ExitReason,
              ReconcileSeesAll, Closed, Queued
<1>4. CASE StoreAttachment(w)
  <2>2. /\ worker'[w].stage = "upload" /\ worker'[w].item = worker[w].item
        /\ \A v \in Workers : v # w => worker'[v] = worker[v]
        /\ worker' \in [Workers -> [stage : Stages, item : 0..MaxNumber, ref : BOOLEAN]]
    BY <1>4 DEF StoreAttachment, FlowInv, FlowTypes, Stages
  <2>3. UNCHANGED <<upstream, pool, cancelled, producer, page, delivered, queue, main, fetched,
                    anyItemFailed>>
    BY <1>4 DEF StoreAttachment
  <2>4. \A n : Held(n) => Held(n)'
    BY <2>2 DEF Held
  <2>. QED
    BY <1>0, <2>2, <2>3, <2>4 DEF FlowInv, FlowTypes, Phases, Accounted, ExitReason,
              ReconcileSeesAll, Closed, Queued
<1>5. CASE AttachmentCancelled(w) \/ UploadFails(w)
  <2>1. /\ cancelled \/ anyItemFailed'
        /\ cancelled => UNCHANGED anyItemFailed
        /\ \E s \in {"idle", "exited"} : Move(w, s) /\ (s = "exited" => cancelled)
    BY <1>5 DEF AttachmentCancelled, UploadFails, ItemFails
  <2>2. /\ worker' \in [Workers -> [stage : Stages, item : 0..MaxNumber, ref : BOOLEAN]]
        /\ worker'[w].stage = "exited" => cancelled
        /\ \A v \in Workers : v # w => worker'[v] = worker[v]
    BY <2>1, MoveFacts DEF FlowInv, Stages
  <2>3. UNCHANGED <<upstream, pool, cancelled, producer, page, delivered, queue, main, fetched>>
    BY <1>5 DEF AttachmentCancelled, UploadFails
  <2>. QED
    BY <1>0, <2>1, <2>2, <2>3 DEF FlowInv, FlowTypes, Phases, Accounted, ExitReason,
              ReconcileSeesAll, Closed
<1>6. CASE RecordItem(w)
  <2>1. /\ worker'[w].stage = "idle"
        /\ \A v \in Workers : v # w => worker'[v] = worker[v]
        /\ worker' \in [Workers -> [stage : Stages, item : 0..MaxNumber, ref : BOOLEAN]]
    BY <1>6, MoveFacts DEF RecordItem, FlowInv, Stages
  <2>2. \A n : Held(n) => Held(n)' \/ n \in fetched'
    BY <1>6, <2>1 DEF RecordItem, Held
  <2>. QED
    BY <1>0, <1>6, <2>1, <2>2 DEF RecordItem, FlowInv, FlowTypes, Phases, Accounted, ExitReason,
              ReconcileSeesAll, Closed, Queued
<1>. QED
  BY <1>1, <1>2, <1>3, <1>4, <1>5, <1>6 DEF WorkerStep

LEMMA FlowStutter == FlowInv /\ UNCHANGED vars => FlowInv'
BY DEF FlowInv, vars, envVars, prodVars, mainVars, storeVars, FlowTypes, Phases, Accounted,
       ExitReason, ReconcileSeesAll, Closed, Queued, Held

LEMMA FlowInvariant == Spec => []FlowInv
<1>1. FlowInv /\ [Next]_vars => FlowInv'
  BY WorldFlow, ProducerFlow, MainFlow, WorkerFlow, FlowStutter DEF Next
<1>. QED
  BY <1>1, FlowInit, PTL DEF Spec

\* "A partial set must not drive deletes" (metadata.go:280-281): whatever failed,
\* was cancelled or crashed, a run that compares and deletes has stored and
\* recorded every item its listing delivered.
THEOREM ReconcileAfterAll == Spec => []ReconcileSeesAll
BY FlowInvariant, PTL DEF FlowInv

-----------------------------------------------------------------------------
(* The inductive invariant: what the store holds. *)

\* Recorded items are stored, and so is what their documents name.
Recorded ==
    main # "idle" => fetched \subseteq docs /\ fetched \cap docRef \subseteq blobs

\* What a worker has done for the item in its hands.
InHand ==
    \A w \in Workers :
        /\ worker[w].stage = "attach" => ~worker[w].ref
        /\ worker[w].stage \in {"upload", "record"} /\ worker[w].ref => worker[w].item \in blobs
        /\ worker[w].stage = "record" =>
            worker[w].item \in docs /\ (worker[w].item \in docRef => worker[w].item \in blobs)

\* Deletions come after the manifest, and spare what it lists.
Compared ==
    /\ main \in {"list", "delete"} => manifest = fetched
    /\ main = "delete" => toDelete \cap fetched = {}

StoreInv == Recorded /\ InHand /\ Compared /\ ManifestBacked

LEMMA StoreInit == Init => StoreInv
BY DEF Init, NoRun, StoreInv, Recorded, InHand, Compared, ManifestBacked, Idle

LEMMA WorldStore ==
    FlowInv /\ StoreInv /\ (Create \/ Remove \/ Cancel \/ Restart \/ StartRun) => StoreInv'
<1> USE DEF StoreInv, Recorded, InHand, Compared, ManifestBacked, storeVars
<1>1. ASSUME StoreInv, Create \/ Remove \/ Cancel PROVE StoreInv'
  BY <1>1 DEF Create, Remove, Cancel, prodVars, mainVars, envVars
<1>2. ASSUME StoreInv, Restart \/ StartRun PROVE StoreInv'
  BY <1>2 DEF Restart, StartRun, Idle
<1>. QED
  BY <1>1, <1>2

LEMMA ProducerStore == FlowInv /\ StoreInv /\ ProducerStep => StoreInv'
BY DEF StoreInv, Recorded, InHand, Compared, ManifestBacked, storeVars, mainVars,
       ProducerStep, FetchPage, FetchFails, Deliver, DeliverCancelled, EndPage

LEMMA MainStore == FlowInv /\ StoreInv /\ MainStep => StoreInv'
<1> SUFFICES ASSUME FlowInv, StoreInv, MainStep PROVE StoreInv'
    OBVIOUS
<1> USE DEF StoreInv, Recorded, InHand, Compared, ManifestBacked, storeVars
<1>1. CASE ReceiveProducerDone \/ WorkersDone
  BY <1>1 DEF ReceiveProducerDone, WorkersDone
<1>2. CASE UploadManifest \/ UploadManifestFails
  BY <1>2 DEF UploadManifest, UploadManifestFails
<1>3. CASE ListStored
  BY <1>3 DEF ListStored
<1>4. CASE DeleteStale
  <2>1. \A w \in Workers : worker[w].stage = "exited"
    BY <1>4 DEF DeleteStale, FlowInv, Phases
  <2>2. PICK goneDocs \in SUBSET toDelete, goneBlobs \in SUBSET toDelete :
            docs' = docs \ goneDocs /\ docRef' = docRef \ goneDocs /\ blobs' = blobs \ goneBlobs
    BY <1>4 DEF DeleteStale
  <2>3. manifest = fetched /\ toDelete \cap fetched = {}
    BY <1>4 DEF DeleteStale
  <2>. QED
    BY <1>4, <2>1, <2>2, <2>3 DEF DeleteStale
<1>. QED
  BY <1>1, <1>2, <1>3, <1>4 DEF MainStep

\* Workers only add to the store, and never a document before what it names.
LEMMA WorkerStore ==
    ASSUME FlowInv, StoreInv, NEW w \in Workers, WorkerStep(w) PROVE StoreInv'
<1> USE DEF StoreInv, Recorded, InHand, Compared, ManifestBacked, storeVars, mainVars
<1>0. main \in {"receive", "drain"} /\ FlowTypes
  BY DEF FlowInv, Phases, WorkerStep, TakeItem, ExitOnClosed, SkipAttachment, StoreAttachment,
         AttachmentFails, AttachmentCancelled, UploadDocument, UploadFails, RecordItem
<1>1. CASE TakeItem(w)
  BY <1>0, <1>1 DEF TakeItem, FlowTypes
<1>2. CASE ExitOnClosed(w)
  <2>1. /\ worker'[w].stage = "exited"
        /\ \A v \in Workers : v # w => worker'[v] = worker[v]
    BY <1>0, <1>2, MoveFacts DEF ExitOnClosed, Stages
  <2>. QED
    BY <1>0, <1>2, <2>1 DEF ExitOnClosed
<1>3. CASE SkipAttachment(w) \/ AttachmentFails(w)
  <2>1. /\ worker'[w].stage = "upload" /\ worker'[w].ref = worker[w].ref
        /\ \A v \in Workers : v # w => worker'[v] = worker[v]
        /\ ~worker[w].ref
    BY <1>0, <1>3, MoveFacts DEF SkipAttachment, AttachmentFails, Stages
  <2>2. blobs \subseteq blobs' /\ UNCHANGED <<docs, docRef, manifest, main, fetched>>
    BY <1>3 DEF SkipAttachment, AttachmentFails
  <2>. QED
    BY <1>0, <2>1, <2>2
<1>4. CASE StoreAttachment(w)
  <2>1. /\ worker'[w].stage = "upload" /\ worker'[w].item = worker[w].item
        /\ \A v \in Workers : v # w => worker'[v] = worker[v]
    BY <1>0, <1>4 DEF StoreAttachment, FlowTypes
  <2>2. /\ worker[w].item \in blobs' /\ blobs \subseteq blobs'
        /\ UNCHANGED <<docs, docRef, manifest, main, fetched>>
    BY <1>4 DEF StoreAttachment
  <2>. QED
    BY <1>0, <2>1, <2>2
<1>5. CASE AttachmentCancelled(w)
  <2>1. /\ worker'[w].stage \in {"idle", "exited"}
        /\ \A v \in Workers : v # w => worker'[v] = worker[v]
    BY <1>0, <1>5, MoveFacts DEF AttachmentCancelled, ItemFails, Stages
  <2>. QED
    BY <1>0, <1>5, <2>1 DEF AttachmentCancelled
<1>6. CASE UploadDocument(w) \/ UploadFails(w)
  <2>1. /\ UploadDocument(w) => worker'[w].stage = "record" /\ docs' = docs \cup {worker[w].item}
        /\ UploadFails(w) => worker'[w].stage \in {"idle", "exited"}
        /\ worker'[w].item = worker[w].item /\ worker'[w].ref = worker[w].ref
        /\ \A v \in Workers : v # w => worker'[v] = worker[v]
    BY <1>0, <1>6, MoveFacts DEF UploadDocument, UploadFails, ItemFails, PutDoc, Stages
  <2>2. /\ docs \subseteq docs'
        /\ \A n \in docRef' : n \in docRef \/ n \in blobs
        /\ UploadDocument(w) => (worker[w].item \in docRef' => worker[w].item \in blobs)
        /\ UNCHANGED <<blobs, manifest, main, fetched, toDelete>>
    BY <1>6 DEF UploadDocument, UploadFails, PutDoc
  <2>3. Recorded'
    BY <2>2
  <2>4. Compared' /\ ManifestBacked'
    BY <2>2
  <2>5. ASSUME NEW v \in Workers, v # w
        PROVE  /\ worker'[v].stage = "attach" => ~worker'[v].ref
               /\ worker'[v].stage \in {"upload", "record"} /\ worker'[v].ref =>
                      worker'[v].item \in blobs'
               /\ worker'[v].stage = "record" =>
                      /\ worker'[v].item \in docs'
                      /\ worker'[v].item \in docRef' => worker'[v].item \in blobs'
    BY <2>1, <2>2, <2>5
  <2>6. /\ worker'[w].stage = "attach" => ~worker'[w].ref
        /\ worker'[w].stage \in {"upload", "record"} /\ worker'[w].ref =>
               worker'[w].item \in blobs'
        /\ worker'[w].stage = "record" =>
               /\ worker'[w].item \in docs'
               /\ worker'[w].item \in docRef' => worker'[w].item \in blobs'
    <3>1. CASE UploadDocument(w)
      <4>1. worker[w].stage = "upload"
        BY <3>1 DEF UploadDocument
      <4>. QED
        BY <3>1, <4>1, <2>1, <2>2
    <3>2. CASE UploadFails(w)
      BY <3>2, <2>1
    <3>. QED
      BY <1>6, <3>1, <3>2
  <2>7. InHand'
    BY <2>5, <2>6
  <2>. QED
    BY <2>3, <2>4, <2>7
<1>7. CASE RecordItem(w)
  <2>1. /\ worker'[w].stage = "idle"
        /\ \A v \in Workers : v # w => worker'[v] = worker[v]
    BY <1>0, <1>7, MoveFacts DEF RecordItem, Stages
  <2>. QED
    BY <1>0, <1>7, <2>1 DEF RecordItem
<1>. QED
  BY <1>1, <1>2, <1>3, <1>4, <1>5, <1>6, <1>7 DEF WorkerStep

LEMMA StoreInvariant == Spec => []StoreInv
<1>1. StoreInv /\ UNCHANGED vars => StoreInv'
  BY DEF StoreInv, Recorded, InHand, Compared, ManifestBacked, vars, storeVars, mainVars
<1>2. FlowInv /\ StoreInv /\ [Next]_vars => StoreInv'
  BY <1>1, WorldStore, ProducerStore, MainStore, WorkerStore DEF Next
<1>. QED
  BY <1>2, FlowInvariant, StoreInit, PTL DEF Spec

\* At every moment, a crash included, each item of the stored manifest has its
\* document, and an attachment its document names is stored (metadata.go:274).
THEOREM ManifestAlwaysBacked == Spec => []ManifestBacked
BY StoreInvariant, PTL DEF StoreInv

-----------------------------------------------------------------------------
(* Pages: an item that is beyond a page fills it. *)

RankIn(S, n) == Cardinality({m \in S : m >= n})

LEMMA LeastNatural ==
    ASSUME NEW T \in SUBSET Nat, T # {}
    PROVE  \E m \in T : \A n \in T : m <= n
<1>. DEFINE R == OpToRel(<, Nat)
<1>1. IsWellFoundedOn(R, Nat)
  BY NatLessThanWellFounded
<1>2. \A m, n \in Nat : n < m => <<n, m>> \in R
  BY DEF OpToRel
<1>. HIDE DEF R
<1>3. PICK m \in T : \A n \in T : ~(<<n, m>> \in R)
  BY <1>1, WFMin
<1>4. \A n \in T : ~(n < m)
  BY <1>2, <1>3
<1>. QED
  BY <1>4

LEMMA Ranks ==
    ASSUME NEW S, S \subseteq Numbers
    PROVE  /\ IsFiniteSet(S)
           /\ \A n \in S : RankIn(S, n) \in Nat \ {0}
           /\ \A T : T \subseteq S => \A n \in T : RankIn(T, n) <= RankIn(S, n)
<1>. MaxNumber \in Nat
  BY CollectionAssumption
<1>1. IsFiniteSet(Numbers)
  BY FS_Interval DEF Numbers
<1>2. IsFiniteSet(S)
  BY <1>1, FS_Subset
<1>3. ASSUME NEW n \in S PROVE RankIn(S, n) \in Nat \ {0}
  <2>. DEFINE A == {m \in S : m >= n}
  <2>1. n \in A
    BY DEF Numbers
  <2>2. IsFiniteSet(A)
    BY <1>2, FS_Subset
  <2>. HIDE DEF A
  <2>3. Cardinality(A) \in Nat /\ Cardinality(A) # 0
    BY <2>1, <2>2, FS_CardinalityType, FS_EmptySet
  <2>. QED
    BY <2>3 DEF RankIn, A
<1>4. ASSUME NEW T, T \subseteq S, NEW n \in T PROVE RankIn(T, n) <= RankIn(S, n)
  <2>1. {m \in T : m >= n} \in SUBSET {m \in S : m >= n} /\ IsFiniteSet({m \in S : m >= n})
    BY <1>2, <1>4, FS_Subset
  <2>. QED
    BY <2>1, FS_Subset DEF RankIn
<1>. QED
  BY <1>2, <1>3, <1>4

\* Between the first rank and that of an item every rank is taken.
LEMMA RanksAreDense ==
    ASSUME NEW S, S \subseteq Numbers, NEW n \in S, NEW k \in 1..RankIn(S, n)
    PROVE  \E x \in S : RankIn(S, x) = k
<1>. MaxNumber \in Nat /\ S \subseteq Nat
  BY CollectionAssumption DEF Numbers
<1>1. IsFiniteSet(S) /\ \A x \in S : RankIn(S, x) \in Nat \ {0}
  BY Ranks
<1>. DEFINE above == {RankIn(S, x) : x \in {y \in S : RankIn(S, y) >= k}}
<1>2. above \in SUBSET Nat /\ above # {}
  BY <1>1
<1>3. PICK r \in above : \A s \in above : r <= s
  <2>. HIDE DEF above
  <2>. QED
    BY <1>2, LeastNatural
<1>4. PICK y \in S : RankIn(S, y) = r /\ r >= k
  BY <1>3
<1>5. ASSUME r > k PROVE FALSE
  <2>. DEFINE U == {m \in S : m >= y}
              T == U \ {y}
  <2>1. IsFiniteSet(U) /\ y \in U /\ Cardinality(U) = r
    BY <1>1, <1>4, FS_Subset DEF RankIn
  <2>2. IsFiniteSet(T) /\ Cardinality(T) = r - 1
    <3>. HIDE DEF U
    <3>. QED
      BY <2>1, FS_RemoveElement
  <2>3. T # {} /\ T \in SUBSET Nat
    <3>1. r - 1 # 0
      BY <1>1, <1>4, <1>5
    <3>. QED
      BY <2>2, <3>1, FS_EmptySet
  <2>4. PICK z \in T : \A m \in T : z <= m
    <3>. HIDE DEF T
    <3>. QED
      BY <2>3, LeastNatural
  <2>5. z \in S /\ T = {m \in S : m >= z}
    <3>1. z \in S /\ z > y
      BY <2>4
    <3>2. ASSUME NEW m \in T PROVE m \in S /\ m >= z
      BY <2>4, <3>2
    <3>3. ASSUME NEW m \in S, m >= z PROVE m \in T
      BY <3>1, <3>3
    <3>. QED
      BY <3>1, <3>2, <3>3
  <2>6. RankIn(S, z) = r - 1
    BY <2>2, <2>5 DEF RankIn
  <2>7. r - 1 \in above
    BY <1>1, <1>4, <1>5, <2>5, <2>6
  <2>. QED
    BY <1>1, <1>3, <1>4, <2>7
<1>. QED
  BY <1>1, <1>4, <1>5

LEMMA FullPage ==
    ASSUME NEW S, S \subseteq Numbers, NEW a \in Nat, NEW b \in Nat,
           NEW n \in S, RankIn(S, n) >= a + b
    PROVE  Cardinality({x \in S : a < RankIn(S, x) /\ RankIn(S, x) <= a + b}) >= b
<1>. DEFINE P == {x \in S : a < RankIn(S, x) /\ RankIn(S, x) <= a + b}
            I == (a + 1) .. (a + b)
            f == [k \in I |-> CHOOSE x \in S : RankIn(S, x) = k]
<1>1. IsFiniteSet(S) /\ RankIn(S, n) \in Nat
  BY Ranks
<1>2. ASSUME NEW k \in I PROVE f[k] \in S /\ RankIn(S, f[k]) = k
  <2>1. k \in 1 .. RankIn(S, n)
    BY <1>1
  <2>2. \E x \in S : RankIn(S, x) = k
    BY <2>1, RanksAreDense
  <2>. QED
    BY <2>2
<1>3. f \in [I -> P]
  BY <1>2
<1>4. f \in Injection(I, P)
  BY <1>2, <1>3, Zenon DEF Injection, IsInjective
<1>5. IsFiniteSet(P)
  BY <1>1, FS_Subset
<1>6. Cardinality(I) <= Cardinality(P) /\ Cardinality(I) = b
  <2>1. Cardinality(I) = b
    BY FS_Interval
  <2>. HIDE DEF f, I, P
  <2>. QED
    BY <1>4, <1>5, <2>1, FS_Injection
<1>. QED
  BY <1>6

-----------------------------------------------------------------------------
(* The inductive invariant: what the listing has shown so far. *)

\* What is in the channel or with a worker was delivered in this run.
Handed ==
    main # "idle" =>
        /\ \A i \in 1..Len(queue) : queue[i] \in delivered
        /\ \A w \in Workers :
            worker[w].stage \in {"attach", "upload", "record"} => worker[w].item \in delivered

\* Unless an item was removed, what is upstream and stored was delivered, is on the
\* page in hand, or comes on a later page; new items come before the pages to come.
Paged ==
    main # "idle" /\ ~shifted =>
        \A n \in upstream \cap docs :
            /\ producer = "fetch" => n \in delivered \/ Rank(n) > (pageNo - 1) * PageSize
            /\ producer = "deliver" =>
                   n \in delivered \cup page \/ (more /\ Rank(n) > pageNo * PageSize)
            /\ producer = "ok" => n \in delivered

ListInv ==
    /\ pageNo \in Nat \ {0} /\ docs \subseteq Numbers /\ delivered \subseteq Numbers
    /\ Handed /\ Paged

LEMMA RankIs == \A n : Rank(n) = RankIn(upstream, n)
BY DEF Rank, RankIn

LEMMA PageProducts ==
    ASSUME NEW p \in Nat \ {0}
    PROVE  /\ (p - 1) * PageSize \in Nat
           /\ p * PageSize = (p - 1) * PageSize + PageSize
           /\ ((p + 1) - 1) * PageSize = p * PageSize
<1>1. PageSize \in Nat /\ p - 1 \in Nat
  BY CollectionAssumption
<1>2. PICK q \in Nat : q = p - 1 /\ p = q + 1
  BY <1>1
<1>3. q * PageSize \in Nat /\ (q + 1) * PageSize = q * PageSize + PageSize
  BY <1>1, <1>2
<1>4. (p + 1) - 1 = p
  OBVIOUS
<1>. QED
  BY <1>2, <1>3, <1>4

LEMMA ListInit == Init => ListInv
<1>. SUFFICES ASSUME Init PROVE ListInv
  OBVIOUS
<1>1. pageNo \in Nat \ {0} /\ docs \subseteq Numbers /\ delivered \subseteq Numbers
  BY DEF Init, NoRun
<1>. QED
  BY <1>1 DEF Init, NoRun, ListInv, Handed, Paged

\* A page that leaves something over is full, so the listing goes on.
LEMMA FetchList == FlowInv /\ ListInv /\ FetchPage => ListInv'
<1>. SUFFICES ASSUME FlowInv, ListInv, FetchPage PROVE ListInv'
  OBVIOUS
<1>1. /\ producer = "fetch" /\ producer' = "deliver" /\ page' = OnPage(pageNo)
      /\ more' \in {Cardinality(OnPage(pageNo)) >= PageSize, AfterPage(pageNo) # {}}
      /\ UNCHANGED <<upstream, docs, shifted, main, pageNo, delivered, queue, worker>>
  BY DEF FetchPage, envVars, storeVars, mainVars
<1>2. PICK a \in Nat : /\ a = (pageNo - 1) * PageSize /\ pageNo * PageSize = a + PageSize
                       /\ PageSize \in Nat
  BY PageProducts, CollectionAssumption DEF ListInv
<1>3. OnPage(pageNo) = {x \in upstream : a < RankIn(upstream, x) /\ RankIn(upstream, x) <= a + PageSize}
  BY <1>2, RankIs DEF OnPage
<1>4. ASSUME NEW n \in upstream, RankIn(upstream, n) > a + PageSize PROVE more'
  <2>1. upstream \subseteq Numbers
    BY DEF FlowInv, FlowTypes
  <2>2. RankIn(upstream, n) \in Nat
    BY <2>1, Ranks
  <2>3. Cardinality(OnPage(pageNo)) >= PageSize
    <3>1. PICK S : S = upstream
      OBVIOUS
    <3>2. RankIn(S, n) >= a + PageSize
      BY <1>2, <1>4, <2>2, <3>1
    <3>3. Cardinality({x \in S : a < RankIn(S, x) /\ RankIn(S, x) <= a + PageSize}) >= PageSize
      <4>1. S \subseteq Numbers /\ a \in Nat /\ PageSize \in Nat /\ n \in S
        BY <1>2, <2>1, <3>1
      <4>. QED
        BY Zenon, <3>2, <4>1, FullPage
    <3>. QED
      BY <1>3, <3>1, <3>3
  <2>4. AfterPage(pageNo) # {}
    BY <1>2, <1>4, RankIs DEF AfterPage
  <2>. QED
    BY <1>1, <2>3, <2>4
<1>5. ASSUME main # "idle", ~shifted, NEW n \in upstream \cap docs
      PROVE  n \in delivered \cup page' \/ (more' /\ Rank(n) > pageNo * PageSize)
  <2>1. n \in delivered \/ RankIn(upstream, n) > a
    BY <1>1, <1>2, <1>5, RankIs DEF ListInv, Paged
  <2>2. RankIn(upstream, n) \in Nat
    BY Ranks DEF FlowInv, FlowTypes
  <2>. QED
    BY <1>1, <1>2, <1>3, <1>4, <2>1, <2>2, RankIs
<1>6. Paged'
  <2>1. \A n : Rank(n)' = Rank(n)
    BY <1>1 DEF Rank
  <2>. QED
    BY <1>1, <1>5, <2>1 DEF Paged
<1>7. Handed'
  BY <1>1 DEF ListInv, Handed
<1>. QED
  BY <1>1, <1>6, <1>7 DEF ListInv

\* A new item only pushes the others back.
LEMMA WorldList ==
    FlowInv /\ ListInv /\ (Create \/ Remove \/ Cancel \/ Restart \/ StartRun) => ListInv'
<1>. SUFFICES ASSUME FlowInv, ListInv, Create \/ Remove \/ Cancel \/ Restart \/ StartRun
              PROVE  ListInv'
  OBVIOUS
<1>1. CASE Create
  <2>1. PICK n \in Numbers : /\ \A m \in upstream \cup docs \cup delivered : m < n
                             /\ upstream' = upstream \cup {n}
    BY <1>1 DEF Create
  <2>2. n \notin docs
    <3>1. ~(n < n)
      BY DEF Numbers
    <3>. QED
      BY <2>1, <3>1
  <2>3. ASSUME NEW m \in upstream
        PROVE  Rank(m) \in Nat /\ Rank(m)' \in Nat /\ Rank(m) <= Rank(m)'
    <3>1. PICK S, T : S = upstream' /\ T = upstream
      OBVIOUS
    <3>2. S \subseteq Numbers /\ T \subseteq S /\ m \in T
      BY <2>1, <2>3, <3>1 DEF FlowInv, FlowTypes
    <3>3. RankIn(T, m) \in Nat /\ RankIn(S, m) \in Nat /\ RankIn(T, m) <= RankIn(S, m)
      <4>1. T \subseteq Numbers /\ m \in S
        BY <3>2
      <4>. QED
        BY <3>2, <4>1, Ranks
    <3>. QED
      BY <3>1, <3>3 DEF Rank, RankIn
  <2>4. /\ UNCHANGED <<shifted, docs, main, producer, pageNo, page, more, delivered, queue, worker>>
        /\ (pageNo - 1) * PageSize \in Nat /\ pageNo * PageSize \in Nat
    <3>1. (pageNo - 1) * PageSize \in Nat /\ pageNo * PageSize \in Nat
      BY PageProducts, CollectionAssumption DEF ListInv
    <3>. QED
      BY <1>1, <3>1 DEF Create, storeVars, prodVars, mainVars
  <2>5. ASSUME NEW m \in upstream' \cap docs', main # "idle", ~shifted
        PROVE  /\ producer = "fetch" => m \in delivered \/ Rank(m)' > (pageNo - 1) * PageSize
               /\ producer = "deliver" =>
                      m \in delivered \cup page \/ (more /\ Rank(m)' > pageNo * PageSize)
               /\ producer = "ok" => m \in delivered
    <3>1. m \in upstream \cap docs
      BY <2>1, <2>2, <2>4, <2>5
    <3>2. /\ producer = "fetch" => m \in delivered \/ Rank(m) > (pageNo - 1) * PageSize
          /\ producer = "deliver" =>
                 m \in delivered \cup page \/ (more /\ Rank(m) > pageNo * PageSize)
          /\ producer = "ok" => m \in delivered
      BY <2>5, <3>1 DEF ListInv, Paged
    <3>3. Rank(m) \in Nat /\ Rank(m)' \in Nat /\ Rank(m) <= Rank(m)'
      BY <2>3, <3>1
    <3>4. \A c \in Nat : Rank(m) > c => Rank(m)' > c
      BY <3>3
    <3>. QED
      BY <2>4, <3>2, <3>4
  <2>6. Paged'
    BY <2>4, <2>5 DEF Paged
  <2>. QED
    BY <2>4, <2>6 DEF ListInv, Handed
<1>2. CASE Remove
  BY <1>2 DEF Remove, ListInv, Handed, Paged, storeVars, prodVars, mainVars
<1>3. CASE Cancel
  BY <1>3 DEF Cancel, ListInv, Handed, Paged, Rank, storeVars, prodVars, mainVars, envVars
<1>4. CASE Restart
  BY <1>4 DEF Restart, ListInv, Handed, Paged, storeVars
<1>5. CASE StartRun
  <2>1. /\ producer' = "fetch" /\ pageNo' = 1 /\ queue' = <<>> /\ delivered' = {}
        /\ worker' = [w \in Workers |-> Idle(IF w \in pool THEN "idle" ELSE "exited")]
        /\ UNCHANGED <<upstream, docs>>
    BY <1>5 DEF StartRun, storeVars
  <2>2. Handed'
    BY <2>1 DEF Handed, Idle
  <2>3. ASSUME NEW n \in upstream PROVE Rank(n)' > (1 - 1) * PageSize
    <3>1. (1 - 1) * PageSize = 0
      BY CollectionAssumption
    <3>2. RankIn(upstream, n) \in Nat \ {0}
      BY Ranks DEF FlowInv, FlowTypes
    <3>3. Rank(n)' = RankIn(upstream, n)
      BY <2>1 DEF Rank, RankIn
    <3>. QED
      BY <3>1, <3>2, <3>3
  <2>4. Paged'
    BY <2>1, <2>3 DEF Paged
  <2>. QED
    BY <2>1, <2>2, <2>4 DEF ListInv
<1>. QED
  BY <1>1, <1>2, <1>3, <1>4, <1>5

LEMMA ProducerList == FlowInv /\ ListInv /\ ProducerStep => ListInv'
<1>. SUFFICES ASSUME FlowInv, ListInv, ProducerStep PROVE ListInv'
  OBVIOUS
<1>. USE DEF envVars, storeVars, mainVars
<1>1. CASE FetchPage
  BY <1>1, FetchList
<1>2. CASE FetchFails \/ DeliverCancelled
  BY <1>2 DEF FetchFails, DeliverCancelled, ListInv, Handed, Paged
<1>3. CASE Deliver
  <2>1. PICK n \in page : /\ queue' = Append(queue, n) /\ page' = page \ {n}
                          /\ delivered' = delivered \cup {n}
    BY <1>3 DEF Deliver
  <2>2. UNCHANGED <<upstream, docs, shifted, main, producer, pageNo, more, worker>>
    BY <1>3 DEF Deliver
  <2>3. /\ Len(queue) \in Nat /\ Len(queue') = Len(queue) + 1
        /\ queue'[Len(queue) + 1] = n
        /\ \A i \in 1..Len(queue) : queue'[i] = queue[i]
    BY <2>1, AppendFacts DEF FlowInv, FlowTypes
  <2>4. Handed'
    <3>1. ASSUME main # "idle", NEW i \in 1..Len(queue') PROVE queue'[i] \in delivered'
      <4>1. CASE i = Len(queue) + 1
        BY <2>1, <2>3, <4>1
      <4>2. CASE i \in 1..Len(queue)
        BY <2>1, <2>3, <3>1, <4>2 DEF ListInv, Handed
      <4>. QED
        BY <2>3, <4>1, <4>2
    <3>. QED
      BY <2>1, <2>2, <3>1 DEF ListInv, Handed
  <2>5. \A m : Rank(m)' = Rank(m)
    BY <2>2 DEF Rank
  <2>6. Paged'
    BY <2>1, <2>2, <2>5 DEF ListInv, Paged
  <2>. QED
    BY <2>1, <2>2, <2>4, <2>6 DEF ListInv, FlowInv, FlowTypes
<1>4. CASE EndPage
  <2>1. /\ producer = "deliver" /\ page = {}
        /\ UNCHANGED <<upstream, docs, shifted, main, delivered, queue, worker>>
        /\ \/ more /\ producer' = "fetch" /\ pageNo' = pageNo + 1
           \/ ~more /\ producer' = "ok" /\ pageNo' = pageNo
    BY <1>4 DEF EndPage
  <2>2. pageNo' \in Nat \ {0} /\ ((pageNo + 1) - 1) * PageSize = pageNo * PageSize
    BY <2>1, PageProducts DEF ListInv
  <2>3. \A m : Rank(m)' = Rank(m)
    BY <2>1 DEF Rank
  <2>4. Paged'
    <3>1. CASE more /\ producer' = "fetch" /\ pageNo' = pageNo + 1
      BY <2>1, <2>2, <2>3, <3>1 DEF ListInv, Paged
    <3>2. CASE ~more /\ producer' = "ok" /\ pageNo' = pageNo
      BY <2>1, <2>3, <3>2 DEF ListInv, Paged
    <3>. QED
      BY <2>1, <3>1, <3>2
  <2>. QED
    BY <2>1, <2>2, <2>4 DEF ListInv, Handed
<1>. QED
  BY <1>1, <1>2, <1>3, <1>4 DEF ProducerStep

\* A worker stores only what was delivered, and takes only what is queued.
LEMMA WorkerList == ASSUME FlowInv, ListInv, NEW w \in Workers, WorkerStep(w) PROVE ListInv'
<1>. USE DEF envVars, prodVars, mainVars, storeVars
<1>1. /\ UNCHANGED <<upstream, shifted, main, producer, pageNo, page, more, delivered>>
      /\ main # "idle"
  BY DEF FlowInv, Phases, WorkerStep, TakeItem, ExitOnClosed, SkipAttachment, StoreAttachment,
         AttachmentFails, AttachmentCancelled, UploadDocument, UploadFails, RecordItem
<1>2. docs' \subseteq docs \cup delivered
  <2>1. CASE UploadDocument(w) \/ UploadFails(w)
    BY <1>1, <2>1 DEF UploadDocument, UploadFails, PutDoc, ListInv, Handed
  <2>2. CASE ~(UploadDocument(w) \/ UploadFails(w))
    BY <2>2 DEF WorkerStep, TakeItem, ExitOnClosed, SkipAttachment, StoreAttachment,
         AttachmentFails, AttachmentCancelled, RecordItem
  <2>. QED
    BY <2>1, <2>2
<1>3. Paged'
  <2>1. \A m : Rank(m)' = Rank(m)
    BY <1>1 DEF Rank
  <2>. QED
    BY <1>1, <1>2, <2>1 DEF ListInv, Paged
<1>4. Handed'
  <2>1. CASE TakeItem(w)
    <3>1. /\ 1 \in 1..Len(queue) /\ Head(queue) = queue[1]
          /\ Tail(queue) = queue' /\ queue \in Seq(Numbers) /\ queue # <<>>
      BY <2>1, TailFacts DEF TakeItem, FlowInv, FlowTypes
    <3>2. \A i \in 1..Len(queue') : queue'[i] \in delivered
      <4>1. \A i \in 1..Len(queue') : i + 1 \in 1..Len(queue) /\ queue'[i] = queue[i + 1]
        BY <3>1
      <4>. QED
        BY <1>1, <4>1 DEF ListInv, Handed
    <3>3. /\ worker'[w] = [stage |-> "attach", item |-> Head(queue), ref |-> FALSE]
          /\ \A v \in Workers : v # w => worker'[v] = worker[v]
      BY <2>1 DEF TakeItem, FlowInv, FlowTypes
    <3>4. worker'[w].item \in delivered
      BY <1>1, <3>1, <3>3 DEF ListInv, Handed
    <3>. QED
      BY <1>1, <3>2, <3>3, <3>4 DEF ListInv, Handed
  <2>2. CASE ~TakeItem(w)
    <3>1. /\ queue' = queue
          /\ \A v \in Workers : v # w => worker'[v] = worker[v]
          /\ worker'[w].item = worker[w].item
          /\ worker[w].stage \in {"idle", "exited"} => worker'[w].stage = "exited"
      <4>1. CASE StoreAttachment(w)
        BY <4>1 DEF StoreAttachment, FlowInv, FlowTypes
      <4>2. CASE ~StoreAttachment(w)
        <5>1. PICK s \in Stages : /\ Move(w, s) /\ queue' = queue
                                  /\ worker[w].stage \in {"idle", "exited"} => s = "exited"
          BY <2>2, <4>2 DEF WorkerStep, ExitOnClosed, SkipAttachment, AttachmentFails,
             AttachmentCancelled, UploadDocument, UploadFails, RecordItem, ItemFails, Stages
        <5>. QED
          BY <5>1, MoveFacts DEF FlowInv
      <4>. QED
        BY <4>1, <4>2
    <3>. QED
      BY <1>1, <3>1 DEF ListInv, Handed, FlowInv, FlowTypes, Stages
  <2>. QED
    BY <2>1, <2>2
<1>. QED
  BY <1>1, <1>2, <1>3, <1>4 DEF ListInv

LEMMA MainList == FlowInv /\ ListInv /\ MainStep => ListInv'
<1>. SUFFICES ASSUME FlowInv, ListInv, MainStep PROVE ListInv'
  OBVIOUS
<1>1. /\ UNCHANGED <<upstream, shifted, producer, pageNo, page, more, delivered, queue, worker>>
      /\ main # "idle" /\ docs' \subseteq docs
  BY DEF MainStep, ReceiveProducerDone, WorkersDone, UploadManifest, UploadManifestFails,
         ListStored, DeleteStale, envVars, prodVars, storeVars
<1>2. \A m : Rank(m)' = Rank(m)
  BY <1>1 DEF Rank
<1>3. Paged'
  BY <1>1, <1>2 DEF ListInv, Paged
<1>4. Handed'
  BY <1>1 DEF ListInv, Handed
<1>. QED
  BY <1>1, <1>3, <1>4 DEF ListInv

LEMMA StutterList == ListInv /\ UNCHANGED vars => ListInv'
BY DEF ListInv, Handed, Paged, Rank, vars, envVars, prodVars, storeVars, mainVars

\* Documents go only in the comparison, which has seen every item.
LEMMA OnlyGone ==
    FlowInv /\ StoreInv /\ ListInv /\ [Next]_vars =>
        ((\E n \in docs \ docs' : n \in upstream) => shifted)
<1>. SUFFICES ASSUME FlowInv, StoreInv, ListInv, [Next]_vars,
                     NEW n \in docs \ docs', n \in upstream
              PROVE  shifted
  OBVIOUS
<1>1. CASE DeleteStale
  <2>1. n \in toDelete /\ main = "delete"
    BY <1>1 DEF DeleteStale
  <2>2. ~shifted => n \in delivered
    BY <2>1 DEF FlowInv, Phases, ListInv, Paged
  <2>3. delivered \subseteq fetched /\ toDelete \cap fetched = {}
    BY <2>1 DEF FlowInv, ReconcileSeesAll, StoreInv, Compared
  <2>. QED
    BY <2>1, <2>2, <2>3
<1>2. CASE ~DeleteStale
  <2>. USE DEF storeVars
  <2>1. CASE Create \/ Remove \/ Cancel \/ Restart \/ StartRun
    BY <2>1 DEF Create, Remove, Cancel, Restart, StartRun
  <2>2. CASE ProducerStep
    BY <2>2 DEF ProducerStep, FetchPage, FetchFails, Deliver, DeliverCancelled, EndPage
  <2>3. ASSUME NEW w \in Workers, WorkerStep(w) PROVE FALSE
    BY <2>3 DEF WorkerStep, TakeItem, ExitOnClosed, SkipAttachment, StoreAttachment,
       AttachmentFails, AttachmentCancelled, UploadDocument, UploadFails, RecordItem, PutDoc
  <2>4. CASE MainStep
    BY <1>2, <2>4 DEF MainStep, ReceiveProducerDone, WorkersDone, UploadManifest,
       UploadManifestFails, ListStored
  <2>5. CASE UNCHANGED vars
    BY <2>5 DEF vars
  <2>. QED
    BY <2>1, <2>2, <2>3, <2>4, <2>5 DEF Next
<1>. QED
  BY <1>1, <1>2

\* A document is deleted only when its item is gone from the forge (README.md:276), as
\* long as items are only added while a run lists them: whatever else happens, to the
\* workers, the requests, the process, and however pages shift.
THEOREM OnlyGoneDeleted == Spec => NoLiveDeleted
<1>1. FlowInv /\ StoreInv /\ ListInv /\ [Next]_vars => ListInv'
  BY WorldList, ProducerList, WorkerList, MainList, StutterList DEF Next
<1>2. FlowInv /\ StoreInv /\ ListInv /\ [Next]_vars =>
          [(\E n \in docs \ docs' : n \in upstream) => shifted]_vars
  BY OnlyGone
<1>. QED
  BY <1>1, <1>2, FlowInvariant, StoreInvariant, ListInit, PTL DEF Spec, NoLiveDeleted

-----------------------------------------------------------------------------
(* No run is stuck. *)

\* The guards of the producer's steps, of a worker's and of main's.
ProducerReady ==
    \/ producer = "fetch"
    \/ /\ producer = "deliver"
       /\ \/ page = {}
          \/ cancelled
          \/ Len(queue) < Cardinality(pool) /\ \E n \in page : \A m \in page : m <= n

WorkerReady(w) ==
    \/ worker[w].stage \in {"attach", "upload", "record"}
    \/ worker[w].stage = "idle" /\ (queue # <<>> \/ Closed)

MainReady ==
    \/ main = "receive" /\ producer \in {"ok", "failed"}
    \/ main = "drain" /\ \A w \in Workers : worker[w].stage = "exited"
    \/ main \in {"manifest", "list", "delete"}

SomeoneReady == ProducerReady \/ MainReady \/ \E w \in Workers : WorkerReady(w)

\* The items of a page have a newest one.
LEMMA NewestOnPage ==
    ASSUME NEW P, P \subseteq Numbers, P # {}
    PROVE  \E n \in P : \A m \in P : m <= n
<1>. MaxNumber \in Nat
  BY CollectionAssumption
<1>. DEFINE below == {MaxNumber - n : n \in P}
<1>1. below \in SUBSET Nat /\ below # {}
  BY DEF Numbers
<1>2. PICK d \in below : \A e \in below : d <= e
  <2>. HIDE DEF below
  <2>. QED
    BY <1>1, LeastNatural
<1>3. PICK n \in P : d = MaxNumber - n
  BY <1>2
<1>4. ASSUME NEW m \in P PROVE m <= n
  <2>1. d <= MaxNumber - m /\ m \in Nat /\ n \in Nat
    BY <1>2, <1>4 DEF Numbers
  <2>. QED
    BY <1>3, <2>1
<1>. QED
  BY <1>4

LEMMA ProducerTyped == Spec => [](producer \in {"fetch", "deliver", "ok", "failed"})
<1>. DEFINE P == producer \in {"fetch", "deliver", "ok", "failed"}
<1>1. Init => P
  BY DEF Init, NoRun
<1>2. P /\ [Next]_vars => P'
  <2>. SUFFICES ASSUME P, [Next]_vars PROVE P'
    OBVIOUS
  <2>. USE DEF prodVars
  <2>1. CASE Create \/ Remove \/ Cancel \/ Restart \/ StartRun
    BY <2>1 DEF Create, Remove, Cancel, Restart, StartRun
  <2>2. CASE ProducerStep
    BY <2>2 DEF ProducerStep, FetchPage, FetchFails, Deliver, DeliverCancelled, EndPage
  <2>3. ASSUME NEW w \in Workers, WorkerStep(w) PROVE P'
    BY <2>3 DEF WorkerStep, TakeItem, ExitOnClosed, SkipAttachment, StoreAttachment,
       AttachmentFails, AttachmentCancelled, UploadDocument, UploadFails, RecordItem
  <2>4. CASE MainStep
    BY <2>4 DEF MainStep, ReceiveProducerDone, WorkersDone, UploadManifest,
       UploadManifestFails, ListStored, DeleteStale
  <2>5. CASE UNCHANGED vars
    BY <2>5 DEF vars
  <2>. QED
    BY <2>1, <2>2, <2>3, <2>4, <2>5 DEF Next
<1>. QED
  BY <1>1, <1>2, PTL DEF Spec

LEMMA FlowGoesOn ==
    ASSUME FlowInv, producer \in {"fetch", "deliver", "ok", "failed"}, main # "idle"
    PROVE  SomeoneReady
<1>1. CASE main \in {"manifest", "list", "delete"}
  BY <1>1 DEF SomeoneReady, MainReady
<1>2. CASE main = "drain"
  <2>1. CASE \A w \in Workers : worker[w].stage = "exited"
    BY <1>2, <2>1 DEF SomeoneReady, MainReady
  <2>2. CASE \E w \in Workers : worker[w].stage # "exited"
    <3>1. PICK w \in Workers : worker[w].stage \in Stages \ {"exited"}
      BY <2>2 DEF FlowInv, FlowTypes
    <3>2. WorkerReady(w)
      BY <1>2, <3>1 DEF WorkerReady, Stages, Closed
    <3>. QED
      BY <3>2 DEF SomeoneReady
  <2>. QED
    BY <2>1, <2>2
<1>3. CASE main = "receive" /\ producer \in {"ok", "failed", "fetch"}
  BY <1>3 DEF SomeoneReady, MainReady, ProducerReady
<1>4. CASE main = "receive" /\ producer = "deliver"
  <2>1. CASE page = {} \/ cancelled
    BY <1>4, <2>1 DEF SomeoneReady, ProducerReady
  <2>2. CASE page # {} /\ Len(queue) < Cardinality(pool)
    <3>1. \E n \in page : \A m \in page : m <= n
      BY <2>2, NewestOnPage DEF FlowInv, FlowTypes
    <3>. QED
      BY <1>4, <2>2, <3>1 DEF SomeoneReady, ProducerReady
  \* The channel is full, and no worker of the pool has left.
  <2>3. CASE ~cancelled /\ ~(Len(queue) < Cardinality(pool))
    <3>1. PICK w \in pool : w \in Workers
      BY DEF FlowInv, FlowTypes
    <3>2. worker[w].stage \in Stages \ {"exited"}
      BY <1>4, <2>3, <3>1 DEF FlowInv, FlowTypes, ExitReason, Closed
    <3>3. queue # <<>>
      <4>1. IsFiniteSet(pool) /\ Cardinality(pool) \in Nat /\ Cardinality(pool) # 0
        BY CollectionAssumption, FS_Subset, FS_CardinalityType, FS_EmptySet DEF FlowInv, FlowTypes
      <4>2. Len(queue) \in Nat /\ (queue = <<>> => Len(queue) = 0)
        BY DEF FlowInv, FlowTypes
      <4>. QED
        BY <2>3, <4>1, <4>2
    <3>4. WorkerReady(w)
      BY <3>2, <3>3 DEF WorkerReady, Stages
    <3>. QED
      BY <3>1, <3>4 DEF SomeoneReady
  <2>. QED
    BY <2>1, <2>2, <2>3
<1>. QED
  BY <1>1, <1>2, <1>3, <1>4 DEF FlowInv, Phases

\* No run is stuck, with any number of workers and whenever it is cancelled: one of its
\* goroutines can always go on (metadata.go).  A full channel has a worker to empty it,
\* since none leaves before the channel is closed unless ctx is cancelled, and then the
\* send gives up.
THEOREM RunsGoOn == Spec => [](main # "idle" => SomeoneReady)
BY FlowInvariant, ProducerTyped, FlowGoesOn, PTL
=============================================================================
