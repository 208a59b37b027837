--------------------------- MODULE MultipartUpload ---------------------------
(***************************************************************************)
(* The streamed archive upload of internal/store/upload.go:                *)
(* UploadDirectoryAsTarGz, multipartUpload, produceParts and               *)
(* abortMultipart.                                                         *)
(*                                                                         *)
(* A writer goroutine (writeTarGz) writes the archive into a pipe; the     *)
(* calling goroutine reads it part by part into a bounded channel; workers *)
(* upload the parts; the caller then completes the upload or aborts it.    *)
(* An attachment stream (UploadStream) takes the same path with the body   *)
(* of a response in the place of the pipe.                                 *)
(*                                                                         *)
(* A part is its number.  The pipe is synchronous, so that reading a part  *)
(* is one step of reader and writer.  A request that reports an error may  *)
(* have taken effect.  Killing the process adds no state to the store that *)
(* is not one of those below.                                              *)
(***************************************************************************)
EXTENDS Naturals, FiniteSets, Sequences

CONSTANTS Workers,   \* the part uploaders: multipartParallelParts of them
          MaxParts   \* bound: parts in the stream

ASSUME MultipartAssumption ==
    /\ IsFiniteSet(Workers)
    /\ Cardinality(Workers) >= 2
    /\ MaxParts \in Nat

VARIABLES
    caller,      \* where the calling goroutine is
    cancelled,   \* ctx
    writer,      \* the archive: "writing", "ended" cleanly or "failed"
    number,      \* parts read so far
    readErr,     \* what the last read ended with: "none", "eof" or "error"
    produceErr,  \* produceParts returned an error
    queue,       \* the channel of jobs
    job,         \* what each worker is doing: "idle", "exited" or a part
    results,     \* state.results: parts known to be uploaded
    firstErr,    \* state.firstErr is set, state.done is closed
    upload,      \* in the store: "none", "open", "completed" or "aborted"
    content,     \* the parts of the stored object
    uploadErr,   \* multipartUpload returned an error
    result       \* of the call

callerVars == <<caller, number, readErr, produceErr, uploadErr, result>>
workVars   == <<queue, job, results, firstErr>>
storeVars  == <<upload, content>>
vars == <<callerVars, cancelled, writer, workVars, storeVars>>

Idle   == [state |-> "idle", part |-> 0]
Exited == [state |-> "exited", part |-> 0]
Uploading(n) == [state |-> "uploading", part |-> n]

Init ==
    /\ caller = "create"
    /\ cancelled = FALSE
    /\ writer = "writing"
    /\ number = 0 /\ readErr = "none" /\ produceErr = FALSE
    /\ queue = <<>> /\ job = [w \in Workers |-> Exited]
    /\ results = {} /\ firstErr = FALSE
    /\ upload = "none" /\ content = {}
    /\ uploadErr = FALSE /\ result = "none"

Cancel ==
    /\ result = "none"
    /\ ~cancelled
    /\ cancelled' = TRUE
    /\ UNCHANGED <<callerVars, writer, workVars, storeVars>>

-----------------------------------------------------------------------------
(* multipartUpload starts. *)

Create ==
    /\ caller = "create"
    /\ ~cancelled
    /\ upload' = "open"
    /\ job' = [w \in Workers |-> Idle]
    /\ caller' = "read"
    /\ UNCHANGED <<number, readErr, produceErr, uploadErr, result, cancelled, writer, queue,
                   results, firstErr, content>>

\* The request may have opened an upload whose id is then unknown.
CreateFails ==
    /\ caller = "create"
    /\ uploadErr' = TRUE
    /\ caller' = "close"
    /\ UNCHANGED <<number, readErr, produceErr, result, cancelled, writer, workVars, storeVars>>

-----------------------------------------------------------------------------
(* produceParts. *)

\* A part was read; the stream goes on, or ended with this part, or broke in it.
ReadPart ==
    /\ caller = "read"
    /\ writer = "writing"
    /\ number < MaxParts
    /\ number' = number + 1
    /\ \/ readErr' = "none" /\ UNCHANGED writer
       \/ readErr' = "eof" /\ writer' = "ended"
       \/ readErr' = "error" /\ writer' = "failed"
    /\ caller' = "send"
    /\ UNCHANGED <<produceErr, uploadErr, result, cancelled, workVars, storeVars>>

\* Nothing more was read: the end of the stream, or an error.
ReadEnd ==
    /\ caller = "read"
    /\ writer = "writing"
    /\ writer' \in {"ended", "failed"}
    /\ produceErr' = (writer' = "failed")
    /\ caller' = "wait"
    /\ UNCHANGED <<number, readErr, uploadErr, result, cancelled, workVars, storeVars>>

\* Mutant: the channel holds one more.
RoomForAll == Len(queue) < Cardinality(Workers)

\* The jobs channel has a buffer of multipartParallelParts - 1.
Room == Len(queue) < Cardinality(Workers) - 1

\* Mutant: any error of the last read is taken for its end.
SendIgnoringError ==
    /\ caller = "send"
    /\ Room
    /\ queue' = Append(queue, number)
    /\ caller' = IF readErr = "none" THEN "read" ELSE "wait"
    /\ produceErr' = FALSE
    /\ UNCHANGED <<number, readErr, uploadErr, result, cancelled, writer, job, results,
                   firstErr, storeVars>>

Send ==
    /\ caller = "send"
    /\ Room
    /\ queue' = Append(queue, number)
    /\ caller' = IF readErr = "none" THEN "read" ELSE "wait"
    /\ produceErr' = (readErr = "error")
    /\ UNCHANGED <<number, readErr, uploadErr, result, cancelled, writer, job, results,
                   firstErr, storeVars>>

\* Mutant: the producer watches ctx, not the workers' failure.
AbandonOnCancel ==
    /\ caller = "send"
    /\ cancelled
    /\ produceErr' = TRUE
    /\ caller' = "wait"
    /\ UNCHANGED <<number, readErr, uploadErr, result, cancelled, writer, workVars, storeVars>>

\* case <-state.done, case <-ctx.Done().
AbandonSend ==
    /\ caller = "send"
    /\ firstErr \/ cancelled
    /\ produceErr' = TRUE
    /\ caller' = "wait"
    /\ UNCHANGED <<number, readErr, uploadErr, result, cancelled, writer, workVars, storeVars>>

-----------------------------------------------------------------------------
(* The workers. *)

\* The caller has closed the channel.
Closed == caller \notin {"create", "read", "send"}

TakeJob(w) ==
    /\ job[w] = Idle
    /\ queue # <<>>
    /\ job' = [job EXCEPT ![w] = Uploading(Head(queue))]
    /\ queue' = Tail(queue)
    /\ UNCHANGED <<callerVars, cancelled, writer, results, firstErr, storeVars>>

ExitOnClosed(w) ==
    /\ job[w] = Idle
    /\ queue = <<>>
    /\ Closed
    /\ job' = [job EXCEPT ![w] = Exited]
    /\ UNCHANGED <<callerVars, cancelled, writer, queue, results, firstErr, storeVars>>

UploadPart(w) ==
    /\ job[w].state = "uploading"
    /\ ~cancelled
    /\ results' = results \cup {job[w].part}
    /\ job' = [job EXCEPT ![w] = Idle]
    /\ UNCHANGED <<callerVars, cancelled, writer, queue, firstErr, storeVars>>

UploadPartFails(w) ==
    /\ job[w].state = "uploading"
    /\ firstErr' = TRUE
    /\ job' = [job EXCEPT ![w] = Exited]
    /\ UNCHANGED <<callerVars, cancelled, writer, queue, results, storeVars>>

-----------------------------------------------------------------------------
(* The rest of multipartUpload, then of UploadDirectoryAsTarGz. *)

AllExited == \A w \in Workers : job[w] = Exited

WaitForWorkers ==
    /\ caller = "wait"
    /\ AllExited
    /\ caller' = IF firstErr \/ produceErr THEN "abort" ELSE "complete"
    /\ UNCHANGED <<number, readErr, produceErr, uploadErr, result, cancelled, writer, workVars,
                   storeVars>>

\* The store refuses to complete an upload without parts.
Complete ==
    /\ caller = "complete"
    /\ ~cancelled
    /\ results # {}
    /\ upload' = "completed" /\ content' = results
    /\ caller' = "close"
    /\ UNCHANGED <<number, readErr, produceErr, uploadErr, result, cancelled, writer, workVars>>

CompleteFails ==
    /\ caller = "complete"
    /\ \/ UNCHANGED storeVars
       \/ results # {} /\ upload' = "completed" /\ content' = results
    /\ caller' = "abort"
    /\ UNCHANGED <<number, readErr, produceErr, uploadErr, result, cancelled, writer, workVars>>

\* abortMultipart: under a context of its own; an abort that fails is logged.
Abort ==
    /\ caller = "abort"
    /\ upload' \in {upload, IF upload = "open" THEN "aborted" ELSE upload}
    /\ uploadErr' = TRUE
    /\ caller' = "close"
    /\ UNCHANGED <<number, readErr, produceErr, result, cancelled, writer, workVars, content>>

\* pipeReader.Close: a writer that is still writing fails.
ClosePipe ==
    /\ caller = "close"
    /\ writer = "writing"
    /\ writer' = "failed"
    /\ UNCHANGED <<callerVars, cancelled, workVars, storeVars>>

\* <-produceDone.
Return ==
    /\ caller = "close"
    /\ writer # "writing"
    /\ result' = IF uploadErr \/ writer = "failed" THEN "error" ELSE "ok"
    /\ caller' = "returned"
    /\ UNCHANGED <<number, readErr, produceErr, uploadErr, cancelled, writer, workVars, storeVars>>

-----------------------------------------------------------------------------
CallerStep ==
    \/ Create \/ CreateFails
    \/ ReadPart \/ ReadEnd \/ Send \/ AbandonSend
    \/ WaitForWorkers \/ Complete \/ CompleteFails \/ Abort \/ ClosePipe \/ Return

WorkerStep(w) == TakeJob(w) \/ ExitOnClosed(w) \/ UploadPart(w) \/ UploadPartFails(w)

Next == Cancel \/ CallerStep \/ \E w \in Workers : WorkerStep(w)

Spec == Init /\ [][Next]_vars

\* The goroutines are scheduled, the archive is finite, and every request ends.
Fairness == WF_vars(CallerStep) /\ \A w \in Workers : WF_vars(WorkerStep(w))

FairSpec == Spec /\ Fairness

-----------------------------------------------------------------------------
Parts == 1..MaxParts

TypeOK ==
    /\ caller \in {"create", "read", "send", "wait", "complete", "abort", "close", "returned"}
    /\ cancelled \in BOOLEAN
    /\ writer \in {"writing", "ended", "failed"}
    /\ number \in 0..MaxParts
    /\ readErr \in {"none", "eof", "error"} /\ produceErr \in BOOLEAN
    /\ queue \in Seq(Parts)
    /\ \A i \in 1..Len(queue) : ~\E w \in Workers : job[w] = Uploading(queue[i])
    /\ job \in [Workers -> {Idle, Exited} \cup {Uploading(n) : n \in Parts}]
    /\ results \subseteq Parts /\ firstErr \in BOOLEAN
    /\ upload \in {"none", "open", "completed", "aborted"} /\ content \subseteq Parts
    /\ uploadErr \in BOOLEAN /\ result \in {"none", "ok", "error"}

\* "Completing the upload would store truncated data" (upload.go:405-406): an
\* object that becomes visible holds every part of a stream that ended cleanly.
Whole == content = 1..number /\ writer = "ended"
StoredWhole == upload = "completed" => Whole

\* Success means that the object is stored as a whole; nothing less is ever
\* stored; and a call returns once (the promise of module AtomicUpload).
AU == INSTANCE AtomicUpload WITH
    object <- IF upload # "completed" THEN "absent" ELSE IF Whole THEN "whole" ELSE "truncated"
ImplementsAtomicUpload == AU!Spec

\* Part buffers in use: the one being read into or waiting to be sent, those in
\* the channel, those being uploaded.
Buffers ==
    (IF caller \in {"read", "send"} THEN 1 ELSE 0)
        + Len(queue) + Cardinality({w \in Workers : job[w].state = "uploading"})

\* The read-ahead is bounded by the workers, the channel and the reader: for the
\* two workers of the code one buffer more than the peak of "partSize x
\* (parallelism + 1)" that upload.go:298-299 states.
ReadAheadBounded == Buffers <= 2 * Cardinality(Workers)

\* The call returns, with the writer goroutine gone, whatever fails.
Returns == <>(caller = "returned" /\ writer # "writing")
=============================================================================
