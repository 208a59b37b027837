------------------------ MODULE MultipartUpload_proofs ------------------------
(***************************************************************************)
(* Theorems about the multipart upload, for any number of workers and any  *)
(* length of the stream: a visible object is whole, and the upload         *)
(* implements AtomicUpload.                                                *)
(***************************************************************************)
EXTENDS MultipartUpload, FiniteSetTheorems, TLAPS

-----------------------------------------------------------------------------
(* The inductive invariant. *)

Queued(n)    == \E i \in 1..Len(queue) : queue[i] = n
InWorker(n)  == \E w \in Workers : job[w] = Uploading(n)

\* What is read is somewhere: uploaded, on its way, or given up with an error.
Accounted ==
    \A n \in 1..number :
        \/ n \in results \/ Queued(n) \/ InWorker(n)
        \/ firstErr \/ produceErr
        \/ caller = "send" /\ n = number

\* Only parts that were read are uploaded.
OnlyRead ==
    /\ results \subseteq 1..number
    /\ \A i \in 1..Len(queue) : queue[i] \in 1..number
    /\ \A w \in Workers : job[w].state = "uploading" => job[w].part \in 1..number

\* Parts are queued in order, each once, and the one in hand has not been sent.
InOrder ==
    /\ \A i, k \in 1..Len(queue) : i < k => queue[i] < queue[k]
    /\ caller = "send" =>
        /\ number > 0
        /\ \A i \in 1..Len(queue) : queue[i] < number
        /\ \A w \in Workers : job[w] # Uploading(number)
    /\ caller = "create" => queue = <<>> /\ \A w \in Workers : job[w] = Exited

\* A worker leaves because it failed, or because nothing is left to do.
ExitReason ==
    \A w \in Workers :
        job[w] = Exited => caller = "create" \/ firstErr \/ (queue = <<>> /\ Closed)

\* What the writer did is what the reader saw of it.
StreamSeen ==
    /\ caller \in {"create", "read", "send"} => ~produceErr
    /\ caller \in {"create", "read"} => writer = "writing"
    /\ caller = "send" => /\ readErr = "none" => writer = "writing"
                          /\ readErr = "eof" => writer = "ended"
    /\ caller = "wait" /\ ~produceErr => writer = "ended"

\* Up to the end of the workers nothing is completed; then everything is there.
Completion ==
    /\ caller \in {"create", "read", "send", "wait", "complete"} =>
        upload # "completed" /\ ~uploadErr
    /\ caller = "complete" => results = 1..number /\ writer = "ended"
    /\ caller = "close" /\ ~uploadErr => upload = "completed"
    /\ caller # "returned" => result = "none"
    /\ caller = "returned" => result # "none"

Inv == /\ TypeOK /\ Accounted /\ OnlyRead /\ InOrder /\ ExitReason
       /\ StreamSeen /\ Completion /\ StoredWhole

\* The three shapes of a worker's job are different.
LEMMA Shapes ==
    /\ Idle # Exited
    /\ \A n : Uploading(n) # Idle /\ Uploading(n) # Exited
    /\ \A m, n : Uploading(m) = Uploading(n) => m = n
    /\ \A n : Uploading(n).state = "uploading" /\ Uploading(n).part = n
    /\ Idle.state # "uploading" /\ Exited.state # "uploading"
BY DEF Idle, Exited, Uploading


-----------------------------------------------------------------------------
\* There is a worker, without the cardinality that says so.
LEMMA Parameters == MaxParts \in Nat /\ Workers # {}
BY MultipartAssumption, FS_EmptySet

\* What taking the head off the channel leaves.
LEMMA TailFacts ==
    ASSUME NEW S, NEW q \in Seq(S), q # <<>>
    PROVE  /\ 1 \in 1..Len(q) /\ Head(q) = q[1] /\ q[1] \in S
           /\ Tail(q) \in Seq(S)
           /\ \A i \in 1..Len(Tail(q)) :
                i + 1 \in 1..Len(q) /\ 1 < i + 1 /\ Tail(q)[i] = q[i + 1]
           /\ \A k \in 1..Len(q) : k = 1 \/ \E i \in 1..Len(Tail(q)) : Tail(q)[i] = q[k]
<1>1. /\ 1 \in 1..Len(q) /\ Head(q) = q[1] /\ q[1] \in S /\ Tail(q) \in Seq(S)
      /\ Len(q) \in Nat \ {0} /\ Len(Tail(q)) = Len(q) - 1
      /\ \A i \in 1..Len(Tail(q)) : Tail(q)[i] = q[i + 1]
  OBVIOUS
<1>2. ASSUME NEW k \in 1..Len(q), k # 1
      PROVE  \E i \in 1..Len(Tail(q)) : Tail(q)[i] = q[k]
  <2>1. k - 1 \in 1..Len(Tail(q)) /\ Tail(q)[k - 1] = q[k]
    BY <1>1, <1>2
  <2>. QED
    BY <2>1
<1>. QED
  BY <1>1, <1>2

\* What adding to it does.
LEMMA AppendFacts ==
    ASSUME NEW S, NEW q \in Seq(S), NEW e \in S
    PROVE  /\ Append(q, e) \in Seq(S)
           /\ Len(q) \in Nat /\ Len(Append(q, e)) = Len(q) + 1
           /\ Append(q, e)[Len(q) + 1] = e
           /\ \A i \in 1..Len(q) : Append(q, e)[i] = q[i]
OBVIOUS

LEMMA InitInv == Init => Inv
<1> SUFFICES ASSUME Init PROVE Inv
    OBVIOUS
<1> USE Parameters, Shapes DEF Init, Parts
<1>1. TypeOK
  <2>1. job \in [Workers -> {Idle, Exited} \cup {Uploading(n) : n \in Parts}]
    OBVIOUS
  <2>2. queue \in Seq(Parts) /\ Len(queue) = 0
    OBVIOUS
  <2>3. number \in 0..MaxParts
    OBVIOUS
  <2>4. \A i \in 1..Len(queue) : ~\E w \in Workers : job[w] = Uploading(queue[i])
    BY <2>2
  <2>. QED
    BY <2>1, <2>2, <2>3, <2>4 DEF TypeOK
<1>2. Accounted /\ OnlyRead /\ InOrder /\ ExitReason
  BY DEF Accounted, OnlyRead, InOrder, ExitReason
<1>3. StreamSeen /\ Completion /\ StoredWhole
  BY DEF StreamSeen, Completion, StoredWhole
<1>. QED
  BY <1>1, <1>2, <1>3 DEF Inv

\* A worker takes the oldest job off the channel.
LEMMA TakeJobInv == ASSUME Inv, NEW w \in Workers, TakeJob(w) PROVE Inv'
<1> USE Shapes
<1> DEFINE unchanged == UNCHANGED <<callerVars, cancelled, writer, results, firstErr, storeVars>>
<1>1. /\ queue \in Seq(Parts) /\ queue # <<>> /\ queue' = Tail(queue)
      /\ job \in [Workers -> {Idle, Exited} \cup {Uploading(n) : n \in Parts}]
      /\ job' = [job EXCEPT ![w] = Uploading(Head(queue))] /\ job[w] = Idle /\ unchanged
  BY DEF TakeJob, Inv, TypeOK
<1>2. /\ 1 \in 1..Len(queue) /\ queue[1] \in Parts /\ queue' \in Seq(Parts)
      /\ \A i \in 1..Len(queue') :
            i + 1 \in 1..Len(queue) /\ 1 < i + 1 /\ queue'[i] = queue[i + 1]
      /\ \A k \in 1..Len(queue) : k = 1 \/ \E i \in 1..Len(queue') : queue'[i] = queue[k]
  BY <1>1, TailFacts
<1>3. job'[w] = Uploading(queue[1]) /\ \A v \in Workers \ {w} : job'[v] = job[v]
  BY <1>1, TailFacts
<1>4. number \in Nat /\ \A i, k \in 1..Len(queue) : i < k => queue[i] < queue[k]
  BY DEF Inv, InOrder, TypeOK
<1>5. queue[1] \in 1..number /\ \A i \in 1..Len(queue') : queue'[i] \in 1..number
  BY <1>2 DEF Inv, OnlyRead
<1>6. TypeOK'
  <2>1. job' \in [Workers -> {Idle, Exited} \cup {Uploading(n) : n \in Parts}]
    BY <1>1, <1>2, TailFacts
  <2>2. ASSUME NEW i \in 1..Len(queue'), NEW v \in Workers PROVE job'[v] # Uploading(queue'[i])
    <3>1. queue[1] # queue[i + 1]
      BY <1>2, <1>4, <1>5
    <3>2. job[v] # Uploading(queue[i + 1])
      BY <1>2 DEF Inv, TypeOK
    <3>. QED
      BY <1>2, <1>3, <3>1, <3>2
  <2>. QED
    BY <1>1, <1>2, <2>1, <2>2 DEF Inv, TypeOK, callerVars, storeVars
<1>7. Accounted'
  <2>1. ASSUME NEW n, Queued(n) PROVE Queued(n)' \/ InWorker(n)'
    <3>1. PICK k \in 1..Len(queue) : queue[k] = n
      BY <2>1 DEF Queued
    <3>2. CASE k = 1
      BY <1>3, <3>1, <3>2 DEF InWorker
    <3>3. CASE \E i \in 1..Len(queue') : queue'[i] = queue[k]
      BY <3>1, <3>3 DEF Queued
    <3>. QED
      BY <1>2, <3>2, <3>3
  <2>2. ASSUME NEW n, InWorker(n) PROVE InWorker(n)'
    BY <1>1, <1>3, <2>2 DEF InWorker
  <2>3. /\ number' = number /\ results' = results /\ firstErr' = firstErr
        /\ produceErr' = produceErr /\ caller' = caller
    BY <1>1 DEF callerVars
  <2>4. Accounted
    BY DEF Inv
  <2>. QED
    BY <2>1, <2>2, <2>3, <2>4 DEF Accounted
<1>8. OnlyRead'
  BY <1>1, <1>3, <1>5 DEF Inv, OnlyRead, callerVars
<1>9. InOrder'
  <2>1. \A i, k \in 1..Len(queue') : i < k => queue'[i] < queue'[k]
    BY <1>2, <1>4
  <2>2. caller = "send" => \A i \in 1..Len(queue) : queue[i] < number
    BY DEF Inv, InOrder
  <2>3. caller = "send" => \A i \in 1..Len(queue') : queue'[i] < number
    BY <1>2, <2>2
  <2>4. caller = "send" => queue[1] # number
    BY <1>2, <1>4, <1>5, <2>2
  <2>. QED
    BY <1>1, <1>3, <2>1, <2>3, <2>4 DEF Inv, InOrder, callerVars
<1>10. ExitReason' /\ StreamSeen' /\ Completion' /\ StoredWhole'
  BY <1>1, <1>3 DEF Inv, ExitReason, Closed, StreamSeen, Completion, StoredWhole, Whole,
      callerVars, storeVars
<1>. QED
  BY <1>6, <1>7, <1>8, <1>9, <1>10 DEF Inv

\* Every step of the upload preserves the invariant.
LEMMA NextInv == Inv /\ [Next]_vars => Inv'
<1> SUFFICES ASSUME Inv, [Next]_vars PROVE Inv'
    OBVIOUS
<1> USE Parameters, Shapes
<1> USE DEF Inv, TypeOK, Parts, Accounted, Queued, InWorker, OnlyRead, InOrder, ExitReason, Closed,
        StreamSeen, Completion, StoredWhole, Whole, callerVars, workVars, storeVars
<1>1. CASE Cancel
  BY <1>1 DEF Cancel
<1>2. CASE Create
  BY <1>2 DEF Create
<1>3. CASE CreateFails
  BY <1>3 DEF CreateFails
<1>4. CASE ReadPart
  <2>1. number' \in 1..MaxParts /\ number' = number + 1 /\ caller' = "send"
    BY <1>4 DEF ReadPart
  <2>2. \A w \in Workers : job[w] # Uploading(number')
    BY <2>1
  <2>3. TypeOK'
    BY <1>4, <2>1 DEF ReadPart
  <2>4. Accounted' /\ OnlyRead'
    BY <1>4, <2>1 DEF ReadPart
  <2>5. InOrder'
    BY <1>4, <2>1, <2>2 DEF ReadPart
  <2>6. ExitReason' /\ StreamSeen' /\ Completion' /\ StoredWhole'
    BY <1>4, <2>1 DEF ReadPart
  <2>. QED
    BY <2>3, <2>4, <2>5, <2>6
<1>5. CASE ReadEnd
  BY <1>5 DEF ReadEnd
<1>6. CASE Send
  <2> number \in Parts
    BY <1>6 DEF Send
  <2>1. /\ queue' \in Seq(Parts) /\ Len(queue) \in Nat /\ Len(queue') = Len(queue) + 1
        /\ queue'[Len(queue')] = number
        /\ \A i \in 1..Len(queue) : queue'[i] = queue[i]
    BY <1>6, AppendFacts DEF Send
  <2>2. TypeOK'
    BY <1>6, <2>1 DEF Send
  <2>3. Accounted' /\ OnlyRead'
    BY <1>6, <2>1 DEF Send
  <2>4. InOrder'
    BY <1>6, <2>1 DEF Send
  <2>5. ExitReason' /\ StreamSeen' /\ Completion' /\ StoredWhole'
    BY <1>6, <2>1 DEF Send
  <2>. QED
    BY <2>2, <2>3, <2>4, <2>5
<1>7. CASE AbandonSend
  BY <1>7 DEF AbandonSend
<1>8. CASE WaitForWorkers
  <2>1. CASE firstErr \/ produceErr
    BY <1>8, <2>1 DEF WaitForWorkers
  <2>2. CASE ~firstErr /\ ~produceErr
    <3>1. queue = <<>> /\ \A n : ~InWorker(n)
      BY <1>8, <2>2 DEF WaitForWorkers, AllExited
    <3>2. results = 1..number
      <4>1. \A n \in 1..number : n \in results
        BY <1>8, <2>2, <3>1 DEF WaitForWorkers
      <4>2. \A n \in results : n \in 1..number
        OBVIOUS
      <4>. QED
        BY <4>1, <4>2
    <3>. QED
      BY <1>8, <2>2, <3>1, <3>2 DEF WaitForWorkers
  <2>. QED
    BY <2>1, <2>2
<1>9. CASE Complete
  BY <1>9 DEF Complete
<1>10. CASE CompleteFails
  BY <1>10 DEF CompleteFails
<1>11. CASE Abort
  BY <1>11 DEF Abort
<1>12. CASE ClosePipe
  BY <1>12 DEF ClosePipe
<1>13. CASE Return
  BY <1>13 DEF Return
<1>14. ASSUME NEW w \in Workers, TakeJob(w) PROVE Inv'
  BY <1>14, TakeJobInv
<1>15. ASSUME NEW w \in Workers, ExitOnClosed(w) PROVE Inv'
  BY <1>15 DEF ExitOnClosed
<1>16. ASSUME NEW w \in Workers, UploadPart(w) PROVE Inv'
  BY <1>16 DEF UploadPart
<1>17. ASSUME NEW w \in Workers, UploadPartFails(w) PROVE Inv'
  BY <1>17 DEF UploadPartFails
<1>18. CASE UNCHANGED vars
  BY <1>18 DEF vars
<1>. QED
  BY <1>1, <1>2, <1>3, <1>4, <1>5, <1>6, <1>7, <1>8, <1>9, <1>10, <1>11, <1>12, <1>13, <1>14, <1>15,
     <1>16, <1>17, <1>18 DEF Next, CallerStep, WorkerStep

\* The invariant holds throughout.
THEOREM Invariance == Spec => []Inv
<1>. QED
  BY InitInv, NextInv, PTL DEF Spec

\* Every variable stays within its type, and no part is queued twice or queued
\* while a worker has it (upload.go:312-338).
THEOREM TypeCorrect == Spec => []TypeOK
<1>. QED
  BY Invariance, PTL DEF Inv

\* "Completing the upload would store truncated data" (upload.go:405-406): what
\* becomes visible is the whole of a stream that ended cleanly, for any number of
\* workers and parts.
THEOREM NeverTruncated == Spec => []StoredWhole
<1>. QED
  BY Invariance, PTL DEF Inv

-----------------------------------------------------------------------------
(* The upload implements AtomicUpload. *)

LEMMA RefineInit == Init => AU!Init
BY DEF Init, AU!Init

LEMMA RefineNext == Inv /\ Inv' /\ [Next]_vars => [AU!Next]_(AU!vars)
<1> SUFFICES ASSUME Inv, Inv', [Next]_vars PROVE [AU!Next]_(AU!vars)
    OBVIOUS
<1> USE DEF AU!Next, AU!vars, AU!Store, AU!Succeed, AU!Fail
<1>1. /\ upload = "completed" => Whole
      /\ caller # "returned" => result = "none"
      /\ caller \in {"create", "read", "send", "wait", "complete"} =>
            upload # "completed" /\ ~uploadErr
      /\ caller = "close" /\ ~uploadErr => upload = "completed"
  BY DEF Inv, StoredWhole, Completion
<1>2. upload' = "completed" => Whole'
  BY DEF Inv, StoredWhole
<1>3. CASE Complete \/ CompleteFails
  BY <1>1, <1>2, <1>3 DEF Complete, CompleteFails, storeVars
<1>4. CASE Return
  BY <1>1, <1>2, <1>4 DEF Return, storeVars
<1>5. CASE Create \/ Abort
  BY <1>1, <1>2, <1>5 DEF Create, Abort
<1>6. ASSUME UNCHANGED <<storeVars, result>> PROVE [AU!Next]_(AU!vars)
  BY <1>1, <1>2, <1>6 DEF storeVars
<1>7. CASE Cancel \/ CreateFails \/ ReadPart \/ ReadEnd \/ Send \/ AbandonSend \/ WaitForWorkers \/ ClosePipe
  BY <1>6, <1>7 DEF Cancel, CreateFails, ReadPart, ReadEnd, Send, AbandonSend, WaitForWorkers,
     ClosePipe, callerVars
<1>8. ASSUME NEW w \in Workers, WorkerStep(w) PROVE [AU!Next]_(AU!vars)
  BY <1>6, <1>8 DEF WorkerStep, TakeJob, ExitOnClosed, UploadPart, UploadPartFails, callerVars
<1>9. CASE UNCHANGED vars
  BY <1>6, <1>9 DEF vars, callerVars
<1>. QED
  BY <1>3, <1>4, <1>5, <1>7, <1>8, <1>9 DEF Next, CallerStep

\* Success is reported only for an object stored as a whole, and nothing less is
\* ever stored.
THEOREM Refinement == Spec => ImplementsAtomicUpload
<1>. QED
  BY Invariance, RefineInit, RefineNext, PTL DEF Spec, ImplementsAtomicUpload, AU!Spec

-----------------------------------------------------------------------------
(* The buffers of parts. *)

\* The channel holds one part less than there are workers.
ChannelBounded == Len(queue) <= Cardinality(Workers) - 1

LEMMA ChannelBoundedNext ==
    ASSUME queue \in Seq(Parts), ChannelBounded, [Next]_vars
    PROVE  ChannelBounded'
<1>. Cardinality(Workers) \in Nat
  BY MultipartAssumption, FS_CardinalityType
<1>1. CASE Send
  <2>1. queue' = Append(queue, number) /\ Len(queue) < Cardinality(Workers) - 1
    BY <1>1 DEF Send, Room
  <2>2. Len(queue) \in Nat /\ Len(Append(queue, number)) = Len(queue) + 1
    OBVIOUS
  <2>. QED
    BY <2>1, <2>2 DEF ChannelBounded
<1>2. CASE \E w \in Workers : TakeJob(w)
  <2>1. queue # <<>> /\ queue' = Tail(queue)
    BY <1>2 DEF TakeJob
  <2>2. Len(queue) \in Nat /\ Len(Tail(queue)) = Len(queue) - 1
    BY <2>1
  <2>. QED
    BY <2>1, <2>2 DEF ChannelBounded
<1>3. CASE ~Send /\ ~(\E w \in Workers : TakeJob(w))
  <2>1. UNCHANGED queue
    BY <1>3 DEF Next, CallerStep, WorkerStep, Cancel, Create, CreateFails, ReadPart, ReadEnd,
      AbandonSend, WaitForWorkers, Complete, CompleteFails, Abort, ClosePipe, Return,
      ExitOnClosed, UploadPart, UploadPartFails, vars, workVars
  <2>. QED
    BY <2>1 DEF ChannelBounded
<1>. QED
  BY <1>1, <1>2, <1>3

\* However many workers there are and however the store and the reader are scheduled:
\* between the part in hand, the channel and the workers there are never more than twice
\* as many buffers in use as there are workers.
THEOREM BuffersBounded == Spec => []ReadAheadBounded
<1>. /\ Cardinality(Workers) \in Nat /\ Cardinality(Workers) >= 2 /\ IsFiniteSet(Workers)
  BY MultipartAssumption, FS_CardinalityType
<1>1. Init => ChannelBounded
  <2>1. Init => Len(queue) = 0
    BY DEF Init
  <2>. QED
    BY <2>1 DEF ChannelBounded
<1>2. TypeOK /\ ChannelBounded /\ [Next]_vars => ChannelBounded'
  BY ChannelBoundedNext DEF TypeOK
<1>3. TypeOK /\ ChannelBounded => ReadAheadBounded
  <2>. SUFFICES ASSUME TypeOK, ChannelBounded PROVE ReadAheadBounded
    OBVIOUS
  <2>. DEFINE uploading == {w \in Workers : job[w].state = "uploading"}
  <2>1. Cardinality(uploading) \in Nat /\ Cardinality(uploading) <= Cardinality(Workers)
    BY FS_Subset, FS_CardinalityType
  <2>2. Len(queue) \in Nat /\ Len(queue) <= Cardinality(Workers) - 1
    BY DEF TypeOK, ChannelBounded
  <2>3. PICK inHand \in {0, 1} : inHand = IF caller \in {"read", "send"} THEN 1 ELSE 0
    OBVIOUS
  <2>4. inHand + Len(queue) + Cardinality(uploading) <= 2 * Cardinality(Workers)
    BY <2>1, <2>2, <2>3
  <2>. QED
    BY <2>3, <2>4 DEF ReadAheadBounded, Buffers
<1>. QED
  BY <1>1, <1>2, <1>3, TypeCorrect, PTL DEF Spec

-----------------------------------------------------------------------------
(* No call is stuck. *)

\* The guards of the caller's steps and of a worker's.
CallerReady ==
    \/ caller \in {"create", "complete", "abort", "close"}
    \/ caller = "read" /\ writer = "writing"
    \/ caller = "send" /\ (Room \/ firstErr \/ cancelled)
    \/ caller = "wait" /\ AllExited

WorkerReady(w) ==
    \/ job[w].state = "uploading"
    \/ job[w] = Idle /\ (queue # <<>> \/ Closed)

SomeoneReady == CallerReady \/ \E w \in Workers : WorkerReady(w)

LEMMA InvGoesOn == Inv /\ caller # "returned" => SomeoneReady
<1>. SUFFICES ASSUME Inv, caller # "returned" PROVE SomeoneReady
  OBVIOUS
<1>1. CASE caller \in {"create", "complete", "abort", "close", "read"}
  BY <1>1 DEF SomeoneReady, CallerReady, Inv, StreamSeen
<1>2. CASE caller = "wait"
  <2>1. CASE AllExited
    BY <1>2, <2>1 DEF SomeoneReady, CallerReady
  <2>2. CASE ~AllExited
    <3>1. PICK w \in Workers : job[w] # Exited
      BY <2>2 DEF AllExited
    <3>2. job[w] = Idle \/ job[w].state = "uploading"
      BY <3>1, Shapes DEF Inv, TypeOK
    <3>. QED
      BY <1>2, <3>2 DEF SomeoneReady, WorkerReady, Closed
  <2>. QED
    BY <2>1, <2>2
<1>3. CASE caller = "send"
  <2>1. CASE Room \/ firstErr \/ cancelled
    BY <1>3, <2>1 DEF SomeoneReady, CallerReady
  \* The channel is full, and no worker has failed.
  <2>2. CASE ~Room /\ ~firstErr
    <3>1. queue # <<>>
      <4>1. Cardinality(Workers) \in Nat /\ Cardinality(Workers) >= 2
        BY MultipartAssumption, FS_CardinalityType
      <4>2. queue = <<>> => Len(queue) = 0
        OBVIOUS
      <4>. QED
        BY <2>2, <4>1, <4>2 DEF Room
    <3>2. PICK w \in Workers : TRUE
      BY Parameters
    <3>3. job[w] # Exited
      BY <1>3, <2>2, <3>1 DEF Inv, ExitReason
    <3>4. job[w] = Idle \/ job[w].state = "uploading"
      BY <3>3, Shapes DEF Inv, TypeOK
    <3>. QED
      BY <3>1, <3>4 DEF SomeoneReady, WorkerReady
  <2>. QED
    BY <2>1, <2>2
<1>. QED
  BY <1>1, <1>2, <1>3 DEF Inv, TypeOK

\* Until it returns, the call can always go on, with any number of workers and whatever
\* fails (upload.go:312-360): a reader behind a full channel has a worker to empty it,
\* or a failure to see.
THEOREM UploadGoesOn == Spec => [](caller # "returned" => SomeoneReady)
BY Invariance, InvGoesOn, PTL

-----------------------------------------------------------------------------
(* No call goes on for ever. *)

UploadingWorkers == {w \in Workers : job[w].state = "uploading"}
ActiveWorkers    == {w \in Workers : job[w] # Exited}

\* What the caller has still to do but for the parts to be read.
CallerSteps ==
    CASE caller = "returned" -> 0
      [] caller = "close"    -> 1
      [] caller = "abort"    -> 2
      [] caller = "complete" -> 3
      [] caller = "wait"     -> 4
      [] caller = "read"     -> 5
      [] caller = "send"     -> 8
      [] caller = "create"   -> 6 + Cardinality(Workers)

WriterSteps == IF writer = "writing" THEN 1 ELSE 0
WorldSteps  == IF cancelled THEN 0 ELSE 1
PartsToCome == MaxParts - number
PartsAtWork == Cardinality(UploadingWorkers)
StillActive == Cardinality(ActiveWorkers)

\* A bound on the steps that are left: a part costs four, of which it has two before it
\* when it is queued and one when a worker has it.
CallersShare == 4 * PartsToCome + CallerSteps + WriterSteps + WorldSteps
WorkersShare == 2 * Len(queue) + PartsAtWork + StillActive
StepsLeft    == CallersShare + WorkersShare

StepTaken == StepsLeft \in Nat /\ StepsLeft' \in Nat /\ StepsLeft' < StepsLeft

LEMMA Counts ==
    /\ Cardinality(Workers) \in Nat
    /\ \A S \in SUBSET Workers :
          /\ Cardinality(S) \in Nat /\ Cardinality(S) <= Cardinality(Workers)
          /\ \A w \in S : Cardinality(S \ {w}) = Cardinality(S) - 1
          /\ \A w \in Workers \ S : Cardinality(S \cup {w}) = Cardinality(S) + 1
<1>1. IsFiniteSet(Workers) /\ Cardinality(Workers) \in Nat
  BY MultipartAssumption, FS_CardinalityType
<1>2. ASSUME NEW S \in SUBSET Workers
      PROVE  /\ IsFiniteSet(S)
             /\ Cardinality(S) \in Nat /\ Cardinality(S) <= Cardinality(Workers)
  BY <1>1, <1>2, FS_Subset, FS_CardinalityType
<1>. QED
  BY <1>1, <1>2, FS_RemoveElement, FS_AddElement

\* What the steps of a worker do to the counts.
LEMMA WorkerCounts ==
    ASSUME TypeOK, NEW w \in Workers, WorkerStep(w)
    PROVE  /\ PartsAtWork \in Nat /\ PartsAtWork' \in Nat
           /\ StillActive \in Nat /\ StillActive' \in Nat
           /\ Len(queue) \in Nat /\ Len(queue)' \in Nat
           /\ WorkersShare' < WorkersShare
<1>0. /\ UploadingWorkers \in SUBSET Workers /\ ActiveWorkers \in SUBSET Workers
      /\ queue \in Seq(Parts)
      /\ job \in [Workers -> {Idle, Exited} \cup {Uploading(n) : n \in Parts}]
  BY DEF UploadingWorkers, ActiveWorkers, TypeOK
<1>1. PartsAtWork \in Nat /\ StillActive \in Nat /\ Len(queue) \in Nat
  BY <1>0, Counts DEF PartsAtWork, StillActive
<1>2. CASE TakeJob(w)
  <2>1. job' = [job EXCEPT ![w] = Uploading(Head(queue))] /\ job[w] = Idle
    BY <1>2 DEF TakeJob
  <2>2. UploadingWorkers' = UploadingWorkers \cup {w} /\ w \notin UploadingWorkers
    BY <1>0, <2>1, Shapes DEF UploadingWorkers
  <2>3. ActiveWorkers' = ActiveWorkers
    BY <1>0, <2>1, Shapes DEF ActiveWorkers
  <2>4. PartsAtWork' = PartsAtWork + 1 /\ StillActive' = StillActive
    BY <1>0, <2>2, <2>3, Counts DEF PartsAtWork, StillActive
  <2>5. Len(queue)' \in Nat /\ Len(queue)' = Len(queue) - 1
    BY <1>0, <1>2 DEF TakeJob
  <2>. QED
    BY <1>1, <2>4, <2>5 DEF WorkersShare
<1>3. CASE ExitOnClosed(w)
  <2>1. job' = [job EXCEPT ![w] = Exited] /\ job[w] = Idle /\ queue' = queue
    BY <1>3 DEF ExitOnClosed
  <2>2. UploadingWorkers' = UploadingWorkers
    BY <1>0, <2>1, Shapes DEF UploadingWorkers
  <2>3. ActiveWorkers' = ActiveWorkers \ {w} /\ w \in ActiveWorkers
    BY <1>0, <2>1, Shapes DEF ActiveWorkers
  <2>4. PartsAtWork' = PartsAtWork /\ StillActive' = StillActive - 1 /\ StillActive' \in Nat
    <3>1. ActiveWorkers \ {w} \in SUBSET Workers
      BY <1>0
    <3>. QED
      BY <1>0, <2>2, <2>3, <3>1, Counts DEF PartsAtWork, StillActive
  <2>. QED
    BY <1>1, <2>1, <2>4 DEF WorkersShare
<1>4. CASE UploadPart(w)
  <2>1. job' = [job EXCEPT ![w] = Idle] /\ job[w].state = "uploading" /\ queue' = queue
    BY <1>4 DEF UploadPart
  <2>2. UploadingWorkers' = UploadingWorkers \ {w} /\ w \in UploadingWorkers
    BY <1>0, <2>1, Shapes DEF UploadingWorkers
  <2>3. ActiveWorkers' = ActiveWorkers
    BY <1>0, <2>1, Shapes DEF ActiveWorkers
  <2>4. PartsAtWork' = PartsAtWork - 1 /\ StillActive' = StillActive /\ PartsAtWork' \in Nat
    <3>1. UploadingWorkers \ {w} \in SUBSET Workers
      BY <1>0
    <3>. QED
      BY <1>0, <2>2, <2>3, <3>1, Counts DEF PartsAtWork, StillActive
  <2>. QED
    BY <1>1, <2>1, <2>4 DEF WorkersShare
<1>5. CASE UploadPartFails(w)
  <2>1. job' = [job EXCEPT ![w] = Exited] /\ job[w].state = "uploading" /\ queue' = queue
    BY <1>5 DEF UploadPartFails
  <2>2. UploadingWorkers' = UploadingWorkers \ {w} /\ w \in UploadingWorkers
    BY <1>0, <2>1, Shapes DEF UploadingWorkers
  <2>3. ActiveWorkers' = ActiveWorkers \ {w} /\ w \in ActiveWorkers
    BY <1>0, <2>1, Shapes DEF ActiveWorkers
  <2>4. PartsAtWork' = PartsAtWork - 1 /\ StillActive' = StillActive - 1 /\ PartsAtWork' \in Nat /\ StillActive' \in Nat
    <3>1. UploadingWorkers \ {w} \in SUBSET Workers /\ ActiveWorkers \ {w} \in SUBSET Workers
      BY <1>0
    <3>. QED
      BY <1>0, <2>2, <2>3, <3>1, Counts DEF PartsAtWork, StillActive
  <2>. QED
    BY <1>1, <2>1, <2>4 DEF WorkersShare
<1>. QED
  BY <1>2, <1>3, <1>4, <1>5 DEF WorkerStep

LEMMA CallerStepsAre ==
    ASSUME TypeOK
    PROVE  /\ CallerSteps \in Nat
           /\ caller = "returned" => CallerSteps = 0
           /\ caller = "close" => CallerSteps = 1
           /\ caller = "abort" => CallerSteps = 2
           /\ caller = "complete" => CallerSteps = 3
           /\ caller = "wait" => CallerSteps = 4
           /\ caller = "read" => CallerSteps = 5
           /\ caller = "send" => CallerSteps = 8
           /\ caller = "create" => CallerSteps = 6 + Cardinality(Workers)
BY Counts DEF CallerSteps, TypeOK

LEMMA CallerStepsWillBe ==
    ASSUME TypeOK'
    PROVE  /\ CallerSteps' \in Nat
           /\ caller' = "returned" => CallerSteps' = 0
           /\ caller' = "close" => CallerSteps' = 1
           /\ caller' = "abort" => CallerSteps' = 2
           /\ caller' = "complete" => CallerSteps' = 3
           /\ caller' = "wait" => CallerSteps' = 4
           /\ caller' = "read" => CallerSteps' = 5
           /\ caller' = "send" => CallerSteps' = 8
BY Counts DEF CallerSteps, TypeOK

LEMMA StepsCounted ==
    ASSUME Inv, Inv', [Next]_vars
    PROVE  [StepTaken]_vars
<1>0. TypeOK /\ TypeOK'
  BY DEF Inv
<1>1. /\ UploadingWorkers \in SUBSET Workers /\ ActiveWorkers \in SUBSET Workers
      /\ UploadingWorkers' \in SUBSET Workers /\ ActiveWorkers' \in SUBSET Workers
  BY DEF UploadingWorkers, ActiveWorkers
<1>2. /\ PartsAtWork \in Nat /\ PartsAtWork' \in Nat
      /\ StillActive \in Nat /\ StillActive' \in Nat
      /\ Cardinality(Workers) \in Nat /\ StillActive' <= Cardinality(Workers)
  BY <1>1, Counts DEF PartsAtWork, StillActive
<1>3. /\ Len(queue) \in Nat /\ Len(queue)' \in Nat
      /\ PartsToCome \in Nat /\ PartsToCome' \in Nat
  BY <1>0, Parameters DEF TypeOK, PartsToCome
<1>4. /\ WriterSteps \in {0, 1} /\ WriterSteps' \in {0, 1}
      /\ WorldSteps \in {0, 1} /\ WorldSteps' \in {0, 1}
  BY DEF WriterSteps, WorldSteps
<1>5. CallerSteps \in Nat /\ CallerSteps' \in Nat
  BY <1>0, CallerStepsAre, CallerStepsWillBe
\* The values after the step.
<1>6. PICK p \in Nat, c \in Nat, v \in Nat, x \in Nat, q \in Nat, u \in Nat, a \in Nat :
          /\ p = PartsToCome' /\ c = CallerSteps' /\ v = WriterSteps' /\ x = WorldSteps'
          /\ q = Len(queue)' /\ u = PartsAtWork' /\ a = StillActive'
  <2>1. WriterSteps' \in Nat /\ WorldSteps' \in Nat
    BY <1>4
  <2>. QED
    BY <1>2, <1>3, <1>5, <2>1
<1>7. PICK callers \in Nat, workers \in Nat :
          /\ callers = CallersShare' /\ callers = 4 * p + c + v + x
          /\ workers = WorkersShare' /\ workers = 2 * q + u + a
  <2>1. 4 * p + c + v + x \in Nat /\ 2 * q + u + a \in Nat
    OBVIOUS
  <2>2. CallersShare' = 4 * p + c + v + x /\ WorkersShare' = 2 * q + u + a
    BY Zenon, <1>6 DEF CallersShare, WorkersShare
  <2>. QED
    BY Zenon, <2>1, <2>2
<1>8. /\ CallersShare = 4 * PartsToCome + CallerSteps + WriterSteps + WorldSteps
      /\ CallersShare \in Nat
      /\ WorkersShare = 2 * Len(queue) + PartsAtWork + StillActive
      /\ WorkersShare \in Nat
  BY <1>2, <1>3, <1>4, <1>5 DEF CallersShare, WorkersShare
<1>9. ASSUME callers + workers < CallersShare + WorkersShare PROVE StepTaken
  <2>1. StepsLeft = CallersShare + WorkersShare /\ StepsLeft' = callers + workers
    BY Zenon, <1>7 DEF StepsLeft
  <2>2. CallersShare + WorkersShare \in Nat /\ callers + workers \in Nat
    BY <1>8
  <2>. QED
    BY Zenon, <1>9, <2>1, <2>2 DEF StepTaken
<1>10. ASSUME UNCHANGED <<job, queue>> PROVE workers = WorkersShare
  <2>1. WorkersShare' = WorkersShare
    BY <1>10 DEF WorkersShare, PartsAtWork, StillActive, UploadingWorkers, ActiveWorkers
  <2>. QED
    BY <1>7, <2>1
<1>11. CASE Cancel
  <2>1. /\ UNCHANGED <<job, queue, PartsToCome, CallerSteps, WriterSteps>>
        /\ WorldSteps = 1 /\ WorldSteps' = 0
    BY <1>11 DEF Cancel, callerVars, workVars, PartsToCome, CallerSteps, WriterSteps, WorldSteps
  <2>2. p = PartsToCome /\ c = CallerSteps /\ v = WriterSteps /\ x = 0
    BY <1>6, <2>1
  <2>3. callers < CallersShare
    BY <1>3, <1>4, <1>5, <1>7, <1>8, <2>1, <2>2
  <2>. QED
    BY <1>8, <1>9, <1>10, <2>1, <2>3
<1>12. ASSUME NEW w \in Workers, WorkerStep(w) PROVE StepTaken
  <2>1. UNCHANGED <<caller, number, writer, cancelled>>
    BY <1>12 DEF WorkerStep, TakeJob, ExitOnClosed, UploadPart, UploadPartFails, callerVars
  <2>2. CallersShare' = CallersShare
    BY <2>1 DEF CallersShare, PartsToCome, CallerSteps, WriterSteps, WorldSteps
  <2>3. WorkersShare' < WorkersShare
    BY <1>0, <1>12, WorkerCounts
  <2>4. callers = CallersShare /\ workers < WorkersShare
    BY <1>7, <2>2, <2>3
  <2>. QED
    BY <1>8, <1>9, <2>4
<1>13. CASE Create
  <2>. DEFINE n == Cardinality(Workers)
  <2>1. UNCHANGED <<queue, PartsToCome, WriterSteps, WorldSteps>>
    BY <1>13 DEF Create, PartsToCome, WriterSteps, WorldSteps
  <2>2. CallerSteps = 6 + n /\ c = 5 /\ p = PartsToCome /\ v = WriterSteps /\ x = WorldSteps
    BY <1>0, <1>6, <1>13, <2>1, CallerStepsAre, CallerStepsWillBe DEF Create
  <2>3. UploadingWorkers' = {} /\ UploadingWorkers = {}
    BY <1>13, Shapes DEF Create, UploadingWorkers, Inv, InOrder
  <2>4. u = PartsAtWork /\ q = Len(queue) /\ a <= n
    BY <1>2, <1>6, <2>1, <2>3 DEF PartsAtWork
  <2>5. n \in Nat
    BY <1>2
  <2>. HIDE DEF n
  <2>6. callers + 1 + n = CallersShare
    BY <1>3, <1>4, <1>7, <1>8, <2>2, <2>5
  <2>7. workers <= WorkersShare + n
    BY <1>2, <1>3, <1>7, <1>8, <2>4, <2>5
  <2>. QED
    BY <1>8, <1>9, <2>5, <2>6, <2>7
<1>14. CASE ReadPart
  <2>1. UNCHANGED <<job, queue, WorldSteps>>
    BY <1>14 DEF ReadPart, workVars, WorldSteps
  <2>2. PartsToCome' + 1 = PartsToCome
    BY <1>0, <1>14, Parameters DEF ReadPart, TypeOK, PartsToCome
  <2>3. WriterSteps' <= WriterSteps
    BY <1>14 DEF ReadPart, WriterSteps
  <2>4. CallerSteps = 5 /\ CallerSteps' = 8
    BY <1>0, <1>14, CallerStepsAre, CallerStepsWillBe DEF ReadPart
  <2>5. p + 1 = PartsToCome /\ v <= WriterSteps /\ CallerSteps = 5 /\ c = 8 /\ x = WorldSteps
    BY <1>6, <2>1, <2>2, <2>3, <2>4
  <2>6. callers < CallersShare
    BY <1>3, <1>4, <1>7, <1>8, <2>5
  <2>. QED
    BY <1>8, <1>9, <1>10, <2>1, <2>6
<1>15. CASE Send
  <2>1. UNCHANGED <<job, PartsToCome, WriterSteps, WorldSteps>>
    BY <1>15 DEF Send, PartsToCome, WriterSteps, WorldSteps
  <2>2. UNCHANGED <<PartsAtWork, StillActive>>
    BY <2>1 DEF PartsAtWork, StillActive, UploadingWorkers, ActiveWorkers
  <2>3. Len(queue)' = Len(queue) + 1
    BY <1>0, <1>15 DEF Send, TypeOK
  <2>4. CallerSteps = 8 /\ CallerSteps' <= 5
    BY <1>0, <1>15, CallerStepsAre, CallerStepsWillBe DEF Send
  <2>5. /\ q = Len(queue) + 1 /\ u = PartsAtWork /\ a = StillActive
        /\ p = PartsToCome /\ v = WriterSteps /\ x = WorldSteps /\ CallerSteps = 8 /\ c <= 5
    BY <1>6, <2>1, <2>2, <2>3, <2>4
  <2>6. workers = WorkersShare + 2
    BY <1>2, <1>3, <1>7, <1>8, <2>5
  <2>7. callers + 3 <= CallersShare
    BY <1>3, <1>4, <1>7, <1>8, <2>5
  <2>. QED
    BY <1>8, <1>9, <2>6, <2>7
<1>16. CASE \/ CreateFails \/ ReadEnd \/ AbandonSend \/ WaitForWorkers \/ Complete
            \/ CompleteFails \/ Abort \/ Return
  <2>1. /\ UNCHANGED <<job, queue, number, cancelled>>
        /\ writer' = writer \/ writer = "writing"
    BY <1>16 DEF CreateFails, ReadEnd, AbandonSend, WaitForWorkers, Complete, CompleteFails,
       Abort, Return, workVars
  <2>2. UNCHANGED <<PartsToCome, WorldSteps>> /\ WriterSteps' <= WriterSteps
    BY <2>1 DEF PartsToCome, WorldSteps, WriterSteps
  <2>3. CallerSteps' < CallerSteps
    BY <1>0, <1>2, <1>16, CallerStepsAre, CallerStepsWillBe DEF CreateFails, ReadEnd,
       AbandonSend, WaitForWorkers, Complete, CompleteFails, Abort, Return
  <2>4. p = PartsToCome /\ x = WorldSteps /\ v <= WriterSteps /\ c < CallerSteps
    BY <1>6, <2>2, <2>3
  <2>5. callers < CallersShare
    BY <1>3, <1>4, <1>5, <1>7, <1>8, <2>4
  <2>. QED
    BY <1>8, <1>9, <1>10, <2>1, <2>5
<1>17. CASE ClosePipe
  <2>1. /\ UNCHANGED <<job, queue, PartsToCome, CallerSteps, WorldSteps>>
        /\ WriterSteps = 1 /\ WriterSteps' = 0
    BY <1>17 DEF ClosePipe, callerVars, workVars, PartsToCome, CallerSteps, WriterSteps,
       WorldSteps
  <2>2. p = PartsToCome /\ c = CallerSteps /\ x = WorldSteps /\ v = 0
    BY <1>6, <2>1
  <2>3. callers < CallersShare
    BY <1>3, <1>4, <1>5, <1>7, <1>8, <2>1, <2>2
  <2>. QED
    BY <1>8, <1>9, <1>10, <2>1, <2>3
<1>. QED
  BY <1>11, <1>12, <1>13, <1>14, <1>15, <1>16, <1>17 DEF Next, CallerStep

\* Every step of a call uses up one of a number of steps that is bounded when it begins,
\* so no call goes on for ever: neither the workers nor the reader can be kept busy with
\* nothing (upload.go:302-408).
THEOREM UploadRunsOut == Spec => [][StepTaken]_vars
<1>1. Inv /\ Inv' /\ [Next]_vars => [StepTaken]_vars
  BY StepsCounted
<1>. QED
  BY <1>1, Invariance, PTL DEF Spec
=============================================================================
