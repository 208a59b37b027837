------------------------------- MODULE FanOut -------------------------------
(***************************************************************************)
(* The machinery shared by the two forEachParallel functions of the        *)
(* repository: internal/backup/sync.go fans the repositories of a job out, *)
(* internal/forge/client.go fans the items of a page out.  A loop takes a  *)
(* token from the buffered channel slots for each item and starts a        *)
(* goroutine for it; the goroutine calls fn and gives the token back.      *)
(* The modules BackupFanOut and ForgeFanOut add what differs: how the loop *)
(* reads firstErr, and what it does once its select has been cancelled.    *)
(*                                                                         *)
(* Abstracted: what fn does (it runs for a while and returns an error or   *)
(* nil) and the items (their positions stand for them).                    *)
(***************************************************************************)
EXTENDS Integers, FiniteSets

CONSTANTS MaxItems,       \* bound: the most items a call is made with
          Concurrencies   \* the concurrency arguments callers pass

ASSUME FanOutAssumption == MaxItems \in Nat /\ Concurrencies \subseteq Int

\* The arguments of a call: len(items), and concurrency as it was given.
Calls == [items : 0..MaxItems, concurrency : Concurrencies]

VARIABLES call,        \* the arguments of this call, which never change
          pc,          \* where the calling goroutine is
          next,        \* position of the item the loop is at
          slots,       \* tokens in the buffered channel slots
          invocation,  \* how far the goroutine of each item is
          firstErr,    \* the first error that fail() was called with
          cancelled,   \* ctx.Done() is closed
          result,      \* what forEachParallel returned
          outcome,     \* history: what fn returned for each item
          lateStarts   \* history: invocations begun after a failure or a cancellation

vars == <<call, pc, next, slots, invocation, firstErr, cancelled, result, outcome, lateStarts>>

Items == 1..call.items

\* concurrency is raised to 1 when the caller passes less.
Limit == IF call.concurrency < 1 THEN 1 ELSE call.concurrency

\* One slot or one item: fn is called by the loop itself, no goroutine starts.
Sequential == Limit = 1 \/ call.items <= 1

Errors == {"failed", "cancelled"}

InFlight == {i \in Items : invocation[i] = "running"}

Stopping == cancelled \/ firstErr # "nil"

Init ==
    /\ call \in Calls
    /\ pc = IF Sequential THEN "seqTop" ELSE "top"
    /\ next = 1
    /\ slots = 0
    /\ invocation = [i \in Items |-> "idle"]
    /\ firstErr = "nil"
    /\ cancelled \in BOOLEAN
    /\ result = "none"
    /\ outcome = [i \in Items |-> "none"]
    /\ lateStarts = 0

Fail(err) == firstErr' = IF firstErr = "nil" THEN err ELSE firstErr

Begin(i) ==
    /\ invocation' = [invocation EXCEPT ![i] = "running"]
    /\ lateStarts' = lateStarts + (IF Stopping THEN 1 ELSE 0)

\* What fn may return: nil, an error of its own, the context's error once it is cancelled.
FnResults == {"nil", "failed"} \cup (IF cancelled THEN {"cancelled"} ELSE {})

-----------------------------------------------------------------------------
(* The environment: main's signal handler, or a parent, cancels ctx. *)

Cancel ==
    /\ ~cancelled
    /\ cancelled' = TRUE
    /\ UNCHANGED <<call, pc, next, slots, invocation, firstErr, result, outcome, lateStarts>>

-----------------------------------------------------------------------------
(* The sequential path: the loop calls fn itself and stops at the first error. *)

SeqTop ==
    /\ pc = "seqTop"
    /\ \/ /\ next > call.items
          /\ result' = "nil"
          /\ pc' = "returned"
          /\ UNCHANGED <<invocation, lateStarts>>
       \/ /\ next <= call.items
          /\ cancelled
          /\ result' = "cancelled"
          /\ pc' = "returned"
          /\ UNCHANGED <<invocation, lateStarts>>
       \/ /\ next <= call.items
          /\ ~cancelled
          /\ pc' = "seqCall"
          /\ UNCHANGED <<result, invocation, lateStarts>>
    /\ UNCHANGED <<call, next, slots, firstErr, cancelled, outcome>>

SeqCall ==
    /\ pc = "seqCall"
    /\ Begin(next)
    /\ pc' = "seqFn"
    /\ UNCHANGED <<call, next, slots, firstErr, cancelled, result, outcome>>

\* Mutant: fn is retried until it succeeds.
SeqFnRetried ==
    /\ pc = "seqFn"
    /\ \E err \in FnResults :
        /\ outcome' = [outcome EXCEPT ![next] = err]
        /\ IF err = "nil"
           THEN /\ invocation' = [invocation EXCEPT ![next] = "done"]
                /\ next' = next + 1
                /\ pc' = "seqTop"
           ELSE UNCHANGED <<invocation, next, pc>>
    /\ UNCHANGED <<call, slots, firstErr, cancelled, result, lateStarts>>

SeqFnReturns ==
    /\ pc = "seqFn"
    /\ \E err \in FnResults :
        /\ outcome' = [outcome EXCEPT ![next] = err]
        /\ invocation' = [invocation EXCEPT ![next] = "done"]
        /\ \/ /\ err = "nil"
              /\ next' = next + 1
              /\ pc' = "seqTop"
              /\ UNCHANGED result
           \/ /\ err # "nil"
              /\ result' = err
              /\ pc' = "returned"
              /\ UNCHANGED next
    /\ UNCHANGED <<call, slots, firstErr, cancelled, lateStarts>>

-----------------------------------------------------------------------------
(* The parallel path, the calling goroutine. *)

\* Mutant: the loop does not ask for ctx.Err().
TopIgnoringCancel ==
    /\ pc = "top"
    /\ pc' = IF next > call.items THEN "wait" ELSE "errCheck"
    /\ UNCHANGED <<call, next, slots, invocation, firstErr, cancelled, result, outcome, lateStarts>>

TopOfLoop ==
    /\ pc = "top"
    /\ \/ /\ next > call.items
          /\ pc' = "wait"
          /\ UNCHANGED firstErr
       \/ /\ next <= call.items
          /\ cancelled
          /\ Fail("cancelled")
          /\ pc' = "wait"
       \/ /\ next <= call.items
          /\ ~cancelled
          /\ pc' = "errCheck"
          /\ UNCHANGED firstErr
    /\ UNCHANGED <<call, next, slots, invocation, cancelled, result, outcome, lateStarts>>

\* The two cases of the select; then is where the code goes on.
TakeSlot(then) ==
    /\ pc = "select"
    /\ slots < Limit
    /\ slots' = slots + 1
    /\ pc' = then
    /\ UNCHANGED <<call, next, invocation, firstErr, cancelled, result, outcome, lateStarts>>

SelectCancelled(then) ==
    /\ pc = "select"
    /\ cancelled
    /\ Fail("cancelled")
    /\ pc' = then
    /\ UNCHANGED <<call, next, slots, invocation, cancelled, result, outcome, lateStarts>>

\* wg.Add(1) and the go statement.
Launch ==
    /\ pc = "launch"
    /\ Begin(next)
    /\ next' = next + 1
    /\ pc' = "top"
    /\ UNCHANGED <<call, slots, firstErr, cancelled, result, outcome>>

\* Mutant: the goroutines are not waited for.
ReturnWithoutWaiting ==
    /\ pc = "wait"
    /\ result' = IF firstErr # "nil" THEN firstErr
                 ELSE IF cancelled THEN "cancelled" ELSE "nil"
    /\ pc' = "returned"
    /\ UNCHANGED <<call, next, slots, invocation, firstErr, cancelled, outcome, lateStarts>>

\* wg.Wait() returns once every started goroutine has called wg.Done().
WaitAndReturn ==
    /\ pc = "wait"
    /\ \A i \in Items : invocation[i] \in {"idle", "done"}
    /\ result' = IF firstErr # "nil" THEN firstErr
                 ELSE IF cancelled THEN "cancelled" ELSE "nil"
    /\ pc' = "returned"
    /\ UNCHANGED <<call, next, slots, invocation, firstErr, cancelled, outcome, lateStarts>>

-----------------------------------------------------------------------------
(* The parallel path, the goroutine of item i. *)

FnReturns(i) ==
    /\ ~Sequential
    /\ invocation[i] = "running"
    /\ \E err \in FnResults :
        /\ outcome' = [outcome EXCEPT ![i] = err]
        /\ IF err = "nil" THEN UNCHANGED firstErr ELSE Fail(err)
    /\ invocation' = [invocation EXCEPT ![i] = "releasing"]
    /\ UNCHANGED <<call, pc, next, slots, cancelled, result, lateStarts>>

\* Mutant: the goroutine ends without giving its token back.
KeepSlot(i) ==
    /\ invocation[i] = "releasing"
    /\ invocation' = [invocation EXCEPT ![i] = "done"]
    /\ UNCHANGED <<call, pc, next, slots, firstErr, cancelled, result, outcome, lateStarts>>

\* The deferred receive on slots blocks while the channel is empty; wg.Done follows it.
ReleaseSlot(i) ==
    /\ invocation[i] = "releasing"
    /\ slots > 0
    /\ slots' = slots - 1
    /\ invocation' = [invocation EXCEPT ![i] = "done"]
    /\ UNCHANGED <<call, pc, next, firstErr, cancelled, result, outcome, lateStarts>>

-----------------------------------------------------------------------------
SequentialStep == SeqTop \/ SeqCall \/ SeqFnReturns

WorkerStep(i) == FnReturns(i) \/ ReleaseSlot(i)

-----------------------------------------------------------------------------
TypeOK ==
    /\ call \in Calls
    /\ pc \in {"seqTop", "seqCall", "seqFn", "top", "errCheck", "select",
               "recheck", "launch", "wait", "returned"}
    /\ next \in 1..(call.items + 1)
    /\ slots \in 0..Limit
    /\ invocation \in [Items -> {"idle", "running", "releasing", "done"}]
    /\ firstErr \in {"nil"} \cup Errors
    /\ cancelled \in BOOLEAN
    /\ result \in {"none", "nil"} \cup Errors
    /\ outcome \in [Items -> {"none", "nil"} \cup Errors]
    /\ lateStarts \in Nat

\* At most concurrency invocations of fn are in flight: the doc comment of
\* both functions (sync.go:499, client.go:330).
BoundedInFlight == Cardinality(InFlight) <= Limit

\* In sync.go a cancelled select starts one goroutine without a token, and that is
\* the whole excess: fn never has more than one invocation above the bound in flight.
AtMostOneExtra == Cardinality(InFlight) <= Limit + 1

\* A nil result is a promise about every item: fn was called for it and
\* returned nil.  runProviderMode derives complete from it, and the mirrors
\* of repositories missing from a complete picture are deleted.
NilMeansAllDone ==
    result = "nil" => \A i \in Items : outcome[i] = "nil"

\* A caller of either function may think of it as the parallel loop of
\* ParallelFor: order, bound and answer are as promised, and nothing runs on
\* after the answer.
phase == [i \in Items |-> IF outcome[i] # "none" THEN outcome[i]
                         ELSE IF invocation[i] = "running" THEN "running" ELSE "idle"]

PF == INSTANCE ParallelFor WITH answer <- result

ImplementsParallelFor == PF!Spec

\* A failure or a cancellation lets at most one more invocation begin, the
\* one the loop had already passed its checks for.
AtMostOneLateStart == lateStarts <= 1

\* The call comes to an end, whatever fn returns and whenever ctx is cancelled.
Terminates == <>(pc = "returned")

\* Once ctx is cancelled the fan-out stops (sync.go:500).
CancelStops == cancelled ~> (pc = "returned")
=============================================================================
