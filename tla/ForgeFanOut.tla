----------------------------- MODULE ForgeFanOut -----------------------------
(***************************************************************************)
(* forEachParallel of internal/forge/client.go, which populates the items  *)
(* of a page (comments, attachments).  firstErr is guarded by a mutex and  *)
(* is read again after the select, so a cancelled select starts nothing.   *)
(***************************************************************************)
EXTENDS FanOut

ErrCheck ==
    /\ pc = "errCheck"
    /\ pc' = IF firstErr # "nil" THEN "wait" ELSE "select"
    /\ UNCHANGED <<call, next, slots, invocation, firstErr, cancelled, result, outcome, lateStarts>>

\* Mutant: the select's cancelled case goes on to the go statement.
NoRecheck ==
    /\ pc = "recheck"
    /\ pc' = "launch"
    /\ UNCHANGED <<call, next, slots, invocation, firstErr, cancelled, result, outcome, lateStarts>>

\* failed() after the select: a token taken in vain stays in the channel.
Recheck ==
    /\ pc = "recheck"
    /\ pc' = IF firstErr # "nil" THEN "wait" ELSE "launch"
    /\ UNCHANGED <<call, next, slots, invocation, firstErr, cancelled, result, outcome, lateStarts>>

LoopStep ==
    \/ TopOfLoop
    \/ ErrCheck
    \/ TakeSlot("recheck")
    \/ SelectCancelled("recheck")
    \/ Recheck
    \/ Launch
    \/ WaitAndReturn

Next ==
    \/ Cancel
    \/ SequentialStep
    \/ LoopStep
    \/ \E i \in Items : WorkerStep(i)

Spec == Init /\ [][Next]_vars

\* The Go scheduler runs every goroutine that can run, and fn returns,
\* which a fan-out has to presuppose: its requests carry ctx, the client has no timeout.
Fairness ==
    /\ WF_vars(SequentialStep)
    /\ WF_vars(LoopStep)
    /\ \A i \in 1..MaxItems : WF_vars(i \in Items /\ WorkerStep(i))

FairSpec == Spec /\ Fairness

-----------------------------------------------------------------------------
Holders == {i \in Items : invocation[i] \in {"running", "releasing"}}

\* The channel holds one token for each goroutine that has yet to give its
\* own back, and one more when the loop has taken one it has not passed on:
\* on its way to the go statement, or turned away from it for good.  Hence
\* no goroutine ever waits for a token that is not there.
SlotsMatchHolders ==
    LET held == Cardinality(Holders) IN
    /\ Sequential => slots = 0
    /\ pc \in {"top", "errCheck", "select"} => slots = held
    /\ pc = "recheck" => slots = held + 1 \/ (slots = held /\ firstErr # "nil")
    /\ pc = "launch" => slots = held + 1
    /\ pc \in {"wait", "returned"} /\ ~Sequential => slots = held \/ slots = held + 1
=============================================================================
