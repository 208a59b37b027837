---------------------------- MODULE BackupFanOut ----------------------------
(***************************************************************************)
(* forEachParallel of internal/backup/sync.go, which mirrors and uploads   *)
(* the repositories of a job.  Two things set it apart from the function   *)
(* of the same name in internal/forge: the loop reads firstErr without the *)
(* synchronisation that fail() writes it under, and the cancelled case of  *)
(* the select goes on to the go statement without a token.                 *)
(***************************************************************************)
EXTENDS FanOut

\* A data race: the loop may or may not see an error that a worker recorded.
ErrCheck ==
    /\ pc = "errCheck"
    /\ \/ pc' = "select"
       \/ /\ firstErr # "nil"
          /\ pc' = "wait"
    /\ UNCHANGED <<call, next, slots, invocation, firstErr, cancelled, result, outcome, lateStarts>>

LoopStep ==
    \/ TopOfLoop
    \/ ErrCheck
    \/ TakeSlot("launch")
    \/ SelectCancelled("launch")
    \/ Launch
    \/ WaitAndReturn

Next ==
    \/ Cancel
    \/ SequentialStep
    \/ LoopStep
    \/ \E i \in Items : WorkerStep(i)

Spec == Init /\ [][Next]_vars

\* The Go scheduler runs every goroutine that can run, and fn returns: the
\* git process and the uploads are bound to ctx.
Fairness ==
    /\ WF_vars(SequentialStep)
    /\ WF_vars(LoopStep)
    /\ \A i \in 1..MaxItems : WF_vars(i \in Items /\ WorkerStep(i))

FairSpec == Spec /\ Fairness

\* The call ends when nothing cancels it, and on the sequential path (the
\* default, one repository at a time) whether or not it is cancelled.
EndsUncancelled == []~cancelled \/ Sequential => <>(pc = "returned")
=============================================================================
