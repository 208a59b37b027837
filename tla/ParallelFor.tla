----------------------------- MODULE ParallelFor -----------------------------
(***************************************************************************)
(* What a caller of forEachParallel may rely on, without loop, channel or  *)
(* goroutines: the doc comments of the two functions (sync.go:499-500 and  *)
(* client.go:330-332) as a specification.  Calls of fn begin in the order  *)
(* of the items, at most Limit at a time; the answer comes when none is    *)
(* running and tells the truth about what fn returned.                     *)
(***************************************************************************)
EXTENDS Naturals, FiniteSets

CONSTANT Calls  \* the arguments callers pass: how many items, and the concurrency

VARIABLES call,       \* the arguments of this call
          phase,      \* of each item: idle, running, or what fn returned for it
          cancelled,  \* the caller's context is cancelled
          answer      \* what the call returned, "none" before it has

vars == <<call, phase, cancelled, answer>>

Items == 1..call.items

Limit == IF call.concurrency < 1 THEN 1 ELSE call.concurrency

Running == {i \in Items : phase[i] = "running"}

Init ==
    /\ call \in Calls
    /\ phase = [i \in Items |-> "idle"]
    /\ cancelled \in BOOLEAN
    /\ answer = "none"

Cancel ==
    /\ ~cancelled
    /\ cancelled' = TRUE
    /\ UNCHANGED <<call, phase, answer>>

Begin(i) ==
    /\ answer = "none"
    /\ phase[i] = "idle"
    /\ \A j \in 1..(i - 1) : phase[j] # "idle"
    /\ Cardinality(Running) < Limit
    /\ phase' = [phase EXCEPT ![i] = "running"]
    /\ UNCHANGED <<call, cancelled, answer>>

Finish(i) ==
    /\ phase[i] = "running"
    /\ \E err \in {"nil", "failed", "cancelled"} :
        /\ err = "cancelled" => cancelled
        /\ phase' = [phase EXCEPT ![i] = err]
    /\ UNCHANGED <<call, cancelled, answer>>

Truthful(err) ==
    /\ err = "nil" => \A i \in Items : phase[i] = "nil"
    /\ err = "failed" => \E i \in Items : phase[i] = "failed"
    /\ err = "cancelled" => cancelled

Answer ==
    /\ answer = "none"
    /\ Running = {}
    /\ answer' \in {"nil", "failed", "cancelled"}
    /\ Truthful(answer')
    /\ UNCHANGED <<call, phase, cancelled>>

\* The sequential form ends its last call and returns fn's error in one step.
FinishAndAnswer(i) ==
    /\ answer = "none"
    /\ Running = {i}
    /\ \E err \in {"failed", "cancelled"} :
        /\ err = "cancelled" => cancelled
        /\ phase' = [phase EXCEPT ![i] = err]
        /\ answer' = err
    /\ UNCHANGED <<call, cancelled>>

Next ==
    \/ Cancel
    \/ \E i \in Items : Begin(i) \/ Finish(i) \/ FinishAndAnswer(i)
    \/ Answer

Spec == Init /\ [][Next]_vars
=============================================================================
