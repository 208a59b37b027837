----------------------------- MODULE FanOut_proofs -----------------------------
(***************************************************************************)
(* Theorems about the two functions called forEachParallel, for every      *)
(* number of items and every concurrency.                                  *)
(*                                                                         *)
(* That of internal/forge/client.go: ControlInv relates the loop's         *)
(* position to the items it has passed and to the errors recorded; with    *)
(* it, SlotsMatchHolders (the tokens) is inductive.                        *)
(*                                                                         *)
(* That of internal/backup/sync.go, with the race on firstErr and the      *)
(* cancelled select as they are: what it keeps in spite of them.  RacyInv  *)
(* says which items the loop has passed and what became of them;           *)
(* TokensShort, that at most one goroutine has no token.                   *)
(***************************************************************************)
EXTENDS ForgeFanOut, FiniteSetTheorems, TLAPS

Backup == INSTANCE BackupFanOut

-----------------------------------------------------------------------------
(* The fan-out of the forge package. *)

\* The items before next have begun, those after it have not.
InOrder ==
    /\ \A i \in Items : i < next => invocation[i] # "idle"
    /\ \A i \in Items : i > next => invocation[i] = "idle"
    /\ \A i \in Items : i = next /\ invocation[i] # "idle" =>
            Sequential /\ pc \in {"seqFn", "returned"}

\* An outcome is recorded exactly when fn has returned.
OutcomeOnReturn ==
    \A i \in Items : outcome[i] = "none" <=> invocation[i] \in {"idle", "running"}

\* firstErr and the outcomes tell the same story.
ErrorsRecorded ==
    /\ Sequential => firstErr = "nil" /\ \A i \in Items : i < next => outcome[i] = "nil"
    /\ ~Sequential => \A i \in Items : outcome[i] \in Errors => firstErr # "nil"
    /\ firstErr = "failed" => \E i \in Items : outcome[i] = "failed"
    /\ firstErr = "cancelled" => cancelled
    /\ \A i \in Items : outcome[i] = "cancelled" => cancelled
    /\ pc = "wait" /\ next <= call.items => firstErr # "nil"

\* Which path the call is on, and what it has left running.
PathOK ==
    /\ pc \in {"seqTop", "seqCall", "seqFn"} => Sequential
    /\ pc \in {"top", "errCheck", "select", "recheck", "launch", "wait"} => ~Sequential
    /\ pc \in {"seqCall", "seqFn", "errCheck", "select", "recheck", "launch"} => next \in Items
    /\ pc = "seqFn" => invocation[next] = "running"
    /\ Sequential => \A i \in Items :
            /\ invocation[i] # "releasing"
            /\ invocation[i] = "running" => pc = "seqFn" /\ i = next
    /\ pc = "returned" => \A i \in Items : invocation[i] \in {"idle", "done"}
    /\ result = "none" <=> pc # "returned"

\* Where the loop can be once an invocation has begun late.
LateStartInv ==
    /\ lateStarts \in {0, 1}
    /\ lateStarts = 1 /\ Sequential => cancelled /\ pc \in {"seqFn", "seqTop", "returned"}
    /\ lateStarts = 1 /\ ~Sequential =>
            /\ Stopping
            /\ \/ pc \in {"top", "wait", "returned"}
               \/ pc = "errCheck" /\ firstErr # "nil"

AnswerOK ==
    /\ result = "nil" => \A i \in Items : outcome[i] = "nil"
    /\ result = "failed" => \E i \in Items : outcome[i] = "failed"
    /\ result = "cancelled" => cancelled

ControlInv ==
    /\ TypeOK
    /\ InOrder
    /\ OutcomeOnReturn
    /\ ErrorsRecorded
    /\ PathOK
    /\ LateStartInv
    /\ AnswerOK

-----------------------------------------------------------------------------
LEMMA ArgumentTypes ==
    ASSUME call \in Calls
    PROVE  call.items \in Nat /\ call.concurrency \in Int /\ Limit \in Nat /\ Limit > 0
<1>1. call.items \in 0..MaxItems /\ call.concurrency \in Concurrencies
      BY DEF Calls
<1>2. call.items \in Nat
      BY <1>1, FanOutAssumption
<1>3. call.concurrency \in Int
      BY <1>1, FanOutAssumption
<1> QED
    BY <1>2, <1>3 DEF Limit

\* No step changes the arguments, nor what follows from them alone.
LEMMA ArgumentsKept ==
    ASSUME [Next]_vars
    PROVE  /\ call' = call /\ Items' = Items /\ Limit' = Limit
           /\ Sequential' = Sequential /\ Items = 1..call.items
<1>1. call' = call
      BY DEF Next, vars, Cancel, SequentialStep, SeqTop, SeqCall, SeqFnReturns, LoopStep,
             TopOfLoop, ErrCheck, TakeSlot, SelectCancelled, Recheck, Launch, WaitAndReturn,
             WorkerStep, FnReturns, ReleaseSlot
<1> QED
    BY <1>1 DEF Items, Limit, Sequential

LEMMA ControlInit == Init => ControlInv
BY ArgumentTypes
DEF Init, ControlInv, TypeOK, InOrder, OutcomeOnReturn, ErrorsRecorded, PathOK,
    LateStartInv, AnswerOK, Items, Errors, Stopping

LEMMA ControlStep == ControlInv /\ [Next]_vars => ControlInv'
<1> SUFFICES ASSUME ControlInv, [Next]_vars
             PROVE  ControlInv'
    OBVIOUS
<1>a. /\ call' = call /\ Items' = Items /\ Limit' = Limit
      /\ Sequential' = Sequential /\ Items = 1..call.items
      BY ArgumentsKept
<1>b. call.items \in Nat /\ Limit \in Nat /\ Limit > 0 /\ call \in Calls
      BY ArgumentTypes DEF ControlInv, TypeOK
<1> USE <1>a, <1>b
    DEF ControlInv, TypeOK, InOrder, OutcomeOnReturn, ErrorsRecorded, PathOK,
        LateStartInv, AnswerOK, Errors, Stopping
<1>1. CASE Cancel
      BY <1>1 DEF Cancel
<1>2. CASE SeqTop
      BY <1>2 DEF SeqTop
<1>3. CASE SeqCall
      BY <1>3 DEF SeqCall, Begin
<1>4. CASE SeqFnReturns
  <2>1. next \in Items /\ Sequential /\ pc = "seqFn" /\ firstErr = "nil"
        BY <1>4 DEF SeqFnReturns
  <2>2. PICK err \in FnResults :
            /\ outcome' = [outcome EXCEPT ![next] = err]
            /\ \/ err = "nil" /\ next' = next + 1 /\ pc' = "seqTop" /\ UNCHANGED result
               \/ err # "nil" /\ result' = err /\ pc' = "returned" /\ UNCHANGED next
        BY <1>4 DEF SeqFnReturns
  <2>3. /\ invocation' = [invocation EXCEPT ![next] = "done"]
        /\ UNCHANGED <<slots, firstErr, cancelled, lateStarts>>
        BY <1>4 DEF SeqFnReturns
  <2>4. CASE err = "nil"
        BY <2>1, <2>2, <2>3, <2>4
  <2>5. CASE err # "nil"
    <3>1. err \in Errors /\ (err = "cancelled" => cancelled)
          BY <2>5 DEF FnResults
    <3>2. result' = err /\ pc' = "returned" /\ next' = next
          BY <2>2, <2>5
    <3>3. TypeOK'
          BY <2>1, <2>2, <2>3, <3>1, <3>2
    <3>4. InOrder' /\ OutcomeOnReturn'
          BY <2>1, <2>2, <2>3, <3>1, <3>2
    <3>5. ErrorsRecorded' /\ AnswerOK'
          BY <2>1, <2>2, <2>3, <3>1, <3>2
    <3>6. PathOK'
      <4>1. \A i \in Items : invocation'[i] \in {"idle", "done"}
            BY <2>1, <2>3
      <4>2. result' # "none" /\ pc' = "returned"
            BY <3>1, <3>2
      <4> QED
          BY <4>1, <4>2
    <3>7. LateStartInv'
          BY <2>1, <2>3, <3>1, <3>2
    <3> QED
        BY <3>3, <3>4, <3>5, <3>6, <3>7
  <2> QED
      BY <2>4, <2>5
<1>5. CASE TopOfLoop
      BY <1>5 DEF TopOfLoop, Fail
<1>6. CASE ErrCheck
      BY <1>6 DEF ErrCheck
<1>7. CASE TakeSlot("recheck")
      BY <1>7 DEF TakeSlot
<1>8. CASE SelectCancelled("recheck")
      BY <1>8 DEF SelectCancelled, Fail
<1>9. CASE Recheck
      BY <1>9 DEF Recheck
<1>10. CASE Launch
      BY <1>10 DEF Launch, Begin
<1>11. CASE WaitAndReturn
      BY <1>11 DEF WaitAndReturn
<1>12. ASSUME NEW i \in Items, FnReturns(i)
       PROVE  ControlInv'
      BY <1>12 DEF FnReturns, FnResults, Fail
<1>13. ASSUME NEW i \in Items, ReleaseSlot(i)
       PROVE  ControlInv'
      BY <1>13 DEF ReleaseSlot
<1>14. CASE UNCHANGED vars
      BY <1>14 DEF vars
<1> QED
    BY <1>1, <1>2, <1>3, <1>4, <1>5, <1>6, <1>7, <1>8, <1>9, <1>10, <1>11, <1>12, <1>13, <1>14
    DEF Next, SequentialStep, LoopStep, WorkerStep
-----------------------------------------------------------------------------
(* The tokens. *)

LEMMA HoldersFinite ==
    ASSUME call \in Calls
    PROVE  IsFiniteSet(Holders) /\ Cardinality(Holders) \in Nat
<1>1. IsFiniteSet(Items)
      BY FS_Interval, ArgumentTypes DEF Items
<1>2. Holders \subseteq Items
      BY DEF Holders
<1> QED
    BY <1>1, <1>2, FS_Subset, FS_CardinalityType

LEMMA SlotsInit == Init => SlotsMatchHolders
<1> SUFFICES ASSUME Init PROVE SlotsMatchHolders
    OBVIOUS
<1>1. Holders = {}
      BY DEF Init, Holders
<1> QED
    BY <1>1, FS_EmptySet DEF Init, SlotsMatchHolders

LEMMA SlotsStep == ControlInv /\ SlotsMatchHolders /\ [Next]_vars => SlotsMatchHolders'
<1> SUFFICES ASSUME ControlInv, SlotsMatchHolders, [Next]_vars
             PROVE  SlotsMatchHolders'
    OBVIOUS
<1>a. /\ call' = call /\ Items' = Items /\ Limit' = Limit
      /\ Sequential' = Sequential /\ call \in Calls
      BY ArgumentsKept DEF ControlInv, TypeOK
<1> USE <1>a, HoldersFinite DEF ControlInv, TypeOK, PathOK, SlotsMatchHolders
<1>1. CASE Holders' = Holders /\ slots' = slots /\ UNCHANGED firstErr /\ pc' = pc
      BY <1>1
<1>2. CASE Cancel \/ UNCHANGED vars
      BY <1>1, <1>2 DEF Cancel, vars, Holders
<1>3. CASE SeqTop
  <2>1. Holders' = Holders
        BY <1>3 DEF SeqTop, Holders
  <2> QED
      BY <1>3, <2>1 DEF SeqTop
<1>4. CASE SeqCall
      BY <1>4 DEF SeqCall
<1>5. CASE SeqFnReturns
      BY <1>5 DEF SeqFnReturns
<1>6. CASE TopOfLoop
  <2>1. Holders' = Holders
        BY <1>6 DEF TopOfLoop, Holders
  <2> QED
      BY <1>6, <2>1 DEF TopOfLoop
<1>7. CASE ErrCheck \/ Recheck
  <2>1. Holders' = Holders
        BY <1>7 DEF ErrCheck, Recheck, Holders
  <2> QED
      BY <1>7, <2>1 DEF ErrCheck, Recheck
<1>8. CASE TakeSlot("recheck") \/ SelectCancelled("recheck")
  <2>1. Holders' = Holders
        BY <1>8 DEF TakeSlot, SelectCancelled, Holders
  <2>2. SelectCancelled("recheck") => firstErr' # "nil"
        BY DEF SelectCancelled, Fail
  <2> QED
      BY <1>8, <2>1, <2>2 DEF TakeSlot, SelectCancelled
<1>9. CASE Launch
  <2>1. next \in Items /\ next \notin Holders
        BY <1>9 DEF Launch, InOrder, Holders
  <2>2. Holders' = Holders \cup {next}
        BY <1>9, <2>1 DEF Launch, Begin, Holders
  <2>3. Cardinality(Holders') = Cardinality(Holders) + 1
        BY <2>1, <2>2, FS_AddElement
  <2> QED
      BY <1>9, <2>3 DEF Launch
<1>10. CASE WaitAndReturn
  <2>1. Holders' = Holders
        BY <1>10 DEF WaitAndReturn, Holders
  <2> QED
      BY <1>10, <2>1 DEF WaitAndReturn
<1>11. ASSUME NEW i \in Items, FnReturns(i)
       PROVE  SlotsMatchHolders'
  <2>1. Holders' = Holders
        BY <1>11 DEF FnReturns, Holders
  <2>2. firstErr # "nil" => firstErr' # "nil"
        BY <1>11 DEF FnReturns, Fail
  <2> QED
      BY <1>11, <2>1, <2>2 DEF FnReturns
<1>12. ASSUME NEW i \in Items, ReleaseSlot(i)
       PROVE  SlotsMatchHolders'
  <2>1. i \in Holders
        BY <1>12 DEF ReleaseSlot, Holders
  <2>2. Holders' = Holders \ {i}
        BY <1>12 DEF ReleaseSlot, Holders
  <2>3. Cardinality(Holders') = Cardinality(Holders) - 1
        BY <2>1, <2>2, FS_RemoveElement
  <2>4. ~Sequential /\ pc # "returned"
        BY <1>12 DEF ReleaseSlot
  <2> QED
      BY <1>12, <2>3, <2>4 DEF ReleaseSlot
<1> QED
    BY <1>2, <1>3, <1>4, <1>5, <1>6, <1>7, <1>8, <1>9, <1>10, <1>11, <1>12
    DEF Next, SequentialStep, LoopStep, WorkerStep

\* The tokens bound the invocations of the parallel path, the program order
\* that of the sequential one.
LEMMA BoundFromSlots == ControlInv /\ SlotsMatchHolders => BoundedInFlight
<1> SUFFICES ASSUME ControlInv, SlotsMatchHolders PROVE Cardinality(InFlight) <= Limit
    BY DEF BoundedInFlight
<1> USE ArgumentTypes, HoldersFinite DEF ControlInv, TypeOK, PathOK
<1>1. IsFiniteSet(InFlight) /\ Cardinality(InFlight) \in Nat
  <2>1. InFlight \subseteq Holders
        BY DEF InFlight, Holders
  <2> QED
      BY <2>1, FS_Subset, FS_CardinalityType
<1>2. CASE Sequential
  <2>1. InFlight \subseteq {next}
        BY <1>2 DEF InFlight
  <2>2. Cardinality(InFlight) <= 1
    <3>1. IsFiniteSet({next}) /\ Cardinality({next}) = 1
          BY FS_Singleton
    <3> QED
        BY <2>1, <3>1, FS_Subset
  <2> QED
      BY <1>1, <2>2
<1>3. CASE ~Sequential
  <2>1. Cardinality(InFlight) <= Cardinality(Holders)
    <3>1. InFlight \subseteq Holders
          BY DEF InFlight, Holders
    <3> QED
        BY <3>1, FS_Subset
  <2>2. Cardinality(Holders) <= slots
        BY <1>3 DEF SlotsMatchHolders
  <2> QED
      BY <1>1, <2>1, <2>2
<1> QED
    BY <1>2, <1>3

-----------------------------------------------------------------------------
(* The theorems. *)

\* The variables keep their types, whatever fn returns and whenever ctx is
\* cancelled; in particular the channel never holds more than concurrency tokens.
THEOREM TypeCorrect == Spec => []TypeOK
<1>1. ControlInv => TypeOK
      BY DEF ControlInv
<1> QED
    BY <1>1, ControlInit, ControlStep, PTL DEF Spec

\* Tokens and goroutines match at every point of the loop.
THEOREM TokensMatch == Spec => []SlotsMatchHolders
BY ControlInit, ControlStep, SlotsInit, SlotsStep, PTL DEF Spec

\* At most concurrency invocations of fn are in flight (client.go:330).
THEOREM InFlightBounded == Spec => []BoundedInFlight
BY ControlInit, ControlStep, SlotsInit, SlotsStep, BoundFromSlots, PTL DEF Spec

\* A goroutine that has called fn finds a token to give back: the deferred
\* receive of client.go:389 never blocks, so wg.Wait is not held up.
ReleaseNeverBlocks == \A i \in Items : invocation[i] = "releasing" => slots > 0

THEOREM TokenForEveryRelease == Spec => []ReleaseNeverBlocks
<1>1. ControlInv /\ SlotsMatchHolders => ReleaseNeverBlocks
  <2> SUFFICES ASSUME ControlInv, SlotsMatchHolders,
                      NEW i \in Items, invocation[i] = "releasing"
               PROVE  slots > 0
      BY DEF ReleaseNeverBlocks
  <2>1. Cardinality(Holders) > 0
    <3>1. i \in Holders
          BY DEF Holders
    <3> QED
        BY <3>1, HoldersFinite, FS_EmptySet DEF ControlInv, TypeOK
  <2>2. ~Sequential /\ pc # "returned"
        BY DEF ControlInv, PathOK
  <2> QED
      BY <2>1, <2>2, HoldersFinite DEF ControlInv, PathOK, TypeOK, SlotsMatchHolders
<1> QED
    BY <1>1, ControlInit, ControlStep, SlotsInit, SlotsStep, PTL DEF Spec

\* A nil answer speaks for every item.
THEOREM NilIsComplete == Spec => []NilMeansAllDone
<1>1. ControlInv => NilMeansAllDone
      BY DEF ControlInv, AnswerOK, NilMeansAllDone
<1> QED
    BY <1>1, ControlInit, ControlStep, PTL DEF Spec

\* After a failure or a cancellation at most one more invocation begins.
THEOREM LateStartBounded == Spec => []AtMostOneLateStart
<1>1. ControlInv => AtMostOneLateStart
      BY DEF ControlInv, LateStartInv, AtMostOneLateStart
<1> QED
    BY <1>1, ControlInit, ControlStep, PTL DEF Spec
-----------------------------------------------------------------------------
(* The refinement: every step of the loop and of its goroutines is a step  *)
(* of ParallelFor or leaves its three variables alone.                     *)

LEMMA RefinementInit == Init => PF!Init
BY DEF Init, PF!Init, phase, PF!Items, Items

LEMMA SameCardinality == ASSUME NEW S PROVE PF!Cardinality(S) = Cardinality(S)
BY DEF PF!Cardinality, Cardinality, PF!IsFiniteSet, IsFiniteSet

LEMMA RunningIsInFlight == ControlInv => PF!Running = InFlight
BY DEF ControlInv, TypeOK, OutcomeOnReturn, PF!Running, PF!Items, Items, InFlight, phase, Errors

\* A call about to begin is the next one and has room below the bound.
LEMMA BeginAllowed ==
    ASSUME ControlInv, SlotsMatchHolders, pc \in {"launch", "seqCall"},
           Begin(next), call' = call, result' = result, cancelled' = cancelled, outcome' = outcome
    PROVE  PF!Begin(next)
<1> USE ArgumentTypes, HoldersFinite DEF ControlInv, TypeOK, PathOK
<1>1. next \in Items /\ result = "none"
      OBVIOUS
<1>2. invocation[next] = "idle"
      BY <1>1 DEF InOrder
<1>3. phase[next] = "idle"
      BY <1>1, <1>2 DEF phase, OutcomeOnReturn
<1>4. \A j \in 1..(next - 1) : phase[j] # "idle"
  <2> SUFFICES ASSUME NEW j \in 1..(next - 1) PROVE phase[j] # "idle"
      OBVIOUS
  <2>1. j \in Items /\ invocation[j] # "idle"
        BY <1>1, FanOutAssumption DEF InOrder, Items
  <2> QED
      BY <2>1 DEF phase, OutcomeOnReturn, Errors
<1>5. Cardinality(PF!Running) < Limit
  <2>1. PF!Running = InFlight
        BY RunningIsInFlight
  <2>2. CASE pc = "launch"
    <3>1. InFlight \subseteq Holders
          BY DEF InFlight, Holders
    <3>2. IsFiniteSet(InFlight) /\ Cardinality(InFlight) \in Nat
          BY <3>1, FS_Subset, FS_CardinalityType
    <3>3. Cardinality(InFlight) <= Cardinality(Holders)
          BY <3>1, FS_Subset
    <3>4. Cardinality(Holders) + 1 = slots
          BY <2>2 DEF SlotsMatchHolders
    <3> QED
        BY <2>1, <3>2, <3>3, <3>4
  <2>3. CASE pc = "seqCall"
    <3>1. InFlight = {}
          BY <2>3 DEF InFlight
    <3> QED
        BY <2>1, <3>1, FS_EmptySet
  <2> QED
      BY <2>2, <2>3
<1>6. phase' = [phase EXCEPT ![next] = "running"]
  <2>1. Items' = Items
        BY DEF Items
  <2> QED
      BY <1>1, <1>2, <2>1 DEF Begin, phase, OutcomeOnReturn
<1> QED
  <2>1. /\ result = "none" /\ phase[next] = "idle"
        /\ \A j \in 1..(next - 1) : phase[j] # "idle"
        /\ Cardinality(PF!Running) < Limit
        /\ phase' = [phase EXCEPT ![next] = "running"]
        /\ UNCHANGED <<call, cancelled, result>>
        BY <1>1, <1>3, <1>4, <1>5, <1>6
  <2> HIDE DEF ControlInv, TypeOK, PathOK
  <2> QED
      BY <2>1, SameCardinality DEF PF!Begin, PF!Limit, Limit

LEMMA RefinementStep ==
    ControlInv /\ ControlInv' /\ SlotsMatchHolders /\ [Next]_vars => [PF!Next]_(PF!vars)
<1> SUFFICES ASSUME ControlInv, ControlInv', SlotsMatchHolders, [Next]_vars
             PROVE  [PF!Next]_(PF!vars)
    OBVIOUS
<1>a. call' = call /\ Items' = Items /\ PF!Items = Items /\ call \in Calls
      BY ArgumentsKept DEF PF!Items, Items, ControlInv, TypeOK
<1> USE <1>a DEF ControlInv, TypeOK, PathOK, PF!vars
<1>1. ASSUME UNCHANGED <<invocation, outcome, result, cancelled>>
      PROVE  UNCHANGED PF!vars
      BY <1>1 DEF phase
<1>2. CASE Cancel
  <2>1. UNCHANGED phase
        BY <1>2 DEF Cancel, phase
  <2>2. PF!Cancel
        BY <1>2, <2>1 DEF Cancel, PF!Cancel
  <2> QED
      BY <2>2 DEF PF!Next
<1>3. ASSUME result = "none", PF!Running = {}, UNCHANGED <<invocation, outcome, cancelled>>,
             result' \in {"nil", "failed", "cancelled"}
      PROVE  PF!Next
  <2>1. UNCHANGED phase
        BY <1>3 DEF phase
  <2>2. PF!Truthful(result')
        BY <1>3 DEF PF!Truthful, AnswerOK, phase, Errors
  <2>3. PF!Answer
        BY <1>3, <2>1, <2>2 DEF PF!Answer
  <2> QED
      BY <2>3 DEF PF!Next
<1>4. CASE SeqTop
  <2>1. CASE pc' = "returned"
    <3>1. PF!Running = {}
          BY <1>4, RunningIsInFlight DEF SeqTop, InFlight
    <3> QED
        BY <1>3, <1>4, <2>1, <3>1 DEF SeqTop
  <2>2. CASE pc' # "returned"
        BY <1>1, <1>4, <2>2 DEF SeqTop
  <2> QED
      BY <2>1, <2>2
<1>5. CASE SeqCall
  <2>1. PF!Begin(next) /\ next \in Items
        BY <1>5, BeginAllowed DEF SeqCall
  <2> QED
      BY <2>1 DEF PF!Next
<1>6. CASE SeqFnReturns
  <2>1. next \in Items /\ phase[next] = "running"
        BY <1>6 DEF SeqFnReturns, phase, OutcomeOnReturn
  <2>2. PF!Running = {next}
    <3>1. InFlight = {next}
          BY <1>6, <2>1 DEF SeqFnReturns, InFlight
    <3> QED
        BY <3>1, RunningIsInFlight
  <2>3. PICK err \in FnResults :
            /\ outcome' = [outcome EXCEPT ![next] = err]
            /\ \/ err = "nil" /\ UNCHANGED result
               \/ err # "nil" /\ result' = err
        BY <1>6 DEF SeqFnReturns
  <2>4. invocation' = [invocation EXCEPT ![next] = "done"] /\ result = "none" /\ UNCHANGED cancelled
        BY <1>6 DEF SeqFnReturns
  <2>5. phase' = [phase EXCEPT ![next] = err]
        BY <2>1, <2>3, <2>4 DEF phase, FnResults, OutcomeOnReturn
  <2>6. CASE err = "nil"
    <3>1. PF!Finish(next)
          BY <2>1, <2>3, <2>4, <2>5, <2>6 DEF PF!Finish
    <3> QED
        BY <2>1, <3>1 DEF PF!Next
  <2>7. CASE err # "nil"
    <3>1. PF!FinishAndAnswer(next)
          BY <2>2, <2>3, <2>4, <2>5, <2>7 DEF PF!FinishAndAnswer, FnResults
    <3> QED
        BY <2>1, <3>1 DEF PF!Next
  <2> QED
      BY <2>6, <2>7
<1>7. CASE TopOfLoop \/ ErrCheck \/ TakeSlot("recheck") \/ SelectCancelled("recheck") \/ Recheck
      BY <1>1, <1>7 DEF TopOfLoop, ErrCheck, TakeSlot, SelectCancelled, Recheck
<1>8. CASE Launch
  <2>1. PF!Begin(next) /\ next \in Items
        BY <1>8, BeginAllowed DEF Launch
  <2> QED
      BY <2>1 DEF PF!Next
<1>9. CASE WaitAndReturn
  <2>1. PF!Running = {}
        BY <1>9, RunningIsInFlight DEF WaitAndReturn, InFlight
  <2>2. result' \in {"nil", "failed", "cancelled"}
        BY <1>9 DEF WaitAndReturn, Errors
  <2> QED
      BY <1>3, <1>9, <2>1, <2>2 DEF WaitAndReturn
<1>10. ASSUME NEW i \in Items, FnReturns(i)
       PROVE  PF!Next
  <2>1. PICK err \in FnResults : outcome' = [outcome EXCEPT ![i] = err]
        BY <1>10 DEF FnReturns
  <2>2. phase[i] = "running"
        BY <1>10 DEF FnReturns, phase, OutcomeOnReturn
  <2>3. phase' = [phase EXCEPT ![i] = err]
        BY <1>10, <2>1 DEF FnReturns, phase, FnResults, OutcomeOnReturn
  <2>4. PF!Finish(i)
        BY <1>10, <2>1, <2>2, <2>3 DEF FnReturns, PF!Finish, FnResults
  <2> QED
      BY <2>4 DEF PF!Next
<1>11. ASSUME NEW i \in Items, ReleaseSlot(i)
       PROVE  UNCHANGED PF!vars
  <2>1. outcome[i] # "none"
        BY <1>11 DEF ReleaseSlot, OutcomeOnReturn
  <2>2. UNCHANGED phase
        BY <1>11, <2>1 DEF ReleaseSlot, phase
  <2> QED
      BY <1>11, <2>2 DEF ReleaseSlot
<1>12. CASE UNCHANGED vars
      BY <1>1, <1>12 DEF vars
<1> QED
    BY <1>2, <1>4, <1>5, <1>6, <1>7, <1>8, <1>9, <1>10, <1>11, <1>12
    DEF Next, SequentialStep, LoopStep, WorkerStep

\* forEachParallel of the forge package is the parallel loop its comment
\* describes: bound, order, and an answer that is true of every item.
THEOREM Refinement == Spec => ImplementsParallelFor
BY RefinementInit, RefinementStep, ControlInit, ControlStep, SlotsInit, SlotsStep, PTL
DEF Spec, ImplementsParallelFor, PF!Spec

-----------------------------------------------------------------------------
(* The fan-out of the backup package, in the terms of the machinery that   *)
(* the two share.                                                          *)

RacyLoop ==
    \/ TopOfLoop
    \/ Backup!ErrCheck
    \/ TakeSlot("launch")
    \/ SelectCancelled("launch")
    \/ Launch
    \/ WaitAndReturn

RacyNext ==
    \/ Cancel
    \/ SequentialStep
    \/ RacyLoop
    \/ \E i \in Items : WorkerStep(i)

LEMMA RacySpec == Backup!Spec => Init /\ [][RacyNext]_vars
<1>1. Backup!Init => Init
  BY DEF Backup!Init, Init, Backup!Calls, Calls, Backup!Sequential, Sequential, Backup!Limit, Limit,
         Backup!Items, Items
<1>2. [Backup!Next]_(Backup!vars) => [RacyNext]_vars
  <2>. USE DEF Backup!Fail, Fail, Backup!Begin, Begin, Backup!Stopping, Stopping,
               Backup!FnResults, FnResults, Backup!Limit, Limit, Backup!Items, Items
  <2>1. Backup!Cancel => Cancel
    BY DEF Backup!Cancel, Cancel
  <2>2. Backup!SequentialStep => SequentialStep
    BY DEF Backup!SequentialStep, SequentialStep, Backup!SeqTop, SeqTop, Backup!SeqCall, SeqCall,
           Backup!SeqFnReturns, SeqFnReturns
  <2>3. Backup!LoopStep => RacyLoop
    BY DEF Backup!LoopStep, RacyLoop, Backup!TopOfLoop, TopOfLoop, Backup!TakeSlot, TakeSlot,
           Backup!SelectCancelled, SelectCancelled, Backup!Launch, Launch,
           Backup!WaitAndReturn, WaitAndReturn
  <2>4. ASSUME NEW i \in Items, Backup!WorkerStep(i) PROVE WorkerStep(i)
    BY <2>4 DEF Backup!WorkerStep, WorkerStep, Backup!FnReturns, FnReturns, Backup!ReleaseSlot,
                ReleaseSlot, Backup!Sequential, Sequential
  <2>5. UNCHANGED Backup!vars => UNCHANGED vars
    BY DEF Backup!vars, vars
  <2>. QED
    BY <2>1, <2>2, <2>3, <2>4, <2>5 DEF Backup!Next, RacyNext
<1>. QED
  BY <1>1, <1>2, PTL DEF Backup!Spec

\* The items before next have begun, those after it have not.
RacyOrder ==
    /\ \A i \in Items : i < next => invocation[i] # "idle"
    /\ \A i \in Items : i > next => invocation[i] = "idle"
    /\ ~Sequential \/ pc \in {"seqTop", "seqCall"} =>
            \A i \in Items : i = next => invocation[i] = "idle"

\* Every item passed has an outcome or is on its way, and a bad outcome is
\* recorded: in firstErr, or on the sequential path by ending the loop.
RacyErrors ==
    /\ \A i \in Items : outcome[i] = "none" => invocation[i] \in {"idle", "running"}
    /\ Sequential => \A i \in Items : i < next => outcome[i] = "nil"
    /\ ~Sequential => \A i \in Items : outcome[i] \in Errors => firstErr # "nil"
    /\ pc = "wait" /\ next <= call.items => firstErr # "nil"

\* Which path the call is on, and what it has running.
RacyPath ==
    /\ pc \in {"seqTop", "seqCall", "seqFn"} => Sequential
    /\ pc \in {"top", "errCheck", "select", "launch", "wait"} => ~Sequential
    /\ pc \in {"seqCall", "seqFn", "errCheck", "select", "launch"} => next \in Items
    /\ pc = "seqFn" => invocation[next] = "running"
    /\ Sequential => \A i \in Items : invocation[i] = "running" => pc = "seqFn" /\ i = next
    /\ Sequential => \A i \in Items : invocation[i] # "releasing"
    /\ pc = "returned" => \A i \in Items : invocation[i] \in {"idle", "done"}
    /\ result = "none" <=> pc # "returned"
    /\ pc # "recheck"

RacyInv == TypeOK /\ RacyOrder /\ RacyErrors /\ RacyPath /\ NilMeansAllDone

-----------------------------------------------------------------------------
\* No step changes the arguments, nor what follows from them alone.
LEMMA RacyArguments ==
    ASSUME [RacyNext]_vars
    PROVE  /\ call' = call /\ Items' = Items /\ Limit' = Limit
           /\ Sequential' = Sequential /\ Items = 1..call.items
<1>1. call' = call
  BY DEF RacyNext, vars, Cancel, SequentialStep, SeqTop, SeqCall, SeqFnReturns, RacyLoop,
         TopOfLoop, Backup!ErrCheck, TakeSlot, SelectCancelled, Launch, WaitAndReturn,
         WorkerStep, FnReturns, ReleaseSlot
<1>. QED
  BY <1>1 DEF Items, Limit, Sequential

LEMMA RacyInit == Init => RacyInv
BY ArgumentTypes
DEF Init, RacyInv, TypeOK, RacyOrder, RacyErrors, RacyPath, NilMeansAllDone, Items, Errors

\* The loop reads firstErr in a race, but what it relies on is that an item it
\* passes over has left an error behind.
LEMMA RacyInvStep == RacyInv /\ [RacyNext]_vars => RacyInv'
<1> SUFFICES ASSUME RacyInv, [RacyNext]_vars PROVE RacyInv'
    OBVIOUS
<1>a. /\ call' = call /\ Items' = Items /\ Limit' = Limit
      /\ Sequential' = Sequential /\ Items = 1..call.items
  BY RacyArguments
<1>b. call.items \in Nat /\ Limit \in Nat /\ Limit > 0 /\ call \in Calls
  BY ArgumentTypes DEF RacyInv, TypeOK
<1> USE <1>a, <1>b DEF RacyInv, TypeOK, RacyOrder, RacyErrors, RacyPath, NilMeansAllDone, Errors
<1>1. CASE Cancel
  BY <1>1 DEF Cancel
<1>2. CASE UNCHANGED vars
  BY <1>2 DEF vars
<1>3. CASE SeqTop
  BY <1>3 DEF SeqTop
<1>4. CASE SeqCall
  BY <1>4 DEF SeqCall, Begin
<1>5. CASE SeqFnReturns
  <2>1. PICK err \in FnResults :
            /\ outcome' = [outcome EXCEPT ![next] = err]
            /\ \/ err = "nil" /\ next' = next + 1 /\ pc' = "seqTop" /\ UNCHANGED result
               \/ err # "nil" /\ result' = err /\ pc' = "returned" /\ UNCHANGED next
    BY <1>5 DEF SeqFnReturns
  <2>2. /\ next \in Items /\ Sequential /\ pc = "seqFn"
        /\ invocation' = [invocation EXCEPT ![next] = "done"]
        /\ UNCHANGED <<slots, firstErr, cancelled, lateStarts>>
    BY <1>5 DEF SeqFnReturns
  <2>3. CASE err = "nil"
    BY <2>1, <2>2, <2>3
  <2>4. CASE err # "nil"
    <3>1. err \in Errors
      BY <2>4 DEF FnResults
    <3>2. result' = err /\ pc' = "returned" /\ next' = next
      BY <2>1, <2>4
    <3>3. TypeOK'
      BY <2>1, <2>2, <3>1, <3>2
    <3>4. RacyOrder' /\ RacyErrors' /\ NilMeansAllDone'
      BY <2>1, <2>2, <3>1, <3>2
    <3>5. RacyPath'
      BY <2>2, <3>1, <3>2
    <3>. QED
      BY <3>3, <3>4, <3>5
  <2>. QED
    BY <2>3, <2>4
<1>6. CASE TopOfLoop
  BY <1>6 DEF TopOfLoop, Fail
<1>7. CASE Backup!ErrCheck
  BY <1>7 DEF Backup!ErrCheck
<1>8. CASE TakeSlot("launch")
  BY <1>8 DEF TakeSlot
<1>9. CASE SelectCancelled("launch")
  BY <1>9 DEF SelectCancelled, Fail
<1>10. CASE Launch
  BY <1>10 DEF Launch, Begin
<1>11. CASE WaitAndReturn
  BY <1>11 DEF WaitAndReturn
<1>12. ASSUME NEW i \in Items, FnReturns(i) PROVE RacyInv'
  BY <1>12 DEF FnReturns, FnResults, Fail
<1>13. ASSUME NEW i \in Items, ReleaseSlot(i) PROVE RacyInv'
  BY <1>13 DEF ReleaseSlot
<1>. QED
  BY <1>1, <1>2, <1>3, <1>4, <1>5, <1>6, <1>7, <1>8, <1>9, <1>10, <1>11, <1>12, <1>13
  DEF RacyNext, SequentialStep, RacyLoop, WorkerStep

-----------------------------------------------------------------------------
(* The tokens. *)

\* Once a goroutine has begun without a token, ctx is cancelled and the loop gets
\* no further than its next look at it; so there is no second one.
TokensShort ==
    LET held == Cardinality(Holders) IN
    /\ pc = "top" => held = slots \/ (held = slots + 1 /\ cancelled)
    /\ pc \in {"errCheck", "select"} => held = slots
    /\ pc = "launch" => held = slots - 1 \/ (held = slots /\ cancelled)
    /\ pc \in {"wait", "returned"} /\ ~Sequential => held = slots \/ (held = slots + 1 /\ cancelled)

LEMMA TokensInit == Init => TokensShort
<1> SUFFICES ASSUME Init PROVE TokensShort
    OBVIOUS
<1>1. Holders = {}
  BY DEF Init, Holders
<1>. QED
  BY <1>1, FS_EmptySet DEF Init, TokensShort

LEMMA TokensStep == RacyInv /\ TokensShort /\ [RacyNext]_vars => TokensShort'
<1> SUFFICES ASSUME RacyInv, TokensShort, [RacyNext]_vars PROVE TokensShort'
    OBVIOUS
<1>a. /\ call' = call /\ Items' = Items /\ Limit' = Limit
      /\ Sequential' = Sequential /\ call \in Calls
  BY RacyArguments DEF RacyInv, TypeOK
<1> USE <1>a, HoldersFinite DEF RacyInv, TypeOK, RacyPath, TokensShort
<1>1. CASE SequentialStep
  BY <1>1 DEF SequentialStep, SeqTop, SeqCall, SeqFnReturns
<1>2. CASE Cancel \/ UNCHANGED vars
  <2>1. Holders' = Holders
    BY <1>2 DEF Cancel, vars, Holders
  <2>. QED
    BY <1>2, <2>1 DEF Cancel, vars
<1>3. CASE TopOfLoop
  <2>1. Holders' = Holders
    BY <1>3 DEF TopOfLoop, Holders
  <2>. QED
    BY <1>3, <2>1 DEF TopOfLoop
<1>4. CASE Backup!ErrCheck \/ WaitAndReturn
  <2>1. Holders' = Holders
    BY <1>4 DEF Backup!ErrCheck, WaitAndReturn, Holders
  <2>. QED
    BY <1>4, <2>1 DEF Backup!ErrCheck, WaitAndReturn
<1>5. CASE TakeSlot("launch") \/ SelectCancelled("launch")
  <2>1. Holders' = Holders
    BY <1>5 DEF TakeSlot, SelectCancelled, Holders
  <2>. QED
    BY <1>5, <2>1 DEF TakeSlot, SelectCancelled
<1>6. CASE Launch
  <2>1. next \in Items /\ next \notin Holders
    BY <1>6 DEF Launch, RacyOrder, Holders
  <2>2. Holders' = Holders \cup {next}
    BY <1>6, <2>1 DEF Launch, Begin, Holders
  <2>3. Cardinality(Holders') = Cardinality(Holders) + 1
    BY <2>1, <2>2, FS_AddElement
  <2>. QED
    BY <1>6, <2>3 DEF Launch
<1>7. ASSUME NEW i \in Items, FnReturns(i) PROVE TokensShort'
  <2>1. Holders' = Holders
    BY <1>7 DEF FnReturns, Holders
  <2>. QED
    BY <1>7, <2>1 DEF FnReturns
<1>8. ASSUME NEW i \in Items, ReleaseSlot(i) PROVE TokensShort'
  <2>1. i \in Holders /\ Holders' = Holders \ {i}
    BY <1>8 DEF ReleaseSlot, Holders
  <2>2. Cardinality(Holders') = Cardinality(Holders) - 1
    BY <2>1, FS_RemoveElement
  <2>. QED
    BY <1>8, <2>2 DEF ReleaseSlot
<1>. QED
  BY <1>1, <1>2, <1>3, <1>4, <1>5, <1>6, <1>7, <1>8 DEF RacyNext, RacyLoop, WorkerStep

-----------------------------------------------------------------------------
(* The theorems. *)

\* A nil answer means that fn was called for, and returned nil on, every
\* repository: the mirrors of others may be removed (sync.go:248-252).
THEOREM BackupNilIsComplete == Backup!Spec => []NilMeansAllDone
<1>1. RacyInv => NilMeansAllDone
  BY DEF RacyInv
<1>. QED
  BY <1>1, RacyInit, RacyInvStep, RacySpec, PTL

LEMMA SingletonBound ==
    ASSUME NEW x, NEW S, S \subseteq {x}
    PROVE  Cardinality(S) <= 1
<1>1. IsFiniteSet({x}) /\ Cardinality({x}) = 1
  BY FS_Singleton
<1>2. Cardinality(S) <= Cardinality({x})
  BY <1>1, FS_Subset
<1>. QED
  BY <1>1, <1>2

LEMMA ExcessFromTokens == RacyInv /\ TokensShort => AtMostOneExtra
<1> SUFFICES ASSUME RacyInv, TokensShort PROVE Cardinality(InFlight) <= Limit + 1
    BY DEF AtMostOneExtra
<1> USE ArgumentTypes, HoldersFinite DEF RacyInv, TypeOK, RacyPath
<1>1. /\ IsFiniteSet(InFlight) /\ Cardinality(InFlight) \in Nat
      /\ Cardinality(InFlight) <= Cardinality(Holders)
  <2>1. InFlight \subseteq Holders
    BY DEF InFlight, Holders
  <2>. QED
    BY <2>1, FS_Subset, FS_CardinalityType
<1>2. CASE Sequential
  <2>1. InFlight \subseteq {next}
    BY <1>2 DEF InFlight
  <2>2. Cardinality(InFlight) <= 1
    BY <2>1, SingletonBound
  <2>. QED
    BY <1>1, <2>2
<1>3. CASE ~Sequential
  <2>1. Cardinality(Holders) <= slots + 1
    BY <1>3 DEF TokensShort
  <2>. QED
    BY <1>1, <2>1
<1>. QED
  BY <1>2, <1>3

\* fn never has more than one invocation above the bound of sync.go:499 in flight,
\* though the select may be cancelled at any time.
THEOREM ExcessBounded == Backup!Spec => []AtMostOneExtra
BY RacyInit, RacyInvStep, TokensInit, TokensStep, ExcessFromTokens, RacySpec, PTL

-----------------------------------------------------------------------------
(* Neither call goes on for ever, nor waits for what cannot come.          *)

\* What the calling goroutine, and the goroutine of an item, can go on from.
LoopReady ==
    \/ pc \notin {"select", "wait", "returned"}
    \/ pc = "select" /\ (slots < Limit \/ cancelled)
    \/ pc = "wait" /\ \A i \in Items : invocation[i] \in {"idle", "done"}

GoroutineReady(i) ==
    \/ ~Sequential /\ invocation[i] = "running"
    \/ invocation[i] = "releasing" /\ slots > 0

SomeoneReady == LoopReady \/ \E i \in Items : GoroutineReady(i)

\* The hang of the backup package: wg.Wait waits for one goroutine, which waits to
\* take back a token it never put into the channel (sync.go:543, sync.go:549).
WaitsForNoToken ==
    /\ cancelled /\ ~Sequential /\ pc = "wait" /\ slots = 0
    /\ \E i \in Items : invocation[i] = "releasing" /\ Holders = {i}

\* Whoever holds a token can go on as long as there is one to give back.
LEMMA HolderGoesOn ==
    ASSUME TypeOK, ~Sequential, slots > 0, Holders # {}
    PROVE  SomeoneReady
<1>1. PICK i \in Items : invocation[i] \in {"running", "releasing"}
  BY DEF Holders
<1>. QED
  BY <1>1 DEF SomeoneReady, GoroutineReady

\* While the loop is in its last wait, it waits for someone.
LEMMA WaitsForHolders ==
    ASSUME TypeOK, pc = "wait", Holders = {}
    PROVE  SomeoneReady
BY DEF SomeoneReady, LoopReady, Holders, TypeOK

LEMMA ForgeReady == ControlInv /\ SlotsMatchHolders /\ pc # "returned" => SomeoneReady
<1>. SUFFICES ASSUME ControlInv, SlotsMatchHolders, pc # "returned" PROVE SomeoneReady
  OBVIOUS
<1>1. TypeOK /\ slots \in Nat /\ Limit \in Nat /\ Limit > 0
  BY ArgumentTypes DEF ControlInv, TypeOK
<1>2. Cardinality(Holders) \in Nat /\ (Holders = {} <=> Cardinality(Holders) = 0)
  BY <1>1, HoldersFinite, FS_EmptySet DEF TypeOK
<1>3. CASE pc = "select"
  <2>1. ~Sequential /\ Cardinality(Holders) = slots /\ slots <= Limit
    BY <1>3 DEF ControlInv, PathOK, SlotsMatchHolders, TypeOK
  <2>2. CASE slots < Limit
    BY <1>3, <2>2 DEF SomeoneReady, LoopReady
  <2>3. CASE ~(slots < Limit)
    BY <1>1, <1>2, <2>1, <2>3, HolderGoesOn
  <2>. QED
    BY <2>2, <2>3
<1>4. CASE pc = "wait"
  <2>1. ~Sequential /\ Cardinality(Holders) <= slots
    BY <1>1, <1>2, <1>4 DEF ControlInv, PathOK, SlotsMatchHolders
  <2>2. CASE Holders = {}
    BY <1>1, <1>4, <2>2, WaitsForHolders
  <2>3. CASE Holders # {}
    BY <1>1, <1>2, <2>1, <2>3, HolderGoesOn
  <2>. QED
    BY <2>2, <2>3
<1>. QED
  BY <1>3, <1>4 DEF SomeoneReady, LoopReady

LEMMA BackupReady ==
    RacyInv /\ TokensShort /\ pc # "returned" => SomeoneReady \/ WaitsForNoToken
<1>. SUFFICES ASSUME RacyInv, TokensShort, pc # "returned", ~WaitsForNoToken
              PROVE  SomeoneReady
  OBVIOUS
<1>1. TypeOK /\ slots \in Nat /\ Limit \in Nat /\ Limit > 0
  BY ArgumentTypes DEF RacyInv, TypeOK
<1>2. /\ IsFiniteSet(Holders) /\ Cardinality(Holders) \in Nat
      /\ Holders = {} <=> Cardinality(Holders) = 0
  BY <1>1, HoldersFinite, FS_EmptySet DEF TypeOK
<1>3. CASE pc = "select"
  <2>1. ~Sequential /\ Cardinality(Holders) = slots /\ slots <= Limit
    BY <1>3 DEF RacyInv, RacyPath, TokensShort, TypeOK
  <2>2. CASE slots < Limit
    BY <1>3, <2>2 DEF SomeoneReady, LoopReady
  <2>3. CASE ~(slots < Limit)
    BY <1>1, <1>2, <2>1, <2>3, HolderGoesOn
  <2>. QED
    BY <2>2, <2>3
<1>4. CASE pc = "wait"
  <2>1. ~Sequential
    BY <1>4 DEF RacyInv, RacyPath
  <2>2. CASE Holders = {}
    BY <1>1, <1>4, <2>2, WaitsForHolders
  <2>3. CASE slots > 0 /\ Holders # {}
    BY <1>1, <2>1, <2>3, HolderGoesOn
  <2>4. CASE slots = 0 /\ Holders # {}
    <3>1. Cardinality(Holders) = 1 /\ cancelled
      BY <1>2, <1>4, <2>1, <2>4 DEF TokensShort
    <3>2. PICK i \in Holders : Holders = {i}
      BY <1>2, <3>1, FS_Singleton
    <3>3. i \in Items /\ invocation[i] # "releasing"
      BY <1>4, <2>1, <2>4, <3>1, <3>2 DEF WaitsForNoToken, Holders
    <3>. QED
      BY <2>1, <3>2, <3>3 DEF SomeoneReady, GoroutineReady, Holders
  <2>. QED
    BY <1>1, <2>2, <2>3, <2>4
<1>. QED
  BY <1>3, <1>4 DEF SomeoneReady, LoopReady

\* Until it returns, the call of the forge package can go on, cancelled or not:
\* the loop before a full channel has a goroutine that will take a token back
\* (client.go:376, client.go:389).
THEOREM ForgeGoesOn == Spec => [](pc # "returned" => SomeoneReady)
BY ForgeReady, ControlInit, ControlStep, SlotsInit, SlotsStep, PTL DEF Spec

\* The call of the backup package can go on too, unless it is cancelled, has room for
\* several, and waits for one goroutine that began without a token: that is the only
\* way for it to hang.
THEOREM BackupHangsOnlyForToken ==
    Backup!Spec => [](pc # "returned" => SomeoneReady \/ WaitsForNoToken)
BY BackupReady, RacyInit, RacyInvStep, TokensInit, TokensStep, RacySpec, PTL

-----------------------------------------------------------------------------
(* Every step uses up one of a bounded number of steps.                    *)

\* The invocations that fn has yet to return from, and those yet to be given up.
Unreturned == {i \in Items : invocation[i] \in {"idle", "running"}}
Unfinished == {i \in Items : invocation[i] # "done"}

\* What the loop has before it at most: five steps for an item, and the way from
\* where it is.
Way ==
    CASE pc = "top"      -> 6
      [] pc = "errCheck" -> 5
      [] pc = "select"   -> 4
      [] pc = "recheck"  -> 3
      [] pc = "launch"   -> 2
      [] pc = "wait"     -> 1
      [] pc = "seqTop"   -> 3
      [] pc = "seqCall"  -> 2
      [] pc = "seqFn"    -> 1
      [] OTHER           -> 0

LoopsShare == 5 * (call.items + 1 - next) + Way

OthersShare == Cardinality(Unreturned) + Cardinality(Unfinished) + (IF cancelled THEN 0 ELSE 1)

StepsLeft == LoopsShare + OthersShare

StepTaken == StepsLeft \in Nat /\ StepsLeft' \in Nat /\ StepsLeft' < StepsLeft

LEMMA ItemsFinite == call.items \in Nat => IsFiniteSet(Items)
BY FS_Interval DEF Items

LEMMA SharesAreCounts == TypeOK => LoopsShare \in Nat /\ OthersShare \in Nat
<1>. SUFFICES ASSUME TypeOK PROVE LoopsShare \in Nat /\ OthersShare \in Nat
  OBVIOUS
<1>1. call.items \in Nat /\ next \in 1..(call.items + 1)
  BY ArgumentTypes DEF TypeOK
<1>2. Way \in Nat
  BY DEF Way
<1>3. IsFiniteSet(Items) /\ Unreturned \subseteq Items /\ Unfinished \subseteq Items
  BY <1>1, ItemsFinite DEF Unreturned, Unfinished
<1>4. Cardinality(Unreturned) \in Nat /\ Cardinality(Unfinished) \in Nat
  BY <1>3, FS_Subset, FS_CardinalityType
<1>5. OthersShare \in Nat
  BY <1>4 DEF OthersShare
<1>. QED
  BY <1>1, <1>2, <1>5 DEF LoopsShare

LEMMA SharesWillBeCounts == TypeOK' => LoopsShare' \in Nat /\ OthersShare' \in Nat
<1>. SUFFICES ASSUME TypeOK' PROVE LoopsShare' \in Nat /\ OthersShare' \in Nat
  OBVIOUS
<1>1. call'.items \in Nat /\ next' \in 1..(call'.items + 1)
  BY FanOutAssumption DEF TypeOK, Calls
<1>2. Way' \in Nat
  BY DEF Way
<1>3. IsFiniteSet(Items') /\ Unreturned' \subseteq Items' /\ Unfinished' \subseteq Items'
  <2>1. IsFiniteSet(1..call'.items)
    <3>1. \A n \in Nat : IsFiniteSet(1..n)
      BY FS_Interval
    <3>. QED
      BY <1>1, <3>1
  <2>. QED
    BY <2>1 DEF Items, Unreturned, Unfinished
<1>4. Cardinality(Unreturned') \in Nat /\ Cardinality(Unfinished') \in Nat
  BY <1>3, FS_Subset, FS_CardinalityType
<1>5. OthersShare' \in Nat
  BY <1>4 DEF OthersShare
<1>. QED
  BY <1>1, <1>2, <1>5 DEF LoopsShare

\* A step of either loop, with what it leaves of the loop's share.
LoopGoesOn ==
    /\ LoopsShare' < LoopsShare
    /\ Unreturned' = Unreturned /\ Unfinished' = Unfinished /\ cancelled' = cancelled

LEMMA LoopStepsCount ==
    ASSUME TypeOK, TypeOK', call' = call,
           pc \in {"seqCall", "seqFn", "launch"} => next \in Items,
           pc = "launch" => invocation[next] = "idle",
           pc = "seqCall" => invocation[next] = "idle",
           \/ SeqTop \/ SeqCall
           \/ TopOfLoop \/ ErrCheck \/ Backup!ErrCheck \/ Recheck \/ Launch \/ WaitAndReturn
           \/ TakeSlot("recheck") \/ SelectCancelled("recheck")
           \/ TakeSlot("launch") \/ SelectCancelled("launch")
    PROVE  LoopGoesOn
<1>1. call.items \in Nat /\ next \in Nat /\ Items' = Items
  BY ArgumentTypes DEF TypeOK, Items
<1>2. Unreturned' = Unreturned /\ Unfinished' = Unfinished
  <2>1. CASE invocation' = invocation
    BY <1>1, <2>1 DEF Unreturned, Unfinished
  <2>2. CASE SeqCall \/ Launch
    <3>1. next \in Items /\ invocation[next] = "idle"
      BY <2>2 DEF SeqCall, Launch
    <3>2. invocation' = [invocation EXCEPT ![next] = "running"]
      BY <2>2 DEF SeqCall, Launch, Begin
    <3>. QED
      BY <1>1, <3>1, <3>2 DEF Unreturned, Unfinished, TypeOK
  <2>. QED
    BY <2>1, <2>2 DEF SeqTop, TopOfLoop, ErrCheck, Backup!ErrCheck, Recheck, WaitAndReturn,
       TakeSlot, SelectCancelled
<1>3. cancelled' = cancelled
  BY DEF SeqTop, SeqCall, Launch, TopOfLoop, ErrCheck, Backup!ErrCheck, Recheck, WaitAndReturn,
       TakeSlot, SelectCancelled
<1>4. CASE Launch
  <2>1. next' = next + 1 /\ Way = 2 /\ Way' = 6
    BY <1>4 DEF Launch, Way
  <2>. QED
    BY <1>1, <1>2, <1>3, <2>1 DEF LoopGoesOn, LoopsShare
<1>5. CASE ~Launch
  <2>1. next' = next /\ Way \in Nat /\ Way' \in Nat /\ Way' < Way
    BY <1>5 DEF Way, SeqTop, SeqCall, TopOfLoop, ErrCheck, Backup!ErrCheck, Recheck, WaitAndReturn,
       TakeSlot, SelectCancelled
  <2>. QED
    BY <1>1, <1>2, <1>3, <2>1 DEF LoopGoesOn, LoopsShare
<1>. QED
  BY <1>4, <1>5

LEMMA Fewer ==
    ASSUME NEW S, IsFiniteSet(S), NEW x \in S
    PROVE  /\ Cardinality(S) \in Nat /\ Cardinality(S \ {x}) \in Nat
           /\ Cardinality(S \ {x}) < Cardinality(S)
<1>1. /\ Cardinality(S) \in Nat /\ IsFiniteSet(S \ {x})
      /\ Cardinality(S \ {x}) = Cardinality(S) - 1
  BY FS_RemoveElement, FS_CardinalityType
<1>2. Cardinality(S \ {x}) \in Nat
  BY <1>1, FS_CardinalityType
<1>. QED
  BY <1>1, <1>2

\* The shares add up, whatever they are.
LEMMA SharesAddUp ==
    ASSUME TypeOK, TypeOK', LoopsShare' < LoopsShare \/ LoopsShare' = LoopsShare,
           OthersShare' < OthersShare \/ OthersShare' = OthersShare,
           LoopsShare' < LoopsShare \/ OthersShare' < OthersShare
    PROVE  StepTaken
<1>1. LoopsShare \in Nat /\ OthersShare \in Nat
  BY SharesAreCounts
<1>2. LoopsShare' \in Nat /\ OthersShare' \in Nat
  BY SharesWillBeCounts
<1>3. PICK l \in Nat : l = LoopsShare'
  BY <1>2, Zenon
<1>4. PICK o \in Nat : o = OthersShare'
  BY <1>2, Zenon
<1>5. /\ l < LoopsShare \/ l = LoopsShare
      /\ o < OthersShare \/ o = OthersShare
      /\ l < LoopsShare \/ o < OthersShare
  BY <1>3, <1>4, Zenon
<1>6. LoopsShare + OthersShare \in Nat /\ l + o \in Nat /\ l + o < LoopsShare + OthersShare
  BY <1>1, <1>5
<1>. QED
  BY <1>3, <1>4, <1>6, Zenon DEF StepTaken, StepsLeft

\* The return of fn and the release of a token, in either path.
LEMMA OtherStepsCount ==
    ASSUME TypeOK, TypeOK', call' = call, NEW i \in Items, cancelled' = cancelled,
           \/ /\ invocation[i] = "running"
              /\ \E s \in {"releasing", "done"} : invocation' = [invocation EXCEPT ![i] = s]
           \/ /\ invocation[i] = "releasing"
              /\ invocation' = [invocation EXCEPT ![i] = "done"]
    PROVE  OthersShare' < OthersShare
<1>1. call.items \in Nat /\ Items' = Items
  BY ArgumentTypes DEF TypeOK, Items
<1>2. /\ IsFiniteSet(Items) /\ Unreturned \subseteq Items /\ Unfinished \subseteq Items
  BY <1>1, ItemsFinite DEF Unreturned, Unfinished
<1>3. IsFiniteSet(Unreturned) /\ IsFiniteSet(Unfinished)
  BY <1>2, FS_Subset
<1>4. /\ Cardinality(Unreturned) \in Nat /\ Cardinality(Unfinished) \in Nat
  BY <1>3, FS_CardinalityType
<1>5. \E r, f \in Nat : /\ r = Cardinality(Unreturned') /\ f = Cardinality(Unfinished')
                        /\ r <= Cardinality(Unreturned) /\ f <= Cardinality(Unfinished)
                        /\ r < Cardinality(Unreturned) \/ f < Cardinality(Unfinished)
  <2>1. /\ Unreturned' \in {Unreturned, Unreturned \ {i}} /\ Unfinished' \in {Unfinished, Unfinished \ {i}}
        /\ \/ Unreturned' = Unreturned \ {i} /\ i \in Unreturned
           \/ Unfinished' = Unfinished \ {i} /\ i \in Unfinished
        /\ i \in Unfinished
        /\ Unreturned' = Unreturned \/ i \in Unreturned
    BY <1>1 DEF Unreturned, Unfinished, TypeOK
  <2>2. i \in Unreturned => /\ Cardinality(Unreturned \ {i}) \in Nat
                            /\ Cardinality(Unreturned \ {i}) < Cardinality(Unreturned)
    BY <1>3, Fewer
  <2>3. /\ Cardinality(Unfinished \ {i}) \in Nat
        /\ Cardinality(Unfinished \ {i}) < Cardinality(Unfinished)
    BY <1>3, <2>1, Fewer
  <2>. QED
    BY <1>4, <2>1, <2>2, <2>3
<1>6. PICK r, f \in Nat : /\ r = Cardinality(Unreturned') /\ f = Cardinality(Unfinished')
                          /\ r <= Cardinality(Unreturned) /\ f <= Cardinality(Unfinished)
                          /\ r < Cardinality(Unreturned) \/ f < Cardinality(Unfinished)
  BY <1>5
<1>7. OthersShare' = r + f + (IF cancelled THEN 0 ELSE 1)
  BY <1>6, Zenon DEF OthersShare
<1>8. r + f + (IF cancelled THEN 0 ELSE 1)
        < Cardinality(Unreturned) + Cardinality(Unfinished) + (IF cancelled THEN 0 ELSE 1)
  BY <1>4, <1>6
<1>. QED
  BY <1>7, <1>8, Zenon DEF OthersShare

\* The steps that the two functions share.
LEMMA SharedStepsCount ==
    ASSUME TypeOK, TypeOK', call' = call,
           pc \in {"seqCall", "seqFn", "launch"} => next \in Items,
           pc = "seqFn" => invocation[next] = "running",
           \/ Cancel \/ SeqFnReturns \/ \E i \in Items : WorkerStep(i)
           \/ LoopGoesOn
    PROVE  StepTaken
<1>0. /\ LoopsShare \in Nat /\ OthersShare \in Nat
      /\ call.items \in Nat /\ next \in Nat /\ Items' = Items
  BY SharesAreCounts, ArgumentTypes DEF TypeOK, Items
<1>1. CASE Cancel
  <2>1. UNCHANGED <<Unreturned, Unfinished, LoopsShare>> /\ ~cancelled /\ cancelled'
    BY <1>0, <1>1 DEF Cancel, Unreturned, Unfinished, LoopsShare, Way
  <2>2. OthersShare' = Cardinality(Unreturned) + Cardinality(Unfinished) + 0
    BY <2>1, Zenon DEF OthersShare
  <2>3. OthersShare = Cardinality(Unreturned) + Cardinality(Unfinished) + 1
    BY <2>1, Zenon DEF OthersShare
  <2>4. /\ Cardinality(Unreturned) \in Nat /\ Cardinality(Unfinished) \in Nat
    <3>1. /\ IsFiniteSet(Items) /\ Unreturned \subseteq Items /\ Unfinished \subseteq Items
      BY <1>0, ItemsFinite DEF Unreturned, Unfinished
    <3>. QED
      BY <3>1, FS_Subset, FS_CardinalityType
  <2>. QED
    BY <1>0, <2>1, <2>2, <2>3, <2>4, SharesAddUp
<1>2. CASE SeqFnReturns
  <2>1. /\ next \in Items /\ pc = "seqFn" /\ cancelled' = cancelled
        /\ invocation' = [invocation EXCEPT ![next] = "done"]
        /\ (pc' = "seqTop" /\ next' = next + 1) \/ (pc' = "returned" /\ next' = next)
    <3>1. pc = "seqFn" /\ cancelled' = cancelled
      BY <1>2 DEF SeqFnReturns
    <3>2. PICK err \in FnResults :
            /\ invocation' = [invocation EXCEPT ![next] = "done"]
            /\ \/ err = "nil" /\ next' = next + 1 /\ pc' = "seqTop"
               \/ err # "nil" /\ pc' = "returned" /\ UNCHANGED next
      BY <1>2 DEF SeqFnReturns
    <3>. QED
      BY <3>1, <3>2
  <2>2. OthersShare' < OthersShare
    BY <2>1, OtherStepsCount
  <2>3. LoopsShare' < LoopsShare
    BY <1>0, <2>1 DEF LoopsShare, Way
  <2>. QED
    BY <2>2, <2>3, SharesAddUp
<1>3. ASSUME NEW i \in Items, WorkerStep(i) PROVE StepTaken
  <2>1. OthersShare' < OthersShare
    BY <1>3, OtherStepsCount DEF WorkerStep, FnReturns, ReleaseSlot
  <2>2. LoopsShare' = LoopsShare
    BY <1>3 DEF WorkerStep, FnReturns, ReleaseSlot, LoopsShare, Way
  <2>. QED
    BY <2>1, <2>2, SharesAddUp
<1>4. CASE LoopGoesOn
  <2>1. OthersShare' = OthersShare
    BY <1>4 DEF LoopGoesOn, OthersShare
  <2>. QED
    BY <1>4, <2>1, SharesAddUp DEF LoopGoesOn
<1>. QED
  BY <1>1, <1>2, <1>3, <1>4

\* Every step of the call of the forge package, of its goroutines and of who cancels it
\* uses up one of a bounded number of steps: seven for an item and seven besides.
THEOREM ForgeRunsOut == Spec => [][StepTaken]_vars
<1>1. ControlInv /\ ControlInv' /\ [Next]_vars => [StepTaken]_vars
  <2>. SUFFICES ASSUME ControlInv, ControlInv', Next PROVE StepTaken
    OBVIOUS
  <2>1. TypeOK /\ TypeOK' /\ call' = call
    BY ArgumentsKept DEF ControlInv
  <2>2. /\ pc \in {"seqCall", "seqFn", "launch"} => next \in Items
        /\ pc \in {"launch", "seqCall"} => invocation[next] = "idle"
        /\ pc = "seqFn" => invocation[next] = "running"
    BY DEF ControlInv, PathOK, InOrder
  <2>3. CASE Cancel \/ SeqFnReturns \/ \E i \in Items : WorkerStep(i)
    BY <2>1, <2>2, <2>3, SharedStepsCount
  <2>4. CASE SeqTop \/ SeqCall \/ LoopStep
    <3>1. LoopGoesOn
      BY <2>1, <2>2, <2>4, LoopStepsCount DEF LoopStep
    <3>. QED
      BY <2>1, <2>2, <3>1, SharedStepsCount
  <2>. QED
    BY <2>3, <2>4 DEF Next, SequentialStep
<1>. QED
  BY <1>1, ControlInit, ControlStep, PTL DEF Spec

\* The same of the call of the backup package.
THEOREM BackupRunsOut == Backup!Spec => [][StepTaken]_vars
<1>1. RacyInv /\ RacyInv' /\ [RacyNext]_vars => [StepTaken]_vars
  <2>. SUFFICES ASSUME RacyInv, RacyInv', RacyNext PROVE StepTaken
    OBVIOUS
  <2>1. TypeOK /\ TypeOK' /\ call' = call
    BY RacyArguments DEF RacyInv
  <2>2. /\ pc \in {"seqCall", "seqFn", "launch"} => next \in Items
        /\ pc \in {"launch", "seqCall"} => invocation[next] = "idle"
        /\ pc = "seqFn" => invocation[next] = "running"
    BY DEF RacyInv, RacyPath, RacyOrder
  <2>3. CASE Cancel \/ SeqFnReturns \/ \E i \in Items : WorkerStep(i)
    BY <2>1, <2>2, <2>3, SharedStepsCount
  <2>4. CASE SeqTop \/ SeqCall \/ RacyLoop
    <3>1. LoopGoesOn
      BY <2>1, <2>2, <2>4, LoopStepsCount DEF RacyLoop
    <3>. QED
      BY <2>1, <2>2, <3>1, SharedStepsCount
  <2>. QED
    BY <2>3, <2>4 DEF RacyNext, SequentialStep
<1>. QED
  BY <1>1, RacyInit, RacyInvStep, RacySpec, PTL
================================================================================
