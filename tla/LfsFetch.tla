------------------------------ MODULE LfsFetch ------------------------------
(***************************************************************************)
(* The fetch of a mirror's Git LFS objects: FetchAll of internal/lfs, with *)
(* endpoint.go and batch.go.                                               *)
(*                                                                         *)
(* The pointers of the scan are asked for at the endpoint that answers a   *)
(* probe, in chunks.  A chunk the endpoint refuses is halved, down to      *)
(* single pointers; fetchChunk calls itself, so calls is its call stack    *)
(* and ret what the last call returned.  An object whose download URL has  *)
(* lapsed is asked for once more.                                          *)
(*                                                                         *)
(* The endpoint may answer anything, but names no object twice in one      *)
(* response.  A pointer is its position in the list of the scan, whose     *)
(* order is left open there.  The bytes of an object are right or wrong:   *)
(* downloadObject writes a temporary file, compares the digest, and        *)
(* renames; an object in the store is one with the right digest.           *)
(***************************************************************************)
EXTENDS LfsScan, Naturals, Sequences, SequencesExt

CONSTANTS BatchLimits,  \* values of batchObjectLimit
          Stored        \* what the store may hold from earlier fetches

ASSUME LfsFetchAssumption ==
    /\ BatchLimits \subseteq Nat \ {0}
    /\ IsFiniteSet(Oids)
    /\ \A s \in Stored : s \subseteq Oids

VARIABLES
    pc,          \* "scan", "probe", "chunk", "ask", "download", "again", "return" or "done"
    store,       \* lfs/objects
    limit,       \* batchObjectLimit
    list,        \* the pointers, in the order they are asked for
    candidates, answers,  \* API roots to probe, and their answers so far
    next,        \* fetchBatches: start of the next chunk
    total, failures,      \* what the chunks so far came to; firstErr is set if failures > 0
    calls, ret,  \* fetchChunk: open calls, what the last one returned
    lapsed, refused, broken, \* downloadChunk: expired, len(unavailable), len(failed) > 0
    result,      \* what FetchAll returns
    accepted, lost, dropped  \* history: objects in a request that was answered, those
                             \* counted as missing, those in a request that failed

probeVars   == <<candidates, answers>>
sweepVars   == <<next, total, failures>>
callVars    == <<calls, ret>>
loadVars    == <<lapsed, refused, broken>>
historyVars == <<accepted, lost, dropped>>
fetchVars   == <<limit, list, probeVars, sweepVars, callVars, loadVars, historyVars, store>>
vars == <<scanVars, pc, result, fetchVars>>

\* chunkOutcome, and what fetchChunk returns: an outcome and an error, "refused" if
\* isRefusal holds of it and "failed" otherwise.
NoOutcome == [unavailable |-> 0, rejected |-> 0, answered |-> FALSE]
Absorb(a, b) == [unavailable |-> a.unavailable + b.unavailable,
                 rejected    |-> a.rejected + b.rejected,
                 answered    |-> a.answered \/ b.answered]
Returned(outcome, err) == [outcome |-> outcome, err |-> err]
Nothing == Returned(NoOutcome, "none")

\* A call of fetchChunk for list[lo..hi]: the request, then the halves in turn.
Call(lo, hi) == [lo |-> lo, hi |-> hi, stage |-> "request", outcome |-> NoOutcome, err |-> "none"]
Current == Last(calls)
Want    == {list[i] : i \in Current.lo .. Current.hi}

\* What the roots said, as long as selectEndpoint runs.
NoAnswers == [c \in {"derived", "configured"} |-> "none"]

Init ==
    /\ ScanInit
    /\ pc = "scan" /\ result = "none"
    /\ store \in Stored
    /\ limit \in BatchLimits
    /\ list = <<>> /\ candidates = <<>> /\ answers = NoAnswers
    /\ next = 1 /\ total = NoOutcome /\ failures = 0
    /\ calls = <<>> /\ ret = Nothing
    /\ lapsed = {} /\ refused = 0 /\ broken = FALSE
    /\ accepted = {} /\ lost = {} /\ dropped = {}

End(r) == pc' = "done" /\ result' = r

-----------------------------------------------------------------------------
(* The scan, and which endpoint to ask. *)

Scan ==
    /\ pc = "scan"
    /\ ScanNext
    /\ UNCHANGED <<pc, result, fetchVars>>

\* Mutant: what the scan could not read is only logged.
ScannedAnyway ==
    /\ pc = "scan"
    /\ \/ /\ scan = "failed"
          /\ End("error")
          /\ UNCHANGED <<list, candidates>>
       \/ /\ scan = "done" /\ pointers = {}
          /\ End("ok")
          /\ UNCHANGED <<list, candidates>>
       \/ /\ scan = "done" /\ pointers # {}
          /\ list' = SetToSeq(pointers)
          /\ candidates' \in {<<"configured">>, <<"derived", "configured">>}
          /\ pc' = "probe"
          /\ UNCHANGED result
    /\ UNCHANGED <<scanVars, limit, answers, sweepVars, callVars, loadVars, historyVars, store>>

\* pointers and endpointCandidates: without pointers no endpoint is asked.  An lfs.url
\* of the repository replaces the remote's own root, and is an error if it is not on
\* the remote's host; otherwise the root with .git is a guess, unless it is the
\* remote's own.
Scanned ==
    /\ pc = "scan"
    /\ \/ /\ scan = "failed" \/ (scan = "done" /\ skipped # {})
          /\ End("error")
          /\ UNCHANGED <<list, candidates>>
       \/ /\ scan = "done" /\ skipped = {} /\ pointers = {}
          /\ End("ok")
          /\ UNCHANGED <<list, candidates>>
       \/ /\ scan = "done" /\ skipped = {} /\ pointers # {}
          /\ list' = SetToSeq(pointers)
          /\ candidates' \in {<<"configured">>, <<"derived", "configured">>}
          /\ pc' = "probe"
          /\ UNCHANGED result
    /\ UNCHANGED <<scanVars, limit, answers, sweepVars, callVars, loadVars, historyVars, store>>

\* doProbe and classifyRefusal: what an answer to a probe means.  0 is no answer.
Statuses == {0, 200, 400, 401, 403, 404, 406, 413, 415, 422, 429, 500}
ProbeVerdict(status, html) ==
    CASE status = 200                           -> "serves"
      [] status = 404                           -> "absent"
      [] status \in {403, 422} /\ html          -> "absent"
      [] status = 403 /\ ~html                  -> "disabled"
      [] OTHER                                  -> "failed"

\* Mutant: the first answer that says anything decides.
FirstToSpeak(a) == IF a["derived"] \in {"absent", "none"} THEN a["configured"] ELSE a["derived"]

\* selectEndpoint, none serving: the configured root decides if it said anything, and
\* then the guess.
Decisive(a) == IF a["configured"] # "absent" \/ a["derived"] = "none" THEN a["configured"]
               ELSE a["derived"]

Probe ==
    /\ pc = "probe"
    /\ candidates' = Tail(candidates)
    /\ \E status \in Statuses, html \in BOOLEAN :
          LET verdict == ProbeVerdict(status, html)
              said    == [answers EXCEPT ![Head(candidates)] = verdict]
          IN /\ cancelled => status = 0
             /\ \/ /\ verdict = "serves"
                   /\ answers' = NoAnswers
                   /\ pc' = "chunk"
                   /\ UNCHANGED result
                \/ /\ verdict # "serves" /\ candidates' # <<>>
                   /\ answers' = said
                   /\ UNCHANGED <<pc, result>>
                \/ /\ verdict # "serves" /\ candidates' = <<>>
                   /\ answers' = said
                   /\ End(IF Decisive(said) = "failed" THEN "error" ELSE "disabled")
    /\ UNCHANGED <<scanVars, limit, list, sweepVars, callVars, loadVars, historyVars, store>>

-----------------------------------------------------------------------------
(* fetchBatches: the chunks. *)

Smaller(m, n) == IF m < n THEN m ELSE n

NextChunk ==
    /\ pc = "chunk"
    /\ next <= Len(list) /\ ~cancelled /\ failures < 2
    /\ calls' = <<Call(next, Smaller(next + limit - 1, Len(list)))>>
    /\ next' = next + limit
    /\ pc' = "ask"
    /\ UNCHANGED <<scanVars, result, limit, list, probeVars, total, failures, ret, loadVars, historyVars, store>>

\* A chunk that fails is remembered; a second one ends the sweep.
ChunkDone ==
    /\ pc = "return" /\ calls = <<>>
    /\ total' = Absorb(total, ret.outcome)
    /\ failures' = IF ret.err = "none" THEN failures ELSE failures + 1
    /\ ret' = Nothing
    /\ pc' = "chunk"
    /\ UNCHANGED <<scanVars, result, limit, list, probeVars, next, calls, loadVars, historyVars, store>>

SweepDone ==
    /\ pc = "chunk"
    /\ next > Len(list) \/ cancelled \/ failures = 2
    /\ End(IF failures > 0 \/ next <= Len(list) THEN "error"
           ELSE IF total.unavailable + total.rejected > 0 THEN "missing" ELSE "ok")
    /\ UNCHANGED <<scanVars, fetchVars>>

-----------------------------------------------------------------------------
(* fetchChunk: one request, narrowed if it is refused. *)

Return(outcome, err) ==
    /\ calls' = Front(calls)
    /\ ret' = Returned(outcome, err)
    /\ pc' = "return"

\* batch: scheduled; refused for its shape, with status 400, 406, 413, 415 or 422; or
\* failed (any other status, no answer, a response that cannot be read or has another
\* number of objects).
Scheduled ==
    /\ pc = "ask" /\ ~cancelled
    /\ accepted' = accepted \cup Want
    /\ pc' = "download"
    /\ UNCHANGED <<scanVars, result, limit, list, probeVars, sweepVars, callVars, loadVars, lost, dropped, store>>

AskFails ==
    /\ pc = "ask"
    /\ dropped' = dropped \cup Want
    /\ Return(NoOutcome, "failed")
    /\ UNCHANGED <<scanVars, result, limit, list, probeVars, sweepVars, loadVars, accepted, lost, store>>

Middle(call) == (call.hi - call.lo + 1) \div 2
Split(call, stage, outcome, err) == [call EXCEPT !.stage = stage, !.outcome = outcome, !.err = err]

\* A refused request is halved; that of a single pointer is counted as refused.
Refused ==
    /\ pc = "ask" /\ ~cancelled
    /\ \/ /\ Current.lo < Current.hi
          /\ calls' = Append(Front(calls) \o <<Split(Current, "first half", NoOutcome, "none")>>,
                             Call(Current.lo, Current.lo + Middle(Current) - 1))
          /\ UNCHANGED <<pc, ret, lost>>
       \/ /\ Current.lo = Current.hi
          /\ Return([NoOutcome EXCEPT !.rejected = 1], "refused")
          /\ lost' = lost \cup Want
    /\ UNCHANGED <<scanVars, result, limit, list, probeVars, sweepVars, loadVars, accepted, dropped, store>>

\* Mutant: a first half that failed ends the call.
FirstHalfDoneOrFailed ==
    /\ pc = "return" /\ calls # <<>>
    /\ Current.stage = "first half"
    /\ IF ret.err = "failed"
       THEN Return(ret.outcome, "failed")
       ELSE /\ calls' = Append(Front(calls) \o <<Split(Current, "second half", ret.outcome, ret.err)>>,
                               Call(Current.lo + Middle(Current), Current.hi))
            /\ pc' = "ask"
            /\ UNCHANGED ret
    /\ UNCHANGED <<scanVars, result, limit, list, probeVars, sweepVars, loadVars, historyVars, store>>

\* Whatever became of the first half, the second is asked for.
FirstHalfDone ==
    /\ pc = "return" /\ calls # <<>>
    /\ Current.stage = "first half"
    /\ calls' = Append(Front(calls) \o <<Split(Current, "second half", ret.outcome, ret.err)>>,
                       Call(Current.lo + Middle(Current), Current.hi))
    /\ pc' = "ask"
    /\ UNCHANGED <<scanVars, result, limit, list, probeVars, sweepVars, ret, loadVars, historyVars, store>>

\* Mutant: an endpoint that answers only for missing objects counts as refusing.
RefuseUnlessServed(outcome) == IF outcome.answered THEN "none" ELSE "refused"

\* refuseOrReport: if any object was answered for, refusals are the objects' fault.
RefuseOrReport(outcome) ==
    IF outcome.answered \/ outcome.unavailable > 0 THEN "none" ELSE "refused"

SecondHalfDone ==
    /\ pc = "return" /\ calls # <<>>
    /\ Current.stage = "second half"
    /\ LET outcome == Absorb(Current.outcome, ret.outcome)
           errs    == {Current.err, ret.err}
       IN Return(outcome, IF "failed" \in errs THEN "failed"
                          ELSE IF errs = {"none"} THEN "none"
                          ELSE RefuseOrReport(outcome))
    /\ UNCHANGED <<scanVars, result, limit, list, probeVars, sweepVars, loadVars, historyVars, store>>

-----------------------------------------------------------------------------
(* downloadChunk, downloadObjects and downloadObject. *)

\* What becomes of an object of a response: refused (an error, no URL, a digest that is
\* none or was not asked for), held already, lapsed, served, or broken (its status, its
\* transfer or its digest fails); unreached if ctx is cancelled before its turn.  The
\* response may have any order.
Fates(o) == IF cancelled THEN {"unreached"}
            ELSE {"refused"} \cup (IF o \in store THEN {"held"} ELSE {"lapsed", "served", "broken"})
                             \cup (IF cancelled' THEN {"unreached"} ELSE {})

DownloadObjects(wanted, fate) ==
    /\ cancelled' \in {cancelled, TRUE}
    /\ \A o \in wanted : fate[o] \in Fates(o)
    /\ store' = store \cup {o \in wanted : fate[o] = "served"}

Having(fate, kinds) == {o \in DOMAIN fate : fate[o] \in kinds}

\* The outcome of a chunk of which some objects were refused and, beside them, some
\* lapsed for good.
Settle(refusedObjects, lapsedObjects, failed) ==
    Return([unavailable |-> refusedObjects + lapsedObjects,
            rejected    |-> 0,
            answered    |-> Cardinality(Want) > refusedObjects],
           IF failed THEN "failed" ELSE "none")

Download ==
    /\ pc = "download"
    /\ \E fate \in [Want -> {"refused", "held", "lapsed", "served", "broken", "unreached"}] :
          /\ DownloadObjects(Want, fate)
          /\ lost' = lost \cup Having(fate, {"refused"})
          /\ IF Having(fate, {"lapsed"}) = {}
             THEN /\ Settle(Cardinality(Having(fate, {"refused"})), 0,
                            Having(fate, {"broken", "unreached"}) # {})
                  /\ UNCHANGED loadVars
             ELSE /\ lapsed' = Having(fate, {"lapsed"})
                  /\ refused' = Cardinality(Having(fate, {"refused"}))
                  /\ broken' = (Having(fate, {"broken", "unreached"}) # {})
                  /\ pc' = "again"
                  /\ UNCHANGED callVars
    /\ UNCHANGED <<mirrorVars, result, limit, list, probeVars, sweepVars, accepted, dropped>>

\* Mutant: without fresh URLs the lapsed ones are tried again.
RescheduleUntilGranted ==
    /\ pc = "again"
    /\ IF refused = 0 /\ ~broken
       THEN pc' = "download" /\ UNCHANGED <<lost, callVars>>
       ELSE lost' = lost \cup lapsed /\ Settle(refused, Cardinality(lapsed), broken)
    /\ lapsed' = {} /\ refused' = 0 /\ broken' = FALSE
    /\ UNCHANGED <<scanVars, result, limit, list, probeVars, sweepVars, accepted, dropped, store>>

\* Mutant: what lapsed is counted with the refused objects and once more.
LapsedCountedTwice ==
    /\ pc = "again"
    /\ lost' = lost \cup lapsed
    /\ Settle(refused + Cardinality(lapsed), Cardinality(lapsed), broken)
    /\ lapsed' = {} /\ refused' = 0 /\ broken' = FALSE
    /\ UNCHANGED <<scanVars, result, limit, list, probeVars, sweepVars, accepted, dropped, store>>

\* The lapsed objects are asked for once more, and the request is not granted.
RescheduleFails ==
    /\ pc = "again"
    /\ lost' = lost \cup lapsed
    /\ Settle(refused, Cardinality(lapsed), broken)
    /\ lapsed' = {} /\ refused' = 0 /\ broken' = FALSE
    /\ UNCHANGED <<scanVars, result, limit, list, probeVars, sweepVars, accepted, dropped, store>>

Reschedule ==
    /\ pc = "again" /\ ~cancelled
    /\ \E fate \in [lapsed -> {"refused", "lapsed", "served", "broken", "unreached"}] :
          /\ DownloadObjects(lapsed, fate)
          /\ lost' = lost \cup Having(fate, {"refused", "lapsed"})
          /\ Settle(refused + Cardinality(Having(fate, {"refused"})),
                    Cardinality(Having(fate, {"lapsed"})),
                    broken \/ Having(fate, {"broken", "unreached"}) # {})
    /\ lapsed' = {} /\ refused' = 0 /\ broken' = FALSE
    /\ UNCHANGED <<mirrorVars, result, limit, list, probeVars, sweepVars, accepted, dropped>>

-----------------------------------------------------------------------------
FetchStep ==
    \/ Scan \/ Scanned \/ Probe
    \/ NextChunk \/ ChunkDone \/ SweepDone
    \/ Scheduled \/ Refused \/ AskFails \/ FirstHalfDone \/ SecondHalfDone
    \/ Download \/ RescheduleFails \/ Reschedule

Cancel ==
    /\ pc # "done"
    /\ CancelScan
    /\ UNCHANGED <<pc, result, fetchVars>>

Next == FetchStep \/ Cancel

Spec == Init /\ [][Next]_vars

\* Requests and transfers end: they carry ctx and the client has a timeout.
FairSpec == Spec /\ WF_vars(FetchStep)

-----------------------------------------------------------------------------
\* "A mirror missing LFS content is not a complete backup" (lfs.go:89-90): if FetchAll
\* returns nil, every LFS object named by a blob that the refs reach is in the store,
\* however requests were narrowed, URLs lapsed and transfers broke.
MirrorComplete == result = "ok" => ReachablePointers \subseteq store

\* "%d of %d LFS objects could not be fetched" (lfs.go:206): without another error the
\* number counts each object once that the endpoint refused or let lapse, and no other,
\* and whatever is not in the store is among them.
MissingCounted ==
    result = "missing" =>
        /\ total.unavailable + total.rejected = Cardinality(lost)
        /\ ToSet(list) \ store \subseteq lost

\* "Both halves are always tried, so a failure in one cannot cost the other its objects"
\* (lfs.go:257-258), and the sweep goes on until a second chunk fails: every object of
\* the chunks so far was in a request that was answered or failed, or was refused alone.
EveryObjectAsked ==
    /\ pc \in {"chunk", "done"} =>
          \A i \in DOMAIN list : i < next => list[i] \in accepted \cup lost \cup dropped
    /\ result # "none" /\ next > 1 => next > Len(list) \/ cancelled \/ failures = 2

\* "A refused sibling object is that object's fault rather than the endpoint's"
\* (lfs.go:307-309): the endpoint is blamed for a chunk only if it answered for none of
\* its objects.
BlamedOnlyIfSilent ==
    pc = "return" /\ ret.err = "refused" /\ calls = <<>> =>
        \A i \in DOMAIN list : next - limit <= i /\ i < next => list[i] \notin accepted

\* ErrDisabled lets the backup pass without LFS (git.go:199): no failure of the root that
\* the remote itself configures is hidden by what the guess says, nor a failure of the
\* guess by a root where nothing answers.
DisabledIsSaid ==
    result = "disabled" =>
        /\ answers["configured"] \in {"disabled", "absent"}
        /\ answers["configured"] = "absent" => answers["derived"] # "failed"

\* The narrowing and the second requests come to an end.
FetchEnds == <>(pc = "done")
=============================================================================
