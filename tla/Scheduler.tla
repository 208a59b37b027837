------------------------------- MODULE Scheduler -------------------------------
(***************************************************************************)
(* The scheduler loop of internal/scheduler/runner.go and the run state it *)
(* reports to internal/health/health.go.                                   *)
(*                                                                         *)
(* The clock runs in ticks around a period; Fires gives the ticks at which *)
(* a cron expression fires.  A step of the loop takes no time: the clock   *)
(* moves only while the loop waits or one of its jobs works.  The settings *)
(* may change between any two steps, and the context be cancelled.         *)
(***************************************************************************)
EXTENDS Naturals, FiniteSetsExt

CONSTANTS Period,   \* ticks until every schedule repeats itself
          Slice,    \* waitSlice, in ticks
          Fires,    \* of each cron expression that parses: when it fires
          Invalid   \* expressions that do not parse

Parses == DOMAIN Fires
Crons  == Parses \cup Invalid

ASSUME SchedulerAssumption ==
    /\ Period \in Nat \ {0} /\ Slice \in Nat \ {0}
    /\ \A c \in Parses : Fires[c] \subseteq 0 .. Period - 1
    /\ Invalid \cap Parses = {}

None == "none"

VARIABLES now,        \* the clock
          cron,       \* the expression in the settings in force
          cancelled,  \* ctx
          loop,       \* where the loop is
          scheduled,  \* cronExpression: what the present wait is for
          due,        \* ticks until nextOccurrence
          timer,      \* ticks until the timer of the wait fires
          report,     \* a start without its completion, lastRunOutcome, nextRunAt
          age,        \* history: ticks since the settings changed, up to Slice + 1
          served      \* history: "no", "busy" or "ran", what the loop did at this tick

loopVars == <<scheduled, due, timer>>
historyVars == <<age, served>>
vars == <<now, cron, cancelled, loop, loopVars, report, historyVars>>

Init ==
    /\ now \in 0 .. Period - 1
    /\ cron \in Crons
    /\ cancelled = FALSE
    /\ loop = "top"
    /\ scheduled = None
    /\ due = 0 /\ timer = 0
    /\ report = [running |-> FALSE, outcome |-> None, nextRun |-> {}]
    /\ age = 0
    /\ served = "busy"

At(place) == loop = place
Goto(place) == loop' = place

\* Mutant: the occurrence at the present tick counts.
TicksUntilOrNow(c) == Min({d \in 0 .. Period : (now + d) % Period \in Fires[c]})

\* parsed.Next(now + 1ms), strictly later.
TicksUntil(c) == Min({d \in 1 .. Period : (now + d) % Period \in Fires[c]})

-----------------------------------------------------------------------------
(* The top of the loop. *)

\* ctx.Err at the top, in the wait, and in either timer's select.
Leave ==
    /\ loop \in {"top", "check", "sleep"}
    /\ cancelled
    /\ Goto("done")
    /\ UNCHANGED <<now, cron, cancelled, loopVars, report, historyVars>>

\* resolveSchedule of an expression that does not parse: wait a slice.
AwaitFix ==
    /\ At("top") /\ ~cancelled
    /\ cron \in Invalid
    /\ timer' = Slice
    /\ Goto("invalid")
    /\ UNCHANGED <<now, cron, cancelled, scheduled, due, report, historyVars>>

RetryParse ==
    /\ At("invalid")
    /\ timer = 0 \/ cancelled
    /\ Goto("top")
    /\ UNCHANGED <<now, cron, cancelled, loopVars, report, historyVars>>

\* resolveNextOccurrence: next.IsZero.
StopJobLoop ==
    /\ At("top") /\ ~cancelled
    /\ cron \in Parses /\ Fires[cron] = {}
    /\ Goto("done")
    /\ UNCHANGED <<now, cron, cancelled, loopVars, report, historyVars>>

\* resolveNextOccurrence and SetNextRun.
Plan ==
    /\ At("top") /\ ~cancelled
    /\ cron \in Parses /\ Fires[cron] # {}
    /\ scheduled' = cron
    /\ due' = TicksUntil(cron)
    /\ report' = [report EXCEPT !.nextRun = {(now + due') % Period}]
    /\ Goto("check")
    /\ UNCHANGED <<now, cron, cancelled, timer, historyVars>>

-----------------------------------------------------------------------------
(* delayUntil. *)

\* Mutant: a change to another valid schedule is noted, but the loop waits on.
RescheduleLater ==
    /\ At("check") /\ ~cancelled
    /\ cron # scheduled
    /\ \/ cron \in Parses /\ scheduled' = cron /\ UNCHANGED loop
       \/ cron \in Invalid /\ Goto("top") /\ UNCHANGED scheduled
    /\ UNCHANGED <<now, cron, cancelled, due, timer, report, historyVars>>

Reschedule ==
    /\ At("check") /\ ~cancelled
    /\ cron # scheduled
    /\ Goto("top")
    /\ UNCHANGED <<now, cron, cancelled, loopVars, report, historyVars>>

TargetReached ==
    /\ At("check") /\ ~cancelled
    /\ cron = scheduled
    /\ due = 0
    /\ Goto("reached")
    /\ UNCHANGED <<now, cron, cancelled, loopVars, report, historyVars>>

Sleep ==
    /\ At("check") /\ ~cancelled
    /\ cron = scheduled
    /\ due > 0
    /\ timer' = Min({Slice, due})
    /\ Goto("sleep")
    /\ UNCHANGED <<now, cron, cancelled, scheduled, due, report, historyVars>>

Wake ==
    /\ At("sleep")
    /\ timer = 0
    /\ Goto("check")
    /\ UNCHANGED <<now, cron, cancelled, loopVars, report, historyVars>>

-----------------------------------------------------------------------------
(* runWithTiming and runRetention. *)

StartRun ==
    /\ At("reached")
    /\ report' = [report EXCEPT !.running = TRUE]
    /\ served' = "ran"
    /\ Goto("run")
    /\ UNCHANGED <<now, cron, cancelled, loopVars, age>>

Completed(outcome) == report' = [report EXCEPT !.running = FALSE, !.outcome = outcome]

RunSucceeds ==
    /\ At("run") /\ ~cancelled
    /\ Completed("success")
    /\ Goto("retain")
    /\ UNCHANGED <<now, cron, cancelled, loopVars, historyVars>>

\* Mutant: a failed run ends the loop.
FailureEndsLoop ==
    /\ At("run") /\ ~cancelled
    /\ Completed("failed")
    /\ Goto("done")
    /\ UNCHANGED <<now, cron, cancelled, loopVars, historyVars>>

\* Mutant: only a success is reported.
FailureUnreported ==
    /\ At("run") /\ ~cancelled
    /\ Goto("retain")
    /\ UNCHANGED <<now, cron, cancelled, loopVars, report, historyVars>>

\* An error of repositorySync.Run is reported and swallowed.
RunFails ==
    /\ At("run") /\ ~cancelled
    /\ Completed("failed")
    /\ Goto("retain")
    /\ UNCHANGED <<now, cron, cancelled, loopVars, historyVars>>

\* With or without an error: nothing is reported of a run that was cancelled.
RunCancelled ==
    /\ At("run") /\ cancelled
    /\ Goto("done")
    /\ UNCHANGED <<now, cron, cancelled, loopVars, report, historyVars>>

BeginRetention ==
    /\ At("retain")
    /\ Goto(IF cancelled THEN "top" ELSE "retention")
    /\ UNCHANGED <<now, cron, cancelled, loopVars, report, historyVars>>

\* With or without an error, cancelled or not.
RetentionEnds ==
    /\ At("retention")
    /\ Goto("top")
    /\ UNCHANGED <<now, cron, cancelled, loopVars, report, historyVars>>

-----------------------------------------------------------------------------
(* The world. *)

Working == loop \in {"run", "retention"}
Waiting == loop \in {"sleep", "invalid"} /\ timer > 0 /\ ~cancelled

Tick ==
    /\ Working \/ Waiting
    /\ now' = (now + 1) % Period
    /\ due' = IF due = 0 THEN 0 ELSE due - 1
    /\ timer' = IF timer = 0 THEN 0 ELSE timer - 1
    /\ age' = Min({age + 1, Slice + 1})
    /\ served' = IF Working THEN "busy" ELSE "no"
    /\ UNCHANGED <<cron, cancelled, loop, scheduled, report>>

ReloadSettings ==
    /\ \E c \in Crons \ {cron} : cron' = c
    /\ age' = 0
    /\ UNCHANGED <<now, cancelled, loop, loopVars, report, served>>

Cancel ==
    /\ cancelled' = TRUE
    /\ UNCHANGED <<now, cron, loop, loopVars, report, historyVars>>

JobEnds == RunSucceeds \/ RunFails \/ RunCancelled \/ RetentionEnds

LoopStep ==
    \/ Leave \/ AwaitFix \/ RetryParse \/ StopJobLoop \/ Plan
    \/ Reschedule \/ TargetReached \/ Sleep \/ Wake
    \/ StartRun \/ BeginRetention

Next == LoopStep \/ JobEnds \/ Tick \/ ReloadSettings \/ Cancel

Spec == Init /\ [][Next]_vars

\* The goroutine is scheduled, time passes, and a job that works comes to its end.
\* The last is an assumption on the forge: requests of the store have a timeout and
\* git is run under ctx, but the forge client has no timeout of its own
\* (client.go:42), so a forge that never answers holds a job until ctx is cancelled.
FairSpec == Spec /\ WF_vars(LoopStep) /\ WF_vars(Tick) /\ WF_vars(JobEnds)

-----------------------------------------------------------------------------
\* No occurrence of a schedule that has been in force for more than a slice goes by
\* unless a job is still working: the loop is never asleep over one, whatever was
\* reloaded before and however the job before it ended.
OccurrenceKept ==
    [][Tick /\ cron \in Parses /\ now \in Fires[cron] /\ age > Slice => served # "no"]_vars

\* A run starts at an occurrence of the schedule it was planned for, not after it,
\* and no occurrence starts two runs, however quickly the first one ends.
RunsOnTime ==
    [][StartRun => now \in Fires[scheduled] /\ served # "ran"]_vars

\* What the status endpoint says is true.  While the loop waits, and a slice after a
\* reload at the latest, nextRunAt is the next occurrence of the schedule in force.
\* A start without its completion is shown only while the run goes on, or for good
\* if it was cancelled: a monitor can tell a stalled run from a finished one.
ReportTrue ==
    /\ At("sleep") /\ age > Slice /\ ~cancelled =>
        /\ cron = scheduled
        /\ report.nextRun = {(now + due) % Period}
        /\ timer > 0 => due = TicksUntil(cron)
    /\ report.running => At("run") \/ (At("done") /\ cancelled)

\* "One bad run never stops the schedule" (runner.go:74): as long as no schedule
\* that never fires is set, and one schedule stays, runs go on for ever, whatever
\* became of earlier ones.  A schedule that never fires ends the loop.
KeepsRunning ==
    [](cron \in Parses => Fires[cron] # {}) =>
        \A c \in Parses : <>[](cron = c) => []<>At("run") \/ <>cancelled
=============================================================================
