--------------------------- MODULE Scheduler_proofs ---------------------------
(***************************************************************************)
(* The scheduler keeps its occurrences and reports the truth, for any set  *)
(* of schedules, any period and any slice, and however settings change.    *)
(* The invariant ties the countdown of a wait to the clock: what the loop  *)
(* waits for is the first occurrence ahead; and the slice of a wait to the *)
(* age of the settings: a change is noticed while it is younger than that. *)
(***************************************************************************)
EXTENDS Scheduler, WellFoundedInduction, TLAPS

-----------------------------------------------------------------------------
(* The inductive invariant. *)

Places == {"top", "check", "invalid", "sleep", "reached", "run", "retain", "retention", "done"}

Typed ==
    /\ now \in 0 .. Period - 1
    /\ cron \in Crons
    /\ cancelled \in BOOLEAN
    /\ loop \in Places
    /\ due \in 0 .. Period
    /\ timer \in 0 .. Slice
    /\ report \in [running : BOOLEAN, outcome : {None, "success", "failed"},
                   nextRun : SUBSET (0 .. Period - 1)]
    /\ age \in 0 .. Slice + 1
    /\ served \in {"no", "busy", "ran"}

\* The tick that comes d ticks after tick n.
Ahead(n, d) == (n + d) % Period

\* What the loop waits for is the first occurrence ahead of its schedule, and is what
\* it reports.
Planned ==
    At("check") \/ At("sleep") =>
        /\ scheduled \in Parses
        /\ Ahead(now, due) \in Fires[scheduled]
        /\ \A d \in 1 .. Period : d < due => Ahead(now, d) \notin Fires[scheduled]
        /\ report.nextRun = {Ahead(now, due)}
        /\ served = "ran" => due > 0

\* A wait ends within a slice and does not go beyond the occurrence.
InSlice == At("sleep") => timer <= due

\* The wait notices a change of the settings a slice later at the latest.
Noticed ==
    /\ At("check") /\ cron # scheduled => age <= Slice
    /\ At("sleep") /\ cron # scheduled => age + timer <= Slice
    /\ At("invalid") /\ cron \in Parses => age + timer <= Slice

\* At an occurrence a loop that was not busy with it has just been told of the schedule.
Attended ==
    /\ (At("check") \/ At("sleep")) /\ now \in Fires[scheduled] /\ due > 0 /\ served = "no" =>
           age <= Slice
    /\ At("top") /\ served = "no" /\ cron \in Parses => age <= Slice
    /\ loop \in {"run", "retain", "retention"} => served # "no"

\* Where a run begins, and what is shown of it.
Started ==
    /\ At("reached") => now \in Fires[scheduled] /\ served # "ran"
    /\ report.running => At("run") \/ (At("done") /\ cancelled)

SchedulerInv == Typed /\ Planned /\ InSlice /\ Noticed /\ Attended /\ Started

-----------------------------------------------------------------------------
(* Minima, and the clock. *)

LEMMA MinIs ==
    ASSUME NEW T, T \subseteq Nat, T # {}
    PROVE  Min(T) \in T /\ \A y \in T : Min(T) <= y
<1>. DEFINE R == OpToRel(<, Nat)
<1>1. IsWellFoundedOn(R, Nat)
  BY NatLessThanWellFounded
<1>2. \A x, y \in Nat : y < x => <<y, x>> \in R
  BY DEF OpToRel
<1>. HIDE DEF R
<1>3. PICK x \in T : \A y \in T : <<y, x>> \notin R
  BY <1>1, WFMin
<1>4. ASSUME NEW y \in T PROVE x <= y
  <2>1. x \in Nat /\ y \in Nat /\ ~(y < x)
    BY <1>2, <1>3
  <2>. QED
    BY <2>1
<1>. QED
  BY <1>4 DEF Min

LEMMA ClockTurns ==
    ASSUME NEW n \in 0 .. Period - 1
    PROVE  /\ Ahead(n, 0) = n /\ Ahead(n, 1) \in 0 .. Period - 1
           /\ \A d \in 0 .. Period : Ahead(n, d) \in 0 .. Period - 1
           /\ \A d \in 0 .. Period - 1 : Ahead(Ahead(n, 1), d) = Ahead(n, d + 1)
<1>. Period \in Nat \ {0}
  BY SchedulerAssumption
<1>1. ASSUME NEW x \in 0 .. 2 * Period - 1
      PROVE  x % Period = IF x < Period THEN x ELSE x - Period
  <2>1. CASE x < Period
    BY <2>1
  <2>2. CASE x >= Period
    BY <2>2
  <2>. QED
    BY <2>1, <2>2
<1>2. ASSUME NEW d \in 0 .. Period
      PROVE  Ahead(n, d) = IF n + d < Period THEN n + d ELSE n + d - Period
  BY <1>1 DEF Ahead
<1>3. Ahead(n, 0) = n /\ \A d \in 0 .. Period : Ahead(n, d) \in 0 .. Period - 1
  BY <1>2
<1>4. ASSUME NEW d \in 0 .. Period - 1
      PROVE  Ahead(Ahead(n, 1), d) = Ahead(n, d + 1)
  <2>1. PICK m \in 0 .. Period - 1 : m = Ahead(n, 1)
    BY <1>3
  <2>2. m = IF n + 1 < Period THEN n + 1 ELSE n + 1 - Period
    BY <1>2, <2>1
  <2>3. Ahead(m, d) = IF m + d < Period THEN m + d ELSE m + d - Period
    BY <1>1 DEF Ahead
  <2>4. Ahead(n, d + 1) = IF n + (d + 1) < Period THEN n + (d + 1) ELSE n + (d + 1) - Period
    BY <1>2
  <2>. QED
    BY <2>1, <2>2, <2>3, <2>4
<1>. QED
  BY <1>3, <1>4

\* Each tick of the period is ahead.
LEMMA Comes ==
    ASSUME NEW n \in 0 .. Period - 1, NEW f \in 0 .. Period - 1
    PROVE  \E d \in 1 .. Period : Ahead(n, d) = f
<1>. Period \in Nat \ {0}
  BY SchedulerAssumption
<1>1. CASE n < f
  <2>1. f - n \in 1 .. Period /\ n + (f - n) = f /\ f % Period = f
    BY <1>1
  <2>. QED
    BY <2>1 DEF Ahead
<1>2. CASE f <= n
  <2>1. f - n + Period \in 1 .. Period /\ n + (f - n + Period) = f + Period /\ (f + Period) % Period = f
    BY <1>2
  <2>. QED
    BY <2>1 DEF Ahead
<1>. QED
  BY <1>1, <1>2

\* parsed.Next: the first occurrence ahead.
LEMMA TicksUntilIs ==
    ASSUME now \in 0 .. Period - 1, NEW c \in Parses
    PROVE  /\ Fires[c] # {} =>
               /\ TicksUntil(c) \in 1 .. Period
               /\ Ahead(now, TicksUntil(c)) \in Fires[c]
               /\ \A d \in 1 .. Period : d < TicksUntil(c) => Ahead(now, d) \notin Fires[c]
           /\ \A d \in 1 .. Period :
               /\ Ahead(now, d) \in Fires[c]
               /\ \A e \in 1 .. Period : e < d => Ahead(now, e) \notin Fires[c]
               => d = TicksUntil(c)
<1>. Period \in Nat \ {0} /\ Fires[c] \subseteq 0 .. Period - 1
  BY SchedulerAssumption
<1>. DEFINE T == {d \in 1 .. Period : Ahead(now, d) \in Fires[c]}
<1>1. TicksUntil(c) = Min(T)
  BY DEF TicksUntil, Ahead
<1>2. T \subseteq Nat
  OBVIOUS
<1>3. ASSUME T # {}
      PROVE  /\ Min(T) \in T
             /\ \A d \in 1 .. Period : d < Min(T) => Ahead(now, d) \notin Fires[c]
  <2>. HIDE DEF T
  <2>1. Min(T) \in T /\ \A y \in T : Min(T) <= y
    BY <1>2, <1>3, MinIs
  <2>2. PICK m \in 1 .. Period : m = Min(T)
    BY <2>1 DEF T
  <2>3. ASSUME NEW d \in 1 .. Period, d < m PROVE d \notin T
    <3>1. d \in T => m <= d
      BY <2>1, <2>2
    <3>. QED
      BY <2>3, <3>1
  <2>. QED
    BY <2>1, <2>2, <2>3 DEF T
<1>4. Fires[c] # {} => T # {}
  BY Comes
<1>5. ASSUME NEW d \in 1 .. Period, Ahead(now, d) \in Fires[c],
             \A e \in 1 .. Period : e < d => Ahead(now, e) \notin Fires[c]
      PROVE  d = Min(T)
  <2>1. d \in T
    BY <1>5
  <2>2. PICK m \in 1 .. Period : m = Min(T) /\ Ahead(now, m) \in Fires[c]
    BY <1>3, <2>1
  <2>3. ~(m < d)
    BY <1>5, <2>2
  <2>4. ~(d < m)
    BY <1>3, <1>5, <2>1, <2>2
  <2>. QED
    BY <2>2, <2>3, <2>4
<1>. HIDE DEF T
<1>. QED
  BY <1>1, <1>3, <1>4, <1>5 DEF T

\* The shorter of two times.
LEMMA MinOfTwo ==
    ASSUME NEW x \in Nat, NEW y \in Nat
    PROVE  Min({x, y}) = IF x <= y THEN x ELSE y
<1>. DEFINE T == {x, y}
<1>1. Min(T) \in T /\ \A z \in T : Min(T) <= z
  <2>1. T \subseteq Nat /\ T # {}
    OBVIOUS
  <2>. HIDE DEF T
  <2>. QED
    BY <2>1, MinIs
<1>2. PICK m \in Nat : m = Min(T)
  BY <1>1
<1>. QED
  BY <1>1, <1>2

-----------------------------------------------------------------------------
(* The invariant is inductive. *)

LEMMA Initially == Init => SchedulerInv
<1>1. Period \in Nat \ {0} /\ Slice \in Nat \ {0}
  BY SchedulerAssumption
<1>. SUFFICES ASSUME Init PROVE SchedulerInv
  OBVIOUS
<1>2. Typed
  <2>1. report \in [running : BOOLEAN, outcome : {None, "success", "failed"},
                   nextRun : SUBSET (0 .. Period - 1)]
    BY Zenon DEF Init
  <2>2. due \in 0 .. Period /\ timer \in 0 .. Slice /\ age \in 0 .. Slice + 1
    BY <1>1 DEF Init
  <2>. QED
    BY <2>1, <2>2 DEF Init, Typed, Places
<1>3. Planned /\ InSlice /\ Noticed /\ Attended /\ Started
  BY DEF Init, Planned, InSlice, Noticed, Attended, Started, At
<1>. QED
  BY <1>2, <1>3 DEF SchedulerInv

\* The steps that leave the clock alone.
LEMMA LoopMoves ==
    ASSUME SchedulerInv, LoopStep \/ JobEnds
    PROVE  SchedulerInv'
<1>. Period \in Nat \ {0} /\ Slice \in Nat \ {0} /\ Invalid \cap Parses = {}
  BY SchedulerAssumption
<1>. USE DEF SchedulerInv, Typed, Planned, InSlice, Noticed, Attended, Started,
             At, Goto, loopVars, historyVars, Places, Completed
<1>1. CASE Leave
  BY <1>1 DEF Leave
<1>2. CASE AwaitFix
  BY <1>2 DEF AwaitFix
<1>3. CASE RetryParse
  BY <1>3 DEF RetryParse
<1>4. CASE StopJobLoop
  BY <1>4 DEF StopJobLoop
<1>5. CASE Plan
  <2>1. PICK d \in 1 .. Period :
            /\ d = TicksUntil(cron)
            /\ Ahead(now, d) \in Fires[cron]
            /\ \A e \in 1 .. Period : e < d => Ahead(now, e) \notin Fires[cron]
    BY <1>5, TicksUntilIs DEF Plan
  <2>2. due' = d /\ scheduled' = cron /\ cron \in Parses
    BY <1>5, <2>1 DEF Plan
  <2>3. report' = [report EXCEPT !.nextRun = {Ahead(now, d)}]
    BY <1>5, <2>2 DEF Plan, Ahead
  <2>4. Ahead(now, d) \in 0 .. Period - 1
    <3>1. PICK n \in 0 .. Period - 1 : n = now
      OBVIOUS
    <3>2. Ahead(n, d) \in 0 .. Period - 1
      BY ClockTurns
    <3>. QED
      BY <3>1, <3>2
  <2>5. Typed'
    BY <1>5, <2>2, <2>3, <2>4 DEF Plan
  <2>6. Planned'
    BY <1>5, <2>1, <2>2, <2>3 DEF Plan
  <2>7. InSlice' /\ Noticed' /\ Attended'
    BY <1>5, <2>2 DEF Plan
  <2>8. Started'
    BY <1>5, <2>3 DEF Plan
  <2>. QED
    BY <2>5, <2>6, <2>7, <2>8
<1>6. CASE Reschedule
  BY <1>6 DEF Reschedule
<1>7. CASE TargetReached
  <2>1. Ahead(now, 0) = now
    BY ClockTurns
  <2>. QED
    BY <1>7, <2>1 DEF TargetReached
<1>8. CASE Sleep
  <2>1. timer' = IF Slice <= due THEN Slice ELSE due
    BY <1>8, MinOfTwo DEF Sleep
  <2>. QED
    BY <1>8, <2>1 DEF Sleep
<1>9. CASE Wake
  BY <1>9 DEF Wake
<1>10. CASE StartRun
  BY <1>10 DEF StartRun
<1>11. CASE RunSucceeds
  BY <1>11 DEF RunSucceeds
<1>12. CASE RunFails
  BY <1>12 DEF RunFails
<1>13. CASE RunCancelled
  BY <1>13 DEF RunCancelled
<1>14. CASE BeginRetention
  BY <1>14 DEF BeginRetention
<1>15. CASE RetentionEnds
  BY <1>15 DEF RetentionEnds
<1>. QED
  BY <1>1, <1>2, <1>3, <1>4, <1>5, <1>6, <1>7, <1>8, <1>9, <1>10, <1>11, <1>12, <1>13,
     <1>14, <1>15 DEF LoopStep, JobEnds

\* A tick takes one from every countdown and adds one to the age.
LEMMA TickKeeps ==
    ASSUME SchedulerInv, Tick
    PROVE  SchedulerInv'
<1>. Period \in Nat \ {0} /\ Slice \in Nat \ {0}
  BY SchedulerAssumption
<1>. USE DEF SchedulerInv
<1>1. now' = Ahead(now, 1) /\ now' \in 0 .. Period - 1
  BY ClockTurns DEF Typed, Tick, Ahead
<1>2. age' = IF age <= Slice THEN age + 1 ELSE Slice + 1
  <2>1. age' = Min({age + 1, Slice + 1}) /\ age \in 0 .. Slice + 1
    BY DEF Tick, Typed
  <2>2. Min({age + 1, Slice + 1}) = IF age + 1 <= Slice + 1 THEN age + 1 ELSE Slice + 1
    BY <2>1, MinOfTwo
  <2>. QED
    BY <2>1, <2>2
<1>3. /\ due' = IF due = 0 THEN 0 ELSE due - 1
      /\ timer' = IF timer = 0 THEN 0 ELSE timer - 1
      /\ UNCHANGED <<cron, cancelled, loop, scheduled, report>>
      /\ served' = IF Working THEN "busy" ELSE "no"
  BY DEF Tick
<1>4. At("sleep") => timer > 0 /\ due > 0
  BY DEF Tick, Working, Waiting, InSlice, At, Typed
<1>5. Typed'
  <2>1. age' \in 0 .. Slice + 1
    BY <1>2 DEF Typed
  <2>. QED
    BY <1>1, <1>3, <2>1 DEF Typed
<1>6. ASSUME At("sleep")
      PROVE  /\ Ahead(now', due') = Ahead(now, due)
             /\ \A d \in 1 .. Period - 1 : Ahead(now', d) = Ahead(now, d + 1)
  <2>1. \A d \in 0 .. Period - 1 : Ahead(Ahead(now, 1), d) = Ahead(now, d + 1)
    BY ClockTurns DEF Typed
  <2>2. due' \in 0 .. Period - 1 /\ due = due' + 1
    BY <1>3, <1>4, <1>6 DEF Typed
  <2>. QED
    BY <1>1, <2>1, <2>2
<1>7. loop # "check" /\ loop # "top" /\ loop # "reached"
  BY DEF Tick, Working, Waiting
<1>8. Planned'
  <2>1. CASE At("sleep")
    <3>1. /\ scheduled \in Parses
          /\ Ahead(now, due) \in Fires[scheduled]
          /\ \A d \in 1 .. Period : d < due => Ahead(now, d) \notin Fires[scheduled]
          /\ report.nextRun = {Ahead(now, due)}
      BY <2>1 DEF Planned
    <3>2. served' = "no"
      BY <1>3, <2>1 DEF Working, At
    <3>3. ASSUME NEW d \in 1 .. Period, d < due'
          PROVE  Ahead(now', d) \notin Fires[scheduled]
      <4>1. d \in 1 .. Period - 1 /\ d + 1 \in 1 .. Period /\ d + 1 < due
        BY <1>3, <1>4, <2>1, <3>3 DEF Typed
      <4>. QED
        BY <1>6, <2>1, <3>1, <4>1
    <3>. QED
      BY <1>3, <1>6, <2>1, <3>1, <3>2, <3>3 DEF Planned, At
  <2>2. CASE ~At("sleep")
    BY <1>3, <1>7, <2>2 DEF Planned, At
  <2>. QED
    BY <2>1, <2>2
<1>9. InSlice'
  BY <1>3, <1>4 DEF InSlice, At, Typed
<1>10. Noticed'
  <2>1. At("invalid") => timer > 0
    BY DEF Tick, Working, Waiting, At, Typed
  <2>2. At("sleep") /\ cron # scheduled => age + timer <= Slice
    BY DEF Noticed
  <2>3. At("invalid") /\ cron \in Parses => age + timer <= Slice
    BY DEF Noticed
  <2>4. (At("sleep") \/ At("invalid")) /\ age + timer <= Slice => age' + timer' <= Slice
    BY <1>2, <1>3, <1>4, <2>1 DEF Typed
  <2>. QED
    BY <1>3, <1>7, <2>2, <2>3, <2>4 DEF Noticed, At
<1>11. Attended'
  <2>1. ASSUME At("sleep"), due' > 0 PROVE now' \notin Fires[scheduled]
    <3>1. 1 \in 1 .. Period /\ 1 < due
      BY <1>3, <1>4, <2>1 DEF Typed
    <3>. QED
      BY <1>1, <2>1, <3>1 DEF Planned
  <2>2. loop \in {"run", "retain", "retention"} => served' # "no"
    BY <1>3 DEF Tick, Working, Waiting
  <2>. QED
    BY <1>3, <1>7, <2>1, <2>2 DEF Attended, At
<1>12. Started'
  BY <1>3, <1>7 DEF Started, At
<1>. QED
  BY <1>5, <1>8, <1>9, <1>10, <1>11, <1>12

\* What the world does besides.
LEMMA WorldMoves ==
    ASSUME SchedulerInv, ReloadSettings \/ Cancel \/ UNCHANGED vars
    PROVE  SchedulerInv'
<1>. Period \in Nat \ {0} /\ Slice \in Nat \ {0}
  BY SchedulerAssumption
<1>. USE DEF SchedulerInv, Typed, Planned, InSlice, Noticed, Attended, Started,
             At, loopVars, historyVars, Places
<1>1. CASE ReloadSettings
  BY <1>1 DEF ReloadSettings
<1>2. CASE Cancel
  BY <1>2 DEF Cancel
<1>3. CASE UNCHANGED vars
  BY <1>3 DEF vars
<1>. QED
  BY <1>1, <1>2, <1>3

LEMMA SchedulerKept == Spec => []SchedulerInv
<1>1. SchedulerInv /\ [Next]_vars => SchedulerInv'
  BY LoopMoves, TickKeeps, WorldMoves DEF Next
<1>. QED
  BY Initially, <1>1, PTL DEF Spec

-----------------------------------------------------------------------------
(* The properties. *)

\* A step of the clock while an occurrence of a schedule in force for more than a slice
\* is due finds the loop at work or done with it.
LEMMA Kept ==
    ASSUME SchedulerInv
    PROVE  Tick /\ cron \in Parses /\ now \in Fires[cron] /\ age > Slice => served # "no"
<1>. Slice \in Nat \ {0} /\ Period \in Nat \ {0}
  BY SchedulerAssumption
<1>. SUFFICES ASSUME Tick, cron \in Parses, now \in Fires[cron], age > Slice
              PROVE  served # "no"
  OBVIOUS
<1>1. CASE Working
  BY <1>1 DEF Working, SchedulerInv, Attended
<1>2. CASE At("sleep") /\ timer > 0
  <2>1. cron = scheduled
    BY <1>2 DEF SchedulerInv, Noticed, Typed
  <2>2. due > 0
    BY <1>2 DEF SchedulerInv, InSlice, Typed
  <2>3. ~(age <= Slice)
    BY DEF SchedulerInv, Typed
  <2>. QED
    BY <1>2, <2>1, <2>2, <2>3 DEF SchedulerInv, Attended
<1>3. CASE At("invalid") /\ timer > 0
  BY <1>3 DEF SchedulerInv, Noticed, Typed
<1>. QED
  BY <1>1, <1>2, <1>3 DEF Tick, Waiting, At

\* No occurrence of a schedule that has been in force for more than a slice goes by
\* unless a job is still working (the wait of runner.go in slices).
THEOREM NoOccurrenceLost == Spec => OccurrenceKept
<1>1. SchedulerInv =>
          [Tick /\ cron \in Parses /\ now \in Fires[cron] /\ age > Slice => served # "no"]_vars
  BY Kept
<1>. QED
  BY <1>1, SchedulerKept, PTL DEF OccurrenceKept

\* A run starts at an occurrence of the schedule it was planned for, and no occurrence
\* starts two runs.
THEOREM RunsAreOnTime == Spec => RunsOnTime
<1>1. SchedulerInv => [StartRun => now \in Fires[scheduled] /\ served # "ran"]_vars
  BY DEF SchedulerInv, Started, StartRun
<1>. QED
  BY <1>1, SchedulerKept, PTL DEF RunsOnTime

\* What the status endpoint says of the next run and of a run that goes on is true.
THEOREM ReportIsTrue == Spec => []ReportTrue
<1>1. SchedulerInv => ReportTrue
  <2>. SUFFICES ASSUME SchedulerInv PROVE ReportTrue
    OBVIOUS
  <2>. Slice \in Nat \ {0} /\ Period \in Nat \ {0}
    BY SchedulerAssumption
  <2>1. ASSUME At("sleep"), age > Slice PROVE cron = scheduled
    BY <2>1 DEF SchedulerInv, Noticed, Typed
  <2>2. ASSUME At("sleep") PROVE report.nextRun = {(now + due) % Period}
    BY <2>2 DEF SchedulerInv, Planned, Ahead
  <2>3. ASSUME At("sleep"), cron = scheduled, timer > 0 PROVE due = TicksUntil(cron)
    <3>1. due \in 1 .. Period /\ cron \in Parses /\ now \in 0 .. Period - 1
      BY <2>3 DEF SchedulerInv, InSlice, Planned, Typed
    <3>2. /\ Ahead(now, due) \in Fires[cron]
          /\ \A d \in 1 .. Period : d < due => Ahead(now, d) \notin Fires[cron]
      BY <2>3 DEF SchedulerInv, Planned
    <3>. QED
      BY <3>1, <3>2, TicksUntilIs
  <2>4. report.running => At("run") \/ (At("done") /\ cancelled)
    BY DEF SchedulerInv, Started
  <2>. QED
    BY <2>1, <2>2, <2>3, <2>4 DEF ReportTrue
<1>. QED
  BY <1>1, SchedulerKept, PTL
=============================================================================
