----------------------------- MODULE MCScheduler -----------------------------
EXTENDS Scheduler, TLC
CONSTANTS often, rarely, never, broken
\* Both schedules fire at 4; never is a date that does not exist.
Firing == often :> {0, 4} @@ rarely :> {4} @@ never :> {}
=============================================================================
