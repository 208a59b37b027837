\* Half-second ticks around a period of four seconds; slices of a second.
\* The loop ends when it is cancelled, or at a schedule that never fires.
SPECIFICATION FairSpec
CHECK_DEADLOCK FALSE
CONSTANTS
    often = often
    rarely = rarely
    never = never
    broken = broken
    Period = 8
    Slice = 2
    Fires <- Firing
    Invalid = {broken}
INVARIANTS
    ReportTrue
PROPERTIES
    OccurrenceKept
    RunsOnTime
    KeepsRunning
