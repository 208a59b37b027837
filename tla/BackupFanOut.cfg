\* Up to four items, on the sequential path and on two or three slots.  A cancelled
\* select wedges the call (see BackupFanOut_cancel), so the model may stop.
SPECIFICATION FairSpec
CHECK_DEADLOCK FALSE
CONSTANTS
    MaxItems = 4
    Concurrencies = {0, 2, 3}
INVARIANTS
    NilMeansAllDone
    AtMostOneExtra
PROPERTIES
    EndsUncancelled
