\* Up to five items.  A concurrency of 0 is raised to 1, the sequential path;
\* on two or three slots the loop blocks in its select while workers fail, finish or
\* are cancelled, and items are left for it to refuse.
\* The call returns and the model stops; Terminates says it stops nowhere else.
SPECIFICATION FairSpec
CHECK_DEADLOCK FALSE
CONSTANTS
    MaxItems = 5
    Concurrencies = {0, 2, 3}
INVARIANTS
    SlotsMatchHolders
    AtMostOneLateStart
PROPERTIES
    ImplementsParallelFor
    Terminates
