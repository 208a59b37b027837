\* Deadlock is not checked: FetchAll returns.
SPECIFICATION FairSpec
CHECK_DEADLOCK FALSE
CONSTANTS
    Objects <- GitObjects
    Oids = {"l1", "l2", "l3", "l4"}
    Repositories <- Mirrors
    BatchLimits = {1, 4}
    Stored <- FromEarlier
INVARIANTS
    
    
    MissingCounted
    EveryObjectAsked
    BlamedOnlyIfSilent
    DisabledIsSaid
PROPERTIES
    FetchEnds
