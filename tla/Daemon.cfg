\* Edits and changes of the secrets at any moment, an invalid content and a missing
\* file among them; reloads that move the listener between two addresses, which other
\* processes may hold, and none; shutdown at any moment.  The model stops when main
\* has returned, or when the process has panicked (see Daemon_overlap).
SPECIFICATION FairSpec
CHECK_DEADLOCK FALSE
CONSTANTS
    c1 = c1
    c2 = c2
    c3 = c3
    bad = bad
    Contents = {c1, c2, c3, bad}
    Valid = {c1, c2, c3}
    MaxEdits = 4
    Addresses = {8080, 9090}
    Listener <- Listeners
INVARIANTS
    NeverStale
    NoPanicWhileRunning
    ListenerFollows
PROPERTIES
    EditHeals
    ShutdownEnds
