\* As Daemon: main's Stop meets the poller's Restart.
SPECIFICATION DaemonSpec
CHECK_DEADLOCK FALSE
CONSTANTS
    c1 = c1
    c2 = c2
    c3 = c3
    bad = bad
    Contents = {c1, c2, c3}
    Valid = {c1, c2, c3}
    MaxEdits = 2
    Addresses = {8080, 9090}
    Listener <- Listeners
INVARIANT ConcurrentUseSafe
