\* As BackupFanOut: the violation needs a second slot.
SPECIFICATION FairSpec
CHECK_DEADLOCK FALSE
CONSTANTS
    MaxItems = 4
    Concurrencies = {0, 2, 3}
PROPERTY CancelStops
