\* Runs without end, over settings that have the second repository in a URL job of
\* its own, without the cache, in the job of the first, two of which are worked on
\* at once, or in none; any two faults, crashes and shutdowns among them.
SPECIFICATION FairSpec
CONSTANTS
    a = a
    b = b
    da = da
    db = db
    Gone = Gone
    Absent = Absent
    Broken = Broken
    Repos = {a, b}
    Dirs = {da, db}
    Dir <- OwnDir
    JobLists <- Mixed
    Concurrency = 2
    MaxVersion = 1
    MaxFaults = 2
    MaxEdits = 1

    
PROPERTIES
    CleanupSparesMirrors
    
    OrphansGo
