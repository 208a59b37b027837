\* An item's attachment on a foreign host, pages of two.  Two workers over two
\* runs and two items, one more created; one worker over three items, so that
\* the producer blocks behind a worker that left (see MCCollectionSync).
\* Runs are cancelled or killed anywhere; the model stops when they are used up.
SPECIFICATION MCSpec
CHECK_DEADLOCK FALSE
CONSTANTS
    MaxNumber = 3
    Workers = {w1, w2}
    PageSize = 2
    Source = "gitlabReleaseLink"
    Foreign = {1}
    MaxRuns = 2
    MaxChanges = 1
SYMMETRY WorkerSymmetry
INVARIANTS
    ManifestBacked
    ReconcileSeesAll
    NeverStuck
PROPERTIES
    NoLiveDeleted
