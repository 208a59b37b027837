\* Pages of two, two attempts, one change to a listing.  The call returns, and
\* with that the model stops.
SPECIFICATION FairDiscoverySpec
CHECK_DEADLOCK FALSE
CONSTANTS
    Urls <- MCUrls
    Nameless <- MCNameless
    Newcomers <- MCNewcomers
    Upstreams <- MCUpstreams
    Served <- MCServed
    PageSize = 2
    ProviderMaxAttempts = 2
    MaxChanges = 1
INVARIANTS
    NothingOverlooked
    OwnedWins
PROPERTIES
    DiscoveryEnds
