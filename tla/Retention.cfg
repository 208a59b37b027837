\* Four days of a project and its snippet, the settings switched between keeping
\* none and two, requests failing, keys left undeleted, the process killed.
\* The model stops when the days are over.
SPECIFICATION Spec
CHECK_DEADLOCK FALSE
CONSTANTS
    Repositories = {"project", "snippet"}
    Prefix <- TwoPrefixes
    Projects = {"project"}
    Settings <- Keep02
    BatchSize = 2
    MaxAttempts = 2
    MaxDay = 4
    Failures = TRUE
    KeyErrors = TRUE
PROPERTIES
    MinimumKept
    PruneComplete
    KeptRepositoryIntact
