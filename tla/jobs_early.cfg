\* Two rounds with late bids in the API process, nothing fails.
SPECIFICATION FairSpec
CONSTANTS
    TotalRounds = 2
    Duration = 2
    Window = 1
    Extension = 2
    Tolerance = 0
    Attempts = 3
    Backoff = 1
    Processes = {"api"}
    MaxCrashes = 0
    MaxFailures = 0
    MaxHurries = 0
PROPERTIES
    NeverEarly
\* The last round completes and nothing is left to do.
CHECK_DEADLOCK FALSE
