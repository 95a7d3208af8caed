\* Two rounds with late bids in both processes, a restart, a failing transaction and a bid
\* that hurries a job.
SPECIFICATION FairSpec
CONSTANTS
    TotalRounds = 2
    Duration = 2
    Window = 1
    Extension = 1
    Tolerance = 0
    Attempts = 3
    Backoff = 1
    Processes = {"api", "worker"}
    MaxCrashes = 1
    MaxFailures = 1
    MaxHurries = 1
PROPERTIES
    UnmovedRoundsComplete
    EarlyOnlyIfRaced
\* The last round completes and nothing is left to do.
CHECK_DEADLOCK FALSE
