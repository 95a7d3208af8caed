\* Three new bids without a key, no faults.
SPECIFICATION FairSpec
CONSTANTS
    Calls = {c1, c2, c3}
    Requests <- NewOnly
    Keys = {"k"}
    NoKey = "none"
    MaxAttempts = 2
    MaxUnknown = 0
    MaxErrors = 0
PROPERTIES
    NewNeverRaises
\* Every call has ended and the auction is over.
CHECK_DEADLOCK FALSE
