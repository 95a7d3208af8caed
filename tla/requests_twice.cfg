\* New bids under one key and raises, one unknown commit per call.
SPECIFICATION FairSpec
CONSTANTS
    Calls = {c1, c2, c3}
    Requests <- NewAndRaise
    Keys = {"k"}
    NoKey = "none"
    MaxAttempts = 2
    MaxUnknown = 1
    MaxErrors = 0
INVARIANTS
    NoDoubleLock
\* Every call has ended and the auction is over.
CHECK_DEADLOCK FALSE
