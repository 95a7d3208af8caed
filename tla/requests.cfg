\* Three calls, each a new bid under one key or a raise without a key; one unknown commit
\* per call, one failing write.
SPECIFICATION FairSpec
CONSTANTS
    Calls = {c1, c2, c3}
    Requests <- NewAndRaise
    Keys = {"k"}
    NoKey = "none"
    MaxAttempts = 2
    MaxUnknown = 1
    MaxErrors = 1
INVARIANTS
    TakesEffectOnce
    AnswersTrue
    
PROPERTIES
    EveryCallEnds
\* Every call has ended and the auction is over.
CHECK_DEADLOCK FALSE
