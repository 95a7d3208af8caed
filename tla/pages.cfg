\* Two rounds of one gift, two users, two bids, an extension, an event emitted again, a
\* reader; two edits, two requests besides those for the draft, a loss, a reload or a logout.
SPECIFICATION MCSpec
CONSTANTS
    Users = {u1, u2}
    TotalRounds = 2
    MaxAmount = 2
    MaxBids = 2
    MaxExtensions = 1
    MaxRepeats = 1
    Readers = {r1}
    MaxAuctions = 2
    MaxEdits = 2
    MaxCalls = 2
    MaxLosses = 1
    MaxSessions = 1
SYMMETRY Interchangeable
INVARIANTS
    
    
    SubmissionHolds
    DraftKept
\* The auction is over, and the bounds on edits and documents are reached.
CHECK_DEADLOCK FALSE
