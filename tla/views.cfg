\* Two events, two flushes at once, one connection lost, two attempts; two rounds, one
\* reader, two rebuilds at once, one late bid, one Redis error; two auctions on pages of one,
\* two moves of the reader, a connection lost.
SPECIFICATION MCSpec
CONSTANTS
    Flushes = {f1, f2}
    Attempts = 2
    MaxChanges = 2
    MaxDrops = 1
    TotalRounds = 2
    Tab = "active"
    MaxFills = 1
    MaxRebuilds = 2
    MaxBids = 1
    MaxErrors = 1
    PageSize = 1
    MaxShifts = 2
    MaxMoves = 2
    MaxLosses = 1
INVARIANTS
    ShowsUnlessOvertaken
    
    LobbyShowsLatest
PROPERTIES
    InTheEndShown
    AllShownInTheEnd
\* A closed page of an auction that is over; a completed auction with nothing cached.
CHECK_DEADLOCK FALSE
