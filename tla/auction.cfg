\* Three rounds, the first of two gifts and the others of what is left of three; three users,
\* four bids.
SPECIFICATION Spec
CONSTANTS
    Users = {u1, u2, u3}
    BidIds = {b1, b2, b3, b4}
    TotalRounds = 3
    WinnersPerRound = 1
    WinnersCount <- FrontLoaded
    MinBid = 1
    MinIncrement = 1
    Amounts = {1, 2}
    Times = {1, 2}
    MaxDeposit = 3
SYMMETRY Interchangeable
INVARIANTS
    OneActivePerUser
    MoneyConserved
    SettledOnce
    SupplyRespected
    GiftsNumbered
    NoBetterBidTurnedAway
    RoundsInSequence
PROPERTIES
    AcceptedBidStays
    EscrowImplemented
    PriceNeverFalls
\* A completed auction whose users have nothing to withdraw or deposit stops.
CHECK_DEADLOCK FALSE
