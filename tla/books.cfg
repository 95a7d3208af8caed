\* Two users with a bid each, two attempts, one commit of unknown outcome, one call lost
\* and one death of the worker; with and without a replica set.
\* The three events of a last round; two attempts of its transaction and of a row; two
\* rows not marked, and another failure, a request or a crash.
SPECIFICATION MCSpec
CONSTANTS
    u1 = u1
    u2 = u2
    deposit = deposit
    withdraw = withdraw
    charge1 = charge1
    charge2 = charge2
    refund1 = refund1
    refund2 = refund2
    NoRef = NoRef
    Users = {u1, u2}
    Refs = {u1, u2}
    WithReplicaSet = {deposit, withdraw, charge2}
    Calls = {deposit, withdraw, charge1, charge2, refund1, refund2}
    Op <- Operations
    ChargeOf <- ChargeCalls
    RefundOf <- RefundCalls
    Rank <- Ranking
    Opening <- Books
    WinnersCount = 1
    TotalSupply = 2
    UniqueRefs = FALSE
    MaxAttempts = 2
    MaxUnknown = 1
    MaxLost = 1
    MaxRuns = 2
    Events <- LastRound
    Audited = {"RoundEnded", "AuctionEnded"}
    MaxTries = 2
    Batch = 6
    MaxUnmarked = 2
    MaxTroubles = 1
INVARIANTS
    BalanceIsLedger
    AuditBlamesOverlaps
    AnswersMatchRows
    NeverBothWays
    UninterruptedSettles
    InOrder
    

    
\* The round is completed, the calls have ended and the audits are done;
\* the outbox is empty.
CHECK_DEADLOCK FALSE
