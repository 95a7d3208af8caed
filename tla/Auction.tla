------------------------------ MODULE Auction ------------------------------
(***************************************************************************)
(* One auction at the granularity of its MongoDB transactions: what a bid, *)
(* a raise, a round completion, a deposit and a withdrawal commit.         *)
(*                                                                         *)
(* A transaction that throws leaves nothing behind and is a stuttering     *)
(* step, so only the committing paths of the handlers are actions.  What   *)
(* surrounds a transaction (the check before it, retries, idempotency      *)
(* records) is in BidRequest; who calls CompleteRound, and when, is in     *)
(* RoundJobs.                                                              *)
(***************************************************************************)
EXTENDS Integers, FiniteSets

CONSTANTS
    Users,              \* user documents
    BidIds,             \* ids of the bid documents that may be created
    TotalRounds,        \* auction.totalRounds
    WinnersPerRound,    \* auction.winnersPerRound
    WinnersCount,       \* round number -> round.winnersCount (schedule applied)
    MinBid,             \* auction.minBid
    MinIncrement,       \* auction.minIncrement
    Amounts,            \* the amounts requests may carry
    Times,              \* clock readings a bid transaction may take
    MaxDeposit          \* bound: the net deposit of a user stays below it

ASSUME UsersAssumption == BidIds # {} /\ IsFiniteSet(BidIds)
ASSUME SupplyAssumption ==
    /\ TotalRounds \in Nat \ {0}
    /\ WinnersPerRound \in Nat \ {0}
    /\ WinnersCount \in [1..TotalRounds -> Nat \ {0}]
ASSUME PriceAssumption ==
    /\ MinBid \in Nat \ {0}
    /\ MinIncrement \in Nat \ {0}
    /\ Amounts \subseteq Nat \ {0}
    /\ Times \subseteq Nat
    /\ MaxDeposit \in Nat

VARIABLES
    status,         \* auction.status
    currentRound,   \* auction.currentRound
    distributed,    \* auction.totalGiftsDistributed
    rounds,         \* round documents, by round number
    bids,           \* bid documents, by id
    balance,        \* user.balance
    ledger,         \* per user, the sums of the balance transactions by type
    refs            \* the referenceIds present in the ledger, by type

vars == <<status, currentRound, distributed, rounds, bids, balance, ledger, refs>>

TotalSupply == TotalRounds * WinnersPerRound

BidStatus == {"none", "active", "won", "refunded"}

\* won: the round that awarded the gift; closed: the round in which the bid was
\* refunded (not a field of the document: it dates the refund row).
NoUser == "no user"

Bid == [user : Users \union {NoUser}, amount : Nat, at : Nat, status : BidStatus,
        gift : Nat, won : 0..TotalRounds, closed : 0..TotalRounds]

Round == [status : {"none", "active", "completed"}, extensions : {0, 1}]

\* Per user: deposits minus withdrawals, and the totals locked, refunded and charged.
Sums == [net : Int, lock : Nat, refund : Nat, charge : Nat]

TypeOK ==
    /\ status \in {"draft", "active", "completed"}
    /\ currentRound \in 0..TotalRounds
    /\ distributed \in 0..TotalSupply
    /\ rounds \in [1..TotalRounds -> Round]
    /\ bids \in [BidIds -> Bid]
    /\ balance \in [Users -> Nat]
    /\ ledger \in [Users -> Sums]
    /\ refs \in [lock : SUBSET (BidIds \X Nat), refund : SUBSET BidIds, charge : SUBSET BidIds]

-----------------------------------------------------------------------------
(* Queries.  docs is a state of the bid collection. *)

ActiveIn(docs) == {b \in BidIds : docs[b].status = "active"}
Active == ActiveIn(bids)
ActiveOf(u) == {b \in Active : bids[b].user = u}

\* Fault: the sort forgets the amount.
OutranksByTime(docs, b, c) == docs[b].at < docs[c].at

\* The sort { amount: -1, timestamp: 1 }.
Outranks(docs, b, c) ==
    \/ docs[b].amount > docs[c].amount
    \/ docs[b].amount = docs[c].amount /\ docs[b].at < docs[c].at

\* Fault: the limit is off by one.
FirstOfPlusOne(docs, S, n) ==
    {T \in SUBSET S :
        /\ Cardinality(T) = IF Cardinality(S) <= n + 1 THEN Cardinality(S) ELSE n + 1
        /\ \A b \in T, c \in S \ T : ~Outranks(docs, c, b)}

\* The possible results of sort(...).limit(n) over the bids S: bids that tie on
\* both keys come in any order.
FirstOf(docs, S, n) ==
    {T \in SUBSET S :
        /\ Cardinality(T) = IF Cardinality(S) <= n THEN Cardinality(S) ELSE n
        /\ \A b \in T, c \in S \ T : ~Outranks(docs, c, b)}

\* The possible positions (from 1) of the bids W in that order.
Positions(docs, W) ==
    {pos \in [W -> 1..Cardinality(W)] :
        \A b, c \in W : /\ b # c => pos[b] # pos[c]
                        /\ Outranks(docs, b, c) => pos[b] < pos[c]}

\* Fault: the gifts already distributed are not subtracted.
SupplyNeverShrinks == TotalSupply

RemainingSupply == IF distributed > TotalSupply THEN 0 ELSE TotalSupply - distributed

\* The bids at or above amount a; the n-th ranked bid has the largest amount that
\* n bids reach.
Reaching(a) == {b \in Active : bids[b].amount >= a}

SoldOut == Cardinality(Active) >= RemainingSupply

\* Fault: matching the cutoff is enough.
MeetsCutoffOnly(a) ==
    IF SoldOut
    THEN \E b \in Active :
            /\ Cardinality(Reaching(bids[b].amount)) >= RemainingSupply
            /\ Cardinality({c \in Active : bids[c].amount > bids[b].amount}) < RemainingSupply
            /\ a >= bids[b].amount
    ELSE a >= MinBid

\* Is a bid of amount a high enough?  When every remaining gift has a bid, a must be
\* MinIncrement above the amount of the last bid that would still get one.
MeetsDynamicMinBid(a) ==
    IF SoldOut
    THEN \E b \in Active :
            /\ Cardinality(Reaching(bids[b].amount)) >= RemainingSupply
            /\ Cardinality({c \in Active : bids[c].amount > bids[b].amount}) < RemainingSupply
            /\ a >= bids[b].amount + MinIncrement
    ELSE a >= MinBid

-----------------------------------------------------------------------------
(* Effects of the helpers the transactions call. *)

\* Fault: the duplicate check looks the bid up whatever the type of the row, and takes
\* its lock for a refund.
RefundToUnlocked(docs, S, v) ==
    LET due == {b \in S \ {ref[1] : ref \in refs.lock} : docs[b].user = v}
    IN  IF due = {} THEN 0 ELSE docs[CHOOSE b \in due : TRUE].amount

\* What refund() adds to user v's balance when it is called for the bids S: a bid
\* whose refund row exists is skipped.  A user has at most one bid in S, since the
\* unique index on (auctionId, userId) admits one active bid.
RefundTo(docs, S, v) ==
    LET due == {b \in S \ refs.refund : docs[b].user = v}
    IN  IF due = {} THEN 0 ELSE docs[CHOOSE b \in due : TRUE].amount

\* What charge() records for user v when it is called for the bids S.
ChargeTo(docs, S, v) ==
    LET due == {b \in S \ refs.charge : docs[b].user = v}
    IN  IF due = {} THEN 0 ELSE docs[CHOOSE b \in due : TRUE].amount

\* Fault: the money goes back and the bid stays active.
RefundedStillActive(docs, S, r) ==
    [b \in BidIds |-> IF b \in S THEN [docs[b] EXCEPT !.closed = r] ELSE docs[b]]

Refunded(docs, S, r) ==
    [b \in BidIds |-> IF b \in S
                      THEN [docs[b] EXCEPT !.status = "refunded", !.closed = r]
                      ELSE docs[b]]

\* Fault: gifts are numbered within their round.
WonPerRound(docs, W, pos, r) ==
    [b \in BidIds |-> IF b \in W
                      THEN [docs[b] EXCEPT !.status = "won", !.won = r, !.gift = pos[b]]
                      ELSE docs[b]]

Won(docs, W, pos, r) ==
    [b \in BidIds |-> IF b \in W
                      THEN [docs[b] EXCEPT !.status = "won", !.won = r,
                                           !.gift = distributed + pos[b]]
                      ELSE docs[b]]

\* The referenceId of the lock a bid takes, and what the lock takes from the balance:
\* nothing if the ledger already has a row with that reference.
LockRef(docs, b) == <<b, docs[b].amount>>
Debit(docs, b, cost) == IF LockRef(docs, b) \in refs.lock THEN 0 ELSE cost

\* User u's bid b is written (docs is the result) for a lock of cost, and the bids in
\* displaced are refunded.
Place(u, b, docs, cost, displaced) ==
    LET debited(v) == IF v = u THEN Debit(docs, b, cost) ELSE 0
    IN  /\ bids' = Refunded(docs, displaced, currentRound)
        /\ balance' = [v \in Users |->
               balance[v] - debited(v) + RefundTo(docs, displaced, v)]
        /\ ledger' = [v \in Users |->
               [net    |-> ledger[v].net,
                lock   |-> ledger[v].lock + debited(v),
                refund |-> ledger[v].refund + RefundTo(docs, displaced, v),
                charge |-> ledger[v].charge]]
        /\ refs' = [lock   |-> refs.lock \union {LockRef(docs, b)},
                    refund |-> refs.refund \union displaced,
                    charge |-> refs.charge]

\* Round r is extended, once, if bid b is late and among the first WinnersPerRound.
Extend(docs, b, r, late) ==
    \E top \in FirstOf(docs, ActiveIn(docs), WinnersPerRound) :
        rounds' = IF /\ late /\ b \in top
                     /\ rounds[r].status = "active"
                     /\ rounds[r].extensions < 1
                  THEN [rounds EXCEPT ![r].extensions = 1]
                  ELSE rounds

\* The part of the bid transaction that new bids and raises share, from the lock on:
\* docs is the collection with user u's bid b written and cost the amount to lock.
\* r is the round the request holds (read before the transaction, so possibly a
\* completed one) and late tells whether its end lies inside the anti-sniping window.
CommitBid(u, b, docs, cost, r, late) ==
    /\ balance[u] >= Debit(docs, b, cost)
    /\ \E kept \in FirstOf(docs, ActiveIn(docs), RemainingSupply) :
         LET displaced == ActiveIn(docs) \ kept
         IN  /\ Place(u, b, docs, cost, displaced)
             /\ Extend(Refunded(docs, displaced, currentRound), b, r, late)
    /\ UNCHANGED <<status, currentRound, distributed>>

\* The conditions every bid transaction checks first: the auction is still active
\* (the touch of the auction document) and gifts remain.  The request found round r
\* before the transaction began.
AcceptsBids(r) ==
    /\ status = "active"
    /\ RemainingSupply > 0
    /\ rounds[r].status # "none"

-----------------------------------------------------------------------------
(* Actions *)

\* start(): the auction document first, the first round in a second write.
Start ==
    /\ status = "draft"
    /\ status' = "active"
    /\ currentRound' = 1
    /\ UNCHANGED <<distributed, rounds, bids, balance, ledger, refs>>

OpenFirstRound ==
    /\ status = "active"
    /\ currentRound = 1
    /\ rounds[1].status = "none"
    /\ rounds' = [rounds EXCEPT ![1].status = "active"]
    /\ UNCHANGED <<status, currentRound, distributed, bids, balance, ledger, refs>>

\* The collection with a new bid b, and with bid b raised by a.
NewDocs(u, b, a, t) ==
    [bids EXCEPT ![b] = [user |-> u, amount |-> a, at |-> t, status |-> "active",
                         gift |-> 0, won |-> 0, closed |-> 0]]
RaisedDocs(b, a, t) == [bids EXCEPT ![b].amount = @ + a, ![b].at = t]

\* Fault: the transaction does not look for an active bid, and no index stops it.
NewBidUnchecked(u, a, t, r, late) ==
    /\ AcceptsBids(r)
    /\ MeetsDynamicMinBid(a)
    /\ \E b \in BidIds :
        /\ bids[b].status = "none"
        /\ CommitBid(u, b, NewDocs(u, b, a, t), a, r, late)

\* The bid transaction of a user without an active bid.
NewBid(u, a, t, r, late) ==
    /\ AcceptsBids(r)
    /\ ActiveOf(u) = {}
    /\ MeetsDynamicMinBid(a)
    /\ \E b \in BidIds :
        /\ bids[b].status = "none"
        /\ CommitBid(u, b, NewDocs(u, b, a, t), a, r, late)

\* The bid transaction of a user with an active bid: a is added to it, whatever the
\* mode of the request.  (a = 0 rewrites nothing and is a stuttering step.)
RaiseBid(u, a, t, r, late) ==
    /\ AcceptsBids(r)
    /\ a >= MinIncrement
    /\ \E b \in ActiveOf(u) :
        /\ MeetsDynamicMinBid(bids[b].amount + a)
        /\ CommitBid(u, b, RaisedDocs(b, a, t), a, r, late)

\* Round r awards gifts to winners, in the order pos, and refunds losers.
Settle(r, winners, pos, losers) ==
    /\ bids' = Refunded(Won(bids, winners, pos, r), losers, r)
    /\ balance' = [v \in Users |-> balance[v] + RefundTo(bids, losers, v)]
    /\ ledger' = [v \in Users |->
           [net    |-> ledger[v].net,
            lock   |-> ledger[v].lock,
            refund |-> ledger[v].refund + RefundTo(bids, losers, v),
            charge |-> ledger[v].charge + ChargeTo(bids, winners, v)]]
    /\ refs' = [lock   |-> refs.lock,
                refund |-> refs.refund \union losers,
                charge |-> refs.charge \union winners]

\* The gifts round r gives away, awarded or not; the number distributed after it; and
\* whether the auction ends with it.
Burned(r) == IF WinnersCount[r] <= RemainingSupply THEN WinnersCount[r] ELSE RemainingSupply
DistributedAfter(r) == distributed + Burned(r)
EndsAuction(r) == r >= TotalRounds \/ DistributedAfter(r) >= TotalSupply

\* completeRound(): award the round's gifts, refund whoever cannot win any more, and
\* either end the auction or open the next round.
CompleteRound(r) ==
    /\ rounds[r].status = "active"
    /\ ~EndsAuction(r) => rounds[r + 1].status = "none"
    /\ \E winners \in FirstOf(bids, Active, Burned(r)) :
       \E pos \in Positions(bids, winners) :
       \E kept \in FirstOf(bids, Active \ winners,
                          IF EndsAuction(r) THEN 0 ELSE TotalSupply - DistributedAfter(r)) :
         Settle(r, winners, pos, (Active \ winners) \ kept)
    /\ distributed' = DistributedAfter(r)
    /\ status' = IF EndsAuction(r) THEN "completed" ELSE status
    /\ currentRound' = IF EndsAuction(r) THEN currentRound ELSE r + 1
    /\ rounds' = [n \in 1..TotalRounds |->
            IF n = r THEN [rounds[n] EXCEPT !.status = "completed"]
            ELSE IF ~EndsAuction(r) /\ n = r + 1 THEN [status |-> "active", extensions |-> 0]
            ELSE rounds[n]]

\* deposit() with a positive and with a negative amount.
Deposit(u, a) ==
    /\ ledger[u].net + a <= MaxDeposit
    /\ balance' = [balance EXCEPT ![u] = @ + a]
    /\ ledger' = [ledger EXCEPT ![u].net = @ + a]
    /\ UNCHANGED <<status, currentRound, distributed, rounds, bids, refs>>

Withdraw(u, a) ==
    /\ balance[u] >= a
    /\ balance' = [balance EXCEPT ![u] = @ - a]
    /\ ledger' = [ledger EXCEPT ![u].net = @ - a]
    /\ UNCHANGED <<status, currentRound, distributed, rounds, bids, refs>>

-----------------------------------------------------------------------------

NoDocument == [user |-> NoUser, amount |-> 0, at |-> 0, status |-> "none",
               gift |-> 0, won |-> 0, closed |-> 0]

Init ==
    /\ status = "draft"
    /\ currentRound = 0
    /\ distributed = 0
    /\ rounds = [r \in 1..TotalRounds |-> [status |-> "none", extensions |-> 0]]
    /\ bids = [b \in BidIds |-> NoDocument]
    /\ balance = [u \in Users |-> 0]
    /\ ledger = [u \in Users |-> [net |-> 0, lock |-> 0, refund |-> 0, charge |-> 0]]
    /\ refs = [lock |-> {}, refund |-> {}, charge |-> {}]

Next ==
    \/ Start
    \/ OpenFirstRound
    \/ \E r \in 1..TotalRounds : CompleteRound(r)
    \/ \E u \in Users, a \in Amounts :
        \/ \E t \in Times, r \in 1..TotalRounds, late \in BOOLEAN :
             NewBid(u, a, t, r, late) \/ RaiseBid(u, a, t, r, late)
        \/ Deposit(u, a)
        \/ Withdraw(u, a)

Spec == Init /\ [][Next]_vars

-----------------------------------------------------------------------------
(* Properties *)

\* One active bid per user (bids.service.ts: "Exactly ONE active bid per user per
\* auction").
OneActivePerUser ==
    \A b, c \in Active : bids[b].user = bids[c].user => b = c

\* Never more active bids than gifts left, across placements, raises, displacements
\* and completions that burn gifts nobody bid for.
SupplyRespected ==
    status = "active" => Cardinality(Active) <= RemainingSupply

Held(u) == IF ActiveOf(u) = {} THEN 0 ELSE bids[CHOOSE b \in ActiveOf(u) : TRUE].amount

\* No money is created or lost: what a user put in is in the balance, held by the
\* active bid, or paid for gifts, whatever was displaced, refunded or raised between.
MoneyConserved ==
    \A u \in Users :
        /\ ledger[u].net = balance[u] + Held(u) + ledger[u].charge
        /\ ledger[u].lock = Held(u) + ledger[u].refund + ledger[u].charge

\* Every bid settles once: it has a refund row exactly when it is refunded, a charge
\* row exactly when it won, and no bid has both.
SettledOnce ==
    \A b \in BidIds :
        /\ b \in refs.refund <=> bids[b].status = "refunded"
        /\ b \in refs.charge <=> bids[b].status = "won"

\* Gift numbers: distinct, never above the number distributed, and those of an
\* earlier round below those of a later one.
GiftsNumbered ==
    \A b, c \in BidIds :
        bids[b].status = "won" /\ bids[c].status = "won" =>
            /\ bids[b].gift \in 1..distributed
            /\ b # c => bids[b].gift # bids[c].gift
            /\ bids[b].won < bids[c].won => bids[b].gift < bids[c].gift

\* Rounds follow one another: before the current round all are completed, after it
\* none exists, and a completed auction has no open round and no active bid.
RoundsInSequence ==
    /\ \A r \in 1..TotalRounds :
        /\ r < currentRound => rounds[r].status = "completed"
        /\ r > currentRound => rounds[r].status = "none"
    /\ status = "completed" => /\ Active = {}
                              /\ rounds[currentRound].status = "completed"

\* Nobody is turned away for someone who offers less: a gift awarded in the round
\* that refunded bid b, or in a later one, went to a bid of at least b's amount.
NoBetterBidTurnedAway ==
    \A b, w \in BidIds :
        bids[b].status = "refunded" /\ bids[w].status = "won" /\ bids[w].won >= bids[b].closed
            => bids[w].amount >= bids[b].amount

\* A bid that a transaction accepts is never displaced by that same transaction.
AcceptedBidStays ==
    [][\A b \in BidIds :
        bids'[b].amount # bids[b].amount => bids'[b].status = "active"]_vars

\* The price of entry never falls while the auction runs (bids.service.ts: "to avoid
\* ties and prevent minBid decrease"), across displacements, raises and rounds.
PriceNeverFalls ==
    [][status = "active" /\ status' = "active" =>
        \A a \in 1..(MaxDeposit + MinIncrement) :
            MeetsDynamicMinBid(a)' => MeetsDynamicMinBid(a)]_vars

-----------------------------------------------------------------------------
(* The money of the auction's users is an escrow: balance, what the active bid holds, *)
(* and the charges in the ledger are its wallet, held and paid amounts.                *)

Esc == INSTANCE Escrow WITH wallet <- balance,
                            held   <- [u \in Users |-> Held(u)],
                            paid   <- [u \in Users |-> ledger[u].charge]

\* Whatever placements, displacements, raises and completions do in one transaction, it
\* is one of the four movements of the escrow.
EscrowImplemented == Esc!Spec

=============================================================================
