--------------------------- MODULE AuctionProofs ---------------------------
(***************************************************************************)
(* Theorems about Auction, for every number of users, bids and rounds: its *)
(* types, the money, the supply, that it implements Escrow, and who wins   *)
(* what: the order of rounds, the numbers of gifts, the ranking of bids    *)
(* and the price of entry.                                                 *)
(***************************************************************************)
EXTENDS Auction, FiniteSetTheorems, WellFoundedInduction, TLAPS

\* The number of gifts is a natural number.
LEMMA SupplyType == TotalSupply \in Nat
  <1>1. TotalRounds \in Nat /\ WinnersPerRound \in Nat
    BY SupplyAssumption
  <1>2. QED
    BY <1>1, SMT DEF TotalSupply

\* Sets of bids are finite and have a natural cardinality.
LEMMA BidSets ==
  ASSUME NEW S \in SUBSET BidIds
  PROVE  IsFiniteSet(S) /\ Cardinality(S) \in Nat
  BY UsersAssumption, FS_Subset, FS_CardinalityType

\* No more gifts are distributed than there are, so the supply left is the difference.
LEMMA RemainingType ==
  ASSUME TypeOK
  PROVE  /\ RemainingSupply \in Nat
         /\ RemainingSupply = TotalSupply - distributed
  BY SupplyType DEF TypeOK, RemainingSupply

\* The amounts that refund and charge move are natural numbers.
LEMMA MovedAmounts ==
  ASSUME NEW docs \in [BidIds -> Bid], NEW S \in SUBSET BidIds, NEW v
  PROVE  RefundTo(docs, S, v) \in Nat /\ ChargeTo(docs, S, v) \in Nat
  BY DEF RefundTo, ChargeTo, Bid

-----------------------------------------------------------------------------
(* The writes keep the types of the documents. *)

\* Refunding bids and awarding gifts keep the documents well-typed.
LEMMA RefundedType ==
  ASSUME NEW docs \in [BidIds -> Bid], NEW S, NEW r \in 0..TotalRounds
  PROVE  Refunded(docs, S, r) \in [BidIds -> Bid]
  <1>1. \A b \in BidIds : [docs[b] EXCEPT !.status = "refunded", !.closed = r] \in Bid
    BY DEF Bid, BidStatus
  <1>2. QED
    BY <1>1 DEF Refunded

LEMMA WonType ==
  ASSUME NEW docs \in [BidIds -> Bid], NEW W \in SUBSET BidIds, NEW r \in 0..TotalRounds,
         NEW pos, \A b \in W : distributed + pos[b] \in Nat
  PROVE  Won(docs, W, pos, r) \in [BidIds -> Bid]
  <1>1. \A b \in W : [docs[b] EXCEPT !.status = "won", !.won = r,
                                     !.gift = distributed + pos[b]] \in Bid
    BY DEF Bid, BidStatus
  <1>2. QED
    BY <1>1 DEF Won

\* A bid transaction places its bid and displaces some active bids.
LEMMA CommitBidWrites ==
  ASSUME NEW u, NEW b, NEW docs, NEW cost, NEW r, NEW late,
         CommitBid(u, b, docs, cost, r, late)
  PROVE  /\ \E displaced \in SUBSET ActiveIn(docs) :
              /\ (ActiveIn(docs) \ displaced) \in FirstOf(docs, ActiveIn(docs), RemainingSupply)
              /\ Place(u, b, docs, cost, displaced)
         /\ rounds' \in {rounds, [rounds EXCEPT ![r].extensions = 1]}
         /\ UNCHANGED <<status, currentRound, distributed>>
  <1>1. PICK kept \in FirstOf(docs, ActiveIn(docs), RemainingSupply) :
           /\ Place(u, b, docs, cost, ActiveIn(docs) \ kept)
           /\ Extend(Refunded(docs, ActiveIn(docs) \ kept, currentRound), b, r, late)
    BY Zenon DEF CommitBid
  <1>2. kept \subseteq ActiveIn(docs)
    BY DEF FirstOf
  <1>3. ActiveIn(docs) \ (ActiveIn(docs) \ kept) = kept
    BY <1>2
  <1>4. rounds' \in {rounds, [rounds EXCEPT ![r].extensions = 1]}
    BY <1>1, Zenon DEF Extend
  <1>5. UNCHANGED <<status, currentRound, distributed>>
    BY DEF CommitBid
  <1>6. QED
    BY <1>1, <1>3, <1>4, <1>5, Zenon

\* A transaction that places a bid keeps the types: the lock is covered by the balance.
LEMMA CommitBidType ==
  ASSUME TypeOK, NEW u \in Users, NEW b \in BidIds, NEW docs \in [BidIds -> Bid],
         NEW cost \in Nat, NEW r \in 1..TotalRounds, NEW late,
         CommitBid(u, b, docs, cost, r, late)
  PROVE  TypeOK'
  <1>1. LockRef(docs, b) \in BidIds \X Nat
    BY DEF Bid, LockRef
  <1>2. Debit(docs, b, cost) \in Nat /\ balance[u] >= Debit(docs, b, cost)
    BY DEF Debit, CommitBid
  <1>3. PICK displaced \in SUBSET ActiveIn(docs) : Place(u, b, docs, cost, displaced)
    BY CommitBidWrites, Zenon
  <1>4. displaced \in SUBSET BidIds
    BY DEF ActiveIn
  <1>5. \A v : RefundTo(docs, displaced, v) \in Nat
    BY <1>4, MovedAmounts
  <1>6. bids' \in [BidIds -> Bid]
    <2>1. bids' = Refunded(docs, displaced, currentRound) /\ currentRound \in 0..TotalRounds
      BY <1>3 DEF Place, TypeOK
    <2>2. QED
      BY <2>1, RefundedType
  <1>7. balance' \in [Users -> Nat]
    <2>1. \A v \in Users : balance[v] - (IF v = u THEN Debit(docs, b, cost) ELSE 0) \in Nat
      BY <1>2 DEF TypeOK
    <2>2. \A v \in Users : balance[v] - (IF v = u THEN Debit(docs, b, cost) ELSE 0)
                           + RefundTo(docs, displaced, v) \in Nat
      BY <1>5, <2>1
    <2>3. QED
      BY <1>3, <2>2, Zenon DEF Place
  <1>8. ledger' \in [Users -> Sums]
    <2>1. \A v \in Users : (IF v = u THEN Debit(docs, b, cost) ELSE 0) \in Nat
      BY <1>2
    <2>2. \A v \in Users : /\ ledger[v].net \in Int /\ ledger[v].charge \in Nat
                           /\ ledger[v].lock \in Nat /\ ledger[v].refund \in Nat
      BY DEF TypeOK, Sums
    <2>3. \A v \in Users :
            [net    |-> ledger[v].net,
             lock   |-> ledger[v].lock + (IF v = u THEN Debit(docs, b, cost) ELSE 0),
             refund |-> ledger[v].refund + RefundTo(docs, displaced, v),
             charge |-> ledger[v].charge] \in Sums
      BY <1>5, <2>1, <2>2 DEF Sums
    <2>4. QED
      BY <1>3, <2>3, Zenon DEF Place
  <1>9. refs' \in [lock : SUBSET (BidIds \X Nat), refund : SUBSET BidIds, charge : SUBSET BidIds]
    <2>1. refs' = [lock   |-> refs.lock \union {LockRef(docs, b)},
                   refund |-> refs.refund \union displaced,
                   charge |-> refs.charge]
      BY <1>3 DEF Place
    <2>2. QED
      BY <1>1, <1>4, <2>1 DEF TypeOK
  <1>10. rounds' \in [1..TotalRounds -> Round]
    <2>1. rounds \in [1..TotalRounds -> Round] /\ [rounds[r] EXCEPT !.extensions = 1] \in Round
      BY DEF TypeOK, Round
    <2>2. rounds' \in {rounds, [rounds EXCEPT ![r].extensions = 1]}
      BY CommitBidWrites, Zenon
    <2>3. QED
      BY <2>1, <2>2
  <1>11. UNCHANGED <<status, currentRound, distributed>>
    BY CommitBidWrites, Zenon
  <1>12. QED
    BY <1>6, <1>7, <1>8, <1>9, <1>10, <1>11 DEF TypeOK

-----------------------------------------------------------------------------
\* A round never gives away more gifts than are left.
LEMMA BurnedType ==
  ASSUME TypeOK, NEW r \in 1..TotalRounds
  PROVE  Burned(r) \in Nat /\ Burned(r) <= RemainingSupply /\ DistributedAfter(r) \in 0..TotalSupply
  BY RemainingType, SupplyType, SupplyAssumption DEF TypeOK, Burned, DistributedAfter

\* A completion settles two disjoint sets of active bids.
LEMMA CompleteRoundWrites ==
  ASSUME NEW r, CompleteRound(r)
  PROVE  \E winners \in SUBSET Active, kept \in SUBSET Active :
           /\ winners \in FirstOf(bids, Active, Burned(r))
           /\ kept \in FirstOf(bids, Active \ winners,
                   IF EndsAuction(r) THEN 0 ELSE TotalSupply - DistributedAfter(r))
           /\ \E pos \in Positions(bids, winners) :
                Settle(r, winners, pos, (Active \ winners) \ kept)
  <1>1. PICK winners \in FirstOf(bids, Active, Burned(r)) :
        \E pos \in Positions(bids, winners) :
        \E kept \in FirstOf(bids, Active \ winners,
                   IF EndsAuction(r) THEN 0 ELSE TotalSupply - DistributedAfter(r)) :
          Settle(r, winners, pos, (Active \ winners) \ kept)
    BY Zenon DEF CompleteRound
  <1>2. PICK pos \in Positions(bids, winners),
             kept \in FirstOf(bids, Active \ winners,
                   IF EndsAuction(r) THEN 0 ELSE TotalSupply - DistributedAfter(r)) :
          Settle(r, winners, pos, (Active \ winners) \ kept)
    BY <1>1, Zenon
  <1>3. winners \in SUBSET Active /\ kept \in SUBSET Active
    BY DEF FirstOf
  <1>4. QED
    BY <1>2, <1>3, Zenon

\* A completion keeps the types.
LEMMA CompleteRoundType ==
  ASSUME TypeOK, NEW r \in 1..TotalRounds, CompleteRound(r)
  PROVE  TypeOK'
  <1>1. PICK winners \in SUBSET BidIds, losers \in SUBSET BidIds :
        \E pos \in Positions(bids, winners) : Settle(r, winners, pos, losers)
    <2>1. Active \subseteq BidIds
      BY DEF Active, ActiveIn
    <2>2. PICK winners \in SUBSET Active, kept \in SUBSET Active :
          \E pos \in Positions(bids, winners) :
                Settle(r, winners, pos, (Active \ winners) \ kept)
      BY CompleteRoundWrites, Zenon
    <2>3. winners \in SUBSET BidIds /\ (Active \ winners) \ kept \in SUBSET BidIds
      BY <2>1
    <2>4. QED
      BY <2>2, <2>3, Zenon
  <1>2. PICK pos \in Positions(bids, winners) : Settle(r, winners, pos, losers)
    BY <1>1
  <1>3. \A v : RefundTo(bids, losers, v) \in Nat /\ ChargeTo(bids, winners, v) \in Nat
    BY MovedAmounts DEF TypeOK
  <1>4. bids' \in [BidIds -> Bid]
    <2>1. \A b \in winners : distributed + pos[b] \in Nat
      BY BidSets, SupplyType DEF Positions, TypeOK
    <2>2. r \in 0..TotalRounds /\ bids \in [BidIds -> Bid]
      BY DEF TypeOK
    <2>3. Won(bids, winners, pos, r) \in [BidIds -> Bid]
      BY <2>1, <2>2, WonType
    <2>4. bids' = Refunded(Won(bids, winners, pos, r), losers, r)
      BY <1>2, Zenon DEF Settle
    <2>5. QED
      BY <2>2, <2>3, <2>4, RefundedType
  <1>5. balance' \in [Users -> Nat]
    <2>1. \A v \in Users : balance[v] + RefundTo(bids, losers, v) \in Nat
      BY <1>3 DEF TypeOK
    <2>2. QED
      BY <1>2, <2>1, Zenon DEF Settle
  <1>6. ledger' \in [Users -> Sums]
    <2>1. \A v \in Users : /\ ledger[v].net \in Int /\ ledger[v].charge \in Nat
                           /\ ledger[v].lock \in Nat /\ ledger[v].refund \in Nat
      BY DEF TypeOK, Sums
    <2>2. \A v \in Users :
            [net    |-> ledger[v].net,
             lock   |-> ledger[v].lock,
             refund |-> ledger[v].refund + RefundTo(bids, losers, v),
             charge |-> ledger[v].charge + ChargeTo(bids, winners, v)] \in Sums
      BY <1>3, <2>1 DEF Sums
    <2>3. QED
      BY <1>2, <2>2, Zenon DEF Settle
  <1>7. refs' \in [lock : SUBSET (BidIds \X Nat), refund : SUBSET BidIds, charge : SUBSET BidIds]
    <2>1. refs' = [lock   |-> refs.lock,
                   refund |-> refs.refund \union losers,
                   charge |-> refs.charge \union winners]
      BY <1>2, Zenon DEF Settle
    <2>2. QED
      BY <2>1 DEF TypeOK
  <1>8. rounds' \in [1..TotalRounds -> Round]
    <2>1. \A n \in 1..TotalRounds :
            rounds[n] \in Round /\ [rounds[n] EXCEPT !.status = "completed"] \in Round
      BY DEF TypeOK, Round
    <2>2. [status |-> "active", extensions |-> 0] \in Round
      BY DEF Round
    <2>3. QED
      BY <2>1, <2>2 DEF CompleteRound
  <1>9. /\ distributed' \in 0..TotalSupply
        /\ status' \in {"draft", "active", "completed"}
        /\ currentRound' \in 0..TotalRounds
    BY BurnedType, SupplyAssumption DEF CompleteRound, EndsAuction, TypeOK
  <1>10. QED
    BY <1>4, <1>5, <1>6, <1>7, <1>8, <1>9 DEF TypeOK

-----------------------------------------------------------------------------
\* A raised bid is a bid.
LEMMA RaisedType ==
  ASSUME TypeOK, NEW b \in BidIds, NEW a \in Amounts, NEW t \in Times
  PROVE  RaisedDocs(b, a, t) \in [BidIds -> Bid]
  <1>1. bids \in [BidIds -> Bid] /\ bids[b] \in Bid
    BY DEF TypeOK
  <1>2. bids[b].amount + a \in Nat /\ t \in Nat
    BY <1>1, PriceAssumption DEF Bid
  <1>3. [bids[b] EXCEPT !.amount = bids[b].amount + a, !.at = t] \in Bid
    BY <1>1, <1>2 DEF Bid
  <1>4. QED
    BY <1>1, <1>3 DEF RaisedDocs

\* The types at the start, and in every step.
LEMMA TypeAtStart == Init => TypeOK
  <1>1. NoDocument \in Bid
    BY SupplyAssumption DEF NoDocument, Bid, BidStatus
  <1>2. QED
    BY <1>1, SupplyType, SupplyAssumption DEF Init, TypeOK, Round, Sums

LEMMA TypeKept == TypeOK /\ [Next]_vars => TypeOK'
  <1> SUFFICES ASSUME TypeOK, [Next]_vars PROVE TypeOK'
    OBVIOUS
  <1>1. CASE Start
    BY <1>1, SupplyAssumption DEF Start, TypeOK
  <1>2. CASE OpenFirstRound
    BY <1>2, SupplyAssumption DEF OpenFirstRound, TypeOK, Round
  <1>3. ASSUME NEW r \in 1..TotalRounds, CompleteRound(r) PROVE TypeOK'
    BY <1>3, CompleteRoundType
  <1>4. ASSUME NEW u \in Users, NEW a \in Amounts, NEW t \in Times,
               NEW r \in 1..TotalRounds, NEW late, NewBid(u, a, t, r, late)
        PROVE  TypeOK'
    <2>1. PICK b \in BidIds : CommitBid(u, b, NewDocs(u, b, a, t), a, r, late)
      BY <1>4, Zenon DEF NewBid
    <2>2. a \in Nat /\ NewDocs(u, b, a, t) \in [BidIds -> Bid]
      BY PriceAssumption, SupplyAssumption DEF NewDocs, TypeOK, Bid, BidStatus
    <2>3. QED
      BY <2>1, <2>2, CommitBidType
  <1>5. ASSUME NEW u \in Users, NEW a \in Amounts, NEW t \in Times,
               NEW r \in 1..TotalRounds, NEW late, RaiseBid(u, a, t, r, late)
        PROVE  TypeOK'
    <2>1. PICK b \in ActiveOf(u) : CommitBid(u, b, RaisedDocs(b, a, t), a, r, late)
      BY <1>5, Zenon DEF RaiseBid
    <2>2. b \in BidIds /\ a \in Nat
      BY PriceAssumption DEF ActiveOf, Active, ActiveIn
    <2>3. RaisedDocs(b, a, t) \in [BidIds -> Bid]
      BY <2>2, RaisedType
    <2>4. QED
      BY <2>1, <2>2, <2>3, CommitBidType
  <1>6. ASSUME NEW u \in Users, NEW a \in Amounts, Deposit(u, a) PROVE TypeOK'
    <2>1. balance[u] + a \in Nat /\ a \in Nat
      BY <1>6, PriceAssumption DEF Deposit, TypeOK
    <2>2. ledger' \in [Users -> Sums]
      <3>1. ledger \in [Users -> Sums] /\ ledger' = [ledger EXCEPT ![u].net = @ + a]
        BY <1>6 DEF Deposit, TypeOK
      <3>2. [ledger[u] EXCEPT !.net = ledger[u].net + a] \in Sums
        BY <2>1, <3>1 DEF Sums
      <3>3. QED
        BY <3>1, <3>2
    <2>3. balance' \in [Users -> Nat]
      BY <1>6, <2>1 DEF Deposit, TypeOK
    <2>4. QED
      BY <1>6, <2>2, <2>3 DEF Deposit, TypeOK
  <1>7. ASSUME NEW u \in Users, NEW a \in Amounts, Withdraw(u, a) PROVE TypeOK'
    <2>1. balance[u] - a \in Nat /\ a \in Nat
      BY <1>7, PriceAssumption DEF Withdraw, TypeOK
    <2>2. ledger' \in [Users -> Sums]
      <3>1. ledger \in [Users -> Sums] /\ ledger' = [ledger EXCEPT ![u].net = @ - a]
        BY <1>7 DEF Withdraw, TypeOK
      <3>2. [ledger[u] EXCEPT !.net = ledger[u].net - a] \in Sums
        BY <2>1, <3>1 DEF Sums
      <3>3. QED
        BY <3>1, <3>2
    <2>3. balance' \in [Users -> Nat]
      BY <1>7, <2>1 DEF Withdraw, TypeOK
    <2>4. QED
      BY <1>7, <2>2, <2>3 DEF Withdraw, TypeOK
  <1>8. CASE UNCHANGED vars
    BY <1>8 DEF vars, TypeOK
  <1>9. QED
    BY <1>1, <1>2, <1>3, <1>4, <1>5, <1>6, <1>7, <1>8 DEF Next

\* Every state has the types that TypeOK gives: balances never go below zero, no more
\* gifts are distributed than the auction has, no round beyond the last one is reached.
THEOREM TypeCorrect == Spec => []TypeOK
  BY TypeAtStart, TypeKept, PTL DEF Spec

-----------------------------------------------------------------------------
(* Money.  MoneyConserved is not inductive alone: that a placement locks what it      *)
(* adds needs its lock reference to be fresh, and that a settlement returns what a    *)
(* bid holds needs the user's only active bid to be unsettled.                        *)

LocksBelow ==
    \A b \in BidIds, n \in Nat :
        <<b, n>> \in refs.lock => bids[b].status # "none" /\ n <= bids[b].amount

IInv == TypeOK /\ OneActivePerUser /\ SettledOnce /\ LocksBelow /\ MoneyConserved

\* A collection in which no user has two active bids.
Single(docs) == \A b, c \in ActiveIn(docs) : docs[b].user = docs[c].user => b = c

OwnedBy(docs, v) == {b \in ActiveIn(docs) : docs[b].user = v}

HeldIn(docs, v) ==
    IF OwnedBy(docs, v) = {} THEN 0 ELSE docs[CHOOSE b \in OwnedBy(docs, v) : TRUE].amount

\* With one active bid per user, what is held for its owner is its amount.
LEMMA HeldInIs ==
  ASSUME NEW docs, Single(docs), NEW b \in ActiveIn(docs)
  PROVE  HeldIn(docs, docs[b].user) = docs[b].amount
  <1>1. OwnedBy(docs, docs[b].user) = {b}
    BY DEF OwnedBy, Single
  <1>2. QED
    BY <1>1 DEF HeldIn

\* What refund() gives to a user, for a set with one bid of that user, and likewise for
\* charge().
LEMMA RefundToIs ==
  ASSUME NEW docs, Single(docs), NEW S \in SUBSET ActiveIn(docs), S \cap refs.refund = {}
  PROVE  /\ \A b \in S : RefundTo(docs, S, docs[b].user) = docs[b].amount
         /\ \A v : (\A b \in S : docs[b].user # v) => RefundTo(docs, S, v) = 0
  <1>1. \A v : {b \in S \ refs.refund : docs[b].user = v} = {b \in S : docs[b].user = v}
    OBVIOUS
  <1>2. ASSUME NEW b \in S PROVE RefundTo(docs, S, docs[b].user) = docs[b].amount
    <2>1. {c \in S : docs[c].user = docs[b].user} = {b}
      BY DEF Single
    <2>2. QED
      BY <1>1, <2>1 DEF RefundTo
  <1>3. QED
    BY <1>1, <1>2 DEF RefundTo

LEMMA ChargeToIs ==
  ASSUME NEW docs, Single(docs), NEW S \in SUBSET ActiveIn(docs), S \cap refs.charge = {}
  PROVE  /\ \A b \in S : ChargeTo(docs, S, docs[b].user) = docs[b].amount
         /\ \A v : (\A b \in S : docs[b].user # v) => ChargeTo(docs, S, v) = 0
  <1>1. \A v : {b \in S \ refs.charge : docs[b].user = v} = {b \in S : docs[b].user = v}
    OBVIOUS
  <1>2. ASSUME NEW b \in S PROVE ChargeTo(docs, S, docs[b].user) = docs[b].amount
    <2>1. {c \in S : docs[c].user = docs[b].user} = {b}
      BY DEF Single
    <2>2. QED
      BY <1>1, <2>1 DEF ChargeTo
  <1>3. QED
    BY <1>1, <1>2 DEF ChargeTo

\* What a user's active bid holds goes on being held, is refunded, or is charged.
LEMMA Release ==
  ASSUME NEW docs \in [BidIds -> Bid], Single(docs), NEW after,
         NEW S \in SUBSET ActiveIn(docs), S \cap refs.refund = {},
         NEW W \in SUBSET ActiveIn(docs), W \cap refs.charge = {}, S \cap W = {},
         ActiveIn(after) = (ActiveIn(docs) \ W) \ S,
         \A b \in ActiveIn(after) :
            after[b].user = docs[b].user /\ after[b].amount = docs[b].amount,
         NEW v
  PROVE  HeldIn(docs, v) = HeldIn(after, v) + RefundTo(docs, S, v) + ChargeTo(docs, W, v)
  <1>1. Single(after)
    BY DEF Single
  <1>2. ASSUME NEW b \in ActiveIn(docs), docs[b].user = v
        PROVE  HeldIn(docs, v) = HeldIn(after, v) + RefundTo(docs, S, v) + ChargeTo(docs, W, v)
    <2>1. docs[b].amount \in Nat
      BY DEF ActiveIn, Bid
    <2>2. HeldIn(docs, v) = docs[b].amount
      BY <1>2, HeldInIs
    <2>3. \A c \in ActiveIn(docs) : docs[c].user = v => c = b
      BY <1>2 DEF Single
    <2>4. CASE b \in S
      <3>1. RefundTo(docs, S, v) = docs[b].amount
        BY <1>2, <2>4, RefundToIs
      <3>2. ChargeTo(docs, W, v) = 0
        BY <2>3, <2>4, ChargeToIs
      <3>3. OwnedBy(after, v) = {}
        BY <2>3, <2>4 DEF OwnedBy
      <3>4. QED
        BY <2>1, <2>2, <3>1, <3>2, <3>3 DEF HeldIn
    <2>5. CASE b \in W
      <3>1. ChargeTo(docs, W, v) = docs[b].amount
        BY <1>2, <2>5, ChargeToIs
      <3>2. RefundTo(docs, S, v) = 0
        BY <2>3, <2>5, RefundToIs
      <3>3. OwnedBy(after, v) = {}
        BY <2>3, <2>5 DEF OwnedBy
      <3>4. QED
        BY <2>1, <2>2, <3>1, <3>2, <3>3 DEF HeldIn
    <2>6. CASE b \in ActiveIn(after)
      <3>1. RefundTo(docs, S, v) = 0 /\ ChargeTo(docs, W, v) = 0
        BY <2>3, <2>6, RefundToIs, ChargeToIs
      <3>2. HeldIn(after, v) = docs[b].amount
        BY <1>1, <1>2, <2>6, HeldInIs
      <3>3. QED
        BY <2>1, <2>2, <3>1, <3>2
    <2>7. QED
      BY <2>4, <2>5, <2>6
  <1>3. ASSUME \A b \in ActiveIn(docs) : docs[b].user # v
        PROVE  HeldIn(docs, v) = HeldIn(after, v) + RefundTo(docs, S, v) + ChargeTo(docs, W, v)
    <2>1. OwnedBy(docs, v) = {} /\ OwnedBy(after, v) = {}
      BY <1>3 DEF OwnedBy
    <2>2. RefundTo(docs, S, v) = 0 /\ ChargeTo(docs, W, v) = 0
      BY <1>3, RefundToIs, ChargeToIs
    <2>3. QED
      BY <2>1, <2>2 DEF HeldIn
  <1>4. QED
    BY <1>2, <1>3

\* What is held for a user is read off the bid documents alone.
LEMMA HeldIsHeldIn == \A v : Held(v) = HeldIn(bids, v)
  BY DEF Held, HeldIn, ActiveOf, Active, OwnedBy

-----------------------------------------------------------------------------
(* The bid transactions. *)

\* docs is the bid collection with user u's bid b written for the amount cost.
Placed(u, b, docs, cost) ==
    /\ b \in BidIds /\ cost \in Nat /\ docs \in [BidIds -> Bid]
    /\ docs[b].status = "active" /\ docs[b].user = u
    /\ docs[b].amount = Held(u) + cost
    /\ bids[b].status \in {"none", "active"}
    /\ bids[b].status = "active" => docs[b].amount > bids[b].amount
    /\ \A c \in BidIds \ {b} : docs[c] = bids[c]
    /\ ActiveOf(u) \subseteq {b}
    /\ bids[b].status = "active" => bids[b].user = u

\* New bids and raises write the bid document in the same way.
LEMMA NewBidPlaces ==
  ASSUME IInv, NEW u \in Users, NEW a \in Amounts, NEW t \in Times,
         NEW b \in BidIds, bids[b].status = "none", ActiveOf(u) = {}
  PROVE  Placed(u, b, NewDocs(u, b, a, t), a)
  <1>1. a \in Nat /\ NewDocs(u, b, a, t) \in [BidIds -> Bid]
    BY PriceAssumption, SupplyAssumption DEF NewDocs, IInv, TypeOK, Bid, BidStatus
  <1>2. Held(u) = 0
    BY DEF Held
  <1>3. /\ NewDocs(u, b, a, t)[b] = [user |-> u, amount |-> a, at |-> t, status |-> "active",
                                     gift |-> 0, won |-> 0, closed |-> 0]
        /\ \A c \in BidIds \ {b} : NewDocs(u, b, a, t)[c] = bids[c]
    BY DEF NewDocs, IInv, TypeOK
  <1>4. QED
    BY <1>1, <1>2, <1>3 DEF Placed

LEMMA RaisePlaces ==
  ASSUME IInv, NEW u \in Users, NEW a \in Amounts, NEW t \in Times, NEW b \in ActiveOf(u)
  PROVE  Placed(u, b, RaisedDocs(b, a, t), a)
  <1>1. /\ a \in Nat /\ a > 0 /\ t \in Nat
        /\ b \in BidIds /\ b \in Active /\ bids[b].user = u /\ bids[b].status = "active"
    BY PriceAssumption DEF ActiveOf, Active, ActiveIn
  <1>2. bids \in [BidIds -> Bid] /\ bids[b] \in Bid /\ bids[b].amount \in Nat
    BY <1>1 DEF IInv, TypeOK, Bid
  <1>3. RaisedDocs(b, a, t) \in [BidIds -> Bid]
    BY <1>1, RaisedType DEF IInv
  <1>4. bids[b].amount + a > bids[b].amount
    BY <1>1, <1>2
  <1>5. /\ RaisedDocs(b, a, t)[b] = [bids[b] EXCEPT !.amount = bids[b].amount + a, !.at = t]
        /\ \A c \in BidIds \ {b} : RaisedDocs(b, a, t)[c] = bids[c]
    BY <1>1, <1>2 DEF RaisedDocs
  <1>6. /\ RaisedDocs(b, a, t)[b].amount = bids[b].amount + a
        /\ RaisedDocs(b, a, t)[b].user = u
        /\ RaisedDocs(b, a, t)[b].status = "active"
    BY <1>1, <1>2, <1>5 DEF Bid
  <1>7. Single(bids)
    BY DEF IInv, OneActivePerUser, Single, Active
  <1>8. Held(u) = bids[b].amount
    <2>1. HeldIn(bids, bids[b].user) = bids[b].amount
      BY <1>1, <1>7, HeldInIs DEF Active
    <2>2. QED
      BY <1>1, <2>1, HeldIsHeldIn
  <1>9. ActiveOf(u) \subseteq {b}
    BY <1>1 DEF IInv, OneActivePerUser, ActiveOf
  <1>10. QED
    BY <1>1, <1>2, <1>3, <1>4, <1>5, <1>6, <1>8, <1>9 DEF Placed

\* The written collection has one active bid per user, none of them settled, and the
\* lock reference of the bid is a new one.
LEMMA PlacedFacts ==
  ASSUME IInv, NEW u \in Users, NEW b, NEW docs, NEW cost, Placed(u, b, docs, cost)
  PROVE  /\ Single(docs)
         /\ Debit(docs, b, cost) = cost
         /\ \A c \in ActiveIn(docs) : c \notin refs.refund /\ c \notin refs.charge
  <1>1. Single(docs)
    BY DEF Single, Placed, IInv, OneActivePerUser, ActiveOf, Active, ActiveIn
  <1>2. Debit(docs, b, cost) = cost
    BY DEF Debit, LockRef, Placed, IInv, LocksBelow, TypeOK, Bid
  <1>3. \A c \in ActiveIn(docs) : c \notin refs.refund /\ c \notin refs.charge
    BY DEF Placed, IInv, SettledOnce, ActiveIn
  <1>4. QED
    BY <1>1, <1>2, <1>3

\* A transaction that places a bid keeps the invariant.
LEMMA CommitBidInv ==
  ASSUME IInv, NEW u \in Users, NEW b, NEW docs, NEW cost, NEW r \in 1..TotalRounds,
         NEW late, Placed(u, b, docs, cost), CommitBid(u, b, docs, cost, r, late)
  PROVE  IInv'
  <1>1. /\ b \in BidIds /\ cost \in Nat /\ docs \in [BidIds -> Bid]
        /\ TypeOK /\ docs[b].amount \in Nat
    BY DEF Placed, IInv, Bid
  <1>2. TypeOK'
    BY <1>1, CommitBidType
  <1>3. PICK displaced \in SUBSET ActiveIn(docs) : Place(u, b, docs, cost, displaced)
    BY CommitBidWrites, Zenon
  <1>4. /\ bids' = Refunded(docs, displaced, currentRound)
        /\ refs' = [lock   |-> refs.lock \union {LockRef(docs, b)},
                    refund |-> refs.refund \union displaced,
                    charge |-> refs.charge]
    BY <1>3, Zenon DEF Place
  <1>5. /\ \A c \in BidIds \ displaced : bids'[c] = docs[c]
        /\ \A c \in BidIds : /\ bids'[c].user = docs[c].user
                            /\ bids'[c].amount = docs[c].amount
        /\ \A c \in displaced : bids'[c].status = "refunded"
    BY <1>1, <1>4 DEF Refunded, ActiveIn, Bid
  <1>6. ActiveIn(bids') = ActiveIn(docs) \ displaced
    BY <1>5 DEF ActiveIn
  <1>7. Single(docs)
    BY PlacedFacts
  <1>8. OneActivePerUser'
    BY <1>5, <1>6, <1>7 DEF OneActivePerUser, Single, Active, ActiveIn
  <1>9. displaced \cap refs.refund = {} /\ \A c \in displaced : c \notin refs.charge
    BY PlacedFacts
  <1>10. SettledOnce'
    <2>1. refs'.refund = refs.refund \union displaced /\ refs'.charge = refs.charge
      BY <1>4
    <2>2. ASSUME NEW c \in BidIds
          PROVE  /\ c \in refs'.refund <=> bids'[c].status = "refunded"
                 /\ c \in refs'.charge <=> bids'[c].status = "won"
      <3>1. CASE c \in displaced
        BY <1>5, <1>9, <2>1, <3>1
      <3>2. CASE c \notin displaced /\ c # b
        BY <1>5, <2>1, <3>2 DEF Placed, IInv, SettledOnce
      <3>3. CASE c \notin displaced /\ c = b
        BY <1>5, <2>1, <3>3 DEF Placed, IInv, SettledOnce
      <3>4. QED
        BY <3>1, <3>2, <3>3
    <2>3. QED
      BY <2>2 DEF SettledOnce
  <1>11. LocksBelow'
    <2>1. refs'.lock = refs.lock \union {<<b, docs[b].amount>>}
      BY <1>4 DEF LockRef
    <2>2. ASSUME NEW c \in BidIds, NEW n \in Nat, <<c, n>> \in refs'.lock
          PROVE  bids'[c].status # "none" /\ n <= bids'[c].amount
      <3>1. CASE <<c, n>> \in refs.lock
        <4>1. bids[c].status # "none" /\ n <= bids[c].amount
          BY <3>1 DEF IInv, LocksBelow
        <4>2. bids[c].amount \in Nat /\ docs[c].amount \in Nat
          BY <1>1 DEF TypeOK, Bid
        <4>3. docs[c].status # "none" /\ bids[c].amount <= docs[c].amount
          BY <4>1, <4>2 DEF Placed
        <4>4. bids'[c].status # "none" /\ bids'[c].amount = docs[c].amount
          BY <1>5, <4>3
        <4>5. QED
          BY <4>1, <4>2, <4>3, <4>4
      <3>2. CASE c = b /\ n = docs[b].amount
        BY <1>1, <1>5, <3>2 DEF Placed
      <3>3. QED
        BY <2>1, <2>2, <3>1, <3>2
    <2>3. QED
      BY <2>2 DEF LocksBelow
  <1>12. Debit(docs, b, cost) = cost
    BY PlacedFacts
  <1>13. MoneyConserved'
    <2>1. ASSUME NEW v \in Users
          PROVE  /\ ledger'[v].net = balance'[v] + Held(v)' + ledger'[v].charge
                 /\ ledger'[v].lock = Held(v)' + ledger'[v].refund + ledger'[v].charge
      <3> DEFINE cut == IF v = u THEN cost ELSE 0
                 back == RefundTo(docs, displaced, v)
      <3>1. /\ balance'[v] = balance[v] - cut + back
            /\ ledger'[v].net = ledger[v].net
            /\ ledger'[v].lock = ledger[v].lock + cut
            /\ ledger'[v].refund = ledger[v].refund + back
            /\ ledger'[v].charge = ledger[v].charge
        BY <1>3, <1>12 DEF Place
      <3>2. HeldIn(docs, v) = HeldIn(bids', v) + back
        <4>1. \A c \in ActiveIn(bids') : bids'[c].user = docs[c].user /\ bids'[c].amount = docs[c].amount
          BY <1>5 DEF ActiveIn
        <4>2. {} \in SUBSET ActiveIn(docs) /\ {} \cap refs.charge = {} /\ displaced \cap {} = {}
          OBVIOUS
        <4>3. ActiveIn(bids') = (ActiveIn(docs) \ {}) \ displaced
          BY <1>6
        <4>4. HeldIn(docs, v) = HeldIn(bids', v) + back + ChargeTo(docs, {}, v)
          BY <1>1, <1>7, <1>9, <4>1, <4>2, <4>3, Release
        <4>5. ChargeTo(docs, {}, v) = 0
          BY DEF ChargeTo
        <4>6. HeldIn(bids', v) \in Nat /\ back \in Nat
          <5>1. bids' \in [BidIds -> Bid] /\ displaced \in SUBSET BidIds
            BY <1>2 DEF TypeOK, ActiveIn
          <5>2. QED
            BY <1>1, <5>1, MovedAmounts DEF HeldIn, OwnedBy, ActiveIn, Bid
        <4>7. QED
          BY <4>4, <4>5, <4>6
      <3>3. Held(v)' = HeldIn(bids', v)
        BY DEF Held, HeldIn, ActiveOf, Active, OwnedBy
      <3>4. HeldIn(docs, v) = Held(v) + cut
        <4>1. CASE v = u
          <5>1. b \in ActiveIn(docs) /\ docs[b].user = u
            BY DEF Placed, ActiveIn
          <5>2. HeldIn(docs, u) = docs[b].amount
            BY <1>7, <5>1, HeldInIs
          <5>3. QED
            BY <4>1, <5>2 DEF Placed
        <4>2. CASE v # u
          <5>1. OwnedBy(docs, v) = OwnedBy(bids, v)
            BY <4>2 DEF OwnedBy, Placed, ActiveIn
          <5>2. \A c \in OwnedBy(bids, v) : docs[c] = bids[c]
            BY <4>2 DEF OwnedBy, Placed, ActiveIn
          <5>3. HeldIn(docs, v) = HeldIn(bids, v)
            BY <5>1, <5>2 DEF HeldIn
          <5>4. HeldIn(bids, v) \in Nat
            BY <1>1 DEF HeldIn, OwnedBy, ActiveIn, TypeOK, Bid
          <5>5. QED
            BY <4>2, <5>3, <5>4, HeldIsHeldIn
        <4>3. QED
          BY <4>1, <4>2
      <3>5. /\ ledger[v].net = balance[v] + Held(v) + ledger[v].charge
            /\ ledger[v].lock = Held(v) + ledger[v].refund + ledger[v].charge
        BY DEF IInv, MoneyConserved
      <3>6. /\ ledger[v].net \in Int /\ ledger[v].lock \in Nat /\ ledger[v].refund \in Nat
            /\ ledger[v].charge \in Nat /\ balance[v] \in Nat
            /\ cut \in Nat /\ back \in Nat /\ Held(v) \in Nat /\ HeldIn(bids', v) \in Nat
        <4>1. bids' \in [BidIds -> Bid] /\ displaced \in SUBSET BidIds
          BY <1>2 DEF TypeOK, ActiveIn
        <4>2. back \in Nat
          BY <1>1, <4>1, MovedAmounts
        <4>3. HeldIn(bids', v) \in Nat /\ HeldIn(bids, v) \in Nat
          BY <1>1, <4>1 DEF HeldIn, OwnedBy, ActiveIn, TypeOK, Bid
        <4>4. QED
          BY <1>1, <4>2, <4>3, HeldIsHeldIn DEF TypeOK, Sums
      <3> HIDE DEF cut, back
      <3>7. QED
        BY <3>1, <3>2, <3>3, <3>4, <3>5, <3>6
    <2>2. QED
      BY <2>1 DEF MoneyConserved
  <1>14. QED
    BY <1>2, <1>8, <1>10, <1>11, <1>13 DEF IInv

\* A completion settles two disjoint sets of active bids.
LEMMA CompletionSettles ==
  ASSUME NEW r, CompleteRound(r)
  PROVE  \E winners \in SUBSET Active, losers \in SUBSET Active :
           /\ losers \cap winners = {}
           /\ \E pos \in Positions(bids, winners) : Settle(r, winners, pos, losers)
  <1>1. PICK winners \in SUBSET Active, kept \in SUBSET Active :
        \E pos \in Positions(bids, winners) :
              Settle(r, winners, pos, (Active \ winners) \ kept)
    BY CompleteRoundWrites, Zenon
  <1>2. /\ (Active \ winners) \ kept \in SUBSET Active
        /\ ((Active \ winners) \ kept) \cap winners = {}
    OBVIOUS
  <1>3. QED
    BY <1>1, <1>2, Zenon

\* What a settlement writes: the won bids, the refunded ones, the others as they were.
LEMMA SettledFields ==
  ASSUME TypeOK, NEW r \in 1..TotalRounds, NEW winners \in SUBSET Active,
         NEW losers \in SUBSET Active, losers \cap winners = {},
         NEW pos \in Positions(bids, winners), Settle(r, winners, pos, losers)
  PROVE  /\ \A c \in BidIds : /\ bids'[c].user = bids[c].user
                             /\ bids'[c].amount = bids[c].amount
         /\ \A c \in winners : bids'[c].status = "won"
         /\ \A c \in losers : bids'[c].status = "refunded"
         /\ \A c \in BidIds : c \notin winners /\ c \notin losers => bids'[c] = bids[c]
         /\ ActiveIn(bids') = (ActiveIn(bids) \ winners) \ losers
  <1>1. winners \in SUBSET BidIds /\ losers \in SUBSET BidIds /\ bids \in [BidIds -> Bid]
    BY DEF Active, ActiveIn, TypeOK
  <1>2. PICK won : won = Won(bids, winners, pos, r)
    OBVIOUS
  <1>3. /\ won \in [BidIds -> Bid] /\ bids' = Refunded(won, losers, r)
    <2>1. \A c \in winners : distributed + pos[c] \in Nat
      BY <1>1, BidSets, SupplyType DEF Positions, TypeOK
    <2>2. r \in 0..TotalRounds
      BY SupplyAssumption
    <2>3. QED
      BY <1>1, <1>2, <2>1, <2>2, WonType DEF Settle
  <1>4. ASSUME NEW c \in winners
        PROVE  /\ won[c].status = "won" /\ won[c].user = bids[c].user
               /\ won[c].amount = bids[c].amount
    <2>1. bids[c] \in Bid /\ won[c] = [bids[c] EXCEPT !.status = "won", !.won = r,
                                                     !.gift = distributed + pos[c]]
      BY <1>1, <1>2 DEF Won
    <2>2. QED
      BY <2>1 DEF Bid
  <1>5. \A c \in BidIds \ winners : won[c] = bids[c]
    BY <1>2 DEF Won
  <1>6. ASSUME NEW c \in losers
        PROVE  /\ bids'[c].status = "refunded" /\ bids'[c].user = won[c].user
               /\ bids'[c].amount = won[c].amount
    <2>1. won[c] \in Bid /\ bids'[c] = [won[c] EXCEPT !.status = "refunded", !.closed = r]
      BY <1>1, <1>3 DEF Refunded
    <2>2. QED
      BY <2>1 DEF Bid
  <1>7. \A c \in BidIds \ losers : bids'[c] = won[c]
    BY <1>3 DEF Refunded
  <1>8. /\ \A c \in BidIds : /\ bids'[c].user = bids[c].user
                            /\ bids'[c].amount = bids[c].amount
        /\ \A c \in winners : bids'[c].status = "won"
        /\ \A c \in losers : bids'[c].status = "refunded"
        /\ \A c \in BidIds : c \notin winners /\ c \notin losers => bids'[c] = bids[c]
    BY <1>1, <1>4, <1>5, <1>6, <1>7
  <1>9. ActiveIn(bids') = (ActiveIn(bids) \ winners) \ losers
    BY <1>1, <1>8 DEF ActiveIn
  <1>10. QED
    BY <1>8, <1>9

\* A completion keeps the invariant.
LEMMA CompleteRoundInv ==
  ASSUME IInv, NEW r \in 1..TotalRounds, CompleteRound(r)
  PROVE  IInv'
  <1>1. TypeOK /\ bids \in [BidIds -> Bid] /\ TypeOK'
    BY CompleteRoundType DEF IInv, TypeOK
  <1>2. PICK winners \in SUBSET Active, losers \in SUBSET Active :
          /\ losers \cap winners = {}
          /\ \E pos \in Positions(bids, winners) : Settle(r, winners, pos, losers)
    BY CompletionSettles, Zenon
  <1>3. PICK pos \in Positions(bids, winners) : Settle(r, winners, pos, losers)
    BY <1>2
  <1>4. /\ bids' = Refunded(Won(bids, winners, pos, r), losers, r)
        /\ refs' = [lock   |-> refs.lock,
                    refund |-> refs.refund \union losers,
                    charge |-> refs.charge \union winners]
    BY <1>3, Zenon DEF Settle
  <1>5. /\ \A c \in BidIds : /\ bids'[c].user = bids[c].user
                            /\ bids'[c].amount = bids[c].amount
        /\ \A c \in winners : bids'[c].status = "won"
        /\ \A c \in losers : bids'[c].status = "refunded"
        /\ \A c \in BidIds : c \notin winners /\ c \notin losers => bids'[c] = bids[c]
    <2>1. TypeOK /\ losers \cap winners = {}
      BY <1>1, <1>2
    <2>2. QED
      BY <1>3, <2>1, SettledFields
  <1>6. ActiveIn(bids') = (ActiveIn(bids) \ winners) \ losers
    BY <1>5 DEF Active, ActiveIn
  <1>7. Single(bids)
    BY DEF Single, IInv, OneActivePerUser, Active
  <1>8. OneActivePerUser'
    BY <1>5, <1>6, <1>7 DEF OneActivePerUser, Single, Active, ActiveIn
  <1>9. losers \cap refs.refund = {} /\ winners \cap refs.charge = {}
    BY DEF IInv, SettledOnce, Active, ActiveIn
  <1>10. SettledOnce'
    <2>1. refs'.refund = refs.refund \union losers /\ refs'.charge = refs.charge \union winners
      BY <1>4
    <2>2. ASSUME NEW c \in BidIds
          PROVE  /\ c \in refs'.refund <=> bids'[c].status = "refunded"
                 /\ c \in refs'.charge <=> bids'[c].status = "won"
      <3>1. c \in Active => c \notin refs.refund /\ c \notin refs.charge
        BY DEF IInv, SettledOnce, Active, ActiveIn
      <3>2. CASE c \in winners
        BY <1>5, <2>1, <3>1, <3>2
      <3>3. CASE c \in losers
        BY <1>5, <2>1, <3>1, <3>3
      <3>4. CASE c \notin winners /\ c \notin losers
        BY <1>5, <2>1, <3>4 DEF IInv, SettledOnce
      <3>5. QED
        BY <3>2, <3>3, <3>4
    <2>3. QED
      BY <2>2 DEF SettledOnce
  <1>11. LocksBelow'
    <2>1. refs'.lock = refs.lock
      BY <1>4
    <2>2. \A c \in BidIds : bids[c].status # "none" => bids'[c].status # "none"
      BY <1>5
    <2>3. QED
      BY <1>5, <2>1, <2>2 DEF IInv, LocksBelow
  <1>12. MoneyConserved'
    <2>1. ASSUME NEW v \in Users
          PROVE  /\ ledger'[v].net = balance'[v] + Held(v)' + ledger'[v].charge
                 /\ ledger'[v].lock = Held(v)' + ledger'[v].refund + ledger'[v].charge
      <3> DEFINE back == RefundTo(bids, losers, v)
                 paid == ChargeTo(bids, winners, v)
      <3>1. /\ balance'[v] = balance[v] + back
            /\ ledger'[v].net = ledger[v].net
            /\ ledger'[v].lock = ledger[v].lock
            /\ ledger'[v].refund = ledger[v].refund + back
            /\ ledger'[v].charge = ledger[v].charge + paid
        BY <1>3 DEF Settle
      <3>2. HeldIn(bids, v) = HeldIn(bids', v) + back + paid
        <4>1. \A c \in ActiveIn(bids') : bids'[c].user = bids[c].user /\ bids'[c].amount = bids[c].amount
          BY <1>5 DEF ActiveIn
        <4>2. /\ winners \in SUBSET ActiveIn(bids) /\ losers \in SUBSET ActiveIn(bids)
              /\ losers \cap winners = {}
          BY <1>2 DEF Active
        <4>3. QED
          BY <1>1, <1>6, <1>7, <1>9, <4>1, <4>2, Release
      <3>3. Held(v)' = HeldIn(bids', v) /\ Held(v) = HeldIn(bids, v)
        BY DEF Held, HeldIn, ActiveOf, Active, OwnedBy
      <3>4. /\ ledger[v].net = balance[v] + Held(v) + ledger[v].charge
            /\ ledger[v].lock = Held(v) + ledger[v].refund + ledger[v].charge
        BY DEF IInv, MoneyConserved
      <3>5. /\ ledger[v].net \in Int /\ ledger[v].lock \in Nat /\ ledger[v].refund \in Nat
            /\ ledger[v].charge \in Nat /\ balance[v] \in Nat
        BY <1>1 DEF TypeOK, Sums
      <3>6. back \in Nat /\ paid \in Nat
        <4>1. winners \in SUBSET BidIds /\ losers \in SUBSET BidIds
          BY DEF Active, ActiveIn
        <4>2. QED
          BY <1>1, <4>1, MovedAmounts
      <3>7. HeldIn(bids', v) \in Nat
        <4>1. bids' \in [BidIds -> Bid]
          BY <1>1 DEF TypeOK
        <4>2. QED
          BY <4>1 DEF HeldIn, OwnedBy, ActiveIn, Bid
      <3> HIDE DEF back, paid
      <3>8. QED
        BY <3>1, <3>2, <3>3, <3>4, <3>5, <3>6, <3>7
    <2>2. QED
      BY <2>1 DEF MoneyConserved
  <1>13. QED
    BY <1>1, <1>8, <1>10, <1>11, <1>12 DEF IInv

\* A deposit or withdrawal keeps the invariant.
LEMMA WalletInv ==
  ASSUME IInv, TypeOK', NEW u \in Users, NEW a \in Amounts, Deposit(u, a) \/ Withdraw(u, a)
  PROVE  IInv'
  <1>1. UNCHANGED <<status, currentRound, distributed, rounds, bids, refs>>
    BY DEF Deposit, Withdraw
  <1>2. OneActivePerUser' /\ SettledOnce' /\ LocksBelow'
    BY <1>1 DEF IInv, OneActivePerUser, SettledOnce, LocksBelow, Active, ActiveIn
  <1>3. \A v : Held(v)' = Held(v)
    BY <1>1 DEF Held, ActiveOf, Active, ActiveIn
  <1>4. MoneyConserved'
    <2>1. ASSUME NEW v \in Users
          PROVE  /\ ledger'[v].net - ledger[v].net = balance'[v] - balance[v]
                 /\ ledger'[v].lock = ledger[v].lock
                 /\ ledger'[v].refund = ledger[v].refund
                 /\ ledger'[v].charge = ledger[v].charge
      <3>1. ledger[v] \in Sums /\ balance[v] \in Nat /\ a \in Nat /\ ledger[v].net \in Int
        BY PriceAssumption DEF IInv, TypeOK, Sums
      <3>2. ledger \in [Users -> Sums] /\ balance \in [Users -> Nat]
        BY DEF IInv, TypeOK
      <3>3. CASE Deposit(u, a)
        <4>1. /\ balance' = [balance EXCEPT ![u] = @ + a]
              /\ ledger' = [ledger EXCEPT ![u].net = @ + a]
          BY <3>3 DEF Deposit
        <4>2. QED
          BY <3>1, <3>2, <4>1 DEF Sums
      <3>4. CASE Withdraw(u, a)
        <4>1. /\ balance' = [balance EXCEPT ![u] = @ - a]
              /\ ledger' = [ledger EXCEPT ![u].net = @ - a]
          BY <3>4 DEF Withdraw
        <4>2. QED
          BY <3>1, <3>2, <4>1 DEF Sums
      <3>5. QED
        BY <3>3, <3>4
    <2>2. ASSUME NEW v \in Users
          PROVE  /\ ledger'[v].net = balance'[v] + Held(v)' + ledger'[v].charge
                 /\ ledger'[v].lock = Held(v)' + ledger'[v].refund + ledger'[v].charge
      <3>1. /\ ledger[v].net = balance[v] + Held(v) + ledger[v].charge
            /\ ledger[v].lock = Held(v) + ledger[v].refund + ledger[v].charge
        BY DEF IInv, MoneyConserved
      <3>2. /\ ledger[v].net \in Int /\ ledger[v].charge \in Nat /\ balance[v] \in Nat
            /\ ledger'[v].net \in Int /\ balance'[v] \in Nat
        BY DEF IInv, TypeOK, Sums
      <3>3. Held(v) \in Nat
        BY DEF IInv, TypeOK, Held, ActiveOf, Active, ActiveIn, Bid
      <3>4. QED
        BY <1>3, <2>1, <3>1, <3>2, <3>3
    <2>3. QED
      BY <2>2 DEF MoneyConserved
  <1>5. QED
    BY <1>2, <1>4 DEF IInv

-----------------------------------------------------------------------------
\* The invariant holds at the start, and every step keeps it.
LEMMA InitInv == Init => IInv
  <1> SUFFICES ASSUME Init PROVE IInv
    OBVIOUS
  <1>1. TypeOK
    BY TypeAtStart
  <1>2. /\ \A b \in BidIds : bids[b].status = "none"
        /\ Active = {}
        /\ refs.lock = {} /\ refs.refund = {} /\ refs.charge = {}
    BY DEF Init, NoDocument, Active, ActiveIn
  <1>3. OneActivePerUser /\ SettledOnce /\ LocksBelow
    BY <1>2 DEF OneActivePerUser, SettledOnce, LocksBelow
  <1>4. MoneyConserved
    BY <1>2 DEF MoneyConserved, Held, ActiveOf, Init
  <1>5. QED
    BY <1>1, <1>3, <1>4 DEF IInv

LEMMA NextInv == IInv /\ [Next]_vars => IInv'
  <1> SUFFICES ASSUME IInv, [Next]_vars PROVE IInv'
    OBVIOUS
  <1>1. TypeOK'
    BY TypeKept DEF IInv
  <1>2. ASSUME UNCHANGED <<bids, balance, ledger, refs>> PROVE IInv'
    BY <1>1, <1>2 DEF IInv, OneActivePerUser, SettledOnce, LocksBelow, MoneyConserved,
                      Held, ActiveOf, Active, ActiveIn
  <1>3. CASE Start
    BY <1>2, <1>3 DEF Start
  <1>4. CASE OpenFirstRound
    BY <1>2, <1>4 DEF OpenFirstRound
  <1>5. ASSUME NEW r \in 1..TotalRounds, CompleteRound(r) PROVE IInv'
    BY <1>5, CompleteRoundInv
  <1>6. ASSUME NEW u \in Users, NEW a \in Amounts, NEW t \in Times,
               NEW r \in 1..TotalRounds, NEW late, NewBid(u, a, t, r, late)
        PROVE  IInv'
    <2>1. PICK b \in BidIds : /\ bids[b].status = "none"
                              /\ CommitBid(u, b, NewDocs(u, b, a, t), a, r, late)
      BY <1>6, Zenon DEF NewBid
    <2>2. ActiveOf(u) = {}
      BY <1>6 DEF NewBid
    <2>3. Placed(u, b, NewDocs(u, b, a, t), a)
      BY <2>1, <2>2, NewBidPlaces
    <2>4. QED
      BY <2>1, <2>3, CommitBidInv
  <1>7. ASSUME NEW u \in Users, NEW a \in Amounts, NEW t \in Times,
               NEW r \in 1..TotalRounds, NEW late, RaiseBid(u, a, t, r, late)
        PROVE  IInv'
    <2>1. PICK b \in ActiveOf(u) : CommitBid(u, b, RaisedDocs(b, a, t), a, r, late)
      BY <1>7, Zenon DEF RaiseBid
    <2>2. Placed(u, b, RaisedDocs(b, a, t), a)
      BY RaisePlaces
    <2>3. QED
      BY <2>1, <2>2, CommitBidInv
  <1>8. ASSUME NEW u \in Users, NEW a \in Amounts, Deposit(u, a) \/ Withdraw(u, a)
        PROVE  IInv'
    BY <1>1, <1>8, WalletInv
  <1>9. CASE UNCHANGED vars
    BY <1>2, <1>9 DEF vars
  <1>10. QED
    BY <1>3, <1>4, <1>5, <1>6, <1>7, <1>8, <1>9 DEF Next

\* The inductive invariant: types, one active bid per user, settlement and money, and that
\* no bid has locked an amount above its own, so that the next lock is never skipped.
THEOREM InvariantHolds == Spec => []IInv
  BY InitInv, NextInv, PTL DEF Spec

\* No user ever has two active bids, whatever the order of requests, displacements and
\* completions.
THEOREM OneActive == Spec => []OneActivePerUser
  <1>1. IInv => OneActivePerUser
    BY DEF IInv
  <1>2. QED
    BY <1>1, InvariantHolds, PTL

\* Every bid is refunded or charged exactly once, and never both.
THEOREM Settlement == Spec => []SettledOnce
  <1>1. IInv => SettledOnce
    BY DEF IInv
  <1>2. QED
    BY <1>1, InvariantHolds, PTL

\* What a user put in is always in the balance, held by the active bid or paid.
THEOREM Conservation == Spec => []MoneyConserved
  <1>1. IInv => MoneyConserved
    BY DEF IInv
  <1>2. QED
    BY <1>1, InvariantHolds, PTL

-----------------------------------------------------------------------------
\* sort(...).limit(n) returns at most n bids of the set.
LEMMA FirstOfBounded ==
  ASSUME NEW docs, NEW S \in SUBSET BidIds, NEW n \in Nat, NEW T \in FirstOf(docs, S, n)
  PROVE  T \subseteq S /\ Cardinality(T) \in Nat /\ Cardinality(T) <= n
  <1>1. Cardinality(S) \in Nat
    BY BidSets
  <1>2. QED
    BY <1>1 DEF FirstOf

\* Refunding and awarding remove exactly these bids from the active ones.
LEMMA ActiveAfterRefund ==
  ASSUME NEW docs \in [BidIds -> Bid], NEW S \in SUBSET BidIds, NEW r
  PROVE  ActiveIn(Refunded(docs, S, r)) = ActiveIn(docs) \ S
  <1>1. \A b \in S : Refunded(docs, S, r)[b].status = "refunded"
    BY DEF Refunded, Bid
  <1>2. \A b \in BidIds \ S : Refunded(docs, S, r)[b] = docs[b]
    BY DEF Refunded
  <1>3. QED
    BY <1>1, <1>2 DEF ActiveIn

LEMMA ActiveAfterWin ==
  ASSUME NEW docs \in [BidIds -> Bid], NEW W \in SUBSET BidIds, NEW pos, NEW r
  PROVE  ActiveIn(Won(docs, W, pos, r)) = ActiveIn(docs) \ W
  <1>1. \A b \in W : Won(docs, W, pos, r)[b].status = "won"
    BY DEF Won, Bid
  <1>2. \A b \in BidIds \ W : Won(docs, W, pos, r)[b] = docs[b]
    BY DEF Won
  <1>3. QED
    BY <1>1, <1>2 DEF ActiveIn

SupplyInv == SupplyRespected /\ (status = "draft" => Active = {})

\* A bid transaction leaves at most as many active bids as gifts: the rest is displaced.
LEMMA CommitBidSupply ==
  ASSUME TypeOK, SupplyInv, NEW u, NEW b \in BidIds, NEW docs \in [BidIds -> Bid],
         NEW cost, NEW r, NEW late, status = "active", CommitBid(u, b, docs, cost, r, late)
  PROVE  SupplyInv'
  <1>1. PICK displaced \in SUBSET ActiveIn(docs) :
          /\ (ActiveIn(docs) \ displaced) \in FirstOf(docs, ActiveIn(docs), RemainingSupply)
          /\ Place(u, b, docs, cost, displaced)
    BY CommitBidWrites, Zenon
  <1>2. UNCHANGED <<status, currentRound, distributed>>
    BY CommitBidWrites, Zenon
  <1>3. displaced \in SUBSET BidIds /\ ActiveIn(docs) \in SUBSET BidIds
    BY DEF ActiveIn
  <1>4. Active' = ActiveIn(docs) \ displaced
    <2>1. bids' = Refunded(docs, displaced, currentRound)
      BY <1>1, Zenon DEF Place
    <2>2. Active' = ActiveIn(bids')
      BY DEF Active, ActiveIn
    <2>3. QED
      BY <1>3, <2>1, <2>2, ActiveAfterRefund
  <1>5. RemainingSupply \in Nat /\ RemainingSupply' = RemainingSupply
    BY <1>2, RemainingType DEF RemainingSupply
  <1>6. Cardinality(Active') <= RemainingSupply
    BY <1>1, <1>3, <1>4, <1>5, FirstOfBounded
  <1>7. QED
    BY <1>2, <1>5, <1>6 DEF SupplyInv, SupplyRespected

\* What a completion settles: the winners get gifts, the losers are refunded, and the bids
\* that stay active are the ones kept.
LEMMA ActiveAfterCompletion ==
  ASSUME TypeOK, NEW r \in 1..TotalRounds, CompleteRound(r)
  PROVE  \E winners \in FirstOf(bids, Active, Burned(r)) :
         \E kept \in FirstOf(bids, Active \ winners,
                 IF EndsAuction(r) THEN 0 ELSE TotalSupply - DistributedAfter(r)) :
         \E pos \in Positions(bids, winners) :
            /\ bids' = Refunded(Won(bids, winners, pos, r), (Active \ winners) \ kept, r)
            /\ winners \subseteq Active /\ kept \subseteq Active \ winners
            /\ Active' = kept
  <1>1. PICK winners \in SUBSET Active, kept \in SUBSET Active :
          /\ winners \in FirstOf(bids, Active, Burned(r))
          /\ kept \in FirstOf(bids, Active \ winners,
                  IF EndsAuction(r) THEN 0 ELSE TotalSupply - DistributedAfter(r))
          /\ \E pos \in Positions(bids, winners) :
                Settle(r, winners, pos, (Active \ winners) \ kept)
    BY CompleteRoundWrites, Zenon
  <1>2. Active \in SUBSET BidIds /\ kept \subseteq Active \ winners
    BY <1>1 DEF Active, ActiveIn, FirstOf
  <1>3. PICK pos \in Positions(bids, winners) :
          bids' = Refunded(Won(bids, winners, pos, r), (Active \ winners) \ kept, r)
    BY <1>1, Zenon DEF Settle
  <1>4. Active' = kept
    <2>1. /\ bids \in [BidIds -> Bid] /\ winners \in SUBSET BidIds
          /\ (Active \ winners) \ kept \in SUBSET BidIds
      BY <1>2 DEF TypeOK
    <2>2. ActiveIn(Won(bids, winners, pos, r)) = Active \ winners
      BY <2>1, ActiveAfterWin DEF Active
    <2>3. \A c \in BidIds : c \in Active' <=> bids'[c].status = "active"
      BY DEF Active, ActiveIn
    <2>4. \A c \in (Active \ winners) \ kept : bids'[c].status = "refunded"
      <3>1. ASSUME NEW c \in (Active \ winners) \ kept PROVE bids'[c].status = "refunded"
        <4>1. c \in BidIds /\ Won(bids, winners, pos, r)[c] = bids[c] /\ bids[c] \in Bid
          BY <2>1 DEF Won
        <4>2. bids'[c] = [bids[c] EXCEPT !.status = "refunded", !.closed = r]
          BY <1>3, <4>1 DEF Refunded
        <4>3. QED
          BY <4>1, <4>2 DEF Bid
      <3>2. QED
        BY <3>1
    <2>5. \A c \in BidIds \ ((Active \ winners) \ kept) :
            bids'[c] = Won(bids, winners, pos, r)[c]
      BY <1>3 DEF Refunded
    <2>6. \A c \in BidIds : c \in Active' <=> c \in kept
      BY <1>2, <2>2, <2>3, <2>4, <2>5 DEF ActiveIn
    <2>7. QED
      BY <1>2, <2>6 DEF Active, ActiveIn
  <1>5. QED
    BY <1>1, <1>2, <1>3, <1>4, Zenon

\* A completion that goes on keeps at most as many losers as gifts are left.
LEMMA CompleteRoundSupply ==
  ASSUME TypeOK, TypeOK', SupplyInv, NEW r \in 1..TotalRounds, CompleteRound(r)
  PROVE  SupplyInv'
  <1>1. PICK winners, kept :
          /\ kept \in FirstOf(bids, Active \ winners,
                  IF EndsAuction(r) THEN 0 ELSE TotalSupply - DistributedAfter(r))
          /\ kept \subseteq Active \ winners
          /\ Active' = kept
    BY ActiveAfterCompletion, Zenon
  <1>2. Active \in SUBSET BidIds
    BY DEF Active, ActiveIn
  <1>5. /\ distributed' = DistributedAfter(r)
        /\ status' = IF EndsAuction(r) THEN "completed" ELSE status
    BY DEF CompleteRound
  <1>6. CASE EndsAuction(r)
    BY <1>5, <1>6 DEF SupplyInv, SupplyRespected
  <1>7. CASE ~EndsAuction(r)
    <2>1. /\ DistributedAfter(r) \in Nat /\ TotalSupply \in Nat
          /\ TotalSupply - DistributedAfter(r) \in Nat
      BY BurnedType, SupplyType
    <2>2. Active \ winners \in SUBSET BidIds
      BY <1>2
    <2>3. Cardinality(kept) <= TotalSupply - DistributedAfter(r)
      BY <1>1, <1>7, <2>1, <2>2, FirstOfBounded
    <2>4. RemainingSupply' = TotalSupply - DistributedAfter(r)
      BY <1>5, <2>1 DEF RemainingSupply
    <2>5. status = "draft" => kept = {}
      BY <1>1 DEF SupplyInv
    <2>6. QED
      BY <1>1, <1>5, <1>7, <2>3, <2>4, <2>5 DEF SupplyInv, SupplyRespected
  <1>8. QED
    BY <1>6, <1>7

\* While the auction runs, no more bids are active than gifts are left, so a bid that is
\* active can still win.
THEOREM SupplyKept == Spec => []SupplyRespected
  <1>1. Init => SupplyInv
    BY DEF Init, SupplyInv, SupplyRespected, NoDocument, Active, ActiveIn
  <1>2. TypeOK /\ SupplyInv /\ [Next]_vars => SupplyInv'
    <2> SUFFICES ASSUME TypeOK, SupplyInv, [Next]_vars PROVE SupplyInv'
      OBVIOUS
    <2>1. TypeOK'
      BY TypeKept
    <2>2. ASSUME UNCHANGED <<status, distributed, bids>> PROVE SupplyInv'
      BY <2>2 DEF SupplyInv, SupplyRespected, RemainingSupply, Active, ActiveIn
    <2>3. CASE Start
      <3>1. Active' = {} /\ RemainingSupply' \in Nat
        BY <2>1, <2>3, SupplyType DEF Start, SupplyInv, RemainingSupply, Active, ActiveIn, TypeOK
      <3>2. Cardinality(Active') = 0
        BY <3>1, FS_EmptySet
      <3>3. QED
        BY <2>3, <3>1, <3>2 DEF Start, SupplyInv, SupplyRespected
    <2>4. CASE OpenFirstRound
      BY <2>2, <2>4 DEF OpenFirstRound
    <2>5. ASSUME NEW r \in 1..TotalRounds, CompleteRound(r) PROVE SupplyInv'
      BY <2>1, <2>5, CompleteRoundSupply
    <2>6. ASSUME NEW u \in Users, NEW a \in Amounts, NEW t \in Times,
                 NEW r \in 1..TotalRounds, NEW late, NewBid(u, a, t, r, late)
          PROVE  SupplyInv'
      <3>1. PICK b \in BidIds : CommitBid(u, b, NewDocs(u, b, a, t), a, r, late)
        BY <2>6, Zenon DEF NewBid
      <3>2. status = "active" /\ NewDocs(u, b, a, t) \in [BidIds -> Bid]
        BY <2>6, PriceAssumption, SupplyAssumption
           DEF NewBid, AcceptsBids, NewDocs, TypeOK, Bid, BidStatus
      <3>3. QED
        BY <3>1, <3>2, CommitBidSupply
    <2>7. ASSUME NEW u \in Users, NEW a \in Amounts, NEW t \in Times,
                 NEW r \in 1..TotalRounds, NEW late, RaiseBid(u, a, t, r, late)
          PROVE  SupplyInv'
      <3>1. PICK b \in ActiveOf(u) : CommitBid(u, b, RaisedDocs(b, a, t), a, r, late)
        BY <2>7, Zenon DEF RaiseBid
      <3>2. b \in BidIds /\ RaisedDocs(b, a, t) \in [BidIds -> Bid]
        BY RaisedType DEF ActiveOf, Active, ActiveIn
      <3>3. status = "active"
        BY <2>7 DEF RaiseBid, AcceptsBids
      <3>4. QED
        BY <3>1, <3>2, <3>3, CommitBidSupply
    <2>8. ASSUME NEW u \in Users, NEW a \in Amounts, Deposit(u, a) \/ Withdraw(u, a)
          PROVE  SupplyInv'
      BY <2>2, <2>8 DEF Deposit, Withdraw
    <2>9. CASE UNCHANGED vars
      BY <2>2, <2>9 DEF vars
    <2>10. QED
      BY <2>3, <2>4, <2>5, <2>6, <2>7, <2>8, <2>9 DEF Next
  <1>3. QED
    <2>1. SupplyInv => SupplyRespected
      BY DEF SupplyInv
    <2>2. QED
      BY <1>1, <1>2, <2>1, TypeCorrect, PTL DEF Spec

-----------------------------------------------------------------------------
(* A bid that passes the price check stays. *)

LEMMA AcceptedIsKept ==
  ASSUME IInv, NEW u \in Users, NEW b, NEW docs, NEW cost, Placed(u, b, docs, cost),
         RemainingSupply > 0, MeetsDynamicMinBid(docs[b].amount),
         NEW kept \in FirstOf(docs, ActiveIn(docs), RemainingSupply)
  PROVE  b \in kept
  <1>1. /\ b \in BidIds /\ docs \in [BidIds -> Bid] /\ bids \in [BidIds -> Bid]
        /\ b \in ActiveIn(docs) /\ RemainingSupply \in Nat
    BY RemainingType DEF Placed, IInv, TypeOK, ActiveIn
  <1>2. /\ IsFiniteSet(ActiveIn(docs)) /\ Cardinality(ActiveIn(docs)) \in Nat
        /\ IsFiniteSet(Active) /\ Cardinality(Active) \in Nat
    BY BidSets DEF Active, ActiveIn
  <1>3. kept \subseteq ActiveIn(docs)
    BY DEF FirstOf
  <1>4. CASE Cardinality(ActiveIn(docs)) <= RemainingSupply
    <2>1. Cardinality(kept) = Cardinality(ActiveIn(docs))
      BY <1>4 DEF FirstOf
    <2>2. kept = ActiveIn(docs)
      BY <1>2, <1>3, <2>1, FS_Subset
    <2>3. QED
      BY <1>1, <2>2
  <1>5. CASE Cardinality(ActiveIn(docs)) > RemainingSupply
    <2>1. Cardinality(kept) = RemainingSupply
      BY <1>1, <1>2, <1>5 DEF FirstOf
    <2>2. SoldOut
      <3>1. ActiveIn(docs) \subseteq Active \union {b}
        BY DEF Placed, Active, ActiveIn
      <3>2. /\ IsFiniteSet(Active \union {b})
            /\ Cardinality(Active \union {b}) \in Nat
            /\ Cardinality(Active \union {b}) <= Cardinality(Active) + 1
        <4>1. /\ IsFiniteSet(Active \union {b})
              /\ Cardinality(Active \union {b}) =
                    IF b \in Active THEN Cardinality(Active) ELSE Cardinality(Active) + 1
          BY <1>2, FS_AddElement, Zenon
        <4>2. QED
          BY <1>2, <4>1
      <3>3. Cardinality(ActiveIn(docs)) <= Cardinality(Active \union {b})
        BY <3>1, <3>2, FS_Subset
      <3>4. QED
        BY <1>1, <1>2, <1>5, <3>2, <3>3 DEF SoldOut
    <2>3. PICK d \in Active :
            /\ Cardinality({c \in Active : bids[c].amount > bids[d].amount}) < RemainingSupply
            /\ docs[b].amount >= bids[d].amount + MinIncrement
      BY <2>2 DEF MeetsDynamicMinBid
    <2> DEFINE above == {c \in Active : bids[c].amount > bids[d].amount}
    <2>4. docs[b].amount > bids[d].amount
      BY <1>1, <2>3, PriceAssumption DEF Active, ActiveIn, Bid
    <2>5. ASSUME b \notin kept PROVE FALSE
      <3>1. ASSUME NEW c \in kept PROVE c \in above
        <4>1. c \in ActiveIn(docs) /\ c # b /\ c \in BidIds
          BY <1>3, <2>5 DEF ActiveIn
        <4>2. ~Outranks(docs, b, c)
          BY <1>1, <2>5 DEF FirstOf
        <4>3. docs[c].amount >= docs[b].amount
          BY <1>1, <4>1, <4>2 DEF Outranks, Bid
        <4>4. docs[c] = bids[c] /\ c \in Active
          BY <4>1 DEF Placed, Active, ActiveIn
        <4>5. QED
          BY <1>1, <2>3, <2>4, <4>1, <4>3, <4>4 DEF Active, ActiveIn, Bid
      <3>2. /\ kept \in SUBSET above
            /\ IsFiniteSet(above) /\ Cardinality(above) \in Nat
        BY <1>2, <3>1, FS_Subset, FS_CardinalityType
      <3>3. Cardinality(kept) <= Cardinality(above)
        BY <3>2, FS_Subset
      <3>4. Cardinality(above) < RemainingSupply
        BY <2>3
      <3> HIDE DEF above
      <3>5. QED
        BY <1>1, <2>1, <3>2, <3>3, <3>4
    <2>6. QED
      BY <2>5
  <1>6. QED
    BY <1>1, <1>2, <1>4, <1>5

\* What a bid transaction does to each user's money: the bidder pays cost, the users in
\* outbid get back what is held for them.
LEMMA CommitBidEffect ==
  ASSUME IInv, NEW u \in Users, NEW b, NEW docs, NEW cost, NEW r, NEW late,
         Placed(u, b, docs, cost), CommitBid(u, b, docs, cost, r, late),
         RemainingSupply > 0, MeetsDynamicMinBid(docs[b].amount)
  PROVE  \E outbid \in SUBSET Users :
           /\ u \notin outbid
           /\ balance[u] >= cost
           /\ \A v \in Users :
                /\ ledger'[v].charge = ledger[v].charge
                /\ v = u => /\ balance'[v] = balance[v] - cost
                            /\ Held(v)' = Held(v) + cost
                /\ v \in outbid => /\ balance'[v] = balance[v] + Held(v)
                                   /\ Held(v)' = 0
                /\ v # u /\ v \notin outbid => /\ balance'[v] = balance[v]
                                               /\ Held(v)' = Held(v)
           /\ \A c \in BidIds : bids'[c].amount # bids[c].amount => bids'[c].status = "active"
  <1>1. /\ b \in BidIds /\ cost \in Nat /\ docs \in [BidIds -> Bid]
        /\ bids \in [BidIds -> Bid] /\ b \in ActiveIn(docs)
        /\ balance \in [Users -> Nat]
    BY DEF Placed, IInv, TypeOK, ActiveIn
  <1>2. PICK displaced \in SUBSET ActiveIn(docs) :
           /\ (ActiveIn(docs) \ displaced) \in FirstOf(docs, ActiveIn(docs), RemainingSupply)
           /\ Place(u, b, docs, cost, displaced)
    BY CommitBidWrites, Zenon
  <1>3. b \notin displaced
    <2>1. b \in ActiveIn(docs) \ displaced
      BY <1>2, AcceptedIsKept
    <2>2. QED
      BY <2>1
  <1>4. bids' = Refunded(docs, displaced, currentRound)
    BY <1>2, Zenon DEF Place
  <1>5. /\ \A c \in BidIds \ displaced : bids'[c] = docs[c]
        /\ \A c \in BidIds : /\ bids'[c].user = docs[c].user
                            /\ bids'[c].amount = docs[c].amount
    BY <1>1, <1>4 DEF Refunded, ActiveIn, Bid
  <1>6. ActiveIn(bids') = ActiveIn(docs) \ displaced
    BY <1>1, <1>4, ActiveAfterRefund DEF ActiveIn
  <1>7. Single(docs) /\ Debit(docs, b, cost) = cost /\ displaced \cap refs.refund = {}
    BY PlacedFacts
  <1>8. Single(bids')
    BY <1>5, <1>6, <1>7 DEF Single, ActiveIn
  <1>9. Single(bids)
    BY DEF IInv, OneActivePerUser, Single, Active
  <1>10. /\ docs[b].user = u /\ docs[b].amount = Held(u) + cost
         /\ \A c \in ActiveIn(docs) : c # b => docs[c] = bids[c] /\ c \in Active
         /\ \A c \in Active : c # b => c \in ActiveIn(docs) /\ bids[c].user # u
    BY DEF Placed, Active, ActiveIn, ActiveOf
  <1>11. \A v : Held(v)' = HeldIn(bids', v) /\ Held(v) = HeldIn(bids, v)
    BY DEF Held, HeldIn, ActiveOf, Active, OwnedBy
  <1> DEFINE outbid == {v \in Users : \E c \in displaced : docs[c].user = v}
  <1>12. u \notin outbid
    BY <1>1, <1>3, <1>7, <1>10 DEF Single
  <1>13. balance[u] >= cost
    BY <1>7 DEF CommitBid
  <1>14. ASSUME NEW v \in Users
         PROVE  /\ ledger'[v].charge = ledger[v].charge
                /\ v = u => /\ balance'[v] = balance[v] - cost
                            /\ Held(v)' = Held(v) + cost
                /\ v \in outbid => /\ balance'[v] = balance[v] + Held(v)
                                   /\ Held(v)' = 0
                /\ v # u /\ v \notin outbid => /\ balance'[v] = balance[v]
                                               /\ Held(v)' = Held(v)
    <2>1. /\ ledger'[v].charge = ledger[v].charge
          /\ balance'[v] = balance[v] - (IF v = u THEN cost ELSE 0) + RefundTo(docs, displaced, v)
      BY <1>2, <1>7 DEF Place
    <2>2. balance[v] \in Nat
      BY <1>1
    <2>3. CASE v = u
      <3>1. RefundTo(docs, displaced, v) = 0
        BY <1>7, <1>12, <2>3, RefundToIs
      <3>2. HeldIn(bids', bids'[b].user) = bids'[b].amount
        BY <1>1, <1>3, <1>6, <1>8, HeldInIs
      <3>3. Held(v)' = Held(v) + cost
        BY <1>1, <1>5, <1>10, <1>11, <2>3, <3>2
      <3>4. QED
        BY <1>1, <1>12, <2>1, <2>2, <2>3, <3>1, <3>3
    <2>4. CASE v \in outbid
      <3>1. PICK c \in displaced : docs[c].user = v
        BY <2>4
      <3>2. RefundTo(docs, displaced, v) = docs[c].amount
        BY <1>7, <3>1, RefundToIs
      <3>3. c # b /\ docs[c] = bids[c] /\ c \in Active /\ docs[c].amount \in Nat
        BY <1>1, <1>3, <1>10 DEF ActiveIn, Bid
      <3>4. HeldIn(bids, v) = docs[c].amount
        BY <1>9, <3>1, <3>3, HeldInIs DEF Active
      <3>5. OwnedBy(bids', v) = {}
        BY <1>5, <1>6, <1>7, <3>1 DEF OwnedBy, Single, ActiveIn
      <3>6. HeldIn(bids', v) = 0
        BY <3>5 DEF HeldIn
      <3>7. QED
        BY <1>11, <1>12, <2>1, <2>2, <2>4, <3>2, <3>3, <3>4, <3>6
    <2>5. CASE v # u /\ v \notin outbid
      <3>1. RefundTo(docs, displaced, v) = 0
        BY <1>7, <2>5, RefundToIs
      <3>2. OwnedBy(bids', v) = OwnedBy(bids, v)
        <4>1. ASSUME NEW c \in OwnedBy(bids', v) PROVE c \in OwnedBy(bids, v)
          BY <1>5, <1>6, <1>10, <2>5, <4>1 DEF OwnedBy, Active, ActiveIn
        <4>2. ASSUME NEW c \in OwnedBy(bids, v) PROVE c \in OwnedBy(bids', v)
          <5>1. c \in Active /\ bids[c].user = v /\ c \in BidIds
            BY DEF OwnedBy, Active, ActiveIn
          <5>2. c # b
            BY <1>10, <2>5, <5>1 DEF Placed, Active, ActiveIn
          <5>3. c \in ActiveIn(docs) /\ docs[c] = bids[c]
            BY <1>10, <5>1, <5>2
          <5>4. c \notin displaced
            BY <2>5, <5>1, <5>3
          <5>5. QED
            BY <1>5, <1>6, <5>1, <5>3, <5>4 DEF OwnedBy
        <4>3. QED
          BY <4>1, <4>2
      <3>3. \A c \in OwnedBy(bids, v) : bids'[c].amount = bids[c].amount
        BY <1>5, <1>6, <1>10, <2>5, <3>2 DEF OwnedBy, ActiveIn
      <3>4. HeldIn(bids', v) = HeldIn(bids, v)
        BY <3>2, <3>3 DEF HeldIn
      <3>5. QED
        BY <1>11, <2>1, <2>2, <2>5, <3>1, <3>4
    <2>6. QED
      BY <2>3, <2>4, <2>5
  <1>15. \A c \in BidIds : bids'[c].amount # bids[c].amount => bids'[c].status = "active"
    BY <1>3, <1>5 DEF Placed
  <1>16. outbid \in SUBSET Users
    OBVIOUS
  <1> HIDE DEF outbid
  <1>17. QED
    BY <1>12, <1>13, <1>14, <1>15, <1>16, Zenon

\* What a completion does: the users in winning pay what is held for them, the users in
\* losing get it back.
LEMMA CompletionEffect ==
  ASSUME IInv, NEW r \in 1..TotalRounds, CompleteRound(r)
  PROVE  \E winning \in SUBSET Users, losing \in SUBSET Users :
           /\ winning \cap losing = {}
           /\ \A v \in Users :
                /\ v \in winning => /\ balance'[v] = balance[v]
                                    /\ ledger'[v].charge = ledger[v].charge + Held(v)
                                    /\ Held(v)' = 0
                /\ v \in losing => /\ balance'[v] = balance[v] + Held(v)
                                   /\ ledger'[v].charge = ledger[v].charge
                                   /\ Held(v)' = 0
                /\ v \notin winning \union losing => /\ balance'[v] = balance[v]
                                                    /\ ledger'[v].charge = ledger[v].charge
                                                    /\ Held(v)' = Held(v)
           /\ \A c \in BidIds : bids'[c].amount = bids[c].amount
  <1>1. /\ TypeOK /\ bids \in [BidIds -> Bid] /\ balance \in [Users -> Nat]
        /\ ledger \in [Users -> Sums]
    BY DEF IInv, TypeOK
  <1>2. PICK winners \in SUBSET Active, losers \in SUBSET Active :
          /\ losers \cap winners = {}
          /\ \E pos \in Positions(bids, winners) : Settle(r, winners, pos, losers)
    BY CompletionSettles, Zenon
  <1>3. PICK pos \in Positions(bids, winners) : Settle(r, winners, pos, losers)
    BY <1>2
  <1>4. /\ \A c \in BidIds : /\ bids'[c].user = bids[c].user
                            /\ bids'[c].amount = bids[c].amount
        /\ ActiveIn(bids') = (ActiveIn(bids) \ winners) \ losers
    BY <1>1, <1>2, <1>3, SettledFields, Zenon
  <1>5. Single(bids) /\ losers \cap refs.refund = {} /\ winners \cap refs.charge = {}
    BY DEF IInv, OneActivePerUser, SettledOnce, Single, Active, ActiveIn
  <1>6. \A v : Held(v)' = HeldIn(bids', v) /\ Held(v) = HeldIn(bids, v)
    BY DEF Held, HeldIn, ActiveOf, Active, OwnedBy
  <1> DEFINE winning == {v \in Users : \E c \in winners : bids[c].user = v}
             losing  == {v \in Users : \E c \in losers : bids[c].user = v}
  <1>7. winning \cap losing = {}
    BY <1>2, <1>5 DEF Single, Active
  <1>8. ASSUME NEW v \in Users
        PROVE  /\ v \in winning => /\ balance'[v] = balance[v]
                                   /\ ledger'[v].charge = ledger[v].charge + Held(v)
                                   /\ Held(v)' = 0
               /\ v \in losing => /\ balance'[v] = balance[v] + Held(v)
                                  /\ ledger'[v].charge = ledger[v].charge
                                  /\ Held(v)' = 0
               /\ v \notin winning \union losing => /\ balance'[v] = balance[v]
                                                   /\ ledger'[v].charge = ledger[v].charge
                                                   /\ Held(v)' = Held(v)
    <2>1. /\ balance'[v] = balance[v] + RefundTo(bids, losers, v)
          /\ ledger'[v].charge = ledger[v].charge + ChargeTo(bids, winners, v)
          /\ balance[v] \in Nat /\ ledger[v].charge \in Nat
      BY <1>1, <1>3 DEF Settle, Sums
    <2>2. CASE v \in winning
      <3>1. PICK c \in winners : bids[c].user = v
        BY <2>2
      <3>2. /\ HeldIn(bids, v) = bids[c].amount
            /\ ChargeTo(bids, winners, v) = bids[c].amount
        BY <1>5, <3>1, HeldInIs, ChargeToIs DEF Active
      <3>3. RefundTo(bids, losers, v) = 0
        BY <1>5, <1>7, <2>2, RefundToIs DEF Active
      <3>4. OwnedBy(bids', v) = {}
        BY <1>4, <1>5, <3>1 DEF OwnedBy, Single, Active, ActiveIn
      <3>5. QED
        BY <1>6, <1>7, <2>1, <2>2, <3>2, <3>3, <3>4 DEF HeldIn
    <2>3. CASE v \in losing
      <3>1. PICK c \in losers : bids[c].user = v
        BY <2>3
      <3>2. /\ HeldIn(bids, v) = bids[c].amount
            /\ RefundTo(bids, losers, v) = bids[c].amount
        BY <1>5, <3>1, HeldInIs, RefundToIs DEF Active
      <3>3. ChargeTo(bids, winners, v) = 0
        BY <1>5, <1>7, <2>3, ChargeToIs DEF Active
      <3>4. OwnedBy(bids', v) = {}
        BY <1>4, <1>5, <3>1 DEF OwnedBy, Single, Active, ActiveIn
      <3>5. QED
        BY <1>6, <1>7, <2>1, <2>3, <3>2, <3>3, <3>4 DEF HeldIn
    <2>4. CASE v \notin winning \union losing
      <3>1. RefundTo(bids, losers, v) = 0 /\ ChargeTo(bids, winners, v) = 0
        BY <1>5, <2>4, RefundToIs, ChargeToIs DEF Active
      <3>2. OwnedBy(bids', v) = OwnedBy(bids, v)
        BY <1>4, <2>4 DEF OwnedBy, ActiveIn
      <3>3. \A c \in OwnedBy(bids, v) : bids'[c].amount = bids[c].amount
        BY <1>4 DEF OwnedBy, ActiveIn
      <3>4. HeldIn(bids', v) = HeldIn(bids, v)
        BY <3>2, <3>3 DEF HeldIn
      <3>5. QED
        BY <1>6, <2>1, <2>4, <3>1, <3>4
    <2>5. QED
      BY <2>2, <2>3, <2>4
  <1>9. winning \in SUBSET Users /\ losing \in SUBSET Users
    OBVIOUS
  <1> HIDE DEF winning, losing
  <1>10. QED
    BY <1>4, <1>7, <1>8, <1>9, Zenon

-----------------------------------------------------------------------------
(* The steps of Next that the two theorems below distinguish. *)

\* A bid transaction, by one of the two actions.
BidStep(u, b, docs, cost) ==
    /\ Placed(u, b, docs, cost)
    /\ RemainingSupply > 0
    /\ MeetsDynamicMinBid(docs[b].amount)
    /\ \E r, late : CommitBid(u, b, docs, cost, r, late)

LEMMA NewBidIsBidStep ==
  ASSUME IInv, NEW u \in Users, NEW a \in Amounts, NEW t \in Times, NEW r, NEW late,
         NewBid(u, a, t, r, late)
  PROVE  \E b, docs : BidStep(u, b, docs, a)
  <1>1. PICK b \in BidIds : /\ bids[b].status = "none"
                            /\ CommitBid(u, b, NewDocs(u, b, a, t), a, r, late)
    BY Zenon DEF NewBid
  <1>2. ActiveOf(u) = {} /\ RemainingSupply > 0 /\ MeetsDynamicMinBid(a)
    BY DEF NewBid, AcceptsBids
  <1>3. Placed(u, b, NewDocs(u, b, a, t), a)
    BY <1>1, <1>2, NewBidPlaces
  <1>4. NewDocs(u, b, a, t)[b].amount = a
    BY DEF NewDocs, IInv, TypeOK
  <1>5. QED
    BY <1>1, <1>2, <1>3, <1>4, Zenon DEF BidStep

LEMMA RaiseBidIsBidStep ==
  ASSUME IInv, NEW u \in Users, NEW a \in Amounts, NEW t \in Times, NEW r, NEW late,
         RaiseBid(u, a, t, r, late)
  PROVE  \E b, docs : BidStep(u, b, docs, a)
  <1>1. PICK b \in ActiveOf(u) : /\ MeetsDynamicMinBid(bids[b].amount + a)
                                 /\ CommitBid(u, b, RaisedDocs(b, a, t), a, r, late)
    BY Zenon DEF RaiseBid
  <1>2. RemainingSupply > 0
    BY DEF RaiseBid, AcceptsBids
  <1>3. Placed(u, b, RaisedDocs(b, a, t), a)
    BY RaisePlaces
  <1>4. RaisedDocs(b, a, t)[b].amount = bids[b].amount + a
    <2>1. bids \in [BidIds -> Bid] /\ b \in BidIds /\ bids[b] \in Bid
      BY DEF IInv, TypeOK, ActiveOf, Active, ActiveIn
    <2>2. RaisedDocs(b, a, t)[b] = [bids[b] EXCEPT !.amount = bids[b].amount + a, !.at = t]
      BY <2>1 DEF RaisedDocs
    <2>3. QED
      BY <2>1, <2>2 DEF Bid
  <1>5. QED
    BY <1>1, <1>2, <1>3, <1>4, Zenon DEF BidStep

\* The bid that a transaction accepts is active after it: the price check and the
\* displacement rule agree, for every supply, schedule and tie.
THEOREM AcceptedStays == Spec => AcceptedBidStays
  <1>1. IInv /\ [Next]_vars =>
          [\A b \in BidIds : bids'[b].amount # bids[b].amount => bids'[b].status = "active"]_vars
    <2> SUFFICES ASSUME IInv, [Next]_vars
                 PROVE  \/ \A b \in BidIds :
                             bids'[b].amount # bids[b].amount => bids'[b].status = "active"
                        \/ UNCHANGED vars
      OBVIOUS
    <2>1. ASSUME NEW u \in Users, NEW b, NEW docs, NEW cost, BidStep(u, b, docs, cost)
          PROVE  \A c \in BidIds : bids'[c].amount # bids[c].amount => bids'[c].status = "active"
      BY <2>1, CommitBidEffect, Zenon DEF BidStep
    <2>2. ASSUME NEW u \in Users, NEW a \in Amounts, NEW t \in Times, NEW r, NEW late,
                 NewBid(u, a, t, r, late) \/ RaiseBid(u, a, t, r, late)
          PROVE  \A c \in BidIds : bids'[c].amount # bids[c].amount => bids'[c].status = "active"
      BY <2>1, <2>2, NewBidIsBidStep, RaiseBidIsBidStep, Zenon
    <2>3. ASSUME NEW r \in 1..TotalRounds, CompleteRound(r)
          PROVE  \A c \in BidIds : bids'[c].amount = bids[c].amount
      BY <2>3, CompletionEffect, Zenon
    <2>4. CASE UNCHANGED bids
      BY <2>4
    <2>5. QED
      BY <2>2, <2>3, <2>4 DEF Next, Start, OpenFirstRound, Deposit, Withdraw
  <1>2. QED
    BY <1>1, InvariantHolds, PTL DEF Spec, AcceptedBidStays

\* Every step moves money as the escrow allows: from a bidder's balance into what that
\* bidder's bid holds, from there back to the balance or, for a gift, out.
THEOREM EscrowRefinement == Spec => EscrowImplemented
  <1> DEFINE held == [u \in Users |-> Held(u)]
             paid == [u \in Users |-> ledger[u].charge]
  <1>1. Init => Esc!Init
    <2> SUFFICES ASSUME Init PROVE Esc!Init
      OBVIOUS
    <2>1. \A u \in Users : Held(u) = 0
      BY DEF Init, NoDocument, Held, ActiveOf, Active, ActiveIn
    <2>2. \A u \in Users : ledger[u].charge = 0
      BY DEF Init
    <2>3. held = [u \in Users |-> 0] /\ paid = [u \in Users |-> 0]
      BY <2>1, <2>2
    <2>4. QED
      BY <2>3 DEF Init, Esc!Init
  <1>2. IInv /\ [Next]_vars => [Esc!Next]_(Esc!vars)
    <2> SUFFICES ASSUME IInv, [Next]_vars PROVE Esc!Next \/ UNCHANGED Esc!vars
      OBVIOUS
    <2>0. /\ balance \in [Users -> Nat] /\ balance' \in [Users -> Nat]
          /\ ledger \in [Users -> Sums] /\ ledger' \in [Users -> Sums]
      BY NextInv DEF IInv, TypeOK
    <2>1. /\ \A v \in Users : held[v] = Held(v) /\ held'[v] = Held(v)'
          /\ \A v \in Users : paid[v] = ledger[v].charge /\ paid'[v] = ledger'[v].charge
          /\ held = [v \in Users |-> held[v]] /\ held' = [v \in Users |-> held'[v]]
          /\ paid = [v \in Users |-> paid[v]] /\ paid' = [v \in Users |-> paid'[v]]
      OBVIOUS
    <2>2. ASSUME UNCHANGED <<bids, balance, ledger>> PROVE UNCHANGED Esc!vars
      BY <2>2 DEF Esc!vars, Held, ActiveOf, Active, ActiveIn
    <2>3. ASSUME NEW u \in Users, NEW a \in Amounts, NEW b, NEW docs, BidStep(u, b, docs, a)
          PROVE  Esc!Next
      <3>1. PICK outbid \in SUBSET Users :
              /\ u \notin outbid
              /\ balance[u] >= a
              /\ \A v \in Users :
                  /\ ledger'[v].charge = ledger[v].charge
                  /\ v = u => balance'[v] = balance[v] - a /\ Held(v)' = Held(v) + a
                  /\ v \in outbid => balance'[v] = balance[v] + Held(v) /\ Held(v)' = 0
                  /\ v # u /\ v \notin outbid => balance'[v] = balance[v] /\ Held(v)' = Held(v)
        <4>1. PICK r, late : CommitBid(u, b, docs, a, r, late)
          BY <2>3, Zenon DEF BidStep
        <4>2. /\ Placed(u, b, docs, a) /\ RemainingSupply > 0
              /\ MeetsDynamicMinBid(docs[b].amount)
          BY <2>3, Zenon DEF BidStep
        <4>3. QED
          BY <4>1, <4>2, CommitBidEffect
      <3>2. outbid \ {u} = outbid
        BY <3>1
      <3> HIDE DEF held, paid
      <3>3. balance' = [v \in Users |-> IF v = u THEN balance[v] - a
                                        ELSE IF v \in outbid THEN balance[v] + held[v]
                                        ELSE balance[v]]
        BY <2>0, <2>1, <3>1
      <3>4. held' = [v \in Users |-> IF v = u THEN held[v] + a
                                     ELSE IF v \in outbid THEN 0 ELSE held[v]]
        BY <2>1, <3>1
      <3>5. paid' = paid
        BY <2>1, <3>1
      <3> USE DEF held, paid
      <3>6. Esc!Bid(u, a, outbid)
        BY <3>1, <3>3, <3>4, <3>5 DEF Esc!Bid
      <3>7. QED
        BY <3>2, <3>6 DEF Esc!Next
    <2>4. ASSUME NEW r \in 1..TotalRounds, CompleteRound(r) PROVE Esc!Next
      <3>1. PICK winning \in SUBSET Users, losing \in SUBSET Users :
              /\ winning \cap losing = {}
              /\ \A v \in Users :
                  /\ v \in winning => /\ balance'[v] = balance[v]
                                      /\ ledger'[v].charge = ledger[v].charge + Held(v)
                                      /\ Held(v)' = 0
                  /\ v \in losing => /\ balance'[v] = balance[v] + Held(v)
                                     /\ ledger'[v].charge = ledger[v].charge
                                     /\ Held(v)' = 0
                  /\ v \notin winning \union losing => /\ balance'[v] = balance[v]
                                                      /\ ledger'[v].charge = ledger[v].charge
                                                      /\ Held(v)' = Held(v)
        BY <2>4, CompletionEffect, Zenon
      <3> HIDE DEF held, paid
      <3>2. balance' = [v \in Users |-> IF v \in losing THEN balance[v] + held[v] ELSE balance[v]]
        BY <2>0, <2>1, <3>1
      <3>3. paid' = [v \in Users |-> IF v \in winning THEN paid[v] + held[v] ELSE paid[v]]
        BY <2>1, <3>1
      <3>4. held' = [v \in Users |-> IF v \in winning \union losing THEN 0 ELSE held[v]]
        BY <2>1, <3>1
      <3> USE DEF held, paid
      <3>5. Esc!Settle(winning, losing)
        BY <3>1, <3>2, <3>3, <3>4 DEF Esc!Settle
      <3>6. QED
        BY <3>5 DEF Esc!Next
    <2>5. ASSUME NEW u \in Users, NEW a \in Amounts, Deposit(u, a) \/ Withdraw(u, a)
          PROVE  Esc!Next
      <3>1. UNCHANGED bids
        BY <2>5 DEF Deposit, Withdraw
      <3>2. \A v \in Users : Held(v)' = Held(v)
        BY <3>1 DEF Held, ActiveOf, Active, ActiveIn
      <3>3. \A v \in Users : ledger'[v].charge = ledger[v].charge
        BY <2>0, <2>5 DEF Deposit, Withdraw, Sums
      <3>4. held' = held /\ paid' = paid
        BY <3>2, <3>3
      <3>5. Esc!Fund(u, a) \/ Esc!Spend(u, a)
        BY <2>5, <3>4 DEF Deposit, Withdraw, Esc!Fund, Esc!Spend
      <3>6. QED
        BY <3>5 DEF Esc!Next
    <2>6. ASSUME NEW u \in Users, NEW a \in Amounts, NEW t \in Times, NEW r, NEW late,
                 NewBid(u, a, t, r, late) \/ RaiseBid(u, a, t, r, late)
          PROVE  Esc!Next
      BY <2>3, <2>6, NewBidIsBidStep, RaiseBidIsBidStep, Zenon
    <2>7. CASE Start \/ OpenFirstRound \/ UNCHANGED vars
      BY <2>2, <2>7 DEF Start, OpenFirstRound, vars
    <2>8. QED
      BY <2>4, <2>5, <2>6, <2>7 DEF Next
  <1>3. QED
    BY <1>1, <1>2, InvariantHolds, PTL DEF Spec, EscrowImplemented, Esc!Spec


-----------------------------------------------------------------------------
(* The five kinds of steps. *)

\* A bid transaction, new bid or raise: bid b is written (docs is the collection then) with
\* an amount that is high enough, and the active bids that no gift is left for, displaced.
Placement(b, docs, displaced) ==
    /\ status = "active" /\ RemainingSupply > 0
    /\ b \in BidIds /\ docs \in [BidIds -> Bid] /\ displaced \subseteq ActiveIn(docs)
    /\ docs[b].status = "active" /\ MeetsDynamicMinBid(docs[b].amount)
    /\ \/ bids[b].status = "none"
       \/ bids[b].status = "active" /\ docs[b].amount >= bids[b].amount
    /\ \A c \in BidIds \ {b} : docs[c] = bids[c]
    /\ (ActiveIn(docs) \ displaced) \in FirstOf(docs, ActiveIn(docs), RemainingSupply)
    /\ bids' = Refunded(docs, displaced, currentRound)
    /\ \E r \in 1..TotalRounds : rounds' \in {rounds, [rounds EXCEPT ![r].extensions = 1]}
    /\ UNCHANGED <<status, currentRound, distributed>>

MoneyMoves == UNCHANGED <<status, currentRound, distributed, rounds, bids>>

LEMMA CommitPlaces ==
  ASSUME NEW u, NEW b \in BidIds, NEW docs \in [BidIds -> Bid], NEW cost,
         NEW r \in 1..TotalRounds, NEW late, AcceptsBids(r),
         docs[b].status = "active", MeetsDynamicMinBid(docs[b].amount),
         \/ bids[b].status = "none"
         \/ bids[b].status = "active" /\ docs[b].amount >= bids[b].amount,
         \A c \in BidIds \ {b} : docs[c] = bids[c],
         CommitBid(u, b, docs, cost, r, late)
  PROVE  \E displaced : Placement(b, docs, displaced)
  <1>1. PICK displaced \in SUBSET ActiveIn(docs) :
          /\ (ActiveIn(docs) \ displaced) \in FirstOf(docs, ActiveIn(docs), RemainingSupply)
          /\ Place(u, b, docs, cost, displaced)
    BY CommitBidWrites, Zenon
  <1>2. /\ rounds' \in {rounds, [rounds EXCEPT ![r].extensions = 1]}
        /\ UNCHANGED <<status, currentRound, distributed>>
    BY CommitBidWrites, Zenon
  <1>3. bids' = Refunded(docs, displaced, currentRound)
    BY <1>1, Zenon DEF Place
  <1>4. status = "active" /\ RemainingSupply > 0
    BY DEF AcceptsBids
  <1>5. Placement(b, docs, displaced)
    BY <1>1, <1>2, <1>3, <1>4, Zenon DEF Placement
  <1>6. QED
    BY <1>5

\* Every step is one of these: what deposits and withdrawals do does not matter here.
LEMMA StepKinds ==
  ASSUME TypeOK, [Next]_vars
  PROVE  \/ Start \/ OpenFirstRound
         \/ \E r \in 1..TotalRounds : CompleteRound(r)
         \/ \E b, docs, displaced : Placement(b, docs, displaced)
         \/ MoneyMoves
  <1>1. ASSUME NEW u \in Users, NEW a \in Amounts, NEW t \in Times,
               NEW r \in 1..TotalRounds, NEW late, NewBid(u, a, t, r, late)
        PROVE  \E b, docs, displaced : Placement(b, docs, displaced)
    <2>1. PICK b \in BidIds : /\ bids[b].status = "none"
                              /\ CommitBid(u, b, NewDocs(u, b, a, t), a, r, late)
      BY <1>1, Zenon DEF NewBid
    <2>2. AcceptsBids(r) /\ MeetsDynamicMinBid(a)
      BY <1>1, Zenon DEF NewBid
    <2>3. NewDocs(u, b, a, t) \in [BidIds -> Bid]
      BY PriceAssumption, SupplyAssumption DEF NewDocs, TypeOK, Bid, BidStatus
    <2>4. /\ NewDocs(u, b, a, t)[b] = [user |-> u, amount |-> a, at |-> t, status |-> "active",
                                       gift |-> 0, won |-> 0, closed |-> 0]
          /\ \A c \in BidIds \ {b} : NewDocs(u, b, a, t)[c] = bids[c]
      BY DEF NewDocs, TypeOK
    <2>5. NewDocs(u, b, a, t)[b].status = "active" /\ NewDocs(u, b, a, t)[b].amount = a
      BY <2>4
    <2>6. \E displaced : Placement(b, NewDocs(u, b, a, t), displaced)
      BY <2>1, <2>2, <2>3, <2>4, <2>5, CommitPlaces
    <2>7. QED
      BY <2>6
  <1>2. ASSUME NEW u \in Users, NEW a \in Amounts, NEW t \in Times,
               NEW r \in 1..TotalRounds, NEW late, RaiseBid(u, a, t, r, late)
        PROVE  \E b, docs, displaced : Placement(b, docs, displaced)
    <2>1. PICK b \in ActiveOf(u) : /\ MeetsDynamicMinBid(bids[b].amount + a)
                                   /\ CommitBid(u, b, RaisedDocs(b, a, t), a, r, late)
      BY <1>2, Zenon DEF RaiseBid
    <2>2. AcceptsBids(r)
      BY <1>2, Zenon DEF RaiseBid
    <2>3. /\ b \in BidIds /\ bids[b].status = "active" /\ bids[b] \in Bid /\ bids[b].amount \in Nat
          /\ a \in Nat /\ bids \in [BidIds -> Bid]
      BY PriceAssumption DEF ActiveOf, Active, ActiveIn, TypeOK, Bid
    <2>4. RaisedDocs(b, a, t) \in [BidIds -> Bid]
      BY <2>3, RaisedType
    <2>5. /\ RaisedDocs(b, a, t)[b] = [bids[b] EXCEPT !.amount = bids[b].amount + a, !.at = t]
          /\ \A c \in BidIds \ {b} : RaisedDocs(b, a, t)[c] = bids[c]
      BY <2>3 DEF RaisedDocs
    <2>6. /\ RaisedDocs(b, a, t)[b].amount = bids[b].amount + a
          /\ RaisedDocs(b, a, t)[b].status = "active"
      BY <2>3, <2>5 DEF Bid
    <2>7. RaisedDocs(b, a, t)[b].amount >= bids[b].amount
      BY <2>3, <2>6
    <2>8. \E displaced : Placement(b, RaisedDocs(b, a, t), displaced)
      BY <2>1, <2>2, <2>3, <2>4, <2>5, <2>6, <2>7, CommitPlaces
    <2>9. QED
      BY <2>8
  <1>3. ASSUME NEW u \in Users, NEW a \in Amounts, Deposit(u, a) \/ Withdraw(u, a)
        PROVE  MoneyMoves
    BY <1>3 DEF Deposit, Withdraw, MoneyMoves
  <1>4. CASE UNCHANGED vars
    BY <1>4 DEF vars, MoneyMoves
  <1>5. QED
    BY <1>1, <1>2, <1>3, <1>4, Zenon DEF Next

-----------------------------------------------------------------------------
(* Rounds. *)

\* The current round is none exactly in a draft.  Gifts are left while the auction runs.
SeqInv ==
    /\ RoundsInSequence
    /\ currentRound = 0 <=> status = "draft"
    /\ status # "completed" => distributed < TotalSupply

\* An auction has a gift to give.
LEMMA SupplyPositive == TotalSupply > 0
  <1>1. \A m, n \in Nat \ {0} : m * n > 0
    BY SMT
  <1>2. QED
    BY <1>1, SupplyAssumption DEF TotalSupply

\* A round that is open is the current one.
LEMMA OpenIsCurrent ==
  ASSUME TypeOK, SeqInv, NEW r \in 1..TotalRounds, rounds[r].status = "active"
  PROVE  r = currentRound /\ status = "active"
  BY DEF TypeOK, SeqInv, RoundsInSequence

\* Nothing stays active when the auction ends.
LEMMA NothingKept ==
  ASSUME NEW S \in SUBSET BidIds, NEW T \in FirstOf(bids, S, 0)
  PROVE  T = {}
  <1>1. Cardinality(T) = 0 /\ T \in SUBSET BidIds
    BY BidSets DEF FirstOf
  <1>2. QED
    BY <1>1, BidSets, FS_EmptySet

LEMMA CompletionInSequence ==
  ASSUME TypeOK, TypeOK', SeqInv, NEW r \in 1..TotalRounds, CompleteRound(r)
  PROVE  SeqInv'
  <1>1. /\ rounds[r].status = "active"
        /\ distributed' = DistributedAfter(r)
        /\ status' = IF EndsAuction(r) THEN "completed" ELSE status
        /\ currentRound' = IF EndsAuction(r) THEN currentRound ELSE r + 1
        /\ rounds' = [n \in 1..TotalRounds |->
              IF n = r THEN [rounds[n] EXCEPT !.status = "completed"]
              ELSE IF ~EndsAuction(r) /\ n = r + 1 THEN [status |-> "active", extensions |-> 0]
              ELSE rounds[n]]
    BY Zenon DEF CompleteRound
  <1>2. r = currentRound /\ status = "active"
    BY <1>1, OpenIsCurrent
  <1>3. /\ rounds'[r].status = "completed"
        /\ \A n \in 1..TotalRounds \ {r} :
              rounds'[n] = IF ~EndsAuction(r) /\ n = r + 1
                           THEN [status |-> "active", extensions |-> 0] ELSE rounds[n]
    BY <1>1 DEF TypeOK, Round
  <1>4. CASE EndsAuction(r)
    <2>1. Active' = {}
      <3>1. PICK winners, kept : /\ kept \in FirstOf(bids, Active \ winners, 0)
                                 /\ Active' = kept
        BY <1>4, ActiveAfterCompletion, Zenon
      <3>2. Active \ winners \in SUBSET BidIds
        BY DEF Active, ActiveIn
      <3>3. QED
        BY <3>1, <3>2, NothingKept
    <2>2. currentRound' = r /\ status' = "completed"
      BY <1>1, <1>2, <1>4
    <2>3. QED
      BY <1>2, <1>3, <1>4, <2>1, <2>2 DEF SeqInv, RoundsInSequence, TypeOK
  <1>5. CASE ~EndsAuction(r)
    <2>1. currentRound' = r + 1 /\ status' = "active"
      BY <1>1, <1>2, <1>5
    <2>2. DistributedAfter(r) < TotalSupply
      BY <1>5, BurnedType, SupplyType DEF EndsAuction
    <2>3. \A n \in 1..TotalRounds :
            /\ n < r + 1 => rounds'[n].status = "completed"
            /\ n > r + 1 => rounds'[n].status = "none"
      BY <1>2, <1>3 DEF SeqInv, RoundsInSequence, TypeOK
    <2>4. QED
      BY <1>1, <2>1, <2>2, <2>3 DEF SeqInv, RoundsInSequence
  <1>6. QED
    BY <1>4, <1>5

\* Writing to a round whether it was extended changes no round's status.
LEMMA PlacementKeepsRounds ==
  ASSUME TypeOK, NEW b, NEW docs, NEW displaced, Placement(b, docs, displaced)
  PROVE  \A n \in 1..TotalRounds : rounds'[n].status = rounds[n].status
  <1>1. PICK r \in 1..TotalRounds : rounds' \in {rounds, [rounds EXCEPT ![r].extensions = 1]}
    BY Zenon DEF Placement
  <1>2. rounds \in [1..TotalRounds -> Round]
    BY DEF TypeOK
  <1>3. ASSUME NEW n \in 1..TotalRounds, rounds' = [rounds EXCEPT ![r].extensions = 1]
        PROVE  rounds'[n].status = rounds[n].status
    <2>1. rounds[r] \in Round
      BY <1>2
    <2>2. [rounds[r] EXCEPT !.extensions = 1].status = rounds[r].status
      BY <2>1 DEF Round
    <2>3. QED
      BY <1>2, <1>3, <2>2
  <1>4. QED
    BY <1>1, <1>3

LEMMA SequenceKept == TypeOK /\ SeqInv /\ [Next]_vars => SeqInv'
  <1> SUFFICES ASSUME TypeOK, SeqInv, [Next]_vars PROVE SeqInv'
    OBVIOUS
  <1>1. TypeOK'
    BY TypeKept
  <1>2. CASE Start
    <2>1. /\ status = "draft" /\ status' = "active" /\ currentRound' = 1
          /\ rounds' = rounds /\ distributed' = distributed
      BY <1>2 DEF Start
    <2>2. QED
      BY <2>1 DEF SeqInv, RoundsInSequence, TypeOK
  <1>3. CASE OpenFirstRound
    BY <1>3 DEF OpenFirstRound, SeqInv, RoundsInSequence, TypeOK
  <1>4. ASSUME NEW r \in 1..TotalRounds, CompleteRound(r) PROVE SeqInv'
    BY <1>1, <1>4, CompletionInSequence
  <1>5. ASSUME NEW b, NEW docs, NEW displaced, Placement(b, docs, displaced) PROVE SeqInv'
    <2>1. UNCHANGED <<status, currentRound, distributed>> /\ status = "active"
      BY <1>5, Zenon DEF Placement
    <2>2. \A n \in 1..TotalRounds : rounds'[n].status = rounds[n].status
      BY <1>5, PlacementKeepsRounds
    <2>3. QED
      BY <2>1, <2>2 DEF SeqInv, RoundsInSequence
  <1>6. CASE MoneyMoves
    BY <1>6 DEF MoneyMoves, SeqInv, RoundsInSequence, Active, ActiveIn
  <1>7. QED
    BY <1>2, <1>3, <1>4, <1>5, <1>6, StepKinds

LEMMA SequenceAtStart == Init => SeqInv
  BY SupplyPositive DEF Init, SeqInv, RoundsInSequence

\* Rounds are opened one after the other, each when the one before is completed, and a
\* completed auction has no open round and no active bid.
THEOREM RoundsOrdered == Spec => []RoundsInSequence
  <1>1. SeqInv => RoundsInSequence
    BY DEF SeqInv
  <1>2. QED
    BY <1>1, SequenceAtStart, SequenceKept, TypeCorrect, PTL DEF Spec

-----------------------------------------------------------------------------
(* Gifts. *)

\* A gift was won in a round that is completed.
GiftInv ==
    /\ GiftsNumbered
    /\ \A b \in BidIds : bids[b].status = "won" =>
          bids[b].won \in 1..TotalRounds /\ rounds[bids[b].won].status = "completed"

\* What a completion writes into the documents.
LEMMA SettlementWrites ==
  ASSUME TypeOK, NEW r \in 1..TotalRounds, NEW winners \in SUBSET Active,
         NEW losers \in SUBSET (Active \ winners), NEW pos,
         bids' = Refunded(Won(bids, winners, pos, r), losers, r)
  PROVE  /\ \A c \in winners : /\ bids'[c].status = "won" /\ bids'[c].won = r
                               /\ bids'[c].gift = distributed + pos[c]
                               /\ bids'[c].amount = bids[c].amount
         /\ \A c \in losers : /\ bids'[c].status = "refunded" /\ bids'[c].closed = r
                              /\ bids'[c].amount = bids[c].amount
         /\ \A c \in BidIds : c \notin winners /\ c \notin losers => bids'[c] = bids[c]
  <1>1. winners \in SUBSET BidIds /\ losers \in SUBSET BidIds /\ bids \in [BidIds -> Bid]
    BY DEF Active, ActiveIn, TypeOK
  <1>2. PICK won : won = Won(bids, winners, pos, r)
    OBVIOUS
  <1>3. ASSUME NEW c \in winners
        PROVE  /\ bids'[c].status = "won" /\ bids'[c].won = r
               /\ bids'[c].gift = distributed + pos[c]
               /\ bids'[c].amount = bids[c].amount
    <2>1. bids[c] \in Bid /\ won[c] = [bids[c] EXCEPT !.status = "won", !.won = r,
                                                     !.gift = distributed + pos[c]]
      BY <1>1, <1>2 DEF Won
    <2>2. c \in BidIds /\ c \notin losers
      BY <1>1
    <2>3. bids'[c] = won[c]
      BY <1>2, <2>2 DEF Refunded
    <2>4. QED
      BY <2>1, <2>3 DEF Bid
  <1>4. ASSUME NEW c \in losers
        PROVE  /\ bids'[c].status = "refunded" /\ bids'[c].closed = r
               /\ bids'[c].amount = bids[c].amount
    <2>1. c \in BidIds /\ c \notin winners /\ bids[c] \in Bid
      BY <1>1
    <2>2. won[c] = bids[c]
      BY <1>2, <2>1 DEF Won
    <2>3. bids'[c] = [won[c] EXCEPT !.status = "refunded", !.closed = r]
      BY <1>2, <2>1 DEF Refunded
    <2>4. QED
      BY <2>1, <2>2, <2>3 DEF Bid
  <1>5. ASSUME NEW c \in BidIds, c \notin winners, c \notin losers PROVE bids'[c] = bids[c]
    BY <1>5 DEF Refunded, Won
  <1>6. QED
    BY <1>3, <1>4, <1>5

LEMMA DistinctSums ==
  ASSUME NEW d \in Nat, NEW x \in Nat, NEW y \in Nat, x # y
  PROVE  d + x # d + y
  OBVIOUS

LEMMA CompletionNumbers ==
  ASSUME TypeOK, TypeOK', SeqInv, GiftInv, NEW r \in 1..TotalRounds, CompleteRound(r)
  PROVE  GiftInv'
  <1>1. PICK winners, kept, pos :
            /\ winners \in FirstOf(bids, Active, Burned(r)) /\ pos \in Positions(bids, winners)
            /\ bids' = Refunded(Won(bids, winners, pos, r), (Active \ winners) \ kept, r)
            /\ winners \subseteq Active
    BY ActiveAfterCompletion, Zenon
  <1> DEFINE losers == (Active \ winners) \ kept
  <1>2. /\ losers \in SUBSET (Active \ winners) /\ winners \in SUBSET Active
        /\ bids' = Refunded(Won(bids, winners, pos, r), losers, r)
    BY <1>1
  <1> HIDE DEF losers
  <1>3. /\ \A c \in winners : /\ bids'[c].status = "won" /\ bids'[c].won = r
                              /\ bids'[c].gift = distributed + pos[c]
        /\ \A c \in losers : bids'[c].status = "refunded"
        /\ \A c \in BidIds : c \notin winners /\ c \notin losers => bids'[c] = bids[c]
    BY <1>2, SettlementWrites
  <1>4. winners \in SUBSET BidIds /\ Active \in SUBSET BidIds
    BY <1>1 DEF Active, ActiveIn
  <1>5. Burned(r) \in Nat /\ distributed \in Nat /\ distributed' = distributed + Burned(r)
    BY BurnedType, SupplyType DEF CompleteRound, DistributedAfter, TypeOK
  <1>6. \A c \in winners : pos[c] \in 1..Burned(r)
    <2>1. Cardinality(winners) \in Nat /\ Cardinality(winners) <= Burned(r)
      BY <1>1, <1>4, <1>5, FirstOfBounded
    <2>2. \A c \in winners : pos[c] \in 1..Cardinality(winners)
      BY <1>1 DEF Positions
    <2>3. QED
      BY <1>5, <2>1, <2>2
  <1>7. \A b, c \in winners : b # c => pos[b] # pos[c]
    BY <1>1 DEF Positions
  <1>8. rounds[r].status = "active" /\ rounds'[r].status = "completed"
    BY DEF CompleteRound, TypeOK, Round
  <1>9. \A n \in 1..TotalRounds : rounds[n].status = "completed" =>
            n < r /\ rounds'[n].status = "completed"
    <2>1. \A n \in 1..TotalRounds : rounds[n].status = "completed" => n < r
      BY <1>8, OpenIsCurrent DEF SeqInv, RoundsInSequence, TypeOK
    <2>2. \A n \in 1..TotalRounds : n < r => rounds'[n] = rounds[n]
      BY DEF CompleteRound
    <2>3. QED
      BY <2>1, <2>2
  <1>10. ASSUME NEW b \in BidIds, bids'[b].status = "won", b \notin winners
         PROVE  bids'[b] = bids[b] /\ bids[b].status = "won"
    BY <1>3, <1>10
  <1>11. ASSUME NEW b \in BidIds, bids[b].status = "won"
         PROVE  /\ bids[b].gift \in 1..distributed
                /\ bids[b].won \in 1..TotalRounds /\ bids[b].won < r
                /\ rounds'[bids[b].won].status = "completed"
    BY <1>9, <1>11 DEF GiftInv, GiftsNumbered
  <1>12. ASSUME NEW b \in BidIds, bids'[b].status = "won"
         PROVE  /\ bids'[b].gift \in 1..distributed'
                /\ bids'[b].won \in 1..TotalRounds
                /\ rounds'[bids'[b].won].status = "completed"
    <2>1. CASE b \in winners
      BY <1>3, <1>5, <1>6, <1>8, <2>1
    <2>2. CASE b \notin winners
      BY <1>5, <1>10, <1>11, <1>12, <2>2
    <2>3. QED
      BY <2>1, <2>2
  <1>13. \A b \in winners : bids'[b].gift \in Nat /\ bids'[b].gift > distributed /\ bids'[b].won = r
    BY <1>3, <1>5, <1>6
  <1>14. \A b \in BidIds : bids'[b].status = "won" /\ b \notin winners =>
            bids'[b].gift \in 1..distributed /\ bids'[b].won \in 1..TotalRounds /\ bids'[b].won < r
    BY <1>10, <1>11
  <1>15. ASSUME NEW b \in BidIds, NEW c \in BidIds,
                bids'[b].status = "won", bids'[c].status = "won"
         PROVE  /\ b # c => bids'[b].gift # bids'[c].gift
                /\ bids'[b].won < bids'[c].won => bids'[b].gift < bids'[c].gift
    <2>1. CASE b \in winners /\ c \in winners
      <3>1. bids'[b].won = r /\ bids'[c].won = r /\ r \in Nat
        BY <1>3, <2>1, SupplyAssumption
      <3>2. /\ bids'[b].gift = distributed + pos[b] /\ bids'[c].gift = distributed + pos[c]
            /\ pos[b] \in Nat /\ pos[c] \in Nat
            /\ b # c => pos[b] # pos[c]
        BY <1>3, <1>5, <1>6, <1>7, <2>1
      <3>3. ~(bids'[b].won < bids'[c].won)
        BY <3>1
      <3>4. ASSUME b # c
            PROVE  bids'[b].gift # bids'[c].gift
        <4>1. distributed \in Nat
          BY <1>5
        <4>2. pos[b] \in Nat /\ pos[c] \in Nat /\ pos[b] # pos[c]
          BY <3>2, <3>4
        <4>3. distributed + pos[b] # distributed + pos[c]
          BY <4>1, <4>2, DistinctSums, Zenon
        <4>4. QED
          BY <3>2, <4>3, Zenon
      <3>5. QED
        BY <3>3, <3>4
    <2>2. CASE b \in winners /\ c \notin winners
      BY <1>5, <1>13, <1>14, <1>15, <2>2
    <2>3. CASE b \notin winners /\ c \in winners
      BY <1>5, <1>13, <1>14, <1>15, <2>3
    <2>4. CASE b \notin winners /\ c \notin winners
      BY <1>10, <1>15, <2>4 DEF GiftInv, GiftsNumbered
    <2>5. QED
      BY <2>1, <2>2, <2>3, <2>4
  <1>16. QED
    BY <1>12, <1>15 DEF GiftInv, GiftsNumbered

\* A bid transaction leaves the bids that have won as they are, and adds none.
LEMMA PlacementKeepsWinners ==
  ASSUME TypeOK, NEW b, NEW docs, NEW displaced, Placement(b, docs, displaced)
  PROVE  \A c \in BidIds : bids[c].status = "won" \/ bids'[c].status = "won" => bids'[c] = bids[c]
  <1>1. /\ docs \in [BidIds -> Bid] /\ displaced \subseteq ActiveIn(docs)
        /\ docs[b].status = "active" /\ bids[b].status # "won"
        /\ \A c \in BidIds \ {b} : docs[c] = bids[c]
        /\ bids' = Refunded(docs, displaced, currentRound)
    BY Zenon DEF Placement
  <1>2. \A c \in displaced : docs[c].status = "active" /\ bids'[c].status = "refunded"
    BY <1>1 DEF Refunded, ActiveIn, Bid
  <1>3. \A c \in BidIds \ displaced : bids'[c] = docs[c]
    BY <1>1 DEF Refunded
  <1>4. QED
    BY <1>1, <1>2, <1>3

LEMMA NumbersKept == TypeOK /\ SeqInv /\ GiftInv /\ [Next]_vars => GiftInv'
  <1> SUFFICES ASSUME TypeOK, SeqInv, GiftInv, [Next]_vars PROVE GiftInv'
    OBVIOUS
  <1>1. TypeOK'
    BY TypeKept
  <1>2. CASE Start
    BY <1>2 DEF Start, GiftInv, GiftsNumbered
  <1>3. CASE OpenFirstRound
    BY <1>3 DEF OpenFirstRound, GiftInv, GiftsNumbered, TypeOK
  <1>4. ASSUME NEW r \in 1..TotalRounds, CompleteRound(r) PROVE GiftInv'
    BY <1>1, <1>4, CompletionNumbers
  <1>5. ASSUME NEW b, NEW docs, NEW displaced, Placement(b, docs, displaced) PROVE GiftInv'
    <2>1. UNCHANGED distributed
      BY <1>5, Zenon DEF Placement
    <2>2. \A n \in 1..TotalRounds : rounds'[n].status = rounds[n].status
      BY <1>5, PlacementKeepsRounds
    <2>3. \A c \in BidIds : bids'[c].status = "won" => bids[c].status = "won" /\ bids'[c] = bids[c]
      BY <1>5, PlacementKeepsWinners
    <2>4. QED
      BY <2>1, <2>2, <2>3 DEF GiftInv, GiftsNumbered
  <1>6. CASE MoneyMoves
    BY <1>6 DEF MoneyMoves, GiftInv, GiftsNumbered
  <1>7. QED
    BY <1>2, <1>3, <1>4, <1>5, <1>6, StepKinds

LEMMA NumbersAtStart == Init => GiftInv
  BY DEF Init, GiftInv, GiftsNumbered, NoDocument

\* No two bids win the same gift, and gifts are numbered in the order of the rounds that
\* gave them away, up to the number that the auction says are distributed.
THEOREM GiftsDistinct == Spec => []GiftsNumbered
  <1>1. GiftInv => GiftsNumbered
    BY DEF GiftInv
  <1>2. QED
    BY <1>1, SequenceAtStart, SequenceKept, NumbersAtStart, NumbersKept, TypeCorrect, PTL DEF Spec

-----------------------------------------------------------------------------
(* Ranking.  That nobody is turned away for a lower bid is not inductive alone: while  *)
(* bids compete, a refunded bid must be known to be at most the cutoff, so that the    *)
(* gifts are sold out at its price for good.                                           *)

\* An amount that was refunded is no longer enough for a gift.
Beaten ==
    status = "active" =>
        \A b \in BidIds : bids[b].status = "refunded" =>
            SoldOut /\ \A c \in Active : bids[c].amount >= bids[b].amount

Floor == \A b \in Active : bids[b].amount >= MinBid

\* The current round of a running auction is open, or about to be.
CurrentOpen == status = "active" => /\ currentRound \in 1..TotalRounds
                                    /\ rounds[currentRound].status # "completed"

DraftEmpty == status = "draft" => \A b \in BidIds : bids[b].status = "none"

RankInv == NoBetterBidTurnedAway /\ Beaten /\ Floor /\ CurrentOpen /\ DraftEmpty

\* What sort(...).limit(n) leaves out is no better than what it returns, and it leaves
\* something out only if it returns n bids.
LEMMA FirstOfRanks ==
  ASSUME NEW docs \in [BidIds -> Bid], NEW S \in SUBSET BidIds, NEW n \in Nat,
         NEW T \in FirstOf(docs, S, n)
  PROVE  /\ T \in SUBSET S
         /\ Cardinality(T) \in Nat /\ Cardinality(S) \in Nat
         /\ Cardinality(S) >= n => Cardinality(T) = n
         /\ S # T => Cardinality(S) >= n
         /\ \A b \in T, c \in S \ T : docs[b].amount >= docs[c].amount
  <1>1. /\ T \in SUBSET S
        /\ Cardinality(T) = IF Cardinality(S) <= n THEN Cardinality(S) ELSE n
        /\ \A b \in T, c \in S \ T : ~Outranks(docs, c, b)
    BY DEF FirstOf
  <1>2. Cardinality(S) \in Nat /\ IsFiniteSet(S) /\ Cardinality(T) \in Nat
    BY <1>1, BidSets
  <1>3. S # T => Cardinality(T) < Cardinality(S)
    BY <1>1, <1>2, FS_Subset
  <1>4. ASSUME NEW b \in T, NEW c \in S \ T PROVE docs[b].amount >= docs[c].amount
    <2>1. docs[b].amount \in Nat /\ docs[c].amount \in Nat
      BY <1>1 DEF Bid
    <2>2. QED
      BY <1>1, <2>1 DEF Outranks
  <1>5. QED
    BY <1>1, <1>2, <1>3, <1>4

\* Some bid of a set has the lowest amount.
LEMMA SmallestBid ==
  ASSUME NEW S \in SUBSET BidIds, S # {}, \A b \in S : bids[b].amount \in Nat
  PROVE  \E b \in S : \A c \in S : bids[b].amount <= bids[c].amount
  <1> DEFINE A == {bids[b].amount : b \in S}
  <1>1. A \in SUBSET Nat /\ A # {}
    OBVIOUS
  <1> DEFINE R == {p \in Nat \X Nat : p[1] < p[2]}
  <1>2. IsWellFoundedOn(R, Nat)
    BY NatLessThanWellFounded DEF OpToRel
  <1>3. PICK m \in A : \A n \in A : <<n, m>> \notin R
    <2> HIDE DEF A, R
    <2>1. QED
      BY <1>1, <1>2, WFMin, Zenon
  <1>4. PICK b \in S : bids[b].amount = m
    BY <1>3
  <1>5. ASSUME NEW c \in S PROVE bids[b].amount <= bids[c].amount
    <2>1. bids[c].amount \in A /\ bids[c].amount \in Nat /\ m \in Nat
      BY <1>1, <1>3
    <2>2. ~(bids[c].amount < m)
      BY <1>3, <2>1
    <2>3. QED
      BY <1>4, <2>1, <2>2
  <1>6. QED
    BY <1>5

\* What a bid transaction writes: its own bid, and the displaced ones.
LEMMA PlacementWrites ==
  ASSUME TypeOK, NEW b, NEW docs, NEW displaced, Placement(b, docs, displaced)
  PROVE  /\ b \in BidIds /\ docs \in [BidIds -> Bid] /\ status = "active"
         /\ Active' = ActiveIn(docs) \ displaced
         /\ Active \in SUBSET ActiveIn(docs) /\ ActiveIn(docs) \in SUBSET (Active \union {b})
         /\ \A c \in BidIds : bids'[c].amount = docs[c].amount
         /\ \A c \in BidIds \ {b} : docs[c] = bids[c]
         /\ \A c \in BidIds : bids'[c].status = "refunded" =>
               \/ c \in displaced /\ bids'[c].closed = currentRound
               \/ c # b /\ bids[c].status = "refunded" /\ bids'[c] = bids[c]
  <1>1. /\ b \in BidIds /\ docs \in [BidIds -> Bid] /\ displaced \subseteq ActiveIn(docs)
        /\ docs[b].status = "active" /\ bids[b].status \in {"none", "active"}
        /\ \A c \in BidIds \ {b} : docs[c] = bids[c]
        /\ bids' = Refunded(docs, displaced, currentRound) /\ status = "active"
    BY Zenon DEF Placement
  <1>2. displaced \in SUBSET BidIds
    BY <1>1 DEF ActiveIn
  <1>3. Active' = ActiveIn(docs) \ displaced
    BY <1>1, <1>2, ActiveAfterRefund DEF Active, ActiveIn
  <1>4. Active \in SUBSET ActiveIn(docs) /\ ActiveIn(docs) \in SUBSET (Active \union {b})
    BY <1>1 DEF Active, ActiveIn
  <1>5. ASSUME NEW c \in BidIds
        PROVE  /\ bids'[c].amount = docs[c].amount
               /\ bids'[c].status = "refunded" =>
                    \/ c \in displaced /\ bids'[c].closed = currentRound
                    \/ c # b /\ bids[c].status = "refunded" /\ bids'[c] = bids[c]
    <2>1. docs[c] \in Bid
      BY <1>1
    <2>2. CASE c \in displaced
      <3>1. bids'[c] = [docs[c] EXCEPT !.status = "refunded", !.closed = currentRound]
        BY <1>1, <2>2 DEF Refunded
      <3>2. QED
        BY <2>1, <2>2, <3>1 DEF Bid
    <2>3. CASE c \notin displaced
      <3>1. bids'[c] = docs[c]
        BY <1>1, <2>3 DEF Refunded
      <3>2. QED
        BY <1>1, <2>3, <3>1
    <2>4. QED
      BY <2>2, <2>3
  <1>6. QED
    BY <1>1, <1>3, <1>4, <1>5

\* Once a bid of every gift left exists, this stays so until the auction ends.
LEMMA PlacementSoldOut ==
  ASSUME TypeOK, NEW b, NEW docs, NEW displaced, Placement(b, docs, displaced)
  PROVE  /\ displaced # {} \/ SoldOut => SoldOut'
         /\ \A c \in Active', d \in displaced : docs[c].amount >= docs[d].amount
  <1>1. /\ docs \in [BidIds -> Bid] /\ displaced \in SUBSET ActiveIn(docs)
        /\ (ActiveIn(docs) \ displaced) \in FirstOf(docs, ActiveIn(docs), RemainingSupply)
        /\ distributed' = distributed
    BY Zenon DEF Placement
  <1>2. /\ Active' = ActiveIn(docs) \ displaced /\ Active \in SUBSET ActiveIn(docs)
        /\ ActiveIn(docs) \in SUBSET BidIds
    BY PlacementWrites DEF ActiveIn
  <1>3. RemainingSupply' = RemainingSupply /\ RemainingSupply \in Nat
    BY <1>1, RemainingType DEF RemainingSupply, TotalSupply
  <1>4. /\ Cardinality(ActiveIn(docs)) \in Nat
        /\ Cardinality(ActiveIn(docs)) >= RemainingSupply =>
              Cardinality(ActiveIn(docs) \ displaced) = RemainingSupply
        /\ ActiveIn(docs) # ActiveIn(docs) \ displaced =>
              Cardinality(ActiveIn(docs)) >= RemainingSupply
        /\ \A c \in ActiveIn(docs) \ displaced,
              d \in ActiveIn(docs) \ (ActiveIn(docs) \ displaced) :
                docs[c].amount >= docs[d].amount
    <2> DEFINE T == ActiveIn(docs) \ displaced
    <2> HIDE DEF T
    <2>1. T \in FirstOf(docs, ActiveIn(docs), RemainingSupply)
      BY <1>1 DEF T
    <2>2. /\ Cardinality(ActiveIn(docs)) \in Nat
          /\ Cardinality(ActiveIn(docs)) >= RemainingSupply => Cardinality(T) = RemainingSupply
          /\ ActiveIn(docs) # T => Cardinality(ActiveIn(docs)) >= RemainingSupply
          /\ \A c \in T, d \in ActiveIn(docs) \ T : docs[c].amount >= docs[d].amount
      <3>1. docs \in [BidIds -> Bid]
        BY <1>1
      <3>2. ActiveIn(docs) \in SUBSET BidIds
        BY <1>2
      <3>3. RemainingSupply \in Nat
        BY <1>3
      <3>4. QED
        BY <2>1, <3>1, <3>2, <3>3, FirstOfRanks
    <2>3. QED
      BY <2>2 DEF T
  <1>5. ASSUME SoldOut PROVE Cardinality(ActiveIn(docs)) >= RemainingSupply
    <2>1. /\ Cardinality(Active) <= Cardinality(ActiveIn(docs))
          /\ Cardinality(Active) \in Nat
      BY <1>2, BidSets, FS_Subset
    <2>2. QED
      BY <1>3, <1>4, <1>5, <2>1 DEF SoldOut
  <1>6. displaced # {} => ActiveIn(docs) # ActiveIn(docs) \ displaced
    BY <1>1
  <1>7. displaced # {} \/ SoldOut => Cardinality(Active') = RemainingSupply'
    BY <1>2, <1>3, <1>4, <1>5, <1>6
  <1>8. Active' \in SUBSET BidIds
    BY <1>2
  <1>9. displaced # {} \/ SoldOut => SoldOut'
    BY <1>3, <1>7 DEF SoldOut
  <1>10. QED
    BY <1>1, <1>2, <1>4, <1>9

\* What was enough for a bid transaction when the gifts were sold out is above some
\* active bid.
LEMMA EnoughIsAbove ==
  ASSUME NEW a, SoldOut, MeetsDynamicMinBid(a)
  PROVE  \E c \in Active : a >= bids[c].amount + MinIncrement
  BY DEF MeetsDynamicMinBid

LEMMA PlacementRank ==
  ASSUME TypeOK, TypeOK', SeqInv, GiftInv, RankInv,
         NEW b, NEW docs, NEW displaced, Placement(b, docs, displaced)
  PROVE  RankInv'
  <1>1. /\ b \in BidIds /\ docs \in [BidIds -> Bid] /\ status = "active"
        /\ Active' = ActiveIn(docs) \ displaced
        /\ Active \in SUBSET ActiveIn(docs) /\ ActiveIn(docs) \in SUBSET (Active \union {b})
        /\ \A c \in BidIds : bids'[c].amount = docs[c].amount
        /\ \A c \in BidIds \ {b} : docs[c] = bids[c]
        /\ \A c \in BidIds : bids'[c].status = "refunded" =>
              \/ c \in displaced /\ bids'[c].closed = currentRound
              \/ c # b /\ bids[c].status = "refunded" /\ bids'[c] = bids[c]
    BY PlacementWrites, Zenon
  <1>2. /\ UNCHANGED <<status, currentRound, distributed>>
        /\ MeetsDynamicMinBid(docs[b].amount)
        /\ displaced \in SUBSET ActiveIn(docs)
    BY Zenon DEF Placement
  <1>3. \A n \in 1..TotalRounds : rounds'[n].status = rounds[n].status
    BY PlacementKeepsRounds
  <1>4. \A c \in BidIds : bids'[c].status = "won" => bids[c].status = "won" /\ bids'[c] = bids[c]
    BY PlacementKeepsWinners
  <1>5. \A c \in BidIds : bids[c].amount \in Nat /\ docs[c].amount \in Nat
    BY <1>1 DEF TypeOK, Bid
  <1>6. Active \in SUBSET BidIds /\ ActiveIn(docs) \in SUBSET BidIds /\ MinIncrement \in Nat
        /\ MinBid \in Nat
    BY PriceAssumption DEF Active, ActiveIn
  <1>7. CurrentOpen'
    BY <1>1, <1>2, <1>3 DEF RankInv, CurrentOpen
  <1>8. ASSUME NEW w \in BidIds, bids[w].status = "won"
        PROVE  bids[w].won < currentRound
    <2>1. bids[w].won \in 1..TotalRounds /\ rounds[bids[w].won].status = "completed"
      BY <1>8 DEF GiftInv
    <2>2. bids[w].won # currentRound /\ currentRound \in 1..TotalRounds
      BY <1>1, <2>1 DEF RankInv, CurrentOpen
    <2>3. ~(bids[w].won > currentRound)
      BY <2>1 DEF SeqInv, RoundsInSequence
    <2>4. QED
      BY <2>1, <2>2, <2>3, SupplyAssumption
  <1>9. NoBetterBidTurnedAway'
    <2>1. ASSUME NEW x \in BidIds, NEW w \in BidIds, bids'[x].status = "refunded",
                 bids'[w].status = "won", bids'[w].won >= bids'[x].closed
          PROVE  bids'[w].amount >= bids'[x].amount
      <3>1. bids[w].status = "won" /\ bids'[w] = bids[w]
        BY <1>4, <2>1
      <3>2. CASE x \in displaced /\ bids'[x].closed = currentRound
        <4>1. bids[w].won < currentRound /\ bids[w].won >= currentRound
          BY <1>8, <2>1, <3>1, <3>2
        <4>2. bids[w].won \in Int /\ currentRound \in Int
          BY DEF TypeOK, Bid
        <4>3. QED
          BY <4>1, <4>2
      <3>3. CASE bids[x].status = "refunded" /\ bids'[x] = bids[x]
        BY <2>1, <3>1, <3>3 DEF RankInv, NoBetterBidTurnedAway
      <3>4. QED
        BY <1>1, <2>1, <3>2, <3>3
    <2>2. QED
      BY <2>1 DEF NoBetterBidTurnedAway
  <1>10. /\ displaced # {} \/ SoldOut => SoldOut'
         /\ \A c \in Active', d \in displaced : docs[c].amount >= docs[d].amount
    BY PlacementSoldOut
  <1>11. ASSUME NEW x \in BidIds, bids'[x].status = "refunded"
         PROVE  SoldOut' /\ \A c \in Active' : bids'[c].amount >= bids'[x].amount
    <2>1. CASE x \in displaced
      BY <1>1, <1>6, <1>10, <2>1
    <2>2. CASE x # b /\ bids[x].status = "refunded" /\ bids'[x] = bids[x]
      <3>1. SoldOut /\ \A c \in Active : bids[c].amount >= bids[x].amount
        BY <1>1, <2>2 DEF RankInv, Beaten
      <3>2. PICK c \in Active : docs[b].amount >= bids[c].amount + MinIncrement
        BY <1>2, <3>1, EnoughIsAbove
      <3>3. docs[b].amount >= bids[x].amount
        BY <1>1, <1>5, <1>6, <3>1, <3>2
      <3>4. \A d \in ActiveIn(docs) : docs[d].amount >= bids[x].amount
        BY <1>1, <1>6, <3>1, <3>3
      <3>5. QED
        BY <1>1, <1>6, <1>10, <2>2, <3>1, <3>4
    <2>3. QED
      BY <1>1, <1>11, <2>1, <2>2
  <1>12. Beaten'
    BY <1>11 DEF Beaten
  <1>13. docs[b].amount >= MinBid
    <2>1. CASE SoldOut
      <3>1. PICK c \in Active : docs[b].amount >= bids[c].amount + MinIncrement
        BY <1>2, <2>1, EnoughIsAbove
      <3>2. bids[c].amount >= MinBid
        BY <3>1 DEF RankInv, Floor
      <3>3. QED
        BY <1>1, <1>5, <1>6, <3>1, <3>2
    <2>2. CASE ~SoldOut
      BY <1>2, <2>2 DEF MeetsDynamicMinBid
    <2>3. QED
      BY <2>1, <2>2
  <1>14. \A c \in ActiveIn(docs) : docs[c].amount >= MinBid
    BY <1>1, <1>6, <1>13 DEF RankInv, Floor
  <1>15. Floor'
    BY <1>1, <1>6, <1>14 DEF Floor
  <1>16. DraftEmpty'
    BY <1>1, <1>2 DEF DraftEmpty
  <1>17. QED
    BY <1>7, <1>9, <1>12, <1>15, <1>16 DEF RankInv

\* A completion awards the best bids and, if the auction goes on, refunds the worst of
\* the rest when more are left than gifts.
LEMMA CompletionRanks ==
  ASSUME TypeOK, TypeOK', NEW r \in 1..TotalRounds, CompleteRound(r)
  PROVE  \E winners, losers, pos :
            /\ winners \in SUBSET Active /\ losers \in SUBSET (Active \ winners)
            /\ bids' = Refunded(Won(bids, winners, pos, r), losers, r)
            /\ Active' = (Active \ winners) \ losers
            /\ \A w \in winners, c \in Active \ winners : bids[w].amount >= bids[c].amount
            /\ ~EndsAuction(r) =>
                  /\ losers # {} \/ SoldOut => SoldOut'
                  /\ \A c \in Active', d \in losers : bids[c].amount >= bids[d].amount
  <1>1. PICK winners, kept, pos :
            /\ winners \in FirstOf(bids, Active, Burned(r))
            /\ kept \in FirstOf(bids, Active \ winners,
                    IF EndsAuction(r) THEN 0 ELSE TotalSupply - DistributedAfter(r))
            /\ bids' = Refunded(Won(bids, winners, pos, r), (Active \ winners) \ kept, r)
            /\ winners \subseteq Active /\ kept \subseteq Active \ winners
            /\ Active' = kept
    BY ActiveAfterCompletion, Zenon
  <1> DEFINE rest == Active \ winners
             losers == rest \ kept
  <1>2. /\ Active \in SUBSET BidIds /\ winners \in SUBSET BidIds /\ rest \in SUBSET BidIds
        /\ bids \in [BidIds -> Bid]
    BY <1>1 DEF Active, ActiveIn, TypeOK
  <1>3. /\ Burned(r) \in Nat /\ RemainingSupply \in Nat /\ Burned(r) <= RemainingSupply
        /\ RemainingSupply = TotalSupply - distributed
        /\ distributed' = distributed + Burned(r) /\ distributed \in Nat /\ TotalSupply \in Nat
        /\ RemainingSupply' = TotalSupply - distributed'
        /\ TotalSupply - DistributedAfter(r) = RemainingSupply - Burned(r)
    <2>1. RemainingSupply' = TotalSupply' - distributed' /\ TotalSupply' = TotalSupply
      BY RemainingType, SupplyType DEF TotalSupply, TypeOK, RemainingSupply
    <2>2. QED
      BY <2>1, BurnedType, SupplyType, RemainingType
         DEF CompleteRound, DistributedAfter, TypeOK
  <1>4. /\ Cardinality(winners) \in Nat /\ Cardinality(Active) \in Nat
        /\ Cardinality(Active) >= Burned(r) => Cardinality(winners) = Burned(r)
        /\ \A w \in winners, c \in Active \ winners : bids[w].amount >= bids[c].amount
    <2>1. bids \in [BidIds -> Bid] /\ Active \in SUBSET BidIds
      BY <1>2
    <2>2. Burned(r) \in Nat /\ winners \in FirstOf(bids, Active, Burned(r))
      BY <1>1, <1>3
    <2> HIDE DEF rest, losers
    <2>3. QED
      BY <2>1, <2>2, FirstOfRanks
  <1>5. Cardinality(rest) = Cardinality(Active) - Cardinality(winners)
    <2>1. IsFiniteSet(Active) /\ Active \cap winners = winners
      BY <1>1, <1>2, BidSets
    <2>2. QED
      BY <2>1, FS_Difference
  <1>6. Active' = rest \ losers /\ losers \in SUBSET rest
    BY <1>1
  <1>7. ASSUME ~EndsAuction(r)
        PROVE  /\ losers # {} \/ SoldOut => SoldOut'
               /\ \A c \in Active', d \in losers : bids[c].amount >= bids[d].amount
    <2> DEFINE n == RemainingSupply - Burned(r)
    <2>1. n \in Nat /\ kept \in FirstOf(bids, rest, n) /\ RemainingSupply' = n
      BY <1>1, <1>3, <1>7
    <2> HIDE DEF n, rest
    <2>2. /\ Cardinality(kept) \in Nat /\ Cardinality(rest) \in Nat
          /\ Cardinality(rest) >= n => Cardinality(kept) = n
          /\ rest # kept => Cardinality(rest) >= n
          /\ \A b \in kept, c \in rest \ kept : bids[b].amount >= bids[c].amount
      BY <1>2, <2>1, FirstOfRanks
    <2>3. losers # {} => rest # kept
      OBVIOUS
    <2>4. SoldOut => Cardinality(rest) >= n
      BY <1>3, <1>4, <1>5 DEF SoldOut, n
    <2>5. losers # {} \/ SoldOut => Cardinality(Active') = RemainingSupply'
      BY <1>1, <2>1, <2>2, <2>3, <2>4
    <2>6. losers # {} \/ SoldOut => SoldOut'
      BY <1>3, <2>1, <2>5 DEF SoldOut
    <2>7. QED
      BY <1>1, <2>2, <2>6
  <1>8. /\ winners \in SUBSET Active /\ losers \in SUBSET (Active \ winners)
        /\ bids' = Refunded(Won(bids, winners, pos, r), losers, r)
        /\ Active' = (Active \ winners) \ losers
    BY <1>1, <1>6
  <1> HIDE DEF losers, rest
  <1>9. QED
    BY <1>4, <1>7, <1>8

LEMMA CompletionRank ==
  ASSUME TypeOK, TypeOK', SeqInv, GiftInv, RankInv, NEW r \in 1..TotalRounds, CompleteRound(r)
  PROVE  RankInv'
  <1>1. PICK winners, losers, pos :
            /\ winners \in SUBSET Active /\ losers \in SUBSET (Active \ winners)
            /\ bids' = Refunded(Won(bids, winners, pos, r), losers, r)
            /\ Active' = (Active \ winners) \ losers
            /\ \A w \in winners, c \in Active \ winners : bids[w].amount >= bids[c].amount
            /\ ~EndsAuction(r) =>
                  /\ losers # {} \/ SoldOut => SoldOut'
                  /\ \A c \in Active', d \in losers : bids[c].amount >= bids[d].amount
    BY CompletionRanks, Zenon
  <1>2. /\ \A c \in winners : /\ bids'[c].status = "won" /\ bids'[c].won = r
                              /\ bids'[c].amount = bids[c].amount
        /\ \A c \in losers : /\ bids'[c].status = "refunded" /\ bids'[c].closed = r
                             /\ bids'[c].amount = bids[c].amount
        /\ \A c \in BidIds : c \notin winners /\ c \notin losers => bids'[c] = bids[c]
    BY <1>1, SettlementWrites
  <1>3. Active \in SUBSET BidIds /\ \A c \in Active : bids[c].status = "active"
    BY DEF Active, ActiveIn
  <1>4. /\ rounds[r].status = "active"
        /\ status' = IF EndsAuction(r) THEN "completed" ELSE status
        /\ currentRound' = IF EndsAuction(r) THEN currentRound ELSE r + 1
        /\ rounds' = [n \in 1..TotalRounds |->
              IF n = r THEN [rounds[n] EXCEPT !.status = "completed"]
              ELSE IF ~EndsAuction(r) /\ n = r + 1 THEN [status |-> "active", extensions |-> 0]
              ELSE rounds[n]]
    BY Zenon DEF CompleteRound
  <1>5. r = currentRound /\ status = "active"
    BY <1>4, OpenIsCurrent
  <1>6. \A c \in BidIds : bids'[c].amount = bids[c].amount
    BY <1>2
  <1>7. \A c \in BidIds : bids[c].amount \in Nat
    BY DEF TypeOK, Bid
  <1>8. CurrentOpen'
    <2>1. CASE EndsAuction(r)
      BY <1>4, <2>1 DEF CurrentOpen
    <2>2. CASE ~EndsAuction(r)
      <3>1. currentRound' = r + 1 /\ r + 1 \in 1..TotalRounds
        BY <1>4, <2>2, SupplyAssumption DEF EndsAuction
      <3>2. rounds'[r + 1].status = "active"
        BY <1>4, <2>2, <3>1
      <3>3. QED
        BY <3>1, <3>2 DEF CurrentOpen
    <2>3. QED
      BY <2>1, <2>2
  <1>9. ASSUME NEW w \in BidIds, bids[w].status = "won"
        PROVE  bids[w].won < r /\ bids[w].won \in Nat
    <2>1. bids[w].won \in 1..TotalRounds /\ rounds[bids[w].won].status = "completed"
      BY <1>9 DEF GiftInv
    <2>2. bids[w].won # r
      BY <1>4, <2>1
    <2>3. ~(bids[w].won > r)
      BY <1>5, <2>1 DEF SeqInv, RoundsInSequence
    <2>4. QED
      BY <2>1, <2>2, <2>3, SupplyAssumption
  <1>10. NoBetterBidTurnedAway'
    <2>1. ASSUME NEW x \in BidIds, NEW w \in BidIds, bids'[x].status = "refunded",
                 bids'[w].status = "won", bids'[w].won >= bids'[x].closed
          PROVE  bids[w].amount >= bids[x].amount
      <3>1. CASE w \in winners /\ x \in losers
        BY <1>1, <3>1
      <3>2. CASE w \in winners /\ x \notin losers
        <4>1. bids[x].status = "refunded"
          BY <1>2, <2>1, <3>2
        <4>2. QED
          BY <1>1, <1>5, <3>2, <4>1 DEF RankInv, Beaten
      <3>3. CASE w \notin winners
        <4>1. bids'[w] = bids[w] /\ bids[w].status = "won" /\ w \notin losers
          BY <1>2, <1>3, <2>1, <3>3
        <4>2. x \notin losers
          <5>1. bids'[w].won < r /\ bids'[w].won \in Nat
            BY <1>9, <4>1
          <5>2. ~(bids'[w].won >= r)
            BY <5>1
          <5>3. QED
            BY <1>2, <2>1, <5>2
        <4>3. x \notin winners
          BY <1>2, <2>1
        <4>4. bids'[x] = bids[x]
          BY <1>2, <4>2, <4>3
        <4>5. QED
          BY <2>1, <4>1, <4>4 DEF RankInv, NoBetterBidTurnedAway
      <3>4. QED
        BY <3>1, <3>2, <3>3
    <2>2. QED
      BY <1>6, <2>1 DEF NoBetterBidTurnedAway
  <1>11. Beaten'
    <2>1. CASE EndsAuction(r)
      BY <1>4, <2>1 DEF Beaten
    <2>2. ASSUME ~EndsAuction(r), NEW x \in BidIds, bids'[x].status = "refunded"
          PROVE  SoldOut' /\ \A c \in Active' : bids[c].amount >= bids[x].amount
      <3>1. CASE x \in losers
        BY <1>1, <2>2, <3>1
      <3>2. CASE x \notin losers
        <4>1. bids[x].status = "refunded"
          BY <1>2, <2>2, <3>2
        <4>2. SoldOut /\ \A c \in Active : bids[c].amount >= bids[x].amount
          BY <1>5, <4>1 DEF RankInv, Beaten
        <4>3. QED
          BY <1>1, <2>2, <4>2
      <3>3. QED
        BY <3>1, <3>2
    <2>3. Active' \in SUBSET BidIds
      BY <1>1, <1>3
    <2>4. QED
      BY <1>6, <2>1, <2>2, <2>3 DEF Beaten
  <1>12. Floor'
    BY <1>1, <1>3, <1>6 DEF RankInv, Floor
  <1>13. DraftEmpty'
    BY <1>4, <1>5 DEF DraftEmpty
  <1>14. QED
    BY <1>8, <1>10, <1>11, <1>12, <1>13 DEF RankInv

\* The ranking is a matter of the bids, the auction's status and the gifts left.
LEMMA OnlyBidsMatter ==
  ASSUME RankInv, UNCHANGED <<status, currentRound, distributed, bids>>
  PROVE  (NoBetterBidTurnedAway /\ Beaten /\ Floor /\ DraftEmpty)'
  <1>1. Active' = Active /\ SoldOut' = SoldOut
    BY DEF Active, ActiveIn, SoldOut, RemainingSupply, TotalSupply
  <1>2. NoBetterBidTurnedAway'
    BY DEF RankInv, NoBetterBidTurnedAway
  <1>3. Beaten'
    BY <1>1 DEF RankInv, Beaten
  <1>4. Floor'
    BY <1>1 DEF RankInv, Floor
  <1>5. DraftEmpty'
    BY DEF RankInv, DraftEmpty
  <1>6. QED
    BY <1>2, <1>3, <1>4, <1>5

LEMMA RankKept == TypeOK /\ SeqInv /\ GiftInv /\ RankInv /\ [Next]_vars => RankInv'
  <1> SUFFICES ASSUME TypeOK, SeqInv, GiftInv, RankInv, [Next]_vars PROVE RankInv'
    OBVIOUS
  <1>1. TypeOK'
    BY TypeKept
  <1>2. CASE Start
    <2>1. /\ status = "draft" /\ status' = "active" /\ currentRound' = 1
          /\ rounds' = rounds /\ bids' = bids /\ distributed' = distributed
      BY <1>2 DEF Start
    <2>2. \A b \in BidIds : bids[b].status = "none" /\ bids'[b].status = "none"
      BY <2>1 DEF RankInv, DraftEmpty
    <2>3. Active' = {}
      BY <2>2 DEF Active, ActiveIn
    <2>4. 1 \in 1..TotalRounds /\ rounds'[1].status = "none"
      BY <2>1, SupplyAssumption DEF SeqInv, RoundsInSequence
    <2>5. QED
      BY <2>1, <2>2, <2>3, <2>4
         DEF RankInv, NoBetterBidTurnedAway, Beaten, Floor, CurrentOpen, DraftEmpty
  <1>3. CASE OpenFirstRound
    <2>1. /\ UNCHANGED <<status, currentRound, distributed, bids>>
          /\ currentRound = 1 /\ rounds' = [rounds EXCEPT ![1].status = "active"]
      BY <1>3 DEF OpenFirstRound
    <2>2. 1 \in 1..TotalRounds /\ rounds'[1].status = "active"
      BY <2>1, SupplyAssumption DEF TypeOK, Round
    <2>3. CurrentOpen'
      BY <2>1, <2>2 DEF CurrentOpen
    <2>4. (NoBetterBidTurnedAway /\ Beaten /\ Floor /\ DraftEmpty)'
      BY <2>1, OnlyBidsMatter, Zenon DEF RankInv
    <2>5. QED
      BY <2>3, <2>4 DEF RankInv
  <1>4. ASSUME NEW r \in 1..TotalRounds, CompleteRound(r) PROVE RankInv'
    BY <1>1, <1>4, CompletionRank
  <1>5. ASSUME NEW b, NEW docs, NEW displaced, Placement(b, docs, displaced) PROVE RankInv'
    BY <1>1, <1>5, PlacementRank
  <1>6. CASE MoneyMoves
    <2>1. /\ UNCHANGED <<status, currentRound, distributed, bids>> /\ rounds' = rounds
      BY <1>6 DEF MoneyMoves
    <2>2. CurrentOpen'
      BY <2>1 DEF RankInv, CurrentOpen
    <2>3. (NoBetterBidTurnedAway /\ Beaten /\ Floor /\ DraftEmpty)'
      BY <2>1, OnlyBidsMatter, Zenon DEF RankInv
    <2>4. QED
      BY <2>2, <2>3 DEF RankInv
  <1>7. QED
    BY <1>2, <1>3, <1>4, <1>5, <1>6, StepKinds

LEMMA RankAtStart == Init => RankInv
  <1> SUFFICES ASSUME Init PROVE RankInv
    OBVIOUS
  <1>1. status = "draft" /\ \A b \in BidIds : bids[b].status = "none"
    BY DEF Init, NoDocument
  <1>2. Active = {}
    BY <1>1 DEF Active, ActiveIn
  <1>3. QED
    BY <1>1, <1>2
       DEF RankInv, NoBetterBidTurnedAway, Beaten, Floor, CurrentOpen, DraftEmpty

\* A gift never goes to a lower bid than one that was refunded in that round or before.
THEOREM NobodyTurnedAway == Spec => []NoBetterBidTurnedAway
  <1>1. RankInv => NoBetterBidTurnedAway
    BY DEF RankInv
  <1>2. QED
    BY <1>1, SequenceAtStart, SequenceKept, NumbersAtStart, NumbersKept, RankAtStart,
       RankKept, TypeCorrect, PTL DEF Spec

-----------------------------------------------------------------------------
(* The price of entry. *)

\* With as many bids as gifts, the bid to beat is the lowest one.
LEMMA LowestBidDecides ==
  ASSUME TypeOK, SeqInv, SupplyRespected, status = "active", SoldOut, NEW a \in Nat,
         NEW b \in Active, a >= bids[b].amount + MinIncrement
  PROVE  MeetsDynamicMinBid(a)
  <1>1. Active \in SUBSET BidIds /\ Active # {}
    BY DEF Active, ActiveIn
  <1>2. \A c \in Active : bids[c].amount \in Nat
    BY <1>1 DEF TypeOK, Bid
  <1>3. PICK m \in Active : \A c \in Active : bids[m].amount <= bids[c].amount
    BY <1>1, <1>2, SmallestBid
  <1>4. a >= bids[m].amount + MinIncrement
    BY <1>2, <1>3, PriceAssumption
  <1>5. RemainingSupply \in Nat /\ Cardinality(Active) = RemainingSupply
    BY <1>1, RemainingType, BidSets DEF SupplyRespected, SoldOut
  <1>6. Reaching(bids[m].amount) = Active
    BY <1>2, <1>3 DEF Reaching
  <1> DEFINE above == {c \in Active : bids[c].amount > bids[m].amount}
  <1>7. Cardinality(above) < Cardinality(Active)
    <2>1. above \in SUBSET Active /\ m \notin above
      BY <1>2
    <2>2. above # Active /\ IsFiniteSet(Active) /\ above \in SUBSET Active
      BY <1>1, <2>1, BidSets
    <2> HIDE DEF above
    <2>3. Cardinality(above) \in Nat /\ Cardinality(Active) \in Nat
      BY <2>2, FS_Subset, FS_CardinalityType
    <2>4. QED
      BY <2>2, <2>3, FS_Subset
  <1>8. /\ Cardinality(Reaching(bids[m].amount)) >= RemainingSupply
        /\ Cardinality(above) < RemainingSupply
    BY <1>5, <1>6, <1>7
  <1>9. QED
    BY <1>4, <1>8 DEF MeetsDynamicMinBid

\* A step leaves the gifts sold out, and no active bid below all those before it.
LEMMA SoldOutStays ==
  ASSUME TypeOK, TypeOK', SeqInv, GiftInv, RankInv, [Next]_vars,
         status = "active", status' = "active", SoldOut
  PROVE  SoldOut' /\ \A c \in Active' : \E b \in Active : bids'[c].amount >= bids[b].amount
  <1>1. CASE Start
    BY <1>1 DEF Start
  <1>2. ASSUME UNCHANGED <<distributed, bids>> PROVE SoldOut' = SoldOut /\ Active' = Active
    BY <1>2 DEF SoldOut, RemainingSupply, TotalSupply, Active, ActiveIn
  <1>3. \A c \in Active : bids[c].amount \in Nat
    BY DEF Active, ActiveIn, TypeOK, Bid
  <1>4. CASE OpenFirstRound \/ MoneyMoves
    <2>1. UNCHANGED <<distributed, bids>>
      BY <1>4 DEF OpenFirstRound, MoneyMoves
    <2>2. QED
      BY <1>2, <1>3, <2>1
  <1>5. ASSUME NEW r \in 1..TotalRounds, CompleteRound(r)
        PROVE  SoldOut' /\ \A c \in Active' : \E b \in Active : bids'[c].amount >= bids[b].amount
    <2>1. ~EndsAuction(r)
      BY <1>5, Zenon DEF CompleteRound
    <2>2. PICK winners, losers, pos :
              /\ winners \in SUBSET Active /\ losers \in SUBSET (Active \ winners)
              /\ bids' = Refunded(Won(bids, winners, pos, r), losers, r)
              /\ Active' = (Active \ winners) \ losers
              /\ SoldOut => SoldOut'
      BY <1>5, <2>1, CompletionRanks, Zenon
    <2>3. \A c \in Active' : c \in Active /\ bids'[c] = bids[c]
      BY <2>2, SettlementWrites DEF Active, ActiveIn
    <2>4. QED
      BY <1>3, <2>2, <2>3
  <1>6. ASSUME NEW b, NEW docs, NEW displaced, Placement(b, docs, displaced)
        PROVE  SoldOut' /\ \A c \in Active' : \E d \in Active : bids'[c].amount >= bids[d].amount
    <2>1. SoldOut'
      BY <1>6, PlacementSoldOut
    <2>2. /\ Active' \in SUBSET (Active \union {b}) /\ b \in BidIds
          /\ \A c \in BidIds : bids'[c].amount = docs[c].amount
          /\ \A c \in BidIds \ {b} : docs[c] = bids[c]
          /\ docs \in [BidIds -> Bid]
      BY <1>6, PlacementWrites
    <2>3. PICK d \in Active : docs[b].amount >= bids[d].amount + MinIncrement
      BY <1>6, EnoughIsAbove, Zenon DEF Placement
    <2>4. docs[b].amount >= bids[d].amount
      BY <1>3, <2>2, <2>3, PriceAssumption DEF Bid
    <2>5. \A c \in Active' : c # b => c \in Active /\ bids'[c].amount = bids[c].amount
      BY <2>2 DEF Active, ActiveIn
    <2>6. QED
      BY <1>3, <2>1, <2>2, <2>4, <2>5
  <1>7. QED
    BY <1>1, <1>4, <1>5, <1>6, StepKinds

\* What is enough after a step was enough before it: the minimum bid of a running auction
\* never falls, whatever was displaced, raised, awarded or refunded.
THEOREM PriceOnlyRises == Spec => PriceNeverFalls
  <1>1. ASSUME TypeOK, TypeOK', SeqInv, GiftInv, SupplyRespected, RankInv, RankInv',
               [Next]_vars, status = "active", status' = "active", NEW a \in Nat,
               MeetsDynamicMinBid(a)'
        PROVE  MeetsDynamicMinBid(a)
    <2>1. CASE SoldOut
      <3>1. SoldOut' /\ \A c \in Active' : \E b \in Active : bids'[c].amount >= bids[b].amount
        BY <1>1, <2>1, SoldOutStays
      <3>2. PICK c \in Active' : a >= bids'[c].amount + MinIncrement
        BY <1>1, <3>1 DEF MeetsDynamicMinBid
      <3>3. PICK b \in Active : bids'[c].amount >= bids[b].amount
        BY <3>1
      <3>4. bids'[c].amount \in Nat /\ bids[b].amount \in Nat
        BY <1>1 DEF TypeOK, Bid, Active, ActiveIn
      <3>5. a >= bids[b].amount + MinIncrement
        BY <3>2, <3>3, <3>4, PriceAssumption
      <3>6. QED
        BY <1>1, <2>1, <3>5, LowestBidDecides
    <2>2. CASE ~SoldOut
      <3>1. a >= MinBid
        <4>1. CASE SoldOut'
          <5>1. PICK c \in Active' : a >= bids'[c].amount + MinIncrement
            BY <1>1, <4>1 DEF MeetsDynamicMinBid
          <5>2. bids'[c].amount \in Nat /\ bids'[c].amount >= MinBid
            BY <1>1 DEF RankInv, Floor, TypeOK, Bid, Active, ActiveIn
          <5>3. QED
            BY <5>1, <5>2, PriceAssumption
        <4>2. CASE ~SoldOut'
          BY <1>1, <4>2 DEF MeetsDynamicMinBid
        <4>3. QED
          BY <4>1, <4>2
      <3>2. QED
        BY <2>2, <3>1 DEF MeetsDynamicMinBid
    <2>3. QED
      BY <2>1, <2>2
  <1>2. 1..(MaxDeposit + MinIncrement) \in SUBSET Nat
    BY PriceAssumption
  <1>3. TypeOK /\ TypeOK' /\ SeqInv /\ GiftInv /\ SupplyRespected /\ RankInv /\ RankInv'
          /\ [Next]_vars =>
            [status = "active" /\ status' = "active" =>
                \A a \in 1..(MaxDeposit + MinIncrement) :
                    MeetsDynamicMinBid(a)' => MeetsDynamicMinBid(a)]_vars
    BY <1>1, <1>2
  <1>4. QED
    BY <1>3, SequenceAtStart, SequenceKept, NumbersAtStart, NumbersKept, RankAtStart,
       RankKept, SupplyKept, TypeCorrect, PTL DEF Spec, PriceNeverFalls

=============================================================================
