----------------------------- MODULE Standalone -----------------------------
(***************************************************************************)
(* Completing a round without transactions: what RoundsProcessor falls     *)
(* back to when the server is no member of a replica set, write by write,  *)
(* while users deposit and withdraw.  The active bids are left from when   *)
(* the database still was a replica set: a bid cannot be placed without.   *)
(*                                                                         *)
(* Each bid belongs to one user and is named by that user.  Charges and    *)
(* refunds are calls of Ledger, started by the completion.  With a replica *)
(* set (the other half of the initial states) there is no such completion  *)
(* and the calls of Ledger run by themselves.                              *)
(***************************************************************************)
EXTENDS Ledger

CONSTANTS
    ChargeOf,       \* user -> the call that charges the user's bid
    RefundOf,       \* user -> the call that refunds the user's bid
    Rank,           \* user -> place of the user's bid in the order of amount and time
    WinnersCount,   \* round.winnersCount
    TotalSupply,    \* totalRounds * winnersPerRound
    WithReplicaSet, \* the calls made when there is a replica set
    MaxRuns         \* bound: times the job runs (a stalled job is run again)

ASSUME StandaloneAssumption ==
    /\ Users \subseteq Refs /\ WithReplicaSet \subseteq Calls
    /\ ChargeOf \in [Users -> Calls] /\ RefundOf \in [Users -> Calls]
    /\ \A u \in Users : /\ Op[ChargeOf[u]].kind = "bid_charge" /\ Op[ChargeOf[u]].ref = u
                        /\ Op[RefundOf[u]].kind = "bid_refund" /\ Op[RefundOf[u]].ref = u
    /\ IsFiniteSet(Users) /\ Rank \in [Users -> Nat]
    /\ \A u, v \in Users : Rank[u] = Rank[v] => u = v
    \* the books are in order
    /\ \A u \in Users : LET R == Opening[u].rows
                        IN  /\ IsFiniteSet(R) /\ Opening[u].balance = Total(R)
                            /\ Issues(R, Opening[u].balance) = {}
                            /\ \A r \in R : /\ r.type \in RowTypes /\ r.amount \in Nat
                                            /\ r.at \in 1..Cardinality(R)
                            /\ \A r, s \in R : r.at = s.at => r = s
    \* the bids are active: none has been charged or refunded
    /\ \A u \in Users : \A r \in Opening[u].rows :
          r.by \notin Calls /\ (r.type \in {"bid_charge", "bid_refund"} => r.ref \notin Users)
    /\ WinnersCount \in Nat \ {0} /\ TotalSupply \in Nat \ {0} /\ MaxRuns \in Nat \ {0}

VARIABLES
    lastRound,      \* roundNumber >= totalRounds
    bid,            \* user -> status of the user's bid
    gift,           \* user -> giftNumber of the bid, 0 when it has none
    round,          \* round.status
    nextRound,      \* does the document of the next round exist
    auction,        \* auction.status and totalGiftsDistributed
    job             \* the complete-round job and what the completion has computed

vars == <<ledgerVars, lastRound, bid, gift, round, nextRound, auction, job>>

NoPlan == [winners |-> {}, losers |-> {}, base |-> 0, burned |-> 0, complete |-> FALSE]

TypeOK ==
    /\ LedgerTypeOK
    /\ lastRound \in BOOLEAN /\ nextRound \in BOOLEAN
    /\ bid \in [Users -> {"active", "won", "refunded"}]
    /\ gift \in [Users -> Nat]
    /\ round \in {"active", "completed"}
    /\ auction.status \in {"active", "completed"} /\ auction.distributed \in Nat
    /\ job.pc \in {"waiting", "loaded", "won", "charged", "refunded", "opened", "saved",
                   "completed", "failed"}
    /\ job.run \in 1..MaxRuns

Init ==
    /\ replicaSet \in BOOLEAN
    /\ balance = [u \in Users |-> Opening[u].balance]
    /\ version = [u \in Users |-> 0]
    /\ rows = [u \in Users |-> Opening[u].rows]
    /\ call = [c \in Calls |-> Idle]
    /\ clock = [u \in Users |-> Cardinality(Opening[u].rows)]
    /\ audit = NoAudit
    /\ unknown = 0 /\ lost = 0 /\ overwrote = FALSE
    /\ lastRound \in BOOLEAN
    /\ bid = [u \in Users |-> "active"]
    /\ gift = [u \in Users |-> 0]
    /\ round = "active" /\ nextRound = FALSE
    /\ auction = [status |-> "active", distributed |-> 0]
    /\ job = [pc |-> "waiting", run |-> 1, plan |-> NoPlan]

-----------------------------------------------------------------------------
(* completeRoundWithoutTransaction. *)

roundVars == <<lastRound, bid, gift, round, nextRound, auction, job>>
unchangedLedger == UNCHANGED ledgerVars

ActiveBids == {u \in Users : bid[u] = "active"}

AtMost(a, b) == IF a < b THEN a ELSE b

\* The first n of the bids S by rank.
First(S, n) == {u \in S : Cardinality({v \in S : Rank[v] < Rank[u]}) < n}

\* Fault: all active bids but the winners are refunded, whatever supply is left.
PlanRefundAll ==
    LET burned  == AtMost(WinnersCount, TotalSupply - auction.distributed)
        winners == First(ActiveBids, burned)
    IN  [winners |-> winners, losers |-> ActiveBids \ winners, base |-> auction.distributed,
         burned |-> burned, complete |-> lastRound \/ auction.distributed + burned >= TotalSupply]

\* What calculateRoundCompletion makes of the documents just loaded.
Plan ==
    LET left     == IF TotalSupply > auction.distributed THEN TotalSupply - auction.distributed ELSE 0
        burned   == AtMost(WinnersCount, left)
        winners  == First(ActiveBids, burned)
        rest     == ActiveBids \ winners
        complete == lastRound \/ auction.distributed + burned >= TotalSupply
    IN  [winners |-> winners, base |-> auction.distributed, burned |-> burned, complete |-> complete,
         losers |-> IF complete THEN rest ELSE rest \ First(rest, left - burned)]

Step(from, to) == job.pc = from /\ job' = [job EXCEPT !.pc = to]

\* The round, the auction and the active bids are read; a completed round ends the job.
Load ==
    /\ ~replicaSet
    /\ job.pc = "waiting"
    /\ job' = [job EXCEPT !.pc = IF round = "completed" THEN "completed" ELSE "loaded",
                          !.plan = Plan]
    /\ unchangedLedger
    /\ UNCHANGED <<lastRound, bid, gift, round, nextRound, auction>>

\* updateWinners: one bulkWrite of the winning bids that are still active ...
MarkWinners ==
    /\ Step("loaded", "won")
    /\ LET W == {u \in job.plan.winners : bid[u] = "active"}
           Place(u) == Cardinality({v \in job.plan.winners : Rank[v] <= Rank[u]})
       IN  /\ bid' = [u \in Users |-> IF u \in W THEN "won" ELSE bid[u]]
           /\ gift' = [u \in Users |-> IF u \in W THEN job.plan.base + Place(u) ELSE gift[u]]
    /\ unchangedLedger
    /\ UNCHANGED <<lastRound, round, nextRound, auction>>

\* ... then their charges, all at once, awaited together; then the losers' bulkWrite.
MarkLosers ==
    /\ Step("won", "charged")
    /\ \A u \in job.plan.winners : call[ChargeOf[u]].pc = "ok"
    /\ bid' = [u \in Users |-> IF u \in job.plan.losers /\ bid[u] = "active" THEN "refunded" ELSE bid[u]]
    /\ unchangedLedger
    /\ UNCHANGED <<lastRound, gift, round, nextRound, auction>>

\* The losers' refunds, awaited together.
AwaitRefunds ==
    /\ Step("charged", "refunded")
    /\ \A u \in job.plan.losers : call[RefundOf[u]].pc = "ok"
    /\ unchangedLedger
    /\ UNCHANGED <<lastRound, bid, gift, round, nextRound, auction>>

\* The next round is inserted unless the auction is complete; (auctionId, roundNumber)
\* is unique, so inserting it again throws and the job fails.
OpenNextRound ==
    /\ job.pc = "refunded"
    /\ job' = [job EXCEPT !.pc = IF ~job.plan.complete /\ nextRound THEN "failed" ELSE "opened"]
    /\ nextRound' = (nextRound \/ ~job.plan.complete)
    /\ unchangedLedger
    /\ UNCHANGED <<lastRound, bid, gift, round, auction>>

SaveAuction ==
    /\ Step("opened", "saved")
    /\ auction' = [status |-> IF job.plan.complete THEN "completed" ELSE auction.status,
                   distributed |-> job.plan.base + job.plan.burned]
    /\ unchangedLedger
    /\ UNCHANGED <<lastRound, bid, gift, round, nextRound>>

SaveRound ==
    /\ Step("saved", "completed")
    /\ round' = "completed"
    /\ unchangedLedger
    /\ UNCHANGED <<lastRound, bid, gift, nextRound, auction>>

\* Fault: charges and refunds are started together.
LaunchedTogether(c) ==
    job.pc = "won" /\ (\/ \E u \in job.plan.winners : c = ChargeOf[u]
                      \/ \E u \in job.plan.losers : c = RefundOf[u])

\* The charges and refunds the completion has started and waits for.
Launched(c) ==
    \/ job.pc = "won" /\ \E u \in job.plan.winners : c = ChargeOf[u]
    \/ job.pc = "charged" /\ \E u \in job.plan.losers : c = RefundOf[u]

SubCalls == {ChargeOf[u] : u \in Users} \union {RefundOf[u] : u \in Users}

\* The worker dies with the calls it runs; the job is stalled and runs again.
WorkerDies ==
    /\ ~replicaSet
    /\ job.pc \notin {"waiting", "completed", "failed"}
    /\ job.run < MaxRuns
    /\ job' = [pc |-> "waiting", run |-> job.run + 1, plan |-> NoPlan]
    /\ call' = [c \in Calls |-> IF c \in SubCalls /\ call[c].pc \in Running
                                THEN [call[c] EXCEPT !.pc = "lost"] ELSE call[c]]
    /\ UNCHANGED <<replicaSet, balance, version, rows, clock, audit, unknown, lost, overwrote>>
    /\ UNCHANGED <<lastRound, bid, gift, round, nextRound, auction>>

-----------------------------------------------------------------------------

\* A call starts when its caller makes it: with a replica set at any time; without,
\* deposits and withdrawals, and what the completion has launched.
Started(c) ==
    /\ IF replicaSet THEN c \in WithReplicaSet
       ELSE Launched(c) \/ Op[c].kind \in {"deposit", "withdrawal"}
    /\ Begin(c)
    /\ UNCHANGED roundVars

CallStep(c) ==
    /\ \/ Write(c) \/ Commit(c) \/ WriteRefused(c) \/ UnknownCommit(c)
       \/ Save(c) \/ Insert(c)
       \/ (replicaSet \/ c \notin SubCalls) /\ Lose(c)
    /\ UNCHANGED roundVars

\* Bound: audits are followed only where their reports are judged.
Auditing(u) ==
    /\ replicaSet
    /\ AuditReadsUser(u) \/ AuditReadsRows(u)
    /\ UNCHANGED roundVars

Completing ==
    \/ Load \/ MarkWinners \/ MarkLosers \/ AwaitRefunds
    \/ OpenNextRound \/ SaveAuction \/ SaveRound

Next ==
    \/ \E c \in Calls : Started(c) \/ CallStep(c)
    \/ \E u \in Users : Auditing(u)
    \/ Completing
    \/ WorkerDies

Spec == Init /\ [][Next]_vars

-----------------------------------------------------------------------------
(* Properties. *)

Quiet(u) == \A c \in Calls : Op[c].user = u => call[c].pc \notin Running

Undisturbed == lost = 0 /\ job.run = 1 /\ ~overwrote

\* The balance of a user is what the user's rows add up to: with transactions always, and
\* without them when no call of the user is running, none was cut short and none set a
\* balance it had computed from an older one (balance.service.ts, save() then createTransaction).
BalanceIsLedger ==
    \A u \in Users : (replicaSet \/ (Undisturbed /\ Quiet(u))) =>
        balance[u] = Total(rows[u])

\* The audit finds something wrong only because its two reads were torn by a commit or
\* because a charge, which reads the balance and does not write it, recorded a balance that
\* another transaction was changing (balance.service.ts charge, balance-audit.service.ts).
AuditBlamesOverlaps ==
    replicaSet /\ audit.pc = "done" /\ audit.report # {} => audit.overlap

Written(c) == Cardinality({r \in AllRows : r.by = c})

\* A call that answers ok has its row, or finds one with its type and reference; one that
\* answers an error has none unless the outcome of a commit was unknown; and only a call
\* that is tried again and has no reference to look up, which is a deposit, is ever applied
\* twice: once more for every unknown outcome at most.
AnswersMatchRows ==
    \A c \in Calls :
        /\ call[c].pc = "ok" => Written(c) >= 1 \/ HasTransaction(c)
        /\ call[c].pc = "error" => Written(c) <= call[c].doubt
        /\ Written(c) <= IF Op[c].kind # "withdrawal" /\ Op[c].ref = NoRef
                         THEN 1 + call[c].doubt ELSE 1

PaidBack(u) == call[RefundOf[u]].pc = "saved" \/ Written(RefundOf[u]) > 0

\* Whenever the worker dies and the completion starts over, no bid is paid back and charged,
\* none is paid back before it is marked refunded, and a round never charges a bid that has
\* no gift (bid-status-update.service.ts writes the status first, and only of active bids).
NeverBothWays ==
    ~replicaSet => \A u \in Users :
        /\ PaidBack(u) => bid[u] = "refunded" /\ Written(ChargeOf[u]) = 0
        /\ Written(ChargeOf[u]) > 0 => bid[u] = "won" /\ gift[u] > 0

Won == {u \in Users : bid[u] = "won"}

\* A completion that was not interrupted leaves what CompleteRound of Auction would: as many
\* winners as there are gifts for, ahead of all others, and charged once; the losers paid
\* back once, and nobody a loser while there are gifts for all; no more active bids than
\* gifts left; the gifts of the round counted, and either a next round or a completed auction.
UninterruptedSettles ==
    round = "completed" /\ job.run = 1 =>
        LET gifts == AtMost(WinnersCount, TotalSupply)
        IN  /\ Cardinality(Won) = AtMost(gifts, Cardinality(Users))
            /\ \A u \in Won : \A v \in Users \ Won : Rank[u] < Rank[v]
            /\ \A u \in Users : /\ bid[u] = "won" <=> Written(ChargeOf[u]) = 1
                                /\ bid[u] = "refunded" <=> Written(RefundOf[u]) = 1
            /\ auction.distributed = gifts
            /\ auction.status = "completed" <=> ~nextRound
            /\ Cardinality(ActiveBids) <= IF nextRound THEN TotalSupply - gifts ELSE 0
            /\ nextRound /\ Cardinality(Users) <= TotalSupply =>
                  \A u \in Users : bid[u] # "refunded"
=============================================================================
