------------------------------ MODULE MCBooks ------------------------------
(***************************************************************************)
(* Standalone and Outbox side by side, for TLC: the calls on the books of  *)
(* two users around a completion without transactions, and the events of a *)
(* completion with one.  The two have no state in common: one moves in     *)
(* each behaviour.                                                         *)
(*                                                                         *)
(* The bid of u1 ranks before that of u2, and u2 deposits and withdraws    *)
(* meanwhile.                                                              *)
(***************************************************************************)
EXTENDS Standalone, TLC

CONSTANTS u1, u2, deposit, withdraw, charge1, charge2, refund1, refund2,
    Events, Audited, MaxTries, Batch, MaxUnmarked, MaxTroubles

VARIABLES
    tx, committed, outbox, shared, kicks, drain, emitted, appends, auditLog, request, count,
    part \* which of the two moves

O == INSTANCE Outbox WITH rows <- outbox, audit <- auditLog

ASSUME BooksAssumption == O!OutboxAssumption

outboxVars == <<tx, committed, outbox, shared, kicks, drain, emitted, appends, auditLog, request,
                count>>

Call(kind, user, amount, ref) == [kind |-> kind, user |-> user, amount |-> amount, ref |-> ref]

Operations ==
    deposit  :> Call("deposit", u2, 2, NoRef) @@
    withdraw :> Call("withdrawal", u2, 1, NoRef) @@
    charge1  :> Call("bid_charge", u1, 1, u1) @@ charge2 :> Call("bid_charge", u2, 1, u2) @@
    refund1  :> Call("bid_refund", u1, 1, u1) @@ refund2 :> Call("bid_refund", u2, 1, u2)

ChargeCalls == u1 :> charge1 @@ u2 :> charge2
RefundCalls == u1 :> refund1 @@ u2 :> refund2
Ranking == u1 :> 1 @@ u2 :> 2

\* A deposit of 2 and the lock of a bid of 1, before the calls of the model.
Before(u) ==
    [balance |-> 1,
     rows |-> {[type |-> "deposit", amount |-> 2, before |-> 0, after |-> 2, ref |-> NoRef,
                at |-> 1, by |-> NoRef],
               [type |-> "bid_lock", amount |-> 1, before |-> 2, after |-> 1, ref |-> u,
                at |-> 2, by |-> NoRef]}]
Books == u1 :> Before(u1) @@ u2 :> Before(u2)

\* What the completion of a last round publishes, in order.
LastRound == << <<"RoundEnded", "AuctionEnded", "AuctionUpdated">> >>

MCInit == Init /\ O!Init /\ part \in {"standalone", "outbox"}

MCNext ==
    \/ part = "standalone" /\ Next /\ UNCHANGED <<outboxVars, part>>
    \/ part = "outbox" /\ O!Next /\ UNCHANGED <<vars, part>>

MCSpec == MCInit /\ [][MCNext]_<<vars, outboxVars, part>> /\ (part = "outbox" => O!Fairness)

TypesOK == TypeOK /\ O!TypeOK

\* Events are emitted in the order of their commits: see Outbox.
InOrder == O!InOrder

\* When the dispatcher is idle nothing is left pending: see Outbox.
NothingStranded == O!NothingStranded

\* Every committed event is emitted in the end: see Outbox.
EveryEventEmitted == part = "outbox" => O!EveryEventEmitted
=============================================================================
