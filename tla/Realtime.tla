------------------------------ MODULE Realtime ------------------------------
(***************************************************************************)
(* The realtime state of one auction: what AuctionRealtimeStateService     *)
(* keeps of it in Redis, loaded from the database once and kept up to date *)
(* by the handlers of AuctionRealtimeEventsHandler.                        *)
(*                                                                         *)
(* The database is here as far as the realtime state sees it: the active   *)
(* round, the active bids and the rounds whose gifts are gone.  Bids are   *)
(* published by the request that committed them, in an order of their own; *)
(* the events of a completion come from the outbox, in order, and may be   *)
(* emitted again.  A bid placed by backend-worker, or by a process that    *)
(* stops before it has published it, is not heard of here.                 *)
(*                                                                         *)
(* Whoever wants to read the realtime state, a flush or the builder of a   *)
(* snapshot, first loads what is missing.  These and the handler of        *)
(* RoundEnded take several steps, which acts counts; they share one Redis  *)
(* connection, which answers in the order it was asked.  How what is kept  *)
(* is sent to the pages is in Live.                                        *)
(***************************************************************************)
EXTENDS Integers, Sequences, FiniteSets, SequencesExt

CONSTANTS
    Users,
    TotalRounds,    \* each round has one gift
    MaxAmount,      \* bound: the highest bid
    MaxBids,        \* bound: bids placed
    MaxExtensions,  \* bound: extensions, over all rounds
    MaxRepeats,     \* bound: events the outbox emits again
    Readers         \* bound: who may be loading at once

ASSUME RealtimeAssumption ==
    /\ IsFiniteSet(Users) /\ IsFiniteSet(Readers) /\ "ending" \notin Readers
    /\ {TotalRounds, MaxAmount} \subseteq Nat \ {0}
    /\ {MaxBids, MaxExtensions, MaxRepeats} \subseteq Nat

VARIABLES
    round,      \* the active round of the database, or NoRound
    bids,       \* the amount of each user's active bid, 0 for none
    burned,     \* rounds completed: totalGiftsDistributed
    air,        \* committed bids whose events are not published, in the order of their commits
    feed,       \* events of completions that the outbox has not emitted
    meta,       \* <<>>, or the rounds that rt:meta says are completed
    hash,       \* rt:round
    board,      \* rt:lb, 0 for a user who is not on it
    loaded,     \* rt:lb:loaded
    loading,    \* rt:lb:loading
    acts,       \* how far each asynchronous function has come
    count,      \* bids, extensions and repeats so far
    muddled     \* history: what may have gone wrong, "board", "supply" or "round"

database == <<round, bids, burned>>
redis == <<meta, hash, board, loaded, loading>>
vars == <<database, air, feed, redis, acts, count, muddled>>

NoRound == [number |-> 0, extensions |-> 0]
Round(n) == [number |-> n, extensions |-> 0]
NoBids == [u \in Users |-> 0]
Bidders == {u \in Users : bids[u] > 0}

\* The handler of RoundEnded.
Ending == "ending"
Actors == Readers \cup {Ending}

Stages == {"idle", "ensure", "meta", "hash", "load", "zadd", "remove", "clear"}

\* done, rnd and top are what the function has read and not yet used, won the
\* winners of the round that ended.
Idle == [at |-> "idle", done |-> 0, rnd |-> NoRound, top |-> NoBids, won |-> {}]

-----------------------------------------------------------------------------
Init ==
    /\ round = Round(1) /\ bids = NoBids /\ burned = 0
    /\ air = <<>> /\ feed = <<>>
    /\ meta = <<>> /\ hash = NoRound /\ board = NoBids /\ loaded = FALSE /\ loading = FALSE
    /\ acts = [a \in Actors |-> Idle]
    /\ count = [bids |-> 0, extensions |-> 0, repeats |-> 0]
    /\ muddled = {}

At(a, stage) == acts[a].at = stage
Goes(a, act) == acts' = [acts EXCEPT ![a] = act]
Moves(a, stage) == Goes(a, [acts[a] EXCEPT !.at = stage])

\* The last completion, of which RoundEnded is still to change rt:meta and rt:lb, perhaps again.
EndsUnderway ==
    IF \/ \E i \in DOMAIN feed : feed[i].type = "RoundEnded"
       \/ acts[Ending].at \in {"ensure", "meta", "hash", "remove"}
    THEN 1 ELSE 0

Muddled(what, condition) == IF condition THEN {what} ELSE {}

LoadOpen == \E a \in Actors : At(a, "zadd")

\* A published bid that has something to say of user u.
About(event, u) == u = event.user \/ u \in event.out
InAir(u) == \E i \in DOMAIN air : About(air[i], u)

-----------------------------------------------------------------------------
(* The database and its events. *)

\* placeBid, of which Auction says more: a bid above the lowest takes its
\* place when there are as many bids as gifts left.
Places(u, amount, out) ==
    LET others == Bidders \ {u}
        lowest == {v \in others : \A w \in others : bids[v] <= bids[w]}
    IN  /\ amount > bids[u]
        /\ \/ out = {} /\ (bids[u] > 0 \/ Cardinality(others) < TotalRounds - burned)
           \/ /\ bids[u] = 0 /\ Cardinality(others) >= TotalRounds - burned
              /\ \E v \in lowest : amount > bids[v] /\ out = {v}

\* A bid that is not heard of does no harm as long as the board is still to be loaded and
\* says nothing of those it concerns, and the round likewise.
Bid(u, amount, extend, heard) ==
    \E out \in SUBSET Users :
        /\ round # NoRound /\ count.bids < MaxBids
        /\ Places(u, amount, out)
        /\ bids' = [v \in Users |-> IF v = u THEN amount ELSE IF v \in out THEN 0 ELSE bids[v]]
        /\ IF extend
             THEN /\ round.extensions = 0 /\ count.extensions < MaxExtensions
                  /\ round' = [round EXCEPT !.extensions = 1]
             ELSE round' = round
        /\ count' = [count EXCEPT !.bids = @ + 1, !.extensions = IF extend THEN @ + 1 ELSE @]
        /\ air' = IF heard
                  THEN Append(air, [user |-> u, amount |-> amount, out |-> out, during |-> burned,
                                    extended |-> IF extend THEN <<round'>> ELSE <<>>])
                  ELSE air
        /\ muddled' = muddled \cup
               Muddled("board", /\ ~heard
                                /\ \/ loaded \/ LoadOpen
                                   \/ \E v \in out \cup {u} : InAir(v)
                                   \/ \E v \in out : board[v] > 0) \cup
               Muddled("round", ~heard /\ extend /\ meta # <<>>)
        /\ UNCHANGED <<burned, feed, redis, acts>>

\* completeRound: the highest bid wins, and after the last round the others
\* are refunded.  Rounds are long enough for the events of the one before.
Complete ==
    /\ round # NoRound
    /\ feed = <<>> /\ At(Ending, "idle")
    /\ burned' = burned + 1
    /\ \E won \in SUBSET Bidders :
        /\ IF Bidders = {} THEN won = {}
           ELSE \E u \in Bidders : won = {u} /\ \A v \in Bidders : bids[v] <= bids[u]
        /\ IF round.number = TotalRounds
             THEN /\ round' = NoRound /\ bids' = NoBids
                  /\ feed' = Append(feed, [type |-> "RoundEnded", won |-> won, rnd |-> NoRound])
             ELSE /\ round' = Round(round.number + 1)
                  /\ bids' = [u \in Users |-> IF u \in won THEN 0 ELSE bids[u]]
                  /\ feed' = feed \o <<[type |-> "RoundEnded", won |-> won, rnd |-> NoRound],
                                       [type |-> "RoundStarted", won |-> {}, rnd |-> round']>>
    /\ UNCHANGED <<air, redis, acts, count, muddled>>

-----------------------------------------------------------------------------
(* The handlers.  A handler of a bid or of a start sends its commands as    *)
(* soon as the event is emitted.                                            *)

\* Fault: the displaced stay on the board.
AppliedToBidder(event) == [board EXCEPT ![event.user] = event.amount]

\* applyBidPlaced
Applied(event) ==
    [u \in Users |-> IF u = event.user THEN event.amount
                     ELSE IF u \in event.out THEN 0 ELSE board[u]]

BidPublished(i) ==
    LET event == air[i] IN
    /\ i \in DOMAIN air
    /\ air' = RemoveAt(air, i)
    /\ board' = Applied(event)
    /\ hash' = IF event.extended = <<>> THEN hash ELSE event.extended[1]
    /\ muddled' = muddled \cup
           Muddled("board", i > 1 \/ LoadOpen \/ event.during < burned - EndsUnderway) \cup
           Muddled("round", /\ event.extended # <<>>
                            /\ \/ event.during # burned \/ feed # <<>>
                               \/ ~At(Ending, "idle"))
    /\ UNCHANGED <<database, feed, meta, loaded, loading, acts, count>>

\* The event leaves the outbox, or stays in it to be emitted again.
Leaves ==
    \/ feed' = Tail(feed) /\ UNCHANGED count
    \/ /\ count.repeats < MaxRepeats
       /\ feed' = feed
       /\ count' = [count EXCEPT !.repeats = @ + 1]

RoundStartedEmitted ==
    /\ feed # <<>> /\ Head(feed).type = "RoundStarted"
    /\ Leaves
    /\ hash' = Head(feed).rnd
    /\ muddled' = muddled \cup
           Muddled("round", ~At(Ending, "idle") \/ Head(feed).rnd # round)
    /\ UNCHANGED <<database, air, meta, board, loaded, loading, acts>>

RoundEndedEmitted ==
    /\ feed # <<>> /\ Head(feed).type = "RoundEnded"
    /\ At(Ending, "idle")
    /\ Leaves
    /\ Goes(Ending, [Idle EXCEPT !.at = "ensure", !.won = Head(feed).won])
    /\ muddled' = muddled \cup Muddled("supply", feed' = feed)
    /\ UNCHANGED <<database, air, redis>>

\* Fault: only gifts that were won are gone.
BurnedPerWinner(done) == done + Cardinality(acts[Ending].won)

\* A round's gift is gone whether or not anybody won it.
Burned(done) == done + 1

\* applyRoundEnded after ensureMeta
WinnersRemoved ==
    /\ At(Ending, "remove")
    /\ board' = [u \in Users |-> IF u \in acts[Ending].won THEN 0 ELSE board[u]]
    /\ meta' = <<Burned(meta[1])>>
    /\ muddled' = muddled \cup
           Muddled("board", LoadOpen \/ acts[Ending].won \cap Bidders # {})
    /\ Moves(Ending, "clear")
    /\ UNCHANGED <<database, air, feed, hash, loaded, loading, count>>

RoundCleared ==
    /\ At(Ending, "clear")
    /\ hash' = NoRound
    /\ Goes(Ending, Idle)
    /\ UNCHANGED <<database, air, feed, meta, board, loaded, loading, count, muddled>>

-----------------------------------------------------------------------------
(* ensureMeta and ensureLeaderboardLoaded, called by every function *)

Ensured(a) == IF a = Ending THEN "remove" ELSE "load"

MetaRead(a) ==
    /\ At(a, "ensure")
    /\ IF meta # <<>>
         THEN Moves(a, Ensured(a)) /\ UNCHANGED muddled
         ELSE /\ Goes(a, [acts[a] EXCEPT !.at = "meta", !.done = burned])
              /\ muddled' = muddled \cup Muddled("supply", EndsUnderway > 0)
    /\ UNCHANGED <<database, air, feed, redis, count>>

MetaWritten(a) ==
    /\ At(a, "meta")
    /\ meta' = <<acts[a].done>>
    /\ muddled' = muddled \cup Muddled("supply", meta # <<>>)
    /\ Goes(a, [acts[a] EXCEPT !.at = "hash", !.done = 0, !.rnd = round])
    /\ UNCHANGED <<database, air, feed, hash, board, loaded, loading, count>>

RoundWarmed(a) ==
    /\ At(a, "hash")
    /\ hash' = acts[a].rnd
    /\ muddled' = muddled \cup Muddled("round", acts[a].rnd # round)
    /\ Goes(a, [acts[a] EXCEPT !.at = Ensured(a), !.rnd = NoRound])
    /\ UNCHANGED <<database, air, feed, meta, board, loaded, loading, count>>

AlreadyLoaded(a) ==
    /\ At(a, "load") /\ loaded
    /\ Goes(a, Idle)
    /\ UNCHANGED <<database, air, feed, redis, count, muddled>>

\* With the lock, or without it once the wait is over: done is 1 for the holder.
BidsRead(a) ==
    /\ At(a, "load") /\ ~loaded
    /\ loading' = TRUE
    /\ Goes(a, [acts[a] EXCEPT !.at = "zadd", !.top = bids, !.done = IF loading THEN 0 ELSE 1])
    /\ UNCHANGED <<database, air, feed, meta, hash, board, loaded, count, muddled>>

BidsAdded(a) ==
    /\ At(a, "zadd")
    /\ board' = [u \in Users |-> IF acts[a].top[u] > 0 THEN acts[a].top[u] ELSE board[u]]
    /\ loaded' = TRUE
    /\ loading' = (loading /\ acts[a].done = 0)
    /\ Goes(a, Idle)
    /\ UNCHANGED <<database, air, feed, meta, hash, count, muddled>>

ReaderComes(a) ==
    /\ At(a, "idle")
    /\ meta = <<>> \/ ~loaded
    /\ Goes(a, [Idle EXCEPT !.at = "ensure"])
    /\ UNCHANGED <<database, air, feed, redis, count, muddled>>

Next ==
    \/ \E u \in Users, amount \in 1..MaxAmount, extend, heard \in BOOLEAN :
          Bid(u, amount, extend, heard)
    \/ Complete
    \/ \E i \in 1..MaxBids : BidPublished(i)
    \/ RoundStartedEmitted \/ RoundEndedEmitted \/ WinnersRemoved \/ RoundCleared
    \/ \E a \in Readers :
        ReaderComes(a) \/ AlreadyLoaded(a) \/ BidsRead(a) \/ BidsAdded(a)
    \/ \E a \in Actors : MetaRead(a) \/ MetaWritten(a) \/ RoundWarmed(a)

Spec == Init /\ [][Next]_vars

-----------------------------------------------------------------------------
(* Properties *)

\* The variables have their types.
TypeOK ==
    /\ round.number \in 0..TotalRounds /\ burned \in 0..TotalRounds
    /\ {bids, board} \subseteq [Users -> 0..MaxAmount]
    /\ \A a \in Actors : acts[a].at \in Stages
    /\ loaded \in BOOLEAN /\ loading \in BOOLEAN
    /\ muddled \subseteq {"board", "supply", "round"}

\* Nothing is on its way: no event and no handler.
Settled == air = <<>> /\ feed = <<>> /\ \A a \in Actors : At(a, "idle")

\* The realtime state is never read from the database again once it is warm,
\* so what the handlers make of the events must be what a reading would
\* give: when nothing is on its way, the board is the active bids, unless an
\* event was not heard, came out of order or met a board that was loading.
BoardKeptTrue ==
    Settled /\ loaded /\ round # NoRound /\ "board" \notin muddled => board = bids

\* Likewise the gifts left, unless the supply was loaded after a completion
\* whose event was still to come, or twice, or an event came twice; and the
\* round, unless the handler of an end outlived the start that followed it.
SupplyAndRoundKeptTrue ==
    Settled /\ meta # <<>> =>
        /\ "supply" \notin muddled => meta = <<burned>>
        /\ "round" \notin muddled => hash = round

=============================================================================
