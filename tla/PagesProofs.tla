---------------------------- MODULE PagesProofs -----------------------------
(***************************************************************************)
(* Theorems about Realtime and about Drafts.  Of Realtime: what the events *)
(* under way will make of what Redis keeps, and that it is what a reading  *)
(* of the database would give.  Of Drafts: what a submission starts stays  *)
(* as it was submitted, and what the user typed last is not lost.          *)
(*                                                                         *)
(* The two have MCPages in common, which names the state of Drafts D.      *)
(***************************************************************************)
EXTENDS MCPages, Integers, SequenceTheorems, NaturalsInduction, WellFoundedInduction, TLAPS

-----------------------------------------------------------------------------
(* The inductive invariant. *)

RoundDoc == [number : Nat, extensions : Nat]
FeedEvent == [type : {"RoundEnded", "RoundStarted"}, won : SUBSET Users, rnd : RoundDoc]
BidEvent == [user : Users, amount : Nat, out : SUBSET Users, during : Nat,
             extended : Seq(RoundDoc)]
Act == [at : Stages, done : Nat, rnd : RoundDoc, top : [Users -> Nat], won : SUBSET Users]

IsEnd(i) == feed[i].type = "RoundEnded"
IsStart(i) == feed[i].type = "RoundStarted"
EndInFeed == \E i \in DOMAIN feed : IsEnd(i)
StartInFeed == \E i \in DOMAIN feed : IsStart(i)
Removing == acts[Ending].at \in {"ensure", "meta", "hash", "remove"}

\* Of two events in the outbox the first is the end of a round and the second the start of
\* the next.  Nothing but a reader loads bids, and rt:meta is there once a function goes on.
Types ==
    /\ round \in RoundDoc /\ bids \in [Users -> Nat] /\ burned \in Nat
    /\ air \in Seq(BidEvent) /\ feed \in Seq(FeedEvent)
    /\ meta = <<>> \/ \E n \in Nat : meta = <<n>>
    /\ board \in [Users -> Nat]
    /\ acts \in [Actors -> Act]
    /\ Len(feed) <= 2
    /\ Len(feed) = 2 => IsEnd(1) /\ IsStart(2)
    /\ \A a \in Actors : acts[a].at \in {"hash", "remove", "load", "zadd", "clear"} => meta # <<>>
    /\ \A a \in Readers : acts[a].at \notin {"remove", "clear"}
    /\ acts[Ending].at \notin {"load", "zadd"}

-----------------------------------------------------------------------------
(* Functions under way, and events. *)

LEMMA Names == Ending \notin Readers /\ Ending \in Actors /\ Readers \subseteq Actors
  BY RealtimeAssumption DEF Ending, Actors

LEMMA Docs == /\ NoRound \in RoundDoc /\ \A n \in Nat : Round(n) \in RoundDoc
              /\ \A n \in Nat : n > 0 => Round(n) # NoRound
  BY DEF NoRound, Round, RoundDoc

LEMMA IdleType == Idle \in Act /\ Idle.at = "idle"
  BY Docs DEF Idle, Act, NoBids, Stages

LEMMA ActWrites ==
  ASSUME Types, NEW a \in Actors, NEW act \in Act, Goes(a, act)
  PROVE  /\ acts' \in [Actors -> Act] /\ acts'[a] = act
         /\ \A b \in Actors \ {a} : acts'[b] = acts[b]
  BY DEF Types, Goes

LEMMA MoveWrites ==
  ASSUME Types, NEW a \in Actors, NEW stage \in Stages, Moves(a, stage)
  PROVE  /\ acts' \in [Actors -> Act]
         /\ acts'[a].at = stage /\ acts'[a].done = acts[a].done /\ acts'[a].rnd = acts[a].rnd
         /\ acts'[a].top = acts[a].top /\ acts'[a].won = acts[a].won
         /\ \A b \in Actors \ {a} : acts'[b] = acts[b]
  <1>1. acts[a] \in Act
    BY DEF Types
  <1>2. [acts[a] EXCEPT !.at = stage] \in Act
    BY <1>1 DEF Act
  <1>3. Goes(a, [acts[a] EXCEPT !.at = stage])
    BY DEF Moves
  <1>4. /\ acts' \in [Actors -> Act] /\ acts'[a] = [acts[a] EXCEPT !.at = stage]
        /\ \A b \in Actors \ {a} : acts'[b] = acts[b]
    BY <1>2, <1>3, ActWrites
  <1>5. QED
    BY <1>1, <1>4 DEF Act

\* The first event leaves the outbox or stays.
LEMMA LeavesWrites ==
  ASSUME Types, feed # <<>>, Leaves
  PROVE  /\ feed' \in Seq(FeedEvent) /\ Len(feed) \in 1..2 /\ Head(feed) = feed[1]
         /\ DOMAIN feed = 1..Len(feed) /\ feed[1] \in FeedEvent
         /\ \/ feed' = feed
            \/ Len(feed) = 1 /\ feed' = <<>>
            \/ /\ Len(feed) = 2 /\ Len(feed') = 1 /\ DOMAIN feed' = 1..1
               /\ feed'[1] = feed[2] /\ feed[2] \in FeedEvent
  <1>1. feed \in Seq(FeedEvent) /\ Len(feed) <= 2
    BY DEF Types
  <1>2. Len(feed) \in 1..2 /\ DOMAIN feed = 1..Len(feed)
    <2>1. Len(feed) \in Nat \ {0}
      BY <1>1, EmptySeq
    <2>2. DOMAIN feed = 1..Len(feed)
      BY <1>1, LenProperties
    <2>3. QED
      BY <1>1, <2>1, <2>2
  <1>3. feed[1] \in FeedEvent /\ (Len(feed) = 2 => feed[2] \in FeedEvent)
    BY <1>1, <1>2, ElementOfSeq
  <1>4. Head(feed) = feed[1]
    BY <1>1, <1>2
  <1>5. CASE feed' = feed
    BY <1>1, <1>2, <1>3, <1>4, <1>5
  <1>6. CASE feed' = Tail(feed)
    <2>1. /\ feed' \in Seq(FeedEvent) /\ Len(feed') = Len(feed) - 1
          /\ \A i \in 1..Len(feed') : feed'[i] = feed[i + 1]
      BY <1>1, <1>6, HeadTailProperties
    <2>2. DOMAIN feed' = 1..Len(feed')
      BY <2>1, LenProperties
    <2>3. CASE Len(feed) = 1
      BY <1>2, <1>3, <1>4, <2>1, <2>3, EmptySeq
    <2>4. CASE Len(feed) = 2
      BY <1>2, <1>3, <1>4, <2>1, <2>2, <2>4
    <2>5. QED
      BY <1>2, <2>3, <2>4
  <1>7. QED
    BY <1>5, <1>6 DEF Leaves

\* The i-th published bid leaves the others in their order.
LEMMA RemoveAtIs ==
  ASSUME NEW S, NEW s \in Seq(S), NEW i \in 1..Len(s)
  PROVE  /\ RemoveAt(s, i) \in Seq(S) /\ Len(RemoveAt(s, i)) = Len(s) - 1
         /\ \A j \in 1..Len(s) - 1 : RemoveAt(s, i)[j] = IF j < i THEN s[j] ELSE s[j + 1]
  <1>1. Len(s) \in Nat /\ i \in Nat /\ i <= Len(s) /\ i >= 1
    BY LenProperties
  <1> DEFINE p == SubSeq(s, 1, i - 1)
             q == SubSeq(s, i + 1, Len(s))
  <1>2. \A j \in 1..Len(s) : s[j] \in S
    BY ElementOfSeq
  <1>3. /\ p \in Seq(S) /\ Len(p) = i - 1 /\ \A j \in 1..i - 1 : p[j] = s[j]
    <2>1. /\ p \in Seq(S) /\ Len(p) = IF 1 <= i - 1 THEN i - 1 - 1 + 1 ELSE 0
          /\ \A j \in 1..i - 1 - 1 + 1 : p[j] = s[1 + j - 1]
      <3>1. \A j \in 1..i - 1 : s[j] \in S
        BY <1>1, <1>2
      <3>2. 1 \in Int /\ i - 1 \in Int
        BY <1>1
      <3>3. QED
        BY <3>1, <3>2, SubSeqProperties
    <2>2. QED
      BY <1>1, <2>1
  <1>4. /\ q \in Seq(S) /\ Len(q) = Len(s) - i /\ \A j \in 1..Len(s) - i : q[j] = s[i + j]
    <2>1. /\ q \in Seq(S) /\ Len(q) = IF i + 1 <= Len(s) THEN Len(s) - (i + 1) + 1 ELSE 0
          /\ \A j \in 1..Len(s) - (i + 1) + 1 : q[j] = s[(i + 1) + j - 1]
      <3>1. \A j \in i + 1..Len(s) : s[j] \in S
        BY <1>1, <1>2
      <3>2. i + 1 \in Int /\ Len(s) \in Int
        BY <1>1
      <3>3. QED
        BY <3>1, <3>2, SubSeqProperties
    <2>2. QED
      BY <1>1, <2>1
  <1>5. /\ p \o q \in Seq(S) /\ Len(p \o q) = Len(p) + Len(q)
        /\ \A j \in 1..Len(p) + Len(q) :
              (p \o q)[j] = IF j <= Len(p) THEN p[j] ELSE q[j - Len(p)]
    BY <1>3, <1>4, ConcatProperties
  <1>6. RemoveAt(s, i) = p \o q
    BY DEF RemoveAt
  <1> HIDE DEF p, q
  <1>7. \A j \in 1..Len(s) - 1 : (p \o q)[j] = IF j < i THEN s[j] ELSE s[j + 1]
    BY <1>1, <1>3, <1>4, <1>5
  <1>8. QED
    BY <1>1, <1>3, <1>4, <1>5, <1>6, <1>7

-----------------------------------------------------------------------------
(* Types. *)

ReaderStages == {"idle", "ensure", "meta", "hash", "load", "zadd"}
EndStages == {"idle", "ensure", "meta", "hash", "remove", "clear"}

\* Nothing but the place of one function changes, and perhaps what has been read of the round.
LEMMA ActsKeepTypes ==
  ASSUME Types, NEW a \in Actors, acts' \in [Actors -> Act],
         \A b \in Actors \ {a} : acts'[b] = acts[b],
         acts'[a].at \in {"hash", "remove", "load", "zadd", "clear"} => meta' # <<>>,
         a \in Readers => acts'[a].at \notin {"remove", "clear"},
         a = Ending => acts'[a].at \notin {"load", "zadd"},
         meta' = meta \/ \E n \in Nat : meta' = <<n>>,
         board' \in [Users -> Nat], UNCHANGED <<database, air, feed>>
  PROVE  Types'
  <1>1. \A b \in Actors : acts'[b].at \in {"hash", "remove", "load", "zadd", "clear"} =>
            meta' # <<>>
    <2>1. meta # <<>> => meta' # <<>>
      <3>1. \A n \in Nat : <<n>> # <<>>
        OBVIOUS
      <3>2. QED
        BY <3>1
    <2>2. ASSUME NEW b \in Actors, b # a,
                 acts'[b].at \in {"hash", "remove", "load", "zadd", "clear"}
          PROVE  meta # <<>>
      BY <2>2 DEF Types
    <2>3. QED
      BY <2>1, <2>2
  <1>2. \A b \in Readers : acts'[b].at \notin {"remove", "clear"}
    BY Names DEF Types
  <1>3. acts'[Ending].at \notin {"load", "zadd"}
    BY Names DEF Types
  <1>4. QED
    BY <1>1, <1>2, <1>3 DEF Types, database, IsEnd, IsStart

LEMMA ReadersKeepTypes ==
  ASSUME Types,
         \/ \E a \in Readers : ReaderComes(a) \/ AlreadyLoaded(a) \/ BidsRead(a) \/ BidsAdded(a)
         \/ \E a \in Actors : MetaRead(a) \/ MetaWritten(a) \/ RoundWarmed(a)
         \/ WinnersRemoved \/ RoundCleared
  PROVE  Types'
  <1>1. ASSUME NEW a \in Readers, ReaderComes(a)
        PROVE  Types'
    <2>1. [Idle EXCEPT !.at = "ensure"] \in Act
      BY IdleType DEF Act, Stages
    <2>2. QED
      <3>1. Goes(a, [Idle EXCEPT !.at = "ensure"])
        BY <1>1 DEF ReaderComes
      <3>2. [Idle EXCEPT !.at = "ensure"].at = "ensure"
        BY IdleType DEF Act
      <3>3. UNCHANGED <<database, air, feed, meta, board>>
        BY <1>1 DEF ReaderComes, redis
      <3>4. QED
        BY <2>1, <3>1, <3>2, <3>3, ActWrites, Names, ActsKeepTypes DEF Types
  <1>2. ASSUME NEW a \in Readers, AlreadyLoaded(a)
        PROVE  Types'
    BY <1>2, ActWrites, Names, ActsKeepTypes, IdleType DEF AlreadyLoaded, redis, Types
  <1>3. ASSUME NEW a \in Readers, BidsRead(a)
        PROVE  Types'
    <2>1. PICK n \in Nat : Goes(a, [acts[a] EXCEPT !.at = "zadd", !.top = bids, !.done = n])
      BY <1>3 DEF BidsRead
    <2>2. acts[a] \in Act
      BY Names DEF Types
    <2>3. [acts[a] EXCEPT !.at = "zadd", !.top = bids, !.done = n] \in Act
      BY <2>2 DEF Act, Types, Stages
    <2>4. [acts[a] EXCEPT !.at = "zadd", !.top = bids, !.done = n].at = "zadd"
      BY <2>2 DEF Act
    <2>5. meta # <<>>
      BY <1>3, Names DEF BidsRead, At, Types
    <2>6. UNCHANGED <<database, air, feed, meta, board>>
      BY <1>3 DEF BidsRead
    <2>7. QED
      BY <2>1, <2>3, <2>4, <2>5, <2>6, ActWrites, Names, ActsKeepTypes DEF Types
  <1>4. ASSUME NEW a \in Readers, BidsAdded(a)
        PROVE  Types'
    <2>1. board' \in [Users -> Nat]
      BY <1>4, Names DEF BidsAdded, Types, Act
    <2>2. Goes(a, Idle) /\ UNCHANGED <<database, air, feed, meta>>
      BY <1>4 DEF BidsAdded
    <2>3. QED
      BY <2>1, <2>2, ActWrites, Names, ActsKeepTypes, IdleType DEF Types
  <1>5. ASSUME NEW a \in Actors, MetaRead(a)
        PROVE  Types'
    <2>1. UNCHANGED <<database, air, feed, meta, board>>
      BY <1>5 DEF MetaRead, redis
    <2>2. CASE meta # <<>> /\ Moves(a, Ensured(a))
      BY <2>1, <2>2, MoveWrites, Names, ActsKeepTypes DEF Types, Ensured, Stages
    <2>3. CASE Goes(a, [acts[a] EXCEPT !.at = "meta", !.done = burned])
      <3>1. acts[a] \in Act
        BY DEF Types
      <3>2. [acts[a] EXCEPT !.at = "meta", !.done = burned] \in Act
        BY <3>1 DEF Act, Types, Stages
      <3>3. [acts[a] EXCEPT !.at = "meta", !.done = burned].at = "meta"
        BY <3>1 DEF Act
      <3>4. QED
        BY <2>1, <2>3, <3>2, <3>3, ActWrites, Names, ActsKeepTypes DEF Types
    <2>4. QED
      BY <1>5, <2>2, <2>3 DEF MetaRead
  <1>6. ASSUME NEW a \in Actors, MetaWritten(a)
        PROVE  Types'
    <2>1. acts[a] \in Act /\ round \in RoundDoc
      BY DEF Types
    <2>2. PICK n \in Nat : /\ n = 0
                           /\ Goes(a, [acts[a] EXCEPT !.at = "hash", !.done = n, !.rnd = round])
      BY <1>6 DEF MetaWritten
    <2>3. [acts[a] EXCEPT !.at = "hash", !.done = n, !.rnd = round] \in Act
      BY <2>1, <2>2 DEF Act, Stages
    <2>4. [acts[a] EXCEPT !.at = "hash", !.done = n, !.rnd = round].at = "hash"
      BY <2>1 DEF Act
    <2>5. meta' = <<acts[a].done>> /\ acts[a].done \in Nat
      BY <1>6, <2>1 DEF MetaWritten, Act
    <2>6. UNCHANGED <<database, air, feed, board>>
      BY <1>6 DEF MetaWritten
    <2>7. meta' # <<>>
      BY <2>5
    <2>8. QED
      BY <2>2, <2>3, <2>4, <2>5, <2>6, <2>7, ActWrites, Names, ActsKeepTypes DEF Types
  <1>7. ASSUME NEW a \in Actors, RoundWarmed(a)
        PROVE  Types'
    <2>1. acts[a] \in Act /\ meta # <<>>
      BY <1>7 DEF Types, RoundWarmed, At
    <2>2. [acts[a] EXCEPT !.at = Ensured(a), !.rnd = NoRound] \in Act
      BY <2>1, Docs DEF Act, Stages, Ensured
    <2>3. [acts[a] EXCEPT !.at = Ensured(a), !.rnd = NoRound].at = Ensured(a)
      BY <2>1 DEF Act
    <2>4. UNCHANGED <<database, air, feed, meta, board>>
      BY <1>7 DEF RoundWarmed
    <2>5. Goes(a, [acts[a] EXCEPT !.at = Ensured(a), !.rnd = NoRound])
      BY <1>7 DEF RoundWarmed
    <2>6. acts' \in [Actors -> Act] /\ acts'[a].at = Ensured(a)
          /\ \A b \in Actors \ {a} : acts'[b] = acts[b]
      BY <2>2, <2>3, <2>5, ActWrites
    <2>7. /\ a \in Readers => Ensured(a) = "load"
          /\ a = Ending => Ensured(a) = "remove"
      BY Names DEF Ensured
    <2>8. QED
      BY <2>1, <2>4, <2>6, <2>7, Names, ActsKeepTypes DEF Types
  <1>8. CASE WinnersRemoved
    <2>1. acts[Ending] \in Act /\ meta # <<>>
      BY <1>8, Names DEF WinnersRemoved, At, Types
    <2>2. PICK n \in Nat : meta = <<n>>
      BY <2>1 DEF Types
    <2>3. meta' = <<n + 1>> /\ n + 1 \in Nat
      BY <1>8, <2>2 DEF WinnersRemoved, Burned
    <2>4. board' \in [Users -> Nat]
      BY <1>8 DEF WinnersRemoved, Types
    <2>5. Moves(Ending, "clear") /\ UNCHANGED <<database, air, feed>>
      BY <1>8 DEF WinnersRemoved
    <2>6. meta' # <<>>
      BY <2>3
    <2>7. "clear" \in Stages
      BY DEF Stages
    <2>8. QED
      BY <2>3, <2>4, <2>5, <2>6, <2>7, MoveWrites, Names, ActsKeepTypes
  <1>9. CASE RoundCleared
    BY <1>9, ActWrites, Names, ActsKeepTypes, IdleType DEF RoundCleared, Types
  <1>10. QED
    BY <1>1, <1>2, <1>3, <1>4, <1>5, <1>6, <1>7, <1>8, <1>9

\* What a bid does, which displaces out.
BidDoes(u, amount, extend, heard, out) ==
    /\ bids' = [v \in Users |-> IF v = u THEN amount ELSE IF v \in out THEN 0 ELSE bids[v]]
    /\ u \notin out
    /\ heard => \E event \in BidEvent :
          /\ event = [user |-> u, amount |-> amount, out |-> out, during |-> burned,
                      extended |-> IF extend THEN <<round'>> ELSE <<>>]
          /\ air' = Append(air, event)
    /\ ~heard => air' = air
    /\ muddled' = muddled \cup
           Muddled("board", /\ ~heard
                            /\ \/ loaded \/ LoadOpen
                               \/ \E v \in out \cup {u} : InAir(v)
                               \/ \E v \in out : board[v] > 0) \cup
           Muddled("round", ~heard /\ extend /\ meta # <<>>)

LEMMA BidTypes ==
  ASSUME Types, NEW u \in Users, NEW amount \in 1..MaxAmount, NEW extend \in BOOLEAN,
         NEW heard \in BOOLEAN, Bid(u, amount, extend, heard)
  PROVE  /\ Types' /\ round # NoRound /\ UNCHANGED <<burned, feed, redis, acts>>
         /\ round' \in {round, [round EXCEPT !.extensions = 1]} /\ round' # NoRound
         /\ ~extend => round' = round
         /\ \E out \in SUBSET Users : BidDoes(u, amount, extend, heard, out)
  <1>1. PICK out \in SUBSET Users :
            /\ round # NoRound /\ Places(u, amount, out)
            /\ bids' = [v \in Users |-> IF v = u THEN amount ELSE IF v \in out THEN 0 ELSE bids[v]]
            /\ IF extend THEN /\ round.extensions = 0
                              /\ round' = [round EXCEPT !.extensions = 1]
                         ELSE round' = round
            /\ air' = IF heard
                      THEN Append(air, [user |-> u, amount |-> amount, out |-> out,
                                        during |-> burned,
                                        extended |-> IF extend THEN <<round'>> ELSE <<>>])
                      ELSE air
            /\ muddled' = muddled \cup
                   Muddled("board", /\ ~heard
                                    /\ \/ loaded \/ LoadOpen
                                       \/ \E v \in out \cup {u} : InAir(v)
                                       \/ \E v \in out : board[v] > 0) \cup
                   Muddled("round", ~heard /\ extend /\ meta # <<>>)
            /\ UNCHANGED <<burned, feed, redis, acts>>
    BY Zenon DEF Bid
  <1>2. amount \in Nat
    BY RealtimeAssumption
  <1>3. u \notin out
    BY <1>1 DEF Places
  <1>4. round' \in RoundDoc /\ round' # NoRound
        /\ round' \in {round, [round EXCEPT !.extensions = 1]} /\ (~extend => round' = round)
    BY <1>1 DEF RoundDoc, NoRound, Types
  <1>5. bids' \in [Users -> Nat]
    BY <1>1, <1>2 DEF Types
  <1> DEFINE extended == IF extend THEN <<round'>> ELSE <<>>
             event == [user |-> u, amount |-> amount, out |-> out, during |-> burned,
                       extended |-> extended]
  <1>6. extended \in Seq(RoundDoc)
    BY <1>4
  <1>7. event \in BidEvent
    BY <1>2, <1>6 DEF BidEvent, Types
  <1>8. heard => air' = Append(air, event)
    BY <1>1
  <1>9. ~heard => air' = air
    BY <1>1
  <1> HIDE DEF event
  <1>10. air' \in Seq(BidEvent)
    <2>1. air \in Seq(BidEvent)
      BY DEF Types
    <2>2. CASE heard
      BY <1>7, <1>8, <2>1, <2>2
    <2>3. QED
      BY <1>9, <2>1, <2>2
  <1>11. Types'
    BY <1>1, <1>4, <1>5, <1>10 DEF Types, redis, IsEnd, IsStart
  <1>12. QED
    BY <1>1, <1>3, <1>4, <1>7, <1>8, <1>9, <1>11 DEF event, BidDoes

\* The end of a round, and the start of the next or none.
LEMMA CompleteTypes ==
  ASSUME Types, Complete
  PROVE  /\ Types' /\ round # NoRound /\ feed = <<>> /\ At(Ending, "idle")
         /\ burned' = burned + 1 /\ UNCHANGED <<air, redis, acts, muddled>>
         /\ \E won \in SUBSET Users :
               /\ feed'[1] = [type |-> "RoundEnded", won |-> won, rnd |-> NoRound]
               /\ \/ round' = NoRound /\ DOMAIN feed' = {1}
                  \/ /\ DOMAIN feed' = {1, 2} /\ IsStart(2)'
                     /\ bids' = [u \in Users |-> IF u \in won THEN 0 ELSE bids[u]]
  <1>1. PICK won \in SUBSET Users :
            IF round.number = TotalRounds
            THEN /\ round' = NoRound /\ bids' = NoBids
                 /\ feed' = Append(feed, [type |-> "RoundEnded", won |-> won, rnd |-> NoRound])
            ELSE /\ round' = Round(round.number + 1)
                 /\ bids' = [u \in Users |-> IF u \in won THEN 0 ELSE bids[u]]
                 /\ feed' = feed \o <<[type |-> "RoundEnded", won |-> won, rnd |-> NoRound],
                                      [type |-> "RoundStarted", won |-> {}, rnd |-> round']>>
    BY DEF Complete, Bidders
  <1>2. /\ round # NoRound /\ feed = <<>> /\ At(Ending, "idle")
        /\ burned' = burned + 1 /\ UNCHANGED <<air, redis, acts, muddled>>
    BY DEF Complete
  <1>3. round' \in RoundDoc
    <2>1. round.number + 1 \in Nat
      BY DEF Types, RoundDoc
    <2>2. QED
      BY <1>1, <2>1, Docs
  <1> DEFINE end == [type |-> "RoundEnded", won |-> won, rnd |-> NoRound]
             start == [type |-> "RoundStarted", won |-> {}, rnd |-> round']
  <1>4. end \in FeedEvent /\ start \in FeedEvent /\ end.type = "RoundEnded" /\ start.type = "RoundStarted"
    BY <1>3, Docs DEF FeedEvent
  <1>5. bids' \in [Users -> Nat]
    BY <1>1 DEF Types, NoBids
  <1>6. \/ round' = NoRound /\ feed' = <<end>>
        \/ /\ feed' = <<end, start>>
           /\ bids' = [u \in Users |-> IF u \in won THEN 0 ELSE bids[u]]
    BY <1>1, <1>2
  <1> HIDE DEF end, start
  <1>7. feed' \in Seq(FeedEvent) /\ feed'[1] = end /\ Len(feed') \in 1..2
        /\ \/ round' = NoRound /\ DOMAIN feed' = {1} /\ Len(feed') = 1
           \/ /\ DOMAIN feed' = {1, 2} /\ feed'[2] = start
              /\ bids' = [u \in Users |-> IF u \in won THEN 0 ELSE bids[u]]
    <2>1. CASE round' = NoRound /\ feed' = <<end>>
      <3>1. feed' \in Seq(FeedEvent) /\ Len(feed') = 1 /\ feed'[1] = end
        BY <1>4, <2>1
      <3>2. DOMAIN feed' = 1..1
        BY <3>1, LenProperties
      <3>3. QED
        BY <2>1, <3>1, <3>2
    <2>2. CASE feed' = <<end, start>>
      <3>1. feed' \in Seq(FeedEvent) /\ Len(feed') = 2 /\ feed'[1] = end /\ feed'[2] = start
        BY <1>4, <2>2
      <3>2. DOMAIN feed' = 1..2
        BY <3>1, LenProperties
      <3>3. bids' = [u \in Users |-> IF u \in won THEN 0 ELSE bids[u]] \/ round' = NoRound
        BY <1>6
      <3>4. CASE round' = NoRound /\ bids' # [u \in Users |-> IF u \in won THEN 0 ELSE bids[u]]
        <4>1. feed' = <<end>>
          BY <1>6, <3>4
        <4>2. Len(feed') = 1
          BY <4>1
        <4>3. QED
          BY <3>1, <4>2
      <3>5. QED
        BY <3>1, <3>2, <3>3, <3>4
    <2>3. QED
      BY <1>6, <2>1, <2>2
  <1>8. Types'
    <2>1. Len(feed') <= 2 /\ (Len(feed') = 2 => IsEnd(1)' /\ IsStart(2)')
      <3>1. CASE Len(feed') = 1
        BY <3>1
      <3>2. CASE DOMAIN feed' = {1, 2} /\ feed'[2] = start
        <4>1. feed'[1].type = "RoundEnded" /\ feed'[2].type = "RoundStarted"
          BY <1>4, <1>7, <3>2
        <4>2. Len(feed') <= 2
          <5>1. CASE Len(feed') = 1
            BY <5>1
          <5>2. CASE Len(feed') = 2
            BY <5>2
          <5>3. QED
            BY <1>7, <5>1, <5>2
        <4>3. QED
          BY <4>1, <4>2 DEF IsEnd, IsStart
      <3>3. QED
        BY <1>7, <3>1, <3>2
    <2>2. burned' \in Nat
      BY <1>2 DEF Types
    <2>3. QED
      BY <1>2, <1>3, <1>5, <1>7, <2>1, <2>2 DEF Types, redis
  <1>9. QED
    BY <1>2, <1>4, <1>7, <1>8 DEF IsStart, end

LEMMA PublishedTypes ==
  ASSUME Types, NEW i \in 1..MaxBids, BidPublished(i)
  PROVE  /\ Types' /\ i \in 1..Len(air) /\ DOMAIN air = 1..Len(air) /\ air[i] \in BidEvent
         /\ DOMAIN air' = 1..Len(air) - 1
         /\ \A j \in 1..Len(air) - 1 : air'[j] = IF j < i THEN air[j] ELSE air[j + 1]
  <1>1. air \in Seq(BidEvent) /\ i \in DOMAIN air /\ air' = RemoveAt(air, i)
    BY DEF BidPublished, Types
  <1>2. DOMAIN air = 1..Len(air) /\ i \in 1..Len(air) /\ Len(air) \in Nat
    BY <1>1, LenProperties
  <1>3. /\ air' \in Seq(BidEvent) /\ Len(air') = Len(air) - 1
        /\ \A j \in 1..Len(air) - 1 : air'[j] = IF j < i THEN air[j] ELSE air[j + 1]
    BY <1>1, <1>2, RemoveAtIs
  <1>4. DOMAIN air' = 1..Len(air) - 1
    BY <1>3, LenProperties
  <1>5. air[i] \in BidEvent
    BY <1>1, <1>2, ElementOfSeq
  <1>6. board' \in [Users -> Nat]
    BY <1>5 DEF BidPublished, Applied, Types, BidEvent
  <1>7. UNCHANGED <<database, feed, meta, acts>>
    BY DEF BidPublished
  <1>8. Types'
    BY <1>3, <1>6, <1>7 DEF Types, database, IsEnd, IsStart
  <1>9. QED
    BY <1>2, <1>3, <1>4, <1>5, <1>8

LEMMA EmittedTypes ==
  ASSUME Types, RoundStartedEmitted \/ RoundEndedEmitted
  PROVE  Types'
  <1>1. feed # <<>> /\ Leaves
    BY DEF RoundStartedEmitted, RoundEndedEmitted
  <1>2. feed' \in Seq(FeedEvent) /\ Len(feed') <= 2
        /\ (Len(feed') = 2 => IsEnd(1)' /\ IsStart(2)')
    BY <1>1, LeavesWrites, EmptySeq DEF Types, IsEnd, IsStart
  <1>3. CASE RoundStartedEmitted
    BY <1>2, <1>3 DEF RoundStartedEmitted, Types, database
  <1>4. CASE RoundEndedEmitted
    <2>1. Head(feed).won \in SUBSET Users
      BY <1>1, LeavesWrites DEF FeedEvent
    <2>2. [Idle EXCEPT !.at = "ensure", !.won = Head(feed).won] \in Act
      BY <2>1, IdleType DEF Act, Stages
    <2>3. [Idle EXCEPT !.at = "ensure", !.won = Head(feed).won].at = "ensure"
      BY IdleType DEF Act
    <2>4. /\ acts' \in [Actors -> Act] /\ acts'[Ending].at = "ensure"
          /\ \A b \in Actors \ {Ending} : acts'[b] = acts[b]
      BY <1>4, <2>2, <2>3, ActWrites, Names DEF RoundEndedEmitted
    <2>5. UNCHANGED <<database, air, meta, board>>
      BY <1>4 DEF RoundEndedEmitted, redis
    <2>6. \A a \in Actors : acts'[a].at \in {"hash", "remove", "load", "zadd", "clear"} => meta' # <<>>
      BY <2>4, <2>5 DEF Types
    <2>7. \A a \in Readers : acts'[a].at \notin {"remove", "clear"}
      BY <2>4, Names DEF Types
    <2>8. QED
      BY <1>2, <2>4, <2>5, <2>6, <2>7 DEF Types, database
  <1>5. QED
    BY <1>3, <1>4

LEMMA InitTypes == Init => Types
  <1>1. SUFFICES ASSUME Init
                 PROVE  Types
    OBVIOUS
  <1>2. /\ round = Round(1) /\ bids = NoBids /\ burned = 0 /\ air = <<>> /\ feed = <<>>
        /\ meta = <<>> /\ board = NoBids /\ acts = [a \in Actors |-> Idle]
    BY <1>1 DEF Init
  <1>3. round \in RoundDoc /\ bids \in [Users -> Nat] /\ burned \in Nat
        /\ board \in [Users -> Nat]
    BY <1>2, Docs DEF NoBids
  <1>4. air \in Seq(BidEvent) /\ feed \in Seq(FeedEvent) /\ Len(feed) = 0
    BY <1>2, EmptySeq
  <1>5. acts \in [Actors -> Act] /\ \A a \in Actors : acts[a].at = "idle"
    BY <1>2, IdleType
  <1>6. QED
    BY <1>2, <1>3, <1>4, <1>5, Names DEF Types

LEMMA NextTypes == Types /\ [Next]_vars => Types'
  <1>1. SUFFICES ASSUME Types, [Next]_vars
                 PROVE  Types'
    OBVIOUS
  <1>2. CASE UNCHANGED vars
    BY <1>1, <1>2 DEF vars, database, redis, Types, IsEnd, IsStart
  <1>3. ASSUME NEW u \in Users, NEW amount \in 1..MaxAmount, NEW extend \in BOOLEAN,
               NEW heard \in BOOLEAN, Bid(u, amount, extend, heard)
        PROVE  Types'
    BY <1>3, <1>1, BidTypes
  <1>4. CASE Complete
    BY <1>4, <1>1, CompleteTypes
  <1>5. ASSUME NEW i \in 1..MaxBids, BidPublished(i)
        PROVE  Types'
    BY <1>5, <1>1, PublishedTypes
  <1>6. CASE RoundStartedEmitted \/ RoundEndedEmitted
    BY <1>6, <1>1, EmittedTypes
  <1>7. QED
    BY <1>1, <1>2, <1>3, <1>4, <1>5, <1>6, ReadersKeepTypes DEF Next

-----------------------------------------------------------------------------
(* The steps of a function, and what is left of the last completion. *)

\* Function a goes to a stage.
Reaches(a, stage) ==
    /\ acts' \in [Actors -> Act] /\ acts'[a].at = stage
    /\ \A b \in Actors \ {a} : acts'[b] = acts[b]

LEMMA ReaderSteps ==
  ASSUME Types, NEW a \in Readers
  PROVE  /\ ReaderComes(a) => Reaches(a, "ensure")
         /\ AlreadyLoaded(a) => Reaches(a, "idle")
         /\ BidsRead(a) => Reaches(a, "zadd") /\ acts'[a].top = bids
         /\ BidsAdded(a) => Reaches(a, "idle")
  <1>1. ASSUME ReaderComes(a) PROVE Reaches(a, "ensure")
    <2>1. Goes(a, [Idle EXCEPT !.at = "ensure"])
      BY <1>1 DEF ReaderComes
    <2>2. [Idle EXCEPT !.at = "ensure"] \in Act /\ [Idle EXCEPT !.at = "ensure"].at = "ensure"
      BY IdleType DEF Act, Stages
    <2>3. QED
      BY <2>1, <2>2, ActWrites, Names DEF Reaches
  <1>2. AlreadyLoaded(a) \/ BidsAdded(a) => Reaches(a, "idle")
    BY ActWrites, Names, IdleType DEF AlreadyLoaded, BidsAdded, Reaches
  <1>3. ASSUME BidsRead(a) PROVE Reaches(a, "zadd") /\ acts'[a].top = bids
    <2>1. PICK n \in Nat : Goes(a, [acts[a] EXCEPT !.at = "zadd", !.top = bids, !.done = n])
      BY <1>3 DEF BidsRead
    <2>2. acts[a] \in Act
      BY Names DEF Types
    <2> DEFINE act == [acts[a] EXCEPT !.at = "zadd", !.top = bids, !.done = n]
    <2>3. act \in Act /\ act.at = "zadd" /\ act.top = bids
      BY <2>2 DEF Act, Types, Stages
    <2> HIDE DEF act
    <2>4. Goes(a, act)
      BY <2>1 DEF act
    <2>5. QED
      BY <2>3, <2>4, ActWrites, Names DEF Reaches
  <1>4. QED
    BY <1>1, <1>2, <1>3

LEMMA MetaReadIs ==
  ASSUME Types, NEW a \in Actors, MetaRead(a)
  PROVE  /\ acts[a].at = "ensure" /\ acts'[a].won = acts[a].won
         /\ UNCHANGED <<database, air, feed, redis>>
         /\ \/ meta # <<>> /\ Reaches(a, Ensured(a)) /\ muddled' = muddled
            \/ /\ meta = <<>> /\ Reaches(a, "meta") /\ acts'[a].done = burned
               /\ muddled' = muddled \cup Muddled("supply", EndsUnderway > 0)
  <1>1. acts[a] \in Act
    BY DEF Types
  <1>2. CASE meta # <<>>
    <2>1. Moves(a, Ensured(a)) /\ muddled' = muddled
      BY <1>2 DEF MetaRead
    <2>2. Ensured(a) \in Stages
      BY DEF Ensured, Stages
    <2>3. QED
      BY <1>2, <2>1, <2>2, MoveWrites DEF MetaRead, At, Reaches
  <1>3. CASE meta = <<>>
    <2> DEFINE act == [acts[a] EXCEPT !.at = "meta", !.done = burned]
    <2>1. Goes(a, act) /\ muddled' = muddled \cup Muddled("supply", EndsUnderway > 0)
      BY <1>3 DEF MetaRead
    <2>2. act \in Act /\ act.at = "meta" /\ act.done = burned /\ act.won = acts[a].won
      BY <1>1 DEF Act, Types, Stages
    <2> HIDE DEF act
    <2>3. QED
      BY <1>3, <2>1, <2>2, ActWrites DEF MetaRead, At, Reaches
  <1>4. QED
    BY <1>2, <1>3

LEMMA MetaWrittenIs ==
  ASSUME Types, NEW a \in Actors, MetaWritten(a)
  PROVE  /\ acts[a].at = "meta" /\ acts'[a].won = acts[a].won
         /\ Reaches(a, "hash") /\ meta' = <<acts[a].done>> /\ acts[a].done \in Nat
         /\ muddled' = muddled \cup Muddled("supply", meta # <<>>)
         /\ UNCHANGED <<database, air, feed, hash, board, loaded>>
  <1>1. acts[a] \in Act /\ round \in RoundDoc
    BY DEF Types
  <1>2. PICK n \in Nat : /\ n = 0
                         /\ Goes(a, [acts[a] EXCEPT !.at = "hash", !.done = n, !.rnd = round])
    BY DEF MetaWritten
  <1> DEFINE act == [acts[a] EXCEPT !.at = "hash", !.done = n, !.rnd = round]
  <1>3. act \in Act /\ act.at = "hash" /\ act.won = acts[a].won /\ acts[a].done \in Nat
    BY <1>1 DEF Act, Stages
  <1>4. Goes(a, act)
    BY <1>2
  <1> HIDE DEF act
  <1>5. QED
    BY <1>3, <1>4, ActWrites DEF MetaWritten, At, Reaches

LEMMA RoundWarmedIs ==
  ASSUME Types, NEW a \in Actors, RoundWarmed(a)
  PROVE  /\ acts[a].at = "hash" /\ acts'[a].won = acts[a].won
         /\ Reaches(a, Ensured(a)) /\ hash' = acts[a].rnd
         /\ muddled' = muddled \cup Muddled("round", acts[a].rnd # round)
         /\ UNCHANGED <<database, air, feed, meta, board, loaded>>
  <1>1. acts[a] \in Act
    BY DEF Types
  <1> DEFINE act == [acts[a] EXCEPT !.at = Ensured(a), !.rnd = NoRound]
  <1>2. act \in Act /\ act.at = Ensured(a) /\ act.won = acts[a].won
    BY <1>1, Docs DEF Act, Stages, Ensured
  <1>3. Goes(a, act)
    BY DEF RoundWarmed
  <1> HIDE DEF act
  <1>4. QED
    BY <1>2, <1>3, ActWrites DEF RoundWarmed, At, Reaches

LEMMA RemovedIs ==
  ASSUME Types, WinnersRemoved
  PROVE  /\ acts[Ending].at = "remove" /\ Reaches(Ending, "clear")
         /\ acts[Ending].won \in SUBSET Users
         /\ board' = [u \in Users |-> IF u \in acts[Ending].won THEN 0 ELSE board[u]]
         /\ meta # <<>> /\ meta' = <<meta[1] + 1>>
         /\ muddled' = muddled \cup Muddled("board", LoadOpen \/ acts[Ending].won \cap Bidders # {})
         /\ UNCHANGED <<database, air, feed, hash, loaded>>
  <1>1. acts[Ending] \in Act /\ acts[Ending].at = "remove"
    BY Names DEF Types, WinnersRemoved, At
  <1>2. "clear" \in Stages
    BY DEF Stages
  <1>3. Reaches(Ending, "clear")
    BY <1>2, MoveWrites, Names DEF WinnersRemoved, Reaches
  <1>4. meta # <<>>
    BY <1>1, Names DEF Types
  <1>5. QED
    BY <1>1, <1>3, <1>4 DEF WinnersRemoved, Burned, Act

LEMMA ClearedIs ==
  ASSUME Types, RoundCleared
  PROVE  /\ acts[Ending].at = "clear" /\ Reaches(Ending, "idle") /\ hash' = NoRound
         /\ UNCHANGED <<database, air, feed, meta, board, loaded, muddled>>
  BY ActWrites, Names, IdleType DEF RoundCleared, At, Reaches

LEMMA EndedIs ==
  ASSUME Types, RoundEndedEmitted
  PROVE  /\ feed # <<>> /\ 1 \in DOMAIN feed /\ IsEnd(1) /\ Leaves /\ acts[Ending].at = "idle"
         /\ Reaches(Ending, "ensure") /\ acts'[Ending].won = feed[1].won
         /\ muddled' = muddled \cup Muddled("supply", feed' = feed)
         /\ UNCHANGED <<database, air, redis>>
  <1>1. /\ feed # <<>> /\ Leaves /\ Head(feed).type = "RoundEnded" /\ acts[Ending].at = "idle"
        /\ Goes(Ending, [Idle EXCEPT !.at = "ensure", !.won = Head(feed).won])
        /\ muddled' = muddled \cup Muddled("supply", feed' = feed)
        /\ UNCHANGED <<database, air, redis>>
    BY DEF RoundEndedEmitted, At
  <1>2. Head(feed) = feed[1] /\ feed[1] \in FeedEvent /\ 1 \in DOMAIN feed
    BY <1>1, LeavesWrites
  <1> DEFINE act == [Idle EXCEPT !.at = "ensure", !.won = feed[1].won]
  <1>3. act \in Act /\ act.at = "ensure" /\ act.won = feed[1].won
    BY <1>2, IdleType DEF Act, Stages, FeedEvent
  <1>4. Goes(Ending, act)
    BY <1>1, <1>2
  <1> HIDE DEF act
  <1>5. QED
    BY <1>1, <1>2, <1>3, <1>4, ActWrites, Names DEF Reaches, IsEnd

\* Nothing of the last completion is emitted or applied.
Calm ==
    /\ feed' = feed /\ acts'[Ending].won = acts[Ending].won
    /\ Removing' <=> Removing
    /\ acts'[Ending].at = "idle" <=> acts[Ending].at = "idle"

LEMMA CalmSteps ==
  ASSUME Types,
         \/ \E a \in Readers : ReaderComes(a) \/ AlreadyLoaded(a) \/ BidsRead(a) \/ BidsAdded(a)
         \/ \E a \in Actors : MetaRead(a) \/ MetaWritten(a) \/ RoundWarmed(a)
         \/ UNCHANGED <<feed, acts>>
  PROVE  Calm
  <1>1. ASSUME NEW a \in Readers,
               ReaderComes(a) \/ AlreadyLoaded(a) \/ BidsRead(a) \/ BidsAdded(a)
        PROVE  Calm
    <2>1. feed' = feed
      BY <1>1 DEF ReaderComes, AlreadyLoaded, BidsRead, BidsAdded
    <2>2. acts'[Ending] = acts[Ending]
      BY <1>1, ReaderSteps, Names DEF Reaches
    <2>3. QED
      BY <2>1, <2>2 DEF Calm, Removing
  <1>2. ASSUME NEW a \in Actors, MetaRead(a) \/ MetaWritten(a) \/ RoundWarmed(a)
        PROVE  Calm
    <2>1. /\ feed' = feed /\ acts'[a].won = acts[a].won
          /\ acts[a].at \in {"ensure", "meta", "hash"} /\ acts'[a].at \in {"meta", "hash", Ensured(a)}
          /\ \A b \in Actors \ {a} : acts'[b] = acts[b]
      BY <1>2, MetaReadIs, MetaWrittenIs, RoundWarmedIs DEF Reaches
    <2>2. CASE a = Ending
      BY <2>1, <2>2 DEF Calm, Removing, Ensured
    <2>3. CASE a # Ending
      BY <2>1, <2>3, Names DEF Calm, Removing
    <2>4. QED
      BY <2>2, <2>3
  <1>3. CASE UNCHANGED <<feed, acts>>
    BY <1>3 DEF Calm, Removing
  <1>4. QED
    BY <1>1, <1>2, <1>3

\* Users that the handler of an end has still to take off the board.
Leaving ==
    {u \in Users : \/ \E i \in DOMAIN feed : IsEnd(i) /\ u \in feed[i].won
                   \/ Removing /\ u \in acts[Ending].won}

LEMMA Ends ==
  /\ EndsUnderway = IF EndInFeed \/ Removing THEN 1 ELSE 0
  /\ EndsUnderway \in {0, 1}
  BY DEF EndsUnderway, EndInFeed, IsEnd, Removing

LEMMA CalmEnds ==
  ASSUME Calm
  PROVE  /\ EndsUnderway' = EndsUnderway /\ Leaving' = Leaving
         /\ EndInFeed' <=> EndInFeed
         /\ StartInFeed' <=> StartInFeed
  BY DEF Calm, EndsUnderway, Leaving, EndInFeed, StartInFeed, IsEnd, IsStart, Removing

LEMMA CompleteEnds ==
  ASSUME Types, Complete
  PROVE  /\ EndsUnderway = 0 /\ EndsUnderway' = 1 /\ ~Removing' /\ EndInFeed'
         /\ acts'[Ending].at = "idle" /\ ~EndInFeed /\ ~StartInFeed
  <1>1. feed = <<>> /\ acts[Ending].at = "idle" /\ acts' = acts
    BY CompleteTypes DEF At
  <1>2. PICK won \in SUBSET Users :
            /\ feed'[1] = [type |-> "RoundEnded", won |-> won, rnd |-> NoRound]
            /\ 1 \in DOMAIN feed'
    BY CompleteTypes
  <1>3. EndInFeed' /\ ~Removing' /\ ~EndInFeed /\ ~Removing /\ ~StartInFeed
    <2>1. DOMAIN feed = {}
      BY <1>1
    <2>2. QED
      BY <1>1, <1>2, <2>1 DEF EndInFeed, StartInFeed, IsEnd, Removing
  <1>4. QED
    BY <1>1, <1>3 DEF EndsUnderway, EndInFeed, IsEnd, Removing

LEMMA EndedEnds ==
  ASSUME Types, RoundEndedEmitted
  PROVE  /\ EndsUnderway = 1 /\ EndsUnderway' = 1 /\ ~Removing /\ Removing' /\ EndInFeed
         /\ feed' # feed => ~EndInFeed'
         /\ StartInFeed' <=> StartInFeed
         /\ feed' = <<>> => ~StartInFeed
         /\ Leaving' = Leaving
  <1>1. /\ feed # <<>> /\ IsEnd(1) /\ 1 \in DOMAIN feed /\ Leaves /\ acts[Ending].at = "idle"
        /\ acts'[Ending].at = "ensure" /\ acts'[Ending].won = feed[1].won
    BY EndedIs DEF Reaches
  <1>2. ~Removing /\ Removing' /\ EndInFeed
    BY <1>1 DEF Removing, EndInFeed
  <1>3. EndsUnderway = 1 /\ EndsUnderway' = 1
    BY <1>2 DEF EndsUnderway, EndInFeed, IsEnd, Removing
  <1>4. CASE feed' = feed
    BY <1>1, <1>2, <1>3, <1>4 DEF StartInFeed, IsStart, Leaving, IsEnd
  <1>5. CASE Len(feed) = 1 /\ feed' = <<>>
    <2>1. DOMAIN feed = {1} /\ DOMAIN feed' = {}
      BY <1>1, <1>5, LeavesWrites
    <2>2. QED
      BY <1>1, <1>2, <1>3, <2>1 DEF StartInFeed, IsStart, EndInFeed, Leaving, IsEnd
  <1>6. CASE Len(feed) = 2 /\ Len(feed') = 1 /\ DOMAIN feed' = 1..1 /\ feed'[1] = feed[2]
    <2>1. DOMAIN feed = {1, 2} /\ DOMAIN feed' = {1} /\ IsStart(2) /\ feed' # <<>>
      <3>1. DOMAIN feed = 1..2
        BY <1>1, <1>6, LeavesWrites
      <3>2. IsStart(2)
        BY <1>6 DEF Types
      <3>3. feed' # <<>>
        BY <1>6
      <3>4. QED
        BY <1>6, <3>1, <3>2, <3>3
    <2>2. QED
      BY <1>1, <1>2, <1>3, <1>6, <2>1 DEF StartInFeed, IsStart, EndInFeed, Leaving, IsEnd
  <1>7. QED
    BY <1>1, <1>4, <1>5, <1>6, LeavesWrites

LEMMA StartedIs ==
  ASSUME Types, RoundStartedEmitted
  PROVE  /\ EndsUnderway' = EndsUnderway /\ (Removing' <=> Removing)
         /\ ~EndInFeed /\ ~EndInFeed' /\ StartInFeed
         /\ Leaving' = Leaving /\ (feed' = feed \/ feed' = <<>>)
         /\ feed # <<>> /\ hash' = feed[1].rnd
         /\ muddled' = muddled \cup
                Muddled("round", acts[Ending].at # "idle" \/ feed[1].rnd # round)
         /\ UNCHANGED <<database, air, meta, board, loaded, acts>>
  <1>1. /\ feed # <<>> /\ Head(feed).type = "RoundStarted" /\ Leaves /\ hash' = Head(feed).rnd
        /\ muddled' = muddled \cup
                Muddled("round", acts[Ending].at # "idle" \/ Head(feed).rnd # round)
        /\ UNCHANGED <<database, air, meta, board, loaded, acts>>
    BY DEF RoundStartedEmitted, At
  <1>2. Head(feed) = feed[1] /\ DOMAIN feed = 1..Len(feed) /\ Len(feed) \in 1..2
    BY <1>1, LeavesWrites
  <1>3. Len(feed) # 2
    BY <1>1, <1>2 DEF Types, IsEnd
  <1>4. DOMAIN feed = {1}
    BY <1>2, <1>3
  <1>5. feed' = feed \/ feed' = <<>>
    BY <1>1, <1>3, LeavesWrites
  <1>6. ~EndInFeed /\ ~EndInFeed' /\ StartInFeed
    <2>1. DOMAIN feed' \subseteq {1} /\ (1 \in DOMAIN feed' => feed' = feed)
      BY <1>4, <1>5
    <2>2. QED
      BY <1>1, <1>2, <1>4, <2>1 DEF EndInFeed, StartInFeed, IsEnd, IsStart
  <1>7. (Removing' <=> Removing) /\ acts'[Ending].won = acts[Ending].won
    BY <1>1 DEF Removing
  <1>8. EndsUnderway' = EndsUnderway /\ Leaving' = Leaving
    BY <1>6, <1>7 DEF EndsUnderway, EndInFeed, IsEnd, Removing, Leaving
  <1>9. QED
    BY <1>1, <1>2, <1>5, <1>6, <1>7, <1>8

LEMMA RemovedEnds ==
  ASSUME Types, WinnersRemoved
  PROVE  /\ Removing /\ ~Removing' /\ EndsUnderway = 1
         /\ EndInFeed' <=> EndInFeed
         /\ StartInFeed' <=> StartInFeed
         /\ EndsUnderway' = IF EndInFeed THEN 1 ELSE 0
         /\ acts'[Ending].at = "clear"
         /\ Leaving' \subseteq Leaving /\ Leaving \subseteq Leaving' \cup acts[Ending].won
  <1>1. feed' = feed /\ acts[Ending].at = "remove" /\ acts'[Ending].at = "clear"
    BY RemovedIs DEF Reaches
  <1>2. QED
    BY <1>1 DEF EndsUnderway, EndInFeed, StartInFeed, IsEnd, IsStart, Removing, Leaving

LEMMA ClearedEnds ==
  ASSUME Types, RoundCleared
  PROVE  /\ ~Removing /\ ~Removing' /\ EndsUnderway' = EndsUnderway
         /\ EndInFeed' <=> EndInFeed
         /\ StartInFeed' <=> StartInFeed
         /\ acts[Ending].at = "clear" /\ acts'[Ending].at = "idle"
         /\ Leaving' = Leaving
  <1>1. feed' = feed /\ acts[Ending].at = "clear" /\ acts'[Ending].at = "idle"
    BY ClearedIs DEF Reaches
  <1>2. QED
    BY <1>1 DEF EndsUnderway, EndInFeed, StartInFeed, IsEnd, IsStart, Removing, Leaving

-----------------------------------------------------------------------------
(* The gifts left. *)

\* What rt:meta says, and what a function is about to write there, lacks the completion of
\* which RoundEnded is still to be applied, and nothing else.
SupplyInv ==
    "supply" \notin muddled =>
        /\ ~(EndInFeed /\ Removing)
        /\ meta # <<>> => meta[1] + EndsUnderway = burned
        /\ \A a \in Actors :
              acts[a].at = "meta" /\ meta = <<>> => acts[a].done + EndsUnderway = burned

LEMMA SupplySame ==
  ASSUME SupplyInv, "supply" \notin muddled' => "supply" \notin muddled,
         UNCHANGED <<burned, meta>>, EndsUnderway' = EndsUnderway,
         EndInFeed' /\ Removing' => EndInFeed /\ Removing,
         \A a \in Actors : acts'[a].at = "meta" => acts'[a] = acts[a]
  PROVE  SupplyInv'
  BY DEF SupplyInv

LEMMA SupplySteps ==
  ASSUME Types, SupplyInv, [Next]_vars
  PROVE  SupplyInv'
  <1>1. CASE UNCHANGED vars
    BY <1>1 DEF vars, database, redis, SupplyInv, EndInFeed, IsEnd, Removing, EndsUnderway
  <1>2. ASSUME NEW u \in Users, NEW amount \in 1..MaxAmount, NEW extend \in BOOLEAN,
               NEW heard \in BOOLEAN, Bid(u, amount, extend, heard)
        PROVE  SupplyInv'
    <2>1. UNCHANGED <<burned, feed, redis, acts>>
      BY <1>2, BidTypes
    <2>2. muddled \subseteq muddled'
      BY <1>2, BidTypes DEF BidDoes
    <2>3. Calm
      BY <2>1, CalmSteps
    <2>4. QED
      BY <2>1, <2>2, <2>3, CalmEnds, SupplySame DEF redis, Calm
  <1>3. CASE Complete
    <2>1. burned' = burned + 1 /\ UNCHANGED <<meta, acts, muddled>>
      BY <1>3, CompleteTypes DEF redis
    <2>2. EndsUnderway = 0 /\ EndsUnderway' = 1 /\ ~Removing'
      BY <1>3, CompleteEnds
    <2>3. burned \in Nat
      BY DEF Types
    <2>4. meta = <<>> \/ meta[1] \in Nat
      BY DEF Types
    <2>5. \A a \in Actors : acts[a].done \in Nat
      BY DEF Types, Act
    <2>6. QED
      BY <2>1, <2>2, <2>3, <2>4, <2>5 DEF SupplyInv
  <1>4. ASSUME NEW i \in 1..MaxBids, BidPublished(i)
        PROVE  SupplyInv'
    <2>1. UNCHANGED <<burned, feed, meta, acts>>
      BY <1>4 DEF BidPublished, database
    <2>2. "supply" \notin muddled' => "supply" \notin muddled
      BY <1>4 DEF BidPublished
    <2>3. Calm
      BY <2>1, CalmSteps
    <2>4. QED
      BY <2>1, <2>2, <2>3, CalmEnds, SupplySame DEF Calm
  <1>5. CASE RoundStartedEmitted
    <2>1. muddled \subseteq muddled' /\ UNCHANGED <<burned, meta, acts>>
      BY <1>5, StartedIs DEF database
    <2>2. QED
      BY <1>5, <2>1, StartedIs, SupplySame
  <1>6. CASE RoundEndedEmitted
    <2>1. /\ muddled' = muddled \cup Muddled("supply", feed' = feed)
          /\ UNCHANGED <<burned, meta>> /\ Reaches(Ending, "ensure")
      BY <1>6, EndedIs DEF database, redis
    <2>2. SUFFICES ASSUME "supply" \notin muddled'
                   PROVE  SupplyInv'
      BY DEF SupplyInv
    <2>3. feed' # feed /\ "supply" \notin muddled
      BY <2>1, <2>2 DEF Muddled
    <2>4. \A a \in Actors : acts'[a].at = "meta" => acts'[a] = acts[a]
      BY <2>1 DEF Reaches
    <2>5. QED
      BY <1>6, <2>1, <2>3, <2>4, EndedEnds, SupplySame
  <1>7. CASE WinnersRemoved
    <2>1. PICK n \in Nat : meta = <<n>>
      BY <1>7, RemovedIs DEF Types
    <2>2. meta' = <<n + 1>> /\ burned' = burned /\ burned \in Nat
      BY <1>7, <2>1, RemovedIs DEF database, Types
    <2>3. SUFFICES ASSUME "supply" \notin muddled'
                   PROVE  SupplyInv'
      BY DEF SupplyInv
    <2>4. "supply" \notin muddled
      BY <1>7, <2>3, RemovedIs
    <2>5. ~EndInFeed /\ EndsUnderway = 1 /\ EndsUnderway' = 0 /\ ~Removing'
      BY <1>7, <2>4, RemovedEnds DEF SupplyInv
    <2>6. n + 1 = burned
      BY <2>1, <2>4, <2>5 DEF SupplyInv
    <2>7. QED
      BY <2>2, <2>5, <2>6 DEF SupplyInv
  <1>8. CASE RoundCleared
    <2>1. Reaches(Ending, "idle") /\ UNCHANGED <<burned, meta, muddled>>
      BY <1>8, ClearedIs DEF database
    <2>2. \A a \in Actors : acts'[a].at = "meta" => acts'[a] = acts[a]
      BY <2>1 DEF Reaches
    <2>3. QED
      BY <1>8, <2>1, <2>2, ClearedEnds, SupplySame
  <1>9. ASSUME NEW a \in Readers,
               ReaderComes(a) \/ AlreadyLoaded(a) \/ BidsRead(a) \/ BidsAdded(a)
        PROVE  SupplyInv'
    <2>1. Calm
      BY <1>9, CalmSteps
    <2>2. UNCHANGED <<burned, meta, muddled>>
      BY <1>9 DEF ReaderComes, AlreadyLoaded, BidsRead, BidsAdded, database, redis
    <2>3. \A b \in Actors : acts'[b].at = "meta" => acts'[b] = acts[b]
      BY <1>9, ReaderSteps DEF Reaches
    <2>4. QED
      BY <2>1, <2>2, <2>3, CalmEnds, SupplySame DEF Calm
  <1>10. ASSUME NEW a \in Actors, MetaRead(a)
         PROVE  SupplyInv'
    <2>1. Calm
      BY <1>10, CalmSteps
    <2>2. UNCHANGED <<burned, meta>>
      BY <1>10, MetaReadIs DEF database, redis
    <2>3. CASE Reaches(a, Ensured(a)) /\ muddled' = muddled
      <3>1. \A b \in Actors : acts'[b].at = "meta" => acts'[b] = acts[b]
        BY <2>3 DEF Reaches, Ensured
      <3>2. QED
        BY <2>1, <2>2, <2>3, <3>1, CalmEnds, SupplySame DEF Calm
    <2>4. CASE /\ meta = <<>> /\ Reaches(a, "meta") /\ acts'[a].done = burned
               /\ muddled' = muddled \cup Muddled("supply", EndsUnderway > 0)
      <3>1. SUFFICES ASSUME "supply" \notin muddled'
                     PROVE  SupplyInv'
        BY DEF SupplyInv
      <3>2. "supply" \notin muddled /\ ~(EndsUnderway > 0)
        BY <2>4, <3>1 DEF Muddled
      <3>3. EndsUnderway = 0 /\ EndsUnderway' = 0
        BY <2>1, <3>2, Ends, CalmEnds
      <3>4. burned + 0 = burned
        BY DEF Types
      <3>5. \A b \in Actors \ {a} : acts'[b] = acts[b]
        BY <2>4 DEF Reaches
      <3>6. ~(EndInFeed' /\ Removing')
        BY <2>1, <3>2, CalmEnds DEF SupplyInv, Calm
      <3>7. QED
        BY <2>2, <2>4, <3>2, <3>3, <3>4, <3>5, <3>6 DEF SupplyInv
    <2>5. QED
      BY <1>10, <2>3, <2>4, MetaReadIs
  <1>11. ASSUME NEW a \in Actors, MetaWritten(a)
         PROVE  SupplyInv'
    <2>1. Calm
      BY <1>11, CalmSteps
    <2>2. /\ acts[a].at = "meta" /\ meta' = <<acts[a].done>> /\ burned' = burned
          /\ muddled' = muddled \cup Muddled("supply", meta # <<>>)
      BY <1>11, MetaWrittenIs DEF database
    <2>3. SUFFICES ASSUME "supply" \notin muddled'
                   PROVE  SupplyInv'
      BY DEF SupplyInv
    <2>4. "supply" \notin muddled /\ meta = <<>>
      BY <2>2, <2>3 DEF Muddled
    <2>5. acts[a].done + EndsUnderway = burned
      BY <2>2, <2>4 DEF SupplyInv
    <2>6. meta' # <<>> /\ meta'[1] = acts[a].done
      BY <2>2
    <2>7. ~(EndInFeed' /\ Removing') /\ EndsUnderway' = EndsUnderway
      BY <2>1, <2>4, CalmEnds DEF SupplyInv, Calm
    <2>8. QED
      BY <2>2, <2>5, <2>6, <2>7 DEF SupplyInv
  <1>12. ASSUME NEW a \in Actors, RoundWarmed(a)
         PROVE  SupplyInv'
    <2>1. Calm
      BY <1>12, CalmSteps
    <2>2. Reaches(a, Ensured(a)) /\ UNCHANGED <<burned, meta>> /\ muddled \subseteq muddled'
      BY <1>12, RoundWarmedIs DEF database
    <2>3. \A b \in Actors : acts'[b].at = "meta" => acts'[b] = acts[b]
      BY <2>2 DEF Reaches, Ensured
    <2>4. QED
      BY <2>1, <2>2, <2>3, CalmEnds, SupplySame DEF Calm
  <1>13. QED
    BY <1>1, <1>2, <1>3, <1>4, <1>5, <1>6, <1>7, <1>8, <1>9, <1>10, <1>11, <1>12 DEF Next

-----------------------------------------------------------------------------
(* The events of bids. *)

\* Only of the round that is active does an event know that it was extended.
AirInv ==
    \A i \in DOMAIN air :
        /\ air[i].during <= burned
        /\ air[i].extended # <<>> /\ air[i].during = burned =>
              air[i].extended = <<round>> /\ round.extensions = 1

LEMMA EventTypes ==
  ASSUME Types
  PROVE  /\ DOMAIN air = 1..Len(air) /\ Len(air) \in Nat
         /\ \A i \in DOMAIN air : air[i] \in BidEvent
  <1>1. air \in Seq(BidEvent)
    BY DEF Types
  <1>2. DOMAIN air = 1..Len(air) /\ Len(air) \in Nat
    BY <1>1, LenProperties
  <1>3. QED
    BY <1>1, <1>2, ElementOfSeq

LEMMA HeardIs ==
  ASSUME Types, NEW event \in BidEvent, air' = Append(air, event)
  PROVE  /\ DOMAIN air' = 1..Len(air) + 1
         /\ \A j \in DOMAIN air : air'[j] = air[j]
         /\ air'[Len(air) + 1] = event
  <1>1. air \in Seq(BidEvent)
    BY DEF Types
  <1>2. /\ air' \in Seq(BidEvent) /\ Len(air') = Len(air) + 1
        /\ \A j \in 1..Len(air) : air'[j] = air[j]
        /\ air'[Len(air) + 1] = event
    BY <1>1, AppendProperties
  <1>3. DOMAIN air' = 1..Len(air')
    BY <1>2, LenProperties
  <1>4. QED
    BY <1>2, <1>3, EventTypes

\* A bid that is not heard of is as good as one that is, as far as the old events go.
LEMMA BidAir ==
  ASSUME Types, AirInv, NEW u \in Users, NEW amount \in 1..MaxAmount, NEW extend \in BOOLEAN,
         NEW heard \in BOOLEAN, Bid(u, amount, extend, heard)
  PROVE  AirInv'
  <1>1. burned' = burned /\ round \in RoundDoc /\ burned \in Nat
    BY BidTypes DEF Types
  <1>2. PICK out \in SUBSET Users : BidDoes(u, amount, extend, heard, out)
    BY BidTypes
  <1>3. ~extend => round' = round
    BY BidTypes
  <1>4. extend => round' = [round EXCEPT !.extensions = 1] /\ round.extensions = 0
    BY DEF Bid
  <1>5. extend => round'.extensions = 1
    BY <1>1, <1>4 DEF RoundDoc
  <1>6. ASSUME NEW i \in DOMAIN air, air'[i] = air[i]
        PROVE  /\ air'[i].during <= burned'
               /\ air'[i].extended # <<>> /\ air'[i].during = burned' =>
                     air'[i].extended = <<round'>> /\ round'.extensions = 1
    <2>1. CASE extend
      <3>1. ~(air[i].extended # <<>> /\ air[i].during = burned)
        BY <1>4, <2>1 DEF AirInv
      <3>2. QED
        BY <1>1, <1>6, <3>1 DEF AirInv
    <2>2. CASE ~extend
      BY <1>1, <1>6, <1>3, <2>2 DEF AirInv
    <2>3. QED
      BY <2>1, <2>2
  <1>7. CASE heard
    <2>1. PICK event \in BidEvent :
              /\ event.during = burned
              /\ event.extended = IF extend THEN <<round'>> ELSE <<>>
              /\ air' = Append(air, event)
      <3>1. PICK event \in BidEvent :
              /\ event = [user |-> u, amount |-> amount, out |-> out, during |-> burned,
                          extended |-> IF extend THEN <<round'>> ELSE <<>>]
              /\ air' = Append(air, event)
        BY <1>7, <1>2 DEF BidDoes
      <3>2. QED
        BY <3>1
    <2>2. /\ DOMAIN air' = 1..Len(air) + 1 /\ DOMAIN air = 1..Len(air) /\ Len(air) \in Nat
          /\ \A j \in DOMAIN air : air'[j] = air[j]
          /\ air'[Len(air) + 1] = event
      BY <2>1, HeardIs, EventTypes
    <2>3. /\ event.during <= burned'
          /\ event.extended # <<>> => event.extended = <<round'>> /\ round'.extensions = 1
      BY <1>1, <1>5, <2>1
    <2>4. SUFFICES ASSUME NEW i \in DOMAIN air'
                   PROVE  /\ air'[i].during <= burned'
                          /\ air'[i].extended # <<>> /\ air'[i].during = burned' =>
                                air'[i].extended = <<round'>> /\ round'.extensions = 1
      BY DEF AirInv
    <2>5. i \in DOMAIN air \/ i = Len(air) + 1
      BY <2>2
    <2>6. QED
      BY <1>6, <2>2, <2>3, <2>5
  <1>8. CASE ~heard
    <2>1. air' = air
      BY <1>8, <1>2 DEF BidDoes
    <2>2. QED
      BY <1>6, <2>1 DEF AirInv
  <1>9. QED
    BY <1>7, <1>8

LEMMA AirSteps ==
  ASSUME Types, AirInv, [Next]_vars
  PROVE  AirInv'
  <1>1. ASSUME UNCHANGED <<air, burned, round>>
        PROVE  AirInv'
    BY <1>1 DEF AirInv
  <1>2. ASSUME NEW u \in Users, NEW amount \in 1..MaxAmount, NEW extend \in BOOLEAN,
               NEW heard \in BOOLEAN, Bid(u, amount, extend, heard)
        PROVE  AirInv'
    BY <1>2, BidAir
  <1>3. CASE Complete
    <2>1. air' = air /\ burned' = burned + 1 /\ burned \in Nat
      BY <1>3, CompleteTypes DEF Types
    <2>2. \A i \in DOMAIN air : air[i].during \in Nat
      BY EventTypes DEF BidEvent
    <2>3. QED
      BY <2>1, <2>2 DEF AirInv
  <1>4. ASSUME NEW i \in 1..MaxBids, BidPublished(i)
        PROVE  AirInv'
    <2>1. UNCHANGED <<burned, round>>
      BY <1>4 DEF BidPublished, database
    <2>2. \A j \in DOMAIN air' : \E k \in DOMAIN air : air'[j] = air[k]
      <3>1. /\ i \in 1..Len(air) /\ DOMAIN air = 1..Len(air) /\ DOMAIN air' = 1..Len(air) - 1
            /\ Len(air) \in Nat
            /\ \A j \in 1..Len(air) - 1 : air'[j] = IF j < i THEN air[j] ELSE air[j + 1]
        BY <1>4, PublishedTypes, EventTypes
      <3>2. QED
        BY <3>1
    <2>3. QED
      BY <2>1, <2>2 DEF AirInv
  <1>5. CASE RoundStartedEmitted \/ RoundEndedEmitted \/ WinnersRemoved \/ RoundCleared
    BY <1>1, <1>5 DEF RoundStartedEmitted, RoundEndedEmitted, WinnersRemoved, RoundCleared, database
  <1>6. ASSUME NEW a \in Readers,
               ReaderComes(a) \/ AlreadyLoaded(a) \/ BidsRead(a) \/ BidsAdded(a)
        PROVE  AirInv'
    BY <1>1, <1>6 DEF ReaderComes, AlreadyLoaded, BidsRead, BidsAdded, database
  <1>7. ASSUME NEW a \in Actors, MetaRead(a) \/ MetaWritten(a) \/ RoundWarmed(a)
        PROVE  AirInv'
    BY <1>1, <1>7 DEF MetaRead, MetaWritten, RoundWarmed, database
  <1>8. CASE UNCHANGED vars
    BY <1>1, <1>8 DEF vars, database
  <1>9. QED
    BY <1>2, <1>3, <1>4, <1>5, <1>6, <1>7, <1>8 DEF Next

-----------------------------------------------------------------------------
(* The round that rt:round keeps. *)

\* No round is active while its end is the last event.  Else what Redis says of the round is
\* true, or a function is about to write it, or a bid that extended it is to be published.
RoundInv ==
    "round" \notin muddled =>
        /\ (EndInFeed \/ acts[Ending].at # "idle") /\ ~StartInFeed => round = NoRound
        /\ meta # <<>> /\ feed = <<>> /\ acts[Ending].at = "idle" =>
              \/ \E a \in Actors : acts[a].at = "hash"
              \/ hash = round
              \/ \E i \in DOMAIN air : air[i].extended # <<>>

LEMMA RoundSame ==
  ASSUME RoundInv, "round" \notin muddled' => "round" \notin muddled, Calm,
         UNCHANGED <<round, hash, air>>, meta' # <<>> => meta # <<>>,
         \A a \in Actors : acts[a].at = "hash" => acts'[a] = acts[a]
  PROVE  RoundInv'
  <1>1. /\ EndInFeed' <=> EndInFeed
        /\ StartInFeed' <=> StartInFeed
        /\ acts'[Ending].at = "idle" <=> acts[Ending].at = "idle"
        /\ feed' = feed
    BY CalmEnds DEF Calm
  <1>2. QED
    BY <1>1 DEF RoundInv

LEMMA BidRound ==
  ASSUME Types, RoundInv, NEW u \in Users, NEW amount \in 1..MaxAmount, NEW extend \in BOOLEAN,
         NEW heard \in BOOLEAN, Bid(u, amount, extend, heard), "round" \notin muddled'
  PROVE  RoundInv'
  <1>1. PICK out \in SUBSET Users : BidDoes(u, amount, extend, heard, out)
    BY BidTypes
  <1>2. UNCHANGED <<feed, meta, hash, acts>> /\ round # NoRound
    BY BidTypes DEF redis
  <1>3. ~extend => round' = round
    BY BidTypes
  <1>4. "round" \notin muddled /\ (extend => heard \/ meta = <<>>)
    BY <1>1 DEF BidDoes, Muddled
  <1>5. /\ EndInFeed' <=> EndInFeed
        /\ StartInFeed' <=> StartInFeed
        /\ acts'[Ending].at = "idle" <=> acts[Ending].at = "idle"
    BY <1>2 DEF EndInFeed, StartInFeed, IsEnd, IsStart
  <1>6. ASSUME NEW i \in DOMAIN air, air[i].extended # <<>>
        PROVE  \E k \in DOMAIN air' : air'[k].extended # <<>>
    <2>1. CASE heard
      <3>1. PICK event \in BidEvent : air' = Append(air, event)
        BY <1>1, <2>1 DEF BidDoes
      <3>2. i \in DOMAIN air' /\ air'[i] = air[i]
        BY <3>1, HeardIs, EventTypes
      <3>3. QED
        BY <1>6, <3>2
    <2>2. CASE ~heard
      BY <1>1, <1>6, <2>2 DEF BidDoes
    <2>3. QED
      BY <2>1, <2>2
  <1>7. CASE extend /\ heard
    <2>1. PICK event \in BidEvent : event.extended = <<round'>> /\ air' = Append(air, event)
      <3>1. PICK event \in BidEvent :
                /\ event = [user |-> u, amount |-> amount, out |-> out, during |-> burned,
                            extended |-> IF extend THEN <<round'>> ELSE <<>>]
                /\ air' = Append(air, event)
        BY <1>1, <1>7 DEF BidDoes
      <3>2. QED
        BY <1>7, <3>1
    <2>2. Len(air) + 1 \in DOMAIN air' /\ air'[Len(air) + 1] = event
      BY <2>1, HeardIs, EventTypes
    <2>3. \E k \in DOMAIN air' : air'[k].extended # <<>>
      <3>1. event.extended # <<>>
        BY <2>1
      <3>2. QED
        BY <2>2, <3>1
    <2>4. QED
      BY <1>2, <1>4, <1>5, <2>3 DEF RoundInv
  <1>8. CASE extend /\ meta = <<>>
    BY <1>2, <1>4, <1>5, <1>8 DEF RoundInv
  <1>9. CASE ~extend
    BY <1>2, <1>3, <1>4, <1>5, <1>6, <1>9 DEF RoundInv
  <1>10. QED
    BY <1>4, <1>7, <1>8, <1>9

LEMMA PublishedRound ==
  ASSUME Types, AirInv, RoundInv, NEW i \in 1..MaxBids, BidPublished(i), "round" \notin muddled'
  PROVE  RoundInv'
  <1>1. UNCHANGED <<round, feed, meta, acts>>
    BY DEF BidPublished, database
  <1>2. /\ i \in 1..Len(air) /\ DOMAIN air = 1..Len(air) /\ DOMAIN air' = 1..Len(air) - 1
        /\ Len(air) \in Nat
        /\ \A j \in 1..Len(air) - 1 : air'[j] = IF j < i THEN air[j] ELSE air[j + 1]
    BY PublishedTypes, EventTypes
  <1>3. "round" \notin muddled
    BY DEF BidPublished
  <1>4. /\ EndInFeed' <=> EndInFeed
        /\ StartInFeed' <=> StartInFeed
        /\ acts'[Ending].at = "idle" <=> acts[Ending].at = "idle"
    BY <1>1 DEF EndInFeed, StartInFeed, IsEnd, IsStart
  <1>5. CASE air[i].extended = <<>>
    <2>1. hash' = hash
      BY <1>5 DEF BidPublished
    <2>2. ASSUME NEW j \in DOMAIN air, air[j].extended # <<>>
          PROVE  \E k \in DOMAIN air' : air'[k].extended # <<>>
      <3>1. j # i
        BY <1>5, <2>2
      <3>2. CASE j < i
        <4>1. j \in DOMAIN air' /\ air'[j] = air[j]
          BY <1>2, <3>2
        <4>2. QED
          BY <2>2, <4>1
      <3>3. CASE j > i
        <4>1. j - 1 \in DOMAIN air' /\ air'[j - 1] = air[j]
          BY <1>2, <3>3
        <4>2. QED
          BY <2>2, <4>1
      <3>4. QED
        BY <1>2, <3>1, <3>2, <3>3
    <2>3. QED
      BY <1>1, <1>3, <1>4, <2>1, <2>2 DEF RoundInv
  <1>6. CASE air[i].extended # <<>>
    <2>1. hash' = air[i].extended[1]
      BY <1>6 DEF BidPublished
    <2>2. air[i].during = burned
      BY <1>6 DEF BidPublished, Muddled
    <2>3. air[i].extended = <<round>>
      BY <1>2, <1>6, <2>2 DEF AirInv
    <2>4. hash' = round'
      BY <1>1, <2>1, <2>3
    <2>5. QED
      BY <1>1, <1>3, <1>4, <2>4 DEF RoundInv
  <1>7. QED
    BY <1>5, <1>6

LEMMA RoundSteps ==
  ASSUME Types, AirInv, RoundInv, [Next]_vars
  PROVE  RoundInv'
  <1>1. SUFFICES ASSUME "round" \notin muddled'
                 PROVE  RoundInv'
    BY DEF RoundInv
  <1>2. CASE UNCHANGED vars
    BY <1>2 DEF vars, database, redis, RoundInv, EndInFeed, StartInFeed, IsEnd, IsStart
  <1>3. ASSUME NEW u \in Users, NEW amount \in 1..MaxAmount, NEW extend \in BOOLEAN,
               NEW heard \in BOOLEAN, Bid(u, amount, extend, heard)
        PROVE  RoundInv'
    BY <1>1, <1>3, BidRound
  <1>4. CASE Complete
    <2>1. EndInFeed' /\ acts'[Ending].at = "idle"
      BY <1>4, CompleteEnds
    <2>2. feed' # <<>>
      BY <2>1 DEF EndInFeed
    <2>3. round' = NoRound \/ StartInFeed'
      <3>1. round' = NoRound \/ (DOMAIN feed' = {1, 2} /\ IsStart(2)')
        BY <1>4, CompleteTypes
      <3>2. QED
        BY <3>1 DEF StartInFeed
    <2>4. QED
      BY <2>1, <2>2, <2>3 DEF RoundInv
  <1>5. ASSUME NEW i \in 1..MaxBids, BidPublished(i)
        PROVE  RoundInv'
    BY <1>1, <1>5, PublishedRound
  <1>6. CASE RoundStartedEmitted
    <2>1. acts[Ending].at = "idle" /\ feed[1].rnd = round
      BY <1>1, <1>6, StartedIs DEF Muddled
    <2>2. hash' = round' /\ acts' = acts /\ ~EndInFeed'
      BY <1>6, <2>1, StartedIs DEF database
    <2>3. QED
      BY <2>1, <2>2 DEF RoundInv
  <1>7. CASE RoundEndedEmitted
    <2>1. acts'[Ending].at = "ensure" /\ round' = round /\ "round" \notin muddled
      BY <1>1, <1>7, EndedIs DEF Reaches, database
    <2>2. EndInFeed /\ (StartInFeed' <=> StartInFeed)
      BY <1>7, EndedEnds
    <2>3. QED
      BY <2>1, <2>2 DEF RoundInv
  <1>8. CASE WinnersRemoved
    <2>1. /\ acts[Ending].at = "remove" /\ acts'[Ending].at = "clear" /\ round' = round
          /\ "round" \notin muddled
      BY <1>1, <1>8, RemovedIs DEF Reaches, database
    <2>2. StartInFeed' <=> StartInFeed
      BY <1>8, RemovedEnds
    <2>3. QED
      BY <2>1, <2>2 DEF RoundInv
  <1>9. CASE RoundCleared
    <2>1. /\ acts[Ending].at = "clear" /\ acts'[Ending].at = "idle" /\ round' = round
          /\ "round" \notin muddled /\ hash' = NoRound /\ feed' = feed
      BY <1>1, <1>9, ClearedIs DEF Reaches, database
    <2>2. (StartInFeed' <=> StartInFeed) /\ (feed = <<>> => ~StartInFeed)
      <3>1. feed = <<>> => DOMAIN feed = {}
        OBVIOUS
      <3>2. QED
        BY <1>9, <3>1, ClearedEnds DEF StartInFeed
    <2>3. QED
      BY <2>1, <2>2 DEF RoundInv
  <1>10. ASSUME NEW a \in Readers,
                ReaderComes(a) \/ AlreadyLoaded(a) \/ BidsRead(a) \/ BidsAdded(a)
         PROVE  RoundInv'
    <2>1. Calm
      BY <1>10, CalmSteps
    <2>2. UNCHANGED <<round, hash, air, meta, muddled>> /\ acts[a].at # "hash"
      BY <1>10
      DEF ReaderComes, AlreadyLoaded, BidsRead, BidsAdded, database, redis, At
    <2>3. \A b \in Actors : acts[b].at = "hash" => acts'[b] = acts[b]
      BY <1>10, <2>2, ReaderSteps DEF Reaches
    <2>4. QED
      BY <2>1, <2>2, <2>3, RoundSame
  <1>11. ASSUME NEW a \in Actors, MetaRead(a)
         PROVE  RoundInv'
    <2>1. Calm
      BY <1>11, CalmSteps
    <2>2. UNCHANGED <<round, hash, air, meta>> /\ muddled \subseteq muddled'
      BY <1>11, MetaReadIs DEF database, redis
    <2>3. \A b \in Actors : acts[b].at = "hash" => acts'[b] = acts[b]
      BY <1>11, MetaReadIs DEF Reaches
    <2>4. QED
      BY <2>1, <2>2, <2>3, RoundSame
  <1>12. ASSUME NEW a \in Actors, MetaWritten(a)
         PROVE  RoundInv'
    <2>1. Calm
      BY <1>12, CalmSteps
    <2>2. round' = round /\ "round" \notin muddled /\ acts'[a].at = "hash"
      BY <1>1, <1>12, MetaWrittenIs DEF database, Reaches
    <2>3. QED
      BY <2>1, <2>2, CalmEnds DEF RoundInv, Calm
  <1>13. ASSUME NEW a \in Actors, RoundWarmed(a)
         PROVE  RoundInv'
    <2>1. Calm
      BY <1>13, CalmSteps
    <2>2. acts[a].rnd = round /\ "round" \notin muddled
      BY <1>1, <1>13, RoundWarmedIs DEF Muddled
    <2>3. hash' = round' /\ round' = round
      BY <1>13, <2>2, RoundWarmedIs DEF database
    <2>4. QED
      BY <2>1, <2>2, <2>3, CalmEnds DEF RoundInv, Calm
  <1>14. QED
    BY <1>2, <1>3, <1>4, <1>5, <1>6, <1>7, <1>8, <1>9, <1>10, <1>11, <1>12, <1>13 DEF Next

-----------------------------------------------------------------------------
(* The board. *)

\* A bid of a round whose winners are off the board is still to be published.
Doomed == \E i \in DOMAIN air : air[i].during < burned - EndsUnderway

\* The last bid to be published about a user, and what it says.
LastOf(i, u) == About(air[i], u) /\ \A j \in DOMAIN air : j > i => ~About(air[j], u)
Says(i, u) == IF u = air[i].user THEN air[i].amount ELSE 0

LastRight(u) ==
    \A i \in DOMAIN air :
        LastOf(i, u) /\ (air[i].during = burned \/ u \notin Leaving) => Says(i, u) = bids[u]

BoardRight(u) ==
    ~InAir(u) /\ u \notin Leaving =>
        IF loaded THEN board[u] = bids[u] ELSE bids[u] = 0 => board[u] = 0

LoadsRight(u) ==
    ~InAir(u) /\ u \notin Leaving =>
        \A a \in Actors : acts[a].at = "zadd" => acts[a].top[u] = bids[u]

Right(u) == LastRight(u) /\ BoardRight(u) /\ LoadsRight(u)

\* Where nothing is to be published of a user the board shows the active bid, or will once the
\* bids that were read are added; else what is published last says it.
BoardInv ==
    "board" \notin muddled /\ round # NoRound => Doomed \/ \A u \in Users : Right(u)

\* An end that is emitted again takes the same winners off the board.
WonInv ==
    \A i \in DOMAIN feed :
        IsEnd(i) /\ acts[Ending].at # "idle" => feed[i].won = acts[Ending].won

LEMMA EndIsFirst ==
  ASSUME Types
  PROVE  \A i \in DOMAIN feed : IsEnd(i) => i = 1
  <1>1. DOMAIN feed = 1..Len(feed) /\ Len(feed) \in Nat /\ Len(feed) <= 2
    BY LenProperties DEF Types
  <1>2. CASE Len(feed) = 2
    <2>1. ~IsEnd(2) /\ DOMAIN feed = {1, 2}
      BY <1>1, <1>2 DEF Types, IsEnd, IsStart
    <2>2. QED
      BY <2>1
  <1>3. CASE Len(feed) < 2
    BY <1>1, <1>3
  <1>4. QED
    BY <1>1, <1>2, <1>3

LEMMA WonSteps ==
  ASSUME Types, WonInv, [Next]_vars
  PROVE  WonInv'
  <1>1. ASSUME Calm PROVE WonInv'
    BY <1>1 DEF Calm, WonInv, IsEnd
  <1>2. CASE UNCHANGED <<feed, acts>>
    BY <1>1, <1>2, CalmSteps
  <1>3. ASSUME NEW u \in Users, NEW amount \in 1..MaxAmount, NEW extend \in BOOLEAN,
               NEW heard \in BOOLEAN, Bid(u, amount, extend, heard)
        PROVE  WonInv'
    BY <1>2, <1>3, BidTypes
  <1>4. CASE Complete
    BY <1>4, CompleteEnds DEF WonInv
  <1>5. ASSUME NEW i \in 1..MaxBids, BidPublished(i)
        PROVE  WonInv'
    BY <1>2, <1>5 DEF BidPublished
  <1>6. CASE RoundStartedEmitted
    BY <1>6, StartedIs DEF WonInv, EndInFeed
  <1>7. CASE RoundEndedEmitted
    <2>1. acts'[Ending].won = feed[1].won
      BY <1>7, EndedIs
    <2>2. CASE feed' = feed
      BY <2>1, <2>2, EndIsFirst DEF WonInv, IsEnd
    <2>3. CASE feed' # feed
      BY <1>7, <2>3, EndedEnds DEF WonInv, EndInFeed
    <2>4. QED
      BY <2>2, <2>3
  <1>8. CASE WinnersRemoved
    <2>1. feed' = feed /\ acts[Ending].at = "remove"
      BY <1>8, RemovedIs
    <2>2. acts'[Ending].won = acts[Ending].won
      BY <1>8, MoveWrites, Names DEF WinnersRemoved, Stages
    <2>3. QED
      BY <2>1, <2>2 DEF WonInv, IsEnd
  <1>9. CASE RoundCleared
    BY <1>9, ClearedEnds DEF WonInv
  <1>10. CASE \/ \E a \in Readers :
                    ReaderComes(a) \/ AlreadyLoaded(a) \/ BidsRead(a) \/ BidsAdded(a)
              \/ \E a \in Actors : MetaRead(a) \/ MetaWritten(a) \/ RoundWarmed(a)
    BY <1>1, <1>10, CalmSteps
  <1>11. QED
    BY <1>2, <1>3, <1>4, <1>5, <1>6, <1>7, <1>8, <1>9, <1>10 DEF Next, vars

LEMMA DoomedKept ==
  ASSUME Types, Types', Doomed, DOMAIN air \subseteq DOMAIN air',
         \A i \in DOMAIN air : air'[i] = air[i],
         burned - EndsUnderway <= burned' - EndsUnderway'
  PROVE  Doomed'
  <1>1. PICK i \in DOMAIN air : air[i].during < burned - EndsUnderway
    BY DEF Doomed
  <1>2. burned \in Nat /\ burned' \in Nat
    BY DEF Types
  <1>3. EndsUnderway \in {0, 1} /\ EndsUnderway' \in {0, 1}
    BY DEF EndsUnderway
  <1>4. air[i].during \in Nat
    BY EventTypes DEF BidEvent
  <1>5. burned - EndsUnderway \in Int /\ burned' - EndsUnderway' \in Int
    BY <1>2, <1>3
  <1>6. air[i].during < burned' - EndsUnderway'
    BY <1>1, <1>4, <1>5
  <1>7. i \in DOMAIN air' /\ air'[i] = air[i]
    OBVIOUS
  <1>8. QED
    BY <1>6, <1>7 DEF Doomed

\* Until that bid is published, which the board does not survive.
LEMMA DoomedSteps ==
  ASSUME Types, Types', Doomed, [Next]_vars, "board" \notin muddled'
  PROVE  Doomed'
  <1>1. ASSUME air' = air, burned' = burned, EndsUnderway' = EndsUnderway
        PROVE  Doomed'
    BY <1>1 DEF Doomed
  <1>2. CASE UNCHANGED vars
    BY <1>1, <1>2 DEF vars, database, EndsUnderway
  <1>3. ASSUME NEW u \in Users, NEW amount \in 1..MaxAmount, NEW extend \in BOOLEAN,
               NEW heard \in BOOLEAN, Bid(u, amount, extend, heard)
        PROVE  Doomed'
    <2>1. PICK out \in SUBSET Users : BidDoes(u, amount, extend, heard, out)
      BY <1>3, BidTypes
    <2>2. UNCHANGED <<burned, feed, acts>>
      BY <1>3, BidTypes
    <2>3. EndsUnderway' = EndsUnderway
      BY <2>2 DEF EndsUnderway
    <2>4. CASE ~heard
      BY <1>1, <2>1, <2>2, <2>3, <2>4 DEF BidDoes
    <2>5. CASE heard
      <3>1. PICK event \in BidEvent : air' = Append(air, event)
        BY <2>1, <2>5 DEF BidDoes
      <3>2. DOMAIN air \subseteq DOMAIN air' /\ \A i \in DOMAIN air : air'[i] = air[i]
        BY <3>1, HeardIs, EventTypes
      <3>3. burned - EndsUnderway <= burned' - EndsUnderway'
        BY <2>2, <2>3 DEF Types, EndsUnderway
      <3>4. QED
        BY <3>2, <3>3, DoomedKept
    <2>6. QED
      BY <2>4, <2>5
  <1>4. CASE Complete
    <2>1. EndsUnderway = 0 /\ EndsUnderway' = 1
      BY <1>4, CompleteEnds
    <2>2. burned' = burned + 1 /\ air' = air /\ burned \in Nat
      BY <1>4, CompleteTypes DEF Types
    <2>3. burned - EndsUnderway <= burned' - EndsUnderway'
      BY <2>1, <2>2
    <2>4. QED
      BY <2>2, <2>3, DoomedKept
  <1>5. ASSUME NEW i \in 1..MaxBids, BidPublished(i)
        PROVE  Doomed'
    <2>1. /\ i \in 1..Len(air) /\ DOMAIN air = 1..Len(air) /\ DOMAIN air' = 1..Len(air) - 1
          /\ Len(air) \in Nat
          /\ \A j \in 1..Len(air) - 1 : air'[j] = IF j < i THEN air[j] ELSE air[j + 1]
      BY <1>5, PublishedTypes, EventTypes
    <2>2. i = 1 /\ ~(air[i].during < burned - EndsUnderway)
      BY <1>5 DEF BidPublished, Muddled
    <2>3. PICK j \in DOMAIN air : air[j].during < burned - EndsUnderway
      BY DEF Doomed
    <2>4. j - 1 \in DOMAIN air' /\ air'[j - 1] = air[j]
      BY <2>1, <2>2, <2>3
    <2>5. burned' = burned /\ EndsUnderway' = EndsUnderway
      BY <1>5 DEF BidPublished, database, EndsUnderway
    <2>6. QED
      BY <2>3, <2>4, <2>5 DEF Doomed
  <1>6. CASE RoundStartedEmitted
    BY <1>1, <1>6, StartedIs DEF database
  <1>7. CASE RoundEndedEmitted
    BY <1>1, <1>7, EndedIs, EndedEnds DEF database
  <1>8. CASE WinnersRemoved
    <2>1. EndsUnderway = 1 /\ EndsUnderway' \in {0, 1}
      BY <1>8, RemovedEnds
    <2>2. burned' = burned /\ air' = air /\ burned \in Nat
      BY <1>8, RemovedIs DEF Types, database
    <2>3. burned - EndsUnderway <= burned' - EndsUnderway'
      <3>1. CASE EndsUnderway' = 0
        BY <2>1, <2>2, <3>1
      <3>2. CASE EndsUnderway' = 1
        BY <2>1, <2>2, <3>2
      <3>3. QED
        BY <2>1, <3>1, <3>2
    <2>4. QED
      BY <2>2, <2>3, DoomedKept
  <1>9. CASE RoundCleared
    BY <1>1, <1>9, ClearedIs, ClearedEnds DEF database
  <1>10. CASE \/ \E a \in Readers :
                    ReaderComes(a) \/ AlreadyLoaded(a) \/ BidsRead(a) \/ BidsAdded(a)
              \/ \E a \in Actors : MetaRead(a) \/ MetaWritten(a) \/ RoundWarmed(a)
    <2>1. EndsUnderway' = EndsUnderway
      BY <1>10, CalmSteps, CalmEnds
    <2>2. air' = air /\ burned' = burned
      BY <1>10 DEF ReaderComes, AlreadyLoaded, BidsRead, BidsAdded, MetaRead, MetaWritten,
                   RoundWarmed, database
    <2>3. QED
      BY <1>1, <2>1, <2>2
  <1>11. QED
    BY <1>2, <1>3, <1>4, <1>5, <1>6, <1>7, <1>8, <1>9, <1>10 DEF Next

\* What a step leaves right that changes none of this.
LEMMA RightSame ==
  ASSUME UNCHANGED <<bids, burned, air, board, loaded>>, Leaving' = Leaving,
         \A a \in Actors : acts'[a].at = "zadd" => acts'[a] = acts[a],
         NEW u \in Users, Right(u)
  PROVE  Right(u)'
  <1>1. LastRight(u)'
    BY DEF Right, LastRight, LastOf, Says, About
  <1>2. InAir(u)' <=> InAir(u)
    BY DEF InAir, About
  <1>3. BoardRight(u)'
    BY <1>2 DEF Right, BoardRight
  <1>4. LoadsRight(u)'
    BY <1>2 DEF Right, LoadsRight
  <1>5. QED
    BY <1>1, <1>3, <1>4 DEF Right

\* A bid that is heard of will be said last of those it is about.
LEMMA HeardRight ==
  ASSUME Types, NEW u \in Users, NEW amount \in Nat, NEW extend \in BOOLEAN,
         NEW out \in SUBSET Users, BidDoes(u, amount, extend, TRUE, out),
         UNCHANGED <<burned, feed, board, loaded, acts>>,
         NEW v \in Users, Right(v)
  PROVE  Right(v)'
  <1>1. PICK event \in BidEvent :
            /\ event = [user |-> u, amount |-> amount, out |-> out, during |-> burned,
                        extended |-> IF extend THEN <<round'>> ELSE <<>>]
            /\ air' = Append(air, event)
    BY DEF BidDoes
  <1>2. event.user = u /\ event.amount = amount /\ event.out = out
    BY <1>1
  <1> DEFINE n == Len(air)
  <1>3. /\ DOMAIN air = 1..n /\ n \in Nat /\ DOMAIN air' = 1..n + 1
        /\ \A j \in 1..n : air'[j] = air[j]
        /\ air'[n + 1] = event
    BY <1>1, HeardIs, EventTypes
  <1> HIDE DEF n
  <1>4. Leaving' = Leaving
    BY DEF Leaving, Removing, IsEnd
  <1>5. bids'[v] = IF v = u THEN amount ELSE IF v \in out THEN 0 ELSE bids[v]
    BY DEF BidDoes
  <1>6. u \notin out
    BY DEF BidDoes
  <1>7. CASE v = u \/ v \in out
    <2>1. About(event, v)
      BY <1>2, <1>7 DEF About
    <2>2. InAir(v)'
      BY <1>3, <2>1 DEF InAir, About
    <2>3. \A i \in DOMAIN air' : LastOf(i, v)' => i = n + 1
      BY <1>3, <2>1 DEF LastOf, About
    <2>4. bids'[v] = IF v = event.user THEN event.amount ELSE 0
      BY <1>2, <1>5, <1>6, <1>7
    <2>5. LastRight(v)'
      BY <1>3, <2>3, <2>4 DEF LastRight, Says
    <2>6. QED
      BY <2>2, <2>5 DEF Right, BoardRight, LoadsRight
  <1>8. CASE ~(v = u \/ v \in out)
    <2>1. ~About(event, v) /\ bids'[v] = bids[v]
      BY <1>2, <1>5, <1>8 DEF About
    <2>2. InAir(v)' <=> InAir(v)
      BY <1>3, <2>1 DEF InAir, About
    <2>3. \A i \in DOMAIN air' : LastOf(i, v)' =>
              i \in 1..n /\ LastOf(i, v) /\ Says(i, v)' = Says(i, v) /\ air'[i] = air[i]
      BY <1>3, <2>1 DEF LastOf, About, Says
    <2>4. LastRight(v)'
      BY <1>3, <1>4, <2>1, <2>3 DEF Right, LastRight
    <2>5. BoardRight(v)' /\ LoadsRight(v)'
      BY <1>4, <2>1, <2>2 DEF Right, BoardRight, LoadsRight
    <2>6. QED
      BY <2>4, <2>5 DEF Right
  <1>9. QED
    BY <1>7, <1>8

\* One that is not, while no board is loaded, will be read.
LEMMA UnheardRight ==
  ASSUME Types, NEW u \in Users, NEW amount \in Nat \ {0}, NEW extend \in BOOLEAN,
         NEW out \in SUBSET Users, BidDoes(u, amount, extend, FALSE, out),
         UNCHANGED <<burned, feed, board, loaded, acts>>, "board" \notin muddled',
         NEW v \in Users, Right(v)
  PROVE  Right(v)'
  <1>1. /\ air' = air /\ ~loaded /\ ~LoadOpen
        /\ \A w \in out \cup {u} : ~InAir(w)
        /\ \A w \in out : ~(board[w] > 0)
    BY DEF BidDoes, Muddled
  <1>2. Leaving' = Leaving
    BY DEF Leaving, Removing, IsEnd
  <1>3. bids'[v] = IF v = u THEN amount ELSE IF v \in out THEN 0 ELSE bids[v]
    BY DEF BidDoes
  <1>4. InAir(v)' <=> InAir(v)
    BY <1>1 DEF InAir, About
  <1>5. LoadsRight(v)'
    BY <1>1 DEF LoadsRight, LoadOpen, At
  <1>6. CASE v = u \/ v \in out
    <2>1. ~InAir(v)
      BY <1>1, <1>6
    <2>2. LastRight(v)'
      BY <1>1, <2>1 DEF LastRight, LastOf, InAir, About
    <2>3. bids'[v] = 0 => board[v] = 0
      BY <1>1, <1>3, <1>6 DEF Types
    <2>4. BoardRight(v)'
      BY <1>1, <2>3 DEF BoardRight
    <2>5. QED
      BY <1>5, <2>2, <2>4 DEF Right
  <1>7. CASE ~(v = u \/ v \in out)
    <2>1. bids'[v] = bids[v]
      BY <1>3, <1>7
    <2>2. LastRight(v)'
      BY <1>1, <1>2, <2>1 DEF Right, LastRight, LastOf, Says, About
    <2>3. BoardRight(v)'
      BY <1>2, <1>4, <2>1 DEF Right, BoardRight
    <2>4. QED
      BY <1>5, <2>2, <2>3 DEF Right
  <1>8. QED
    BY <1>6, <1>7

\* The winners lose their active bids before the board hears of it; until then they are leaving.
LEMMA CompleteRight ==
  ASSUME Types, AirInv, Complete, round' # NoRound, ~Doomed', NEW v \in Users, Right(v)
  PROVE  Right(v)'
  <1>1. PICK won \in SUBSET Users :
            /\ feed'[1] = [type |-> "RoundEnded", won |-> won, rnd |-> NoRound]
            /\ DOMAIN feed' = {1, 2} /\ IsStart(2)'
            /\ bids' = [u \in Users |-> IF u \in won THEN 0 ELSE bids[u]]
    BY CompleteTypes
  <1>2. /\ burned' = burned + 1 /\ burned \in Nat /\ feed = <<>>
        /\ UNCHANGED <<air, board, loaded, acts>>
    BY CompleteTypes DEF redis, Types
  <1>3. EndsUnderway' = 1 /\ ~Removing' /\ EndsUnderway = 0 /\ ~EndInFeed
    BY CompleteEnds
  <1>4. ~Removing
    BY <1>3 DEF EndsUnderway, Removing
  <1>5. Leaving = {}
    BY <1>3, <1>4 DEF Leaving, EndInFeed
  <1>6. Leaving' = won
    BY <1>1, <1>3 DEF Leaving, IsEnd, IsStart
  <1>7. \A i \in DOMAIN air : air[i].during # burned'
    <2>1. \A i \in DOMAIN air : air[i].during \in Nat /\ air[i].during <= burned
      BY EventTypes DEF BidEvent, AirInv
    <2>2. QED
      BY <1>2, <2>1
  <1>8. v \notin won => bids'[v] = bids[v]
    BY <1>1
  <1>9. InAir(v)' <=> InAir(v)
    BY <1>2 DEF InAir, About
  <1>10. LastRight(v)'
    BY <1>2, <1>5, <1>6, <1>7, <1>8 DEF Right, LastRight, LastOf, Says, About
  <1>11. BoardRight(v)' /\ LoadsRight(v)'
    BY <1>2, <1>5, <1>6, <1>8, <1>9 DEF Right, BoardRight, LoadsRight
  <1>12. QED
    BY <1>10, <1>11 DEF Right

LEMMA PublishedRight ==
  ASSUME Types, NEW i \in 1..MaxBids, BidPublished(i), "board" \notin muddled',
         NEW v \in Users, Right(v)
  PROVE  Right(v)'
  <1>1. i = 1 /\ ~LoadOpen
    BY DEF BidPublished, Muddled
  <1> DEFINE n == Len(air)
             event == air[1]
  <1>2. /\ DOMAIN air = 1..n /\ n \in Nat /\ n >= 1 /\ DOMAIN air' = 1..n - 1
        /\ \A j \in 1..n - 1 : air'[j] = air[j + 1]
    <2>1. /\ i \in 1..Len(air) /\ DOMAIN air = 1..Len(air) /\ DOMAIN air' = 1..Len(air) - 1
          /\ Len(air) \in Nat
          /\ \A j \in 1..Len(air) - 1 : air'[j] = IF j < i THEN air[j] ELSE air[j + 1]
      BY PublishedTypes, EventTypes
    <2>2. QED
      BY <1>1, <2>1
  <1>3. board' = Applied(event)
    BY <1>1 DEF BidPublished
  <1>4. UNCHANGED <<bids, burned, feed, loaded, acts>>
    BY DEF BidPublished, database
  <1>5. 1 \in DOMAIN air /\ event = air[1]
    BY <1>2
  <1> HIDE DEF n, event
  <1>6. Leaving' = Leaving
    BY <1>4 DEF Leaving, Removing, IsEnd
  <1>7. LastRight(v)'
    <2>1. ASSUME NEW j \in DOMAIN air', LastOf(j, v)'
          PROVE  /\ j + 1 \in DOMAIN air /\ LastOf(j + 1, v) /\ air'[j] = air[j + 1]
      <3>1. j + 1 \in DOMAIN air /\ air'[j] = air[j + 1] /\ About(air[j + 1], v)
        BY <1>2, <2>1 DEF LastOf
      <3>2. ASSUME NEW k \in DOMAIN air, k > j + 1
            PROVE  ~About(air[k], v)
        <4>1. k - 1 \in DOMAIN air' /\ k - 1 > j /\ air'[k - 1] = air[k]
          BY <1>2, <3>2
        <4>2. QED
          BY <2>1, <4>1 DEF LastOf
      <3>3. QED
        BY <3>1, <3>2 DEF LastOf
    <2>2. QED
      BY <1>4, <1>6, <2>1 DEF Right, LastRight, Says
  <1>8. LoadsRight(v)'
    BY <1>1, <1>4 DEF LoadsRight, LoadOpen, At
  <1>9. BoardRight(v)'
    <2>1. SUFFICES ASSUME ~InAir(v)', v \notin Leaving
                   PROVE  IF loaded THEN board'[v] = bids[v] ELSE bids[v] = 0 => board'[v] = 0
      BY <1>4, <1>6 DEF BoardRight
    <2>2. \A k \in DOMAIN air : k > 1 => ~About(air[k], v)
      <3>1. ASSUME NEW k \in DOMAIN air, k > 1
            PROVE  k - 1 \in DOMAIN air' /\ air'[k - 1] = air[k]
        BY <1>2, <3>1
      <3>2. QED
        BY <2>1, <3>1 DEF InAir
    <2>3. CASE About(event, v)
      <3>1. LastOf(1, v)
        BY <1>5, <2>2, <2>3 DEF LastOf
      <3>2. Says(1, v) = bids[v]
        BY <1>5, <2>1, <3>1 DEF Right, LastRight
      <3>3. board'[v] = IF v = event.user THEN event.amount ELSE 0
        BY <1>3, <2>3 DEF Applied, About
      <3>4. board'[v] = bids[v]
        BY <1>5, <3>2, <3>3 DEF Says
      <3>5. QED
        BY <3>4
    <2>4. CASE ~About(event, v)
      <3>1. \A k \in DOMAIN air : ~About(air[k], v)
        BY <1>2, <1>5, <2>2, <2>4
      <3>2. ~InAir(v)
        BY <3>1 DEF InAir
      <3>3. board'[v] = board[v]
        BY <1>3, <2>4 DEF Applied, About
      <3>4. QED
        BY <2>1, <3>2, <3>3 DEF Right, BoardRight
    <2>5. QED
      BY <2>3, <2>4
  <1>10. QED
    BY <1>7, <1>8, <1>9 DEF Right

LEMMA RemovedRight ==
  ASSUME Types, Types', AirInv, WonInv, WinnersRemoved, "board" \notin muddled', ~Doomed',
         NEW v \in Users, Right(v)
  PROVE  Right(v)'
  <1> DEFINE won == acts[Ending].won
  <1>1. /\ acts[Ending].at = "remove" /\ acts'[Ending].at = "clear"
        /\ \A b \in Actors \ {Ending} : acts'[b] = acts[b]
        /\ won \in SUBSET Users
        /\ board' = [u \in Users |-> IF u \in won THEN 0 ELSE board[u]]
        /\ UNCHANGED <<bids, burned, air, feed, loaded>>
    BY RemovedIs DEF database, Reaches
  <1>2. ~LoadOpen /\ won \cap Bidders = {}
    BY RemovedIs DEF Muddled
  <1> HIDE DEF won
  <1>3. \A u \in won : bids[u] = 0
    BY <1>1, <1>2 DEF Bidders, Types
  <1>4. Leaving \subseteq Leaving' \cup won
    BY RemovedEnds DEF won
  <1>5. EndInFeed => won \subseteq Leaving'
    <2>1. ASSUME NEW i \in DOMAIN feed, IsEnd(i)
          PROVE  feed'[i].won = won /\ IsEnd(i)' /\ i \in DOMAIN feed'
      BY <1>1, <2>1 DEF WonInv, won, IsEnd
    <2>2. QED
      BY <1>1, <2>1 DEF EndInFeed, Leaving
  <1>6. LoadsRight(v)'
    <2>1. \A a \in Actors : acts'[a].at # "zadd"
      BY <1>1, <1>2 DEF LoadOpen, At
    <2>2. QED
      BY <2>1 DEF LoadsRight
  <1>7. BoardRight(v)'
    <2>1. InAir(v)' <=> InAir(v)
      BY <1>1 DEF InAir, About
    <2>2. CASE v \in won
      BY <1>1, <1>3, <2>2 DEF BoardRight
    <2>3. CASE v \notin won
      BY <1>1, <1>4, <2>1, <2>3 DEF Right, BoardRight
    <2>4. QED
      BY <2>2, <2>3
  <1>8. LastRight(v)'
    <2>1. ASSUME NEW i \in DOMAIN air, LastOf(i, v), air[i].during = burned \/ v \notin Leaving'
          PROVE  Says(i, v) = bids[v]
      <3>1. CASE air[i].during = burned \/ v \notin Leaving
        BY <2>1, <3>1 DEF Right, LastRight
      <3>2. CASE air[i].during # burned /\ v \in Leaving
        <4>1. ~EndInFeed
          BY <1>4, <1>5, <2>1, <3>2
        <4>2. EndsUnderway' = 0
          BY <4>1, RemovedEnds
        <4>3. air[i].during \in Nat /\ air[i].during <= burned /\ burned \in Nat
          BY EventTypes DEF AirInv, BidEvent, Types
        <4>4. air[i].during < burned - 0
          BY <3>2, <4>3
        <4>5. Doomed'
          BY <1>1, <4>2, <4>4 DEF Doomed
        <4>6. QED
          BY <4>5
      <3>3. QED
        BY <2>1, <3>1, <3>2
    <2>2. QED
      BY <1>1, <2>1 DEF LastRight, LastOf, Says, About
  <1>9. QED
    BY <1>6, <1>7, <1>8 DEF Right

LEMMA ReadRight ==
  ASSUME Types, NEW a \in Readers, BidsRead(a), NEW v \in Users, Right(v)
  PROVE  Right(v)'
  <1>1. /\ UNCHANGED <<bids, burned, air, board, loaded>>
        /\ Reaches(a, "zadd") /\ acts'[a].top = bids
    BY ReaderSteps DEF BidsRead, database
  <1>2. Leaving' = Leaving
    BY CalmSteps, CalmEnds
  <1>3. InAir(v)' <=> InAir(v)
    BY <1>1 DEF InAir, About
  <1>4. LastRight(v)' /\ BoardRight(v)'
    BY <1>1, <1>2, <1>3 DEF Right, LastRight, BoardRight, LastOf, Says, About
  <1>5. LoadsRight(v)'
    BY <1>1, <1>2, <1>3 DEF Right, LoadsRight, Reaches
  <1>6. QED
    BY <1>4, <1>5 DEF Right

LEMMA AddedRight ==
  ASSUME Types, NEW a \in Readers, BidsAdded(a), NEW v \in Users, Right(v)
  PROVE  Right(v)'
  <1>1. /\ UNCHANGED <<bids, burned, air>> /\ loaded' = TRUE /\ acts[a].at = "zadd"
        /\ board' = [u \in Users |-> IF acts[a].top[u] > 0 THEN acts[a].top[u] ELSE board[u]]
        /\ Reaches(a, "idle")
    BY ReaderSteps DEF BidsAdded, database, At
  <1>2. Leaving' = Leaving
    BY CalmSteps, CalmEnds
  <1>3. InAir(v)' <=> InAir(v)
    BY <1>1 DEF InAir, About
  <1>4. LastRight(v)'
    BY <1>1, <1>2 DEF Right, LastRight, LastOf, Says, About
  <1>5. LoadsRight(v)'
    BY <1>1, <1>2, <1>3 DEF Right, LoadsRight, Reaches
  <1>6. BoardRight(v)'
    <2>1. ASSUME ~InAir(v), v \notin Leaving
          PROVE  board'[v] = bids[v]
      <3>1. acts[a].top[v] = bids[v]
        BY <1>1, <2>1, Names DEF Right, LoadsRight
      <3>2. bids[v] \in Nat
        BY DEF Types
      <3>3. CASE bids[v] > 0
        BY <1>1, <3>1, <3>3
      <3>4. CASE bids[v] = 0
        <4>1. board'[v] = board[v]
          BY <1>1, <3>1, <3>4
        <4>2. QED
          BY <2>1, <3>4, <4>1 DEF Right, BoardRight
      <3>5. QED
        BY <3>2, <3>3, <3>4
    <2>2. QED
      BY <1>1, <1>2, <1>3, <2>1 DEF BoardRight
  <1>7. QED
    BY <1>4, <1>5, <1>6 DEF Right

LEMMA BoardSteps ==
  ASSUME Types, Types', AirInv, WonInv, BoardInv, [Next]_vars
  PROVE  BoardInv'
  <1>1. SUFFICES ASSUME "board" \notin muddled', round' # NoRound, ~Doomed', NEW v \in Users
                 PROVE  Right(v)'
    BY DEF BoardInv
  <1>2. ~Doomed
    BY <1>1, DoomedSteps
  <1>3. ASSUME "board" \notin muddled, round # NoRound
        PROVE  Right(v)
    BY <1>1, <1>2, <1>3 DEF BoardInv
  <1>4. ASSUME UNCHANGED <<round, bids, burned, air, board, loaded>>, Leaving' = Leaving,
               \A a \in Actors : acts'[a].at = "zadd" => acts'[a] = acts[a],
               muddled \subseteq muddled'
        PROVE  Right(v)'
    BY <1>1, <1>3, <1>4, RightSame
  <1>5. CASE UNCHANGED vars
    BY <1>4, <1>5 DEF vars, database, redis, Leaving, Removing, IsEnd
  <1>6. ASSUME NEW u \in Users, NEW amount \in 1..MaxAmount, NEW extend \in BOOLEAN,
               NEW heard \in BOOLEAN, Bid(u, amount, extend, heard)
        PROVE  Right(v)'
    <2>1. PICK out \in SUBSET Users : BidDoes(u, amount, extend, heard, out)
      BY <1>6, BidTypes
    <2>2. round # NoRound /\ UNCHANGED <<burned, feed, board, loaded, acts>>
      BY <1>6, BidTypes DEF redis
    <2>3. Right(v)
      BY <1>1, <1>3, <2>1, <2>2 DEF BidDoes
    <2>4. amount \in Nat \ {0}
      BY RealtimeAssumption
    <2>5. CASE heard
      <3>1. BidDoes(u, amount, extend, TRUE, out)
        BY <2>1, <2>5 DEF BidDoes
      <3>2. QED
        BY <2>2, <2>3, <2>4, <3>1, HeardRight
    <2>6. CASE ~heard
      <3>1. BidDoes(u, amount, extend, FALSE, out)
        BY <2>1, <2>6 DEF BidDoes
      <3>2. QED
        BY <1>1, <2>2, <2>3, <2>4, <3>1, UnheardRight
    <2>7. QED
      BY <2>5, <2>6
  <1>7. CASE Complete
    <2>1. Right(v)
      BY <1>1, <1>3, <1>7, CompleteTypes
    <2>2. QED
      BY <1>1, <1>7, <2>1, CompleteRight
  <1>8. ASSUME NEW i \in 1..MaxBids, BidPublished(i)
        PROVE  Right(v)'
    <2>1. "board" \notin muddled /\ round' = round
      BY <1>1, <1>8 DEF BidPublished, database
    <2>2. Right(v)
      BY <1>1, <1>3, <2>1
    <2>3. QED
      BY <1>1, <1>8, <2>2, PublishedRight
  <1>9. CASE RoundStartedEmitted
    <2>1. /\ UNCHANGED <<round, bids, burned, air, board, loaded, acts>> /\ Leaving' = Leaving
          /\ muddled \subseteq muddled'
      BY <1>9, StartedIs DEF database
    <2>2. QED
      BY <1>4, <2>1
  <1>10. CASE RoundEndedEmitted
    <2>1. /\ UNCHANGED <<round, bids, burned, air, board, loaded>> /\ Leaving' = Leaving
          /\ muddled \subseteq muddled' /\ Reaches(Ending, "ensure")
      BY <1>10, EndedIs, EndedEnds DEF database, redis
    <2>2. \A a \in Actors : acts'[a].at = "zadd" => acts'[a] = acts[a]
      BY <2>1 DEF Reaches
    <2>3. QED
      BY <1>4, <2>1, <2>2
  <1>11. CASE WinnersRemoved
    <2>1. "board" \notin muddled /\ round' = round
      BY <1>1, <1>11, RemovedIs DEF database
    <2>2. Right(v)
      BY <1>1, <1>3, <2>1
    <2>3. QED
      BY <1>1, <1>11, <2>2, RemovedRight
  <1>12. CASE RoundCleared
    <2>1. /\ UNCHANGED <<round, bids, burned, air, board, loaded, muddled>> /\ Leaving' = Leaving
          /\ Reaches(Ending, "idle")
      BY <1>12, ClearedIs, ClearedEnds DEF database
    <2>2. \A a \in Actors : acts'[a].at = "zadd" => acts'[a] = acts[a]
      BY <2>1 DEF Reaches
    <2>3. QED
      BY <1>4, <2>1, <2>2
  <1>13. ASSUME NEW a \in Readers, BidsRead(a) \/ BidsAdded(a)
         PROVE  Right(v)'
    <2>1. muddled' = muddled /\ round' = round
      BY <1>13 DEF BidsRead, BidsAdded, database
    <2>2. Right(v)
      BY <1>1, <1>3, <2>1
    <2>3. QED
      BY <1>13, <2>2, ReadRight, AddedRight
  <1>14. ASSUME NEW a \in Readers, ReaderComes(a) \/ AlreadyLoaded(a)
         PROVE  Right(v)'
    <2>1. UNCHANGED <<round, bids, burned, air, board, loaded, muddled>>
      BY <1>14 DEF ReaderComes, AlreadyLoaded, database, redis
    <2>2. Leaving' = Leaving
      BY <1>14, CalmSteps, CalmEnds
    <2>3. \A b \in Actors : acts'[b].at = "zadd" => acts'[b] = acts[b]
      BY <1>14, ReaderSteps DEF Reaches
    <2>4. QED
      BY <1>4, <2>1, <2>2, <2>3
  <1>15. ASSUME NEW a \in Actors, MetaRead(a) \/ MetaWritten(a) \/ RoundWarmed(a)
         PROVE  Right(v)'
    <2>1. /\ UNCHANGED <<round, bids, burned, air, board, loaded>> /\ muddled \subseteq muddled'
          /\ acts'[a].at \in {"meta", "hash", Ensured(a)}
          /\ \A b \in Actors \ {a} : acts'[b] = acts[b]
      BY <1>15, MetaReadIs, MetaWrittenIs, RoundWarmedIs DEF Reaches, database, redis
    <2>2. Leaving' = Leaving
      BY <1>15, CalmSteps, CalmEnds
    <2>3. \A b \in Actors : acts'[b].at = "zadd" => acts'[b] = acts[b]
      BY <2>1 DEF Ensured
    <2>4. QED
      BY <1>4, <2>1, <2>2, <2>3
  <1>16. QED
    BY <1>5, <1>6, <1>7, <1>8, <1>9, <1>10, <1>11, <1>12, <1>13, <1>14, <1>15 DEF Next

-----------------------------------------------------------------------------
(* The theorems. *)

IInv == Types /\ SupplyInv /\ AirInv /\ RoundInv /\ WonInv /\ BoardInv

LEMMA InitInvariant == Init => IInv
  <1>1. SUFFICES ASSUME Init
                 PROVE  IInv
    OBVIOUS
  <1>2. Types
    BY <1>1, InitTypes
  <1>3. /\ bids = NoBids /\ burned = 0 /\ air = <<>> /\ feed = <<>> /\ meta = <<>>
        /\ board = NoBids /\ acts = [a \in Actors |-> Idle]
    BY <1>1 DEF Init
  <1>4. DOMAIN air = {} /\ DOMAIN feed = {} /\ \A a \in Actors : acts[a].at = "idle"
    BY <1>3, IdleType
  <1>5. acts[Ending].at = "idle"
    BY <1>4, Names
  <1>6. SupplyInv /\ AirInv /\ RoundInv /\ WonInv
    BY <1>3, <1>4, <1>5 DEF SupplyInv, AirInv, RoundInv, WonInv, EndInFeed, IsEnd, Removing
  <1>7. BoardInv
    BY <1>3, <1>4 DEF BoardInv, Right, LastRight, BoardRight, LoadsRight
  <1>8. QED
    BY <1>2, <1>6, <1>7 DEF IInv

\* What is on its way, and what Redis keeps, add up to the database at every step, unless a
\* fault has been noted.
THEOREM Invariance == Spec => []IInv
  <1>1. Init => IInv
    BY InitInvariant
  <1>2. IInv /\ [Next]_vars => IInv'
    BY NextTypes, SupplySteps, AirSteps, RoundSteps, WonSteps, BoardSteps DEF IInv
  <1>3. QED
    BY <1>1, <1>2, PTL DEF Spec

\* The board that nothing is on its way to is the active bids: whatever the order of bids,
\* completions, loads and repeats was, only an event unheard, out of order or met by a load
\* can spoil it.
THEOREM BoardKept == Spec => []BoardKeptTrue
  <1>1. IInv => BoardKeptTrue
    <2>1. SUFFICES ASSUME IInv, Settled, loaded, round # NoRound, "board" \notin muddled
                   PROVE  board = bids
      BY DEF BoardKeptTrue
    <2>2. DOMAIN air = {} /\ DOMAIN feed = {} /\ acts[Ending].at = "idle"
      BY <2>1, Names DEF Settled, At
    <2>3. Leaving = {} /\ ~Doomed /\ \A u \in Users : ~InAir(u)
      BY <2>2 DEF Leaving, Removing, Doomed, InAir
    <2>4. \A u \in Users : board[u] = bids[u]
      BY <2>1, <2>3 DEF IInv, BoardInv, Right, BoardRight
    <2>5. QED
      BY <2>1, <2>4 DEF IInv, Types
  <1>2. QED
    BY <1>1, Invariance, PTL

\* The gifts left and the round that Redis keeps are those of the database when nothing is on
\* its way, unless the supply was loaded, or the round warmed, across a completion.
THEOREM SupplyAndRoundKept == Spec => []SupplyAndRoundKeptTrue
  <1>1. IInv => SupplyAndRoundKeptTrue
    <2>1. SUFFICES ASSUME IInv, Settled, meta # <<>>
                   PROVE  /\ "supply" \notin muddled => meta = <<burned>>
                          /\ "round" \notin muddled => hash = round
      BY DEF SupplyAndRoundKeptTrue
    <2>2. /\ DOMAIN air = {} /\ DOMAIN feed = {} /\ feed = <<>>
          /\ \A a \in Actors : acts[a].at = "idle"
          /\ acts[Ending].at = "idle"
      BY <2>1, Names DEF Settled, At
    <2>3. EndsUnderway = 0
      BY <2>2 DEF EndsUnderway
    <2>4. PICK n \in Nat : meta = <<n>>
      BY <2>1 DEF IInv, Types
    <2>5. "supply" \notin muddled => n + 0 = burned
      BY <2>1, <2>3, <2>4 DEF IInv, SupplyInv
    <2>6. "round" \notin muddled => hash = round
      BY <2>1, <2>2 DEF IInv, RoundInv
    <2>7. QED
      BY <2>4, <2>5, <2>6
  <1>2. QED
    BY <1>1, Invariance, PTL

-----------------------------------------------------------------------------
(* Drafts: the inductive invariant *)

Document == [status : {"none", "draft", "active"}, content : Nat]

Request == [what : {"save", "start"}, content : Nat, found : D!Ids \cup {D!None},
            by : {"page", "left", "nobody"}, calm : BOOLEAN,
            at : {"find", "write", "check", "activate", "answered"}]

\* A save finds and writes, a start checks and activates, and all but a save that has not
\* written yet has a document.
Proper(c) ==
    /\ c.at \in {"find", "write"} => c.what = "save"
    /\ c.at \in {"check", "activate"} => c.what = "start"
    /\ c.at \in {"answered", "check", "activate"} => c.found \in D!Ids

DraftTypes ==
    /\ auctions \in [D!Ids -> Document]
    /\ {local, form, typed} \subseteq Nat /\ edits \in 0..MaxEdits
    /\ edited \in BOOLEAN /\ submitting \in BOOLEAN /\ asking \in BOOLEAN
    /\ signed \in BOOLEAN /\ synced \in BOOLEAN /\ hasty \in BOOLEAN
    /\ fetch \in [at : {"none", "asked", "answered"}, content : Nat]
    /\ calls \subseteq Request /\ \A c \in calls : Proper(c)
    /\ (D!PageOpen => signed) /\ (asking => D!PageOpen)

\* Only one call can be the page's, and the page waits for it.
OneByPage ==
    \A c \in calls : c.by = "page" =>
        D!PageOpen /\ submitting /\ \A d \in calls : d.by = "page" => d = c

\* How far a submission that nothing disturbs has come.
Advanced(c) ==
    /\ (c.what = "save" /\ c.at = "answered") \/ c.at \in {"check", "activate"} =>
          auctions[c.found] = [status |-> "draft", content |-> c.content]
    /\ c.what = "start" /\ c.at = "answered" =>
          auctions[c.found] = [status |-> "active", content |-> c.content]

Alone == \A c \in calls : c.calm /\ c.by = "page" => calls = {c} /\ Advanced(c)

\* No save that is under way has found an auction that a submission has started.
Held ==
    \A h \in holds :
        /\ h.id \in D!Ids /\ auctions[h.id] = [status |-> "active", content |-> h.content]
        /\ \A c \in calls : c.at = "write" => c.found # h.id

HoldsInv == OneByPage /\ Alone /\ Held

-----------------------------------------------------------------------------
(* What becomes of the text that was typed last, while nothing in hasty has happened *)

Careful == ~hasty /\ typed # D!NoDraft

\* The server's newest draft is that text.
Stored == D!Drafted # {} /\ auctions[D!Max(D!Drafted)].content = typed

\* Whatever is under way carries it, or has written it; nothing newer was left alone.
Carries(c) ==
    /\ c.content = typed
    /\ ~(c.what = "start" /\ c.at = "answered")
    /\ c.at = "write" => \A i \in D!Drafted : i > c.found => auctions[i].content = typed
    /\ c.at \in {"answered", "check", "activate"} => auctions[c.found].content = typed

\* The page shows it, or will when it has loaded.
PageShows ==
    /\ D!PageOpen /\ asking => Stored /\ calls = {} /\ form = D!Blank
    /\ D!PageOpen /\ ~asking => form = typed
    /\ ~D!PageOpen => local \in {typed, D!NoDraft}

\* The server has it, or will: from a save under way, when the page is left, or when the
\* user signs in again.
Backed ==
    \/ Stored
    \/ \E c \in calls : c.at \in {"find", "write"}
    \/ D!PageOpen /\ edited /\ ~asking
    \/ ~signed /\ ~synced /\ local = typed /\ ~D!PageOpen

Fetching ==
    /\ fetch.at = "asked" => Stored
    /\ fetch.at = "answered" => fetch.content = typed

TextKept == (\A c \in calls : Carries(c)) /\ PageShows /\ Backed /\ Fetching

KeptInv == Careful => TextKept

DraftsInv == DraftTypes /\ HoldsInv /\ KeptInv

-----------------------------------------------------------------------------
(* The newest document, and the next *)

LEMMA HasGreatest ==
  ASSUME NEW n \in Nat, NEW S \in SUBSET (0..n), S # {}
  PROVE  \E x \in S : \A y \in S : x >= y
<1> DEFINE T == {m \in Nat : n - m \in S}
<1> DEFINE R == OpToRel(<, Nat)
<1>1. T \subseteq Nat /\ T # {}
  <2>1. PICK x \in S : x \in 0..n
    OBVIOUS
  <2>2. n - x \in Nat /\ n - (n - x) = x
    BY <2>1
  <2> QED
    BY <2>2
<1>2. IsWellFoundedOn(R, Nat)
  BY NatLessThanWellFounded
<1>3. \A x, y \in Nat : y < x => <<y, x>> \in R
  BY DEF OpToRel
<1> HIDE DEF T, R
<1>4. PICK m \in T : \A k \in T : ~(<<k, m>> \in R)
  BY <1>1, <1>2, WFMin
<1>5. \A k \in T : ~(k < m)
  BY <1>1, <1>3, <1>4
<1>6. m \in Nat /\ n - m \in S
  BY <1>4 DEF T
<1>7. ASSUME NEW y \in S PROVE n - m >= y
  <2>1. y \in 0..n
    OBVIOUS
  <2>2. n - y \in Nat /\ n - (n - y) = y
    BY <2>1
  <2>3. n - y \in T
    BY <2>2 DEF T
  <2> QED
    BY <1>5, <1>6, <2>1, <2>2, <2>3
<1> QED
  BY <1>6, <1>7

LEMMA NewestIs ==
  ASSUME NEW S \in SUBSET D!Ids, S # {}
  PROVE  D!Max(S) \in S /\ \A y \in S : D!Max(S) >= y
<1>1. MaxAuctions \in Nat
  BY PagesAssumption DEF D!DraftsAssumption
<1>2. S \in SUBSET (0..MaxAuctions)
  BY <1>1 DEF D!Ids
<1>3. \E x \in S : \A y \in S : x >= y
  BY <1>1, <1>2, HasGreatest
<1> QED
  BY <1>3 DEF D!Max

LEMMA NextIs ==
  ASSUME NEW S \in SUBSET D!Ids, S # {}
  PROVE  D!Min(S) \in S
<1> DEFINE R == OpToRel(<, Nat)
<1>1. S \subseteq Nat
  BY PagesAssumption DEF D!DraftsAssumption, D!Ids
<1>2. IsWellFoundedOn(R, Nat)
  BY NatLessThanWellFounded
<1>3. \A x, y \in Nat : y < x => <<y, x>> \in R
  BY DEF OpToRel
<1> HIDE DEF R
<1>4. PICK m \in S : \A k \in S : ~(<<k, m>> \in R)
  <2>1. S # {}
    OBVIOUS
  <2> QED
    BY <1>1, <1>2, <2>1, WFMin
<1>5. ASSUME NEW k \in S
      PROVE  m <= k
  <2>1. m \in Nat /\ k \in Nat
    BY <1>1
  <2>2. ~(k < m)
    BY <1>3, <1>4, <2>1
  <2> QED
    BY <2>1, <2>2
<1> QED
  BY <1>5 DEF D!Min

\* The draft that a save would write to is the newest, if there is any.
LEMMA FoundIs ==
  ASSUME DraftTypes
  PROVE  /\ D!FindDraft \in D!Ids \cup {D!None}
         /\ D!FindDraft # D!None => D!FindDraft \in D!Drafted
         /\ \A i \in D!Drafted : ~(i > D!FindDraft)
<1>1. D!Drafted \in SUBSET D!Ids /\ D!Ids \subseteq Nat \ {0}
  BY PagesAssumption DEF D!Drafted, D!Ids, D!DraftsAssumption
<1>2. CASE D!Drafted = {}
  BY <1>2 DEF D!FindDraft
<1>3. CASE D!Drafted # {}
  <2>1. D!Max(D!Drafted) \in D!Drafted /\ \A y \in D!Drafted : D!Max(D!Drafted) >= y
    BY <1>1, <1>3, NewestIs
  <2>2. D!FindDraft = D!Max(D!Drafted)
    BY <1>3 DEF D!FindDraft
  <2>3. ASSUME NEW i \in D!Drafted
        PROVE  ~(i > D!FindDraft)
    <3>1. i \in Nat /\ D!FindDraft \in Nat /\ D!FindDraft >= i
      BY <1>1, <2>1, <2>2
    <3> QED
      BY <3>1
  <2> QED
    BY <1>1, <2>1, <2>2, <2>3
<1> QED
  BY <1>2, <1>3

\* A form that is stored is a text, and one that is served is what is stored.
LEMMA ServedIs ==
  ASSUME DraftTypes
  PROVE  D!Served \in Nat /\ D!Blank \in Nat /\ D!NoDraft \in Nat
         /\ (Stored => D!Served = typed)
<1>1. D!Blank \in Nat /\ D!NoDraft \in Nat
  BY PagesAssumption DEF D!Blank, D!NoDraft, D!DraftsAssumption
<1>2. D!Drafted # {} => D!Max(D!Drafted) \in D!Ids
  BY NewestIs DEF D!Drafted
<1> QED
  BY <1>1, <1>2 DEF D!Served, DraftTypes, Document, Stored

LEMMA SaveIs ==
  ASSUME NEW n \in Nat
  PROVE  /\ D!Save(n) \in Request /\ Proper(D!Save(n)) /\ D!Save(n).at = "find"
         /\ D!Save(n).content = n /\ D!Save(n).by = "nobody"
         /\ D!Save(n).what = "save" /\ ~D!Save(n).calm
BY DEF D!Save, Request, Proper

\* Who leaves the page changes nothing else of what was asked.
LEMMA LeftIs ==
  ASSUME DraftTypes, NEW cs \in SUBSET calls, NEW d \in D!Left(cs)
  PROVE  /\ d \in Request /\ Proper(d) /\ d.by # "page"
         /\ \E c \in cs : /\ d.at = c.at /\ d.what = c.what /\ d.found = c.found
                          /\ d.content = c.content
<1>1. PICK c \in cs : d = [c EXCEPT !.by = IF c.by = "page" THEN "left" ELSE c.by]
  BY DEF D!Left
<1>2. c \in Request /\ Proper(c)
  BY DEF DraftTypes
<1> QED
  BY <1>1, <1>2 DEF Request, Proper

\* A call that goes on.
LEMMA GoesOn ==
  ASSUME NEW c \in Request, NEW at \in {"find", "write", "check", "activate", "answered"},
         NEW found \in D!Ids \cup {D!None}, NEW what \in {"save", "start"}
  PROVE  LET d == [c EXCEPT !.at = at, !.found = found, !.what = what]
         IN  /\ d \in Request /\ d.at = at /\ d.found = found /\ d.what = what
             /\ d.by = c.by /\ d.calm = c.calm /\ d.content = c.content
BY DEF Request

\* Nothing of the documents changes.
LEMMA DocumentsRest ==
  ASSUME UNCHANGED <<auctions, typed>>
  PROVE  /\ D!Drafted' = D!Drafted /\ (Stored' <=> Stored)
         /\ \A c \in Request : Carries(c)' <=> Carries(c)
<1>1. D!Drafted' = D!Drafted
  BY DEF D!Drafted
<1>2. Stored' <=> Stored
  BY <1>1 DEF Stored
<1>3. ASSUME NEW c \in Request
      PROVE  Carries(c)' <=> Carries(c)
  BY <1>1 DEF Carries
<1> QED
  BY <1>1, <1>2, <1>3

-----------------------------------------------------------------------------
(* Submissions that nothing disturbs *)

LEMMA HeldIs ==
  ASSUME HoldsInv, NEW h \in holds
  PROVE  /\ h.id \in D!Ids /\ auctions[h.id] = [status |-> "active", content |-> h.content]
         /\ auctions[h.id].status = "active" /\ auctions[h.id].content = h.content
         /\ \A c \in calls : c.at = "write" => c.found # h.id
<1>1. /\ h.id \in D!Ids /\ auctions[h.id] = [status |-> "active", content |-> h.content]
      /\ \A c \in calls : c.at = "write" => c.found # h.id
  BY DEF HoldsInv, Held
<1> QED
  BY <1>1

\* Nothing happens to the calls.
LEMMA HoldsRests ==
  ASSUME HoldsInv, UNCHANGED <<auctions, calls, submitting, holds>>, D!PageOpen => D!PageOpen'
  PROVE  HoldsInv'
BY DEF HoldsInv, OneByPage, Alone, Advanced, Held

\* Calls come to an end, lose their page, or are saves that are to find a draft.
LEMMA HoldsFewer ==
  ASSUME HoldsInv, UNCHANGED <<auctions, holds>>,
         \A d \in calls' : \/ d \in calls
                           \/ /\ d.by # "page"
                              /\ d.at = "write" => \E c \in calls : c.at = "write" /\ c.found = d.found,
         \A d \in calls' : d.by = "page" => /\ D!PageOpen' /\ submitting'
                                            /\ calls' \subseteq calls
  PROVE  HoldsInv'
<1>1. OneByPage'
  BY DEF HoldsInv, OneByPage
<1>2. Alone'
  <2> SUFFICES ASSUME NEW d \in calls', d.calm, d.by = "page"
               PROVE  calls' = {d} /\ Advanced(d)'
    BY DEF Alone
  <2>1. d \in calls /\ calls' \subseteq calls
    OBVIOUS
  <2>2. calls = {d} /\ Advanced(d)
    BY <2>1 DEF HoldsInv, Alone
  <2> QED
    BY <2>1, <2>2 DEF Advanced
<1>3. Held'
  <2>1. ASSUME NEW h \in holds, NEW d \in calls', d.at = "write"
        PROVE  d.found # h.id
    <3>1. \E c \in calls : c.at = "write" /\ c.found = d.found
      BY <2>1
    <3> QED
      BY <3>1 DEF HoldsInv, Held
  <2> QED
    BY <2>1 DEF HoldsInv, Held
<1> QED
  BY <1>1, <1>2, <1>3 DEF HoldsInv

\* A call goes on to be d, or nobody waits for it.
LEMMA HoldsMoves ==
  ASSUME HoldsInv, NEW c \in calls, NEW d, NEW N \in SUBSET {d},
         calls' = (calls \ {c}) \cup N, d.by = c.by, d.calm = c.calm,
         UNCHANGED <<submitting, holds, form>>,
         c.calm /\ c.by = "page" /\ calls = {c} /\ Advanced(c) => Advanced(d)',
         \A h \in holds : /\ auctions'[h.id] = auctions[h.id]
                          /\ d.at = "write" => d.found # h.id
  PROVE  HoldsInv'
<1>1. D!PageOpen' <=> D!PageOpen
  BY DEF D!PageOpen
<1>2. OneByPage'
  BY <1>1 DEF HoldsInv, OneByPage
<1>3. Alone'
  <2> SUFFICES ASSUME NEW e \in calls', e.calm, e.by = "page"
               PROVE  calls' = {e} /\ Advanced(e)'
    BY DEF Alone
  <2>1. CASE e \in calls \ {c}
    <3>1. calls = {e}
      BY <2>1 DEF HoldsInv, Alone
    <3> QED
      BY <2>1, <3>1
  <2>2. CASE e = d
    <3>1. calls = {c} /\ Advanced(c)
      BY <2>2 DEF HoldsInv, Alone
    <3> QED
      BY <2>2, <3>1
  <2> QED
    BY <2>1, <2>2
<1>4. Held'
  BY DEF HoldsInv, Held
<1> QED
  BY <1>2, <1>3, <1>4 DEF HoldsInv

-----------------------------------------------------------------------------
(* The requests that the server answers *)

LEMMA FindsInv ==
  ASSUME DraftTypes, HoldsInv, NEW c \in calls, D!Finds(c)
  PROVE  DraftTypes' /\ HoldsInv'
<1>0. PICK found \in D!Ids \cup {D!None} : found = D!FindDraft
  BY FoundIs
<1> DEFINE d == [c EXCEPT !.at = "write", !.found = found]
<1>1. c \in Request /\ Proper(c) /\ c.at = "find"
  BY DEF D!Finds, DraftTypes
<1>2. /\ d \in Request /\ d.at = "write" /\ d.found = found /\ d.what = c.what
      /\ d.by = c.by /\ d.calm = c.calm
  BY <1>1 DEF Request
<1>3. /\ calls' = (calls \ {c}) \cup {d} /\ UNCHANGED <<auctions, submitting, holds, form>>
      /\ UNCHANGED <<local, edited, asking, signed, synced, fetch, typed, hasty, edits>>
  BY <1>0 DEF D!Finds, D!browser, D!session, D!history
<1> HIDE DEF d
<1>4. Proper(d)
  BY <1>1, <1>2 DEF Proper
<1>5. DraftTypes'
  BY <1>2, <1>3, <1>4 DEF DraftTypes, D!PageOpen
<1>6. ASSUME NEW h \in holds
      PROVE  d.found # h.id
  <2>1. h.id \in D!Ids /\ auctions[h.id].status = "active"
    BY HeldIs
  <2>2. D!None \notin D!Ids
    BY DEF D!None, D!Ids
  <2>3. found # D!None => auctions[found].status = "draft"
    BY <1>0, FoundIs DEF D!Drafted
  <2> QED
    BY <1>2, <2>1, <2>2, <2>3
<1>7. Advanced(d)'
  BY <1>2 DEF Advanced
<1> QED
  BY <1>2, <1>3, <1>5, <1>6, <1>7, HoldsMoves

\* Which document is written, and how.
LEMMA WritesIs ==
  ASSUME DraftTypes, NEW c \in calls, D!Writes(c)
  PROVE  \E id \in D!Ids :
            /\ c.at = "write"
            /\ \/ c.found = D!None /\ auctions[id].status = "none"
               \/ c.found # D!None /\ id = c.found
            /\ auctions' \in [D!Ids -> Document]
            /\ auctions'[id] = [status |-> "draft", content |-> c.content]
            /\ \A i \in D!Ids \ {id} : auctions'[i] = auctions[i]
            /\ \E N \in SUBSET {[c EXCEPT !.at = "answered", !.found = id]} :
                  calls' = (calls \ {c}) \cup N
            /\ UNCHANGED <<local, form, edited, submitting, asking, signed, synced, fetch,
                           sessions, losses, edits, typed, hasty, holds>>
<1> DEFINE none == {i \in D!Ids : auctions[i].status = "none"}
           id == IF c.found # D!None THEN c.found ELSE D!Min(none)
           d == [c EXCEPT !.at = "answered", !.found = id]
           N == IF c.by = "nobody" THEN {} ELSE {d}
<1>1. c \in Request /\ c.at = "write"
  BY DEF D!Writes, DraftTypes
<1>2. c.found = D!None => none # {} /\ D!Min(none) \in none
  <2>1. c.found = D!None => none # {}
    BY DEF D!Writes
  <2>2. none \in SUBSET D!Ids
    OBVIOUS
  <2> HIDE DEF none
  <2> QED
    BY <2>1, <2>2, NextIs
<1>3. id \in D!Ids
  BY <1>1, <1>2 DEF Request
<1>4. auctions' = [auctions EXCEPT ![id].status = "draft", ![id].content = c.content]
  BY DEF D!Writes
<1>5. /\ calls' = (calls \ {c}) \cup N
      /\ UNCHANGED <<local, form, edited, submitting, asking, signed, synced, fetch,
                     sessions, losses, edits, typed, hasty, holds>>
  BY DEF D!Writes, D!browser, D!session, D!history
<1>6. /\ auctions' \in [D!Ids -> Document]
      /\ auctions'[id] = [status |-> "draft", content |-> c.content]
      /\ \A i \in D!Ids \ {id} : auctions'[i] = auctions[i]
  <2> HIDE DEF id
  <2>1. c.content \in Nat /\ auctions \in [D!Ids -> Document]
    BY <1>1 DEF Request, DraftTypes
  <2> QED
    BY <1>3, <1>4, <2>1 DEF Document
<1>7. c.found = D!None => auctions[id].status = "none"
  BY <1>2
<1>8. c.found # D!None => id = c.found
  OBVIOUS
<1>9. N \in SUBSET {d}
  OBVIOUS
<1> HIDE DEF id, N
<1> QED
  BY <1>1, <1>3, <1>5, <1>6, <1>7, <1>8, <1>9

LEMMA WritesInv ==
  ASSUME DraftTypes, HoldsInv, NEW c \in calls, D!Writes(c)
  PROVE  DraftTypes' /\ HoldsInv'
<1>1. PICK id \in D!Ids :
            /\ c.at = "write"
            /\ \/ c.found = D!None /\ auctions[id].status = "none"
               \/ c.found # D!None /\ id = c.found
            /\ auctions' \in [D!Ids -> Document]
            /\ auctions'[id] = [status |-> "draft", content |-> c.content]
            /\ \A i \in D!Ids \ {id} : auctions'[i] = auctions[i]
            /\ \E N \in SUBSET {[c EXCEPT !.at = "answered", !.found = id]} :
                  calls' = (calls \ {c}) \cup N
            /\ UNCHANGED <<local, form, edited, submitting, asking, signed, synced, fetch,
                           sessions, losses, edits, typed, hasty, holds>>
  BY WritesIs
<1> DEFINE d == [c EXCEPT !.at = "answered", !.found = id]
<1>2. c \in Request /\ Proper(c)
  BY DEF DraftTypes
<1>3. /\ d \in Request /\ d.at = "answered" /\ d.found = id /\ d.what = c.what
      /\ d.by = c.by /\ d.calm = c.calm /\ d.content = c.content
  BY <1>2 DEF Request
<1>4. PICK N \in SUBSET {d} : calls' = (calls \ {c}) \cup N
  BY <1>1
<1> HIDE DEF d
<1>5. Proper(d) /\ d.what = "save"
  BY <1>1, <1>2, <1>3 DEF Proper
<1>6. DraftTypes'
  BY <1>1, <1>3, <1>4, <1>5 DEF DraftTypes, D!PageOpen
<1>7. ASSUME NEW h \in holds
      PROVE  auctions'[h.id] = auctions[h.id]
  <2>1. h.id \in D!Ids /\ auctions[h.id].status = "active" /\ c.found # h.id
    BY <1>1, HeldIs
  <2>2. id # h.id
    BY <1>1, <2>1
  <2> QED
    BY <1>1, <2>1, <2>2
<1>8. Advanced(d)'
  BY <1>1, <1>3, <1>5 DEF Advanced
<1> QED
  BY <1>1, <1>3, <1>4, <1>6, <1>7, <1>8, HoldsMoves

LEMMA ChecksInv ==
  ASSUME DraftTypes, HoldsInv, NEW c \in calls, D!Checks(c)
  PROVE  DraftTypes' /\ HoldsInv'
<1> DEFINE d == [c EXCEPT !.at = "activate"]
<1>1. c \in Request /\ Proper(c) /\ c.at = "check"
  BY DEF D!Checks, DraftTypes
<1>2. /\ d \in Request /\ d.at = "activate" /\ d.found = c.found /\ d.what = c.what
      /\ d.by = c.by /\ d.calm = c.calm /\ d.content = c.content
  BY <1>1 DEF Request
<1>3. /\ calls' = (calls \ {c}) \cup {d} /\ UNCHANGED <<auctions, submitting, holds, form>>
      /\ UNCHANGED <<local, edited, asking, signed, synced, fetch, typed, hasty, edits>>
  BY DEF D!Checks, D!browser, D!session, D!history
<1> HIDE DEF d
<1>4. Proper(d)
  BY <1>1, <1>2 DEF Proper
<1>5. DraftTypes'
  BY <1>2, <1>3, <1>4 DEF DraftTypes, D!PageOpen
<1>6. Advanced(c) => Advanced(d)'
  BY <1>1, <1>2, <1>3 DEF Advanced
<1> QED
  BY <1>2, <1>3, <1>5, <1>6, HoldsMoves

LEMMA RefusesInv ==
  ASSUME DraftTypes, HoldsInv, NEW c \in calls, D!Refuses(c)
  PROVE  DraftTypes' /\ HoldsInv'
<1>1. /\ calls' = calls \ {c} /\ submitting' = (submitting /\ c.by # "page")
      /\ UNCHANGED <<auctions, holds, form, local, edited, asking, signed, synced, fetch, typed,
                     hasty, edits>>
  BY DEF D!Refuses, D!Told, D!session, D!history
<1>2. DraftTypes'
  BY <1>1 DEF DraftTypes, D!PageOpen
<1>3. \A d \in calls' : d.by = "page" => D!PageOpen' /\ submitting'
  BY <1>1 DEF HoldsInv, OneByPage, D!PageOpen
<1> QED
  BY <1>1, <1>2, <1>3, HoldsFewer

LEMMA ActivatesInv ==
  ASSUME DraftTypes, HoldsInv, NEW c \in calls, D!Activates(c)
  PROVE  DraftTypes' /\ HoldsInv'
<1> DEFINE d == [c EXCEPT !.at = "answered"]
           N == IF c.by = "nobody" THEN {} ELSE {d}
<1>1. c \in Request /\ Proper(c) /\ c.at = "activate" /\ c.found \in D!Ids /\ c.what = "start"
  BY DEF D!Activates, DraftTypes, Proper
<1>2. /\ d \in Request /\ d.at = "answered" /\ d.found = c.found /\ d.what = c.what
      /\ d.by = c.by /\ d.calm = c.calm /\ d.content = c.content
  BY <1>1 DEF Request
<1>3. /\ calls' = (calls \ {c}) \cup N /\ N \in SUBSET {d}
      /\ UNCHANGED <<submitting, holds, form, local, edited, asking, signed, synced, fetch,
                     hasty, edits>>
      /\ auctions' = [auctions EXCEPT ![c.found].status = "active"]
      /\ typed' \in {typed, D!NoDraft}
  BY DEF D!Activates, D!browser, D!session
<1> HIDE DEF d, N
<1>4. Proper(d)
  BY <1>1, <1>2 DEF Proper
<1>5. /\ auctions' \in [D!Ids -> Document]
      /\ auctions'[c.found] = [status |-> "active", content |-> auctions[c.found].content]
      /\ \A i \in D!Ids \ {c.found} : auctions'[i] = auctions[i]
  BY <1>1, <1>3 DEF DraftTypes, Document
<1>6. DraftTypes'
  BY <1>2, <1>3, <1>4, <1>5, ServedIs DEF DraftTypes, D!PageOpen
<1>7. ASSUME NEW h \in holds
      PROVE  auctions'[h.id] = auctions[h.id]
  <2>1. h.id \in D!Ids /\ auctions[h.id] = [status |-> "active", content |-> h.content]
    BY DEF HoldsInv, Held
  <2>2. auctions[h.id].content = h.content
    BY <2>1
  <2> QED
    BY <1>5, <2>1, <2>2
<1>8. Advanced(c) => Advanced(d)'
  <2>1. Advanced(c) => auctions[c.found] = [status |-> "draft", content |-> c.content]
    BY <1>1 DEF Advanced
  <2>2. Advanced(c) => auctions[c.found].content = c.content
    BY <2>1
  <2> QED
    BY <1>1, <1>2, <1>5, <2>2 DEF Advanced
<1> QED
  BY <1>2, <1>3, <1>6, <1>7, <1>8, HoldsMoves

LEMMA GoesOnToStartInv ==
  ASSUME DraftTypes, HoldsInv, NEW c \in calls, D!GoesOnToStart(c)
  PROVE  DraftTypes' /\ HoldsInv'
<1> DEFINE d == [c EXCEPT !.what = "start", !.at = "check"]
           N == IF signed THEN {d} ELSE {}
<1>1. c \in Request /\ Proper(c) /\ c.at = "answered" /\ c.found \in D!Ids /\ c.what = "save"
  BY DEF D!GoesOnToStart, DraftTypes, Proper
<1>2. /\ d \in Request /\ d.at = "check" /\ d.found = c.found /\ d.what = "start"
      /\ d.by = c.by /\ d.calm = c.calm /\ d.content = c.content
  BY <1>1 DEF Request
<1>3. /\ calls' = (calls \ {c}) \cup N /\ N \in SUBSET {d}
      /\ UNCHANGED <<auctions, submitting, holds, form, local, edited, asking, signed, synced,
                     fetch, typed, hasty, edits>>
  BY DEF D!GoesOnToStart, D!browser, D!session, D!history
<1> HIDE DEF d, N
<1>4. Proper(d)
  BY <1>1, <1>2 DEF Proper
<1>5. DraftTypes'
  BY <1>2, <1>3, <1>4 DEF DraftTypes, D!PageOpen
<1>6. Advanced(c) => Advanced(d)'
  BY <1>1, <1>2, <1>3 DEF Advanced
<1> QED
  BY <1>2, <1>3, <1>5, <1>6, HoldsMoves

\* What the page leaves behind: its calls, and a save.
LEMMA UnmountsIs ==
  ASSUME DraftTypes, NEW cs \in SUBSET calls, D!Unmounts(cs)
  PROVE  /\ form' = D!NoDraft /\ edited' = FALSE /\ submitting' = FALSE /\ asking' = FALSE
         /\ calls' \subseteq Request
         /\ \A d \in calls' :
               /\ Proper(d) /\ d.by # "page"
               /\ \/ edited /\ d = D!Save(form) /\ d.at = "find" /\ d.content = form
                  \/ \E c \in cs : /\ d.at = c.at /\ d.what = c.what /\ d.found = c.found
                                   /\ d.content = c.content
         /\ edited => \E d \in calls' : d.at = "find"
<1>1. form \in Nat
  BY DEF DraftTypes
<1>2. /\ form' = D!NoDraft /\ edited' = FALSE /\ submitting' = FALSE /\ asking' = FALSE
      /\ calls' = D!Left(cs) \cup (IF edited THEN {D!Save(form)} ELSE {})
  BY DEF D!Unmounts
<1>3. ASSUME NEW d \in calls'
      PROVE  /\ d \in Request /\ Proper(d) /\ d.by # "page"
             /\ \/ edited /\ d = D!Save(form) /\ d.at = "find" /\ d.content = form
                \/ \E c \in cs : /\ d.at = c.at /\ d.what = c.what /\ d.found = c.found
                                 /\ d.content = c.content
  <2>1. CASE d \in D!Left(cs)
    BY <2>1, LeftIs
  <2>2. CASE edited /\ d = D!Save(form)
    BY <1>1, <2>2, SaveIs
  <2> QED
    BY <1>2, <2>1, <2>2
<1>4. edited => \E d \in calls' : d.at = "find"
  BY <1>1, <1>2, SaveIs
<1> QED
  BY <1>2, <1>3, <1>4

LEMMA LeavesInv ==
  ASSUME DraftTypes, HoldsInv, D!Leaves
  PROVE  DraftTypes' /\ HoldsInv'
<1>1. /\ D!Unmounts(calls) /\ hasty' \in BOOLEAN
      /\ UNCHANGED <<auctions, local, signed, synced, fetch, edits, typed, holds>>
  BY DEF D!Leaves, D!session, DraftTypes
<1>2. ~D!PageOpen'
  BY <1>1, UnmountsIs DEF D!PageOpen, D!NoDraft
<1>3. DraftTypes'
  BY <1>1, <1>2, UnmountsIs, ServedIs DEF DraftTypes
<1>4. calls \in SUBSET calls /\ D!Unmounts(calls)
  BY <1>1
<1>5. \A d \in calls' :
         /\ d.by # "page"
         /\ \/ d.at = "find"
            \/ \E c \in calls : d.at = c.at /\ d.found = c.found
  BY <1>4, UnmountsIs
<1>6. \A d \in calls' :
         \/ d \in calls
         \/ /\ d.by # "page"
            /\ d.at = "write" => \E c \in calls : c.at = "write" /\ c.found = d.found
  BY <1>5
<1>7. \A d \in calls' : d.by = "page" => /\ D!PageOpen' /\ submitting'
                                         /\ calls' \subseteq calls
  BY <1>5
<1> QED
  BY <1>1, <1>3, <1>6, <1>7, HoldsFewer

LEMMA SubmissionDoneInv ==
  ASSUME DraftTypes, HoldsInv, NEW c \in calls, D!SubmissionDone(c)
  PROVE  DraftTypes' /\ HoldsInv'
<1>1. /\ c \in Request /\ Proper(c) /\ c.what = "start" /\ c.at = "answered" /\ c.found \in D!Ids
      /\ local' = D!NoDraft
      /\ UNCHANGED <<auctions, signed, synced, fetch, edits, typed, hasty>>
  BY DEF D!SubmissionDone, DraftTypes, Proper, D!session
<1>2. \/ D!Unmounts(calls \ {c})
      \/ ~D!PageOpen /\ calls' = calls \ {c} /\ UNCHANGED <<form, edited, submitting, asking>>
  BY DEF D!SubmissionDone
<1>3. /\ calls' \subseteq Request /\ \A d \in calls' : Proper(d) /\ d.by # "page"
      /\ \A d \in calls' : \/ d.at = "find"
                           \/ \E e \in calls \ {c} : d.at = e.at /\ d.found = e.found
      /\ form' \in Nat /\ edited' \in BOOLEAN /\ submitting' \in BOOLEAN /\ asking' \in BOOLEAN
      /\ ~D!PageOpen' /\ ~asking'
  <2>1. CASE D!Unmounts(calls \ {c})
    BY <2>1, UnmountsIs, ServedIs DEF D!PageOpen, D!NoDraft
  <2>2. CASE ~D!PageOpen /\ calls' = calls \ {c} /\ UNCHANGED <<form, edited, submitting, asking>>
    BY <2>2 DEF DraftTypes, D!PageOpen, HoldsInv, OneByPage
  <2> QED
    BY <1>2, <2>1, <2>2
<1>4. DraftTypes'
  BY <1>1, <1>3, ServedIs DEF DraftTypes
<1>5. CASE c.calm /\ c.by = "page"
  <2>1. calls = {c} /\ auctions[c.found] = [status |-> "active", content |-> c.content]
    BY <1>1, <1>5 DEF HoldsInv, Alone, Advanced
  <2>2. holds' = holds \cup {[id |-> c.found, content |-> c.content]}
    BY <1>5 DEF D!SubmissionDone
  <2>3. \A d \in calls' : d.at # "write"
    BY <1>3, <2>1
  <2>4. Held'
    <3>1. ASSUME NEW h \in holds'
          PROVE  h.id \in D!Ids /\ auctions[h.id] = [status |-> "active", content |-> h.content]
      <4>1. CASE h \in holds
        BY <4>1, HeldIs
      <4>2. CASE h = [id |-> c.found, content |-> c.content]
        BY <1>1, <2>1, <4>2
      <4> QED
        BY <2>2, <4>1, <4>2
    <3> QED
      BY <1>1, <2>3, <3>1 DEF Held
  <2>5. OneByPage' /\ Alone'
    BY <1>3 DEF OneByPage, Alone
  <2> QED
    BY <1>4, <2>4, <2>5 DEF HoldsInv
<1>6. CASE ~(c.calm /\ c.by = "page")
  <2>1. holds' = holds
    BY <1>6 DEF D!SubmissionDone
  <2>2. \A d \in calls' :
           \/ d \in calls
           \/ /\ d.by # "page"
              /\ d.at = "write" => \E e \in calls : e.at = "write" /\ e.found = d.found
    BY <1>3
  <2>3. \A d \in calls' : d.by = "page" => /\ D!PageOpen' /\ submitting'
                                           /\ calls' \subseteq calls
    BY <1>3
  <2> QED
    BY <1>1, <1>4, <2>1, <2>2, <2>3, HoldsFewer
<1> QED
  BY <1>5, <1>6

LEMMA LosesInv ==
  ASSUME DraftTypes, HoldsInv, NEW c \in calls, D!Loses(c)
  PROVE  DraftTypes' /\ HoldsInv'
<1>1. /\ calls' = calls \ {c} /\ submitting' = (submitting /\ c.by # "page") /\ hasty' = TRUE
      /\ UNCHANGED <<auctions, holds, form, local, edited, asking, signed, synced, fetch, typed,
                     edits>>
  BY DEF D!Loses, D!Told, D!session
<1>2. DraftTypes'
  BY <1>1 DEF DraftTypes, D!PageOpen
<1>3. \A d \in calls' : d.by = "page" => D!PageOpen' /\ submitting'
  BY <1>1 DEF HoldsInv, OneByPage, D!PageOpen
<1> QED
  BY <1>1, <1>2, <1>3, HoldsFewer

LEMMA OpensInv ==
  ASSUME DraftTypes, HoldsInv, D!Opens
  PROVE  DraftTypes' /\ HoldsInv'
<1>1. /\ signed /\ ~D!PageOpen /\ asking' = (local = D!NoDraft)
      /\ form' = IF local # D!NoDraft THEN local ELSE D!Blank
      /\ edited' = FALSE /\ submitting' = FALSE /\ hasty' = (hasty \/ calls # {})
      /\ UNCHANGED <<auctions, local, signed, synced, fetch, calls, edits, typed, holds>>
  BY DEF D!Opens, D!session
<1>2. DraftTypes'
  <2>1. D!Blank # D!NoDraft
    BY PagesAssumption DEF D!Blank, D!NoDraft, D!DraftsAssumption
  <2> QED
    BY <1>1, <2>1, ServedIs DEF DraftTypes, D!PageOpen
<1>3. \A d \in calls : d.by # "page"
  BY <1>1 DEF HoldsInv, OneByPage
<1> QED
  BY <1>1, <1>2, <1>3, HoldsFewer

LEMMA ReloadsInv ==
  ASSUME DraftTypes, HoldsInv, D!Reloads
  PROVE  DraftTypes' /\ HoldsInv'
<1>1. /\ form' = D!NoDraft /\ edited' = FALSE /\ submitting' = FALSE /\ asking' = FALSE
      /\ signed' = FALSE /\ synced' = FALSE /\ fetch' = D!NoRequest /\ hasty' \in BOOLEAN
      /\ calls' = {[c EXCEPT !.by = "nobody"] : c \in {d \in calls : d.at # "answered"}}
      /\ UNCHANGED <<auctions, local, edits, typed, holds>>
  BY DEF D!Reloads, DraftTypes
<1>2. ASSUME NEW d \in calls'
      PROVE  /\ d \in Request /\ Proper(d) /\ d.by = "nobody"
             /\ \E c \in calls : /\ d.at = c.at /\ d.what = c.what /\ d.found = c.found
                                 /\ d.content = c.content
  <2>1. PICK c \in calls : d = [c EXCEPT !.by = "nobody"]
    BY <1>1
  <2>2. c \in Request /\ Proper(c)
    BY DEF DraftTypes
  <2> QED
    BY <2>1, <2>2 DEF Request, Proper
<1>3. D!NoRequest \in [at : {"none", "asked", "answered"}, content : Nat]
  BY ServedIs DEF D!NoRequest
<1>4. ~D!PageOpen'
  BY <1>1 DEF D!PageOpen, D!NoDraft
<1>5. DraftTypes'
  BY <1>1, <1>2, <1>3, <1>4, ServedIs DEF DraftTypes
<1>6. \A d \in calls' :
         \/ d \in calls
         \/ /\ d.by # "page"
            /\ d.at = "write" => \E c \in calls : c.at = "write" /\ c.found = d.found
  BY <1>2
<1>7. \A d \in calls' : d.by = "page" => /\ D!PageOpen' /\ submitting'
                                         /\ calls' \subseteq calls
  BY <1>2
<1> QED
  BY <1>1, <1>5, <1>6, <1>7, HoldsFewer

LEMMA SubmitsInv ==
  ASSUME DraftTypes, HoldsInv, D!Submits
  PROVE  DraftTypes' /\ HoldsInv'
<1>0. PICK calm \in BOOLEAN : calm = D!Quiet
  BY DEF D!Quiet
<1>1. PICK f \in Nat : f = form
  BY DEF DraftTypes
<1> DEFINE c == [D!Save(f) EXCEPT !.by = "page", !.calm = calm]
<1>2. /\ D!PageOpen /\ ~submitting /\ submitting' = TRUE /\ calls' = calls \cup {c}
      /\ UNCHANGED <<auctions, local, form, edited, asking, signed, synced, fetch, edits, typed,
                     hasty, holds>>
  BY <1>0, <1>1 DEF D!Submits, D!session
<1>3. /\ c \in Request /\ c.what = "save" /\ c.at = "find" /\ c.by = "page" /\ c.calm = calm
  <2>1. D!Save(f) \in Request /\ D!Save(f).what = "save" /\ D!Save(f).at = "find"
    BY SaveIs
  <2> QED
    BY <2>1 DEF Request
<1> HIDE DEF c
<1>4. Proper(c)
  BY <1>3 DEF Proper
<1>5. DraftTypes'
  BY <1>2, <1>3, <1>4 DEF DraftTypes, D!PageOpen
<1>6. \A e \in calls : e.by # "page"
  BY <1>2 DEF HoldsInv, OneByPage
<1>7. D!PageOpen'
  BY <1>2 DEF D!PageOpen
<1>8. OneByPage'
  BY <1>2, <1>6, <1>7 DEF OneByPage
<1>9. Alone'
  <2>1. c.calm => calls = {}
    BY <1>0, <1>3 DEF D!Quiet
  <2>2. Advanced(c)'
    BY <1>3 DEF Advanced
  <2> QED
    BY <1>2, <1>6, <2>1, <2>2 DEF Alone
<1>10. Held'
  BY <1>2, <1>3 DEF HoldsInv, Held
<1> QED
  BY <1>5, <1>8, <1>9, <1>10 DEF HoldsInv

LEMMA SignsInInv ==
  ASSUME DraftTypes, HoldsInv, D!SignsIn
  PROVE  DraftTypes' /\ HoldsInv'
<1>1. /\ ~signed /\ signed' = TRUE /\ synced' \in BOOLEAN
      /\ hasty' = (hasty \/ calls # {})
      /\ UNCHANGED <<auctions, local, form, edited, submitting, asking, edits, typed, holds>>
      /\ calls' \in {calls, calls \cup {D!Save(local)}} /\ fetch' \in {fetch, D!Asked}
  BY DEF D!SignsIn, D!Syncs, D!browser, DraftTypes
<1>2. D!Asked \in [at : {"none", "asked", "answered"}, content : Nat]
  BY ServedIs DEF D!Asked
<1>3. local \in Nat
  BY DEF DraftTypes
<1>4. DraftTypes'
  BY <1>1, <1>2, <1>3, SaveIs DEF DraftTypes, D!PageOpen
<1>5. \A d \in calls' : d.by # "page" /\ (d \in calls \/ d.at = "find")
  BY <1>1, <1>3, SaveIs DEF HoldsInv, OneByPage, DraftTypes
<1> QED
  BY <1>1, <1>4, <1>5, HoldsFewer

\* The actions that concern the texts only.
LEMMA TextsInv ==
  ASSUME DraftTypes, HoldsInv,
         \/ D!ServesFetch \/ D!Loads \/ D!Types \/ D!Debounces \/ D!FetchArrives \/ D!SignsOut
         \/ D!LosesDraft
  PROVE  DraftTypes' /\ HoldsInv'
<1>1. UNCHANGED <<auctions, calls, submitting, holds>>
  BY DEF D!ServesFetch, D!Loads, D!Types, D!Debounces, D!FetchArrives, D!SignsOut, D!LosesDraft,
         D!browser, D!session, D!history
<1>2. DraftTypes' /\ (D!PageOpen => D!PageOpen')
  <2>0. MaxEdits \in Nat /\ D!NoDraft \in Nat /\ D!Served \in Nat
        /\ D!NoRequest \in [at : {"none", "asked", "answered"}, content : Nat]
    BY PagesAssumption, ServedIs DEF D!DraftsAssumption, D!NoRequest
  <2>1. CASE D!ServesFetch
    BY <1>1, <2>0, <2>1 DEF D!ServesFetch, DraftTypes, D!browser, D!history, D!PageOpen
  <2>2. CASE D!Loads
    <3>1. /\ asking' = FALSE /\ local' \in {local, D!Served}
          /\ form' = IF D!Served # D!NoDraft THEN D!Served ELSE form
          /\ UNCHANGED <<edited, signed, synced, fetch, edits, typed, hasty>>
      BY <2>2 DEF D!Loads, D!session, D!history
    <3>2. form' \in Nat /\ (D!PageOpen' <=> D!PageOpen \/ D!Served # D!NoDraft)
      BY <2>0, <3>1 DEF DraftTypes, D!PageOpen
    <3>3. D!PageOpen' => signed
      BY <2>2, <3>2 DEF DraftTypes, D!Loads
    <3> QED
      BY <1>1, <2>0, <3>1, <3>2, <3>3 DEF DraftTypes
  <2>3. CASE D!Types
    <3>1. edits + 1 \in Nat /\ edits + 1 # D!NoDraft /\ edits + 1 \in 0..MaxEdits
      BY <2>0, <2>3 DEF D!Types, DraftTypes, D!NoDraft
    <3>2. D!Quiet \in BOOLEAN
      BY DEF D!Quiet
    <3> QED
      BY <1>1, <2>3, <3>1, <3>2 DEF D!Types, DraftTypes, D!session, D!PageOpen
  <2>4. CASE D!Debounces
    BY <1>1, <2>4 DEF D!Debounces, DraftTypes, D!session, D!history, D!PageOpen
  <2>5. CASE D!FetchArrives
    BY <1>1, <2>0, <2>5 DEF D!FetchArrives, DraftTypes, D!history, D!PageOpen
  <2>6. CASE D!SignsOut
    BY <1>1, <2>0, <2>6 DEF D!SignsOut, DraftTypes, D!history, D!PageOpen
  <2>7. CASE D!LosesDraft
    <3>1. hasty' = TRUE /\ UNCHANGED <<local, form, edited, signed, synced, edits, typed>>
      BY <2>7 DEF D!LosesDraft
    <3>2. CASE asking' = FALSE /\ fetch' = fetch
      BY <1>1, <2>0, <3>1, <3>2 DEF DraftTypes, D!PageOpen
    <3>3. CASE fetch' = D!NoRequest /\ asking' = asking
      BY <1>1, <2>0, <3>1, <3>3 DEF DraftTypes, D!PageOpen
    <3> QED
      BY <2>7, <3>2, <3>3 DEF D!LosesDraft
  <2> QED
    BY <2>1, <2>2, <2>3, <2>4, <2>5, <2>6, <2>7
<1> QED
  BY <1>1, <1>2, HoldsRests

-----------------------------------------------------------------------------
(* The text that was typed last *)

\* A call goes on, and the page and the session stay as they are.
LEMMA CallMoves ==
  ASSUME DraftTypes, TextKept, NEW c \in calls,
         UNCHANGED <<local, form, asking, edited, signed, synced, fetch, typed>>,
         Stored => Stored', \A d \in calls' : Carries(d)',
         (\E d \in calls : d.at \in {"find", "write"})
            => Stored' \/ \E d \in calls' : d.at \in {"find", "write"}
  PROVE  TextKept'
<1>1. (D!PageOpen' <=> D!PageOpen) /\ ~(D!PageOpen /\ asking)
  BY DEF TextKept, PageShows, D!PageOpen
<1>2. PageShows'
  BY <1>1 DEF TextKept, PageShows, D!NoDraft
<1>3. Backed'
  BY <1>1 DEF TextKept, Backed
<1>4. Fetching'
  BY DEF TextKept, Fetching
<1> QED
  BY <1>2, <1>3, <1>4 DEF TextKept

\* Calls that were under way, and saves of the text.
LEMMA CallsCarry ==
  ASSUME DraftTypes, TextKept, UNCHANGED <<auctions, typed>>, calls' \subseteq Request,
         \A d \in calls' :
            \/ d.at = "find" /\ d.content = typed
            \/ \E c \in calls : /\ d.at = c.at /\ d.what = c.what /\ d.found = c.found
                                /\ d.content = c.content
  PROVE  \A d \in calls' : Carries(d)'
<1> SUFFICES ASSUME NEW d \in calls'
             PROVE  Carries(d)'
  OBVIOUS
<1>1. Carries(d)
  BY DEF TextKept, Carries
<1> QED
  BY <1>1, DocumentsRest

LEMMA FindsKept ==
  ASSUME DraftTypes, TextKept, NEW c \in calls, D!Finds(c)
  PROVE  TextKept'
<1>0. PICK found \in D!Ids \cup {D!None} : found = D!FindDraft
  BY FoundIs
<1> DEFINE d == [c EXCEPT !.at = "write", !.found = found]
<1>1. c \in Request /\ Carries(c)
  BY DEF DraftTypes, TextKept
<1>2. /\ d \in Request /\ d.at = "write" /\ d.found = found /\ d.content = c.content
  BY <1>1 DEF Request
<1>3. /\ calls' = (calls \ {c}) \cup {d}
      /\ UNCHANGED <<auctions, local, form, edited, asking, signed, synced, fetch, typed>>
  BY <1>0 DEF D!Finds, D!browser, D!session, D!history
<1> HIDE DEF d
<1>4. Carries(d)
  <2>1. \A i \in D!Drafted : ~(i > found)
    BY <1>0, FoundIs
  <2> QED
    BY <1>1, <1>2, <2>1 DEF Carries
<1>5. ASSUME NEW e \in calls'
      PROVE  Carries(e)'
  <2>1. e \in Request /\ Carries(e)
    BY <1>2, <1>3, <1>4 DEF DraftTypes, TextKept
  <2> QED
    BY <1>3, <2>1, DocumentsRest
<1>6. (Stored' <=> Stored) /\ \E e \in calls' : e.at \in {"find", "write"}
  BY <1>2, <1>3, DocumentsRest
<1> QED
  BY <1>3, <1>5, <1>6, CallMoves

\* Whichever document a save writes, the newest draft is the text afterwards: a newer one
\* than it had found was written since, or had the text already.
LEMMA WritesKept ==
  ASSUME DraftTypes, TextKept, NEW c \in calls, D!Writes(c)
  PROVE  TextKept'
<1>1. PICK id \in D!Ids :
            /\ c.at = "write"
            /\ \/ c.found = D!None /\ auctions[id].status = "none"
               \/ c.found # D!None /\ id = c.found
            /\ auctions' \in [D!Ids -> Document]
            /\ auctions'[id] = [status |-> "draft", content |-> c.content]
            /\ \A i \in D!Ids \ {id} : auctions'[i] = auctions[i]
            /\ \E N \in SUBSET {[c EXCEPT !.at = "answered", !.found = id]} :
                  calls' = (calls \ {c}) \cup N
            /\ UNCHANGED <<local, form, edited, submitting, asking, signed, synced, fetch,
                           sessions, losses, edits, typed, hasty, holds>>
  BY WritesIs
<1> DEFINE d == [c EXCEPT !.at = "answered", !.found = id]
<1>2. c \in Request /\ Proper(c) /\ Carries(c)
  BY DEF DraftTypes, TextKept
<1>3. /\ d \in Request /\ d.at = "answered" /\ d.found = id /\ d.what = c.what
      /\ d.content = c.content
  BY <1>2 DEF Request
<1>4. PICK N \in SUBSET {d} : calls' = (calls \ {c}) \cup N
  BY <1>1
<1> HIDE DEF d
<1>5. auctions'[id].status = "draft" /\ auctions'[id].content = typed
  BY <1>1, <1>2 DEF Carries
<1>6. D!Drafted' = D!Drafted \cup {id}
  BY <1>1, <1>5 DEF D!Drafted
<1>7. D!Ids \subseteq Nat /\ \A i \in D!Ids : i > D!None
  BY PagesAssumption DEF D!Ids, D!None, D!DraftsAssumption
<1>8. \A i \in D!Drafted \ {id} : i > id => auctions[i].content = typed
  <2>1. ASSUME NEW i \in D!Drafted, i # id, i > id
        PROVE  i > c.found
    BY <1>1, <1>7, <2>1 DEF D!Drafted
  <2> QED
    BY <1>1, <1>2, <2>1 DEF Carries
<1>9. Stored'
  <2>1. D!Drafted' \in SUBSET D!Ids /\ D!Drafted' # {}
    BY <1>6 DEF D!Drafted
  <2>2. PICK m \in D!Drafted' : m = D!Max(D!Drafted') /\ \A y \in D!Drafted' : m >= y
    BY <2>1, NewestIs
  <2>3. auctions'[m].content = typed
    <3>1. CASE m = id
      BY <1>5, <3>1
    <3>2. CASE m # id
      <4>1. m >= id /\ m \in D!Drafted /\ m \in Nat /\ id \in Nat
        BY <1>6, <1>7, <2>1, <2>2, <3>2
      <4>2. auctions[m].content = typed
        BY <1>8, <3>2, <4>1
      <4> QED
        BY <1>1, <2>1, <3>2, <4>2
    <3> QED
      BY <3>1, <3>2
  <2> QED
    BY <1>1, <2>1, <2>2, <2>3 DEF Stored
<1>10. ASSUME NEW e \in calls'
       PROVE  Carries(e)'
  <2>1. CASE e \in calls \ {c}
    <3>1. Carries(e) /\ e \in Request /\ Proper(e)
      BY <2>1 DEF TextKept, DraftTypes
    <3>2. e.at = "write" => \A i \in D!Drafted' : i > e.found => auctions'[i].content = typed
      BY <1>1, <1>5, <1>6, <3>1 DEF Carries, D!Drafted
    <3>3. e.at \in {"answered", "check", "activate"} => auctions'[e.found].content = typed
      BY <1>1, <1>5, <3>1 DEF Carries, Proper
    <3> QED
      BY <1>1, <3>1, <3>2, <3>3 DEF Carries
  <2>2. CASE e = d
    <3>1. d.what = "save" /\ d.content = typed
      BY <1>1, <1>2, <1>3 DEF Proper, Carries
    <3> QED
      BY <1>1, <1>3, <1>5, <2>2, <3>1 DEF Carries
  <2> QED
    BY <1>4, <2>1, <2>2
<1> QED
  BY <1>1, <1>9, <1>10, CallMoves

LEMMA ChecksKept ==
  ASSUME DraftTypes, TextKept, NEW c \in calls, D!Checks(c)
  PROVE  TextKept'
<1> DEFINE d == [c EXCEPT !.at = "activate"]
<1>1. c \in Request /\ Carries(c) /\ c.at = "check"
  BY DEF D!Checks, DraftTypes, TextKept
<1>2. /\ d \in Request /\ d.at = "activate" /\ d.found = c.found /\ d.content = c.content
  BY <1>1 DEF Request
<1>3. /\ calls' = (calls \ {c}) \cup {d}
      /\ UNCHANGED <<auctions, local, form, edited, asking, signed, synced, fetch, typed>>
  BY DEF D!Checks, D!browser, D!session, D!history
<1> HIDE DEF d
<1>4. Carries(d)
  BY <1>1, <1>2 DEF Carries
<1>5. ASSUME NEW e \in calls'
      PROVE  Carries(e)'
  <2>1. e \in Request /\ Carries(e)
    BY <1>2, <1>3, <1>4 DEF DraftTypes, TextKept
  <2> QED
    BY <1>3, <2>1, DocumentsRest
<1>6. \A e \in calls : e.at \in {"find", "write"} => e \in calls'
  BY <1>1, <1>3
<1> QED
  BY <1>3, <1>5, <1>6, CallMoves, DocumentsRest

LEMMA RefusesKept ==
  ASSUME DraftTypes, TextKept, NEW c \in calls, D!Refuses(c)
  PROVE  TextKept'
<1>1. /\ calls' = calls \ {c} /\ c.at = "check"
      /\ UNCHANGED <<auctions, local, form, edited, asking, signed, synced, fetch, typed>>
  BY DEF D!Refuses, D!session, D!history
<1>2. \A e \in calls' : Carries(e)'
  BY <1>1, CallsCarry DEF DraftTypes
<1>3. \A e \in calls : e.at \in {"find", "write"} => e \in calls'
  BY <1>1
<1> QED
  BY <1>1, <1>2, <1>3, CallMoves, DocumentsRest

LEMMA GoesOnToStartKept ==
  ASSUME DraftTypes, TextKept, NEW c \in calls, D!GoesOnToStart(c)
  PROVE  TextKept'
<1> DEFINE d == [c EXCEPT !.what = "start", !.at = "check"]
<1>1. c \in Request /\ Carries(c) /\ c.at = "answered"
  BY DEF D!GoesOnToStart, DraftTypes, TextKept
<1>2. /\ d \in Request /\ d.at = "check" /\ d.found = c.found /\ d.content = c.content
  BY <1>1 DEF Request
<1>3. /\ calls' \subseteq (calls \ {c}) \cup {d} /\ calls \ {c} \subseteq calls'
      /\ UNCHANGED <<auctions, local, form, edited, asking, signed, synced, fetch, typed>>
  BY DEF D!GoesOnToStart, D!browser, D!session, D!history
<1> HIDE DEF d
<1>4. Carries(d)
  BY <1>1, <1>2 DEF Carries
<1>5. ASSUME NEW e \in calls'
      PROVE  Carries(e)'
  <2>1. e \in Request /\ Carries(e)
    BY <1>2, <1>3, <1>4 DEF DraftTypes, TextKept
  <2> QED
    BY <1>3, <2>1, DocumentsRest
<1>6. \A e \in calls : e.at \in {"find", "write"} => e \in calls'
  BY <1>1, <1>3
<1> QED
  BY <1>3, <1>5, <1>6, CallMoves, DocumentsRest

\* What is activated is the text, which is typed no more; and there was no answer to a start.
LEMMA EndsCare ==
  ASSUME DraftTypes, TextKept, NEW c \in calls,
         D!Activates(c) \/ D!SubmissionDone(c) \/ D!Loses(c)
  PROVE  ~Careful'
<1>1. Carries(c)
  BY DEF TextKept
<1>2. CASE D!Activates(c)
  <2>1. typed = auctions[c.found].content
    BY <1>1, <1>2 DEF Carries, D!Activates
  <2> QED
    BY <1>2, <2>1 DEF D!Activates, Careful, D!NoDraft
<1>3. CASE D!SubmissionDone(c)
  BY <1>1, <1>3 DEF D!SubmissionDone, Carries
<1>4. CASE D!Loses(c)
  BY <1>4 DEF D!Loses, Careful
<1> QED
  BY <1>2, <1>3, <1>4

LEMMA ServesFetchKept ==
  ASSUME DraftTypes, TextKept, D!ServesFetch
  PROVE  TextKept'
<1>1. /\ fetch.at = "asked" /\ fetch' = [at |-> "answered", content |-> D!Served]
      /\ UNCHANGED <<auctions, local, form, edited, asking, signed, synced, calls, typed>>
  BY DEF D!ServesFetch, D!browser, D!history
<1>2. (Stored' <=> Stored) /\ Stored /\ (D!PageOpen' <=> D!PageOpen)
  BY <1>1, DocumentsRest DEF TextKept, Fetching, D!PageOpen
<1>3. \A e \in calls' : Carries(e)'
  BY <1>1, CallsCarry DEF DraftTypes
<1>4. PageShows' /\ Backed'
  BY <1>1, <1>2 DEF TextKept, PageShows, Backed, D!NoDraft
<1>5. Fetching'
  BY <1>1, <1>2, ServedIs DEF Fetching
<1> QED
  BY <1>3, <1>4, <1>5 DEF TextKept

\* A form that opens shows the local copy, or will show what the server has.
LEMMA OpensKept ==
  ASSUME DraftTypes, TextKept, Careful, Careful', D!Opens
  PROVE  TextKept'
<1>1. /\ signed /\ ~D!PageOpen /\ asking' = (local = D!NoDraft) /\ edited' = FALSE
      /\ form' = IF local # D!NoDraft THEN local ELSE D!Blank
      /\ hasty' = (hasty \/ calls # {})
      /\ UNCHANGED <<auctions, local, signed, synced, fetch, calls, typed>>
  BY DEF D!Opens, D!session
<1>2. calls = {} /\ calls' = {}
  BY <1>1 DEF Careful
<1>3. Stored /\ Stored'
  BY <1>1, <1>2, DocumentsRest DEF TextKept, Backed
<1>4. local # D!NoDraft => local = typed
  BY <1>1 DEF TextKept, PageShows
<1>5. D!Blank # D!NoDraft
  BY PagesAssumption DEF D!Blank, D!NoDraft, D!DraftsAssumption
<1>6. D!PageOpen'
  BY <1>1, <1>5 DEF D!PageOpen, D!NoDraft
<1>7. PageShows'
  BY <1>1, <1>2, <1>3, <1>4, <1>6 DEF PageShows, D!Blank
<1>8. Backed' /\ Fetching'
  BY <1>1, <1>3 DEF TextKept, Backed, Fetching
<1> QED
  BY <1>2, <1>7, <1>8 DEF TextKept

LEMMA LoadsKept ==
  ASSUME DraftTypes, TextKept, Careful, D!Loads
  PROVE  TextKept'
<1>1. /\ asking /\ asking' = FALSE
      /\ local' = IF D!Served # D!NoDraft THEN D!Served ELSE local
      /\ form' = IF D!Served # D!NoDraft THEN D!Served ELSE form
      /\ UNCHANGED <<auctions, edited, signed, synced, fetch, calls, typed>>
  BY DEF D!Loads, D!session, D!history
<1>2. D!PageOpen /\ Stored /\ calls' = {}
  BY <1>1 DEF DraftTypes, TextKept, PageShows
<1>3. form' = typed /\ local' = typed
  BY <1>1, <1>2, ServedIs DEF Careful
<1>4. Stored'
  BY <1>1, <1>2, DocumentsRest
<1>5. PageShows'
  BY <1>1, <1>3 DEF PageShows
<1>6. Backed' /\ Fetching'
  BY <1>1, <1>4 DEF TextKept, Backed, Fetching
<1> QED
  BY <1>2, <1>5, <1>6 DEF TextKept

\* What is typed while nothing is asked is safe to begin with.
LEMMA TypesKept ==
  ASSUME DraftTypes, D!Types, Careful'
  PROVE  TextKept'
<1>1. /\ form' = typed' /\ edited' = TRUE /\ typed' = edits + 1 /\ hasty' = ~D!Quiet
      /\ edits < MaxEdits
      /\ UNCHANGED <<asking, fetch, calls>>
  BY DEF D!Types, D!session
<1>2. calls' = {} /\ ~asking' /\ fetch'.at = "none"
  <2>1. ~hasty' /\ hasty' = ~D!Quiet
    BY <1>1 DEF Careful
  <2>2. D!Quiet
    BY <2>1
  <2>3. calls = {} /\ ~asking /\ fetch.at = "none"
    BY <2>2 DEF D!Quiet, D!NoRequest
  <2> QED
    BY <1>1, <2>3
<1>3. D!PageOpen'
  BY <1>1 DEF Careful, D!PageOpen, D!NoDraft
<1> QED
  BY <1>1, <1>2, <1>3 DEF TextKept, PageShows, Backed, Fetching

LEMMA DebouncesKept ==
  ASSUME DraftTypes, TextKept, D!Debounces
  PROVE  TextKept'
<1>1. /\ D!PageOpen
      /\ UNCHANGED <<auctions, form, edited, asking, signed, synced, fetch, calls, typed>>
  BY DEF D!Debounces, D!session, D!history
<1>2. (Stored' <=> Stored) /\ D!PageOpen'
  BY <1>1, DocumentsRest DEF D!PageOpen
<1>3. \A e \in calls' : Carries(e)'
  BY <1>1, CallsCarry DEF DraftTypes
<1>4. PageShows' /\ Fetching'
  BY <1>1, <1>2 DEF TextKept, PageShows, Fetching, D!Blank
<1>5. Backed'
  BY <1>1, <1>2 DEF TextKept, Backed
<1> QED
  BY <1>3, <1>4, <1>5 DEF TextKept

LEMMA SubmitsKept ==
  ASSUME DraftTypes, TextKept, D!Submits
  PROVE  TextKept'
<1>1. PICK f \in Nat, calm \in BOOLEAN : f = form /\ calm = D!Quiet
  BY DEF DraftTypes, D!Quiet
<1> DEFINE c == [D!Save(f) EXCEPT !.by = "page", !.calm = calm]
<1>2. c \in Request /\ c.at = "find" /\ c.content = f
  <2>1. D!Save(f) \in Request /\ D!Save(f).content = f /\ D!Save(f).at = "find"
    BY SaveIs
  <2> QED
    BY <2>1 DEF Request
<1>3. /\ D!PageOpen /\ form # D!Blank /\ calls' = calls \cup {c}
      /\ UNCHANGED <<auctions, local, form, edited, asking, signed, synced, fetch, typed>>
  BY <1>1 DEF D!Submits, D!session
<1> HIDE DEF c
<1>4. ~asking /\ f = typed
  BY <1>1, <1>3 DEF TextKept, PageShows
<1>5. (Stored' <=> Stored) /\ (D!PageOpen' <=> D!PageOpen)
  BY <1>3, DocumentsRest DEF D!PageOpen
<1>6. \A e \in calls' : Carries(e)'
  <2>1. calls' \subseteq Request
    BY <1>2, <1>3 DEF DraftTypes
  <2>2. \A d \in calls' : \/ d.at = "find" /\ d.content = typed
                          \/ d \in calls
    BY <1>2, <1>3, <1>4
  <2> QED
    BY <1>3, <2>1, <2>2, CallsCarry
<1>7. Backed'
  BY <1>2, <1>3 DEF Backed
<1>8. PageShows' /\ Fetching'
  BY <1>3, <1>4, <1>5 DEF TextKept, PageShows, Fetching, D!NoDraft
<1> QED
  BY <1>6, <1>7, <1>8 DEF TextKept

\* An edited form that is left goes to the server, and the local copy is up to date.
LEMMA LeavesKept ==
  ASSUME DraftTypes, TextKept, Careful', D!Leaves
  PROVE  TextKept'
<1>1. /\ D!PageOpen /\ D!Unmounts(calls) /\ hasty' = (hasty \/ local # form \/ asking)
      /\ UNCHANGED <<auctions, local, signed, synced, fetch, typed>>
  BY DEF D!Leaves, D!session
<1>2. local = form /\ ~asking /\ form = typed
  BY <1>1 DEF Careful, TextKept, PageShows
<1>3. calls \in SUBSET calls
  OBVIOUS
<1>4. /\ form' = D!NoDraft /\ calls' \subseteq Request /\ asking' = FALSE
      /\ \A d \in calls' :
            \/ d.at = "find" /\ d.content = typed
            \/ \E c \in calls : /\ d.at = c.at /\ d.what = c.what /\ d.found = c.found
                                /\ d.content = c.content
      /\ edited => \E d \in calls' : d.at = "find"
  BY <1>1, <1>2, <1>3, UnmountsIs
<1>5. \A e \in calls' : Carries(e)'
  BY <1>1, <1>4, CallsCarry
<1>6. (Stored' <=> Stored) /\ ~D!PageOpen'
  BY <1>1, <1>4, DocumentsRest DEF D!PageOpen, D!NoDraft
<1>7. ASSUME NEW c \in calls, c.at \in {"find", "write"}
      PROVE  \E d \in calls' : d.at \in {"find", "write"}
  <2>1. \E d \in D!Left(calls) : d.at = c.at
    <3>1. [c EXCEPT !.by = IF @ = "page" THEN "left" ELSE @] \in D!Left(calls)
      BY DEF D!Left
    <3>2. c \in Request
      BY DEF DraftTypes
    <3> QED
      BY <3>1, <3>2 DEF Request
  <2> QED
    BY <1>1, <1>7, <2>1 DEF D!Unmounts
<1>8. Backed'
  <2>1. Stored \/ (\E c \in calls : c.at \in {"find", "write"}) \/ edited
    BY <1>1 DEF TextKept, Backed
  <2> QED
    BY <1>4, <1>6, <1>7, <2>1 DEF Backed
<1>9. PageShows' /\ Fetching'
  BY <1>1, <1>2, <1>4, <1>6 DEF TextKept, PageShows, Fetching
<1> QED
  BY <1>5, <1>8, <1>9 DEF TextKept

\* The copy of a user who signs in again goes to the server; without one the server has it.
LEMMA SignsInKept ==
  ASSUME DraftTypes, TextKept, Careful, Careful', D!SignsIn
  PROVE  TextKept'
<1>1. /\ ~signed /\ signed' = TRUE /\ hasty' = (hasty \/ calls # {})
      /\ UNCHANGED <<auctions, local, form, edited, asking, typed>>
      /\ D!Syncs
  BY DEF D!SignsIn, D!browser
<1>2. calls = {} /\ ~D!PageOpen /\ ~D!PageOpen'
  BY <1>1 DEF Careful, DraftTypes, D!PageOpen, D!NoDraft
<1>3. local \in {typed, D!NoDraft} /\ (Stored' <=> Stored) /\ local \in Nat
  BY <1>1, <1>2, DocumentsRest DEF TextKept, PageShows, DraftTypes
<1>4. CASE synced \/ local = D!NoDraft
  <2>1. calls' = calls /\ fetch' \in {fetch, D!Asked}
    BY <1>1, <1>4 DEF D!Syncs
  <2>2. Stored
    BY <1>1, <1>2, <1>4 DEF TextKept, Backed, Careful
  <2>3. Fetching'
    BY <1>1, <1>3, <2>1, <2>2 DEF TextKept, Fetching, D!Asked
  <2> QED
    BY <1>1, <1>2, <1>3, <2>1, <2>2, <2>3 DEF TextKept, PageShows, Backed, D!NoDraft
<1>5. CASE ~synced /\ local # D!NoDraft
  <2>1. PICK f \in Nat : f = local /\ f = typed
    BY <1>3, <1>5
  <2>2. calls' = {D!Save(f)} /\ fetch' = fetch
    BY <1>1, <1>2, <1>5, <2>1 DEF D!Syncs
  <2>3. D!Save(f) \in Request /\ D!Save(f).at = "find" /\ D!Save(f).content = f
    BY SaveIs
  <2>4. \A e \in calls' : Carries(e)'
    <3>1. calls' \subseteq Request /\ \A d \in calls' : d.at = "find" /\ d.content = typed
      BY <2>1, <2>2, <2>3
    <3> QED
      BY <1>1, <3>1, CallsCarry
  <2>5. Backed'
    BY <2>2, <2>3 DEF Backed
  <2>6. PageShows' /\ Fetching'
    BY <1>1, <1>2, <1>3, <2>2 DEF TextKept, PageShows, Fetching, D!NoDraft
  <2> QED
    BY <2>4, <2>5, <2>6 DEF TextKept
<1> QED
  BY <1>4, <1>5

LEMMA FetchArrivesKept ==
  ASSUME DraftTypes, TextKept, D!FetchArrives
  PROVE  TextKept'
<1>1. /\ fetch.at = "answered" /\ fetch' = D!NoRequest
      /\ local' = IF fetch.content # D!NoDraft THEN fetch.content ELSE local
      /\ UNCHANGED <<auctions, form, edited, asking, signed, synced, calls, typed>>
  BY DEF D!FetchArrives, D!history
<1>2. local' \in {typed, local}
  BY <1>1 DEF TextKept, Fetching
<1>3. (Stored' <=> Stored) /\ (D!PageOpen' <=> D!PageOpen)
  BY <1>1, DocumentsRest DEF D!PageOpen
<1>4. \A e \in calls' : Carries(e)'
  BY <1>1, CallsCarry DEF DraftTypes
<1>5. PageShows' /\ Backed'
  BY <1>1, <1>2, <1>3 DEF TextKept, PageShows, Backed, D!NoDraft
<1>6. Fetching'
  BY <1>1 DEF Fetching, D!NoRequest
<1> QED
  BY <1>4, <1>5, <1>6 DEF TextKept

\* Who signs out has closed the form, and what was edited is on its way.
LEMMA SignsOutKept ==
  ASSUME DraftTypes, TextKept, D!SignsOut
  PROVE  TextKept'
<1>1. /\ signed /\ ~D!PageOpen /\ local' = D!NoDraft
      /\ UNCHANGED <<auctions, form, edited, asking, synced, fetch, calls, typed>>
  BY DEF D!SignsOut, D!history
<1>2. (Stored' <=> Stored) /\ ~D!PageOpen'
  BY <1>1, DocumentsRest DEF D!PageOpen, D!NoDraft
<1>3. \A e \in calls' : Carries(e)'
  BY <1>1, CallsCarry DEF DraftTypes
<1>4. PageShows' /\ Fetching'
  BY <1>1, <1>2 DEF TextKept, PageShows, Fetching, D!NoDraft
<1>5. Backed'
  BY <1>1, <1>2 DEF TextKept, Backed
<1> QED
  BY <1>3, <1>4, <1>5 DEF TextKept

\* What a reload interrupts has the text in the local copy.
LEMMA ReloadsKept ==
  ASSUME DraftTypes, TextKept, Careful', D!Reloads
  PROVE  TextKept'
<1>1. /\ form' = D!NoDraft /\ asking' = FALSE /\ signed' = FALSE /\ synced' = FALSE
      /\ fetch' = D!NoRequest /\ hasty' = (hasty \/ (D!PageOpen /\ local # form) \/ asking)
      /\ calls' = {[c EXCEPT !.by = "nobody"] : c \in {d \in calls : d.at # "answered"}}
      /\ UNCHANGED <<auctions, local, typed>>
  BY DEF D!Reloads
<1>2. local \in {typed, D!NoDraft} /\ (D!PageOpen => local = typed /\ ~asking)
  BY <1>1 DEF Careful, TextKept, PageShows
<1>3. ASSUME NEW c \in calls, c.at # "answered"
      PROVE  LET d == [c EXCEPT !.by = "nobody"]
             IN  /\ d \in Request /\ d \in calls' /\ d.at = c.at /\ d.what = c.what
                 /\ d.found = c.found /\ d.content = c.content
  <2>1. c \in Request
    BY DEF DraftTypes
  <2> QED
    BY <1>1, <1>3, <2>1 DEF Request
<1>4. /\ calls' \subseteq Request
      /\ \A d \in calls' : \E c \in calls : /\ d.at = c.at /\ d.what = c.what
                                            /\ d.found = c.found /\ d.content = c.content
  <2>1. SUFFICES ASSUME NEW d \in calls'
                 PROVE  /\ d \in Request
                        /\ \E c \in calls : /\ d.at = c.at /\ d.what = c.what
                                            /\ d.found = c.found /\ d.content = c.content
    BY <2>1
  <2>2. PICK c \in calls : c.at # "answered" /\ d = [c EXCEPT !.by = "nobody"]
    BY <1>1
  <2>3. /\ d \in Request /\ d.at = c.at /\ d.what = c.what
        /\ d.found = c.found /\ d.content = c.content
    BY <1>3, <2>2
  <2> QED
    BY <2>3
<1>5. \A e \in calls' : Carries(e)'
  BY <1>1, <1>4, CallsCarry
<1>6. (Stored' <=> Stored) /\ ~D!PageOpen'
  BY <1>1, DocumentsRest DEF D!PageOpen, D!NoDraft
<1>7. (\E c \in calls : c.at \in {"find", "write"}) => \E d \in calls' : d.at \in {"find", "write"}
  BY <1>3
<1>8. Backed'
  BY <1>1, <1>2, <1>6, <1>7 DEF TextKept, Backed
<1>9. PageShows' /\ Fetching'
  BY <1>1, <1>2, <1>6 DEF PageShows, Fetching, D!NoDraft, D!NoRequest
<1> QED
  BY <1>5, <1>8, <1>9 DEF TextKept

-----------------------------------------------------------------------------
(* The theorems *)

LEMMA DraftsInit == D!Init => DraftsInv
<1> SUFFICES ASSUME D!Init
             PROVE  DraftsInv
  OBVIOUS
<1>1. /\ D!NoAuction \in Document /\ D!NoDraft \in Nat /\ MaxEdits \in Nat
      /\ D!NoRequest \in [at : {"none", "asked", "answered"}, content : Nat]
  BY PagesAssumption DEF D!NoAuction, D!NoDraft, D!NoRequest, D!Blank, D!DraftsAssumption, Document
<1>2. DraftTypes
  <2>1. auctions \in [D!Ids -> Document]
    BY <1>1 DEF D!Init
  <2>2. /\ {local, form, typed} \subseteq Nat /\ edits \in 0..MaxEdits
        /\ edited \in BOOLEAN /\ submitting \in BOOLEAN /\ asking \in BOOLEAN
        /\ signed \in BOOLEAN /\ synced \in BOOLEAN /\ hasty \in BOOLEAN
        /\ calls = {}
    <3>1. local \in Nat /\ form \in Nat /\ typed \in Nat
      BY <1>1 DEF D!Init
    <3>2. edits = 0
      BY DEF D!Init
    <3>3. edits \in 0..MaxEdits
      BY <1>1, <3>2
    <3> QED
      BY <3>1, <3>3 DEF D!Init
  <2>3. fetch \in [at : {"none", "asked", "answered"}, content : Nat]
    BY <1>1 DEF D!Init
  <2>4. ~D!PageOpen /\ ~asking
    BY DEF D!Init, D!PageOpen
  <2> QED
    BY <2>1, <2>2, <2>3, <2>4 DEF DraftTypes
<1>3. HoldsInv
  BY DEF D!Init, HoldsInv, OneByPage, Alone, Held
<1>4. KeptInv
  BY DEF D!Init, KeptInv, Careful
<1> QED
  BY <1>2, <1>3, <1>4 DEF DraftsInv

LEMMA KeptNext ==
  ASSUME DraftTypes, KeptInv, D!Next, Careful'
  PROVE  TextKept'
<1>1. CASE D!Types
  BY <1>1, TypesKept
<1>2. CASE D!LosesDraft
  BY <1>2 DEF D!LosesDraft, Careful
<1>3. CASE ~D!Types /\ ~D!LosesDraft
  <2>1. Careful /\ TextKept
    <3>1. hasty => hasty'
      BY <1>3 DEF D!Next, D!Serves, D!Finds, D!Writes, D!Checks, D!Refuses, D!Activates,
             D!GoesOnToStart, D!SubmissionDone, D!Loses, D!ServesFetch, D!Opens, D!Loads,
             D!Debounces, D!Submits, D!Leaves, D!SignsIn, D!FetchArrives, D!SignsOut, D!Reloads,
             D!history
    <3>2. typed' \in {typed, D!NoDraft}
      BY <1>3 DEF D!Next, D!Serves, D!Finds, D!Writes, D!Checks, D!Refuses, D!Activates,
             D!GoesOnToStart, D!SubmissionDone, D!Loses, D!ServesFetch, D!Opens, D!Loads,
             D!Debounces, D!Submits, D!Leaves, D!SignsIn, D!FetchArrives, D!SignsOut, D!Reloads,
             D!history
    <3> QED
      BY <3>1, <3>2 DEF Careful, KeptInv, D!NoDraft
  <2>2. ASSUME NEW c \in calls,
               D!Serves(c) \/ D!GoesOnToStart(c) \/ D!SubmissionDone(c) \/ D!Loses(c)
        PROVE  TextKept'
    BY <2>1, <2>2, FindsKept, WritesKept, ChecksKept, RefusesKept, GoesOnToStartKept, EndsCare
       DEF D!Serves
  <2> QED
    BY <1>3, <2>1, <2>2, ServesFetchKept, OpensKept, LoadsKept, DebouncesKept, SubmitsKept,
       LeavesKept, SignsInKept, FetchArrivesKept, SignsOutKept, ReloadsKept DEF D!Next
<1> QED
  BY <1>1, <1>2, <1>3

LEMMA DraftsNext == DraftsInv /\ [D!Next]_D!vars => DraftsInv'
<1> SUFFICES ASSUME DraftsInv, [D!Next]_D!vars
             PROVE  DraftsInv'
  OBVIOUS
<1>1. DraftTypes /\ HoldsInv /\ KeptInv
  BY DEF DraftsInv
<1>2. CASE D!Next
  <2>1. ASSUME NEW c \in calls,
               D!Serves(c) \/ D!GoesOnToStart(c) \/ D!SubmissionDone(c) \/ D!Loses(c)
        PROVE  DraftTypes' /\ HoldsInv'
    BY <1>1, <2>1, FindsInv, WritesInv, ChecksInv, RefusesInv, ActivatesInv, GoesOnToStartInv,
       SubmissionDoneInv, LosesInv DEF D!Serves
  <2>2. DraftTypes' /\ HoldsInv'
    BY <1>1, <1>2, <2>1, OpensInv, SubmitsInv, LeavesInv, SignsInInv, ReloadsInv, TextsInv
       DEF D!Next
  <2>3. KeptInv'
    BY <1>1, <1>2, KeptNext DEF KeptInv
  <2> QED
    BY <2>2, <2>3 DEF DraftsInv
<1>3. CASE UNCHANGED D!vars
  <2>1. UNCHANGED <<auctions, local, form, edited, submitting, asking, signed, synced, fetch,
                    calls, edits, typed, hasty, holds>>
    BY <1>3 DEF D!vars, D!browser, D!session, D!history
  <2>2. D!PageOpen' <=> D!PageOpen
    BY <2>1 DEF D!PageOpen
  <2>3. DraftTypes'
    BY <1>1, <2>1, <2>2 DEF DraftTypes
  <2>4. HoldsInv'
    BY <1>1, <2>1, <2>2, HoldsRests
  <2>5. ASSUME Careful' PROVE TextKept'
    <3>1. TextKept
      BY <1>1, <2>1, <2>5 DEF KeptInv, Careful, D!NoDraft
    <3>2. \A e \in calls' : Carries(e)'
      BY <1>1, <2>1, <3>1, CallsCarry DEF DraftTypes
    <3>3. Stored' <=> Stored
      BY <2>1, DocumentsRest
    <3> QED
      BY <2>1, <2>2, <3>1, <3>2, <3>3 DEF TextKept, PageShows, Backed, Fetching, D!NoDraft,
                                          D!Blank
  <2> QED
    BY <2>3, <2>4, <2>5 DEF DraftsInv, KeptInv
<1> QED
  BY <1>2, <1>3

\* The inductive invariant: see DraftsInv.
THEOREM DraftsInductive == D!Spec => []DraftsInv
BY DraftsInit, DraftsNext, PTL DEF D!Spec

\* An auction that an undisturbed submission started stays started with what was submitted,
\* for any number of documents and requests: no save that comes later had found it
\* (CreateAuction.tsx; auctions.service.ts createOrUpdateDraft).
THEOREM SubmissionsHold == D!Spec => []SubmissionHolds
<1>1. DraftsInv => SubmissionHolds
  BY DEF DraftsInv, HoldsInv, Held, SubmissionHolds, D!SubmissionHolds
<1> QED
  BY <1>1, DraftsInductive, PTL

\* What the user typed last is what the form shows the next time, through reloads and
\* logouts, unless something in hasty happened: the server's newest draft is that text, or a
\* save under way carries it, or the local copy has it and will be sent.
THEOREM DraftIsKept == D!Spec => []DraftKept
<1>1. DraftsInv => DraftKept
  <2> SUFFICES ASSUME DraftsInv, typed # D!NoDraft, ~D!PageOpen, D!Quiet, ~hasty
               PROVE  D!Shown = typed
    BY DEF DraftKept, D!DraftKept
  <2>1. DraftTypes /\ TextKept
    BY DEF DraftsInv, KeptInv, Careful
  <2>2. local \in {typed, D!NoDraft}
    BY <2>1 DEF TextKept, PageShows
  <2>3. Stored \/ local = typed
    BY <2>1 DEF TextKept, Backed, D!Quiet
  <2>4. Stored => D!Served = typed
    BY <2>1, ServedIs
  <2> QED
    BY <2>2, <2>3, <2>4 DEF D!Shown
<1> QED
  BY <1>1, DraftsInductive, PTL

=============================================================================
