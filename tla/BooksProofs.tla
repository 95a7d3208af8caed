----------------------------- MODULE BooksProofs -----------------------------
(***************************************************************************)
(* Theorems about Standalone and about Outbox.  Of Standalone: what the    *)
(* answers of the calls say of the books, that balances are what the rows  *)
(* add up to, what an audit can report, what a completion without          *)
(* transactions does if it is not interrupted, and what it can never do to *)
(* the money of a bid, however often it is.  Of Outbox: in which order the *)
(* events of completions are emitted, and that none is left behind.        *)
(*                                                                         *)
(* The two have MCBooks in common, which names the state of Outbox O.      *)
(* Nothing it says of the users and calls of its run is used here.         *)
(***************************************************************************)
EXTENDS MCBooks, FiniteSetTheorems, SequenceTheorems, WellFoundedInduction, TLAPS

-----------------------------------------------------------------------------
(* The inductive invariant.  Without a replica set only the completion changes the status *)
(* of bids, always before it touches the money, and never a second time.                  *)

HasRow(c) == \E r \in AllRows : r.by = c

\* What the job has read is still so, as far as the job has not changed it.
Plans ==
    /\ auction.distributed \in Nat /\ job.plan.base \in Nat /\ job.plan.burned \in Nat
    /\ job.plan.winners \in SUBSET Users /\ job.plan.losers \in SUBSET Users
    /\ job.plan.winners \cap job.plan.losers = {}
    /\ job.pc = "loaded" => job.plan.winners \cup job.plan.losers \subseteq ActiveBids
    /\ job.pc = "won" => /\ \A u \in job.plan.winners : bid[u] = "won"
                         /\ job.plan.losers \subseteq ActiveBids
    /\ job.pc = "charged" => \A u \in job.plan.losers : bid[u] = "refunded"

\* The winning bids have their gifts.
Gifted == \A u \in Users : bid[u] = "won" => gift[u] > 0

\* A charge that runs is that of a winning bid, and a refund that of a refunded one; no
\* call has a transaction.
Charges ==
    \A u \in Users : call[ChargeOf[u]].pc = "read" \/ HasRow(ChargeOf[u]) => bid[u] = "won"
Refunds ==
    \A u \in Users : call[RefundOf[u]].pc \in {"read", "saved"} \/ HasRow(RefundOf[u]) =>
        bid[u] = "refunded"
Plain == \A c \in Calls : /\ call[c].pc # "written"
                          /\ call[c].pc = "saved" => WritesUser(c)

Shape ==
    /\ bid \in [Users -> {"active", "won", "refunded"}] /\ gift \in [Users -> Nat]
    /\ DOMAIN rows = Users /\ DOMAIN call = Calls
    /\ \A c \in Calls : "pc" \in DOMAIN call[c]
    /\ job = [pc |-> job.pc, run |-> job.run, plan |-> job.plan]

\* With a replica set this completion never starts.
IInv ==
    /\ Shape
    /\ replicaSet => job.pc = "waiting"
    /\ ~replicaSet => Plans /\ Gifted /\ Charges /\ Refunds /\ Plain

-----------------------------------------------------------------------------
(* The calls. *)

LEMMA CallsOfBids ==
  /\ \A u \in Users : ChargeOf[u] \in Calls /\ RefundOf[u] \in Calls
  /\ \A u \in Users : WritesUser(RefundOf[u]) /\ ~WritesUser(ChargeOf[u])
  /\ \A u, v \in Users : ChargeOf[u] # RefundOf[v]
  /\ \A u, v \in Users : u # v => ChargeOf[u] # ChargeOf[v] /\ RefundOf[u] # RefundOf[v]
  BY StandaloneAssumption DEF WritesUser

LEMMA UserOf == \A c \in Calls : Op[c].user \in Users
  BY LedgerAssumption

\* The rows that were there before, and one of call c.
Wrote(c) ==
    /\ DOMAIN rows' = Users
    /\ \A d \in Calls : HasRow(d)' => HasRow(d) \/ d = c

LEMMA RowWrites ==
  ASSUME DOMAIN rows = Users, NEW c \in Calls, NEW at,
         rows' = [rows EXCEPT ![Op[c].user] = @ \union {RowOf(c, at)}]
  PROVE  Wrote(c)
  <1>1. Op[c].user \in Users
    BY UserOf
  <1>2. RowOf(c, at).by = c
    BY DEF RowOf
  <1>3. DOMAIN rows' = Users
    OBVIOUS
  <1>4. \A u \in Users : rows'[u] \in SUBSET (rows[u] \union {RowOf(c, at)})
    BY <1>1
  <1>5. AllRows' \in SUBSET (AllRows \union {RowOf(c, at)})
    <2> DEFINE x == RowOf(c, at)
    <2>1. \A u \in Users : rows'[u] \in SUBSET (rows[u] \union {x})
      BY <1>4
    <2> HIDE DEF x
    <2>2. AllRows' \in SUBSET (AllRows \union {x})
      BY <2>1 DEF AllRows
    <2>3. QED
      BY <2>2 DEF x
  <1>6. QED
    BY <1>2, <1>3, <1>5 DEF Wrote, HasRow

\* Only call c changes.
Only(c) ==
    /\ DOMAIN call' = Calls
    /\ \A d \in Calls \ {c} : call'[d] = call[d]
    /\ \A d \in Calls : "pc" \in DOMAIN call'[d]

\* Without a replica set: a call starts, sets the balance, inserts its row, or ends.
Advances(c) ==
    /\ Only(c)
    /\ \/ /\ call[c].pc = "idle" /\ call'[c].pc \in {"ok", "read", "error"}
          /\ UNCHANGED rows
       \/ /\ call[c].pc = "read" /\ WritesUser(c) /\ call'[c].pc = "saved"
          /\ UNCHANGED rows
       \/ /\ call[c].pc = IF WritesUser(c) THEN "saved" ELSE "read"
          /\ call'[c].pc = "ok" /\ Wrote(c)
       \/ /\ call[c].pc \in {"read", "saved"} /\ call'[c].pc \in {"error", "lost"}
          /\ UNCHANGED rows

LEMMA GoesWrites ==
  ASSUME Shape, NEW c \in Calls, NEW pc, Goes(c, pc)
  PROVE  Only(c) /\ call'[c].pc = pc
  BY DEF Shape, Goes, Only

LEMMA BeginAdvances ==
  ASSUME Shape, NEW c \in Calls, Begin(c)
  PROVE  Advances(c) /\ call[c].pc = "idle"
  <1> DEFINE pc == IF HasTransaction(c) THEN "ok" ELSE IF Covered(c) THEN "read" ELSE "error"
  <1>1. pc \in {"ok", "read", "error"}
    OBVIOUS
  <1>2. Only(c) /\ call'[c].pc = pc /\ call[c].pc = "idle" /\ UNCHANGED rows
    <2> HIDE DEF pc
    <2>1. call' = [call EXCEPT ![c].pc = pc, ![c].snap = balance[Op[c].user],
                               ![c].seen = version[Op[c].user]]
      BY DEF Begin, pc
    <2>2. QED
      BY <2>1 DEF Shape, Only, Begin
  <1>3. QED
    BY <1>1, <1>2 DEF Advances

LEMMA SaveAdvances ==
  ASSUME Shape, NEW c \in Calls, Save(c)
  PROVE  Advances(c)
  BY GoesWrites DEF Save, Advances

LEMMA InsertAdvances ==
  ASSUME Shape, NEW c \in Calls, Insert(c)
  PROVE  Advances(c)
  <1>1. call[c].pc = IF WritesUser(c) THEN "saved" ELSE "read"
    BY DEF Insert
  <1>2. CASE Goes(c, "error") /\ UNCHANGED rows
    BY <1>1, <1>2, GoesWrites DEF Advances
  <1>3. CASE Goes(c, "ok") /\ rows' = [rows EXCEPT ![Op[c].user] =
                                         @ \union {RowOf(c, clock'[Op[c].user])}]
    <2>1. Wrote(c)
      BY <1>3, RowWrites DEF Shape
    <2>2. QED
      BY <1>1, <1>3, <2>1, GoesWrites DEF Advances
  <1>4. QED
    BY <1>2, <1>3 DEF Insert

LEMMA LoseAdvances ==
  ASSUME Shape, NEW c \in Calls, Lose(c), call[c].pc # "written"
  PROVE  Advances(c)
  BY GoesWrites DEF Lose, Advances, Running

\* Any call may go on, with or without a replica set.
LEMMA CallStepShape ==
  ASSUME Shape, NEW c \in Calls, Started(c) \/ CallStep(c)
  PROVE  Shape' /\ replicaSet' = replicaSet /\ UNCHANGED roundVars
  <1>1. UNCHANGED roundVars /\ replicaSet' = replicaSet
    BY DEF Started, CallStep, Begin, Write, Commit, WriteRefused, UnknownCommit, Save, Insert, Lose
  <1>2. UNCHANGED <<bid, gift, job>>
    BY <1>1 DEF roundVars
  <1>3. DOMAIN rows' = Users
    BY DEF Shape, Started, CallStep, Begin, Write, Commit, TakesEffect, WriteRefused,
           UnknownCommit, Save, Insert, Lose
  <1>4. "pc" \in DOMAIN call[c] /\ "pc" \in DOMAIN AfterError(c)
    BY DEF Shape, AfterError
  <1>5. DOMAIN call' = Calls /\ \A d \in Calls : "pc" \in DOMAIN call'[d]
    <2>1. CASE Begin(c)
      BY <2>1, BeginAdvances DEF Advances, Only
    <2>2. CASE Write(c)
      BY <2>2 DEF Shape, Write
    <2>3. CASE Commit(c)
      BY <2>3, GoesWrites DEF Commit, Only
    <2>4. CASE WriteRefused(c)
      <3>1. PICK x : call' = [call EXCEPT ![c] = x] /\ "pc" \in DOMAIN x
        BY <1>4, <2>4 DEF WriteRefused
      <3>2. QED
        BY <3>1 DEF Shape
    <2>5. CASE UnknownCommit(c)
      <3>1. call' = [call EXCEPT ![c] = [AfterError(c) EXCEPT !.doubt = @ + 1]]
        BY <2>5 DEF UnknownCommit
      <3>2. PICK x : call' = [call EXCEPT ![c] = x] /\ "pc" \in DOMAIN x
        <4> DEFINE y == AfterError(c)
        <4>1. "pc" \in DOMAIN y /\ call' = [call EXCEPT ![c] = [y EXCEPT !.doubt = @ + 1]]
          BY <1>4, <3>1
        <4> HIDE DEF y
        <4>2. "pc" \in DOMAIN [y EXCEPT !.doubt = @ + 1]
          BY <4>1
        <4>3. QED
          BY <4>1, <4>2
      <3>3. QED
        BY <3>2 DEF Shape
    <2>6. CASE Save(c)
      BY <2>6, SaveAdvances DEF Advances, Only
    <2>7. CASE Insert(c)
      BY <2>7, InsertAdvances DEF Advances, Only
    <2>8. CASE Lose(c)
      BY <2>8, GoesWrites DEF Lose, Only
    <2>9. QED
      BY <2>1, <2>2, <2>3, <2>4, <2>5, <2>6, <2>7, <2>8 DEF Started, CallStep
  <1>6. QED
    BY <1>1, <1>2, <1>3, <1>5 DEF Shape

\* A charge or a refund has been started by the completion, which had marked the bid.
LEMMA LaunchedRightly ==
  ASSUME IInv, ~replicaSet, NEW c \in Calls, Launched(c) \/ Op[c].kind \in {"deposit", "withdrawal"}
  PROVE  \A u \in Users : /\ c = ChargeOf[u] => bid[u] = "won"
                          /\ c = RefundOf[u] => bid[u] = "refunded"
  <1>1. Plans
    BY DEF IInv
  <1>2. ASSUME NEW u \in Users, c = ChargeOf[u]
        PROVE  bid[u] = "won"
    <2>1. Op[c].kind = "bid_charge"
      BY <1>2, StandaloneAssumption
    <2>2. Launched(c)
      BY <2>1
    <2>3. job.pc = "won" /\ u \in job.plan.winners
      BY <1>1, <1>2, <2>2, CallsOfBids DEF Launched, Plans
    <2>4. QED
      BY <1>1, <2>3 DEF Plans
  <1>3. ASSUME NEW u \in Users, c = RefundOf[u]
        PROVE  bid[u] = "refunded"
    <2>1. Op[c].kind = "bid_refund"
      BY <1>3, StandaloneAssumption
    <2>2. Launched(c)
      BY <2>1
    <2>3. job.pc = "charged" /\ u \in job.plan.losers
      BY <1>1, <1>3, <2>2, CallsOfBids DEF Launched, Plans
    <2>4. QED
      BY <1>1, <2>3 DEF Plans
  <1>4. QED
    BY <1>2, <1>3

\* A call goes on while the bids stay as they are.
LEMMA AdvancesKeeps ==
  ASSUME IInv, ~replicaSet, NEW c \in Calls, Advances(c), UNCHANGED roundVars,
         call[c].pc = "idle" => Launched(c) \/ Op[c].kind \in {"deposit", "withdrawal"}
  PROVE  Plans' /\ Gifted' /\ Charges' /\ Refunds' /\ Plain'
  <1>1. Plans /\ Gifted /\ Charges /\ Refunds /\ Plain
    BY DEF IInv
  <1>2. UNCHANGED <<bid, gift, auction, job>>
    BY DEF roundVars
  <1>3. Plans' /\ Gifted'
    BY <1>1, <1>2 DEF Plans, Gifted, ActiveBids
  <1>4. ASSUME NEW d \in Calls, d # c
        PROVE  call'[d] = call[d] /\ (HasRow(d)' => HasRow(d))
    <2>1. UNCHANGED rows \/ Wrote(c)
      BY DEF Advances
    <2>2. UNCHANGED rows => (HasRow(d)' => HasRow(d))
      BY DEF HasRow, AllRows
    <2>3. QED
      BY <1>4, <2>1, <2>2 DEF Advances, Only, Wrote
  <1>5. UNCHANGED rows => (HasRow(c)' => HasRow(c))
    BY DEF HasRow, AllRows
  <1>6. Charges'
    <2>1. ASSUME NEW u \in Users, call'[ChargeOf[u]].pc = "read" \/ HasRow(ChargeOf[u])'
          PROVE  bid[u] = "won"
      <3>1. ChargeOf[u] \in Calls /\ ~WritesUser(ChargeOf[u])
        BY CallsOfBids
      <3>2. CASE ChargeOf[u] # c
        BY <1>1, <1>4, <2>1, <3>1, <3>2 DEF Charges
      <3>3. CASE ChargeOf[u] = c /\ call[c].pc = "idle"
        BY <3>3, LaunchedRightly
      <3>4. CASE ChargeOf[u] = c /\ call[c].pc # "idle"
        <4>1. call[c].pc = "read" \/ HasRow(c)
          BY <1>5, <2>1, <3>1, <3>4 DEF Advances
        <4>2. QED
          BY <1>1, <3>4, <4>1 DEF Charges
      <3>5. QED
        BY <3>2, <3>3, <3>4
    <2>2. QED
      BY <1>2, <2>1 DEF Charges
  <1>7. Refunds'
    <2>1. ASSUME NEW u \in Users,
                 call'[RefundOf[u]].pc \in {"read", "saved"} \/ HasRow(RefundOf[u])'
          PROVE  bid[u] = "refunded"
      <3>1. RefundOf[u] \in Calls /\ WritesUser(RefundOf[u])
        BY CallsOfBids
      <3>2. CASE RefundOf[u] # c
        BY <1>1, <1>4, <2>1, <3>1, <3>2 DEF Refunds
      <3>3. CASE RefundOf[u] = c /\ call[c].pc = "idle"
        BY <3>3, LaunchedRightly
      <3>4. CASE RefundOf[u] = c /\ call[c].pc # "idle"
        <4>1. call[c].pc \in {"read", "saved"} \/ HasRow(c)
          BY <1>5, <2>1, <3>1, <3>4 DEF Advances
        <4>2. QED
          BY <1>1, <3>4, <4>1 DEF Refunds
      <3>5. QED
        BY <3>2, <3>3, <3>4
    <2>2. QED
      BY <1>2, <2>1 DEF Refunds
  <1>8. Plain'
    <2>1. ASSUME NEW d \in Calls
          PROVE  call'[d].pc # "written" /\ (call'[d].pc = "saved" => WritesUser(d))
      <3>1. CASE d = c
        BY <3>1 DEF Advances
      <3>2. CASE d # c
        BY <1>1, <1>4, <3>2 DEF Plain
      <3>3. QED
        BY <3>1, <3>2
    <2>2. QED
      BY <2>1 DEF Plain, WritesUser
  <1>9. QED
    BY <1>3, <1>6, <1>7, <1>8

-----------------------------------------------------------------------------
(* The completion. *)

LEMMA JobWrites ==
  ASSUME Shape, NEW to, job' = [job EXCEPT !.pc = to]
  PROVE  job' = [pc |-> to, run |-> job.run, plan |-> job.plan]
  BY DEF Shape

\* The plan made of the documents just loaded.
LEMMA PlanFacts ==
  ASSUME auction.distributed \in Nat
  PROVE  /\ Plan.winners \in SUBSET ActiveBids /\ Plan.losers \in SUBSET ActiveBids
         /\ Plan.winners \cap Plan.losers = {}
         /\ Plan.base \in Nat /\ Plan.burned \in Nat
  <1> DEFINE left     == IF TotalSupply > auction.distributed THEN TotalSupply - auction.distributed
                         ELSE 0
             burned   == AtMost(WinnersCount, left)
             winners  == First(ActiveBids, burned)
             rest     == ActiveBids \ winners
             complete == lastRound \/ auction.distributed + burned >= TotalSupply
             losers   == IF complete THEN rest ELSE rest \ First(rest, left - burned)
  <1>1. burned \in Nat
    BY StandaloneAssumption DEF AtMost
  <1>2. winners \in SUBSET ActiveBids
    BY DEF First
  <1>3. Plan = [winners |-> winners, base |-> auction.distributed, burned |-> burned,
                complete |-> complete, losers |-> losers]
    BY DEF Plan
  <1> HIDE DEF left, burned, winners, complete
  <1>4. losers \in SUBSET rest
    OBVIOUS
  <1> HIDE DEF losers
  <1>5. QED
    BY <1>1, <1>2, <1>3, <1>4

LEMMA ActiveAreUsers == ActiveBids \in SUBSET Users
  BY DEF ActiveBids

\* Nothing is paid and no bid changes, and the completion is not at one of its awaits.
LEMMA JobMovesOn ==
  ASSUME IInv, ~replicaSet, UNCHANGED <<replicaSet, rows, call, bid, gift>>,
         NEW to, to \notin {"loaded", "won", "charged"}, job' = [job EXCEPT !.pc = to],
         auction'.distributed \in Nat
  PROVE  IInv'
  <1>1. job' = [pc |-> to, run |-> job.run, plan |-> job.plan]
    BY JobWrites DEF IInv
  <1>2. Shape'
    BY <1>1 DEF IInv, Shape
  <1>3. Plans'
    BY <1>1 DEF IInv, Plans
  <1>4. Gifted' /\ Charges' /\ Refunds' /\ Plain'
    BY DEF IInv, Gifted, Charges, Refunds, Plain, HasRow, AllRows, WritesUser
  <1>5. QED
    BY <1>2, <1>3, <1>4 DEF IInv

\* Bids are marked, none that was no longer active, and the calls are as they were.
LEMMA MarkingKeeps ==
  ASSUME IInv, ~replicaSet, UNCHANGED <<replicaSet, rows, call>>,
         \A u \in Users : bid[u] # "active" => bid'[u] = bid[u]
  PROVE  Charges' /\ Refunds' /\ Plain'
  BY DEF IInv, Charges, Refunds, Plain, HasRow, AllRows, WritesUser

\* A set of users that has a member is not empty.
LEMMA Counts ==
  ASSUME NEW S \in SUBSET Users, NEW u \in S
  PROVE  Cardinality(S) \in Nat /\ Cardinality(S) > 0
  <1>1. IsFiniteSet(S)
    BY FS_Subset, StandaloneAssumption
  <1>2. Cardinality(S) \in Nat
    BY <1>1, FS_CardinalityType
  <1>3. Cardinality(S) # 0
    BY <1>1, FS_EmptySet
  <1>4. QED
    BY <1>2, <1>3

LEMMA LoadKeeps ==
  ASSUME IInv, Load
  PROVE  IInv'
  <1>1. /\ Plan.winners \in SUBSET ActiveBids /\ Plan.losers \in SUBSET ActiveBids
        /\ Plan.winners \cap Plan.losers = {}
        /\ Plan.base \in Nat /\ Plan.burned \in Nat
    BY PlanFacts DEF IInv, Plans, Load
  <1> DEFINE p  == Plan
             pc == IF round = "completed" THEN "completed" ELSE "loaded"
  <1>2. job' = [pc |-> pc, run |-> job.run, plan |-> p]
    <2>1. job' = [job EXCEPT !.pc = pc, !.plan = p]
      BY DEF Load
    <2>2. job = [pc |-> job.pc, run |-> job.run, plan |-> job.plan]
      BY DEF IInv, Shape
    <2> HIDE DEF p, pc
    <2>3. QED
      BY <2>1, <2>2
  <1>3. pc # "won" /\ pc # "charged"
    OBVIOUS
  <1>4. /\ p.winners \in SUBSET ActiveBids /\ p.losers \in SUBSET ActiveBids
        /\ p.winners \cap p.losers = {} /\ p.base \in Nat /\ p.burned \in Nat
    BY <1>1
  <1> HIDE DEF p, pc
  <1>5. UNCHANGED <<bid, gift, rows, call, replicaSet, auction>> /\ ~replicaSet
    BY DEF Load, unchangedLedger, ledgerVars
  <1>6. Shape'
    BY <1>2, <1>5 DEF IInv, Shape
  <1>7. job'.pc = pc /\ job'.plan = p
    BY <1>2
  <1>8. ActiveBids' = ActiveBids
    BY <1>5 DEF ActiveBids
  <1>9. auction'.distributed \in Nat
    BY <1>5 DEF IInv, Plans
  <1>10. Plans'
    BY <1>3, <1>4, <1>7, <1>8, <1>9, ActiveAreUsers DEF Plans
  <1>11. Charges' /\ Refunds' /\ Plain'
    BY <1>5, MarkingKeeps
  <1>12. Gifted'
    BY <1>5 DEF IInv, Gifted
  <1>13. QED
    BY <1>5, <1>6, <1>10, <1>11, <1>12 DEF IInv

LEMMA MarkWinnersKeeps ==
  ASSUME IInv, MarkWinners
  PROVE  IInv'
  <1> DEFINE W == {u \in job.plan.winners : bid[u] = "active"}
             Place(u) == Cardinality({v \in job.plan.winners : Rank[v] <= Rank[u]})
  <1>1. /\ job.pc = "loaded" /\ ~replicaSet /\ job' = [job EXCEPT !.pc = "won"]
        /\ bid' = [u \in Users |-> IF u \in W THEN "won" ELSE bid[u]]
        /\ gift' = [u \in Users |-> IF u \in W THEN job.plan.base + Place(u) ELSE gift[u]]
        /\ UNCHANGED <<replicaSet, rows, call, auction>>
    BY DEF IInv, MarkWinners, Step, unchangedLedger, ledgerVars
  <1>2. Shape /\ Plans /\ Gifted
    BY <1>1 DEF IInv
  <1>3. job' = [pc |-> "won", run |-> job.run, plan |-> job.plan]
    BY <1>1, <1>2, JobWrites
  <1>4. W = job.plan.winners /\ W \in SUBSET Users
    BY <1>1, <1>2 DEF Plans, ActiveBids
  <1>5. \A u \in W : Place(u) \in Nat /\ Place(u) > 0
    <2>1. TAKE u \in W
    <2> DEFINE S == {v \in job.plan.winners : Rank[v] <= Rank[u]}
    <2>2. Rank[u] \in Nat
      BY <1>4, StandaloneAssumption
    <2>3. u \in S /\ S \in SUBSET Users
      BY <1>4, <2>1, <2>2
    <2> HIDE DEF S
    <2>4. Cardinality(S) \in Nat /\ Cardinality(S) > 0
      BY <2>3, Counts
    <2>5. QED
      BY <2>4 DEF S
  <1> HIDE DEF W, Place
  <1>6. \A u \in Users : gift'[u] \in Nat /\ (u \in W => gift'[u] > 0)
    <2>1. TAKE u \in Users
    <2>2. CASE u \in W
      <3>1. Place(u) \in Nat /\ Place(u) > 0 /\ job.plan.base \in Nat
        BY <1>2, <1>5, <2>2 DEF Plans
      <3>2. gift'[u] = job.plan.base + Place(u)
        BY <1>1, <2>2
      <3>3. QED
        BY <3>1, <3>2
    <2>3. CASE u \notin W
      BY <1>1, <1>2, <2>3 DEF Shape
    <2>4. QED
      BY <2>2, <2>3
  <1>7. gift' \in [Users -> Nat] /\ bid' \in [Users -> {"active", "won", "refunded"}]
    <2>1. gift' \in [Users -> Nat]
      BY <1>1, <1>6
    <2>2. QED
      BY <1>1, <1>2, <2>1 DEF Shape
  <1>8. Shape'
    BY <1>1, <1>2, <1>3, <1>7 DEF Shape
  <1>9. Gifted'
    BY <1>1, <1>2, <1>6 DEF Gifted
  <1>10. Charges' /\ Refunds' /\ Plain'
    BY <1>1, <1>4, MarkingKeeps DEF W
  <1>11. Plans'
    <2>1. \A u \in job.plan.winners : bid'[u] = "won"
      BY <1>1, <1>4
    <2>2. job.plan.losers \subseteq ActiveBids'
      <3>1. \A u \in job.plan.losers : u \in Users /\ u \notin W /\ bid[u] = "active"
        BY <1>1, <1>2, <1>4 DEF Plans, ActiveBids
      <3>2. QED
        BY <1>1, <3>1 DEF ActiveBids
    <2>3. QED
      BY <1>1, <1>2, <1>3, <2>1, <2>2 DEF Plans
  <1>12. QED
    BY <1>1, <1>8, <1>9, <1>10, <1>11 DEF IInv

LEMMA MarkLosersKeeps ==
  ASSUME IInv, MarkLosers
  PROVE  IInv'
  <1> DEFINE L == {u \in Users : u \in job.plan.losers /\ bid[u] = "active"}
  <1>1. /\ job.pc = "won" /\ ~replicaSet /\ job' = [job EXCEPT !.pc = "charged"]
        /\ bid' = [u \in Users |-> IF u \in job.plan.losers /\ bid[u] = "active"
                                   THEN "refunded" ELSE bid[u]]
        /\ UNCHANGED <<replicaSet, rows, call, auction, gift>>
    BY DEF IInv, MarkLosers, Step, unchangedLedger, ledgerVars
  <1>2. Shape /\ Plans /\ Gifted
    BY <1>1 DEF IInv
  <1>3. job' = [pc |-> "charged", run |-> job.run, plan |-> job.plan]
    BY <1>1, <1>2, JobWrites
  <1>4. bid' \in [Users -> {"active", "won", "refunded"}]
    BY <1>1, <1>2 DEF Shape
  <1>5. Shape'
    BY <1>1, <1>2, <1>3, <1>4 DEF Shape
  <1>6. Gifted'
    BY <1>1, <1>2 DEF Gifted
  <1>7. Charges' /\ Refunds' /\ Plain'
    BY <1>1, MarkingKeeps
  <1>8. Plans'
    <2>1. \A u \in job.plan.losers : bid'[u] = "refunded"
      BY <1>1, <1>2 DEF Plans, ActiveBids
    <2>2. QED
      BY <1>1, <1>2, <1>3, <2>1 DEF Plans
  <1>9. QED
    BY <1>1, <1>5, <1>6, <1>7, <1>8 DEF IInv

LEMMA CompletingKeeps ==
  ASSUME IInv, Completing
  PROVE  IInv'
  <1>1. CASE Load
    BY <1>1, LoadKeeps
  <1>2. CASE MarkWinners
    BY <1>2, MarkWinnersKeeps
  <1>3. CASE MarkLosers
    BY <1>3, MarkLosersKeeps
  <1>4. CASE AwaitRefunds
    BY <1>4, JobMovesOn DEF IInv, Plans, AwaitRefunds, Step, unchangedLedger, ledgerVars
  <1>5. CASE OpenNextRound
    <2> DEFINE to == IF ~job.plan.complete /\ nextRound THEN "failed" ELSE "opened"
    <2>1. /\ job' = [job EXCEPT !.pc = to] /\ to \notin {"loaded", "won", "charged"}
          /\ UNCHANGED <<replicaSet, rows, call, bid, gift, auction>> /\ ~replicaSet
      BY <1>5 DEF IInv, OpenNextRound, unchangedLedger, ledgerVars
    <2> HIDE DEF to
    <2>2. auction'.distributed \in Nat
      BY <2>1 DEF IInv, Plans
    <2>3. QED
      BY <2>1, <2>2, JobMovesOn
  <1>6. CASE SaveAuction
    <2>1. /\ job' = [job EXCEPT !.pc = "saved"] /\ ~replicaSet
          /\ UNCHANGED <<replicaSet, rows, call, bid, gift>>
      BY <1>6 DEF IInv, SaveAuction, Step, unchangedLedger, ledgerVars
    <2>2. auction'.distributed = job.plan.base + job.plan.burned
      BY <1>6 DEF SaveAuction
    <2>3. auction'.distributed \in Nat
      BY <2>1, <2>2 DEF IInv, Plans
    <2>4. QED
      BY <2>1, <2>3, JobMovesOn
  <1>7. CASE SaveRound
    BY <1>7, JobMovesOn DEF IInv, Plans, SaveRound, Step, unchangedLedger, ledgerVars
  <1>8. QED
    BY <1>1, <1>2, <1>3, <1>4, <1>5, <1>6, <1>7 DEF Completing

\* The calls the dead worker ran are cut short, the others go on.
LEMMA WorkerDiesKeeps ==
  ASSUME IInv, WorkerDies
  PROVE  IInv'
  <1>1. /\ ~replicaSet /\ job' = [pc |-> "waiting", run |-> job.run + 1, plan |-> NoPlan]
        /\ UNCHANGED <<replicaSet, rows, bid, gift, auction>>
        /\ call' = [c \in Calls |-> IF c \in SubCalls /\ call[c].pc \in Running
                                    THEN [call[c] EXCEPT !.pc = "lost"] ELSE call[c]]
    BY DEF WorkerDies
  <1>2. Shape /\ Plans /\ Gifted /\ Charges /\ Refunds /\ Plain
    BY <1>1 DEF IInv
  <1>3. ASSUME NEW c \in Calls
        PROVE  /\ "pc" \in DOMAIN call'[c]
               /\ call'[c].pc = "lost" \/ call'[c] = call[c]
    BY <1>1, <1>2 DEF Shape
  <1>4. Shape'
    BY <1>1, <1>2, <1>3 DEF Shape
  <1>5. Plans' /\ Gifted'
    BY <1>1, <1>2 DEF Plans, Gifted, NoPlan
  <1>6. \A c \in Calls : HasRow(c)' <=> HasRow(c)
    BY <1>1 DEF HasRow, AllRows
  <1>7. Charges' /\ Refunds'
    <2>1. ASSUME NEW u \in Users, call'[ChargeOf[u]].pc = "read" \/ HasRow(ChargeOf[u])'
          PROVE  bid'[u] = "won"
      BY <1>1, <1>2, <1>3, <1>6, <2>1, CallsOfBids DEF Charges
    <2>2. ASSUME NEW u \in Users,
                 call'[RefundOf[u]].pc \in {"read", "saved"} \/ HasRow(RefundOf[u])'
          PROVE  bid'[u] = "refunded"
      BY <1>1, <1>2, <1>3, <1>6, <2>2, CallsOfBids DEF Refunds
    <2>3. QED
      BY <2>1, <2>2 DEF Charges, Refunds
  <1>8. Plain'
    BY <1>2, <1>3 DEF Plain, WritesUser
  <1>9. QED
    BY <1>1, <1>4, <1>5, <1>7, <1>8 DEF IInv

-----------------------------------------------------------------------------
(* Invariance. *)

LEMMA InitInv == Init => IInv
  <1> SUFFICES ASSUME Init PROVE IInv
    OBVIOUS
  <1>1. \A c \in Calls : call[c] = Idle
    BY DEF Init
  <1>2. \A c \in Calls : ~HasRow(c)
    <2>1. \A u \in Users : rows[u] = Opening[u].rows
      BY DEF Init
    <2>2. \A r \in AllRows : r.by \notin Calls
      BY <2>1, StandaloneAssumption DEF AllRows
    <2>3. QED
      BY <2>2 DEF HasRow
  <1>3. \A c \in Calls : call[c].pc = "idle" /\ "pc" \in DOMAIN call[c]
    BY <1>1 DEF Idle
  <1>4. job = [pc |-> "waiting", run |-> 1, plan |-> NoPlan]
    BY DEF Init
  <1>5. Shape
    BY <1>3, <1>4 DEF Init, Shape
  <1>6. Plans
    BY <1>4 DEF Init, Plans, NoPlan
  <1>7. Gifted
    BY DEF Init, Gifted
  <1>8. Charges /\ Refunds /\ Plain
    BY <1>2, <1>3, CallsOfBids DEF Charges, Refunds, Plain
  <1>9. QED
    BY <1>4, <1>5, <1>6, <1>7, <1>8 DEF IInv

LEMMA CallKeeps ==
  ASSUME IInv, NEW c \in Calls, Started(c) \/ CallStep(c)
  PROVE  IInv'
  <1>1. Shape' /\ replicaSet' = replicaSet /\ UNCHANGED roundVars
    BY CallStepShape DEF IInv
  <1>2. UNCHANGED job
    BY <1>1 DEF roundVars
  <1>3. CASE replicaSet
    BY <1>1, <1>2, <1>3 DEF IInv
  <1>4. CASE ~replicaSet
    <2>1. Shape /\ Plain
      BY <1>4 DEF IInv
    <2>2. call[c].pc # "written"
      BY <2>1 DEF Plain
    <2>3. Advances(c)
      BY <1>4, <2>1, <2>2, BeginAdvances, SaveAdvances, InsertAdvances, LoseAdvances
      DEF Started, CallStep, Write, Commit, WriteRefused, UnknownCommit
    <2>4. call[c].pc = "idle" => Launched(c) \/ Op[c].kind \in {"deposit", "withdrawal"}
      BY <1>4, <2>2
      DEF Started, CallStep, Write, Commit, WriteRefused, UnknownCommit, Save, Insert, Lose, Running
    <2>5. Plans' /\ Gifted' /\ Charges' /\ Refunds' /\ Plain'
      BY <1>1, <1>4, <2>3, <2>4, AdvancesKeeps
    <2>6. QED
      BY <1>1, <1>4, <2>5 DEF IInv
  <1>5. QED
    BY <1>3, <1>4

LEMMA NextInv == IInv /\ [Next]_vars => IInv'
  <1> SUFFICES ASSUME IInv, [Next]_vars PROVE IInv'
    OBVIOUS
  <1>1. CASE \E c \in Calls : Started(c) \/ CallStep(c)
    BY <1>1, CallKeeps
  <1>2. CASE \E u \in Users : Auditing(u)
    <2>1. replicaSet /\ UNCHANGED <<replicaSet, rows, call, bid, gift, job>>
      BY <1>2 DEF Auditing, AuditReadsUser, AuditReadsRows, roundVars
    <2>2. QED
      BY <2>1 DEF IInv, Shape
  <1>3. CASE Completing
    BY <1>3, CompletingKeeps
  <1>4. CASE WorkerDies
    BY <1>4, WorkerDiesKeeps
  <1>5. CASE UNCHANGED vars
    BY <1>5 DEF vars, ledgerVars, IInv, Shape, Plans, Gifted, Charges, Refunds, Plain, ActiveBids,
                HasRow, AllRows, WritesUser
  <1>6. QED
    BY <1>1, <1>2, <1>3, <1>4, <1>5 DEF Next

\* The completion marks a bid before it touches its money, and no later run marks it again.
THEOREM Invariance == Spec => []IInv
  BY InitInv, NextInv, PTL DEF Spec

\* However often the worker dies and the completion starts over, no bid is paid back and
\* charged, none is paid back before it is marked refunded, and none charged without its gift
\* (rounds.processor.ts completeRoundWithoutTransaction, bid-status-update.service.ts).
THEOREM BothWays == Spec => []NeverBothWays
  <1>1. IInv => NeverBothWays
    <2> SUFFICES ASSUME IInv, ~replicaSet, NEW u \in Users
                 PROVE  /\ PaidBack(u) => bid[u] = "refunded" /\ Written(ChargeOf[u]) = 0
                        /\ Written(ChargeOf[u]) > 0 => bid[u] = "won" /\ gift[u] > 0
      BY DEF NeverBothWays
    <2>1. \A c \in Calls : ~HasRow(c) => Written(c) = 0
      <3> TAKE c \in Calls
      <3>1. HAVE ~HasRow(c)
      <3>2. {r \in AllRows : r.by = c} = {}
        BY <3>1 DEF HasRow
      <3>3. QED
        BY <3>2, FS_EmptySet DEF Written
    <2>2. HasRow(ChargeOf[u]) => bid[u] = "won"
      BY DEF IInv, Charges
    <2>3. PaidBack(u) => bid[u] = "refunded"
      <3>1. PaidBack(u) => call[RefundOf[u]].pc = "saved" \/ HasRow(RefundOf[u])
        BY <2>1, CallsOfBids DEF PaidBack
      <3>2. QED
        BY <3>1 DEF IInv, Refunds
    <2>4. PaidBack(u) => Written(ChargeOf[u]) = 0
      BY <2>1, <2>2, <2>3, CallsOfBids
    <2>5. Written(ChargeOf[u]) > 0 => bid[u] = "won"
      BY <2>1, <2>2, CallsOfBids
    <2>6. bid[u] = "won" => gift[u] > 0
      BY DEF IInv, Gifted
    <2>7. QED
      BY <2>3, <2>4, <2>5, <2>6
  <1>2. QED
    BY <1>1, Invariance, PTL

-----------------------------------------------------------------------------
(* The answers of Ledger's calls, with a replica set and without. *)

By(c) == {r \in AllRows : r.by = c}

\* Only a withdrawal is not tried again.
Retried(c) == Op[c].kind # "withdrawal"
Once(c) == Op[c].ref # NoRef \/ ~Retried(c)

\* The rows of c are c's by type and reference, one at most for each commit of unknown
\* outcome and one for the answer; a call that can have only one has none until it ends.
Truthful(c) ==
    /\ IsFiniteSet(By(c)) /\ call[c].doubt \in Nat
    /\ \A u \in Users : \A r \in rows[u] : r.by = c =>
          u = Op[c].user /\ r.type = Op[c].kind /\ r.ref = Op[c].ref
    /\ call[c].pc # "ok" => Written(c) <= call[c].doubt
    /\ call[c].pc = "ok" => /\ Written(c) >= 1 \/ HasTransaction(c)
                            /\ Written(c) <= 1 + call[c].doubt
    /\ Once(c) => /\ Written(c) <= 1
                  /\ call[c].pc \in Running => Written(c) = 0
                  /\ call[c].pc = "idle" /\ ~Retried(c) => Written(c) = 0

Fields == {"pc", "attempt", "doubt", "snap", "seen", "at"}

AnswerInv ==
    /\ DOMAIN rows = Users /\ DOMAIN call = Calls
    /\ \A c \in Calls : Fields \subseteq DOMAIN call[c] /\ Truthful(c)

LEMMA WrittenCounts ==
  ASSUME NEW c, IsFiniteSet(By(c))
  PROVE  Written(c) = Cardinality(By(c)) /\ Written(c) \in Nat
  <1>1. Written(c) = Cardinality(By(c))
    BY DEF Written, By
  <1>2. QED
    BY <1>1, FS_CardinalityType

\* Who has a reference and finds no row has written none.
LEMMA NoneYet ==
  ASSUME NEW c \in Calls, Truthful(c), Op[c].ref # NoRef, ~HasTransaction(c)
  PROVE  Written(c) = 0
  <1>1. By(c) = {}
    <2>1. SUFFICES ASSUME NEW r \in AllRows, r.by = c
                   PROVE  FALSE
      BY DEF By
    <2>2. PICK u \in Users : r \in rows[u]
      BY DEF AllRows
    <2>3. QED
      BY <2>1, <2>2 DEF Truthful, HasTransaction
  <1>2. QED
    BY <1>1, FS_EmptySet, WrittenCounts DEF Truthful

Inserts(c, at) == rows' = [rows EXCEPT ![Op[c].user] = @ \union {RowOf(c, at)}]

LEMMA InsertsOne ==
  ASSUME DOMAIN rows = Users, NEW c \in Calls, NEW at, Inserts(c, at), Truthful(c)
  PROVE  /\ DOMAIN rows' = Users
         /\ \A d \in Calls \ {c} : By(d)' = By(d)
         /\ \A u \in Users : rows[u] \subseteq rows'[u]
         /\ \A u \in Users : \A r \in rows'[u] :
               r \in rows[u] \/ (u = Op[c].user /\ r = RowOf(c, at))
         /\ IsFiniteSet(By(c)') /\ Written(c)' >= 1 /\ Written(c)' <= Written(c) + 1
  <1> DEFINE x == RowOf(c, at)
  <1>1. Op[c].user \in Users /\ x.by = c
    BY UserOf DEF RowOf
  <1>2. rows' = [rows EXCEPT ![Op[c].user] = @ \union {x}]
    BY DEF Inserts
  <1> HIDE DEF x
  <1>3. /\ DOMAIN rows' = Users /\ \A u \in Users : rows[u] \subseteq rows'[u]
        /\ \A u \in Users : \A r \in rows'[u] : r \in rows[u] \/ (u = Op[c].user /\ r = x)
    BY <1>1, <1>2
  <1>4. AllRows' = AllRows \union {x}
    <2>1. \A u \in Users : rows'[u] = IF u = Op[c].user THEN rows[u] \union {x} ELSE rows[u]
      BY <1>2
    <2>2. ASSUME NEW r
          PROVE  r \in AllRows' <=> r \in AllRows \/ r = x
      <3>1. r \in AllRows' <=> \E u \in Users : r \in rows'[u]
        BY DEF AllRows
      <3>2. r \in AllRows <=> \E u \in Users : r \in rows[u]
        BY DEF AllRows
      <3>3. QED
        BY <1>1, <2>1, <3>1, <3>2
    <2>3. QED
      BY <2>2
  <1>5. \A d \in Calls \ {c} : By(d)' = By(d)
    BY <1>1, <1>4 DEF By
  <1>6. By(c)' = By(c) \union {x}
    BY <1>1, <1>4 DEF By
  <1>7. IsFiniteSet(By(c))
    BY DEF Truthful
  <1>8. /\ IsFiniteSet(By(c) \union {x})
        /\ Cardinality(By(c) \union {x}) = IF x \in By(c) THEN Cardinality(By(c))
                                           ELSE Cardinality(By(c)) + 1
    BY <1>7, FS_AddElement
  <1>9. Cardinality(By(c) \union {x}) # 0 /\ Cardinality(By(c) \union {x}) \in Nat
    BY <1>8, FS_EmptySet, FS_CardinalityType
  <1>10. Written(c)' = Cardinality(By(c) \union {x})
    BY <1>6 DEF Written, By
  <1>11. QED
    BY <1>3, <1>5, <1>6, <1>7, <1>8, <1>9, <1>10, WrittenCounts DEF x

\* A step of call c: it looks for its row; goes on, ends or is tried again without effect; or
\* takes effect, and is answered or not.
Looks(c) ==
    /\ UNCHANGED rows /\ call'[c].doubt = call[c].doubt /\ call[c].pc = "idle"
    /\ call'[c].pc = "ok" <=> HasTransaction(c)
    /\ call'[c].pc \in {"ok", "read", "error"}
Passes(c) ==
    /\ UNCHANGED rows /\ call'[c].doubt \in {call[c].doubt, call[c].doubt + 1}
    /\ call[c].pc \in Running
    /\ call'[c].pc \in Running \cup {"error", "lost"} \/ (call'[c].pc = "idle" /\ Retried(c))
Lands(c) ==
    /\ \E at : Inserts(c, at)
    /\ call[c].pc \in Running
    /\ \/ call'[c].pc = "ok" /\ call'[c].doubt = call[c].doubt
       \/ /\ call'[c].doubt = call[c].doubt + 1
          /\ call'[c].pc = "error" \/ (call'[c].pc = "idle" /\ Retried(c))

Alone(c) ==
    /\ DOMAIN call' = Calls /\ Fields \subseteq DOMAIN call'[c]
    /\ \A d \in Calls \ {c} : call'[d] = call[d]

Turns(c) == Alone(c) /\ (Looks(c) \/ Passes(c) \/ Lands(c))

\* A call that does not move stays truthful while rows are only added, and none of its own.
LEMMA OthersStay ==
  ASSUME NEW d \in Calls, Truthful(d), call'[d] = call[d], By(d)' = By(d),
         \A u \in Users : rows[u] \subseteq rows'[u],
         \A u \in Users : \A r \in rows'[u] : r \in rows[u] \/ r.by # d
  PROVE  Truthful(d)'
  <1>1. Written(d)' = Written(d)
    BY DEF Written, By
  <1>2. HasTransaction(d) => HasTransaction(d)'
    BY UserOf DEF HasTransaction
  <1>3. \A u \in Users : \A r \in rows'[u] : r.by = d =>
           u = Op[d].user /\ r.type = Op[d].kind /\ r.ref = Op[d].ref
    BY DEF Truthful
  <1>4. QED
    BY <1>1, <1>2, <1>3 DEF Truthful, Once, Retried

LEMMA RowsRest ==
  ASSUME UNCHANGED rows
  PROVE  /\ \A d \in Calls : By(d)' = By(d) /\ Written(d)' = Written(d)
         /\ \A d \in Calls : HasTransaction(d)' = HasTransaction(d)
  BY DEF By, Written, AllRows, HasTransaction

LEMMA LooksKeep ==
  ASSUME NEW c \in Calls, Truthful(c), Looks(c)
  PROVE  Truthful(c)'
  <1>1. Written(c) \in Nat /\ call[c].doubt \in Nat
    BY WrittenCounts DEF Truthful
  <1>2. By(c)' = By(c) /\ Written(c)' = Written(c) /\ HasTransaction(c)' = HasTransaction(c)
    BY RowsRest DEF Looks
  <1>3. Written(c) <= call[c].doubt /\ (Once(c) => Written(c) <= 1)
    BY DEF Truthful, Looks
  <1>4. Once(c) /\ ~HasTransaction(c) => Written(c) = 0
    BY NoneYet DEF Truthful, Once, Looks
  <1>5. call'[c].pc \in Running => ~HasTransaction(c)
    BY DEF Looks, Running
  <1>6. /\ IsFiniteSet(By(c))' /\ call'[c].doubt \in Nat
        /\ \A u \in Users : \A r \in rows'[u] : r.by = c =>
              u = Op[c].user /\ r.type = Op[c].kind /\ r.ref = Op[c].ref
    BY <1>1, <1>2 DEF Truthful, Looks
  <1>7. Truthful(c)'
    BY <1>1, <1>2, <1>3, <1>4, <1>5, <1>6 DEF Truthful, Once, Retried, Looks
  <1>8. QED
    BY <1>7

LEMMA PassesKeep ==
  ASSUME NEW c \in Calls, Truthful(c), Passes(c)
  PROVE  Truthful(c)'
  <1>1. Written(c) \in Nat /\ call[c].doubt \in Nat
    BY WrittenCounts DEF Truthful
  <1>2. By(c)' = By(c) /\ Written(c)' = Written(c)
    BY RowsRest DEF Passes
  <1>3. call[c].pc # "ok" /\ call[c].pc \in Running
    BY DEF Passes, Running
  <1>4. Written(c) <= call[c].doubt /\ (Once(c) => Written(c) = 0)
    BY <1>3 DEF Truthful
  <1>5. /\ IsFiniteSet(By(c))' /\ call'[c].doubt \in Nat /\ call[c].doubt <= call'[c].doubt
        /\ \A u \in Users : \A r \in rows'[u] : r.by = c =>
              u = Op[c].user /\ r.type = Op[c].kind /\ r.ref = Op[c].ref
    BY <1>1, <1>2 DEF Truthful, Passes
  <1>6. call'[c].pc # "ok"
    BY DEF Passes, Running
  <1>7. QED
    BY <1>1, <1>2, <1>4, <1>5, <1>6 DEF Truthful, Once, Retried

LEMMA LandsKeep ==
  ASSUME DOMAIN rows = Users, NEW c \in Calls, Truthful(c), Lands(c)
  PROVE  Truthful(c)'
  <1>1. Written(c) \in Nat /\ call[c].doubt \in Nat
    BY WrittenCounts DEF Truthful
  <1>2. PICK at : Inserts(c, at)
    BY DEF Lands
  <1>3. /\ \A u \in Users : \A r \in rows'[u] :
              r \in rows[u] \/ (u = Op[c].user /\ r = RowOf(c, at))
        /\ IsFiniteSet(By(c)') /\ Written(c)' >= 1 /\ Written(c)' <= Written(c) + 1
    BY <1>2, InsertsOne
  <1>4. RowOf(c, at).type = Op[c].kind /\ RowOf(c, at).ref = Op[c].ref
    BY DEF RowOf
  <1>5. call[c].pc # "ok" /\ call[c].pc \in Running
    BY DEF Lands, Running
  <1>6. Written(c) <= call[c].doubt /\ (Once(c) => Written(c) = 0)
    BY <1>5 DEF Truthful
  <1>7. \A u \in Users : \A r \in rows'[u] : r.by = c =>
           u = Op[c].user /\ r.type = Op[c].kind /\ r.ref = Op[c].ref
    BY <1>3, <1>4 DEF Truthful
  <1>8. Written(c)' \in Nat
    BY <1>3, FS_CardinalityType DEF Written, By
  <1>9. \/ call'[c].pc = "ok" /\ call'[c].doubt = call[c].doubt
        \/ /\ call'[c].doubt = call[c].doubt + 1
           /\ call'[c].pc \notin Running /\ call'[c].pc # "ok"
           /\ call'[c].pc = "idle" => Retried(c)
    BY DEF Lands, Running
  <1>10. call'[c].doubt \in Nat /\ IsFiniteSet(By(c))'
    BY <1>1, <1>3, <1>9
  <1>11. Truthful(c)'
    BY <1>1, <1>3, <1>6, <1>7, <1>8, <1>9, <1>10 DEF Truthful, Once, Retried, Running
  <1>12. QED
    BY <1>11

LEMMA TurnsKeep ==
  ASSUME AnswerInv, NEW c \in Calls, Turns(c)
  PROVE  AnswerInv'
  <1>1. Truthful(c) /\ DOMAIN rows = Users
    BY DEF AnswerInv
  <1>2. Truthful(c)'
    BY <1>1, LooksKeep, PassesKeep, LandsKeep DEF Turns
  <1>3. /\ DOMAIN rows' = Users
        /\ \A d \in Calls \ {c} : By(d)' = By(d)
        /\ \A u \in Users : rows[u] \subseteq rows'[u]
        /\ \A u \in Users : \A r \in rows'[u] : r \in rows[u] \/ r.by = c
    <2>1. CASE UNCHANGED rows
      BY <1>1, <2>1, RowsRest
    <2>2. CASE Lands(c)
      <3>1. PICK at : Inserts(c, at)
        BY <2>2 DEF Lands
      <3>2. RowOf(c, at).by = c
        BY DEF RowOf
      <3>3. QED
        BY <1>1, <3>1, <3>2, InsertsOne
    <2>3. QED
      BY <2>1, <2>2 DEF Turns, Looks, Passes
  <1>4. ASSUME NEW d \in Calls \ {c}
        PROVE  Fields \subseteq DOMAIN call'[d] /\ Truthful(d)'
    <2>1. Truthful(d) /\ Fields \subseteq DOMAIN call[d] /\ call'[d] = call[d]
      BY DEF AnswerInv, Turns, Alone
    <2>2. \A u \in Users : \A r \in rows'[u] : r \in rows[u] \/ r.by # d
      BY <1>3
    <2>3. QED
      BY <1>3, <2>1, <2>2, OthersStay
  <1>5. QED
    BY <1>2, <1>3, <1>4 DEF AnswerInv, Turns, Alone, Fields

LEMMA AfterErrorIs ==
  ASSUME NEW c \in Calls, Fields \subseteq DOMAIN call[c]
  PROVE  /\ AfterError(c).pc = "error" \/ (AfterError(c).pc = "idle" /\ Retried(c))
         /\ AfterError(c).doubt = call[c].doubt /\ DOMAIN AfterError(c) = DOMAIN call[c]
  BY DEF AfterError, Retried, Fields

LEMMA GoesAlone ==
  ASSUME AnswerInv, NEW c \in Calls, NEW pc, Goes(c, pc)
  PROVE  Alone(c) /\ call'[c].pc = pc /\ call'[c].doubt = call[c].doubt
  <1>1. DOMAIN call = Calls /\ Fields \subseteq DOMAIN call[c]
    BY DEF AnswerInv
  <1>2. call' = [call EXCEPT ![c].pc = pc]
    BY DEF Goes
  <1>3. QED
    BY <1>1, <1>2 DEF Alone, Fields

LEMMA BeginTurns ==
  ASSUME AnswerInv, NEW c \in Calls, Begin(c)
  PROVE  Turns(c)
  <1> DEFINE pc == IF HasTransaction(c) THEN "ok" ELSE IF Covered(c) THEN "read" ELSE "error"
  <1>1. DOMAIN call = Calls /\ Fields \subseteq DOMAIN call[c]
    BY DEF AnswerInv
  <1>2. /\ pc \in {"ok", "read", "error"}
        /\ pc = "ok" <=> HasTransaction(c)
        /\ UNCHANGED rows /\ call[c].pc = "idle"
        /\ call' = [call EXCEPT ![c].pc = pc, ![c].snap = balance[Op[c].user],
                                ![c].seen = version[Op[c].user]]
    BY DEF Begin
  <1> HIDE DEF pc
  <1>3. Alone(c) /\ call'[c].pc = pc /\ call'[c].doubt = call[c].doubt
    BY <1>1, <1>2 DEF Alone, Fields
  <1>4. QED
    BY <1>2, <1>3 DEF Turns, Looks

LEMMA WriteTurns ==
  ASSUME AnswerInv, NEW c \in Calls, Write(c)
  PROVE  Turns(c)
  <1>1. DOMAIN call = Calls /\ Fields \subseteq DOMAIN call[c]
    BY DEF AnswerInv
  <1>2. PICK at : call' = [call EXCEPT ![c].pc = "written", ![c].at = at]
    BY DEF Write
  <1>3. Alone(c) /\ call'[c].pc = "written" /\ call'[c].doubt = call[c].doubt
    BY <1>1, <1>2 DEF Alone, Fields
  <1>4. QED
    BY <1>3 DEF Turns, Passes, Write, Running

LEMMA CommitTurns ==
  ASSUME AnswerInv, NEW c \in Calls, Commit(c)
  PROVE  Turns(c)
  <1>1. Alone(c) /\ call'[c].pc = "ok" /\ call'[c].doubt = call[c].doubt
    BY GoesAlone DEF Commit
  <1>2. Inserts(c, call[c].at) /\ call[c].pc \in Running
    BY DEF Commit, TakesEffect, Inserts, Running
  <1>3. QED
    BY <1>1, <1>2 DEF Turns, Lands

LEMMA WriteRefusedTurns ==
  ASSUME AnswerInv, NEW c \in Calls, WriteRefused(c)
  PROVE  Turns(c)
  <1>1. DOMAIN call = Calls /\ Fields \subseteq DOMAIN call[c]
    BY DEF AnswerInv
  <1> DEFINE x == IF Conflict(c) THEN AfterError(c) ELSE [call[c] EXCEPT !.pc = "error"]
  <1>2. /\ x.pc = "error" \/ (x.pc = "idle" /\ Retried(c))
        /\ x.doubt = call[c].doubt /\ DOMAIN x = DOMAIN call[c]
    BY <1>1, AfterErrorIs DEF Fields
  <1>3. call' = [call EXCEPT ![c] = x] /\ UNCHANGED rows /\ call[c].pc \in Running
    BY DEF WriteRefused, Running
  <1> HIDE DEF x
  <1>4. Alone(c) /\ call'[c] = x
    BY <1>1, <1>2, <1>3 DEF Alone
  <1>5. QED
    BY <1>2, <1>3, <1>4 DEF Turns, Passes

LEMMA UnknownTurns ==
  ASSUME AnswerInv, NEW c \in Calls, UnknownCommit(c)
  PROVE  Turns(c)
  <1>1. /\ DOMAIN call = Calls /\ Fields \subseteq DOMAIN call[c]
        /\ call[c].doubt \in Nat
    BY DEF AnswerInv, Truthful
  <1> DEFINE y == AfterError(c)
             x == [y EXCEPT !.doubt = @ + 1]
  <1>2. /\ y.pc = "error" \/ (y.pc = "idle" /\ Retried(c))
        /\ y.doubt = call[c].doubt /\ DOMAIN y = DOMAIN call[c]
    BY <1>1, AfterErrorIs
  <1>3. /\ call' = [call EXCEPT ![c] = x] /\ call[c].pc \in Running
        /\ UNCHANGED rows \/ Inserts(c, call[c].at)
    BY DEF UnknownCommit, TakesEffect, Inserts, Running
  <1> HIDE DEF y
  <1>4. x.pc = y.pc /\ x.doubt = call[c].doubt + 1 /\ DOMAIN x = DOMAIN call[c]
    BY <1>1, <1>2 DEF Fields
  <1> HIDE DEF x
  <1>5. Alone(c) /\ call'[c] = x
    BY <1>1, <1>3, <1>4 DEF Alone
  <1>6. QED
    BY <1>1, <1>2, <1>3, <1>4, <1>5 DEF Turns, Passes, Lands

LEMMA SaveTurns ==
  ASSUME AnswerInv, NEW c \in Calls, Save(c)
  PROVE  Turns(c)
  <1>1. Alone(c) /\ call'[c].pc = "saved" /\ call'[c].doubt = call[c].doubt
    BY GoesAlone DEF Save
  <1>2. QED
    BY <1>1 DEF Turns, Passes, Save, Running

LEMMA InsertTurns ==
  ASSUME AnswerInv, NEW c \in Calls, Insert(c)
  PROVE  Turns(c)
  <1>1. call[c].pc \in Running
    BY DEF Insert, Running
  <1>2. CASE Duplicate(c)
    BY <1>1, <1>2, GoesAlone DEF Insert, Turns, Passes
  <1>3. CASE ~Duplicate(c)
    <2>1. Alone(c) /\ call'[c].pc = "ok" /\ call'[c].doubt = call[c].doubt
      BY <1>3, GoesAlone DEF Insert
    <2>2. Inserts(c, clock'[Op[c].user])
      BY <1>3 DEF Insert, Inserts
    <2>3. QED
      BY <1>1, <2>1, <2>2 DEF Turns, Lands
  <1>4. QED
    BY <1>2, <1>3

LEMMA LoseTurns ==
  ASSUME AnswerInv, NEW c \in Calls, Lose(c)
  PROVE  Turns(c)
  BY GoesAlone DEF Lose, Turns, Passes

LEMMA CallTurns ==
  ASSUME AnswerInv, NEW c \in Calls, Started(c) \/ CallStep(c)
  PROVE  Turns(c)
  BY BeginTurns, WriteTurns, CommitTurns, WriteRefusedTurns, UnknownTurns, SaveTurns,
     InsertTurns, LoseTurns DEF Started, CallStep

\* What a dying worker leaves of its calls.
LEMMA CutShortKeeps ==
  ASSUME AnswerInv, WorkerDies
  PROVE  AnswerInv'
  <1>1. /\ UNCHANGED rows
        /\ call' = [c \in Calls |-> IF c \in SubCalls /\ call[c].pc \in Running
                                    THEN [call[c] EXCEPT !.pc = "lost"] ELSE call[c]]
    BY DEF WorkerDies
  <1>2. ASSUME NEW c \in Calls
        PROVE  Fields \subseteq DOMAIN call'[c] /\ Truthful(c)'
    <2>1. Truthful(c) /\ Fields \subseteq DOMAIN call[c]
      BY DEF AnswerInv
    <2>2. By(c)' = By(c) /\ Written(c)' = Written(c) /\ HasTransaction(c)' = HasTransaction(c)
      BY <1>1, RowsRest
    <2>3. CASE call'[c] = call[c]
      BY <1>1, <2>1, <2>2, <2>3 DEF Truthful, Once, Retried
    <2>4. CASE call'[c] # call[c]
      <3>1. call[c].pc \in Running /\ call'[c] = [call[c] EXCEPT !.pc = "lost"]
        BY <1>1, <2>4
      <3>2. /\ call'[c].pc = "lost" /\ call'[c].doubt = call[c].doubt
            /\ DOMAIN call'[c] = DOMAIN call[c]
        BY <2>1, <3>1 DEF Fields
      <3>3. Truthful(c)'
        BY <1>1, <2>1, <2>2, <3>1, <3>2 DEF Truthful, Once, Retried, Running
      <3>4. QED
        BY <2>1, <3>2, <3>3
    <2>5. QED
      BY <2>3, <2>4
  <1>3. QED
    BY <1>1, <1>2 DEF AnswerInv

LEMMA AnswersRest ==
  ASSUME AnswerInv, UNCHANGED <<rows, call>>
  PROVE  AnswerInv'
  BY RowsRest DEF AnswerInv, Truthful, Once, Retried

LEMMA AnswersInit == Init => AnswerInv
  <1> SUFFICES ASSUME Init PROVE AnswerInv
    OBVIOUS
  <1>1. DOMAIN rows = Users /\ DOMAIN call = Calls /\ \A u \in Users : rows[u] = Opening[u].rows
    BY DEF Init
  <1>2. ASSUME NEW c \in Calls
        PROVE  Fields \subseteq DOMAIN call[c] /\ Truthful(c)
    <2>1. call[c] = Idle
      BY DEF Init
    <2>2. Fields \subseteq DOMAIN call[c] /\ call[c].pc = "idle" /\ call[c].doubt = 0
      BY <2>1 DEF Idle, Fields
    <2>3. \A u \in Users : \A r \in rows[u] : r.by # c
      BY <1>1, StandaloneAssumption
    <2>4. By(c) = {}
      BY <2>3 DEF By, AllRows
    <2>5. IsFiniteSet(By(c)) /\ Written(c) = 0
      BY <2>4, FS_EmptySet, WrittenCounts
    <2>6. QED
      BY <2>2, <2>3, <2>5 DEF Truthful, Running
  <1>3. QED
    BY <1>1, <1>2 DEF AnswerInv

LEMMA AnswersNext == AnswerInv /\ [Next]_vars => AnswerInv'
  <1> SUFFICES ASSUME AnswerInv, [Next]_vars PROVE AnswerInv'
    OBVIOUS
  <1>1. CASE \E c \in Calls : Started(c) \/ CallStep(c)
    BY <1>1, CallTurns, TurnsKeep
  <1>2. CASE \E u \in Users : Auditing(u)
    BY <1>2, AnswersRest DEF Auditing, AuditReadsUser, AuditReadsRows
  <1>3. CASE Completing
    BY <1>3, AnswersRest DEF Completing, Load, MarkWinners, MarkLosers, AwaitRefunds,
       OpenNextRound, SaveAuction, SaveRound, unchangedLedger, ledgerVars
  <1>4. CASE WorkerDies
    BY <1>4, CutShortKeeps
  <1>5. CASE UNCHANGED vars
    BY <1>5, AnswersRest DEF vars, ledgerVars
  <1>6. QED
    BY <1>1, <1>2, <1>3, <1>4, <1>5 DEF Next

\* The inductive invariant: the rows of a call are its own, and as many as its answer admits.
THEOREM AnswersInductive == Spec => []AnswerInv
  BY AnswersInit, AnswersNext, PTL DEF Spec

\* Whatever conflicts, commits of unknown outcome, crashes and repetitions there were, "ok" is
\* answered of a row that exists, an error only of none or of a commit whose outcome was
\* unknown, and only a deposit is applied twice (balance.service.ts).
THEOREM AnswersMatch == Spec => []AnswersMatchRows
  <1>1. AnswerInv => AnswersMatchRows
    <2> SUFFICES ASSUME AnswerInv, NEW c \in Calls
                 PROVE  /\ call[c].pc = "ok" => Written(c) >= 1 \/ HasTransaction(c)
                        /\ call[c].pc = "error" => Written(c) <= call[c].doubt
                        /\ Written(c) <= IF Op[c].kind # "withdrawal" /\ Op[c].ref = NoRef
                                         THEN 1 + call[c].doubt ELSE 1
      BY DEF AnswersMatchRows
    <2>1. Truthful(c)
      BY DEF AnswerInv
    <2>2. Written(c) \in Nat /\ call[c].doubt \in Nat
      BY <2>1, WrittenCounts DEF Truthful
    <2>3. Written(c) <= 1 + call[c].doubt /\ (Once(c) => Written(c) <= 1)
      BY <2>1, <2>2 DEF Truthful
    <2>4. QED
      BY <2>1, <2>2, <2>3 DEF Truthful, Once, Retried
  <1>2. QED
    BY <1>1, AnswersInductive, PTL

-----------------------------------------------------------------------------
(* The first n bids by rank *)

LEMMA HasLeast ==
  ASSUME NEW T \in SUBSET Nat, T # {}
  PROVE  \E x \in T : \A y \in T : x <= y
  <1> DEFINE R == OpToRel(<, Nat)
  <1>1. IsWellFoundedOn(R, Nat)
    BY NatLessThanWellFounded
  <1>2. \A x, y \in Nat : y < x => <<y, x>> \in R
    BY DEF OpToRel
  <1> HIDE DEF R
  <1>3. PICK m \in T : \A k \in T : ~(<<k, m>> \in R)
    BY <1>1, WFMin
  <1>4. ASSUME NEW k \in T
        PROVE  m <= k
    <2>1. m \in Nat /\ k \in Nat /\ ~(<<k, m>> \in R)
      BY <1>3
    <2>2. ~(k < m)
      BY <1>2, <2>1
    <2>3. QED
      BY <2>1, <2>2
  <1>5. QED
    BY <1>4

\* The bids of S ahead of u.
Ahead(S, u) == {v \in S : Rank[v] < Rank[u]}

LEMMA AheadCounts ==
  ASSUME NEW S \in SUBSET Users, NEW u \in S
  PROVE  /\ IsFiniteSet(S) /\ Cardinality(S) \in Nat
         /\ IsFiniteSet(Ahead(S, u)) /\ Cardinality(Ahead(S, u)) \in Nat
         /\ Cardinality(Ahead(S, u)) < Cardinality(S)
  <1>1. IsFiniteSet(S)
    BY FS_Subset, StandaloneAssumption
  <1>2. Rank[u] \in Nat
    BY StandaloneAssumption
  <1>3. Ahead(S, u) \in SUBSET S /\ u \notin Ahead(S, u)
    BY <1>2 DEF Ahead
  <1>4. QED
    BY <1>1, <1>3, FS_Subset, FS_CardinalityType

LEMMA FirstIs ==
  ASSUME NEW S, NEW n
  PROVE  First(S, n) = {u \in S : Cardinality(Ahead(S, u)) < n}
  BY DEF First, Ahead

LEMMA AheadGrows ==
  ASSUME NEW S \in SUBSET Users, NEW u \in S, NEW v \in S, Rank[u] < Rank[v]
  PROVE  Cardinality(Ahead(S, u)) < Cardinality(Ahead(S, v))
  <1>1. Rank[u] \in Nat /\ Rank[v] \in Nat /\ \A w \in S : Rank[w] \in Nat
    BY StandaloneAssumption
  <1>2. Ahead(S, u) \in SUBSET Ahead(S, v) /\ u \in Ahead(S, v) /\ u \notin Ahead(S, u)
    BY <1>1 DEF Ahead
  <1>3. /\ IsFiniteSet(Ahead(S, v)) /\ Cardinality(Ahead(S, v)) \in Nat
        /\ Cardinality(Ahead(S, u)) \in Nat
    BY AheadCounts
  <1>4. /\ Cardinality(Ahead(S, u)) <= Cardinality(Ahead(S, v))
        /\ Cardinality(Ahead(S, v)) = Cardinality(Ahead(S, u)) => Ahead(S, v) = Ahead(S, u)
    BY <1>2, <1>3, FS_Subset
  <1>5. QED
    BY <1>2, <1>3, <1>4

\* Those that are first are ahead of the others.
LEMMA FirstAhead ==
  ASSUME NEW S \in SUBSET Users, NEW n \in Nat,
         NEW u \in First(S, n), NEW v \in S \ First(S, n)
  PROVE  Rank[u] < Rank[v]
  <1>1. u \in S /\ v \in S /\ u # v
    BY DEF First
  <1>2. Rank[u] \in Nat /\ Rank[v] \in Nat /\ Rank[u] # Rank[v]
    BY <1>1, StandaloneAssumption
  <1>3. Cardinality(Ahead(S, u)) < n /\ ~(Cardinality(Ahead(S, v)) < n)
    BY <1>1, FirstIs
  <1>4. ~(Rank[v] < Rank[u])
    <2>1. SUFFICES ASSUME Rank[v] < Rank[u]
                   PROVE  FALSE
      OBVIOUS
    <2>2. Cardinality(Ahead(S, v)) < Cardinality(Ahead(S, u))
      BY <1>1, <2>1, AheadGrows
    <2>3. QED
      BY <1>1, <1>3, <2>2, AheadCounts
  <1>5. QED
    BY <1>2, <1>4

\* They are n at most: all but the last of them are ahead of it.
LEMMA FirstAtMost ==
  ASSUME NEW S \in SUBSET Users, NEW n \in Nat
  PROVE  /\ First(S, n) \in SUBSET S /\ IsFiniteSet(First(S, n))
         /\ Cardinality(First(S, n)) \in Nat /\ Cardinality(First(S, n)) <= n
  <1> DEFINE F == First(S, n)
  <1>1. F \in SUBSET S /\ IsFiniteSet(F) /\ Cardinality(F) \in Nat
    <2>1. F \in SUBSET S /\ IsFiniteSet(S)
      BY FS_Subset, StandaloneAssumption DEF First
    <2>2. QED
      BY <2>1, FS_Subset, FS_CardinalityType
  <1>2. CASE F = {}
    BY <1>1, <1>2, FS_EmptySet
  <1>3. CASE F # {}
    <2> DEFINE Behind(u) == Cardinality(S) - Cardinality(Ahead(S, u))
               T == {Behind(u) : u \in F}
    <2>1. \A u \in F : Behind(u) \in Nat
      BY <1>1, AheadCounts
    <2>2. T \in SUBSET Nat /\ T # {}
      BY <1>3, <2>1
    <2>3. PICK x \in T : \A y \in T : x <= y
      BY <2>2, HasLeast
    <2>4. PICK m \in F : x = Behind(m)
      BY <2>3
    <2>5. \A u \in F : Behind(m) <= Behind(u)
      BY <2>3, <2>4
    <2>6. m \in S /\ Cardinality(Ahead(S, m)) < n
      BY <1>1, FirstIs
    <2>7. F \ {m} \in SUBSET Ahead(S, m)
      <3>1. SUFFICES ASSUME NEW u \in F \ {m}
                     PROVE  Rank[u] < Rank[m]
        BY <1>1 DEF Ahead
      <3>2. u \in S /\ Rank[u] \in Nat /\ Rank[m] \in Nat /\ Rank[u] # Rank[m]
        BY <1>1, <2>6, StandaloneAssumption
      <3>3. ~(Rank[m] < Rank[u])
        <4>1. SUFFICES ASSUME Rank[m] < Rank[u]
                       PROVE  FALSE
          OBVIOUS
        <4>2. Cardinality(Ahead(S, m)) < Cardinality(Ahead(S, u))
          BY <2>6, <3>2, <4>1, AheadGrows
        <4>3. Behind(m) <= Behind(u)
          BY <2>5, <3>1
        <4>4. QED
          BY <2>6, <3>2, <4>2, <4>3, AheadCounts
      <3>4. QED
        BY <3>2, <3>3
    <2>8. Cardinality(F \ {m}) <= Cardinality(Ahead(S, m)) /\ Cardinality(Ahead(S, m)) \in Nat
      BY <2>6, <2>7, AheadCounts, FS_Subset
    <2>9. Cardinality(F \ {m}) = Cardinality(F) - 1
      BY <1>1, <2>4, FS_RemoveElement
    <2>10. QED
      BY <1>1, <2>6, <2>8, <2>9
  <1>4. QED
    BY <1>1, <1>2, <1>3

\* They are n unless S has fewer: the next one has them ahead.
LEMMA FirstAtLeast ==
  ASSUME NEW S \in SUBSET Users, NEW n \in Nat, First(S, n) # S
  PROVE  Cardinality(First(S, n)) = n
  <1> DEFINE F == First(S, n)
             T == {Rank[u] : u \in S \ F}
  <1>1. F \in SUBSET S /\ IsFiniteSet(F) /\ Cardinality(F) \in Nat /\ Cardinality(F) <= n
    BY FirstAtMost
  <1>2. \A u \in S : Rank[u] \in Nat
    BY StandaloneAssumption
  <1>3. T \in SUBSET Nat /\ T # {}
    BY <1>1, <1>2
  <1>4. PICK x \in T : \A y \in T : x <= y
    BY <1>3, HasLeast
  <1>5. PICK m \in S \ F : x = Rank[m]
    BY <1>4
  <1>6. \A v \in S \ F : Rank[m] <= Rank[v]
    BY <1>4, <1>5
  <1>7. Ahead(S, m) \in SUBSET F
    BY <1>2, <1>5, <1>6 DEF Ahead
  <1>8. ~(Cardinality(Ahead(S, m)) < n)
    BY <1>5, FirstIs
  <1>9. Cardinality(Ahead(S, m)) <= Cardinality(F) /\ Cardinality(Ahead(S, m)) \in Nat
    BY <1>1, <1>5, <1>7, AheadCounts, FS_Subset
  <1>10. QED
    BY <1>1, <1>8, <1>9

LEMMA FirstCounts ==
  ASSUME NEW S \in SUBSET Users, NEW n \in Nat
  PROVE  Cardinality(First(S, n)) = AtMost(n, Cardinality(S)) /\ Cardinality(S) \in Nat
  <1>1. IsFiniteSet(S) /\ Cardinality(S) \in Nat
    BY FS_Subset, FS_CardinalityType, StandaloneAssumption
  <1>2. /\ First(S, n) \in SUBSET S /\ Cardinality(First(S, n)) \in Nat
        /\ Cardinality(First(S, n)) <= n
    BY FirstAtMost
  <1>3. CASE First(S, n) = S
    BY <1>1, <1>2, <1>3 DEF AtMost
  <1>4. CASE First(S, n) # S
    <2>1. Cardinality(First(S, n)) = n
      BY <1>4, FirstAtLeast
    <2>2. Cardinality(First(S, n)) <= Cardinality(S)
      BY <1>1, <1>2, FS_Subset
    <2>3. QED
      BY <1>1, <2>1, <2>2 DEF AtMost
  <1>5. QED
    BY <1>3, <1>4

\* All of them are first if there are no more than n.
LEMMA FirstAll ==
  ASSUME NEW S \in SUBSET Users, NEW n \in Nat, Cardinality(S) <= n
  PROVE  First(S, n) = S
  <1>1. \A u \in S : Cardinality(Ahead(S, u)) < n
    BY AheadCounts
  <1>2. QED
    BY <1>1, FirstIs

-----------------------------------------------------------------------------
(* A completion without transactions that is not interrupted *)

\* What such a completion computes from the documents it finds.
Gifts == AtMost(WinnersCount, TotalSupply)
Winners == First(Users, Gifts)
Others == Users \ Winners
Final == lastRound \/ Gifts >= TotalSupply
Losers == IF Final THEN Others ELSE Others \ First(Others, TotalSupply - Gifts)
Planned == [winners |-> Winners, base |-> 0, burned |-> Gifts, complete |-> Final,
            losers |-> Losers]

Marked(W, L) ==
    [u \in Users |-> IF u \in W THEN "won" ELSE IF u \in L THEN "refunded" ELSE "active"]

Settled == {"charged", "refunded", "opened", "saved", "completed"}

\* How far the job has come in its first run, and what it has written and waited for.
FirstRun ==
    /\ job.pc # "waiting" => job.plan = Planned
    /\ job.pc \in {"waiting", "loaded"} => bid = Marked({}, {})
    /\ job.pc = "won" => bid = Marked(Winners, {})
    /\ job.pc \in Settled => /\ bid = Marked(Winners, Losers)
                             /\ \A u \in Winners : call[ChargeOf[u]].pc = "ok"
    /\ job.pc \in Settled \ {"charged"} => \A u \in Losers : call[RefundOf[u]].pc = "ok"
    /\ nextRound <=> (job.pc \in {"opened", "saved", "completed"} /\ ~Final)
    /\ auction = IF job.pc \in {"saved", "completed"}
                 THEN [status |-> IF Final THEN "completed" ELSE "active", distributed |-> Gifts]
                 ELSE [status |-> "active", distributed |-> 0]

Settling ==
    /\ round = "completed" => ~replicaSet /\ job.pc = "completed"
    /\ job.run \in Nat \ {0}
    /\ ~replicaSet /\ job.run = 1 => FirstRun

\* Without a replica set only the completion charges and refunds, each bid by a call of its own.
FromJob ==
    ~replicaSet => \A c \in Calls : call[c].pc # "idle" =>
        c \in SubCalls \/ Op[c].kind \in {"deposit", "withdrawal"}
OwnRows ==
    ~replicaSet => \A u \in Users : \A r \in AllRows : r.ref = u =>
        /\ r.type = "bid_charge" => r.by = ChargeOf[u]
        /\ r.type = "bid_refund" => r.by = RefundOf[u]

SettleInv == Settling /\ FromJob /\ OwnRows

LEMMA Numbers ==
  /\ WinnersCount \in Nat \ {0} /\ TotalSupply \in Nat \ {0} /\ Gifts \in Nat \ {0}
  /\ Gifts <= TotalSupply /\ TotalSupply - Gifts \in Nat
  BY StandaloneAssumption DEF Gifts, AtMost

LEMMA PlannedIs ==
  ASSUME auction.distributed = 0, ActiveBids = Users
  PROVE  Plan = Planned
  <1> DEFINE left     == IF TotalSupply > auction.distributed THEN TotalSupply - auction.distributed
                         ELSE 0
             burned   == AtMost(WinnersCount, left)
             winners  == First(ActiveBids, burned)
             rest     == ActiveBids \ winners
             complete == lastRound \/ auction.distributed + burned >= TotalSupply
             losers   == IF complete THEN rest ELSE rest \ First(rest, left - burned)
  <1>1. Plan = [winners |-> winners, base |-> auction.distributed, burned |-> burned,
                complete |-> complete, losers |-> losers]
    BY DEF Plan
  <1>2. left = TotalSupply
    BY Numbers
  <1>3. burned = Gifts
    BY <1>2 DEF Gifts
  <1>4. winners = Winners
    BY <1>3 DEF Winners
  <1>5. rest = Others
    BY <1>4 DEF Others
  <1>6. complete <=> Final
    BY <1>3, Numbers DEF Final
  <1>7. losers = Losers
    BY <1>2, <1>3, <1>5, <1>6 DEF Losers
  <1> HIDE DEF left, burned, winners, rest, complete, losers
  <1>8. complete \in BOOLEAN /\ Final \in BOOLEAN
    BY StandaloneAssumption DEF complete, Final
  <1>9. complete = Final
    BY <1>6, <1>8
  <1>10. QED
    BY <1>1, <1>3, <1>4, <1>7, <1>9 DEF Planned

LEMMA FinalRests ==
  ASSUME UNCHANGED lastRound
  PROVE  /\ Final' = Final /\ Losers' = Losers /\ Planned' = Planned
         /\ Winners' = Winners
  BY DEF Final, Losers, Planned, Winners, Others, Gifts

\* What is said of a run that is not the first, or with a replica set.
LEMMA LedgerRests ==
  ASSUME FromJob /\ OwnRows, UNCHANGED <<replicaSet, rows, call>>
  PROVE  FromJob' /\ OwnRows'
  BY DEF FromJob, OwnRows, AllRows

LEMMA CallsSettle ==
  ASSUME IInv, AnswerInv, SettleInv, NEW c \in Calls, Started(c) \/ CallStep(c)
  PROVE  SettleInv'
  <1>1. Turns(c) /\ UNCHANGED roundVars /\ replicaSet' = replicaSet
    BY CallTurns, CallStepShape DEF IInv
  <1>2. UNCHANGED <<lastRound, bid, gift, round, nextRound, auction, job>>
    BY <1>1 DEF roundVars
  <1>3. \A d \in Calls : call[d].pc = "ok" => call'[d].pc = "ok"
    BY <1>1 DEF Turns, Alone, Looks, Passes, Lands, Running
  <1>4. FirstRun => FirstRun'
    <2>1. HAVE FirstRun
    <2>2. \A u \in Users : ChargeOf[u] \in Calls /\ RefundOf[u] \in Calls
      BY CallsOfBids
    <2>3. Winners \in SUBSET Users /\ Losers \in SUBSET Users
      BY DEF Winners, Losers, Others, First
    <2>4. QED
      BY <1>2, <1>3, <2>1, <2>2, <2>3, FinalRests DEF FirstRun, Marked
  <1>5. Settling'
    BY <1>1, <1>2, <1>4 DEF SettleInv, Settling
  <1>6. FromJob'
    <2>1. SUFFICES ASSUME ~replicaSet, NEW d \in Calls, call'[d].pc # "idle"
                   PROVE  d \in SubCalls \/ Op[d].kind \in {"deposit", "withdrawal"}
      BY <1>1 DEF FromJob, SubCalls
    <2>2. CASE call[d].pc # "idle"
      BY <2>1, <2>2 DEF SettleInv, FromJob
    <2>3. CASE call[d].pc = "idle"
      <3>1. d = c
        BY <1>1, <2>1, <2>3 DEF Turns, Alone
      <3>2. ~CallStep(c)
        BY <2>3, <3>1 DEF CallStep, Write, Commit, WriteRefused, UnknownCommit, Save, Insert, Lose,
                          Running
      <3>3. Launched(c) \/ Op[c].kind \in {"deposit", "withdrawal"}
        BY <2>1, <3>2 DEF Started
      <3>4. Plans
        BY <2>1 DEF IInv
      <3>5. QED
        BY <3>1, <3>3, <3>4 DEF Launched, SubCalls, Plans
    <2>4. QED
      BY <2>2, <2>3
  <1>7. OwnRows'
    <2>1. SUFFICES ASSUME ~replicaSet, NEW u \in Users, NEW r \in AllRows', r.ref = u
                   PROVE  /\ r.type = "bid_charge" => r.by = ChargeOf[u]
                          /\ r.type = "bid_refund" => r.by = RefundOf[u]
      BY <1>1 DEF OwnRows
    <2>2. CASE r \in AllRows
      BY <2>1, <2>2 DEF SettleInv, OwnRows
    <2>3. CASE r \notin AllRows
      <3>1. ~(UNCHANGED rows)
        BY <2>3 DEF AllRows
      <3>2. Lands(c)
        BY <1>1, <3>1 DEF Turns, Looks, Passes
      <3>3. PICK at : Inserts(c, at)
        BY <3>2 DEF Lands
      <3>4. Truthful(c) /\ DOMAIN rows = Users
        BY DEF AnswerInv
      <3>5. r = RowOf(c, at)
        <4>1. PICK v \in Users : r \in rows'[v]
          BY DEF AllRows
        <4>2. r \in rows[v] \/ r = RowOf(c, at)
          BY <3>3, <3>4, <4>1, InsertsOne
        <4>3. QED
          BY <2>3, <4>2 DEF AllRows
      <3>6. r.type = Op[c].kind /\ r.ref = Op[c].ref /\ r.by = c
        BY <3>5 DEF RowOf
      <3>7. c \in SubCalls \/ Op[c].kind \in {"deposit", "withdrawal"}
        BY <2>1, <3>2 DEF SettleInv, FromJob, Lands, Running
      <3>8. QED
        BY <2>1, <3>6, <3>7, StandaloneAssumption DEF SubCalls
    <2>4. QED
      BY <2>2, <2>3
  <1>8. QED
    BY <1>5, <1>6, <1>7 DEF SettleInv

\* The completion goes on: nothing of a call changes, and the first run stays what it was.
LEMMA JobSettles ==
  ASSUME IInv, SettleInv, ~replicaSet,
         UNCHANGED <<replicaSet, rows, call, lastRound>>,
         NEW to, job' = [job EXCEPT !.pc = to] \/ (to = job'.pc /\ job'.run = job.run),
         round' = "completed" => to = "completed",
         job.run = 1 => FirstRun'
  PROVE  SettleInv'
  <1>1. job'.pc = to /\ job'.run = job.run
    BY JobWrites DEF IInv
  <1>2. Settling'
    BY <1>1 DEF SettleInv, Settling
  <1>3. QED
    BY <1>2, LedgerRests DEF SettleInv

LEMMA LoadSettles ==
  ASSUME IInv, SettleInv, Load
  PROVE  SettleInv'
  <1>1. /\ ~replicaSet /\ job.pc = "waiting"
        /\ UNCHANGED <<replicaSet, rows, call, lastRound, bid, round, nextRound, auction>>
    BY DEF Load, unchangedLedger, ledgerVars
  <1>2. round # "completed"
    BY <1>1 DEF SettleInv, Settling
  <1>3. job' = [pc |-> "loaded", run |-> job.run, plan |-> Plan]
    <2> DEFINE p == Plan
    <2>1. job' = [job EXCEPT !.pc = "loaded", !.plan = p]
      BY <1>2 DEF Load
    <2>2. job = [pc |-> job.pc, run |-> job.run, plan |-> job.plan]
      BY DEF IInv, Shape
    <2> HIDE DEF p
    <2>3. QED
      BY <2>1, <2>2 DEF p
  <1>4. ASSUME job.run = 1
        PROVE  FirstRun'
    <2>1. FirstRun
      BY <1>1, <1>4 DEF SettleInv, Settling
    <2>2. bid = Marked({}, {}) /\ auction.distributed = 0 /\ ~nextRound
      BY <1>1, <2>1 DEF FirstRun
    <2>3. ActiveBids = Users
      BY <2>2 DEF ActiveBids, Marked
    <2>4. job'.plan = Planned' /\ job'.pc = "loaded"
      BY <1>1, <1>3, <2>2, <2>3, PlannedIs, FinalRests
    <2>5. QED
      BY <1>1, <2>1, <2>4 DEF FirstRun, Marked, Settled
  <1>5. QED
    BY <1>1, <1>2, <1>3, <1>4, JobSettles

\* A step of the first run that is not its loading.
LEMMA StepSettles ==
  ASSUME IInv, SettleInv, ~replicaSet, job.pc # "waiting",
         UNCHANGED <<replicaSet, rows, call, lastRound>>,
         NEW to, job' = [job EXCEPT !.pc = to],
         round' = "completed" => to = "completed",
         FirstRun /\ job.plan = Planned /\ job'.plan = Planned' /\ job'.pc = to => FirstRun'
  PROVE  SettleInv'
  <1>1. job' = [pc |-> to, run |-> job.run, plan |-> job.plan]
    BY JobWrites DEF IInv
  <1>2. ASSUME job.run = 1
        PROVE  FirstRun'
    <2>1. FirstRun /\ job.plan = Planned
      BY <1>2 DEF SettleInv, Settling, FirstRun
    <2>2. QED
      BY <1>1, <2>1, FinalRests
  <1>3. QED
    BY <1>2, JobSettles

LEMMA CompletingSettles ==
  ASSUME IInv, SettleInv, Completing
  PROVE  SettleInv'
  <1>1. CASE Load
    BY <1>1, LoadSettles
  <1>2. CASE MarkWinners
    <2>1. /\ job.pc = "loaded" /\ job' = [job EXCEPT !.pc = "won"] /\ ~replicaSet
          /\ UNCHANGED <<replicaSet, rows, call, lastRound, round, nextRound, auction>>
          /\ bid' = [u \in Users |-> IF u \in job.plan.winners /\ bid[u] = "active"
                                     THEN "won" ELSE bid[u]]
      BY <1>2 DEF IInv, MarkWinners, Step, unchangedLedger, ledgerVars
    <2>2. round # "completed"
      BY <2>1 DEF SettleInv, Settling
    <2>3. ASSUME FirstRun, job.plan = Planned, job'.plan = Planned', job'.pc = "won"
          PROVE  FirstRun'
      <3>1. bid = Marked({}, {}) /\ job.plan.winners = Winners
        BY <2>1, <2>3 DEF FirstRun, Planned
      <3>2. bid' = Marked(Winners, {})
        BY <2>1, <3>1 DEF Marked
      <3>3. QED
        BY <2>1, <2>3, <3>2, FinalRests DEF FirstRun, Marked, Settled
    <2>4. QED
      BY <2>1, <2>2, <2>3, StepSettles
  <1>3. CASE MarkLosers
    <2>1. /\ job.pc = "won" /\ job' = [job EXCEPT !.pc = "charged"] /\ ~replicaSet
          /\ UNCHANGED <<replicaSet, rows, call, lastRound, round, nextRound, auction>>
          /\ bid' = [u \in Users |-> IF u \in job.plan.losers /\ bid[u] = "active"
                                     THEN "refunded" ELSE bid[u]]
          /\ \A u \in job.plan.winners : call[ChargeOf[u]].pc = "ok"
      BY <1>3 DEF IInv, MarkLosers, Step, unchangedLedger, ledgerVars
    <2>2. round # "completed"
      BY <2>1 DEF SettleInv, Settling
    <2>3. ASSUME FirstRun, job.plan = Planned, job'.plan = Planned', job'.pc = "charged"
          PROVE  FirstRun'
      <3>1. bid = Marked(Winners, {}) /\ job.plan.losers = Losers /\ job.plan.winners = Winners
        BY <2>1, <2>3 DEF FirstRun, Planned
      <3>2. bid' = Marked(Winners, Losers)
        BY <2>1, <3>1 DEF Marked
      <3>3. QED
        BY <2>1, <2>3, <3>1, <3>2, FinalRests DEF FirstRun, Marked, Settled
    <2>4. QED
      BY <2>1, <2>2, <2>3, StepSettles
  <1>4. CASE AwaitRefunds
    <2>1. /\ job.pc = "charged" /\ job' = [job EXCEPT !.pc = "refunded"] /\ ~replicaSet
          /\ UNCHANGED <<replicaSet, rows, call, lastRound, bid, round, nextRound, auction>>
          /\ \A u \in job.plan.losers : call[RefundOf[u]].pc = "ok"
      BY <1>4 DEF IInv, AwaitRefunds, Step, unchangedLedger, ledgerVars
    <2>2. round # "completed"
      BY <2>1 DEF SettleInv, Settling
    <2>3. ASSUME FirstRun, job.plan = Planned, job'.plan = Planned', job'.pc = "refunded"
          PROVE  FirstRun'
      <3>1. job.plan.losers = Losers
        BY <2>3 DEF Planned
      <3>2. QED
        BY <2>1, <2>3, <3>1, FinalRests DEF FirstRun, Marked, Settled
    <2>4. QED
      BY <2>1, <2>2, <2>3, StepSettles
  <1>5. CASE OpenNextRound
    <2> DEFINE to == IF ~job.plan.complete /\ nextRound THEN "failed" ELSE "opened"
    <2>1. /\ job.pc = "refunded" /\ job' = [job EXCEPT !.pc = to] /\ ~replicaSet
          /\ UNCHANGED <<replicaSet, rows, call, lastRound, bid, round, auction>>
          /\ nextRound' = (nextRound \/ ~job.plan.complete)
      BY <1>5 DEF IInv, OpenNextRound, unchangedLedger, ledgerVars
    <2>2. round # "completed"
      BY <2>1 DEF SettleInv, Settling
    <2>3. ASSUME FirstRun, job.plan = Planned, job'.plan = Planned', job'.pc = to
          PROVE  FirstRun'
      <3>1. job.plan.complete = Final /\ ~nextRound
        BY <2>1, <2>3 DEF FirstRun, Planned
      <3>2. to = "opened" /\ (nextRound' <=> ~Final')
        BY <2>1, <3>1, FinalRests
      <3>3. /\ bid' = Marked(Winners', Losers')
            /\ \A u \in Winners' : call'[ChargeOf[u]].pc = "ok"
            /\ \A u \in Losers' : call'[RefundOf[u]].pc = "ok"
        BY <2>1, <2>3, FinalRests DEF FirstRun, Settled
      <3>4. auction' = [status |-> "active", distributed |-> 0]
        BY <2>1, <2>3 DEF FirstRun
      <3>5. QED
        BY <2>3, <3>2, <3>3, <3>4 DEF FirstRun, Marked, Settled
    <2> HIDE DEF to
    <2>4. QED
      BY <2>1, <2>2, <2>3, StepSettles
  <1>6. CASE SaveAuction
    <2>1. /\ job.pc = "opened" /\ job' = [job EXCEPT !.pc = "saved"] /\ ~replicaSet
          /\ UNCHANGED <<replicaSet, rows, call, lastRound, bid, round, nextRound>>
          /\ auction' = [status |-> IF job.plan.complete THEN "completed" ELSE auction.status,
                         distributed |-> job.plan.base + job.plan.burned]
      BY <1>6 DEF IInv, SaveAuction, Step, unchangedLedger, ledgerVars
    <2>2. round # "completed"
      BY <2>1 DEF SettleInv, Settling
    <2>3. ASSUME FirstRun, job.plan = Planned, job'.plan = Planned', job'.pc = "saved"
          PROVE  FirstRun'
      <3>1. /\ job.plan.complete = Final /\ job.plan.base = 0 /\ job.plan.burned = Gifts
            /\ auction.status = "active"
        BY <2>1, <2>3 DEF FirstRun, Planned
      <3>2. auction' = [status |-> IF Final THEN "completed" ELSE "active",
                        distributed |-> Gifts]
        BY <2>1, <3>1, Numbers
      <3>3. auction' = [status |-> IF Final' THEN "completed" ELSE "active",
                        distributed |-> Gifts]
        BY <2>1, <3>2, FinalRests
      <3>4. /\ bid' = Marked(Winners', Losers')
            /\ \A u \in Winners' : call'[ChargeOf[u]].pc = "ok"
            /\ \A u \in Losers' : call'[RefundOf[u]].pc = "ok"
        BY <2>1, <2>3, FinalRests DEF FirstRun, Settled
      <3>5. nextRound' <=> ~Final'
        BY <2>1, <2>3, FinalRests DEF FirstRun
      <3>6. QED
        BY <2>3, <3>3, <3>4, <3>5 DEF FirstRun, Marked, Settled, Gifts
    <2>4. QED
      BY <2>1, <2>2, <2>3, StepSettles
  <1>7. CASE SaveRound
    <2>1. /\ job.pc = "saved" /\ job' = [job EXCEPT !.pc = "completed"] /\ ~replicaSet
          /\ UNCHANGED <<replicaSet, rows, call, lastRound, bid, nextRound, auction>>
      BY <1>7 DEF IInv, SaveRound, Step, unchangedLedger, ledgerVars
    <2>2. ASSUME FirstRun, job.plan = Planned, job'.plan = Planned', job'.pc = "completed"
          PROVE  FirstRun'
      BY <2>1, <2>2, FinalRests DEF FirstRun, Marked, Settled
    <2>3. QED
      BY <2>1, <2>2, StepSettles
  <1>8. QED
    BY <1>1, <1>2, <1>3, <1>4, <1>5, <1>6, <1>7 DEF Completing

\* From now on the run is not the first.
LEMMA WorkerDiesSettles ==
  ASSUME SettleInv, WorkerDies
  PROVE  SettleInv'
  <1>1. /\ ~replicaSet /\ job.pc # "completed"
        /\ job' = [pc |-> "waiting", run |-> job.run + 1, plan |-> NoPlan]
        /\ UNCHANGED <<replicaSet, rows, round>>
        /\ call' = [c \in Calls |-> IF c \in SubCalls /\ call[c].pc \in Running
                                    THEN [call[c] EXCEPT !.pc = "lost"] ELSE call[c]]
    BY DEF WorkerDies
  <1>2. Settling'
    BY <1>1 DEF SettleInv, Settling
  <1>3. FromJob'
    <2>1. SUFFICES ASSUME NEW c \in Calls, call'[c].pc # "idle"
                   PROVE  c \in SubCalls \/ Op[c].kind \in {"deposit", "withdrawal"}
      BY <1>1 DEF FromJob, SubCalls
    <2>2. c \in SubCalls \/ call'[c] = call[c]
      BY <1>1
    <2>3. QED
      BY <1>1, <2>1, <2>2 DEF SettleInv, FromJob
  <1>4. OwnRows'
    BY <1>1 DEF SettleInv, OwnRows, AllRows
  <1>5. QED
    BY <1>2, <1>3, <1>4 DEF SettleInv

LEMMA SettleInit == Init => SettleInv
  <1> SUFFICES ASSUME Init PROVE SettleInv
    OBVIOUS
  <1>1. job = [pc |-> "waiting", run |-> 1, plan |-> NoPlan]
    BY DEF Init
  <1>2. FirstRun
    BY <1>1 DEF Init, FirstRun, Marked, Settled
  <1>3. Settling
    BY <1>1, <1>2 DEF Init, Settling
  <1>4. FromJob
    BY DEF Init, FromJob, Idle
  <1>5. OwnRows
    <2>1. \A v \in Users : rows[v] = Opening[v].rows
      BY DEF Init
    <2>2. \A r \in AllRows : r.type \in {"bid_charge", "bid_refund"} => r.ref \notin Users
      BY <2>1, StandaloneAssumption DEF AllRows
    <2>3. QED
      BY <2>2 DEF OwnRows
  <1>6. QED
    BY <1>3, <1>4, <1>5 DEF SettleInv

LEMMA SettleNext == IInv /\ AnswerInv /\ SettleInv /\ [Next]_vars => SettleInv'
  <1> SUFFICES ASSUME IInv, AnswerInv, SettleInv, [Next]_vars PROVE SettleInv'
    OBVIOUS
  <1>1. CASE \E c \in Calls : Started(c) \/ CallStep(c)
    BY <1>1, CallsSettle
  <1>2. UNCHANGED <<replicaSet, rows, call, lastRound, bid, round, nextRound, auction, job>>
        => SettleInv'
    <2>1. HAVE UNCHANGED <<replicaSet, rows, call, lastRound, bid, round, nextRound, auction, job>>
    <2>2. FirstRun => FirstRun'
      BY <2>1, FinalRests DEF FirstRun, Marked
    <2>3. Settling'
      BY <2>1, <2>2 DEF SettleInv, Settling
    <2>4. QED
      BY <2>1, <2>3, LedgerRests DEF SettleInv
  <1>3. CASE \E u \in Users : Auditing(u)
    BY <1>2, <1>3 DEF Auditing, AuditReadsUser, AuditReadsRows, roundVars
  <1>4. CASE Completing
    BY <1>4, CompletingSettles
  <1>5. CASE WorkerDies
    BY <1>5, WorkerDiesSettles
  <1>6. CASE UNCHANGED vars
    BY <1>2, <1>6 DEF vars, ledgerVars
  <1>7. QED
    BY <1>1, <1>3, <1>4, <1>5, <1>6 DEF Next

\* The inductive invariant: what the job has written in its first run, at each of its steps.
THEOREM SettleInductive == Spec => []SettleInv
  BY Invariance, AnswersInductive, SettleInit, SettleNext, PTL DEF Spec

\* A call that is answered "ok" and can have one row only has it, if nobody else writes its
\* reference.
LEMMA HasItsRow ==
  ASSUME AnswerInv, NEW c \in Calls, Op[c].ref \in Users, call[c].pc = "ok",
         \A r \in AllRows : r.type = Op[c].kind /\ r.ref = Op[c].ref => r.by = c
  PROVE  Written(c) = 1
  <1>1. Truthful(c)
    BY DEF AnswerInv
  <1>2. Op[c].ref # NoRef
    BY StandaloneAssumption, LedgerAssumption
  <1>3. Written(c) \in Nat /\ Written(c) <= 1 /\ Written(c) = Cardinality(By(c))
        /\ IsFiniteSet(By(c))
    BY <1>1, <1>2, WrittenCounts DEF Truthful, Once
  <1>4. HasTransaction(c) => By(c) # {}
    BY UserOf DEF HasTransaction, By, AllRows
  <1>5. Written(c) >= 1 \/ By(c) # {}
    BY <1>1, <1>4 DEF Truthful
  <1>6. Written(c) # 0
    BY <1>3, <1>5, FS_EmptySet
  <1>7. QED
    BY <1>3, <1>6

\* As many active bids remain as there are gifts for, and all that could win if there are
\* gifts for all.
LEMMA RemainCounts ==
  ASSUME ~Final
  PROVE  /\ Cardinality(Others \ Losers) \in Nat
         /\ Cardinality(Others \ Losers) <= TotalSupply - Gifts
         /\ Cardinality(Users) <= TotalSupply => Losers = {}
  <1> DEFINE n == TotalSupply - Gifts
             F == First(Others, n)
  <1>1. n \in Nat /\ Gifts \in Nat /\ Gifts <= TotalSupply /\ TotalSupply \in Nat
    BY Numbers
  <1>2. Others \in SUBSET Users /\ Losers = Others \ F /\ F \in SUBSET Others
    BY DEF Others, Losers, First
  <1> HIDE DEF n, F
  <1>3. Others \ Losers = F
    BY <1>2
  <1>4. Cardinality(F) \in Nat /\ Cardinality(F) <= n
    BY <1>1, <1>2, FirstAtMost DEF F
  <1>5. ASSUME Cardinality(Users) <= TotalSupply
        PROVE  Losers = {}
    <2>1. CASE Winners = Users
      BY <1>2, <2>1 DEF Others
    <2>2. CASE Winners # Users
      <3>1. /\ Winners \in SUBSET Users /\ IsFiniteSet(Winners)
            /\ Cardinality(Winners) = Gifts
        BY <1>1, <2>2, FirstAtMost, FirstAtLeast DEF Winners
      <3>2. IsFiniteSet(Users) /\ Cardinality(Users) \in Nat
        BY StandaloneAssumption, FS_CardinalityType
      <3>3. Cardinality(Others) = Cardinality(Users) - Cardinality(Users \cap Winners)
        BY <3>2, FS_Difference DEF Others
      <3>4. Users \cap Winners = Winners
        BY <3>1
      <3>5. Cardinality(Others) <= n
        BY <1>1, <1>5, <3>1, <3>2, <3>3, <3>4 DEF n
      <3>6. F = Others
        BY <1>1, <1>2, <3>5, FirstAll DEF F
      <3>7. QED
        BY <1>2, <3>6
    <2>3. QED
      BY <2>1, <2>2
  <1>6. QED
    BY <1>3, <1>4, <1>5 DEF n

\* A completion without transactions that nobody interrupts does what the transaction would
\* have done: the right bids win and are charged once, the others that have no gift left are
\* paid back once, and the gifts, the next round and the end of the auction follow
\* (rounds.processor.ts completeRoundWithoutTransaction).
THEOREM Settles == Spec => []UninterruptedSettles
  <1>1. IInv /\ AnswerInv /\ SettleInv => UninterruptedSettles
    <2> SUFFICES ASSUME IInv, AnswerInv, SettleInv, round = "completed", job.run = 1
                 PROVE  LET gifts == AtMost(WinnersCount, TotalSupply)
                        IN  /\ Cardinality(Won) = AtMost(gifts, Cardinality(Users))
                            /\ \A u \in Won : \A v \in Users \ Won : Rank[u] < Rank[v]
                            /\ \A u \in Users : /\ bid[u] = "won" <=> Written(ChargeOf[u]) = 1
                                                /\ bid[u] = "refunded" <=> Written(RefundOf[u]) = 1
                            /\ auction.distributed = gifts
                            /\ auction.status = "completed" <=> ~nextRound
                            /\ Cardinality(ActiveBids) <= IF nextRound THEN TotalSupply - gifts ELSE 0
                            /\ nextRound /\ Cardinality(Users) <= TotalSupply =>
                                  \A u \in Users : bid[u] # "refunded"
      BY DEF UninterruptedSettles
    <2>1. /\ ~replicaSet /\ job.pc = "completed" /\ FirstRun
          /\ Charges /\ Refunds /\ OwnRows
      BY DEF SettleInv, Settling, IInv
    <2>2. /\ bid = Marked(Winners, Losers) /\ (nextRound <=> ~Final)
          /\ \A u \in Winners : call[ChargeOf[u]].pc = "ok"
          /\ \A u \in Losers : call[RefundOf[u]].pc = "ok"
          /\ auction = [status |-> IF Final THEN "completed" ELSE "active", distributed |-> Gifts]
      BY <2>1 DEF FirstRun, Settled
    <2>3. Winners \in SUBSET Users /\ Losers \in SUBSET Others /\ Others = Users \ Winners
      BY DEF Winners, Losers, Others, First
    <2>4. Won = Winners /\ ActiveBids = Others \ Losers
      BY <2>2, <2>3 DEF Won, ActiveBids, Marked
    <2>5. Cardinality(Won) = AtMost(Gifts, Cardinality(Users))
      BY <2>4, FirstCounts, Numbers DEF Winners
    <2>6. \A u \in Won : \A v \in Users \ Won : Rank[u] < Rank[v]
      BY <2>4, FirstAhead, Numbers DEF Winners
    <2>7. ASSUME NEW u \in Users
          PROVE  /\ bid[u] = "won" <=> Written(ChargeOf[u]) = 1
                 /\ bid[u] = "refunded" <=> Written(RefundOf[u]) = 1
      <3>1. /\ ChargeOf[u] \in Calls /\ RefundOf[u] \in Calls
            /\ Op[ChargeOf[u]].kind = "bid_charge" /\ Op[ChargeOf[u]].ref = u
            /\ Op[RefundOf[u]].kind = "bid_refund" /\ Op[RefundOf[u]].ref = u
        BY StandaloneAssumption
      <3>2. \A c \in Calls : Written(c) = 1 => HasRow(c)
        <4>1. SUFFICES ASSUME NEW c \in Calls, ~HasRow(c)
                       PROVE  Written(c) = 0
          OBVIOUS
        <4>2. {r \in AllRows : r.by = c} = {}
          BY <4>1 DEF HasRow
        <4>3. QED
          BY <4>2, FS_EmptySet DEF Written
      <3>3. Written(ChargeOf[u]) = 1 => bid[u] = "won"
        BY <2>1, <3>1, <3>2 DEF Charges
      <3>4. Written(RefundOf[u]) = 1 => bid[u] = "refunded"
        BY <2>1, <3>1, <3>2 DEF Refunds
      <3>5. ASSUME bid[u] = "won" PROVE Written(ChargeOf[u]) = 1
        <4>1. call[ChargeOf[u]].pc = "ok"
          BY <2>2, <2>4, <3>5 DEF Won
        <4>2. \A r \in AllRows : r.type = "bid_charge" /\ r.ref = u => r.by = ChargeOf[u]
          BY <2>1 DEF OwnRows
        <4>3. QED
          BY <3>1, <4>1, <4>2, HasItsRow
      <3>6. ASSUME bid[u] = "refunded" PROVE Written(RefundOf[u]) = 1
        <4>1. u \in Losers
          BY <2>2, <3>6 DEF Marked
        <4>2. call[RefundOf[u]].pc = "ok"
          BY <2>2, <4>1
        <4>3. \A r \in AllRows : r.type = "bid_refund" /\ r.ref = u => r.by = RefundOf[u]
          BY <2>1 DEF OwnRows
        <4>4. QED
          BY <3>1, <4>2, <4>3, HasItsRow
      <3>7. QED
        BY <3>3, <3>4, <3>5, <3>6
    <2>8. /\ auction.distributed = Gifts
          /\ auction.status = "completed" <=> ~nextRound
      BY <2>2
    <2>9. Cardinality(ActiveBids) <= IF nextRound THEN TotalSupply - Gifts ELSE 0
      <3>1. CASE Final
        <4>1. ActiveBids = {}
          BY <2>4, <3>1 DEF Losers
        <4>2. QED
          BY <2>2, <3>1, <4>1, FS_EmptySet
      <3>2. CASE ~Final
        BY <2>2, <2>4, <3>2, RemainCounts
      <3>3. QED
        BY <3>1, <3>2
    <2>10. nextRound /\ Cardinality(Users) <= TotalSupply => \A u \in Users : bid[u] # "refunded"
      <3>1. HAVE nextRound /\ Cardinality(Users) <= TotalSupply
      <3>2. Losers = {}
        BY <2>2, <3>1, RemainCounts
      <3>3. QED
        BY <2>2, <3>2 DEF Marked
    <2>11. QED
      BY <2>5, <2>6, <2>7, <2>8, <2>9, <2>10 DEF Gifts
  <1>2. QED
    BY <1>1, Invariance, AnswersInductive, SettleInductive, PTL

-----------------------------------------------------------------------------
(* What a set of rows adds up to.  Total is a fold, which is a function of the subsets *)
(* that refers to itself; that there is one, and only one, is shown here first, each   *)
(* time by the least number of rows for which it would not be so.                      *)

Row(r) == r.type \in RowTypes /\ r.amount \in Nat
Worth(r) == Delta(r.type, r.amount)
Some(S) == CHOOSE x \in S : TRUE

\* g adds up the subsets of S, row by row.
Sums(g, S) == \A s \in SUBSET S : g[s] = IF s = {} THEN 0 ELSE g[s \ {Some(s)}] + Worth(Some(s))
Adds(g, S) == g \in [SUBSET S -> Int] /\ Sums(g, S)

\* ... that have n rows at most.
AddsTo(g, S, n) ==
    /\ g \in [SUBSET S -> Int]
    /\ \A s \in SUBSET S : Cardinality(s) <= n =>
          g[s] = IF s = {} THEN 0 ELSE g[s \ {Some(s)}] + Worth(Some(s))

Rows(S) == IsFiniteSet(S) /\ \A r \in S : Row(r)

LEMMA WorthIs ==
  ASSUME NEW r, Row(r)
  PROVE  Worth(r) \in Int
  BY DEF Row, Worth, Delta, RowTypes

LEMMA SubRows ==
  ASSUME NEW S, Rows(S), NEW s \in SUBSET S
  PROVE  /\ Rows(s) /\ IsFiniteSet(s) /\ Cardinality(s) \in Nat /\ Cardinality(s) <= Cardinality(S)
         /\ s = {} <=> Cardinality(s) = 0
         /\ \A x \in s : /\ s \ {x} \in SUBSET S /\ Cardinality(s \ {x}) = Cardinality(s) - 1
                         /\ Worth(x) \in Int
         /\ s # {} => Some(s) \in s
  <1>1. IsFiniteSet(s) /\ Cardinality(s) \in Nat /\ Cardinality(s) <= Cardinality(S)
    BY FS_Subset, FS_CardinalityType DEF Rows
  <1>2. s = {} <=> Cardinality(s) = 0
    BY <1>1, FS_EmptySet
  <1>3. ASSUME NEW x \in s
        PROVE  /\ s \ {x} \in SUBSET S /\ Cardinality(s \ {x}) = Cardinality(s) - 1
               /\ Worth(x) \in Int
    BY <1>1, FS_RemoveElement, WorthIs DEF Rows
  <1>4. s # {} => Some(s) \in s
    BY DEF Some
  <1>5. QED
    BY <1>1, <1>2, <1>3, <1>4 DEF Rows

\* What is left when some row is taken.
LEMMA OneLess ==
  ASSUME NEW S, Rows(S), NEW s \in SUBSET S, s # {}
  PROVE  /\ s \ {Some(s)} \in SUBSET S /\ Some(s) \in s /\ Worth(Some(s)) \in Int
         /\ Cardinality(s) \in Nat /\ Cardinality(s \ {Some(s)}) = Cardinality(s) - 1
         /\ Cardinality(s \ {Some(s)}) \in Nat
  <1>1. Some(s) \in s
    BY SubRows
  <1>2. s \ {Some(s)} \in SUBSET S
    OBVIOUS
  <1>3. Cardinality(s \ {Some(s)}) = Cardinality(s) - 1 /\ Worth(Some(s)) \in Int
    BY <1>1, SubRows
  <1>4. Cardinality(s) \in Nat /\ Cardinality(s \ {Some(s)}) \in Nat
    BY <1>2, SubRows
  <1>5. QED
    BY <1>1, <1>2, <1>3, <1>4

LEMMA AddsExist ==
  ASSUME NEW S, Rows(S)
  PROVE  \E g : Adds(g, S)
  <1> DEFINE T == {n \in Nat : ~ \E g : AddsTo(g, S, n)}
  <1>1. T = {}
    <2>1. SUFFICES ASSUME T # {}
                   PROVE  FALSE
      OBVIOUS
    <2>2. PICK m \in T : \A k \in T : m <= k
      BY <2>1, HasLeast
    <2> HIDE DEF T
    <2>3. m \in Nat /\ ~ \E g : AddsTo(g, S, m)
      BY DEF T
    <2>4. m # 0
      <3>1. SUFFICES ASSUME m = 0
                     PROVE  FALSE
        OBVIOUS
      <3> DEFINE z == [s \in SUBSET S |-> 0]
      <3>2. \A s \in SUBSET S : Cardinality(s) <= 0 => s = {}
        BY SubRows
      <3>3. AddsTo(z, S, 0)
        BY <3>2 DEF AddsTo
      <3>4. QED
        BY <2>3, <3>1, <3>3
    <2>5. m - 1 \in Nat /\ m - 1 \notin T
      BY <2>2, <2>3, <2>4
    <2>6. PICK g : AddsTo(g, S, m - 1)
      BY <2>5 DEF T
    <2> DEFINE h == [s \in SUBSET S |-> IF s = {} THEN 0 ELSE g[s \ {Some(s)}] + Worth(Some(s))]
    <2>7. ASSUME NEW s \in SUBSET S, s # {}
          PROVE  g[s \ {Some(s)}] + Worth(Some(s)) \in Int
      <3>1. s \ {Some(s)} \in SUBSET S /\ Worth(Some(s)) \in Int
        BY <2>7, OneLess
      <3>2. g[s \ {Some(s)}] \in Int
        BY <2>6, <3>1 DEF AddsTo
      <3>3. QED
        BY <3>1, <3>2
    <2>8. h \in [SUBSET S -> Int]
      BY <2>7
    <2>9. \A s \in SUBSET S : Cardinality(s) <= m - 1 => h[s] = g[s]
      BY <2>6 DEF AddsTo
    <2>10. ASSUME NEW s \in SUBSET S, Cardinality(s) <= m, s # {}
           PROVE  h[s] = h[s \ {Some(s)}] + Worth(Some(s))
      <3> DEFINE t == s \ {Some(s)}
      <3>1. /\ t \in SUBSET S /\ Cardinality(t) = Cardinality(s) - 1
            /\ Cardinality(s) \in Nat
        BY <2>10, OneLess
      <3>2. h[t] = g[t]
        <4>1. Cardinality(t) <= m - 1
          BY <2>3, <2>10, <3>1
        <4>2. QED
          BY <2>9, <3>1, <4>1
      <3>3. QED
        BY <2>10, <3>2
    <2>11. h[{}] = 0
      OBVIOUS
    <2> HIDE DEF h
    <2>12. AddsTo(h, S, m)
      BY <2>8, <2>10, <2>11 DEF AddsTo
    <2>13. QED
      BY <2>3, <2>12
  <1>2. Cardinality(S) \in Nat
    BY FS_CardinalityType DEF Rows
  <1>3. PICK g : AddsTo(g, S, Cardinality(S))
    BY <1>1, <1>2
  <1>4. Adds(g, S)
    BY <1>3, SubRows DEF AddsTo, Adds, Sums
  <1>5. QED
    BY <1>4

\* Two functions that add up subsets agree where both do.
LEMMA AddsAgree ==
  ASSUME NEW S, Rows(S), NEW g, Adds(g, S),
         NEW h, NEW R \in SUBSET S, Sums(h, R)
  PROVE  \A s \in SUBSET R : h[s] = g[s]
  <1> DEFINE T == {n \in Nat : \E s \in SUBSET R : Cardinality(s) = n /\ h[s] # g[s]}
  <1>1. SUFFICES ASSUME NEW s \in SUBSET R, h[s] # g[s]
                 PROVE  FALSE
    OBVIOUS
  <1>2. Cardinality(s) \in T
    BY <1>1, SubRows
  <1>3. PICK m \in T : \A k \in T : m <= k
    BY <1>2, HasLeast
  <1>4. PICK t \in SUBSET R : Cardinality(t) = m /\ h[t] # g[t]
    BY <1>3
  <1>40. m \in Nat
    BY <1>3
  <1>41. \A r \in SUBSET R : Cardinality(r) \in Nat /\ Cardinality(r) \notin T => h[r] = g[r]
    OBVIOUS
  <1> HIDE DEF T
  <1>5. t # {}
    BY <1>4 DEF Adds, Sums
  <1>6. /\ t \ {Some(t)} \in SUBSET R /\ Cardinality(t \ {Some(t)}) = m - 1
        /\ Cardinality(t \ {Some(t)}) \in Nat
    BY <1>4, <1>5, OneLess
  <1>7. Cardinality(t \ {Some(t)}) \notin T
    <2>1. SUFFICES ASSUME Cardinality(t \ {Some(t)}) \in T
                   PROVE  FALSE
      OBVIOUS
    <2>2. m <= Cardinality(t \ {Some(t)})
      BY <1>3, <2>1
    <2>3. QED
      BY <1>6, <1>40, <2>2
  <1>8. h[t \ {Some(t)}] = g[t \ {Some(t)}]
    BY <1>6, <1>7, <1>41
  <1>9. QED
    <2>1. g[t] = g[t \ {Some(t)}] + Worth(Some(t))
      BY <1>5 DEF Adds, Sums
    <2>2. h[t] = h[t \ {Some(t)}] + Worth(Some(t))
      BY <1>5 DEF Sums
    <2>3. QED
      BY <1>4, <1>8, <2>1, <2>2

LEMMA TotalIs ==
  ASSUME NEW S, Rows(S), NEW g, Adds(g, S), NEW R \in SUBSET S
  PROVE  Total(R) = g[R] /\ Total(R) \in Int
  <1> DEFINE F(f) == [s \in SUBSET R |-> IF s = {} THEN 0 ELSE f[s \ {Some(s)}] + Worth(Some(s))]
             h == CHOOSE f : f = F(f)
             k == [s \in SUBSET R |-> g[s]]
  <1>1. Total(R) = h[R]
    BY DEF Total, FoldSet, MapThenFoldSet, Some, Worth
  <1>2. k = F(k)
    <2>1. ASSUME NEW s \in SUBSET R
          PROVE  k[s] = IF s = {} THEN 0 ELSE k[s \ {Some(s)}] + Worth(Some(s))
      <3>1. s \ {Some(s)} \in SUBSET R
        OBVIOUS
      <3>2. QED
        BY <3>1 DEF Adds, Sums
    <2>2. QED
      BY <2>1
  <1>3. h = F(h)
    BY <1>2
  <1> HIDE DEF h, k
  <1>4. Sums(h, R)
    BY <1>3 DEF Sums
  <1>5. \A s \in SUBSET R : h[s] = g[s]
    BY <1>4, AddsAgree
  <1>6. QED
    BY <1>1, <1>5 DEF Adds, Sums

LEMMA TotalEmpty == Total({}) = 0
  <1>1. Rows({})
    BY FS_EmptySet DEF Rows
  <1>2. PICK g : Adds(g, {})
    BY <1>1, AddsExist
  <1>3. QED
    BY <1>1, <1>2, TotalIs DEF Adds, Sums

\* A row counts once, in whatever order the rows are added up.
LEMMA TotalRemoves ==
  ASSUME NEW S, Rows(S), NEW x \in S
  PROVE  /\ Total(S) = Total(S \ {x}) + Worth(x)
         /\ Total(S) \in Int /\ Total(S \ {x}) \in Int /\ Worth(x) \in Int
  <1>1. PICK g : Adds(g, S)
    BY AddsExist
  <1> DEFINE T == {n \in Nat : \E s \in SUBSET S : \E y \in s :
                                  Cardinality(s) = n /\ g[s] # g[s \ {y}] + Worth(y)}
  <1>2. T = {}
    <2>1. SUFFICES ASSUME T # {}
                   PROVE  FALSE
      OBVIOUS
    <2>2. PICK m \in T : \A k \in T : m <= k
      BY <2>1, HasLeast
    <2>30. PICK s \in SUBSET S : \E y \in s : Cardinality(s) = m /\ g[s] # g[s \ {y}] + Worth(y)
      BY <2>2
    <2>3. PICK y \in s : Cardinality(s) = m /\ g[s] # g[s \ {y}] + Worth(y)
      BY <2>30
    <2> DEFINE c == Some(s)
    <2>4. /\ c \in s /\ c # y /\ g[s] = g[s \ {c}] + Worth(c)
          /\ m \in Nat
      BY <1>1, <2>2, <2>3, SubRows DEF Adds, Sums
    <2> HIDE DEF c
    <2>5. /\ s \ {c} \in SUBSET S /\ y \in s \ {c} /\ Cardinality(s \ {c}) = m - 1
          /\ s \ {y} \in SUBSET S /\ c \in s \ {y} /\ Cardinality(s \ {y}) = m - 1
          /\ Cardinality(s \ {c}) \in Nat /\ Worth(c) \in Int /\ Worth(y) \in Int
      BY <2>3, <2>4, SubRows
    <2>6. m - 1 \in Nat /\ m - 1 \notin T
      <3>1. m - 1 \in Nat
        BY <2>5
      <3>2. SUFFICES ASSUME m - 1 \in T
                     PROVE  FALSE
        BY <3>1
      <3>3. m <= m - 1
        BY <2>2, <3>2
      <3>4. QED
        BY <2>4, <3>3
    <2>7. g[s \ {c}] = g[(s \ {c}) \ {y}] + Worth(y)
      BY <2>5, <2>6
    <2>8. g[s \ {y}] = g[(s \ {y}) \ {c}] + Worth(c)
      BY <2>5, <2>6
    <2>9. (s \ {c}) \ {y} = (s \ {y}) \ {c} /\ (s \ {c}) \ {y} \in SUBSET S
      BY <2>5
    <2>10. /\ g[(s \ {c}) \ {y}] \in Int /\ g[(s \ {y}) \ {c}] = g[(s \ {c}) \ {y}]
           /\ Worth(c) \in Int /\ Worth(y) \in Int
      BY <1>1, <2>5, <2>9 DEF Adds
    <2>11. g[s] = g[s \ {y}] + Worth(y)
      BY <2>4, <2>7, <2>8, <2>10
    <2>12. QED
      BY <2>3, <2>11
  <1>3. Cardinality(S) \in Nat
    BY FS_CardinalityType DEF Rows
  <1>4. g[S] = g[S \ {x}] + Worth(x)
    BY <1>2, <1>3
  <1>5. QED
    BY <1>1, <1>4, TotalIs, WorthIs DEF Rows

LEMMA TotalAdds ==
  ASSUME NEW S, Rows(S), NEW x, Row(x), x \notin S
  PROVE  /\ Rows(S \union {x}) /\ Total(S \union {x}) = Total(S) + Worth(x)
         /\ Total(S) \in Int /\ Worth(x) \in Int
  <1>1. Rows(S \union {x})
    BY FS_AddElement DEF Rows
  <1>2. (S \union {x}) \ {x} = S
    OBVIOUS
  <1>3. QED
    BY <1>1, <1>2, TotalRemoves

LEMMA TotalIsInt ==
  ASSUME NEW S, Rows(S)
  PROVE  Total(S) \in Int
  BY AddsExist, TotalIs

-----------------------------------------------------------------------------
(* Standalone: the balances.  Each is what its rows add up to and, without a replica set, *)
(* what has been saved and awaits its row.                                               *)

Saved(u) == {c \in Calls : Op[c].user = u /\ call[c].pc = "saved"}
Owed(c) == [type |-> Op[c].kind, amount |-> Op[c].amount, by |-> c]
Pend(u) == {Owed(c) : c \in Saved(u)}

Stamped ==
    /\ balance = [u \in Users |-> balance[u]]
    /\ version \in [Users -> Nat] /\ clock \in [Users -> Nat]
    /\ \A u \in Users : /\ Rows(rows[u])
                        /\ \A r \in rows[u] : r.at \in Nat /\ r.at <= clock[u]
    /\ lost \in Nat

\* The row of an open transaction has a createdAt of its own.
Fresh(c) ==
    call[c].pc = "written" =>
        /\ call[c].at \in Nat /\ call[c].at <= clock[Op[c].user]
        /\ \A r \in rows[Op[c].user] : r.at # call[c].at
        /\ \A d \in Calls \ {c} : call[d].pc = "written" /\ Op[d].user = Op[c].user =>
              call[d].at # call[c].at

\* A document that was not written since is still as it was read, and only one transaction
\* at a time has written it.
Seen(c) ==
    /\ call[c].pc \in {"read", "written"} =>
          /\ call[c].seen \in Nat /\ call[c].seen <= version[Op[c].user]
          /\ call[c].seen = version[Op[c].user] => call[c].snap = balance[Op[c].user]
    /\ call[c].pc = "written" /\ WritesUser(c) =>
          /\ call[c].seen = version[Op[c].user]
          /\ \A d \in Calls \ {c} : call[d].pc = "written" /\ WritesUser(d) =>
                Op[d].user # Op[c].user

Mode(c) ==
    /\ call[c].pc = "written" => replicaSet
    /\ call[c].pc = "saved" => ~replicaSet /\ WritesUser(c)

Fair(c) == Fresh(c) /\ Seen(c) /\ Mode(c)

Even(u) == IsFiniteSet(Pend(u)) /\ balance[u] = Total(rows[u]) + Total(Pend(u))
Money == replicaSet \/ Undisturbed => \A u \in Users : Even(u)

BalanceInv == Stamped /\ (\A c \in Calls : Fair(c)) /\ Money

LEMMA WorthOfCall ==
  ASSUME NEW c \in Calls, NEW at
  PROVE  /\ Row(Owed(c)) /\ Worth(Owed(c)) = Change(c) /\ Change(c) \in Int
         /\ Row(RowOf(c, at)) /\ Worth(RowOf(c, at)) = Change(c) /\ RowOf(c, at).at = at
         /\ ~WritesUser(c) => Change(c) = 0
  <1>1. /\ Owed(c).type = Op[c].kind /\ Owed(c).amount = Op[c].amount
        /\ RowOf(c, at).type = Op[c].kind /\ RowOf(c, at).amount = Op[c].amount
        /\ RowOf(c, at).at = at
    BY DEF Owed, RowOf
  <1>2. Op[c].kind \in RowTypes /\ Op[c].amount \in Nat
    BY LedgerAssumption DEF RowTypes
  <1>3. Worth(Owed(c)) = Change(c) /\ Worth(RowOf(c, at)) = Change(c)
    BY <1>1 DEF Worth, Change
  <1>4. Change(c) \in Int /\ (~WritesUser(c) => Change(c) = 0)
    BY <1>2 DEF Change, Delta, WritesUser, RowTypes
  <1>5. QED
    BY <1>1, <1>2, <1>3, <1>4 DEF Row

LEMMA PendRows ==
  ASSUME NEW u, IsFiniteSet(Pend(u))
  PROVE  Rows(Pend(u)) /\ Total(Pend(u)) \in Int
  <1>1. Rows(Pend(u))
    BY WorthOfCall DEF Pend, Saved, Rows
  <1>2. QED
    BY <1>1, TotalIsInt

\* What is pending changes with the calls that are saved.
LEMMA PendRests ==
  ASSUME \A d \in Calls : call'[d].pc = "saved" <=> call[d].pc = "saved"
  PROVE  \A u \in Users : Pend(u)' = Pend(u)
  <1>1. \A u \in Users : Saved(u)' = Saved(u)
    BY DEF Saved
  <1>2. QED
    BY <1>1 DEF Pend, Owed

LEMMA PendGains ==
  ASSUME NEW c \in Calls, call[c].pc # "saved", call'[c].pc = "saved",
         \A d \in Calls \ {c} : call'[d] = call[d]
  PROVE  /\ Owed(c) \notin Pend(Op[c].user)
         /\ Pend(Op[c].user)' = Pend(Op[c].user) \union {Owed(c)}
         /\ \A u \in Users \ {Op[c].user} : Pend(u)' = Pend(u)
  <1>1. /\ Saved(Op[c].user)' = Saved(Op[c].user) \union {c} /\ c \notin Saved(Op[c].user)
        /\ \A u \in Users \ {Op[c].user} : Saved(u)' = Saved(u)
    BY DEF Saved
  <1>2. \A d \in Calls : Owed(d).by = d
    BY DEF Owed
  <1>3. Owed(c) \notin Pend(Op[c].user)
    BY <1>1, <1>2 DEF Pend, Saved
  <1>4. Pend(Op[c].user)' = Pend(Op[c].user) \union {Owed(c)}
    <2>1. Pend(Op[c].user)' = {Owed(d) : d \in Saved(Op[c].user)'}
      BY DEF Pend, Owed
    <2>2. QED
      BY <1>1, <2>1 DEF Pend
  <1>5. \A u \in Users \ {Op[c].user} : Pend(u)' = Pend(u)
    BY <1>1 DEF Pend, Owed
  <1>6. QED
    BY <1>3, <1>4, <1>5

LEMMA PendLoses ==
  ASSUME NEW c \in Calls, call[c].pc = "saved", call'[c].pc # "saved",
         \A d \in Calls \ {c} : call'[d] = call[d]
  PROVE  /\ Owed(c) \in Pend(Op[c].user)
         /\ Pend(Op[c].user)' = Pend(Op[c].user) \ {Owed(c)}
         /\ \A u \in Users \ {Op[c].user} : Pend(u)' = Pend(u)
  <1>1. /\ Saved(Op[c].user)' = Saved(Op[c].user) \ {c} /\ c \in Saved(Op[c].user)
        /\ \A u \in Users \ {Op[c].user} : Saved(u)' = Saved(u)
    BY DEF Saved
  <1>2. \A d \in Calls : Owed(d).by = d
    BY DEF Owed
  <1>3. Owed(c) \in Pend(Op[c].user)
    BY <1>1 DEF Pend
  <1>4. Pend(Op[c].user)' = Pend(Op[c].user) \ {Owed(c)}
    <2>1. Pend(Op[c].user)' = {Owed(d) : d \in Saved(Op[c].user)'}
      BY DEF Pend, Owed
    <2>2. \A d \in Saved(Op[c].user) : Owed(d) = Owed(c) => d = c
      BY <1>2 DEF Saved
    <2>3. QED
      BY <1>1, <2>1, <2>2 DEF Pend
  <1>5. \A u \in Users \ {Op[c].user} : Pend(u)' = Pend(u)
    BY <1>1 DEF Pend, Owed
  <1>6. QED
    BY <1>3, <1>4, <1>5

\* The calls of a document whose money a step leaves alone.
LEMMA EvenRests ==
  ASSUME NEW u, balance'[u] = balance[u], rows'[u] = rows[u], Pend(u)' = Pend(u), Even(u)
  PROVE  Even(u)'
  BY DEF Even

\* Of the ledger only c changes, which is not left in the middle of its writes.
Rests(c) ==
    /\ Alone(c) /\ UNCHANGED <<replicaSet, balance, version, rows, clock>>
    /\ lost' \in {lost, lost + 1}
    /\ call'[c].pc \notin {"written", "saved"}
    /\ call'[c].pc = "read" => /\ call'[c].snap = balance[Op[c].user]
                               /\ call'[c].seen = version[Op[c].user]

LEMMA RestsFair ==
  ASSUME BalanceInv, NEW c \in Calls, Rests(c)
  PROVE  Stamped' /\ \A d \in Calls : Fair(d)'
  <1>1. Stamped /\ (\A d \in Calls : Fair(d)) /\ lost \in Nat
    BY DEF BalanceInv, Stamped
  <1>2. UNCHANGED <<replicaSet, balance, version, rows, clock>>
    BY DEF Rests
  <1>3. ASSUME NEW d \in Calls, d # c
        PROVE  Fair(d)'
    <2>1. call'[d] = call[d] /\ Fair(d)
      BY <1>1, <1>3 DEF Rests, Alone
    <2>2. \A e \in Calls : call'[e].pc = "written" => call[e].pc = "written" /\ call'[e] = call[e]
      BY DEF Rests, Alone
    <2>3. Fresh(d)'
      BY <1>2, <2>1, <2>2 DEF Fair, Fresh
    <2>4. Seen(d)'
      BY <1>2, <2>1, <2>2 DEF Fair, Seen, WritesUser
    <2>5. Mode(d)'
      BY <1>2, <2>1 DEF Fair, Mode, WritesUser
    <2>6. QED
      BY <2>3, <2>4, <2>5 DEF Fair
  <1>4. Fair(c)'
    <2>1. version[Op[c].user] \in Nat
      BY <1>1, UserOf DEF Stamped
    <2>2. call'[c].pc \notin {"written", "saved"}
      BY DEF Rests
    <2>3. Seen(c)'
      BY <1>2, <2>1, <2>2 DEF Rests, Seen
    <2>4. QED
      BY <2>2, <2>3 DEF Fair, Fresh, Mode
  <1>5. Stamped'
    BY <1>1, <1>2 DEF Rests, Stamped, Rows, Row
  <1>6. QED
    BY <1>3, <1>4, <1>5

\* ... and nobody's money, if it was not saved.
LEMMA RestsEven ==
  ASSUME BalanceInv, NEW c \in Calls, Rests(c), call[c].pc # "saved",
         replicaSet \/ Undisturbed
  PROVE  \A u \in Users : Even(u)'
  <1>1. \A d \in Calls : call'[d].pc = "saved" <=> call[d].pc = "saved"
    BY DEF Rests, Alone
  <1>2. \A u \in Users : Pend(u)' = Pend(u)
    BY <1>1, PendRests
  <1>3. \A u \in Users : Even(u)
    BY DEF BalanceInv, Money
  <1>4. QED
    BY <1>2, <1>3, EvenRests DEF Rests

LEMMA WriteFair ==
  ASSUME AnswerInv, BalanceInv, NEW c \in Calls, Write(c)
  PROVE  Stamped' /\ (\A d \in Calls : Fair(d)') /\ \A u \in Users : Even(u)'
  <1> DEFINE u == Op[c].user
  <1>1. /\ Stamped /\ (\A d \in Calls : Fair(d)) /\ u \in Users
        /\ \A v \in Users : Even(v)
    BY UserOf DEF BalanceInv, Money, Write
  <1>2. /\ replicaSet /\ call[c].pc = "read" /\ ~Conflict(c)
        /\ UNCHANGED <<replicaSet, balance, version, rows, lost>>
        /\ clock' = [clock EXCEPT ![u] = @ + 1]
        /\ call' = [call EXCEPT ![c].pc = "written", ![c].at = clock'[u]]
    BY DEF Write, Refused
  <1>3. DOMAIN call = Calls /\ Fields \subseteq DOMAIN call[c]
    BY DEF AnswerInv
  <1>4. /\ clock' \in [Users -> Nat] /\ clock'[u] = clock[u] + 1
        /\ \A v \in Users : clock[v] <= clock'[v]
        /\ \A v \in Users : clock[v] \in Nat /\ version[v] \in Nat
    BY <1>1, <1>2 DEF Stamped
  <1>5. /\ DOMAIN call' = Calls /\ \A d \in Calls \ {c} : call'[d] = call[d]
        /\ call'[c].pc = "written" /\ call'[c].at = clock[u] + 1
        /\ call'[c].seen = call[c].seen /\ call'[c].snap = call[c].snap
    BY <1>2, <1>3, <1>4 DEF Fields
  <1>6. Stamped'
    BY <1>1, <1>2, <1>4 DEF Stamped
  <1>7. \A d \in Calls \ {c} : call[d].pc = "written" /\ Op[d].user = u => call[d].at # clock[u] + 1
    BY <1>1, <1>4 DEF Fair, Fresh
  <1>8. ASSUME NEW d \in Calls \ {c}
        PROVE  Fair(d)'
    <2>1. Fair(d) /\ call'[d] = call[d] /\ Op[d].user \in Users
      BY <1>1, <1>5, UserOf
    <2>2. Fresh(d)'
      <3>1. ASSUME call[d].pc = "written"
            PROVE  call[d].at \in Nat /\ call[d].at <= clock'[Op[d].user]
        BY <1>4, <2>1, <3>1 DEF Fair, Fresh
      <3>2. QED
        BY <1>2, <1>5, <1>7, <2>1, <3>1 DEF Fair, Fresh
    <2>3. Seen(d)'
      <3>1. WritesUser(d) /\ call[d].pc = "written" /\ WritesUser(c) => Op[d].user # u
        BY <1>2 DEF Conflict
      <3>2. QED
        BY <1>2, <1>5, <2>1, <3>1 DEF Fair, Seen, WritesUser
    <2>4. QED
      BY <1>2, <2>1, <2>2, <2>3 DEF Fair, Mode, WritesUser
  <1>9. Fair(c)'
    <2>1. Fresh(c)'
      <3>1. \A r \in rows[u] : r.at # clock[u] + 1
        BY <1>1, <1>4 DEF Stamped
      <3>2. QED
        BY <1>2, <1>4, <1>5, <1>7, <3>1 DEF Fresh
    <2>2. Seen(c)'
      <3>1. Seen(c)
        BY <1>1 DEF Fair
      <3>2. WritesUser(c) => /\ call[c].seen = version[u]
                             /\ \A d \in Calls \ {c} : call[d].pc = "written" /\ WritesUser(d) =>
                                   Op[d].user # u
        BY <1>2 DEF Conflict
      <3>3. QED
        BY <1>2, <1>5, <3>1, <3>2 DEF Seen, WritesUser
    <2>3. QED
      BY <1>2, <1>5, <2>1, <2>2 DEF Fair, Mode
  <1>10. \A v \in Users : Even(v)'
    <2>1. \A v \in Users : Pend(v)' = Pend(v)
      BY <1>2, <1>5, PendRests
    <2>2. QED
      BY <1>1, <1>2, <2>1, EvenRests
  <1>11. QED
    BY <1>6, <1>8, <1>9, <1>10

\* The commit of c takes effect.
LEMMA EffectFair ==
  ASSUME AnswerInv, BalanceInv, NEW c \in Calls, call[c].pc = "written", TakesEffect(c),
         UNCHANGED <<replicaSet, clock, lost>>, Alone(c), call'[c].pc \in {"ok", "error", "idle"}
  PROVE  Stamped' /\ (\A d \in Calls : Fair(d)') /\ \A u \in Users : Even(u)'
  <1> DEFINE u == Op[c].user
             x == RowOf(c, call[c].at)
  <1>1. /\ Stamped /\ (\A d \in Calls : Fair(d)) /\ u \in Users /\ replicaSet
        /\ \A v \in Users : Even(v)
    BY UserOf DEF BalanceInv, Money, Fair, Mode
  <1>2. /\ Row(x) /\ Worth(x) = Change(c) /\ Change(c) \in Int /\ x.at = call[c].at
        /\ ~WritesUser(c) => Change(c) = 0
    BY WorthOfCall
  <1>3. /\ call[c].at \in Nat /\ call[c].at <= clock[u] /\ x \notin rows[u]
    BY <1>1, <1>2 DEF Fair, Fresh
  <1>4. /\ rows' = [rows EXCEPT ![u] = @ \union {x}] /\ DOMAIN rows = Users
        /\ NewBalance(c) = call[c].snap + Change(c)
        /\ balance' = IF WritesUser(c) THEN [balance EXCEPT ![u] = NewBalance(c)] ELSE balance
        /\ version' = IF WritesUser(c) THEN [version EXCEPT ![u] = @ + 1] ELSE version
    BY DEF TakesEffect, AnswerInv, NewBalance
  <1> HIDE DEF x
  <1>5. /\ \A d \in Calls \ {c} : call'[d] = call[d]
        /\ call'[c].pc # "written" /\ call'[c].pc # "saved" /\ call'[c].pc # "read"
    BY DEF Alone
  <1>6. Rows(rows[u] \union {x}) /\ Total(rows[u] \union {x}) = Total(rows[u]) + Change(c)
        /\ Total(rows[u]) \in Int
    <2>1. Rows(rows[u])
      BY <1>1 DEF Stamped
    <2>2. QED
      BY <1>2, <1>3, <2>1, TotalAdds
  <1>7. WritesUser(c) => call[c].snap = balance[u]
    BY <1>1 DEF Fair, Seen
  <1>8. /\ balance' = [v \in Users |-> balance'[v]] /\ version' \in [Users -> Nat]
        /\ \A v \in Users \ {u} : balance'[v] = balance[v] /\ version'[v] = version[v]
        /\ \A v \in Users : version[v] \in Nat /\ version'[v] \in Nat
        /\ version'[u] = IF WritesUser(c) THEN version[u] + 1 ELSE version[u]
        /\ balance'[u] = IF WritesUser(c) THEN balance[u] + Change(c) ELSE balance[u]
    <2>1. CASE WritesUser(c)
      BY <1>1, <1>4, <1>7, <2>1 DEF Stamped
    <2>2. CASE ~WritesUser(c)
      BY <1>1, <1>4, <2>2 DEF Stamped
    <2>3. QED
      BY <2>1, <2>2
  <1>9. \A v \in Users : rows'[v] = IF v = u THEN rows[u] \union {x} ELSE rows[v]
    BY <1>1, <1>4
  <1>10. Stamped'
    <2>1. ASSUME NEW v \in Users
          PROVE  Rows(rows'[v]) /\ \A r \in rows'[v] : r.at \in Nat /\ r.at <= clock[v]
      BY <1>1, <1>2, <1>3, <1>6, <1>9 DEF Stamped
    <2>2. QED
      BY <1>1, <1>8, <2>1 DEF Stamped, Rows, Row
  <1>11. ASSUME NEW d \in Calls \ {c}
         PROVE  Fair(d)'
    <2>1. Fair(d) /\ call'[d] = call[d] /\ Op[d].user \in Users /\ Seen(c) /\ Fresh(c)
      BY <1>1, <1>5, UserOf DEF Fair
    <2>2. Fresh(d)'
      <3>1. call[d].pc = "written" /\ Op[d].user = u => x.at # call[d].at
        BY <1>2, <2>1 DEF Fresh
      <3>2. \A r \in rows'[Op[d].user] : r \in rows[Op[d].user] \/ (r = x /\ Op[d].user = u)
        BY <1>9, <2>1
      <3>3. QED
        BY <1>5, <2>1, <3>1, <3>2 DEF Fair, Fresh
    <2>3. Seen(d)'
      <3>1. CASE WritesUser(c) /\ Op[d].user = u
        <4>1. ~(call[d].pc = "written" /\ WritesUser(d))
          BY <1>1, <2>1, <3>1 DEF Fair, Seen
        <4>2. call[d].pc \in {"read", "written"} => /\ call[d].seen \in Nat
                                                    /\ call[d].seen <= version[u]
          BY <2>1, <3>1 DEF Fair, Seen
        <4>3. QED
          BY <1>1, <1>8, <2>1, <3>1, <4>1, <4>2 DEF Seen, WritesUser
      <3>2. CASE ~(WritesUser(c) /\ Op[d].user = u)
        <4>1. balance'[Op[d].user] = balance[Op[d].user] /\ version'[Op[d].user] = version[Op[d].user]
          BY <1>8, <2>1, <3>2
        <4>2. QED
          BY <1>5, <2>1, <4>1 DEF Fair, Seen, WritesUser
      <3>3. QED
        BY <3>1, <3>2
    <2>4. QED
      BY <2>1, <2>2, <2>3 DEF Fair, Mode, WritesUser
  <1>12. Fair(c)'
    BY <1>5 DEF Fair, Fresh, Seen, Mode
  <1>13. \A v \in Users : Even(v)'
    <2>1. \A v \in Users : Pend(v)' = Pend(v)
      BY <1>5, PendRests
    <2>2. Even(u)'
      <3>1. IsFiniteSet(Pend(u)) /\ balance[u] = Total(rows[u]) + Total(Pend(u))
            /\ Total(Pend(u)) \in Int
        BY <1>1, PendRows DEF Even
      <3>2. balance'[u] = balance[u] + Change(c)
        BY <1>2, <1>6, <1>8, <3>1
      <3>3. Total(rows'[u]) = Total(rows[u]) + Change(c)
        BY <1>1, <1>6, <1>9
      <3>4. Pend(u)' = Pend(u)
        BY <1>1, <2>1
      <3>5. balance'[u] = Total(rows'[u]) + Total(Pend(u)')
        BY <1>2, <1>6, <3>1, <3>2, <3>3, <3>4
      <3>6. QED
        BY <3>1, <3>4, <3>5 DEF Even
    <2>3. \A v \in Users \ {u} : Even(v)'
      BY <1>1, <1>8, <1>9, <2>1, EvenRests
    <2>4. QED
      BY <2>2, <2>3
  <1>14. QED
    BY <1>10, <1>11, <1>12, <1>13

LEMMA SaveFair ==
  ASSUME AnswerInv, BalanceInv, NEW c \in Calls, Save(c)
  PROVE  /\ Stamped' /\ \A d \in Calls : Fair(d)'
         /\ Undisturbed /\ ~overwrote' => \A u \in Users : Even(u)'
  <1> DEFINE u == Op[c].user
  <1>1. Stamped /\ (\A d \in Calls : Fair(d)) /\ u \in Users
    BY UserOf DEF BalanceInv
  <1>2. /\ ~replicaSet /\ call[c].pc = "read" /\ WritesUser(c)
        /\ UNCHANGED <<replicaSet, rows, clock, lost>>
        /\ overwrote' = (overwrote \/ version[u] # call[c].seen)
        /\ balance' = [balance EXCEPT ![u] = call[c].snap + Change(c)]
        /\ version' = [version EXCEPT ![u] = @ + 1]
    BY DEF Save, NewBalance
  <1>3. Alone(c) /\ call'[c].pc = "saved"
    BY GoesAlone DEF Save
  <1>4. /\ balance' = [v \in Users |-> balance'[v]] /\ version' \in [Users -> Nat]
        /\ \A v \in Users \ {u} : balance'[v] = balance[v] /\ version'[v] = version[v]
        /\ \A v \in Users : version[v] \in Nat /\ version'[v] \in Nat
        /\ version'[u] = version[u] + 1 /\ balance'[u] = call[c].snap + Change(c)
    BY <1>1, <1>2 DEF Stamped
  <1>5. Stamped'
    BY <1>1, <1>2, <1>4 DEF Stamped, Rows, Row
  <1>6. \A d \in Calls : call[d].pc # "written" /\ call'[d].pc # "written"
    BY <1>1, <1>2, <1>3 DEF Fair, Mode, Alone
  <1>7. ASSUME NEW d \in Calls \ {c}
        PROVE  Fair(d)'
    <2>1. Fair(d) /\ call'[d] = call[d] /\ Op[d].user \in Users /\ call[d].pc # "written"
      BY <1>1, <1>3, <1>6, UserOf DEF Alone
    <2>2. Seen(d)'
      <3>1. CASE Op[d].user = u
        <4>1. call[d].pc = "read" => call[d].seen \in Nat /\ call[d].seen <= version[u]
          BY <2>1, <3>1 DEF Fair, Seen
        <4>2. QED
          BY <1>1, <1>4, <2>1, <3>1, <4>1 DEF Seen
      <3>2. CASE Op[d].user # u
        <4>1. balance'[Op[d].user] = balance[Op[d].user] /\ version'[Op[d].user] = version[Op[d].user]
          BY <1>4, <2>1, <3>2
        <4>2. QED
          BY <2>1, <4>1 DEF Fair, Seen
      <3>3. QED
        BY <3>1, <3>2
    <2>3. QED
      BY <1>2, <2>1, <2>2 DEF Fair, Fresh, Mode, WritesUser
  <1>8. Fair(c)'
    BY <1>2, <1>3 DEF Fair, Fresh, Seen, Mode, WritesUser
  <1>9. ASSUME Undisturbed, ~overwrote'
        PROVE  \A v \in Users : Even(v)'
    <2>1. \A v \in Users : Even(v)
      BY <1>9 DEF BalanceInv, Money
    <2>2. call[c].snap = balance[u]
      BY <1>1, <1>2, <1>9 DEF Fair, Seen
    <2>3. /\ Owed(c) \notin Pend(u) /\ Pend(u)' = Pend(u) \union {Owed(c)}
          /\ \A v \in Users \ {u} : Pend(v)' = Pend(v)
      BY <1>2, <1>3, PendGains DEF Alone
    <2>4. Even(u)'
      <3>1. /\ IsFiniteSet(Pend(u)) /\ balance[u] = Total(rows[u]) + Total(Pend(u))
            /\ Rows(Pend(u)) /\ Rows(rows[u])
        BY <1>1, <2>1, PendRows DEF Even, Stamped
      <3>2. Row(Owed(c)) /\ Worth(Owed(c)) = Change(c) /\ Change(c) \in Int
        BY WorthOfCall
      <3>3. /\ Rows(Pend(u) \union {Owed(c)})
            /\ Total(Pend(u) \union {Owed(c)}) = Total(Pend(u)) + Change(c)
            /\ Total(Pend(u)) \in Int
        BY <2>3, <3>1, <3>2, TotalAdds
      <3>4. Total(rows[u]) \in Int /\ rows'[u] = rows[u]
        BY <1>2, <3>1, TotalIsInt
      <3>5. IsFiniteSet(Pend(u)')
        BY <2>3, <3>3 DEF Rows
      <3>6. balance'[u] = Total(rows'[u]) + Total(Pend(u)')
        BY <1>4, <2>2, <2>3, <3>1, <3>2, <3>3, <3>4
      <3>7. QED
        BY <3>5, <3>6 DEF Even
    <2>5. \A v \in Users \ {u} : Even(v)'
      BY <1>2, <1>4, <2>1, <2>3, EvenRests
    <2>6. QED
      BY <2>4, <2>5
  <1>10. QED
    BY <1>5, <1>7, <1>8, <1>9

\* Nobody else has written the row of a call that has set the balance.
LEMMA NoDuplicate ==
  ASSUME AnswerInv, SettleInv, BalanceInv, NEW c \in Calls, call[c].pc = "saved"
  PROVE  ~Duplicate(c)
  <1>1. ~replicaSet /\ WritesUser(c)
    BY DEF BalanceInv, Fair, Mode
  <1>2. c \in SubCalls \/ Op[c].kind \in {"deposit", "withdrawal"}
    BY <1>1 DEF SettleInv, FromJob
  <1>3. CASE Op[c].kind \in {"deposit", "withdrawal"}
    BY <1>3, LedgerAssumption DEF Duplicate
  <1>4. CASE c \in SubCalls
    <2>1. PICK u \in Users : c = ChargeOf[u] \/ c = RefundOf[u]
      BY <1>4 DEF SubCalls
    <2>2. c = RefundOf[u]
      BY <1>1, <2>1, CallsOfBids
    <2>3. Op[c].kind = "bid_refund" /\ Op[c].ref = u /\ u # NoRef
      BY <2>2, StandaloneAssumption, LedgerAssumption
    <2>4. SUFFICES ASSUME NEW r \in AllRows, r.type = "bid_refund", r.ref = u
                   PROVE  FALSE
      BY <2>3 DEF Duplicate
    <2>5. r.by = c
      BY <1>1, <2>2, <2>4 DEF SettleInv, OwnRows
    <2>6. Truthful(c) /\ Once(c)
      BY <2>3 DEF AnswerInv, Once
    <2>7. Written(c) = 0
      BY <2>6 DEF Truthful, Running
    <2>8. By(c) = {}
      BY <2>6, <2>7, WrittenCounts, FS_EmptySet DEF Truthful
    <2>9. QED
      BY <2>4, <2>5, <2>8 DEF By
  <1>5. QED
    BY <1>2, <1>3, <1>4

\* The row of c is inserted, after its balance is set or by itself.
LEMMA InsertFair ==
  ASSUME AnswerInv, BalanceInv, NEW c \in Calls, Insert(c), ~Duplicate(c)
  PROVE  /\ Stamped' /\ \A d \in Calls : Fair(d)'
         /\ Undisturbed => \A u \in Users : Even(u)'
  <1> DEFINE u == Op[c].user
             x == RowOf(c, clock'[u])
  <1>1. Stamped /\ (\A d \in Calls : Fair(d)) /\ u \in Users
    BY UserOf DEF BalanceInv
  <1>2. /\ ~replicaSet /\ call[c].pc = IF WritesUser(c) THEN "saved" ELSE "read"
        /\ UNCHANGED <<replicaSet, balance, version, lost>>
        /\ clock' = [clock EXCEPT ![u] = @ + 1]
        /\ rows' = [rows EXCEPT ![u] = @ \union {x}] /\ DOMAIN rows = Users
    BY DEF Insert, AnswerInv
  <1>3. Alone(c) /\ call'[c].pc = "ok"
    BY GoesAlone DEF Insert
  <1>4. /\ Row(x) /\ Worth(x) = Change(c) /\ Change(c) \in Int /\ x.at = clock'[u]
        /\ ~WritesUser(c) => Change(c) = 0
    BY WorthOfCall
  <1> HIDE DEF x
  <1>5. /\ clock' \in [Users -> Nat] /\ clock'[u] = clock[u] + 1
        /\ \A v \in Users : clock[v] \in Nat /\ clock'[v] \in Nat /\ clock[v] <= clock'[v]
    BY <1>1, <1>2 DEF Stamped
  <1>6. x \notin rows[u]
    BY <1>1, <1>4, <1>5 DEF Stamped
  <1>7. /\ Rows(rows[u] \union {x}) /\ Total(rows[u] \union {x}) = Total(rows[u]) + Change(c)
        /\ Total(rows[u]) \in Int
    <2>1. Rows(rows[u])
      BY <1>1 DEF Stamped
    <2>2. QED
      BY <1>4, <1>6, <2>1, TotalAdds
  <1>8. \A v \in Users : rows'[v] = IF v = u THEN rows[u] \union {x} ELSE rows[v]
    BY <1>1, <1>2
  <1>9. Stamped'
    <2>1. ASSUME NEW v \in Users
          PROVE  Rows(rows'[v]) /\ \A r \in rows'[v] : r.at \in Nat /\ r.at <= clock'[v]
      <3>1. \A r \in rows[v] : r.at \in Nat /\ r.at <= clock[v]
        BY <1>1 DEF Stamped
      <3>2. \A r \in rows[v] : r.at \in Nat /\ r.at <= clock'[v]
        BY <1>5, <3>1
      <3>3. Rows(rows'[v])
        BY <1>1, <1>7, <1>8 DEF Stamped
      <3>4. QED
        BY <1>4, <1>5, <1>8, <3>2, <3>3
    <2>2. QED
      BY <1>1, <1>2, <1>5, <2>1 DEF Stamped, Rows, Row
  <1>10. \A d \in Calls : call[d].pc # "written" /\ call'[d].pc # "written"
    BY <1>1, <1>2, <1>3 DEF Fair, Mode, Alone
  <1>11. ASSUME NEW d \in Calls
         PROVE  Fair(d)'
    <2>1. CASE d = c
      BY <1>3, <2>1 DEF Fair, Fresh, Seen, Mode
    <2>2. CASE d # c
      <3>1. Fair(d) /\ call'[d] = call[d] /\ call[d].pc # "written"
        BY <1>1, <1>3, <1>10, <2>2 DEF Alone
      <3>2. QED
        BY <1>2, <3>1 DEF Fair, Fresh, Seen, Mode, WritesUser
    <2>3. QED
      BY <2>1, <2>2
  <1>12. ASSUME Undisturbed
         PROVE  \A v \in Users : Even(v)'
    <2>1. \A v \in Users : Even(v)
      BY <1>12 DEF BalanceInv, Money
    <2>2. /\ IsFiniteSet(Pend(u)) /\ balance[u] = Total(rows[u]) + Total(Pend(u))
          /\ Rows(Pend(u)) /\ Total(Pend(u)) \in Int
      BY <1>1, <2>1, PendRows DEF Even
    <2>3. Total(rows'[u]) = Total(rows[u]) + Change(c) /\ balance'[u] = balance[u]
      BY <1>1, <1>2, <1>7, <1>8
    <2>4. CASE WritesUser(c)
      <3>1. /\ Owed(c) \in Pend(u) /\ Pend(u)' = Pend(u) \ {Owed(c)}
            /\ \A v \in Users \ {u} : Pend(v)' = Pend(v)
        BY <1>2, <1>3, <2>4, PendLoses DEF Alone
      <3>2. Worth(Owed(c)) = Change(c)
        BY WorthOfCall
      <3>3. /\ Total(Pend(u)) = Total(Pend(u) \ {Owed(c)}) + Change(c)
            /\ Total(Pend(u) \ {Owed(c)}) \in Int
        BY <2>2, <3>1, <3>2, TotalRemoves
      <3>4. balance'[u] = Total(rows'[u]) + Total(Pend(u)')
        BY <1>4, <1>7, <2>2, <2>3, <3>1, <3>3
      <3>5. IsFiniteSet(Pend(u)')
        BY <2>2, <3>1, FS_Subset
      <3>6. Even(u)'
        BY <3>4, <3>5 DEF Even
      <3>7. \A v \in Users \ {u} : Even(v)'
        BY <1>2, <1>8, <2>1, <3>1, EvenRests
      <3>8. QED
        BY <3>6, <3>7
    <2>5. CASE ~WritesUser(c)
      <3>1. \A d \in Calls : call'[d].pc = "saved" <=> call[d].pc = "saved"
        BY <1>2, <1>3, <2>5 DEF Alone
      <3>2. \A v \in Users : Pend(v)' = Pend(v)
        BY <3>1, PendRests
      <3>3. Even(u)'
        <4>1. Pend(u)' = Pend(u)
          BY <1>1, <3>2
        <4>2. balance'[u] = Total(rows'[u]) + Total(Pend(u)')
          BY <1>4, <1>7, <2>2, <2>3, <2>5, <4>1
        <4>3. QED
          BY <2>2, <4>1, <4>2 DEF Even
      <3>4. \A v \in Users \ {u} : Even(v)'
        BY <1>2, <1>8, <2>1, <3>2, EvenRests
      <3>5. QED
        BY <3>3, <3>4
    <2>6. QED
      BY <2>4, <2>5
  <1>13. QED
    BY <1>9, <1>11, <1>12

\* The steps of a call that touch neither the document nor the rows.
LEMMA BeginRests ==
  ASSUME AnswerInv, BalanceInv, NEW c \in Calls, Begin(c)
  PROVE  Rests(c) /\ call[c].pc # "saved"
  <1> DEFINE pc == IF HasTransaction(c) THEN "ok" ELSE IF Covered(c) THEN "read" ELSE "error"
  <1>1. DOMAIN call = Calls /\ Fields \subseteq DOMAIN call[c]
    BY DEF AnswerInv
  <1>2. /\ pc \notin {"written", "saved"} /\ call[c].pc = "idle"
        /\ UNCHANGED <<replicaSet, balance, version, rows, clock, lost>>
        /\ call' = [call EXCEPT ![c].pc = pc, ![c].snap = balance[Op[c].user],
                                ![c].seen = version[Op[c].user]]
    BY DEF Begin
  <1> HIDE DEF pc
  <1>3. /\ Alone(c) /\ call'[c].pc = pc /\ call'[c].snap = balance[Op[c].user]
        /\ call'[c].seen = version[Op[c].user]
    BY <1>1, <1>2 DEF Alone, Fields
  <1>4. QED
    BY <1>2, <1>3 DEF Rests

LEMMA RefusedRests ==
  ASSUME AnswerInv, BalanceInv, NEW c \in Calls, WriteRefused(c)
  PROVE  Rests(c) /\ call[c].pc # "saved"
  <1> DEFINE x == IF Conflict(c) THEN AfterError(c) ELSE [call[c] EXCEPT !.pc = "error"]
  <1>1. DOMAIN call = Calls /\ Fields \subseteq DOMAIN call[c]
    BY DEF AnswerInv
  <1>2. x.pc \in {"error", "idle"} /\ DOMAIN x = DOMAIN call[c]
    BY <1>1, AfterErrorIs DEF Fields
  <1>3. /\ call' = [call EXCEPT ![c] = x] /\ call[c].pc = "read"
        /\ UNCHANGED <<replicaSet, balance, version, rows, clock, lost>>
    BY DEF WriteRefused
  <1> HIDE DEF x
  <1>4. Alone(c) /\ call'[c] = x
    BY <1>1, <1>2, <1>3 DEF Alone
  <1>5. QED
    BY <1>2, <1>3, <1>4 DEF Rests

LEMMA UnknownEnds ==
  ASSUME AnswerInv, NEW c \in Calls, UnknownCommit(c)
  PROVE  Alone(c) /\ call'[c].pc \in {"error", "idle"}
  <1>1. DOMAIN call = Calls /\ Fields \subseteq DOMAIN call[c]
    BY DEF AnswerInv
  <1> DEFINE y == AfterError(c)
             x == [y EXCEPT !.doubt = @ + 1]
  <1>2. y.pc \in {"error", "idle"} /\ DOMAIN y = DOMAIN call[c]
    BY <1>1, AfterErrorIs
  <1>3. call' = [call EXCEPT ![c] = x]
    BY DEF UnknownCommit
  <1> HIDE DEF y
  <1>4. x.pc = y.pc /\ DOMAIN x = DOMAIN call[c]
    BY <1>1, <1>2 DEF Fields
  <1> HIDE DEF x
  <1>5. QED
    BY <1>1, <1>2, <1>3, <1>4 DEF Alone

LEMMA CallBalances ==
  ASSUME AnswerInv, SettleInv, BalanceInv, NEW c \in Calls, Started(c) \/ CallStep(c)
  PROVE  BalanceInv'
  <1>1. SUFFICES /\ Stamped' /\ \A d \in Calls : Fair(d)'
                 /\ (replicaSet \/ Undisturbed)' => \A u \in Users : Even(u)'
    BY DEF BalanceInv, Money
  <1>2. UNCHANGED <<job, replicaSet>>
    BY DEF Started, CallStep, roundVars, Begin, Write, Commit, WriteRefused, UnknownCommit, Save,
           Insert, Lose
  <1>3. lost \in Nat /\ Mode(c)
    BY DEF BalanceInv, Stamped, Fair
  <1>4. CASE Rests(c) /\ call[c].pc # "saved" /\ lost' = lost /\ overwrote' = overwrote
    BY <1>2, <1>4, RestsFair, RestsEven DEF Undisturbed
  <1>5. CASE Begin(c)
    BY <1>4, <1>5, BeginRests DEF Begin
  <1>6. CASE Write(c)
    BY <1>6, WriteFair
  <1>7. CASE Commit(c)
    BY <1>7, GoesAlone, EffectFair DEF Commit
  <1>8. CASE WriteRefused(c)
    BY <1>4, <1>8, RefusedRests DEF WriteRefused
  <1>9. CASE UnknownCommit(c)
    <2>1. Alone(c) /\ call'[c].pc \in {"error", "idle"} /\ call[c].pc = "written"
      BY <1>9, UnknownEnds DEF UnknownCommit
    <2>2. UNCHANGED <<replicaSet, clock, lost, overwrote>>
      BY <1>9 DEF UnknownCommit
    <2>3. CASE TakesEffect(c)
      BY <2>1, <2>2, <2>3, EffectFair
    <2>4. CASE UNCHANGED <<balance, version, rows>>
      BY <1>4, <2>1, <2>2, <2>4 DEF Rests
    <2>5. QED
      BY <1>9, <2>3, <2>4 DEF UnknownCommit
  <1>10. CASE Save(c)
    <2>1. ~replicaSet' /\ lost' = lost /\ job' = job
      BY <1>2, <1>10 DEF Save
    <2>2. overwrote => overwrote'
      BY <1>10 DEF Save
    <2>3. (replicaSet \/ Undisturbed)' => Undisturbed /\ ~overwrote'
      BY <2>1, <2>2 DEF Undisturbed
    <2>4. QED
      BY <1>10, <2>3, SaveFair
  <1>11. CASE Insert(c)
    <2>1. ~replicaSet' /\ lost' = lost /\ job' = job /\ overwrote' = overwrote
      BY <1>2, <1>11 DEF Insert
    <2>2. (replicaSet \/ Undisturbed)' => Undisturbed
      BY <2>1 DEF Undisturbed
    <2>3. CASE ~Duplicate(c)
      BY <1>11, <2>2, <2>3, InsertFair
    <2>4. CASE Duplicate(c)
      <3>1. call[c].pc # "saved"
        BY <2>4, NoDuplicate
      <3>2. Alone(c) /\ call'[c].pc = "error"
        BY <1>11, <2>4, GoesAlone DEF Insert
      <3>3. UNCHANGED <<replicaSet, balance, version, rows, clock>>
        BY <1>11, <2>4 DEF Insert
      <3>4. QED
        BY <1>4, <2>1, <3>1, <3>2, <3>3 DEF Rests
    <2>5. QED
      BY <2>3, <2>4
  <1>12. CASE Lose(c)
    <2>1. /\ Alone(c) /\ call'[c].pc = "lost" /\ lost' = lost + 1
          /\ UNCHANGED <<replicaSet, balance, version, rows, clock>>
      BY <1>12, GoesAlone DEF Lose
    <2>2. Rests(c)
      BY <2>1 DEF Rests
    <2>3. ~Undisturbed'
      BY <1>3, <2>1 DEF Undisturbed
    <2>4. replicaSet => call[c].pc # "saved"
      BY <1>3 DEF Mode
    <2>5. QED
      BY <1>2, <2>2, <2>3, <2>4, RestsFair, RestsEven
  <1>13. QED
    BY <1>5, <1>6, <1>7, <1>8, <1>9, <1>10, <1>11, <1>12 DEF Started, CallStep

\* With its worker a run of the completion ends: the next one is disturbed.
LEMMA WorkerDiesBalances ==
  ASSUME AnswerInv, SettleInv, BalanceInv, WorkerDies
  PROVE  BalanceInv'
  <1>1. /\ ~replicaSet /\ job'.run = job.run + 1 /\ job.run \in Nat \ {0}
        /\ UNCHANGED <<replicaSet, balance, version, rows, clock, lost>>
        /\ \A c \in Calls : call'[c] = IF c \in SubCalls /\ call[c].pc \in Running
                                       THEN [call[c] EXCEPT !.pc = "lost"] ELSE call[c]
    BY DEF WorkerDies, SettleInv, Settling
  <1>2. Money'
    BY <1>1 DEF Money, Undisturbed
  <1>3. ASSUME NEW c \in Calls
        PROVE  Fair(c)'
    <2>1. Fair(c) /\ Fields \subseteq DOMAIN call[c]
      BY DEF BalanceInv, AnswerInv
    <2>2. \A d \in Calls : call[d].pc # "written" /\ call'[d].pc # "written"
      <3>1. ASSUME NEW d \in Calls
            PROVE  call[d].pc # "written" /\ call'[d].pc # "written"
        <4>1. call[d].pc # "written" /\ "pc" \in DOMAIN call[d]
          BY <1>1 DEF BalanceInv, Fair, Mode, AnswerInv, Fields
        <4>2. call'[d] = call[d] \/ call'[d] = [call[d] EXCEPT !.pc = "lost"]
          BY <1>1
        <4>3. QED
          BY <4>1, <4>2
      <3>2. QED
        BY <3>1
    <2>3. CASE call'[c] = call[c]
      BY <1>1, <2>1, <2>2, <2>3 DEF Fair, Fresh, Seen, Mode, WritesUser
    <2>4. CASE call'[c] = [call[c] EXCEPT !.pc = "lost"]
      <3>1. call'[c].pc = "lost"
        BY <2>1, <2>4 DEF Fields
      <3>2. QED
        BY <3>1 DEF Fair, Fresh, Seen, Mode
    <2>5. QED
      BY <1>1, <2>3, <2>4
  <1>4. Stamped'
    BY <1>1 DEF BalanceInv, Stamped, Rows, Row
  <1>5. QED
    BY <1>2, <1>3, <1>4 DEF BalanceInv

LEMMA BalancesRest ==
  ASSUME BalanceInv, UNCHANGED <<replicaSet, balance, version, rows, call, clock, lost, overwrote>>,
         job'.run = job.run
  PROVE  BalanceInv'
  <1>1. Stamped' /\ \A c \in Calls : Fair(c)'
    BY DEF BalanceInv, Stamped, Rows, Row, Fair, Fresh, Seen, Mode, WritesUser
  <1>2. \A u \in Users : Pend(u)' = Pend(u)
    BY PendRests
  <1>3. Money'
    BY <1>2, EvenRests DEF BalanceInv, Money, Undisturbed
  <1>4. QED
    BY <1>1, <1>3 DEF BalanceInv

\* The completion touches the ledger by its calls only, and stays in the same run.
LEMMA CompletingBalances ==
  ASSUME IInv, BalanceInv, Completing
  PROVE  BalanceInv'
  <1>1. UNCHANGED ledgerVars
    BY DEF Completing, Load, MarkWinners, MarkLosers, AwaitRefunds, OpenNextRound, SaveAuction,
           SaveRound, unchangedLedger
  <1>2. job'.run = job.run
    <2>1. job = [pc |-> job.pc, run |-> job.run, plan |-> job.plan]
      BY DEF IInv, Shape
    <2>2. \/ \E to : job' = [job EXCEPT !.pc = to]
          \/ \E to : \E p : job' = [job EXCEPT !.pc = to, !.plan = p]
      <3>1. CASE Load
        <4> DEFINE p == Plan
        <4>1. job' = [job EXCEPT !.pc = IF round = "completed" THEN "completed" ELSE "loaded",
                                 !.plan = p]
          BY <3>1 DEF Load
        <4> HIDE DEF p
        <4>2. QED
          BY <4>1
      <3>2. CASE ~Load
        BY <3>2 DEF Completing, MarkWinners, MarkLosers, AwaitRefunds, OpenNextRound, SaveAuction,
                    SaveRound, Step
      <3>3. QED
        BY <3>1, <3>2
    <2>3. CASE \E to : job' = [job EXCEPT !.pc = to]
      BY <2>1, <2>3
    <2>4. CASE \E to : \E p : job' = [job EXCEPT !.pc = to, !.plan = p]
      BY <2>1, <2>4
    <2>5. QED
      BY <2>2, <2>3, <2>4
  <1>3. QED
    BY <1>1, <1>2, BalancesRest DEF ledgerVars

LEMMA BalancesInit == Init => BalanceInv
  <1> SUFFICES ASSUME Init PROVE BalanceInv
    OBVIOUS
  <1>1. /\ \A u \in Users : /\ balance[u] = Opening[u].balance /\ rows[u] = Opening[u].rows
                            /\ clock[u] = Cardinality(Opening[u].rows) /\ version[u] = 0
        /\ \A c \in Calls : call[c].pc = "idle"
        /\ lost = 0
    BY DEF Init, Idle
  <1>2. ASSUME NEW u \in Users
        PROVE  /\ Rows(rows[u]) /\ balance[u] = Total(rows[u]) /\ clock[u] \in Nat
               /\ \A r \in rows[u] : r.at \in Nat /\ r.at <= clock[u]
    <2> DEFINE R == Opening[u].rows
    <2>1. /\ IsFiniteSet(R) /\ Opening[u].balance = Total(R)
          /\ \A r \in R : /\ r.type \in RowTypes /\ r.amount \in Nat
                          /\ r.at \in 1..Cardinality(R)
      BY StandaloneAssumption
    <2>2. Cardinality(R) \in Nat
      BY <2>1, FS_CardinalityType
    <2>3. rows[u] = R /\ clock[u] = Cardinality(R) /\ balance[u] = Opening[u].balance
      BY <1>1
    <2> HIDE DEF R
    <2>4. \A r \in R : r.at \in Nat /\ r.at <= Cardinality(R)
      BY <2>1, <2>2
    <2>5. QED
      BY <2>1, <2>2, <2>3, <2>4 DEF Rows, Row
  <1>3. Stamped
    <2>1. /\ balance = [u \in Users |-> balance[u]]
          /\ clock = [u \in Users |-> clock[u]] /\ version = [u \in Users |-> version[u]]
      BY DEF Init
    <2>2. QED
      BY <1>1, <1>2, <2>1 DEF Stamped
  <1>4. \A c \in Calls : Fair(c)
    BY <1>1 DEF Fair, Fresh, Seen, Mode
  <1>5. \A u \in Users : Even(u)
    <2>1. \A u \in Users : Pend(u) = {}
      BY <1>1 DEF Pend, Saved
    <2>2. IsFiniteSet({})
      BY FS_EmptySet
    <2>3. ASSUME NEW u \in Users
          PROVE  balance[u] = Total(rows[u]) + 0
      BY <1>2, TotalIsInt
    <2>4. QED
      BY <2>1, <2>2, <2>3, TotalEmpty DEF Even
  <1>6. QED
    BY <1>3, <1>4, <1>5 DEF BalanceInv, Money

LEMMA BalancesNext == IInv /\ AnswerInv /\ SettleInv /\ BalanceInv /\ [Next]_vars => BalanceInv'
  <1> SUFFICES ASSUME IInv, AnswerInv, SettleInv, BalanceInv, [Next]_vars PROVE BalanceInv'
    OBVIOUS
  <1>1. CASE \E c \in Calls : Started(c) \/ CallStep(c)
    BY <1>1, CallBalances
  <1>2. CASE \E u \in Users : Auditing(u)
    BY <1>2, BalancesRest DEF Auditing, AuditReadsUser, AuditReadsRows, roundVars
  <1>3. CASE Completing
    BY <1>3, CompletingBalances
  <1>4. CASE WorkerDies
    BY <1>4, WorkerDiesBalances
  <1>5. CASE UNCHANGED vars
    BY <1>5, BalancesRest DEF vars, ledgerVars
  <1>6. QED
    BY <1>1, <1>2, <1>3, <1>4, <1>5 DEF Next

\* The inductive invariant: a balance differs from what its rows add up to by what is saved and
\* awaits its row, and by nothing if no call is cut short or has overwritten another's.
THEOREM BalancesInductive == Spec => []BalanceInv
  BY Invariance, AnswersInductive, SettleInductive, BalancesInit, BalancesNext, PTL DEF Spec

\* The balance of a user is the sum of the user's rows: at every moment with transactions, and
\* without them whenever no call of the user runs, unless one was cut short or set a balance
\* over one it had not read (balance.service.ts, save() then createTransaction).
THEOREM BalancesAreLedgers == Spec => []BalanceIsLedger
  <1>1. BalanceInv => BalanceIsLedger
    <2>1. SUFFICES ASSUME BalanceInv, NEW u \in Users, replicaSet \/ (Undisturbed /\ Quiet(u))
                   PROVE  balance[u] = Total(rows[u])
      BY DEF BalanceIsLedger
    <2>2. Even(u)
      BY <2>1 DEF BalanceInv, Money
    <2>3. Pend(u) = {}
      BY <2>1 DEF BalanceInv, Fair, Mode, Quiet, Running, Pend, Saved
    <2>4. Total(rows[u]) \in Int
      BY <2>1, TotalIsInt DEF BalanceInv, Stamped
    <2>5. balance[u] = Total(rows[u]) + 0
      BY <2>2, <2>3, TotalEmpty DEF Even
    <2>6. QED
      BY <2>4, <2>5
  <1>2. QED
    BY BalancesInductive, <1>1, PTL

-----------------------------------------------------------------------------
(* Standalone: what an audit can find.  The rows that change a balance follow one another; *)
(* a charge stands where it happens to be committed, and continues the row before it or is *)
(* misplaced.                                                                              *)

\* The rows that continue one another: all but the charges of the calls.
Solid(u) == {r \in rows[u] : r.type # "bid_charge" \/ r.by \notin Calls}

LinkedRows(u) ==
    /\ \A r, s \in rows[u] : r.at = s.at => r = s
    /\ \A r \in rows[u] : r.after = r.before + Delta(r.type, r.amount)
    /\ \A r \in Solid(u) : r.before = Closing(Earlier(r, Solid(u)))
    /\ \A r \in rows[u] \ Solid(u) : /\ r.after = r.before
                                     /\ r.before # 0 => Earlier(r, Solid(u)) # {}
    /\ balance[u] = Closing(Solid(u))

\* An open transaction that writes the user document will have the last row.
Later(c) ==
    /\ call[c].pc = "written" /\ WritesUser(c) => \A r \in Solid(Op[c].user) : r.at < call[c].at
    /\ call[c].pc \in {"read", "written"} => call[c].snap \in Int
    /\ call[c].pc = "read" /\ call[c].snap # 0 => Solid(Op[c].user) # {}
    /\ call[c].pc = "written" /\ call[c].snap # 0 =>
          \E r \in Solid(Op[c].user) : r.at < call[c].at

Judged ==
    /\ {"pc", "overlap", "report"} \subseteq DOMAIN audit
    /\ audit.pc = "user read" =>
          /\ audit.of \in Users /\ audit.seen \in Nat /\ audit.seen <= version[audit.of]
          /\ audit.seen = version[audit.of] => audit.balance = balance[audit.of]
    /\ audit.pc = "done" /\ audit.report # {} => audit.overlap

AuditInv ==
    replicaSet => (\A u \in Users : LinkedRows(u)) /\ (\A c \in Calls : Later(c)) /\ Judged

\* Rows R with a createdAt each.
Dated(R, n) ==
    /\ n \in Nat /\ \A r \in R : r.at \in Nat /\ r.at <= n
    /\ \A r, s \in R : r.at = s.at => r = s

LEMMA ClosingIs ==
  ASSUME NEW R, NEW n, Dated(R, n), NEW p \in R, \A s \in R : s.at <= p.at
  PROVE  Closing(R) = p.after
  <1> DEFINE m == CHOOSE r \in R : \A s \in R : s.at <= r.at
  <1>1. m \in R /\ \A s \in R : s.at <= m.at
    OBVIOUS
  <1>2. Closing(R) = m.after
    BY DEF Closing
  <1> HIDE DEF m
  <1>3. m.at = p.at
    BY <1>1 DEF Dated
  <1>4. m = p
    BY <1>1, <1>3 DEF Dated
  <1>5. QED
    BY <1>2, <1>4

LEMMA ClosingNone == Closing({}) = 0
  BY DEF Closing

LEMMA HasLast ==
  ASSUME NEW R, NEW n, Dated(R, n), R # {}
  PROVE  \E p \in R : (\A s \in R : s.at <= p.at) /\ Closing(R) = p.after
  <1> DEFINE T == {n - r.at : r \in R}
  <1>1. T \in SUBSET Nat /\ T # {}
    BY DEF Dated
  <1>2. PICK k \in T : \A j \in T : k <= j
    BY <1>1, HasLeast
  <1>3. PICK p \in R : k = n - p.at
    BY <1>2
  <1>4. ASSUME NEW s \in R
        PROVE  s.at <= p.at
    <2>1. n - p.at <= n - s.at
      BY <1>2, <1>3
    <2>2. QED
      BY <2>1 DEF Dated
  <1>5. QED
    BY <1>4, ClosingIs

LEMMA IssuesNone ==
  ASSUME NEW R, NEW b
  PROVE  Issues(R, b) = {} <=> /\ \A r \in R : r.before = Closing(Earlier(r, R))
                               /\ \A r \in R : r.after = r.before + Delta(r.type, r.amount)
                               /\ b = Closing(R)
  BY DEF Issues

\* Rows S that follow one another, and charges among them that continue the row before: an
\* audit finds all of them in order.
LEMMA RowsInOrder ==
  ASSUME NEW R, NEW S \in SUBSET R, NEW n, Dated(R, n),
         \A r \in S : r.before = Closing(Earlier(r, S)),
         \A r \in R \ S : /\ r.type = "bid_charge" /\ r.after = r.before
                          /\ r.before # 0 => Earlier(r, S) # {},
         \A r \in R : ~Misplaced(r, R)
  PROVE  /\ \A r \in R : r.before = Closing(Earlier(r, R))
         /\ Closing(R) = Closing(S)
  <1> DEFINE UpTo(a) == {s \in S : s.at <= a}
  <1>0. \A r \in R : r.at \in Nat
    BY DEF Dated
  <1>1. ASSUME NEW Q \in SUBSET R
        PROVE  Dated(Q, n)
    BY DEF Dated
  <1>2. ASSUME NEW r \in R, Earlier(r, R) # {}
        PROVE  \E p \in R : /\ p.at < r.at /\ Closing(Earlier(r, R)) = p.after
                            /\ Earlier(r, S) = UpTo(p.at)
    <2>1. Earlier(r, R) \in SUBSET R
      BY DEF Earlier
    <2>2. PICK p \in Earlier(r, R) : /\ \A s \in Earlier(r, R) : s.at <= p.at
                                     /\ Closing(Earlier(r, R)) = p.after
      BY <1>1, <1>2, <2>1, HasLast
    <2>3. p \in R /\ p.at < r.at
      BY <2>2 DEF Earlier
    <2>4. \A s \in S : s.at < r.at <=> s.at <= p.at
      BY <1>0, <2>2, <2>3 DEF Earlier
    <2>5. Earlier(r, S) = UpTo(p.at)
      BY <2>4 DEF Earlier
    <2>6. QED
      BY <2>2, <2>3, <2>5
  <1>3. ASSUME NEW r \in R, Earlier(r, R) = {}
        PROVE  r.before = 0 /\ Earlier(r, S) = {}
    <2>1. Earlier(r, S) = {}
      BY <1>3 DEF Earlier
    <2>2. CASE r \in S
      BY <2>1, <2>2, ClosingNone
    <2>3. CASE r \notin S
      BY <2>1, <2>3
    <2>4. QED
      BY <2>1, <2>2, <2>3
  <1>4. ASSUME NEW r \in R, r \notin S
        PROVE  UpTo(r.at) = Earlier(r, S)
    <2>1. \A s \in S : s.at # r.at
      BY <1>4 DEF Dated
    <2>2. \A s \in S : s.at <= r.at <=> s.at < r.at
      BY <1>0, <2>1
    <2>3. QED
      BY <2>2 DEF Earlier
  <1>5. ASSUME NEW r \in R, r \in S
        PROVE  Closing(UpTo(r.at)) = r.after
    <2>1. r \in UpTo(r.at) /\ \A s \in UpTo(r.at) : s.at <= r.at
      BY <1>0, <1>5
    <2>2. UpTo(r.at) \in SUBSET R
      OBVIOUS
    <2> HIDE DEF UpTo
    <2>3. QED
      BY <1>1, <2>1, <2>2, ClosingIs
  <1>6. \A r \in R : Closing(UpTo(r.at)) = r.after
    <2> DEFINE Bad == {r \in R : Closing(UpTo(r.at)) # r.after}
               T == {r.at : r \in Bad}
    <2>1. SUFFICES ASSUME Bad # {}
                   PROVE  FALSE
      OBVIOUS
    <2>2. T \in SUBSET Nat /\ T # {}
      BY <1>0, <2>1
    <2>3. PICK m \in T : \A k \in T : m <= k
      BY <2>2, HasLeast
    <2>4. PICK r \in Bad : r.at = m
      BY <2>3
    <2>5. r \in R /\ Closing(UpTo(r.at)) # r.after
      BY <2>4
    <2>6. r \notin S
      BY <1>5, <2>5
    <2>7. UpTo(r.at) = Earlier(r, S) /\ r.type = "bid_charge" /\ r.after = r.before
      BY <1>4, <2>5, <2>6
    <2>8. CASE Earlier(r, R) = {}
      BY <1>3, <2>5, <2>7, <2>8, ClosingNone
    <2>9. CASE Earlier(r, R) # {}
      <3>1. PICK p \in R : /\ p.at < r.at /\ Closing(Earlier(r, R)) = p.after
                           /\ Earlier(r, S) = UpTo(p.at)
        BY <1>2, <2>5, <2>9
      <3>2. r.before = p.after
        BY <2>5, <2>7, <2>9, <3>1 DEF Misplaced
      <3>3. p \notin Bad
        <4>1. SUFFICES ASSUME p \in Bad
                       PROVE  FALSE
          OBVIOUS
        <4>2. p.at \in T
          BY <4>1
        <4>3. m <= p.at
          BY <2>3, <4>2
        <4>4. QED
          BY <1>0, <2>4, <2>5, <3>1, <4>3
      <3>4. Closing(UpTo(p.at)) = p.after
        BY <3>3
      <3>5. QED
        BY <2>5, <2>7, <3>1, <3>2, <3>4
    <2>10. QED
      BY <2>8, <2>9
  <1>7. ASSUME NEW r \in R
        PROVE  r.before = Closing(Earlier(r, R))
    <2>1. CASE Earlier(r, R) = {}
      BY <1>3, <2>1, ClosingNone
    <2>2. CASE Earlier(r, R) # {} /\ r \in S
      <3>1. PICK p \in R : /\ p.at < r.at /\ Closing(Earlier(r, R)) = p.after
                           /\ Earlier(r, S) = UpTo(p.at)
        BY <1>2, <2>2
      <3>2. Closing(UpTo(p.at)) = p.after
        BY <1>6
      <3>3. QED
        BY <2>2, <3>1, <3>2
    <2>3. CASE Earlier(r, R) # {} /\ r \notin S
      BY <2>3 DEF Misplaced
    <2>4. QED
      BY <2>1, <2>2, <2>3
  <1>8. Closing(R) = Closing(S)
    <2>1. CASE R = {}
      BY <2>1
    <2>2. CASE R # {}
      <3>1. PICK p \in R : (\A s \in R : s.at <= p.at) /\ Closing(R) = p.after
        BY <2>2, HasLast
      <3>2. UpTo(p.at) = S
        BY <3>1
      <3>3. QED
        BY <1>6, <3>1, <3>2
    <2>3. QED
      BY <2>1, <2>2
  <1>9. QED
    BY <1>7, <1>8

LEMMA RowsDated ==
  ASSUME BalanceInv, NEW u \in Users, LinkedRows(u)
  PROVE  Dated(rows[u], clock[u]) /\ Dated(Solid(u), clock[u]) /\ Solid(u) \in SUBSET rows[u]
  BY DEF BalanceInv, Stamped, LinkedRows, Dated, Solid

LEMMA SolidRests ==
  ASSUME NEW u, rows'[u] = rows[u]
  PROVE  Solid(u)' = Solid(u)
  BY DEF Solid

LEMMA LinkedRests ==
  ASSUME NEW u, rows'[u] = rows[u], balance'[u] = balance[u], LinkedRows(u)
  PROVE  LinkedRows(u)'
  BY SolidRests DEF LinkedRows, Earlier, Closing

LEMMA LaterRests ==
  ASSUME NEW c \in Calls, call'[c] = call[c], Solid(Op[c].user)' = Solid(Op[c].user), Later(c)
  PROVE  Later(c)'
  BY DEF Later, WritesUser

LEMMA JudgedRests ==
  ASSUME UNCHANGED <<audit, version, balance>>, Judged
  PROVE  Judged'
  BY DEF Judged

\* With a replica set every balance is an integer.
LEMMA BalanceIsInt ==
  ASSUME BalanceInv, replicaSet, NEW u \in Users
  PROVE  balance[u] \in Int
  <1>1. IsFiniteSet(Pend(u)) /\ balance[u] = Total(rows[u]) + Total(Pend(u))
    BY DEF BalanceInv, Money, Even
  <1>2. Total(Pend(u)) \in Int
    BY <1>1, PendRows
  <1>3. Total(rows[u]) \in Int
    BY TotalIsInt DEF BalanceInv, Stamped
  <1>4. QED
    BY <1>1, <1>2, <1>3

LEMMA RestsAudit ==
  ASSUME AnswerInv, BalanceInv, AuditInv, replicaSet, NEW c \in Calls, Rests(c), UNCHANGED audit
  PROVE  AuditInv'
  <1>1. (\A u \in Users : LinkedRows(u)) /\ (\A d \in Calls : Later(d)) /\ Judged
    BY DEF AuditInv
  <1>2. UNCHANGED <<balance, version, rows>>
    BY DEF Rests
  <1>3. \A u \in Users : LinkedRows(u)' /\ Solid(u)' = Solid(u)
    BY <1>1, <1>2, LinkedRests, SolidRests
  <1>4. \A d \in Calls \ {c} : Later(d)'
    BY <1>1, <1>3, LaterRests, UserOf DEF Rests, Alone
  <1>5. Later(c)'
    <2>1. CASE call'[c].pc # "read"
      BY <2>1 DEF Rests, Later
    <2>2. CASE call'[c].pc = "read"
      <3>1. call'[c].snap = balance[Op[c].user] /\ Op[c].user \in Users
        BY <2>2, UserOf DEF Rests
      <3>2. call'[c].snap \in Int
        BY <3>1, BalanceIsInt
      <3>3. call'[c].snap = Closing(Solid(Op[c].user))
        BY <1>1, <3>1 DEF LinkedRows
      <3>4. call'[c].snap # 0 => Solid(Op[c].user) # {}
        BY <3>3, ClosingNone
      <3>5. Solid(Op[c].user)' = Solid(Op[c].user)
        BY <1>3, <3>1
      <3>6. QED
        BY <2>2, <3>2, <3>4, <3>5 DEF Later
    <2>3. QED
      BY <2>1, <2>2
  <1>6. QED
    BY <1>1, <1>2, <1>3, <1>4, <1>5, JudgedRests DEF AuditInv

LEMMA WriteAudit ==
  ASSUME AnswerInv, BalanceInv, AuditInv, NEW c \in Calls, Write(c)
  PROVE  AuditInv'
  <1> DEFINE u == Op[c].user
  <1>1. /\ (\A v \in Users : LinkedRows(v)) /\ (\A d \in Calls : Later(d)) /\ Judged /\ Stamped
        /\ u \in Users
    BY UserOf DEF AuditInv, Write, BalanceInv
  <1>2. /\ call[c].pc = "read" /\ UNCHANGED <<balance, version, rows, audit>>
        /\ clock' = [clock EXCEPT ![u] = @ + 1]
        /\ call' = [call EXCEPT ![c].pc = "written", ![c].at = clock'[u]]
    BY DEF Write
  <1>3. clock'[u] = clock[u] + 1 /\ clock[u] \in Nat
    BY <1>1, <1>2 DEF Stamped
  <1>4. /\ \A d \in Calls \ {c} : call'[d] = call[d]
        /\ call'[c].pc = "written" /\ call'[c].at = clock[u] + 1 /\ call'[c].snap = call[c].snap
    BY <1>2, <1>3 DEF AnswerInv, Fields
  <1>5. \A v \in Users : LinkedRows(v)' /\ Solid(v)' = Solid(v)
    BY <1>1, <1>2, LinkedRests, SolidRests
  <1>6. \A d \in Calls \ {c} : Later(d)'
    BY <1>1, <1>4, <1>5, LaterRests, UserOf
  <1>7. Later(c)'
    <2>1. \A r \in Solid(u) : r.at < clock[u] + 1
      BY <1>1, <1>3 DEF Stamped, Solid
    <2>2. call[c].snap \in Int /\ (call[c].snap # 0 => Solid(u) # {})
      BY <1>1, <1>2 DEF Later
    <2>3. Solid(u)' = Solid(u)
      BY <1>1, <1>5
    <2>4. QED
      BY <1>4, <2>1, <2>2, <2>3 DEF Later
  <1>8. QED
    BY <1>1, <1>2, <1>5, <1>6, <1>7, JudgedRests DEF AuditInv

\* A row x is added to those of u.
LEMMA LinkedGrows ==
  ASSUME BalanceInv, NEW u \in Users, LinkedRows(u), NEW x,
         rows'[u] = rows[u] \union {x}, \A r \in rows[u] : r.at # x.at, x.at \in Nat,
         x.after = x.before + Delta(x.type, x.amount),
         \/ /\ x.type # "bid_charge" /\ x.before = balance[u] /\ balance'[u] = x.after
            /\ \A r \in Solid(u) : r.at < x.at
         \/ /\ x.type = "bid_charge" /\ x.by \in Calls /\ x.after = x.before
            /\ x.before # 0 => \E r \in Solid(u) : r.at < x.at
            /\ balance'[u] = balance[u]
  PROVE  LinkedRows(u)' /\ Solid(u) \in SUBSET Solid(u)'
                        /\ (x.type = "bid_charge" => Solid(u)' = Solid(u))
  <1>1. /\ \A r, s \in rows[u] : r.at = s.at => r = s
        /\ \A r \in rows[u] : r.after = r.before + Delta(r.type, r.amount)
        /\ \A r \in Solid(u) : r.before = Closing(Earlier(r, Solid(u)))
        /\ \A r \in rows[u] \ Solid(u) : /\ r.after = r.before
                                         /\ r.before # 0 => Earlier(r, Solid(u)) # {}
        /\ balance[u] = Closing(Solid(u))
    BY DEF LinkedRows
  <1>2. \A r, s \in rows'[u] : r.at = s.at => r = s
    BY <1>1
  <1>3. \A r \in rows'[u] : r.after = r.before + Delta(r.type, r.amount)
    BY <1>1
  <1>4. x \notin rows[u] /\ \A r \in rows[u] : r.at \in Nat
    BY DEF BalanceInv, Stamped
  <1>5. Solid(u) \in SUBSET rows[u]
    BY DEF Solid
  <1>6. CASE x.type # "bid_charge"
    <2>1. /\ x.before = balance[u] /\ balance'[u] = x.after
          /\ \A r \in Solid(u) : r.at < x.at
      BY <1>6
    <2>2. Solid(u)' = Solid(u) \union {x}
      BY <1>6 DEF Solid
    <2> DEFINE S == Solid(u)
               Q == S \union {x}
    <2>3. \A r \in S : Earlier(r, Q) = Earlier(r, S)
      <3>1. \A r \in S : ~(x.at < r.at)
        BY <1>4, <1>5, <2>1
      <3>2. QED
        BY <3>1 DEF Earlier
    <2>4. Earlier(x, Q) = S
      <3>1. ~(x.at < x.at)
        OBVIOUS
      <3>2. QED
        BY <2>1, <3>1 DEF Earlier
    <2>5. \A r \in Q : r.before = Closing(Earlier(r, Q))
      BY <1>1, <2>1, <2>3, <2>4
    <2>6. \A r \in rows'[u] \ Q : /\ r.after = r.before
                                  /\ r.before # 0 => Earlier(r, Q) # {}
      <3>1. \A r : Earlier(r, S) \in SUBSET Earlier(r, Q)
        BY DEF Earlier
      <3>2. QED
        BY <1>1, <3>1
    <2>7. Closing(Q) = x.after
      <3>1. \A r \in Q : r.at \in Nat /\ r.at <= x.at
        BY <1>4, <1>5, <2>1
      <3>2. \A r, s \in Q : r.at = s.at => r = s
        BY <1>2, <1>5
      <3>3. Dated(Q, x.at)
        BY <3>1, <3>2 DEF Dated
      <3>4. QED
        BY <3>1, <3>3, ClosingIs
    <2>8. QED
      BY <1>2, <1>3, <1>6, <2>1, <2>2, <2>5, <2>6, <2>7 DEF LinkedRows
  <1>7. CASE x.type = "bid_charge"
    <2>1. /\ x.by \in Calls /\ x.after = x.before
          /\ x.before # 0 => \E r \in Solid(u) : r.at < x.at
          /\ balance'[u] = balance[u]
      BY <1>7
    <2>2. Solid(u)' = Solid(u)
      BY <1>7, <2>1 DEF Solid
    <2>3. x.before # 0 => Earlier(x, Solid(u)) # {}
      BY <2>1 DEF Earlier
    <2>4. \A r \in rows'[u] \ Solid(u) : /\ r.after = r.before
                                         /\ r.before # 0 => Earlier(r, Solid(u)) # {}
      BY <1>1, <2>1, <2>3
    <2>5. QED
      BY <1>1, <1>2, <1>3, <2>1, <2>2, <2>4 DEF LinkedRows
  <1>8. QED
    BY <1>6, <1>7

LEMMA EffectAudit ==
  ASSUME AnswerInv, BalanceInv, AuditInv, NEW c \in Calls, call[c].pc = "written",
         TakesEffect(c), UNCHANGED audit, Alone(c), call'[c].pc \in {"ok", "error", "idle"}
  PROVE  AuditInv'
  <1> DEFINE u == Op[c].user
             x == RowOf(c, call[c].at)
  <1>1. /\ Stamped /\ Fresh(c) /\ Seen(c) /\ replicaSet /\ u \in Users
    BY UserOf DEF BalanceInv, Fair, Mode
  <1>2. (\A v \in Users : LinkedRows(v)) /\ (\A d \in Calls : Later(d)) /\ Judged
    BY <1>1 DEF AuditInv
  <1>3. /\ x.at = call[c].at /\ x.by = c /\ x.type = Op[c].kind /\ x.before = call[c].snap
        /\ x.after = call[c].snap + Change(c) /\ Change(c) = Delta(x.type, x.amount)
        /\ WritesUser(c) <=> x.type # "bid_charge"
        /\ ~WritesUser(c) => Change(c) = 0
    BY WorthOfCall DEF RowOf, NewBalance, Change, WritesUser
  <1>4. /\ rows' = [rows EXCEPT ![u] = @ \union {x}] /\ DOMAIN rows = Users
        /\ balance' = IF WritesUser(c) THEN [balance EXCEPT ![u] = x.after] ELSE balance
        /\ version' = IF WritesUser(c) THEN [version EXCEPT ![u] = @ + 1] ELSE version
    BY <1>3 DEF TakesEffect, AnswerInv, NewBalance
  <1>5. call[c].snap \in Int
    BY <1>2 DEF Later
  <1> HIDE DEF x
  <1>6. /\ rows'[u] = rows[u] \union {x} /\ \A v \in Users \ {u} : rows'[v] = rows[v]
        /\ \A v \in Users \ {u} : balance'[v] = balance[v] /\ version'[v] = version[v]
        /\ WritesUser(c) => balance'[u] = x.after /\ version'[u] = version[u] + 1
        /\ ~WritesUser(c) => UNCHANGED <<balance, version>>
        /\ version[u] \in Nat
    <2>1. CASE WritesUser(c)
      BY <1>1, <1>4, <2>1 DEF Stamped
    <2>2. CASE ~WritesUser(c)
      BY <1>1, <1>4, <2>2 DEF Stamped
    <2>3. QED
      BY <2>1, <2>2
  <1>7. /\ LinkedRows(u)' /\ Solid(u) \in SUBSET Solid(u)'
        /\ ~WritesUser(c) => Solid(u)' = Solid(u)
    <2>1. \A r \in rows[u] : r.at # x.at
      BY <1>1, <1>3 DEF Fresh
    <2>2. x.at \in Nat /\ x.after = x.before + Delta(x.type, x.amount)
      BY <1>1, <1>3 DEF Fresh
    <2>3. CASE WritesUser(c)
      <3>1. x.before = balance[u]
        BY <1>1, <1>3, <2>3 DEF Seen
      <3>2. \A r \in Solid(u) : r.at < x.at
        BY <1>2, <1>3, <2>3 DEF Later
      <3>3. QED
        BY <1>1, <1>2, <1>3, <1>6, <2>1, <2>2, <2>3, <3>1, <3>2, LinkedGrows
    <2>4. CASE ~WritesUser(c)
      <3>1. x.after = x.before
        BY <1>3, <1>5, <2>4
      <3>2. x.before # 0 => \E r \in Solid(u) : r.at < x.at
        BY <1>2, <1>3 DEF Later
      <3>3. QED
        BY <1>1, <1>2, <1>3, <1>6, <2>1, <2>2, <2>4, <3>1, <3>2, LinkedGrows
    <2>5. QED
      BY <2>3, <2>4
  <1>8. \A v \in Users \ {u} : LinkedRows(v)' /\ Solid(v)' = Solid(v)
    BY <1>2, <1>6, LinkedRests, SolidRests
  <1>9. ASSUME NEW d \in Calls
        PROVE  Later(d)'
    <2>1. CASE d = c
      BY <2>1 DEF Later
    <2>2. CASE d # c /\ Op[d].user # u
      <3>1. Solid(Op[d].user)' = Solid(Op[d].user)
        BY <1>8, <2>2, UserOf
      <3>2. QED
        BY <1>2, <2>2, <3>1, LaterRests DEF Alone
    <2>3. CASE d # c /\ Op[d].user = u
      <3>1. call'[d] = call[d] /\ Later(d)
        BY <1>2, <2>3 DEF Alone
      <3>2. CASE ~WritesUser(c)
        <4>1. Solid(Op[d].user)' = Solid(Op[d].user)
          BY <1>7, <2>3, <3>2
        <4>2. QED
          BY <3>1, <4>1, LaterRests
      <3>3. CASE WritesUser(c)
        <4>1. ~(call[d].pc = "written" /\ WritesUser(d))
          BY <1>1, <2>3, <3>3 DEF Seen
        <4>2. QED
          BY <1>7, <2>3, <3>1, <4>1 DEF Later, WritesUser
      <3>4. QED
        BY <3>2, <3>3
    <2>4. QED
      BY <2>1, <2>2, <2>3
  <1>10. Judged'
    <2>1. CASE ~WritesUser(c)
      BY <1>2, <1>6, <2>1, JudgedRests
    <2>2. CASE WritesUser(c)
      <3>1. audit.pc = "user read" =>
               /\ audit.of \in Users /\ audit.seen \in Nat /\ audit.seen <= version'[audit.of]
               /\ audit.seen = version'[audit.of] => audit.balance = balance'[audit.of]
        <4>1. CASE audit.pc = "user read" /\ audit.of = u
          <5>1. audit.seen \in Nat /\ audit.seen <= version[u]
            BY <1>2, <4>1 DEF Judged
          <5>2. version'[u] = version[u] + 1 /\ version[u] \in Nat
            BY <1>6, <2>2
          <5>3. audit.seen <= version'[u] /\ audit.seen # version'[u]
            BY <5>1, <5>2
          <5>4. QED
            BY <1>1, <4>1, <5>1, <5>3
        <4>2. CASE audit.pc = "user read" /\ audit.of # u
          BY <1>2, <1>6, <4>2 DEF Judged
        <4>3. QED
          BY <4>1, <4>2
      <3>2. QED
        BY <1>2, <3>1 DEF Judged
    <2>3. QED
      BY <2>1, <2>2
  <1>11. QED
    BY <1>7, <1>8, <1>9, <1>10 DEF AuditInv

LEMMA CallAudit ==
  ASSUME AnswerInv, BalanceInv, AuditInv, NEW c \in Calls, Started(c) \/ CallStep(c)
  PROVE  AuditInv'
  <1>1. UNCHANGED <<replicaSet, audit>>
    BY DEF Started, CallStep, Begin, Write, Commit, WriteRefused, UnknownCommit, Save, Insert, Lose
  <1>2. CASE ~replicaSet
    BY <1>1, <1>2 DEF AuditInv
  <1>3. CASE replicaSet /\ Begin(c)
    BY <1>1, <1>3, BeginRests, RestsAudit
  <1>4. CASE Write(c)
    BY <1>4, WriteAudit
  <1>5. CASE Commit(c)
    BY <1>1, <1>5, GoesAlone, EffectAudit DEF Commit
  <1>6. CASE replicaSet /\ WriteRefused(c)
    BY <1>1, <1>6, RefusedRests, RestsAudit
  <1>7. CASE replicaSet /\ UnknownCommit(c)
    <2>1. Alone(c) /\ call'[c].pc \in {"error", "idle"} /\ call[c].pc = "written"
      BY <1>7, UnknownEnds DEF UnknownCommit
    <2>2. CASE TakesEffect(c)
      BY <1>1, <2>1, <2>2, EffectAudit
    <2>3. CASE UNCHANGED <<balance, version, rows>>
      <3>1. Rests(c)
        BY <1>1, <1>7, <2>1, <2>3 DEF Rests, UnknownCommit
      <3>2. QED
        BY <1>1, <1>7, <3>1, RestsAudit
    <2>4. QED
      BY <1>7, <2>2, <2>3 DEF UnknownCommit
  <1>8. CASE replicaSet /\ Lose(c)
    <2>1. /\ Alone(c) /\ call'[c].pc = "lost" /\ lost' = lost + 1
          /\ UNCHANGED <<replicaSet, balance, version, rows, clock>>
      BY <1>8, GoesAlone DEF Lose
    <2>2. Rests(c)
      BY <2>1 DEF Rests
    <2>3. QED
      BY <1>1, <1>8, <2>2, RestsAudit
  <1>9. ~(replicaSet /\ (Save(c) \/ Insert(c)))
    BY DEF Save, Insert
  <1>10. QED
    BY <1>2, <1>3, <1>4, <1>5, <1>6, <1>7, <1>8, <1>9 DEF Started, CallStep

LEMMA LedgerRestsAudit ==
  ASSUME AuditInv, UNCHANGED <<replicaSet, balance, version, rows, call>>, replicaSet => Judged'
  PROVE  AuditInv'
  <1>1. CASE ~replicaSet
    BY <1>1 DEF AuditInv
  <1>2. CASE replicaSet
    <2>1. \A u \in Users : LinkedRows(u)'
      BY <1>2, LinkedRests DEF AuditInv
    <2>2. \A c \in Calls : Later(c)'
      BY <1>2, SolidRests, LaterRests, UserOf DEF AuditInv
    <2>3. QED
      BY <1>2, <2>1, <2>2 DEF AuditInv
  <1>3. QED
    BY <1>1, <1>2

\* An audit that read the user and the rows with no commit between them, and no row of a charge
\* that is misplaced, has nothing to report.
LEMMA AuditJudges ==
  ASSUME BalanceInv, AuditInv, NEW u \in Users, Auditing(u)
  PROVE  AuditInv'
  <1>1. /\ replicaSet /\ (\A v \in Users : LinkedRows(v)) /\ Judged
        /\ UNCHANGED <<replicaSet, balance, version, rows, call>>
    BY DEF Auditing, AuditReadsUser, AuditReadsRows, AuditInv
  <1>2. SUFFICES Judged'
    BY <1>1, LedgerRestsAudit
  <1>3. CASE AuditReadsUser(u)
    <2>1. audit' = [pc |-> "user read", of |-> u, balance |-> balance[u], seen |-> version[u],
                    overlap |-> FALSE, report |-> {}]
      BY <1>3 DEF AuditReadsUser
    <2>2. version[u] \in Nat
      BY DEF BalanceInv, Stamped
    <2>3. /\ audit'.pc = "user read" /\ audit'.of = u /\ audit'.seen = version'[u]
          /\ audit'.balance = balance'[u] /\ {"pc", "overlap", "report"} \subseteq DOMAIN audit'
      BY <1>1, <2>1
    <2>4. version'[u] \in Nat
      BY <1>1, <2>2
    <2> DEFINE v == version'[u]
               b == balance'[u]
    <2>5. version'[audit'.of] = v /\ balance'[audit'.of] = b
      BY <2>3
    <2>6. audit'.seen = v /\ audit'.balance = b /\ v \in Nat
      BY <2>3, <2>4
    <2> HIDE DEF v, b
    <2>7. v <= v
      BY <2>6
    <2>8. audit'.seen \in Nat /\ audit'.seen <= version'[audit'.of]
      BY <2>5, <2>6, <2>7
    <2>9. audit'.balance = balance'[audit'.of] /\ audit'.of \in Users
      BY <2>3, <2>5, <2>6
    <2>10. audit'.pc # "done"
      BY <2>3
    <2>11. QED
      BY <2>3, <2>8, <2>9, <2>10 DEF Judged
  <1>4. CASE AuditReadsRows(u)
    <2> DEFINE o == version[u] # audit.seen \/ \E r \in rows[u] : Misplaced(r, rows[u])
               i == Issues(rows[u], audit.balance)
    <2>1. /\ audit.pc = "user read" /\ audit.of = u
          /\ audit' = [audit EXCEPT !.pc = "done", !.overlap = o, !.report = i]
      BY <1>4 DEF AuditReadsRows
    <2>2. i = {} \/ o
      <3>1. SUFFICES ASSUME version[u] = audit.seen, \A r \in rows[u] : ~Misplaced(r, rows[u])
                     PROVE  i = {}
        OBVIOUS
      <3>2. audit.balance = balance[u]
        BY <1>1, <2>1, <3>1 DEF Judged
      <3>3. /\ \A r \in Solid(u) : r.before = Closing(Earlier(r, Solid(u)))
            /\ \A r \in rows[u] \ Solid(u) : /\ r.after = r.before
                                             /\ r.before # 0 => Earlier(r, Solid(u)) # {}
            /\ \A r \in rows[u] : r.after = r.before + Delta(r.type, r.amount)
            /\ balance[u] = Closing(Solid(u))
        BY <1>1 DEF LinkedRows
      <3>4. \A r \in rows[u] \ Solid(u) : r.type = "bid_charge"
        BY DEF Solid
      <3>5. Dated(rows[u], clock[u]) /\ Solid(u) \in SUBSET rows[u]
        BY <1>1, RowsDated
      <3>6. /\ \A r \in rows[u] : r.before = Closing(Earlier(r, rows[u]))
            /\ Closing(rows[u]) = Closing(Solid(u))
        BY <3>1, <3>3, <3>4, <3>5, RowsInOrder
      <3>7. QED
        BY <3>2, <3>3, <3>6, IssuesNone
    <2> HIDE DEF o, i
    <2>3. /\ audit'.pc = "done" /\ audit'.report = i /\ audit'.overlap = o
          /\ {"pc", "overlap", "report"} \subseteq DOMAIN audit'
      BY <1>1, <2>1 DEF Judged
    <2>4. QED
      BY <2>2, <2>3 DEF Judged
  <1>5. QED
    BY <1>3, <1>4 DEF Auditing

LEMMA AuditInit == Init => AuditInv
  <1> SUFFICES ASSUME Init PROVE AuditInv
    OBVIOUS
  <1>1. ASSUME NEW u \in Users
        PROVE  LinkedRows(u)
    <2> DEFINE R == Opening[u].rows
    <2>1. rows[u] = R /\ balance[u] = Opening[u].balance
      BY DEF Init
    <2>2. /\ Issues(R, Opening[u].balance) = {} /\ \A r, s \in R : r.at = s.at => r = s
          /\ \A r \in R : r.by \notin Calls
      BY StandaloneAssumption
    <2> HIDE DEF R
    <2>3. Solid(u) = rows[u]
      BY <2>1, <2>2 DEF Solid
    <2>4. /\ \A r \in R : r.before = Closing(Earlier(r, R))
          /\ \A r \in R : r.after = r.before + Delta(r.type, r.amount)
          /\ balance[u] = Closing(R)
      BY <2>1, <2>2, IssuesNone
    <2>5. QED
      BY <2>1, <2>2, <2>3, <2>4 DEF LinkedRows
  <1>2. \A c \in Calls : Later(c)
    BY DEF Init, Idle, Later
  <1>3. Judged
    BY DEF Init, NoAudit, Judged
  <1>4. QED
    BY <1>1, <1>2, <1>3 DEF AuditInv

LEMMA AuditNext == IInv /\ AnswerInv /\ BalanceInv /\ AuditInv /\ [Next]_vars => AuditInv'
  <1> SUFFICES ASSUME IInv, AnswerInv, BalanceInv, AuditInv, [Next]_vars PROVE AuditInv'
    OBVIOUS
  <1>1. CASE \E c \in Calls : Started(c) \/ CallStep(c)
    BY <1>1, CallAudit
  <1>2. CASE \E u \in Users : Auditing(u)
    BY <1>2, AuditJudges
  <1>3. UNCHANGED ledgerVars => AuditInv'
    <2>1. HAVE UNCHANGED ledgerVars
    <2>2. UNCHANGED <<replicaSet, balance, version, rows, call, audit>>
      BY <2>1 DEF ledgerVars
    <2>3. replicaSet => Judged'
      BY <2>2, JudgedRests DEF AuditInv
    <2>4. QED
      BY <2>2, <2>3, LedgerRestsAudit
  <1>4. CASE Completing
    BY <1>3, <1>4 DEF Completing, Load, MarkWinners, MarkLosers, AwaitRefunds, OpenNextRound,
           SaveAuction, SaveRound, unchangedLedger
  <1>5. CASE WorkerDies
    BY <1>5 DEF WorkerDies, AuditInv
  <1>6. CASE UNCHANGED vars
    BY <1>3, <1>6 DEF vars
  <1>7. QED
    BY <1>1, <1>2, <1>4, <1>5, <1>6 DEF Next

\* The inductive invariant: rows that change a balance continue one another, in the order of
\* their commits, and an open transaction that changes one will have the last row.
THEOREM AuditInductive == Spec => []AuditInv
  BY Invariance, AnswersInductive, BalancesInductive, AuditInit, AuditNext, PTL DEF Spec

\* An audit accuses nobody wrongly but for its two reads, torn by a commit, or for the row of a
\* charge, which recorded a balance that another transaction was changing
\* (balance-audit.service.ts, balance.service.ts charge).
THEOREM AuditsBlameOverlaps == Spec => []AuditBlamesOverlaps
  <1>1. AuditInv => AuditBlamesOverlaps
    BY DEF AuditInv, Judged, AuditBlamesOverlaps
  <1>2. QED
    BY AuditInductive, <1>1, PTL

-----------------------------------------------------------------------------
(* Outbox: the inductive invariant. *)

Statuses == {"pending", "processing", "published", "failed"}
OutboxRow == [id : O!Ids, status : Statuses, attempts : Nat, later : BOOLEAN]
Transactions == [pc : {"idle", "open", "committed", "done", "failed"}, try : 1..MaxTries]
Drains == [pc : {"off", "claim", "emit", "mark", "ending"}, job : {"none", "shared", "kick"},
           row : Nat, left : 0..Batch]
Troubles == [unmarked : Nat, unaudited : Nat, lostKicks : Nat, requests : Nat, crashes : Nat,
           ignored : Nat, silent : Nat]

OutboxTypes ==
    /\ tx \in [O!Completions -> Transactions]
    /\ committed \in SUBSET O!Ids
    /\ outbox \in Seq(OutboxRow)
    /\ shared \in {"none", "waiting", "active"} /\ kicks \in Nat
    /\ drain \in Drains
    /\ drain.pc \in {"emit", "mark"} => drain.row \in DOMAIN outbox
    /\ emitted \in SUBSET O!Ids /\ appends \in SUBSET O!Ids /\ auditLog \in SUBSET O!Ids
    /\ request \in {"none", "updated"}
    /\ count \in Troubles

\* A row for each committed event, and one only; nothing else is ever emitted.
RowsMatch ==
    /\ committed = {outbox[r].id : r \in DOMAIN outbox}
    /\ \A q, r \in DOMAIN outbox : outbox[q].id = outbox[r].id => q = r
    /\ emitted \subseteq committed

\* A row that cannot be claimed was claimed before.  Unless a process stopped, a row that was
\* claimed is emitted, or the drain is about to emit it ...
Claims ==
    /\ \A r \in DOMAIN outbox :
          /\ ~(outbox[r].status = "pending" /\ ~outbox[r].later) => outbox[r].attempts > 0
          /\ count.crashes = 0 /\ outbox[r].attempts > 0 =>
                outbox[r].id \in emitted \/ (drain.pc = "emit" /\ drain.row = r)
    /\ drain.pc \in {"emit", "mark"} => outbox[drain.row].attempts > 0
    \* ... and the rows before the one it is about to emit were claimed.
    /\ drain.pc = "emit" =>
          \A q \in DOMAIN outbox :
              q < drain.row /\ outbox[q].id \notin emitted =>
                 count.crashes > 0 /\ outbox[q].attempts > 0

OrderInv == OutboxTypes /\ RowsMatch /\ Claims /\ InOrder

-----------------------------------------------------------------------------
(* Outbox: rows, ids and the completion's transaction. *)

LEMMA OutboxNumbers ==
  /\ Events \in Seq(Seq(STRING)) /\ O!Completions = 1..Len(Events) /\ Len(Events) \in Nat
  /\ \A c \in O!Completions : /\ Len(Events[c]) \in 1..Batch
                              /\ DOMAIN Events[c] = 1..Len(Events[c])
                              /\ Len(Events[c]) \in Nat
  /\ MaxTries \in Nat \ {0} /\ Batch \in Nat \ {0}
  /\ MaxUnmarked \in Nat /\ MaxTroubles \in Nat
  BY BooksAssumption DEF O!OutboxAssumption, O!Completions

LEMMA IdIs ==
  ASSUME NEW c \in O!Completions, NEW t \in 1..MaxTries, NEW i \in 1..Len(Events[c])
  PROVE  <<c, t, i>> \in O!Ids
<1>1. i \in DOMAIN Events[c]
  BY OutboxNumbers
<1> QED
  BY <1>1 DEF O!Ids

LEMMA NewRow ==
  ASSUME NEW id \in O!Ids
  PROVE  O!Row(id) \in OutboxRow
  BY DEF O!Row, OutboxRow, Statuses

LEMMA NewRows ==
  ASSUME NEW c \in O!Completions, NEW t \in 1..MaxTries
  PROVE  /\ O!RowsOf(c, t) \in Seq(OutboxRow)
         /\ Len(O!RowsOf(c, t)) = Len(Events[c])
         /\ \A i \in 1..Len(Events[c]) :
               /\ O!RowsOf(c, t)[i] = O!Row(<<c, t, i>>)
               /\ O!RowsOf(c, t)[i].id = <<c, t, i>> /\ O!RowsOf(c, t)[i].status = "pending"
               /\ O!RowsOf(c, t)[i].attempts = 0 /\ ~O!RowsOf(c, t)[i].later
<1>1. Len(Events[c]) \in Nat
  BY OutboxNumbers
<1>2. \A i \in 1..Len(Events[c]) : O!Row(<<c, t, i>>) \in OutboxRow
  BY IdIs, NewRow
<1> QED
  BY <1>1, <1>2 DEF O!RowsOf, O!Row

\* A completion's first commit appends the rows of its events, whose ids are new.
Appends(c) ==
    /\ ~O!Completed(c)
    /\ committed' = committed \union {<<c, tx[c].try, i>> : i \in 1..Len(Events[c])}
    /\ outbox' = outbox \o O!RowsOf(c, tx[c].try)

LEMMA EffectIs ==
  ASSUME NEW c \in O!Completions, O!TakesEffect(c)
  PROVE  UNCHANGED <<committed, outbox>> \/ Appends(c)
  BY DEF O!TakesEffect, Appends

LEMMA Concatenated ==
  ASSUME NEW S, NEW s \in Seq(S), NEW e \in Seq(S)
  PROVE  /\ s \o e \in Seq(S) /\ Len(s \o e) = Len(s) + Len(e)
         /\ \A r \in 1..Len(s) : (s \o e)[r] = s[r]
         /\ \A r \in 1..Len(s \o e) : r > Len(s) => (s \o e)[r] = e[r - Len(s)]
  OBVIOUS

LEMMA Appended ==
  ASSUME OutboxTypes, NEW c \in O!Completions, Appends(c)
  PROVE  /\ committed' \in SUBSET O!Ids /\ outbox' \in Seq(OutboxRow)
         /\ Len(outbox') = Len(outbox) + Len(Events[c])
         /\ \A r \in DOMAIN outbox : r \in DOMAIN outbox' /\ outbox'[r] = outbox[r]
         /\ \A r \in DOMAIN outbox' \ DOMAIN outbox :
               /\ r > Len(outbox) /\ r - Len(outbox) \in 1..Len(Events[c])
               /\ outbox'[r] = O!Row(<<c, tx[c].try, r - Len(outbox)>>)
               /\ outbox'[r].id = <<c, tx[c].try, r - Len(outbox)>>
               /\ outbox'[r].status = "pending" /\ outbox'[r].attempts = 0 /\ ~outbox'[r].later
         /\ \A r \in DOMAIN outbox' \ DOMAIN outbox : outbox'[r].id \notin committed
<1> DEFINE t == tx[c].try
<1> DEFINE new == O!RowsOf(c, t)
<1>1. t \in 1..MaxTries
  BY DEF OutboxTypes, Transactions
<1>2. /\ new \in Seq(OutboxRow) /\ Len(new) = Len(Events[c]) /\ Len(Events[c]) \in Nat
      /\ \A i \in 1..Len(Events[c]) :
               /\ new[i] = O!Row(<<c, t, i>>)
               /\ new[i].id = <<c, t, i>> /\ new[i].status = "pending"
               /\ new[i].attempts = 0 /\ ~new[i].later
  BY <1>1, NewRows, OutboxNumbers
<1>3. outbox \in Seq(OutboxRow) /\ outbox' = outbox \o new
  BY DEF OutboxTypes, Appends
<1>4. committed' \in SUBSET O!Ids
  <2>1. \A i \in 1..Len(Events[c]) : <<c, t, i>> \in O!Ids
    BY <1>1, IdIs
  <2> QED
    BY <2>1 DEF OutboxTypes, Appends
<1> HIDE DEF new, t
<1>5. /\ outbox' \in Seq(OutboxRow) /\ Len(outbox') = Len(outbox) + Len(Events[c])
      /\ \A r \in 1..Len(outbox) : outbox'[r] = outbox[r]
      /\ \A r \in 1..Len(outbox') : r > Len(outbox) => outbox'[r] = new[r - Len(outbox)]
  <2>1. new \in Seq(OutboxRow) /\ outbox \in Seq(OutboxRow)
    BY <1>2, <1>3
  <2>2. /\ outbox \o new \in Seq(OutboxRow) /\ Len(outbox \o new) = Len(outbox) + Len(new)
        /\ \A r \in 1..Len(outbox) : (outbox \o new)[r] = outbox[r]
        /\ \A r \in 1..Len(outbox \o new) : r > Len(outbox) => (outbox \o new)[r] = new[r - Len(outbox)]
    BY <2>1, Concatenated
  <2> QED
    BY <1>2, <1>3, <2>2
<1>6. DOMAIN outbox = 1..Len(outbox) /\ DOMAIN outbox' = 1..Len(outbox') /\ Len(outbox) \in Nat
  BY <1>3, <1>5
<1>7. \A r \in DOMAIN outbox : r \in DOMAIN outbox' /\ outbox'[r] = outbox[r]
  BY <1>2, <1>5, <1>6
<1>8. \A r \in DOMAIN outbox' \ DOMAIN outbox :
         r > Len(outbox) /\ r - Len(outbox) \in 1..Len(Events[c]) /\ outbox'[r] = new[r - Len(outbox)]
  BY <1>2, <1>5, <1>6
<1>9. \A r \in DOMAIN outbox' \ DOMAIN outbox :
         /\ outbox'[r] = O!Row(<<c, t, r - Len(outbox)>>)
         /\ outbox'[r].id = <<c, t, r - Len(outbox)>>
         /\ outbox'[r].status = "pending" /\ outbox'[r].attempts = 0 /\ ~outbox'[r].later
  BY <1>2, <1>8
<1>10. \A r \in DOMAIN outbox' \ DOMAIN outbox : outbox'[r].id \notin committed
  <2>1. \A id \in committed : id[1] # c
    BY DEF Appends, O!Completed
  <2>2. \A i : <<c, t, i>>[1] = c
    OBVIOUS
  <2> QED
    BY <2>1, <2>2, <1>9
<1> QED
  BY <1>4, <1>5, <1>7, <1>8, <1>9, <1>10 DEF t

-----------------------------------------------------------------------------
(* Outbox: types and order. *)

LEMMA OrderInit == O!Init => OrderInv
<1> SUFFICES ASSUME O!Init PROVE OrderInv
  OBVIOUS
<1>1. OutboxTypes
  BY OutboxNumbers, EmptySeq DEF O!Init, O!Off, OutboxTypes, Transactions, Drains, Troubles
<1>2. DOMAIN outbox = {}
  BY DEF O!Init
<1>3. RowsMatch /\ Claims /\ InOrder
  BY <1>2 DEF O!Init, O!Off, RowsMatch, Claims, InOrder, O!InOrder
<1> QED
  BY <1>1, <1>3 DEF OrderInv

\* What a step that changes at most one row, other than its id, does to the outbox.
LEMMA OneRow ==
  ASSUME OutboxTypes, NEW r \in DOMAIN outbox, NEW row \in OutboxRow,
         outbox' = [outbox EXCEPT ![r] = row]
  PROVE  /\ outbox' \in Seq(OutboxRow) /\ DOMAIN outbox' = DOMAIN outbox
         /\ outbox'[r] = row /\ \A q \in DOMAIN outbox : q # r => outbox'[q] = outbox[q]
  BY DEF OutboxTypes

LEMMA RowType ==
  ASSUME OutboxTypes, NEW r \in DOMAIN outbox
  PROVE  /\ outbox[r] \in OutboxRow /\ outbox[r].id \in O!Ids /\ r \in 1..Len(outbox)
         /\ outbox[r].status \in Statuses /\ outbox[r].attempts \in Nat
         /\ outbox[r].later \in BOOLEAN
<1>1. outbox[r] \in OutboxRow /\ r \in 1..Len(outbox)
  BY DEF OutboxTypes
<1> QED
  BY <1>1 DEF OutboxRow

LEMMA CountType ==
  ASSUME count \in Troubles, NEW what \in {"unmarked", "unaudited", "lostKicks", "requests", "crashes", "ignored", "silent"},
         count' = [count EXCEPT ![what] = @ + 1]
  PROVE  /\ count' \in Troubles /\ count'[what] = count[what] + 1
         /\ \A w \in DOMAIN count : w # what => count'[w] = count[w]
  BY DEF Troubles

LEMMA CountFields ==
  ASSUME count \in Troubles
  PROVE  /\ count.unmarked \in Nat /\ count.unaudited \in Nat /\ count.lostKicks \in Nat
         /\ count.requests \in Nat /\ count.crashes \in Nat /\ count.ignored \in Nat
         /\ count.silent \in Nat
  BY DEF Troubles



\* A row changes, and its id does not.
Rewrites(r) ==
    /\ outbox' \in Seq(OutboxRow) /\ DOMAIN outbox' = DOMAIN outbox
    /\ \A q \in DOMAIN outbox : q # r => outbox'[q] = outbox[q]
    /\ outbox'[r].id = outbox[r].id

LEMMA ClaimDoes ==
  ASSUME OutboxTypes, O!Claim
  PROVE  /\ drain.pc = "claim" /\ drain.left > 0
         /\ \E r \in DOMAIN outbox :
               /\ outbox[r].status = "pending" /\ ~outbox[r].later
               /\ \A q \in DOMAIN outbox : q < r => ~(outbox[q].status = "pending" /\ ~outbox[q].later)
               /\ Rewrites(r)
               /\ outbox'[r].status = "processing" /\ outbox'[r].later = outbox[r].later
               /\ outbox'[r].attempts = outbox[r].attempts + 1
               /\ drain' = [drain EXCEPT !.pc = "emit", !.row = r, !.left = @ - 1]
         /\ UNCHANGED <<tx, committed, shared, kicks, emitted, appends, auditLog, request, count>>
<1>1. /\ drain.pc = "claim" /\ drain.left > 0
      /\ UNCHANGED <<tx, committed, shared, kicks, emitted, appends, auditLog, request, count>>
  BY DEF O!Claim, O!drainUnchanged
<1>2. PICK r \in DOMAIN outbox :
         /\ O!Claimable(r) /\ \A q \in DOMAIN outbox : O!Claimable(q) => r <= q
         /\ outbox' = [outbox EXCEPT ![r].status = "processing", ![r].attempts = @ + 1]
         /\ drain' = [drain EXCEPT !.pc = "emit", !.row = r, !.left = @ - 1]
  BY DEF O!Claim
<1> DEFINE row == [outbox[r] EXCEPT !.status = "processing", !.attempts = @ + 1]
<1>3. outbox[r] \in OutboxRow
  BY RowType
<1>4. PICK n \in Nat : n = outbox[r].attempts + 1
  BY <1>3 DEF OutboxRow
<1> DEFINE claimed == [outbox[r] EXCEPT !.status = "processing", !.attempts = n]
<1>41. row = claimed
  BY <1>4
<1>5. /\ row \in OutboxRow /\ row.id = outbox[r].id /\ row.status = "processing"
      /\ row.attempts = outbox[r].attempts + 1 /\ row.later = outbox[r].later
  BY <1>3, <1>4, <1>41 DEF OutboxRow, Statuses
<1>6. outbox' = [outbox EXCEPT ![r] = row]
  BY <1>2
<1> HIDE DEF row
<1>7. Rewrites(r) /\ outbox'[r] = row
  BY <1>5, <1>6, OneRow DEF Rewrites
<1>8. \A q \in DOMAIN outbox : q < r => ~(outbox[q].status = "pending" /\ ~outbox[q].later)
  <2> SUFFICES ASSUME NEW q \in DOMAIN outbox, q < r, O!Claimable(q) PROVE FALSE
    BY DEF O!Claimable
  <2>1. q \in Nat /\ r \in Nat /\ r <= q
    BY <1>2, RowType
  <2> QED
    BY <2>1
<1>9. outbox[r].status = "pending" /\ ~outbox[r].later
  BY <1>2 DEF O!Claimable
<1> QED
  BY <1>1, <1>2, <1>5, <1>7, <1>8, <1>9

\* MarkPublished and MarkFails, Due and Retry: the row stays one that was claimed, or is
\* pending.
Resets(r) ==
    /\ Rewrites(r)
    /\ outbox'[r].attempts = outbox[r].attempts
    /\ ~(outbox'[r].status = "pending" /\ ~outbox'[r].later) =>
          (drain.pc = "mark" /\ drain.row = r) \/ ~(outbox[r].status = "pending" /\ ~outbox[r].later)

LEMMA ResetBy ==
  ASSUME OutboxTypes, NEW r \in DOMAIN outbox, NEW status \in Statuses, NEW later \in BOOLEAN,
         outbox' = [outbox EXCEPT ![r] = [@ EXCEPT !.status = status, !.later = later]]
  PROVE  /\ Rewrites(r) /\ outbox'[r].attempts = outbox[r].attempts
         /\ outbox'[r].status = status /\ outbox'[r].later = later
<1> DEFINE row == [outbox[r] EXCEPT !.status = status, !.later = later]
<1>1. outbox[r] \in OutboxRow
  BY RowType
<1>2. /\ row \in OutboxRow /\ row.id = outbox[r].id /\ row.status = status /\ row.later = later
      /\ row.attempts = outbox[r].attempts
  BY <1>1 DEF OutboxRow
<1>3. outbox' = [outbox EXCEPT ![r] = row]
  OBVIOUS
<1> HIDE DEF row
<1> QED
  BY <1>2, <1>3, OneRow DEF Rewrites

LEMMA MarkPublishedDoes ==
  ASSUME OutboxTypes, O!MarkPublished
  PROVE  /\ drain.pc = "mark" /\ drain.row \in DOMAIN outbox
         /\ Resets(drain.row) /\ outbox'[drain.row].status = "published"
         /\ outbox'[drain.row].later = outbox[drain.row].later
         /\ drain' = [drain EXCEPT !.pc = "claim"]
         /\ UNCHANGED <<tx, committed, shared, kicks, emitted, appends, auditLog, request, count>>
<1> DEFINE r == drain.row
<1>1. /\ drain.pc = "mark" /\ r \in DOMAIN outbox /\ drain' = [drain EXCEPT !.pc = "claim"]
      /\ outbox' = [outbox EXCEPT ![r].status = "published"]
      /\ UNCHANGED <<tx, committed, shared, kicks, emitted, appends, auditLog, request, count>>
  BY DEF O!MarkPublished, O!drainUnchanged, OutboxTypes
<1>2. outbox[r] \in OutboxRow /\ outbox[r].later \in BOOLEAN /\ "published" \in Statuses
  BY <1>1, RowType DEF Statuses
<1>3. outbox' = [outbox EXCEPT ![r] = [@ EXCEPT !.status = "published", !.later = outbox[r].later]]
  BY <1>1, <1>2 DEF OutboxRow
<1> HIDE DEF r
<1>4. /\ Rewrites(r) /\ outbox'[r].attempts = outbox[r].attempts
      /\ outbox'[r].status = "published" /\ outbox'[r].later = outbox[r].later
  BY <1>1, <1>2, <1>3, ResetBy
<1> QED
  BY <1>1, <1>4 DEF Resets, r

LEMMA MarkFailsDoes ==
  ASSUME OutboxTypes, O!MarkFails
  PROVE  /\ drain.pc = "mark" /\ drain.row \in DOMAIN outbox
         /\ Resets(drain.row) /\ outbox'[drain.row].status \in {"failed", "pending"}
         /\ drain' = [drain EXCEPT !.pc = "claim"]
         /\ count' = [count EXCEPT !.unmarked = @ + 1]
         /\ UNCHANGED <<tx, committed, shared, kicks, emitted, appends, auditLog, request>>
<1> DEFINE r == drain.row
<1>1. /\ drain.pc = "mark" /\ r \in DOMAIN outbox /\ drain' = [drain EXCEPT !.pc = "claim"]
      /\ count' = [count EXCEPT !.unmarked = @ + 1]
      /\ outbox' = [outbox EXCEPT ![r] =
                   IF @.attempts >= MaxAttempts THEN [@ EXCEPT !.status = "failed", !.later = FALSE]
                   ELSE [@ EXCEPT !.status = "pending", !.later = TRUE]]
      /\ UNCHANGED <<tx, committed, shared, kicks, emitted, appends, auditLog, request>>
  BY DEF O!MarkFails, O!drainUnchanged, OutboxTypes
<1>2. \/ outbox' = [outbox EXCEPT ![r] = [@ EXCEPT !.status = "failed", !.later = FALSE]]
      \/ outbox' = [outbox EXCEPT ![r] = [@ EXCEPT !.status = "pending", !.later = TRUE]]
  BY <1>1
<1>3. {"failed", "pending"} \subseteq Statuses
  BY DEF Statuses
<1> HIDE DEF r
<1>4. /\ Rewrites(r) /\ outbox'[r].attempts = outbox[r].attempts
      /\ outbox'[r].status \in {"failed", "pending"}
  BY <1>1, <1>2, <1>3, ResetBy
<1> QED
  BY <1>1, <1>4 DEF Resets, r

LEMMA DueDoes ==
  ASSUME OutboxTypes, NEW r \in DOMAIN outbox, O!Due(r)
  PROVE  /\ outbox[r].later /\ Resets(r) /\ outbox'[r].later = FALSE
         /\ outbox'[r].status = outbox[r].status
         /\ UNCHANGED <<tx, committed, shared, kicks, drain, emitted, appends, auditLog, request,
                        count>>
<1>1. /\ outbox[r].later /\ outbox' = [outbox EXCEPT ![r].later = FALSE]
      /\ UNCHANGED <<tx, committed, shared, kicks, drain, emitted, appends, auditLog, request,
                     count>>
  BY DEF O!Due, O!drainUnchanged
<1>2. outbox[r] \in OutboxRow /\ outbox[r].status \in Statuses
  BY RowType
<1>3. outbox' = [outbox EXCEPT ![r] = [@ EXCEPT !.status = outbox[r].status, !.later = FALSE]]
  BY <1>1, <1>2 DEF OutboxRow
<1>4. /\ Rewrites(r) /\ outbox'[r].attempts = outbox[r].attempts
      /\ outbox'[r].status = outbox[r].status /\ outbox'[r].later = FALSE
  BY <1>2, <1>3, ResetBy
<1> QED
  BY <1>1, <1>4 DEF Resets

LEMMA RetryDoes ==
  ASSUME OutboxTypes, NEW r \in DOMAIN outbox, O!Retry(r)
  PROVE  /\ Resets(r) /\ outbox'[r].status = "pending" /\ outbox'[r].later = FALSE
         /\ request = "none" /\ request' = "updated"
         /\ count' = [count EXCEPT !["requests"] = @ + 1]
         /\ UNCHANGED <<tx, committed, shared, kicks, drain, emitted, appends, auditLog>>
<1>1. /\ outbox' = [outbox EXCEPT ![r].status = "pending", ![r].later = FALSE]
      /\ request = "none" /\ request' = "updated"
      /\ count' = [count EXCEPT !["requests"] = @ + 1]
      /\ UNCHANGED <<tx, committed, shared, kicks, drain, emitted, appends, auditLog>>
  BY DEF O!Retry, O!Trouble, O!adminUnchanged
<1>2. outbox[r] \in OutboxRow /\ "pending" \in Statuses
  BY RowType DEF Statuses
<1>3. outbox' = [outbox EXCEPT ![r] = [@ EXCEPT !.status = "pending", !.later = FALSE]]
  BY <1>1
<1>4. /\ Rewrites(r) /\ outbox'[r].attempts = outbox[r].attempts
      /\ outbox'[r].status = "pending" /\ outbox'[r].later = FALSE
  BY <1>2, <1>3, ResetBy
<1> QED
  BY <1>1, <1>4 DEF Resets

\* A step that leaves the rows and the emitted events alone.
LEMMA RestsOrder ==
  ASSUME OrderInv, OutboxTypes', UNCHANGED <<committed, outbox, emitted>>,
         count'.crashes \in {count.crashes, count.crashes + 1},
         drain' = drain \/ (drain'.pc \notin {"emit", "mark"} /\ (drain.pc # "emit" \/ count'.crashes > 0))
  PROVE  OrderInv'
<1>1. count.crashes \in Nat /\ count'.crashes \in Nat
  BY CountFields DEF OrderInv, OutboxTypes, Troubles
<1>2. RowsMatch' /\ InOrder'
  BY <1>1 DEF OrderInv, RowsMatch, InOrder, O!InOrder
<1>3. Claims'
  BY <1>1 DEF OrderInv, Claims
<1> QED
  BY <1>2, <1>3 DEF OrderInv

\* A completion's rows are the newest, and have not been claimed.
LEMMA GrowsOrder ==
  ASSUME OrderInv, OutboxTypes', NEW c \in O!Completions, Appends(c),
         UNCHANGED <<drain, emitted>>, count'.crashes = count.crashes
  PROVE  OrderInv'
<1> USE DEF OrderInv
<1> DEFINE old == DOMAIN outbox
<1> DEFINE new == DOMAIN outbox' \ DOMAIN outbox
<1>1. /\ DOMAIN outbox' = old \cup new /\ old = 1..Len(outbox) /\ Len(outbox) \in Nat
      /\ \A r \in old : outbox'[r] = outbox[r]
      /\ \A r \in new : /\ r > Len(outbox) /\ r - Len(outbox) \in 1..Len(Events[c])
                        /\ outbox'[r].id = <<c, tx[c].try, r - Len(outbox)>>
                        /\ outbox'[r].status = "pending" /\ outbox'[r].attempts = 0
                        /\ ~outbox'[r].later /\ outbox'[r].id \notin committed
  <2>1. old = 1..Len(outbox) /\ Len(outbox) \in Nat
    BY DEF OutboxTypes
  <2>2. \A r \in old : r \in DOMAIN outbox' /\ outbox'[r] = outbox[r]
    BY Appended
  <2>3. \A r \in new : /\ r > Len(outbox) /\ r - Len(outbox) \in 1..Len(Events[c])
                        /\ outbox'[r].id = <<c, tx[c].try, r - Len(outbox)>>
                        /\ outbox'[r].status = "pending" /\ outbox'[r].attempts = 0
                        /\ ~outbox'[r].later /\ outbox'[r].id \notin committed
    BY Appended
  <2> QED
    BY <2>1, <2>2, <2>3
<1>2. Len(outbox') = Len(outbox) + Len(Events[c]) /\ DOMAIN outbox' = 1..Len(outbox')
      /\ Len(Events[c]) \in Nat
  BY Appended, OutboxNumbers DEF OutboxTypes
<1>3. committed' = committed \cup {<<c, tx[c].try, i>> : i \in 1..Len(Events[c])}
  BY DEF Appends
<1>4. {outbox'[r].id : r \in DOMAIN outbox'} = committed'
  <2>1. \A id \in committed : \E r \in DOMAIN outbox' : outbox'[r].id = id
    BY <1>1 DEF RowsMatch
  <2>2. ASSUME NEW i \in 1..Len(Events[c]) PROVE \E r \in DOMAIN outbox' : outbox'[r].id = <<c, tx[c].try, i>>
    <3>1. Len(outbox) + i \in new /\ (Len(outbox) + i) - Len(outbox) = i
      BY <1>1, <1>2
    <3> QED
      BY <1>1, <3>1
  <2>3. \A r \in old : outbox'[r].id \in committed
    BY <1>1 DEF RowsMatch
  <2>4. \A r \in new : outbox'[r].id \in {<<c, tx[c].try, i>> : i \in 1..Len(Events[c])}
    BY <1>1
  <2>5. \A r \in DOMAIN outbox' : outbox'[r].id \in committed'
    BY <1>1, <1>3, <2>3, <2>4
  <2>6. \A id \in committed' : \E r \in DOMAIN outbox' : outbox'[r].id = id
    BY <1>3, <2>1, <2>2
  <2> QED
    BY <2>5, <2>6
<1>5. \A q, r \in DOMAIN outbox' : outbox'[q].id = outbox'[r].id => q = r
  <2> SUFFICES ASSUME NEW q \in DOMAIN outbox', NEW r \in DOMAIN outbox',
                      outbox'[q].id = outbox'[r].id
               PROVE  q = r
    OBVIOUS
  <2>1. CASE q \in old /\ r \in old
    BY <1>1, <2>1 DEF RowsMatch
  <2>2. CASE (q \in old /\ r \in new) \/ (q \in new /\ r \in old)
    BY <1>1, <2>2 DEF RowsMatch
  <2>3. CASE q \in new /\ r \in new
    <3>1. q - Len(outbox) = r - Len(outbox)
      BY <1>1, <2>3
    <3> QED
      BY <1>1, <1>2, <3>1
  <2> QED
    BY <1>1, <2>1, <2>2, <2>3
<1>6. RowsMatch'
  BY <1>3, <1>4, <1>5 DEF RowsMatch
<1>7. \A r \in new : outbox'[r].id \notin emitted
  BY <1>1 DEF RowsMatch
<1>8. InOrder'
  <2> SUFFICES ASSUME NEW q \in DOMAIN outbox', NEW r \in DOMAIN outbox',
                      q < r, outbox'[r].id \in emitted, outbox'[q].id \notin emitted
               PROVE  count.crashes > 0 /\ outbox'[q].attempts > 0
    BY DEF InOrder, O!InOrder
  <2>1. r \in old
    BY <1>1, <1>7
  <2>2. q \in old
    BY <1>1, <1>2, <2>1
  <2> QED
    BY <1>1, <2>1, <2>2 DEF InOrder, O!InOrder
<1>9. Claims'
  <2>1. drain.pc \in {"emit", "mark"} => drain.row \in old
    BY DEF OutboxTypes
  <2>2. \A q \in DOMAIN outbox' : drain.pc = "emit" /\ q < drain.row => q \in old
    BY <1>1, <1>2, <2>1
  <2>3. \A r \in DOMAIN outbox' :
            /\ ~(outbox'[r].status = "pending" /\ ~outbox'[r].later) => outbox'[r].attempts > 0
            /\ count.crashes = 0 /\ outbox'[r].attempts > 0 =>
                  outbox'[r].id \in emitted \/ (drain.pc = "emit" /\ drain.row = r)
    BY <1>1 DEF Claims
  <2>4. drain.pc = "emit" => \A q \in DOMAIN outbox' :
              q < drain.row /\ outbox'[q].id \notin emitted => count.crashes > 0 /\ outbox'[q].attempts > 0
    BY <1>1, <2>2 DEF Claims
  <2>5. drain.pc \in {"emit", "mark"} => outbox'[drain.row].attempts > 0
    BY <1>1, <2>1 DEF Claims
  <2> QED
    BY <2>3, <2>4, <2>5 DEF Claims
<1> QED
  BY <1>6, <1>8, <1>9

LEMMA ClaimOrder ==
  ASSUME OrderInv, OutboxTypes', O!Claim
  PROVE  OrderInv'
<1> USE DEF OrderInv
<1>1. PICK r \in DOMAIN outbox :
         /\ outbox[r].status = "pending" /\ ~outbox[r].later
         /\ \A q \in DOMAIN outbox : q < r => ~(outbox[q].status = "pending" /\ ~outbox[q].later)
         /\ Rewrites(r)
         /\ outbox'[r].status = "processing" /\ outbox'[r].later = outbox[r].later
         /\ outbox'[r].attempts = outbox[r].attempts + 1
         /\ drain' = [drain EXCEPT !.pc = "emit", !.row = r, !.left = @ - 1]
  BY ClaimDoes
<1>2. drain.pc = "claim" /\ UNCHANGED <<committed, emitted, count>>
  BY ClaimDoes
<1>3. drain'.pc = "emit" /\ drain'.row = r
  BY <1>1 DEF OutboxTypes, Drains
<1>4. /\ DOMAIN outbox' = DOMAIN outbox /\ outbox'[r].id = outbox[r].id
      /\ \A q \in DOMAIN outbox : q # r => outbox'[q] = outbox[q]
      /\ \A q \in DOMAIN outbox : outbox'[q].id = outbox[q].id
  BY <1>1 DEF Rewrites
<1>5. outbox[r].attempts \in Nat /\ count.crashes \in Nat /\ r \in Nat
      /\ \A q \in DOMAIN outbox : q \in Nat /\ outbox[q].attempts \in Nat
  BY RowType, CountFields DEF OutboxTypes
<1>51. outbox'[r].attempts > 0
  BY <1>1, <1>5
<1>6. RowsMatch'
  BY <1>2, <1>4 DEF RowsMatch
<1>7. InOrder'
  <2> SUFFICES ASSUME NEW q \in DOMAIN outbox, NEW s \in DOMAIN outbox,
                      q < s, outbox[s].id \in emitted, outbox[q].id \notin emitted
               PROVE  count.crashes > 0 /\ outbox'[q].attempts > 0
    BY <1>2, <1>4 DEF InOrder, O!InOrder
  <2>1. count.crashes > 0 /\ outbox[q].attempts > 0
    BY DEF InOrder, O!InOrder
  <2> QED
    BY <1>4, <1>51, <2>1
<1>8. \A q \in DOMAIN outbox :
            /\ ~(outbox'[q].status = "pending" /\ ~outbox'[q].later) => outbox'[q].attempts > 0
            /\ count.crashes = 0 /\ outbox'[q].attempts > 0 =>
                  outbox'[q].id \in emitted \/ (drain'.pc = "emit" /\ drain'.row = q)
  BY <1>2, <1>3, <1>4, <1>51 DEF Claims
<1>9. \A q \in DOMAIN outbox : q < r /\ outbox[q].id \notin emitted => count.crashes > 0 /\ outbox'[q].attempts > 0
  <2> SUFFICES ASSUME NEW q \in DOMAIN outbox, q < r, outbox[q].id \notin emitted
               PROVE  count.crashes > 0 /\ outbox'[q].attempts > 0
    OBVIOUS
  <2>1. outbox[q].attempts > 0
    BY <1>1 DEF Claims
  <2>2. count.crashes # 0
    BY <1>2, <2>1 DEF Claims
  <2>3. q # r
    BY <1>5
  <2> QED
    BY <1>4, <1>5, <2>1, <2>2, <2>3
<1>10. Claims'
  BY <1>2, <1>3, <1>4, <1>51, <1>8, <1>9 DEF Claims
<1> QED
  BY <1>6, <1>7, <1>10

LEMMA EmitDoes ==
  ASSUME OutboxTypes, O!Emit
  PROVE  /\ drain.pc = "emit" /\ drain.row \in DOMAIN outbox
         /\ emitted' = emitted \cup {outbox[drain.row].id}
         /\ appends' = IF O!TypeOf(outbox[drain.row].id) \in Audited
                       THEN appends \cup {outbox[drain.row].id} ELSE appends
         /\ drain' = [drain EXCEPT !.pc = "mark"]
         /\ UNCHANGED <<tx, committed, outbox, shared, kicks, auditLog, request, count>>
  BY DEF O!Emit, O!drainUnchanged, OutboxTypes

LEMMA EmitOrder ==
  ASSUME OrderInv, OutboxTypes', O!Emit
  PROVE  OrderInv'
<1> USE DEF OrderInv
<1> DEFINE r == drain.row
<1>1. /\ drain.pc = "emit" /\ r \in DOMAIN outbox
      /\ emitted' = emitted \cup {outbox[r].id}
      /\ UNCHANGED <<committed, outbox, count>>
  BY EmitDoes
<1>2. drain'.pc = "mark" /\ drain'.row = r
  BY EmitDoes DEF OutboxTypes, Drains
<1> HIDE DEF r
<1>3. RowsMatch'
  BY <1>1 DEF RowsMatch
<1>4. \A q \in DOMAIN outbox : q < r /\ outbox[q].id \notin emitted => count.crashes > 0 /\ outbox[q].attempts > 0
  BY <1>1 DEF Claims, r
<1>5. \A q \in DOMAIN outbox : outbox[q].id = outbox[r].id => q = r
  BY <1>1 DEF RowsMatch
<1>6. InOrder'
  <2> SUFFICES ASSUME NEW q \in DOMAIN outbox, NEW s \in DOMAIN outbox,
                      q < s, outbox[s].id \in emitted', outbox[q].id \notin emitted'
               PROVE  count.crashes > 0 /\ outbox[q].attempts > 0
    BY <1>1 DEF InOrder, O!InOrder
  <2>1. CASE outbox[s].id \in emitted
    BY <1>1, <2>1 DEF InOrder, O!InOrder
  <2>2. CASE s = r
    BY <1>1, <1>4, <2>2
  <2> QED
    BY <1>1, <1>5, <2>1, <2>2
<1>7. Claims'
  BY <1>1, <1>2 DEF Claims, r
<1> QED
  BY <1>3, <1>6, <1>7

LEMMA ResetOrder ==
  ASSUME OrderInv, OutboxTypes', NEW r \in DOMAIN outbox, Resets(r),
         UNCHANGED <<committed, emitted>>, count'.crashes = count.crashes,
         drain' = drain \/ (drain.pc = "mark" /\ drain' = [drain EXCEPT !.pc = "claim"])
  PROVE  OrderInv'
<1> USE DEF OrderInv
<1>1. /\ DOMAIN outbox' = DOMAIN outbox
      /\ \A q \in DOMAIN outbox : q # r => outbox'[q] = outbox[q]
      /\ \A q \in DOMAIN outbox : outbox'[q].id = outbox[q].id /\ outbox'[q].attempts = outbox[q].attempts
  BY DEF Resets, Rewrites
<1>2. drain' = drain \/ (drain.pc = "mark" /\ drain'.pc = "claim")
  BY DEF OutboxTypes, Drains
<1>3. RowsMatch' /\ InOrder'
  BY <1>1 DEF RowsMatch, InOrder, O!InOrder
<1>4. \A q \in DOMAIN outbox :
            /\ ~(outbox'[q].status = "pending" /\ ~outbox'[q].later) => outbox'[q].attempts > 0
            /\ count.crashes = 0 /\ outbox'[q].attempts > 0 =>
                  outbox'[q].id \in emitted \/ (drain.pc = "emit" /\ drain.row = q)
  BY <1>1 DEF Claims, Resets
<1>5. drain.pc \in {"emit", "mark"} => drain.row \in DOMAIN outbox
  BY DEF OutboxTypes
<1>6. Claims'
  BY <1>1, <1>2, <1>4, <1>5 DEF Claims
<1> QED
  BY <1>3, <1>6

LEMMA TransactionType ==
  ASSUME OutboxTypes, NEW c \in O!Completions, NEW pc \in {"idle", "open", "committed", "done", "failed"}
  PROVE  /\ [tx EXCEPT ![c].pc = pc] \in [O!Completions -> Transactions]
         /\ tx[c].try < MaxTries =>
               [tx EXCEPT ![c] = [pc |-> "idle", try |-> @.try + 1]] \in [O!Completions -> Transactions]
         /\ tx[c].try \in 1..MaxTries
<1>1. tx[c] \in Transactions /\ tx \in [O!Completions -> Transactions]
  BY DEF OutboxTypes
<1>2. tx[c].try \in 1..MaxTries
  BY <1>1 DEF Transactions
<1>3. [tx[c] EXCEPT !.pc = pc] \in Transactions
  BY <1>1 DEF Transactions
<1>4. tx[c].try < MaxTries => tx[c].try + 1 \in 1..MaxTries
  BY <1>2, OutboxNumbers
<1>5. tx[c].try < MaxTries => [pc |-> "idle", try |-> tx[c].try + 1] \in Transactions
  BY <1>4 DEF Transactions
<1> QED
  BY <1>1, <1>2, <1>3, <1>5

LEMMA DrainType ==
  ASSUME OutboxTypes
  PROVE  /\ O!Started("shared") \in Drains /\ O!Started("kick") \in Drains /\ O!Off \in Drains
         /\ \A pc \in {"off", "claim", "emit", "mark", "ending"} : [drain EXCEPT !.pc = pc] \in Drains
         /\ \A r \in DOMAIN outbox : drain.left > 0 =>
               [drain EXCEPT !.pc = "emit", !.row = r, !.left = @ - 1] \in Drains
<1>1. drain \in Drains /\ drain.left \in 0..Batch
  BY DEF OutboxTypes, Drains
<1>2. Batch \in 0..Batch /\ 0 \in 0..Batch
  BY OutboxNumbers
<1>3. O!Started("shared") \in Drains /\ O!Started("kick") \in Drains /\ O!Off \in Drains
  BY <1>2 DEF O!Started, O!Off, Drains
<1>4. \A pc \in {"off", "claim", "emit", "mark", "ending"} : [drain EXCEPT !.pc = pc] \in Drains
  BY <1>1 DEF Drains
<1>5. ASSUME NEW r \in DOMAIN outbox, drain.left > 0
      PROVE  [drain EXCEPT !.pc = "emit", !.row = r, !.left = @ - 1] \in Drains
  <2>1. PICK n \in 0..Batch : n = drain.left - 1
    BY <1>1, <1>5, OutboxNumbers
  <2>2. [drain EXCEPT !.pc = "emit", !.row = r, !.left = @ - 1]
           = [drain EXCEPT !.pc = "emit", !.row = r, !.left = n]
    BY <2>1
  <2>3. r \in Nat
    BY RowType
  <2> QED
    BY <1>1, <2>1, <2>2, <2>3 DEF Drains
<1> QED
  BY <1>3, <1>4, <1>5

LEMMA EffectTypes ==
  ASSUME OutboxTypes, NEW c \in O!Completions, UNCHANGED <<committed, outbox>> \/ Appends(c)
  PROVE  /\ committed' \in SUBSET O!Ids /\ outbox' \in Seq(OutboxRow)
         /\ DOMAIN outbox \subseteq DOMAIN outbox'
<1>1. CASE UNCHANGED <<committed, outbox>>
  BY <1>1 DEF OutboxTypes
<1>2. CASE Appends(c)
  BY <1>2, Appended
<1> QED
  BY <1>1, <1>2

LEMMA TransientDoes ==
  ASSUME OutboxTypes, NEW c \in O!Completions, O!Transient(c)
  PROVE  /\ UNCHANGED <<committed, outbox>> \/ Appends(c)
         /\ tx[c].pc = "open"
         /\ (tx[c].try = MaxTries /\ tx' = [tx EXCEPT ![c].pc = "failed"]) \/
               (tx[c].try < MaxTries /\ tx' = [tx EXCEPT ![c] = [pc |-> "idle", try |-> @.try + 1]])
         /\ tx[c].try = MaxTries /\ O!Completed(c)' => count' = [count EXCEPT !["silent"] = @ + 1]
         /\ ~(tx[c].try = MaxTries /\ O!Completed(c)') => count' = count
         /\ UNCHANGED <<shared, kicks, drain, emitted, appends, auditLog, request>>
<1>1. UNCHANGED <<committed, outbox>> \/ Appends(c)
  BY EffectIs DEF O!Transient
<1>2. tx[c].try < MaxTries => tx' = [tx EXCEPT ![c] = [pc |-> "idle", try |-> @.try + 1]]
  BY DEF O!Transient
<1>3. ~(tx[c].try < MaxTries) => tx' = [tx EXCEPT ![c].pc = "failed"]
  BY DEF O!Transient
<1>4. tx[c].try \in 1..MaxTries /\ MaxTries \in Nat
  BY TransactionType, OutboxNumbers
<1>5. tx[c].try < MaxTries \/ tx[c].try = MaxTries
  BY <1>4
<1> QED
  BY <1>1, <1>2, <1>3, <1>4, <1>5 DEF O!Transient, O!txUnchanged

LEMMA OutboxTypesNext ==
  ASSUME OutboxTypes, [O!Next]_(O!vars)
  PROVE  OutboxTypes'
<1>0. count \in Troubles /\ tx \in [O!Completions -> Transactions] /\ kicks \in Nat
  BY DEF OutboxTypes
<1>1. CASE UNCHANGED O!vars
  BY <1>1 DEF O!vars, OutboxTypes
<1>2. ASSUME NEW c \in O!Completions, O!Open(c) PROVE OutboxTypes'
  BY <1>2, TransactionType DEF O!Open, O!txUnchanged, OutboxTypes
<1>3. ASSUME NEW c \in O!Completions, O!Commit(c) PROVE OutboxTypes'
  <2>1. /\ committed' \in SUBSET O!Ids /\ outbox' \in Seq(OutboxRow)
        /\ DOMAIN outbox \subseteq DOMAIN outbox'
    BY <1>3, EffectIs, EffectTypes DEF O!Commit
  <2>2. tx' \in [O!Completions -> Transactions]
    BY <1>3, TransactionType DEF O!Commit
  <2> QED
    BY <1>3, <2>1, <2>2 DEF O!Commit, O!txUnchanged, OutboxTypes
<1>4. ASSUME NEW c \in O!Completions, O!Transient(c) PROVE OutboxTypes'
  <2>1. /\ committed' \in SUBSET O!Ids /\ outbox' \in Seq(OutboxRow)
        /\ DOMAIN outbox \subseteq DOMAIN outbox'
    BY <1>4, TransientDoes, EffectTypes
  <2>2. tx' \in [O!Completions -> Transactions]
    BY <1>4, TransientDoes, TransactionType
  <2>3. count' \in Troubles
    BY <1>0, <1>4, TransientDoes, CountType
  <2> QED
    BY <1>4, <2>1, <2>2, <2>3, TransientDoes DEF OutboxTypes
<1>5. ASSUME NEW c \in O!Completions, O!Kick(c) PROVE OutboxTypes'
  <2>1. tx' \in [O!Completions -> Transactions]
    BY <1>5, TransactionType DEF O!Kick
  <2>2. count' \in Troubles /\ kicks' \in Nat
    <3>1. CASE kicks' = kicks + 1 /\ UNCHANGED count
      BY <1>0, <3>1
    <3>2. CASE kicks' = kicks /\ O!Trouble("lostKicks")
      BY <1>0, <3>2, CountType DEF O!Trouble
    <3> QED
      BY <1>5, <3>1, <3>2 DEF O!Kick
  <2> QED
    BY <1>5, <2>1, <2>2 DEF O!Kick, OutboxTypes
<1>6. CASE O!TakeShared
  BY <1>6, DrainType DEF O!TakeShared, O!drainUnchanged, OutboxTypes, O!Started
<1>7. CASE O!TakeKick
  <2>1. kicks' \in Nat
    BY <1>0, <1>7 DEF O!TakeKick
  <2>2. drain' \in Drains /\ drain'.pc = "claim"
    BY <1>7, DrainType DEF O!TakeKick, O!Started
  <2> QED
    BY <1>7, <2>1, <2>2 DEF O!TakeKick, OutboxTypes
<1>8. CASE O!Claim
  <2>1. PICK r \in DOMAIN outbox :
           Rewrites(r) /\ drain.left > 0 /\ drain' = [drain EXCEPT !.pc = "emit", !.row = r, !.left = @ - 1]
    BY <1>8, ClaimDoes
  <2>2. drain' \in Drains /\ drain'.row = r
    BY <2>1, DrainType DEF OutboxTypes, Drains
  <2> QED
    BY <1>8, <2>1, <2>2, ClaimDoes DEF OutboxTypes, Rewrites
<1>9. CASE O!NothingLeft
  BY <1>9, DrainType DEF O!NothingLeft, O!drainUnchanged, OutboxTypes, Drains
<1>10. CASE O!Ends
  BY <1>10, DrainType DEF O!Ends, O!drainUnchanged, OutboxTypes, O!Off
<1>11. CASE O!Emit
  <2>1. drain.row \in DOMAIN outbox /\ drain' \in Drains /\ drain'.row = drain.row
    BY <1>11, EmitDoes, DrainType DEF OutboxTypes, Drains
  <2>2. outbox[drain.row].id \in O!Ids
    BY <2>1, RowType
  <2> QED
    BY <1>11, <2>1, <2>2, EmitDoes DEF OutboxTypes
<1>12. CASE O!MarkPublished
  <2>1. Rewrites(drain.row)
    BY <1>12, MarkPublishedDoes DEF Resets
  <2>2. drain' \in Drains /\ drain'.pc = "claim"
    BY <1>12, MarkPublishedDoes, DrainType DEF OutboxTypes, Drains
  <2> QED
    BY <1>12, <2>1, <2>2, MarkPublishedDoes DEF OutboxTypes, Rewrites
<1>13. CASE O!MarkFails
  <2>1. Rewrites(drain.row)
    BY <1>13, MarkFailsDoes DEF Resets
  <2>2. drain' \in Drains /\ drain'.pc = "claim"
    BY <1>13, MarkFailsDoes, DrainType DEF OutboxTypes, Drains
  <2>3. count' \in Troubles
    BY <1>0, <1>13, MarkFailsDoes, CountType
  <2> QED
    BY <1>13, <2>1, <2>2, <2>3, MarkFailsDoes DEF OutboxTypes, Rewrites
<1>14. ASSUME NEW r \in DOMAIN outbox, O!Due(r) PROVE OutboxTypes'
  BY <1>14, DueDoes DEF OutboxTypes, Resets, Rewrites
<1>15. ASSUME NEW id \in appends, O!SafeAppend(id) PROVE OutboxTypes'
  <2>1. count' \in Troubles
    BY <1>0, <1>15, CountType DEF O!SafeAppend, O!Trouble
  <2> QED
    BY <1>15, <2>1 DEF O!SafeAppend, O!drainUnchanged, OutboxTypes
<1>16. ASSUME NEW r \in DOMAIN outbox, O!Retry(r) PROVE OutboxTypes'
  <2>1. count' \in Troubles
    BY <1>0, <1>16, RetryDoes, CountType
  <2> QED
    BY <1>16, <2>1, RetryDoes DEF OutboxTypes, Resets, Rewrites
<1>17. CASE O!RetryKicks
  <2>1. count' \in Troubles
    BY <1>0, <1>17, CountType DEF O!RetryKicks, O!AddShared
  <2> QED
    BY <1>17, <2>1 DEF O!RetryKicks, O!AddShared, O!adminUnchanged, OutboxTypes
<1>18. CASE O!Dispatch
  <2>1. count' \in Troubles
    BY <1>0, <1>18, CountType DEF O!Dispatch, O!Trouble
  <2> QED
    BY <1>18, <2>1 DEF O!Dispatch, O!adminUnchanged, OutboxTypes
<1>19. CASE O!Crash
  <2>1. count' \in Troubles
    BY <1>0, <1>19, CountType DEF O!Crash, O!Trouble
  <2>2. tx' \in [O!Completions -> Transactions]
    <3>1. ASSUME NEW c \in O!Completions
          PROVE  /\ tx[c] \in Transactions /\ [tx[c] EXCEPT !.pc = "done"] \in Transactions
                 /\ [tx[c] EXCEPT !.pc = "idle"] \in Transactions
      BY <1>0 DEF Transactions
    <3> QED
      BY <1>19, <3>1 DEF O!Crash
  <2>3. kicks' \in Nat /\ shared' \in {"none", "waiting", "active"}
    BY <1>0, <1>19 DEF O!Crash, OutboxTypes
  <2>4. drain' \in Drains /\ drain'.pc = "off"
    BY <1>19, DrainType DEF O!Crash, O!Off
  <2> QED
    BY <1>19, <2>1, <2>2, <2>3, <2>4 DEF O!Crash, OutboxTypes
<1> QED
  BY <1>1, <1>2, <1>3, <1>4, <1>5, <1>6, <1>7, <1>8, <1>9, <1>10, <1>11, <1>12, <1>13, <1>14,
     <1>15, <1>16, <1>17, <1>18, <1>19
  DEF O!Next, O!Completing, O!Draining, O!Admin

LEMMA OrderNext ==
  ASSUME OrderInv, [O!Next]_(O!vars)
  PROVE  OrderInv'
<1> USE DEF OrderInv
<1>0. OutboxTypes /\ OutboxTypes' /\ count \in Troubles /\ drain \in Drains
  BY OutboxTypesNext DEF OutboxTypes
<1>1. CASE UNCHANGED O!vars
  BY <1>0, <1>1, RestsOrder DEF O!vars
<1>2. ASSUME NEW c \in O!Completions, O!Open(c) PROVE OrderInv'
  BY <1>0, <1>2, RestsOrder DEF O!Open, O!txUnchanged
<1>3. ASSUME NEW c \in O!Completions, O!Commit(c) PROVE OrderInv'
  <2>1. UNCHANGED <<committed, outbox>> \/ Appends(c)
    BY <1>3, EffectIs DEF O!Commit
  <2>2. UNCHANGED <<drain, emitted, count>>
    BY <1>3 DEF O!Commit, O!txUnchanged
  <2> QED
    BY <1>0, <2>1, <2>2, RestsOrder, GrowsOrder
<1>4. ASSUME NEW c \in O!Completions, O!Transient(c) PROVE OrderInv'
  <2>1. UNCHANGED <<committed, outbox>> \/ Appends(c)
    BY <1>0, <1>4, TransientDoes
  <2>2. UNCHANGED <<drain, emitted>>
    BY <1>0, <1>4, TransientDoes
  <2>3. count'.crashes = count.crashes
    BY <1>0, <1>4, TransientDoes, CountType DEF Troubles
  <2> QED
    BY <1>0, <2>1, <2>2, <2>3, RestsOrder, GrowsOrder
<1>5. ASSUME NEW c \in O!Completions, O!Kick(c) PROVE OrderInv'
  <2>1. UNCHANGED <<committed, outbox, drain, emitted>>
    BY <1>5 DEF O!Kick
  <2>2. count'.crashes = count.crashes
    BY <1>0, <1>5, CountType DEF O!Kick, O!Trouble, Troubles
  <2> QED
    BY <1>0, <2>1, <2>2, RestsOrder
<1>6. CASE O!TakeShared
  <2>1. /\ UNCHANGED <<committed, outbox, emitted, count>>
        /\ drain.pc = "off" /\ drain'.pc = "claim"
    BY <1>6 DEF O!TakeShared, O!drainUnchanged, O!Started
  <2> QED
    BY <1>0, <2>1, RestsOrder
<1>7. CASE O!TakeKick
  <2>1. /\ UNCHANGED <<committed, outbox, emitted, count>>
        /\ drain.pc = "off" /\ drain'.pc = "claim"
    BY <1>7 DEF O!TakeKick, O!Started
  <2> QED
    BY <1>0, <2>1, RestsOrder
<1>8. CASE O!Claim
  BY <1>0, <1>8, ClaimOrder
<1>9. CASE O!NothingLeft
  <2>1. /\ UNCHANGED <<committed, outbox, emitted, count>>
        /\ drain.pc = "claim" /\ drain'.pc = "ending"
    BY <1>0, <1>9 DEF O!NothingLeft, O!drainUnchanged, Drains
  <2> QED
    BY <1>0, <2>1, RestsOrder
<1>10. CASE O!Ends
  <2>1. /\ UNCHANGED <<committed, outbox, emitted, count>>
        /\ drain.pc = "ending" /\ drain'.pc = "off"
    BY <1>10 DEF O!Ends, O!drainUnchanged, O!Off
  <2> QED
    BY <1>0, <2>1, RestsOrder
<1>11. CASE O!Emit
  BY <1>0, <1>11, EmitOrder
<1>12. CASE O!MarkPublished
  <2>1. /\ drain.row \in DOMAIN outbox /\ Resets(drain.row)
        /\ drain.pc = "mark" /\ drain' = [drain EXCEPT !.pc = "claim"]
        /\ UNCHANGED <<committed, emitted, count>>
    BY <1>0, <1>12, MarkPublishedDoes
  <2> QED
    BY <1>0, <2>1, ResetOrder
<1>13. CASE O!MarkFails
  <2>1. /\ drain.row \in DOMAIN outbox /\ Resets(drain.row)
        /\ drain.pc = "mark" /\ drain' = [drain EXCEPT !.pc = "claim"]
        /\ UNCHANGED <<committed, emitted>>
    BY <1>0, <1>13, MarkFailsDoes
  <2>2. count'.crashes = count.crashes
    BY <1>0, <1>13, MarkFailsDoes, CountType DEF Troubles
  <2> QED
    BY <1>0, <2>1, <2>2, ResetOrder
<1>14. ASSUME NEW r \in DOMAIN outbox, O!Due(r) PROVE OrderInv'
  <2>1. Resets(r) /\ UNCHANGED <<committed, emitted, drain, count>>
    BY <1>0, <1>14, DueDoes
  <2> QED
    BY <1>0, <2>1, ResetOrder
<1>15. ASSUME NEW id \in appends, O!SafeAppend(id) PROVE OrderInv'
  <2>1. UNCHANGED <<committed, outbox, drain, emitted>>
    BY <1>15 DEF O!SafeAppend, O!drainUnchanged
  <2>2. count'.crashes = count.crashes
    BY <1>0, <1>15, CountType DEF O!SafeAppend, O!Trouble, Troubles
  <2> QED
    BY <1>0, <2>1, <2>2, RestsOrder
<1>16. ASSUME NEW r \in DOMAIN outbox, O!Retry(r) PROVE OrderInv'
  <2>1. Resets(r) /\ UNCHANGED <<committed, emitted, drain>>
    BY <1>0, <1>16, RetryDoes
  <2>2. count'.crashes = count.crashes
    BY <1>0, <1>16, RetryDoes, CountType DEF Troubles
  <2> QED
    BY <1>0, <2>1, <2>2, ResetOrder
<1>17. CASE O!RetryKicks
  <2>1. UNCHANGED <<committed, outbox, drain, emitted>>
    BY <1>17 DEF O!RetryKicks, O!adminUnchanged
  <2>2. count'.crashes = count.crashes
    BY <1>0, <1>17, CountType DEF O!RetryKicks, O!AddShared, Troubles
  <2> QED
    BY <1>0, <2>1, <2>2, RestsOrder
<1>18. CASE O!Dispatch
  <2>1. UNCHANGED <<committed, outbox, drain, emitted>>
    BY <1>18 DEF O!Dispatch, O!adminUnchanged
  <2>2. count'.crashes = count.crashes
    BY <1>0, <1>18, CountType DEF O!Dispatch, O!Trouble, Troubles
  <2> QED
    BY <1>0, <2>1, <2>2, RestsOrder
<1>19. CASE O!Crash
  <2>1. UNCHANGED <<committed, outbox, emitted>> /\ drain'.pc = "off"
    BY <1>19 DEF O!Crash, O!Off
  <2>2. count'.crashes = count.crashes + 1 /\ count'.crashes > 0
    BY <1>0, <1>19, CountType, CountFields DEF O!Crash, O!Trouble, Troubles
  <2> QED
    BY <1>0, <2>1, <2>2, RestsOrder
<1> QED
  BY <1>1, <1>2, <1>3, <1>4, <1>5, <1>6, <1>7, <1>8, <1>9, <1>10, <1>11, <1>12, <1>13, <1>14,
     <1>15, <1>16, <1>17, <1>18, <1>19
  DEF O!Next, O!Completing, O!Draining, O!Admin

\* The inductive invariant of InOrder: see OrderInv.
THEOREM OrderInductive == O!Spec => []OrderInv
<1>1. OrderInv /\ [O!Next]_(O!vars) => OrderInv'
  BY OrderNext
<1> QED
  BY <1>1, OrderInit, PTL DEF O!Spec

\* Whatever fails, and however often an administrator retries, an event is emitted before the
\* events committed after it, unless a process stopped between claiming it and emitting it.
THEOREM EmittedInOrder == O!Spec => []InOrder
<1>1. OrderInv => InOrder
  BY DEF OrderInv
<1> QED
  BY <1>1, OrderInductive, PTL

-----------------------------------------------------------------------------
(* Outbox: what becomes of every row. *)

\* What is published was emitted, and what was emitted is on its way to the audit log.
Recorded ==
    /\ \A r \in DOMAIN outbox : outbox[r].status = "published" => outbox[r].id \in emitted
    /\ drain.pc = "mark" => outbox[drain.row].id \in emitted
    /\ count.crashes = 0 =>
          \A r \in DOMAIN outbox :
              outbox[r].status = "processing" => drain.pc \in {"emit", "mark"} /\ drain.row = r
    /\ count.unmarked = 0 =>
          \A r \in DOMAIN outbox : outbox[r].status # "failed" /\ ~outbox[r].later
    /\ appends \cup auditLog \subseteq {id \in emitted : O!TypeOf(id) \in Audited}
    /\ count.crashes = 0 /\ count.unaudited = 0 =>
          {id \in emitted : O!TypeOf(id) \in Audited} \subseteq appends \cup auditLog

\* The rows to be claimed, and the claims that are sure to come: those left to the job that
\* runs, a batch for every job that waits or that a completion has still to add, and for the
\* retries of administrators as many as were asked for, since they share a job.
Pending == {r \in DOMAIN outbox : outbox[r].status = "pending"}
Kicking == {c \in O!Completions : O!Completed(c) /\ tx[c].pc \in {"idle", "open", "committed"}}
Left == IF drain.pc \in {"claim", "emit", "mark"} THEN drain.left ELSE 0
Asked == IF shared = "waiting" THEN count.requests ELSE IF request = "updated" THEN 1 ELSE 0
Claimed == Left + Batch * (kicks + Cardinality(Kicking)) + Asked

Orderly == O!Undisturbed /\ O!Dispatched

Enough ==
    /\ drain.job = "shared" => shared = "active"
    /\ request = "updated" => count.requests > 0
    /\ Orderly => Cardinality(Pending) <= Claimed

StrandInv == OrderInv /\ Recorded /\ Enough

LEMMA RecordedInit == O!Init => Recorded
<1> SUFFICES ASSUME O!Init PROVE Recorded
  OBVIOUS
<1>1. DOMAIN outbox = {}
  BY DEF O!Init
<1> QED
  BY <1>1 DEF O!Init, O!Off, Recorded

LEMMA TroubleCounts ==
  ASSUME OutboxTypes, NEW what \in {"unaudited", "lostKicks", "requests", "crashes"}, O!Trouble(what)
  PROVE  count' = [count EXCEPT ![what] = @ + 1]
  BY DEF O!Trouble

\* A step that changes neither the rows nor the records.
LEMMA RestsRecorded ==
  ASSUME OrderInv, Recorded, count' \in Troubles,
         UNCHANGED <<outbox, emitted, appends, auditLog>>,
         count' = count \/ \E w \in {"unaudited", "lostKicks", "requests", "ignored", "silent"} :
                              count' = [count EXCEPT ![w] = @ + 1],
         drain' = drain \/ (drain.pc \notin {"emit", "mark"} /\ drain'.pc \notin {"emit", "mark"})
  PROVE  Recorded'
<1>1. /\ count'.crashes = count.crashes /\ count'.unmarked = count.unmarked
      /\ count'.unaudited = 0 => count.unaudited = 0
  <2>1. CASE count' = count
    BY <2>1
  <2>2. ASSUME NEW w \in {"unaudited", "lostKicks", "requests", "ignored", "silent"},
               count' = [count EXCEPT ![w] = @ + 1]
        PROVE  /\ count'.crashes = count.crashes /\ count'.unmarked = count.unmarked
               /\ count'.unaudited = 0 => count.unaudited = 0
    <3>1. count \in Troubles /\ count.unaudited \in Nat
      BY CountFields DEF OrderInv, OutboxTypes
    <3> QED
      BY <2>2, <3>1, CountType DEF Troubles
  <2> QED
    BY <2>1, <2>2
<1>2. drain' = drain \/ (drain.pc \notin {"emit", "mark"} /\ drain'.pc \notin {"emit", "mark"})
  OBVIOUS
<1> QED
  BY <1>1, <1>2 DEF Recorded

LEMMA GrowsRecorded ==
  ASSUME OrderInv, Recorded, NEW c \in O!Completions, Appends(c),
         UNCHANGED <<drain, emitted, appends, auditLog>>,
         count' = count \/ count' = [count EXCEPT !["silent"] = @ + 1]
  PROVE  Recorded'
<1>1. /\ count'.crashes = count.crashes /\ count'.unmarked = count.unmarked
      /\ count'.unaudited = count.unaudited
  BY CountType DEF OrderInv, OutboxTypes, Troubles
<1>2. /\ \A r \in DOMAIN outbox : r \in DOMAIN outbox' /\ outbox'[r] = outbox[r]
      /\ \A r \in DOMAIN outbox' \ DOMAIN outbox : outbox'[r].status = "pending" /\ ~outbox'[r].later
  BY Appended DEF OrderInv
<1>3. drain.pc = "mark" => drain.row \in DOMAIN outbox
  BY DEF OrderInv, OutboxTypes
<1>4. \A r \in DOMAIN outbox' : r \in DOMAIN outbox \/ (outbox'[r].status = "pending" /\ ~outbox'[r].later)
  BY <1>2
<1>5. \A r \in DOMAIN outbox' : outbox'[r].status = "published" => outbox'[r].id \in emitted
  BY <1>2, <1>4 DEF Recorded
<1>6. drain.pc = "mark" => outbox'[drain.row].id \in emitted
  BY <1>2, <1>3 DEF Recorded
<1>7. count.crashes = 0 =>
          \A r \in DOMAIN outbox' :
              outbox'[r].status = "processing" => drain.pc \in {"emit", "mark"} /\ drain.row = r
  BY <1>2, <1>4 DEF Recorded
<1>8. count.unmarked = 0 => \A r \in DOMAIN outbox' : outbox'[r].status # "failed" /\ ~outbox'[r].later
  BY <1>2, <1>4 DEF Recorded
<1> QED
  BY <1>1, <1>5, <1>6, <1>7, <1>8 DEF Recorded

\* A row that is set back, or marked.
LEMMA ResetRecorded ==
  ASSUME OrderInv, Recorded, NEW r \in DOMAIN outbox, Resets(r),
         UNCHANGED <<emitted, appends, auditLog>>,
         count'.crashes = count.crashes, count'.unaudited = count.unaudited,
         count'.unmarked = 0 => count.unmarked = 0 /\ outbox'[r].status # "failed" /\ ~outbox'[r].later,
         \/ drain' = drain
         \/ drain.pc = "mark" /\ drain.row = r /\ drain'.pc = "claim" /\ outbox'[r].status # "processing",
         outbox'[r].status = "published" => (drain.pc = "mark" /\ drain.row = r) \/ outbox[r].status = "published",
         outbox'[r].status = "processing" => outbox[r].status = "processing"
  PROVE  Recorded'
<1>1. /\ DOMAIN outbox' = DOMAIN outbox
      /\ \A q \in DOMAIN outbox : q # r => outbox'[q] = outbox[q]
      /\ \A q \in DOMAIN outbox : outbox'[q].id = outbox[q].id
  BY DEF Resets, Rewrites
<1>2. \A q \in DOMAIN outbox : outbox'[q].status = "published" => outbox'[q].id \in emitted
  BY <1>1 DEF Recorded
<1>3. drain'.pc = "mark" => outbox'[drain'.row].id \in emitted
  BY <1>1 DEF Recorded, OrderInv, OutboxTypes
<1>4. count'.crashes = 0 =>
          \A q \in DOMAIN outbox :
              outbox'[q].status = "processing" => drain'.pc \in {"emit", "mark"} /\ drain'.row = q
  BY <1>1 DEF Recorded
<1>5. count'.unmarked = 0 => \A q \in DOMAIN outbox : outbox'[q].status # "failed" /\ ~outbox'[q].later
  BY <1>1 DEF Recorded
<1> QED
  BY <1>1, <1>2, <1>3, <1>4, <1>5 DEF Recorded

LEMMA ClaimRecorded ==
  ASSUME OrderInv, Recorded, O!Claim
  PROVE  Recorded'
<1>0. OutboxTypes
  BY DEF OrderInv
<1>1. PICK r \in DOMAIN outbox :
         /\ outbox[r].status = "pending" /\ ~outbox[r].later /\ Rewrites(r)
         /\ outbox'[r].status = "processing" /\ outbox'[r].later = outbox[r].later
         /\ drain' = [drain EXCEPT !.pc = "emit", !.row = r, !.left = @ - 1]
  BY <1>0, ClaimDoes
<1>2. drain.pc = "claim" /\ UNCHANGED <<emitted, appends, auditLog, count>>
  BY <1>0, ClaimDoes
<1>3. drain'.pc = "emit" /\ drain'.row = r
  BY <1>0, <1>1 DEF OutboxTypes, Drains
<1>4. /\ DOMAIN outbox' = DOMAIN outbox
      /\ \A q \in DOMAIN outbox : q # r => outbox'[q] = outbox[q]
      /\ \A q \in DOMAIN outbox : outbox'[q].id = outbox[q].id
  BY <1>1 DEF Rewrites
<1>5. \A q \in DOMAIN outbox : outbox'[q].status = "published" => outbox'[q].id \in emitted
  BY <1>1, <1>4 DEF Recorded
<1>6. count.crashes = 0 =>
          \A q \in DOMAIN outbox : outbox'[q].status = "processing" => q = r
  BY <1>2, <1>4 DEF Recorded
<1>7. count.unmarked = 0 => \A q \in DOMAIN outbox : outbox'[q].status # "failed" /\ ~outbox'[q].later
  BY <1>1, <1>4 DEF Recorded
<1> QED
  BY <1>2, <1>3, <1>4, <1>5, <1>6, <1>7 DEF Recorded

LEMMA EmitRecorded ==
  ASSUME OrderInv, Recorded, O!Emit
  PROVE  Recorded'
<1> DEFINE id == outbox[drain.row].id
<1>0. OutboxTypes
  BY DEF OrderInv
<1>1. /\ drain.pc = "emit" /\ drain.row \in DOMAIN outbox
      /\ emitted' = emitted \cup {id}
      /\ appends' = IF O!TypeOf(id) \in Audited THEN appends \cup {id} ELSE appends
      /\ UNCHANGED <<outbox, auditLog, count>>
  BY <1>0, EmitDoes
<1>2. drain'.pc = "mark" /\ drain'.row = drain.row
  BY <1>0, EmitDoes DEF OutboxTypes, Drains
<1>3. \A i \in emitted' : i \in emitted \/ i = id
  BY <1>1
<1>4. appends' \cup auditLog' \subseteq {i \in emitted' : O!TypeOf(i)' \in Audited}
  <2>1. \A i : O!TypeOf(i)' = O!TypeOf(i)
    BY DEF O!TypeOf
  <2>2. appends \cup auditLog \subseteq {i \in emitted' : O!TypeOf(i) \in Audited}
    BY <1>1 DEF Recorded
  <2> QED
    BY <1>1, <2>1, <2>2
<1>5. count.crashes = 0 /\ count.unaudited = 0 =>
         {i \in emitted' : O!TypeOf(i)' \in Audited} \subseteq appends' \cup auditLog'
  <2>1. \A i : O!TypeOf(i)' = O!TypeOf(i)
    BY DEF O!TypeOf
  <2>2. SUFFICES ASSUME count.crashes = 0, count.unaudited = 0, NEW i \in emitted',
                        O!TypeOf(i) \in Audited
                 PROVE  i \in appends' \cup auditLog
    BY <1>1, <2>1
  <2>3. CASE i = id
    BY <1>1, <2>2, <2>3
  <2>4. CASE i \in emitted
    BY <1>1, <2>2, <2>4 DEF Recorded
  <2> QED
    BY <1>3, <2>3, <2>4
<1>6. \A r \in DOMAIN outbox : outbox[r].status = "published" => outbox[r].id \in emitted'
  BY <1>1 DEF Recorded
<1>7. count.crashes = 0 =>
          \A r \in DOMAIN outbox : outbox[r].status = "processing" => drain'.row = r
  BY <1>1, <1>2 DEF Recorded
<1>8. count.unmarked = 0 => \A r \in DOMAIN outbox : outbox[r].status # "failed" /\ ~outbox[r].later
  BY DEF Recorded
<1> QED
  BY <1>1, <1>2, <1>4, <1>5, <1>6, <1>7, <1>8 DEF Recorded

LEMMA RecordedNext ==
  ASSUME OrderInv, Recorded, [O!Next]_(O!vars)
  PROVE  Recorded'
<1>0. OutboxTypes /\ OutboxTypes' /\ count \in Troubles /\ count' \in Troubles /\ drain \in Drains
  BY OutboxTypesNext DEF OrderInv, OutboxTypes
<1>1. CASE UNCHANGED O!vars
  BY <1>0, <1>1, RestsRecorded DEF O!vars
<1>2. ASSUME NEW c \in O!Completions, O!Open(c) PROVE Recorded'
  BY <1>0, <1>2, RestsRecorded DEF O!Open, O!txUnchanged
<1>3. ASSUME NEW c \in O!Completions, O!Commit(c) PROVE Recorded'
  <2>1. UNCHANGED <<committed, outbox>> \/ Appends(c)
    BY <1>3, EffectIs DEF O!Commit
  <2>2. UNCHANGED <<drain, emitted, appends, auditLog, count>>
    BY <1>3 DEF O!Commit, O!txUnchanged
  <2> QED
    BY <1>0, <2>1, <2>2, RestsRecorded, GrowsRecorded
<1>4. ASSUME NEW c \in O!Completions, O!Transient(c) PROVE Recorded'
  <2>1. UNCHANGED <<committed, outbox>> \/ Appends(c)
    BY <1>0, <1>4, TransientDoes
  <2>2. UNCHANGED <<drain, emitted, appends, auditLog>>
    BY <1>0, <1>4, TransientDoes
  <2>3. count' = count \/ count' = [count EXCEPT !["silent"] = @ + 1]
    BY <1>0, <1>4, TransientDoes
  <2> QED
    BY <1>0, <2>1, <2>2, <2>3, RestsRecorded, GrowsRecorded
<1>5. ASSUME NEW c \in O!Completions, O!Kick(c) PROVE Recorded'
  <2>1. UNCHANGED <<outbox, drain, emitted, appends, auditLog>>
    BY <1>5 DEF O!Kick
  <2>2. count' = count \/ count' = [count EXCEPT !["lostKicks"] = @ + 1]
    BY <1>0, <1>5, TroubleCounts DEF O!Kick
  <2> QED
    BY <1>0, <2>1, <2>2, RestsRecorded
<1>6. CASE O!TakeShared
  <2>1. /\ UNCHANGED <<outbox, emitted, appends, auditLog, count>>
        /\ drain.pc = "off" /\ drain'.pc = "claim"
    BY <1>6 DEF O!TakeShared, O!drainUnchanged, O!Started
  <2> QED
    BY <1>0, <2>1, RestsRecorded
<1>7. CASE O!TakeKick
  <2>1. /\ UNCHANGED <<outbox, emitted, appends, auditLog, count>>
        /\ drain.pc = "off" /\ drain'.pc = "claim"
    BY <1>7 DEF O!TakeKick, O!Started
  <2> QED
    BY <1>0, <2>1, RestsRecorded
<1>8. CASE O!Claim
  BY <1>8, ClaimRecorded
<1>9. CASE O!NothingLeft
  <2>1. /\ UNCHANGED <<outbox, emitted, appends, auditLog, count>>
        /\ drain.pc = "claim" /\ drain'.pc = "ending"
    BY <1>0, <1>9 DEF O!NothingLeft, O!drainUnchanged, Drains
  <2> QED
    BY <1>0, <2>1, RestsRecorded
<1>10. CASE O!Ends
  <2>1. /\ UNCHANGED <<outbox, emitted, appends, auditLog, count>>
        /\ drain.pc = "ending" /\ drain'.pc = "off"
    BY <1>10 DEF O!Ends, O!drainUnchanged, O!Off
  <2> QED
    BY <1>0, <2>1, RestsRecorded
<1>11. CASE O!Emit
  BY <1>11, EmitRecorded
<1>12. CASE O!MarkPublished
  <2> DEFINE r == drain.row
  <2>1. /\ r \in DOMAIN outbox /\ Resets(r) /\ drain.pc = "mark"
        /\ outbox'[r].status = "published" /\ outbox'[r].later = outbox[r].later
        /\ drain' = [drain EXCEPT !.pc = "claim"]
        /\ UNCHANGED <<emitted, appends, auditLog, count>>
    BY <1>0, <1>12, MarkPublishedDoes
  <2>2. drain'.pc = "claim"
    BY <1>0, <2>1 DEF Drains
  <2>3. count.unmarked = 0 => ~outbox'[r].later
    BY <2>1 DEF Recorded
  <2> QED
    BY <1>0, <2>1, <2>2, <2>3, ResetRecorded
<1>13. CASE O!MarkFails
  <2> DEFINE r == drain.row
  <2>1. /\ r \in DOMAIN outbox /\ Resets(r) /\ drain.pc = "mark"
        /\ outbox'[r].status \in {"failed", "pending"}
        /\ drain' = [drain EXCEPT !.pc = "claim"]
        /\ count' = [count EXCEPT !["unmarked"] = @ + 1]
        /\ UNCHANGED <<emitted, appends, auditLog>>
    BY <1>0, <1>13, MarkFailsDoes
  <2>2. drain'.pc = "claim"
    BY <1>0, <2>1 DEF Drains
  <2>3. count'.unmarked > 0 /\ count'.crashes = count.crashes /\ count'.unaudited = count.unaudited
    BY <1>0, <2>1, CountType, CountFields DEF Troubles
  <2> QED
    BY <1>0, <2>1, <2>2, <2>3, ResetRecorded
<1>14. ASSUME NEW r \in DOMAIN outbox, O!Due(r) PROVE Recorded'
  <2>1. /\ Resets(r) /\ UNCHANGED <<emitted, appends, auditLog, drain, count>>
        /\ outbox'[r].status = outbox[r].status /\ outbox'[r].later = FALSE
    BY <1>0, <1>14, DueDoes
  <2>2. count.unmarked = 0 => outbox[r].status # "failed"
    BY DEF Recorded
  <2> QED
    BY <1>0, <2>1, <2>2, ResetRecorded
<1>15. ASSUME NEW id \in appends, O!SafeAppend(id) PROVE Recorded'
  <2>1. UNCHANGED <<outbox, drain, emitted>> /\ appends' = appends \ {id}
    BY <1>15 DEF O!SafeAppend, O!drainUnchanged
  <2>2. \/ auditLog' = auditLog \cup {id} /\ UNCHANGED count
        \/ auditLog' = auditLog /\ count' = [count EXCEPT !["unaudited"] = @ + 1]
    BY <1>0, <1>15, TroubleCounts DEF O!SafeAppend
  <2>3. CASE auditLog' = auditLog \cup {id} /\ UNCHANGED count
    BY <1>15, <2>1, <2>3 DEF Recorded, O!TypeOf
  <2>4. CASE auditLog' = auditLog /\ count' = [count EXCEPT !["unaudited"] = @ + 1]
    <3>1. count'.unaudited > 0 /\ count'.crashes = count.crashes /\ count'.unmarked = count.unmarked
      BY <1>0, <2>4, CountType, CountFields DEF Troubles
    <3> QED
      BY <1>15, <2>1, <2>4, <3>1 DEF Recorded, O!TypeOf
  <2> QED
    BY <2>2, <2>3, <2>4
<1>16. ASSUME NEW r \in DOMAIN outbox, O!Retry(r) PROVE Recorded'
  <2>1. /\ Resets(r) /\ UNCHANGED <<emitted, appends, auditLog, drain>>
        /\ outbox'[r].status = "pending" /\ outbox'[r].later = FALSE
        /\ count' = [count EXCEPT !["requests"] = @ + 1]
    BY <1>0, <1>16, RetryDoes
  <2>2. /\ count'.unmarked = count.unmarked /\ count'.crashes = count.crashes
        /\ count'.unaudited = count.unaudited
    BY <1>0, <2>1, CountType DEF Troubles
  <2> QED
    BY <1>0, <2>1, <2>2, ResetRecorded
<1>17. CASE O!RetryKicks
  <2>1. UNCHANGED <<outbox, drain, emitted, appends, auditLog>>
    BY <1>17 DEF O!RetryKicks, O!adminUnchanged
  <2>2. count' = count \/ count' = [count EXCEPT !["ignored"] = @ + 1]
    BY <1>17 DEF O!RetryKicks, O!AddShared
  <2> QED
    BY <1>0, <2>1, <2>2, RestsRecorded
<1>18. CASE O!Dispatch
  <2>1. UNCHANGED <<outbox, drain, emitted, appends, auditLog>>
    BY <1>18 DEF O!Dispatch, O!adminUnchanged
  <2>2. count' = [count EXCEPT !["requests"] = @ + 1]
    BY <1>0, <1>18, TroubleCounts DEF O!Dispatch
  <2> QED
    BY <1>0, <2>1, <2>2, RestsRecorded
<1>19. CASE O!Crash
  <2>1. UNCHANGED <<outbox, emitted, auditLog>> /\ drain'.pc = "off" /\ appends' = {}
    BY <1>19 DEF O!Crash, O!Off
  <2>2. count'.crashes > 0 /\ count'.unmarked = count.unmarked
    BY <1>0, <1>19, TroubleCounts, CountType, CountFields DEF O!Crash, Troubles
  <2> QED
    BY <2>1, <2>2 DEF Recorded, O!TypeOf
<1> QED
  BY <1>1, <1>2, <1>3, <1>4, <1>5, <1>6, <1>7, <1>8, <1>9, <1>10, <1>11, <1>12, <1>13, <1>14,
     <1>15, <1>16, <1>17, <1>18, <1>19
  DEF O!Next, O!Completing, O!Draining, O!Admin

-----------------------------------------------------------------------------
(* Outbox: the claims to come are enough. *)

LEMMA Products ==
  ASSUME NEW m \in Nat, NEW n \in Nat
  PROVE  /\ Batch * m \in Nat /\ Batch * (m + 1) = Batch * m + Batch
         /\ m <= n => Batch * m <= Batch * n
<1>1. Batch \in Nat
  BY OutboxNumbers
<1>2. Batch * m \in Nat /\ Batch * (m + 1) = Batch * m + Batch
  BY <1>1
<1>3. ASSUME m <= n PROVE Batch * m <= Batch * n
  <2>1. PICK d \in Nat : n = m + d
    <3>1. n - m \in Nat /\ n = m + (n - m)
      BY <1>3
    <3> QED
      BY <3>1
  <2>2. Batch * n = Batch * m + Batch * d /\ Batch * d \in Nat
    BY <1>1, <2>1
  <2> QED
    BY <1>2, <2>2
<1> QED
  BY <1>2, <1>3

LEMMA Finite ==
  OutboxTypes =>
         /\ IsFiniteSet(Pending) /\ Cardinality(Pending) \in Nat
         /\ IsFiniteSet(Kicking) /\ Cardinality(Kicking) \in Nat
<1> SUFFICES ASSUME OutboxTypes
             PROVE  /\ IsFiniteSet(Pending) /\ Cardinality(Pending) \in Nat
                    /\ IsFiniteSet(Kicking) /\ Cardinality(Kicking) \in Nat
  OBVIOUS
<1>1. Pending \subseteq 1..Len(outbox) /\ Len(outbox) \in Nat
  BY DEF Pending, OutboxTypes
<1>2. Kicking \subseteq 1..Len(Events) /\ Len(Events) \in Nat
  BY OutboxNumbers DEF Kicking
<1>3. IsFiniteSet(1..Len(outbox)) /\ IsFiniteSet(1..Len(Events))
  BY <1>1, <1>2, FS_Interval
<1> QED
  BY <1>1, <1>2, <1>3, FS_Subset, FS_CardinalityType

Jobs == kicks + Cardinality(Kicking)

LEMMA Parts ==
  OutboxTypes =>
         /\ Left \in Nat /\ Left <= Batch /\ Jobs \in Nat /\ Asked \in Nat /\ Batch \in Nat
         /\ Claimed = Left + Batch * Jobs + Asked /\ Claimed \in Nat /\ Batch * Jobs \in Nat
<1> SUFFICES ASSUME OutboxTypes
             PROVE  /\ Left \in Nat /\ Left <= Batch /\ Jobs \in Nat /\ Asked \in Nat /\ Batch \in Nat
                    /\ Claimed = Left + Batch * Jobs + Asked /\ Claimed \in Nat
                    /\ Batch * Jobs \in Nat
  OBVIOUS
<1>1. drain.left \in 0..Batch
  BY DEF OutboxTypes, Drains
<1>2. Left \in Nat /\ Left <= Batch /\ Batch \in Nat
  BY <1>1, OutboxNumbers DEF Left
<1>3. Jobs \in Nat
  BY Finite DEF Jobs, OutboxTypes
<1>4. Asked \in Nat
  BY CountFields DEF Asked, OutboxTypes
<1>5. Claimed = Left + Batch * Jobs + Asked
  BY DEF Claimed, Jobs
<1> QED
  BY <1>2, <1>3, <1>4, <1>5, Products

\* No step takes a failure or a request back.
LEMMA OrderlyBefore ==
  ASSUME OutboxTypes, OutboxTypes', Orderly',
         count' = count \/ \E w \in DOMAIN count : count' = [count EXCEPT ![w] = @ + 1]
  PROVE  /\ Orderly /\ count.requests <= count'.requests
         /\ count' = count \/ count' = [count EXCEPT !["requests"] = @ + 1]
                           \/ count' = [count EXCEPT !["unaudited"] = @ + 1]
<1>0. count \in Troubles
  BY DEF OutboxTypes
<1>1. CASE count' = count
  BY <1>0, <1>1, CountFields DEF Orderly, O!Undisturbed, O!Dispatched
<1>2. ASSUME NEW w \in DOMAIN count, count' = [count EXCEPT ![w] = @ + 1]
      PROVE  /\ Orderly /\ count.requests <= count'.requests
             /\ w \in {"requests", "unaudited"}
  <2>1. w \in {"unmarked", "unaudited", "lostKicks", "requests", "crashes", "ignored", "silent"}
        /\ DOMAIN count = {"unmarked", "unaudited", "lostKicks", "requests", "crashes", "ignored", "silent"}
    BY <1>0 DEF Troubles
  <2>2. /\ count'[w] = count[w] + 1
        /\ \A v \in DOMAIN count : v # w => count'[v] = count[v]
    BY <1>0, <1>2, <2>1, CountType
  <2>3. \A v \in DOMAIN count : count[v] \in Nat
    BY <1>0, CountFields, <2>1
  <2>4. \A v \in DOMAIN count : count[v] <= count'[v] /\ count[v] \in Nat
    BY <2>2, <2>3
  <2>5. w \in {"requests", "unaudited"}
    <3>1. count'[w] # 0
      BY <2>2, <2>3
    <3> QED
      BY <2>1, <3>1 DEF Orderly, O!Undisturbed, O!Dispatched
  <2>6. /\ count.crashes = 0 /\ count.lostKicks = 0 /\ count.silent = 0
        /\ count.unmarked = 0 /\ count.ignored = 0
    BY <2>1, <2>2, <2>5 DEF Orderly, O!Undisturbed, O!Dispatched
  <2>7. count.requests <= count'.requests /\ count'.requests <= Batch /\ count'.requests \in Nat
        /\ count.requests \in Nat /\ Batch \in Nat
    <3>1. count'.requests <= Batch /\ count' \in Troubles /\ Batch \in Nat
      BY OutboxNumbers DEF Orderly, O!Dispatched, OutboxTypes
    <3> QED
      BY <1>0, <2>1, <2>4, <3>1 DEF Troubles
  <2> QED
    BY <2>5, <2>6, <2>7 DEF Orderly, O!Undisturbed, O!Dispatched
<1> QED
  BY <1>1, <1>2

\* What is to be shown of a step: that it takes no more claims away than rows.
LEMMA EnoughIf ==
  ASSUME OutboxTypes, OutboxTypes', Enough,
         count' = count \/ \E w \in DOMAIN count : count' = [count EXCEPT ![w] = @ + 1],
         drain'.job = "shared" => shared' = "active",
         request' = "updated" => count'.requests > 0,
         Orderly /\ Orderly' =>
            \/ Cardinality(Pending') + Claimed <= Cardinality(Pending) + Claimed'
            \/ Cardinality(Pending') = 0
  PROVE  Enough'
<1>1. SUFFICES ASSUME Orderly' PROVE Cardinality(Pending') <= Claimed'
  BY DEF Enough
<1>2. Orderly
  BY <1>1, OrderlyBefore
<1>3. Cardinality(Pending) <= Claimed
  BY <1>2 DEF Enough
<1>4. Cardinality(Pending) \in Nat /\ Claimed \in Nat
  BY Finite, Parts
<1>5. OutboxTypes' => (Cardinality(Pending) \in Nat)'
  BY Finite, PTL
<1>6. OutboxTypes' => (Claimed \in Nat)'
  BY Parts, PTL
<1> QED
  BY <1>1, <1>2, <1>3, <1>4, <1>5, <1>6

LEMMA Shrinks ==
  ASSUME OutboxTypes, NEW S, S \subseteq Pending
  PROVE  IsFiniteSet(S) /\ Cardinality(S) \in Nat /\ Cardinality(S) <= Cardinality(Pending)
  BY Finite, FS_Subset, FS_CardinalityType

LEMMA AddsOne ==
  ASSUME OutboxTypes, NEW r, NEW S, S \subseteq Pending \cup {r}
  PROVE  Cardinality(S) \in Nat /\ Cardinality(S) <= Cardinality(Pending) + 1
<1> DEFINE T == Pending \cup {r}
<1>1. IsFiniteSet(Pending) /\ Cardinality(Pending) \in Nat
  BY Finite
<1>2. IsFiniteSet(T) /\ Cardinality(T) <= Cardinality(Pending) + 1 /\ Cardinality(T) \in Nat
  BY <1>1, FS_AddElement
<1>3. S \in SUBSET T
  OBVIOUS
<1> HIDE DEF T
<1>4. IsFiniteSet(S) /\ Cardinality(S) <= Cardinality(T) /\ Cardinality(S) \in Nat
  BY <1>2, <1>3, FS_Subset, FS_CardinalityType
<1> QED
  BY <1>1, <1>2, <1>4

LEMMA LosesOne ==
  ASSUME OutboxTypes, NEW r \in Pending
  PROVE  Cardinality(Pending \ {r}) + 1 = Cardinality(Pending)
<1>1. IsFiniteSet(Pending) /\ Cardinality(Pending) \in Nat
  BY Finite
<1>2. Cardinality(Pending \ {r}) = Cardinality(Pending) - 1
  BY <1>1, FS_RemoveElement
<1> QED
  BY <1>1, <1>2

\* The rows of a commit are within a batch ...
LEMMA AddsBatch ==
  ASSUME OutboxTypes, NEW c \in O!Completions, Appends(c)
  PROVE  Cardinality(Pending') \in Nat /\ Cardinality(Pending') <= Cardinality(Pending) + Batch
<1> DEFINE n == Len(outbox)
<1> DEFINE m == Len(Events[c])
<1> DEFINE new == n + 1..n + m
<1>1. n \in Nat /\ m \in Nat /\ m <= Batch /\ Batch \in Nat /\ DOMAIN outbox = 1..n
  BY OutboxNumbers DEF OutboxTypes
<1>2. Pending' \subseteq Pending \cup new
  <2>1. SUFFICES ASSUME NEW r \in DOMAIN outbox', outbox'[r].status = "pending", r \notin Pending
                 PROVE  r \in new
    BY DEF Pending
  <2>2. r \notin DOMAIN outbox
    BY <2>1, Appended DEF Pending
  <2>3. r > n /\ r - n \in 1..m
    BY <2>1, <2>2, Appended
  <2>4. r \in Int
    BY <2>1, Appended
  <2> QED
    BY <1>1, <2>3, <2>4
<1> HIDE DEF n, m
<1>3. IsFiniteSet(new) /\ Cardinality(new) = m
  <2>1. n + 1 \in Int /\ n + m \in Int
    BY <1>1
  <2>2. IsFiniteSet(new) /\ Cardinality(new) = IF n + 1 > n + m THEN 0 ELSE (n + m) - (n + 1) + 1
    BY <2>1, FS_Interval
  <2> QED
    BY <1>1, <2>2
<1> HIDE DEF new
<1>4. IsFiniteSet(Pending) /\ Cardinality(Pending) \in Nat
  BY Finite
<1>5. /\ IsFiniteSet(Pending \cup new)
      /\ Cardinality(Pending \cup new) <= Cardinality(Pending) + Cardinality(new)
      /\ Cardinality(Pending \cup new) \in Nat
  <2>1. /\ IsFiniteSet(Pending \cup new) /\ IsFiniteSet(Pending \cap new)
        /\ Cardinality(Pending \cup new) = Cardinality(Pending) + Cardinality(new) - Cardinality(Pending \cap new)
    BY <1>3, <1>4, FS_Union, FS_Intersection
  <2>2. Cardinality(Pending \cap new) \in Nat /\ Cardinality(Pending \cup new) \in Nat
    BY <2>1, FS_CardinalityType
  <2> QED
    BY <1>1, <1>3, <1>4, <2>1, <2>2
<1>6. IsFiniteSet(Pending') /\ Cardinality(Pending') <= Cardinality(Pending \cup new)
  BY <1>2, <1>5, FS_Subset
<1>7. Cardinality(Pending') \in Nat
  BY <1>6, FS_CardinalityType
<1> QED
  BY <1>1, <1>3, <1>4, <1>5, <1>6, <1>7

\* ... and another job is to be added for them, unless the last attempt has failed.
LEMMA OneMoreJob ==
  ASSUME OutboxTypes, OutboxTypes', NEW c \in O!Completions, Appends(c),
         \A d \in O!Completions : d # c => tx'[d] = tx[d],
         tx'[c].pc \in {"idle", "open", "committed"}
  PROVE  Cardinality(Kicking') = Cardinality(Kicking) + 1
<1>1. \A d \in O!Completions : O!Completed(d)' <=> O!Completed(d) \/ d = c
  <2>1. committed' = committed \union {<<c, tx[c].try, i>> : i \in 1..Len(Events[c])}
    BY DEF Appends
  <2>2. <<c, tx[c].try, 1>> \in committed' /\ <<c, tx[c].try, 1>>[1] = c
    <3>1. 1 \in 1..Len(Events[c])
      BY OutboxNumbers
    <3> QED
      BY <2>1, <3>1
  <2>3. \A id \in committed' \ committed : id[1] = c
    BY <2>1
  <2> QED
    BY <2>1, <2>2, <2>3 DEF O!Completed
<1>2. c \notin Kicking
  BY DEF Kicking, Appends
<1>3. Kicking' = Kicking \cup {c}
  BY <1>1 DEF Kicking, O!Completions
<1>4. IsFiniteSet(Kicking) /\ Cardinality(Kicking) \in Nat
  BY Finite
<1> QED
  BY <1>2, <1>3, <1>4, FS_AddElement

LEMMA NoLessJobs ==
  ASSUME OutboxTypes, OutboxTypes', NEW c, UNCHANGED committed, kicks' = kicks,
         \A d \in O!Completions : d # c => tx'[d] = tx[d],
         c \in Kicking => tx'[c].pc \in {"idle", "open", "committed"}
  PROVE  Jobs <= Jobs'
<1>1. Kicking \subseteq Kicking'
  BY DEF Kicking, O!Completed, O!Completions
<1>2. OutboxTypes' => (IsFiniteSet(Kicking) /\ Cardinality(Kicking) \in Nat)'
  BY Finite, PTL
<1>3. Cardinality(Kicking) <= Cardinality(Kicking') /\ Cardinality(Kicking) \in Nat
  BY <1>1, <1>2, Finite, FS_Subset
<1> QED
  BY <1>2, <1>3 DEF Jobs, OutboxTypes

LEMMA KickIsAdded ==
  ASSUME OutboxTypes, OutboxTypes', NEW c \in O!Completions, UNCHANGED committed, kicks' = kicks + 1,
         \A d \in O!Completions : d # c => tx'[d] = tx[d], tx'[c].pc = "done"
  PROVE  Jobs <= Jobs'
<1>1. Kicking' = Kicking \ {c}
  BY DEF Kicking, O!Completed, O!Completions
<1>2. IsFiniteSet(Kicking) /\ Cardinality(Kicking) \in Nat
  BY Finite
<1>3. Cardinality(Kicking') \in {Cardinality(Kicking), Cardinality(Kicking) - 1}
  BY <1>1, <1>2, FS_RemoveElement
<1> QED
  BY <1>2, <1>3 DEF Jobs, OutboxTypes

LEMMA SameJobs ==
  ASSUME UNCHANGED <<tx, committed>>
  PROVE  Kicking' = Kicking /\ (kicks' = kicks => Jobs' = Jobs)
  BY DEF Kicking, Jobs, O!Completed, O!Completions

\* A step whose jobs, claims left and requests are no fewer, and whose pending rows no more.
LEMMA NoWorse ==
  ASSUME OutboxTypes, OutboxTypes', Pending' \subseteq Pending,
         Jobs <= Jobs', Left <= Left', Asked <= Asked'
  PROVE  Cardinality(Pending') + Claimed <= Cardinality(Pending) + Claimed'
<1>1. Cardinality(Pending') \in Nat /\ Cardinality(Pending') <= Cardinality(Pending)
      /\ Cardinality(Pending) \in Nat
  BY Shrinks, Finite
<1>2. OutboxTypes' => (/\ Left \in Nat /\ Jobs \in Nat /\ Asked \in Nat
                       /\ Claimed = Left + Batch * Jobs + Asked /\ Batch * Jobs \in Nat)'
  BY Parts, PTL
<1>3. /\ Left \in Nat /\ Jobs \in Nat /\ Asked \in Nat
      /\ Claimed = Left + Batch * Jobs + Asked /\ Batch * Jobs \in Nat
  BY Parts
<1>4. Batch * Jobs <= Batch * (Jobs')
  BY <1>2, <1>3, Products
<1> QED
  BY <1>1, <1>2, <1>3, <1>4

LEMMA EnoughInit == O!Init => Enough
<1> SUFFICES ASSUME O!Init PROVE Enough
  OBVIOUS
<1>1. OutboxTypes
  BY OrderInit DEF OrderInv
<1>2. Pending = {}
  BY DEF O!Init, Pending
<1>3. Cardinality(Pending) = 0 /\ Claimed \in Nat
  BY <1>1, <1>2, FS_EmptySet, Parts
<1> QED
  BY <1>3 DEF O!Init, O!Off, Enough

\* The parts of Claimed are numbers before a step and after it.
LEMMA PartsBoth ==
  ASSUME OutboxTypes, OutboxTypes'
  PROVE  /\ Left \in Nat /\ Jobs \in Nat /\ Asked \in Nat /\ Batch * Jobs \in Nat /\ Batch \in Nat
         /\ Claimed = Left + Batch * Jobs + Asked /\ Left <= Batch
         /\ Left' \in Nat /\ Jobs' \in Nat /\ Asked' \in Nat /\ Batch * (Jobs') \in Nat
         /\ Claimed' = Left' + Batch * (Jobs') + Asked'
         /\ Cardinality(Pending) \in Nat /\ Cardinality(Pending') \in Nat
<1>1. OutboxTypes' => (/\ Left \in Nat /\ Jobs \in Nat /\ Asked \in Nat
                       /\ Claimed = Left + Batch * Jobs + Asked /\ Batch * Jobs \in Nat)'
  BY Parts, PTL
<1>2. OutboxTypes' => (Cardinality(Pending) \in Nat)'
  BY Finite, PTL
<1> QED
  BY <1>1, <1>2, Parts, Finite

LEMMA CountNames ==
  ASSUME OutboxTypes
  PROVE  /\ count \in Troubles
         /\ DOMAIN count = {"unmarked", "unaudited", "lostKicks", "requests", "crashes", "ignored",
                            "silent"}
  BY DEF OutboxTypes, Troubles

LEMMA EnoughCommit ==
  ASSUME OutboxTypes, OutboxTypes', NEW c \in O!Completions,
         UNCHANGED <<committed, outbox>> \/ Appends(c),
         \A d \in O!Completions : d # c => tx'[d] = tx[d],
         tx'[c].pc \in {"idle", "open", "committed"},
         UNCHANGED <<shared, kicks, drain, request>>, count'.requests = count.requests
  PROVE  Cardinality(Pending') + Claimed <= Cardinality(Pending) + Claimed'
<1>1. Left' = Left /\ Asked' = Asked
  BY DEF Left, Asked
<1>2. CASE UNCHANGED <<committed, outbox>>
  <2>1. Pending' \subseteq Pending
    BY <1>2 DEF Pending
  <2>2. Jobs <= Jobs'
    BY <1>2, NoLessJobs
  <2> QED
    BY <1>1, <2>1, <2>2, NoWorse, PartsBoth
<1>3. CASE Appends(c)
  <2>1. Cardinality(Kicking') = Cardinality(Kicking) + 1
    BY <1>3, OneMoreJob
  <2>2. Jobs' = Jobs + 1
    BY <2>1, Finite DEF Jobs, OutboxTypes
  <2>3. Batch * (Jobs') = Batch * Jobs + Batch
    BY <2>2, Products, PartsBoth
  <2>4. Cardinality(Pending') <= Cardinality(Pending) + Batch
    BY <1>3, AddsBatch
  <2> QED
    BY <1>1, <2>3, <2>4, PartsBoth
<1> QED
  BY <1>2, <1>3

LEMMA EnoughTransient ==
  ASSUME OutboxTypes, OutboxTypes', Enough, NEW c \in O!Completions, O!Transient(c)
  PROVE  Enough'
<1>1. /\ UNCHANGED <<committed, outbox>> \/ Appends(c)
      /\ UNCHANGED <<shared, kicks, drain, request>>
      /\ count' = count \/ count' = [count EXCEPT !["silent"] = @ + 1]
  BY TransientDoes
<1>2. count'.requests = count.requests
  BY <1>1, CountType, CountNames
<1>3. \A d \in O!Completions : d # c => tx'[d] = tx[d]
  BY TransientDoes DEF OutboxTypes
<1>4. ASSUME Orderly, Orderly'
      PROVE  Cardinality(Pending') + Claimed <= Cardinality(Pending) + Claimed'
  <2>1. ~(tx[c].try = MaxTries /\ O!Completed(c)')
    <3>1. count'.silent = 0 /\ count.silent = 0
      BY <1>4 DEF Orderly, O!Undisturbed
    <3>2. count' # [count EXCEPT !["silent"] = @ + 1]
      BY <3>1, CountType, CountNames
    <3> QED
      BY <3>2, TransientDoes
  <2>2. CASE tx' = [tx EXCEPT ![c] = [pc |-> "idle", try |-> @.try + 1]]
    <3>1. tx'[c].pc = "idle"
      BY <2>2 DEF OutboxTypes
    <3> QED
      BY <1>1, <1>2, <1>3, <3>1, EnoughCommit
  <2>3. CASE tx[c].try = MaxTries
    <3>1. ~O!Completed(c)'
      BY <2>1, <2>3
    <3>2. ~Appends(c)
      <4>1. SUFFICES ASSUME Appends(c) PROVE O!Completed(c)'
        BY <3>1
      <4>2. 1 \in 1..Len(Events[c])
        BY OutboxNumbers
      <4>3. <<c, tx[c].try, 1>> \in committed' /\ <<c, tx[c].try, 1>>[1] = c
        BY <4>1, <4>2 DEF Appends
      <4> QED
        BY <4>3 DEF O!Completed
    <3>3. UNCHANGED <<committed, outbox>> /\ ~O!Completed(c)
      BY <1>1, <3>1, <3>2 DEF O!Completed
    <3>4. c \notin Kicking
      BY <3>3 DEF Kicking
    <3>5. Jobs <= Jobs'
      BY <1>1, <1>3, <3>3, <3>4, NoLessJobs
    <3>6. Left' = Left /\ Asked' = Asked /\ Pending' \subseteq Pending
      BY <1>1, <1>2, <3>3 DEF Left, Asked, Pending
    <3> QED
      BY <3>5, <3>6, NoWorse, PartsBoth
  <2> QED
    BY <2>2, <2>3, TransientDoes
<1>5. request' = "updated" => count'.requests > 0
  BY <1>1, <1>2 DEF Enough
<1>6. drain'.job = "shared" => shared' = "active"
  BY <1>1 DEF Enough
<1>7. count' = count \/ \E w \in DOMAIN count : count' = [count EXCEPT ![w] = @ + 1]
  BY <1>1, CountNames
<1> QED
  BY <1>4, <1>5, <1>6, <1>7, EnoughIf

LEMMA EnoughKick ==
  ASSUME OutboxTypes, OutboxTypes', Enough, NEW c \in O!Completions, O!Kick(c)
  PROVE  Enough'
<1>1. /\ tx' = [tx EXCEPT ![c].pc = "done"]
      /\ UNCHANGED <<committed, outbox, shared, drain, request>>
      /\ \/ kicks' = kicks + 1 /\ UNCHANGED count
         \/ kicks' = kicks /\ count' = [count EXCEPT !["lostKicks"] = @ + 1]
  BY TroubleCounts DEF O!Kick
<1>2. count'.requests = count.requests
  BY <1>1, CountType, CountNames
<1>3. ASSUME Orderly, Orderly'
      PROVE  Cardinality(Pending') + Claimed <= Cardinality(Pending) + Claimed'
  <2>1. count'.lostKicks = 0 /\ count.lostKicks = 0
    BY <1>3 DEF Orderly, O!Undisturbed
  <2>2. count' # [count EXCEPT !["lostKicks"] = @ + 1]
    BY <2>1, CountType, CountNames
  <2>3. kicks' = kicks + 1
    BY <1>1, <2>2
  <2>4. (\A d \in O!Completions : d # c => tx'[d] = tx[d]) /\ tx'[c].pc = "done"
    BY <1>1 DEF OutboxTypes, Transactions
  <2>5. Jobs <= Jobs'
    BY <1>1, <2>3, <2>4, KickIsAdded
  <2>6. Left' = Left /\ Asked' = Asked /\ Pending' \subseteq Pending
    BY <1>1, <1>2 DEF Left, Asked, Pending
  <2> QED
    BY <2>5, <2>6, NoWorse, PartsBoth
<1>4. request' = "updated" => count'.requests > 0
  BY <1>1, <1>2 DEF Enough
<1>5. drain'.job = "shared" => shared' = "active"
  BY <1>1 DEF Enough
<1>6. count' = count \/ \E w \in DOMAIN count : count' = [count EXCEPT ![w] = @ + 1]
  BY <1>1, CountNames
<1> QED
  BY <1>3, <1>4, <1>5, <1>6, EnoughIf

LEMMA EnoughTakes ==
  ASSUME OutboxTypes, OutboxTypes', Enough, O!TakeShared \/ O!TakeKick
  PROVE  Enough'
<1>1. /\ drain.pc = "off" /\ UNCHANGED <<tx, committed, outbox, request, count>>
      /\ drain'.pc = "claim" /\ drain'.left = Batch
  BY DEF O!TakeShared, O!TakeKick, O!Started, O!drainUnchanged
<1>2. Left = 0 /\ Left' = Batch /\ Pending' = Pending
  BY <1>1 DEF Left, Pending
<1>3. ASSUME Orderly, Orderly', O!TakeShared
      PROVE  Cardinality(Pending') + Claimed <= Cardinality(Pending) + Claimed'
  <2>1. Jobs' = Jobs
    BY <1>1, <1>3, SameJobs DEF O!TakeShared, O!drainUnchanged
  <2>2. Asked <= Batch
    BY <1>3 DEF O!TakeShared, Asked, Orderly, O!Dispatched
  <2> QED
    BY <1>2, <2>1, <2>2, PartsBoth
<1>4. ASSUME O!TakeKick
      PROVE  Cardinality(Pending') + Claimed <= Cardinality(Pending) + Claimed'
  <2>1. Kicking' = Kicking /\ kicks' = kicks - 1 /\ kicks \in Nat
    BY <1>1, <1>4, SameJobs DEF O!TakeKick, OutboxTypes
  <2>2. Jobs = Jobs' + 1
    BY <2>1, Finite DEF Jobs
  <2>3. Batch * Jobs = Batch * (Jobs') + Batch
    BY <2>2, Products, PartsBoth
  <2>4. Asked' = Asked
    BY <1>1, <1>4 DEF O!TakeKick, Asked
  <2> QED
    BY <1>2, <2>3, <2>4, PartsBoth
<1>5. request' = "updated" => count'.requests > 0
  BY <1>1 DEF Enough
<1>6. drain'.job = "shared" => shared' = "active"
  BY DEF O!TakeShared, O!TakeKick, O!Started
<1> QED
  BY <1>1, <1>3, <1>4, <1>5, <1>6, EnoughIf

LEMMA EnoughClaim ==
  ASSUME OutboxTypes, OutboxTypes', Enough, O!Claim
  PROVE  Enough'
<1>1. PICK r \in DOMAIN outbox :
         /\ outbox[r].status = "pending" /\ Rewrites(r) /\ outbox'[r].status = "processing"
         /\ drain' = [drain EXCEPT !.pc = "emit", !.row = r, !.left = @ - 1]
  BY ClaimDoes
<1>2. /\ drain.pc = "claim" /\ drain.left > 0
      /\ UNCHANGED <<tx, committed, shared, kicks, request, count>>
  BY ClaimDoes
<1>3. Left' + 1 = Left
  <2>1. drain.left \in Nat
    BY DEF OutboxTypes, Drains
  <2>2. drain'.pc = "emit" /\ drain'.left = drain.left - 1
    BY <1>1 DEF OutboxTypes, Drains
  <2> QED
    BY <1>2, <2>1, <2>2 DEF Left
<1>4. Jobs' = Jobs /\ Asked' = Asked
  BY <1>2, SameJobs DEF Asked
<1>5. r \in Pending /\ Pending' = Pending \ {r}
  BY <1>1 DEF Pending, Rewrites
<1>6. Cardinality(Pending') + 1 = Cardinality(Pending)
  BY <1>5, LosesOne
<1>7. Cardinality(Pending') + Claimed <= Cardinality(Pending) + Claimed'
  BY <1>3, <1>4, <1>6, PartsBoth
<1>8. drain'.job = drain.job
  BY <1>1 DEF OutboxTypes, Drains
<1> QED
  BY <1>2, <1>7, <1>8, EnoughIf DEF Enough

LEMMA EnoughNothing ==
  ASSUME OutboxTypes, OutboxTypes', Enough, Recorded, O!NothingLeft
  PROVE  Enough'
<1>1. /\ drain.pc = "claim" /\ drain' = [drain EXCEPT !.pc = "ending"]
      /\ drain.left = 0 \/ \A r \in DOMAIN outbox : ~O!Claimable(r)
      /\ UNCHANGED <<tx, committed, outbox, shared, kicks, request, count>>
  BY DEF O!NothingLeft, O!drainUnchanged
<1>2. Jobs' = Jobs /\ Asked' = Asked /\ Pending' = Pending
  BY <1>1, SameJobs DEF Asked, Pending
<1>3. drain'.pc = "ending" /\ drain'.job = drain.job /\ Left' = 0
  BY <1>1 DEF OutboxTypes, Drains, Left
<1>4. CASE drain.left = 0
  <2>1. Left = 0
    BY <1>1, <1>4 DEF Left
  <2>2. Cardinality(Pending') + Claimed <= Cardinality(Pending) + Claimed'
    BY <1>2, <1>3, <2>1, PartsBoth
  <2> QED
    BY <1>1, <1>3, <2>2, EnoughIf DEF Enough
<1>5. CASE \A r \in DOMAIN outbox : ~O!Claimable(r)
  <2>1. ASSUME Orderly PROVE Pending' = {}
    <3>1. \A r \in DOMAIN outbox : ~outbox[r].later
      BY <2>1 DEF Recorded, Orderly, O!Dispatched
    <3> QED
      BY <1>2, <1>5, <3>1 DEF Pending, O!Claimable
  <2>2. Orderly => Cardinality(Pending') = 0
    BY <2>1, FS_EmptySet
  <2> QED
    BY <1>1, <1>3, <2>2, EnoughIf DEF Enough
<1> QED
  BY <1>1, <1>4, <1>5

LEMMA EnoughEnds ==
  ASSUME OutboxTypes, OutboxTypes', Enough, O!Ends
  PROVE  Enough'
<1>1. /\ drain.pc = "ending" /\ drain' = O!Off
      /\ shared' = IF drain.job = "shared" THEN "none" ELSE shared
      /\ UNCHANGED <<tx, committed, outbox, kicks, request, count>>
  BY DEF O!Ends, O!drainUnchanged
<1>2. Jobs' = Jobs /\ Pending' = Pending
  BY <1>1, SameJobs DEF Pending
<1>3. Asked' = Asked
  BY <1>1 DEF Asked, Enough
<1>4. drain'.pc = "off" /\ drain'.job = "none" /\ Left' = 0 /\ Left = 0
  BY <1>1 DEF O!Off, Left
<1>5. Cardinality(Pending') + Claimed <= Cardinality(Pending) + Claimed'
  BY <1>2, <1>3, <1>4, PartsBoth
<1> QED
  BY <1>1, <1>4, <1>5, EnoughIf DEF Enough

\* Emitting and marking, a date that passes and an audit record: no claim is used up.
LEMMA EnoughStays ==
  ASSUME OutboxTypes, OutboxTypes', Enough,
         UNCHANGED <<tx, committed, shared, kicks, request>>,
         drain' = drain \/ (drain.pc = "emit" /\ drain' = [drain EXCEPT !.pc = "mark"])
                        \/ (drain.pc = "mark" /\ drain' = [drain EXCEPT !.pc = "claim"]),
         count' = count \/ count' = [count EXCEPT !["unaudited"] = @ + 1]
                        \/ count' = [count EXCEPT !["unmarked"] = @ + 1],
         Orderly' => Pending' \subseteq Pending
  PROVE  Enough'
<1>1. count'.requests = count.requests
  BY CountType, CountNames
<1>2. Jobs' = Jobs /\ Asked' = Asked
  BY <1>1, SameJobs DEF Asked
<1>3. drain'.job = drain.job /\ Left' = Left
  BY DEF OutboxTypes, Drains, Left
<1>4. Orderly' => Cardinality(Pending') + Claimed <= Cardinality(Pending) + Claimed'
  BY <1>2, <1>3, NoWorse, PartsBoth
<1>5. count' = count \/ \E w \in DOMAIN count : count' = [count EXCEPT ![w] = @ + 1]
  BY CountNames
<1> QED
  BY <1>1, <1>3, <1>4, <1>5, EnoughIf DEF Enough

LEMMA EnoughRetry ==
  ASSUME OutboxTypes, OutboxTypes', Enough, NEW r \in DOMAIN outbox, O!Retry(r)
  PROVE  Enough'
<1>1. /\ Resets(r) /\ request = "none" /\ request' = "updated"
      /\ count' = [count EXCEPT !["requests"] = @ + 1]
      /\ UNCHANGED <<tx, committed, shared, kicks, drain>>
  BY RetryDoes
<1>2. count'.requests = count.requests + 1 /\ count.requests \in Nat
  BY <1>1, CountType, CountNames, CountFields
<1>3. Jobs' = Jobs /\ Left' = Left
  BY <1>1, SameJobs DEF Left
<1>4. Asked' = Asked + 1
  BY <1>1, <1>2 DEF Asked
<1>5. Pending' \subseteq Pending \cup {r}
  BY <1>1 DEF Pending, Resets, Rewrites
<1>6. Cardinality(Pending') <= Cardinality(Pending) + 1
  BY <1>5, AddsOne
<1>7. Cardinality(Pending') + Claimed <= Cardinality(Pending) + Claimed'
  BY <1>3, <1>4, <1>6, PartsBoth
<1>8. count'.requests > 0
  BY <1>2
<1>9. \E w \in DOMAIN count : count' = [count EXCEPT ![w] = @ + 1]
  BY <1>1, CountNames
<1> QED
  BY <1>1, <1>7, <1>8, <1>9, EnoughIf DEF Enough

LEMMA EnoughRetryKicks ==
  ASSUME OutboxTypes, OutboxTypes', Enough, O!RetryKicks
  PROVE  Enough'
<1>1. /\ request = "updated" /\ request' = "none"
      /\ shared' = IF shared = "none" THEN "waiting" ELSE shared
      /\ count' = IF shared = "active" THEN [count EXCEPT !["ignored"] = @ + 1] ELSE count
      /\ UNCHANGED <<tx, committed, outbox, kicks, drain>>
  BY DEF O!RetryKicks, O!AddShared, O!adminUnchanged
<1>2. Jobs' = Jobs /\ Left' = Left /\ Pending' = Pending
  BY <1>1, SameJobs DEF Left, Pending
<1>3. ASSUME Orderly'
      PROVE  Cardinality(Pending') + Claimed <= Cardinality(Pending) + Claimed'
  <2>1. shared # "active"
    <3>1. SUFFICES ASSUME shared = "active" PROVE count'.ignored # 0
      BY <1>3 DEF Orderly, O!Dispatched
    <3>2. count'.ignored = count.ignored + 1 /\ count.ignored \in Nat
      BY <1>1, <3>1, CountType, CountNames, CountFields
    <3> QED
      BY <3>2
  <2>2. shared' = "waiting" /\ count' = count
    BY <1>1, <2>1 DEF OutboxTypes
  <2>3. count.requests \in Nat /\ count.requests > 0
    BY <1>1, CountNames, CountFields DEF Enough
  <2>4. Asked <= Asked'
    BY <1>1, <2>1, <2>2, <2>3 DEF Asked
  <2> QED
    BY <1>2, <2>4, PartsBoth
<1>4. count' = count \/ \E w \in DOMAIN count : count' = [count EXCEPT ![w] = @ + 1]
  BY <1>1, CountNames
<1>5. drain'.job = "shared" => shared' = "active"
  BY <1>1 DEF Enough
<1> QED
  BY <1>1, <1>3, <1>4, <1>5, EnoughIf DEF Enough

LEMMA EnoughDispatch ==
  ASSUME OutboxTypes, OutboxTypes', Enough, O!Dispatch
  PROVE  Enough'
<1>1. /\ request = "none" /\ request' = "none"
      /\ shared' = IF shared = "none" THEN "waiting" ELSE shared
      /\ count' = [count EXCEPT !["requests"] = @ + 1]
      /\ UNCHANGED <<tx, committed, outbox, kicks, drain>>
  BY TroubleCounts DEF O!Dispatch, O!adminUnchanged
<1>2. Jobs' = Jobs /\ Left' = Left /\ Pending' = Pending
  BY <1>1, SameJobs DEF Left, Pending
<1>3. count'.requests = count.requests + 1 /\ count.requests \in Nat
  BY <1>1, CountType, CountNames, CountFields
<1>4. Asked <= Asked'
  BY <1>1, <1>3 DEF Asked
<1>5. Cardinality(Pending') + Claimed <= Cardinality(Pending) + Claimed'
  BY <1>2, <1>4, PartsBoth
<1>6. \E w \in DOMAIN count : count' = [count EXCEPT ![w] = @ + 1]
  BY <1>1, CountNames
<1>7. drain'.job = "shared" => shared' = "active"
  BY <1>1 DEF Enough
<1> QED
  BY <1>1, <1>5, <1>6, <1>7, EnoughIf DEF Enough

LEMMA EnoughCrash ==
  ASSUME OutboxTypes, OutboxTypes', O!Crash
  PROVE  Enough'
<1>1. /\ count' = [count EXCEPT !["crashes"] = @ + 1] /\ drain' = O!Off /\ request' = "none"
  BY TroubleCounts DEF O!Crash
<1>2. count'.crashes # 0
  BY <1>1, CountType, CountNames, CountFields
<1> QED
  BY <1>1, <1>2 DEF Enough, Orderly, O!Undisturbed, O!Off

LEMMA StrandNext ==
  ASSUME StrandInv, [O!Next]_(O!vars)
  PROVE  StrandInv'
<1> USE DEF StrandInv
<1>0. OutboxTypes /\ OutboxTypes' /\ OrderInv' /\ Recorded' /\ Orderly' \in BOOLEAN
  BY OutboxTypesNext, OrderNext, RecordedNext DEF OrderInv, Orderly, O!Undisturbed
<1>1. CASE UNCHANGED O!vars
  <2>1. Pending' \subseteq Pending
    BY <1>1 DEF O!vars, Pending
  <2> QED
    BY <1>0, <1>1, <2>1, EnoughStays DEF O!vars
<1>2. ASSUME NEW c \in O!Completions, O!Open(c) PROVE Enough'
  <2>1. tx' = [tx EXCEPT ![c].pc = "open"]
        /\ UNCHANGED <<committed, outbox, shared, kicks, drain, request, count>>
    BY <1>2 DEF O!Open, O!txUnchanged
  <2>2. (\A d \in O!Completions : d # c => tx'[d] = tx[d]) /\ tx'[c].pc = "open"
    BY <1>0, <2>1 DEF OutboxTypes, Transactions
  <2>3. Cardinality(Pending') + Claimed <= Cardinality(Pending) + Claimed'
    BY <1>0, <2>1, <2>2, EnoughCommit
  <2> QED
    BY <1>0, <2>1, <2>3, EnoughIf DEF Enough
<1>3. ASSUME NEW c \in O!Completions, O!Commit(c) PROVE Enough'
  <2>1. tx' = [tx EXCEPT ![c].pc = "committed"]
        /\ UNCHANGED <<shared, kicks, drain, request, count>>
    BY <1>3 DEF O!Commit, O!txUnchanged
  <2>2. (\A d \in O!Completions : d # c => tx'[d] = tx[d]) /\ tx'[c].pc = "committed"
    BY <1>0, <2>1 DEF OutboxTypes, Transactions
  <2>3. UNCHANGED <<committed, outbox>> \/ Appends(c)
    BY <1>3, EffectIs DEF O!Commit
  <2>4. Cardinality(Pending') + Claimed <= Cardinality(Pending) + Claimed'
    BY <1>0, <2>1, <2>2, <2>3, EnoughCommit
  <2> QED
    BY <1>0, <2>1, <2>4, EnoughIf DEF Enough
<1>4. ASSUME NEW c \in O!Completions, O!Transient(c) PROVE Enough'
  BY <1>0, <1>4, EnoughTransient
<1>5. ASSUME NEW c \in O!Completions, O!Kick(c) PROVE Enough'
  BY <1>0, <1>5, EnoughKick
<1>6. CASE O!TakeShared \/ O!TakeKick
  BY <1>0, <1>6, EnoughTakes
<1>8. CASE O!Claim
  BY <1>0, <1>8, EnoughClaim
<1>9. CASE O!NothingLeft
  BY <1>0, <1>9, EnoughNothing
<1>10. CASE O!Ends
  BY <1>0, <1>10, EnoughEnds
<1>11. CASE O!Emit
  <2>1. Pending' = Pending
    BY <1>0, <1>11, EmitDoes DEF Pending
  <2> QED
    BY <1>0, <1>11, <2>1, EmitDoes, EnoughStays
<1>12. CASE O!MarkPublished
  <2>1. Pending' \subseteq Pending
    BY <1>0, <1>12, MarkPublishedDoes DEF Pending, Resets, Rewrites
  <2> QED
    BY <1>0, <1>12, <2>1, MarkPublishedDoes, EnoughStays
<1>13. CASE O!MarkFails
  <2>1. count' = [count EXCEPT !["unmarked"] = @ + 1]
    BY <1>0, <1>13, MarkFailsDoes
  <2>2. count'.unmarked # 0
    BY <1>0, <2>1, CountType, CountNames, CountFields
  <2>3. ~Orderly'
    BY <2>2 DEF Orderly, O!Dispatched
  <2> QED
    BY <1>0, <1>13, <2>1, <2>3, MarkFailsDoes, EnoughStays
<1>14. ASSUME NEW r \in DOMAIN outbox, O!Due(r) PROVE Enough'
  <2>1. Pending' \subseteq Pending
    BY <1>0, <1>14, DueDoes DEF Pending, Resets, Rewrites
  <2> QED
    BY <1>0, <1>14, <2>1, DueDoes, EnoughStays
<1>15. ASSUME NEW id \in appends, O!SafeAppend(id) PROVE Enough'
  <2>1. UNCHANGED <<tx, committed, shared, kicks, request, outbox, drain>>
    BY <1>15 DEF O!SafeAppend, O!drainUnchanged
  <2>2. count' = count \/ count' = [count EXCEPT !["unaudited"] = @ + 1]
    BY <1>0, <1>15, TroubleCounts DEF O!SafeAppend
  <2>3. Pending' \subseteq Pending
    BY <2>1 DEF Pending
  <2> QED
    BY <1>0, <2>1, <2>2, <2>3, EnoughStays
<1>16. ASSUME NEW r \in DOMAIN outbox, O!Retry(r) PROVE Enough'
  BY <1>0, <1>16, EnoughRetry
<1>17. CASE O!RetryKicks
  BY <1>0, <1>17, EnoughRetryKicks
<1>18. CASE O!Dispatch
  BY <1>0, <1>18, EnoughDispatch
<1>19. CASE O!Crash
  BY <1>0, <1>19, EnoughCrash
<1>20. Enough'
  BY <1>1, <1>2, <1>3, <1>4, <1>5, <1>6, <1>8, <1>9, <1>10, <1>11, <1>12, <1>13, <1>14,
     <1>15, <1>16, <1>17, <1>18, <1>19
  DEF O!Next, O!Completing, O!Draining, O!Admin
<1> QED
  BY <1>0, <1>20

LEMMA StrandImplies == StrandInv => NothingStranded
<1> SUFFICES ASSUME StrandInv, O!Quiet, O!Undisturbed, O!Dispatched
             PROVE  /\ \A r \in DOMAIN outbox : outbox[r].status = "published"
                    /\ count.unaudited = 0 => auditLog = {id \in committed : O!TypeOf(id) \in Audited}
  BY DEF NothingStranded, O!NothingStranded
<1>0. OutboxTypes
  BY DEF StrandInv, OrderInv
<1>1. Kicking = {}
  BY DEF Kicking, O!Quiet
<1>2. Left = 0 /\ Asked = 0 /\ kicks = 0
  BY DEF Left, Asked, O!Quiet
<1>3. Claimed = 0
  <2>1. Jobs = 0
    BY <1>1, <1>2, FS_EmptySet DEF Jobs
  <2>2. Batch * Jobs = 0
    BY <2>1, OutboxNumbers
  <2> QED
    BY <1>0, <1>2, <2>2, Parts
<1>4. Pending = {}
  <2>1. Cardinality(Pending) <= 0 /\ Cardinality(Pending) \in Nat /\ IsFiniteSet(Pending)
    BY <1>0, <1>3, Finite DEF StrandInv, Enough, Orderly
  <2> QED
    BY <2>1, FS_EmptySet
<1>5. ASSUME NEW r \in DOMAIN outbox PROVE outbox[r].status = "published"
  <2>1. outbox[r].status \in Statuses
    BY <1>0, RowType
  <2>2. outbox[r].status # "pending"
    BY <1>4 DEF Pending
  <2>3. outbox[r].status # "processing"
    BY DEF StrandInv, Recorded, O!Quiet, O!Undisturbed
  <2>4. outbox[r].status # "failed"
    BY DEF StrandInv, Recorded, O!Dispatched
  <2> QED
    BY <2>1, <2>2, <2>3, <2>4 DEF Statuses
<1>6. committed = emitted
  <2>1. emitted \subseteq committed /\ \A id \in committed : \E r \in DOMAIN outbox : id = outbox[r].id
    BY DEF StrandInv, OrderInv, RowsMatch
  <2>2. \A r \in DOMAIN outbox : outbox[r].id \in emitted
    BY <1>5 DEF StrandInv, Recorded
  <2> QED
    BY <2>1, <2>2
<1>7. count.unaudited = 0 => auditLog = {id \in committed : O!TypeOf(id) \in Audited}
  BY <1>6 DEF StrandInv, Recorded, O!Quiet, O!Undisturbed
<1> QED
  BY <1>5, <1>7

\* A dispatcher that is idle has left nothing behind: every row was published and what is to be
\* audited is in the audit log, whatever the order of commits, dispatches, retries and audit
\* records was, as long as none of them failed and the retries were within a batch.
THEOREM NothingIsStranded == O!Spec => []NothingStranded
<1>1. O!Init => StrandInv
  BY OrderInit, RecordedInit, EnoughInit DEF StrandInv
<1>2. StrandInv /\ [O!Next]_(O!vars) => StrandInv'
  BY StrandNext
<1> QED
  BY <1>1, <1>2, StrandImplies, PTL DEF O!Spec

=============================================================================
