--------------------------- MODULE WorkersProofs ----------------------------
(***************************************************************************)
(* Theorems about Bots and about Admission.  Of Bots: how often the jobs   *)
(* of a round bid, and how many active bots the pool of an auction has.    *)
(* Of Admission: how many of a user's bids all its processes accept.       *)
(*                                                                         *)
(* The two have MCWorkers in common, which names the state of Admission A. *)
(***************************************************************************)
EXTENDS MCWorkers, FiniteSetTheorems, WellFoundedInduction, TLAPS

-----------------------------------------------------------------------------
(* The inductive invariant. *)

WaitingJob == [state : {"waiting"}, tries : 0..Attempts, stalls : 0..1]
WorkingJob == [state : {"looks", "creates", "bids"}, tries : 0..Attempts, stalls : 0..1,
               api : Apis, need : 0..Target]
Job == {NoJob} \union WaitingJob \union WorkingJob

\* What TypeOK says, and that there is a record for every index.
Types == TypeOK /\ jobs \in [Slots -> Job]

\* A job that has not bid since it was last added or taken back may still bid.
MayBid(job) == job.state \in {"waiting", "looks", "creates"}
Owed(i) == IF MayBid(jobs[i]) THEN 1 ELSE 0

\* Every bid of a job, made or still to be made, comes from a delivery or a stop.
Counted == \A i \in Slots : acted[i] + Owed(i) <= delivered + stalled[i]

\* As long as one job fills the pool at a time, and nobody starts bots by hand, the pool and
\* what is still missing of it are within the target.
Filled ==
    ~overlapped /\ ~byAdmin =>
        /\ Cardinality(ActiveBots) <= Target
        /\ \A k \in Filling : Cardinality(ActiveBots) + jobs[k].need <= Target
        /\ \A k, l \in Filling : k = l

IInv == Types /\ Counted /\ Filled

-----------------------------------------------------------------------------
(* The constants, the jobs and the bots. *)

LEMMA Numbers ==
  /\ Attempts \in Nat /\ Target \in Nat /\ MaxBots \in Nat
  /\ MaxDeliveries \in Nat /\ MaxStops \in Nat /\ MaxByHand \in Nat
  BY BotsAssumption

LEMMA WaitingType ==
  ASSUME NEW tries \in 0..Attempts, NEW stalls \in 0..1
  PROVE  Waiting(tries, stalls) \in Job /\ Waiting(tries, stalls).state = "waiting"
  BY DEF Waiting, Job, WaitingJob

LEMMA NoJobType == NoJob \in Job /\ NoJob.state = "none"
  BY DEF NoJob, Job

LEMMA JobKinds ==
  ASSUME NEW job \in Job
  PROVE  /\ job.state = "waiting" => job \in WaitingJob
         /\ job.state \in {"looks", "creates", "bids"} => job \in WorkingJob
         /\ job.state \in {"none", "waiting", "looks", "creates", "bids"}
  BY DEF Job, NoJob, WaitingJob, WorkingJob

LEMMA TypesNext ==
  ASSUME jobs' \in [Slots -> Job],
         bots' \in [Ids -> {"none", "active", "stopped"}], timers' \subseteq Apis \X Ids,
         {open', overlapped', byAdmin'} \subseteq BOOLEAN,
         delivered' \in 0..MaxDeliveries, stops' \in 0..MaxStops, byHand' \in 0..MaxByHand,
         acted' \in [Slots -> Nat], stalled' \in [Slots -> Nat]
  PROVE  Types'
  BY DEF Types, TypeOK, Job, WaitingJob, WorkingJob

LEMMA BecomesWrites ==
  ASSUME Types, NEW i \in Slots, NEW job \in Job, Becomes(i, job)
  PROVE  /\ jobs' \in [Slots -> Job] /\ jobs'[i] = job
         /\ \A k \in Slots \ {i} : jobs'[k] = jobs[k]
  BY DEF Types, Becomes

LEMMA MinOfTwo ==
  ASSUME NEW a \in Nat, NEW b \in Nat
  PROVE  Min({a, b}) = IF a <= b THEN a ELSE b
  <1>1. \E x \in {a, b} : \A y \in {a, b} : x <= y
    OBVIOUS
  <1> DEFINE m == Min({a, b})
  <1>2. m \in {a, b} /\ m <= a /\ m <= b
    BY <1>1 DEF Min
  <1> HIDE DEF m
  <1>3. m = IF a <= b THEN a ELSE b
    BY <1>2
  <1>4. QED
    BY <1>3 DEF m

\* The least element of a nonempty set of natural numbers is one of its elements.
LEMMA MinIsMember ==
  ASSUME NEW S \in SUBSET Nat, S # {}
  PROVE  Min(S) \in S
  <1> DEFINE R == {p \in Nat \X Nat : p[1] < p[2]}
  <1>1. IsWellFoundedOn(R, Nat)
    BY NatLessThanWellFounded DEF OpToRel
  <1>2. PICK m \in S : \A n \in S : <<n, m>> \notin R
    <2> HIDE DEF R
    <2>1. QED
      BY <1>1, WFMin, Zenon
  <1>3. ASSUME NEW n \in S PROVE m <= n
    <2>1. n \in Nat /\ m \in Nat /\ ~(n < m)
      BY <1>2
    <2>2. QED
      BY <2>1
  <1>4. QED
    BY <1>2, <1>3 DEF Min

LEMMA NewBotIsNew ==
  ASSUME Types, \E b \in Ids : bots[b] = "none"
  PROVE  NewBot \in Ids /\ bots[NewBot] = "none"
  <1> DEFINE S == {b \in Ids : bots[b] = "none"}
  <1>1. S \in SUBSET Nat /\ S # {}
    BY Numbers DEF Ids
  <1> HIDE DEF S
  <1>2. Min(S) \in S
    BY <1>1, MinIsMember
  <1>3. QED
    BY <1>2 DEF S, NewBot

LEMMA BotCount ==
  /\ IsFiniteSet(ActiveBots) /\ Cardinality(ActiveBots) \in Nat
  /\ \A S \in SUBSET ActiveBots : Cardinality(S) \in Nat /\ Cardinality(S) <= Cardinality(ActiveBots)
  <1>1. IsFiniteSet(Ids)
    BY Numbers, FS_Interval DEF Ids
  <1>2. ActiveBots \in SUBSET Ids
    BY DEF ActiveBots
  <1>3. IsFiniteSet(ActiveBots)
    BY <1>1, <1>2, FS_Subset
  <1>4. QED
    BY <1>3, FS_Subset, FS_CardinalityType

\* Looking finds exactly what is missing of the pool.
LEMMA NeedFills ==
  /\ Need \in 0..Target
  /\ Cardinality(ActiveBots) <= Target => Cardinality(ActiveBots) + Need = Target
  BY Numbers, BotCount, MinOfTwo DEF Need

-----------------------------------------------------------------------------
(* What preserves the parts of the invariant. *)

\* The pool does not grow, and no job starts to fill it.
LEMMA FilledKeeps ==
  ASSUME Types, Filled, ActiveBots' \in SUBSET ActiveBots,
         \A k \in Filling' : k \in Filling /\ jobs'[k].need = jobs[k].need,
         overlapped => overlapped', byAdmin => byAdmin'
  PROVE  Filled'
  <1>1. SUFFICES ASSUME ~overlapped, ~byAdmin
                 PROVE  /\ Cardinality(ActiveBots') <= Target
                        /\ \A k \in Filling' : Cardinality(ActiveBots') + jobs'[k].need <= Target
                        /\ \A k, l \in Filling' : k = l
    BY DEF Filled
  <1>2. /\ Cardinality(ActiveBots) <= Target
        /\ \A k \in Filling : Cardinality(ActiveBots) + jobs[k].need <= Target
        /\ \A k, l \in Filling : k = l
    BY <1>1 DEF Filled
  <1>3. /\ Cardinality(ActiveBots') \in Nat /\ Cardinality(ActiveBots) \in Nat
        /\ Cardinality(ActiveBots') <= Cardinality(ActiveBots)
    BY BotCount
  <1>4. \A k \in Filling : jobs[k].need \in Nat
    BY JobKinds, Numbers DEF Filling, Working, Types, WorkingJob
  <1>5. ASSUME NEW k \in Filling'
        PROVE  Cardinality(ActiveBots') + jobs'[k].need <= Target
    <2>1. k \in Filling /\ jobs'[k].need = jobs[k].need
      OBVIOUS
    <2>2. QED
      BY <1>2, <1>3, <1>4, <2>1, Numbers
  <1>6. QED
    BY <1>2, <1>3, <1>5, Numbers

\* A job changes, and not into one that fills the pool.
LEMMA FillingShrinks ==
  ASSUME NEW i \in Slots, ~(jobs'[i].state = "creates" /\ jobs'[i].need > 0),
         \A k \in Slots \ {i} : jobs'[k] = jobs[k]
  PROVE  \A k \in Filling' : k \in Filling /\ jobs'[k].need = jobs[k].need
  BY DEF Filling, Working

\* A job changes that may have to bid afterwards only if it had to before.
LEMMA CountedKeeps ==
  ASSUME Types, Counted, NEW i \in Slots,
         MayBid(jobs'[i]) => MayBid(jobs[i]),
         \A k \in Slots \ {i} : jobs'[k] = jobs[k],
         UNCHANGED <<acted, stalled, delivered>>
  PROVE  Counted'
  <1>1. ASSUME NEW k \in Slots
        PROVE  acted[k] + Owed(k)' <= delivered + stalled[k]
    <2>1. /\ acted[k] \in Nat /\ stalled[k] \in Nat /\ delivered \in Nat
          /\ acted[k] + Owed(k) <= delivered + stalled[k]
      BY Numbers DEF Types, TypeOK, Counted
    <2>2. Owed(k)' = Owed(k) \/ (Owed(k)' = 0 /\ Owed(k) = 1)
      BY DEF Owed
    <2>3. Owed(k) \in {0, 1}
      BY DEF Owed
    <2>4. QED
      BY <2>1, <2>2, <2>3
  <1>2. QED
    BY <1>1 DEF Counted

-----------------------------------------------------------------------------
(* The actions preserve the invariant. *)

\* A job goes on, without a bid, and without more of the pool to fill.
LEMMA GoesOnKeeps ==
  ASSUME IInv, NEW i \in Slots, NEW job \in Job, Becomes(i, job),
         ~(job.state = "creates" /\ job.need > 0),
         MayBid(job) => MayBid(jobs[i]),
         UNCHANGED <<open, bots, timers, delivered, stops, byHand, history>>
  PROVE  IInv'
  <1>1. Types /\ Counted /\ Filled
    BY DEF IInv
  <1>2. /\ jobs' \in [Slots -> Job] /\ jobs'[i] = job
        /\ \A k \in Slots \ {i} : jobs'[k] = jobs[k]
    BY <1>1, BecomesWrites
  <1>3. Types'
    BY <1>1, <1>2, TypesNext DEF Types, TypeOK, history
  <1>4. Counted'
    BY <1>1, <1>2, CountedKeeps DEF history
  <1>5. Filled'
    BY <1>1, <1>2, FilledKeeps, FillingShrinks DEF history, ActiveBots
  <1>6. QED
    BY <1>3, <1>4, <1>5 DEF IInv

LEMMA TakesKeeps ==
  ASSUME IInv, NEW i \in Slots, NEW a \in Apis, Takes(i, a)
  PROVE  IInv'
  <1>1. jobs[i] \in Job /\ jobs[i].state = "waiting"
    BY DEF IInv, Types, Takes
  <1>2. jobs[i] \in WaitingJob
    BY <1>1, JobKinds
  <1>3. PICK job \in Job : Becomes(i, job) /\ job.state = "looks"
    <2> DEFINE x == [state |-> "looks", tries |-> jobs[i].tries, stalls |-> jobs[i].stalls,
                     api |-> a, need |-> 0]
    <2>1. x \in Job /\ x.state = "looks"
      BY <1>2, Numbers DEF Job, WaitingJob, WorkingJob
    <2>2. Becomes(i, x)
      BY DEF Takes
    <2>3. QED
      BY <2>1, <2>2
  <1>4. QED
    BY <1>1, <1>3, GoesOnKeeps DEF Takes, MayBid

LEMMA FailsKeeps ==
  ASSUME IInv, NEW i \in Slots, Fails(i)
  PROVE  IInv'
  <1>1. jobs[i] \in Job /\ jobs[i].state = "creates"
    BY DEF IInv, Types, Fails
  <1>2. jobs[i] \in WorkingJob
    BY <1>1, JobKinds
  <1>3. PICK job \in Job : Becomes(i, job) /\ job.state \in {"none", "waiting"}
    <2>1. CASE jobs[i].tries + 1 < Attempts
      <3>1. jobs[i].tries + 1 \in 0..Attempts /\ jobs[i].stalls \in 0..1
        BY <1>2, <2>1, Numbers DEF WorkingJob
      <3>2. Becomes(i, Waiting(jobs[i].tries + 1, jobs[i].stalls))
        BY <2>1 DEF Fails
      <3>3. QED
        BY <3>1, <3>2, WaitingType
    <2>2. CASE ~(jobs[i].tries + 1 < Attempts)
      <3>1. Becomes(i, NoJob)
        BY <2>2 DEF Fails
      <3>2. QED
        BY <3>1, NoJobType
    <2>3. QED
      BY <2>1, <2>2
  <1>4. QED
    BY <1>1, <1>3, GoesOnKeeps DEF Fails, MayBid

LEMMA EndsKeeps ==
  ASSUME IInv, NEW i \in Slots, Ends(i)
  PROVE  IInv'
  <1>1. Becomes(i, NoJob)
    BY DEF Ends, After
  <1>2. QED
    BY <1>1, NoJobType, GoesOnKeeps DEF Ends, MayBid

\* The job learns what is missing of the pool.
LEMMA LooksKeeps ==
  ASSUME IInv, NEW i \in Slots, Looks(i)
  PROVE  IInv'
  <1>1. Types /\ Counted /\ Filled
    BY DEF IInv
  <1>2. jobs[i] \in Job /\ jobs[i].state = "looks"
    BY <1>1 DEF Types, Looks
  <1>3. jobs[i] \in WorkingJob
    BY <1>2, JobKinds
  <1>4. PICK job \in Job : /\ Becomes(i, job)
                           /\ \/ job.state = "none"
                              \/ open /\ job.state = "creates" /\ job.need = Need
    <2>1. CASE open
      <3> DEFINE x == [jobs[i] EXCEPT !.state = "creates", !.need = Need]
      <3>1. x \in Job /\ x.state = "creates" /\ x.need = Need
        BY <1>3, NeedFills DEF Job, WorkingJob
      <3>2. Becomes(i, x)
        BY <2>1 DEF Looks
      <3>3. QED
        BY <2>1, <3>1, <3>2
    <2>2. CASE ~open
      <3>1. Becomes(i, NoJob)
        BY <2>2 DEF Looks
      <3>2. QED
        BY <3>1, NoJobType
    <2>3. QED
      BY <2>1, <2>2
  <1>5. /\ jobs' \in [Slots -> Job] /\ jobs'[i] = job
        /\ \A k \in Slots \ {i} : jobs'[k] = jobs[k]
    BY <1>1, <1>4, BecomesWrites
  <1>6. /\ overlapped' = (overlapped \/ (open /\ Need > 0 /\ Filling # {}))
        /\ UNCHANGED <<open, bots, timers, delivered, stops, byHand, acted, stalled, byAdmin>>
    BY DEF Looks
  <1>7. Types'
    BY <1>1, <1>5, <1>6, TypesNext DEF Types, TypeOK
  <1>8. Counted'
    BY <1>1, <1>2, <1>4, <1>5, <1>6, CountedKeeps DEF MayBid
  <1>9. Filled'
    <2>1. CASE job.state = "none" \/ Need = 0
      <3>1. ~(job.state = "creates" /\ job.need > 0)
        BY <1>4, <2>1, NeedFills
      <3>2. \A k \in Filling' : k \in Filling /\ jobs'[k].need = jobs[k].need
        BY <1>5, <3>1, FillingShrinks
      <3>3. (overlapped => overlapped') /\ (byAdmin => byAdmin') /\ ActiveBots' = ActiveBots
        BY <1>6 DEF ActiveBots
      <3>4. QED
        BY <1>1, <3>2, <3>3, FilledKeeps
    <2>2. CASE open /\ job.state = "creates" /\ job.need = Need /\ Need > 0
      <3>1. SUFFICES ASSUME ~overlapped', ~byAdmin'
                     PROVE  /\ Cardinality(ActiveBots') <= Target
                            /\ \A k \in Filling' : Cardinality(ActiveBots') + jobs'[k].need <= Target
                            /\ \A k, l \in Filling' : k = l
        BY DEF Filled
      <3>2. ~overlapped /\ ~byAdmin /\ Filling = {} /\ ActiveBots' = ActiveBots
        BY <1>6, <2>2, <3>1 DEF ActiveBots
      <3>3. Filling' \in SUBSET {i}
        BY <1>5, <3>2 DEF Filling, Working
      <3>4. Cardinality(ActiveBots) <= Target
        BY <1>1, <3>2 DEF Filled
      <3>5. Cardinality(ActiveBots) + Need = Target
        BY <3>4, NeedFills
      <3>6. jobs'[i].need = Need /\ Need \in Nat /\ Target \in Nat /\ Cardinality(ActiveBots) \in Nat
        BY <1>5, <2>2, NeedFills, BotCount, Numbers
      <3>7. Cardinality(ActiveBots) + jobs'[i].need <= Target
        BY <3>5, <3>6
      <3>8. QED
        BY <3>2, <3>3, <3>4, <3>7
    <2>3. QED
      BY <1>4, <2>1, <2>2, NeedFills
  <1>10. QED
    BY <1>7, <1>8, <1>9 DEF IInv

\* A bot joins the pool and one fewer is missing.
LEMMA CreatesKeeps ==
  ASSUME IInv, NEW i \in Slots, Creates(i)
  PROVE  IInv'
  <1>1. Types /\ Counted /\ Filled
    BY DEF IInv
  <1>2. /\ jobs[i] \in Job /\ jobs[i].state = "creates" /\ jobs[i].need > 0
        /\ \E b \in Ids : bots[b] = "none"
        /\ bots' = [bots EXCEPT ![NewBot] = "active"]
        /\ Becomes(i, [jobs[i] EXCEPT !.need = @ - 1])
        /\ UNCHANGED <<open, timers, delivered, stops, byHand, history>>
    BY <1>1 DEF Types, Creates
  <1>3. jobs[i] \in WorkingJob /\ i \in Filling
    BY <1>2, JobKinds DEF Filling, Working
  <1>4. PICK job \in Job : /\ Becomes(i, job) /\ job.state = "creates"
                           /\ job.need = jobs[i].need - 1
    <2> DEFINE x == [jobs[i] EXCEPT !.need = @ - 1]
    <2>1. jobs[i].need \in 0..Target /\ jobs[i].need - 1 \in 0..Target
      BY <1>2, <1>3, Numbers DEF WorkingJob
    <2>2. x \in Job /\ x.state = "creates" /\ x.need = jobs[i].need - 1
      BY <1>2, <1>3, <2>1 DEF Job, WorkingJob
    <2>3. QED
      BY <1>2, <2>2
  <1>5. /\ jobs' \in [Slots -> Job] /\ jobs'[i] = job
        /\ \A k \in Slots \ {i} : jobs'[k] = jobs[k]
    BY <1>1, <1>4, BecomesWrites
  <1>6. NewBot \in Ids /\ bots[NewBot] = "none"
    BY <1>1, <1>2, NewBotIsNew
  <1>7. /\ bots' \in [Ids -> {"none", "active", "stopped"}]
        /\ ActiveBots' = ActiveBots \union {NewBot} /\ NewBot \notin ActiveBots
    <2> DEFINE b == NewBot
    <2>1. b \in Ids /\ bots[b] = "none" /\ bots' = [bots EXCEPT ![b] = "active"]
      BY <1>2, <1>6
    <2> HIDE DEF b
    <2>2. bots' \in [Ids -> {"none", "active", "stopped"}]
      BY <1>1, <2>1 DEF Types, TypeOK
    <2>3. ActiveBots' = ActiveBots \union {b} /\ b \notin ActiveBots
      BY <1>1, <2>1 DEF Types, TypeOK, ActiveBots
    <2>4. QED
      BY <2>2, <2>3 DEF b
  <1>8. Types'
    BY <1>1, <1>2, <1>5, <1>7, TypesNext DEF Types, TypeOK, history
  <1>9. Counted'
    BY <1>1, <1>2, <1>4, <1>5, CountedKeeps DEF MayBid, history
  <1>10. Filled'
    <2>1. SUFFICES ASSUME ~overlapped, ~byAdmin
                   PROVE  /\ Cardinality(ActiveBots') <= Target
                          /\ \A k \in Filling' : Cardinality(ActiveBots') + jobs'[k].need <= Target
                          /\ \A k, l \in Filling' : k = l
      BY <1>2 DEF Filled, history
    <2>2. /\ Cardinality(ActiveBots) + jobs[i].need <= Target
          /\ \A k, l \in Filling : k = l
      BY <1>1, <1>3, <2>1 DEF Filled
    <2>3. Cardinality(ActiveBots') = Cardinality(ActiveBots) + 1
      BY <1>7, BotCount, FS_AddElement
    <2>4. jobs[i].need \in Nat /\ Cardinality(ActiveBots) \in Nat /\ Target \in Nat
      BY <1>3, BotCount, Numbers DEF WorkingJob
    <2>5. Cardinality(ActiveBots') + jobs'[i].need <= Target /\ Cardinality(ActiveBots') <= Target
      BY <1>2, <1>4, <1>5, <2>2, <2>3, <2>4
    <2>6. Filling' \in SUBSET {i}
      BY <1>3, <1>5, <2>2 DEF Filling, Working
    <2>7. QED
      BY <2>5, <2>6
  <1>11. QED
    BY <1>8, <1>9, <1>10 DEF IInv

\* What was still to be bid is bid, or not.
LEMMA BidsKeeps ==
  ASSUME IInv, NEW i \in Slots, Bids(i)
  PROVE  IInv'
  <1>1. Types /\ Counted /\ Filled
    BY DEF IInv
  <1>2. /\ jobs[i] \in Job /\ jobs[i].state = "creates"
        /\ Becomes(i, [jobs[i] EXCEPT !.state = "bids"])
        /\ acted' \in {acted, [acted EXCEPT ![i] = @ + 1]}
        /\ UNCHANGED <<open, bots, timers, delivered, stops, byHand, stalled, overlapped, byAdmin>>
    BY <1>1 DEF Types, Bids
  <1>3. jobs[i] \in WorkingJob
    BY <1>2, JobKinds
  <1>4. PICK job \in Job : Becomes(i, job) /\ job.state = "bids"
    <2> DEFINE x == [jobs[i] EXCEPT !.state = "bids"]
    <2>1. x \in Job /\ x.state = "bids"
      BY <1>3 DEF Job, WorkingJob
    <2>2. QED
      BY <1>2, <2>1
  <1>5. /\ jobs' \in [Slots -> Job] /\ jobs'[i] = job
        /\ \A k \in Slots \ {i} : jobs'[k] = jobs[k]
    BY <1>1, <1>4, BecomesWrites
  <1>6. acted \in [Slots -> Nat] /\ stalled \in [Slots -> Nat] /\ delivered \in Nat
    BY <1>1, Numbers DEF Types, TypeOK
  <1>7. /\ acted' \in [Slots -> Nat]
        /\ acted'[i] \in {acted[i], acted[i] + 1}
        /\ \A k \in Slots \ {i} : acted'[k] = acted[k]
    BY <1>2, <1>6
  <1>8. Types'
    BY <1>1, <1>2, <1>5, <1>7, TypesNext DEF Types, TypeOK
  <1>9. Counted'
    <2>1. ASSUME NEW k \in Slots PROVE acted'[k] + Owed(k)' <= delivered + stalled[k]
      <3>1. acted[k] + Owed(k) <= delivered + stalled[k]
        BY <1>1 DEF Counted
      <3>2. acted[k] \in Nat /\ stalled[k] \in Nat /\ delivered \in Nat
        BY <1>6
      <3>3. CASE k = i
        <4>1. Owed(i) = 1 /\ Owed(i)' = 0
          BY <1>2, <1>4, <1>5 DEF Owed, MayBid
        <4>2. QED
          BY <1>7, <3>1, <3>2, <3>3, <4>1
      <3>4. CASE k # i
        BY <1>5, <1>7, <3>1, <3>4 DEF Owed
      <3>5. QED
        BY <3>3, <3>4
    <2>2. QED
      BY <1>2, <2>1 DEF Counted
  <1>10. Filled'
    BY <1>1, <1>2, <1>4, <1>5, FilledKeeps, FillingShrinks DEF ActiveBots
  <1>11. QED
    BY <1>8, <1>9, <1>10 DEF IInv

\* A delivery adds jobs that are not there, each of which may bid once.
LEMMA RoundStartsKeeps ==
  ASSUME IInv, RoundStarts
  PROVE  IInv'
  <1>1. Types /\ Counted /\ Filled
    BY DEF IInv
  <1>2. PICK added \in SUBSET Slots : jobs' = Added(added)
    BY DEF RoundStarts
  <1>3. /\ delivered < MaxDeliveries /\ delivered' = delivered + 1
        /\ UNCHANGED <<open, bots, timers, stops, byHand, history>>
    BY DEF RoundStarts
  <1>4. PICK new \in Job : new = Waiting(0, 0) /\ new.state = "waiting"
    <2>1. Waiting(0, 0) \in Job /\ Waiting(0, 0).state = "waiting"
      <3>1. PICK m \in 0..Attempts, n \in 0..1 : m = 0 /\ n = 0
        BY Numbers
      <3>2. QED
        BY <3>1, WaitingType
    <2>2. QED
      BY <2>1, Zenon
  <1>5. jobs' = [k \in Slots |-> IF k \in added /\ jobs[k] = NoJob THEN new ELSE jobs[k]]
    BY <1>2, <1>4, Zenon DEF Added
  <1>6. /\ jobs' \in [Slots -> Job]
        /\ \A k \in Slots : jobs'[k] = jobs[k] \/ jobs'[k].state = "waiting"
    BY <1>1, <1>4, <1>5 DEF Types
  <1>7. delivered \in Nat /\ delivered' \in 0..MaxDeliveries
    BY <1>1, <1>3, Numbers DEF Types, TypeOK
  <1>8. Types'
    BY <1>1, <1>3, <1>6, <1>7, TypesNext DEF Types, TypeOK, history
  <1>9. Counted'
    <2>1. ASSUME NEW k \in Slots PROVE acted[k] + Owed(k)' <= delivered' + stalled[k]
      <3>1. /\ acted[k] \in Nat /\ stalled[k] \in Nat
            /\ acted[k] + Owed(k) <= delivered + stalled[k]
        BY <1>1 DEF Types, TypeOK, Counted
      <3>2. Owed(k) \in {0, 1} /\ Owed(k)' \in {0, 1}
        BY DEF Owed
      <3>3. QED
        BY <1>3, <1>7, <3>1, <3>2
    <2>2. QED
      BY <1>3, <2>1 DEF Counted, history
  <1>10. Filled'
    <2>1. \A k \in Filling' : k \in Filling /\ jobs'[k].need = jobs[k].need
      BY <1>6 DEF Filling, Working
    <2>2. QED
      BY <1>1, <1>3, <2>1, FilledKeeps DEF ActiveBots, history
  <1>11. QED
    BY <1>8, <1>9, <1>10 DEF IInv

\* A process that stops gives its job back, to bid once more at most.
LEMMA ApiStopsKeeps ==
  ASSUME IInv, NEW a \in Apis, ApiStops(a)
  PROVE  IInv'
  <1>1. Types /\ Counted /\ Filled
    BY DEF IInv
  <1> DEFINE mine == {i \in Working : jobs[i].api = a}
             Back(i) == IF jobs[i].stalls = 0 THEN Waiting(jobs[i].tries, 1) ELSE NoJob
  <1>2. /\ stops < MaxStops /\ stops' = stops + 1
        /\ timers' = {t \in timers : t[1] # a}
        /\ jobs' = [i \in Slots |-> IF i \notin mine THEN jobs[i] ELSE Back(i)]
        /\ stalled' = [i \in Slots |-> stalled[i] + IF i \in mine THEN 1 ELSE 0]
        /\ UNCHANGED <<open, bots, delivered, byHand, acted, overlapped, byAdmin>>
    BY DEF ApiStops
  <1>3. mine \in SUBSET Slots
    BY DEF Working
  <1>4. ASSUME NEW i \in mine
        PROVE  Back(i) \in Job /\ Back(i).state \in {"none", "waiting"}
    <2>1. jobs[i] \in WorkingJob
      BY <1>1, JobKinds DEF Types, Working
    <2>2. jobs[i].tries \in 0..Attempts
      BY <2>1 DEF WorkingJob
    <2>3. PICK one \in 0..1 : one = 1
      OBVIOUS
    <2>4. Waiting(jobs[i].tries, one) \in Job /\ Waiting(jobs[i].tries, one).state = "waiting"
      BY <2>2, WaitingType
    <2>5. QED
      BY <2>3, <2>4, NoJobType
  <1> HIDE DEF mine, Back
  <1>5. /\ jobs' \in [Slots -> Job]
        /\ \A k \in mine : jobs'[k].state \in {"none", "waiting"}
        /\ \A k \in Slots \ mine : jobs'[k] = jobs[k]
    BY <1>1, <1>2, <1>3, <1>4 DEF Types
  <1>6. /\ stalled' \in [Slots -> Nat]
        /\ \A k \in mine : stalled'[k] = stalled[k] + 1
        /\ \A k \in Slots \ mine : stalled'[k] = stalled[k]
    BY <1>1, <1>2, <1>3 DEF Types, TypeOK
  <1>7. stops' \in 0..MaxStops
    BY <1>1, <1>2, Numbers DEF Types, TypeOK
  <1>8. timers' \subseteq Apis \X Ids
    BY <1>1, <1>2 DEF Types, TypeOK
  <1>9. Types'
    BY <1>1, <1>2, <1>5, <1>6, <1>7, <1>8, TypesNext DEF Types, TypeOK
  <1>10. Counted'
    <2>1. ASSUME NEW k \in Slots PROVE acted[k] + Owed(k)' <= delivered + stalled'[k]
      <3>1. /\ acted[k] \in Nat /\ stalled[k] \in Nat /\ delivered \in Nat
            /\ acted[k] + Owed(k) <= delivered + stalled[k]
        BY <1>1, Numbers DEF Types, TypeOK, Counted
      <3>2. Owed(k) \in {0, 1} /\ Owed(k)' \in {0, 1}
        BY DEF Owed
      <3>3. CASE k \in mine
        BY <1>6, <3>1, <3>2, <3>3
      <3>4. CASE k \notin mine
        <4>1. Owed(k)' = Owed(k)
          BY <1>5, <3>4 DEF Owed
        <4>2. QED
          BY <1>6, <3>1, <3>4, <4>1
      <3>5. QED
        BY <3>3, <3>4
    <2>2. QED
      BY <1>2, <2>1 DEF Counted
  <1>11. Filled'
    <2>1. \A k \in Filling' : k \in Filling /\ jobs'[k].need = jobs[k].need
      BY <1>5 DEF Filling, Working
    <2>2. QED
      BY <1>1, <1>2, <2>1, FilledKeeps DEF ActiveBots
  <1>12. QED
    BY <1>9, <1>10, <1>11 DEF IInv

\* Bots, timers and the auction change without the jobs, and the pool does not grow unless
\* the administrator has started a bot.
LEMMA AroundKeeps ==
  ASSUME IInv, UNCHANGED <<jobs, delivered, stops, acted, stalled, overlapped>>,
         open' \in BOOLEAN, byHand' \in 0..MaxByHand, timers' \subseteq Apis \X Ids,
         bots' \in [Ids -> {"none", "active", "stopped"}],
         \/ byAdmin' = TRUE
         \/ byAdmin' = byAdmin /\ ActiveBots' \in SUBSET ActiveBots
  PROVE  IInv'
  <1>1. Types /\ Counted /\ Filled
    BY DEF IInv
  <1>2. byAdmin' \in BOOLEAN
    BY <1>1 DEF Types, TypeOK
  <1>3. Types'
    BY <1>1, <1>2, TypesNext DEF Types, TypeOK
  <1>4. Counted'
    BY <1>1 DEF Counted, Owed
  <1>5. Filled'
    <2>1. CASE byAdmin' = TRUE
      BY <2>1 DEF Filled
    <2>2. CASE byAdmin' = byAdmin /\ ActiveBots' \in SUBSET ActiveBots
      <3>1. \A k \in Filling' : k \in Filling /\ jobs'[k].need = jobs[k].need
        BY DEF Filling, Working
      <3>2. QED
        BY <1>1, <2>2, <3>1, FilledKeeps
    <2>3. QED
      BY <2>1, <2>2
  <1>6. QED
    BY <1>3, <1>4, <1>5 DEF IInv

\* What the administrator does, the timers, and the end of the auction.
LEMMA OthersKeep ==
  ASSUME IInv,
         \/ AuctionEnds \/ Makes
         \/ \E b \in Ids, a \in Apis : Starts(b, a) \/ Stops(b, a) \/ Fires(b, a)
  PROVE  IInv'
  <1>1. Types
    BY DEF IInv
  <1>2. /\ open \in BOOLEAN /\ byHand \in 0..MaxByHand /\ timers \subseteq Apis \X Ids
        /\ bots \in [Ids -> {"none", "active", "stopped"}]
    BY <1>1 DEF Types, TypeOK
  <1>3. ByHand => byHand' \in 0..MaxByHand
    BY <1>2, Numbers DEF ByHand
  <1>4. CASE AuctionEnds
    BY <1>2, <1>4, AroundKeeps DEF AuctionEnds, history, ActiveBots
  <1>5. CASE Makes
    <2> DEFINE b == NewBot
    <2>1. b \in Ids /\ bots[b] = "none" /\ bots' = [bots EXCEPT ![b] = "stopped"]
      BY <1>1, <1>5, NewBotIsNew DEF Makes
    <2> HIDE DEF b
    <2>2. bots' \in [Ids -> {"none", "active", "stopped"}] /\ ActiveBots' \in SUBSET ActiveBots
      BY <1>2, <2>1 DEF ActiveBots
    <2>3. QED
      BY <1>2, <1>3, <1>5, <2>2, AroundKeeps DEF Makes, ByHand
  <1>6. ASSUME NEW b \in Ids, NEW a \in Apis, Starts(b, a) PROVE IInv'
    <2>1. bots' \in [Ids -> {"none", "active", "stopped"}] /\ timers' \subseteq Apis \X Ids
      BY <1>2, <1>6 DEF Starts
    <2>2. QED
      BY <1>2, <1>3, <1>6, <2>1, AroundKeeps DEF Starts, ByHand
  <1>7. ASSUME NEW b \in Ids, NEW a \in Apis, Stops(b, a) PROVE IInv'
    <2>1. /\ bots' \in [Ids -> {"none", "active", "stopped"}] /\ timers' \subseteq Apis \X Ids
          /\ ActiveBots' \in SUBSET ActiveBots
      BY <1>2, <1>7 DEF Stops, ActiveBots
    <2>2. QED
      BY <1>2, <1>3, <1>7, <2>1, AroundKeeps DEF Stops, ByHand
  <1>8. ASSUME NEW b \in Ids, NEW a \in Apis, Fires(b, a) PROVE IInv'
    BY <1>2, <1>8, AroundKeeps DEF Fires, history, ActiveBots
  <1>9. QED
    BY <1>4, <1>5, <1>6, <1>7, <1>8

LEMMA InitInv == Init => IInv
  <1> SUFFICES ASSUME Init PROVE IInv
    OBVIOUS
  <1>1. jobs \in [Slots -> Job] /\ \A i \in Slots : jobs[i] = NoJob /\ jobs[i].state = "none"
    BY NoJobType DEF Init
  <1>2. Types
    <2>1. delivered \in 0..MaxDeliveries /\ stops \in 0..MaxStops /\ byHand \in 0..MaxByHand
      BY Numbers DEF Init
    <2>2. acted \in [Slots -> Nat] /\ stalled \in [Slots -> Nat]
      BY DEF Init
    <2>3. /\ bots \in [Ids -> {"none", "active", "stopped"}] /\ timers \subseteq Apis \X Ids
          /\ {open, overlapped, byAdmin} \subseteq BOOLEAN
      BY DEF Init
    <2>4. QED
      BY <1>1, <2>1, <2>2, <2>3 DEF Types, TypeOK
  <1>3. Counted
    <2>1. \A i \in Slots : Owed(i) = 0
      BY <1>1 DEF Owed, MayBid
    <2>2. QED
      BY <2>1 DEF Init, Counted
  <1>4. ActiveBots = {} /\ Filling = {}
    BY <1>1 DEF Init, ActiveBots, Filling, Working
  <1>5. Filled
    BY <1>4, FS_EmptySet, Numbers DEF Filled
  <1>6. QED
    BY <1>2, <1>3, <1>5 DEF IInv

LEMMA NextInv == IInv /\ [Next]_vars => IInv'
  <1> SUFFICES ASSUME IInv, [Next]_vars PROVE IInv'
    OBVIOUS
  <1>1. CASE \E i \in Slots : Works(i) \/ \E a \in Apis : Takes(i, a)
    BY <1>1, TakesKeeps, LooksKeeps, CreatesKeeps, FailsKeeps, BidsKeeps, EndsKeeps DEF Works
  <1>2. CASE RoundStarts
    BY <1>2, RoundStartsKeeps
  <1>3. CASE \E a \in Apis : ApiStops(a)
    BY <1>3, ApiStopsKeeps
  <1>4. CASE AuctionEnds \/ Makes \/ \E b \in Ids, a \in Apis : Toggles(b, a) \/ Fires(b, a)
    BY <1>4, OthersKeep DEF Toggles
  <1>5. CASE UNCHANGED vars
    <2>1. /\ UNCHANGED <<jobs, delivered, stops, acted, stalled, overlapped, byAdmin>>
          /\ UNCHANGED <<open, bots, timers, byHand>> /\ ActiveBots' = ActiveBots
      BY <1>5 DEF vars, history, ActiveBots
    <2>2. QED
      BY <2>1, AroundKeeps DEF IInv, Types, TypeOK
  <1>6. QED
    BY <1>1, <1>2, <1>3, <1>4, <1>5 DEF Next

\* The inductive invariant holds in every reachable state.
THEOREM Invariance == Spec => []IInv
  BY InitInv, NextInv, PTL DEF Spec

-----------------------------------------------------------------------------
(* The theorems. *)

\* Whatever is delivered again, retried, or taken back from a process that stopped, a job
\* bids once for each delivery and once for each stop.
THEOREM BidsPerDelivery == Spec => []OneBidPerDelivery
  <1>1. IInv => OneBidPerDelivery
    <2> SUFFICES ASSUME IInv, NEW i \in Slots PROVE acted[i] <= delivered + stalled[i]
      BY DEF OneBidPerDelivery
    <2>1. /\ acted[i] \in Nat /\ stalled[i] \in Nat /\ delivered \in Nat
          /\ acted[i] + Owed(i) <= delivered + stalled[i]
      BY Numbers DEF IInv, Types, TypeOK, Counted
    <2>2. Owed(i) \in {0, 1}
      BY DEF Owed
    <2>3. QED
      BY <2>1, <2>2
  <1>2. QED
    BY <1>1, Invariance, PTL

\* The pool is never larger than configured, unless two jobs filled it at once or a bot was
\* started by hand.
THEOREM PoolBounded == Spec => []PoolAsConfigured
  <1>1. IInv => PoolAsConfigured
    BY DEF IInv, Filled, PoolAsConfigured
  <1>2. QED
    BY <1>1, Invariance, PTL

-----------------------------------------------------------------------------
(* Admission: the fastest clock. *)

LEMMA HasGreatest ==
  ASSUME NEW n \in Nat, NEW S \in SUBSET (0..n), S # {}
  PROVE  \E x \in S : \A y \in S : x >= y
<1> DEFINE T == {m \in Nat : n - m \in S}
<1> DEFINE R == OpToRel(<, Nat)
<1>1. T \subseteq Nat /\ T # {}
  <2>1. PICK x \in S : x \in 0..n
    OBVIOUS
  <2>2. n - x \in Nat /\ n - (n - x) = x
    BY <2>1
  <2> QED
    BY <2>2
<1>2. IsWellFoundedOn(R, Nat)
  BY NatLessThanWellFounded
<1>3. \A x, y \in Nat : y < x => <<y, x>> \in R
  BY DEF OpToRel
<1> HIDE DEF T, R
<1>4. PICK m \in T : \A k \in T : ~(<<k, m>> \in R)
  BY <1>1, <1>2, WFMin
<1>5. \A k \in T : ~(k < m)
  BY <1>1, <1>3, <1>4
<1>6. m \in Nat /\ n - m \in S
  BY <1>4 DEF T
<1>7. ASSUME NEW y \in S PROVE n - m >= y
  <2>1. y \in 0..n
    OBVIOUS
  <2>2. n - y \in Nat /\ n - (n - y) = y
    BY <2>1
  <2>3. n - y \in T
    BY <2>2 DEF T
  <2> QED
    BY <1>5, <1>6, <2>1, <2>2, <2>3
<1> QED
  BY <1>6, <1>7

-----------------------------------------------------------------------------
(* Admission: the inductive invariant. *)

Answered == [at : {"none", "refused", "accepted"}]
Guarded == [at : {"first", "passed"}, api : Apis]
Stamped == [at : {"stamped"}, api : Apis, now : Nat, rate : {1, 2}]

BucketTypes ==
    /\ clock \in Nat /\ ahead \in [Apis -> 0..Skew] /\ Apis # {}
    /\ bucket \in [tokens : Nat, last : Nat, used : BOOLEAN]
    /\ ~bucket.used => bucket.last = 0
    /\ mult \in {"full", "low"}
    /\ asked \in [A!Requests -> Answered \cup Guarded \cup Stamped]
    /\ spent \in Nat /\ back \in Nat

\* No process has told Redis a time that the fastest clock has not reached ...
Timely ==
    /\ bucket.last <= clock + A!Lead
    /\ \A n \in A!Requests : asked[n].at = "stamped" => asked[n].now <= clock + A!Lead

\* ... and the tokens there were are counted by the times told: those that passed between
\* them, and those that the readings went back, which pass again.
Metered == spent + bucket.tokens <= Burst + 2 * (bucket.last + back)

BucketInv == BucketTypes /\ Timely /\ Metered

-----------------------------------------------------------------------------
(* Admission: clocks and tokens. *)

LEMMA AdmissionNumbers ==
  /\ Burst \in Nat /\ Skew \in Nat /\ MaxClock \in Nat /\ MaxTroubles \in Nat
  /\ WindowMax \in Nat /\ MaxRequests \in Nat /\ A!Requests = 1..MaxRequests
  BY WorkersAssumption DEF A!AdmissionAssumption, A!Requests

LEMMA LeadIs ==
  ASSUME Apis # {}, ahead \in [Apis -> 0..Skew]
  PROVE  A!Lead \in Nat /\ \A a \in Apis : ahead[a] <= A!Lead
<1> DEFINE S == {ahead[a] : a \in Apis}
<1>1. S \in SUBSET (0..Skew) /\ S # {}
  OBVIOUS
<1>2. \E x \in S : \A y \in S : x >= y
  BY <1>1, AdmissionNumbers, HasGreatest
<1>3. A!Lead = CHOOSE x \in S : \A y \in S : x >= y
  BY DEF A!Lead, A!Max
<1>4. A!Lead \in S /\ \A y \in S : A!Lead >= y
  BY <1>2, <1>3
<1>5. A!Lead \in Nat /\ \A a \in Apis : ahead[a] \in S /\ ahead[a] \in Nat
  BY <1>1, <1>4
<1> QED
  BY <1>4, <1>5

LEMMA SmallerOf ==
  ASSUME NEW m \in Nat, NEW n \in Nat
  PROVE  A!Min({m, n}) \in Nat /\ A!Min({m, n}) <= m /\ A!Min({m, n}) <= n
<1>1. \E x \in {m, n} : \A y \in {m, n} : x <= y
  <2>1. CASE m <= n
    BY <2>1
  <2>2. CASE n <= m
    BY <2>2
  <2> QED
    BY <2>1, <2>2
<1>2. A!Min({m, n}) = CHOOSE x \in {m, n} : \A y \in {m, n} : x <= y
  BY DEF A!Min
<1>3. A!Min({m, n}) \in {m, n} /\ \A y \in {m, n} : A!Min({m, n}) <= y
  BY <1>1, <1>2
<1> QED
  BY <1>3

\* Filling the bucket adds at most two tokens for each second since the last reading.
LEMMA FilledIs ==
  ASSUME NEW b \in [tokens : Nat, last : Nat, used : BOOLEAN], NEW now \in Nat, NEW rate \in {1, 2}
  PROVE  /\ A!Filled(b, now, rate) \in [tokens : Nat, last : {now}, used : {TRUE}]
         /\ now >= b.last => A!Filled(b, now, rate).tokens <= b.tokens + 2 * (now - b.last)
         /\ now < b.last => A!Filled(b, now, rate).tokens <= b.tokens
<1> DEFINE since == A!Since(b, now)
<1>1. b.tokens \in Nat /\ b.last \in Nat
  OBVIOUS
<1>2. /\ since \in Nat
      /\ now >= b.last => since <= now - b.last
      /\ now < b.last => since = 0
  BY <1>1 DEF A!Since
<1> HIDE DEF since
<1>3. since * rate \in Nat /\ since * rate <= 2 * since
  <2>1. CASE rate = 1
    BY <1>2, <2>1
  <2>2. CASE rate = 2
    BY <1>2, <2>2
  <2> QED
    BY <2>1, <2>2
<1> DEFINE tokens == A!Min({Burst, b.tokens + since * rate})
<1>4. tokens \in Nat /\ tokens <= b.tokens + since * rate
  BY <1>1, <1>3, AdmissionNumbers, SmallerOf
<1>5. A!Filled(b, now, rate) = [tokens |-> tokens, last |-> now, used |-> TRUE]
  BY DEF A!Filled, since
<1> HIDE DEF tokens
<1> QED
  BY <1>1, <1>2, <1>3, <1>4, <1>5

-----------------------------------------------------------------------------
(* Admission: the bound on a user's bids. *)

LEMMA BucketInit == A!Init => BucketInv
<1> SUFFICES ASSUME A!Init PROVE BucketInv
  OBVIOUS
<1>1. BucketTypes
  BY AdmissionNumbers DEF A!Init, A!NoBucket, A!NotAsked, BucketTypes, Answered
<1>2. A!Lead \in Nat
  BY <1>1, LeadIs DEF BucketTypes
<1>3. Timely
  BY <1>2 DEF A!Init, A!NoBucket, A!NotAsked, Timely
<1>4. Metered
  BY AdmissionNumbers DEF A!Init, A!NoBucket, Metered
<1> QED
  BY <1>1, <1>3, <1>4 DEF BucketInv

\* A step that tells Redis no time.
LEMMA RestsBucket ==
  ASSUME BucketInv, UNCHANGED <<ahead, bucket, spent, back>>,
         clock' \in {clock, clock + 1}, mult' \in {"full", "low"},
         asked' \in [A!Requests -> Answered \cup Guarded \cup Stamped],
         \A n \in A!Requests : asked'[n].at = "stamped" =>
             asked'[n].now <= clock + A!Lead \/ asked'[n] = asked[n]
  PROVE  BucketInv'
<1> USE DEF BucketInv
<1>1. clock \in Nat /\ clock' \in Nat /\ clock <= clock' /\ A!Lead \in Nat /\ A!Lead' = A!Lead
  BY LeadIs DEF BucketTypes, A!Lead
<1>2. BucketTypes'
  BY <1>1 DEF BucketTypes, A!Requests
<1>3. Timely'
  <2>1. bucket.last \in Nat /\ bucket.last <= clock' + A!Lead
    BY <1>1 DEF BucketTypes, Timely
  <2>2. ASSUME NEW n \in A!Requests, asked'[n].at = "stamped"
        PROVE  asked'[n].now <= clock' + A!Lead
    <3>1. asked'[n] \in Stamped
      BY <2>2 DEF Answered, Guarded
    <3>2. asked'[n].now \in Nat
      BY <3>1 DEF Stamped
    <3>3. asked'[n].now <= clock + A!Lead
      BY <2>2 DEF Timely
    <3> QED
      BY <1>1, <3>2, <3>3
  <2> QED
    BY <1>1, <2>1, <2>2 DEF Timely, A!Requests
<1>4. Metered'
  BY DEF Metered
<1> QED
  BY <1>2, <1>3, <1>4

LEMMA StampsBucket ==
  ASSUME BucketInv, NEW n \in A!Requests, A!Stamps(n)
  PROVE  BucketInv'
<1> DEFINE api == asked[n].api
<1> DEFINE stamp == [at |-> "stamped", api |-> api, now |-> clock + ahead[api], rate |-> A!Rate(mult)]
<1>1. /\ asked[n].at = "passed" /\ asked' = [asked EXCEPT ![n] = stamp]
      /\ UNCHANGED <<clock, ahead, bucket, mult, spent, back>>
  BY DEF A!Stamps, A!redis, A!history
<1>2. asked[n] \in Guarded
  BY <1>1 DEF BucketInv, BucketTypes, Answered, Stamped
<1>3. api \in Apis
  BY <1>2 DEF Guarded
<1>4. /\ clock + ahead[api] \in Nat /\ clock + ahead[api] <= clock + A!Lead
  <2>1. clock \in Nat /\ ahead[api] \in 0..Skew /\ ahead[api] <= A!Lead /\ A!Lead \in Nat
    BY <1>3, LeadIs DEF BucketInv, BucketTypes
  <2> QED
    BY <2>1
<1>5. stamp \in Stamped
  BY <1>3, <1>4 DEF Stamped, A!Rate
<1>6. asked' \in [A!Requests -> Answered \cup Guarded \cup Stamped]
  BY <1>1, <1>5 DEF BucketInv, BucketTypes
<1>7. ASSUME NEW m \in A!Requests, asked'[m].at = "stamped"
      PROVE  asked'[m].now <= clock + A!Lead \/ asked'[m] = asked[m]
  <2>1. CASE m = n
    <3>1. asked'[m] = stamp
      BY <1>1, <2>1 DEF BucketInv, BucketTypes
    <3> QED
      BY <1>4, <3>1
  <2>2. CASE m # n
    BY <1>1, <2>2 DEF BucketInv, BucketTypes
  <2> QED
    BY <2>1, <2>2
<1>8. mult' \in {"full", "low"}
  BY <1>1 DEF BucketInv, BucketTypes
<1> QED
  BY <1>1, <1>6, <1>7, <1>8, RestsBucket

LEMMA ChargesBucket ==
  ASSUME BucketInv, NEW n \in A!Requests, A!Charges(n)
  PROVE  BucketInv'
<1> USE DEF BucketInv
<1> DEFINE now == asked[n].now
<1> DEFINE rate == asked[n].rate
<1> DEFINE filled == A!Filled(bucket, now, rate)
<1> DEFINE allowed == filled.tokens >= A!Cost
<1>1. /\ asked[n].at = "stamped"
      /\ bucket' = IF allowed THEN [filled EXCEPT !.tokens = @ - A!Cost] ELSE filled
      /\ asked' = [asked EXCEPT ![n] = IF allowed THEN A!Accepted ELSE A!Refused]
      /\ spent' = IF allowed THEN spent + A!Cost ELSE spent
      /\ back' = IF bucket.used /\ now < bucket.last THEN back + (bucket.last - now) ELSE back
      /\ UNCHANGED <<clock, ahead, mult>>
  BY DEF A!Charges
<1>2. asked[n] \in Stamped
  BY <1>1 DEF BucketTypes, Answered, Guarded
<1>3. now \in Nat /\ rate \in {1, 2} /\ now <= clock + A!Lead
  BY <1>1, <1>2 DEF Stamped, Timely
<1>4. /\ bucket \in [tokens : Nat, last : Nat, used : BOOLEAN]
      /\ bucket.tokens \in Nat /\ bucket.last \in Nat /\ spent \in Nat /\ back \in Nat
      /\ Burst \in Nat
  BY AdmissionNumbers DEF BucketTypes
<1>5. /\ filled \in [tokens : Nat, last : {now}, used : {TRUE}]
      /\ now >= bucket.last => filled.tokens <= bucket.tokens + 2 * (now - bucket.last)
      /\ now < bucket.last => filled.tokens <= bucket.tokens
  BY <1>3, <1>4, FilledIs
<1> HIDE DEF filled, now, rate
<1>6. PICK k \in Nat : filled.tokens = k
  BY <1>5
<1> HIDE DEF allowed
<1>7. /\ bucket' \in [tokens : Nat, last : {now}, used : {TRUE}]
      /\ bucket'.tokens = IF allowed THEN k - 2 ELSE k
  <2>1. CASE allowed
    <3>1. k - 2 \in Nat /\ k >= 2
      BY <1>6, <2>1 DEF A!Cost, allowed
    <3>2. bucket' = [filled EXCEPT !.tokens = k - 2]
      BY <1>1, <1>6, <2>1 DEF A!Cost
    <3> QED
      BY <1>5, <2>1, <3>1, <3>2
  <2>2. CASE ~allowed
    BY <1>1, <1>5, <1>6, <2>2
  <2> QED
    BY <2>1, <2>2
<1>8. /\ bucket'.last = now /\ bucket'.tokens \in Nat /\ bucket'.used = TRUE
      /\ bucket' \in [tokens : Nat, last : Nat, used : BOOLEAN]
  BY <1>3, <1>7
<1>9. /\ spent' \in Nat /\ spent' + bucket'.tokens = spent + k
  BY <1>1, <1>4, <1>6, <1>7 DEF A!Cost
<1>10. now < bucket.last => bucket.used
  BY <1>3, <1>4 DEF BucketTypes
<1>11. back' \in Nat /\ spent + k <= Burst + 2 * (now + back')
  <2>1. spent + bucket.tokens <= Burst + 2 * (bucket.last + back)
    BY DEF Metered
  <2>2. CASE now < bucket.last
    <3>1. back' = back + (bucket.last - now) /\ k <= bucket.tokens
      BY <1>1, <1>5, <1>6, <1>10, <2>2
    <3> QED
      BY <1>3, <1>4, <2>1, <2>2, <3>1
  <2>3. CASE now >= bucket.last
    <3>1. back' = back /\ k <= bucket.tokens + 2 * (now - bucket.last)
      BY <1>1, <1>3, <1>4, <1>5, <1>6, <2>3
    <3> QED
      BY <1>3, <1>4, <2>1, <2>3, <3>1
  <2> QED
    BY <1>3, <1>4, <2>2, <2>3
<1>12. Metered'
  BY <1>8, <1>9, <1>11 DEF Metered
<1>13. asked' \in [A!Requests -> Answered \cup Guarded \cup Stamped]
  BY <1>1 DEF BucketTypes, A!Accepted, A!Refused, Answered
<1>14. BucketTypes'
  BY <1>1, <1>4, <1>7, <1>8, <1>9, <1>11, <1>13 DEF BucketTypes, A!Requests
<1>15. \A m \in A!Requests : asked'[m].at = "stamped" => asked'[m] = asked[m]
  BY <1>1 DEF BucketTypes, A!Accepted, A!Refused
<1>16. A!Lead' = A!Lead
  BY <1>1 DEF A!Lead
<1>17. Timely'
  BY <1>1, <1>3, <1>8, <1>15, <1>16 DEF Timely, A!Requests
<1> QED
  BY <1>12, <1>14, <1>17

LEMMA BucketNext ==
  ASSUME BucketInv, [A!Next]_(A!vars)
  PROVE  BucketInv'
<1> DEFINE Asked == [A!Requests -> Answered \cup Guarded \cup Stamped]
<1>0. asked \in Asked /\ mult \in {"full", "low"}
  BY DEF BucketInv, BucketTypes
<1> USE DEF A!history, A!redis
<1>1. CASE UNCHANGED A!vars
  BY <1>0, <1>1, RestsBucket DEF A!vars
<1>2. ASSUME NEW n \in A!Requests, NEW a \in Apis, A!Arrives(n, a) PROVE BucketInv'
  <2>1. /\ [at |-> "first", api |-> a] \in Guarded /\ [at |-> "passed", api |-> a] \in Guarded
        /\ A!Refused \in Answered
    BY DEF Guarded, Answered, A!Refused
  <2>2. PICK x \in Guarded \cup Answered : asked' = [asked EXCEPT ![n] = x]
    BY <1>2, <2>1 DEF A!Arrives
  <2>3. x.at # "stamped"
    BY <2>2 DEF Guarded, Answered
  <2> QED
    BY <1>0, <1>2, <2>2, <2>3, RestsBucket DEF A!Arrives
<1>3. ASSUME NEW n \in A!Requests, A!SetsExpiry(n) PROVE BucketInv'
  <2>1. asked[n] \in Guarded
    BY <1>0, <1>3 DEF A!SetsExpiry, Answered, Stamped
  <2>2. [asked[n] EXCEPT !.at = "passed"] \in Guarded
    BY <2>1 DEF Guarded
  <2>3. asked' \in Asked
    BY <1>0, <1>3, <2>2 DEF A!SetsExpiry
  <2>4. \A m \in A!Requests : asked'[m] = asked[m] \/ asked'[m].at = "passed"
    BY <1>0, <1>3, <2>1 DEF A!SetsExpiry, Guarded
  <2> QED
    BY <1>0, <1>3, <2>3, <2>4, RestsBucket DEF A!SetsExpiry
<1>4. ASSUME NEW n \in A!Requests, A!Sheds(n) \/ A!IsBusy(n) PROVE BucketInv'
  <2>1. asked' = [asked EXCEPT ![n] = A!Refused] /\ A!Refused \in Answered
    BY <1>4 DEF A!Sheds, A!IsBusy, Answered, A!Refused
  <2>2. UNCHANGED <<ahead, bucket, spent, back, clock, mult>>
    BY <1>4 DEF A!Sheds, A!IsBusy
  <2> QED
    BY <1>0, <2>1, <2>2, RestsBucket DEF A!Refused
<1>5. ASSUME NEW n \in A!Requests, A!Stamps(n) PROVE BucketInv'
  BY <1>5, StampsBucket
<1>6. ASSUME NEW n \in A!Requests, A!Charges(n) PROVE BucketInv'
  BY <1>6, ChargesBucket
<1>7. CASE A!WindowEnds \/ A!Collects
  <2>1. UNCHANGED <<ahead, bucket, spent, back, clock, mult, asked>>
    BY <1>7 DEF A!WindowEnds, A!Collects
  <2> QED
    BY <1>0, <2>1, RestsBucket
<1>8. ASSUME NEW a \in Apis, A!ApiStops(a) PROVE BucketInv'
  <2>1. \A m \in A!Requests : asked'[m] = asked[m] \/ asked'[m] = A!Refused
    BY <1>8 DEF A!ApiStops
  <2>2. DOMAIN asked' = A!Requests /\ asked' = [m \in A!Requests |-> asked'[m]]
    BY <1>8 DEF A!ApiStops
  <2>3. asked' \in Asked
    BY <1>0, <2>1, <2>2 DEF A!Refused, Answered
  <2>4. UNCHANGED <<ahead, bucket, spent, back, clock, mult>>
    BY <1>8 DEF A!ApiStops
  <2> QED
    BY <1>0, <2>1, <2>3, <2>4, RestsBucket DEF A!Refused
<1>9. CASE A!Adjusts \/ A!StatsExpire
  <2>1. UNCHANGED <<ahead, bucket, spent, back, clock, asked>> /\ mult' \in {"full", "low"}
    BY <1>0, <1>9 DEF A!Adjusts, A!StatsExpire
  <2> QED
    BY <1>0, <2>1, RestsBucket
<1>10. CASE A!Passes
  BY <1>0, <1>10, RestsBucket DEF A!Passes
<1> QED
  BY <1>1, <1>2, <1>3, <1>4, <1>5, <1>6, <1>7, <1>8, <1>9, <1>10 DEF A!Next

\* However many processes answer a user's bids, and however their clocks differ, the accepted
\* bids and the tokens left are within the burst and what the full rate gives for the time of
\* the fastest clock and for what the readings of the clocks went back.
THEOREM BidsAreMetered == A!Spec => []BucketBound
<1>1. BucketInv => BucketBound
  <2> SUFFICES ASSUME BucketInv PROVE BucketBound
    OBVIOUS
  <2>1. /\ spent \in Nat /\ bucket.tokens \in Nat /\ bucket.last \in Nat /\ back \in Nat
        /\ clock \in Nat /\ A!Lead \in Nat /\ Burst \in Nat
    BY LeadIs, AdmissionNumbers DEF BucketInv, BucketTypes
  <2>2. /\ spent + bucket.tokens <= Burst + 2 * (bucket.last + back)
        /\ bucket.last <= clock + A!Lead
    BY DEF BucketInv, Metered, Timely
  <2>3. spent + bucket.tokens <= Burst + 2 * (clock + A!Lead + back)
    BY <2>1, <2>2
  <2> QED
    BY <2>3 DEF BucketBound, A!BucketBound, A!Rate
<1>2. BucketInv /\ [A!Next]_(A!vars) => BucketInv'
  BY BucketNext
<1> QED
  BY <1>1, <1>2, BucketInit, PTL DEF A!Spec

=============================================================================
