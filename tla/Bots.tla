-------------------------------- MODULE Bots --------------------------------
(***************************************************************************)
(* The bots of one auction: the jobs that the start of a round queues for  *)
(* them in bot-bid, the processor that fills the pool of bots up and lets  *)
(* one of them bid, and the administrator who creates, starts and stops    *)
(* bots by hand, whose timers live in the process that was asked.          *)
(*                                                                         *)
(* Which bot bids, how much and when is left to chance in the code, and    *)
(* left out here with the balances; BidRequest has what a bid does.  One   *)
(* round: the jobs of another have other ids.                              *)
(***************************************************************************)
EXTENDS Naturals, FiniteSets, FiniteSetsExt

CONSTANTS
    Slots,         \* the indices of the jobs of a round
    Target,        \* botsCount; with none, no job bids
    Apis,          \* the processes that work on jobs, one at a time, and run timers
    Attempts,      \* defaultJobOptions.attempts
    MaxBots,       \* bound: bots
    MaxDeliveries, \* bound: times RoundStarted is delivered
    MaxStops,      \* bound: stops of a process
    MaxByHand      \* bound: requests of the administrator

ASSUME BotsAssumption ==
    /\ {MaxBots, MaxStops, MaxDeliveries, MaxByHand} \subseteq Nat
    /\ {Attempts, Target} \subseteq Nat \ {0}

VARIABLES
    open,       \* the auction is active, and its botsEnabled is set
    jobs,       \* the records of the queue
    bots,       \* bot documents: none, active, stopped
    timers,     \* activeBots of each process
    delivered, stops, byHand, \* how many so far
    acted,      \* history: the bids of each job
    stalled,    \* history: processes that stopped with each job
    overlapped, \* history: two jobs were filling the pool at once
    byAdmin     \* history: a bot was started by hand

history == <<acted, stalled, overlapped, byAdmin>>
vars == <<open, jobs, bots, timers, delivered, stops, byHand, history>>

Ids == 1..MaxBots
NoJob == [state |-> "none"]
Waiting(tries, stalls) == [state |-> "waiting", tries |-> tries, stalls |-> stalls]

ActiveBots == {b \in Ids : bots[b] = "active"}
Working == {i \in Slots : jobs[i].state \in {"looks", "creates", "bids"}}

TypeOK ==
    /\ \A i \in Slots :
          \/ jobs[i] = NoJob
          \/ jobs[i] \in [state : {"waiting"}, tries : 0..Attempts, stalls : 0..1]
          \/ jobs[i] \in [state : {"looks", "creates", "bids"}, tries : 0..Attempts, stalls : 0..1,
                          api : Apis, need : 0..Target]
    /\ bots \in [Ids -> {"none", "active", "stopped"}]
    /\ timers \subseteq Apis \X Ids
    /\ {open, overlapped, byAdmin} \subseteq BOOLEAN
    /\ delivered \in 0..MaxDeliveries /\ stops \in 0..MaxStops /\ byHand \in 0..MaxByHand
    /\ acted \in [Slots -> Nat] /\ stalled \in [Slots -> Nat]

Init ==
    /\ open = TRUE
    /\ jobs = [i \in Slots |-> NoJob] /\ bots = [b \in Ids |-> "none"] /\ timers = {}
    /\ delivered = 0 /\ stops = 0 /\ byHand = 0
    /\ acted = [i \in Slots |-> 0] /\ stalled = [i \in Slots |-> 0]
    /\ overlapped = FALSE /\ byAdmin = FALSE

AuctionEnds ==
    /\ open /\ open' = FALSE
    /\ UNCHANGED <<jobs, bots, timers, delivered, stops, byHand, history>>

-----------------------------------------------------------------------------
(* BotRoundEventsHandler.onRoundStarted *)

\* Where there is a record, adding does nothing.
Added(added) ==
    [i \in Slots |-> IF i \in added /\ jobs[i] = NoJob THEN Waiting(0, 0) ELSE jobs[i]]

\* The event is delivered, the first time or again.  A job that cannot be added is passed
\* over, and the process may stop after any of them.
RoundStarts ==
    /\ open /\ delivered < MaxDeliveries
    /\ delivered' = delivered + 1
    /\ \E added \in SUBSET Slots : jobs' = Added(added)
    /\ UNCHANGED <<open, bots, timers, stops, byHand, history>>

-----------------------------------------------------------------------------
(* BotBidProcessor *)

Becomes(i, job) == jobs' = [jobs EXCEPT ![i] = job]

Takes(i, a) ==
    /\ jobs[i].state = "waiting" /\ \A k \in Working : jobs[k].api # a
    /\ Becomes(i, [state |-> "looks", tries |-> jobs[i].tries, stalls |-> jobs[i].stalls,
                   api |-> a, need |-> 0])
    /\ UNCHANGED <<open, bots, timers, delivered, stops, byHand, history>>

\* Fault: as many bots as configured are created each time.
AllOfThem == Target

\* What is missing of the pool: bots that were stopped are not in it.
Need == Target - Min({Target, Cardinality(ActiveBots)})

Filling == {k \in Working : jobs[k].state = "creates" /\ jobs[k].need > 0}

Looks(i) ==
    /\ jobs[i].state = "looks"
    /\ Becomes(i, IF open THEN [jobs[i] EXCEPT !.state = "creates", !.need = Need] ELSE NoJob)
    /\ overlapped' = (overlapped \/ (open /\ Need > 0 /\ Filling # {}))
    /\ UNCHANGED <<open, bots, timers, delivered, stops, byHand, acted, stalled, byAdmin>>

NewBot == Min({b \in Ids : bots[b] = "none"})

\* A user with a large balance, and its bot.  A process that stops in between leaves a user
\* that belongs to no bot.
Creates(i) ==
    /\ jobs[i].state = "creates" /\ jobs[i].need > 0
    /\ \E b \in Ids : bots[b] = "none"
    /\ bots' = [bots EXCEPT ![NewBot] = "active"]
    /\ Becomes(i, [jobs[i] EXCEPT !.need = @ - 1])
    /\ UNCHANGED <<open, timers, delivered, stops, byHand, history>>

\* The user or the bot cannot be created: the job is tried again, or its record removed.
Fails(i) ==
    /\ jobs[i].state = "creates" /\ jobs[i].need > 0
    /\ Becomes(i, IF jobs[i].tries + 1 < Attempts
                  THEN Waiting(jobs[i].tries + 1, jobs[i].stalls) ELSE NoJob)
    /\ UNCHANGED <<open, bots, timers, delivered, stops, byHand, history>>

\* One of the bots bids, if its bid is good; what placeBid throws is caught.
\* The record is removed with the end of the job, in the next step.
Bids(i) ==
    /\ jobs[i].state = "creates" /\ jobs[i].need = 0
    /\ Becomes(i, [jobs[i] EXCEPT !.state = "bids"])
    /\ acted' \in {acted, [acted EXCEPT ![i] = @ + 1]}
    /\ UNCHANGED <<open, bots, timers, delivered, stops, byHand, stalled, overlapped, byAdmin>>

\* Fault: an error after the bid is not caught, and the job is tried again.
AfterError(job) == IF job.tries + 1 < Attempts THEN Waiting(job.tries + 1, job.stalls) ELSE NoJob

\* The job returns normally, whatever its bids did.
After(job) == NoJob

Ends(i) ==
    /\ jobs[i].state = "bids"
    /\ Becomes(i, After(jobs[i]))
    /\ UNCHANGED <<open, bots, timers, delivered, stops, byHand, history>>

\* A process stops, with its timers and the job it works on, which waits again; the second
\* time it has failed, and its record is removed.
ApiStops(a) ==
    LET mine == {i \in Working : jobs[i].api = a}
    IN  /\ stops < MaxStops
        /\ mine # {} \/ \E b \in Ids : <<a, b>> \in timers
        /\ stops' = stops + 1
        /\ timers' = {t \in timers : t[1] # a}
        /\ jobs' = [i \in Slots |->
              IF i \notin mine THEN jobs[i]
              ELSE IF jobs[i].stalls = 0 THEN Waiting(jobs[i].tries, 1) ELSE NoJob]
        /\ stalled' = [i \in Slots |-> stalled[i] + IF i \in mine THEN 1 ELSE 0]
        /\ UNCHANGED <<open, bots, delivered, byHand, acted, overlapped, byAdmin>>

-----------------------------------------------------------------------------
(* BotsService: by hand *)

ByHand ==
    /\ byHand < MaxByHand /\ byHand' = byHand + 1
    /\ UNCHANGED <<open, jobs, delivered, stops, acted, stalled, overlapped>>

Makes ==
    /\ ByHand
    /\ \E b \in Ids : bots[b] = "none"
    /\ bots' = [bots EXCEPT ![NewBot] = "stopped"]
    /\ UNCHANGED <<timers, byAdmin>>

\* A bot that is active already, because its timer runs, was lost with its process or
\* never was, is left as it is.
Starts(b, a) ==
    /\ ByHand
    /\ bots[b] = "stopped"
    /\ bots' = [bots EXCEPT ![b] = "active"]
    /\ timers' = timers \cup {<<a, b>>}
    /\ byAdmin' = TRUE

\* The timer is cleared in this process; another's sees that the bot is not active when
\* it fires.
Stops(b, a) ==
    /\ ByHand
    /\ bots[b] = "active"
    /\ bots' = [bots EXCEPT ![b] = "stopped"]
    /\ timers' = timers \ {<<a, b>>}
    /\ UNCHANGED byAdmin

\* handleToggleBot: what the page asks for depends on what it shows, which may be old.
Toggles(b, a) == Starts(b, a) \/ Stops(b, a)

\* makeBotBid of a bot that was stopped; its bids otherwise change nothing here.
Fires(b, a) ==
    /\ <<a, b>> \in timers /\ bots[b] # "active"
    /\ timers' = timers \ {<<a, b>>}
    /\ UNCHANGED <<open, jobs, bots, delivered, stops, byHand, history>>

Works(i) == Looks(i) \/ Creates(i) \/ Fails(i) \/ Bids(i) \/ Ends(i)

Next ==
    \/ AuctionEnds \/ RoundStarts
    \/ \E i \in Slots : Works(i) \/ \E a \in Apis : Takes(i, a)
    \/ \E a \in Apis : ApiStops(a)
    \/ Makes
    \/ \E b \in Ids, a \in Apis : Toggles(b, a) \/ Fires(b, a)

Spec == Init /\ [][Next]_vars

-----------------------------------------------------------------------------
(* Properties *)

\* The pool has no more active bots than the auction is configured for, whatever is
\* delivered, retried or stopped, unless two processes filled it at once, each having found
\* the same bots missing, or the administrator has started one, perhaps one that was
\* replaced in the pool when it was stopped.
PoolAsConfigured == Cardinality(ActiveBots) <= Target \/ overlapped \/ byAdmin

\* A job of a round bids once for each delivery of the event that started the round, and
\* once more for each process that stopped with it.  The comment that the id prevents
\* duplicates (bot-round-events.handler.ts:90) holds for a job that has not ended, and the
\* bound cannot be smaller: the record of one that has is gone.
OneBidPerDelivery == \A i \in Slots : acted[i] <= delivered + stalled[i]

=============================================================================
