----------------------------- MODULE RoundJobs -----------------------------
(***************************************************************************)
(* Who completes a round, and when: the complete-round queue, its          *)
(* processor, the handlers that schedule jobs, the outbox that announces   *)
(* the next round, late bids that extend a round, and restarts of the API  *)
(* process, in which the processor and the handlers run.                   *)
(*                                                                         *)
(* Times are what is left of them: Tick counts every one of them down.     *)
(***************************************************************************)
EXTENDS Integers

CONSTANTS
    TotalRounds,    \* auction.totalRounds
    Duration,       \* round.roundDuration
    Window,         \* antiSnipingWindow; 0 disables late bids
    Extension,      \* antiSnipingExtension
    Tolerance,      \* the 50 ms the processor allows
    Attempts,       \* defaultJobOptions.attempts
    Backoff,        \* the delay before a failed job is tried again
    Processes,      \* where bids are placed: "api", "worker" (bid-intake)
    MaxCrashes,     \* bound on the restarts of the API process
    MaxFailures,    \* bound on the errors of completion transactions
    MaxHurries      \* bound on the bids that hurry a job

ASSUME JobsAssumption ==
    /\ TotalRounds \in Nat \ {0} /\ Duration \in Nat \ {0} /\ Attempts \in Nat \ {0}
    /\ {Window, Extension, Tolerance, Backoff, MaxCrashes, MaxFailures, MaxHurries}
          \subseteq Nat
    /\ Processes \subseteq {"api", "worker"}

VARIABLES
    round,      \* round documents: status, time left to the effective end, extended
    job,        \* the record of the job complete-round__<roundId> in the queue
    calls,      \* scheduleCompleteRound calls of the event handlers, in progress
    processor,  \* the round being completed, the step, and what was read of the round
    announced,  \* the RoundStarted event of each round in the outbox
    dispatch,   \* a dispatch job waits, and the round whose event it has claimed
    bid,        \* the transaction of a late bid: its round and process
    up,         \* the API process runs
    faults      \* the restarts, failing transactions and hurrying bids so far

vars == <<round, job, calls, processor, announced, dispatch, bid, up, faults>>

Rounds == 1..TotalRounds
Left == -Extension..(Duration + Extension)

Idle == [round |-> 0, step |-> "idle", extended |-> FALSE]
NoBid == [round |-> 0, process |-> "api"]
NoJob == [state |-> "none", wait |-> 0, tries |-> 0, stalls |-> 0]

TypeOK ==
    /\ round \in [Rounds -> [status : {"none", "active", "completed"}, left : Left,
                             extended : BOOLEAN]]
    /\ job \in [Rounds -> [state : {"none", "delayed", "locked", "completed", "failed"},
                           wait : Nat, tries : 0..Attempts, stalls : 0..2]]
    /\ calls \subseteq [round : Rounds, left : Left, step : {"remove", "add"}]
    /\ processor \in [round : 0..TotalRounds, extended : BOOLEAN,
                      step : {"idle", "read", "complete", "kick"}]
    /\ announced \in [Rounds -> {"none", "pending", "processing", "published"}]
    /\ dispatch \in [queued : BOOLEAN, claimed : 0..TotalRounds]
    /\ bid \in [round : 0..TotalRounds, process : {"api", "worker"}]
    /\ up \in BOOLEAN
    /\ faults \in [crashes : 0..MaxCrashes, failures : 0..MaxFailures, hurries : 0..MaxHurries]

-----------------------------------------------------------------------------
(* The queue.  j is the record under a job's id: it stays there when the job is done. *)

\* remove(jobId): nothing happens to a locked job.
Removed(j) == IF j.state = "locked" THEN j ELSE NoJob

\* add(..., { jobId, delay }): nothing happens if there is a record with that id.
Added(j, wait) ==
    IF j.state = "none"
    THEN [NoJob EXCEPT !.state = "delayed", !.wait = IF wait > 0 THEN wait ELSE 0]
    ELSE j

\* The processor returns.
Finished(j) == IF j.state = "locked" THEN [j EXCEPT !.state = "completed"] ELSE j

\* Fault: a job that failed once is given up.
FailedAtOnce(j) == [j EXCEPT !.state = "failed", !.tries = @ + 1]

\* The processor throws.
Failed(j) ==
    IF j.tries + 1 < Attempts
    THEN [j EXCEPT !.state = "delayed", !.wait = Backoff, !.tries = @ + 1]
    ELSE [j EXCEPT !.state = "failed", !.tries = @ + 1]

\* The lock of a job whose processor died expires; the second time the job fails.
Stalled(j) == [j EXCEPT !.state = IF j.stalls = 0 THEN "delayed" ELSE "failed",
                        !.wait = 0, !.stalls = @ + 1]

Scheduling(r, left) == [round |-> r, left |-> left, step |-> "remove"]

-----------------------------------------------------------------------------
(* The clock.  An end further back than an extension is as good as one that far back. *)

Later(t) == IF t > -Extension THEN t - 1 ELSE t

Tick ==
    /\ round' = [r \in Rounds |->
            IF round[r].status = "active" THEN [round[r] EXCEPT !.left = Later(@)] ELSE round[r]]
    /\ job' = [r \in Rounds |->
            IF job[r].wait > 0 THEN [job[r] EXCEPT !.wait = @ - 1] ELSE job[r]]
    /\ calls' = {[c EXCEPT !.left = Later(@)] : c \in calls}
    /\ UNCHANGED <<processor, announced, dispatch, bid, up, faults>>

-----------------------------------------------------------------------------
(* Handlers of RoundStarted and RoundExtended: scheduleCompleteRound is two commands. *)

Remove(c) ==
    /\ c.step = "remove"
    /\ job' = [job EXCEPT ![c.round] = Removed(@)]
    /\ calls' = (calls \ {c}) \union {[c EXCEPT !.step = "add"]}
    /\ UNCHANGED <<round, processor, announced, dispatch, bid, up, faults>>

Add(c) ==
    /\ c.step = "add"
    /\ job' = [job EXCEPT ![c.round] = Added(@, c.left)]
    /\ calls' = calls \ {c}
    /\ UNCHANGED <<round, processor, announced, dispatch, bid, up, faults>>

\* start() creates the first round and emits RoundStarted in its own process.
Start ==
    /\ up
    /\ round[1].status = "none"
    /\ round' = [round EXCEPT ![1] = [status |-> "active", left |-> Duration, extended |-> FALSE]]
    /\ calls' = calls \union {Scheduling(1, Duration)}
    /\ UNCHANGED <<job, processor, announced, dispatch, bid, up, faults>>

-----------------------------------------------------------------------------
(* The processor of complete-round, one job at a time. *)

Take(r) ==
    /\ up
    /\ processor = Idle
    /\ job[r].state = "delayed" /\ job[r].wait = 0
    /\ job' = [job EXCEPT ![r].state = "locked"]
    /\ processor' = [round |-> r, step |-> "read", extended |-> FALSE]
    /\ UNCHANGED <<round, calls, announced, dispatch, bid, up, faults>>

Returns == job' = [job EXCEPT ![processor.round] = Finished(@)] /\ processor' = Idle

\* Fault: the check looks at endTime and forgets extendedEndTime.
TooEarlyUnextended(r) ==
    round[r].left - (IF round[r].extended THEN Extension ELSE 0) > Tolerance

\* The effective end is further away than the tolerance.
TooEarly(r) == round[r].left > Tolerance

\* The snapshot shows a round that has ended.
SkipEnded ==
    /\ processor.step = "read"
    /\ round[processor.round].status # "active"
    /\ Returns
    /\ UNCHANGED <<round, calls, announced, dispatch, bid, up, faults>>

\* The job runs before the end: schedule it again, under its own id, and exit.
RunEarly ==
    LET r == processor.round
    IN  /\ processor.step = "read"
        /\ round[r].status = "active"
        /\ TooEarly(r)
        /\ job' = [job EXCEPT ![r] = Finished(Added(Removed(@), round[r].left))]
        /\ processor' = Idle
        /\ UNCHANGED <<round, calls, announced, dispatch, bid, up, faults>>

PassCheck ==
    LET r == processor.round
    IN  /\ processor.step = "read"
        /\ round[r].status = "active"
        /\ ~TooEarly(r)
        /\ processor' = [processor EXCEPT !.step = "complete", !.extended = round[r].extended]
        /\ UNCHANGED <<round, job, calls, announced, dispatch, bid, up, faults>>

\* The transaction of completeRound: it reads the round again, but not the time, and is
\* tried again on a write conflict without the check.  It opens the next round and puts
\* its RoundStarted event in the outbox.
Complete ==
    LET r == processor.round
    IN  /\ processor.step = "complete"
        /\ round' = [n \in Rounds |->
                IF n = r THEN [round[n] EXCEPT !.status = "completed", !.left = 0]
                ELSE IF n = r + 1 THEN [status |-> "active", left |-> Duration, extended |-> FALSE]
                ELSE round[n]]
        /\ announced' = [n \in Rounds |-> IF n = r + 1 THEN "pending" ELSE announced[n]]
        /\ processor' = [processor EXCEPT !.step = "kick"]
        /\ UNCHANGED <<job, calls, dispatch, bid, up, faults>>

\* The transaction fails (contention that outlasts its attempts, a lost connection).
Fail ==
    /\ processor.step = "complete"
    /\ faults.failures < MaxFailures
    /\ faults' = [faults EXCEPT !.failures = @ + 1]
    /\ job' = [job EXCEPT ![processor.round] = Failed(@)]
    /\ processor' = Idle
    /\ UNCHANGED <<round, calls, announced, dispatch, bid, up>>

\* After the commit: add a dispatch job.
Kick ==
    /\ processor.step = "kick"
    /\ dispatch' = [dispatch EXCEPT !.queued = TRUE]
    /\ Returns
    /\ UNCHANGED <<round, calls, announced, bid, up, faults>>

\* The queue finds a locked job without a processor.
Unstall(r) ==
    /\ up
    /\ job[r].state = "locked" /\ processor.round # r
    /\ job' = [job EXCEPT ![r] = Stalled(@)]
    /\ UNCHANGED <<round, calls, processor, announced, dispatch, bid, up, faults>>

-----------------------------------------------------------------------------
(* The outbox dispatcher. *)

Claim(r) ==
    /\ up /\ dispatch.queued /\ dispatch.claimed = 0
    /\ announced[r] = "pending"
    /\ announced' = [announced EXCEPT ![r] = "processing"]
    /\ dispatch' = [dispatch EXCEPT !.claimed = r]
    /\ UNCHANGED <<round, job, calls, processor, bid, up, faults>>

\* Emit the claimed event, whose handler starts a call, and mark it published.
Emit ==
    LET r == dispatch.claimed
    IN  /\ r # 0
        /\ announced' = [announced EXCEPT ![r] = "published"]
        /\ dispatch' = [dispatch EXCEPT !.claimed = 0]
        /\ calls' = calls \union
                {Scheduling(r, IF round[r].status = "active" THEN round[r].left ELSE 0)}
        /\ UNCHANGED <<round, job, processor, bid, up, faults>>

Drained ==
    /\ up /\ dispatch.queued /\ dispatch.claimed = 0
    /\ \A r \in Rounds : announced[r] # "pending"
    /\ dispatch' = [dispatch EXCEPT !.queued = FALSE]
    /\ UNCHANGED <<round, job, calls, processor, announced, bid, up, faults>>

-----------------------------------------------------------------------------
(* Late bids. *)

\* A bid transaction begins inside the anti-sniping window of a round not yet extended.
BidLate(r, p) ==
    /\ bid = NoBid
    /\ p = "api" => up
    /\ round[r].status = "active" /\ ~round[r].extended
    /\ round[r].left \in 1..Window
    /\ bid' = [round |-> r, process |-> p]
    /\ UNCHANGED <<round, job, calls, processor, announced, dispatch, up, faults>>

\* It commits and extends the round, then emits RoundExtended in its own process: the
\* worker has no handler for it.
Extend ==
    LET r == bid.round
        left == round[r].left + Extension
    IN  /\ r # 0
        /\ round[r].status = "active" /\ ~round[r].extended
        /\ round' = [round EXCEPT ![r].left = left, ![r].extended = TRUE]
        /\ calls' = IF bid.process = "api" THEN calls \union {Scheduling(r, left)} ELSE calls
        /\ bid' = NoBid
        /\ UNCHANGED <<job, processor, announced, dispatch, up, faults>>

\* It extends nothing: the bid is not among the first, or the transaction aborts.
BidEnds ==
    /\ bid # NoBid
    /\ bid' = NoBid
    /\ UNCHANGED <<round, job, calls, processor, announced, dispatch, up, faults>>

\* A new bid was told that the auction has ended: it is over, or the write to the auction
\* document modified nothing, because another bid wrote the same millisecond.  Before it
\* looks for the next round, it schedules the job of the round it holds to run at once.
Hurry(r) ==
    /\ up /\ faults.hurries < MaxHurries
    /\ round[r].status # "none"
    /\ faults' = [faults EXCEPT !.hurries = @ + 1]
    /\ calls' = calls \union {Scheduling(r, 0)}
    /\ UNCHANGED <<round, job, processor, announced, dispatch, bid, up>>

-----------------------------------------------------------------------------
(* Restarts of the API process. *)

Crash ==
    /\ up /\ faults.crashes < MaxCrashes
    /\ up' = FALSE
    /\ faults' = [faults EXCEPT !.crashes = @ + 1]
    /\ processor' = Idle
    /\ calls' = {}
    /\ dispatch' = [dispatch EXCEPT !.claimed = 0]
    /\ bid' = IF bid.process = "api" THEN NoBid ELSE bid
    /\ UNCHANGED <<round, job, announced>>

\* On start, every active round without a job record gets a job.
Restart ==
    /\ ~up
    /\ up' = TRUE
    /\ job' = [r \in Rounds |->
            IF round[r].status = "active" THEN Added(job[r], round[r].left) ELSE job[r]]
    /\ UNCHANGED <<round, calls, processor, announced, dispatch, bid, faults>>

-----------------------------------------------------------------------------

Init ==
    /\ round = [r \in Rounds |-> [status |-> "none", left |-> 0, extended |-> FALSE]]
    /\ job = [r \in Rounds |-> NoJob]
    /\ calls = {}
    /\ processor = Idle
    /\ announced = [r \in Rounds |-> "none"]
    /\ dispatch = [queued |-> FALSE, claimed |-> 0]
    /\ bid = NoBid
    /\ up = TRUE
    /\ faults = [crashes |-> 0, failures |-> 0, hurries |-> 0]

Handlers == \E c \in calls : Remove(c) \/ Add(c)
Processing == SkipEnded \/ RunEarly \/ PassCheck \/ Complete \/ Fail \/ Kick

Next ==
    \/ Tick
    \/ Start
    \/ Handlers
    \/ \E r \in Rounds : Take(r) \/ Unstall(r) \/ Claim(r)
    \/ Processing
    \/ Emit \/ Drained
    \/ \E r \in Rounds : Hurry(r) \/ \E p \in Processes : BidLate(r, p)
    \/ Extend \/ BidEnds
    \/ Crash \/ Restart

Spec == Init /\ [][Next]_vars

\* The clock advances, calls in progress and jobs in the queues go on, and a process that
\* stops is started again.  Nothing makes an auction start, a bid arrive or a
\* transaction fail.
Fairness ==
    /\ WF_vars(Tick) /\ WF_vars(Handlers)
    /\ WF_vars(Processing) /\ WF_vars(Emit) /\ WF_vars(Drained) /\ WF_vars(Restart)
    /\ \A r \in Rounds : WF_vars(Take(r)) /\ WF_vars(Unstall(r)) /\ WF_vars(Claim(r))

FairSpec == Spec /\ Fairness

-----------------------------------------------------------------------------
(* Properties *)

Completes(r) == round[r].status = "active" /\ round'[r].status = "completed"

\* Every round that starts completes: no active round is forgotten.
EveryRoundCompletes ==
    \A r \in Rounds : round[r].status = "active" ~> round[r].status = "completed"

\* A round is forgotten only if a bid extended it or hurried a job: crashes, restarts and
\* failing transactions, wherever they fall, leave every other round with somebody who
\* completes it.
UnmovedRoundsComplete ==
    \A r \in Rounds : round[r].status = "active" ~>
        round[r].status = "completed" \/ round[r].extended \/ faults.hurries > 0

\* No round completes before its effective end (rounds.processor.ts: "If this job runs
\* before the effective endsAt (endTime/extendedEndTime), we MUST reschedule it").
NeverEarly ==
    [][\A r \in Rounds : Completes(r) => round[r].left <= Tolerance]_vars

\* A round that completes before its effective end was extended after the processor
\* checked, never before, however its jobs were removed, added and retried.
EarlyOnlyIfRaced ==
    [][\A r \in Rounds : Completes(r) =>
        \/ round[r].left <= Tolerance
        \/ round[r].extended /\ ~processor.extended]_vars

=============================================================================
