------------------------------ MODULE Admission ------------------------------
(***************************************************************************)
(* What a bid passes before POST /auctions/:id/bids/intake queues it: the  *)
(* guard that counts requests in a window, the health of the queue, the    *)
(* rates, and the user's token bucket.  The processes that answer share    *)
(* Redis, and each has its own clock.  The keys in Redis are per user:     *)
(* these are one user's bids for one auction.                              *)
(*                                                                         *)
(* The counters of bids per second, of the auction and of all of them, are *)
(* shared with bids that are not modelled: any bid may be refused by them. *)
(* For the same reason the length of the queue is what it happens to be.   *)
(* Tokens are counted in halves: a bid costs two.  A bucket's key expires  *)
(* after 120 s, when it would be full at the lowest of the default rates;  *)
(* that is left out.  IntakeJobs has what becomes of the accepted bids.    *)
(***************************************************************************)
EXTENDS Naturals, FiniteSetsExt

CONSTANTS
    Apis,        \* the processes that answer
    Skew,        \* how far the clocks of two of them may be apart
    Burst,       \* BID_INTAKE_USER_BURST
    WindowMax,   \* bids a user may send in a window of RateLimitGuard
    MaxClock,    \* bound: seconds
    MaxRequests, \* bound: requests
    MaxTroubles  \* bound: stops of a process

\* What the constants are; the module that instantiates this one assumes it.
AdmissionAssumption ==
    /\ {Burst, Skew, MaxClock, MaxTroubles} \subseteq Nat
    /\ {WindowMax, MaxRequests} \subseteq Nat \ {0}

VARIABLES
    clock,    \* the time
    ahead,    \* what the clock of each process is ahead of it
    window,   \* rl:place_bid_intake:u:<user>: the counter, and whether it will expire
    bucket,   \* auction:<id>:user:<user>:intake:tb: tokens, lastMs
    pressure, \* queue:bid-intake:stats: as last collected, or expired
    mult,     \* queue:bid-intake:admission: the multiplier
    asked,    \* the requests
    troubles, \* stops so far
    spent,    \* history: what the accepted bids have cost
    back      \* history: what the readings of the clocks went back, summed up

redis == <<window, bucket, pressure, mult>>
history == <<spent, back>>
vars == <<clock, ahead, redis, asked, troubles, history>>

Requests == 1..MaxRequests
Cost == 2
Rate(m) == IF m = "low" THEN 1 ELSE 2

NotAsked == [at |-> "none"]
Refused == [at |-> "refused"]
Accepted == [at |-> "accepted"]
NoWindow == [count |-> 0, ends |-> FALSE]
NoBucket == [tokens |-> Burst, last |-> 0, used |-> FALSE]

TypeOK ==
    /\ clock \in 0..MaxClock /\ ahead \in [Apis -> 0..Skew]
    /\ window \in [count : 0..MaxRequests, ends : BOOLEAN]
    /\ bucket \in [tokens : 0..Burst, last : 0..MaxClock + Skew, used : BOOLEAN]
    /\ pressure \in {"none", "calm", "high"} /\ mult \in {"full", "low"}
    /\ \A n \in Requests :
          \/ asked[n] \in {NotAsked, Refused, Accepted}
          \/ asked[n] \in [at : {"first", "passed"}, api : Apis]
          \/ asked[n] \in [at : {"stamped"}, api : Apis, now : 0..MaxClock + Skew, rate : {1, 2}]
    /\ troubles \in 0..MaxTroubles
    /\ spent \in Nat /\ back \in Nat

Init ==
    /\ clock = 0 /\ ahead \in [Apis -> 0..Skew] /\ \E a \in Apis : ahead[a] = 0
    /\ window = NoWindow /\ bucket = NoBucket
    /\ pressure = "none" /\ mult = "full"
    /\ asked = [n \in Requests |-> NotAsked] /\ troubles = 0
    /\ spent = 0 /\ back = 0

-----------------------------------------------------------------------------
(* RateLimitGuard *)

\* The request that starts the window has to set its end.
First(count) == count = 1

\* Whoever is not the first is let through, or refused, by the count alone.
Arrives(n, a) ==
    LET count == window.count + 1
    IN  /\ asked[n] = NotAsked /\ \A m \in 1..n - 1 : asked[m] # NotAsked
        /\ window' = [window EXCEPT !.count = count]
        /\ asked' = [asked EXCEPT ![n] =
              IF First(count) THEN [at |-> "first", api |-> a]
              ELSE IF count > WindowMax THEN Refused
              ELSE [at |-> "passed", api |-> a]]
        /\ UNCHANGED <<clock, ahead, bucket, pressure, mult, troubles, history>>

SetsExpiry(n) ==
    /\ asked[n].at = "first"
    /\ window' = [window EXCEPT !.ends = TRUE]
    /\ asked' = [asked EXCEPT ![n].at = "passed"]
    /\ UNCHANGED <<clock, ahead, bucket, pressure, mult, troubles, history>>

WindowEnds ==
    /\ window.ends
    /\ window' = NoWindow
    /\ UNCHANGED <<clock, ahead, bucket, pressure, mult, asked, troubles, history>>

\* A process stops: nobody answers its requests, or sets the expiry one of them owed.  Then
\* the window never ends and shuts the user out once its count is above the maximum.
ApiStops(a) ==
    LET gone == {n \in Requests : asked[n].at \in {"first", "passed", "stamped"} /\ asked[n].api = a}
    IN  /\ troubles < MaxTroubles /\ gone # {}
        /\ troubles' = troubles + 1
        /\ asked' = [n \in Requests |-> IF n \in gone THEN Refused ELSE asked[n]]
        /\ UNCHANGED <<clock, ahead, redis, history>>

-----------------------------------------------------------------------------
(* What the queue is known to hold *)

\* BidIntakeQueueMetricsService, each second
Collects ==
    /\ pressure' \in {"calm", "high"} /\ pressure' # pressure
    /\ UNCHANGED <<clock, ahead, window, bucket, mult, asked, troubles, history>>

\* BidIntakeSmartAdmissionService, each second: the multiplier moves towards what the
\* pressure asks for.  Without stats it is not written.
Adjusts ==
    /\ mult' = CASE pressure = "high" -> "low"
                 [] pressure = "calm" -> "full"
                 [] OTHER -> mult
    /\ mult' # mult
    /\ UNCHANGED <<clock, ahead, window, bucket, pressure, asked, troubles, history>>

\* Nobody writes for three seconds: without stats nothing is shed, and without a
\* multiplier it is 1.
StatsExpire ==
    /\ pressure' = "none" /\ mult' = "full"
    /\ <<pressure', mult'>> # <<pressure, mult>>
    /\ UNCHANGED <<clock, ahead, window, bucket, asked, troubles, history>>

-----------------------------------------------------------------------------
(* BidIntakeService.enqueue *)

\* assertQueueHealthy
Sheds(n) ==
    /\ asked[n].at = "passed" /\ pressure = "high"
    /\ asked' = [asked EXCEPT ![n] = Refused]
    /\ UNCHANGED <<clock, ahead, redis, troubles, history>>

\* assertGlobalRate, assertAuctionRate
IsBusy(n) ==
    /\ asked[n].at = "passed"
    /\ asked' = [asked EXCEPT ![n] = Refused]
    /\ UNCHANGED <<clock, ahead, redis, troubles, history>>

\* assertUserRate takes the multiplier and the time of its process to Redis.
Stamps(n) ==
    /\ asked[n].at = "passed" /\ pressure # "high"
    /\ asked' = [asked EXCEPT ![n] =
          [at |-> "stamped", api |-> @.api,
           now |-> clock + ahead[@.api], rate |-> Rate(mult)]]
    /\ UNCHANGED <<clock, ahead, redis, troubles, history>>

Since(b, now) == IF b.used /\ now > b.last THEN now - b.last ELSE 0

\* Fault: the time of the last request is written with the first one only.
FilledSince(b, now, rate) ==
    [tokens |-> Min({Burst, b.tokens + Since(b, now) * rate}),
     last |-> IF b.used THEN b.last ELSE now, used |-> TRUE]

\* The bucket before the bid takes its token.
Filled(b, now, rate) ==
    [tokens |-> Min({Burst, b.tokens + Since(b, now) * rate}), last |-> now, used |-> TRUE]

\* The Lua script; the job is added when there was a token, and the answer is 202.
Charges(n) ==
    LET now == asked[n].now
        filled == Filled(bucket, now, asked[n].rate)
        allowed == filled.tokens >= Cost
    IN  /\ asked[n].at = "stamped"
        /\ bucket' = IF allowed THEN [filled EXCEPT !.tokens = @ - Cost] ELSE filled
        /\ asked' = [asked EXCEPT ![n] = IF allowed THEN Accepted ELSE Refused]
        /\ spent' = IF allowed THEN spent + Cost ELSE spent
        /\ back' = IF bucket.used /\ now < bucket.last THEN back + (bucket.last - now) ELSE back
        /\ UNCHANGED <<clock, ahead, window, pressure, mult, troubles>>

Passes ==
    /\ clock < MaxClock /\ clock' = clock + 1
    /\ UNCHANGED <<ahead, redis, asked, troubles, history>>

Next ==
    \/ \E n \in Requests :
          \/ \E a \in Apis : Arrives(n, a)
          \/ SetsExpiry(n) \/ Sheds(n) \/ IsBusy(n) \/ Stamps(n) \/ Charges(n)
    \/ WindowEnds
    \/ \E a \in Apis : ApiStops(a)
    \/ Collects \/ Adjusts \/ StatsExpire \/ Passes

Spec == Init /\ [][Next]_vars

-----------------------------------------------------------------------------
(* Properties *)

Lead == Max({ahead[a] : a \in Apis})

\* Through all its processes the server takes no more bids of a user than the burst and
\* the full rate allow, counting the time that has passed, what the fastest clock is ahead,
\* and again whatever a reading of the clock was behind the one before: those seconds fill
\* the bucket twice.
BucketBound == spent + bucket.tokens <= Burst + Rate("full") * (clock + Lead + back)

=============================================================================
