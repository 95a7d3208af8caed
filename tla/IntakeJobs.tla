----------------------------- MODULE IntakeJobs -----------------------------
(***************************************************************************)
(* The queue bid-intake: the bids that POST /auctions/:id/bids/intake has  *)
(* accepted (Admission has what they pass before), the records of their    *)
(* jobs, and the workers that place them.  A record keeps its id as long   *)
(* as it is there, whatever became of the job, and Queue.add does nothing  *)
(* under an id that is taken.  One auction.                                *)
(***************************************************************************)
EXTENDS Naturals

CONSTANTS
    Users,
    Keys,        \* idempotency keys, "" for a request without
    Attempts,    \* defaultJobOptions.attempts
    MaxRequests, \* bound: accepted bids
    MaxStops     \* bound: workers that stop in the middle of a job

\* What the constants are; the module that instantiates this one assumes it.
IntakeJobsAssumption ==
    /\ {Attempts, MaxRequests} \subseteq Nat \ {0} /\ MaxStops \in Nat
    /\ Keys \subseteq {"", "a:b", "a_b", "c"}

VARIABLES
    asked, \* the bids that were answered with 202, in their order
    jobs,  \* the records of the queue
    stops, \* workers stopped so far
    tried, \* history: the bids a worker has tried to place
    lost   \* history: the bids two workers have stopped with

vars == <<asked, jobs, stops, tried, lost>>

Requests == 1..MaxRequests
NotAsked == [user |-> "nobody", key |-> ""]
Accepted(n) == asked[n] # NotAsked

TypeOK ==
    /\ asked \in [Requests -> [user : Users, key : Keys] \cup {NotAsked}]
    /\ \A j \in jobs : /\ j.of \in Requests /\ j.tries \in 0..Attempts /\ j.stalls \in 0..2
                       /\ j.state \in {"waiting", "active", "delayed", "completed", "failed"}
    /\ \A j, k \in jobs : j.id = k.id => j = k
    /\ stops \in 0..MaxStops /\ {tried, lost} \subseteq SUBSET Requests

Init ==
    /\ asked = [n \in Requests |-> NotAsked] /\ jobs = {} /\ stops = 0
    /\ tried = {} /\ lost = {}

\* Job ids may not contain a colon.
Safe(key) == IF key = "a:b" THEN "a_b" ELSE key

\* Fault: the key alone is the id.
JobIdOfKey(n, u, k) ==
    IF k = "" THEN [user |-> u, key |-> "", by |-> n] ELSE [user |-> "", key |-> Safe(k), by |-> 0]

\* The time and a random number make the id of a bid without a key, its number here.
JobId(n, u, k) ==
    IF k = "" THEN [user |-> u, key |-> "", by |-> n] ELSE [user |-> u, key |-> Safe(k), by |-> 0]

\* BidIntakeService.enqueue, when nothing has refused the bid
Enqueues(n, u, k) ==
    LET id == JobId(n, u, k)
    IN  /\ ~Accepted(n) /\ \A m \in 1..n - 1 : Accepted(m)
        /\ asked' = [asked EXCEPT ![n] = [user |-> u, key |-> k]]
        /\ jobs' = IF \E j \in jobs : j.id = id THEN jobs
                   ELSE jobs \cup {[id |-> id, of |-> n, state |-> "waiting", tries |-> 0, stalls |-> 0]}
        /\ UNCHANGED <<stops, tried, lost>>

Becomes(j, k) ==
    /\ jobs' = (jobs \ {j}) \cup {k}
    /\ UNCHANGED asked

Takes(j) ==
    /\ j.state = "waiting"
    /\ Becomes(j, [j EXCEPT !.state = "active"])
    /\ UNCHANGED <<stops, tried, lost>>

\* placeBid returns.
Places(j) ==
    /\ j.state = "active"
    /\ tried' = tried \cup {j.of}
    /\ Becomes(j, [j EXCEPT !.state = "completed"])
    /\ UNCHANGED <<stops, lost>>

\* placeBid throws, whatever the reason: the job is tried again after a while, or kept as failed.
Throws(j) ==
    /\ j.state = "active"
    /\ tried' = tried \cup {j.of}
    /\ Becomes(j, [j EXCEPT !.tries = @ + 1,
                            !.state = IF j.tries + 1 < Attempts THEN "delayed" ELSE "failed"])
    /\ UNCHANGED <<stops, lost>>

Wakes(j) ==
    /\ j.state = "delayed"
    /\ Becomes(j, [j EXCEPT !.state = "waiting"])
    /\ UNCHANGED <<stops, tried, lost>>

\* The worker of the job stops: the job waits again; the second time it has failed.
WorkerStops(j) ==
    /\ j.state = "active" /\ stops < MaxStops
    /\ stops' = stops + 1
    /\ Becomes(j, [j EXCEPT !.stalls = @ + 1,
                            !.state = IF j.stalls = 0 THEN "waiting" ELSE "failed"])
    /\ lost' = IF j.stalls = 0 THEN lost ELSE lost \cup {j.of}
    /\ UNCHANGED tried

\* An hour after the job was completed, or a day after it failed
Forgets(j) ==
    /\ j.state \in {"completed", "failed"}
    /\ jobs' = jobs \ {j}
    /\ UNCHANGED <<asked, stops, tried, lost>>

Works(j) == Takes(j) \/ Places(j) \/ Throws(j) \/ Wakes(j)

Next ==
    \/ \E n \in Requests, u \in Users, k \in Keys : Enqueues(n, u, k)
    \/ \E j \in jobs : Works(j) \/ WorkerStops(j) \/ Forgets(j)

Spec == Init /\ [][Next]_vars

\* The workers take what waits, placeBid ends (EveryCallEnds in BidRequest), and BullMQ
\* wakes what is delayed.
Fairness == \A n \in Requests : WF_vars(\E j \in jobs : j.of = n /\ Works(j))

FairSpec == Spec /\ Fairness

-----------------------------------------------------------------------------
(* Properties *)

\* Bids of one user whose keys read the same once they are part of a job id
Twins(m, n) ==
    \/ m = n
    \/ /\ Accepted(m) /\ Accepted(n) /\ asked[m].user = asked[n].user
       /\ asked[n].key # "" /\ Safe(asked[m].key) = Safe(asked[n].key)

\* A bid that was answered with 202 is tried in the end, or another of the same user under
\* the same key is or was, unless two workers stop with the job: the queue drops no bid for
\* that of another user, and none without a key.
AcceptedIsTried ==
    \A n \in Requests : Accepted(n) ~> (\E m \in tried \cup lost : Twins(m, n))

=============================================================================
