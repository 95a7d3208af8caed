----------------------------- MODULE MCWorkers -----------------------------
(***************************************************************************)
(* Bots, Admission and IntakeJobs side by side, for TLC.  The three have   *)
(* no state in common (a bid that Admission accepts is one that IntakeJobs *)
(* enqueues at any time), so that a behaviour in which two of them move    *)
(* satisfies what it does when one of them rests: one moves in each.       *)
(***************************************************************************)
EXTENDS Bots

CONSTANTS Skew, Burst, WindowMax, MaxClock, MaxRequests, MaxTroubles,
          Users, Keys, MaxAccepted, MaxWorkerStops

VARIABLES
    clock, ahead, window, bucket, pressure, mult, asked, troubles, spent, back,
    accepted, records, stopped, tried, lost,
    part \* which of the three moves

A == INSTANCE Admission
I == INSTANCE IntakeJobs WITH MaxRequests <- MaxAccepted, MaxStops <- MaxWorkerStops,
                              asked <- accepted, jobs <- records, stops <- stopped

ASSUME WorkersAssumption == A!AdmissionAssumption /\ I!IntakeJobsAssumption

admission == <<clock, ahead, window, bucket, pressure, mult, asked, troubles, spent, back>>
intake == <<accepted, records, stopped, tried, lost>>

MCInit == Init /\ A!Init /\ I!Init /\ part \in {"bots", "admission", "intake"}

MCNext ==
    \/ part = "bots" /\ Next /\ UNCHANGED <<admission, intake, part>>
    \/ part = "admission" /\ A!Next /\ UNCHANGED <<vars, intake, part>>
    \/ part = "intake" /\ I!Next /\ UNCHANGED <<vars, admission, part>>

MCSpec ==
    /\ MCInit /\ [][MCNext]_<<vars, admission, intake, part>>
    /\ part = "intake" => I!Fairness

TypesOK == TypeOK /\ A!TypeOK /\ I!TypeOK

\* Bids accepted of a user against the bucket and the clocks: see Admission.
BucketBound == A!BucketBound

\* What was answered with 202 is tried: see IntakeJobs.
AcceptedIsTried == part = "intake" => I!AcceptedIsTried
=============================================================================
