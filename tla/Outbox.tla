------------------------------- MODULE Outbox -------------------------------
(***************************************************************************)
(* The events of round completions on their way from the transaction that  *)
(* causes them to the handlers and the audit log.                          *)
(*                                                                         *)
(* A completion inserts its events into the outbox in its own transaction  *)
(* and, after the commit, adds a dispatch job.  The job claims pending     *)
(* rows oldest first, emits each on the event bus of its process and marks *)
(* it published.  emit does not throw, so a row fails only when it cannot  *)
(* be marked.  An administrator may set a row back to pending and ask for  *)
(* a dispatch.  The process that runs all this may stop at any step; its   *)
(* active job is then run again.                                           *)
(*                                                                         *)
(* The completions are those of one auction, one after the other.          *)
(***************************************************************************)
EXTENDS Integers, FiniteSets, Sequences

CONSTANTS
    Events,         \* completion number -> the types of its events, in order
    Audited,        \* types of which AuditEventsHandler keeps a record
    MaxTries,       \* attempts of a completion's transaction (5 in the code)
    MaxAttempts,    \* claims of a row before it is given up (10)
    Batch,          \* rows one dispatch job handles (200)
    MaxUnmarked,    \* bound: updates of a claimed row that fail
    MaxTroubles     \* bound: other calls that fail, requests of administrators, and crashes

\* What the constants are; the module that instantiates this one assumes it.
OutboxAssumption ==
    /\ Events \in Seq(Seq(STRING)) \ {<<>>}
    /\ \A c \in DOMAIN Events : Len(Events[c]) \in 1..Batch
    /\ {MaxTries, MaxAttempts, Batch} \subseteq Nat \ {0} /\ {MaxUnmarked, MaxTroubles} \subseteq Nat

VARIABLES
    tx,         \* completion -> its transaction: [pc, try]
    committed,  \* ids of the events whose transaction took effect
    rows,       \* the outbox, in the order of createdAt
    shared,     \* the job "dispatch-outbox", added by requests: none, waiting or active
    kicks,      \* jobs "dispatch-outbox-<time>", added by completions, that wait
    drain,      \* what drainBatch is doing
    emitted,    \* ids of the events emitted so far
    appends,    \* audit records being inserted
    audit,      \* ids of the events in the audit log
    request,    \* an administrator's retry between its update and its add
    count       \* failures and requests so far

vars == <<tx, committed, rows, shared, kicks, drain, emitted, appends, audit, request, count>>

Completions == DOMAIN Events

\* An event object gets its id when an attempt publishes it.
Ids == UNION {{<<c, t, i>> : t \in 1..MaxTries, i \in DOMAIN Events[c]} : c \in Completions}
TypeOf(id) == Events[id[1]][id[3]]

Row(id) == [id |-> id, status |-> "pending", attempts |-> 0, later |-> FALSE]
RowsOf(c, t) == [i \in 1..Len(Events[c]) |-> Row(<<c, t, i>>)]

Off == [pc |-> "off", job |-> "none", row |-> 0, left |-> 0]
\* Fault: a job handles one row.
StartedOne(job) == [pc |-> "claim", job |-> job, row |-> 0, left |-> 1]

Started(job) == [pc |-> "claim", job |-> job, row |-> 0, left |-> Batch]

TypeOK ==
    /\ \A c \in Completions : /\ tx[c].pc \in {"idle", "open", "committed", "done", "failed"}
                              /\ tx[c].try \in 1..MaxTries
    /\ committed \subseteq Ids /\ emitted \subseteq Ids /\ appends \subseteq Ids /\ audit \subseteq Ids
    /\ \A r \in DOMAIN rows : /\ rows[r].id \in Ids /\ rows[r].later \in BOOLEAN
                              /\ rows[r].status \in {"pending", "processing", "published", "failed"}
                              /\ rows[r].attempts \in Nat
    /\ shared \in {"none", "waiting", "active"} /\ kicks \in Nat
    /\ drain.pc \in {"off", "claim", "emit", "mark", "ending"} /\ drain.left \in 0..Batch
    /\ drain.job \in {"none", "shared", "kick"}
    /\ drain.pc \in {"emit", "mark"} => drain.row \in DOMAIN rows
    /\ request \in {"none", "updated"}

Init ==
    /\ tx = [c \in Completions |-> [pc |-> "idle", try |-> 1]]
    /\ committed = {}
    /\ rows = <<>>
    /\ shared = "none" /\ kicks = 0
    /\ drain = Off
    /\ emitted = {}
    /\ appends = {} /\ audit = {}
    /\ request = "none"
    /\ count = [unmarked |-> 0, unaudited |-> 0, lostKicks |-> 0, requests |-> 0, crashes |-> 0,
                ignored |-> 0, silent |-> 0]

Troubles == count.unaudited + count.lostKicks + count.requests + count.crashes
Trouble(what) == Troubles < MaxTroubles /\ count' = [count EXCEPT ![what] = @ + 1]

-----------------------------------------------------------------------------
(* A completion: its transaction, the events in it, and the kick after the commit. *)

txUnchanged == UNCHANGED <<shared, kicks, drain, emitted, appends, audit, request>>

Completed(c) == \E id \in committed : id[1] = c

\* completeRound and publishAsync with the session: nothing is visible yet.
Open(c) ==
    /\ tx[c].pc = "idle"
    /\ \A d \in 1..(c - 1) : Completed(d)
    /\ tx' = [tx EXCEPT ![c].pc = "open"]
    /\ txUnchanged /\ UNCHANGED <<committed, rows, count>>

\* The transaction takes effect; of a round completed before, completeRound returns null
\* and nothing is published.
TakesEffect(c) ==
    IF Completed(c) THEN UNCHANGED <<committed, rows>>
    ELSE /\ committed' = committed \union {<<c, tx[c].try, i>> : i \in 1..Len(Events[c])}
         /\ rows' = rows \o RowsOf(c, tx[c].try)

Commit(c) ==
    /\ tx[c].pc = "open"
    /\ TakesEffect(c)
    /\ tx' = [tx EXCEPT ![c].pc = "committed"]
    /\ txUnchanged /\ UNCHANGED count

\* A transient error: the attempt had no effect, or its commit's outcome is not known.
\* After the last attempt the job fails; if the commit had an effect nonetheless, the job,
\* run again, finds the round completed and ends without a kick (counted as silent).
Transient(c) ==
    /\ tx[c].pc = "open"
    /\ TakesEffect(c) \/ UNCHANGED <<committed, rows>>
    /\ count' = IF tx[c].try = MaxTries /\ Completed(c)' THEN [count EXCEPT !.silent = @ + 1]
                ELSE count
    /\ tx' = [tx EXCEPT ![c] = IF @.try < MaxTries THEN [pc |-> "idle", try |-> @.try + 1]
                               ELSE [@ EXCEPT !.pc = "failed"]]
    /\ txUnchanged

\* Fault: the kick has the id of the shared job.
KickShared(c) ==
    /\ tx[c].pc = "committed"
    /\ tx' = [tx EXCEPT ![c].pc = "done"]
    /\ shared' = IF shared = "none" THEN "waiting" ELSE shared
    /\ UNCHANGED <<committed, rows, kicks, drain, emitted, appends, audit, request, count>>

\* The dispatch job has an id of its own, so it is added whatever jobs there are.
Kick(c) ==
    /\ tx[c].pc = "committed"
    /\ tx' = [tx EXCEPT ![c].pc = "done"]
    /\ \/ kicks' = kicks + 1 /\ UNCHANGED count
       \/ kicks' = kicks /\ Trouble("lostKicks")
    /\ UNCHANGED <<committed, rows, shared, drain, emitted, appends, audit, request>>

-----------------------------------------------------------------------------
(* The dispatcher: one job at a time. *)

drainUnchanged == UNCHANGED <<tx, committed, kicks, request>>

TakeShared ==
    /\ drain.pc = "off" /\ shared = "waiting"
    /\ shared' = "active"
    /\ drain' = Started("shared")
    /\ drainUnchanged /\ UNCHANGED <<rows, emitted, appends, audit, count>>

TakeKick ==
    /\ drain.pc = "off" /\ kicks > 0
    /\ kicks' = kicks - 1
    /\ drain' = Started("kick")
    /\ UNCHANGED <<tx, committed, rows, shared, emitted, appends, audit, request, count>>

Claimable(r) == rows[r].status = "pending" /\ ~rows[r].later

\* Fault: the newest pending row is claimed.
ClaimNewest ==
    /\ drain.pc = "claim" /\ drain.left > 0
    /\ \E r \in DOMAIN rows :
          /\ Claimable(r) /\ \A q \in DOMAIN rows : Claimable(q) => q <= r
          /\ rows' = [rows EXCEPT ![r].status = "processing", ![r].attempts = @ + 1]
          /\ drain' = [drain EXCEPT !.pc = "emit", !.row = r, !.left = @ - 1]
    /\ drainUnchanged /\ UNCHANGED <<shared, emitted, appends, audit, count>>

\* claimNext: the oldest pending row that is due.
Claim ==
    /\ drain.pc = "claim" /\ drain.left > 0
    /\ \E r \in DOMAIN rows :
          /\ Claimable(r) /\ \A q \in DOMAIN rows : Claimable(q) => r <= q
          /\ rows' = [rows EXCEPT ![r].status = "processing", ![r].attempts = @ + 1]
          /\ drain' = [drain EXCEPT !.pc = "emit", !.row = r, !.left = @ - 1]
    /\ drainUnchanged /\ UNCHANGED <<shared, emitted, appends, audit, count>>

\* Nothing is claimed, or the batch is used up ...
NothingLeft ==
    /\ drain.pc = "claim"
    /\ drain.left = 0 \/ \A r \in DOMAIN rows : ~Claimable(r)
    /\ drain' = [drain EXCEPT !.pc = "ending"]
    /\ drainUnchanged /\ UNCHANGED <<rows, shared, emitted, appends, audit, count>>

\* ... and then the job completes and is removed.
Ends ==
    /\ drain.pc = "ending"
    /\ shared' = IF drain.job = "shared" THEN "none" ELSE shared
    /\ drain' = Off
    /\ drainUnchanged /\ UNCHANGED <<rows, emitted, appends, audit, count>>

\* emit runs the handlers; AuditEventsHandler starts its insert and does not wait.
Emit ==
    /\ drain.pc = "emit"
    /\ LET id == rows[drain.row].id
       IN  /\ emitted' = emitted \union {id}
           /\ appends' = IF TypeOf(id) \in Audited THEN appends \union {id} ELSE appends
    /\ drain' = [drain EXCEPT !.pc = "mark"]
    /\ drainUnchanged /\ UNCHANGED <<rows, shared, audit, count>>

MarkPublished ==
    /\ drain.pc = "mark"
    /\ rows' = [rows EXCEPT ![drain.row].status = "published"]
    /\ drain' = [drain EXCEPT !.pc = "claim"]
    /\ drainUnchanged /\ UNCHANGED <<shared, emitted, appends, audit, count>>

\* markPublished throws: markDead after the last attempt, markFailed with a later attempt
\* before.  Nothing wakes the dispatcher when that time has come.
MarkFails ==
    /\ drain.pc = "mark"
    /\ count.unmarked < MaxUnmarked
    /\ count' = [count EXCEPT !.unmarked = @ + 1]
    /\ rows' = [rows EXCEPT ![drain.row] =
                   IF @.attempts >= MaxAttempts THEN [@ EXCEPT !.status = "failed", !.later = FALSE]
                   ELSE [@ EXCEPT !.status = "pending", !.later = TRUE]]
    /\ drain' = [drain EXCEPT !.pc = "claim"]
    /\ drainUnchanged /\ UNCHANGED <<shared, emitted, appends, audit>>

\* nextAttemptAt passes.
Due(r) ==
    /\ rows[r].later
    /\ rows' = [rows EXCEPT ![r].later = FALSE]
    /\ drainUnchanged /\ UNCHANGED <<shared, drain, emitted, appends, audit, count>>

\* safeAppend: a record is inserted, refused as a duplicate, or lost to an error.
SafeAppend(id) ==
    /\ appends' = appends \ {id}
    /\ \/ audit' = audit \union {id} /\ UNCHANGED count
       \/ audit' = audit /\ Trouble("unaudited")
    /\ drainUnchanged /\ UNCHANGED <<rows, shared, drain, emitted>>

-----------------------------------------------------------------------------
(* Administrators and crashes. *)

adminUnchanged == UNCHANGED <<tx, committed, kicks, drain, emitted, appends, audit>>

\* The shared job is added unless it exists; one that is active may have seen the last row.
AddShared ==
    /\ shared' = IF shared = "none" THEN "waiting" ELSE shared
    /\ count' = IF shared = "active" THEN [count EXCEPT !.ignored = @ + 1] ELSE count

\* POST outbox/:eventId/retry, whatever the row's status; attempts are kept.
Retry(r) ==
    /\ request = "none"
    /\ Trouble("requests")
    /\ rows' = [rows EXCEPT ![r].status = "pending", ![r].later = FALSE]
    /\ request' = "updated"
    /\ adminUnchanged /\ UNCHANGED shared

RetryKicks ==
    /\ request = "updated"
    /\ request' = "none"
    /\ AddShared
    /\ adminUnchanged /\ UNCHANGED rows

\* POST outbox/dispatch.
Dispatch ==
    /\ request = "none" /\ Trouble("requests")
    /\ shared' = IF shared = "none" THEN "waiting" ELSE shared
    /\ adminUnchanged /\ UNCHANGED <<rows, request>>

\* The process stops and starts again: open transactions are aborted, the dispatch job
\* that was active waits again, and a completion's job is run again; it finds the round
\* completed, if it was, and returns without a kick.
Crash ==
    /\ Trouble("crashes")
    /\ tx' = [c \in Completions |->
                 IF tx[c].pc \in {"open", "committed", "failed"}
                 THEN [tx[c] EXCEPT !.pc = IF Completed(c) THEN "done" ELSE "idle"] ELSE tx[c]]
    /\ shared' = IF shared = "active" THEN "waiting" ELSE shared
    /\ kicks' = IF drain.job = "kick" THEN kicks + 1 ELSE kicks
    /\ drain' = Off
    /\ appends' = {}
    /\ request' = "none"
    /\ UNCHANGED <<committed, rows, emitted, audit>>

-----------------------------------------------------------------------------

Completing(c) == Open(c) \/ Commit(c) \/ Transient(c) \/ Kick(c)

Draining ==
    \/ TakeShared \/ TakeKick \/ Claim \/ NothingLeft \/ Ends \/ Emit \/ MarkPublished \/ MarkFails

Admin == (\E r \in DOMAIN rows : Retry(r)) \/ RetryKicks \/ Dispatch

Next ==
    \/ \E c \in Completions : Completing(c)
    \/ Draining
    \/ \E r \in DOMAIN rows : Due(r)
    \/ \E id \in appends : SafeAppend(id)
    \/ Admin
    \/ Crash

\* A transaction goes on or fails, and BullMQ gives a waiting job to the idle worker.
Fairness ==
    /\ \A c \in Completions : WF_vars(Completing(c))
    /\ WF_vars(Draining)

Spec == Init /\ [][Next]_vars /\ Fairness

-----------------------------------------------------------------------------
(* Properties. *)

\* An event is emitted before the events committed after it, unless its row was claimed by
\* a dispatch that stopped before emitting it (outbox.service.ts, claimNext).
InOrder ==
    \A q, r \in DOMAIN rows :
        q < r /\ rows[r].id \in emitted /\ rows[q].id \notin emitted
            => count.crashes > 0 /\ rows[q].attempts > 0

Quiet ==
    /\ shared = "none" /\ kicks = 0 /\ drain.pc = "off" /\ appends = {} /\ request = "none"
    /\ \A c \in Completions : Completed(c) => tx[c].pc \in {"done", "failed"}

Undisturbed == count.crashes = 0 /\ count.lostKicks = 0 /\ count.silent = 0

\* The retries of administrators share a job, which is good for one batch.
Dispatched == count.unmarked = 0 /\ count.ignored = 0 /\ count.requests <= Batch

\* When no job waits or runs, no row is left pending and the audit log has every audited
\* event, unless the process stopped, a job or an audit record could not be inserted, a row
\* could not be marked, the kick of a retry met a job that was about to end, more rows than
\* a batch were retried, or the last attempt of a completion committed without knowing it.
NothingStranded ==
    Quiet /\ Undisturbed /\ Dispatched
        => /\ \A r \in DOMAIN rows : rows[r].status = "published"
           /\ count.unaudited = 0 => audit = {id \in committed : TypeOf(id) \in Audited}

\* A completion's dispatch is good for its events besides the rows that come back.
Room == \A c \in Completions : Len(Events[c]) + count.unmarked + count.requests <= Batch

\* Without a crash, a lost kick or a silent commit every committed event is emitted
\* (rounds.processor.ts adds a job of its own for every completion), unless the rows not
\* marked and the retries take up a batch.
EveryEventEmitted ==
    []<>(committed \subseteq emitted \/ ~Undisturbed \/ ~Room)
=============================================================================
