----------------------------- MODULE BidRequest -----------------------------
(***************************************************************************)
(* The calls of placeBid by one user in one auction: the idempotency       *)
(* record, the check before the transaction, the transaction with its      *)
(* attempts, and the answer.  A client that repeats a request, a client    *)
(* that sends two at once, and a bid-intake job that is run again are      *)
(* further calls.  Auction says what the transaction commits in full; here *)
(* it is what the user's own active bid becomes.                           *)
(***************************************************************************)
EXTENDS Integers, FiniteSets

CONSTANTS
    Calls,          \* invocations of placeBid
    Requests,       \* [key, mode, amount]: what a call may ask for
    Keys,           \* idempotency keys; a request without one has NoKey
    NoKey,
    MaxAttempts,    \* attempts of the transaction (5 in the code)
    MaxUnknown,     \* bound on commits whose outcome the driver cannot tell
    MaxErrors       \* bound on failing writes of idempotency records

ASSUME RequestAssumption ==
    /\ IsFiniteSet(Calls)
    /\ NoKey \notin Keys
    /\ Requests # {}
    /\ Requests \subseteq [key : Keys \union {NoKey}, mode : {"new", "raise"}, amount : Nat \ {0}]
    /\ MaxAttempts \in Nat \ {0} /\ MaxUnknown \in Nat /\ MaxErrors \in Nat

VARIABLES
    open,       \* the auction takes bids
    bid,        \* the amount of the user's active bid; 0 if there is none
    record,     \* the idempotency records, by key
    call,       \* the calls
    applied,    \* history: how often a call's transaction has taken effect
    unknown,    \* history: how many of those commits were reported as unknown
    errors      \* failing record writes so far

vars == <<open, bid, record, call, applied, unknown, errors>>

\* What placeBid returns or throws.  conflict is the 409, error any error 500.
Answer == [kind : {"none", "done", "refused", "conflict", "error", "in progress", "dead"},
           amount : Nat]
NoAnswer == [kind |-> "none", amount |-> 0]
Failure(kind) == [kind |-> kind, amount |-> 0]
Done(a) == [kind |-> "done", amount |-> a]

\* attempt and retried count the transactions; result is what the record will say.
Call == [step : {"new", "wait", "check", "run", "save", "save again", "end"},
         request : Requests, attempt : 0..MaxAttempts, retried : BOOLEAN,
         result : Answer, answer : Answer]

TypeOK ==
    /\ open \in BOOLEAN
    /\ bid \in Nat
    /\ record \in [Keys -> [status : {"none", "processing", "completed", "failed"},
                            answer : Answer]]
    /\ call \in [Calls -> Call]
    /\ applied \in [Calls -> 0..(1 + MaxUnknown)]
    /\ unknown \in [Calls -> 0..MaxUnknown]
    /\ errors \in 0..MaxErrors

Key(c) == call[c].request.key
Keyed(c) == Key(c) # NoKey
Ended(c) == call[c].step = "end"
Running == {c \in Calls : call[c].step \notin {"new", "end"}}

-----------------------------------------------------------------------------
(* Idempotency records. *)

Goto(c, step) == call' = [call EXCEPT ![c].step = step]
AnswerWith(c, answer) ==
    call' = [call EXCEPT ![c] = [@ EXCEPT !.step = "end", !.attempt = 0, !.retried = FALSE,
                                          !.result = NoAnswer, !.answer = answer]]

\* Fault: a record that is still processing is taken for a new one.
BeginAnyway(c, q) ==
    /\ call[c].step = "new"
    /\ call' = [call EXCEPT ![c].request = q, ![c].step =
                    IF q.key # NoKey /\ record[q.key].status \in {"completed", "failed"}
                    THEN "wait" ELSE "check"]
    /\ record' = IF q.key # NoKey /\ record[q.key].status = "none"
                 THEN [record EXCEPT ![q.key].status = "processing"] ELSE record
    /\ UNCHANGED <<open, bid, applied, unknown, errors>>

\* A call begins.  The unique index lets one call create the record of a key.
Begin(c, q) ==
    /\ call[c].step = "new"
    /\ call' = [call EXCEPT ![c].request = q, ![c].step =
                    IF q.key # NoKey /\ record[q.key].status # "none" THEN "wait" ELSE "check"]
    /\ record' = IF q.key # NoKey /\ record[q.key].status = "none"
                 THEN [record EXCEPT ![q.key].status = "processing"] ELSE record
    /\ UNCHANGED <<open, bid, applied, unknown, errors>>

\* The record exists: return or throw what it says, once it says something.
Replay(c) ==
    /\ call[c].step = "wait"
    /\ record[Key(c)].status \in {"completed", "failed"}
    /\ AnswerWith(c, record[Key(c)].answer)
    /\ UNCHANGED <<open, bid, record, applied, unknown, errors>>

\* Two seconds pass and the record is still processing.
StopWaiting(c) ==
    /\ call[c].step = "wait"
    /\ record[Key(c)].status = "processing"
    /\ AnswerWith(c, Failure("in progress"))
    /\ UNCHANGED <<open, bid, record, applied, unknown, errors>>

\* The result of call c, to be saved in the record of its key and answered.
Finish(c, result) ==
    IF Keyed(c)
    THEN call' = [call EXCEPT ![c] = [@ EXCEPT !.step = "save", !.attempt = 0,
                                               !.retried = FALSE, !.result = result]]
    ELSE AnswerWith(c, result)

StatusOf(result) == IF result.kind = "done" THEN "completed" ELSE "failed"

\* A completed record is written twice, a failed one once.
Save(c) ==
    /\ call[c].step \in {"save", "save again"}
    /\ record' = [record EXCEPT ![Key(c)] = [status |-> StatusOf(call[c].result),
                                             answer |-> call[c].result]]
    /\ IF call[c].step = "save" /\ call[c].result.kind = "done"
       THEN Goto(c, "save again")
       ELSE AnswerWith(c, call[c].result)
    /\ UNCHANGED <<open, bid, applied, unknown, errors>>

\* The write fails.  If it was that of a completed record, the error is caught and saved
\* as the result; if it was that of a failed one, the call throws.
SaveFails(c) ==
    /\ call[c].step \in {"save", "save again"}
    /\ errors < MaxErrors
    /\ errors' = errors + 1
    /\ IF call[c].result.kind = "done"
       THEN call' = [call EXCEPT ![c].step = "save", ![c].result = Failure("error")]
       ELSE AnswerWith(c, Failure("error"))
    /\ UNCHANGED <<open, bid, record, applied, unknown>>

-----------------------------------------------------------------------------
(* The check and the transaction. *)

\* mode 'new' is for a user without an active bid, mode 'raise' for one with an active bid.
Allowed(c) == call[c].request.mode = "new" <=> bid = 0

\* The check before the transaction reads the bid outside it.  It may miss the end of the
\* auction, which it learns from a cached round.
Check(c) ==
    /\ call[c].step = "check"
    /\ \/ /\ Allowed(c)
          /\ call' = [call EXCEPT ![c].step = "run", ![c].attempt = 1]
       \/ /\ ~Allowed(c) \/ ~open
          /\ Finish(c, Failure("refused"))
    /\ UNCHANGED <<open, bid, record, applied, unknown, errors>>

\* The transaction applies: it places the bid or adds to it, whatever the mode, but a
\* raise needs a bid.
Applies(c) ==
    /\ call[c].step = "run"
    /\ open
    /\ call[c].request.mode = "raise" => bid > 0
    /\ bid' = bid + call[c].request.amount
    /\ applied' = [applied EXCEPT ![c] = @ + 1]

\* Fault: after the last attempt the count starts over.
AgainForever(c) ==
    call' = [call EXCEPT ![c].attempt = IF @ < MaxAttempts THEN @ + 1 ELSE 1]

\* Try the transaction again, or answer 409 after the last attempt.
Again(c) ==
    IF call[c].attempt < MaxAttempts
    THEN call' = [call EXCEPT ![c].attempt = @ + 1]
    ELSE Finish(c, Failure("conflict"))

Commit(c) ==
    /\ Applies(c)
    /\ Finish(c, Done(bid + call[c].request.amount))
    /\ UNCHANGED <<open, record, unknown, errors>>

\* The commit takes effect, but the driver reports an unknown result, which is retried
\* like a conflict.
CommitUnknown(c) ==
    /\ Applies(c)
    /\ unknown[c] < MaxUnknown
    /\ unknown' = [unknown EXCEPT ![c] = @ + 1]
    /\ Again(c)
    /\ UNCHANGED <<open, record, errors>>

\* Another transaction touches the auction document: a write conflict.
Conflict(c) ==
    /\ call[c].step = "run"
    /\ Again(c)
    /\ UNCHANGED <<open, bid, record, applied, unknown, errors>>

\* Fault: the transaction is not aborted when it throws.
RefuseUnaborted(c) ==
    /\ Applies(c)
    /\ Finish(c, Failure("refused"))
    /\ UNCHANGED <<open, record, unknown, errors>>

\* The transaction throws a domain error: the amount is too low for the other users' bids
\* or for the balance, or there is no bid to raise.
Refuse(c) ==
    /\ call[c].step = "run"
    /\ Finish(c, Failure("refused"))
    /\ UNCHANGED <<open, bid, record, applied, unknown, errors>>

\* The transaction throws RoundEndedError: the auction has ended, or another bid has
\* written the same millisecond into the auction document.  A new bid is tried once more,
\* after waiting for the next round; a raise is not.
RoundEnds(c) ==
    /\ call[c].step = "run"
    /\ IF call[c].request.mode = "new" /\ ~call[c].retried
       THEN call' = [call EXCEPT ![c].attempt = 1, ![c].retried = TRUE]
       ELSE Finish(c, Failure("refused"))
    /\ UNCHANGED <<open, bid, record, applied, unknown, errors>>

-----------------------------------------------------------------------------
(* The environment. *)

\* The process that runs the call stops.
Die(c) ==
    /\ c \in Running
    /\ AnswerWith(c, Failure("dead"))
    /\ UNCHANGED <<open, bid, record, applied, unknown, errors>>

\* The bid is displaced, or a round awards or refunds it.
BidSettles ==
    /\ bid > 0
    /\ bid' = 0
    /\ UNCHANGED <<open, record, call, applied, unknown, errors>>

AuctionEnds ==
    /\ open
    /\ open' = FALSE
    /\ bid' = 0
    /\ UNCHANGED <<record, call, applied, unknown, errors>>

-----------------------------------------------------------------------------

Init ==
    /\ open = TRUE
    /\ bid = 0
    /\ record = [k \in Keys |-> [status |-> "none", answer |-> NoAnswer]]
    /\ call = [c \in Calls |->
            [step |-> "new", request |-> CHOOSE q \in Requests : TRUE, attempt |-> 0,
             retried |-> FALSE, result |-> NoAnswer, answer |-> NoAnswer]]
    /\ applied = [c \in Calls |-> 0]
    /\ unknown = [c \in Calls |-> 0]
    /\ errors = 0

Transaction(c) == Commit(c) \/ CommitUnknown(c) \/ Conflict(c) \/ Refuse(c) \/ RoundEnds(c)
Step(c) == Replay(c) \/ StopWaiting(c) \/ Check(c) \/ Transaction(c) \/ Save(c) \/ SaveFails(c)

Next ==
    \/ \E c \in Calls :
        \/ \E q \in Requests : Begin(c, q)
        \/ Step(c)
        \/ Die(c)
    \/ BidSettles
    \/ AuctionEnds

Spec == Init /\ [][Next]_vars

\* A process that runs goes on with each of its calls.  Nobody has to call, and nothing
\* has to fail.
FairSpec == Spec /\ \A c \in Calls : WF_vars(Step(c))

-----------------------------------------------------------------------------
(* Properties *)

Same(c) == {d \in Calls : IF Keyed(c) THEN call[d].step # "new" /\ Key(d) = Key(c) ELSE d = c}

\* The calls of one request together take effect at most once, and once more only for
\* every commit reported as unknown: whatever is repeated, concurrent, interrupted, or
\* saved with an error.
TakesEffectOnce ==
    \A c \in Calls : \A d, e \in Same(c) :
        /\ applied[d] <= 1 + unknown[d]
        /\ d # e => applied[d] = 0 \/ applied[e] = 0

\* An answer is true of the bid: "done" if some call of the request took effect, "refused"
\* or "conflict" only if none did that was not reported as unknown.
AnswersTrue ==
    \A c \in Calls :
        /\ call[c].answer.kind = "done" => \E d \in Same(c) : applied[d] > unknown[d]
        /\ call[c].answer.kind \in {"refused", "conflict"} =>
               \A d \in Same(c) : applied[d] = unknown[d]

Answered(c) == call[c].answer.kind \notin {"none", "in progress", "dead"}

\* Calls with one key that get a result get the same one, unless saving it failed.
SameAnswers ==
    errors = 0 => \A c, d \in Calls :
        Keyed(c) /\ d \in Same(c) /\ Answered(c) /\ Answered(d) => call[c].answer = call[d].answer

\* Every call is answered, unless its process stops: no wait and no retry is endless.
EveryCallEnds == \A c \in Calls : c \in Running ~> Ended(c)

\* A request with mode 'new' never adds to an active bid (bids.service.ts: "mode='new':
\* create active bid (forbidden if active exists)").
NewNeverRaises ==
    [][\A c \in Calls : applied'[c] > applied[c] /\ call[c].request.mode = "new" => bid = 0]_vars

\* The transaction of one call takes effect once, however often it is retried
\* (bids.service.ts: "retries of the same raise do not double-lock").
NoDoubleLock == \A c \in Calls : applied[c] <= 1

=============================================================================
