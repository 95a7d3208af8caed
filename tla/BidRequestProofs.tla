-------------------------- MODULE BidRequestProofs --------------------------
(***************************************************************************)
(* Theorems about BidRequest: what repeated, concurrent and interrupted    *)
(* calls of one request do to the user's bid, and what they answer.        *)
(***************************************************************************)
EXTENDS BidRequest, TLAPS

-----------------------------------------------------------------------------
(* The inductive invariant.  The call that created a record owns it until it ends:     *)
(* only the owner's transaction can take effect, and only the owner writes the record. *)

Started(c) == call[c].step # "new"
Owns(c) == call[c].step \in {"check", "run", "save", "save again"}
Took(c) == applied[c] > unknown[c]

\* How often a call took effect, by the step it is in.
Effects ==
    \A c \in Calls :
        /\ applied[c] = unknown[c] \/ applied[c] = unknown[c] + 1
        /\ call[c].step \in {"new", "wait", "check"} => applied[c] = 0
        /\ call[c].step = "run" => applied[c] = unknown[c]

\* What a call is about to save is true of its own transaction.
Results ==
    \A c \in Calls : call[c].step \in {"save", "save again"} =>
        /\ Keyed(c)
        /\ call[c].result.kind \in {"done", "refused", "conflict", "error"}
        /\ call[c].result.kind = "done" => Took(c)
        /\ call[c].result.kind \in {"refused", "conflict"} => ~Took(c)
        /\ call[c].step = "save again" => call[c].result.kind = "done"
        /\ call[c].result.kind = "error" => errors > 0

\* What the record says while it has an owner.
Owners ==
    \A c \in Calls : Keyed(c) =>
        /\ Started(c) => record[Key(c)].status # "none"
        /\ Owns(c) => record[Key(c)].status \in {"processing", "completed"}
        /\ call[c].step \in {"check", "run"} => record[Key(c)].status = "processing"
        /\ call[c].step = "save" /\ call[c].result.kind # "error"
              => record[Key(c)].status = "processing"
        /\ call[c].step = "save again"
              => record[Key(c)] = [status |-> "completed", answer |-> call[c].result]

Waiters == \A c \in Calls : call[c].step = "wait" => Keyed(c)

\* Of the calls with one key, one owns the record, and none but the owner has taken effect.
OneOwner ==
    \A c, d \in Calls :
        c # d /\ Keyed(c) /\ Key(c) = Key(d) /\ Started(c) /\ Started(d) =>
            /\ ~(Owns(c) /\ Owns(d))
            /\ Owns(c) => applied[d] = 0
            /\ applied[c] = 0 \/ applied[d] = 0

\* A record that is no longer processing is true of the calls of its key.
Records ==
    \A k \in Keys :
        /\ record[k].status = "completed" =>
              /\ record[k].answer.kind = "done"
              /\ \E d \in Calls : Started(d) /\ Key(d) = k /\ Took(d)
        /\ record[k].status = "failed" =>
              /\ record[k].answer.kind \in {"refused", "conflict", "error"}
              /\ record[k].answer.kind = "error" => errors > 0
              /\ record[k].answer.kind # "error" =>
                    \A d \in Calls : Started(d) /\ Key(d) = k => ~Took(d)

\* An answer is what the record says: for good if the request was refused, and as long as
\* no write of a record failed.
Replies ==
    \A c \in Calls :
        /\ ~Ended(c) => call[c].answer.kind = "none"
        /\ call[c].answer.kind = "error" => errors > 0
        /\ Keyed(c) /\ call[c].answer.kind \in {"refused", "conflict"} =>
              record[Key(c)].status = "failed"
        /\ errors = 0 /\ Keyed(c) /\ Answered(c) =>
              /\ record[Key(c)].status \in {"completed", "failed"}
              /\ call[c].answer = record[Key(c)].answer

\* An answer is true of the calls of its request.
Truths ==
    \A c \in Calls :
        /\ call[c].answer.kind = "done" => \E d \in Same(c) : Took(d)
        /\ call[c].answer.kind \in {"refused", "conflict"} => \A d \in Same(c) : ~Took(d)

IInv == /\ TypeOK /\ Effects /\ Results /\ Owners /\ Waiters
        /\ OneOwner /\ Records /\ Replies /\ Truths

-----------------------------------------------------------------------------
(* What the actions write into the calls. *)

\* Only call c changes, and it stays the same request.
Only(c) ==
    /\ call' \in [Calls -> Call]
    /\ call'[c].request = call[c].request
    /\ \A d \in Calls \ {c} : call'[d] = call[d]

LEMMA Attempts == MaxAttempts \in Nat \ {0}
  BY RequestAssumption, Zenon

\* 0 and 1 are numbers of attempts, and so is the next one as long as it is allowed.
LEMMA AttemptNumbers ==
  /\ \E n \in 0..MaxAttempts : n = 0
  /\ \E n \in 0..MaxAttempts : n = 1
  /\ \A m \in 0..MaxAttempts : m < MaxAttempts => \E n \in 0..MaxAttempts : n = m + 1
  BY Attempts

LEMMA RequestType == \A q \in Requests : q.amount \in Nat /\ q.key \in Keys \union {NoKey}
  BY RequestAssumption

LEMMA CallWrites ==
  ASSUME TypeOK, NEW c \in Calls, NEW x \in Call, x.request = call[c].request,
         call' = [call EXCEPT ![c] = x]
  PROVE  Only(c) /\ call'[c] = x
  BY DEF TypeOK, Only

LEMMA AnswerWithWrites ==
  ASSUME TypeOK, NEW c \in Calls, NEW a \in Answer, AnswerWith(c, a)
  PROVE  Only(c) /\ call'[c].step = "end" /\ call'[c].answer = a
  <1>0. PICK n \in 0..MaxAttempts : n = 0
    BY AttemptNumbers
  <1> DEFINE x == [call[c] EXCEPT !.step = "end", !.attempt = n, !.retried = FALSE,
                                  !.result = NoAnswer, !.answer = a]
  <1>1. call[c] \in Call /\ call' = [call EXCEPT ![c] = x] /\ NoAnswer \in Answer
    BY <1>0 DEF TypeOK, AnswerWith, NoAnswer, Answer
  <1>2. /\ x \in Call /\ x.request = call[c].request
        /\ x.step = "end" /\ x.answer = a
    BY <1>1 DEF Call
  <1> HIDE DEF x
  <1>3. QED
    BY <1>1, <1>2, CallWrites

\* A call with a key goes on to save its result; one without a key is answered.
LEMMA FinishWrites ==
  ASSUME TypeOK, NEW c \in Calls, NEW a \in Answer, Finish(c, a)
  PROVE  /\ Only(c)
         /\ Keyed(c) => /\ call'[c].step = "save" /\ call'[c].result = a
                        /\ call'[c].answer = call[c].answer
         /\ ~Keyed(c) => call'[c].step = "end" /\ call'[c].answer = a
  <1>1. CASE Keyed(c)
    <2>0. PICK n \in 0..MaxAttempts : n = 0
      BY AttemptNumbers
    <2> DEFINE x == [call[c] EXCEPT !.step = "save", !.attempt = n, !.retried = FALSE,
                                    !.result = a]
    <2>1. call[c] \in Call /\ call' = [call EXCEPT ![c] = x]
      BY <1>1, <2>0 DEF TypeOK, Finish
    <2>2. /\ x \in Call /\ x.request = call[c].request
          /\ x.step = "save" /\ x.result = a /\ x.answer = call[c].answer
      BY <2>1 DEF Call
    <2> HIDE DEF x
    <2>3. QED
      BY <1>1, <2>1, <2>2, CallWrites
  <1>2. CASE ~Keyed(c)
    BY <1>2, AnswerWithWrites DEF Finish
  <1>3. QED
    BY <1>1, <1>2

\* A transaction is tried again, or given up with a conflict.
LEMMA AgainWrites ==
  ASSUME TypeOK, NEW c \in Calls, call[c].step = "run", Again(c)
  PROVE  \/ Finish(c, Failure("conflict"))
         \/ /\ Only(c) /\ call'[c].step = "run" /\ call'[c].answer = call[c].answer
  <1>1. CASE call[c].attempt < MaxAttempts
    <2>0. PICK n \in 0..MaxAttempts : n = call[c].attempt + 1
      BY <1>1, AttemptNumbers DEF TypeOK, Call
    <2> DEFINE x == [call[c] EXCEPT !.attempt = n]
    <2>1. call[c] \in Call /\ call' = [call EXCEPT ![c] = x]
      BY <1>1, <2>0 DEF TypeOK, Again
    <2>2. /\ x \in Call /\ x.request = call[c].request
          /\ x.step = "run" /\ x.answer = call[c].answer
      BY <2>1 DEF Call
    <2> HIDE DEF x
    <2>3. QED
      BY <2>1, <2>2, CallWrites
  <1>2. CASE ~(call[c].attempt < MaxAttempts)
    BY <1>2 DEF Again
  <1>3. QED
    BY <1>1, <1>2

-----------------------------------------------------------------------------
(* The kinds of steps. *)

\* A call runs its transaction, the first time or again; each time it takes effect the
\* commit is reported as unknown.
Runs(c) ==
    /\ call[c].step \in {"check", "run"}
    /\ Only(c) /\ call'[c].step = "run" /\ call'[c].answer = call[c].answer
    /\ \/ UNCHANGED <<applied, unknown>>
       \/ call[c].step = "run" /\ unknown[c] < MaxUnknown
                               /\ applied' = [applied EXCEPT ![c] = @ + 1]
                               /\ unknown' = [unknown EXCEPT ![c] = @ + 1]
    /\ UNCHANGED <<record, errors>>

\* A call has a result.
Concludes(c, a) ==
    /\ call[c].step \in {"check", "run"}
    /\ a \in Answer /\ Finish(c, a)
    /\ \/ a.kind = "done" /\ call[c].step = "run"
                          /\ applied' = [applied EXCEPT ![c] = @ + 1] /\ UNCHANGED unknown
       \/ a.kind \in {"refused", "conflict"} /\ UNCHANGED <<applied, unknown>>
       \/ a.kind = "conflict" /\ call[c].step = "run" /\ unknown[c] < MaxUnknown
                              /\ applied' = [applied EXCEPT ![c] = @ + 1]
                              /\ unknown' = [unknown EXCEPT ![c] = @ + 1]
    /\ UNCHANGED <<record, errors>>

\* A call ends without an effect and without a result.
Quits(c, a) ==
    /\ call[c].step # "new"
    /\ a \in Answer /\ AnswerWith(c, a)
    /\ \/ a.kind \in {"in progress", "dead"} /\ errors' = errors
       \/ a.kind = "error" /\ errors < MaxErrors /\ errors' = errors + 1
    /\ UNCHANGED <<record, applied, unknown>>

\* The bid or the auction changes.
Around == UNCHANGED <<record, call, applied, unknown, errors>>

LEMMA FailureType ==
  ASSUME NEW k \in {"refused", "conflict", "error", "in progress", "dead"}
  PROVE  Failure(k) \in Answer /\ Failure(k).kind = k
  BY DEF Failure, Answer

LEMMA StepKinds ==
  ASSUME TypeOK, [Next]_vars
  PROVE  \/ \E c \in Calls, q \in Requests : Begin(c, q)
         \/ \E c \in Calls : \/ Replay(c) \/ Save(c)
                             \/ SaveFails(c) /\ call[c].result.kind = "done"
                             \/ Runs(c)
                             \/ \E a : Concludes(c, a)
                             \/ \E a : Quits(c, a)
         \/ Around
  <1>1. ASSUME NEW c \in Calls, StopWaiting(c) \/ Die(c) PROVE \E a : Quits(c, a)
    <2>1. CASE StopWaiting(c)
      <3>1. Quits(c, Failure("in progress"))
        BY <2>1, FailureType DEF StopWaiting, Quits
      <3>2. QED
        BY <3>1
    <2>2. CASE Die(c)
      <3>1. Quits(c, Failure("dead"))
        BY <2>2, FailureType DEF Die, Quits, Running
      <3>2. QED
        BY <3>1
    <2>3. QED
      BY <1>1, <2>1, <2>2
  <1>2. ASSUME NEW c \in Calls, SaveFails(c), call[c].result.kind # "done"
        PROVE  \E a : Quits(c, a)
    <2>1. Quits(c, Failure("error"))
      BY <1>2, FailureType DEF SaveFails, Quits
    <2>2. QED
      BY <2>1
  <1>3. ASSUME NEW c \in Calls, Check(c) PROVE Runs(c) \/ \E a : Concludes(c, a)
    <2>1. CASE call' = [call EXCEPT ![c].step = "run", ![c].attempt = 1]
      <3>0. PICK n \in 0..MaxAttempts : n = 1
        BY AttemptNumbers
      <3> DEFINE x == [call[c] EXCEPT !.step = "run", !.attempt = n]
      <3>1. call[c] \in Call /\ call' = [call EXCEPT ![c] = x]
        BY <2>1, <3>0 DEF TypeOK
      <3>2. /\ x \in Call /\ x.request = call[c].request
            /\ x.step = "run" /\ x.answer = call[c].answer
        BY <3>1 DEF Call
      <3>3. call[c].step = "check" /\ UNCHANGED <<record, errors, applied, unknown>>
        BY <1>3 DEF Check
      <3> HIDE DEF x
      <3>4. QED
        BY <3>1, <3>2, <3>3, CallWrites DEF Runs
    <2>2. CASE Finish(c, Failure("refused"))
      <3>1. Concludes(c, Failure("refused"))
        BY <1>3, <2>2, FailureType DEF Check, Concludes
      <3>2. QED
        BY <3>1
    <2>3. QED
      BY <1>3, <2>1, <2>2 DEF Check
  <1>4. ASSUME NEW c \in Calls, Commit(c) PROVE \E a : Concludes(c, a)
    <2>1. Done(bid + call[c].request.amount) \in Answer
      <3>1. bid \in Nat /\ call[c].request.amount \in Nat
        BY RequestType DEF TypeOK, Call
      <3>2. QED
        BY <3>1 DEF Done, Answer
    <2>2. Concludes(c, Done(bid + call[c].request.amount))
      BY <1>4, <2>1 DEF Commit, Applies, Concludes, Done
    <2>3. QED
      BY <2>2
  <1>5. ASSUME NEW c \in Calls, CommitUnknown(c) \/ Conflict(c)
        PROVE  Runs(c) \/ \E a : Concludes(c, a)
    <2>1. /\ call[c].step = "run" /\ Again(c) /\ UNCHANGED <<record, errors>>
          /\ \/ UNCHANGED <<applied, unknown>>
             \/ /\ unknown[c] < MaxUnknown
                /\ applied' = [applied EXCEPT ![c] = @ + 1]
                /\ unknown' = [unknown EXCEPT ![c] = @ + 1]
      BY <1>5 DEF CommitUnknown, Conflict, Applies
    <2>2. CASE Finish(c, Failure("conflict"))
      <3>1. Concludes(c, Failure("conflict"))
        BY <2>1, <2>2, FailureType DEF Concludes
      <3>2. QED
        BY <3>1
    <2>3. CASE Only(c) /\ call'[c].step = "run" /\ call'[c].answer = call[c].answer
      BY <2>1, <2>3 DEF Runs
    <2>4. QED
      BY <2>1, <2>2, <2>3, AgainWrites
  <1>6. ASSUME NEW c \in Calls, Refuse(c) PROVE \E a : Concludes(c, a)
    <2>1. Concludes(c, Failure("refused"))
      BY <1>6, FailureType DEF Refuse, Concludes
    <2>2. QED
      BY <2>1
  <1>7. ASSUME NEW c \in Calls, RoundEnds(c) PROVE Runs(c) \/ \E a : Concludes(c, a)
    <2>1. call[c].step = "run" /\ UNCHANGED <<record, errors, applied, unknown>>
      BY <1>7 DEF RoundEnds
    <2>2. CASE call' = [call EXCEPT ![c].attempt = 1, ![c].retried = TRUE]
      <3>0. PICK n \in 0..MaxAttempts : n = 1
        BY AttemptNumbers
      <3> DEFINE x == [call[c] EXCEPT !.attempt = n, !.retried = TRUE]
      <3>1. call[c] \in Call /\ call' = [call EXCEPT ![c] = x]
        BY <2>2, <3>0 DEF TypeOK
      <3>2. /\ x \in Call /\ x.request = call[c].request
            /\ x.step = "run" /\ x.answer = call[c].answer
        BY <2>1, <3>1 DEF Call
      <3> HIDE DEF x
      <3>3. QED
        BY <2>1, <3>1, <3>2, CallWrites DEF Runs
    <2>3. CASE Finish(c, Failure("refused"))
      <3>1. Concludes(c, Failure("refused"))
        BY <2>1, <2>3, FailureType DEF Concludes
      <3>2. QED
        BY <3>1
    <2>4. QED
      BY <1>7, <2>2, <2>3 DEF RoundEnds
  <1>8. CASE UNCHANGED vars \/ BidSettles \/ AuctionEnds
    BY <1>8 DEF vars, BidSettles, AuctionEnds, Around
  <1>9. QED
    BY <1>1, <1>2, <1>3, <1>4, <1>5, <1>6, <1>7, <1>8, Zenon DEF Next, Step, Transaction

-----------------------------------------------------------------------------
(* Every kind of step keeps the invariant. *)

LEMMA OnlyKeeps ==
  ASSUME NEW c \in Calls, Only(c)
  PROVE  \A d \in Calls : Key(d)' = Key(d) /\ (Keyed(d)' <=> Keyed(d))
  BY DEF Only, Key, Keyed

LEMMA KeyType ==
  ASSUME TypeOK, NEW c \in Calls, Keyed(c)
  PROVE  Key(c) \in Keys
  BY RequestType DEF TypeOK, Call, Key, Keyed

\* The counts are numbers.
LEMMA CountType ==
  ASSUME TypeOK
  PROVE  /\ \A c \in Calls : applied[c] \in Nat /\ unknown[c] \in Nat
         /\ MaxUnknown \in Nat /\ errors \in Nat
  <1>1. MaxUnknown \in Nat /\ MaxErrors \in Nat
    BY RequestAssumption, Zenon
  <1>2. QED
    BY <1>1 DEF TypeOK

LEMMA RunsKeeps ==
  ASSUME IInv, NEW c \in Calls, Runs(c), bid' \in Nat, open' \in BOOLEAN
  PROVE  IInv'
  <1>1. /\ TypeOK /\ Effects /\ Results /\ Owners /\ Waiters
        /\ OneOwner /\ Records /\ Replies /\ Truths
    BY DEF IInv
  <1>2. /\ Only(c) /\ call[c].step \in {"check", "run"}
        /\ call'[c].step = "run" /\ call'[c].answer = call[c].answer
        /\ UNCHANGED <<record, errors>>
    BY DEF Runs
  <1>3. /\ \A d \in Calls \ {c} : call'[d] = call[d]
        /\ \A d \in Calls : Key(d)' = Key(d) /\ (Keyed(d)' <=> Keyed(d))
    BY <1>2, OnlyKeeps DEF Only
  <1>4. /\ \A d \in Calls : applied[d] \in Nat /\ unknown[d] \in Nat
        /\ MaxUnknown \in Nat
    BY <1>1, CountType
  <1>5. applied[c] = unknown[c]
    BY <1>1, <1>2, <1>4 DEF Effects
  <1>6. /\ applied' \in [Calls -> 0..(1 + MaxUnknown)] /\ unknown' \in [Calls -> 0..MaxUnknown]
        /\ \A d \in Calls \ {c} : applied'[d] = applied[d] /\ unknown'[d] = unknown[d]
        /\ applied'[c] = unknown'[c]
        /\ applied'[c] = applied[c] \/ call[c].step = "run"
    BY <1>1, <1>4, <1>5 DEF Runs, TypeOK
  <1>7. TypeOK'
    BY <1>1, <1>2, <1>6 DEF TypeOK, Only
  <1>8. Effects'
    BY <1>1, <1>2, <1>3, <1>6 DEF Effects
  <1>9. \A d \in Calls : Took(d)' <=> Took(d)
    BY <1>4, <1>5, <1>6 DEF Took
  <1>10. ASSUME NEW d \in Calls
         PROVE  /\ Started(d)' <=> Started(d)
                /\ Owns(d)' <=> Owns(d)
                /\ Ended(d)' <=> Ended(d)
                /\ call'[d].answer = call[d].answer
    <2>1. CASE d = c
      BY <1>2, <2>1 DEF Started, Owns, Ended
    <2>2. CASE d # c
      BY <1>3, <2>2 DEF Started, Owns, Ended
    <2>3. QED
      BY <2>1, <2>2
  <1>11. Results'
    BY <1>1, <1>2, <1>3, <1>9 DEF Results
  <1>12. Owners'
    BY <1>1, <1>2, <1>3, <1>10 DEF Owners
  <1>13. Waiters'
    BY <1>1, <1>2, <1>3 DEF Waiters
  <1>14. OneOwner'
    <2>1. ASSUME NEW d \in Calls, NEW e \in Calls, d # e, Keyed(d), Key(d) = Key(e),
                 Started(d), Started(e)
          PROVE  /\ ~(Owns(d) /\ Owns(e))
                 /\ Owns(d) => applied'[e] = 0
                 /\ applied'[d] = 0 \/ applied'[e] = 0
      <3>1. /\ ~(Owns(d) /\ Owns(e))
            /\ Owns(d) => applied[e] = 0
            /\ applied[d] = 0 \/ applied[e] = 0
        BY <1>1, <2>1 DEF OneOwner
      <3>2. Keyed(e) /\ Key(e) = Key(d) /\ Owns(e) => applied[d] = 0
        BY <1>1, <2>1 DEF OneOwner
      <3>3. Keyed(e)
        BY <2>1 DEF Keyed
      <3>4. applied'[c] # applied[c] => Owns(c)
        BY <1>6 DEF Owns
      <3>5. QED
        BY <1>6, <2>1, <3>1, <3>2, <3>3, <3>4
    <2>2. QED
      BY <1>3, <1>10, <2>1 DEF OneOwner
  <1>15. Records'
    BY <1>1, <1>2, <1>3, <1>9, <1>10 DEF Records
  <1>16. Replies'
    BY <1>1, <1>2, <1>3, <1>10 DEF Replies, Answered
  <1>17. \A d \in Calls : Same(d)' = Same(d)
    BY <1>3, <1>10 DEF Same, Started
  <1>18. Truths'
    <2>1. \A d \in Calls : Same(d) \in SUBSET Calls
      BY DEF Same
    <2>2. QED
      BY <1>1, <1>9, <1>10, <1>17, <2>1 DEF Truths
  <1>19. QED
    BY <1>7, <1>8, <1>11, <1>12, <1>13, <1>14, <1>15, <1>16, <1>18 DEF IInv

LEMMA QuitsKeeps ==
  ASSUME IInv, NEW c \in Calls, NEW a, Quits(c, a), bid' \in Nat, open' \in BOOLEAN
  PROVE  IInv'
  <1>1. /\ TypeOK /\ Effects /\ Results /\ Owners /\ Waiters
        /\ OneOwner /\ Records /\ Replies /\ Truths
    BY DEF IInv
  <1>2. /\ Only(c) /\ call[c].step # "new"
        /\ call'[c].step = "end" /\ call'[c].answer = a
        /\ UNCHANGED <<record, applied, unknown>>
    BY <1>1, AnswerWithWrites DEF Quits
  <1>3. /\ \A d \in Calls \ {c} : call'[d] = call[d]
        /\ \A d \in Calls : Key(d)' = Key(d) /\ (Keyed(d)' <=> Keyed(d))
    BY <1>2, OnlyKeeps DEF Only
  <1>4. /\ a.kind \in {"in progress", "dead", "error"}
        /\ errors' \in 0..MaxErrors
        /\ errors' = 0 => errors = 0 /\ a.kind # "error"
        /\ errors > 0 => errors' > 0
        /\ a.kind = "error" => errors' > 0
    <2>1. MaxErrors \in Nat /\ errors \in 0..MaxErrors
      BY <1>1, RequestAssumption, Zenon DEF TypeOK
    <2>2. CASE a.kind \in {"in progress", "dead"} /\ errors' = errors
      <3>1. a.kind # "error" /\ a.kind \in {"in progress", "dead", "error"}
        BY <2>2
      <3>2. QED
        BY <2>1, <2>2, <3>1, Zenon
    <2>3. CASE a.kind = "error" /\ errors < MaxErrors /\ errors' = errors + 1
      <3>1. errors' \in 0..MaxErrors /\ errors' > 0 /\ errors' # 0
        BY <2>1, <2>3
      <3>2. QED
        BY <2>3, <3>1, Zenon
    <2>4. QED
      BY <2>2, <2>3 DEF Quits
  <1>5. TypeOK'
    BY <1>1, <1>2, <1>4 DEF TypeOK, Only
  <1>6. Effects'
    BY <1>1, <1>2, <1>3 DEF Effects
  <1>7. \A d \in Calls : Took(d)' <=> Took(d)
    BY <1>2 DEF Took
  <1>8. ASSUME NEW d \in Calls
        PROVE  /\ Started(d)' <=> Started(d)
               /\ Owns(d)' => Owns(d)
               /\ call'[d].step \in {"wait", "check", "run", "save", "save again"} => call'[d] = call[d]
               /\ call'[d].answer = call[d].answer \/ d = c
               /\ ~Ended(d)' => ~Ended(d)
    <2>1. CASE d = c
      BY <1>2, <2>1 DEF Started, Owns, Ended
    <2>2. CASE d # c
      BY <1>3, <2>2 DEF Started, Owns, Ended
    <2>3. QED
      BY <2>1, <2>2
  <1>9. Results'
    BY <1>1, <1>2, <1>3, <1>4, <1>7, <1>8 DEF Results
  <1>10. Owners'
    BY <1>1, <1>2, <1>3, <1>8 DEF Owners
  <1>11. Waiters'
    BY <1>1, <1>2, <1>3 DEF Waiters
  <1>12. OneOwner'
    <2>1. ASSUME NEW d \in Calls, NEW e \in Calls, d # e, Keyed(d)', Key(d)' = Key(e)',
                 Started(d)', Started(e)'
          PROVE  /\ ~(Owns(d)' /\ Owns(e)')
                 /\ Owns(d)' => applied'[e] = 0
                 /\ applied'[d] = 0 \/ applied'[e] = 0
      <3>1. Keyed(d) /\ Key(d) = Key(e) /\ Started(d) /\ Started(e)
        BY <1>3, <1>8, <2>1
      <3>2. /\ ~(Owns(d) /\ Owns(e))
            /\ Owns(d) => applied[e] = 0
            /\ applied[d] = 0 \/ applied[e] = 0
        BY <1>1, <2>1, <3>1 DEF OneOwner
      <3>3. QED
        BY <1>2, <1>8, <3>2
    <2>2. QED
      BY <2>1 DEF OneOwner
  <1>13. Records'
    BY <1>1, <1>2, <1>3, <1>4, <1>7, <1>8 DEF Records
  <1>14. Replies'
    <2>1. ASSUME NEW d \in Calls
          PROVE  /\ ~Ended(d)' => call'[d].answer.kind = "none"
                 /\ call'[d].answer.kind = "error" => errors' > 0
                 /\ Keyed(d) /\ call'[d].answer.kind \in {"refused", "conflict"} =>
                       record[Key(d)].status = "failed"
                 /\ errors' = 0 /\ Keyed(d) /\ Answered(d)' =>
                       /\ record[Key(d)].status \in {"completed", "failed"}
                       /\ call'[d].answer = record[Key(d)].answer
      <3>1. CASE d = c
        BY <1>2, <1>4, <3>1 DEF Answered, Ended
      <3>2. CASE d # c
        <4>1. call'[d] = call[d]
          BY <1>3, <3>2
        <4>2. (Answered(d)' <=> Answered(d)) /\ (Ended(d)' <=> Ended(d))
          BY <4>1 DEF Answered, Ended
        <4>3. QED
          BY <1>1, <1>4, <4>1, <4>2 DEF Replies
      <3>3. QED
        BY <3>1, <3>2
    <2>2. QED
      BY <1>2, <1>3, <2>1 DEF Replies
  <1>15. \A d \in Calls : Same(d)' = Same(d) /\ Same(d) \in SUBSET Calls
    BY <1>3, <1>8 DEF Same, Started
  <1>16. Truths'
    BY <1>1, <1>2, <1>4, <1>7, <1>8, <1>15 DEF Truths
  <1>17. QED
    BY <1>5, <1>6, <1>9, <1>10, <1>11, <1>12, <1>13, <1>14, <1>16 DEF IInv

LEMMA AroundKeeps ==
  ASSUME IInv, Around, bid' \in Nat, open' \in BOOLEAN
  PROVE  IInv'
  <1>1. TypeOK'
    BY DEF IInv, TypeOK, Around
  <1>2. (Effects /\ Results /\ Owners /\ Waiters)'
    BY DEF IInv, Around, Effects, Results, Owners, Waiters, Took, Started, Owns, Key, Keyed
  <1>3. (OneOwner /\ Records)'
    BY DEF IInv, Around, OneOwner, Records, Took, Started, Owns, Key, Keyed
  <1>4. (Replies /\ Truths)'
    BY DEF IInv, Around, Replies, Truths, Answered, Same, Took, Key, Keyed, Ended
  <1>5. QED
    BY <1>1, <1>2, <1>3, <1>4 DEF IInv

\* A call answers what the record says.
LEMMA ReplayKeeps ==
  ASSUME IInv, NEW c \in Calls, Replay(c)
  PROVE  IInv'
  <1>1. /\ TypeOK /\ Effects /\ Results /\ Owners /\ Waiters
        /\ OneOwner /\ Records /\ Replies /\ Truths
    BY DEF IInv
  <1>2. /\ call[c].step = "wait" /\ Keyed(c) /\ Key(c) \in Keys
        /\ record[Key(c)].status \in {"completed", "failed"}
        /\ record[Key(c)].answer \in Answer
    BY <1>1, KeyType DEF Replay, Waiters, TypeOK
  <1>3. /\ Only(c) /\ call'[c].step = "end" /\ call'[c].answer = record[Key(c)].answer
        /\ UNCHANGED <<open, bid, record, applied, unknown, errors>>
    BY <1>1, <1>2, AnswerWithWrites DEF Replay
  <1>4. /\ \A d \in Calls \ {c} : call'[d] = call[d]
        /\ \A d \in Calls : Key(d)' = Key(d) /\ (Keyed(d)' <=> Keyed(d))
    BY <1>3, OnlyKeeps DEF Only
  <1>5. TypeOK'
    BY <1>1, <1>3 DEF TypeOK, Only
  <1>6. Effects'
    BY <1>1, <1>3, <1>4 DEF Effects
  <1>7. \A d \in Calls : Took(d)' <=> Took(d)
    BY <1>3 DEF Took
  <1>8. ASSUME NEW d \in Calls
        PROVE  /\ Started(d)' <=> Started(d)
               /\ Owns(d)' => Owns(d)
               /\ call'[d].step # "end" => call'[d] = call[d]
               /\ d # c => call'[d] = call[d]
    <2>1. CASE d = c
      BY <1>2, <1>3, <2>1 DEF Started, Owns
    <2>2. CASE d # c
      BY <1>4, <2>2 DEF Started, Owns
    <2>3. QED
      BY <2>1, <2>2
  <1>9. Results'
    BY <1>1, <1>3, <1>4, <1>7, <1>8 DEF Results
  <1>10. Owners'
    BY <1>1, <1>3, <1>4, <1>8 DEF Owners
  <1>11. Waiters'
    BY <1>1, <1>3, <1>4 DEF Waiters
  <1>12. OneOwner'
    <2>1. ASSUME NEW d \in Calls, NEW e \in Calls, d # e, Keyed(d)', Key(d)' = Key(e)',
                 Started(d)', Started(e)'
          PROVE  /\ ~(Owns(d)' /\ Owns(e)')
                 /\ Owns(d)' => applied'[e] = 0
                 /\ applied'[d] = 0 \/ applied'[e] = 0
      <3>1. Keyed(d) /\ Key(d) = Key(e) /\ Started(d) /\ Started(e)
        BY <1>4, <1>8, <2>1
      <3>2. /\ ~(Owns(d) /\ Owns(e))
            /\ Owns(d) => applied[e] = 0
            /\ applied[d] = 0 \/ applied[e] = 0
        BY <1>1, <2>1, <3>1 DEF OneOwner
      <3>3. QED
        BY <1>3, <1>8, <3>2
    <2>2. QED
      BY <2>1 DEF OneOwner
  <1>13. Records'
    BY <1>1, <1>3, <1>4, <1>7, <1>8 DEF Records
  <1>14. /\ record[Key(c)].answer.kind \in {"done", "refused", "conflict", "error"}
         /\ record[Key(c)].answer.kind = "error" => errors > 0
         /\ record[Key(c)].answer.kind \in {"refused", "conflict"} =>
               record[Key(c)].status = "failed"
    BY <1>1, <1>2 DEF Records
  <1>15. Replies'
    <2>1. ASSUME NEW d \in Calls
          PROVE  /\ ~Ended(d)' => call'[d].answer.kind = "none"
                 /\ call'[d].answer.kind = "error" => errors > 0
                 /\ Keyed(d) /\ call'[d].answer.kind \in {"refused", "conflict"} =>
                       record[Key(d)].status = "failed"
                 /\ errors = 0 /\ Keyed(d) /\ Answered(d)' =>
                       /\ record[Key(d)].status \in {"completed", "failed"}
                       /\ call'[d].answer = record[Key(d)].answer
      <3>1. CASE d = c
        BY <1>2, <1>3, <1>14, <3>1 DEF Ended
      <3>2. CASE d # c
        <4>1. (Answered(d)' <=> Answered(d)) /\ (Ended(d)' <=> Ended(d)) /\ call'[d] = call[d]
          BY <1>8, <3>2 DEF Answered, Ended
        <4>2. QED
          BY <1>1, <4>1 DEF Replies
      <3>3. QED
        BY <3>1, <3>2
    <2>2. QED
      BY <1>3, <1>4, <2>1 DEF Replies
  <1>16. \A d \in Calls : Same(d)' = Same(d) /\ Same(d) \in SUBSET Calls
    BY <1>4, <1>8 DEF Same, Started
  <1>17. Same(c) = {d \in Calls : Started(d) /\ Key(d) = Key(c)}
    BY <1>2 DEF Same, Started
  <1>18. /\ record[Key(c)].answer.kind = "done" => \E d \in Same(c) : Took(d)
         /\ record[Key(c)].answer.kind \in {"refused", "conflict"} => \A d \in Same(c) : ~Took(d)
    BY <1>1, <1>2, <1>17 DEF Records
  <1>19. Truths'
    <2>1. ASSUME NEW d \in Calls
          PROVE  /\ call'[d].answer.kind = "done" => \E e \in Same(d) : Took(e)
                 /\ call'[d].answer.kind \in {"refused", "conflict"} =>
                       \A e \in Same(d) : ~Took(e)
      <3>1. CASE d = c
        BY <1>3, <1>18, <3>1
      <3>2. CASE d # c
        BY <1>1, <1>8, <3>2 DEF Truths
      <3>3. QED
        BY <3>1, <3>2
    <2>2. QED
      BY <1>7, <1>16, <2>1 DEF Truths
  <1>20. QED
    BY <1>5, <1>6, <1>9, <1>10, <1>11, <1>12, <1>13, <1>15, <1>19 DEF IInv

\* A call begins: it becomes the owner of a new record, or waits for the one there is.
LEMMA BeginWrites ==
  ASSUME IInv, NEW c \in Calls, NEW q \in Requests, Begin(c, q)
  PROVE  /\ call' \in [Calls -> Call] /\ \A d \in Calls \ {c} : call'[d] = call[d]
         /\ call[c].step = "new"
         /\ call'[c].request = q /\ call'[c].answer = call[c].answer
         /\ call'[c].step = IF q.key # NoKey /\ record[q.key].status # "none"
                            THEN "wait" ELSE "check"
         /\ record' = IF q.key # NoKey /\ record[q.key].status = "none"
                      THEN [record EXCEPT ![q.key].status = "processing"] ELSE record
         /\ UNCHANGED <<open, bid, applied, unknown, errors>>
  <1>1. TypeOK /\ call[c] \in Call
    BY DEF IInv, TypeOK
  <1>2. PICK s \in {"wait", "check"} :
            s = IF q.key # NoKey /\ record[q.key].status # "none" THEN "wait" ELSE "check"
    OBVIOUS
  <1> DEFINE x == [call[c] EXCEPT !.request = q, !.step = s]
  <1>3. call' = [call EXCEPT ![c] = x]
    BY <1>1, <1>2 DEF Begin, TypeOK
  <1>4. x \in Call /\ x.request = q /\ x.step = s /\ x.answer = call[c].answer
    BY <1>1 DEF Call
  <1> HIDE DEF x
  <1>5. /\ call' \in [Calls -> Call] /\ \A d \in Calls \ {c} : call'[d] = call[d]
        /\ call'[c] = x
    BY <1>1, <1>3, <1>4 DEF TypeOK
  <1>6. QED
    BY <1>2, <1>4, <1>5, Zenon DEF Begin

LEMMA BeginKeeps ==
  ASSUME IInv, NEW c \in Calls, NEW q \in Requests, Begin(c, q)
  PROVE  IInv'
  <1>1. /\ TypeOK /\ Effects /\ Results /\ Owners /\ Waiters
        /\ OneOwner /\ Records /\ Replies /\ Truths
    BY DEF IInv
  <1>2. /\ call' \in [Calls -> Call] /\ \A d \in Calls \ {c} : call'[d] = call[d]
        /\ call[c].step = "new"
        /\ call'[c].request = q /\ call'[c].answer = call[c].answer
        /\ call'[c].step \in {"wait", "check"}
        /\ call'[c].step = "wait" => q.key # NoKey /\ record[q.key].status # "none"
        /\ call'[c].step = "check" => q.key = NoKey \/ record[q.key].status = "none"
        /\ UNCHANGED <<open, bid, applied, unknown, errors>>
    BY BeginWrites
  <1>3. q.key \in Keys \union {NoKey}
    BY RequestType
  <1> DEFINE R == [status : {"none", "processing", "completed", "failed"}, answer : Answer]
  <1>4. /\ record' \in [Keys -> R]
        /\ \A k \in Keys : record'[k] = record[k] \/ (k = q.key /\ record[k].status = "none")
        /\ q.key # NoKey => record'[q.key].status # "none"
        /\ q.key # NoKey /\ call'[c].step = "check" => record'[q.key].status = "processing"
    <2>1. record \in [Keys -> R]
      BY <1>1 DEF TypeOK
    <2>2. CASE q.key # NoKey /\ record[q.key].status = "none"
      <3> DEFINE y == [record[q.key] EXCEPT !.status = "processing"]
      <3>1. record' = [record EXCEPT ![q.key] = y] /\ q.key \in Keys
        BY <1>3, <2>2, BeginWrites
      <3>2. y \in R /\ y.status = "processing"
        BY <2>1, <3>1
      <3> HIDE DEF y, R
      <3>3. /\ record' \in [Keys -> R] /\ record'[q.key] = y
            /\ \A k \in Keys \ {q.key} : record'[k] = record[k]
        BY <2>1, <3>1, <3>2
      <3>4. QED
        BY <2>2, <3>2, <3>3
    <2>3. CASE ~(q.key # NoKey /\ record[q.key].status = "none")
      <3>1. record' = record
        BY <2>3, BeginWrites
      <3> HIDE DEF R
      <3>2. record' \in [Keys -> R] /\ \A k \in Keys : record'[k] = record[k]
        BY <2>1, <3>1
      <3>3. q.key # NoKey => record'[q.key].status # "none" /\ call'[c].step # "check"
        BY <1>2, <2>3, <3>1
      <3>4. QED
        BY <3>2, <3>3, Zenon
    <2>4. QED
      BY <2>2, <2>3
  <1>5. Key(c)' = q.key /\ \A d \in Calls \ {c} : Key(d)' = Key(d) /\ (Keyed(d)' <=> Keyed(d))
    BY <1>2 DEF Key, Keyed
  <1>6. /\ ~Took(c) /\ applied[c] = 0
        /\ \A d \in Calls : Took(d)' <=> Took(d)
    BY <1>1, <1>2, CountType DEF Effects, Took
  <1>7. ASSUME NEW d \in Calls, d # c
        PROVE  /\ Started(d)' <=> Started(d)
               /\ Owns(d)' <=> Owns(d)
               /\ Ended(d)' <=> Ended(d)
    BY <1>2, <1>7 DEF Started, Owns, Ended
  <1>8. Started(c)' /\ ~Started(c) /\ ~Ended(c)' /\ (Keyed(c)' <=> q.key # NoKey)
    BY <1>2, <1>5 DEF Started, Ended, Keyed
  <1>9. ASSUME NEW d \in Calls, Keyed(d), Started(d)
        PROVE  record'[Key(d)] = record[Key(d)] /\ record[Key(d)].status # "none"
    <2>1. Key(d) \in Keys /\ record[Key(d)].status # "none"
      BY <1>1, <1>9, KeyType DEF Owners
    <2>2. QED
      BY <1>4, <2>1
  <1>10. TypeOK'
    BY <1>1, <1>2, <1>4 DEF TypeOK
  <1>11. Effects'
    BY <1>1, <1>2, <1>6 DEF Effects
  <1>12. Results'
    BY <1>1, <1>2, <1>5, <1>6 DEF Results
  <1>13. Owners'
    <2>1. ASSUME NEW d \in Calls, Keyed(d)'
          PROVE  /\ Started(d)' => record'[Key(d)'].status # "none"
                 /\ Owns(d)' => record'[Key(d)'].status \in {"processing", "completed"}
                 /\ call'[d].step \in {"check", "run"} => record'[Key(d)'].status = "processing"
                 /\ call'[d].step = "save" /\ call'[d].result.kind # "error"
                       => record'[Key(d)'].status = "processing"
                 /\ call'[d].step = "save again"
                       => record'[Key(d)'] = [status |-> "completed", answer |-> call'[d].result]
      <3>1. CASE d = c
        BY <1>2, <1>4, <1>5, <1>8, <2>1, <3>1 DEF Owns
      <3>2. CASE d # c
        <4>1. call'[d] = call[d] /\ Key(d)' = Key(d) /\ Keyed(d)
          BY <1>2, <1>5, <2>1, <3>2
        <4>2. CASE Started(d)
          <5>1. record'[Key(d)] = record[Key(d)]
            BY <1>9, <4>1, <4>2
          <5>2. QED
            BY <1>1, <1>7, <3>2, <4>1, <5>1 DEF Owners
        <4>3. CASE ~Started(d)
          BY <1>7, <3>2, <4>1, <4>3 DEF Started, Owns
        <4>4. QED
          BY <4>2, <4>3
      <3>3. QED
        BY <3>1, <3>2
    <2>2. QED
      BY <2>1 DEF Owners
  <1>14. Waiters'
    BY <1>1, <1>2, <1>5, <1>8 DEF Waiters
  <1>15. ASSUME NEW d \in Calls, d # c, Keyed(c)', Key(d)' = Key(c)', Started(d)'
         PROVE  ~Owns(c)'
    <2>1. Keyed(d) /\ Started(d) /\ Key(d) = q.key
      BY <1>5, <1>7, <1>8, <1>15 DEF Keyed
    <2>2. record[q.key].status # "none"
      BY <1>9, <2>1
    <2>3. QED
      BY <1>2, <1>8, <1>15, <2>2 DEF Owns
  <1>16. OneOwner'
    <2>1. ASSUME NEW d \in Calls, NEW e \in Calls, d # e, Keyed(d)', Key(d)' = Key(e)',
                 Started(d)', Started(e)'
          PROVE  /\ ~(Owns(d)' /\ Owns(e)')
                 /\ Owns(d)' => applied'[e] = 0
                 /\ applied'[d] = 0 \/ applied'[e] = 0
      <3>1. CASE d = c
        BY <1>2, <1>6, <1>15, <2>1, <3>1
      <3>2. CASE e = c
        <4>1. Keyed(c)' /\ Key(d)' = Key(c)'
          BY <2>1, <3>2 DEF Keyed
        <4>2. ~Owns(c)'
          BY <1>15, <2>1, <3>2, <4>1
        <4>3. QED
          BY <1>2, <1>6, <3>2, <4>2
      <3>3. CASE d # c /\ e # c
        <4>1. Keyed(d) /\ Key(d) = Key(e) /\ Started(d) /\ Started(e)
          BY <1>5, <1>7, <2>1, <3>3
        <4>2. /\ ~(Owns(d) /\ Owns(e))
              /\ Owns(d) => applied[e] = 0
              /\ applied[d] = 0 \/ applied[e] = 0
          BY <1>1, <2>1, <4>1 DEF OneOwner
        <4>3. QED
          BY <1>2, <1>7, <3>3, <4>2
      <3>4. QED
        BY <3>1, <3>2, <3>3
    <2>2. QED
      BY <2>1 DEF OneOwner
  <1>17. Records'
    <2>1. ASSUME NEW k \in Keys
          PROVE  /\ record'[k].status = "completed" =>
                       /\ record'[k].answer.kind = "done"
                       /\ \E d \in Calls : Started(d)' /\ Key(d)' = k /\ Took(d)'
                 /\ record'[k].status = "failed" =>
                       /\ record'[k].answer.kind \in {"refused", "conflict", "error"}
                       /\ record'[k].answer.kind = "error" => errors' > 0
                       /\ record'[k].answer.kind # "error" =>
                             \A d \in Calls : Started(d)' /\ Key(d)' = k => ~Took(d)'
      <3>1. CASE record'[k] = record[k]
        <4>1. ASSUME record[k].status = "completed"
              PROVE  /\ record[k].answer.kind = "done"
                     /\ \E d \in Calls : Started(d)' /\ Key(d)' = k /\ Took(d)'
          <5>1. PICK d \in Calls : Started(d) /\ Key(d) = k /\ Took(d)
            BY <1>1, <4>1 DEF Records
          <5>2. d # c
            BY <1>6, <5>1
          <5>3. QED
            BY <1>1, <1>5, <1>6, <1>7, <4>1, <5>1, <5>2 DEF Records
        <4>2. ASSUME record[k].status = "failed", record[k].answer.kind # "error",
                     NEW d \in Calls, Started(d)', Key(d)' = k
              PROVE  ~Took(d)'
          <5>1. CASE d = c
            BY <1>6, <5>1
          <5>2. CASE d # c
            BY <1>1, <1>5, <1>6, <1>7, <4>2, <5>2 DEF Records
          <5>3. QED
            BY <5>1, <5>2
        <4>3. QED
          BY <1>1, <1>2, <3>1, <4>1, <4>2 DEF Records
      <3>2. CASE k = q.key /\ record[k].status = "none"
        <4>1. k # NoKey /\ call'[c].step = "check"
          BY <1>2, <3>2, RequestAssumption, Zenon
        <4>2. record'[k].status = "processing"
          BY <1>4, <3>2, <4>1
        <4>3. QED
          BY <4>2
      <3>3. QED
        BY <1>4, <3>1, <3>2
    <2>2. QED
      BY <2>1 DEF Records
  <1>18. Replies'
    <2>1. ASSUME NEW d \in Calls
          PROVE  /\ ~Ended(d)' => call'[d].answer.kind = "none"
                 /\ call'[d].answer.kind = "error" => errors' > 0
                 /\ Keyed(d)' /\ call'[d].answer.kind \in {"refused", "conflict"} =>
                       record'[Key(d)'].status = "failed"
                 /\ errors' = 0 /\ Keyed(d)' /\ Answered(d)' =>
                       /\ record'[Key(d)'].status \in {"completed", "failed"}
                       /\ call'[d].answer = record'[Key(d)'].answer
      <3>1. CASE d = c
        <4>1. call'[c].answer.kind = "none"
          BY <1>1, <1>2 DEF Replies, Ended
        <4>2. QED
          BY <3>1, <4>1 DEF Answered
      <3>2. CASE d # c
        <4>1. /\ call'[d] = call[d] /\ Key(d)' = Key(d) /\ (Keyed(d)' <=> Keyed(d))
              /\ (Answered(d)' <=> Answered(d)) /\ (Ended(d)' <=> Ended(d))
          BY <1>2, <1>5, <1>7, <3>2 DEF Answered
        <4>2. call[d].answer.kind # "none" => Started(d)
          BY <1>1 DEF Replies, Ended, Started
        <4>3. Keyed(d) /\ call[d].answer.kind # "none" => record'[Key(d)] = record[Key(d)]
          BY <1>9, <4>2
        <4>4. errors' = errors /\ (call[d].answer.kind = "none" => ~Answered(d))
          BY <1>2 DEF Answered
        <4>5. CASE call[d].answer.kind = "none"
          BY <4>1, <4>4, <4>5
        <4>6. CASE call[d].answer.kind # "none"
          BY <1>1, <4>1, <4>3, <4>4, <4>6 DEF Replies
        <4>7. QED
          BY <4>5, <4>6
      <3>3. QED
        BY <3>1, <3>2
    <2>2. QED
      BY <2>1 DEF Replies
  <1>19. Truths'
    <2>1. ASSUME NEW d \in Calls
          PROVE  /\ call'[d].answer.kind = "done" => \E e \in Same(d)' : Took(e)'
                 /\ call'[d].answer.kind \in {"refused", "conflict"} =>
                       \A e \in Same(d)' : ~Took(e)'
      <3>1. CASE d = c
        <4>1. call'[c].answer.kind = "none"
          BY <1>1, <1>2 DEF Replies, Ended
        <4>2. QED
          BY <3>1, <4>1
      <3>2. CASE d # c
        <4>1. call'[d] = call[d] /\ Same(d)' \in SUBSET Calls
          BY <1>2, <3>2 DEF Same
        <4>2. \A e \in Calls \ {c} : e \in Same(d)' <=> e \in Same(d)
          BY <1>5, <1>7, <3>2 DEF Same, Started
        <4>3. c \notin Same(d)
          BY <1>2, <3>2 DEF Same
        <4>4. Same(d) \in SUBSET Calls
          BY DEF Same
        <4>5. QED
          BY <1>1, <1>6, <4>1, <4>2, <4>3, <4>4 DEF Truths
      <3>3. QED
        BY <3>1, <3>2
    <2>2. QED
      BY <2>1 DEF Truths
  <1>20. QED
    BY <1>10, <1>11, <1>12, <1>13, <1>14, <1>16, <1>17, <1>18, <1>19 DEF IInv

\* A call has a result.  Its record is still processing, so nobody has answered yet that
\* the request was refused.
LEMMA ConcludesKeeps ==
  ASSUME IInv, NEW c \in Calls, NEW a, Concludes(c, a), bid' \in Nat, open' \in BOOLEAN
  PROVE  IInv'
  <1>1. /\ TypeOK /\ Effects /\ Results /\ Owners /\ Waiters
        /\ OneOwner /\ Records /\ Replies /\ Truths
    BY DEF IInv
  <1>2. /\ call[c].step \in {"check", "run"} /\ Only(c)
        /\ Keyed(c) => /\ call'[c].step = "save" /\ call'[c].result = a
                       /\ call'[c].answer = call[c].answer
        /\ ~Keyed(c) => call'[c].step = "end" /\ call'[c].answer = a
        /\ a.kind \in {"done", "refused", "conflict"}
        /\ UNCHANGED <<record, errors>>
    <2>1. a \in Answer /\ Finish(c, a) /\ call[c].step \in {"check", "run"}
          /\ UNCHANGED <<record, errors>>
      BY DEF Concludes
    <2>2. a.kind \in {"done", "refused", "conflict"}
      BY DEF Concludes
    <2>3. QED
      BY <1>1, <2>1, <2>2, FinishWrites
  <1>3. /\ \A d \in Calls \ {c} : call'[d] = call[d]
        /\ \A d \in Calls : Key(d)' = Key(d) /\ (Keyed(d)' <=> Keyed(d))
    BY <1>2, OnlyKeeps DEF Only
  <1>4. /\ \A d \in Calls : applied[d] \in Nat /\ unknown[d] \in Nat
        /\ MaxUnknown \in Nat
    BY <1>1, CountType
  <1>5. applied[c] = unknown[c]
    BY <1>1, <1>2, <1>4 DEF Effects
  <1>6. /\ applied' \in [Calls -> 0..(1 + MaxUnknown)] /\ unknown' \in [Calls -> 0..MaxUnknown]
        /\ \A d \in Calls \ {c} : applied'[d] = applied[d] /\ unknown'[d] = unknown[d]
        /\ applied'[c] = IF a.kind = "done" THEN unknown'[c] + 1 ELSE unknown'[c]
    BY <1>1, <1>4, <1>5 DEF Concludes, TypeOK
  <1>7. /\ \A d \in Calls \ {c} : Took(d)' <=> Took(d)
        /\ Took(c)' <=> a.kind = "done"
        /\ ~Took(c)
    <2>1. unknown'[c] \in Nat
      BY <1>4, <1>6
    <2>2. QED
      BY <1>4, <1>5, <1>6, <2>1 DEF Took
  <1>8. ASSUME NEW d \in Calls
        PROVE  /\ Started(d)' <=> Started(d)
               /\ Owns(d)' => Owns(d)
               /\ d # c => call'[d] = call[d]
    <2>1. CASE d = c
      BY <1>2, <2>1 DEF Started, Owns
    <2>2. CASE d # c
      BY <1>3, <2>2 DEF Started, Owns
    <2>3. QED
      BY <2>1, <2>2
  <1>9. /\ Started(c) /\ Owns(c)
        /\ Keyed(c) => Key(c) \in Keys /\ record[Key(c)].status = "processing"
        /\ ~Keyed(c) => Key(c) \notin Keys
    <2>1. Started(c) /\ Owns(c)
      BY <1>2 DEF Started, Owns
    <2>2. Keyed(c) => Key(c) \in Keys /\ record[Key(c)].status = "processing"
      BY <1>1, <1>2, KeyType DEF Owners
    <2>3. NoKey \notin Keys
      BY RequestAssumption, Zenon
    <2>4. QED
      BY <2>1, <2>2, <2>3 DEF Keyed
  <1>10. TypeOK'
    BY <1>1, <1>2, <1>6 DEF TypeOK, Only
  <1>11. Effects'
    BY <1>1, <1>2, <1>3, <1>6 DEF Effects
  <1>12. Results'
    BY <1>1, <1>2, <1>3, <1>7 DEF Results
  <1>13. Owners'
    <2>1. ASSUME NEW d \in Calls, Keyed(d)
          PROVE  /\ Started(d)' => record[Key(d)].status # "none"
                 /\ Owns(d)' => record[Key(d)].status \in {"processing", "completed"}
                 /\ call'[d].step \in {"check", "run"} => record[Key(d)].status = "processing"
                 /\ call'[d].step = "save" /\ call'[d].result.kind # "error"
                       => record[Key(d)].status = "processing"
                 /\ call'[d].step = "save again"
                       => record[Key(d)] = [status |-> "completed", answer |-> call'[d].result]
      <3>1. CASE d = c
        BY <1>2, <1>9, <2>1, <3>1
      <3>2. CASE d # c
        BY <1>1, <1>8, <2>1, <3>2 DEF Owners
      <3>3. QED
        BY <3>1, <3>2
    <2>2. QED
      BY <1>2, <1>3, <2>1 DEF Owners
  <1>14. Waiters'
    BY <1>1, <1>2, <1>3 DEF Waiters
  <1>15. OneOwner'
    <2>1. ASSUME NEW d \in Calls, NEW e \in Calls, d # e, Keyed(d)', Key(d)' = Key(e)',
                 Started(d)', Started(e)'
          PROVE  /\ ~(Owns(d)' /\ Owns(e)')
                 /\ Owns(d)' => applied'[e] = 0
                 /\ applied'[d] = 0 \/ applied'[e] = 0
      <3>1. Keyed(d) /\ Keyed(e) /\ Key(d) = Key(e) /\ Started(d) /\ Started(e)
        BY <1>3, <1>8, <2>1 DEF Keyed
      <3>2. /\ ~(Owns(d) /\ Owns(e))
            /\ Owns(d) => applied[e] = 0
            /\ Owns(e) => applied[d] = 0
            /\ applied[d] = 0 \/ applied[e] = 0
        BY <1>1, <2>1, <3>1 DEF OneOwner
      <3>3. QED
        BY <1>6, <1>8, <1>9, <2>1, <3>2
    <2>2. QED
      BY <2>1 DEF OneOwner
  <1>16. Records'
    <2>1. ASSUME NEW k \in Keys, record[k].status # "processing", NEW d \in Calls, Key(d) = k
          PROVE  Took(d)' <=> Took(d)
      BY <1>7, <1>9, <2>1
    <2>2. QED
      BY <1>1, <1>2, <1>3, <1>8, <2>1 DEF Records
  <1>17. Replies'
    <2>1. ASSUME NEW d \in Calls
          PROVE  /\ ~Ended(d)' => call'[d].answer.kind = "none"
                 /\ call'[d].answer.kind = "error" => errors > 0
                 /\ Keyed(d) /\ call'[d].answer.kind \in {"refused", "conflict"} =>
                       record[Key(d)].status = "failed"
                 /\ errors = 0 /\ Keyed(d) /\ Answered(d)' =>
                       /\ record[Key(d)].status \in {"completed", "failed"}
                       /\ call'[d].answer = record[Key(d)].answer
      <3>1. CASE d = c /\ Keyed(c)
        <4>1. call'[c].answer.kind = "none"
          BY <1>1, <1>2, <3>1 DEF Replies, Ended
        <4>2. QED
          BY <3>1, <4>1 DEF Answered
      <3>2. CASE d = c /\ ~Keyed(c)
        BY <1>2, <3>2 DEF Ended
      <3>3. CASE d # c
        <4>1. (Answered(d)' <=> Answered(d)) /\ (Ended(d)' <=> Ended(d)) /\ call'[d] = call[d]
          BY <1>8, <3>3 DEF Answered, Ended
        <4>2. QED
          BY <1>1, <4>1 DEF Replies
      <3>4. QED
        BY <3>1, <3>2, <3>3
    <2>2. QED
      BY <1>2, <1>3, <2>1 DEF Replies
  <1>18. \A d \in Calls : Same(d)' = Same(d) /\ Same(d) \in SUBSET Calls
    BY <1>3, <1>8 DEF Same, Started
  <1>19. Truths'
    <2>1. ASSUME NEW d \in Calls
          PROVE  /\ call'[d].answer.kind = "done" => \E e \in Same(d) : Took(e)'
                 /\ call'[d].answer.kind \in {"refused", "conflict"} =>
                       \A e \in Same(d) : ~Took(e)'
      <3>1. CASE d = c /\ Keyed(c)
        <4>1. call'[c].answer.kind = "none"
          BY <1>1, <1>2, <3>1 DEF Replies, Ended
        <4>2. QED
          BY <3>1, <4>1
      <3>2. CASE d = c /\ ~Keyed(c)
        <4>1. Same(c) = {c}
          BY <3>2 DEF Same
        <4>2. QED
          BY <1>2, <1>7, <3>2, <4>1
      <3>3. CASE d # c
        <4>1. call'[d] = call[d]
          BY <1>8, <3>3
        <4>2. ASSUME call[d].answer.kind \in {"refused", "conflict"}
              PROVE  c \notin Same(d)
          <5>1. SUFFICES ASSUME c \in Same(d) PROVE FALSE
            OBVIOUS
          <5>2. Keyed(d) /\ Key(c) = Key(d)
            BY <3>3, <5>1 DEF Same
          <5>3. record[Key(d)].status = "failed"
            BY <1>1, <4>2, <5>2 DEF Replies
          <5>4. Keyed(c)
            BY <5>2 DEF Keyed
          <5>5. QED
            BY <1>9, <5>2, <5>3, <5>4
        <4>3. QED
          BY <1>1, <1>7, <1>18, <4>1, <4>2 DEF Truths
      <3>4. QED
        BY <3>1, <3>2, <3>3
    <2>2. QED
      BY <1>18, <2>1 DEF Truths
  <1>20. QED
    BY <1>10, <1>11, <1>12, <1>13, <1>14, <1>15, <1>16, <1>17, <1>19 DEF IInv

\* Saving a result that took effect fails: the error is saved instead.
LEMMA SaveFailsKeeps ==
  ASSUME IInv, NEW c \in Calls, SaveFails(c), call[c].result.kind = "done"
  PROVE  IInv'
  <1>1. /\ TypeOK /\ Effects /\ Results /\ Owners /\ Waiters
        /\ OneOwner /\ Records /\ Replies /\ Truths
    BY DEF IInv
  <1>2. /\ call[c].step \in {"save", "save again"} /\ errors < MaxErrors /\ errors' = errors + 1
        /\ call' = [call EXCEPT ![c].step = "save", ![c].result = Failure("error")]
        /\ UNCHANGED <<open, bid, record, applied, unknown>>
    BY DEF SaveFails
  <1>3. /\ Only(c) /\ call'[c].step = "save" /\ call'[c].result.kind = "error"
        /\ call'[c].answer = call[c].answer
    <2>1. PICK f \in Answer : f = Failure("error") /\ f.kind = "error"
      BY FailureType
    <2> DEFINE x == [call[c] EXCEPT !.step = "save", !.result = f]
    <2>2. call[c] \in Call /\ call' = [call EXCEPT ![c] = x]
      BY <1>1, <1>2, <2>1 DEF TypeOK
    <2>3. /\ x \in Call /\ x.request = call[c].request
          /\ x.step = "save" /\ x.result = f /\ x.answer = call[c].answer
      BY <2>2 DEF Call
    <2> HIDE DEF x
    <2>4. QED
      BY <1>1, <2>1, <2>2, <2>3, CallWrites
  <1>4. /\ \A d \in Calls \ {c} : call'[d] = call[d]
        /\ \A d \in Calls : Key(d)' = Key(d) /\ (Keyed(d)' <=> Keyed(d))
    BY <1>3, OnlyKeeps DEF Only
  <1>5. errors \in Nat /\ errors' \in 0..MaxErrors /\ errors' > 0 /\ errors' # 0
    <2>1. MaxErrors \in Nat /\ errors \in 0..MaxErrors
      BY <1>1, RequestAssumption, Zenon DEF TypeOK
    <2>2. errors < MaxErrors /\ errors' = errors + 1
      BY <1>2
    <2>3. QED
      BY <2>1, <2>2
  <1>6. TypeOK'
    BY <1>1, <1>2, <1>3, <1>5 DEF TypeOK, Only
  <1>7. Effects'
    BY <1>1, <1>2, <1>3, <1>4 DEF Effects
  <1>8. \A d \in Calls : Took(d)' <=> Took(d)
    BY <1>2 DEF Took
  <1>9. ASSUME NEW d \in Calls
        PROVE  /\ Started(d)' <=> Started(d)
               /\ Owns(d)' <=> Owns(d)
               /\ Ended(d)' <=> Ended(d)
               /\ call'[d].answer = call[d].answer
    <2>1. CASE d = c
      BY <1>2, <1>3, <2>1 DEF Started, Owns, Ended
    <2>2. CASE d # c
      BY <1>4, <2>2 DEF Started, Owns, Ended
    <2>3. QED
      BY <2>1, <2>2
  <1>10. Results'
    BY <1>1, <1>2, <1>3, <1>4, <1>5, <1>8 DEF Results
  <1>11. Owners'
    <2>1. ASSUME NEW d \in Calls, Keyed(d)
          PROVE  /\ Started(d)' => record[Key(d)].status # "none"
                 /\ Owns(d)' => record[Key(d)].status \in {"processing", "completed"}
                 /\ call'[d].step \in {"check", "run"} => record[Key(d)].status = "processing"
                 /\ call'[d].step = "save" /\ call'[d].result.kind # "error"
                       => record[Key(d)].status = "processing"
                 /\ call'[d].step = "save again"
                       => record[Key(d)] = [status |-> "completed", answer |-> call'[d].result]
      <3>1. CASE d = c
        BY <1>1, <1>3, <1>9, <2>1, <3>1 DEF Owners
      <3>2. CASE d # c
        BY <1>1, <1>4, <1>9, <2>1, <3>2 DEF Owners
      <3>3. QED
        BY <3>1, <3>2
    <2>2. QED
      BY <1>2, <1>4, <2>1 DEF Owners
  <1>12. Waiters'
    BY <1>1, <1>3, <1>4 DEF Waiters
  <1>13. OneOwner'
    <2>1. ASSUME NEW d \in Calls, NEW e \in Calls, d # e, Keyed(d)', Key(d)' = Key(e)',
                 Started(d)', Started(e)'
          PROVE  /\ ~(Owns(d)' /\ Owns(e)')
                 /\ Owns(d)' => applied'[e] = 0
                 /\ applied'[d] = 0 \/ applied'[e] = 0
      <3>1. Keyed(d) /\ Key(d) = Key(e) /\ Started(d) /\ Started(e)
        BY <1>4, <1>9, <2>1
      <3>2. /\ ~(Owns(d) /\ Owns(e))
            /\ Owns(d) => applied[e] = 0
            /\ applied[d] = 0 \/ applied[e] = 0
        BY <1>1, <2>1, <3>1 DEF OneOwner
      <3>3. QED
        BY <1>2, <1>9, <3>2
    <2>2. QED
      BY <2>1 DEF OneOwner
  <1>14. Records'
    BY <1>1, <1>2, <1>4, <1>5, <1>8, <1>9 DEF Records
  <1>15. Replies'
    BY <1>1, <1>2, <1>4, <1>5, <1>9 DEF Replies
  <1>16. \A d \in Calls : Same(d)' = Same(d) /\ Same(d) \in SUBSET Calls
    BY <1>4, <1>9 DEF Same, Started
  <1>17. Truths'
    BY <1>1, <1>8, <1>9, <1>16 DEF Truths
  <1>18. QED
    BY <1>6, <1>7, <1>10, <1>11, <1>12, <1>13, <1>14, <1>15, <1>17 DEF IInv

LEMMA SaveWrites ==
  ASSUME IInv, NEW c \in Calls, Save(c)
  PROVE  /\ call[c].step \in {"save", "save again"} /\ Keyed(c) /\ Key(c) \in Keys
         /\ Only(c)
         /\ \/ /\ call[c].step = "save" /\ call[c].result.kind = "done"
               /\ call'[c].step = "save again" /\ call'[c].result = call[c].result
               /\ call'[c].answer = call[c].answer
            \/ call'[c].step = "end" /\ call'[c].answer = call[c].result
         /\ record' \in [Keys -> [status : {"none", "processing", "completed", "failed"},
                                  answer : Answer]]
         /\ record'[Key(c)] = [status |-> StatusOf(call[c].result), answer |-> call[c].result]
         /\ record'[Key(c)].status = StatusOf(call[c].result)
         /\ record'[Key(c)].answer = call[c].result
         /\ \A k \in Keys \ {Key(c)} : record'[k] = record[k]
         /\ UNCHANGED <<open, bid, applied, unknown, errors>>
  <1>1. TypeOK /\ Results /\ call[c] \in Call
    BY DEF IInv, TypeOK
  <1>2. call[c].step \in {"save", "save again"} /\ Keyed(c) /\ Key(c) \in Keys
    BY <1>1, KeyType DEF Save, Results
  <1>3. call[c].result \in Answer /\ StatusOf(call[c].result) \in {"completed", "failed"}
    BY <1>1 DEF Call, StatusOf
  <1>4. ASSUME Goto(c, "save again")
        PROVE  /\ Only(c)
               /\ call'[c].step = "save again" /\ call'[c].result = call[c].result
               /\ call'[c].answer = call[c].answer
    <2> DEFINE x == [call[c] EXCEPT !.step = "save again"]
    <2>1. call' = [call EXCEPT ![c] = x]
      BY <1>1, <1>4 DEF TypeOK, Goto
    <2>2. /\ x \in Call /\ x.request = call[c].request /\ x.step = "save again"
          /\ x.result = call[c].result /\ x.answer = call[c].answer
      BY <1>1 DEF Call
    <2> HIDE DEF x
    <2>3. QED
      BY <1>1, <2>1, <2>2, CallWrites
  <1>5. ASSUME AnswerWith(c, call[c].result)
        PROVE  Only(c) /\ call'[c].step = "end" /\ call'[c].answer = call[c].result
    BY <1>1, <1>3, <1>5, AnswerWithWrites
  <1>6. \/ Goto(c, "save again") /\ call[c].step = "save" /\ call[c].result.kind = "done"
        \/ AnswerWith(c, call[c].result)
    BY DEF Save
  <1> DEFINE R == [status : {"none", "processing", "completed", "failed"}, answer : Answer]
             y == [status |-> StatusOf(call[c].result), answer |-> call[c].result]
  <1>7. y \in R /\ record \in [Keys -> R]
    BY <1>1, <1>3 DEF TypeOK
  <1>8. record' = [record EXCEPT ![Key(c)] = y] /\ UNCHANGED <<open, bid, applied, unknown, errors>>
    BY Zenon DEF Save
  <1> HIDE DEF R, y
  <1>9. /\ record' \in [Keys -> R] /\ record'[Key(c)] = y
        /\ \A k \in Keys \ {Key(c)} : record'[k] = record[k]
    BY <1>2, <1>7, <1>8
  <1>10. y.status = StatusOf(call[c].result) /\ y.answer = call[c].result
    BY DEF y
  <1>11. record' \in [Keys -> [status : {"none", "processing", "completed", "failed"},
                               answer : Answer]]
    BY <1>9 DEF R
  <1>12. record'[Key(c)] = [status |-> StatusOf(call[c].result), answer |-> call[c].result]
    BY <1>9 DEF y
  <1>13. QED
    BY <1>2, <1>4, <1>5, <1>6, <1>8, <1>9, <1>10, <1>11, <1>12, Zenon

\* The owner writes the record, which says what the owner's transaction did.
LEMMA SaveKeeps ==
  ASSUME IInv, NEW c \in Calls, Save(c)
  PROVE  IInv'
  <1>1. /\ TypeOK /\ Effects /\ Results /\ Owners /\ Waiters
        /\ OneOwner /\ Records /\ Replies /\ Truths
    BY DEF IInv
  <1> DEFINE k == Key(c)
             res == call[c].result
  <1>2. /\ call[c].step \in {"save", "save again"} /\ Keyed(c) /\ k \in Keys
        /\ Only(c)
        /\ \/ /\ call[c].step = "save" /\ res.kind = "done"
              /\ call'[c].step = "save again" /\ call'[c].result = res
              /\ call'[c].answer = call[c].answer
           \/ call'[c].step = "end" /\ call'[c].answer = res
        /\ record' \in [Keys -> [status : {"none", "processing", "completed", "failed"},
                                 answer : Answer]]
        /\ record'[k] = [status |-> StatusOf(res), answer |-> res]
        /\ record'[k].status = StatusOf(res) /\ record'[k].answer = res
        /\ \A n \in Keys \ {k} : record'[n] = record[n]
        /\ UNCHANGED <<open, bid, applied, unknown, errors>>
    BY SaveWrites, Zenon
  <1>3. /\ \A d \in Calls \ {c} : call'[d] = call[d]
        /\ \A d \in Calls : Key(d)' = Key(d) /\ (Keyed(d)' <=> Keyed(d))
    BY <1>2, OnlyKeeps DEF Only
  <1>4. /\ res.kind \in {"done", "refused", "conflict", "error"}
        /\ res.kind = "done" => Took(c)
        /\ res.kind \in {"refused", "conflict"} => ~Took(c)
        /\ res.kind = "error" => errors > 0
        /\ call[c].step = "save again" => res.kind = "done"
    BY <1>1, <1>2 DEF Results
  <1>5. /\ res.kind = "done" => record'[k].status = "completed"
        /\ res.kind # "done" => record'[k].status = "failed"
        /\ record'[k].answer = res
    BY <1>2 DEF StatusOf
  <1>6. ASSUME NEW d \in Calls
        PROVE  /\ Started(d)' <=> Started(d)
               /\ Owns(d)' => Owns(d)
               /\ d # c => call'[d] = call[d]
    <2>1. CASE d = c
      BY <1>2, <2>1 DEF Started, Owns
    <2>2. CASE d # c
      BY <1>3, <2>2 DEF Started, Owns
    <2>3. QED
      BY <2>1, <2>2
  <1>7. /\ Started(c) /\ Owns(c)
        /\ record[k].status \in {"processing", "completed"}
        /\ call[c].step = "save" /\ res.kind # "error" => record[k].status = "processing"
        /\ call[c].step = "save again" => record[k] = [status |-> "completed", answer |-> res]
    <2>1. Started(c) /\ Owns(c)
      BY <1>2 DEF Started, Owns
    <2>2. QED
      BY <1>1, <1>2, <2>1 DEF Owners
  <1>8. \A d \in Calls : Took(d)' <=> Took(d)
    BY <1>2 DEF Took
  <1>9. ASSUME NEW d \in Calls, d # c, Key(d) = k, Started(d)
        PROVE  ~Owns(d) /\ ~Took(d) /\ Keyed(d)
    <2>1. Keyed(d)
      BY <1>2, <1>9 DEF Keyed
    <2>2. applied[d] = 0 /\ ~Owns(d)
      BY <1>1, <1>2, <1>7, <1>9 DEF OneOwner
    <2>3. applied[d] \in Nat /\ unknown[d] \in Nat
      BY <1>1, CountType
    <2>4. ~Took(d)
      BY <2>2, <2>3 DEF Took
    <2>5. QED
      BY <2>1, <2>2, <2>4
  <1>10. TypeOK'
    BY <1>1, <1>2 DEF TypeOK, Only
  <1>11. Effects'
    BY <1>1, <1>2, <1>3 DEF Effects
  <1>12. Results'
    BY <1>1, <1>2, <1>3, <1>4, <1>8 DEF Results
  <1>13. Waiters'
    BY <1>1, <1>2, <1>3 DEF Waiters
  <1>14. Owners'
    <2>1. ASSUME NEW d \in Calls, Keyed(d)
          PROVE  /\ Started(d)' => record'[Key(d)].status # "none"
                 /\ Owns(d)' => record'[Key(d)].status \in {"processing", "completed"}
                 /\ call'[d].step \in {"check", "run"} => record'[Key(d)].status = "processing"
                 /\ call'[d].step = "save" /\ call'[d].result.kind # "error"
                       => record'[Key(d)].status = "processing"
                 /\ call'[d].step = "save again"
                       => record'[Key(d)] = [status |-> "completed", answer |-> call'[d].result]
      <3>1. CASE d = c
        BY <1>2, <1>5, <3>1 DEF Owns, StatusOf
      <3>2. CASE d # c /\ Key(d) = k
        <4>1. call'[d] = call[d] /\ (Owns(d)' => Owns(d)) /\ (Owns(d) => Started(d))
          BY <1>6, <3>2 DEF Owns, Started
        <4>2. ~Owns(d)
          BY <1>9, <3>2, <4>1
        <4>3. QED
          BY <1>5, <3>2, <4>1, <4>2 DEF Owns
      <3>3. CASE d # c /\ Key(d) # k
        <4>1. call'[d] = call[d] /\ Key(d) \in Keys
          BY <1>1, <1>6, <2>1, <3>3, KeyType
        <4>2. record'[Key(d)] = record[Key(d)]
          BY <1>2, <3>3, <4>1
        <4>3. QED
          BY <1>1, <1>6, <2>1, <4>1, <4>2 DEF Owners
      <3>4. QED
        BY <3>1, <3>2, <3>3
    <2>2. QED
      BY <1>3, <2>1 DEF Owners
  <1>15. OneOwner'
    <2>1. ASSUME NEW d \in Calls, NEW e \in Calls, d # e, Keyed(d)', Key(d)' = Key(e)',
                 Started(d)', Started(e)'
          PROVE  /\ ~(Owns(d)' /\ Owns(e)')
                 /\ Owns(d)' => applied'[e] = 0
                 /\ applied'[d] = 0 \/ applied'[e] = 0
      <3>1. Keyed(d) /\ Key(d) = Key(e) /\ Started(d) /\ Started(e)
        BY <1>3, <1>6, <2>1
      <3>2. /\ ~(Owns(d) /\ Owns(e))
            /\ Owns(d) => applied[e] = 0
            /\ applied[d] = 0 \/ applied[e] = 0
        BY <1>1, <2>1, <3>1 DEF OneOwner
      <3>3. QED
        BY <1>2, <1>6, <3>2
    <2>2. QED
      BY <2>1 DEF OneOwner
  <1>16. res.kind \in {"refused", "conflict"} =>
            \A d \in Calls : Started(d) /\ Key(d) = k => ~Took(d)
    BY <1>4, <1>9
  <1>17. Records'
    <2>1. ASSUME NEW n \in Keys
          PROVE  /\ record'[n].status = "completed" =>
                       /\ record'[n].answer.kind = "done"
                       /\ \E d \in Calls : Started(d) /\ Key(d) = n /\ Took(d)
                 /\ record'[n].status = "failed" =>
                       /\ record'[n].answer.kind \in {"refused", "conflict", "error"}
                       /\ record'[n].answer.kind = "error" => errors > 0
                       /\ record'[n].answer.kind # "error" =>
                             \A d \in Calls : Started(d) /\ Key(d) = n => ~Took(d)
      <3>1. CASE n = k
        BY <1>4, <1>5, <1>7, <1>16, <3>1
      <3>2. CASE n # k
        BY <1>1, <1>2, <3>2 DEF Records
      <3>3. QED
        BY <3>1, <3>2
    <2>2. QED
      <3>1. errors' = errors
        BY <1>2
      <3>2. \A d \in Calls : (Started(d)' <=> Started(d)) /\ Key(d)' = Key(d) /\ (Took(d)' <=> Took(d))
        BY <1>3, <1>6, <1>8
      <3>3. QED
        BY <2>1, <3>1, <3>2 DEF Records
  <1>18. Replies'
    <2>1. ASSUME NEW d \in Calls
          PROVE  /\ ~Ended(d)' => call'[d].answer.kind = "none"
                 /\ call'[d].answer.kind = "error" => errors > 0
                 /\ Keyed(d) /\ call'[d].answer.kind \in {"refused", "conflict"} =>
                       record'[Key(d)].status = "failed"
                 /\ errors = 0 /\ Keyed(d) /\ Answered(d)' =>
                       /\ record'[Key(d)].status \in {"completed", "failed"}
                       /\ call'[d].answer = record'[Key(d)].answer
      <3>1. CASE d = c /\ call'[c].step = "end"
        <4>1. call'[c].answer = res
          BY <1>2, <3>1
        <4>2. QED
          BY <1>4, <1>5, <3>1, <4>1 DEF Ended
      <3>2. CASE d = c /\ call'[c].step = "save again"
        <4>1. call[c].answer.kind = "none" /\ call'[c].answer = call[c].answer
          BY <1>1, <1>2, <3>2 DEF Replies, Ended
        <4>2. QED
          BY <3>2, <4>1 DEF Answered
      <3>3. CASE d # c
        <4>1. call'[d] = call[d] /\ (Answered(d)' <=> Answered(d)) /\ (Ended(d)' <=> Ended(d))
          BY <1>6, <3>3 DEF Answered, Ended
        <4>2. CASE Keyed(d) /\ Key(d) # k
          <5>1. record'[Key(d)] = record[Key(d)]
            BY <1>1, <1>2, <4>2, KeyType
          <5>2. QED
            BY <1>1, <4>1, <5>1 DEF Replies
        <4>3. CASE Keyed(d) /\ Key(d) = k
          <5>1. call[d].answer.kind \notin {"refused", "conflict"}
            BY <1>1, <1>7, <4>3 DEF Replies
          <5>2. ASSUME errors = 0, Answered(d)
                PROVE  record'[k] = record[k] /\ record[k].status = "completed"
            <6>1. record[k].status \in {"completed", "failed"}
              BY <1>1, <4>3, <5>2 DEF Replies
            <6>2. call[c].step = "save again"
              <7>1. ~(errors > 0)
                BY <5>2
              <7>2. res.kind # "error"
                BY <1>4, <7>1, Zenon
              <7>3. QED
                BY <1>2, <1>7, <6>1, <7>2
            <6>3. record[k] = [status |-> "completed", answer |-> res] /\ res.kind = "done"
              BY <1>4, <1>7, <6>2
            <6>4. StatusOf(res) = "completed"
              BY <6>3 DEF StatusOf
            <6>5. QED
              BY <1>2, <6>3, <6>4, Zenon
          <5>3. QED
            BY <1>1, <4>1, <4>3, <5>1, <5>2 DEF Replies
        <4>4. CASE ~Keyed(d)
          BY <1>1, <4>1, <4>4 DEF Replies
        <4>5. QED
          BY <4>2, <4>3, <4>4
      <3>4. QED
        BY <1>2, <3>1, <3>2, <3>3
    <2>2. QED
      BY <1>2, <1>3, <2>1 DEF Replies
  <1>19. \A d \in Calls : Same(d)' = Same(d) /\ Same(d) \in SUBSET Calls
    BY <1>3, <1>6 DEF Same, Started
  <1>20. c \in Same(c) /\ \A d \in Same(c) : Started(d) /\ Key(d) = k
    BY <1>2, <1>7 DEF Same, Started
  <1>21. Truths'
    <2>1. ASSUME NEW d \in Calls
          PROVE  /\ call'[d].answer.kind = "done" => \E e \in Same(d) : Took(e)
                 /\ call'[d].answer.kind \in {"refused", "conflict"} =>
                       \A e \in Same(d) : ~Took(e)
      <3>1. CASE d = c /\ call'[c].step = "end"
        <4>1. call'[c].answer = res
          BY <1>2, <3>1
        <4>2. QED
          BY <1>4, <1>16, <1>19, <1>20, <3>1, <4>1
      <3>2. CASE d = c /\ call'[c].step = "save again"
        <4>1. call[c].answer.kind = "none" /\ call'[c].answer = call[c].answer
          BY <1>1, <1>2, <3>2 DEF Replies, Ended
        <4>2. QED
          BY <3>2, <4>1
      <3>3. CASE d # c
        BY <1>1, <1>6, <3>3 DEF Truths
      <3>4. QED
        BY <1>2, <3>1, <3>2, <3>3
    <2>2. QED
      BY <1>8, <1>19, <2>1 DEF Truths
  <1>22. QED
    BY <1>10, <1>11, <1>12, <1>13, <1>14, <1>15, <1>17, <1>18, <1>21 DEF IInv

\* The bid stays an amount and the auction stays open or closed.
LEMMA BidType ==
  ASSUME TypeOK, [Next]_vars
  PROVE  bid' \in Nat /\ open' \in BOOLEAN
  <1>1. bid \in Nat /\ open \in BOOLEAN
    BY DEF TypeOK
  <1>2. \A c \in Calls : call[c].request.amount \in Nat
    BY RequestType DEF TypeOK, Call
  <1>3. \/ UNCHANGED <<open, bid>>
        \/ open' = open /\ \E c \in Calls : bid' = bid + call[c].request.amount
        \/ open' = open /\ bid' = 0
        \/ open' = FALSE /\ bid' = 0
    BY DEF Next, Step, Transaction, Begin, Replay, StopWaiting, Check, Save, SaveFails, Commit,
           CommitUnknown, Applies, Conflict, Refuse, RoundEnds, Die, BidSettles, AuctionEnds, vars
  <1>4. ASSUME NEW c \in Calls, bid' = bid + call[c].request.amount
        PROVE  bid' \in Nat
    <2>1. call[c].request.amount \in Nat
      BY <1>2
    <2>2. QED
      BY <1>1, <1>4, <2>1
  <1>5. CASE UNCHANGED <<open, bid>>
    BY <1>1, <1>5
  <1>6. CASE open' = open /\ \E c \in Calls : bid' = bid + call[c].request.amount
    BY <1>1, <1>4, <1>6, Zenon
  <1>7. CASE open' \in BOOLEAN /\ bid' = 0
    BY <1>7
  <1>8. QED
    BY <1>1, <1>3, <1>5, <1>6, <1>7

LEMMA InitInv == Init => IInv
  <1> SUFFICES ASSUME Init PROVE IInv
    OBVIOUS
  <1>1. PICK n \in 0..MaxAttempts : n = 0
    BY AttemptNumbers
  <1>2. PICK q \in Requests : q = CHOOSE r \in Requests : TRUE
    BY RequestAssumption
  <1>3. PICK none \in Answer : none = NoAnswer /\ none.kind = "none"
    <2>1. NoAnswer \in Answer /\ NoAnswer.kind = "none"
      BY DEF NoAnswer, Answer
    <2>2. QED
      BY <2>1, Zenon
  <1>4. PICK x \in Call : /\ x.step = "new" /\ x.answer.kind = "none"
                          /\ \A c \in Calls : call[c] = x
    <2> DEFINE y == [step |-> "new", request |-> q, attempt |-> n, retried |-> FALSE,
                     result |-> none, answer |-> none]
    <2>1. y \in Call /\ y.step = "new" /\ y.answer = none
      BY DEF Call
    <2>2. \A c \in Calls : call[c] = y
      BY <1>1, <1>2, <1>3, Zenon DEF Init
    <2> HIDE DEF y
    <2>3. QED
      BY <1>3, <2>1, <2>2
  <1>5. call \in [Calls -> Call]
    <2>1. call = [c \in Calls |-> call[c]]
      BY DEF Init
    <2>2. QED
      BY <1>4, <2>1
  <1>6. TypeOK
    <2>1. MaxUnknown \in Nat /\ MaxErrors \in Nat
      BY RequestAssumption, Zenon
    <2>2. record \in [Keys -> [status : {"none", "processing", "completed", "failed"},
                               answer : Answer]]
      BY <1>3 DEF Init
    <2>3. /\ open \in BOOLEAN /\ bid \in Nat /\ applied \in [Calls -> 0..(1 + MaxUnknown)]
          /\ unknown \in [Calls -> 0..MaxUnknown] /\ errors \in 0..MaxErrors
      BY <2>1 DEF Init
    <2>4. QED
      BY <1>5, <2>2, <2>3 DEF TypeOK
  <1>7. \A c \in Calls : /\ applied[c] = 0 /\ unknown[c] = 0 /\ call[c].step = "new"
                         /\ call[c].answer.kind = "none" /\ ~Took(c) /\ ~Started(c) /\ ~Owns(c)
    <2>1. \A c \in Calls : applied[c] = 0 /\ unknown[c] = 0
      BY DEF Init
    <2>2. \A c \in Calls : ~Took(c)
      BY <2>1 DEF Took
    <2>3. \A c \in Calls : call[c].step = "new" /\ call[c].answer.kind = "none"
      BY <1>4
    <2>4. QED
      BY <2>1, <2>2, <2>3 DEF Started, Owns
  <1>8. \A k \in Keys : record[k].status = "none"
    BY DEF Init
  <1>9. Effects /\ Results /\ Waiters /\ OneOwner
    BY <1>7 DEF Effects, Results, Waiters, OneOwner
  <1>10. Owners
    BY <1>7 DEF Owners
  <1>11. Records
    BY <1>8 DEF Records
  <1>12. Replies
    BY <1>7 DEF Replies, Answered
  <1>13. Truths
    BY <1>7 DEF Truths
  <1>14. QED
    BY <1>6, <1>9, <1>10, <1>11, <1>12, <1>13 DEF IInv

LEMMA NextInv == IInv /\ [Next]_vars => IInv'
  <1> SUFFICES ASSUME IInv, [Next]_vars PROVE IInv'
    OBVIOUS
  <1>1. TypeOK
    BY DEF IInv
  <1>2. bid' \in Nat /\ open' \in BOOLEAN
    BY <1>1, BidType
  <1>3. CASE \E c \in Calls, q \in Requests : Begin(c, q)
    BY <1>3, BeginKeeps
  <1>4. CASE \E c \in Calls : Replay(c)
    BY <1>4, ReplayKeeps
  <1>5. CASE \E c \in Calls : Save(c)
    BY <1>5, SaveKeeps
  <1>6. CASE \E c \in Calls : SaveFails(c) /\ call[c].result.kind = "done"
    BY <1>6, SaveFailsKeeps
  <1>7. CASE \E c \in Calls : Runs(c)
    BY <1>2, <1>7, RunsKeeps
  <1>8. CASE \E c \in Calls : \E a : Quits(c, a)
    BY <1>2, <1>8, QuitsKeeps
  <1>9. CASE \E c \in Calls : \E a : Concludes(c, a)
    BY <1>2, <1>9, ConcludesKeeps
  <1>10. CASE Around
    BY <1>2, <1>10, AroundKeeps
  <1>11. QED
    BY <1>1, <1>3, <1>4, <1>5, <1>6, <1>7, <1>8, <1>9, <1>10, StepKinds

\* The inductive invariant holds in every reachable state.
THEOREM Invariance == Spec => []IInv
  BY InitInv, NextInv, PTL DEF Spec

-----------------------------------------------------------------------------
(* The theorems. *)

\* However often a request is repeated and whatever is interrupted or fails to be saved,
\* its calls together take effect once, and again only for a commit reported as unknown.
THEOREM TakesOnce == Spec => []TakesEffectOnce
  <1>1. IInv => TakesEffectOnce
    <2> SUFFICES ASSUME IInv, NEW c \in Calls, NEW d \in Same(c), NEW e \in Same(c)
                 PROVE  /\ applied[d] <= 1 + unknown[d]
                        /\ d # e => applied[d] = 0 \/ applied[e] = 0
      BY DEF TakesEffectOnce
    <2>1. d \in Calls /\ e \in Calls
      BY DEF Same
    <2>2. applied[d] <= 1 + unknown[d]
      <3>1. applied[d] \in Nat /\ unknown[d] \in Nat
        BY <2>1, CountType DEF IInv
      <3>2. applied[d] = unknown[d] \/ applied[d] = unknown[d] + 1
        BY <2>1 DEF IInv, Effects
      <3>3. QED
        BY <3>1, <3>2
    <2>3. ASSUME d # e
          PROVE  applied[d] = 0 \/ applied[e] = 0
      <3>1. Keyed(c)
        BY <2>3 DEF Same
      <3>2. Started(d) /\ Started(e) /\ Key(d) = Key(e) /\ Keyed(d)
        BY <3>1 DEF Same, Started, Keyed
      <3>3. QED
        BY <2>1, <2>3, <3>2 DEF IInv, OneOwner
    <2>4. QED
      BY <2>2, <2>3
  <1>2. QED
    BY <1>1, Invariance, PTL

\* A client is told "done" only of a bid that some call of its request placed, and
\* "refused" or "conflict" only if none did, whichever of the calls it hears.
THEOREM AnswersHold == Spec => []AnswersTrue
  <1>1. IInv => AnswersTrue
    <2> SUFFICES ASSUME IInv, NEW c \in Calls
                 PROVE  /\ call[c].answer.kind = "done" =>
                              \E d \in Same(c) : applied[d] > unknown[d]
                        /\ call[c].answer.kind \in {"refused", "conflict"} =>
                              \A d \in Same(c) : applied[d] = unknown[d]
      BY DEF AnswersTrue
    <2>1. /\ call[c].answer.kind = "done" => \E d \in Same(c) : Took(d)
          /\ call[c].answer.kind \in {"refused", "conflict"} => \A d \in Same(c) : ~Took(d)
      BY DEF IInv, Truths
    <2>2. ASSUME NEW d \in Same(c), ~Took(d)
          PROVE  applied[d] = unknown[d]
      <3>1. d \in Calls
        BY DEF Same
      <3>2. applied[d] \in Nat /\ unknown[d] \in Nat
        BY <3>1, CountType DEF IInv
      <3>3. applied[d] = unknown[d] \/ applied[d] = unknown[d] + 1
        BY <3>1 DEF IInv, Effects
      <3>4. QED
        BY <2>2, <3>2, <3>3 DEF Took
    <2>3. QED
      BY <2>1, <2>2 DEF Took
  <1>2. QED
    BY <1>1, Invariance, PTL

\* As long as no record fails to be written, all calls with one key that get a result get
\* the same one.
THEOREM OneAnswer == Spec => []SameAnswers
  <1>1. IInv => SameAnswers
    <2> SUFFICES ASSUME IInv, errors = 0, NEW c \in Calls, NEW d \in Calls,
                        Keyed(c), d \in Same(c), Answered(c), Answered(d)
                 PROVE  call[c].answer = call[d].answer
      BY DEF SameAnswers
    <2>1. Key(d) = Key(c) /\ Keyed(d)
      BY DEF Same, Keyed
    <2>2. call[c].answer = record[Key(c)].answer /\ call[d].answer = record[Key(d)].answer
      BY <2>1 DEF IInv, Replies
    <2>3. QED
      BY <2>1, <2>2
  <1>2. QED
    BY <1>1, Invariance, PTL

=============================================================================
