------------------------------- MODULE Ledger -------------------------------
(***************************************************************************)
(* The user documents and the rows of balance transactions under           *)
(* concurrent calls of BalanceService, and the audit that compares them.   *)
(*                                                                         *)
(* With a replica set every call runs in a MongoDB transaction: it reads   *)
(* its snapshot, writes the user document and one row, and commits; a      *)
(* write of a document that changed since the snapshot, or that another    *)
(* transaction has written, is a write conflict.  A commit may fail        *)
(* without telling whether it took effect.  Without a replica set the same *)
(* statements run one by one, and save() sets the balance it computed from *)
(* what it had read.                                                       *)
(*                                                                         *)
(* lock, refund and charge run in the transaction of their caller (a bid,  *)
(* a round completion), whose retry loop is the same as deposit's; here    *)
(* each stands for the part of that transaction that touches the ledger.   *)
(***************************************************************************)
EXTENDS Integers, FiniteSets, FiniteSetsExt

CONSTANTS
    Users,          \* user documents
    Calls,          \* calls of the service that may happen
    Op,             \* call -> [kind, user, amount, ref]
    Refs,           \* reference ids: a bid, or a bid with the amount locked
    NoRef,          \* referenceId: null
    UniqueRefs,     \* does the server build the unique index on (type, referenceId)
    Opening,        \* user -> the rows the user starts with
    MaxAttempts,    \* attempts of the retry loop (5 in the code)
    MaxUnknown,     \* bound: commits whose outcome is not known
    MaxLost         \* bound: calls cut short by a crash of their process

ASSUME LedgerAssumption ==
    /\ Op \in [Calls -> [kind : {"deposit", "withdrawal", "bid_lock", "bid_refund", "bid_charge"},
                         user : Users, amount : Nat \ {0}, ref : {NoRef} \union Refs]]
    /\ NoRef \notin Refs
    /\ \A c \in Calls : Op[c].kind \in {"deposit", "withdrawal"} => Op[c].ref = NoRef
    /\ UniqueRefs \in BOOLEAN
    /\ MaxAttempts \in Nat \ {0}
    /\ MaxUnknown \in Nat /\ MaxLost \in Nat

VARIABLES
    replicaSet,     \* does the server accept transactions
    balance,        \* user.balance
    version,        \* how often the user document was written: what a conflict compares
    rows,           \* the balance transactions: type, amount, before, after, ref, at, by
    call,           \* the calls
    clock,          \* per user, the last createdAt given to a row
    audit,          \* an audit's progress and its report
    overwrote,      \* did a save() set a balance over one it had not read (not in the code)
    unknown,        \* commits without a known outcome so far
    lost            \* calls cut short so far

ledgerVars == <<replicaSet, balance, version, rows, call, clock, audit, unknown, lost, overwrote>>

\* A call; doubt counts its commits of unknown outcome, at is the createdAt of its row.
Idle == [pc |-> "idle", attempt |-> 1, snap |-> 0, seen |-> 0, at |-> 0, doubt |-> 0]

Ended == {"ok", "error", "lost"}
Running == {"read", "written", "saved"}

\* An audit: of nobody yet, with the user document read, or done with its report.
NoAudit == [pc |-> "idle", balance |-> 0, seen |-> 0, overlap |-> FALSE, report |-> {}]

RowTypes == {"deposit", "withdrawal", "bid_lock", "bid_refund", "bid_charge"}

LedgerTypeOK ==
    /\ replicaSet \in BOOLEAN /\ overwrote \in BOOLEAN
    /\ balance \in [Users -> Nat]
    /\ version \in [Users -> Nat]
    /\ \A u \in Users : \A r \in rows[u] :
          r.type \in RowTypes /\ r.before \in Nat /\ r.after \in Nat /\ r.at \in 1..clock[u]
    /\ \A c \in Calls : /\ call[c].pc \in {"idle"} \union Running \union Ended
                        /\ call[c].attempt \in 1..MaxAttempts
    /\ audit.pc \in {"idle", "user read", "done"}
    /\ unknown \in 0..MaxUnknown /\ lost \in 0..MaxLost

-----------------------------------------------------------------------------
(* Rows. *)

\* Fault: a charge takes the amount a second time.
DeltaChargedAgain(type, amount) ==
    IF type \in {"deposit", "bid_refund"} THEN amount ELSE -amount

\* deltaForType: what a row of a type does to the balance.
Delta(type, amount) ==
    CASE type \in {"deposit", "bid_refund"}  -> amount
      [] type \in {"withdrawal", "bid_lock"} -> -amount
      [] type = "bid_charge"                 -> 0

\* What the rows R of a user add up to.
Total(R) == FoldSet(LAMBDA r, sum : sum + Delta(r.type, r.amount), 0, R)

Change(c) == Delta(Op[c].kind, Op[c].amount)

AllRows == UNION {rows[u] : u \in Users}

\* hasTransaction: only a call with a reference looks for its row.
HasTransaction(c) ==
    /\ Op[c].ref # NoRef
    /\ \E r \in rows[Op[c].user] : r.type = Op[c].kind /\ r.ref = Op[c].ref

\* The unique index on (type, referenceId), partial to rows with a reference.  Its filter
\* is { $ne: null }, which servers may refuse in a partial index.
Duplicate(c) ==
    /\ UniqueRefs /\ Op[c].ref # NoRef
    /\ \E r \in AllRows : r.type = Op[c].kind /\ r.ref = Op[c].ref

\* The balance that c saves is computed from the one it read, with a transaction or without.
NewBalance(c) == call[c].snap + Change(c)

\* createTransaction: balanceBefore and balanceAfter as the call computed them.
RowOf(c, at) ==
    [type |-> Op[c].kind, amount |-> Op[c].amount, ref |-> Op[c].ref, by |-> c, at |-> at,
     before |-> call[c].snap, after |-> NewBalance(c)]

\* lock and withdrawal refuse what the balance does not cover.
Covered(c) ==
    Op[c].kind \in {"withdrawal", "bid_lock"} => balance[Op[c].user] >= Op[c].amount

\* A charge reads the balance and writes only its row.
WritesUser(c) == Op[c].kind # "bid_charge"

Goes(c, pc) == call' = [call EXCEPT ![c].pc = pc]

-----------------------------------------------------------------------------
(* The calls. *)

\* The reads of a call: the row of its reference, then the user.
Begin(c) ==
    /\ call[c].pc = "idle"
    /\ call' = [call EXCEPT ![c].pc = IF HasTransaction(c) THEN "ok"
                                      ELSE IF Covered(c) THEN "read" ELSE "error",
                            ![c].snap = balance[Op[c].user],
                            ![c].seen = version[Op[c].user]]
    /\ UNCHANGED <<replicaSet, balance, version, rows, clock, audit, unknown, lost, overwrote>>

\* Fault: only a transaction still open conflicts.
ConflictWithOpen(c) ==
    \E d \in Calls \ {c} : call[d].pc = "written" /\ Op[d].user = Op[c].user

\* Another transaction holds, or has committed, what this one wants to write.
Conflict(c) ==
    \/ /\ WritesUser(c)
       /\ \/ version[Op[c].user] # call[c].seen
          \/ \E d \in Calls \ {c} : /\ call[d].pc = "written" /\ WritesUser(d)
                                    /\ Op[d].user = Op[c].user
    \/ /\ UniqueRefs /\ Op[c].ref # NoRef
       /\ \E d \in Calls \ {c} : /\ call[d].pc = "written"
                                 /\ Op[d].kind = Op[c].kind /\ Op[d].ref = Op[c].ref

Refused(c) == Conflict(c) \/ Duplicate(c)

\* The transaction's writes: the user document, then the row with its createdAt.
Write(c) ==
    /\ replicaSet
    /\ call[c].pc = "read"
    /\ ~Refused(c)
    /\ clock' = [clock EXCEPT ![Op[c].user] = @ + 1]
    /\ call' = [call EXCEPT ![c].pc = "written", ![c].at = clock'[Op[c].user]]
    /\ UNCHANGED <<replicaSet, balance, version, rows, audit, unknown, lost, overwrote>>

\* What the database holds once the transaction of c has taken effect.
TakesEffect(c) ==
    /\ balance' = IF WritesUser(c) THEN [balance EXCEPT ![Op[c].user] = NewBalance(c)]
                  ELSE balance
    /\ version' = IF WritesUser(c) THEN [version EXCEPT ![Op[c].user] = @ + 1] ELSE version
    /\ rows' = [rows EXCEPT ![Op[c].user] = @ \union {RowOf(c, call[c].at)}]

Commit(c) ==
    /\ call[c].pc = "written"
    /\ TakesEffect(c)
    /\ Goes(c, "ok")
    /\ UNCHANGED <<replicaSet, clock, audit, unknown, lost, overwrote>>

\* Fault: a withdrawal is retried as a deposit is.
AfterErrorAlways(c) ==
    IF call[c].attempt < MaxAttempts
    THEN [call[c] EXCEPT !.pc = "idle", !.attempt = @ + 1]
    ELSE [call[c] EXCEPT !.pc = "error"]

\* A transient error: the retry loops run the body again, a withdrawal answers the error.
AfterError(c) ==
    IF Op[c].kind # "withdrawal" /\ call[c].attempt < MaxAttempts
    THEN [call[c] EXCEPT !.pc = "idle", !.attempt = @ + 1]
    ELSE [call[c] EXCEPT !.pc = "error"]

\* A write conflict is transient, a duplicate key is not.
WriteRefused(c) ==
    /\ replicaSet
    /\ call[c].pc = "read"
    /\ Refused(c)
    /\ call' = [call EXCEPT ![c] = IF Conflict(c) THEN AfterError(c) ELSE [@ EXCEPT !.pc = "error"]]
    /\ UNCHANGED <<replicaSet, balance, version, rows, clock, audit, unknown, lost, overwrote>>

\* UnknownTransactionCommitResult, with or without effect.
UnknownCommit(c) ==
    /\ call[c].pc = "written"
    /\ unknown < MaxUnknown
    /\ unknown' = unknown + 1
    /\ \/ TakesEffect(c)
       \/ UNCHANGED <<balance, version, rows>>
    /\ call' = [call EXCEPT ![c] = [AfterError(c) EXCEPT !.doubt = @ + 1]]
    /\ UNCHANGED <<replicaSet, clock, audit, lost, overwrote>>

\* Without transactions: save() sets the balance computed from what was read.
Save(c) ==
    /\ ~replicaSet
    /\ call[c].pc = "read" /\ WritesUser(c)
    /\ balance' = [balance EXCEPT ![Op[c].user] = NewBalance(c)]
    /\ version' = [version EXCEPT ![Op[c].user] = @ + 1]
    /\ overwrote' = (overwrote \/ version[Op[c].user] # call[c].seen)
    /\ Goes(c, "saved")
    /\ UNCHANGED <<replicaSet, rows, clock, audit, unknown, lost>>

\* ... and then inserts the row.
Insert(c) ==
    /\ ~replicaSet
    /\ call[c].pc = IF WritesUser(c) THEN "saved" ELSE "read"
    /\ IF Duplicate(c)
       THEN Goes(c, "error") /\ UNCHANGED <<clock, rows>>
       ELSE /\ clock' = [clock EXCEPT ![Op[c].user] = @ + 1]
            /\ rows' = [rows EXCEPT ![Op[c].user] = @ \union {RowOf(c, clock'[Op[c].user])}]
            /\ Goes(c, "ok")
    /\ UNCHANGED <<replicaSet, balance, version, audit, unknown, lost, overwrote>>

\* The process of the call dies; an open transaction is aborted.
Lose(c) ==
    /\ call[c].pc \in Running
    /\ lost < MaxLost
    /\ lost' = lost + 1
    /\ Goes(c, "lost")
    /\ UNCHANGED <<replicaSet, balance, version, rows, clock, audit, unknown, overwrote>>

-----------------------------------------------------------------------------
(* BalanceAuditService.auditUser: the user document, then its rows. *)

Earlier(r, R) == {s \in R : s.at < r.at}

\* The balance that the rows R leave: the last one's, in the order of createdAt.
Closing(R) == IF R = {} THEN 0 ELSE (CHOOSE r \in R : \A s \in R : s.at <= r.at).after

\* What the audit reports of rows R, walked in the order of createdAt, and balance b.
Issues(R, b) ==
    {i \in {"TX_CHAIN_BREAK"} : \E r \in R : r.before # Closing(Earlier(r, R))}
    \union
    {i \in {"TX_DELTA_MISMATCH"} : \E r \in R : r.after # r.before + Delta(r.type, r.amount)}
    \union
    {i \in {"USER_BALANCE_MISMATCH"} : b # Closing(R)}

AuditReadsUser(u) ==
    /\ audit.pc = "idle"
    /\ audit' = [pc |-> "user read", of |-> u, balance |-> balance[u], seen |-> version[u],
                 overlap |-> FALSE, report |-> {}]
    /\ UNCHANGED <<replicaSet, balance, version, rows, call, clock, unknown, lost, overwrote>>

\* A row of a charge among R that does not continue the row before it.
Misplaced(r, R) ==
    r.type = "bid_charge" /\ Earlier(r, R) # {} /\ r.before # Closing(Earlier(r, R))

\* overlap (not a field of the code): the user document changed between the two reads,
\* or a charge read a balance that another transaction was changing.
AuditReadsRows(u) ==
    /\ audit.pc = "user read" /\ audit.of = u
    /\ audit' = [audit EXCEPT !.pc = "done",
                              !.overlap = \/ version[u] # audit.seen
                                          \/ \E r \in rows[u] : Misplaced(r, rows[u]),
                              !.report = Issues(rows[u], audit.balance)]
    /\ UNCHANGED <<replicaSet, balance, version, rows, call, clock, unknown, lost, overwrote>>
=============================================================================
