------------------------------ MODULE MCPages ------------------------------
(***************************************************************************)
(* Realtime and Drafts side by side, for TLC: the auctions the pages show, *)
(* and the one that is being written.  The two have no state in common:    *)
(* one moves in each behaviour.                                            *)
(***************************************************************************)
EXTENDS Realtime, TLC

CONSTANTS MaxAuctions, MaxEdits, MaxCalls, MaxLosses, MaxSessions

VARIABLES
    auctions, local, form, edited, submitting, asking, signed, synced, fetch, calls, sessions,
    losses, edits, typed, hasty, holds,
    part \* which of the two moves

D == INSTANCE Drafts WITH loading <- asking

ASSUME PagesAssumption == D!DraftsAssumption

drafts == <<auctions, local, form, edited, submitting, asking, signed, synced, fetch, calls,
            sessions, losses, edits, typed, hasty, holds>>

MCInit == Init /\ D!Init /\ part \in {"realtime", "drafts"}

MCNext ==
    \/ part = "realtime" /\ Next /\ UNCHANGED <<drafts, part>>
    \/ part = "drafts" /\ D!Next /\ UNCHANGED <<vars, part>>

MCSpec == MCInit /\ [][MCNext]_<<vars, drafts, part>>

\* Nothing tells one user or one reader from another.
Interchangeable == Permutations(Users) \cup Permutations(Readers)

TypesOK == TypeOK /\ D!TypeOK

\* No save rewrites an auction that a submission has started: see Drafts.
SubmissionHolds == D!SubmissionHolds

\* The form shows what the user typed last: see Drafts.
DraftKept == D!DraftKept
=============================================================================
