----------------------------- MODULE MCSession -----------------------------
(***************************************************************************)
(* Accounts and Session side by side, for TLC: how accounts come to be,    *)
(* and the tokens of a browser that are for them.  The two have no state   *)
(* in common: one moves in each behaviour.                                 *)
(***************************************************************************)
EXTENDS Accounts, TLC

CONSTANTS Users, None, Tabs, Life, Soon, Grace, MaxFlows, MaxTroubles

VARIABLES
    storage, tab, flows, gone, losses, crossed, renewed,
    part \* which of the two moves

S == INSTANCE Session

ASSUME SessionAssumption == S!SessionAssumption

browser == <<storage, tab, flows, gone, losses, crossed, renewed>>

MCInit ==
    /\ Init /\ S!Init /\ part \in {"session", "accounts"}
    /\ part = "session" => accounts = {}

MCNext ==
    \/ part = "session" /\ S!Next /\ UNCHANGED <<vars, part>>
    \/ part = "accounts" /\ Next /\ UNCHANGED <<browser, part>>

MCSpec == MCInit /\ [][MCNext]_<<vars, browser, part>>

\* Nothing tells one user or one tab from another.
Alike == Permutations(Users) \cup Permutations(Tabs)

TypesOK == TypeOK /\ S!TypeOK

\* A tab acts as the user it shows: see Session.
ActsAsShown == S!ActsAsShown

\* A session that is used does not run out: see Session.
SessionKept == S!SessionKept
=============================================================================
