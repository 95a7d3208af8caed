------------------------------ MODULE MCViews ------------------------------
(***************************************************************************)
(* Live, Caches and Lobby side by side, for TLC: what an auction's page    *)
(* shows of the realtime state, what Redis and the lobby room are given of *)
(* the database, and what the dashboard makes of what it is sent.  The     *)
(* three have no state in common: one moves in each behaviour.             *)
(***************************************************************************)
EXTENDS Live

CONSTANTS TotalRounds, Tab, MaxFills, MaxRebuilds, MaxBids, MaxErrors,
          PageSize, MaxShifts, MaxMoves, MaxLosses

VARIABLES
    auction, round, cache, fills, refresh, rebuilds, lobby, starting, bid, feed, count, stale,
    undropped, unseen,
    auctions, copy, due, connected, losses, asked, queued, sent, page, moves,
    part \* which of the three moves

C == INSTANCE Caches WITH timer <- refresh, overtaken <- stale

L == INSTANCE Lobby

ASSUME ViewsAssumption == C!CachesAssumption /\ L!LobbyAssumption

caches == <<auction, round, cache, fills, refresh, rebuilds, lobby, starting, bid, feed, count,
            stale, undropped, unseen>>

dashboard == <<auctions, copy, due, connected, losses, asked, queued, sent, page, moves>>

MCInit == Init /\ C!Init /\ L!Init /\ part \in {"live", "caches", "lobby"}

MCNext ==
    \/ part = "live" /\ Next /\ UNCHANGED <<caches, dashboard, part>>
    \/ part = "caches" /\ C!Next /\ UNCHANGED <<vars, dashboard, part>>
    \/ part = "lobby" /\ L!Next /\ UNCHANGED <<vars, caches, part>>

\* The fairness of Live and of Lobby, each for the behaviours in which it moves.
MCFairness ==
    /\ WF_vars(part = "live" /\ SnapshotWorks)
    /\ WF_vars(part = "live" /\ Connect) /\ WF_vars(part = "live" /\ Resync)
    /\ part = "lobby" => L!Fairness

MCSpec == MCInit /\ [][MCNext]_<<vars, caches, dashboard, part>> /\ MCFairness

TypesOK == TypeOK /\ C!TypeOK /\ L!TypeOK

\* What is cached is fresh unless a reader was overtaken: see Caches.
StaleOnlyIfOvertaken == C!StaleOnlyIfOvertaken

\* The lobby was last sent what the database has: see Caches.
LobbyShowsLatest == part = "caches" => C!LobbyShowsLatest

\* The first page of all auctions is shown in the end: see Lobby.
AllShownInTheEnd == part = "lobby" => L!AllShownInTheEnd
=============================================================================
