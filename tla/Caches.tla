------------------------------- MODULE Caches -------------------------------
(***************************************************************************)
(* What Redis keeps of an auction, and what the lobby shows.               *)
(*                                                                         *)
(* Readers look a key up, read the database when it is missing and store   *)
(* what they read.  Writers drop the keys of what they changed, most of    *)
(* them only when the event of the write reaches CacheEventsHandler, and   *)
(* every change of the lobby arms a timer that rebuilds its snapshots and  *)
(* sends them to the lobby room.  Redis errors are swallowed: a get that   *)
(* fails is a miss, a set or a delete that fails does nothing.  The        *)
(* lobby's own keys, kept for 30 s for those who join it, are left out.    *)
(*                                                                         *)
(* Bids commit in the API process or in backend-worker.  Both have a       *)
(* CacheEventsHandler; only the API process has the lobby's timer.         *)
(***************************************************************************)
EXTENDS Integers, Sequences, FiniteSets, SequencesExt

CONSTANTS
    TotalRounds,
    Tab,            \* a tab of the lobby; rebuildAll takes them one after the other
    MaxFills,       \* bound: values read to be stored by readers
    MaxRebuilds,    \* bound: rebuilds that run at once
    MaxBids,        \* bound: late bids
    MaxErrors       \* bound: Redis calls that fail

\* What the constants are; the module that instantiates this one assumes it.
CachesAssumption ==
    /\ TotalRounds \in Nat \ {0}
    /\ Tab \in {"active", "all", "history"}
    /\ {MaxFills, MaxRebuilds, MaxBids, MaxErrors} \subseteq Nat

VARIABLES
    auction,    \* the document: [status, round]
    round,      \* the active round: [number, extended], or NoRound
    cache,      \* key -> the value stored, or Nothing
    fills,      \* readers between their query and their set: [key, value]
    timer,      \* lobbyRefreshTimer is set
    rebuilds,   \* rebuildAll calls that are running, in the order they began
    lobby,      \* the snapshot of the tab last sent to the lobby room, or Nothing
    starting,   \* how far AuctionsService.start has come
    bid,        \* a late bid between its commit and its events: its process, or none
    feed,       \* events of completions that the outbox will emit
    count,      \* fills, bids and errors so far
    overtaken,  \* history: keys whose value was old when it was stored
    undropped,  \* history: a delete failed
    unseen      \* history: rebuilds overlapped, or the lobby missed an event

db == <<auction, round>>
history == <<overtaken, undropped, unseen>>
vars == <<db, cache, fills, timer, rebuilds, lobby, starting, bid, feed, count, history>>

NoRound == [number |-> 0, extended |-> FALSE]
NoAuction == [status |-> "none", round |-> 0]

\* A stored value holds an auction, a round or, in the lobby, both.
Value(a, r) == [a |-> a, r |-> r]
Nothing == Value(NoAuction, NoRound)

Keys == {"auction", "current-round"}

-----------------------------------------------------------------------------
(* What a reader gets from the database. *)

Statuses(tab) ==
    CASE tab = "active" -> {"active"}
      [] tab = "history" -> {"completed", "cancelled"}
      [] OTHER -> {"active", "completed", "cancelled"}

\* A page of one auction: it is listed, with the end of its round, or it is not.
Snapshot(tab, a, r) ==
    IF a.status \in Statuses(tab) THEN Value(a, IF tab = "history" THEN NoRound ELSE r)
    ELSE Value([NoAuction EXCEPT !.status = "unlisted"], NoRound)

Fresh(key) == IF key = "auction" THEN Value(auction, NoRound) ELSE Value(NoAuction, round)

-----------------------------------------------------------------------------
(* Redis. *)

Error == count.errors < MaxErrors /\ count' = [count EXCEPT !.errors = @ + 1]

\* CacheService.delete.
Dropping(keys) ==
    \/ /\ cache' = [k \in Keys |-> IF k \in keys THEN Nothing ELSE cache[k]]
       /\ overtaken' = overtaken \ keys
       /\ UNCHANGED <<count, undropped>>
    \/ Error /\ undropped' = TRUE /\ UNCHANGED <<cache, overtaken>>

\* CacheService.set, which does not know how old the value is.
Storing(f) ==
    \/ /\ cache' = [cache EXCEPT ![f.key] = f.value]
       /\ overtaken' = IF f.value = Fresh(f.key) THEN overtaken \ {f.key} ELSE overtaken \union {f.key}
       /\ UNCHANGED count
    \/ Error /\ UNCHANGED <<cache, overtaken>>

\* Fault: the end of a round drops the round only.
DroppedRoundOnly(event) ==
    IF event \in {"BidPlaced", "AuctionUpdated"} THEN Keys ELSE {"current-round"}

\* CacheEventsHandler: the keys an event drops.
Dropped(event) ==
    IF event \in {"BidPlaced", "RoundEnded", "AuctionUpdated"} THEN Keys ELSE {"current-round"}

\* Fault: while a rebuild runs no timer is set.
ScheduledUnlessRunning == timer \/ rebuilds = <<>>

\* scheduleLobbyRefresh, on every event used here.
Scheduled == TRUE

\* An event in the process that emits it.
Emitted(event, where) ==
    /\ Dropping(Dropped(event))
    /\ IF where = "api" THEN timer' = Scheduled /\ UNCHANGED unseen
       ELSE unseen' = TRUE /\ UNCHANGED timer

-----------------------------------------------------------------------------

TypeOK ==
    /\ auction.status \in {"draft", "active", "completed"} /\ auction.round \in 0..TotalRounds
    /\ round.number \in 0..TotalRounds /\ round.extended \in BOOLEAN
    /\ DOMAIN cache = Keys /\ timer \in BOOLEAN /\ overtaken \subseteq Keys
    /\ \A f \in Range(fills) : f.key \in Keys
    /\ Len(rebuilds) <= MaxRebuilds
    /\ \A b \in Range(rebuilds) : b.ready \in BOOLEAN /\ b.r # NoRound => b.ready
    /\ starting \in {"no", "checked", "activated", "invalidated", "created", "done"}
    /\ bid \in {"none", "api", "worker"}
    /\ Range(feed) \subseteq {"RoundEnded", "RoundStarted", "AuctionUpdated"}

Init ==
    /\ auction = [status |-> "draft", round |-> 0]
    /\ round = NoRound
    /\ cache = [k \in Keys |-> Nothing]
    /\ fills = <<>> /\ rebuilds = <<>>
    /\ timer = FALSE
    /\ lobby = Nothing
    /\ starting = "no" /\ bid = "none" /\ feed = <<>>
    /\ count = [fills |-> 0, bids |-> 0, errors |-> 0]
    /\ overtaken = {} /\ undropped = FALSE /\ unseen = FALSE

-----------------------------------------------------------------------------
(* The writers.  That a delete takes a while is covered by the time between a write and its *)
(* event.                                                                                   *)

readersUnchanged == UNCHANGED <<fills, rebuilds, lobby>>
cachesUnchanged == readersUnchanged /\ UNCHANGED <<cache, history>>

\* AuctionsService.start: the check, ...
StartChecks ==
    /\ starting = "no" /\ auction.status = "draft"
    /\ starting' = "checked"
    /\ cachesUnchanged /\ UNCHANGED <<db, timer, bid, feed, count>>

\* ... the update, ...
StartActivates ==
    /\ starting = "checked"
    /\ auction' = [status |-> "active", round |-> 1]
    /\ starting' = "activated"
    /\ cachesUnchanged /\ UNCHANGED <<round, timer, bid, feed, count>>

\* ... the keys of the auction, ...
StartInvalidates ==
    /\ starting = "activated"
    /\ Dropping(Keys)
    /\ starting' = "invalidated"
    /\ readersUnchanged /\ UNCHANGED <<db, timer, bid, feed, unseen>>

\* ... the first round, ...
StartCreates ==
    /\ starting = "invalidated"
    /\ round' = [number |-> 1, extended |-> FALSE]
    /\ starting' = "created"
    /\ cachesUnchanged /\ UNCHANGED <<auction, timer, bid, feed, count>>

\* ... its key, RoundStarted and AuctionUpdated.
StartPublishes ==
    /\ starting = "created"
    /\ Emitted("AuctionUpdated", "api")
    /\ starting' = "done"
    /\ readersUnchanged /\ UNCHANGED <<db, bid, feed>>

\* A late bid commits and extends the round.  Bids that do not extend it change nothing that
\* is kept here.
BidCommits(where) ==
    /\ round # NoRound /\ ~round.extended
    /\ bid = "none" /\ count.bids < MaxBids
    /\ bid' = where
    /\ round' = [round EXCEPT !.extended = TRUE]
    /\ count' = [count EXCEPT !.bids = @ + 1]
    /\ cachesUnchanged /\ UNCHANGED <<auction, timer, starting, feed>>

\* RoundExtended and BidPlaced.
BidPublishes ==
    /\ bid # "none"
    /\ bid' = "none"
    /\ Emitted("BidPlaced", bid)
    /\ readersUnchanged /\ UNCHANGED <<db, starting, feed>>

\* A placeBid that met the end of a round it had from the cache drops the key.
BidDropsStaleRound ==
    /\ cache["current-round"] \notin {Nothing, Fresh("current-round")}
    /\ Dropping({"current-round"})
    /\ readersUnchanged /\ UNCHANGED <<db, timer, starting, bid, feed, unseen>>

\* The transaction of a completion; its events are in the outbox.  A round lasts longer than
\* the dispatch of the events of the one before.
RoundCompletes ==
    /\ round # NoRound /\ feed = <<>>
    /\ IF round.number < TotalRounds
       THEN /\ round' = [number |-> round.number + 1, extended |-> FALSE]
            /\ auction' = [auction EXCEPT !.round = round.number + 1]
            /\ feed' = <<"RoundEnded", "RoundStarted">>
       ELSE /\ round' = NoRound
            /\ auction' = [auction EXCEPT !.status = "completed"]
            /\ feed' = <<"RoundEnded", "AuctionUpdated">>
    /\ cachesUnchanged /\ UNCHANGED <<timer, starting, bid, count>>

\* The dispatcher, which runs in the API process.
FeedEmits ==
    /\ feed # <<>>
    /\ Emitted(Head(feed), "api")
    /\ feed' = Tail(feed)
    /\ readersUnchanged /\ UNCHANGED <<db, starting, bid>>

-----------------------------------------------------------------------------
(* The readers. *)

writersUnchanged == UNCHANGED <<db, starting, bid, feed>>

\* findById, getAuctionCached and getActiveRoundCached: the key is not there, or
\* the get fails.  Without an active round there is nothing to store.
Miss(k) ==
    /\ count.fills < MaxFills /\ Fresh(k) # Nothing
    /\ \/ cache[k] = Nothing /\ count' = [count EXCEPT !.fills = @ + 1]
       \/ cache[k] # Nothing /\ count.errors < MaxErrors
          /\ count' = [count EXCEPT !.fills = @ + 1, !.errors = @ + 1]
    /\ fills' = Append(fills, [key |-> k, value |-> Fresh(k)])
    /\ writersUnchanged /\ UNCHANGED <<cache, timer, rebuilds, lobby, history>>

Set(i) ==
    /\ fills' = RemoveAt(fills, i)
    /\ Storing(fills[i])
    /\ writersUnchanged /\ UNCHANGED <<timer, rebuilds, lobby, undropped, unseen>>

\* SETEX: 300 s for the auction, 30 s for its round.
Expire(k) ==
    /\ cache[k] # Nothing
    /\ cache' = [cache EXCEPT ![k] = Nothing]
    /\ overtaken' = overtaken \ {k}
    /\ writersUnchanged /\ UNCHANGED <<fills, timer, rebuilds, lobby, count, undropped, unseen>>

-----------------------------------------------------------------------------
(* The lobby. *)

\* A page has been read; the rounds of its auctions are still to be.
Reading == [a |-> auction, r |-> NoRound, ready |-> FALSE]

\* 150 ms later, whether or not a rebuild is still running.
TimerFires ==
    /\ timer /\ Len(rebuilds) < MaxRebuilds
    /\ timer' = FALSE
    /\ rebuilds' = Append(rebuilds, Reading)
    /\ unseen' = (unseen \/ rebuilds # <<>>)
    /\ writersUnchanged /\ UNCHANGED <<cache, fills, lobby, count, overtaken, undropped>>

RebuildReads(b) ==
    /\ ~rebuilds[b].ready
    /\ rebuilds' = [rebuilds EXCEPT ![b].r = round, ![b].ready = TRUE]
    /\ writersUnchanged /\ UNCHANGED <<cache, fills, timer, lobby, count, history>>

\* After the last tab the snapshots are sent.
RebuildEnds(b) ==
    /\ rebuilds[b].ready
    /\ rebuilds' = RemoveAt(rebuilds, b)
    /\ lobby' = Snapshot(Tab, rebuilds[b].a, rebuilds[b].r)
    /\ writersUnchanged /\ UNCHANGED <<cache, fills, timer, count, history>>

-----------------------------------------------------------------------------

Writing ==
    \/ StartChecks \/ StartActivates \/ StartInvalidates \/ StartCreates \/ StartPublishes
    \/ BidPublishes \/ FeedEmits
Filling == \E i \in DOMAIN fills : Set(i)
Rebuilding == \E b \in DOMAIN rebuilds : RebuildReads(b) \/ RebuildEnds(b)

Next ==
    \/ Writing \/ Filling \/ TimerFires \/ Rebuilding
    \/ \E where \in {"api", "worker"} : BidCommits(where)
    \/ BidDropsStaleRound
    \/ RoundCompletes
    \/ \E k \in Keys : Miss(k) \/ Expire(k)

Spec == Init /\ [][Next]_vars

-----------------------------------------------------------------------------
(* Properties. *)

\* Nothing that changes or drops a key is on its way.
Settled == starting \in {"no", "done"} /\ bid = "none" /\ feed = <<>>

\* Once the events of every write have been handled, what is kept of the auction and of its
\* round is what the database has, unless it was stored by a reader that had read it before
\* the write and was overtaken by the deletes, or a delete failed (the deletes of start and
\* of cache-events.handler.ts cover every write).
StaleOnlyIfOvertaken ==
    Settled /\ ~undropped =>
        \A k \in Keys \ overtaken : cache[k] \in {Nothing, Fresh(k)}

\* When nothing is left to do, the lobby room was last sent what the database has, unless
\* two rebuilds overlapped or a round was extended by backend-worker, whose events the lobby
\* never sees (websocket-events.handler.ts: the timer an event sets reads after the write,
\* and an event that finds the timer set is covered by it).
LobbyShowsLatest ==
    Settled /\ starting = "done" /\ ~timer /\ rebuilds = <<>> /\ ~unseen =>
        lobby = Snapshot(Tab, auction, round)
=============================================================================
