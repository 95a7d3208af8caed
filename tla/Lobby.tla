------------------------------- MODULE Lobby -------------------------------
(***************************************************************************)
(* The lobby as a reader sees it: the dashboard's list of auctions, which  *)
(* is asked for page by page over the websocket, and the snapshots that    *)
(* the server sends to everybody in the lobby room after a change.         *)
(*                                                                         *)
(* Redis keeps copies of what the rebuilds and the readers have read.  A   *)
(* request reads and is answered later: an older snapshot may follow a     *)
(* newer one, and be kept for half a minute.  What has been sent arrives   *)
(* in order, or is lost with the connection.  A snapshot shows unless its  *)
(* tab is not the one that is open, or its page is neither the first nor   *)
(* the last that was asked for.                                            *)
(*                                                                         *)
(* Left out: the rebuild's own steps (see Caches), that socket.io gives up *)
(* after five attempts (see Live), the history tab, which is like the      *)
(* active one, and the order of startedAt, which is taken to be that of    *)
(* createdAt.                                                              *)
(***************************************************************************)
EXTENDS Naturals, Sequences, SequencesExt

CONSTANTS
    PageSize,    \* pageSize and DEFAULT_LIMIT
    MaxShifts,  \* bound: auctions that start or end
    MaxMoves,    \* bound: tabs opened, pages asked for and returns to the dashboard
    MaxLosses    \* bound: connections lost

\* What the constants are; the module that instantiates this one assumes it.
LobbyAssumption ==
    PageSize \in Nat \ {0} /\ {MaxShifts, MaxMoves, MaxLosses} \subseteq Nat

VARIABLES
    auctions,  \* the auctions that are not drafts, newest first: [id, active]
    copy,      \* the auctions as of what Redis keeps, or nothing
    due,       \* lobbyRefreshTimer is set
    connected, \* the socket is
    losses,    \* connections lost so far
    asked,     \* requests the server has not answered
    queued,    \* pendingLobbySync: what to ask when connected, or none
    sent,      \* what the server has sent and has not arrived
    page,      \* the state of the dashboard
    moves      \* what the reader has done so far

link == <<connected, losses, asked, queued, sent>>
vars == <<auctions, copy, due, link, page, moves>>

Tabs == {"active", "all"}

-----------------------------------------------------------------------------
(* The server's pages. *)

\* getFilter
Listed(tab, list) == SelectSeq(list, LAMBDA a : tab = "all" \/ a.active)

TotalPages(tab, list) == (Len(Listed(tab, list)) + PageSize - 1) \div PageSize

Snapshot(tab, number, list) ==
    [tab |-> tab, number |-> number, total |-> TotalPages(tab, list),
     data |-> SubSeq(Listed(tab, list), (number - 1) * PageSize + 1,
                     IF number * PageSize < Len(Listed(tab, list))
                     THEN number * PageSize ELSE Len(Listed(tab, list)))]

\* rebuildAll: every page of every tab, and the first of a tab that has none.
AllOf(tab, list) ==
    [n \in 1..(IF TotalPages(tab, list) = 0 THEN 1 ELSE TotalPages(tab, list)) |->
        Snapshot(tab, n, list)]
RebuiltFrom(list) == AllOf("active", list) \o AllOf("all", list)

\* Fault: a request without a tab is one for the active auctions.
ActiveOf(request) == [request EXCEPT !.tab = IF @ = "none" THEN "active" ELSE @]

\* handleSyncLobby: the tab that is answered with.
DefaultsOf(request) == [request EXCEPT !.tab = IF @ = "none" THEN "all" ELSE @]

-----------------------------------------------------------------------------
(* The dashboard. *)

\* The first request is made with the dashboard's first effects.
Fresh(tab, more) ==
    [tab |-> tab, list |-> <<>>, loading |-> TRUE, more |-> more, loadingMore |-> FALSE,
     current |-> 1]

\* read: what the server has found for it, and whether Redis had nothing
Request(tab, number) == [tab |-> tab, number |-> number, read |-> {}]
NoRequest == Request("none", 0)

\* syncLobby: while there is no connection only the last request is kept.
Syncs(requests) ==
    IF connected THEN asked' = asked \o requests /\ UNCHANGED queued
    ELSE queued' = Last(requests) /\ UNCHANGED asked

\* onLobbySnapshot, for the first page ...
WithFirst(p, s) ==
    [p EXCEPT !.list = IF p.current = 1 THEN s.data
                       ELSE s.data \o SubSeq(p.list, PageSize + 1, Len(p.list)),
              !.more = 1 < s.total, !.loading = FALSE, !.loadingMore = FALSE]

\* ... and for the one that was asked for last.
WithPage(p, s) ==
    LET start == (s.number - 1) * PageSize
        spliced == IF start >= Len(p.list) THEN p.list \o s.data
                   ELSE SubSeq(p.list, 1, start) \o s.data
                        \o SubSeq(p.list, start + Len(s.data) + 1, Len(p.list))
    IN [p EXCEPT !.list = spliced, !.more = s.number < s.total, !.loadingMore = FALSE]

Shown(p, s) ==
    CASE s.tab = p.tab /\ s.number = 1 -> WithFirst(p, s)
      [] s.tab = p.tab /\ s.number = p.current /\ s.number # 1 -> WithPage(p, s)
      [] OTHER -> p

\* onAuctionUpdated: the auction, where it stands in the list.
Updated(p, a) == [p EXCEPT !.list = [i \in DOMAIN @ |-> IF @[i].id = a.id THEN a ELSE @[i]]]

-----------------------------------------------------------------------------

Init ==
    /\ auctions = <<>> /\ copy = {} /\ due = FALSE
    /\ connected = FALSE /\ losses = 0
    /\ asked = <<>> /\ queued = Request("active", 1) /\ sent = <<>>
    /\ page = Fresh("active", TRUE) /\ moves = 0

\* The lobby room: joinLobby, and handleReconnect after a connection.
Heard(messages) == sent' = IF connected THEN sent \o messages ELSE sent

Changes == Len(auctions) + Len(SelectSeq(auctions, LAMBDA a : ~a.active))

\* A change waits for the rebuild of the one before (a bound; Caches has them together).
Starts ==
    /\ ~due /\ Changes < MaxShifts
    /\ auctions' = <<[id |-> Len(auctions) + 1, active |-> TRUE]>> \o auctions
    /\ due' = TRUE
    /\ UNCHANGED <<copy, link, page, moves>>

\* emitLobbyAuctionUpdate: the auction as findById has it.
Update(a) == [update |-> a]

\* AuctionUpdated of a completed auction reaches the lobby before the rebuild, perhaps with
\* an old copy of the auction (see Caches).
Ends(i) ==
    /\ ~due /\ Changes < MaxShifts /\ auctions[i].active
    /\ auctions' = [auctions EXCEPT ![i].active = FALSE]
    /\ due' = TRUE
    /\ \E seen \in {auctions[i], auctions'[i]} : Heard(<<Update(seen)>>)
    /\ UNCHANGED <<copy, connected, losses, asked, queued, page, moves>>

\* refreshLobbySnapshots, 150 ms later; what was sent before has arrived by then (a bound)
Rebuilds ==
    /\ due /\ sent = <<>> /\ due' = FALSE
    /\ copy' = {auctions}
    /\ Heard([n \in DOMAIN RebuiltFrom(auctions) |-> [snapshot |-> RebuiltFrom(auctions)[n]]])
    /\ UNCHANGED <<auctions, connected, losses, asked, queued, page, moves>>

\* getOrSet: a page that Redis has is taken from there; each has its own key, so that
\* another may be missing.  One request reads at a time (a bound).
Finds(i) ==
    /\ \A k \in DOMAIN asked : asked[k].read = {}
    /\ \E found \in {[list |-> auctions, missed |-> TRUE]}
                     \cup {[list |-> list, missed |-> FALSE] : list \in copy} :
         asked' = [asked EXCEPT ![i].read = {found}]
    /\ UNCHANGED <<auctions, copy, due, connected, losses, queued, sent, page, moves>>

\* sync:lobby is answered, and what had to be read is kept.
Answers(i) ==
    /\ \E found \in asked[i].read :
         LET r == DefaultsOf(asked[i])
         IN /\ sent' = Append(sent, [snapshot |-> Snapshot(r.tab, r.number, found.list)])
            /\ copy' = IF found.missed THEN {found.list} ELSE copy
    /\ asked' = RemoveAt(asked, i)
    /\ UNCHANGED <<auctions, due, connected, losses, queued, page, moves>>

Arrives ==
    /\ sent # <<>> /\ sent' = Tail(sent)
    /\ page' = LET m == Head(sent)
               IN IF "snapshot" \in DOMAIN m THEN Shown(page, m.snapshot)
                  ELSE Updated(page, m.update)
    /\ UNCHANGED <<auctions, copy, due, connected, losses, asked, queued, moves>>

\* 'connect': the room is joined again and what was kept is asked.
Connects ==
    /\ ~connected /\ connected' = TRUE
    /\ asked' = IF queued = NoRequest THEN <<>> ELSE <<queued>>
    /\ queued' = NoRequest
    /\ UNCHANGED <<auctions, copy, due, losses, sent, page, moves>>

Disconnects ==
    /\ connected /\ losses < MaxLosses
    /\ connected' = FALSE /\ losses' = losses + 1
    /\ asked' = <<>> /\ sent' = <<>>
    /\ UNCHANGED <<auctions, copy, due, queued, page, moves>>

\* startResyncCheck: nothing has come for 30 s, and the manager asks for what it does not
\* know the tab of.  What Redis kept has expired by then: CACHE_TTL.LOBBY is 30 s too.
Resyncs ==
    /\ connected /\ asked = <<>> /\ sent = <<>> /\ ~due
    /\ Syncs(<<Request("none", 1)>>)
    /\ copy' = {}
    /\ UNCHANGED <<auctions, due, connected, losses, sent, page, moves>>

-----------------------------------------------------------------------------
(* The reader.  While the dashboard is loading there is nothing to click on. *)

Moves == moves < MaxMoves /\ moves' = moves + 1

\* The dashboard is left and opened again: what came in between is not shown.
Returns ==
    /\ Moves
    /\ page' = Fresh("active", TRUE)
    /\ sent' \in {sent, <<>>}
    /\ Syncs(<<Request("active", 1)>>)
    /\ UNCHANGED <<auctions, copy, due, connected, losses>>

\* The effects of activeTab and of currentPage: the new tab is asked for the old page first.
Switches(tab) ==
    /\ ~page.loading /\ tab # page.tab /\ Moves
    /\ page' = [Fresh(tab, page.more) EXCEPT !.loadingMore = page.loadingMore]
    /\ Syncs(IF page.current = 1 THEN <<Request(tab, 1)>>
             ELSE <<Request(tab, page.current), Request(tab, 1)>>)
    /\ UNCHANGED <<auctions, copy, due, connected, losses, sent>>

\* handleLoadMore, of a list that has something in it
LoadsMore ==
    /\ ~page.loading /\ page.list # <<>> /\ page.more /\ ~page.loadingMore /\ Moves
    /\ page' = [page EXCEPT !.loadingMore = TRUE, !.current = @ + 1]
    /\ Syncs(<<Request(page.tab, page.current + 1)>>)
    /\ UNCHANGED <<auctions, copy, due, connected, losses, sent>>

-----------------------------------------------------------------------------

Answering == \E i \in DOMAIN asked : Finds(i) \/ Answers(i)

Next ==
    \/ Starts \/ Rebuilds \/ Answering \/ Arrives
    \/ Connects \/ Disconnects \/ Resyncs
    \/ Returns \/ LoadsMore
    \/ \E i \in DOMAIN auctions : Ends(i)
    \/ \E tab \in Tabs : Switches(tab)

\* The timers, the server and a connection that is tried again; nothing of the reader, and
\* no change of the auctions.
Fairness ==
    /\ WF_vars(Rebuilds) /\ WF_vars(Answering) /\ WF_vars(Arrives)
    /\ WF_vars(Connects) /\ WF_vars(Resyncs)

-----------------------------------------------------------------------------
(* Properties. *)

TypeOK ==
    /\ auctions \in Seq([id : Nat, active : BOOLEAN]) /\ \A list \in copy : list \in Seq([id : Nat, active : BOOLEAN])
    /\ {due, connected} \subseteq BOOLEAN
    /\ \A r \in Range(asked) \cup {queued} : r.tab \in Tabs \cup {"none"} /\ r.number \in 0..MaxMoves + 1
    /\ page.tab \in Tabs /\ page.list \in Seq([id : Nat, active : BOOLEAN])

FirstOfAll == Snapshot("all", 1, auctions).data

\* A reader who stays with the tab of all auctions is in the end shown its first page as it
\* is, whatever snapshots and connections were lost, overtaken or answered from old copies:
\* after a silence the manager asks for that page (ws-manager.ts, startResyncCheck).  It asks
\* for no other tab: a reader of the active auctions whose answer was lost goes on reading
\* "Loading...".
AllShownInTheEnd ==
    <>[](page.tab = "all" =>
            ~page.loading /\ IsPrefix(FirstOfAll, page.list))
=============================================================================
